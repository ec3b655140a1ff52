------------------------- MODULE BlockingProperties -------------------------
(* What the blocking translate device promises. *)
EXTENDS BlockingTranslate

WriterHolds == {u \in Users : pc[u] \in {"from user", "encode", "move write",
                                         "up items"}}
ReaderHolds == {u \in Users : pc[u] \in {"decode", "to user", "move read",
                                         "up free"}}

\* Each cell is free, filled or in the hands of one process: no failed copy
\* and no interrupted call loses one (translate.c:225, 258, 369, 379).  So a
\* reader and a writer are never blocked at the same time.
RoomIsAccountedFor ==
  loaded => freeBufferSpace + itemsInBuffer
              + Cardinality(WriterHolds) + Cardinality(ReaderHolds)
              = translate_bufsize

\* The use count follows the files through refused opens as well
\* (translate.c:84-118, 149): a module with open files stays, and one without
\* can be removed.
UseCountFollowsFiles ==
  /\ usage = 2 * Cardinality({u \in Users : pc[u] # "closed"})
  /\ usage > 0 => loaded

-----------------------------------------------------------------------------
(* Refinement: the queue of bytes of the final driver *)

FirstIsDecoded == \E u \in Users : pc[u] \in {"to user", "move read", "up free"}
FirstIsPassed  == \E u \in Users : pc[u] = "up free"

FirstPos == IF FirstIsPassed
              THEN (read_pos + translate_bufsize - 1) % translate_bufsize
              ELSE read_pos

\* A character is put with the up of itemsInBuffer, and got with the up of
\* freeBufferSpace.
QueueLength ==
  IF loaded THEN itemsInBuffer + Cardinality(ReaderHolds) ELSE 0

QueueView ==
  [i \in 1 .. QueueLength |->
     LET c == buffer[(FirstPos + i - 1) % translate_bufsize]
     IN IF minor = 1 /\ ~(i = 1 /\ FirstIsDecoded) THEN decode(c) ELSE c]

Writing(u) == pc[u] \in {"write", "from user", "encode", "move write", "up items"}

CallView == [u \in Users |-> IF Writing(u) THEN "write"
                             ELSE IF Reading(u) THEN "read" ELSE "none"]

GotView == [u \in Users |-> IF pc[u] \in {"move read", "up free"}
                              THEN SubSeq(got[u], 1, Len(got[u]) - 1)
                              ELSE got[u]]

Fifo == INSTANCE TranslateFifo
          WITH CaseSize <- 26, Size <- translate_bufsize,
               queue <- QueueView, call <- CallView, got <- GotView

Reload == loaded' # loaded /\ QueueView' = <<>> /\ UNCHANGED <<CallView, minor>>

\* Blocking or not, the device is the same queue of bytes as the final driver,
\* each translated once by the same table, until the module is removed, or until
\* two reads are under way at once: the readers' lock does not keep out a file
\* that is opened for reading and writing (translate.c:85).
ImplementsFifo ==
  Fifo!Init /\ [][overlapped' \/ Fifo!Next \/ Reload]_(Fifo!fifovars)

-----------------------------------------------------------------------------
(* Liveness *)

\* A read that finds a character, when it starts or while it waits, returns,
\* unless a second read passes it by, and so does a write that finds room:
\* whatever semaphore one side sleeps on, the other side's calls wake it.
CallsReturn ==
  \A u \in Users :
    /\ Reading(u) /\ QueueLength > 0 ~> ~Reading(u) \/ overlapped
    /\ Writing(u) /\ QueueLength < translate_bufsize ~> ~Writing(u)
=============================================================================
