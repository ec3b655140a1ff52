------------------------- MODULE TranslateProperties -------------------------
(***************************************************************************)
(* What the translate devices promise.                                     *)
(***************************************************************************)
EXTENDS TranslateDevice

WritePlaces == {"checkFull", "copyFrom", "encode", "moveWrite", "incItems"}

\* Every variable has its type: both pointers stay inside the buffer, the locks
\* are 0 or 1, and until calls overlap items is within 0 .. translate_bufsize.
TypeOK ==
  /\ minor \in {0, 1}
  /\ buffer \in [Cells -> Char]
  /\ items \in Int /\ (~overlapped => items \in 0 .. translate_bufsize)
  /\ {read_pos, write_pos} \subseteq Cells
  /\ {writer_open_lock, reader_open_lock} \subseteq {0, 1}
  /\ mode \in [Users -> Modes \union {"none"}]
  /\ pc \in [Users -> {"closed", "open"} \union WritePlaces \union ReadPlaces]
  /\ todo \in [Users -> Seq(Inputs)]
  /\ left \in [Users -> 0 .. MaxCount]
  /\ got \in [Users -> Seq(Char)]
  /\ pos \in [Users -> Cells]
  /\ loaded \in [Users -> Int]
  /\ overlapped \in BOOLEAN

-----------------------------------------------------------------------------
(* The codec *)

\* When translate0 has stored a character, decode_char gives back the one the
\* user wrote (translate.c:23-59, 139-143).  NUL is the exception: strchr finds
\* the end of the table.
StoredCharDecodes ==
  minor = 0 =>
    \A u \in Users : pc[u] = "moveWrite" /\ Head(todo[u]) # NUL =>
      decode_char(translate_subst, buffer[write_pos]) = Head(todo[u])

-----------------------------------------------------------------------------
(* Ports and positions *)

ReadPort  == {u \in Users : mode[u] \in {"r", "rw"}}
WritePort == {u \in Users : mode[u] \in {"w", "rw"}}

\* "only one user may use a devices read/write 'port' at a time"
\* (translate.h:44): two processes never hold files that can read the same
\* device, nor files that can write it.
PortsAreExclusive == /\ Cardinality(ReadPort) <= 1
                     /\ Cardinality(WritePort) <= 1

\* What the locks do ensure, over any opens and closes in any mode
\* (translate.c:72-106): one process at most can write, and one at most can do
\* nothing but read.  So there is no second reader but by a file that is opened
\* for reading and writing.
EachLockHasOneFile == /\ Cardinality(WritePort) <= 1
                      /\ Cardinality(ReadPort \ WritePort) <= 1

\* Characters in the buffer that items does not count any more, or not yet.
Uncounted == Cardinality({u \in Users : pc[u] = "incItems"})
           - Cardinality({u \in Users : pc[u] = "decItems"})

\* items is the "# of items" (translate.h:73) between the two pointers, apart
\* from the characters whose items++ or items-- has not been executed yet.
ItemsAreCounted ==
  (items + Uncounted - write_pos + read_pos) % translate_bufsize = 0

\* That is so however a reader and a writer interleave in their loops, until two
\* reads are under way at once or an items++ and an items-- overlap.
ItemsIsDistance == overlapped \/ ItemsAreCounted

-----------------------------------------------------------------------------
(* The inductive invariant *)

\* A process in a write has the device open for it, the lock of an open file is
\* taken, and no lock is held by two.
LockInv ==
  /\ \A u \in Users : /\ pc[u] = "closed" <=> mode[u] = "none"
                      /\ pc[u] \in WritePlaces => Writes(mode[u])
                      /\ Writes(mode[u]) => writer_open_lock = 0
                      /\ mode[u] = "r" => reader_open_lock = 0
  /\ \A u, v \in Users : /\ Writes(mode[u]) /\ Writes(mode[v]) => u = v
                         /\ mode[u] = "r" /\ mode[v] = "r" => u = v

\* What the loops tested of the locals still holds, and the writer, who is
\* alone, has the write pointer.
LoopInv ==
  \A u \in Users :
    /\ pc[u] \in WritePlaces => pos[u] = write_pos
    /\ pc[u] \in WritePlaces \ {"checkFull"} => todo[u] # <<>>
    /\ pc[u] \in ReadPlaces \ {"checkEmpty"} => left[u] > 0

\* In translate0 the reader leaves the writer's cell alone.
CellInv ==
  minor = 0 =>
    \A u \in Users :
      /\ pc[u] = "encode" => buffer[write_pos] = Head(todo[u])
      /\ pc[u] = "moveWrite" =>
           buffer[write_pos] = encode_char(translate_subst, Head(todo[u]))

\* Until calls overlap, the reader is alone as well, and so is the process that
\* counts if items++ takes time; what the loops tested of items still holds.
CallInv ==
  /\ \A u, v \in Users :
       /\ pc[u] \in ReadPlaces /\ pc[v] \in ReadPlaces => u = v
       /\ SMP /\ {pc[u], pc[v]} \subseteq {"incItems", "decItems"} => u = v
  /\ \A u \in Users :
       /\ pc[u] \in ReadPlaces => pos[u] = read_pos
       /\ pc[u] \in WritePlaces \ {"checkFull"} => items < translate_bufsize
       /\ pc[u] \in ReadPlaces \ {"checkEmpty"} => items > 0
       /\ pc[u] \in {"incItems", "decItems"} => Operand(u) = items

WriterAhead == IF \E u \in Users : pc[u] = "incItems" THEN 1 ELSE 0
ReaderAhead == IF \E u \in Users : pc[u] = "decItems" THEN 1 ELSE 0

\* How far the write pointer is ahead of the read pointer.
Distance == items + WriterAhead - ReaderAhead

DistanceInv == /\ Distance \in 0 .. translate_bufsize
               /\ write_pos \in {read_pos + Distance,
                                 read_pos + Distance - translate_bufsize}

\* What holds in every state.
FilesInv == TypeOK /\ LockInv /\ LoopInv /\ CellInv

\* The locks, the pointers and items, with what carries them through a
\* read and a write that go on at the same time.
DeviceInv == /\ TypeOK /\ LockInv /\ LoopInv /\ CellInv
             /\ ~overlapped /\ CallInv /\ DistanceInv

-----------------------------------------------------------------------------
(* Refinement: a queue of bytes *)

\* The reader has decoded the first character, and has it counted off next.
FirstIsDecoded == \E u \in Users : pc[u] \in {"copyTo", "moveRead", "decItems"}
FirstIsPassed  == \E u \in Users : pc[u] = "decItems"

FirstPos == IF FirstIsPassed
              THEN (read_pos + translate_bufsize - 1) % translate_bufsize
              ELSE read_pos

QueueView ==
  [i \in 1 .. items |->
     LET c == buffer[(FirstPos + i - 1) % translate_bufsize]
     IN IF minor = 1 /\ ~(i = 1 /\ FirstIsDecoded)
          THEN decode_char(translate_subst, c) ELSE c]

CallView == [u \in Users |-> CASE pc[u] \in WritePlaces -> "write"
                               [] pc[u] \in ReadPlaces  -> "read"
                               [] OTHER                 -> "none"]

\* A character is got when it is counted off.
GotView == [u \in Users |-> IF pc[u] \in {"moveRead", "decItems"}
                              THEN SubSeq(got[u], 1, Len(got[u]) - 1)
                              ELSE got[u]]

Fifo == INSTANCE TranslateFifo WITH Size <- translate_bufsize,
          queue <- QueueView, call <- CallView, got <- GotView

\* Bytes come out in the order in which they went in, each translated once,
\* while a reader and a writer work at the same time: none is lost, invented
\* or read before it has been encoded, and a call returns early only because
\* the buffer was full or empty (translate.c:109-201).  The driver keeps it up
\* until two reads are under way at once, or an items++ and an items-- overlap
\* on two processors.
ImplementsFifo ==
  Fifo!Init /\ [][overlapped' \/ Fifo!Next]_(Fifo!fifovars)
=============================================================================
