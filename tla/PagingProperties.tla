-------------------------- MODULE PagingProperties --------------------------
(***************************************************************************)
(* What the virtual memory of working/ promises, and the inductive         *)
(* invariant that carries the proofs of PagingProofs.                      *)
(***************************************************************************)
EXTENDS Paging

\* Every variable has its type: size and the hand stay within the frames, the
\* requested page within the page table, pf_count within its width.
TypeOK ==
  /\ flags \in [Pages -> SUBSET PTF]
  /\ frame \in [Pages -> Frames \union {VOID_IDX}]
  /\ framepage \in [Frames -> Pages \union {VOID_IDX}]
  /\ size \in 0 .. NFrames
  /\ next_alloc_idx \in Frames
  /\ pf_count \in 0 .. CountMod - 1
  /\ req_pageno \in Pages \union {VOID_IDX}
  /\ sema \in Nat
  /\ data \in [Frames -> [Offsets -> Values \union {VOID_IDX}]]
  /\ pagefile \in [Pages -> [Offsets -> Values \union {VOID_IDX}]]
  /\ usr1 \in BOOLEAN
  /\ mm \in {"pause", "search", "evict", "remap", "fetch", "post", "return"}
  /\ req_page \in Pages \union {VOID_IDX}
  /\ new_frame \in Frames \union {VOID_IDX}
  /\ pc \in [Clients -> {"idle", "check", "kill", "wait", "touch", "transfer"}]
  /\ request \in [Clients -> Calls \union {NoRequest}]
  /\ result \in [Clients -> Values \union {VOID_IDX}]
  /\ wild \in BOOLEAN

-----------------------------------------------------------------------------
(* Page table, frames and page file *)

\* The two directions of the table agree at every moment, also in the middle
\* of a page fault: a frame's page is present and points back at the frame,
\* and an absent page has lost its flags and its frame (mmanage.c:322-346).
TablesInverse ==
  /\ \A f \in Frames : framepage[f] # VOID_IDX =>
       /\ frame[framepage[f]] = f
       /\ Present(framepage[f])
  /\ \A p \in Pages : Present(p) =>
       /\ frame[p] \in Frames
       /\ framepage[frame[p]] = p
  /\ \A p \in Pages : ~Present(p) => flags[p] = {} /\ frame[p] = VOID_IDX

\* The page's content in its frame is the one the client sees: only the page
\* being fetched right now is mapped before its data has arrived.
Loaded(p) == Present(p) /\ ~(mm = "fetch" /\ p = req_page)

\* store_page skips a page without the CHANGED bit (mmanage.c:259-260): such
\* a page must equal its copy in the page file, whatever happened since.
CleanPagesMatchPagefile ==
  \A p \in Pages : Loaded(p) /\ "CHANGED" \notin flags[p]
                     => data[frame[p]] = pagefile[p]

\* No access goes outside the arrays of shared memory.  Frame -1, page -1 and
\* the write-back of entries[-1] (mmanage.c:125-127, 260) are within reach of
\* the code; with one client it is only the order of steps that keeps the
\* program from touching them.
NoWildAccess == ~wild

-----------------------------------------------------------------------------
(* The handshake of SIGUSR1 and the semaphore *)

Waiting == {c \in Clients : pc[c] = "wait"}

ServesFault == mm \notin {"pause", "return"}

\* Answers under way: a pending signal, a handler before its sem_post, and
\* posts no one has consumed.
Answers == (IF usr1 THEN 1 ELSE 0) + (IF ServesFault THEN 1 ELSE 0) + sema

\* Every call that waits in sem_wait has exactly one answer under way, and no
\* post is left over that would let a later fault through unserved.  (One
\* client.)
OneAnswerPerFault == Answers = Cardinality(Waiting)

\* With several clients: no more posts than calls that wait for one.
NoSurplusAnswer == Answers <= Cardinality(Waiting)

\* A client that goes on to its data, woken or not, finds the page in memory
\* (vmem.h:90-91: the semaphore is "for the waiting during Pagefault" and is
\* to "Coordinate acces to shm").
ServedPageIsPresent ==
  \A c \in Clients : pc[c] \in {"touch", "transfer"} => Present(Page(c))

-----------------------------------------------------------------------------
(* Refinement: clients see a flat array (vmaccess.c:49-132). *)

\* Where the current content of a page is: in its frame, or on disk.
PageView(p) == IF Loaded(p) THEN data[frame[p]] ELSE pagefile[p]

\* What a read of address a would return if it could run now.
FlatView == [a \in Addresses |-> PageView(PageOf(a))[OffsetOf(a)]]

Flat == INSTANCE FlatMemory WITH NoValue <- VOID_IDX, mem <- FlatView

\* Reads return what was last written, through any sequence of evictions,
\* write-backs and reloads.
ImplementsFlatMemory == Flat!Spec

-----------------------------------------------------------------------------
(* Refinement: the replacement policy (mmanage.c:193-256, 283-319). *)

MaxChances == CASE Algo = "FIFO" -> 0 [] Algo = "CLOCK" -> 1
                [] Algo = "CLOCK2" -> 2

\* How often the hand will still pass a page with the flags fl.
ChancesIn(fl) == IF Algo = "FIFO" \/ "USEDBIT1" \notin fl THEN 0
                 ELSE IF Algo = "CLOCK2" /\ "USEDBIT2" \in fl THEN 2 ELSE 1

Chances(p) == ChancesIn(flags[p])

\* The order in which the hand will meet the frames.  It has already moved
\* past a victim that is still mapped.
Evicting == mm \in {"evict", "remap"} /\ framepage[new_frame] # VOID_IDX

Front == IF Evicting THEN new_frame ELSE next_alloc_idx

\* The page the hand will meet as the i-th.
PageAhead(i) == framepage[(Front + i - 1) % NFrames]

QueueEntry(p) == [page |-> p, chances |-> Chances(p)]

ReplacementQueue ==
  [i \in 1 .. Cardinality({f \in Frames : framepage[f] # VOID_IDX}) |->
     QueueEntry(PageAhead(i))]

Policy == INSTANCE SecondChance
            WITH Capacity <- NFrames, queue <- ReplacementQueue

\* The hand over the frames, the used bits and update_pt together choose the
\* victim that the second-chance queue chooses, for all three algorithms.
ImplementsSecondChance == Policy!Spec

-----------------------------------------------------------------------------
(* The inductive invariant, for any number of clients *)

\* TypeOK is not inductive: update_load indexes the table with
\* adm.req_pageno, and page_fault with its locals, and these start as -1.
LocalsInRange ==
  /\ \A c \in Clients : IF pc[c] = "idle" THEN request[c] = NoRequest
                         ELSE request[c] \in Calls /\ req_pageno \in Pages
  /\ usr1 \/ mm # "pause" => req_pageno \in Pages
  /\ ServesFault => req_page \in Pages
  /\ mm \in {"evict", "remap", "fetch", "post"} => new_frame \in Frames

TypeInv == TypeOK /\ LocalsInRange

-----------------------------------------------------------------------------
(* The inductive invariant, for one client *)

\* Frames are handed out in order, and only the one being filled is empty.
FillOrder ==
  /\ \A f \in Frames : f >= size => framepage[f] = VOID_IDX
  /\ \A f \in Frames : f < size /\ framepage[f] = VOID_IDX =>
       mm \in {"evict", "remap"} /\ new_frame = f
  /\ mm \in {"evict", "remap"} =>
       /\ new_frame < size
       /\ framepage[new_frame] # VOID_IDX => FramesAreOccupied

\* While frames are free, each fault counts to one and update_unload(-1)
\* takes it back: this is why the flag that store_page reads in entries[-1],
\* bit 2 of pf_count, is off when the last free frame is filled.
CountAtFill ==
  /\ ~FramesAreOccupied /\ mm \in {"pause", "fetch", "post", "return"} =>
       pf_count = 0
  /\ ~FramesAreOccupied /\ mm = "search" => pf_count = 1
  /\ mm \in {"evict", "remap"} /\ framepage[new_frame] = VOID_IDX =>
       pf_count = 1

\* Between store_page and update_pt the victim can be dropped.
VictimIsSaved ==
  mm = "remap" /\ framepage[new_frame] # VOID_IDX =>
    data[new_frame] = pagefile[framepage[new_frame]]

\* write_page marks the page before it changes the data.
WriteIsMarked ==
  \A c \in Clients : pc[c] = "transfer" /\ request[c].op = "write"
                       => "CHANGED" \in flags[Page(c)]

\* Where the manager is while the client runs, faults and waits.
Quiet == ~ServesFault /\ ~usr1 /\ sema = 0

Handshake ==
  \A c \in Clients :
    /\ pc[c] # "wait" => Quiet
    /\ pc[c] \in {"check", "kill", "wait"} => req_pageno = Page(c)
    /\ pc[c] = "kill" => ~Present(Page(c))
    /\ pc[c] = "wait" =>
         \/ usr1 /\ ~ServesFault /\ sema = 0 /\ ~Present(Page(c))
         \/ /\ ~usr1 /\ ServesFault /\ sema = 0
            /\ req_page = Page(c)
            /\ Present(Page(c)) <=> mm \in {"fetch", "post"}
         \/ ~usr1 /\ ~ServesFault /\ sema = 1 /\ Present(Page(c))

\* The page tables, the page file and the handshake, together with what
\* carries them through the steps of a page fault.
PagingInv ==
  /\ TypeInv
  /\ NoWildAccess
  /\ TablesInverse
  /\ CleanPagesMatchPagefile
  /\ FillOrder
  /\ CountAtFill
  /\ VictimIsSaved
  /\ WriteIsMarked
  /\ Handshake
  /\ ServedPageIsPresent

\* A free frame has been handed out and holds no page yet.
Filling == mm \in {"evict", "remap"} /\ framepage[new_frame] = VOID_IDX

\* The frames that hold a page are the first QueueLength ones.
QueueLength == IF Filling THEN size - 1 ELSE size

\* The hand stays at frame 0 until the last free frame is filled; then it is
\* one past the frame it has chosen, whose page has no chance left.
HandPosition ==
  /\ ~FramesAreOccupied \/ Filling => next_alloc_idx = 0
  /\ Filling => new_frame = size - 1
  /\ Evicting => /\ next_alloc_idx = Rotated(new_frame)
                 /\ Chances(framepage[new_frame]) = 0

\* The second used bit is set after the first, and CLOCK2 takes it first.
UsedBitsInOrder ==
  Algo = "CLOCK2" => \A p \in Pages : "USEDBIT2" \in flags[p] => "USEDBIT1" \in flags[p]

\* What the refinement of the replacement policy rests on.
HandInv == PagingInv /\ HandPosition /\ UsedBitsInOrder

-----------------------------------------------------------------------------
(* Liveness *)

\* Every call of vmem_read or vmem_write returns: the clocks' search for a
\* victim ends, and the wake-up reaches the client.
RequestReturns == \A c \in Clients : pc[c] # "idle" ~> pc[c] = "idle"
=============================================================================
