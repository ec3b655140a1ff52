-------------------------------- MODULE Probe --------------------------------
(***************************************************************************)
(* The virtual memory of probe/ (mmanage.c, vmaccess.c), which differs     *)
(* from working/ in three ways: one semaphore, initially 1, is the mutex   *)
(* of the clients and wakes them after a page fault; the handler goes by   *)
(* its argument, and does everything itself, dumping and quitting as well; *)
(* pages are replaced by LFU, FIFO or CLOCK.                               *)
(*                                                                         *)
(* The page file is one stdio stream.  A page is transferred by fseek and  *)
(* then fread or fwrite, and the handler of SIGUSR2, which reads the       *)
(* stream as well, may run in between.                                     *)
(*                                                                         *)
(* pf_count and g_count go only into the log and are left out; so is       *)
(* entries[-1], which update_pt clears for a frame that was free: it is    *)
(* the storage of g_count and of the bitmap, which nothing uses.           *)
(***************************************************************************)
EXTENDS Integers, FiniteSets

CONSTANTS Clients, NPages, NFrames,
          Values,    \* the ints in the memory
          OldValue,  \* the one that is everywhere in the page file at first
          Algos,     \* the builds that are looked at: -DLFU, -DFIFO, -DCLOCK
          MaxCalls,  \* bound on the calls of all clients together, where one
                     \* that begins beside another one counts twice
          DumpEnd    \* the page on which a dump leaves the stream

ASSUME ProbeAssumption == /\ NPages \in Nat \ {0} /\ NFrames \in Nat \ {0}
                          /\ Algos \subseteq {"LFU", "FIFO", "CLOCK"}
                          /\ OldValue \in Values /\ MaxCalls \in Nat
                          /\ DumpEnd \in 0 .. NPages - 1
                          /\ IsFiniteSet(Clients)

VOID_IDX == -1
Pages  == 0 .. NPages - 1
Frames == 0 .. NFrames - 1

VARIABLES
  algo,                                \* how the manager was compiled
  flags, frame, count,                 \* pt.entries
  framepage,                           \* pt.framepage
  size, next_alloc_idx, req_pageno, sema,  \* adm
  data_full,
  data, pagefile,                      \* one value per page
  filepos,                             \* the page the stream stands on in a transfer
  usr1,                                \* SIGUSR1 is pending
  mm, new_frame, oldpage,              \* the handler, and its locals
  pc, request, result,                 \* the clients
  wild,                                \* memory outside the arrays was touched
  calls,                               \* (history) the calls so far, for MaxCalls
  disturbed                            \* (history) two clients were in a call
                                       \* at once, a dump moved the stream under
                                       \* a transfer, or the manager quit in a fault

table   == <<flags, frame, count, framepage>>
adm     == <<size, next_alloc_idx, data_full>>
store   == <<data, pagefile>>
manager == <<mm, new_frame, oldpage>>
clients == <<pc, request, result, calls>>
vars == <<algo, table, adm, req_pageno, sema, store, filepos, usr1, manager,
          clients, wild, disturbed>>

NoRequest == [op |-> "none", page |-> 0, val |-> VOID_IDX]
Calls == [op : {"read"}, page : Pages, val : {VOID_IDX}] \union
         [op : {"write"}, page : Pages, val : Values \ {OldValue}]

Present(p) == "PRESENT" \in flags[p]

\* (Faulty: the semaphore starts at 0, as in working/.)
EmptySema == 0
\* init_semaphor
InitialSema == 1

Init ==
  /\ algo \in Algos
  /\ flags = [p \in Pages |-> {}] /\ frame = [p \in Pages |-> VOID_IDX]
  /\ count = [p \in Pages |-> 0]
  /\ framepage = [f \in Frames |-> VOID_IDX]
  /\ size = 0 /\ next_alloc_idx = 0 /\ data_full = FALSE
  /\ req_pageno = VOID_IDX /\ sema = InitialSema
  /\ data = [f \in Frames |-> VOID_IDX]
  /\ pagefile = [p \in Pages |-> OldValue]
  /\ filepos = VOID_IDX /\ usr1 = FALSE
  /\ mm = "pause" /\ new_frame = VOID_IDX /\ oldpage = VOID_IDX
  /\ pc = [c \in Clients |-> "idle"]
  /\ request = [c \in Clients |-> NoRequest]
  /\ result = [c \in Clients |-> VOID_IDX]
  /\ wild = FALSE /\ calls = 0 /\ disturbed = FALSE

-----------------------------------------------------------------------------
(* vmem_read and vmem_write *)

Goto(c, at) == pc' = [pc EXCEPT ![c] = at]
Page(c) == request[c].page

\* The call stores its page number before it has the semaphore.
BeginAccess(c) == \E r \in Calls :
  LET beside == \E d \in Clients \ {c} : pc[d] # "idle"
  IN /\ pc[c] = "idle"
     /\ calls' = calls + (IF beside THEN 2 ELSE 1) /\ calls' <= MaxCalls
     /\ request' = [request EXCEPT ![c] = r]
     /\ result' = [result EXCEPT ![c] = VOID_IDX]
     /\ req_pageno' = r.page
     /\ Goto(c, "lock")
     /\ disturbed' = (disturbed \/ beside)
     /\ UNCHANGED <<algo, table, adm, sema, store, filepos, usr1, manager, wild>>

\* The first sem_wait: the mutex.
Lock(c) == /\ pc[c] = "lock" /\ sema > 0
           /\ sema' = sema - 1
           /\ Goto(c, "check")
           /\ UNCHANGED <<algo, table, adm, req_pageno, store, filepos, usr1,
                          manager, request, result, wild, disturbed, calls>>

\* Where an access begins: a read marks its page first, a write the data.
FirstPart(c) == IF request[c].op = "read" THEN "mark" ELSE "transfer"

CheckPresent(c) == /\ pc[c] = "check"
                   /\ Goto(c, IF Present(Page(c)) THEN FirstPart(c) ELSE "kill")
                   /\ UNCHANGED <<algo, table, adm, req_pageno, sema, store,
                                  filepos, usr1, manager, request, result,
                                  wild, disturbed, calls>>

\* kill(mmanage_pid, SIGUSR1), which fails unnoticed if the manager has quit.
RaiseFault(c) == /\ pc[c] = "kill"
                 /\ usr1' = (mm # "gone")
                 /\ Goto(c, "wait")
                 /\ UNCHANGED <<algo, table, adm, req_pageno, sema, store,
                                filepos, manager, request, result, wild, disturbed, calls>>

\* The second sem_wait: the page should be there.
AwaitPage(c) == /\ pc[c] = "wait" /\ sema > 0
                /\ sema' = sema - 1
                /\ Goto(c, FirstPart(c))
                /\ UNCHANGED <<algo, table, adm, req_pageno, store, filepos, usr1,
                               manager, request, result, wild, disturbed, calls>>

\* The USED and DIRTY bits, and the counter of LFU, which counts only reads.
Mark(c) ==
  LET reads == request[c].op = "read"
  IN /\ pc[c] = "mark"
     /\ flags' = [flags EXCEPT ![Page(c)] =
                    @ \union (IF reads THEN {"USED"} ELSE {"USED", "DIRTY"})]
     /\ count' = IF reads THEN [count EXCEPT ![Page(c)] = @ + 1] ELSE count
     /\ Goto(c, IF reads THEN "transfer" ELSE "post")
     /\ UNCHANGED <<algo, frame, framepage, adm, req_pageno, sema, store, filepos,
                    usr1, manager, request, result, wild, disturbed, calls>>

\* The int is read or written, through the page's frame.
Transfer(c) ==
  LET r == request[c]
      f == frame[r.page]
  IN /\ pc[c] = "transfer"
     /\ wild' = (f \notin Frames)
     /\ data' = IF r.op = "write" /\ f \in Frames
                  THEN [data EXCEPT ![f] = r.val] ELSE data
     /\ result' = IF r.op = "read" /\ f \in Frames
                    THEN [result EXCEPT ![c] = data[f]] ELSE result
     /\ Goto(c, IF r.op = "read" THEN "post" ELSE "mark")
     /\ UNCHANGED <<algo, table, adm, req_pageno, sema, pagefile, filepos, usr1,
                    manager, request, disturbed, calls>>

\* (Faulty: the mutex is released only after a page fault.)
KeepMutex(c) == /\ pc[c] = "post"
                /\ request' = [request EXCEPT ![c] = NoRequest]
                /\ Goto(c, "idle")
                /\ UNCHANGED <<algo, table, adm, req_pageno, sema, store, filepos,
                               usr1, manager, result, wild, disturbed, calls>>

\* sem_post, and the return.
Unlock(c) == /\ pc[c] = "post"
             /\ sema' = sema + 1
             /\ request' = [request EXCEPT ![c] = NoRequest]
             /\ Goto(c, "idle")
             /\ UNCHANGED <<algo, table, adm, req_pageno, store, filepos, usr1,
                            manager, result, wild, disturbed, calls>>

-----------------------------------------------------------------------------
(* sighandler(SIGUSR1) *)

EnterFault == /\ mm = "pause" /\ usr1
              /\ usr1' = FALSE
              /\ mm' = "search"
              /\ UNCHANGED <<algo, table, adm, req_pageno, sema, store, filepos,
                             new_frame, oldpage, clients, wild, disturbed>>

\* (Faulty: data_full is read before the frame is searched.)
TakeFrameEarly(f, full) ==
  /\ new_frame' = f
  /\ oldpage' = framepage[f]
  /\ data_full' = full
  /\ mm' = IF data_full /\ "DIRTY" \in flags[framepage[f]] THEN "seek old"
                                                            ELSE "update"

\* A frame is found; its old page is written back if it must be.
TakeFrame(f, full) ==
  /\ new_frame' = f
  /\ oldpage' = framepage[f]
  /\ data_full' = full
  /\ mm' = IF full /\ "DIRTY" \in flags[framepage[f]] THEN "seek old" ELSE "update"

\* find_remove_frame while there are free frames.
TakeFreeFrame ==
  /\ mm = "search" /\ size < NFrames
  /\ size' = size + 1
  /\ TakeFrame(size, data_full)
  /\ UNCHANGED <<algo, table, next_alloc_idx, req_pageno, sema, store, filepos,
                 usr1, clients, wild, disturbed>>

\* How often the page in frame f was read.
Uses(f) == count[framepage[f]]

\* find_remove_lfu's loop: the first frame among those read least.
Least == CHOOSE f \in Frames : \A g \in Frames :
           Uses(f) < Uses(g) \/ (Uses(f) = Uses(g) /\ f <= g)

TakeLeastUsed ==
  /\ mm = "search" /\ size = NFrames /\ algo = "LFU"
  /\ TakeFrame(Least, TRUE)
  /\ UNCHANGED <<algo, table, size, next_alloc_idx, req_pageno, sema, store,
                 filepos, usr1, clients, wild, disturbed>>

Rotated == IF next_alloc_idx = NFrames - 1 THEN 0 ELSE next_alloc_idx + 1

\* find_remove_clock: a used page under the hand is spared.
IsSpared == algo = "CLOCK" /\ "USED" \in flags[framepage[next_alloc_idx]]

PassFrame ==
  /\ mm = "search" /\ size = NFrames /\ IsSpared
  /\ flags' = [flags EXCEPT ![framepage[next_alloc_idx]] = @ \ {"USED"}]
  /\ next_alloc_idx' = Rotated
  /\ data_full' = TRUE
  /\ UNCHANGED <<algo, frame, count, framepage, size, req_pageno, sema, store,
                 filepos, usr1, manager, clients, wild, disturbed>>

\* find_remove_fifo, and find_remove_clock when the page was not used.
TakeNext ==
  /\ mm = "search" /\ size = NFrames /\ algo \in {"FIFO", "CLOCK"} /\ ~IsSpared
  /\ TakeFrame(next_alloc_idx, TRUE)
  /\ next_alloc_idx' = Rotated
  /\ UNCHANGED <<algo, table, size, req_pageno, sema, store, filepos, usr1,
                 clients, wild, disturbed>>

\* store_page: fseek, then fwrite.
SeekOld == /\ mm = "seek old"
           /\ filepos' = oldpage
           /\ mm' = "write old"
           /\ UNCHANGED <<algo, table, adm, req_pageno, sema, store, usr1,
                          new_frame, oldpage, clients, wild, disturbed>>

WriteOld == /\ mm = "write old"
            /\ wild' = (frame[oldpage] \notin Frames)
            /\ pagefile' = IF wild' THEN pagefile
                           ELSE [pagefile EXCEPT ![filepos] = data[frame[oldpage]]]
            /\ mm' = "update" /\ filepos' = VOID_IDX
            /\ UNCHANGED <<algo, table, adm, req_pageno, sema, data, usr1, new_frame,
                           oldpage, clients, disturbed>>

\* (Faulty: the page that leaves stays marked as present.)
KeepPresent(fl) == fl \ {"DIRTY", "USED"}
Unloaded(fl) == fl \ {"PRESENT", "DIRTY", "USED"}

\* update_pt: the old page leaves, the requested one comes.
UpdatePt ==
  LET old == framepage[new_frame]
  IN /\ mm = "update"
     /\ flags' = [[p \in Pages |-> IF p = old THEN Unloaded(flags[p]) ELSE flags[p]]
                    EXCEPT ![req_pageno] = @ \union {"PRESENT"}]
     /\ frame' = [[p \in Pages |-> IF p = old THEN VOID_IDX ELSE frame[p]]
                    EXCEPT ![req_pageno] = new_frame]
     /\ framepage' = [framepage EXCEPT ![new_frame] = req_pageno]
     /\ mm' = "seek new"
     /\ UNCHANGED <<algo, count, adm, req_pageno, sema, store, filepos, usr1,
                    new_frame, oldpage, clients, wild, disturbed>>

\* fetch_page(adm.req_pageno): fseek, then fread.  Here oldpage holds its
\* argument.
SeekNew == /\ mm = "seek new"
           /\ oldpage' = req_pageno
           /\ filepos' = req_pageno
           /\ mm' = "read new"
           /\ UNCHANGED <<algo, table, adm, req_pageno, sema, store, usr1,
                          new_frame, clients, wild, disturbed>>

ReadNew == /\ mm = "read new"
           /\ wild' = (frame[oldpage] \notin Frames)
           /\ data' = IF wild' THEN data
                      ELSE [data EXCEPT ![frame[oldpage]] = pagefile[filepos]]
           /\ mm' = "post" /\ filepos' = VOID_IDX
           /\ UNCHANGED <<algo, table, adm, req_pageno, sema, pagefile, usr1,
                          new_frame, oldpage, clients, disturbed>>

\* The log entry, sem_post, and the end of the handler.
PostSema == /\ mm = "post"
            /\ sema' = sema + 1
            /\ mm' = "pause" /\ new_frame' = VOID_IDX /\ oldpage' = VOID_IDX
            /\ UNCHANGED <<algo, table, adm, req_pageno, store, filepos, usr1,
                           clients, wild, disturbed>>

-----------------------------------------------------------------------------
(* sighandler(SIGUSR2) and sighandler(SIGINT), at any time *)

Transferring == mm \in {"write old", "read new"}

\* The dump rewinds the stream and reads some 300 ints.  Elsewhere it does not
\* matter where the stream stands: the next transfer seeks first.
Dump == /\ Transferring
        /\ filepos' = DumpEnd
        /\ disturbed' = TRUE
        /\ UNCHANGED <<algo, table, adm, req_pageno, sema, store, usr1, manager,
                       clients, wild>>

\* Everything is released and the process exits, also inside a page fault.
Quit == /\ mm # "gone"
        /\ mm' = "gone" /\ usr1' = FALSE
        /\ disturbed' = (disturbed \/ mm # "pause")
        /\ UNCHANGED <<algo, table, adm, req_pageno, sema, store, filepos,
                       new_frame, oldpage, clients, wild>>

-----------------------------------------------------------------------------

Proceed(c) == \/ Lock(c) \/ CheckPresent(c) \/ RaiseFault(c) \/ AwaitPage(c)
              \/ Mark(c) \/ Transfer(c) \/ Unlock(c)

Fault == \/ EnterFault \/ TakeFreeFrame \/ TakeLeastUsed \/ PassFrame \/ TakeNext
         \/ SeekOld \/ WriteOld \/ UpdatePt \/ SeekNew \/ ReadNew \/ PostSema

\* After a wild access the program no longer decides what follows.
Next == ~wild /\ (Fault \/ Dump \/ Quit \/ \E c \in Clients : BeginAccess(c) \/ Proceed(c))

Spec == Init /\ [][Next]_vars

\* Every process that can run is scheduled.
FairSpec == /\ Spec /\ WF_vars(~wild /\ Fault)
            /\ \A c \in Clients : WF_vars(~wild /\ Proceed(c))
=============================================================================
