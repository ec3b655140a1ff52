------------------------------- MODULE Paging -------------------------------
(***************************************************************************)
(* The virtual memory of working/: processes that call vmem_read and       *)
(* vmem_write (vmaccess.c), the memory manager that serves their page      *)
(* faults in its SIGUSR1 handler (mmanage.c), and the shared memory, the   *)
(* semaphore, the signal and the page file between them (vmem.h).          *)
(*                                                                         *)
(* A client and the manager move in small steps, one per access to what    *)
(* they share.  Only SIGUSR1 is modelled here, so signal_number plays no   *)
(* part; the main loop and the other signals are in MManageSignals.        *)
(***************************************************************************)
EXTENDS Integers, FiniteSets, Sequences

CONSTANTS Clients,   \* the processes that use the virtual memory
          NPages,    \* VMEM_NPAGES
          NFrames,   \* VMEM_NFRAMES
          PageSize,  \* VMEM_PAGESIZE
          Values,    \* the ints the clients store
          Ops,       \* the calls the clients make, of "read" and "write"
          Algo,      \* the algorithm chosen by -DFIFO, -DCLOCK or -DCLOCK2
          CountMod   \* number of values of pf_count, 2^32 in the code

VOID_IDX == -1

ASSUME SizesAssumption == /\ NPages \in Nat \ {0}
                          /\ NFrames \in Nat \ {0}
                          /\ PageSize \in Nat \ {0}

ASSUME ClientsAssumption == Ops \subseteq {"read", "write"}

ASSUME BuildAssumption == /\ Algo \in {"FIFO", "CLOCK", "CLOCK2"}
                          /\ CountMod \in Nat /\ CountMod >= 4

Pages     == 0 .. NPages - 1
Frames    == 0 .. NFrames - 1
Offsets   == 0 .. PageSize - 1
Addresses == 0 .. NPages * PageSize - 1

PTF == {"PRESENT", "CHANGED", "USEDBIT1", "USEDBIT2"}

VARIABLES
  flags,           \* pt.entries[p].flags, as the set of its bits
  frame,           \* pt.entries[p].frame
  framepage,       \* pt.framepage
  size,            \* adm.size
  req_pageno,      \* adm.req_pageno
  next_alloc_idx,  \* adm.next_alloc_idx
  pf_count,        \* adm.pf_count
  sema,            \* adm.sema
  data,            \* the frames' contents
  pagefile,        \* the pages' contents on disk
  usr1,            \* a SIGUSR1 is pending for the manager
  mm,              \* where the manager is
  req_page,        \* page_fault's local of that name
  new_frame,       \* page_fault's local of that name
  pc,              \* where each client is
  request,         \* the call each client is in
  result,          \* what its last vmem_read returned
  wild             \* memory outside the arrays was touched: what follows,
                   \* the program no longer decides

table   == <<flags, frame, framepage>>
counts  == <<size, next_alloc_idx, pf_count>>
store   == <<data, pagefile>>
manager == <<mm, req_page, new_frame>>
clients == <<pc, request, result>>
vars == <<table, counts, store, manager, clients,
          req_pageno, sema, usr1, wild>>

Calls == [op : Ops \ {"write"}, addr : Addresses, val : {VOID_IDX}] \union
         [op : Ops \ {"read"}, addr : Addresses, val : Values]
NoRequest == [op |-> "none", addr |-> 0, val |-> VOID_IDX]

-----------------------------------------------------------------------------
(* Helpers *)

\* Definitions marked "faulty" are not part of the model: each is a mistake one
\* could make in the definition that follows it, for the checks to detect.

\* Address arithmetic of vmem_read and vmem_write.
PageOf(a)   == a \div PageSize
OffsetOf(a) == a % PageSize

Page(c) == PageOf(request[c].addr)

Present(p) == "PRESENT" \in flags[p]

FramesAreOccupied == size >= NFrames

\* (Faulty: the modulo is forgotten.)
RunsAway(i) == i + 1

\* rotate_alloc_idx: the hand of the clock, and the FIFO position.
Rotated(i) == (i + 1) % NFrames

\* (Faulty: store_page keeps the unchanged pages.)
IsClean(p) == p \in Pages /\ "CHANGED" \notin flags[p]

\* store_page's test.  entries[-1].flags is the storage of adm.pf_count.
IsChanged(p) == IF p = VOID_IDX THEN pf_count % 4 \in {2, 3}
                                ELSE "CHANGED" \in flags[p]

\* (Faulty: a page leaves its frame but keeps its flags; or its frame number.)
KeepFlags(old)  == flags
KeepFrames(old) == frame

\* update_unload: the entry of a page that leaves its frame.
UnloadFlags(old)  == [p \in Pages |-> IF p = old THEN {} ELSE flags[p]]
UnloadFrames(old) == [p \in Pages |-> IF p = old THEN VOID_IDX ELSE frame[p]]

\* countUsed: the used bits of a page that is accessed.
MarkUsed(fl) == fl \union {"USEDBIT1"} \union
                  (IF "USEDBIT1" \in fl THEN {"USEDBIT2"} ELSE {})

\* (Faulty: both used bits are taken at once.)
SpendBoth(fl)   == fl \ {"USEDBIT1", "USEDBIT2"}

\* What the clock takes from a used page it passes.
SpendChance(fl) == IF Algo = "CLOCK2" /\ "USEDBIT2" \in fl
                     THEN fl \ {"USEDBIT2"} ELSE fl \ {"USEDBIT1"}

\* The page under the hand survives this time.
IsSpared == Algo # "FIFO" /\ "USEDBIT1" \in flags[framepage[next_alloc_idx]]

-----------------------------------------------------------------------------
(* vmem_init and init_pagefile *)

\* (Faulty: the semaphore starts free, like a mutex.)
FreeSema == 1
InitialSema == 0

\* The pseudo-random data of the new page file: any.
PageFiles == [Pages -> [Offsets -> Values]]

Init ==
  /\ flags = [p \in Pages |-> {}]
  /\ frame = [p \in Pages |-> VOID_IDX]
  /\ framepage = [f \in Frames |-> VOID_IDX]
  /\ size = 0 /\ next_alloc_idx = 0 /\ pf_count = 0
  /\ req_pageno = VOID_IDX
  /\ sema = InitialSema
  /\ data = [f \in Frames |-> [o \in Offsets |-> VOID_IDX]]
  /\ pagefile \in PageFiles
  /\ usr1 = FALSE
  /\ mm = "pause" /\ req_page = VOID_IDX /\ new_frame = VOID_IDX
  /\ pc = [c \in Clients |-> "idle"]
  /\ request = [c \in Clients |-> NoRequest]
  /\ result = [c \in Clients |-> VOID_IDX]
  /\ wild = FALSE

-----------------------------------------------------------------------------
(* vmem_read and vmem_write *)

\* The call, up to the store into adm.req_pageno.
BeginAccess(c) ==
  /\ pc[c] = "idle"
  /\ \E r \in Calls : /\ request' = [request EXCEPT ![c] = r]
                      /\ req_pageno' = PageOf(r.addr)
  /\ result' = [result EXCEPT ![c] = VOID_IDX]
  /\ pc' = [pc EXCEPT ![c] = "check"]
  /\ UNCHANGED <<table, counts, store, manager, sema, usr1, wild>>

\* Is the page loaded?
CheckPresent(c) ==
  /\ pc[c] = "check"
  /\ pc' = [pc EXCEPT ![c] = IF Present(Page(c)) THEN "touch" ELSE "kill"]
  /\ UNCHANGED <<table, counts, store, manager, request, result,
                 req_pageno, sema, usr1, wild>>

\* kill(mmanage_pid, SIGUSR1): a standard signal does not queue.
RaiseFault(c) ==
  /\ pc[c] = "kill"
  /\ usr1' = TRUE
  /\ pc' = [pc EXCEPT ![c] = "wait"]
  /\ UNCHANGED <<table, counts, store, manager, request, result,
                 req_pageno, sema, wild>>

\* (Faulty: a client that finds its page loaded does not wait any longer.)
AwaitOrPresent(c) ==
  /\ pc[c] = "wait"
  /\ sema > 0 \/ Present(Page(c))
  /\ sema' = IF sema > 0 THEN sema - 1 ELSE sema
  /\ pc' = [pc EXCEPT ![c] = "touch"]
  /\ UNCHANGED <<table, counts, store, manager, request, result,
                 req_pageno, usr1, wild>>

\* sem_wait returns.
AwaitPage(c) ==
  /\ pc[c] = "wait"
  /\ sema > 0
  /\ sema' = sema - 1
  /\ pc' = [pc EXCEPT ![c] = "touch"]
  /\ UNCHANGED <<table, counts, store, manager, request, result,
                 req_pageno, usr1, wild>>

\* (Faulty: a write is not marked.)
MarkNothing(c) == {}
MarkChanged(c) == IF request[c].op = "write" THEN {"CHANGED"} ELSE {}

\* countUsed, and the mark of a write, come before the data is touched.
Touch(c) ==
  /\ pc[c] = "touch"
  /\ flags' = [flags EXCEPT ![Page(c)] = MarkUsed(@) \union MarkChanged(c)]
  /\ pc' = [pc EXCEPT ![c] = "transfer"]
  /\ UNCHANGED <<frame, framepage, counts, store, manager, request, result,
                 req_pageno, sema, usr1, wild>>

\* The access to vmem->data through the page's frame, and the return.
Transfer(c) ==
  LET r == request[c]
      f == frame[Page(c)]
      o == OffsetOf(r.addr)
  IN /\ pc[c] = "transfer"
     /\ wild' = (wild \/ f \notin Frames)
     /\ data' = IF r.op = "write" /\ f \in Frames
                  THEN [data EXCEPT ![f][o] = r.val] ELSE data
     /\ result' = IF r.op = "read" /\ f \in Frames
                    THEN [result EXCEPT ![c] = data[f][o]] ELSE result
     /\ request' = [request EXCEPT ![c] = NoRequest]
     /\ pc' = [pc EXCEPT ![c] = "idle"]
     /\ UNCHANGED <<table, counts, pagefile, manager, req_pageno, sema, usr1>>

-----------------------------------------------------------------------------
(* page_fault *)

\* The handler starts: SIGUSR1 is no longer pending, and is blocked until
\* the handler returns.
EnterFault ==
  /\ mm = "pause" /\ usr1
  /\ usr1' = FALSE
  /\ mm' = "search"
  /\ req_page' = req_pageno
  /\ pf_count' = (pf_count + 1) % CountMod
  /\ UNCHANGED <<table, size, next_alloc_idx, store, new_frame, clients,
                 req_pageno, sema, wild>>

\* find_remove_frame while there are free frames.
TakeFreeFrame ==
  /\ mm = "search" /\ ~FramesAreOccupied
  /\ new_frame' = size
  /\ size' = size + 1
  /\ mm' = "evict"
  /\ UNCHANGED <<table, next_alloc_idx, pf_count, store, req_page, clients,
                 req_pageno, sema, usr1, wild>>

\* The clocks give the page under the hand another chance.
PassFrame ==
  /\ mm = "search" /\ FramesAreOccupied /\ IsSpared
  /\ flags' = [flags EXCEPT ![framepage[next_alloc_idx]] = SpendChance(@)]
  /\ next_alloc_idx' = Rotated(next_alloc_idx)
  /\ UNCHANGED <<frame, framepage, size, pf_count, store, manager, clients,
                 req_pageno, sema, usr1, wild>>

\* The frame under the hand is taken.
TakeVictim ==
  /\ mm = "search" /\ FramesAreOccupied /\ ~IsSpared
  /\ new_frame' = next_alloc_idx
  /\ next_alloc_idx' = Rotated(next_alloc_idx)
  /\ mm' = "evict"
  /\ UNCHANGED <<table, size, pf_count, store, req_page, clients,
                 req_pageno, sema, usr1, wild>>

\* store_page, called as soon as all frames are taken: a changed page is
\* written back.
StorePage ==
  LET old    == framepage[new_frame]
      stores == FramesAreOccupied /\ IsChanged(old)
      legal  == old \in Pages /\ frame[old] \in Frames
  IN /\ mm = "evict"
     /\ wild' = (wild \/ (stores /\ ~legal))
     /\ pagefile' = IF stores /\ legal
                      THEN [pagefile EXCEPT ![old] = data[frame[old]]]
                      ELSE pagefile
     /\ mm' = "remap"
     /\ UNCHANGED <<table, counts, data, req_page, new_frame, clients,
                    req_pageno, sema, usr1>>

\* update_pt: update_unload of the old page, then update_load of the one that
\* adm.req_pageno names now.  For a frame that was free the old page is -1,
\* and clearing entries[-1].flags clears adm.pf_count.
UpdatePt ==
  LET old == framepage[new_frame]
  IN /\ mm = "remap"
     /\ flags' = [UnloadFlags(old) EXCEPT ![req_pageno] = @ \union {"PRESENT"}]
     /\ frame' = [UnloadFrames(old) EXCEPT ![req_pageno] = new_frame]
     /\ framepage' = [framepage EXCEPT ![new_frame] = req_pageno]
     /\ pf_count' = IF old = VOID_IDX THEN 0 ELSE pf_count
     /\ mm' = "fetch"
     /\ UNCHANGED <<size, next_alloc_idx, store, req_page, new_frame, clients,
                    req_pageno, sema, usr1, wild>>

\* fetch_page of the page that was requested when the handler started.
FetchPage ==
  LET f == frame[req_page]
  IN /\ mm = "fetch"
     /\ wild' = (wild \/ f \notin Frames)
     /\ data' = IF f \in Frames
                  THEN [data EXCEPT ![f] = pagefile[req_page]] ELSE data
     /\ mm' = "post"
     /\ UNCHANGED <<table, counts, pagefile, req_page, new_frame, clients,
                    req_pageno, sema, usr1>>

\* The log entry and sem_post: the client may go on.
PostSema ==
  /\ mm = "post"
  /\ sema' = sema + 1
  /\ mm' = "return"
  /\ req_page' = VOID_IDX
  /\ new_frame' = VOID_IDX
  /\ UNCHANGED <<table, counts, store, clients, req_pageno, usr1, wild>>

\* The handler returns and SIGUSR1 is unblocked.
LeaveFault ==
  /\ mm = "return"
  /\ mm' = "pause"
  /\ UNCHANGED <<table, counts, store, req_page, new_frame, clients,
                 req_pageno, sema, usr1, wild>>

-----------------------------------------------------------------------------

\* What a client does once it is in a call.
Proceed(c) == \/ CheckPresent(c) \/ RaiseFault(c) \/ AwaitPage(c)
              \/ Touch(c) \/ Transfer(c)

ManagerStep == \/ EnterFault \/ TakeFreeFrame \/ PassFrame \/ TakeVictim
               \/ StorePage \/ UpdatePt \/ FetchPage \/ PostSema \/ LeaveFault

Next == ManagerStep \/ \E c \in Clients : BeginAccess(c) \/ Proceed(c)

Spec == Init /\ [][Next]_vars

\* The operating system schedules every process that can run.
Fairness == /\ WF_vars(ManagerStep)
            /\ \A c \in Clients : WF_vars(Proceed(c))

FairSpec == Spec /\ Fairness
=============================================================================
