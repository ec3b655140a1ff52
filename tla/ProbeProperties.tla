--------------------------- MODULE ProbeProperties ---------------------------
(* What the virtual memory of probe/ promises, for several clients. *)
EXTENDS Probe

-----------------------------------------------------------------------------
(* The semaphore that is a mutex and a wake-up in one *)

\* Clients between a sem_wait and their next kill or sem_post.
Holders == {c \in Clients : pc[c] \in {"check", "kill", "mark", "transfer", "post"}}

\* A signal that is not answered yet.
Unanswered == (IF usr1 THEN 1 ELSE 0) + (IF mm \in {"pause", "gone"} THEN 0 ELSE 1)

\* There is one token.  It lies in the semaphore, or a client has it, or it
\* is with the manager, as a signal or a handler at work: so two clients never
\* touch the memory at once, the manager does not work beside them, and no
\* SIGUSR1 can merge with another (vmaccess.c:55-65).  Only a manager that
\* quits takes the token along.
OneToken ==
  /\ sema + Cardinality(Holders) + Unanswered <= 1
  /\ mm # "gone" => sema + Cardinality(Holders) + Unanswered = 1

\* Clients that have all called are not all stuck: one of them returns, unless
\* the manager quits or memory outside the arrays is touched.
NotAllStuck ==
  (\A c \in Clients : pc[c] # "idle") ~>
    (wild \/ mm = "gone" \/ \E c \in Clients : pc[c] = "idle")

-----------------------------------------------------------------------------
(* Clients that take turns *)

Loaded(p) == Present(p) /\ ~(mm \in {"seek new", "read new"} /\ p = req_pageno)

\* The page's data has reached the frame before its DIRTY bit is set.
BeingWritten(p) ==
  \E c \in Clients : pc[c] = "mark" /\ request[c].op = "write" /\ Page(c) = p

\* As long as the clients take turns and no dump comes between an fseek and
\* its transfer, the two directions of the table agree, a page that is not
\* DIRTY equals its copy in the page file, although here the data is written
\* before the bit (vmaccess.c:96-99), and an access finds its page.
OrderlyUseIsSafe ==
  ~disturbed =>
    /\ ~wild
    /\ \A f \in Frames : framepage[f] # VOID_IDX =>
         frame[framepage[f]] = f /\ Present(framepage[f])
    /\ \A p \in Pages : Present(p) <=> frame[p] # VOID_IDX
    /\ \A p \in Pages : Present(p) => framepage[frame[p]] = p
    /\ \A p \in Pages :
         Loaded(p) /\ "DIRTY" \notin flags[p] /\ ~BeingWritten(p) =>
           data[frame[p]] = pagefile[p]
    /\ \A c \in Clients : pc[c] \in {"mark", "transfer"} => Present(Page(c))

FlatView == [p \in Pages |-> IF Loaded(p) THEN data[frame[p]] ELSE pagefile[p]]

\* A write takes effect with its data, and a read with its transfer: from then
\* on the call has happened.
Happened(c) == \/ pc[c] = "post"
               \/ pc[c] = "mark" /\ request[c].op = "write"

FlatRequest ==
  [c \in Clients |-> [op |-> IF Happened(c) THEN "none" ELSE request[c].op,
                      addr |-> IF Happened(c) THEN 0 ELSE request[c].page,
                      val |-> IF Happened(c) THEN VOID_IDX ELSE request[c].val]]

Flat == INSTANCE FlatMemory WITH Addresses <- Pages, NoValue <- VOID_IDX,
          mem <- FlatView, request <- FlatRequest

\* As long as the clients take turns and no dump comes in between, they see an
\* ordinary array, whatever the algorithm.
FlatUntilDisturbed == Flat!Init /\ [][disturbed' \/ Flat!Next]_(Flat!memvars)

=============================================================================
