-------------------------- MODULE LoopServedProofs --------------------------
(***************************************************************************)
(* The page faults of Aufgabe3/ that are signalled, served, answered and   *)
(* lost, the indexes of its arrays, and the array its client sees, for any *)
(* size of the memory, any replacement algorithm and any number of calls   *)
(* and signals.                                                            *)
(***************************************************************************)
EXTENDS LoopServed, TLAPS

\* The posts that the client is owed, with the one of sem_init.
Owed == 1 + (IF pc = "wait" THEN 1 ELSE 0)

Balanced == main # "exited" => sema + UnderWay + lost = Owed

LedgerInv == sema \in Nat /\ lost \in Nat /\ Balanced

Serving == {"notice", "fault", "search", "store", "update", "fetch", "astray", "post"}

\* What the summands are.
LEMMA SummandTypes ==
  /\ Sent \in {0, 1} /\ Stored \in {0, 1} /\ Served \in {0, 1}
  /\ UnderWay = Sent + Stored + Served /\ Owed \in {1, 2}
  BY DEF Sent, Stored, Served, UnderWay, Owed

LEMMA LedgerInit == Init => LedgerInv
<1> SUFFICES ASSUME Init PROVE LedgerInv  OBVIOUS
<1>1. Sent = 0 /\ Stored = 0 /\ Served = 0 /\ Owed = 1
  BY DEF Init, Sent, Stored, Served, Owed, Heard
<1>2. sema = 1 /\ lost = 0  BY DEF Init, InitialSema
<1> QED  BY <1>1, <1>2 DEF LedgerInv, Balanced, UnderWay

\* A step that moves nothing in the ledger.
LEMMA NothingMoves ==
  ASSUME LedgerInv, sema' = sema, lost' = lost, Sent' = Sent, Stored' = Stored,
         Served' = Served, Owed' = Owed, main' # "exited" => main # "exited"
  PROVE  LedgerInv'
<1>1. UnderWay' = UnderWay  BY DEF UnderWay
<1>2. Balanced'
  <2> SUFFICES ASSUME main' # "exited" PROVE sema' + UnderWay' + lost' = Owed'
    BY DEF Balanced
  <2>1. sema + UnderWay + lost = Owed  BY DEF LedgerInv, Balanced
  <2> QED  BY <1>1, <2>1
<1> QED  BY <1>2 DEF LedgerInv

\* The client between two waits, and users that send other signals.
LEMMA ClientWorks ==
  ASSUME LedgerInv, BeginAccess \/ CheckPresent \/ Mark \/ Transfer \/ UserSignal
  PROVE  LedgerInv'
<1>1. /\ UNCHANGED <<sema, lost, main, signal_number, woken>>
      /\ ("USR1" \in pending') <=> ("USR1" \in pending)
      /\ (pc' = "wait") <=> (pc = "wait")
  BY DEF BeginAccess, CheckPresent, Mark, Transfer, UserSignal, signals, client
<1>2. Sent' = Sent /\ Served' = Served /\ Owed' = Owed  BY <1>1 DEF Sent, Served, Owed
<1>3. Heard' <=> Heard  BY <1>1 DEF Heard
<1>4. Stored' = Stored  BY <1>1, <1>3 DEF Stored
<1> QED  BY <1>1, <1>2, <1>4, NothingMoves

\* page_fault up to its sem_post.
LEMMA FaultWorks ==
  ASSUME LedgerInv,
         \/ EnterFault \/ TakeFreeFrame \/ PassFrame \/ TakeVictim \/ StorePage
         \/ UpdatePt \/ FetchPage \/ LeaveArrays
  PROVE  LedgerInv'
<1>1. /\ UNCHANGED <<sema, lost, pending, pc>> /\ main \in Serving /\ main' \in Serving
  BY DEF EnterFault, TakeFreeFrame, PassFrame, TakeVictim, StorePage, UpdatePt,
         FetchPage, LeaveArrays, TakeFrame, signals, client, Serving
<1>2. Sent' = Sent /\ Served' = Served /\ Owed' = Owed
  BY <1>1 DEF Sent, Served, Owed, Serving
<1>3. ~Heard /\ ~Heard'  BY <1>1 DEF Heard, Serving
<1>4. Stored' = Stored  BY <1>3 DEF Stored
<1> QED  BY <1>1, <1>2, <1>4, NothingMoves DEF Serving

\* The main loop around pause().
LEMMA LoopWorks ==
  ASSUME LedgerInv, Loop
  PROVE  LedgerInv'
<1> USE DEF LoopGoes
<1>1. UNCHANGED <<sema, lost, pending, pc>> /\ main # "exited"
  BY DEF Loop, ResetNumber, EnterPause, LeavePause, IsUsr1, NoticeFault, IsUsr2, IsInt,
     client
<1>2. Sent' = Sent /\ Owed' = Owed  BY <1>1 DEF Sent, Owed
<1>3. CASE ResetNumber \/ EnterPause \/ IsUsr2 \/ IsInt
  <2>1. ~Heard /\ ~Heard' /\ main \notin Serving /\ main' \notin Serving
    BY <1>3 DEF ResetNumber, EnterPause, IsUsr2, IsInt, Heard, Serving
  <2>2. Stored' = Stored /\ Served' = Served  BY <2>1 DEF Stored, Served, Serving
  <2> QED  BY <1>1, <1>2, <2>2, NothingMoves
<1>4. CASE LeavePause
  <2>1. /\ Heard /\ Heard' /\ main \notin Serving /\ main' \notin Serving
        /\ signal_number' = signal_number
    BY <1>4 DEF LeavePause, Heard, Serving
  <2>2. Stored' = Stored /\ Served' = Served  BY <2>1 DEF Stored, Served, Serving
  <2> QED  BY <1>1, <1>2, <2>2, NothingMoves
<1>5. CASE NoticeFault
  <2>1. ~Heard /\ ~Heard' /\ main \in Serving /\ main' \in Serving
    BY <1>5 DEF NoticeFault, Heard, Serving
  <2>2. Stored' = Stored /\ Served' = Served  BY <2>1 DEF Stored, Served, Serving
  <2> QED  BY <1>1, <1>2, <2>2, NothingMoves
<1>6. CASE IsUsr1
  <2>1. /\ main = "is usr1" /\ ~Heard' /\ Heard
        /\ main' = IF signal_number = "USR1" THEN "notice" ELSE "is usr2"
    BY <1>6 DEF IsUsr1, Heard
  <2>2. UnderWay' = UnderWay
    <3>1. CASE signal_number = "USR1"
      <4>1. Stored = 1 /\ Served = 0 /\ Stored' = 0 /\ Served' = 1
        BY <2>1, <3>1 DEF Stored, Served
      <4> QED  BY <1>2, <4>1, SummandTypes DEF UnderWay
    <3>2. CASE signal_number # "USR1"
      <4>1. Stored = 0 /\ Served = 0 /\ Stored' = 0 /\ Served' = 0
        BY <2>1, <3>2 DEF Stored, Served
      <4> QED  BY <1>2, <4>1 DEF UnderWay
    <3> QED  BY <3>1, <3>2
  <2> QED  BY <1>1, <1>2, <2>2 DEF LedgerInv, Balanced
<1> QED  BY <1>3, <1>4, <1>5, <1>6 DEF Loop

\* A signal is sent, or merges with one that is pending and is lost.
LEMMA FaultIsRaised ==
  ASSUME LedgerInv, RaiseFault
  PROVE  LedgerInv'
<1>1. /\ UNCHANGED <<sema, main, signal_number, woken>>
      /\ pc = "kill" /\ pc' = "wait"
  BY DEF RaiseFault
<1>2. Heard' <=> Heard  BY <1>1 DEF Heard
<1>3. Stored' = Stored /\ Served' = Served  BY <1>1, <1>2 DEF Stored, Served
<1>4. Owed = 1 /\ Owed' = 2  BY <1>1 DEF Owed
<1>5. CASE main = "exited"
  <2>1. lost' = lost + 1  BY <1>5 DEF RaiseFault
  <2> QED  BY <1>1, <1>5, <2>1 DEF LedgerInv, Balanced
<1>6. CASE main # "exited" /\ "USR1" \in pending
  <2>1. lost' = lost + 1 /\ "USR1" \in pending'  BY <1>6 DEF RaiseFault
  <2>2. Sent' = Sent  BY <1>6, <2>1 DEF Sent
  <2>3. UnderWay' = UnderWay  BY <1>3, <2>2 DEF UnderWay
  <2>4. UnderWay \in Nat  BY SummandTypes
  <2> QED  BY <1>1, <1>4, <1>6, <2>1, <2>3, <2>4 DEF LedgerInv, Balanced
<1>7. CASE main # "exited" /\ "USR1" \notin pending
  <2>1. lost' = lost /\ "USR1" \in pending'  BY <1>7 DEF RaiseFault
  <2>2. Sent = 0 /\ Sent' = 1  BY <1>7, <2>1 DEF Sent
  <2>3. UnderWay' = UnderWay + 1 /\ UnderWay \in Nat
    BY <1>3, <2>2, SummandTypes DEF UnderWay
  <2> QED  BY <1>1, <1>4, <1>7, <2>1, <2>3 DEF LedgerInv, Balanced
<1> QED  BY <1>5, <1>6, <1>7

\* A number is stored: it may overwrite a page fault, or come too late.
LEMMA SignalIsStored ==
  ASSUME LedgerInv, NEW s \in {"USR1", "USR2", "INT"}, Deliver(s)
  PROVE  LedgerInv'
<1>1. /\ UNCHANGED <<sema, main, pc>> /\ main # "exited"
      /\ s \in pending /\ pending' = pending \ {s} /\ signal_number' = s
  BY DEF Deliver, client
<1>2. Owed' = Owed /\ Served' = Served  BY <1>1 DEF Owed, Served
<1>3. Heard' <=> Listens
  BY <1>1 DEF Deliver, Heard, Listens
<1>4. lost' = lost + Stored + (IF s = "USR1" /\ ~Listens THEN 1 ELSE 0)
  BY DEF Deliver, Stored
<1>5. UnderWay' + lost' = UnderWay + lost /\ lost' \in Nat
  <2>1. CASE s = "USR1"
    <3>1. Sent = 1 /\ Sent' = 0  BY <1>1, <2>1 DEF Sent
    <3>2. Stored' = (IF Listens THEN 1 ELSE 0)  BY <1>1, <1>3, <2>1 DEF Stored
    <3>3. lost' = lost + Stored + (IF Listens THEN 0 ELSE 1)  BY <1>4, <2>1
    <3> QED  BY <1>2, <3>1, <3>2, <3>3, SummandTypes DEF UnderWay, LedgerInv
  <2>2. CASE s # "USR1"
    <3>1. Sent' = Sent  BY <1>1, <2>2 DEF Sent
    <3>2. Stored' = 0  BY <1>1, <2>2 DEF Stored
    <3>3. lost' = lost + Stored  BY <1>4, <2>2, SummandTypes DEF LedgerInv
    <3> QED  BY <1>2, <3>1, <3>2, <3>3, SummandTypes DEF UnderWay, LedgerInv
  <2> QED  BY <2>1, <2>2
<1>6. sema + UnderWay + lost = Owed  BY <1>1 DEF LedgerInv, Balanced
<1>7. UnderWay \in Nat  BY SummandTypes
<1>8. UnderWay' \in Nat  BY DEF UnderWay, Sent, Stored, Served
<1>9. sema' + UnderWay' + lost' = Owed'
  <2>1. sema' = sema /\ Owed' = Owed  BY <1>1, <1>2
  <2>2. sema \in Nat /\ lost \in Nat  BY DEF LedgerInv
  <2>3. UnderWay' + lost' = UnderWay + lost /\ lost' \in Nat  BY <1>5
  <2>4. sema + UnderWay' + lost' = sema + (UnderWay' + lost')  BY <1>8, <2>2, <2>3
  <2>5. sema + UnderWay + lost = sema + (UnderWay + lost)  BY <1>7, <2>2
  <2> QED  BY <1>6, <2>1, <2>3, <2>4, <2>5
<1> QED  BY <1>1, <1>5, <1>9 DEF LedgerInv, Balanced

\* sem_wait and sem_post.
LEMMA PostMoves ==
  ASSUME LedgerInv, AwaitPage \/ PostSema
  PROVE  LedgerInv'
<1>1. CASE AwaitPage
  <2>1. /\ sema > 0 /\ sema' = sema - 1 /\ lost' = lost
        /\ UNCHANGED <<pending, main, signal_number, woken>>
        /\ pc = "wait" /\ pc' = "mark"
    BY <1>1 DEF AwaitPage, signals
  <2>2. Heard' <=> Heard  BY <2>1 DEF Heard
  <2>3. UnderWay' = UnderWay  BY <2>1, <2>2 DEF UnderWay, Sent, Stored, Served
  <2>4. Owed = 2 /\ Owed' = 1  BY <2>1 DEF Owed
  <2>5. UnderWay \in Nat  BY SummandTypes
  <2> QED  BY <2>1, <2>3, <2>4, <2>5 DEF LedgerInv, Balanced
<1>2. CASE PostSema
  <2>1. /\ sema' = sema + 1 /\ UNCHANGED <<lost, pending, pc>>
        /\ main = "post" /\ main' = "reset"
    BY <1>2 DEF PostSema, signals, client
  <2>2. Sent' = Sent /\ Stored' = 0 /\ Stored = 0 /\ Served = 1 /\ Served' = 0
        /\ Owed' = Owed
    BY <2>1 DEF Sent, Stored, Heard, Served, Owed
  <2>3. UnderWay' = UnderWay - 1 /\ UnderWay \in Nat
    BY <2>2, SummandTypes DEF UnderWay
  <2> QED  BY <2>1, <2>2, <2>3, SummandTypes DEF LedgerInv, Balanced
<1> QED  BY <1>1, <1>2

LEMMA LedgerStep == LedgerInv /\ [Next]_vars => LedgerInv'
<1> SUFFICES ASSUME LedgerInv, [Next]_vars PROVE LedgerInv'  OBVIOUS
<1>1. CASE UNCHANGED vars
  <2>1. UNCHANGED <<sema, lost, pending, signal_number, woken, main, pc>>
    BY <1>1 DEF vars, signals, client
  <2>2. Heard' <=> Heard  BY <2>1 DEF Heard
  <2>3. Sent' = Sent /\ Stored' = Stored /\ Served' = Served /\ Owed' = Owed
    BY <2>1, <2>2 DEF Sent, Stored, Served, Owed
  <2> QED  BY <2>1, <2>3, NothingMoves
<1>2. CASE Next
  BY <1>2, ClientWorks, FaultWorks, LoopWorks, FaultIsRaised, SignalIsStored, PostMoves
     DEF Next, Proceed, Fault
<1> QED  BY <1>1, <1>2

\* However signals merge, overwrite each other and come too late, the posts of
\* Aufgabe3/mmanage.c and the faults it loses add up: it takes two lost page
\* faults to let the client wait for ever.
THEOREM FaultsAddUp == Spec => []FaultsAreAccountedFor
<1>1. LedgerInv => FaultsAreAccountedFor
  BY DEF LedgerInv, Balanced, Owed, FaultsAreAccountedFor
<1> QED  BY LedgerInit, LedgerStep, <1>1, PTL DEF Spec
-----------------------------------------------------------------------------
(* The indexes, in spite of what lies beside the arrays *)

\* A fault that is raised, or served, has its page: req_pageno is -1 only as
\* long as no access was begun.
RequestInv ==
  /\ \/ pc # "idle" \/ "USR1" \in pending \/ signal_number = "USR1" \/ main \in Serving
     => req_pageno \in Pages
  /\ main \in {"search", "store", "update", "fetch"} => req_page \in Pages

\* The page file stands behind its spare page only until the fetch that follows.
FileInv == main \notin {"update", "fetch", "astray"} => filepos <= NPages

IndexInv == TypeOK /\ RequestInv /\ FileInv

\* The client's steps, from the call to the return.
LEMMA ClientTypes ==
  ASSUME IndexInv, BeginAccess \/ Proceed
  PROVE  IndexInv'
<1> USE LoopServedAssumption DEF LoopServedAssumption, IndexInv
<1>1. CASE BeginAccess
  <2>1. TypeOK'
    BY <1>1
    DEF BeginAccess, NewEvent, TypeOK, ClientPoints, Calls, Entries, Ints, table, adm,
        file, signals, locals
  <2>2. RequestInv' /\ FileInv'
    BY <1>1 DEF BeginAccess, RequestInv, FileInv, Calls, file, locals, TypeOK
  <2> QED  BY <2>1, <2>2
<1>2. CASE CheckPresent
  BY <1>2
  DEF CheckPresent, TypeOK, ClientPoints, RequestInv, FileInv, table, adm, file,
      signals, locals, history
<1>3. CASE RaiseFault
  <2>1. pending' \in {pending, pending \union {"USR1"}} /\ lost' \in {lost, lost + 1}
    BY <1>3 DEF RaiseFault
  <2>2. TypeOK'
    BY <1>3, <2>1
    DEF RaiseFault, TypeOK, ClientPoints, table, adm, file, locals, history
  <2>3. RequestInv' /\ FileInv'
    BY <1>3 DEF RaiseFault, RequestInv, FileInv, file, locals
  <2> QED  BY <2>2, <2>3
<1>4. CASE AwaitPage
  <2>1. TypeOK'
    BY <1>4 DEF AwaitPage, TypeOK, ClientPoints, table, adm, file, signals, locals
  <2>2. RequestInv' /\ FileInv'
    BY <1>4 DEF AwaitPage, RequestInv, FileInv, file, signals, locals
  <2> QED  BY <2>1, <2>2
<1>5. CASE Mark
  <2>1. flags' \in [Pages -> SUBSET {"PRESENT", "USED", "USED1"}]
    BY <1>5 DEF Mark, TypeOK
  <2>2. TypeOK'
    BY <1>5, <2>1 DEF Mark, TypeOK, ClientPoints, adm, file, signals, locals, history
  <2>3. RequestInv' /\ FileInv'
    BY <1>5 DEF Mark, RequestInv, FileInv, file, signals, locals
  <2> QED  BY <2>2, <2>3
<1>6. CASE Transfer
  <2> DEFINE f == frame[request.page]
  <2>1. request.page \in Pages /\ f \in VOID_IDX .. NFrames /\ NFrames - 1 \in Frames
    BY DEF TypeOK, Calls, NoRequest, Pages, Frames, Entries
  <2>2. Content(f) \in Ints  BY <2>1 DEF TypeOK, Content, VOID_IDX
  <2>3. /\ data' \in [0 .. NFrames -> Ints] /\ framepage' \in [Frames -> Ints]
        /\ result' \in Ints
    <3>1. CASE request.op = "write"
      <4>1. request.val \in Ints  BY <3>1 DEF TypeOK, Calls, NoRequest, Ints, Entries
      <4> QED  BY <1>6, <2>1, <3>1, <4>1 DEF Transfer, PutContent, TypeOK, VOID_IDX
    <3>2. CASE request.op # "write"
      BY <1>6, <2>2, <3>2 DEF Transfer, TypeOK
    <3> QED  BY <3>1, <3>2
  <2>4. TypeOK'
    BY <1>6, <2>3
    DEF Transfer, TypeOK, ClientPoints, adm, file, signals, locals, history
  <2>5. RequestInv' /\ FileInv'
    BY <1>6 DEF Transfer, RequestInv, FileInv, adm, file, signals, locals
  <2> QED  BY <2>4, <2>5
<1> QED  BY <1>1, <1>2, <1>3, <1>4, <1>5, <1>6 DEF Proceed

LEMMA SignalTypes ==
  ASSUME IndexInv, UserSignal \/ Loop \/ \E s \in {"USR1", "USR2", "INT"} : Deliver(s)
  PROVE  IndexInv'
<1> USE LoopServedAssumption DEF LoopServedAssumption, IndexInv
<1>1. CASE UserSignal
  <2>1. TypeOK'
    BY <1>1 DEF UserSignal, NewEvent, TypeOK, table, adm, file, locals, client
  <2>2. RequestInv' /\ FileInv'
    BY <1>1 DEF UserSignal, RequestInv, FileInv, file, locals, client
  <2> QED  BY <2>1, <2>2
<1>2. CASE Loop
  <2>1. /\ UNCHANGED <<algo, table, data, adm, req_pageno, sema, file, pending, lost,
                       locals, client, history>>
        /\ main \notin {"update", "fetch", "astray"}
        /\ main' \in {"reset", "pause", "paused", "is usr1", "is usr2", "is int",
                      "notice", "fault", "exited"}
        /\ signal_number' \in {"none", signal_number}
        /\ woken' \in BOOLEAN
        /\ main' \in Serving => main \in Serving \/ signal_number = "USR1"
    BY <1>2 DEF Loop, LoopGoes, ResetNumber, EnterPause, LeavePause, IsUsr1,
                NoticeFault, IsUsr2, IsInt, Serving, TypeOK
  <2>2. TypeOK'
    BY <2>1 DEF TypeOK, LoopPoints, table, adm, file, locals, client, history
  <2>3. RequestInv' /\ FileInv'
    BY <2>1 DEF RequestInv, FileInv, file, locals, client
  <2> QED  BY <2>2, <2>3
<1>3. ASSUME NEW s \in {"USR1", "USR2", "INT"}, Deliver(s)
      PROVE  IndexInv'
  <2>1. TypeOK'  BY <1>3 DEF Deliver, TypeOK, table, adm, file, locals, client, history
  <2>2. RequestInv' /\ FileInv'
    BY <1>3 DEF Deliver, RequestInv, FileInv, file, locals, client
  <2> QED  BY <2>1, <2>2
<1> QED  BY <1>1, <1>2, <1>3

\* What a page of the two arrays, or beside them, may be.
LEMMA NeighbourTypes ==
  ASSUME TypeOK
  PROVE  /\ \A f \in 0 .. NFrames : PageOn(f) \in Ints
         /\ \A f \in VOID_IDX .. NFrames : Content(f) \in Ints
  BY LoopServedAssumption
  DEF LoopServedAssumption, TypeOK, PageOn, Content, Frames, VOID_IDX

\* A bit of the count that is set can be taken from it.
LEMMA BitsOfCount ==
  ASSUME pf_count \in 0 .. CountMod - 1
  PROVE  /\ IsUsed(VOID_IDX) => pf_count - 4 \in 0 .. CountMod - 1
         /\ IsUsed1(VOID_IDX) => pf_count - 8 \in 0 .. CountMod - 1
<1>1. /\ pf_count < 4 => pf_count \div 4 = 0
      /\ pf_count < 8 => pf_count \div 8 = 0
  BY DEF CountMod
<1>2. 0 % 2 = 0  OBVIOUS
<1> QED  BY <1>1, <1>2 DEF IsUsed, IsUsed1, CountMod

\* page_fault: the frame 0 is the last to be used, the frame NFrames the last of
\* the free ones.
LEMMA FaultTypes ==
  ASSUME IndexInv, Fault
  PROVE  IndexInv'
<1> USE LoopServedAssumption DEF LoopServedAssumption, IndexInv
<1>1. CASE EnterFault
  <2>1. TypeOK'
    BY <1>1
    DEF EnterFault, TypeOK, LoopPoints, CountMod, table, file, signals, client, history
  <2>2. RequestInv' /\ FileInv'
    BY <1>1 DEF EnterFault, RequestInv, FileInv, Serving, file, signals, client
  <2> QED  BY <2>1, <2>2
<1>2. CASE TakeFreeFrame
  <2>1. size + 1 \in 0 .. NFrames /\ size + 1 \in VOID_IDX .. NFrames
    BY <1>2 DEF TakeFreeFrame, TypeOK, VOID_IDX
  <2>2. PageOn(size + 1) \in Ints  BY <2>1, NeighbourTypes
  <2>3. new_frame' = size + 1 /\ page_unloaded' = PageOn(size + 1) /\ size' = size + 1
        /\ main' \in {"store", "update"}
    BY <1>2 DEF TakeFreeFrame, TakeFrame
  <2>4. TypeOK'
    BY <1>2, <2>1, <2>2, <2>3
    DEF TakeFreeFrame, TypeOK, LoopPoints, table, file, signals, client, history
  <2> QED
    BY <1>2, <2>3, <2>4 DEF TakeFreeFrame, RequestInv, FileInv, Serving, file, signals,
                            client
<1>3. CASE PassFrame
  <2>1. Victim \in Ints /\ Incremented \in Frames
    BY DEF TypeOK, Victim, Incremented, Frames
  <2>2. \/ /\ algo = "CLOCK2" /\ IsUsed1(Victim)
           /\ ClearUsed1(Victim)
        \/ /\ IsUsed(Victim)
           /\ ClearUsed(Victim)
    BY <1>3 DEF PassFrame, IsSpared
  <2>3. /\ flags' \in [Pages -> SUBSET {"PRESENT", "USED", "USED1"}]
        /\ pf_count' \in 0 .. CountMod - 1
    <3>1. CASE Victim = VOID_IDX
      <4>1. \/ IsUsed1(VOID_IDX) /\ pf_count' = pf_count - 8
            \/ IsUsed(VOID_IDX) /\ pf_count' = pf_count - 4
        BY <2>2, <3>1 DEF ClearUsed, ClearUsed1
      <4>2. pf_count' \in 0 .. CountMod - 1  BY <4>1, BitsOfCount DEF TypeOK
      <4>3. flags' = flags  BY <2>2, <3>1 DEF ClearUsed, ClearUsed1
      <4> QED  BY <4>2, <4>3 DEF TypeOK
    <3>2. CASE Victim # VOID_IDX
      <4>1. /\ pf_count' = pf_count
            /\ \/ flags' = [flags EXCEPT ![Victim] = @ \ {"USED1"}]
               \/ flags' = [flags EXCEPT ![Victim] = @ \ {"USED"}]
        BY <2>2, <3>2 DEF ClearUsed, ClearUsed1
      <4> QED  BY <4>1 DEF TypeOK
    <3> QED  BY <3>1, <3>2
  <2>4. TypeOK'
    BY <1>3, <2>1, <2>3
    DEF PassFrame, TypeOK, LoopPoints, file, signals, locals, client, history
  <2> QED
    BY <1>3, <2>4 DEF PassFrame, RequestInv, FileInv, file, signals, locals, client
<1>4. CASE TakeVictim
  <2>1. next_alloc_idx \in 0 .. NFrames /\ next_alloc_idx \in VOID_IDX .. NFrames
        /\ Incremented \in Frames
    BY DEF TypeOK, Incremented, Frames, VOID_IDX
  <2>2. PageOn(next_alloc_idx) \in Ints  BY <2>1, NeighbourTypes
  <2>3. /\ new_frame' = next_alloc_idx /\ page_unloaded' = PageOn(next_alloc_idx)
        /\ main' \in {"store", "update"}
    BY <1>4 DEF TakeVictim, TakeFrame
  <2>4. TypeOK'
    BY <1>4, <2>1, <2>2, <2>3
    DEF TakeVictim, TypeOK, LoopPoints, table, file, signals, client, history
  <2> QED
    BY <1>4, <2>3, <2>4 DEF TakeVictim, RequestInv, FileInv, Serving, file, signals,
                            client
<1>5. CASE StorePage
  <2> DEFINE at == IF page_unloaded = VOID_IDX THEN filepos ELSE page_unloaded
  <2>1. at \in 0 .. NPages
    BY <1>5 DEF StorePage, TypeOK, FileInv, Entries, Pages, VOID_IDX
  <2>2. Content(frame[page_unloaded]) \in Ints
    BY <1>5, NeighbourTypes DEF StorePage, TypeOK
  <2>3. TypeOK'
    BY <1>5, <2>1, <2>2
    DEF StorePage, TypeOK, LoopPoints, table, adm, signals, locals, client, history
  <2> QED
    BY <1>5, <2>3 DEF StorePage, RequestInv, FileInv, Serving, signals, locals, client
<1>6. CASE UpdatePt
  <2> DEFINE old == PageOn(new_frame)
             cleared == [p \in Pages |-> IF p = old THEN {} ELSE flags[p]]
             undone  == [frame EXCEPT ![old] = VOID_IDX]
  <2>1. req_pageno \in Pages /\ new_frame \in VOID_IDX .. NFrames
    BY <1>6 DEF UpdatePt, TypeOK, RequestInv, Serving
  <2>2. flags' \in [Pages -> SUBSET {"PRESENT", "USED", "USED1"}]
    <3>1. cleared \in [Pages -> SUBSET {"PRESENT", "USED", "USED1"}]  BY DEF TypeOK
    <3>2. flags' = [cleared EXCEPT ![req_pageno] = @ \union {"PRESENT"}]
      BY <1>6 DEF UpdatePt
    <3> QED  BY <2>1, <3>1, <3>2
  <2>3. frame' \in [Entries -> VOID_IDX .. NFrames]
    <3>1. VOID_IDX \in VOID_IDX .. NFrames  BY DEF VOID_IDX
    <3>2. undone \in [Entries -> VOID_IDX .. NFrames]  BY <3>1 DEF TypeOK
    <3>3. frame' = [undone EXCEPT ![req_pageno] = new_frame]  BY <1>6 DEF UpdatePt
    <3> QED  BY <2>1, <3>2, <3>3
  <2>4. /\ data' \in [0 .. NFrames -> Ints] /\ framepage' \in [Frames -> Ints]
        /\ pf_count' \in 0 .. CountMod - 1
    <3>1. req_pageno \in Ints /\ 0 \in 0 .. CountMod - 1
      BY <2>1 DEF Ints, Entries, CountMod
    <3>2. \/ data' = [data EXCEPT ![0] = req_pageno] /\ framepage' = framepage
          \/ framepage' = [framepage EXCEPT ![new_frame] = req_pageno] /\ data' = data
      BY <1>6 DEF UpdatePt
    <3>3. pf_count' \in {0, pf_count}  BY <1>6 DEF UpdatePt
    <3> QED  BY <3>1, <3>2, <3>3 DEF TypeOK
  <2>5. TypeOK'
    BY <1>6, <2>2, <2>3, <2>4
    DEF UpdatePt, TypeOK, LoopPoints, file, signals, locals, client, history
  <2> QED
    BY <1>6, <2>5
    DEF UpdatePt, RequestInv, FileInv, Serving, file, signals, locals, client
<1>7. CASE FetchPage
  <2>1. req_page \in Pages /\ pagefile[req_page] \in Ints /\ req_page + 1 \in 0 .. NPages
    BY <1>7 DEF FetchPage, TypeOK, RequestInv, Pages
  <2>2. frame[req_page] \in VOID_IDX .. NFrames  BY <2>1 DEF TypeOK, Entries
  <2>3. data' \in [0 .. NFrames -> Ints] /\ framepage' \in [Frames -> Ints]
    BY <1>7, <2>1, <2>2 DEF FetchPage, PutContent, TypeOK, VOID_IDX
  <2>4. TypeOK'
    BY <1>7, <2>1, <2>3
    DEF FetchPage, TypeOK, LoopPoints, adm, signals, locals, client, history
  <2> QED
    BY <1>7, <2>1, <2>4 DEF FetchPage, RequestInv, FileInv, Serving, signals, locals,
                            client
<1>8. CASE PostSema
  <2>1. TypeOK'
    BY <1>8
    DEF PostSema, TypeOK, LoopPoints, Ints, Entries, VOID_IDX, table, adm, file,
        signals, client, history
  <2>2. RequestInv' /\ FileInv'
    BY <1>8 DEF PostSema, RequestInv, FileInv, Serving, file, signals, client
  <2> QED  BY <2>1, <2>2
<1>9. CASE LeaveArrays
  <2>1. TypeOK'
    BY <1>9
    DEF LeaveArrays, TypeOK, LoopPoints, table, adm, file, signals, locals, client,
        history
  <2>2. RequestInv' /\ FileInv'
    BY <1>9 DEF LeaveArrays, RequestInv, FileInv, Serving, file, signals, client
  <2> QED  BY <2>1, <2>2
<1> QED  BY <1>1, <1>2, <1>3, <1>4, <1>5, <1>6, <1>7, <1>8, <1>9 DEF Fault

LEMMA IndexInit == Init => IndexInv
<1> SUFFICES ASSUME Init PROVE IndexInv  OBVIOUS
<1> USE LoopServedAssumption DEF LoopServedAssumption, Init
<1>1. /\ flags \in [Pages -> SUBSET {"PRESENT", "USED", "USED1"}]
      /\ frame \in [Entries -> VOID_IDX .. NFrames]
      /\ framepage \in [Frames -> Ints]
      /\ data \in [0 .. NFrames -> Ints]
      /\ pagefile \in [0 .. NPages -> Ints]
  BY DEF Ints, Entries, Pages, VOID_IDX, OldValue
<1>2. /\ size \in 0 .. NFrames /\ next_alloc_idx \in Frames /\ filepos \in 0 .. NPages + 1
      /\ pf_count \in 0 .. CountMod - 1 /\ req_pageno \in Entries /\ sema \in Nat
      /\ new_frame \in VOID_IDX .. NFrames
  BY DEF Entries, Frames, CountMod, VOID_IDX, InitialSema
<1>3. main \in LoopPoints /\ pc \in ClientPoints  BY DEF LoopPoints, ClientPoints
<1>4. /\ req_page \in Entries /\ page_unloaded \in Ints /\ result \in Ints
      /\ events \in 0 .. MaxEvents /\ request \in Calls \union {NoRequest}
      /\ pending \subseteq {"USR1", "USR2", "INT"}
      /\ signal_number \in {"none", "USR1", "USR2", "INT"}
  BY DEF Ints, Entries
<1>6. TypeOK
  <2> HIDE DEF Init
  <2> algo \in Algos /\ woken \in BOOLEAN /\ lost \in Nat /\ ahead \in BOOLEAN
    BY DEF Init
  <2> QED  BY <1>1, <1>2, <1>3, <1>4 DEF TypeOK
<1>5. RequestInv /\ FileInv  BY DEF RequestInv, FileInv, Serving
<1> QED  BY <1>5, <1>6 DEF IndexInv

LEMMA IndexStep == IndexInv /\ [Next]_vars => IndexInv'
<1> SUFFICES ASSUME IndexInv, [Next]_vars PROVE IndexInv'  OBVIOUS
<1>1. CASE UNCHANGED vars
  <2> USE <1>1 DEF vars, table, adm, file, signals, locals, client, history, IndexInv
  <2>1. TypeOK'  BY DEF TypeOK
  <2>2. RequestInv' /\ FileInv'  BY DEF RequestInv, FileInv
  <2> QED  BY <2>1, <2>2
<1>2. CASE Next
  BY <1>2, ClientTypes, SignalTypes, FaultTypes DEF Next
<1> QED  BY <1>1, <1>2

\* Aufgabe3/: whatever a client writes, and wherever, no counter leaves its bits,
\* no frame the numbers -1 to NFrames, and the page file never stands further
\* than behind its spare page.
THEOREM LoopTypeCorrect == Spec => []TypeOK
<1>1. IndexInv => TypeOK  BY DEF IndexInv
<1> QED  BY IndexInit, IndexStep, <1>1, PTL DEF Spec
-----------------------------------------------------------------------------
(* The client's array, as long as no access comes too early *)

\* A fault has been signalled and the loop has not begun with it yet.
IsSent   == "USR1" \in pending
IsStored == Heard /\ signal_number = "USR1"
Asked    == IsSent \/ IsStored

\* The loop is at a fault and the page's data has not come yet; or the page is
\* not even in the table.
Busy    == {"notice", "fault", "search", "store", "update", "fetch"}
Mapping == Busy \ {"fetch"}

\* One fault at a time is on its way, and it is the client's.
OneFault ==
  /\ IF pc = "idle" THEN request = NoRequest ELSE request \in Calls
  /\ pc \in {"check", "kill", "wait"} => req_pageno = request.page
  /\ pc = "kill" => ~Present(request.page)
  /\ pc \in {"mark", "transfer"} => Present(request.page)
  /\ pc # "wait" => ~Asked /\ main \notin Busy
  /\ ~(IsSent /\ IsStored) /\ ~(Asked /\ main \in Busy)
  /\ Asked \/ main \in Mapping => ~Present(request.page)
  /\ main = "fetch" => Present(request.page)
  /\ main \in {"search", "store", "update", "fetch"} => req_page = request.page

Taken == main \in {"store", "update"}

\* The pages in memory are on frames of their own, the frame 0 is not among them
\* before all others are in use, and until then data[0] holds no content, so
\* that framepage[NFrames] is -1.
FramesApart ==
  /\ \A p \in Pages : Present(p) =>
       /\ frame[p] \in 0 .. size
       /\ frame[p] = 0 => size = NFrames
       /\ frame[p] < NFrames => framepage[frame[p]] = p
       /\ Taken /\ page_unloaded = VOID_IDX => frame[p] # new_frame
       /\ Taken /\ new_frame = NFrames => frame[p] # 0
  /\ \A p, q \in Pages : Present(p) /\ Present(q) /\ frame[p] = frame[q] => p = q
  /\ \A f \in Frames : framepage[f] # VOID_IDX =>
       framepage[f] \in Pages /\ Present(framepage[f]) /\ frame[framepage[f]] = f
  /\ size < NFrames \/ (Taken /\ new_frame = NFrames) => data[0] = VOID_IDX

\* A page that has to leave its frame is saved before it is dropped.
VictimIsSaved ==
  /\ Taken => /\ new_frame \in 0 .. size
              /\ new_frame = 0 => size = NFrames
              /\ page_unloaded = PageOn(new_frame)
              /\ page_unloaded # VOID_IDX => new_frame < NFrames
  /\ main = "update" /\ page_unloaded # VOID_IDX =>
       data[new_frame] = pagefile[page_unloaded]

ArrayInv == ~ahead => OneFault /\ FramesApart /\ VictimIsSaved

LEMMA ArrayInit == Init => ArrayInv
<1> SUFFICES ASSUME Init PROVE OneFault /\ FramesApart /\ VictimIsSaved
  BY DEF ArrayInv
<1>1. /\ pc = "idle" /\ request = NoRequest /\ pending = {} /\ main = "reset"
      /\ \A p \in Pages : ~Present(p)
      /\ \A f \in Frames : framepage[f] = VOID_IDX
  BY DEF Init, Present
<1>2. ~Asked
  BY <1>1 DEF Asked, IsSent, IsStored, Heard
<1>3. main \notin Busy /\ main \notin Mapping
  BY <1>1 DEF Busy, Mapping
<1>4. OneFault
  BY <1>1, <1>2, <1>3 DEF OneFault, Asked, Busy
<1>5. ~Taken
  BY <1>1 DEF Taken
<1>6. data[0] = VOID_IDX
  BY LoopServedAssumption DEF LoopServedAssumption, Init
<1>7. FramesApart
  BY <1>1, <1>5, <1>6 DEF FramesApart
<1>8. VictimIsSaved
  BY <1>1, <1>5 DEF VictimIsSaved
<1> QED  BY <1>4, <1>7, <1>8

\* What a step that leaves the table and the frames alone keeps.
LEMMA FramesKept ==
  ASSUME IndexInv, FramesApart, VictimIsSaved,
         UNCHANGED <<frame, framepage, data, size, pagefile>>,
         \A p \in Pages : Present(p)' <=> Present(p),
         \/ ~Taken'
         \/ main' = main /\ UNCHANGED <<new_frame, page_unloaded>>
  PROVE  FramesApart' /\ VictimIsSaved'
<1>1. \A f \in Frames : framepage[f] # VOID_IDX => framepage[f] \in Pages
  BY DEF FramesApart
<1>2. Taken' => Taken
  BY DEF Taken
<1>3. FramesApart'
  BY <1>1, <1>2 DEF FramesApart
<1>4. VictimIsSaved'
  BY <1>2 DEF VictimIsSaved, Taken, PageOn
<1> QED  BY <1>3, <1>4

\* The client's steps up to the access, and users that send other signals.
LEMMA ClientKeepsArray ==
  ASSUME IndexInv, OneFault, FramesApart, VictimIsSaved, ~ahead',
         \/ BeginAccess \/ CheckPresent \/ RaiseFault \/ AwaitPage \/ Mark \/ UserSignal
  PROVE  OneFault' /\ FramesApart' /\ VictimIsSaved'
<1> USE DEF table, adm, file, signals, locals, client, history
<1>1. /\ UNCHANGED <<frame, framepage, data, size, pagefile, main, locals,
                     signal_number, woken>>
      /\ \A p \in Pages : Present(p)' <=> Present(p)
  <2>1. UNCHANGED <<frame, framepage, data, size, pagefile, main, locals,
                    signal_number, woken>>
    BY DEF BeginAccess, CheckPresent, RaiseFault, AwaitPage, Mark, UserSignal
  <2>2. ASSUME NEW p \in Pages PROVE Present(p)' <=> Present(p)
    BY DEF BeginAccess, CheckPresent, RaiseFault, AwaitPage, Mark, UserSignal,
           Present, IndexInv, TypeOK
  <2> QED  BY <2>1, <2>2
<1>2. FramesApart' /\ VictimIsSaved'
  BY <1>1, FramesKept
<1>3. IsStored' <=> IsStored
  <2>1. Heard' <=> Heard  BY <1>1 DEF Heard
  <2> QED  BY <1>1, <2>1 DEF IsStored
<1>4. CASE UserSignal
  <2>1. IsSent' <=> IsSent  BY <1>4 DEF UserSignal, IsSent
  <2>2. UNCHANGED <<pc, request, req_pageno>>  BY <1>4 DEF UserSignal
  <2>3. request.page \in Pages
    BY LoopServedAssumption
    DEF LoopServedAssumption, IndexInv, TypeOK, Calls, NoRequest, Pages
  <2>4. Present(request.page)' <=> Present(request.page)
    BY <1>1, <2>2, <2>3
  <2>5. OneFault'
    BY <1>1, <1>3, <2>1, <2>2, <2>4 DEF OneFault, Asked
  <2> QED  BY <1>2, <2>5
<1>5. CASE BeginAccess
  <2>1. /\ IsSent' <=> IsSent
        /\ pc = "idle" /\ pc' = "check" /\ request' \in Calls
        /\ req_pageno' = request'.page
    BY <1>5 DEF BeginAccess, IsSent
  <2>2. ~Asked' /\ main' \notin Busy
    BY <1>1, <1>3, <2>1 DEF OneFault, Asked
  <2>3. main' \notin Mapping /\ main' \notin {"search", "store", "update", "fetch"}
    BY <2>2 DEF Mapping, Busy
  <2> QED  BY <1>2, <2>1, <2>2, <2>3 DEF OneFault, Asked
<1>6. CASE CheckPresent
  <2>1. /\ IsSent' <=> IsSent
        /\ pc = "check" /\ UNCHANGED <<request, req_pageno>> /\ request \in Calls
        /\ pc' = IF Present(request.page) THEN "mark" ELSE "kill"
    BY <1>6 DEF CheckPresent, IsSent, OneFault
  <2>2. ~Asked' /\ main' \notin Busy
    BY <1>1, <1>3, <2>1 DEF OneFault, Asked
  <2>3. main' \notin Mapping /\ main' \notin {"search", "store", "update", "fetch"}
    BY <2>2 DEF Mapping, Busy
  <2>4. request.page \in Pages  BY <2>1 DEF Calls
  <2>5. req_pageno = request.page  BY <2>1 DEF OneFault
  <2> QED  BY <1>1, <1>2, <2>1, <2>2, <2>3, <2>4, <2>5 DEF OneFault, Asked
<1>7. CASE RaiseFault
  <2>1. /\ pc = "kill" /\ pc' = "wait" /\ UNCHANGED <<request, req_pageno>>
        /\ request \in Calls /\ req_pageno = request.page
        /\ ~Present(request.page)
    BY <1>7 DEF RaiseFault, OneFault
  <2>2. ~IsStored' /\ main' \notin Busy
    BY <1>1, <1>3, <2>1 DEF OneFault, Asked
  <2>3. main' \notin Mapping /\ main' \notin {"search", "store", "update", "fetch"}
    BY <2>2 DEF Mapping, Busy
  <2>4. request.page \in Pages  BY <2>1 DEF Calls
  <2> QED  BY <1>1, <1>2, <2>1, <2>2, <2>3, <2>4 DEF OneFault, Asked
<1>8. CASE AwaitPage
  <2>1. /\ pc = "wait" /\ pc' = "mark" /\ UNCHANGED <<request, req_pageno>>
        /\ IsSent' <=> IsSent
        /\ request \in Calls /\ Loaded(request.page)
    BY <1>8 DEF AwaitPage, IsSent, OneFault
  <2>2. Present(request.page) /\ ~(main = "fetch" /\ request.page = req_page)
    BY <2>1 DEF Loaded
  <2>3. ~Asked /\ main \notin Mapping /\ main # "fetch"
    BY <2>2 DEF OneFault
  <2>4. ~Asked' /\ main' \notin Busy /\ main' \notin Mapping
    BY <1>1, <1>3, <2>1, <2>3 DEF Asked, Mapping
  <2>5. main' \notin {"search", "store", "update", "fetch"}
    BY <2>4 DEF Mapping, Busy
  <2>6. request.page \in Pages  BY <2>1 DEF Calls
  <2> QED  BY <1>1, <1>2, <2>1, <2>2, <2>4, <2>5, <2>6 DEF OneFault, Asked
<1>9. CASE Mark
  <2>1. /\ pc = "mark" /\ pc' = "transfer" /\ UNCHANGED <<request, req_pageno>>
        /\ IsSent' <=> IsSent
        /\ request \in Calls /\ Present(request.page)
    BY <1>9 DEF Mark, IsSent, OneFault
  <2>2. ~Asked' /\ main' \notin Busy
    BY <1>1, <1>3, <2>1 DEF OneFault, Asked
  <2>3. main' \notin Mapping /\ main' \notin {"search", "store", "update", "fetch"}
    BY <2>2 DEF Mapping, Busy
  <2>4. request.page \in Pages  BY <2>1 DEF Calls
  <2> QED  BY <1>1, <1>2, <2>1, <2>2, <2>3, <2>4 DEF OneFault, Asked
<1> QED  BY <1>4, <1>5, <1>6, <1>7, <1>8, <1>9

\* The loop takes note of the fault that is stored, and of no other.
LEMMA LoopHears ==
  ASSUME Loop
  PROVE  /\ UNCHANGED <<table, data, adm, req_pageno, file, locals, client, ahead, pending>>
         /\ main' \notin {"search", "store", "update", "fetch"}
         /\ IsStored' => IsStored
         /\ main' \in Busy => (main \in Mapping \/ IsStored) /\ ~IsStored'
<1> USE DEF LoopGoes
<1>1. UNCHANGED <<table, data, adm, req_pageno, file, locals, client, ahead, pending>>
  BY DEF Loop, ResetNumber, EnterPause, LeavePause, IsUsr1, NoticeFault, IsUsr2, IsInt,
         history
<1>2. CASE ResetNumber \/ EnterPause \/ IsUsr2 \/ IsInt
  <2>1. main' \notin Busy /\ ~Heard'
    BY <1>2 DEF ResetNumber, EnterPause, IsUsr2, IsInt, Heard, Busy
  <2>2. main' \notin {"search", "store", "update", "fetch"}
    BY <1>2 DEF ResetNumber, EnterPause, IsUsr2, IsInt
  <2> QED  BY <1>1, <2>1, <2>2 DEF IsStored
<1>3. CASE LeavePause
  <2>1. Heard /\ main' \notin Busy /\ signal_number' = signal_number
    BY <1>3 DEF LeavePause, Heard, Busy
  <2>2. main' \notin {"search", "store", "update", "fetch"}
    BY <1>3 DEF LeavePause
  <2> QED  BY <1>1, <2>1, <2>2 DEF IsStored
<1>4. CASE NoticeFault
  <2>1. main \in Mapping /\ ~Heard'
    BY <1>4 DEF NoticeFault, Heard, Busy, Mapping
  <2>2. main' \notin {"search", "store", "update", "fetch"}
    BY <1>4 DEF NoticeFault
  <2> QED  BY <1>1, <2>1, <2>2 DEF IsStored
<1>5. CASE IsUsr1
  <2>1. /\ Heard /\ ~Heard'
        /\ main' = IF signal_number = "USR1" THEN "notice" ELSE "is usr2"
    BY <1>5 DEF IsUsr1, Heard
  <2>2. main' \in Busy => signal_number = "USR1"
    BY <2>1 DEF Busy
  <2>3. main' \notin {"search", "store", "update", "fetch"}
    BY <2>1
  <2> QED  BY <1>1, <2>1, <2>2, <2>3 DEF IsStored
<1> QED  BY <1>2, <1>3, <1>4, <1>5 DEF Loop

LEMMA RequestedPage == IndexInv => request.page \in Pages
BY LoopServedAssumption
DEF LoopServedAssumption, IndexInv, TypeOK, Calls, NoRequest, Pages

\* What a step of the manager that is not update_pt does to the fault.
LEMMA FaultGoesOn ==
  ASSUME IndexInv, OneFault,
         UNCHANGED <<pc, request, req_pageno>>,
         \A p \in Pages : Present(p)' <=> Present(p),
         (IsSent' => IsSent) /\ ~(IsSent' /\ IsStored'),
         IsStored' => IsStored \/ IsSent,
         main' \in Busy =>
           /\ main \in Mapping \/ IsStored
           /\ main' # "fetch" /\ ~IsStored' /\ (IsSent' => IsSent /\ ~IsStored),
         main' \in {"search", "store", "update"} => req_page' = req_pageno
  PROVE  OneFault'
<1>1. Present(request.page)' <=> Present(request.page)
  BY RequestedPage
<1>2. (Asked' => Asked) /\ (main' \in Busy => main \in Mapping \/ Asked)
  BY DEF Asked
<1>3. (main \in Mapping => main \in Busy) /\ (main' \in Mapping => main' \in Busy)
      /\ (main' \in {"search", "store", "update", "fetch"} => main' \in Busy)
  BY DEF Mapping, Busy
<1>4. pc # "wait" => ~Asked' /\ main' \notin Busy
  BY <1>2, <1>3 DEF OneFault
<1>5. ~(Asked' /\ main' \in Busy)
  BY <1>2, <1>3 DEF OneFault, Asked
<1>6. Asked' \/ main' \in Mapping => ~Present(request.page)
  BY <1>2, <1>3 DEF OneFault
<1>7. main' # "fetch"
  BY <1>3
<1>8. main' \in {"search", "store", "update", "fetch"} => req_page' = request.page
  BY <1>3, <1>4, <1>7 DEF OneFault
<1> QED  BY <1>1, <1>4, <1>5, <1>6, <1>7, <1>8 DEF OneFault

LEMMA SignalsKeepArray ==
  ASSUME IndexInv, OneFault, FramesApart, VictimIsSaved,
         Loop \/ \E s \in {"USR1", "USR2", "INT"} : Deliver(s)
  PROVE  OneFault' /\ FramesApart' /\ VictimIsSaved'
<1> USE DEF table, adm, file, signals, locals, client, history
<1>1. UNCHANGED <<flags, frame, framepage, data, size, pagefile, new_frame, page_unloaded,
                  pc, request, req_pageno, req_page>>
  BY LoopHears DEF Deliver
<1>2. \A p \in Pages : Present(p)' <=> Present(p)
  BY <1>1 DEF Present
<1>3. CASE Loop
  <2>1. IsSent' <=> IsSent
    BY <1>3, LoopHears DEF IsSent
  <2>2. ~Taken'
    BY <1>3, LoopHears DEF Taken
  <2>3. main \in Mapping => main \in Busy
    BY DEF Mapping
  <2>4. main' \in Busy => /\ main \in Mapping \/ IsStored
                          /\ main' # "fetch" /\ ~IsStored'
                          /\ (IsSent' => IsSent /\ ~IsStored)
    BY <1>3, <2>1, <2>3, LoopHears DEF OneFault, Asked
  <2>5. OneFault'
    BY <1>1, <1>2, <1>3, <2>1, <2>4, LoopHears, FaultGoesOn DEF OneFault
  <2> QED  BY <1>1, <1>2, <2>2, <2>5, FramesKept
<1>4. CASE \E s \in {"USR1", "USR2", "INT"} : Deliver(s)
  <2>1. PICK s \in {"USR1", "USR2", "INT"} : Deliver(s)
    BY <1>4
  <2>2. main' = main /\ s \in pending /\ pending' = pending \ {s} /\ signal_number' = s
    BY <2>1 DEF Deliver
  <2>3. /\ IsSent' => IsSent /\ s # "USR1"
        /\ IsStored' => IsSent /\ ~IsSent'
    BY <2>2 DEF IsSent, IsStored
  <2>4. (Asked' => Asked) /\ ~(IsSent' /\ IsStored')
    BY <2>3 DEF Asked
  <2>5. Present(request.page)' <=> Present(request.page)
    BY <1>1, <1>2, RequestedPage
  <2>6. OneFault'
    BY <1>1, <2>2, <2>4, <2>5 DEF OneFault
  <2> QED  BY <1>1, <1>2, <2>2, <2>6, FramesKept
<1> QED  BY <1>3, <1>4

\* While the loop serves a fault, no number is stored that it would look at.
LEMMA ServingIsDeaf ==
  ASSUME main \in Serving \/ main = "reset"
  PROVE  ~IsStored
<1>1. ~Heard  BY DEF Heard, Serving
<1> QED  BY <1>1 DEF IsStored

LEMMA DeafSteps ==
  ASSUME \/ EnterFault \/ TakeFreeFrame \/ PassFrame \/ TakeVictim \/ StorePage
         \/ UpdatePt \/ FetchPage \/ PostSema
  PROVE  /\ ~IsStored /\ ~IsStored' /\ (IsSent' <=> IsSent)
         /\ UNCHANGED <<pc, request, req_pageno, ahead>>
<1>1. /\ main \in Serving /\ (main' \in Serving \/ main' = "reset")
      /\ UNCHANGED <<pc, request, req_pageno, ahead, pending>>
  BY DEF EnterFault, TakeFreeFrame, PassFrame, TakeVictim, StorePage, UpdatePt,
         FetchPage, PostSema, TakeFrame, signals, client, history, Serving
<1>2. ~IsStored  BY <1>1, ServingIsDeaf
<1>3. ~Heard'  BY <1>1 DEF Heard, Serving
<1>4. ~IsStored'  BY <1>3 DEF IsStored
<1> QED  BY <1>1, <1>2, <1>4 DEF IsSent

\* The steps of page_fault before update_pt.
LEMMA SearchGoesOn ==
  ASSUME IndexInv, OneFault,
         EnterFault \/ TakeFreeFrame \/ PassFrame \/ TakeVictim \/ StorePage \/ PostSema
  PROVE  OneFault'
<1>1. \A p \in Pages : Present(p)' <=> Present(p)
  BY DEF EnterFault, TakeFreeFrame, PassFrame, TakeVictim, StorePage, PostSema, table,
         Present, ClearUsed, ClearUsed1, IndexInv, TypeOK
<1>2. main' \in Busy => main \in Mapping /\ main' # "fetch"
  BY DEF EnterFault, TakeFreeFrame, PassFrame, TakeVictim, StorePage, PostSema,
         TakeFrame, Busy, Mapping
<1>3. main' \in {"search", "store", "update"} => req_page' = req_pageno
  <2>1. CASE EnterFault  BY <2>1 DEF EnterFault
  <2>2. CASE PostSema  BY <2>2 DEF PostSema
  <2>3. CASE TakeFreeFrame \/ PassFrame \/ TakeVictim \/ StorePage
    <3>1. main \in {"search", "store"} /\ req_page' = req_page
      BY <2>3 DEF TakeFreeFrame, PassFrame, TakeVictim, StorePage, locals, TakeFrame
    <3>2. main \in Busy  BY <3>1 DEF Busy
    <3>3. pc = "wait"  BY <3>2 DEF OneFault
    <3> QED  BY <3>1, <3>3 DEF OneFault
  <2> QED  BY <2>1, <2>2, <2>3
<1> QED  BY <1>1, <1>2, <1>3, DeafSteps, FaultGoesOn

\* The steps that neither take a frame nor move a page.
LEMMA BookkeepingKeepsArray ==
  ASSUME IndexInv, OneFault, FramesApart, VictimIsSaved,
         EnterFault \/ PassFrame \/ PostSema
  PROVE  OneFault' /\ FramesApart' /\ VictimIsSaved'
<1>1. UNCHANGED <<frame, framepage, data, size, pagefile>> /\ ~Taken'
  BY DEF EnterFault, PassFrame, PostSema, table, adm, file, Taken
<1>2. \A p \in Pages : Present(p)' <=> Present(p)
  BY DEF EnterFault, PassFrame, PostSema, table, Present, ClearUsed, ClearUsed1,
         IndexInv, TypeOK
<1> QED  BY <1>1, <1>2, SearchGoesOn, FramesKept

\* A free frame holds no page: no one is on it, and it is not the frame 0.
LEMMA TakeFreeFrameKeepsArray ==
  ASSUME IndexInv, OneFault, FramesApart, VictimIsSaved, TakeFreeFrame
  PROVE  OneFault' /\ FramesApart' /\ VictimIsSaved'
<1> USE LoopServedAssumption DEF LoopServedAssumption
<1> DEFINE f == size + 1
<1>1. /\ size \in Int /\ size >= 0 /\ NFrames \in Int /\ size < NFrames
      /\ frame \in [Entries -> VOID_IDX .. NFrames]
      /\ framepage \in [Frames -> Ints]
  BY DEF TakeFreeFrame, IndexInv, TypeOK
<1>2. /\ UNCHANGED <<flags, frame, framepage, data, pagefile>>
      /\ size' = f /\ new_frame' = f /\ page_unloaded' = PageOn(f)
      /\ main' = IF f >= NFrames THEN "store" ELSE "update"
      /\ ~Taken
  BY DEF TakeFreeFrame, TakeFrame, table, file, Taken
<1>3. \A p \in Pages : Present(p) => frame[p] \in 0 .. size /\ frame[p] # 0
  BY <1>1 DEF FramesApart
<1>4. \A g \in Frames : framepage[g] # VOID_IDX =>
        framepage[g] \in Pages /\ Present(framepage[g]) /\ frame[framepage[g]] = g
  BY DEF FramesApart
<1>5. data[0] = VOID_IDX
  BY <1>1 DEF FramesApart
<1>6. PageOn(f) = VOID_IDX
  <2>1. CASE f = NFrames
    BY <2>1, <1>5 DEF PageOn
  <2>2. CASE f # NFrames
    <3>1. f \in Frames  BY <1>1, <2>2 DEF Frames
    <3>2. framepage[f] = VOID_IDX  BY <1>1, <1>3, <1>4, <3>1
    <3> QED  BY <2>2, <3>2 DEF PageOn
  <2> QED  BY <2>1, <2>2
<1>7. \A p \in Pages : Present(p)' <=> Present(p)
  BY <1>2 DEF Present
<1>8. FramesApart'
  <2>1. ASSUME NEW p \in Pages, Present(p)
        PROVE  /\ frame[p] \in 0 .. f /\ frame[p] # 0 /\ frame[p] # f
               /\ frame[p] < NFrames => framepage[frame[p]] = p
    BY <2>1, <1>1, <1>3 DEF FramesApart
  <2>2. \A p, q \in Pages : Present(p) /\ Present(q) /\ frame[p] = frame[q] => p = q
    BY DEF FramesApart
  <2> HIDE DEF f
  <2> QED  BY <1>2, <1>4, <1>5, <1>7, <2>1, <2>2 DEF FramesApart
<1>9. VictimIsSaved'
  <2>1. /\ new_frame' \in 0 .. size' /\ new_frame' # 0
    BY <1>1, <1>2
  <2>2. page_unloaded' = VOID_IDX /\ page_unloaded' = PageOn(new_frame)'
    BY <1>2, <1>6 DEF PageOn
  <2> QED  BY <2>1, <2>2 DEF VictimIsSaved
<1> QED  BY <1>8, <1>9, SearchGoesOn

\* The frame under the hand is 0 to NFrames - 1: it holds its own page, or none.
LEMMA TakeVictimKeepsArray ==
  ASSUME IndexInv, OneFault, FramesApart, VictimIsSaved, TakeVictim
  PROVE  OneFault' /\ FramesApart' /\ VictimIsSaved'
<1> USE LoopServedAssumption DEF LoopServedAssumption
<1> DEFINE f == next_alloc_idx
<1>1. /\ size = NFrames /\ NFrames \in Int /\ NFrames > 0
      /\ f \in Frames /\ f \in Int /\ 0 <= f /\ f < NFrames
  BY DEF TakeVictim, IndexInv, TypeOK, Frames
<1>2. /\ UNCHANGED <<flags, frame, framepage, data, size, pagefile>>
      /\ new_frame' = f /\ page_unloaded' = PageOn(f)
      /\ main' = "store" /\ ~Taken
  BY <1>1 DEF TakeVictim, TakeFrame, table, file, Taken
<1>3. PageOn(f) = framepage[f]
  BY <1>1 DEF PageOn
<1>4. \A g \in Frames : framepage[g] # VOID_IDX =>
        framepage[g] \in Pages /\ Present(framepage[g]) /\ frame[framepage[g]] = g
  BY DEF FramesApart
<1>5. \A p \in Pages : Present(p)' <=> Present(p)
  BY <1>2 DEF Present
<1> HIDE DEF f
<1>6. FramesApart'
  <2>1. ASSUME NEW p \in Pages, Present(p)
        PROVE  /\ frame[p] \in 0 .. size /\ (frame[p] = 0 => size = NFrames)
               /\ frame[p] < NFrames => framepage[frame[p]] = p
               /\ framepage[f] = VOID_IDX => frame[p] # f
    <3>1. p # VOID_IDX  BY DEF Pages, VOID_IDX
    <3> QED  BY <2>1, <3>1, <1>1 DEF FramesApart
  <2>2. \A p, q \in Pages : Present(p) /\ Present(q) /\ frame[p] = frame[q] => p = q
    BY DEF FramesApart
  <2>3. ~(size' < NFrames) /\ new_frame' # NFrames
    BY <1>1, <1>2
  <2> QED  BY <1>2, <1>3, <1>4, <1>5, <2>1, <2>2, <2>3 DEF FramesApart
<1>7. VictimIsSaved'
  <2>1. /\ new_frame' \in 0 .. size' /\ size' = NFrames /\ new_frame' < NFrames
    BY <1>1, <1>2
  <2>2. page_unloaded' = PageOn(new_frame)'
    BY <1>2 DEF PageOn
  <2> QED  BY <1>2, <2>1, <2>2 DEF VictimIsSaved
<1> QED  BY <1>6, <1>7, SearchGoesOn

\* The page on the frame that is taken, if there is one.
LEMMA TakenPage ==
  ASSUME IndexInv, FramesApart, VictimIsSaved, Taken, page_unloaded # VOID_IDX
  PROVE  /\ page_unloaded \in Pages /\ Present(page_unloaded)
         /\ frame[page_unloaded] = new_frame /\ new_frame \in Frames
         /\ page_unloaded = PageOn(new_frame)
<1> USE LoopServedAssumption DEF LoopServedAssumption
<1>1. /\ new_frame \in 0 .. size /\ new_frame < NFrames /\ size \in Int /\ NFrames \in Int
      /\ page_unloaded = PageOn(new_frame)
  BY DEF VictimIsSaved, IndexInv, TypeOK
<1>2. new_frame \in Frames /\ new_frame # NFrames
  BY <1>1 DEF Frames
<1>3. page_unloaded = framepage[new_frame]
  BY <1>1, <1>2 DEF PageOn
<1> QED  BY <1>1, <1>2, <1>3 DEF FramesApart

\* The victim is saved from the frame it is on.
LEMMA StorePageKeepsArray ==
  ASSUME IndexInv, OneFault, FramesApart, VictimIsSaved, StorePage
  PROVE  OneFault' /\ FramesApart' /\ VictimIsSaved'
<1> USE LoopServedAssumption DEF LoopServedAssumption
<1> DEFINE u == page_unloaded
<1>1. /\ UNCHANGED <<flags, frame, framepage, data, size, new_frame, page_unloaded>>
      /\ main = "store" /\ main' = "update" /\ Taken /\ Taken'
  BY DEF StorePage, table, adm, locals, Taken
<1>2. \A p \in Pages : Present(p)' <=> Present(p)
  BY <1>1 DEF Present
<1>3. FramesApart'
  <2>1. \A f \in Frames : framepage[f] # VOID_IDX => framepage[f] \in Pages
    BY DEF FramesApart
  <2> QED  BY <1>1, <1>2, <2>1 DEF FramesApart
<1>4. u # VOID_IDX => data[new_frame] = pagefile'[u]
  <2> SUFFICES ASSUME u # VOID_IDX PROVE data[new_frame] = pagefile'[u]
    OBVIOUS
  <2>1. u \in Pages /\ frame[u] = new_frame /\ new_frame \in Frames
    BY <1>1, TakenPage
  <2>2. new_frame # VOID_IDX /\ u \in 0 .. NPages
    BY <2>1 DEF Frames, VOID_IDX, Pages
  <2>3. pagefile' = [pagefile EXCEPT ![u] = Content(new_frame)]
    BY <2>1 DEF StorePage
  <2> QED  BY <2>2, <2>3 DEF Content, IndexInv, TypeOK
<1>5. VictimIsSaved'
  <2>1. PageOn(new_frame)' = PageOn(new_frame)
    BY <1>1 DEF PageOn
  <2> QED  BY <1>1, <1>4, <2>1 DEF VictimIsSaved
<1> QED  BY <1>3, <1>5, SearchGoesOn

\* While update_pt and fetch_page run, the client waits for their page.
LEMMA WaitsForPage ==
  ASSUME IndexInv, OneFault, main \in {"update", "fetch"}
  PROVE  /\ pc = "wait" /\ ~Asked
         /\ req_pageno = request.page /\ req_page = request.page
         /\ request.page \in Pages
         /\ Present(request.page) <=> main = "fetch"
<1>1. main \in Busy /\ (main = "update" => main \in Mapping)
  BY DEF Busy, Mapping
<1>2. pc = "wait" /\ ~Asked  BY <1>1 DEF OneFault
<1> QED  BY <1>1, <1>2, RequestedPage DEF OneFault

\* What update_pt does, when the page it removes is the one that was saved.
LEMMA UpdatePtSteps ==
  ASSUME IndexInv, OneFault, FramesApart, VictimIsSaved, UpdatePt
  PROVE  LET q == request.page
             n == new_frame
             u == page_unloaded
         IN /\ q \in Pages /\ ~Present(q) /\ q # u /\ n \in 0 .. size /\ size' = size
            /\ u # VOID_IDX => u \in Pages /\ Present(u) /\ frame[u] = n /\ n < NFrames
            /\ Present(q)'
            /\ \A p \in Pages : p # q => (Present(p)' <=> Present(p) /\ p # u)
            /\ frame'[q] = n
            /\ \A p \in Pages : p # q /\ p # u => frame'[p] = frame[p]
            /\ \A p \in Pages : Present(p) /\ p # u => frame[p] # n
            /\ n < NFrames =>
                 framepage' = [framepage EXCEPT ![n] = q] /\ data' = data
            /\ n = NFrames =>
                 framepage' = framepage /\ data' = [data EXCEPT ![0] = q]
            /\ n = NFrames => \A p \in Pages : Present(p) => frame[p] # 0
            /\ main = "update" /\ main' = "fetch" /\ Taken /\ ~Taken'
            /\ UNCHANGED <<pagefile, req_page>> /\ req_page = q
<1> USE LoopServedAssumption DEF LoopServedAssumption
<1> DEFINE q == request.page
           n == new_frame
           u == page_unloaded
<1>1. main = "update" /\ main' = "fetch" /\ Taken /\ ~Taken' /\ size' = size
      /\ UNCHANGED <<pagefile, req_page>>
  BY DEF UpdatePt, Taken, file, locals
<1>2. q \in Pages /\ ~Present(q) /\ req_pageno = q /\ req_page = q
  BY <1>1, WaitsForPage
<1>3. n \in 0 .. size /\ u = PageOn(n) /\ (u # VOID_IDX => n < NFrames)
  BY <1>1 DEF VictimIsSaved
<1>4. u # VOID_IDX => u \in Pages /\ Present(u) /\ frame[u] = n
  BY <1>1, TakenPage
<1>5. q # u
  <2>1. q # VOID_IDX  BY <1>2 DEF Pages, VOID_IDX
  <2>2. CASE u # VOID_IDX
    <3>1. Present(u)  BY <2>2, <1>4
    <3>2. ~Present(q)  BY <1>2
    <3> HIDE DEF q, u
    <3> QED  BY <3>1, <3>2
  <2> QED  BY <2>1, <2>2
<1>6. /\ flags \in [Pages -> SUBSET {"PRESENT", "USED", "USED1"}]
      /\ frame \in [Entries -> VOID_IDX .. NFrames]
      /\ q \in Entries /\ u \in Entries /\ q # VOID_IDX /\ Pages \subseteq Entries
  BY <1>2, <1>4 DEF IndexInv, TypeOK, Entries, Pages, VOID_IDX
<1>7. flags' = [[p \in Pages |-> IF p = u THEN {} ELSE flags[p]]
                  EXCEPT ![q] = @ \union {"PRESENT"}]
  BY <1>2, <1>3 DEF UpdatePt
<1>8. frame' = [[frame EXCEPT ![u] = VOID_IDX] EXCEPT ![q] = n]
  BY <1>2, <1>3 DEF UpdatePt
<1>9. \A p \in Pages : Present(p) /\ p # u => frame[p] # n
  <2>1. CASE u = VOID_IDX
    BY <2>1, <1>1 DEF FramesApart
  <2>2. CASE u # VOID_IDX
    BY <2>2, <1>4 DEF FramesApart
  <2> QED  BY <2>1, <2>2
<1>10. /\ n < NFrames => framepage' = [framepage EXCEPT ![n] = q] /\ data' = data
       /\ n = NFrames => framepage' = framepage /\ data' = [data EXCEPT ![0] = q]
  <2>1. n < NFrames => n # NFrames
    BY <1>3 DEF IndexInv, TypeOK
  <2> QED  BY <2>1, <1>2 DEF UpdatePt
<1>11. n = NFrames => \A p \in Pages : Present(p) => frame[p] # 0
  BY <1>1 DEF FramesApart
<1>12. Present(q)' /\ \A p \in Pages : p # q => (Present(p)' <=> Present(p) /\ p # u)
  <2>1. "PRESENT" \in flags'[q]
    BY <1>2, <1>6, <1>7
  <2>2. ASSUME NEW p \in Pages, p # q
        PROVE  flags'[p] = IF p = u THEN {} ELSE flags[p]
    BY <2>2, <1>2, <1>6, <1>7
  <2>3. Present(q)'
    <3>1. (request.page)' = q
      BY DEF UpdatePt, client
    <3> QED  BY <2>1, <3>1 DEF Present
  <2>4. ASSUME NEW p \in Pages, p # q
        PROVE  Present(p)' <=> Present(p) /\ p # u
    BY <2>2, <2>4 DEF Present
  <2> QED  BY <2>3, <2>4
<1>13. frame'[q] = n /\ \A p \in Pages : p # q /\ p # u => frame'[p] = frame[p]
  BY <1>2, <1>6, <1>8
<1>14. (request.page)' = q
  BY DEF UpdatePt, client
<1> QED
  BY <1>1, <1>2, <1>3, <1>4, <1>5, <1>9, <1>10, <1>11, <1>12, <1>13, <1>14

\* update_pt puts the requested page on the frame that no other page is on.
LEMMA UpdatePtKeepsArray ==
  ASSUME IndexInv, OneFault, FramesApart, VictimIsSaved, UpdatePt
  PROVE  OneFault' /\ FramesApart' /\ VictimIsSaved'
<1> USE LoopServedAssumption DEF LoopServedAssumption
<1> DEFINE q == request.page
           n == new_frame
           u == page_unloaded
<1>1. /\ q \in Pages /\ ~Present(q) /\ q # u /\ n \in 0 .. size /\ size' = size
      /\ u # VOID_IDX => u \in Pages /\ Present(u) /\ frame[u] = n /\ n < NFrames
      /\ Present(q)'
      /\ \A p \in Pages : p # q => (Present(p)' <=> Present(p) /\ p # u)
      /\ frame'[q] = n
      /\ \A p \in Pages : p # q /\ p # u => frame'[p] = frame[p]
      /\ \A p \in Pages : Present(p) /\ p # u => frame[p] # n
  BY UpdatePtSteps
<1>2. /\ n < NFrames => framepage' = [framepage EXCEPT ![n] = q] /\ data' = data
      /\ n = NFrames => framepage' = framepage /\ data' = [data EXCEPT ![0] = q]
      /\ n = NFrames => \A p \in Pages : Present(p) => frame[p] # 0
      /\ main = "update" /\ main' = "fetch" /\ Taken /\ ~Taken'
      /\ req_page' = q
  BY UpdatePtSteps
<1>3. (request.page)' = q /\ UNCHANGED <<pc, request, req_pageno>>
  BY DEF UpdatePt, client
<1>4. /\ size \in Int /\ size >= 0 /\ size <= NFrames /\ NFrames \in Int /\ NFrames > 0
      /\ n \in Int
      /\ framepage \in [Frames -> Ints] /\ data \in [0 .. NFrames -> Ints]
  BY <1>1 DEF IndexInv, TypeOK
<1>5. OneFault'
  <2>1. pc = "wait" /\ ~Asked /\ req_pageno = q
    BY <1>2, WaitsForPage
  <2>2. ~Asked'
    BY <2>1, DeafSteps DEF Asked
  <2>3. main' \notin Mapping /\ ~(IsSent' /\ IsStored')
    BY <1>2, <2>2 DEF Mapping, Asked
  <2>4. request \in Calls
    BY <2>1 DEF OneFault
  <2> QED  BY <1>1, <1>2, <1>3, <2>1, <2>2, <2>3, <2>4 DEF OneFault
<1>6. n = 0 => size = NFrames
  BY <1>2 DEF VictimIsSaved
<1>7. ASSUME NEW p \in Pages, Present(p)'
      PROVE  /\ frame'[p] \in 0 .. size
             /\ frame'[p] = 0 => size = NFrames
             /\ frame'[p] < NFrames => framepage'[frame'[p]] = p
  <2>1. CASE p = q
    <3>1. n < NFrames => n \in Frames  BY <1>1, <1>4 DEF Frames
    <3> QED  BY <2>1, <3>1, <1>1, <1>2, <1>4, <1>6
  <2>2. CASE p # q
    <3> DEFINE g == frame[p]
    <3>1. Present(p) /\ p # u /\ frame'[p] = g /\ g # n
      BY <2>2, <1>1, <1>7
    <3>2. g \in 0 .. size /\ (g = 0 => size = NFrames) /\ (g < NFrames => framepage[g] = p)
      BY <3>1 DEF FramesApart
    <3>3. g < NFrames => framepage'[g] = p
      <4>1. g < NFrames => g \in Frames  BY <3>2, <1>4 DEF Frames
      <4>2. n < NFrames \/ n = NFrames  BY <1>1, <1>4
      <4> QED  BY <4>1, <4>2, <3>1, <3>2, <1>2, <1>4
    <3> HIDE DEF g
    <3> QED  BY <3>1, <3>2, <3>3
  <2> QED  BY <2>1, <2>2
<1>8. ASSUME NEW p \in Pages, NEW r \in Pages, Present(p)', Present(r)',
             frame'[p] = frame'[r]
      PROVE  p = r
  <2>1. CASE p # q /\ r # q
    BY <2>1, <1>1, <1>8 DEF FramesApart
  <2>2. CASE p = q /\ r # q
    BY <2>2, <1>1, <1>8
  <2>3. CASE p # q /\ r = q
    BY <2>3, <1>1, <1>8
  <2> QED  BY <2>1, <2>2, <2>3
<1>9. ASSUME NEW f \in Frames, framepage'[f] # VOID_IDX
      PROVE  /\ (framepage[f])' \in Pages /\ Present(framepage[f])'
             /\ frame'[framepage'[f]] = f
  <2>1. CASE f = n
    <3>1. framepage'[f] = q  BY <2>1, <1>2, <1>4 DEF Frames
    <3>2. Present(framepage[f])'  BY <3>1, <1>1, <1>3 DEF Present
    <3> QED  BY <2>1, <3>1, <3>2, <1>1
  <2>2. CASE f # n
    <3> DEFINE p == framepage[f]
    <3>1. framepage'[f] = p
      <4>1. n < NFrames \/ n = NFrames  BY <1>1, <1>4
      <4> QED  BY <4>1, <2>2, <1>2, <1>4
    <3>2. p \in Pages /\ Present(p) /\ frame[p] = f
      BY <3>1, <1>9 DEF FramesApart
    <3> HIDE DEF p
    <3>3. p # q /\ p # u
      <4>1. p # q
        <5>1. ~Present(q)  BY <1>1
        <5> HIDE DEF q
        <5> QED  BY <5>1, <3>2
      <4>2. p # u
        BY <1>9, <3>1, <3>2, <2>2, <1>1
      <4> QED  BY <4>1, <4>2
    <3>4. "PRESENT" \in flags'[p]
      BY <3>2, <3>3, <1>1 DEF Present
    <3>5. Present(framepage[f])'
      BY <3>1, <3>4 DEF Present
    <3> QED  BY <3>1, <3>2, <3>3, <3>5, <1>1
  <2> QED  BY <2>1, <2>2
<1>10. size < NFrames => data'[0] = VOID_IDX
  <2>1. size < NFrames => data[0] = VOID_IDX /\ n < NFrames
    BY <1>1, <1>4 DEF FramesApart
  <2> QED  BY <2>1, <1>2
<1>11. FramesApart'
  BY <1>1, <1>2, <1>7, <1>8, <1>9, <1>10 DEF FramesApart
<1>12. VictimIsSaved'
  BY <1>2 DEF VictimIsSaved
<1> QED  BY <1>5, <1>11, <1>12

\* fetch_page fills the frame of the requested page.
LEMMA FetchPageKeepsArray ==
  ASSUME IndexInv, OneFault, FramesApart, VictimIsSaved, FetchPage
  PROVE  /\ OneFault' /\ FramesApart' /\ VictimIsSaved'
         /\ frame[req_page] \in 0 .. size /\ Present(req_page) /\ req_page \in Pages
         /\ data' = [data EXCEPT ![frame[req_page]] = pagefile[req_page]]
<1> USE LoopServedAssumption DEF LoopServedAssumption
<1>1. /\ UNCHANGED <<flags, frame, size, pagefile, pc, request, req_pageno>>
      /\ main = "fetch" /\ main' = "post" /\ ~Taken'
      /\ PutContent(frame[req_page], pagefile[req_page])
  BY DEF FetchPage, adm, client, Taken
<1>2. pc = "wait" /\ ~Asked /\ req_page \in Pages /\ Present(req_page)
      /\ req_pageno = request.page /\ request.page = req_page
  BY <1>1, WaitsForPage
<1> DEFINE f == frame[req_page]
<1>3. f \in 0 .. size /\ (f = 0 => size = NFrames)
  BY <1>2 DEF FramesApart
<1>4. /\ size \in Int /\ size <= NFrames /\ NFrames \in Int /\ size >= 0 /\ NFrames > 0
      /\ framepage \in [Frames -> Ints] /\ data \in [0 .. NFrames -> Ints]
  BY DEF IndexInv, TypeOK
<1>5. f # VOID_IDX
  BY <1>3, <1>4 DEF VOID_IDX
<1>6. framepage' = framepage /\ data' = [data EXCEPT ![f] = pagefile[req_page]]
  BY <1>1, <1>5 DEF PutContent
<1> HIDE DEF f
<1>7. \A p \in Pages : Present(p)' <=> Present(p)
  BY <1>1 DEF Present
<1>8. OneFault'
  <2>1. ~Asked'
    BY <1>2, DeafSteps DEF Asked
  <2>2. main' \notin Mapping /\ main' \notin Busy /\ ~(IsSent' /\ IsStored')
    BY <1>1, <2>1 DEF Mapping, Asked, Busy
  <2> QED  BY <1>1, <1>2, <2>1, <2>2 DEF OneFault
<1>9. size < NFrames => data'[0] = VOID_IDX
  <2>1. size < NFrames => data[0] = VOID_IDX /\ f # 0
    BY <1>3, <1>4 DEF FramesApart
  <2> QED  BY <2>1, <1>4, <1>6
<1>10. FramesApart'
  <2>1. \A g \in Frames : framepage[g] # VOID_IDX => framepage[g] \in Pages
    BY DEF FramesApart
  <2> QED  BY <1>1, <1>6, <1>7, <1>9, <2>1 DEF FramesApart
<1>11. VictimIsSaved'
  BY <1>1 DEF VictimIsSaved, Taken
<1> QED  BY <1>2, <1>3, <1>6, <1>8, <1>10, <1>11 DEF f

\* An access through the page's frame.
LEMMA TransferKeepsArray ==
  ASSUME IndexInv, OneFault, FramesApart, VictimIsSaved, Transfer
  PROVE  /\ OneFault' /\ FramesApart' /\ VictimIsSaved'
         /\ request \in Calls /\ Loaded(request.page) /\ request.page \in Pages
         /\ frame[request.page] \in 0 .. size /\ main \notin Busy
         /\ IF request.op = "write"
              THEN /\ data' = [data EXCEPT ![frame[request.page]] = request.val]
                   /\ result' = result
              ELSE data' = data /\ result' = data[frame[request.page]]
         /\ UNCHANGED <<flags, frame, framepage, pagefile, main, req_page>>
         /\ request' = NoRequest
<1> USE LoopServedAssumption DEF LoopServedAssumption
<1> DEFINE q == request.page
           f == frame[q]
<1>1. /\ UNCHANGED <<flags, frame, size, pagefile, main, new_frame, page_unloaded,
                     req_page, pending, signal_number, woken>>
      /\ pc = "transfer" /\ pc' = "idle" /\ request' = NoRequest
  BY DEF Transfer, adm, file, signals, locals
<1>2. request \in Calls /\ q \in Pages /\ Present(q) /\ ~Asked /\ main \notin Busy
  BY <1>1 DEF OneFault, Calls
<1>3. main \notin Mapping /\ ~Taken /\ ~Taken'
      /\ main \notin {"search", "store", "update", "fetch"}
  BY <1>1, <1>2 DEF Mapping, Busy, Taken
<1>4. f \in 0 .. size /\ (f = 0 => size = NFrames)
  BY <1>2 DEF FramesApart
<1>5. /\ size \in Int /\ size <= NFrames /\ NFrames \in Int /\ size >= 0 /\ NFrames > 0
      /\ framepage \in [Frames -> Ints] /\ data \in [0 .. NFrames -> Ints]
  BY DEF IndexInv, TypeOK
<1>6. f # VOID_IDX
  BY <1>4, <1>5 DEF VOID_IDX
<1>7. framepage' = framepage
      /\ IF request.op = "write"
           THEN data' = [data EXCEPT ![f] = request.val] /\ result' = result
           ELSE data' = data /\ result' = data[f]
  BY <1>6 DEF Transfer, PutContent, Content
<1> HIDE DEF f
<1>8. \A p \in Pages : Present(p)' <=> Present(p)
  BY <1>1 DEF Present
<1>9. OneFault'
  <2>1. ~Asked'
    <3>1. Heard' <=> Heard  BY <1>1 DEF Heard
    <3> QED  BY <1>1, <1>2, <3>1 DEF Asked, IsSent, IsStored
  <2>2. ~(IsSent' /\ IsStored') /\ pc' \notin {"check", "kill", "wait", "mark", "transfer"}
    BY <1>1, <2>1 DEF Asked
  <2> QED  BY <1>1, <1>2, <1>3, <2>1, <2>2 DEF OneFault
<1>10. size < NFrames => data'[0] = VOID_IDX
  <2>1. size < NFrames => data[0] = VOID_IDX /\ f # 0
    BY <1>4, <1>5 DEF FramesApart
  <2> QED  BY <2>1, <1>5, <1>7
<1>11. FramesApart'
  <2>1. \A g \in Frames : framepage[g] # VOID_IDX => framepage[g] \in Pages
    BY DEF FramesApart
  <2> QED  BY <1>1, <1>3, <1>7, <1>8, <1>10, <2>1 DEF FramesApart
<1>12. VictimIsSaved'
  BY <1>1, <1>3 DEF VictimIsSaved, Taken
<1>13. Loaded(q)
  BY <1>2, <1>3 DEF Loaded
<1> QED  BY <1>1, <1>2, <1>4, <1>7, <1>9, <1>11, <1>12, <1>13 DEF f

LEMMA AheadStays == [Next]_vars /\ ahead => ahead'
BY DEF Next, vars, Proceed, Loop, Fault, BeginAccess, CheckPresent, RaiseFault,
   AwaitPage, Mark, Transfer, UserSignal, Deliver, LoopGoes, ResetNumber, EnterPause,
   LeavePause, IsUsr1, NoticeFault, IsUsr2, IsInt, EnterFault, TakeFreeFrame,
   PassFrame, TakeVictim, StorePage, UpdatePt, FetchPage, PostSema, LeaveArrays,
   history

\* What is taken for the number of a page is one, or -1: the page under the hand
\* is in framepage, the page on the frame NFrames is -1.
LEMMA StaysInArrays ==
  ASSUME IndexInv, FramesApart, VictimIsSaved
  PROVE  ~LeaveArrays
<1> SUFFICES ASSUME LeaveArrays PROVE FALSE  OBVIOUS
<1>1. CASE main = "search" /\ Victim \notin Entries
  <2>1. next_alloc_idx \in Frames  BY DEF IndexInv, TypeOK
  <2>2. Victim = VOID_IDX \/ Victim \in Pages  BY <2>1 DEF FramesApart, Victim
  <2> QED  BY <1>1, <2>2 DEF Entries
<1>2. CASE Taken /\ page_unloaded \notin Entries
  <2>1. page_unloaded # VOID_IDX /\ page_unloaded \notin Pages  BY <1>2 DEF Entries
  <2> QED  BY <1>2, <2>1, TakenPage
<1>3. CASE Taken /\ PageOn(new_frame) \notin Entries
  <2>1. page_unloaded = PageOn(new_frame)  BY <1>3 DEF VictimIsSaved
  <2> QED  BY <1>2, <1>3, <2>1
<1> QED  BY <1>1, <1>2, <1>3 DEF LeaveArrays, Taken

LEMMA ArrayStep == IndexInv /\ ArrayInv /\ [Next]_vars => ArrayInv'
<1> SUFFICES ASSUME IndexInv, ArrayInv, [Next]_vars, ~ahead'
             PROVE  OneFault' /\ FramesApart' /\ VictimIsSaved'
  BY DEF ArrayInv
<1>1. OneFault /\ FramesApart /\ VictimIsSaved
  BY AheadStays DEF ArrayInv
<1>2. CASE UNCHANGED vars
  <2>1. UNCHANGED <<frame, framepage, data, size, pagefile, main, new_frame, page_unloaded,
                    flags, pc, request, req_pageno, req_page, pending, signal_number, woken>>
    BY <1>2 DEF vars, table, adm, file, signals, locals, client
  <2>2. \A p \in Pages : Present(p)' <=> Present(p)
    BY <2>1 DEF Present
  <2>3. Present(request.page)' <=> Present(request.page)
    BY <2>1 DEF Present
  <2>4. (IsSent' <=> IsSent) /\ (IsStored' <=> IsStored)
    <3>1. Heard' <=> Heard  BY <2>1 DEF Heard
    <3> QED  BY <2>1, <3>1 DEF IsSent, IsStored
  <2>5. OneFault'
    BY <1>1, <2>1, <2>3, <2>4 DEF OneFault, Asked
  <2> QED  BY <1>1, <2>1, <2>2, <2>5, FramesKept
<1>3. CASE BeginAccess \/ Proceed \/ UserSignal
  BY <1>1, <1>3, ClientKeepsArray, TransferKeepsArray DEF Proceed
<1>4. CASE Loop \/ \E s \in {"USR1", "USR2", "INT"} : Deliver(s)
  BY <1>1, <1>4, SignalsKeepArray
<1>5. CASE Fault
  BY <1>1, <1>5, BookkeepingKeepsArray, TakeFreeFrameKeepsArray, TakeVictimKeepsArray,
     StorePageKeepsArray, UpdatePtKeepsArray, FetchPageKeepsArray, StaysInArrays
  DEF Fault
<1> QED  BY <1>2, <1>3, <1>4, <1>5 DEF Next

LEMMA NearStep ==
  IndexInv /\ ArrayInv /\ IndexesStayNear /\ [Next]_vars => IndexesStayNear'
<1> SUFFICES ASSUME IndexInv, ArrayInv, IndexesStayNear, [Next]_vars, main' = "astray",
                    ~ahead'
             PROVE  FALSE
  BY DEF IndexesStayNear
<1>1. FramesApart /\ VictimIsSaved /\ main # "astray"
  BY AheadStays DEF ArrayInv, IndexesStayNear
<1>2. ~LeaveArrays  BY <1>1, StaysInArrays
<1>3. \/ UNCHANGED main \/ Loop \/ Fault
  BY DEF Next, vars, Proceed, BeginAccess, CheckPresent, RaiseFault, AwaitPage, Mark,
         Transfer, UserSignal, Deliver
<1>4. CASE Loop
  BY <1>4 DEF Loop, LoopGoes, ResetNumber, EnterPause, LeavePause, IsUsr1, NoticeFault,
              IsUsr2, IsInt
<1>5. CASE Fault
  BY <1>2, <1>5 DEF Fault, EnterFault, TakeFreeFrame, TakeFrame, PassFrame, TakeVictim,
                    StorePage, UpdatePt, FetchPage, PostSema
<1> QED  BY <1>1, <1>3, <1>4, <1>5

\* Aufgabe3/mmanage.c counts its frames from 1, takes framepage[VMEM_NFRAMES] for
\* the page on the last of them and saves and looks up page -1, and a client may
\* write any int.  Yet as long as no access comes too early, no index leaves its
\* array by more than the one element named in the module.
THEOREM IndexesStayBeside == Spec => []IndexesStayNear
<1>1. Init => IndexesStayNear  BY DEF Init, IndexesStayNear
<1> QED
  BY IndexInit, IndexStep, ArrayInit, ArrayStep, NearStep, <1>1, PTL DEF Spec

-----------------------------------------------------------------------------
(* What the client sees of a step *)

View(p) == IF Loaded(p) THEN Content(frame[p]) ELSE pagefile[p]

LEMMA FlatViewFromViews ==
  ASSUME \A p \in Pages : View(p)' = View(p)
  PROVE  FlatView' = FlatView
BY DEF FlatView, View

\* The content of a loaded page is in the array of the frames.
LEMMA LoadedContent ==
  ASSUME IndexInv, FramesApart, NEW p \in Pages, Present(p)
  PROVE  /\ frame[p] \in 0 .. size /\ frame[p] \in 0 .. NFrames
         /\ Content(frame[p]) = data[frame[p]]
<1>1. frame[p] \in 0 .. size /\ size \in 0 .. NFrames /\ NFrames \in Nat
  BY LoopServedAssumption DEF LoopServedAssumption, FramesApart, IndexInv, TypeOK
<1>2. frame[p] # VOID_IDX /\ frame[p] \in 0 .. NFrames
  BY <1>1 DEF VOID_IDX
<1> QED  BY <1>1, <1>2 DEF Content

\* The steps that move nothing the client could see.
LEMMA UnseenSteps ==
  ASSUME IndexInv,
         \/ UNCHANGED vars
         \/ CheckPresent \/ RaiseFault \/ AwaitPage \/ Mark \/ UserSignal
         \/ Loop \/ (\E s \in {"USR1", "USR2", "INT"} : Deliver(s))
         \/ EnterFault \/ TakeFreeFrame \/ PassFrame \/ TakeVictim \/ PostSema
  PROVE  UNCHANGED <<FlatView, request, result>>
<1> USE DEF table, adm, file, signals, locals, client, history
<1>1. CASE \/ UNCHANGED vars
           \/ CheckPresent \/ RaiseFault \/ AwaitPage \/ Mark \/ UserSignal
           \/ \E s \in {"USR1", "USR2", "INT"} : Deliver(s)
  <2>1. UNCHANGED <<frame, framepage, data, pagefile, main, req_page, request, result>>
    BY <1>1 DEF vars, CheckPresent, RaiseFault, AwaitPage, Mark, UserSignal, Deliver
  <2>2. \A p \in Pages : Present(p)' <=> Present(p)
    BY <1>1 DEF vars, CheckPresent, RaiseFault, AwaitPage, Mark, UserSignal, Deliver,
                Present, IndexInv, TypeOK
  <2>3. \A p \in Pages : View(p)' = View(p)
    BY <2>1, <2>2 DEF View, Loaded, Content
  <2> QED  BY <2>1, <2>3, FlatViewFromViews
<1>2. CASE Loop \/ EnterFault \/ TakeFreeFrame \/ PassFrame \/ TakeVictim \/ PostSema
  <2>1. /\ UNCHANGED <<frame, framepage, data, pagefile, request, result>>
        /\ \A p \in Pages : Present(p)' <=> Present(p)
    <3>1. CASE Loop
      BY <3>1, LoopHears DEF Present
    <3>2. CASE EnterFault \/ TakeFreeFrame \/ TakeVictim \/ PostSema
      BY <3>2 DEF EnterFault, TakeFreeFrame, TakeVictim, PostSema, Present
    <3>3. CASE PassFrame
      <4>1. UNCHANGED <<frame, framepage, data, pagefile, request, result>>
        BY <3>3 DEF PassFrame
      <4>2. \/ flags' = flags
            \/ flags' = [flags EXCEPT ![Victim] = @ \ {"USED"}]
            \/ flags' = [flags EXCEPT ![Victim] = @ \ {"USED1"}]
        BY <3>3 DEF PassFrame, ClearUsed, ClearUsed1
      <4>3. flags \in [Pages -> SUBSET {"PRESENT", "USED", "USED1"}]
        BY DEF IndexInv, TypeOK
      <4> QED  BY <4>1, <4>2, <4>3 DEF Present
    <3> QED  BY <1>2, <3>1, <3>2, <3>3
  <2>2. main # "fetch" /\ main' # "fetch"
    <3>1. CASE Loop
      BY <3>1 DEF Loop, LoopGoes, ResetNumber, EnterPause, LeavePause, IsUsr1,
                  NoticeFault, IsUsr2, IsInt
    <3>2. CASE EnterFault \/ TakeFreeFrame \/ PassFrame \/ TakeVictim \/ PostSema
      BY <3>2 DEF EnterFault, TakeFreeFrame, TakeFrame, PassFrame, TakeVictim, PostSema
    <3> QED  BY <1>2, <3>1, <3>2
  <2>3. \A p \in Pages : View(p)' = View(p)
    BY <2>1, <2>2 DEF View, Loaded, Content
  <2> QED  BY <2>1, <2>3, FlatViewFromViews
<1> QED  BY <1>1, <1>2

\* A page that is saved is still in its frame.
LEMMA StorePageIsUnseen ==
  ASSUME IndexInv, FramesApart, VictimIsSaved, StorePage, page_unloaded # VOID_IDX
  PROVE  FlatView' = FlatView
<1> DEFINE u == page_unloaded
<1>1. /\ UNCHANGED <<flags, frame, framepage, data, req_page>>
      /\ main = "store" /\ main' = "update" /\ Taken
      /\ pagefile' = [pagefile EXCEPT ![u] = Content(frame[u])]
  BY DEF StorePage, table, locals, Taken
<1>2. u \in Pages /\ Present(u)
  BY <1>1, TakenPage
<1>3. ASSUME NEW p \in Pages PROVE View(p)' = View(p)
  <2>1. CASE p = u
    BY <2>1, <1>1, <1>2 DEF View, Loaded, Content, Present
  <2>2. CASE p # u
    <3>1. pagefile'[p] = pagefile[p]
      BY <2>2, <1>1 DEF IndexInv, TypeOK, Pages
    <3> QED  BY <3>1, <1>1 DEF View, Loaded, Content, Present
  <2> QED  BY <2>1, <2>2
<1> QED  BY <1>3, FlatViewFromViews

\* update_pt drops a page that is saved, and maps one whose data is to come.
LEMMA UpdatePtIsUnseen ==
  ASSUME IndexInv, OneFault, FramesApart, VictimIsSaved, UpdatePt, FramesApart', IndexInv'
  PROVE  FlatView' = FlatView
<1> DEFINE q == request.page
           n == new_frame
           u == page_unloaded
<1>1. /\ q \in Pages /\ ~Present(q) /\ q # u /\ n \in 0 .. size
      /\ u # VOID_IDX => u \in Pages /\ Present(u) /\ frame[u] = n /\ n < NFrames
      /\ Present(q)'
      /\ \A p \in Pages : p # q => (Present(p)' <=> Present(p) /\ p # u)
      /\ \A p \in Pages : p # q /\ p # u => frame'[p] = frame[p]
      /\ n < NFrames => data' = data
      /\ n = NFrames => data' = [data EXCEPT ![0] = q]
      /\ n = NFrames => \A p \in Pages : Present(p) => frame[p] # 0
      /\ main = "update" /\ main' = "fetch"
      /\ pagefile' = pagefile /\ req_page' = q
  BY UpdatePtSteps
<1>2. size \in 0 .. NFrames /\ NFrames \in Nat /\ data \in [0 .. NFrames -> Ints]
      /\ (request.page)' = q
  BY LoopServedAssumption
  DEF LoopServedAssumption, IndexInv, TypeOK, UpdatePt, client
<1>3. n < NFrames \/ n = NFrames
  BY <1>1, <1>2
<1>4. ASSUME NEW p \in Pages PROVE View(p)' = View(p)
  <2>1. CASE p = q
    <3>1. ~Loaded(p)  BY <2>1, <1>1 DEF Loaded
    <3>2. ~Loaded(p)'  BY <2>1, <1>1 DEF Loaded
    <3> QED  BY <3>1, <3>2, <1>1 DEF View
  <2>2. CASE p = u
    <3>1. p # q /\ Present(p) /\ frame[p] = n /\ ~Present(p)'
      <4>1. u # VOID_IDX  BY <2>2 DEF Pages, VOID_IDX
      <4> QED  BY <4>1, <2>2, <1>1
    <3>2. Loaded(p) /\ ~Loaded(p)'
      BY <3>1, <1>1 DEF Loaded
    <3>3. u # VOID_IDX  BY <2>2 DEF Pages, VOID_IDX
    <3>4. data[n] = pagefile[p]
      BY <3>3, <2>2, <1>1 DEF VictimIsSaved
    <3>5. Content(frame[p]) = data[n]
      BY <3>1, LoadedContent
    <3> QED  BY <3>2, <3>4, <3>5, <1>1 DEF View
  <2>3. CASE p # q /\ p # u
    <3>1. (Present(p)' <=> Present(p)) /\ frame'[p] = frame[p]
      BY <2>3, <1>1
    <3>2. CASE Present(p)
      <4>1. Loaded(p) /\ Loaded(p)'
        BY <2>3, <3>1, <3>2, <1>1 DEF Loaded
      <4>2. frame[p] \in 0 .. NFrames /\ Content(frame[p]) = data[frame[p]]
        BY <3>2, LoadedContent
      <4>3. frame[p] # VOID_IDX
        BY <4>2, <1>2 DEF VOID_IDX
      <4>4. Content(frame[p])' = data'[frame[p]]
        BY <3>1, <4>3 DEF Content
      <4>5. data'[frame[p]] = data[frame[p]]
        BY <1>1, <1>2, <1>3, <3>2, <4>2
      <4> QED  BY <4>1, <4>2, <4>4, <4>5 DEF View
    <3>3. CASE ~Present(p)
      <4>1. ~Loaded(p) /\ ~Loaded(p)'
        BY <3>1, <3>3 DEF Loaded
      <4> QED  BY <4>1, <1>1 DEF View
    <3> QED  BY <3>2, <3>3
  <2> QED  BY <2>1, <2>2, <2>3
<1> QED  BY <1>4, FlatViewFromViews

\* fetch_page copies what the client already saw.
LEMMA FetchPageIsUnseen ==
  ASSUME IndexInv, OneFault, FramesApart, VictimIsSaved, FetchPage
  PROVE  FlatView' = FlatView
<1> DEFINE q == req_page
           f == frame[q]
<1>1. /\ f \in 0 .. size /\ Present(q) /\ q \in Pages
      /\ data' = [data EXCEPT ![f] = pagefile[q]]
  BY FetchPageKeepsArray
<1>2. /\ UNCHANGED <<flags, frame, pagefile, req_page>>
      /\ main = "fetch" /\ main' = "post"
  BY DEF FetchPage, locals
<1>3. size \in 0 .. NFrames /\ NFrames \in Nat /\ data \in [0 .. NFrames -> Ints]
  BY LoopServedAssumption DEF LoopServedAssumption, IndexInv, TypeOK
<1>4. \A p \in Pages : Present(p)' <=> Present(p)
  BY <1>2 DEF Present
<1>5. ASSUME NEW p \in Pages PROVE View(p)' = View(p)
  <2>1. CASE ~Present(p)
    <3>1. ~Loaded(p) /\ ~Loaded(p)'  BY <2>1, <1>4 DEF Loaded
    <3> QED  BY <3>1, <1>2 DEF View
  <2>2. CASE Present(p)
    <3> DEFINE g == frame[p]
    <3>1. g \in 0 .. NFrames /\ Content(g) = data[g]
      BY <2>2, LoadedContent
    <3>2. g # VOID_IDX  BY <3>1, <1>3 DEF VOID_IDX
    <3>3. Loaded(p)'  BY <2>2, <1>2, <1>4 DEF Loaded
    <3>4. View(p)' = data'[g]
      BY <3>2, <3>3, <1>2 DEF View, Content
    <3>5. CASE p = q
      <4>1. ~Loaded(p)  BY <3>5, <1>2 DEF Loaded
      <4>2. data'[g] = pagefile[q]
        BY <3>1, <3>5, <1>1, <1>3
      <4> QED  BY <4>1, <4>2, <3>4, <3>5 DEF View
    <3>6. CASE p # q
      <4>1. Loaded(p)  BY <2>2, <3>6 DEF Loaded
      <4>2. g # f  BY <2>2, <3>6, <1>1 DEF FramesApart
      <4>3. data'[g] = data[g]
        BY <3>1, <4>2, <1>1, <1>3
      <4> QED  BY <3>1, <3>4, <4>1, <4>3 DEF View
    <3> QED  BY <3>5, <3>6
  <2> QED  BY <2>1, <2>2
<1> QED  BY <1>5, FlatViewFromViews

LEMMA InitIsFlat == Init => Flat!Init
<1> SUFFICES ASSUME Init PROVE Flat!Init  OBVIOUS
<1>1. \A p \in Pages : ~Loaded(p) /\ pagefile[p] \in Ints
  BY LoopServedAssumption
  DEF LoopServedAssumption, Init, Loaded, Present, Pages, Entries, Ints, OldValue
<1>2. FlatView \in [Pages -> Ints]
  BY <1>1 DEF FlatView
<1>3. FlatRequest = [c \in {"client"} |-> Flat!NoRequest] /\ result = VOID_IDX
  BY DEF Init, FlatRequest, NoRequest, Flat!NoRequest
<1> QED  BY <1>2, <1>3 DEF Flat!Init

LEMMA BeginAccessInvokes ==
  ASSUME BeginAccess, OneFault
  PROVE  Flat!Invoke("client")
<1>1. PICK r \in Calls :
        /\ pc = "idle" /\ request' = r /\ result' = VOID_IDX
        /\ UNCHANGED <<table, data, file, main, locals>>
  BY DEF BeginAccess
<1>2. FlatView' = FlatView
  <2>1. \A p \in Pages : View(p)' = View(p)
    BY <1>1 DEF table, file, locals, View, Loaded, Present, Content
  <2> QED  BY <2>1, FlatViewFromViews
<1> DEFINE fr == [op |-> r.op, addr |-> r.page, val |-> r.val]
<1>3. request = NoRequest
  BY <1>1 DEF OneFault
<1>4. FlatRequest["client"] = Flat!NoRequest
  BY <1>3 DEF FlatRequest, NoRequest, Flat!NoRequest
<1>5. FlatRequest' = [FlatRequest EXCEPT !["client"] = fr]
  BY <1>1 DEF FlatRequest
<1>6. fr \in Flat!Reads \union Flat!Writes
  <2>1. r \in [op : {"read"}, page : Pages, val : {VOID_IDX}]
        \/ r \in [op : {"write"}, page : Pages, val : Values]
    BY DEF Calls
  <2>2. CASE r \in [op : {"read"}, page : Pages, val : {VOID_IDX}]
    BY <2>2 DEF Flat!Reads
  <2>3. CASE r \in [op : {"write"}, page : Pages, val : Values]
    <3>1. r.val \in Ints
      BY <2>3 DEF Ints
    <3> QED  BY <2>3, <3>1 DEF Flat!Writes
  <2> QED  BY <2>1, <2>2, <2>3
<1>7. [c \in {"client"} |-> result'] = [[c \in {"client"} |-> result] EXCEPT !["client"] = VOID_IDX]
  BY <1>1
<1> HIDE DEF fr
<1> QED  BY <1>2, <1>4, <1>5, <1>6, <1>7 DEF Flat!Invoke

LEMMA TransferPerforms ==
  ASSUME IndexInv, OneFault, FramesApart, VictimIsSaved, Transfer
  PROVE  Flat!Read("client") \/ Flat!Write("client")
<1> DEFINE q == request.page
           f == frame[q]
<1>1. /\ request \in Calls /\ Loaded(q) /\ q \in Pages /\ main \notin Busy
      /\ IF request.op = "write"
           THEN data' = [data EXCEPT ![f] = request.val] /\ result' = result
           ELSE data' = data /\ result' = data[f]
      /\ UNCHANGED <<flags, frame, framepage, pagefile, main, req_page>>
      /\ request' = NoRequest
  BY TransferKeepsArray
<1>2. Present(q)
  BY <1>1 DEF Loaded
<1>3. f \in 0 .. NFrames /\ Content(f) = data[f] /\ f # VOID_IDX
      /\ data \in [0 .. NFrames -> Ints]
  <2>1. f \in 0 .. NFrames /\ Content(f) = data[f]
    BY <1>1, <1>2, LoadedContent
  <2>2. f # VOID_IDX  BY <2>1 DEF VOID_IDX
  <2> QED  BY <2>1, <2>2 DEF IndexInv, TypeOK
<1>4. /\ FlatRequest["client"].op = request.op
      /\ FlatRequest["client"].addr = q
      /\ FlatRequest["client"].val = request.val
  BY DEF FlatRequest
<1>5. FlatRequest' = [FlatRequest EXCEPT !["client"] = Flat!NoRequest]
  BY <1>1 DEF FlatRequest, NoRequest, Flat!NoRequest
<1>6. FlatView[q] = data[f]
  BY <1>1, <1>3 DEF FlatView
<1>7. \A p \in Pages : Loaded(p)' <=> Loaded(p)
  BY <1>1 DEF Loaded, Present
<1>8. CASE request.op = "write"
  <2>1. ASSUME NEW p \in Pages
        PROVE  View(p)' = IF p = q THEN request.val ELSE View(p)
    <3>1. CASE p = q
      BY <3>1, <1>1, <1>3, <1>7, <1>8 DEF View, Content
    <3>2. CASE p # q /\ Loaded(p)
      <4> DEFINE g == frame[p]
      <4>1. Present(p)  BY <3>2 DEF Loaded
      <4>2. g \in 0 .. NFrames /\ Content(g) = data[g]
        BY <4>1, LoadedContent
      <4>3. g # f  BY <4>1, <3>2, <1>1, <1>2 DEF FramesApart
      <4>4. data'[g] = data[g]  BY <4>2, <4>3, <1>1, <1>3, <1>8
      <4>5. g # VOID_IDX  BY <4>2 DEF VOID_IDX
      <4>6. View(p)' = data'[g]
        BY <3>2, <4>5, <1>1, <1>7 DEF View, Content
      <4> QED  BY <3>2, <4>2, <4>4, <4>6 DEF View
    <3>3. CASE p # q /\ ~Loaded(p)
      BY <3>3, <1>1, <1>7 DEF View
    <3> QED  BY <3>1, <3>2, <3>3
  <2>2. FlatView' = [FlatView EXCEPT ![q] = request.val]
    BY <2>1 DEF FlatView, View
  <2>3. result' = result
    BY <1>1, <1>8
  <2> HIDE DEF q
  <2> QED  BY <1>4, <1>5, <1>8, <2>2, <2>3 DEF Flat!Write
<1>9. CASE request.op # "write"
  <2>1. request.op = "read"
    BY <1>1, <1>9 DEF Calls
  <2>2. data' = data /\ result' = data[f]
    BY <1>1, <1>9
  <2>3. \A p \in Pages : View(p)' = View(p)
    BY <1>1, <1>7, <2>2 DEF View, Content
  <2>4. FlatView' = FlatView
    BY <2>3, FlatViewFromViews
  <2>5. result' = FlatView[q]
    BY <1>6, <2>2
  <2>6. [c \in {"client"} |-> result']
          = [[c \in {"client"} |-> result] EXCEPT !["client"] = FlatView[q]]
    BY <2>5
  <2> HIDE DEF q
  <2> QED  BY <1>4, <1>5, <2>1, <2>4, <2>6 DEF Flat!Read
<1> QED  BY <1>8, <1>9

LEMMA StepIsFlat ==
  IndexInv /\ ArrayInv /\ IndexInv' /\ [Next]_vars
    => [ahead' \/ SavesVoid \/ Flat!Next]_(Flat!memvars)
<1> SUFFICES ASSUME IndexInv, ArrayInv, IndexInv', [Next]_vars, ~ahead'
             PROVE  [SavesVoid \/ Flat!Next]_(Flat!memvars)
  OBVIOUS
<1>1. OneFault /\ FramesApart /\ VictimIsSaved
  BY AheadStays DEF ArrayInv
<1>2. OneFault' /\ FramesApart' /\ VictimIsSaved'
  BY ArrayStep DEF ArrayInv
<1>3. ASSUME UNCHANGED <<FlatView, request, result>>
      PROVE  UNCHANGED Flat!memvars
  BY <1>3 DEF Flat!memvars, FlatRequest
<1>4. CASE \/ UNCHANGED vars
           \/ CheckPresent \/ RaiseFault \/ AwaitPage \/ Mark \/ UserSignal
           \/ Loop \/ (\E s \in {"USR1", "USR2", "INT"} : Deliver(s))
           \/ EnterFault \/ TakeFreeFrame \/ PassFrame \/ TakeVictim \/ PostSema
  <2>1. UNCHANGED <<FlatView, request, result>>
    BY <1>4, UnseenSteps
  <2> QED  BY <2>1, <1>3
<1>5. CASE BeginAccess
  BY <1>1, <1>5, BeginAccessInvokes DEF Flat!Next
<1>6. CASE Transfer
  BY <1>1, <1>6, TransferPerforms DEF Flat!Next
<1>7. CASE StorePage
  <2>1. CASE page_unloaded = VOID_IDX
    BY <2>1, <1>7 DEF SavesVoid, StorePage
  <2>2. CASE page_unloaded # VOID_IDX
    <3>1. FlatView' = FlatView  BY <2>2, <1>1, <1>7, StorePageIsUnseen
    <3>2. UNCHANGED <<request, result>>  BY <1>7 DEF StorePage, client
    <3> QED  BY <3>1, <3>2, <1>3
  <2> QED  BY <2>1, <2>2
<1>8. CASE UpdatePt
  <2>1. FlatView' = FlatView  BY <1>1, <1>2, <1>8, UpdatePtIsUnseen
  <2>2. UNCHANGED <<request, result>>  BY <1>8 DEF UpdatePt, client
  <2> QED  BY <2>1, <2>2, <1>3
<1>9. CASE FetchPage
  <2>1. FlatView' = FlatView  BY <1>1, <1>9, FetchPageIsUnseen
  <2>2. UNCHANGED <<request, result>>  BY <1>9 DEF FetchPage, client
  <2> QED  BY <2>1, <2>2, <1>3
<1>10. ~LeaveArrays
  BY <1>1, StaysInArrays
<1> QED  BY <1>4, <1>5, <1>6, <1>7, <1>8, <1>9, <1>10 DEF Next, Proceed, Fault

\* Aufgabe3/, for every size of the memory and each algorithm: as long as no post
\* that was left over lets an access run ahead of its page, vmem_read and
\* vmem_write see an ordinary array, in spite of the frames counted from 1 and
\* of framepage[NFrames], which is data[0].  Only the save of page -1 changes a
\* page of the file that nobody wrote.
THEOREM ArrayIsFlatButForVoid == Spec => FlatButForVoid
<1>1. Spec => [](IndexInv /\ ArrayInv)
  BY IndexInit, IndexStep, ArrayInit, ArrayStep, PTL DEF Spec
<1> QED  BY <1>1, InitIsFlat, StepIsFlat, PTL DEF Spec, FlatButForVoid
=============================================================================
