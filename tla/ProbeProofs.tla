----------------------------- MODULE ProbeProofs -----------------------------
(***************************************************************************)
(* The token of the semaphore of probe/, and its memory while the clients  *)
(* take turns, for any finite set of clients, any size of the memory and   *)
(* any replacement algorithm.                                              *)
(***************************************************************************)
EXTENDS ProbeProperties, FiniteSetTheorems, WellFoundedInduction, TLAPS

\* The types of the variables that the token moves through.
TokenTypes ==
  /\ sema \in Nat /\ usr1 \in BOOLEAN
  /\ mm \in {"pause", "search", "seek old", "write old", "update", "seek new",
             "read new", "post", "gone"}
  /\ pc \in [Clients -> {"idle", "lock", "check", "kill", "wait", "mark",
                         "transfer", "post"}]

TokenInv == TokenTypes /\ OneToken

Holding == {"check", "kill", "mark", "transfer", "post"}

\* The clients that hold the token are finitely many, also after a step.
LEMMA HoldersFinite == IsFiniteSet(Holders) /\ IsFiniteSet(Holders')
  BY ProbeAssumption, FS_Subset DEF Holders

\* A client that begins to hold is one more.
LEMMA HolderComes ==
  ASSUME NEW c \in Clients, NEW at \in Holding, TokenTypes,
         pc[c] \notin Holding, pc' = [pc EXCEPT ![c] = at]
  PROVE  Cardinality(Holders') = Cardinality(Holders) + 1
<1>1. Holders' = Holders \union {c} /\ c \notin Holders
  BY DEF Holders, Holding, TokenTypes
<1> QED  BY <1>1, HoldersFinite, FS_AddElement

\* A client that stops to hold is one less, and was one.
LEMMA HolderGoes ==
  ASSUME NEW c \in Clients, NEW at, at \notin Holding, TokenTypes,
         pc[c] \in Holding, pc' = [pc EXCEPT ![c] = at]
  PROVE  /\ Cardinality(Holders) \in Nat \ {0}
         /\ Cardinality(Holders') = Cardinality(Holders) - 1
<1>1. Holders' = Holders \ {c} /\ c \in Holders
  BY DEF Holders, Holding, TokenTypes
<1>2. Cardinality(Holders) \in Nat /\ Cardinality(Holders') \in Nat
  BY HoldersFinite, FS_CardinalityType
<1>3. Cardinality(Holders') = Cardinality(Holders) - 1
  BY <1>1, HoldersFinite, FS_RemoveElement
<1> QED  BY <1>2, <1>3

\* A client that goes on without taking or giving changes nothing.
LEMMA HolderStays ==
  ASSUME NEW c \in Clients, NEW at, (pc[c] \in Holding) <=> (at \in Holding),
         TokenTypes, pc' = [pc EXCEPT ![c] = at]
  PROVE  Cardinality(Holders') = Cardinality(Holders)
<1>1. Holders' = Holders  BY DEF Holders, Holding, TokenTypes
<1> QED  BY <1>1

\* The values of Unanswered, case by case.
LEMMA UnansweredIs ==
  /\ ~usr1 /\ mm \in {"pause", "gone"} => Unanswered = 0
  /\ usr1 /\ mm \in {"pause", "gone"} => Unanswered = 1
  /\ ~usr1 /\ mm \notin {"pause", "gone"} => Unanswered = 1
  /\ usr1 /\ mm \notin {"pause", "gone"} => Unanswered = 2
<1>1. CASE usr1  BY <1>1 DEF Unanswered
<1>2. CASE ~usr1  BY <1>2 DEF Unanswered
<1> QED  BY <1>1, <1>2

LEMMA UnansweredType == Unanswered \in 0 .. 2
<1> DEFINE n == Unanswered
<1>1. n = 0 \/ n = 1 \/ n = 2  BY UnansweredIs, Zenon
<1> QED  BY <1>1

LEMMA TokenInit == Init => TokenInv
<1> SUFFICES ASSUME Init PROVE TokenInv  OBVIOUS
<1>1. TokenTypes  BY DEF Init, TokenTypes, InitialSema
<1>2. Holders = {}  BY DEF Init, Holders
<1>3. Cardinality(Holders) = 0  BY <1>2, FS_EmptySet
<1>4. Unanswered = 0 /\ sema = 1  BY DEF Init, Unanswered, InitialSema
<1>5. OneToken  BY <1>3, <1>4 DEF OneToken
<1> QED  BY <1>1, <1>5 DEF TokenInv

\* A step that changes at most the manager's place, from one at work to another.
LEMMA ManagerWorks ==
  ASSUME TokenInv, UNCHANGED <<sema, usr1, pc>>,
         mm \notin {"pause", "gone"}, mm' \notin {"pause", "gone"},
         TokenTypes'
  PROVE  TokenInv'
<1>1. Holders' = Holders  BY DEF Holders
<1>2. Unanswered' = Unanswered  BY DEF Unanswered
<1> QED  BY <1>1, <1>2 DEF TokenInv, OneToken

LEMMA ClientKeepsToken ==
  ASSUME TokenInv, NEW c \in Clients, BeginAccess(c) \/ CheckPresent(c) \/ Mark(c) \/ Transfer(c)
  PROVE  TokenInv'
<1> USE DEF TokenInv, Goto, manager, clients, adm, table, store
<1>1. CASE BeginAccess(c)
  <2>1. UNCHANGED <<sema, usr1, mm>> /\ pc[c] = "idle" /\ pc' = [pc EXCEPT ![c] = "lock"]
    BY <1>1 DEF BeginAccess
  <2>2. Cardinality(Holders') = Cardinality(Holders)
    BY <2>1, HolderStays DEF Holding
  <2>3. TokenTypes'  BY <2>1 DEF TokenTypes
  <2> QED  BY <2>1, <2>2, <2>3 DEF OneToken, Unanswered
<1>2. CASE CheckPresent(c) \/ Mark(c) \/ Transfer(c)
  <2>1. PICK at \in Holding : /\ UNCHANGED <<sema, usr1, mm>> /\ pc[c] \in Holding
                              /\ pc' = [pc EXCEPT ![c] = at]
    BY <1>2 DEF CheckPresent, Mark, Transfer, FirstPart, Holding
  <2>2. Cardinality(Holders') = Cardinality(Holders)
    BY <2>1, HolderStays
  <2>3. TokenTypes'  BY <2>1 DEF TokenTypes, Holding
  <2> QED  BY <2>1, <2>2, <2>3 DEF OneToken, Unanswered
<1> QED  BY <1>1, <1>2

\* sem_wait takes the token out of the semaphore.
LEMMA ClientTakesToken ==
  ASSUME TokenInv, NEW c \in Clients, Lock(c) \/ AwaitPage(c)
  PROVE  TokenInv'
<1> USE DEF TokenInv, Goto, manager
<1>1. PICK at \in Holding : /\ UNCHANGED <<usr1, mm>> /\ sema > 0 /\ sema' = sema - 1
                            /\ pc[c] \notin Holding /\ pc' = [pc EXCEPT ![c] = at]
  BY DEF Lock, AwaitPage, FirstPart, Holding
<1>2. Cardinality(Holders') = Cardinality(Holders) + 1  BY <1>1, HolderComes
<1>4. Cardinality(Holders) \in Nat  BY HoldersFinite, FS_CardinalityType
<1>5. Unanswered' = Unanswered /\ Unanswered \in Int
  BY <1>1, UnansweredType DEF Unanswered
<1>6. sema \in Nat  BY DEF TokenTypes
<1>7. sema' \in Nat  BY <1>1, <1>6
<1>8. pc' \in [Clients -> {"idle", "lock", "check", "kill", "wait", "mark",
                           "transfer", "post"}]
  BY <1>1 DEF TokenTypes, Holding
<1>3. TokenTypes'  BY <1>1, <1>7, <1>8, Zenon DEF TokenTypes
<1> QED  BY <1>1, <1>2, <1>3, <1>4, <1>5, <1>6 DEF OneToken

\* sem_post puts it back.
LEMMA ClientReturnsToken ==
  ASSUME TokenInv, NEW c \in Clients, Unlock(c)
  PROVE  TokenInv'
<1> USE DEF TokenInv, Goto, manager
<1>1. /\ UNCHANGED <<usr1, mm>> /\ sema' = sema + 1
      /\ pc[c] \in Holding /\ pc' = [pc EXCEPT ![c] = "idle"]
  BY DEF Unlock, Holding
<1>2. /\ Cardinality(Holders) \in Nat \ {0}
      /\ Cardinality(Holders') = Cardinality(Holders) - 1
  BY <1>1, HolderGoes DEF Holding
<1>5. Unanswered' = Unanswered /\ Unanswered \in Int
  BY <1>1, UnansweredType DEF Unanswered
<1>6. sema \in Nat  BY DEF TokenTypes
<1>7. sema' \in Nat  BY <1>1, <1>6
<1>8. pc' \in [Clients -> {"idle", "lock", "check", "kill", "wait", "mark",
                           "transfer", "post"}]
  BY <1>1 DEF TokenTypes
<1>3. TokenTypes'  BY <1>1, <1>7, <1>8, Zenon DEF TokenTypes
<1> QED  BY <1>1, <1>2, <1>3, <1>5, <1>6 DEF OneToken

\* The signal carries it to the manager: none is pending, since the client had
\* the token, and so none is merged.
LEMMA ClientSendsToken ==
  ASSUME TokenInv, NEW c \in Clients, RaiseFault(c)
  PROVE  TokenInv'
<1> USE DEF TokenInv, Goto, manager
<1>1. /\ UNCHANGED <<sema, mm>> /\ usr1' = (mm # "gone")
      /\ pc[c] \in Holding /\ pc' = [pc EXCEPT ![c] = "wait"]
  BY DEF RaiseFault, Holding
<1>2. /\ Cardinality(Holders) \in Nat \ {0}
      /\ Cardinality(Holders') = Cardinality(Holders) - 1
  BY <1>1, HolderGoes DEF Holding
<1>3. TokenTypes'  BY <1>1 DEF TokenTypes
<1>4. sema \in Nat  BY DEF TokenTypes
<1>5. CASE mm = "gone"
  <2>1. ~usr1' /\ mm' = "gone"  BY <1>1, <1>5
  <2>2. Unanswered' = 0  BY <2>1 DEF Unanswered
  <2>3. Unanswered \in 0 .. 2  BY UnansweredType
  <2> QED  BY <1>1, <1>2, <1>3, <1>4, <1>5, <2>2, <2>3 DEF OneToken
<1>6. CASE mm # "gone"
  <2>1. Unanswered \in 0 .. 2  BY UnansweredType
  <2>2. Unanswered = 0  BY <1>2, <1>4, <2>1 DEF OneToken
  <2>3. mm = "pause"  BY <2>2, <1>6, UnansweredIs
  <2>5. usr1' /\ mm' = "pause"  BY <1>1, <1>6, <2>3
  <2>4. Unanswered' = 1  BY <2>5 DEF Unanswered
  <2> QED  BY <1>1, <1>2, <1>3, <1>4, <1>6, <2>2, <2>4 DEF OneToken
<1> QED  BY <1>5, <1>6

\* The handler begins with it, works with it and posts it.
LEMMA ManagerHasToken ==
  ASSUME TokenInv, Fault
  PROVE  TokenInv'
<1> USE DEF TokenInv, clients
<1>1. CASE EnterFault
  <2>1. UNCHANGED <<sema, pc>> /\ mm = "pause" /\ mm' = "search" /\ usr1 /\ usr1' = FALSE
    BY <1>1 DEF EnterFault
  <2>2. Holders' = Holders  BY <2>1 DEF Holders
  <2>3. Unanswered' = Unanswered  BY <2>1 DEF Unanswered
  <2>4. TokenTypes'  BY <2>1 DEF TokenTypes
  <2> QED  BY <2>1, <2>2, <2>3, <2>4 DEF OneToken
<1>2. CASE PostSema
  <2>1. UNCHANGED <<usr1, pc>> /\ mm = "post" /\ mm' = "pause" /\ sema' = sema + 1
    BY <1>2 DEF PostSema
  <2>2. Holders' = Holders  BY <2>1 DEF Holders
  <2>3. Unanswered' = Unanswered - 1 /\ Unanswered \in Int  BY <2>1 DEF Unanswered
  <2>4. TokenTypes'  BY <2>1 DEF TokenTypes
  <2>5. sema \in Nat  BY DEF TokenTypes
  <2>6. Cardinality(Holders) \in Nat  BY HoldersFinite, FS_CardinalityType
  <2> QED  BY <2>1, <2>2, <2>3, <2>4, <2>5, <2>6 DEF OneToken
<1>3. CASE TakeFreeFrame \/ TakeLeastUsed \/ PassFrame \/ TakeNext \/ SeekOld
             \/ WriteOld \/ UpdatePt \/ SeekNew \/ ReadNew
  <2>1. /\ UNCHANGED <<sema, usr1, pc>>
        /\ mm \notin {"pause", "gone"}
        /\ mm' \in {"search", "seek old", "write old", "update", "seek new",
                    "read new", "post"}
    BY <1>3
       DEF TakeFreeFrame, TakeLeastUsed, PassFrame, TakeNext, SeekOld, WriteOld,
           UpdatePt, SeekNew, ReadNew, TakeFrame, manager
  <2>2. TokenTypes'  BY <2>1 DEF TokenTypes
  <2> QED  BY <2>1, <2>2, ManagerWorks
<1> QED  BY <1>1, <1>2, <1>3 DEF Fault

LEMMA ManagerQuitsOrDumps ==
  ASSUME TokenInv, Dump \/ Quit
  PROVE  TokenInv'
<1> USE DEF TokenInv, clients, manager
<1>1. UNCHANGED <<sema, pc>>  BY DEF Dump, Quit
<1>2. Holders' = Holders  BY <1>1 DEF Holders
<1>3. CASE Dump
  <2>1. UNCHANGED <<mm, usr1>>  BY <1>3 DEF Dump
  <2> QED  BY <1>1, <1>2, <2>1 DEF OneToken, Unanswered, TokenTypes
<1>4. CASE Quit
  <2>1. mm' = "gone" /\ usr1' = FALSE  BY <1>4 DEF Quit
  <2>2. Unanswered' = 0 /\ Unanswered \in Nat  BY <2>1 DEF Unanswered
  <2>3. TokenTypes'  BY <1>1, <2>1 DEF TokenTypes
  <2>4. sema \in Nat  BY DEF TokenTypes
  <2>5. Cardinality(Holders) \in Nat  BY HoldersFinite, FS_CardinalityType
  <2> QED  BY <1>1, <1>2, <2>1, <2>2, <2>3, <2>4, <2>5 DEF OneToken
<1> QED  BY <1>3, <1>4

LEMMA TokenStep == TokenInv /\ [Next]_vars => TokenInv'
<1> SUFFICES ASSUME TokenInv, [Next]_vars PROVE TokenInv'  OBVIOUS
<1>1. CASE Fault  BY <1>1, ManagerHasToken
<1>2. CASE Dump \/ Quit  BY <1>2, ManagerQuitsOrDumps
<1>3. ASSUME NEW c \in Clients, BeginAccess(c) \/ Proceed(c) PROVE TokenInv'
  BY <1>3, ClientKeepsToken, ClientTakesToken, ClientReturnsToken, ClientSendsToken
     DEF Proceed
<1>4. CASE UNCHANGED vars
  <2>1. UNCHANGED <<sema, usr1, mm, pc>>  BY <1>4 DEF vars, manager, clients
  <2>2. Holders' = Holders  BY <2>1 DEF Holders
  <2> QED  BY <2>1, <2>2 DEF TokenInv, OneToken, Unanswered, TokenTypes
<1> QED  BY <1>1, <1>2, <1>3, <1>4 DEF Next

\* Among any number of clients there is one token: in the semaphore, with a
\* client, or on its way through the manager (probe/vmaccess.c:57-65).
THEOREM TokenIsUnique == Spec => []OneToken
<1>1. TokenInv => OneToken  BY DEF TokenInv
<1> QED  BY TokenInit, TokenStep, <1>1, PTL DEF Spec

\* At most one client is between a sem_wait and the next sem_post or kill, and
\* none is while a page fault is served: req_pageno aside, the shared memory
\* has one user at a time.
Exclusive ==
  /\ \A c, d \in Clients : c \in Holders /\ d \in Holders => c = d
  /\ mm \notin {"pause", "gone"} => Holders = {}

\* The token makes the semaphore a mutex, the manager included.
THEOREM MemoryIsExclusive == Spec => []Exclusive
<1>1. TokenInv => Exclusive
  <2> SUFFICES ASSUME TokenInv PROVE Exclusive  OBVIOUS
  <2>1. Cardinality(Holders) \in Nat  BY HoldersFinite, FS_CardinalityType
  <2>6. sema \in Nat  BY DEF TokenInv, TokenTypes
  <2>7. Unanswered \in Nat  BY UnansweredType
  <2>2. sema \in Nat /\ Unanswered \in Nat  BY <2>6, <2>7
  <2>3. Cardinality(Holders) <= 1  BY <2>1, <2>2 DEF TokenInv, OneToken
  <2>4. ASSUME NEW c \in Holders, NEW d \in Holders, c # d PROVE FALSE
    <3>1. Cardinality(Holders \ {c}) = Cardinality(Holders) - 1
      BY HoldersFinite, FS_RemoveElement
    <3>2. IsFiniteSet(Holders \ {c})  BY HoldersFinite, FS_RemoveElement
    <3>3. Cardinality(Holders \ {c}) \in Nat  BY <3>2, FS_CardinalityType
    <3>4. Cardinality(Holders \ {c}) = 0  BY <2>1, <2>3, <3>1, <3>3
    <3>5. Holders \ {c} = {}  BY <3>2, <3>4, FS_EmptySet
    <3> QED  BY <2>4, <3>5
  <2>5. ASSUME mm \notin {"pause", "gone"} PROVE Holders = {}
    <3>1. Unanswered >= 1  BY <2>5 DEF Unanswered
    <3>2. Cardinality(Holders) = 0  BY <2>1, <2>2, <3>1 DEF TokenInv, OneToken
    <3> QED  BY <3>2, HoldersFinite, FS_EmptySet
  <2> QED  BY <2>4, <2>5 DEF Exclusive
<1> QED  BY TokenInit, TokenStep, <1>1, PTL DEF Spec
-----------------------------------------------------------------------------
(* Clients that take turns *)

\* The types of the state that the managers and the clients work on.
TableTypes ==
  /\ flags \in [Pages -> SUBSET {"PRESENT", "DIRTY", "USED"}]
  /\ frame \in [Pages -> Frames \union {VOID_IDX}]
  /\ count \in [Pages -> Nat]
  /\ framepage \in [Frames -> Pages \union {VOID_IDX}]
  /\ size \in 0 .. NFrames /\ next_alloc_idx \in Frames
  /\ data \in [Frames -> Values \union {VOID_IDX}]
  /\ pagefile \in [Pages -> Values \union {VOID_IDX}]

\* A client's request is there while it calls; at most one client does, and
\* the page of its call is the one that is stored for the manager.
TurnTypes ==
  /\ request \in [Clients -> Calls \union {NoRequest}]
  /\ result \in [Clients -> Values \union {VOID_IDX}]
  /\ \A c \in Clients : IF pc[c] = "idle" THEN request[c] = NoRequest
                                          ELSE request[c] \in Calls
  /\ \A c, d \in Clients : pc[c] # "idle" /\ pc[d] # "idle" => c = d
  /\ \A c \in Clients : pc[c] # "idle" => req_pageno = Page(c)

\* The two directions of the table.
TablesAgree ==
  /\ \A f \in Frames : framepage[f] # VOID_IDX =>
       frame[framepage[f]] = f /\ Present(framepage[f])
  /\ \A p \in Pages : Present(p) <=> frame[p] # VOID_IDX
  /\ \A p \in Pages : Present(p) => framepage[frame[p]] = p

\* The frames are filled from 0 on.
FillOrder ==
  /\ data_full \in BOOLEAN /\ (data_full => size = NFrames)
  /\ \A f \in Frames : f >= size => framepage[f] = VOID_IDX
  /\ \A f \in Frames : framepage[f] = VOID_IDX =>
       f >= size \/ (mm = "update" /\ f = new_frame)

\* What the handler is about: its frame, its old page, and where the stream is.
HandlerKnows ==
  /\ mm \in {"seek old", "write old", "update"} =>
       new_frame \in Frames /\ new_frame < size /\ oldpage = framepage[new_frame]
  /\ mm \in {"seek old", "write old"} => oldpage \in Pages
  /\ mm = "write old" => filepos = oldpage
  /\ mm = "read new" => oldpage = req_pageno /\ filepos = req_pageno

\* A fault is served for a client that waits.
FaultHasCaller ==
  usr1 \/ mm \notin {"pause", "gone"} => \E c \in Clients : pc[c] = "wait"

\* Its page comes in UpdatePt.
PageComes ==
  /\ usr1 \/ mm \in {"search", "seek old", "write old", "update"} =>
       ~Present(req_pageno)
  /\ mm \in {"seek new", "read new", "post"} => Present(req_pageno)

\* A client knows whether its page is there.
AccessFindsPage ==
  \A c \in Clients : /\ pc[c] = "kill" => ~Present(Page(c))
                     /\ pc[c] = "wait" /\ sema > 0 => Present(Page(c))
                     /\ pc[c] \in {"mark", "transfer"} => Present(Page(c))

FaultIsWaitedFor == FaultHasCaller /\ PageComes /\ AccessFindsPage

\* What is not dirty is in the page file, and so is the page that leaves.
CleanIsSaved ==
  /\ \A p \in Pages : Loaded(p) /\ "DIRTY" \notin flags[p] /\ ~BeingWritten(p) =>
       data[frame[p]] = pagefile[p]
  /\ mm = "update" /\ framepage[new_frame] # VOID_IDX =>
       data[new_frame] = pagefile[framepage[new_frame]]

Orderly ==
  /\ TableTypes /\ TurnTypes /\ TablesAgree /\ FillOrder /\ HandlerKnows
  /\ FaultIsWaitedFor /\ CleanIsSaved /\ ~wild

OrderlyInv == TokenInv /\ (~disturbed => Orderly)

-----------------------------------------------------------------------------

LEMMA VoidIsApart == VOID_IDX \notin Pages /\ VOID_IDX \notin Frames
  BY ProbeAssumption DEF VOID_IDX, Pages, Frames

\* Every set of natural numbers that is not empty has a least element.
LEMMA LeastNatural ==
  ASSUME NEW T \in SUBSET Nat, T # {}
  PROVE  \E n \in T : \A m \in T : n <= m
<1>1. \E x \in T : \A y \in T : ~(<<y, x>> \in OpToRel(<, Nat))
  BY NatLessThanWellFounded, WFMin
<1>2. \A x \in Nat, y \in Nat : x < y => <<x, y>> \in OpToRel(<, Nat)
  BY Zenon DEF OpToRel
<1>3. \E x \in T : \A y \in T : ~(y < x)  BY <1>1, <1>2, Zenon
<1> QED  BY <1>3

\* find_remove_lfu's loop ends with a frame: there is one that is used least,
\* and a first one among those.
LEMMA LeastIsFrame ==
  ASSUME TableTypes, \A f \in Frames : framepage[f] # VOID_IDX
  PROVE  Least \in Frames
<1>1. \A f \in Frames : f \in Nat /\ Uses(f) \in Nat
  BY ProbeAssumption DEF TableTypes, Uses, Frames
<1> DEFINE T == {Uses(f) : f \in Frames}
<1>2. T \in SUBSET Nat /\ T # {}
  <2>1. 0 \in Frames  BY ProbeAssumption DEF ProbeAssumption, Frames
  <2> QED  BY <1>1, <2>1
<1>3. PICK n \in T : \A m \in T : n <= m
  <2> HIDE DEF T
  <2> QED  BY <1>2, LeastNatural
<1> DEFINE U == {f \in Frames : Uses(f) = n}
<1>4. U \in SUBSET Nat /\ U # {}  BY <1>1, <1>3
<1>5. PICK f \in U : \A g \in U : f <= g
  <2> HIDE DEF U
  <2> QED  BY <1>4, LeastNatural
<1>6. \A g \in Frames : Uses(f) < Uses(g) \/ (Uses(f) = Uses(g) /\ f <= g)
  <2> SUFFICES ASSUME NEW g \in Frames
               PROVE  Uses(f) < Uses(g) \/ (Uses(f) = Uses(g) /\ f <= g)
    OBVIOUS
  <2>1. Uses(f) = n /\ n <= Uses(g) /\ Uses(g) \in Nat /\ n \in Nat
    BY <1>1, <1>2, <1>3, <1>5
  <2>2. Uses(g) = n => f <= g  BY <1>5
  <2> QED  BY <2>1, <2>2
<1>7. \E h \in Frames : \A g \in Frames :
        Uses(h) < Uses(g) \/ (Uses(h) = Uses(g) /\ h <= g)
  BY <1>5, <1>6
<1> QED  BY <1>7 DEF Least

\* While the handler works nobody holds the token, and the client whose page is
\* served is the only one in a call.
LEMMA ManagerWorksAlone ==
  ASSUME TokenInv, Orderly, mm \notin {"pause", "gone"}
  PROVE  /\ sema = 0 /\ ~usr1 /\ req_pageno \in Pages
         /\ \A c \in Clients : pc[c] \in {"idle", "wait"}
         /\ \A p \in Pages : ~BeingWritten(p)
<1>1. sema \in Nat /\ Cardinality(Holders) \in Nat /\ Unanswered \in 0 .. 2
  BY HoldersFinite, FS_CardinalityType, UnansweredType DEF TokenInv, TokenTypes
<1>2. sema = 0 /\ ~usr1
  BY <1>1, UnansweredIs DEF TokenInv, OneToken
<1>3. PICK c \in Clients : pc[c] = "wait"
  BY DEF Orderly, FaultIsWaitedFor, FaultHasCaller, PageComes, AccessFindsPage
<1>4. \A d \in Clients : pc[d] # "idle" => d = c
  BY <1>3 DEF Orderly, TurnTypes
<1>5. req_pageno = request[c].page /\ request[c] \in Calls
  BY <1>3 DEF Orderly, TurnTypes, Page
<1>6. req_pageno \in Pages  BY <1>5 DEF Calls
<1>7. \A d \in Clients : pc[d] \in {"idle", "wait"}  BY <1>3, <1>4
<1>8. \A p \in Pages : ~BeingWritten(p)  BY <1>7 DEF BeingWritten
<1> QED  BY <1>2, <1>6, <1>7, <1>8

\* Where the token is not with the manager, the manager rests.
LEMMA ManagerRests ==
  ASSUME TokenInv, sema > 0 \/ \E c \in Clients : pc[c] \in Holding
  PROVE  mm \in {"pause", "gone"} /\ ~usr1
<1>1. sema \in Nat /\ Cardinality(Holders) \in Nat /\ Unanswered \in 0 .. 2
  BY HoldersFinite, FS_CardinalityType, UnansweredType DEF TokenInv, TokenTypes
<1>2. (\E c \in Clients : pc[c] \in Holding) => Cardinality(Holders) # 0
  <2>1. (\E c \in Clients : pc[c] \in Holding) => Holders # {}
    BY DEF Holders, Holding
  <2> QED  BY <2>1, HoldersFinite, FS_EmptySet
<1>3. Unanswered # 1 /\ Unanswered # 2  BY <1>1, <1>2 DEF TokenInv, OneToken
<1> QED  BY <1>3, UnansweredIs, Zenon

\* A client that holds the token has it alone.
LEMMA HolderIsAlone ==
  ASSUME TokenInv, NEW c \in Clients, pc[c] \in Holding
  PROVE  sema = 0
<1>1. sema \in Nat /\ Cardinality(Holders) \in Nat /\ Unanswered \in 0 .. 2
  BY HoldersFinite, FS_CardinalityType, UnansweredType DEF TokenInv, TokenTypes
<1>2. Holders # {}  BY DEF Holders, Holding
<1>3. Cardinality(Holders) # 0  BY <1>2, HoldersFinite, FS_EmptySet
<1> QED  BY <1>1, <1>3 DEF TokenInv, OneToken

\* A client in a call.
LEMMA CallerKnown ==
  ASSUME Orderly, NEW c \in Clients, pc[c] # "idle"
  PROVE  /\ request[c] \in Calls /\ Page(c) \in Pages /\ req_pageno = Page(c)
         /\ request[c].op \in {"read", "write"}
         /\ \A d \in Clients : d # c => pc[d] = "idle"
<1>1. request[c] \in Calls /\ req_pageno = Page(c)
  BY DEF Orderly, TurnTypes
<1>2. Page(c) \in Pages /\ request[c].op \in {"read", "write"}
  BY <1>1 DEF Calls, Page
<1>3. \A d \in Clients : d # c => pc[d] = "idle"  BY DEF Orderly, TurnTypes
<1> QED  BY <1>1, <1>2, <1>3

\* Two pages that are there have different frames.
LEMMA FramesDiffer ==
  ASSUME Orderly, NEW p \in Pages, NEW q \in Pages, Present(p), Present(q), p # q
  PROVE  frame[p] \in Frames /\ frame[q] \in Frames /\ frame[p] # frame[q]
  BY DEF Orderly, TablesAgree, TableTypes

\* One page of the flat array that the clients see.
View(p) == IF Loaded(p) THEN data[frame[p]] ELSE pagefile[p]

LEMMA ViewIsKept ==
  ASSUME \A p \in Pages : View(p)' = View(p)
  PROVE  FlatView' = FlatView
<1>1. /\ FlatView = [p \in Pages |-> View(p)]
      /\ FlatView' = [p \in Pages |-> View(p)']
  BY DEF FlatView, View
<1> QED  BY <1>1

LEMMA OrderlyInit == Init => OrderlyInv
<1> SUFFICES ASSUME Init PROVE OrderlyInv  OBVIOUS
<1> USE ProbeAssumption DEF ProbeAssumption, Init
<1>1. TableTypes  BY DEF TableTypes, Frames
<1>2. TurnTypes
  <2>1. \A c \in Clients : pc[c] = "idle" /\ request[c] = NoRequest  OBVIOUS
  <2>2. request \in [Clients -> Calls \union {NoRequest}]  OBVIOUS
  <2>3. result \in [Clients -> Values \union {VOID_IDX}]  OBVIOUS
  <2> QED  BY <2>1, <2>2, <2>3, Zenon DEF TurnTypes
<1>3. TablesAgree  BY DEF TablesAgree, Present
<1>4. FillOrder
  <2>1. size = 0 /\ data_full = FALSE /\ \A f \in Frames : f >= 0 /\ framepage[f] = VOID_IDX
    BY DEF Frames
  <2> QED  BY <2>1 DEF FillOrder
<1>5. HandlerKnows  BY DEF HandlerKnows
<1>6. FaultIsWaitedFor  BY DEF FaultIsWaitedFor, FaultHasCaller, PageComes,
                               AccessFindsPage
<1>7. CleanIsSaved  BY DEF CleanIsSaved, Loaded, Present
<1> QED  BY <1>1, <1>2, <1>3, <1>4, <1>5, <1>6, <1>7, TokenInit
            DEF OrderlyInv, Orderly
-----------------------------------------------------------------------------
(* The handler's steps *)

\* What a step keeps that leaves the calls, or the table, alone.
LEMMA CallsStand ==
  ASSUME TurnTypes, UNCHANGED <<request, result, pc, req_pageno>>
  PROVE  TurnTypes'
  BY DEF TurnTypes, Page

LEMMA TablesStand ==
  ASSUME TablesAgree, UNCHANGED <<flags, frame, framepage>>
  PROVE  TablesAgree'
  BY DEF TablesAgree, Present

LEMMA EnterFaultOrderly ==
  ASSUME TokenInv, Orderly, EnterFault
  PROVE  Orderly'
<1>1. /\ mm = "pause" /\ mm' = "search" /\ usr1 /\ ~usr1'
      /\ UNCHANGED <<table, adm, req_pageno, sema, store, clients, wild>>
  BY DEF EnterFault
<1> USE DEF table, adm, store, clients, Orderly
<1>2. TableTypes' /\ TurnTypes' /\ TablesAgree'
  BY <1>1, CallsStand, TablesStand DEF TableTypes
<1>3. FillOrder' /\ HandlerKnows'  BY <1>1 DEF FillOrder, HandlerKnows
<1>4. FaultIsWaitedFor'  BY <1>1
                            DEF FaultIsWaitedFor, FaultHasCaller, PageComes,
                                AccessFindsPage, Present, Page
<1>5. CleanIsSaved'  BY <1>1 DEF CleanIsSaved, Loaded, Present, BeingWritten, Page
<1> QED  BY <1>1, <1>2, <1>3, <1>4, <1>5

\* A frame is chosen: a free one, the next, or one of those that are all taken.
LEMMA TakeFrameOrderly ==
  ASSUME TokenInv, Orderly, mm = "search", NEW f \in Frames, NEW full \in BOOLEAN,
         TakeFrame(f, full), next_alloc_idx' \in Frames,
         \/ ~full /\ size < NFrames /\ f = size /\ size' = size + 1
         \/ full /\ size = NFrames /\ size' = size,
         UNCHANGED <<table, req_pageno, sema, store, usr1, clients, wild>>
  PROVE  Orderly'
<1> USE DEF table, store, clients, Orderly
<1>1. NFrames \in Nat /\ size \in 0 .. NFrames /\ f \in 0 .. NFrames - 1
  BY ProbeAssumption DEF ProbeAssumption, TableTypes, Frames
<1>2. /\ new_frame' = f /\ oldpage' = framepage[f] /\ data_full' = full
      /\ mm' \in {"seek old", "update"}
      /\ mm' = "seek old" <=> full /\ "DIRTY" \in flags[framepage[f]]
  BY DEF TakeFrame
<1>3. full => \A g \in Frames : framepage[g] \in Pages
  BY <1>1, ProbeAssumption DEF ProbeAssumption, FillOrder, TableTypes, Frames
<1>4. ~full => framepage[f] = VOID_IDX  BY <1>1 DEF FillOrder
<1>5. size' \in 0 .. NFrames /\ f < size' /\ size <= size'  BY <1>1
<1>6. TableTypes' /\ TurnTypes' /\ TablesAgree'
  BY <1>5, CallsStand, TablesStand DEF TableTypes
<1>7. FillOrder'
  <2>1. data_full' \in BOOLEAN /\ (data_full' => size' = NFrames)  BY <1>2
  <2>2. ASSUME NEW g \in Frames PROVE g >= size' => framepage[g] = VOID_IDX
    BY <1>1, <1>5 DEF FillOrder, Frames
  <2>3. ASSUME NEW g \in Frames, framepage[g] = VOID_IDX
        PROVE  g >= size' \/ (mm' = "update" /\ g = f)
    <3>1. g >= size /\ g \in 0 .. NFrames - 1  BY <2>3 DEF FillOrder, Frames
    <3>2. ~full /\ size' = size + 1 /\ f = size  BY <1>1, <3>1
    <3>3. mm' = "update"  BY <1>2, <3>2, Zenon
    <3> QED  BY <1>1, <3>1, <3>2, <3>3
  <2>4. framepage' = framepage /\ new_frame' = f  BY <1>2
  <2> QED  BY <2>1, <2>2, <2>3, <2>4, Zenon DEF FillOrder
<1>8. HandlerKnows'
  BY <1>2, <1>3, <1>5 DEF HandlerKnows
<1>9. FaultIsWaitedFor'  BY <1>2
                            DEF FaultIsWaitedFor, FaultHasCaller, PageComes,
                                AccessFindsPage, Present, Page
<1>10. CleanIsSaved'
  <2>1. ASSUME NEW p \in Pages, Loaded(p)', "DIRTY" \notin flags'[p], ~BeingWritten(p)'
        PROVE  data'[frame'[p]] = pagefile'[p]
    BY <2>1 DEF CleanIsSaved, Loaded, Present, BeingWritten, Page
  <2>2. ASSUME mm' = "update", framepage[f] # VOID_IDX
        PROVE  data[f] = pagefile[framepage[f]]
    <3> DEFINE p == framepage[f]
    <3>1. full /\ p \in Pages /\ "DIRTY" \notin flags[p]  BY <1>2, <1>3, <1>4, <2>2
    <3>2. frame[p] = f /\ Loaded(p)  BY <2>2 DEF TablesAgree, Loaded
    <3>3. ~BeingWritten(p)  BY <3>1, ManagerWorksAlone
    <3> QED  BY <3>1, <3>2, <3>3 DEF CleanIsSaved
  <2> QED  BY <1>2, <2>1, <2>2 DEF CleanIsSaved
<1> QED  BY <1>6, <1>7, <1>8, <1>9, <1>10

LEMMA FrameIsTaken ==
  ASSUME TokenInv, Orderly, TakeFreeFrame \/ TakeLeastUsed \/ TakeNext
  PROVE  Orderly'
<1> USE DEF Orderly
<1>1. NFrames \in Nat \ {0} /\ size \in 0 .. NFrames /\ next_alloc_idx \in Frames
  BY ProbeAssumption DEF ProbeAssumption, TableTypes
<1>2. Rotated \in Frames  BY <1>1 DEF Rotated, Frames
<1>3. size = NFrames /\ mm = "search" => \A f \in Frames : framepage[f] # VOID_IDX
  BY <1>1 DEF FillOrder, Frames
<1>4. CASE TakeFreeFrame
  <2>1. data_full = FALSE /\ size \in Frames
    BY <1>1, <1>4 DEF TakeFreeFrame, FillOrder, Frames
  <2> QED  BY <1>1, <1>4, <2>1, TakeFrameOrderly DEF TakeFreeFrame
<1>5. CASE TakeLeastUsed
  <2>1. Least \in Frames  BY <1>3, <1>5, LeastIsFrame DEF TakeLeastUsed
  <2> QED  BY <1>1, <1>5, <2>1, TakeFrameOrderly DEF TakeLeastUsed
<1>6. CASE TakeNext
  BY <1>1, <1>2, <1>6, TakeFrameOrderly DEF TakeNext
<1> QED  BY <1>4, <1>5, <1>6

LEMMA PassFrameOrderly ==
  ASSUME TokenInv, Orderly, PassFrame
  PROVE  Orderly'
<1> USE DEF Orderly
<1> DEFINE v == framepage[next_alloc_idx]
<1>1. /\ mm = "search" /\ size = NFrames /\ flags' = [flags EXCEPT ![v] = @ \ {"USED"}]
      /\ next_alloc_idx' = Rotated /\ data_full' = TRUE
      /\ UNCHANGED <<frame, count, framepage, size, req_pageno, sema, store, filepos,
                     usr1, manager, clients, wild>>
  BY DEF PassFrame
<1> USE DEF store, manager, clients
<1>2. NFrames \in Nat \ {0} /\ next_alloc_idx \in Frames
  BY ProbeAssumption DEF ProbeAssumption, TableTypes
<1>3. Rotated \in Frames  BY <1>2 DEF Rotated, Frames
<1>4. flags' \in [Pages -> SUBSET {"PRESENT", "DIRTY", "USED"}]
  BY <1>1 DEF TableTypes
<1>5. \A p \in Pages : /\ Present(p)' <=> Present(p)
                       /\ "DIRTY" \in flags'[p] <=> "DIRTY" \in flags[p]
  BY <1>1 DEF TableTypes, Present
<1>6. TableTypes'  BY <1>1, <1>3, <1>4 DEF TableTypes
<1>7. TurnTypes'  BY <1>1, CallsStand
<1>8. TablesAgree'
  <2>1. \A f \in Frames : framepage[f] # VOID_IDX => framepage[f] \in Pages
    BY DEF TableTypes
  <2> QED  BY <1>1, <1>5, <2>1 DEF TablesAgree
<1>9. FillOrder' /\ HandlerKnows'  BY <1>1 DEF FillOrder, HandlerKnows
<1>10. FaultIsWaitedFor'
  <2>1. req_pageno \in Pages /\ \A c \in Clients : pc[c] \in {"idle", "wait"}
    BY <1>1, ManagerWorksAlone
  <2>2. \A c \in Clients : pc[c] = "wait" => Page(c) \in Pages /\ Page(c)' = Page(c)
    BY <1>1, CallerKnown DEF Page
  <2> QED  BY <1>1, <1>5, <2>1, <2>2
              DEF FaultIsWaitedFor, FaultHasCaller, PageComes, AccessFindsPage
<1>11. CleanIsSaved'
  BY <1>1, <1>5 DEF CleanIsSaved, Loaded, BeingWritten, Page
<1> QED  BY <1>1, <1>6, <1>7, <1>8, <1>9, <1>10, <1>11

\* store_page: the page that leaves is saved; it is still seen in its frame.
LEMMA StoreOrderly ==
  ASSUME TokenInv, Orderly, SeekOld \/ WriteOld
  PROVE  Orderly' /\ FlatView' = FlatView
<1> USE DEF Orderly, table, adm, store, clients
<1>1. CASE SeekOld
  <2>1. TableTypes' /\ TurnTypes' /\ TablesAgree'
    BY <1>1, CallsStand, TablesStand DEF SeekOld, TableTypes
  <2>2. FillOrder' /\ HandlerKnows'  BY <1>1 DEF SeekOld, FillOrder, HandlerKnows
  <2>3. FaultIsWaitedFor'  BY <1>1
                              DEF SeekOld, FaultIsWaitedFor, FaultHasCaller,
                                  PageComes, AccessFindsPage, Present, Page
  <2>4. CleanIsSaved'
    BY <1>1 DEF SeekOld, CleanIsSaved, Loaded, Present, BeingWritten, Page
  <2>5. FlatView' = FlatView
    BY <1>1, ViewIsKept DEF SeekOld, View, Loaded, Present
  <2> QED  BY <1>1, <2>1, <2>2, <2>3, <2>4, <2>5 DEF SeekOld
<1>2. CASE WriteOld
  <2>1. /\ mm = "write old" /\ mm' = "update"
        /\ UNCHANGED <<table, adm, req_pageno, sema, data, usr1, new_frame, oldpage,
                       clients>>
    BY <1>2 DEF WriteOld
  <2>2. /\ new_frame \in Frames /\ new_frame < size /\ oldpage = framepage[new_frame]
        /\ oldpage \in Pages /\ filepos = oldpage
    BY <2>1 DEF HandlerKnows
  <2>3. frame[oldpage] = new_frame  BY <2>2, VoidIsApart DEF TablesAgree
  <2>4. ~wild' /\ pagefile' = [pagefile EXCEPT ![oldpage] = data[new_frame]]
    BY <1>2, <2>2, <2>3 DEF WriteOld
  <2>5. TableTypes'  BY <2>1, <2>2, <2>4 DEF TableTypes
  <2>6. TurnTypes' /\ TablesAgree'  BY <2>1, CallsStand, TablesStand
  <2>7. FillOrder' /\ HandlerKnows'  BY <2>1, <2>2 DEF FillOrder, HandlerKnows
  <2>8. FaultIsWaitedFor'  BY <2>1
                              DEF FaultIsWaitedFor, FaultHasCaller, PageComes,
                                  AccessFindsPage, Present, Page
  <2>9. CleanIsSaved'
    <3>1. ASSUME NEW p \in Pages, Loaded(p)', "DIRTY" \notin flags'[p],
                 ~BeingWritten(p)'
          PROVE  data'[frame'[p]] = pagefile'[p]
      <4>1. Loaded(p) /\ "DIRTY" \notin flags[p] /\ ~BeingWritten(p)
        BY <2>1, <3>1 DEF Loaded, Present, BeingWritten, Page
      <4>2. data[frame[p]] = pagefile[p]  BY <4>1 DEF CleanIsSaved
      <4> QED  BY <2>1, <2>3, <2>4, <4>2 DEF TableTypes
    <3>2. data'[new_frame'] = pagefile'[framepage'[new_frame']]
      BY <2>1, <2>2, <2>4 DEF TableTypes
    <3> QED  BY <3>1, <3>2 DEF CleanIsSaved
  <2>10. FlatView' = FlatView
    <3>1. Loaded(oldpage)  BY <2>1, <2>2, VoidIsApart DEF TablesAgree, Loaded
    <3>2. \A p \in Pages : Loaded(p)' <=> Loaded(p)  BY <2>1 DEF Loaded, Present
    <3>3. \A p \in Pages : p # oldpage => pagefile'[p] = pagefile[p]
      BY <2>2, <2>4 DEF TableTypes
    <3> QED  BY <2>1, <3>1, <3>2, <3>3, ViewIsKept DEF View
  <2> QED  BY <2>4, <2>5, <2>6, <2>7, <2>8, <2>9, <2>10
<1> QED  BY <1>1, <1>2

\* update_pt: the old page of the frame leaves, and the page that somebody waits
\* for, which was not there, comes.  Both are as they were in the page file.
LEMMA UpdatePtOrderly ==
  ASSUME TokenInv, Orderly, UpdatePt
  PROVE  Orderly' /\ FlatView' = FlatView
<1> USE DEF Orderly
<1> DEFINE old == framepage[new_frame]
           r == req_pageno
<1>1. /\ mm = "update" /\ mm' = "seek new"
      /\ UNCHANGED <<count, size, next_alloc_idx, data_full, req_pageno, sema, data,
                     pagefile, filepos, usr1, new_frame, oldpage, pc, request, result,
                     wild>>
  BY DEF UpdatePt, adm, store, clients
<1>2. new_frame \in Frames /\ new_frame < size  BY <1>1 DEF HandlerKnows
<1>3. /\ r \in Pages /\ ~Present(r) /\ old # r
      /\ \A c \in Clients : pc[c] \in {"idle", "wait"}
  <2>1. r \in Pages /\ \A c \in Clients : pc[c] \in {"idle", "wait"}
    BY <1>1, ManagerWorksAlone
  <2>2. ~Present(r)  BY <1>1 DEF FaultIsWaitedFor, PageComes
  <2>3. old # r  BY <1>2, <2>1, <2>2, VoidIsApart DEF TablesAgree
  <2> QED  BY <2>1, <2>2, <2>3
<1>4. /\ flags' \in [Pages -> SUBSET {"PRESENT", "DIRTY", "USED"}]
      /\ flags'[r] = flags[r] \union {"PRESENT"}
      /\ \A p \in Pages : /\ p = old => flags'[p] = Unloaded(flags[p])
                          /\ p # old /\ p # r => flags'[p] = flags[p]
  <2> DEFINE cleared == [p \in Pages |-> IF p = old THEN Unloaded(flags[p]) ELSE flags[p]]
  <2>1. flags' = [cleared EXCEPT ![r] = @ \union {"PRESENT"}]  BY DEF UpdatePt
  <2>2. cleared \in [Pages -> SUBSET {"PRESENT", "DIRTY", "USED"}]
    BY DEF TableTypes, Unloaded
  <2>3. cleared[r] = flags[r]  BY <1>3
  <2> QED  BY <1>3, <2>1, <2>2, <2>3
<1>5. /\ frame' \in [Pages -> Frames \union {VOID_IDX}]
      /\ frame'[r] = new_frame
      /\ \A p \in Pages : /\ p = old => frame'[p] = VOID_IDX
                          /\ p # old /\ p # r => frame'[p] = frame[p]
  <2> DEFINE undone == [p \in Pages |-> IF p = old THEN VOID_IDX ELSE frame[p]]
  <2>1. frame' = [undone EXCEPT ![r] = new_frame]  BY DEF UpdatePt
  <2>2. undone \in [Pages -> Frames \union {VOID_IDX}]  BY DEF TableTypes
  <2> QED  BY <1>2, <1>3, <2>1, <2>2
<1>6. /\ framepage' \in [Frames -> Pages \union {VOID_IDX}]
      /\ framepage'[new_frame] = r
      /\ \A f \in Frames : f # new_frame => framepage'[f] = framepage[f]
  BY <1>2, <1>3 DEF UpdatePt, TableTypes
<1>7. \A p \in Pages : Present(p)' <=> p = r \/ (p # old /\ Present(p))
  BY <1>3, <1>4 DEF Present, Unloaded
<1>8. TableTypes'  BY <1>1, <1>4, <1>5, <1>6 DEF TableTypes
<1>9. TurnTypes'  BY <1>1, CallsStand
<1>10. TablesAgree'
  <2>1. ASSUME NEW f \in Frames, framepage'[f] # VOID_IDX
        PROVE  frame'[framepage'[f]] = f /\ Present(framepage[f])'
    <3>1. CASE f = new_frame  BY <1>3, <1>5, <1>6, <1>7, <3>1
    <3>2. CASE f # new_frame
      <4> DEFINE q == framepage[f]
      <4>1. framepage'[f] = q /\ q # VOID_IDX  BY <1>6, <2>1, <3>2
      <4>2. q \in Pages /\ frame[q] = f /\ Present(q)
        BY <4>1 DEF TablesAgree, TableTypes
      <4>3. q # r /\ q # old
        BY <1>2, <1>3, <3>2, <4>1, <4>2 DEF TablesAgree
      <4> QED  BY <1>5, <1>7, <4>1, <4>2, <4>3
    <3> QED  BY <3>1, <3>2
  <2>2. ASSUME NEW p \in Pages
        PROVE  /\ Present(p)' <=> frame'[p] # VOID_IDX
               /\ Present(p)' => framepage'[frame'[p]] = p
    <3>1. CASE p = r  BY <1>2, <1>5, <1>6, <1>7, <3>1, VoidIsApart
    <3>2. CASE p = old  BY <1>3, <1>5, <1>7, <3>2
    <3>3. CASE p # r /\ p # old
      <4>1. frame'[p] = frame[p] /\ (Present(p)' <=> Present(p))  BY <1>5, <1>7, <3>3
      <4>2. Present(p) => frame[p] \in Frames /\ framepage[frame[p]] = p
        BY DEF TablesAgree, TableTypes
      <4>3. Present(p) => frame[p] # new_frame  BY <3>3, <4>2
      <4> QED  BY <1>6, <4>1, <4>2, <4>3 DEF TablesAgree
    <3> QED  BY <3>1, <3>2, <3>3
  <2> QED  BY <2>1, <2>2 DEF TablesAgree
<1>11. FillOrder'
  <2>1. size \in 0 .. NFrames /\ \A f \in Frames : f \in Int
    BY DEF TableTypes, Frames
  <2>2. new_frame \in Frames /\ new_frame \in Int /\ size \in Int  BY <1>2, <2>1
  <2>3. ASSUME NEW f \in Frames, f >= size PROVE framepage'[f] = VOID_IDX
    <3>1. f # new_frame  BY <1>2, <2>1, <2>2, <2>3
    <3> QED  BY <1>6, <2>3, <3>1 DEF FillOrder
  <2>4. ASSUME NEW f \in Frames, framepage'[f] = VOID_IDX PROVE f >= size
    <3>1. f # new_frame  BY <1>3, <1>6, <2>4, VoidIsApart
    <3> QED  BY <1>6, <2>4, <3>1 DEF FillOrder
  <2>5. data_full \in BOOLEAN /\ (data_full => size = NFrames)  BY DEF FillOrder
  <2> QED  BY <1>1, <2>3, <2>4, <2>5, Zenon DEF FillOrder
<1>12. HandlerKnows'  BY <1>1 DEF HandlerKnows
<1>13. FaultIsWaitedFor'
  <2>1. ~usr1' /\ sema' = 0  BY <1>1, ManagerWorksAlone
  <2>2. Present(req_pageno)'  BY <1>1, <1>4 DEF Present
  <2>3. \E c \in Clients : pc'[c] = "wait"
    BY <1>1 DEF FaultIsWaitedFor, FaultHasCaller, PageComes, AccessFindsPage
  <2>4. \A c \in Clients : pc'[c] \in {"idle", "wait"}  BY <1>1, <1>3
  <2>5. mm' = "seek new"  BY <1>1
  <2>6. FaultHasCaller'  BY <2>3 DEF FaultHasCaller
  <2>7. PageComes'  BY <2>1, <2>2, <2>5 DEF PageComes, Present
  <2>8. AccessFindsPage'  BY <2>1, <2>4 DEF AccessFindsPage
  <2> QED  BY <2>6, <2>7, <2>8 DEF FaultIsWaitedFor
<1>14. CleanIsSaved'
  <2>1. ASSUME NEW p \in Pages, Loaded(p)', "DIRTY" \notin flags'[p]
        PROVE  data'[frame'[p]] = pagefile'[p]
    <3>1. p # r /\ p # old /\ Present(p)  BY <1>1, <1>7, <2>1 DEF Loaded
    <3>2. Loaded(p) /\ "DIRTY" \notin flags[p] /\ ~BeingWritten(p)
      BY <1>1, <1>3, <1>4, <2>1, <3>1 DEF Loaded, BeingWritten
    <3> QED  BY <1>1, <1>5, <3>1, <3>2 DEF CleanIsSaved
  <2> QED  BY <1>1, <2>1 DEF CleanIsSaved
<1>15. FlatView' = FlatView
  <2>1. ASSUME NEW p \in Pages PROVE View(p)' = View(p)
    <3>1. CASE p = r  BY <1>1, <1>3, <3>1 DEF View, Loaded
    <3>2. CASE p = old
      <4>1. Present(p) /\ frame[p] = new_frame
        BY <1>2, <3>2, VoidIsApart DEF TablesAgree
      <4>2. data[new_frame] = pagefile[p]
        BY <1>1, <3>2, VoidIsApart DEF CleanIsSaved
      <4>3. ~Present(p)'  BY <1>3, <1>7, <3>2
      <4> QED  BY <1>1, <4>1, <4>2, <4>3 DEF View, Loaded
    <3>3. CASE p # r /\ p # old
      BY <1>1, <1>5, <1>7, <3>3 DEF View, Loaded
    <3> QED  BY <3>1, <3>2, <3>3
  <2> QED  BY <2>1, ViewIsKept
<1> QED  BY <1>1, <1>8, <1>9, <1>10, <1>11, <1>12, <1>13, <1>14, <1>15

\* fetch_page: once it is in its frame the page is seen there, with what the page
\* file has.
LEMMA FetchOrderly ==
  ASSUME TokenInv, Orderly, SeekNew \/ ReadNew
  PROVE  Orderly' /\ FlatView' = FlatView
<1> USE DEF Orderly, table, adm, store, clients
<1>1. CASE SeekNew
  <2>1. TableTypes' /\ TurnTypes' /\ TablesAgree'
    BY <1>1, CallsStand, TablesStand DEF SeekNew, TableTypes
  <2>2. FillOrder' /\ HandlerKnows'  BY <1>1 DEF SeekNew, FillOrder, HandlerKnows
  <2>3. FaultIsWaitedFor'  BY <1>1
                              DEF SeekNew, FaultIsWaitedFor, FaultHasCaller,
                                  PageComes, AccessFindsPage, Present, Page
  <2>4. CleanIsSaved'
    BY <1>1 DEF SeekNew, CleanIsSaved, Loaded, Present, BeingWritten, Page
  <2>5. FlatView' = FlatView
    BY <1>1, ViewIsKept DEF SeekNew, View, Loaded, Present
  <2> QED  BY <1>1, <2>1, <2>2, <2>3, <2>4, <2>5 DEF SeekNew
<1>2. CASE ReadNew
  <2> DEFINE r == req_pageno
  <2>1. /\ mm = "read new" /\ mm' = "post"
        /\ UNCHANGED <<table, adm, req_pageno, sema, pagefile, usr1, new_frame, oldpage,
                       clients>>
    BY <1>2 DEF ReadNew
  <2>2. oldpage = r /\ filepos = r /\ Present(r) /\ r \in Pages
    BY <2>1, ManagerWorksAlone DEF HandlerKnows, FaultIsWaitedFor, PageComes
  <2>3. frame[r] \in Frames  BY <2>2 DEF TablesAgree, TableTypes
  <2>4. ~wild' /\ data' = [data EXCEPT ![frame[r]] = pagefile[r]]
    BY <1>2, <2>2, <2>3 DEF ReadNew
  <2>5. TableTypes'  BY <2>1, <2>2, <2>3, <2>4 DEF TableTypes
  <2>6. TurnTypes' /\ TablesAgree'  BY <2>1, CallsStand, TablesStand
  <2>7. FillOrder' /\ HandlerKnows'  BY <2>1 DEF FillOrder, HandlerKnows
  <2>8. FaultIsWaitedFor'
    <3>1. ~usr1 /\ sema = 0  BY <2>1, ManagerWorksAlone
    <3> QED  BY <2>1, <3>1
                DEF FaultIsWaitedFor, FaultHasCaller, PageComes, AccessFindsPage,
                    Present, Page
  <2>9. CleanIsSaved'
    <3>1. ASSUME NEW p \in Pages, Loaded(p)', "DIRTY" \notin flags'[p],
                 ~BeingWritten(p)'
          PROVE  data'[frame'[p]] = pagefile'[p]
      <4>1. CASE p = r  BY <2>1, <2>3, <2>4, <4>1 DEF TableTypes
      <4>2. CASE p # r
        <5>1. Loaded(p) /\ "DIRTY" \notin flags[p] /\ ~BeingWritten(p)
          BY <2>1, <3>1, <4>2 DEF Loaded, Present, BeingWritten, Page
        <5>2. data[frame[p]] = pagefile[p]  BY <5>1 DEF CleanIsSaved
        <5>3. frame[p] \in Frames /\ frame[p] # frame[r]
          BY <2>2, <4>2, <5>1, FramesDiffer DEF Loaded
        <5> QED  BY <2>1, <2>4, <5>2, <5>3 DEF TableTypes
      <4> QED  BY <4>1, <4>2
    <3> QED  BY <2>1, <3>1 DEF CleanIsSaved
  <2>10. FlatView' = FlatView
    <3>1. ASSUME NEW p \in Pages, p = r PROVE View(p)' = View(p)
      <4>1. Loaded(p)' /\ ~Loaded(p)  BY <2>1, <2>2, <3>1 DEF Loaded, Present
      <4>2. data'[frame[p]] = pagefile[p]
        BY <2>3, <2>4, <3>1 DEF TableTypes
      <4> QED  BY <2>1, <4>1, <4>2 DEF View
    <3>2. ASSUME NEW p \in Pages, p # r PROVE View(p)' = View(p)
      <4>1. Loaded(p)' <=> Present(p)  BY <2>1 DEF Loaded, Present
      <4>2. Loaded(p) <=> Present(p)  BY <3>2 DEF Loaded
      <4>3. Present(p) => frame[p] \in Frames /\ frame[p] # frame[r]
        BY <2>2, <3>2, FramesDiffer
      <4>4. Present(p) => data'[frame[p]] = data[frame[p]]
        BY <2>4, <4>3 DEF TableTypes
      <4> QED  BY <2>1, <4>1, <4>2, <4>4 DEF View
    <3> QED  BY <3>1, <3>2, ViewIsKept
  <2> QED  BY <2>4, <2>5, <2>6, <2>7, <2>8, <2>9, <2>10
<1> QED  BY <1>1, <1>2

LEMMA PostSemaOrderly ==
  ASSUME TokenInv, Orderly, PostSema
  PROVE  Orderly'
<1> USE DEF Orderly, table, adm, store, clients
<1>1. /\ mm = "post" /\ mm' = "pause" /\ sema' = sema + 1
      /\ UNCHANGED <<table, adm, req_pageno, store, usr1, clients, wild>>
  BY DEF PostSema
<1>2. TableTypes' /\ TurnTypes' /\ TablesAgree'
  BY <1>1, CallsStand, TablesStand DEF TableTypes
<1>3. FillOrder' /\ HandlerKnows'  BY <1>1 DEF FillOrder, HandlerKnows
<1>4. FaultIsWaitedFor'
  <2>1. ~usr1 /\ \A c \in Clients : pc[c] \in {"idle", "wait"}
    BY <1>1, ManagerWorksAlone
  <2>2. \A c \in Clients : pc[c] = "wait" => Present(Page(c))
    BY <1>1, CallerKnown DEF FaultIsWaitedFor, PageComes
  <2> QED  BY <1>1, <2>1, <2>2
              DEF FaultIsWaitedFor, FaultHasCaller, PageComes, AccessFindsPage,
                  Present, Page
<1>5. CleanIsSaved'  BY <1>1 DEF CleanIsSaved, Loaded, Present, BeingWritten, Page
<1> QED  BY <1>1, <1>2, <1>3, <1>4, <1>5

\* A manager that quits while it rests disturbs nobody.
LEMMA QuitOrderly ==
  ASSUME TokenInv, Orderly, Quit, mm = "pause"
  PROVE  Orderly'
<1> USE DEF Orderly, table, adm, store, clients
<1>1. /\ mm' = "gone" /\ ~usr1'
      /\ UNCHANGED <<table, adm, req_pageno, sema, store, clients, wild>>
  BY DEF Quit
<1>2. TableTypes' /\ TurnTypes' /\ TablesAgree'
  BY <1>1, CallsStand, TablesStand DEF TableTypes
<1>3. FillOrder' /\ HandlerKnows'  BY <1>1 DEF FillOrder, HandlerKnows
<1>4. FaultIsWaitedFor'  BY <1>1
                            DEF FaultIsWaitedFor, FaultHasCaller, PageComes,
                                AccessFindsPage, Present, Page
<1>5. CleanIsSaved'  BY <1>1 DEF CleanIsSaved, Loaded, Present, BeingWritten, Page
<1> QED  BY <1>1, <1>2, <1>3, <1>4, <1>5

\* A client may begin when nobody is in a call: the manager rests then.
LEMMA BeginOrderly ==
  ASSUME TokenInv, Orderly, NEW c \in Clients, BeginAccess(c), ~disturbed'
  PROVE  Orderly'
<1> USE DEF Orderly, table, adm, store, manager
<1>1. PICK r \in Calls : /\ pc[c] = "idle" /\ req_pageno' = r.page
                         /\ request' = [request EXCEPT ![c] = r]
                         /\ result' = [result EXCEPT ![c] = VOID_IDX]
                         /\ pc' = [pc EXCEPT ![c] = "lock"]
                         /\ ~(\E d \in Clients \ {c} : pc[d] # "idle")
  BY DEF BeginAccess, Goto
<1>2. UNCHANGED <<table, adm, sema, store, filepos, usr1, manager, wild>>
  BY DEF BeginAccess
<1>3. \A d \in Clients : pc[d] = "idle"  BY <1>1
<1>4. mm \in {"pause", "gone"} /\ ~usr1
  BY <1>3, Zenon DEF FaultIsWaitedFor, FaultHasCaller, PageComes, AccessFindsPage
<1>5. /\ pc'[c] = "lock" /\ \A d \in Clients : d # c => pc'[d] = "idle"
      /\ \A d \in Clients : pc'[d] \in {"idle", "lock"}
  BY <1>1, <1>3 DEF TokenInv, TokenTypes
<1>6. TableTypes' /\ TablesAgree'  BY <1>2, TablesStand DEF TableTypes
<1>7. TurnTypes'
  <2>1. /\ request'[c] = r /\ \A d \in Clients : d # c => request'[d] = request[d]
        /\ request' \in [Clients -> Calls \union {NoRequest}]
        /\ result' \in [Clients -> Values \union {VOID_IDX}]
    BY <1>1 DEF TurnTypes
  <2>2. \A d \in Clients : d # c => request'[d] = NoRequest
    BY <1>3, <2>1 DEF TurnTypes
  <2> QED  BY <1>1, <1>5, <2>1, <2>2 DEF TurnTypes, Page
<1>8. FillOrder' /\ HandlerKnows'  BY <1>2, <1>4 DEF FillOrder, HandlerKnows
<1>9. FaultIsWaitedFor'  BY <1>2, <1>4, <1>5
                            DEF FaultIsWaitedFor, FaultHasCaller, PageComes,
                                AccessFindsPage, Present, Page
<1>10. CleanIsSaved'
  <2>1. \A p \in Pages : ~BeingWritten(p)  BY <1>3 DEF BeingWritten
  <2> QED  BY <1>2, <1>4, <2>1 DEF CleanIsSaved, Loaded, Present
<1> QED  BY <1>2, <1>6, <1>7, <1>8, <1>9, <1>10

\* A client that goes on in its call and leaves the memory as it is disturbs
\* only what FaultIsWaitedFor says of it.
LEMMA ClientMoves ==
  ASSUME TokenInv, Orderly, NEW c \in Clients, NEW at,
         pc[c] \notin {"idle", "mark"}, at # "idle", pc' = [pc EXCEPT ![c] = at],
         UNCHANGED <<table, adm, req_pageno, store, filepos, manager, request, result,
                     wild>>,
         FaultIsWaitedFor'
  PROVE  Orderly'
<1> USE DEF Orderly, table, adm, store, manager
<1>1. TableTypes' /\ TablesAgree'  BY TablesStand DEF TableTypes
<1>2. \A d \in Clients : pc'[d] = "idle" <=> pc[d] = "idle"
  BY DEF TokenInv, TokenTypes
<1>3. TurnTypes'  BY <1>2, Zenon DEF TurnTypes, Page
<1>4. FillOrder' /\ HandlerKnows'  BY DEF FillOrder, HandlerKnows
<1>5. CleanIsSaved'
  <2>1. \A p \in Pages : BeingWritten(p) => BeingWritten(p)'
    BY DEF BeingWritten, Page, TokenInv, TokenTypes
  <2> QED  BY <2>1 DEF CleanIsSaved, Loaded, Present
<1> QED  BY <1>1, <1>3, <1>4, <1>5

LEMMA LockOrderly ==
  ASSUME TokenInv, Orderly, NEW c \in Clients, Lock(c)
  PROVE  Orderly'
<1>1. /\ pc[c] = "lock" /\ sema > 0 /\ pc' = [pc EXCEPT ![c] = "check"]
      /\ UNCHANGED <<table, adm, req_pageno, store, filepos, usr1, manager, request,
                     result, wild>>
  BY DEF Lock, Goto
<1>2. mm \in {"pause", "gone"} /\ ~usr1  BY <1>1, ManagerRests
<1>3. \A d \in Clients : pc'[d] \in {"idle", "check"}
  BY <1>1, CallerKnown DEF TokenInv, TokenTypes
<1>4. FaultIsWaitedFor'
  BY <1>1, <1>2, <1>3
     DEF FaultIsWaitedFor, FaultHasCaller, PageComes, AccessFindsPage, Present, Page,
         manager
<1> QED  BY <1>1, <1>4, ClientMoves

LEMMA CheckOrderly ==
  ASSUME TokenInv, Orderly, NEW c \in Clients, CheckPresent(c)
  PROVE  Orderly'
<1> DEFINE at == IF Present(Page(c)) THEN FirstPart(c) ELSE "kill"
<1>1. /\ pc[c] = "check" /\ pc' = [pc EXCEPT ![c] = at]
      /\ UNCHANGED <<table, adm, req_pageno, store, filepos, usr1, manager, request,
                     result, wild>>
  BY DEF CheckPresent, Goto
<1>2. mm \in {"pause", "gone"} /\ ~usr1  BY <1>1, ManagerRests DEF Holding
<1>3. at \in {"mark", "transfer", "kill"} /\ (at = "kill" <=> ~Present(Page(c)))
  BY DEF FirstPart
<1>4. pc'[c] = at /\ \A d \in Clients : d # c => pc'[d] = "idle"
  BY <1>1, CallerKnown DEF TokenInv, TokenTypes
<1> HIDE DEF at
<1>5. FaultIsWaitedFor'
  <2>1. \A d \in Clients : pc'[d] # "idle" => d = c /\ pc'[d] = at  BY <1>4
  <2> QED  BY <1>1, <1>2, <1>3, <2>1
              DEF FaultIsWaitedFor, FaultHasCaller, PageComes, AccessFindsPage,
                  Present, Page, manager, table
<1> QED  BY <1>1, <1>3, <1>5, ClientMoves

LEMMA RaiseOrderly ==
  ASSUME TokenInv, Orderly, NEW c \in Clients, RaiseFault(c)
  PROVE  Orderly'
<1>1. /\ pc[c] = "kill" /\ pc' = [pc EXCEPT ![c] = "wait"] /\ usr1' = (mm # "gone")
      /\ UNCHANGED <<table, adm, req_pageno, sema, store, filepos, manager, request,
                     result, wild>>
  BY DEF RaiseFault, Goto
<1>2. mm \in {"pause", "gone"} /\ sema = 0
  BY <1>1, ManagerRests, HolderIsAlone DEF Holding
<1>3. ~Present(req_pageno)
  <2>1. ~Present(Page(c))  BY <1>1 DEF Orderly, FaultIsWaitedFor, AccessFindsPage
  <2> QED  BY <1>1, <2>1, CallerKnown
<1>4. \A d \in Clients : pc'[d] # "idle" => d = c /\ pc'[d] = "wait"
  BY <1>1, CallerKnown DEF TokenInv, TokenTypes
<1>5. pc'[c] = "wait"  BY <1>1 DEF TokenInv, TokenTypes
<1>6. FaultIsWaitedFor'
  <2>1. FaultHasCaller'  BY <1>5 DEF FaultHasCaller
  <2>2. PageComes'  BY <1>1, <1>2, <1>3 DEF PageComes, Present, manager, table
  <2>3. AccessFindsPage'  BY <1>1, <1>2, <1>4 DEF AccessFindsPage
  <2> QED  BY <2>1, <2>2, <2>3 DEF FaultIsWaitedFor
<1> QED  BY <1>1, <1>6, ClientMoves

LEMMA AwaitOrderly ==
  ASSUME TokenInv, Orderly, NEW c \in Clients, AwaitPage(c)
  PROVE  Orderly'
<1>1. /\ pc[c] = "wait" /\ sema > 0 /\ pc' = [pc EXCEPT ![c] = FirstPart(c)]
      /\ UNCHANGED <<table, adm, req_pageno, store, filepos, usr1, manager, request,
                     result, wild>>
  BY DEF AwaitPage, Goto
<1>2. mm \in {"pause", "gone"} /\ ~usr1  BY <1>1, ManagerRests
<1>3. Present(Page(c))  BY <1>1 DEF Orderly, FaultIsWaitedFor, AccessFindsPage
<1>4. FirstPart(c) \in {"mark", "transfer"}  BY DEF FirstPart
<1>5. \A d \in Clients : pc'[d] # "idle" => d = c /\ pc'[d] = FirstPart(c)
  BY <1>1, CallerKnown DEF TokenInv, TokenTypes
<1>6. FaultIsWaitedFor'
  BY <1>1, <1>2, <1>3, <1>4, <1>5
     DEF FaultIsWaitedFor, FaultHasCaller, PageComes, AccessFindsPage, Present, Page,
         manager, table
<1> QED  BY <1>1, <1>4, <1>6, ClientMoves

\* The bits of a page are set while its client holds the token: what they say
\* of the page file, its data has already done.
LEMMA MarkOrderly ==
  ASSUME TokenInv, Orderly, NEW c \in Clients, Mark(c)
  PROVE  Orderly'
<1> USE DEF Orderly, adm, store, manager
<1> DEFINE bits == IF request[c].op = "read" THEN {"USED"} ELSE {"USED", "DIRTY"}
           at == IF request[c].op = "read" THEN "transfer" ELSE "post"
           p == Page(c)
<1>1. /\ pc[c] = "mark" /\ pc' = [pc EXCEPT ![c] = at]
      /\ flags' = [flags EXCEPT ![p] = @ \union bits]
      /\ count' \in {count, [count EXCEPT ![p] = @ + 1]}
      /\ UNCHANGED <<frame, framepage, adm, req_pageno, sema, store, filepos, usr1,
                     manager, request, result, wild>>
  BY DEF Mark, Goto
<1>2. mm \in {"pause", "gone"} /\ ~usr1  BY <1>1, ManagerRests DEF Holding
<1>3. p \in Pages /\ Present(p) /\ request[c].op \in {"read", "write"}
  BY <1>1, CallerKnown DEF FaultIsWaitedFor, AccessFindsPage
<1>4. /\ flags' \in [Pages -> SUBSET {"PRESENT", "DIRTY", "USED"}]
      /\ flags'[p] = flags[p] \union bits
      /\ \A q \in Pages : q # p => flags'[q] = flags[q]
  BY <1>1, <1>3 DEF TableTypes
<1>5. \A q \in Pages : Present(q)' <=> Present(q)  BY <1>1, <1>4 DEF Present
<1>6. TableTypes'
  <2>1. count' \in [Pages -> Nat]  BY <1>1, <1>3 DEF TableTypes
  <2> QED  BY <1>1, <1>4, <2>1 DEF TableTypes
<1>7. \A d \in Clients : pc'[d] # "idle" => d = c /\ pc'[d] = at
  BY <1>1, CallerKnown DEF TokenInv, TokenTypes
<1>8. \A d \in Clients : pc'[d] = "idle" <=> pc[d] = "idle"
  BY <1>1 DEF TokenInv, TokenTypes
<1>9. TurnTypes'  BY <1>1, <1>8, Zenon DEF TurnTypes, Page
<1>10. TablesAgree'
  BY <1>1, <1>5 DEF TablesAgree, TableTypes
<1>11. FillOrder' /\ HandlerKnows'  BY <1>1, <1>2 DEF FillOrder, HandlerKnows
<1>12. FaultIsWaitedFor'
  <2>1. "PRESENT" \in flags'[p] /\ at \in {"transfer", "post"}
    BY <1>3, <1>5 DEF Present
  <2> HIDE DEF at
  <2> QED  BY <1>1, <1>2, <1>7, <2>1
              DEF FaultIsWaitedFor, FaultHasCaller, PageComes, AccessFindsPage,
                  Present, Page
<1>13. CleanIsSaved'
  <2>1. ASSUME NEW q \in Pages, Loaded(q)', "DIRTY" \notin flags'[q]
        PROVE  data'[frame'[q]] = pagefile'[q]
    <3>1. Loaded(q) /\ "DIRTY" \notin flags[q]
      BY <1>1, <1>2, <1>4, <1>5, <2>1 DEF Loaded
    <3>2. ~BeingWritten(q)
      <4>1. \A d \in Clients : pc[d] = "mark" => d = c
        BY <1>1, CallerKnown
      <4>2. request[c].op = "write" => q # p  BY <1>4, <2>1
      <4> QED  BY <4>1, <4>2 DEF BeingWritten
    <3> QED  BY <1>1, <3>1, <3>2 DEF CleanIsSaved
  <2> QED  BY <1>1, <1>2, <2>1 DEF CleanIsSaved
<1> QED  BY <1>1, <1>6, <1>9, <1>10, <1>11, <1>12, <1>13

\* The int is read or written through the frame of its page, which is there.
LEMMA TransferOrderly ==
  ASSUME TokenInv, Orderly, NEW c \in Clients, Transfer(c)
  PROVE  Orderly'
<1> USE DEF Orderly, table, adm, store, manager
<1> DEFINE p == Page(c)
           f == frame[p]
           at == IF request[c].op = "read" THEN "post" ELSE "mark"
<1>1. /\ pc[c] = "transfer" /\ pc' = [pc EXCEPT ![c] = at]
      /\ UNCHANGED <<table, adm, req_pageno, sema, pagefile, filepos, usr1, manager,
                     request>>
  BY DEF Transfer, Goto
<1>2. mm \in {"pause", "gone"} /\ ~usr1  BY <1>1, ManagerRests DEF Holding
<1>3. /\ p \in Pages /\ Present(p) /\ request[c] \in Calls
      /\ request[c].op \in {"read", "write"}
  BY <1>1, CallerKnown DEF FaultIsWaitedFor, AccessFindsPage
<1>4. f \in Frames  BY <1>3 DEF TablesAgree, TableTypes
<1>5. /\ ~wild'
      /\ data' = IF request[c].op = "write" THEN [data EXCEPT ![f] = request[c].val]
                 ELSE data
      /\ result' = IF request[c].op = "read" THEN [result EXCEPT ![c] = data[f]]
                   ELSE result
  BY <1>4 DEF Transfer, Page
<1>6. data' \in [Frames -> Values \union {VOID_IDX}]
  <2>1. request[c].val \in Values \union {VOID_IDX}  BY <1>3 DEF Calls
  <2> QED  BY <1>4, <1>5, <2>1 DEF TableTypes
<1>7. result' \in [Clients -> Values \union {VOID_IDX}]
  BY <1>4, <1>5 DEF TableTypes, TurnTypes
<1>8. TableTypes' /\ TablesAgree'  BY <1>1, <1>6, TablesStand DEF TableTypes
<1>9. \A d \in Clients : pc'[d] # "idle" => d = c /\ pc'[d] = at
  BY <1>1, CallerKnown DEF TokenInv, TokenTypes
<1>10. \A d \in Clients : pc'[d] = "idle" <=> pc[d] = "idle"
  BY <1>1 DEF TokenInv, TokenTypes
<1>11. TurnTypes'  BY <1>1, <1>7, <1>10, Zenon DEF TurnTypes, Page
<1>12. FillOrder' /\ HandlerKnows'  BY <1>1 DEF FillOrder, HandlerKnows
<1>13. FaultIsWaitedFor'
  <2>1. at \in {"mark", "post"}  OBVIOUS
  <2> HIDE DEF at
  <2> QED  BY <1>1, <1>2, <1>3, <1>9, <2>1
              DEF FaultIsWaitedFor, FaultHasCaller, PageComes, AccessFindsPage,
                  Present, Page
<1>14. CleanIsSaved'
  <2>1. ASSUME NEW q \in Pages, Loaded(q)', "DIRTY" \notin flags'[q],
               ~BeingWritten(q)'
        PROVE  data'[frame'[q]] = pagefile'[q]
    <3>1. Loaded(q) /\ Present(q) /\ "DIRTY" \notin flags[q]
      BY <1>1, <2>1 DEF Loaded, Present
    <3>2. ~BeingWritten(q)  BY <1>1, CallerKnown DEF BeingWritten
    <3>3. data[frame[q]] = pagefile[q]  BY <3>1, <3>2 DEF CleanIsSaved
    <3>4. CASE request[c].op = "write"
      <4>1. pc'[c] = "mark"  BY <1>1, <3>4 DEF TokenInv, TokenTypes
      <4>2. q # p  BY <1>1, <2>1, <3>4, <4>1 DEF BeingWritten, Page
      <4>3. frame[q] \in Frames /\ frame[q] # f  BY <1>3, <3>1, <4>2, FramesDiffer
      <4> QED  BY <1>1, <1>5, <3>3, <4>3 DEF TableTypes
    <3>5. CASE request[c].op # "write"  BY <1>1, <1>5, <3>3, <3>5
    <3> QED  BY <3>4, <3>5
  <2> QED  BY <1>1, <1>2, <2>1 DEF CleanIsSaved
<1> QED  BY <1>5, <1>8, <1>11, <1>12, <1>13, <1>14

LEMMA UnlockOrderly ==
  ASSUME TokenInv, Orderly, NEW c \in Clients, Unlock(c)
  PROVE  Orderly'
<1> USE DEF Orderly, table, adm, store, manager
<1>1. /\ pc[c] = "post" /\ pc' = [pc EXCEPT ![c] = "idle"]
      /\ request' = [request EXCEPT ![c] = NoRequest]
      /\ UNCHANGED <<table, adm, req_pageno, store, filepos, usr1, manager, result,
                     wild>>
  BY DEF Unlock, Goto
<1>2. mm \in {"pause", "gone"} /\ ~usr1  BY <1>1, ManagerRests DEF Holding
<1>3. \A d \in Clients : pc'[d] = "idle"
  BY <1>1, CallerKnown DEF TokenInv, TokenTypes
<1>4. TableTypes' /\ TablesAgree'  BY <1>1, TablesStand DEF TableTypes
<1>5. TurnTypes'
  <2>1. /\ request'[c] = NoRequest
        /\ \A d \in Clients : d # c => request'[d] = request[d]
        /\ request' \in [Clients -> Calls \union {NoRequest}]
    BY <1>1 DEF TurnTypes
  <2>2. \A d \in Clients : d # c => request[d] = NoRequest
    BY <1>1, CallerKnown DEF TurnTypes
  <2>3. \A d \in Clients : request'[d] = NoRequest  BY <2>1, <2>2
  <2> QED  BY <1>1, <1>3, <2>1, <2>3 DEF TurnTypes
<1>6. FillOrder' /\ HandlerKnows'  BY <1>1 DEF FillOrder, HandlerKnows
<1>7. FaultIsWaitedFor'  BY <1>1, <1>2, <1>3
                            DEF FaultIsWaitedFor, FaultHasCaller, PageComes,
                                AccessFindsPage
<1>8. CleanIsSaved'
  <2>1. \A p \in Pages : ~BeingWritten(p)  BY <1>1, CallerKnown DEF BeingWritten
  <2> QED  BY <1>1, <1>2, <2>1 DEF CleanIsSaved, Loaded, Present
<1> QED  BY <1>1, <1>4, <1>5, <1>6, <1>7, <1>8

-----------------------------------------------------------------------------

\* While the manager starts, looks for a frame, posts or quits, and while a
\* client only goes on, every page is seen as before.
LEMMA ViewStands ==
  ASSUME UNCHANGED <<frame, data, pagefile>>, \A p \in Pages : Loaded(p)' <=> Loaded(p)
  PROVE  FlatView' = FlatView
  BY ViewIsKept DEF View

\* The steps of a handler that is not stopped.
LEMMA FaultOrderly ==
  ASSUME TokenInv, Orderly, Fault
  PROVE  Orderly' /\ FlatView' = FlatView /\ UNCHANGED <<clients, disturbed>>
<1> USE DEF table, store
<1>1. CASE EnterFault
  <2>1. \A p \in Pages : Loaded(p)' <=> Loaded(p)
    BY <1>1 DEF EnterFault, Loaded, Present
  <2> QED  BY <1>1, <2>1, EnterFaultOrderly, ViewStands DEF EnterFault
<1>2. CASE TakeFreeFrame \/ TakeLeastUsed \/ TakeNext
  <2>1. /\ mm = "search" /\ mm' \in {"seek old", "update"}
        /\ UNCHANGED <<table, store, clients, disturbed>>
    BY <1>2 DEF TakeFreeFrame, TakeLeastUsed, TakeNext, TakeFrame
  <2>2. \A p \in Pages : Loaded(p)' <=> Loaded(p)  BY <2>1 DEF Loaded, Present
  <2> QED  BY <1>2, <2>1, <2>2, FrameIsTaken, ViewStands
<1>3. CASE PassFrame
  <2>1. mm = "search" /\ UNCHANGED <<mm, frame, store, clients, disturbed>>
    BY <1>3 DEF PassFrame, manager
  <2>2. \A p \in Pages : Present(p)' <=> Present(p)
    BY <1>3 DEF PassFrame, Present, Orderly, TableTypes
  <2>3. \A p \in Pages : Loaded(p)' <=> Loaded(p)  BY <2>1, <2>2 DEF Loaded
  <2> QED  BY <1>3, <2>1, <2>3, PassFrameOrderly, ViewStands
<1>4. CASE SeekOld \/ WriteOld  BY <1>4, StoreOrderly DEF SeekOld, WriteOld
<1>5. CASE UpdatePt  BY <1>5, UpdatePtOrderly DEF UpdatePt
<1>6. CASE SeekNew \/ ReadNew  BY <1>6, FetchOrderly DEF SeekNew, ReadNew
<1>7. CASE PostSema
  <2>1. \A p \in Pages : Loaded(p)' <=> Loaded(p)
    BY <1>7 DEF PostSema, Loaded, Present
  <2> QED  BY <1>7, <2>1, PostSemaOrderly, ViewStands DEF PostSema
<1> QED  BY <1>1, <1>2, <1>3, <1>4, <1>5, <1>6, <1>7 DEF Fault

\* A call that goes on, but for its transfer.
LEMMA ProceedOrderly ==
  ASSUME TokenInv, Orderly, NEW c \in Clients, Proceed(c)
  PROVE  Orderly' /\ UNCHANGED disturbed
  BY LockOrderly, CheckOrderly, RaiseOrderly, AwaitOrderly, MarkOrderly,
     TransferOrderly, UnlockOrderly
     DEF Proceed, Lock, CheckPresent, RaiseFault, AwaitPage, Mark, Transfer, Unlock

LEMMA DisturbedStays ==
  ASSUME [Next]_vars, disturbed
  PROVE  disturbed'
<1>1. CASE Fault
  BY <1>1
     DEF Fault, EnterFault, TakeFreeFrame, TakeLeastUsed, PassFrame, TakeNext,
         SeekOld, WriteOld, UpdatePt, SeekNew, ReadNew, PostSema
<1>2. CASE Dump \/ Quit  BY <1>2 DEF Dump, Quit
<1>3. ASSUME NEW c \in Clients, BeginAccess(c) PROVE disturbed'
  BY <1>3 DEF BeginAccess
<1>4. ASSUME NEW c \in Clients, Proceed(c) PROVE disturbed'
  BY <1>4
     DEF Proceed, Lock, CheckPresent, RaiseFault, AwaitPage, Mark, Transfer, Unlock
<1>5. CASE UNCHANGED vars  BY <1>5 DEF vars
<1> QED  BY <1>1, <1>2, <1>3, <1>4, <1>5 DEF Next

LEMMA OrderlyStep ==
  ASSUME OrderlyInv, [Next]_vars
  PROVE  OrderlyInv'
<1>1. TokenInv'  BY TokenStep DEF OrderlyInv
<1>2. ASSUME ~disturbed' PROVE Orderly'
  <2>1. ASSUME ~disturbed PROVE Orderly'
    <3> USE <2>1 DEF OrderlyInv
    <3>1. CASE Fault  BY <3>1, FaultOrderly
    <3>2. CASE Dump  BY <3>2, <1>2 DEF Dump
    <3>3. CASE Quit
      <4>1. mm = "pause"  BY <3>3, <1>2 DEF Quit
      <4> QED  BY <3>3, <4>1, QuitOrderly
    <3>4. ASSUME NEW c \in Clients, BeginAccess(c) PROVE Orderly'
      BY <3>4, <1>2, BeginOrderly
    <3>5. ASSUME NEW c \in Clients, Proceed(c) PROVE Orderly'
      BY <3>5, ProceedOrderly
    <3>6. CASE UNCHANGED vars
      <4> USE <3>6 DEF vars, table, adm, store, manager, clients
      <4>1. TableTypes' /\ TurnTypes' /\ TablesAgree'
        BY CallsStand, TablesStand DEF Orderly, TableTypes
      <4>2. FillOrder' /\ HandlerKnows'  BY DEF Orderly, FillOrder, HandlerKnows
      <4>3. FaultHasCaller' /\ PageComes' /\ AccessFindsPage'
        BY DEF Orderly, FaultIsWaitedFor, FaultHasCaller, PageComes, AccessFindsPage,
               Present, Page
      <4>4. CleanIsSaved'
        BY DEF Orderly, CleanIsSaved, Loaded, Present, BeingWritten, Page
      <4> QED  BY <4>1, <4>2, <4>3, <4>4 DEF Orderly, FaultIsWaitedFor
    <3> QED  BY <3>1, <3>2, <3>3, <3>4, <3>5, <3>6 DEF Next
  <2> QED  BY <1>2, <2>1, DisturbedStays
<1> QED  BY <1>1, <1>2 DEF OrderlyInv

LEMMA OrderlyHolds == Spec => []OrderlyInv
  BY OrderlyInit, OrderlyStep, PTL DEF Spec

\* For any number of clients that take turns, any size of the memory and any
\* replacement algorithm: the two directions of the table agree, what is not
\* DIRTY equals its copy in the page file, and an access finds its page
\* (probe/mmanage.c:213-293, vmaccess.c:50-107).
THEOREM TurnsAreSafe == Spec => []OrderlyUseIsSafe
<1>1. OrderlyInv => OrderlyUseIsSafe
  BY DEF OrderlyInv, Orderly, OrderlyUseIsSafe, TablesAgree, CleanIsSaved,
         FaultIsWaitedFor, AccessFindsPage
<1> QED  BY <1>1, OrderlyHolds, PTL

-----------------------------------------------------------------------------
(* The array that clients see who take turns *)

\* What a client's call looks like from outside: it is there until it happens.
Outside(c) == IF Happened(c) THEN Flat!NoRequest
              ELSE [op |-> request[c].op, addr |-> request[c].page,
                    val |-> request[c].val]

LEMMA RequestOutside ==
  /\ FlatRequest = [c \in Clients |-> Outside(c)]
  /\ FlatRequest' = [c \in Clients |-> Outside(c)']
<1>1. FlatRequest = [c \in Clients |-> Outside(c)]
  BY DEF FlatRequest, Outside, Flat!NoRequest
<1>2. FlatRequest' = [c \in Clients |-> Outside(c)']
  BY DEF FlatRequest, Outside, Flat!NoRequest, Happened
<1> QED  BY <1>1, <1>2

\* A client that goes on and has made its call happen neither before nor now,
\* or both.
LEMMA RequestStands ==
  ASSUME TokenInv, NEW c \in Clients, NEW at, pc' = [pc EXCEPT ![c] = at],
         request' = request,
         Happened(c) <=> at = "post" \/ (at = "mark" /\ request[c].op = "write")
  PROVE  FlatRequest' = FlatRequest
<1>1. \A d \in Clients : Happened(d)' <=> Happened(d)
  BY DEF Happened, TokenInv, TokenTypes
<1>2. \A d \in Clients : Outside(d)' = Outside(d)  BY <1>1 DEF Outside, Flat!NoRequest
<1> QED  BY <1>2, RequestOutside

LEMMA InitIsFlat == Init => Flat!Init
<1> SUFFICES ASSUME Init PROVE Flat!Init  OBVIOUS
<1>1. FlatView \in [Pages -> Values]
  BY ProbeAssumption DEF Init, FlatView, Loaded, Present
<1>2. \A c \in Clients : Outside(c) = Flat!NoRequest
  BY DEF Init, Outside, Happened, NoRequest, Flat!NoRequest
<1>3. result = [c \in Clients |-> VOID_IDX]  BY DEF Init
<1> QED  BY <1>1, <1>2, <1>3, RequestOutside DEF Flat!Init

LEMMA BeginIsInvoke ==
  ASSUME TokenInv, Orderly, NEW c \in Clients, BeginAccess(c), ~disturbed'
  PROVE  Flat!Invoke(c)
<1>1. PICK r \in Calls : /\ pc[c] = "idle" /\ request' = [request EXCEPT ![c] = r]
                         /\ result' = [result EXCEPT ![c] = VOID_IDX]
                         /\ pc' = [pc EXCEPT ![c] = "lock"]
  BY DEF BeginAccess, Goto
<1>2. FlatView' = FlatView
  <2>1. UNCHANGED <<table, store, mm>>  BY DEF BeginAccess, manager
  <2>2. \A d \in Clients : pc[d] = "idle"  BY DEF BeginAccess
  <2>3. mm \in {"pause", "gone"}
    BY <2>2, Zenon DEF Orderly, FaultIsWaitedFor, FaultHasCaller
  <2> QED  BY <2>1, <2>3, ViewStands DEF table, store, Loaded, Present
<1> DEFINE flat == [op |-> r.op, addr |-> r.page, val |-> r.val]
<1>3. flat \in Flat!Reads \union Flat!Writes
  BY DEF Calls, Flat!Reads, Flat!Writes
<1>4. Outside(c) = Flat!NoRequest /\ request[c] = NoRequest
  BY <1>1 DEF Orderly, TurnTypes, Outside, Happened, NoRequest, Flat!NoRequest
<1>5. Outside(c)' = flat
  BY <1>1 DEF Orderly, TurnTypes, TokenInv, TokenTypes, Outside, Happened
<1>6. ASSUME NEW d \in Clients, d # c PROVE Outside(d)' = Outside(d)
  BY <1>1, <1>6
     DEF Orderly, TurnTypes, TokenInv, TokenTypes, Outside, Happened, Flat!NoRequest
<1>7. FlatRequest' = [FlatRequest EXCEPT ![c] = flat] /\ FlatRequest[c] = Flat!NoRequest
  BY <1>4, <1>5, <1>6, RequestOutside
<1> QED  BY <1>1, <1>2, <1>3, <1>7 DEF Flat!Invoke

\* The transfer is the moment at which a call happens.
LEMMA TransferHappens ==
  ASSUME TokenInv, Orderly, NEW c \in Clients, Transfer(c)
  PROVE  Flat!Read(c) \/ Flat!Write(c)
<1> DEFINE r == request[c]
           f == frame[r.page]
           at == IF r.op = "read" THEN "post" ELSE "mark"
<1>1. /\ pc[c] = "transfer" /\ pc' = [pc EXCEPT ![c] = at]
      /\ UNCHANGED <<flags, frame, req_pageno, pagefile, mm, request>>
  BY DEF Transfer, Goto, table, manager
<1>2. /\ r.page \in Pages /\ Present(r.page) /\ r.op \in {"read", "write"}
      /\ r \in Calls /\ f \in Frames
  BY <1>1, CallerKnown
     DEF Page, Orderly, FaultIsWaitedFor, AccessFindsPage, TablesAgree, TableTypes
<1>3. mm \in {"pause", "gone"}  BY <1>1, ManagerRests DEF Holding
<1>4. \A p \in Pages : (Loaded(p)' <=> Present(p)) /\ (Loaded(p) <=> Present(p))
  BY <1>1, <1>3 DEF Loaded, Present
<1>5. FlatView[r.page] = data[f]  BY <1>2, <1>4 DEF FlatView
<1>6. /\ FlatRequest[c].op = r.op /\ FlatRequest[c].addr = r.page
      /\ FlatRequest[c].val = r.val
  BY <1>1, RequestOutside DEF Outside, Happened
<1>7. FlatRequest' = [FlatRequest EXCEPT ![c] = Flat!NoRequest]
  <2>1. Outside(c)' = Flat!NoRequest
    BY <1>1, <1>2 DEF Outside, Happened, TokenInv, TokenTypes, Flat!NoRequest
  <2>2. ASSUME NEW d \in Clients, d # c PROVE Outside(d)' = Outside(d)
    BY <1>1, <2>2 DEF Outside, Happened, TokenInv, TokenTypes, Flat!NoRequest
  <2> QED  BY <2>1, <2>2, RequestOutside
<1>8. CASE r.op = "read"
  <2>1. data' = data /\ result' = [result EXCEPT ![c] = data[f]]
    BY <1>2, <1>8 DEF Transfer
  <2>2. FlatView' = FlatView  BY <1>1, <1>4, <2>1, ViewStands
  <2> QED  BY <1>5, <1>6, <1>7, <1>8, <2>1, <2>2 DEF Flat!Read
<1>9. CASE r.op = "write"
  <2>1. data' = [data EXCEPT ![f] = r.val] /\ result' = result
    BY <1>2, <1>9 DEF Transfer
  <2>2. ASSUME NEW p \in Pages
        PROVE  FlatView'[p] = IF p = r.page THEN r.val ELSE FlatView[p]
    <3>1. /\ FlatView[p] = IF Present(p) THEN data[frame[p]] ELSE pagefile[p]
          /\ FlatView'[p] = IF Present(p) THEN data'[frame[p]] ELSE pagefile[p]
      BY <1>1, <1>4 DEF FlatView
    <3>2. CASE p = r.page  BY <1>2, <2>1, <3>1, <3>2 DEF Orderly, TableTypes
    <3>3. CASE p # r.page /\ Present(p)
      <4>1. frame[p] \in Frames /\ frame[p] # f  BY <1>2, <3>3, FramesDiffer
      <4> QED  BY <2>1, <3>1, <3>3, <4>1 DEF Orderly, TableTypes
    <3>4. CASE p # r.page /\ ~Present(p)  BY <3>1, <3>4
    <3> QED  BY <3>2, <3>3, <3>4
  <2>3. FlatView' = [FlatView EXCEPT ![r.page] = r.val]  BY <2>2 DEF FlatView
  <2> QED  BY <1>6, <1>7, <1>9, <2>1, <2>3 DEF Flat!Write
<1> QED  BY <1>2, <1>8, <1>9

\* The rest of a call is not seen.
LEMMA RestIsUnseen ==
  ASSUME TokenInv, Orderly, NEW c \in Clients,
         \/ Lock(c) \/ CheckPresent(c) \/ RaiseFault(c) \/ AwaitPage(c)
         \/ Mark(c) \/ Unlock(c)
  PROVE  UNCHANGED Flat!memvars
<1> USE DEF Goto, table, store, manager
<1>1. UNCHANGED <<frame, data, pagefile, mm, req_pageno, result>>
  BY DEF Lock, CheckPresent, RaiseFault, AwaitPage, Mark, Unlock
<1>2. \A p \in Pages : Present(p)' <=> Present(p)
  <2>1. CASE Mark(c)  BY <2>1 DEF Mark, Present, Orderly, TableTypes
  <2>2. CASE ~Mark(c)
    BY <2>2 DEF Lock, CheckPresent, RaiseFault, AwaitPage, Unlock, Present
  <2> QED  BY <2>1, <2>2
<1>3. FlatView' = FlatView  BY <1>1, <1>2, ViewStands DEF Loaded
<1>4. FlatRequest' = FlatRequest
  <2>1. CASE Lock(c)  BY <2>1, RequestStands DEF Lock, Happened
  <2>2. CASE CheckPresent(c) \/ AwaitPage(c)
    <3>1. PICK at \in {"kill", "mark", "transfer"} :
            /\ pc' = [pc EXCEPT ![c] = at] /\ (at = "mark" => request[c].op = "read")
      BY <2>2 DEF CheckPresent, AwaitPage, FirstPart
    <3>2. ~Happened(c) /\ request' = request
      BY <2>2 DEF CheckPresent, AwaitPage, Happened
    <3> QED  BY <3>1, <3>2, RequestStands
  <2>3. CASE RaiseFault(c)  BY <2>3, RequestStands DEF RaiseFault, Happened
  <2>4. CASE Mark(c)
    <3>1. request[c].op \in {"read", "write"}  BY <2>4, CallerKnown DEF Mark
    <3> QED  BY <2>4, <3>1, RequestStands DEF Mark, Happened
  <2>5. CASE Unlock(c)
    <3>1. /\ pc[c] = "post" /\ pc' = [pc EXCEPT ![c] = "idle"]
          /\ request' = [request EXCEPT ![c] = NoRequest]
      BY <2>5 DEF Unlock
    <3>2. Outside(c)' = Flat!NoRequest /\ Outside(c) = Flat!NoRequest
      BY <3>1
         DEF Outside, Happened, NoRequest, Flat!NoRequest, TokenInv, TokenTypes,
             Orderly, TurnTypes
    <3>3. ASSUME NEW d \in Clients, d # c PROVE Outside(d)' = Outside(d)
      BY <3>1, <3>3
         DEF Outside, Happened, Flat!NoRequest, TokenInv, TokenTypes, Orderly,
             TurnTypes
    <3> QED  BY <3>2, <3>3, RequestOutside
  <2> QED  BY <2>1, <2>2, <2>3, <2>4, <2>5
<1> QED  BY <1>1, <1>3, <1>4 DEF Flat!memvars

\* A step that disturbs nobody, of a memory that nobody has disturbed.
LEMMA StepIsFlat ==
  ASSUME OrderlyInv, [Next]_vars, ~disturbed'
  PROVE  [Flat!Next]_(Flat!memvars)
<1>1. TokenInv /\ Orderly  BY DisturbedStays DEF OrderlyInv
<1>2. ASSUME UNCHANGED <<pc, request>> PROVE FlatRequest' = FlatRequest
  BY <1>2 DEF FlatRequest, Happened
<1>3. CASE Fault
  BY <1>1, <1>2, <1>3, FaultOrderly DEF clients, Flat!memvars
<1>4. CASE Dump  BY <1>4 DEF Dump
<1>5. CASE Quit
  <2>1. UNCHANGED <<table, store, clients, req_pageno>> /\ mm = "pause" /\ mm' = "gone"
    BY <1>5 DEF Quit
  <2>2. FlatView' = FlatView
    BY <2>1, ViewStands DEF table, store, Loaded, Present
  <2> QED  BY <1>2, <2>1, <2>2 DEF clients, Flat!memvars
<1>6. ASSUME NEW c \in Clients, BeginAccess(c) PROVE Flat!Next
  BY <1>1, <1>6, BeginIsInvoke DEF Flat!Next
<1>7. ASSUME NEW c \in Clients, Proceed(c) PROVE [Flat!Next]_(Flat!memvars)
  BY <1>1, <1>7, TransferHappens, RestIsUnseen DEF Proceed, Flat!Next
<1>8. CASE UNCHANGED vars
  <2>1. FlatView' = FlatView
    BY <1>8, ViewStands DEF vars, table, store, manager, Loaded, Present
  <2> QED  BY <1>2, <1>8, <2>1 DEF vars, clients, Flat!memvars
<1> QED  BY <1>3, <1>4, <1>5, <1>6, <1>7, <1>8 DEF Next

\* For any number of clients that take turns, the memory of probe/ is an
\* ordinary array, although a page moves between its frame and the page file and
\* a write marks its page only after the data (probe/vmaccess.c:85-107).
THEOREM TurnsSeeAnArray == Spec => FlatUntilDisturbed
<1>1. OrderlyInv /\ [Next]_vars => [disturbed' \/ Flat!Next]_(Flat!memvars)
  BY StepIsFlat
<1> QED  BY <1>1, InitIsFlat, OrderlyHolds, PTL DEF Spec, FlatUntilDisturbed
=============================================================================
