---------------------------- MODULE PagingProofs ----------------------------
EXTENDS PagingProperties, TLAPS, FiniteSetTheorems

\* Multiplication by a natural number is monotonic.
LEMMA TimesMonotonic ==
  ASSUME NEW k \in Nat, NEW x \in Nat, NEW y \in Nat, y >= x
  PROVE  k * y >= k * x
<1> DEFINE d == y - x
<1>1. d \in Nat /\ y = x + d
  OBVIOUS
<1> HIDE DEF d
<1>2. k * y = k * x + k * d
  BY <1>1
<1>3. k * d >= 0 /\ k * d \in Int /\ k * x \in Int
  BY <1>1
<1> QED BY <1>2, <1>3

LEMMA AddressSplit ==
  ASSUME NEW a \in Addresses
  PROVE  /\ PageOf(a) \in Pages /\ OffsetOf(a) \in Offsets
         /\ a = PageSize * PageOf(a) + OffsetOf(a)
<1> DEFINE q == a \div PageSize
           r == a % PageSize
<1>1. PageSize \in Nat /\ PageSize > 0 /\ NPages \in Nat /\ NPages > 0
  BY SizesAssumption
<1>2. a \in Nat /\ a < NPages * PageSize
  BY <1>1 DEF Addresses
<1>3. q \in Nat /\ r \in 0 .. PageSize - 1 /\ a = PageSize * q + r
  BY <1>1, <1>2
<1>4. q < NPages
  <2> SUFFICES ASSUME q >= NPages PROVE FALSE
    BY <1>1, <1>3
  <2>1. PageSize * q >= PageSize * NPages
    BY <1>1, <1>3, TimesMonotonic
  <2> QED BY <2>1, <1>1, <1>2, <1>3
<1> QED BY <1>1, <1>3, <1>4 DEF PageOf, OffsetOf, Pages, Offsets

LEMMA RotatedInFrames ==
  ASSUME NEW i \in Frames
  PROVE  Rotated(i) \in Frames
BY SizesAssumption DEF Frames, Rotated

LEMMA VoidIsNoPage == VOID_IDX \notin Pages /\ VOID_IDX \notin Frames
BY SizesAssumption DEF VOID_IDX, Pages, Frames

LEMMA CallsTyped ==
  ASSUME NEW r \in Calls
  PROVE  /\ PageOf(r.addr) \in Pages
         /\ OffsetOf(r.addr) \in Offsets
         /\ r.addr \in Addresses
         /\ r.op \in {"read", "write"}
         /\ r.op = "write" => r.val \in Values
         /\ r # NoRequest
<1>1. /\ r.addr \in Addresses
      /\ r.op \in Ops
      /\ r.op = "write" => r.val \in Values
  BY DEF Calls
<1>2. r.op \in {"read", "write"}
  BY <1>1, ClientsAssumption
<1>3. r # NoRequest
  BY <1>2 DEF NoRequest
<1> QED BY <1>1, <1>2, <1>3, AddressSplit

-----------------------------------------------------------------------------

\* The initial state of vmem_init has the types and the ranges.
LEMMA InitTypeInv == Init => TypeInv
<1> SUFFICES ASSUME Init PROVE TypeInv
  OBVIOUS
<1>1. /\ size \in 0 .. NFrames /\ next_alloc_idx \in Frames
      /\ pf_count \in 0 .. CountMod - 1
  BY SizesAssumption, BuildAssumption DEF Init, Frames
<1>2. pagefile \in [Pages -> [Offsets -> Values \union {VOID_IDX}]]
  BY DEF Init, PageFiles
<1>3. /\ flags \in [Pages -> SUBSET PTF]
      /\ frame \in [Pages -> Frames \union {VOID_IDX}]
      /\ framepage \in [Frames -> Pages \union {VOID_IDX}]
      /\ data \in [Frames -> [Offsets -> Values \union {VOID_IDX}]]
  BY DEF Init
<1>4. TypeOK
  BY <1>1, <1>2, <1>3 DEF Init, InitialSema, TypeOK
<1>5. LocalsInRange
  BY DEF Init, LocalsInRange, ServesFault
<1> QED BY <1>4, <1>5 DEF TypeInv

LEMMA ClientTypeInv ==
  ASSUME TypeInv, NEW c \in Clients, BeginAccess(c) \/ Proceed(c)
  PROVE  TypeInv'
<1> USE DEF TypeInv, LocalsInRange, ServesFault, table, counts, store,
            manager, clients
<1>1. CASE BeginAccess(c)
  <2>1. PICK r \in Calls : /\ request' = [request EXCEPT ![c] = r]
                          /\ req_pageno' = PageOf(r.addr)
    BY <1>1 DEF BeginAccess
  <2>2. req_pageno' \in Pages
    BY <2>1, CallsTyped
  <2> QED BY <1>1, <2>1, <2>2 DEF BeginAccess, TypeOK
<1>2. CASE CheckPresent(c)
  BY <1>2 DEF CheckPresent, TypeOK
<1>3. CASE RaiseFault(c)
  BY <1>3 DEF RaiseFault, TypeOK
<1>4. CASE AwaitPage(c)
  BY <1>4 DEF AwaitPage, TypeOK
<1>5. CASE Touch(c)
  <2>1. Page(c) \in Pages
    BY <1>5, CallsTyped DEF Touch, Page
  <2>2. flags' \in [Pages -> SUBSET PTF]
    BY <1>5, <2>1 DEF Touch, TypeOK, MarkUsed, MarkChanged, PTF
  <2> QED BY <1>5, <2>2 DEF Touch, TypeOK
<1>6. CASE Transfer(c)
  <2>1. /\ request[c] \in Calls
        /\ Page(c) \in Pages
        /\ OffsetOf(request[c].addr) \in Offsets
        /\ request[c].op = "write" => request[c].val \in Values
    BY <1>6, CallsTyped DEF Transfer, Page
  <2>2. data' \in [Frames -> [Offsets -> Values \union {VOID_IDX}]]
    BY <1>6, <2>1 DEF Transfer, TypeOK
  <2>3. result' \in [Clients -> Values \union {VOID_IDX}]
    BY <1>6, <2>1 DEF Transfer, TypeOK
  <2> QED BY <1>6, <2>2, <2>3 DEF Transfer, TypeOK
<1> QED BY <1>1, <1>2, <1>3, <1>4, <1>5, <1>6 DEF Proceed

LEMMA ManagerTypeInv ==
  ASSUME TypeInv, ManagerStep
  PROVE  TypeInv'
<1> USE DEF TypeInv, LocalsInRange, ServesFault, table, counts, store,
            manager, clients
<1>1. CASE EnterFault
  <2>1. pf_count' \in 0 .. CountMod - 1
    BY <1>1, BuildAssumption DEF EnterFault, TypeOK
  <2> QED BY <1>1, <2>1 DEF EnterFault, TypeOK
<1>2. CASE TakeFreeFrame
  <2>1. size' \in 0 .. NFrames /\ new_frame' \in Frames
    BY <1>2, SizesAssumption
    DEF TakeFreeFrame, TypeOK, FramesAreOccupied, Frames
  <2> QED BY <1>2, <2>1 DEF TakeFreeFrame, TypeOK
<1>3. CASE PassFrame
  <2>1. next_alloc_idx' \in Frames
    BY <1>3, RotatedInFrames DEF PassFrame, TypeOK
  <2>2. flags' \in [Pages -> SUBSET PTF]
    BY <1>3 DEF PassFrame, TypeOK, SpendChance
  <2> QED BY <1>3, <2>1, <2>2 DEF PassFrame, TypeOK
<1>4. CASE TakeVictim
  <2>1. next_alloc_idx' \in Frames
    BY <1>4, RotatedInFrames DEF TakeVictim, TypeOK
  <2> QED BY <1>4, <2>1 DEF TakeVictim, TypeOK
<1>5. CASE StorePage
  <2>1. pagefile' \in [Pages -> [Offsets -> Values \union {VOID_IDX}]]
    BY <1>5 DEF StorePage, TypeOK
  <2> QED BY <1>5, <2>1 DEF StorePage, TypeOK
<1>6. CASE UpdatePt
  <2>1. req_pageno \in Pages /\ new_frame \in Frames
    BY <1>6 DEF UpdatePt
  <2>2. flags' \in [Pages -> SUBSET PTF]
    BY <1>6, <2>1 DEF UpdatePt, TypeOK, UnloadFlags, PTF
  <2>3. frame' \in [Pages -> Frames \union {VOID_IDX}]
    BY <1>6, <2>1 DEF UpdatePt, TypeOK, UnloadFrames
  <2>4. framepage' \in [Frames -> Pages \union {VOID_IDX}]
    BY <1>6, <2>1 DEF UpdatePt, TypeOK
  <2>5. pf_count' \in 0 .. CountMod - 1
    BY <1>6, BuildAssumption DEF UpdatePt, TypeOK
  <2> QED BY <1>6, <2>1, <2>2, <2>3, <2>4, <2>5 DEF UpdatePt, TypeOK
<1>7. CASE FetchPage
  <2>1. data' \in [Frames -> [Offsets -> Values \union {VOID_IDX}]]
    BY <1>7 DEF FetchPage, TypeOK
  <2> QED BY <1>7, <2>1 DEF FetchPage, TypeOK
<1>8. CASE PostSema
  BY <1>8 DEF PostSema, TypeOK
<1>9. CASE LeaveFault
  BY <1>9 DEF LeaveFault, TypeOK
<1> QED BY <1>1, <1>2, <1>3, <1>4, <1>5, <1>6, <1>7, <1>8, <1>9
        DEF ManagerStep

LEMMA StepTypeInv == TypeInv /\ [Next]_vars => TypeInv'
<1> SUFFICES ASSUME TypeInv, [Next]_vars PROVE TypeInv'
  OBVIOUS
<1>1. CASE UNCHANGED vars
  BY <1>1 DEF vars, table, counts, store, manager, clients, TypeInv, TypeOK,
              LocalsInRange, ServesFault
<1>2. CASE Next
  BY <1>2, ClientTypeInv, ManagerTypeInv DEF Next
<1> QED BY <1>1, <1>2

\* For every number of clients, pages, frames and ints per page, and for every
\* algorithm, the variables keep their types and the indices their ranges.
THEOREM TypeCorrect == Spec => []TypeOK
<1>1. TypeInv => TypeOK
  BY DEF TypeInv
<1> QED BY <1>1, InitTypeInv, StepTypeInv, PTL DEF Spec

-----------------------------------------------------------------------------
(* One client: the page tables, the page file and the handshake. *)

LEMMA InitPagingInv == Init => PagingInv
<1> SUFFICES ASSUME Init PROVE PagingInv
  OBVIOUS
<1>1. TypeInv
  BY InitTypeInv
<1>2. NoWildAccess /\ TablesInverse /\ CleanPagesMatchPagefile
  BY DEF Init, NoWildAccess, TablesInverse, CleanPagesMatchPagefile, Loaded,
         Present
<1>3. FillOrder
  BY SizesAssumption DEF Init, FillOrder, Frames
<1>4. CountAtFill
  BY SizesAssumption DEF Init, CountAtFill
<1>5. VictimIsSaved /\ WriteIsMarked /\ Handshake /\ ServedPageIsPresent
  BY DEF Init, InitialSema, VictimIsSaved, WriteIsMarked, Handshake, Quiet, ServesFault,
         ServedPageIsPresent
<1> QED BY <1>1, <1>2, <1>3, <1>4, <1>5 DEF PagingInv

\* A step of the client that changes neither the tables nor the data.
LEMMA ClientHandshakeInv ==
  ASSUME NEW c \in Clients, Clients = {c}, PagingInv, TypeInv',
         \/ BeginAccess(c) \/ CheckPresent(c)
         \/ RaiseFault(c) \/ AwaitPage(c)
  PROVE  PagingInv'
<1> USE DEF PagingInv, table, counts, store, manager
<1>1. UNCHANGED <<table, counts, store, manager, wild>>
  BY DEF BeginAccess, CheckPresent, RaiseFault, AwaitPage
<1>2. NoWildAccess' /\ TablesInverse' /\ CleanPagesMatchPagefile'
  BY <1>1 DEF NoWildAccess, TablesInverse, CleanPagesMatchPagefile, Loaded,
              Present
<1>3. FillOrder' /\ CountAtFill' /\ VictimIsSaved'
  BY <1>1 DEF FillOrder, CountAtFill, VictimIsSaved, FramesAreOccupied
<1>4. CASE BeginAccess(c)
  <2>1. pc[c] = "idle" /\ pc' = [pc EXCEPT ![c] = "check"]
    BY <1>4 DEF BeginAccess
  <2>2. req_pageno' = Page(c)' /\ UNCHANGED <<sema, usr1>>
    BY <1>4 DEF BeginAccess, Page, TypeInv, TypeOK
  <2>3. pc'[c] = "check"
    BY <2>1 DEF TypeInv, TypeOK
  <2>4. Handshake'
    BY <1>1, <2>1, <2>2, <2>3 DEF Handshake, Quiet, ServesFault
  <2>5. WriteIsMarked' /\ ServedPageIsPresent'
    BY <2>3 DEF WriteIsMarked, ServedPageIsPresent
  <2> QED BY <1>2, <1>3, <2>4, <2>5
<1>5. CASE CheckPresent(c)
  BY <1>1, <1>2, <1>3, <1>5
  DEF CheckPresent, TypeInv, TypeOK, Handshake, Quiet, ServesFault, Present,
      Page, WriteIsMarked, ServedPageIsPresent
<1>6. CASE RaiseFault(c)
  BY <1>1, <1>2, <1>3, <1>6
  DEF RaiseFault, TypeInv, TypeOK, Handshake, Quiet, ServesFault, Present,
      Page, WriteIsMarked, ServedPageIsPresent
<1>7. CASE AwaitPage(c)
  BY <1>1, <1>2, <1>3, <1>7
  DEF AwaitPage, TypeInv, TypeOK, Handshake, Quiet, ServesFault, Present,
      Page, WriteIsMarked, ServedPageIsPresent
<1> QED BY <1>4, <1>5, <1>6, <1>7

\* countUsed and the CHANGED mark only add bits to a page that is present.
LEMMA TouchInv ==
  ASSUME NEW c \in Clients, Clients = {c}, PagingInv, TypeInv', Touch(c)
  PROVE  PagingInv'
<1> USE DEF PagingInv, Touch, counts, store, manager
<1>1. Page(c) \in Pages
  BY CallsTyped DEF TypeInv, LocalsInRange, Page
<1>2. Present(Page(c)) /\ Quiet
  BY DEF ServedPageIsPresent, Handshake
<1>3. /\ flags' = [flags EXCEPT ![Page(c)] =
                      MarkUsed(@) \union MarkChanged(c)]
      /\ \A p \in Pages : flags[p] \subseteq flags'[p]
      /\ \A p \in Pages : p # Page(c) => flags'[p] = flags[p]
      /\ \A p \in Pages : Present(p)' <=> Present(p)
  BY <1>1, <1>2 DEF TypeInv, TypeOK, MarkUsed, Present
<1>4. NoWildAccess' /\ FillOrder' /\ CountAtFill' /\ VictimIsSaved'
  BY DEF NoWildAccess, FillOrder, CountAtFill, VictimIsSaved,
         FramesAreOccupied
<1>5. TablesInverse'
  BY <1>1, <1>2, <1>3 DEF TablesInverse, TypeInv, TypeOK
<1>6. CleanPagesMatchPagefile'
  BY <1>3 DEF CleanPagesMatchPagefile, Loaded
<1>7. pc'[c] = "transfer" /\ Page(c)' = Page(c)
  BY DEF TypeInv, TypeOK, Page
<1>8. WriteIsMarked'
  BY <1>1, <1>3, <1>7 DEF WriteIsMarked, MarkChanged, TypeInv, TypeOK
<1>9. Handshake' /\ ServedPageIsPresent'
  BY <1>1, <1>2, <1>3, <1>7
  DEF Handshake, Quiet, ServesFault, ServedPageIsPresent
<1> QED BY <1>4, <1>5, <1>6, <1>8, <1>9

\* The data is reached through a valid frame, and only a marked page's data
\* changes.
LEMMA TransferInv ==
  ASSUME NEW c \in Clients, Clients = {c}, PagingInv, TypeInv', Transfer(c)
  PROVE  PagingInv'
<1> USE DEF PagingInv, Transfer, table, counts, manager
<1>1. Page(c) \in Pages
  BY CallsTyped DEF TypeInv, LocalsInRange, Page
<1>2. Present(Page(c)) /\ Quiet /\ frame[Page(c)] \in Frames
  BY <1>1 DEF ServedPageIsPresent, Handshake, TablesInverse
<1>3. NoWildAccess' /\ TablesInverse' /\ FillOrder' /\ CountAtFill'
  BY <1>2 DEF NoWildAccess, TablesInverse, FillOrder, CountAtFill,
              FramesAreOccupied, Present
<1>4. CleanPagesMatchPagefile'
  <2> SUFFICES ASSUME NEW p \in Pages, Loaded(p), "CHANGED" \notin flags[p]
               PROVE  data'[frame[p]] = pagefile[p]
    BY DEF CleanPagesMatchPagefile, Loaded, Present
  <2>1. CASE p = Page(c)
    BY <2>1, <1>1 DEF WriteIsMarked, CleanPagesMatchPagefile
  <2>2. CASE p # Page(c)
    <3>1. frame[p] # frame[Page(c)]
      BY <1>1, <1>2, <2>2 DEF TablesInverse, Loaded
    <3>2. data'[frame[p]] = data[frame[p]]
      BY <3>1 DEF TypeInv, TypeOK
    <3> QED BY <3>2 DEF CleanPagesMatchPagefile
  <2> QED BY <2>1, <2>2
<1>5. pc'[c] = "idle"
  BY DEF TypeInv, TypeOK
<1>6. VictimIsSaved' /\ WriteIsMarked' /\ Handshake' /\ ServedPageIsPresent'
  BY <1>2, <1>5 DEF VictimIsSaved, WriteIsMarked, Handshake, Quiet,
                    ServesFault, ServedPageIsPresent
<1> QED BY <1>3, <1>4, <1>6

\* While the manager has a signal to handle or is handling one, the client
\* waits for it.
LEMMA ManagerWorksForWaiting ==
  ASSUME NEW c \in Clients, PagingInv, usr1 \/ ServesFault
  PROVE  /\ pc[c] = "wait" /\ sema = 0
         /\ req_pageno = Page(c) /\ Page(c) \in Pages
         /\ ServesFault => ~usr1 /\ req_page = Page(c)
<1>1. pc[c] = "wait"
  BY DEF PagingInv, Handshake, Quiet
<1> QED BY <1>1 DEF PagingInv, Handshake, TypeInv, LocalsInRange, ServesFault

\* EnterFault, PostSema and LeaveFault leave tables, frames and file alone.
LEMMA HandlerFrameInv ==
  ASSUME NEW c \in Clients, Clients = {c}, PagingInv, TypeInv',
         EnterFault \/ PostSema \/ LeaveFault
  PROVE  PagingInv'
<1> USE DEF PagingInv, table, store, clients
<1>1. UNCHANGED <<table, size, next_alloc_idx, store, clients, req_pageno, wild>>
  BY DEF EnterFault, PostSema, LeaveFault, counts
<1>2. NoWildAccess' /\ TablesInverse' /\ WriteIsMarked' /\ ServedPageIsPresent'
  BY <1>1 DEF NoWildAccess, TablesInverse, WriteIsMarked, ServedPageIsPresent,
              Present, Page
<1>3. CleanPagesMatchPagefile'
  <2>1. mm # "fetch" /\ mm' # "fetch"
    BY DEF EnterFault, PostSema, LeaveFault
  <2> QED BY <1>1, <2>1 DEF CleanPagesMatchPagefile, Loaded, Present
<1>4. /\ mm \notin {"evict", "remap"}
      /\ mm' \notin {"evict", "remap"}
  BY DEF EnterFault, PostSema, LeaveFault
<1>5. FillOrder' /\ VictimIsSaved'
  BY <1>1, <1>4 DEF FillOrder, VictimIsSaved, FramesAreOccupied
<1>6. CASE EnterFault
  <2>1. pf_count = 0 => pf_count' = 1
    BY <1>6, BuildAssumption DEF EnterFault
  <2>2. CountAtFill'
    BY <1>1, <1>6, <2>1 DEF EnterFault, CountAtFill, FramesAreOccupied
  <2>3. Handshake'
    BY <1>1, <1>6, ManagerWorksForWaiting
    DEF EnterFault, Handshake, ServesFault, Present, Page
  <2> QED BY <1>2, <1>3, <1>5, <2>2, <2>3
<1>7. CASE PostSema
  <2>1. CountAtFill'
    BY <1>1, <1>7 DEF PostSema, CountAtFill, FramesAreOccupied, counts
  <2>2. Handshake'
    BY <1>1, <1>7, ManagerWorksForWaiting
    DEF PostSema, Handshake, ServesFault, Present, Page
  <2> QED BY <1>2, <1>3, <1>5, <2>1, <2>2
<1>8. CASE LeaveFault
  <2>1. CountAtFill'
    BY <1>1, <1>8 DEF LeaveFault, CountAtFill, FramesAreOccupied, counts
  <2>2. Handshake'
    BY <1>1, <1>8 DEF LeaveFault, Handshake, Quiet, ServesFault, Present, Page
  <2> QED BY <1>2, <1>3, <1>5, <2>1, <2>2
<1> QED BY <1>6, <1>7, <1>8

\* find_remove_frame, when a frame is still free: it is the next in order.
LEMMA TakeFreeFrameInv ==
  ASSUME NEW c \in Clients, Clients = {c}, PagingInv, TypeInv', TakeFreeFrame
  PROVE  PagingInv'
<1> USE DEF PagingInv, TakeFreeFrame, table, store, clients
<1>1. NoWildAccess' /\ TablesInverse' /\ WriteIsMarked' /\ ServedPageIsPresent'
  BY DEF NoWildAccess, TablesInverse, WriteIsMarked, ServedPageIsPresent,
         Present, Page
<1>2. CleanPagesMatchPagefile' /\ VictimIsSaved'
  BY DEF CleanPagesMatchPagefile, VictimIsSaved, Loaded, Present
<1>3. size \in Frames /\ framepage[size] = VOID_IDX
  BY SizesAssumption
  DEF FillOrder, TypeInv, TypeOK, Frames, FramesAreOccupied
<1>4. FillOrder'
  BY <1>3 DEF FillOrder, TypeInv, TypeOK, Frames, FramesAreOccupied
<1>5. CountAtFill'
  BY <1>3 DEF CountAtFill, FramesAreOccupied
<1>6. Handshake'
  BY ManagerWorksForWaiting DEF Handshake, ServesFault, Present, Page
<1> QED BY <1>1, <1>2, <1>4, <1>5, <1>6

\* A clock passes a page: it loses a used bit and nothing else.
LEMMA PassFrameInv ==
  ASSUME NEW c \in Clients, Clients = {c}, PagingInv, TypeInv', PassFrame
  PROVE  PagingInv'
<1> USE DEF PagingInv, PassFrame, manager, store, clients
<1> DEFINE passed == framepage[next_alloc_idx]
<1>1. next_alloc_idx \in Frames /\ next_alloc_idx < size
  BY SizesAssumption DEF TypeInv, TypeOK, FramesAreOccupied, Frames
<1>2. passed \in Pages /\ Present(passed)
  BY <1>1 DEF FillOrder, TablesInverse, TypeInv, TypeOK
<1>3. /\ \A p \in Pages : p # passed => flags'[p] = flags[p]
      /\ "CHANGED" \in flags'[passed] <=> "CHANGED" \in flags[passed]
      /\ "PRESENT" \in flags'[passed]
  BY <1>2 DEF TypeInv, TypeOK, SpendChance, Present
<1>4. \A p \in Pages : /\ Present(p)' <=> Present(p)
                       /\ "CHANGED" \in flags'[p] <=> "CHANGED" \in flags[p]
  BY <1>2, <1>3 DEF Present
<1>5. NoWildAccess' /\ FillOrder' /\ CountAtFill' /\ VictimIsSaved'
  BY DEF NoWildAccess, FillOrder, CountAtFill, VictimIsSaved,
         FramesAreOccupied
<1>6. TablesInverse'
  BY <1>2, <1>3, <1>4 DEF TablesInverse, TypeInv, TypeOK
<1>7. CleanPagesMatchPagefile'
  BY <1>4 DEF CleanPagesMatchPagefile, Loaded
<1>8. pc[c] = "wait" /\ pc'[c] = "wait" /\ Page(c)' = Page(c) /\ Page(c) \in Pages
  BY ManagerWorksForWaiting DEF ServesFault, Page
<1>9. WriteIsMarked' /\ ServedPageIsPresent'
  BY <1>8 DEF WriteIsMarked, ServedPageIsPresent
<1>10. Handshake'
  BY <1>4, <1>8 DEF Handshake, ServesFault
<1> QED BY <1>5, <1>6, <1>7, <1>9, <1>10

\* The frame under the hand becomes the victim: it holds a page, as all do.
LEMMA TakeVictimInv ==
  ASSUME NEW c \in Clients, Clients = {c}, PagingInv, TypeInv', TakeVictim
  PROVE  PagingInv'
<1> USE DEF PagingInv, TakeVictim, table, store, clients
<1>1. NoWildAccess' /\ TablesInverse' /\ WriteIsMarked' /\ ServedPageIsPresent'
  BY DEF NoWildAccess, TablesInverse, WriteIsMarked, ServedPageIsPresent,
         Present, Page
<1>2. CleanPagesMatchPagefile' /\ VictimIsSaved'
  BY DEF CleanPagesMatchPagefile, VictimIsSaved, Loaded, Present
<1>3. next_alloc_idx \in Frames /\ next_alloc_idx < size
  BY SizesAssumption DEF TypeInv, TypeOK, FramesAreOccupied, Frames
<1>4. framepage[next_alloc_idx] # VOID_IDX
  BY <1>3 DEF FillOrder
<1>5. FillOrder' /\ CountAtFill'
  BY <1>3, <1>4 DEF FillOrder, CountAtFill, FramesAreOccupied
<1>6. Handshake'
  BY ManagerWorksForWaiting DEF Handshake, ServesFault, Present, Page
<1> QED BY <1>1, <1>2, <1>5, <1>6

\* store_page: a victim that changed is written back, one that did not equals
\* its copy already, and entries[-1] is never taken for a changed page.
LEMMA StorePageInv ==
  ASSUME NEW c \in Clients, Clients = {c}, PagingInv, TypeInv', StorePage
  PROVE  PagingInv'
<1> USE DEF PagingInv, table, counts, clients
<1> DEFINE old == framepage[new_frame]
<1>1. /\ mm = "evict" /\ mm' = "remap" /\ new_frame \in Frames
      /\ old \in Pages \union {VOID_IDX}
      /\ UNCHANGED <<table, counts, data, req_page, new_frame, clients,
                     req_pageno, sema, usr1>>
  BY DEF StorePage, TypeInv, TypeOK, LocalsInRange
<1>2. old = VOID_IDX => ~IsChanged(old)
  BY <1>1 DEF CountAtFill, IsChanged
<1>3. old # VOID_IDX => /\ old \in Pages /\ Present(old) /\ FramesAreOccupied
                        /\ frame[old] = new_frame
  BY <1>1 DEF TablesInverse, FillOrder
<1>4. NoWildAccess'
  BY <1>1, <1>2, <1>3 DEF StorePage, NoWildAccess
<1>5. /\ \A p \in Pages : p # old => pagefile'[p] = pagefile[p]
      /\ old # VOID_IDX => pagefile'[old] = data[new_frame]
  <2>1. CASE IsChanged(old)
    BY <2>1, <1>1, <1>2, <1>3 DEF StorePage, TypeInv, TypeOK
  <2>2. CASE ~IsChanged(old)
    <3>1. pagefile' = pagefile
      BY <2>2 DEF StorePage
    <3>2. old # VOID_IDX => data[new_frame] = pagefile[old]
      BY <2>2, <1>1, <1>3
      DEF CleanPagesMatchPagefile, Loaded, IsChanged
    <3> QED BY <3>1, <3>2
  <2> QED BY <2>1, <2>2
<1>6. CleanPagesMatchPagefile'
  <2> SUFFICES ASSUME NEW p \in Pages, Present(p), "CHANGED" \notin flags[p]
               PROVE  data[frame[p]] = pagefile'[p]
    BY <1>1 DEF CleanPagesMatchPagefile, Loaded, Present
  <2>1. CASE p = old
    BY <2>1, <1>3, <1>5, VoidIsNoPage
  <2>2. CASE p # old
    BY <2>2, <1>1, <1>5 DEF CleanPagesMatchPagefile, Loaded
  <2> QED BY <2>1, <2>2
<1>7. TablesInverse' /\ FillOrder' /\ CountAtFill'
  BY <1>1 DEF TablesInverse, FillOrder, CountAtFill, FramesAreOccupied, Present
<1>8. VictimIsSaved'
  BY <1>1, <1>5 DEF VictimIsSaved
<1>9. WriteIsMarked' /\ ServedPageIsPresent'
  BY <1>1 DEF WriteIsMarked, ServedPageIsPresent, Present, Page
<1>10. Handshake'
  BY <1>1, ManagerWorksForWaiting DEF Handshake, ServesFault, Present, Page
<1> QED BY <1>4, <1>6, <1>7, <1>8, <1>9, <1>10

\* update_pt: the old page leaves the frame and the requested one, which is
\* absent, enters it, in both directions of the table.
LEMMA UpdatePtInv ==
  ASSUME NEW c \in Clients, Clients = {c}, PagingInv, TypeInv', UpdatePt
  PROVE  PagingInv'
<1> USE DEF PagingInv, store, clients
<1> DEFINE old == framepage[new_frame]
           req == req_pageno
<1>1. /\ mm = "remap" /\ mm' = "fetch"
      /\ UNCHANGED <<size, next_alloc_idx, store, req_page, new_frame, clients,
                     req_pageno, sema, usr1, wild>>
      /\ pf_count' = IF old = VOID_IDX THEN 0 ELSE pf_count
  BY DEF UpdatePt
<1>2. /\ pc[c] = "wait" /\ ~usr1 /\ sema = 0
      /\ req = Page(c) /\ req_page = req /\ req \in Pages
      /\ ~Present(req) /\ new_frame \in Frames /\ new_frame < size
      /\ old \in Pages \union {VOID_IDX}
  BY <1>1, ManagerWorksForWaiting
  DEF ServesFault, Handshake, FillOrder, TypeInv, TypeOK, LocalsInRange
<1>3. old # VOID_IDX => old \in Pages /\ Present(old) /\ frame[old] = new_frame
  BY <1>2 DEF TablesInverse
<1>4. old # req
  BY <1>2, <1>3, VoidIsNoPage
<1>5. /\ flags'[req] = {"PRESENT"} /\ frame'[req] = new_frame
      /\ \A p \in Pages : p # req /\ p # old =>
           flags'[p] = flags[p] /\ frame'[p] = frame[p]
      /\ old # VOID_IDX => flags'[old] = {} /\ frame'[old] = VOID_IDX
  <2>1. flags[req] = {}
    BY <1>2 DEF TablesInverse
  <2> QED BY <1>2, <1>3, <1>4, <2>1
          DEF UpdatePt, UnloadFlags, UnloadFrames, TypeInv, TypeOK
<1>6. /\ framepage'[new_frame] = req
      /\ \A f \in Frames : f # new_frame => framepage'[f] = framepage[f]
  BY <1>2 DEF UpdatePt, TypeInv, TypeOK
<1>7. /\ "PRESENT" \in flags'[req]
      /\ \A p \in Pages : p # req /\ p # old => ("PRESENT" \in flags'[p] <=> Present(p))
      /\ old # VOID_IDX => "PRESENT" \notin flags'[old]
  <2>1. "PRESENT" \in flags'[req]
    BY <1>5
  <2>2. ASSUME NEW p \in Pages, p # req, p # old
        PROVE  "PRESENT" \in flags'[p] <=> Present(p)
    BY <2>2, <1>5 DEF Present
  <2>3. old # VOID_IDX => "PRESENT" \notin flags'[old]
    BY <1>5
  <2> QED BY <2>1, <2>2, <2>3
<1>8. req # VOID_IDX
  BY <1>2, VoidIsNoPage
<1>9. TablesInverse'
  <2>1. ASSUME NEW f \in Frames, framepage'[f] # VOID_IDX
        PROVE  frame'[framepage'[f]] = f /\ "PRESENT" \in flags'[framepage'[f]]
    <3>1. CASE f = new_frame
      BY <3>1, <1>5, <1>6, <1>7
    <3>2. CASE f # new_frame
      <4>1. /\ framepage'[f] = framepage[f] /\ framepage[f] \in Pages
            /\ frame[framepage[f]] = f /\ Present(framepage[f])
        BY <2>1, <3>2, <1>6 DEF TablesInverse, TypeInv, TypeOK
      <4>2. framepage[f] # old /\ framepage[f] # req
        BY <4>1, <3>2, <1>2, <1>3, VoidIsNoPage
      <4> QED BY <4>1, <4>2, <1>5, <1>7
    <3> QED BY <3>1, <3>2
  <2>2. ASSUME NEW p \in Pages, "PRESENT" \in flags'[p]
        PROVE  frame'[p] \in Frames /\ framepage'[frame'[p]] = p
    <3>1. CASE p = req
      BY <3>1, <1>2, <1>5, <1>6
    <3>2. CASE p # req
      <4>1. p # old /\ Present(p)
        BY <2>2, <3>2, <1>3, <1>7, VoidIsNoPage
      <4>2. frame'[p] = frame[p] /\ frame[p] \in Frames /\ framepage[frame[p]] = p
        BY <4>1, <3>2, <1>5 DEF TablesInverse
      <4>3. frame[p] # new_frame
        BY <4>1, <4>2
      <4> QED BY <4>2, <4>3, <1>6
    <3> QED BY <3>1, <3>2
  <2>3. ASSUME NEW p \in Pages, ~"PRESENT" \in flags'[p]
        PROVE  flags'[p] = {} /\ frame'[p] = VOID_IDX
    <3>1. CASE p = old
      BY <3>1, <1>5, VoidIsNoPage
    <3>2. CASE p # old
      BY <2>3, <3>2, <1>5, <1>7 DEF TablesInverse
    <3> QED BY <3>1, <3>2
  <2> QED BY <2>1, <2>2, <2>3 DEF TablesInverse, Present
<1>10. CleanPagesMatchPagefile'
  <2> SUFFICES ASSUME NEW p \in Pages, Loaded(p)', "CHANGED" \notin flags'[p]
               PROVE  data'[frame'[p]] = pagefile'[p]
    BY DEF CleanPagesMatchPagefile
  <2>1. p # req /\ p # old /\ Present(p)
    BY <1>1, <1>2, <1>3, <1>7, VoidIsNoPage DEF Loaded, Present
  <2> QED BY <2>1, <1>1, <1>5 DEF CleanPagesMatchPagefile, Loaded
<1>11. FillOrder'
  <2>1. ASSUME NEW f \in Frames, f >= size
        PROVE  framepage'[f] = VOID_IDX
    <3>1. f # new_frame
      BY <2>1, <1>2 DEF Frames, TypeInv, TypeOK
    <3> QED BY <2>1, <3>1, <1>6 DEF FillOrder
  <2>2. ASSUME NEW f \in Frames, f < size
        PROVE  framepage'[f] # VOID_IDX
    BY <2>2, <1>6, <1>8 DEF FillOrder
  <2> QED BY <2>1, <2>2, <1>1 DEF FillOrder
<1>12. CountAtFill'
  <2>1. old # VOID_IDX => FramesAreOccupied
    BY <1>1 DEF FillOrder
  <2> QED BY <2>1, <1>1 DEF CountAtFill, FramesAreOccupied
<1>13. NoWildAccess' /\ VictimIsSaved' /\ WriteIsMarked' /\ ServedPageIsPresent'
  BY <1>1, <1>2
  DEF NoWildAccess, VictimIsSaved, WriteIsMarked, ServedPageIsPresent
<1>14. Handshake'
  BY <1>1, <1>2, <1>7 DEF Handshake, ServesFault, Page, Present
<1> QED BY <1>9, <1>10, <1>11, <1>12, <1>13, <1>14

\* fetch_page fills the frame that update_pt has just mapped.
LEMMA FetchPageInv ==
  ASSUME NEW c \in Clients, Clients = {c}, PagingInv, TypeInv', FetchPage
  PROVE  PagingInv'
<1> USE DEF PagingInv, table, counts, clients
<1>1. /\ mm = "fetch" /\ mm' = "post"
      /\ UNCHANGED <<table, counts, pagefile, req_page, new_frame, clients,
                     req_pageno, sema, usr1>>
  BY DEF FetchPage
<1>2. /\ pc[c] = "wait" /\ ~usr1 /\ sema = 0
      /\ req_page = Page(c) /\ req_pageno = Page(c) /\ req_page \in Pages
      /\ Present(req_page)
  BY <1>1, ManagerWorksForWaiting DEF ServesFault, Handshake
<1>3. frame[req_page] \in Frames
  BY <1>2 DEF TablesInverse
<1>4. data' = [data EXCEPT ![frame[req_page]] = pagefile[req_page]]
  BY <1>3 DEF FetchPage
<1>5. NoWildAccess'
  BY <1>3 DEF FetchPage, NoWildAccess
<1>6. CleanPagesMatchPagefile'
  <2> SUFFICES ASSUME NEW p \in Pages, Present(p), "CHANGED" \notin flags[p]
               PROVE  data'[frame[p]] = pagefile[p]
    BY <1>1 DEF CleanPagesMatchPagefile, Loaded, Present
  <2>1. CASE p = req_page
    BY <2>1, <1>3, <1>4 DEF TypeInv, TypeOK
  <2>2. CASE p # req_page
    <3>1. frame[p] # frame[req_page]
      BY <2>2, <1>2 DEF TablesInverse
    <3>2. data'[frame[p]] = data[frame[p]]
      BY <3>1, <1>3, <1>4 DEF TablesInverse, TypeInv, TypeOK
    <3> QED BY <3>2, <2>2 DEF CleanPagesMatchPagefile, Loaded
  <2> QED BY <2>1, <2>2
<1>7. TablesInverse' /\ FillOrder' /\ CountAtFill' /\ VictimIsSaved'
  BY <1>1
  DEF TablesInverse, FillOrder, CountAtFill, VictimIsSaved, FramesAreOccupied,
      Present
<1>8. WriteIsMarked' /\ ServedPageIsPresent'
  BY <1>1 DEF WriteIsMarked, ServedPageIsPresent, Present, Page
<1>9. Handshake'
  BY <1>1, <1>2 DEF Handshake, ServesFault, Present, Page
<1> QED BY <1>5, <1>6, <1>7, <1>8, <1>9

LEMMA StepPagingInv ==
  ASSUME NEW c \in Clients, Clients = {c}
  PROVE  PagingInv /\ [Next]_vars => PagingInv'
<1> SUFFICES ASSUME PagingInv, [Next]_vars PROVE PagingInv'
  OBVIOUS
<1>1. TypeInv'
  BY StepTypeInv DEF PagingInv
<1>2. CASE UNCHANGED vars
  BY <1>1, <1>2
  DEF vars, table, counts, store, manager, clients, PagingInv, NoWildAccess,
      TablesInverse, CleanPagesMatchPagefile, Loaded, Present, FillOrder,
      CountAtFill, FramesAreOccupied, VictimIsSaved, WriteIsMarked, Handshake,
      Quiet, ServesFault, ServedPageIsPresent, Page
<1>3. CASE BeginAccess(c) \/ Proceed(c)
  BY <1>1, <1>3, ClientHandshakeInv, TouchInv, TransferInv DEF Proceed
<1>4. CASE ManagerStep
  BY <1>1, <1>4, HandlerFrameInv, TakeFreeFrameInv, PassFrameInv,
     TakeVictimInv, StorePageInv, UpdatePtInv, FetchPageInv DEF ManagerStep
<1> QED BY <1>2, <1>3, <1>4 DEF Next

\* With one client, for every size of the memory and every algorithm: the
\* tables agree, clean pages equal the page file, nothing outside the arrays
\* is touched, and the client runs on only when its page is present.
THEOREM PagingInvariant ==
  ASSUME NEW c \in Clients, Clients = {c}
  PROVE  Spec => []PagingInv
BY InitPagingInv, StepPagingInv, PTL DEF Spec

\* The two directions of the page table agree, also in the middle of a fault.
THEOREM TablesStayInverse ==
  ASSUME NEW c \in Clients, Clients = {c}
  PROVE  Spec => []TablesInverse
<1>1. PagingInv => TablesInverse
  BY DEF PagingInv
<1> QED BY <1>1, PagingInvariant, PTL

\* store_page may skip the pages without the CHANGED bit.
THEOREM CleanPagesStaySaved ==
  ASSUME NEW c \in Clients, Clients = {c}
  PROVE  Spec => []CleanPagesMatchPagefile
<1>1. PagingInv => CleanPagesMatchPagefile
  BY DEF PagingInv
<1> QED BY <1>1, PagingInvariant, PTL

\* Frame -1 and page -1 are never used as an index, except for entries[-1] in
\* update_unload, which hits pf_count.
THEOREM MemoryIsSafe ==
  ASSUME NEW c \in Clients, Clients = {c}
  PROVE  Spec => []NoWildAccess
<1>1. PagingInv => NoWildAccess
  BY DEF PagingInv
<1> QED BY <1>1, PagingInvariant, PTL

\* After the handshake the page is there and stays there until it is used.
THEOREM ServedPageStaysPresent ==
  ASSUME NEW c \in Clients, Clients = {c}
  PROVE  Spec => []ServedPageIsPresent
<1>1. PagingInv => ServedPageIsPresent
  BY DEF PagingInv
<1> QED BY <1>1, PagingInvariant, PTL

\* Of signal, handler and semaphore exactly one holds the answer to a client
\* that waits, and none does otherwise.
THEOREM FaultHasOneAnswer ==
  ASSUME NEW c \in Clients, Clients = {c}
  PROVE  Spec => []OneAnswerPerFault
<1>1. PagingInv => OneAnswerPerFault
  <2> SUFFICES ASSUME PagingInv PROVE OneAnswerPerFault
    OBVIOUS
  <2>1. CASE pc[c] = "wait"
    <3>1. Waiting = {c}
      BY <2>1 DEF Waiting
    <3>2. Cardinality(Waiting) = 1
      BY <3>1, FS_Singleton
    <3>3. Answers = 1
      BY <2>1 DEF PagingInv, Handshake, Answers
    <3> QED BY <3>2, <3>3 DEF OneAnswerPerFault
  <2>2. CASE pc[c] # "wait"
    <3>1. Waiting = {}
      BY <2>2 DEF Waiting
    <3>2. Cardinality(Waiting) = 0
      BY <3>1, FS_EmptySet
    <3>3. Answers = 0
      BY <2>2 DEF PagingInv, Handshake, Quiet, Answers
    <3> QED BY <3>2, <3>3 DEF OneAnswerPerFault
  <2> QED BY <2>1, <2>2
<1> QED BY <1>1, PagingInvariant, PTL

-----------------------------------------------------------------------------
(* Any number of clients: the semaphore is never posted too often. *)

LEMMA WaitingIsFinite ==
  ASSUME IsFiniteSet(Clients)
  PROVE  IsFiniteSet(Waiting) /\ Cardinality(Waiting) \in Nat
<1>1. Waiting \subseteq Clients
  BY DEF Waiting
<1> QED BY <1>1, FS_Subset, FS_CardinalityType

LEMMA ClientSurplusInv ==
  ASSUME IsFiniteSet(Clients), TypeInv, NoSurplusAnswer,
         NEW c \in Clients, BeginAccess(c) \/ Proceed(c)
  PROVE  NoSurplusAnswer'
<1> USE DEF TypeInv, TypeOK
<1>1. mm' = mm
  BY DEF Proceed, BeginAccess, CheckPresent, RaiseFault, AwaitPage, Touch,
         Transfer, manager
<1>2. CASE RaiseFault(c)
  <2>1. Waiting' = Waiting \union {c} /\ c \notin Waiting
    BY <1>2 DEF RaiseFault, Waiting
  <2>2. Cardinality(Waiting') = Cardinality(Waiting) + 1
    BY <2>1, WaitingIsFinite, FS_AddElement
  <2>3. Answers' <= Answers + 1 /\ Answers \in Nat /\ Answers' \in Nat
    BY <1>1, <1>2 DEF RaiseFault, Answers, ServesFault
  <2> QED BY <2>2, <2>3, WaitingIsFinite DEF NoSurplusAnswer
<1>3. CASE AwaitPage(c)
  <2>1. Waiting' = Waiting \ {c} /\ c \in Waiting
    BY <1>3 DEF AwaitPage, Waiting
  <2>2. Cardinality(Waiting') = Cardinality(Waiting) - 1
    BY <2>1, WaitingIsFinite, FS_RemoveElement
  <2>3. Answers' = Answers - 1 /\ Answers \in Nat
    BY <1>1, <1>3 DEF AwaitPage, Answers, ServesFault
  <2> QED BY <2>2, <2>3, WaitingIsFinite DEF NoSurplusAnswer
<1>4. CASE BeginAccess(c) \/ CheckPresent(c) \/ Touch(c) \/ Transfer(c)
  <2>1. Waiting' = Waiting
    BY <1>4 DEF BeginAccess, CheckPresent, Touch, Transfer, Waiting
  <2>2. Answers' = Answers
    BY <1>1, <1>4
    DEF BeginAccess, CheckPresent, Touch, Transfer, Answers, ServesFault
  <2> QED BY <2>1, <2>2 DEF NoSurplusAnswer
<1> QED BY <1>2, <1>3, <1>4 DEF Proceed

LEMMA ManagerSurplusInv ==
  ASSUME TypeInv, NoSurplusAnswer, ManagerStep
  PROVE  NoSurplusAnswer'
<1>1. Waiting' = Waiting
  BY DEF ManagerStep, EnterFault, TakeFreeFrame, PassFrame, TakeVictim,
         StorePage, UpdatePt, FetchPage, PostSema, LeaveFault, clients, Waiting
<1>2. Answers' = Answers
  <2>1. sema \in Nat
    BY DEF TypeInv, TypeOK
  <2>2. CASE EnterFault
    BY <2>1, <2>2 DEF EnterFault, Answers, ServesFault
  <2>3. CASE PostSema
    BY <2>1, <2>3 DEF PostSema, Answers, ServesFault
  <2>4. CASE LeaveFault
    BY <2>4 DEF LeaveFault, Answers, ServesFault
  <2>5. CASE TakeFreeFrame \/ PassFrame \/ TakeVictim \/ StorePage \/
             UpdatePt \/ FetchPage
    BY <2>5 DEF TakeFreeFrame, PassFrame, TakeVictim, StorePage, UpdatePt,
                FetchPage, manager, Answers, ServesFault
  <2> QED BY <2>2, <2>3, <2>4, <2>5 DEF ManagerStep
<1> QED BY <1>1, <1>2 DEF NoSurplusAnswer

\* However many clients there are, there are never more posts than calls that
\* wait for one: no fault can be skipped because of a post left over.
THEOREM NoPostIsLeftOver ==
  ASSUME IsFiniteSet(Clients)
  PROVE  Spec => []NoSurplusAnswer
<1>1. Init => NoSurplusAnswer
  <2> SUFFICES ASSUME Init PROVE NoSurplusAnswer
    OBVIOUS
  <2>1. Waiting = {} /\ Answers = 0
    BY DEF Init, InitialSema, Waiting, Answers, ServesFault
  <2> QED BY <2>1, FS_EmptySet DEF NoSurplusAnswer
<1>2. TypeInv /\ NoSurplusAnswer /\ [Next]_vars => NoSurplusAnswer'
  <2> SUFFICES ASSUME TypeInv, NoSurplusAnswer, [Next]_vars
               PROVE  NoSurplusAnswer'
    OBVIOUS
  <2>1. CASE UNCHANGED vars
    BY <2>1 DEF vars, manager, clients, NoSurplusAnswer, Answers, ServesFault,
                Waiting
  <2>2. CASE Next
    BY <2>2, ClientSurplusInv, ManagerSurplusInv DEF Next
  <2> QED BY <2>1, <2>2
<1> QED BY <1>1, <1>2, InitTypeInv, StepTypeInv, PTL DEF Spec

-----------------------------------------------------------------------------
(* The virtual memory of one client is a flat array of ints: every step of *)
(* Paging is a step of FlatMemory on FlatView, or changes nothing there.   *)
(* The manager's steps move pages between the frames and the page file and *)
(* leave PageView of every page alone; vmem_read and vmem_write take       *)
(* effect in Transfer.                                                     *)

\* Two addresses that share page and offset are the same.
LEMMA AddressIsPageAndOffset ==
  ASSUME NEW a \in Addresses, NEW b \in Addresses,
         PageOf(a) = PageOf(b), OffsetOf(a) = OffsetOf(b)
  PROVE  a = b
BY AddressSplit

\* A step that keeps the view of every page keeps the flat view.
LEMMA FlatViewFromPages ==
  ASSUME \A p \in Pages : PageView(p)' = PageView(p)
  PROVE  FlatView' = FlatView
<1>1. \A a \in Addresses : PageOf(a) \in Pages
  BY AddressSplit
<1> QED BY <1>1 DEF FlatView, PageOf, OffsetOf

LEMMA InitFlat == Init => Flat!Init
<1> SUFFICES ASSUME Init PROVE Flat!Init
  OBVIOUS
<1>1. \A p \in Pages : PageView(p) = pagefile[p]
  BY DEF Init, PageView, Loaded, Present
<1>2. \A a \in Addresses : FlatView[a] \in Values
  BY <1>1, AddressSplit DEF Init, PageFiles, FlatView
<1>3. FlatView \in [Addresses -> Values]
  BY <1>2 DEF FlatView
<1> QED BY <1>3 DEF Init, Flat!Init, Flat!NoRequest, NoRequest

\* The steps of the manager that touch neither data nor page file, and only
\* used bits of the table, cannot be seen.
LEMMA BookkeepingIsInvisible ==
  ASSUME PagingInv,
         \/ EnterFault \/ TakeFreeFrame \/ PassFrame \/ TakeVictim
         \/ PostSema \/ LeaveFault
  PROVE  FlatView' = FlatView
<1>1. /\ UNCHANGED <<frame, store>>
      /\ mm # "fetch" /\ mm' # "fetch"
  BY DEF EnterFault, TakeFreeFrame, PassFrame, TakeVictim, PostSema,
         LeaveFault, table, manager
<1>2. ASSUME NEW p \in Pages PROVE Present(p)' <=> Present(p)
  BY DEF EnterFault, TakeFreeFrame, PassFrame, TakeVictim, PostSema,
         LeaveFault, table, Present, SpendChance, PagingInv, TypeInv, TypeOK
<1>3. \A p \in Pages : PageView(p)' = PageView(p)
  BY <1>1, <1>2 DEF PageView, Loaded, store
<1> QED BY <1>3, FlatViewFromPages

\* Writing back the victim cannot be seen: its content is still in its frame.
LEMMA StorePageIsInvisible ==
  ASSUME PagingInv, StorePage
  PROVE  FlatView' = FlatView
<1> DEFINE old == framepage[new_frame]
<1>1. /\ mm = "evict" /\ mm' = "remap" /\ new_frame \in Frames
      /\ UNCHANGED <<table, data>>
      /\ \A p \in Pages : p # old => pagefile'[p] = pagefile[p]
  BY DEF StorePage, PagingInv, TypeInv, TypeOK, LocalsInRange
<1>2. old \in Pages => Present(old)
  BY <1>1, VoidIsNoPage DEF PagingInv, TablesInverse
<1>3. \A p \in Pages : PageView(p)' = PageView(p)
  BY <1>1, <1>2 DEF PageView, Loaded, Present, table
<1> QED BY <1>3, FlatViewFromPages

\* Remapping the frame cannot be seen: the victim is saved, and the requested
\* page is still read from the page file until it is fetched.
LEMMA UpdatePtIsInvisible ==
  ASSUME NEW c \in Clients, Clients = {c}, PagingInv, UpdatePt
  PROVE  FlatView' = FlatView
<1> USE DEF PagingInv
<1> DEFINE old == framepage[new_frame]
<1>1. /\ mm = "remap" /\ mm' = "fetch" /\ new_frame \in Frames
      /\ UNCHANGED <<store, req_page>>
  BY DEF UpdatePt, TypeInv, LocalsInRange
<1>2. /\ req_pageno = Page(c) /\ req_page = req_pageno /\ req_page \in Pages
      /\ ~Present(req_page)
  BY <1>1, ManagerWorksForWaiting DEF ServesFault, Handshake
<1>3. \A p \in Pages : p # req_page /\ p # old =>
        flags'[p] = flags[p] /\ frame'[p] = frame[p]
  BY <1>2 DEF UpdatePt, UnloadFlags, UnloadFrames, TypeInv, TypeOK
<1>4. old \in Pages => /\ Present(old) /\ frame[old] = new_frame
                       /\ data[new_frame] = pagefile[old]
                       /\ flags'[old] = {}
  BY <1>1, <1>2, VoidIsNoPage
  DEF UpdatePt, UnloadFlags, TablesInverse, VictimIsSaved, TypeInv, TypeOK
<1>5. ASSUME NEW p \in Pages
      PROVE  PageView(p)' = PageView(p)
  <2>1. CASE p = req_page
    BY <2>1, <1>1, <1>2 DEF PageView, Loaded, store
  <2>2. CASE p = old
    BY <2>2, <1>1, <1>4 DEF PageView, Loaded, Present, store
  <2>3. CASE p # req_page /\ p # old
    BY <2>3, <1>1, <1>3 DEF PageView, Loaded, Present, store
  <2> QED BY <2>1, <2>2, <2>3
<1> QED BY <1>5, FlatViewFromPages

\* Fetching the page cannot be seen: it now holds what the file holds.
LEMMA FetchPageIsInvisible ==
  ASSUME NEW c \in Clients, Clients = {c}, PagingInv, FetchPage
  PROVE  FlatView' = FlatView
<1> USE DEF PagingInv
<1>1. /\ mm = "fetch" /\ mm' = "post"
      /\ UNCHANGED <<table, pagefile, req_page>>
  BY DEF FetchPage
<1>2. req_page \in Pages /\ Present(req_page) /\ frame[req_page] \in Frames
  BY <1>1, ManagerWorksForWaiting DEF ServesFault, Handshake, TablesInverse
<1>3. data' = [data EXCEPT ![frame[req_page]] = pagefile[req_page]]
  BY <1>2 DEF FetchPage
<1>4. ASSUME NEW p \in Pages
      PROVE  PageView(p)' = PageView(p)
  <2>1. CASE p = req_page
    BY <2>1, <1>1, <1>2, <1>3
    DEF PageView, Loaded, Present, table, TypeInv, TypeOK
  <2>2. CASE p # req_page /\ Present(p)
    <3>1. frame[p] \in Frames /\ frame[p] # frame[req_page]
      BY <2>2, <1>2 DEF TablesInverse
    <3>2. data'[frame[p]] = data[frame[p]]
      BY <3>1, <1>3 DEF TypeInv, TypeOK
    <3> QED BY <2>2, <3>2, <1>1 DEF PageView, Loaded, Present, table
  <2>3. CASE ~Present(p)
    BY <2>3, <1>1 DEF PageView, Loaded, Present, table
  <2> QED BY <2>1, <2>2, <2>3
<1> QED BY <1>4, FlatViewFromPages

LEMMA ManagerIsInvisible ==
  ASSUME NEW c \in Clients, Clients = {c}, PagingInv, ManagerStep
  PROVE  UNCHANGED Flat!memvars
<1>1. FlatView' = FlatView
  BY BookkeepingIsInvisible, StorePageIsInvisible, UpdatePtIsInvisible,
     FetchPageIsInvisible DEF ManagerStep
<1>2. UNCHANGED clients
  BY DEF ManagerStep, EnterFault, TakeFreeFrame, PassFrame, TakeVictim,
         StorePage, UpdatePt, FetchPage, PostSema, LeaveFault
<1> QED BY <1>1, <1>2 DEF Flat!memvars, clients

-----------------------------------------------------------------------------

\* The steps of a client before its access leave the pages' contents alone.
LEMMA ClientKeepsView ==
  ASSUME NEW c \in Clients, PagingInv,
         \/ BeginAccess(c) \/ CheckPresent(c) \/ RaiseFault(c)
         \/ AwaitPage(c) \/ Touch(c)
  PROVE  FlatView' = FlatView
<1>1. UNCHANGED <<frame, store, manager>>
  BY DEF BeginAccess, CheckPresent, RaiseFault, AwaitPage, Touch, table
<1>2. ASSUME NEW p \in Pages PROVE Present(p)' <=> Present(p)
  <2>1. CASE Touch(c)
    <3>1. Present(Page(c)) /\ Page(c) \in Pages
      BY <2>1, CallsTyped
      DEF Touch, PagingInv, ServedPageIsPresent, TypeInv, LocalsInRange, Page
    <3> QED BY <2>1, <3>1
            DEF Touch, Present, MarkUsed, PagingInv, TypeInv, TypeOK
  <2>2. CASE ~Touch(c)
    BY <2>2
    DEF BeginAccess, CheckPresent, RaiseFault, AwaitPage, table, Present
  <2> QED BY <2>1, <2>2
<1>3. \A p \in Pages : PageView(p)' = PageView(p)
  BY <1>1, <1>2 DEF PageView, Loaded, store, manager
<1> QED BY <1>3, FlatViewFromPages

LEMMA BeginAccessInvokes ==
  ASSUME NEW c \in Clients, PagingInv, BeginAccess(c)
  PROVE  Flat!Invoke(c)
<1>1. FlatView' = FlatView
  BY ClientKeepsView
<1>2. Calls \subseteq Flat!Reads \union Flat!Writes
  BY ClientsAssumption DEF Calls, Flat!Reads, Flat!Writes
<1>3. request[c] = Flat!NoRequest
  BY DEF BeginAccess, PagingInv, TypeInv, LocalsInRange, NoRequest,
         Flat!NoRequest
<1> QED BY <1>1, <1>2, <1>3 DEF BeginAccess, Flat!Invoke

LEMMA TransferPerforms ==
  ASSUME NEW c \in Clients, Clients = {c}, PagingInv, Transfer(c)
  PROVE  Flat!Read(c) \/ Flat!Write(c)
<1> USE DEF PagingInv
<1> DEFINE r == request[c]
           q == Page(c)
           o == OffsetOf(r.addr)
<1>1. /\ r \in Calls /\ r.addr \in Addresses /\ r.op \in {"read", "write"}
      /\ q = PageOf(r.addr) /\ q \in Pages /\ o \in Offsets
  BY CallsTyped DEF Transfer, TypeInv, LocalsInRange, Page
<1>2. Present(q) /\ frame[q] \in Frames /\ mm # "fetch" /\ mm' # "fetch"
  BY <1>1 DEF Transfer, ServedPageIsPresent, TablesInverse, Handshake, Quiet,
              ServesFault, manager
<1>3. FlatView[r.addr] = data[frame[q]][o]
  BY <1>1, <1>2 DEF FlatView, PageView, Loaded
<1>4. request' = [request EXCEPT ![c] = Flat!NoRequest]
  BY DEF Transfer, NoRequest, Flat!NoRequest
<1>5. CASE r.op = "read"
  <2>1. data' = data /\ UNCHANGED <<table, pagefile, manager>>
    BY <1>5 DEF Transfer
  <2>2. \A p \in Pages : PageView(p)' = PageView(p)
    BY <2>1 DEF PageView, Loaded, Present, table, manager
  <2>3. FlatView' = FlatView
    BY <2>2, FlatViewFromPages
  <2>4. result' = [result EXCEPT ![c] = FlatView[r.addr]]
    BY <1>2, <1>3, <1>5 DEF Transfer
  <2> QED BY <1>4, <1>5, <2>3, <2>4 DEF Flat!Read
<1>6. CASE r.op = "write"
  <2>1. /\ data' = [data EXCEPT ![frame[q]][o] = r.val]
        /\ result' = result /\ UNCHANGED <<table, pagefile, manager>>
    BY <1>2, <1>6 DEF Transfer
  <2>2. ASSUME NEW p \in Pages, p # q
        PROVE  PageView(p)' = PageView(p)
    <3>1. CASE Present(p)
      <4>1. frame[p] \in Frames /\ frame[p] # frame[q]
        BY <2>2, <3>1, <1>1, <1>2 DEF TablesInverse
      <4>2. data'[frame[p]] = data[frame[p]]
        BY <4>1, <2>1 DEF TypeInv, TypeOK
      <4> QED BY <3>1, <4>2, <2>1 DEF PageView, Loaded, Present, table, manager
    <3>2. CASE ~Present(p)
      BY <3>2, <2>1 DEF PageView, Loaded, Present, table
    <3> QED BY <3>1, <3>2
  <2>3. ASSUME NEW p \in Pages, p = q
        PROVE  PageView(p)' = [PageView(p) EXCEPT ![o] = r.val]
    <3>1. data'[frame[q]] = [data[frame[q]] EXCEPT ![o] = r.val]
      BY <2>1, <1>1, <1>2 DEF TypeInv, TypeOK
    <3>2. flags' = flags /\ frame' = frame
      BY <2>1 DEF table
    <3>3. PageView(p) = data[frame[p]]
      BY <2>3, <1>2 DEF PageView, Loaded
    <3>4. PageView(p)' = data'[frame[p]]
      BY <2>3, <3>2, <1>2 DEF PageView, Loaded, Present
    <3> QED BY <2>3, <3>1, <3>3, <3>4
  <2>4. ASSUME NEW a \in Addresses
        PROVE  FlatView'[a] = IF a = r.addr THEN r.val ELSE FlatView[a]
    <3> DEFINE p == PageOf(a)
    <3>1. p \in Pages /\ OffsetOf(a) \in Offsets
      BY AddressSplit
    <3>2. /\ FlatView[a] = PageView(p)[OffsetOf(a)]
          /\ FlatView'[a] = PageView(p)'[OffsetOf(a)]
      BY DEF FlatView, PageOf, OffsetOf
    <3>3. CASE a = r.addr
      <4>1. PageView(p) = data[frame[q]]
        BY <3>3, <1>1, <1>2 DEF PageView, Loaded
      <4>2. PageView(p) \in [Offsets -> Values \union {VOID_IDX}]
        BY <4>1, <1>2 DEF TypeInv, TypeOK
      <4> QED BY <3>1, <3>2, <3>3, <4>2, <2>3, <1>1
    <3>4. CASE a # r.addr /\ p = q
      <4>1. OffsetOf(a) # o
        BY <3>4, <1>1, AddressIsPageAndOffset
      <4>2. PageView(p) = data[frame[q]]
        BY <3>4, <1>2 DEF PageView, Loaded
      <4>3. PageView(p) \in [Offsets -> Values \union {VOID_IDX}]
        BY <4>2, <1>2 DEF TypeInv, TypeOK
      <4> QED BY <3>1, <3>2, <3>4, <4>1, <4>3, <2>3
    <3>5. CASE p # q
      BY <3>1, <3>2, <3>5, <2>2, <1>1
    <3> QED BY <3>3, <3>4, <3>5
  <2>5. FlatView' = [FlatView EXCEPT ![r.addr] = r.val]
    BY <2>4 DEF FlatView
  <2> QED BY <1>4, <1>6, <2>1, <2>5 DEF Flat!Write
<1> QED BY <1>1, <1>5, <1>6

LEMMA StepFlat ==
  ASSUME NEW c \in Clients, Clients = {c}
  PROVE  PagingInv /\ [Next]_vars => [Flat!Next]_Flat!memvars
<1> SUFFICES ASSUME PagingInv, [Next]_vars
             PROVE  [Flat!Next]_Flat!memvars
  OBVIOUS
<1>1. CASE UNCHANGED vars
  <2>1. \A p \in Pages : PageView(p)' = PageView(p)
    BY <1>1 DEF vars, table, store, manager, PageView, Loaded, Present
  <2> QED BY <1>1, <2>1, FlatViewFromPages DEF vars, clients, Flat!memvars
<1>2. CASE ManagerStep
  BY <1>2, ManagerIsInvisible
<1>3. CASE BeginAccess(c)
  BY <1>3, BeginAccessInvokes DEF Flat!Next
<1>4. CASE CheckPresent(c) \/ RaiseFault(c) \/ AwaitPage(c) \/ Touch(c)
  <2>1. FlatView' = FlatView
    BY <1>4, ClientKeepsView
  <2>2. UNCHANGED <<request, result>>
    BY <1>4 DEF CheckPresent, RaiseFault, AwaitPage, Touch
  <2> QED BY <2>1, <2>2 DEF Flat!memvars
<1>5. CASE Transfer(c)
  BY <1>5, TransferPerforms DEF Flat!Next
<1> QED BY <1>1, <1>2, <1>3, <1>4, <1>5 DEF Next, Proceed

\* For one client, every size of the memory and every algorithm, what
\* vmem_read and vmem_write do is what a flat array does.
THEOREM VirtualMemoryIsFlat ==
  ASSUME NEW c \in Clients, Clients = {c}
  PROVE  Spec => ImplementsFlatMemory
BY InitFlat, StepFlat, PagingInvariant, PTL
   DEF Spec, ImplementsFlatMemory, Flat!Spec

-----------------------------------------------------------------------------
(* One client: the replacement policy. *)

\* The hand moves on by at most one round.
LEMMA WrapAround ==
  ASSUME NEW a \in Frames, NEW b \in 0 .. NFrames
  PROVE  /\ (a + b) % NFrames = IF a + b < NFrames THEN a + b
                                                  ELSE a + b - NFrames
         /\ (a + b) % NFrames \in Frames
<1> DEFINE s == a + b
<1>1. NFrames \in Nat /\ NFrames > 0
  BY SizesAssumption
<1>2. s \in Nat /\ s < 2 * NFrames
  BY <1>1 DEF Frames
<1> HIDE DEF s
<1> DEFINE q == s \div NFrames
           r == s % NFrames
<1>3. q \in Nat /\ r \in 0 .. NFrames - 1 /\ s = NFrames * q + r
  BY <1>1, <1>2
<1> HIDE DEF q, r
<1>4. q < 2
  <2> SUFFICES ASSUME q >= 2 PROVE FALSE
    BY <1>3
  <2>1. NFrames * q >= NFrames * 2
    BY <1>1, <1>3, TimesMonotonic
  <2> QED BY <2>1, <1>1, <1>2, <1>3
<1>5. q = 0 \/ q = 1
  BY <1>3, <1>4
<1>6. r = IF s < NFrames THEN s ELSE s - NFrames
  BY <1>1, <1>2, <1>3, <1>5
<1>7. r \in Frames
  BY <1>3 DEF Frames
<1>8. s % NFrames = IF s < NFrames THEN s ELSE s - NFrames
  BY <1>6 DEF r
<1>9. s % NFrames \in Frames
  BY <1>7 DEF r
<1>10. a \in Int /\ b \in Int
  BY <1>1 DEF Frames
<1> QED BY <1>1, <1>8, <1>9, <1>10 DEF s

LEMMA RotatedWraps ==
  ASSUME NEW a \in Frames
  PROVE  Rotated(a) = IF a + 1 < NFrames THEN a + 1 ELSE 0
<1>1. 1 \in 0 .. NFrames /\ a \in Int /\ a < NFrames /\ NFrames \in Nat
  BY SizesAssumption DEF Frames
<1>2. (a + 1) % NFrames = IF a + 1 < NFrames THEN a + 1 ELSE a + 1 - NFrames
  BY <1>1, WrapAround
<1> QED BY <1>1, <1>2 DEF Rotated

LEMMA InitHandPosition == Init => HandPosition
BY SizesAssumption DEF Init, HandPosition, Filling, Evicting, FramesAreOccupied

\* A step that leaves the table and the counts alone, outside of the search.
LEMMA HandPositionKept ==
  ASSUME HandPosition, UNCHANGED <<table, size, next_alloc_idx>>,
         \/ UNCHANGED <<mm, new_frame>>
         \/ mm' \notin {"evict", "remap"}
         \/ mm = "evict" /\ UNCHANGED new_frame
  PROVE  HandPosition'
BY DEF HandPosition, Filling, Evicting, FramesAreOccupied, Chances, table

LEMMA StepHandPosition ==
  ASSUME NEW c \in Clients, Clients = {c}, PagingInv, HandPosition, [Next]_vars
  PROVE  HandPosition'
<1> USE DEF table, counts, manager, store, clients
<1>1. TypeOK /\ size \in Nat /\ size <= NFrames /\ NFrames \in Nat /\ NFrames > 0
  BY SizesAssumption DEF PagingInv, TypeInv, TypeOK
<1>2. CASE \/ UNCHANGED vars
           \/ BeginAccess(c) \/ CheckPresent(c) \/ RaiseFault(c)
           \/ AwaitPage(c) \/ Transfer(c)
           \/ EnterFault \/ StorePage \/ FetchPage \/ PostSema \/ LeaveFault
  BY <1>2, HandPositionKept
  DEF vars, BeginAccess, CheckPresent, RaiseFault, AwaitPage, Transfer,
      EnterFault, StorePage, FetchPage, PostSema, LeaveFault
<1>3. CASE Touch(c)
  <2>1. mm \notin {"evict", "remap"} /\ mm' = mm
    BY <1>3 DEF Touch, PagingInv, Handshake, Quiet, ServesFault
  <2> QED BY <1>3, <2>1 DEF Touch, HandPosition, Filling, Evicting, FramesAreOccupied
<1>4. CASE TakeFreeFrame
  <2>1. /\ size \in Frames /\ framepage[size] = VOID_IDX
        /\ next_alloc_idx = 0
    BY <1>1, <1>4 DEF TakeFreeFrame, FramesAreOccupied, Frames, PagingInv,
       FillOrder, HandPosition
  <2>2. /\ new_frame' = size /\ size' = size + 1 /\ framepage' = framepage
        /\ next_alloc_idx' = 0
    BY <1>4, <2>1 DEF TakeFreeFrame
  <2>3. framepage'[new_frame'] = VOID_IDX
    BY <2>1, <2>2
  <2> QED BY <1>1, <2>2, <2>3 DEF HandPosition, Filling, Evicting
<1>5. CASE PassFrame
  <2>1. mm' = "search" /\ size' = size /\ size >= NFrames
    BY <1>5 DEF PassFrame, FramesAreOccupied
  <2> QED BY <2>1 DEF HandPosition, Filling, Evicting, FramesAreOccupied
<1>6. CASE TakeVictim
  <2>1. /\ mm = "search" /\ size >= NFrames /\ size' = size
        /\ new_frame' = next_alloc_idx /\ UNCHANGED <<flags, framepage>>
        /\ next_alloc_idx' = Rotated(next_alloc_idx)
        /\ ~IsSpared
    BY <1>6 DEF TakeVictim, FramesAreOccupied
  <2>2. next_alloc_idx \in Frames /\ next_alloc_idx < size
    BY <1>1, <2>1 DEF TypeOK, Frames
  <2>3. framepage[next_alloc_idx] # VOID_IDX
    BY <2>1, <2>2 DEF PagingInv, FillOrder
  <2>4. Chances(framepage[next_alloc_idx]) = 0
    BY <2>1 DEF IsSpared, Chances, ChancesIn
  <2>5. /\ ~Filling' /\ FramesAreOccupied'
        /\ Chances(framepage[new_frame])' = 0
    BY <2>1, <2>3, <2>4 DEF Filling, FramesAreOccupied, Chances
  <2> QED BY <2>1, <2>5 DEF HandPosition
<1>7. CASE UpdatePt
  <2>1. mm = "remap" /\ mm' = "fetch" /\ UNCHANGED <<size, next_alloc_idx, new_frame>>
    BY <1>7 DEF UpdatePt
  <2> QED BY <2>1 DEF HandPosition, Filling, Evicting, FramesAreOccupied
<1> QED BY <1>2, <1>3, <1>4, <1>5, <1>6, <1>7 DEF Next, Proceed, ManagerStep

LEMMA StepUsedBits ==
  ASSUME PagingInv, UsedBitsInOrder, [Next]_vars
  PROVE  UsedBitsInOrder'
<1> SUFFICES ASSUME Algo = "CLOCK2", NEW p \in Pages,
                    "USEDBIT2" \in flags'[p]
             PROVE  "USEDBIT1" \in flags'[p]
  BY DEF UsedBitsInOrder
<1>1. /\ flags \in [Pages -> SUBSET PTF]
      /\ "USEDBIT2" \in flags[p] => "USEDBIT1" \in flags[p]
  BY DEF PagingInv, TypeInv, TypeOK, UsedBitsInOrder
<1>2. CASE flags'[p] = flags[p]
  BY <1>1, <1>2
<1>3. CASE \E c \in Clients : Touch(c) /\ p = Page(c)
  BY <1>1, <1>3 DEF Touch, MarkUsed
<1>4. CASE PassFrame /\ p = framepage[next_alloc_idx]
  <2>1. flags'[p] = SpendChance(flags[p])
    BY <1>1, <1>4 DEF PassFrame
  <2> QED BY <1>1, <2>1 DEF SpendChance
<1>5. CASE UpdatePt
  <2>1. flags'[p] \in {{}, flags[p], {"PRESENT"}, flags[p] \union {"PRESENT"}}
    BY <1>1, <1>5 DEF UpdatePt, UnloadFlags
  <2> QED BY <1>1, <2>1
<1>6. /\ \A c \in Clients : Touch(c) /\ p # Page(c) => flags'[p] = flags[p]
      /\ PassFrame /\ p # framepage[next_alloc_idx] => flags'[p] = flags[p]
  BY <1>1 DEF Touch, PassFrame
<1>7. \/ flags' = flags
      \/ \E c \in Clients : Touch(c)
      \/ PassFrame
      \/ UpdatePt
  BY DEF Next, vars, table, Proceed, ManagerStep, BeginAccess, CheckPresent,
         RaiseFault, AwaitPage, Transfer, EnterFault, TakeFreeFrame,
         TakeVictim, StorePage, FetchPage, PostSema, LeaveFault
<1> QED BY <1>2, <1>3, <1>4, <1>5, <1>6, <1>7

\* The hand, the used bits and the tables keep their invariant.
LEMMA InitHandInv == Init => HandInv
<1>1. Init => UsedBitsInOrder
  BY DEF Init, UsedBitsInOrder
<1> QED BY <1>1, InitPagingInv, InitHandPosition DEF HandInv

LEMMA StepHandInv ==
  ASSUME NEW c \in Clients, Clients = {c}
  PROVE  HandInv /\ [Next]_vars => HandInv'
BY StepPagingInv, StepHandPosition, StepUsedBits DEF HandInv

\* The queue of the refinement, without the count of the frames in use.
QueueShape ==
  /\ QueueLength \in 0 .. NFrames
  /\ Front \in Frames
  /\ QueueLength < NFrames => Front = 0
  /\ \A f \in Frames : framepage[f] # VOID_IDX <=> f < QueueLength
  /\ \A i \in 1 .. QueueLength : PageAhead(i) \in Pages
  /\ ReplacementQueue = [i \in 1 .. QueueLength |-> QueueEntry(PageAhead(i))]

LEMMA ShapeOfQueue == HandInv => QueueShape
<1> SUFFICES ASSUME HandInv PROVE QueueShape
  OBVIOUS
<1> USE DEF HandInv, PagingInv, TypeInv
<1>1. /\ NFrames \in Nat /\ NFrames > 0 /\ size \in Nat /\ size <= NFrames
      /\ next_alloc_idx \in Frames
      /\ framepage \in [Frames -> Pages \union {VOID_IDX}]
  BY SizesAssumption DEF TypeOK
<1>2. Filling => new_frame \in Frames /\ new_frame < size /\ new_frame = size - 1
  BY DEF Filling, FillOrder, LocalsInRange, HandPosition
<1>3. /\ QueueLength \in 0 .. NFrames
      /\ Filling => QueueLength = size - 1
      /\ ~Filling => QueueLength = size
  BY <1>1, <1>2 DEF QueueLength, Frames
<1>4. Front \in Frames
  BY <1>1 DEF Front, Evicting, LocalsInRange
<1>5. QueueLength < NFrames => Front = 0
  <2>1. CASE Filling
    BY <2>1 DEF Filling, Evicting, Front, HandPosition
  <2>2. CASE ~Filling /\ Evicting
    <3>1. size >= NFrames
      BY <2>2 DEF Evicting, FillOrder, FramesAreOccupied
    <3> QED BY <3>1, <2>2, <1>1, <1>3
  <2>3. CASE ~Filling /\ ~Evicting
    BY <2>3, <1>1, <1>3 DEF Front, HandPosition, FramesAreOccupied
  <2> QED BY <2>1, <2>2, <2>3
<1>6. ASSUME NEW f \in Frames
      PROVE  framepage[f] # VOID_IDX <=> f < QueueLength
  <2>0. f \in Int /\ QueueLength \in Int
    BY <1>1, <1>3 DEF Frames
  <2>1. f >= size => framepage[f] = VOID_IDX
    BY DEF FillOrder
  <2>2. f < size /\ framepage[f] = VOID_IDX => Filling /\ f = new_frame
    BY DEF FillOrder, Filling
  <2>3. Filling => framepage[new_frame] = VOID_IDX
    BY DEF Filling
  <2>4. CASE Filling
    BY <2>0, <2>1, <2>2, <2>3, <2>4, <1>1, <1>2, <1>3
  <2>5. CASE ~Filling
    BY <2>0, <2>1, <2>2, <2>5, <1>1, <1>3
  <2> QED BY <2>4, <2>5
<1>7. ASSUME NEW i \in 1 .. QueueLength
      PROVE  PageAhead(i) \in Pages
  <2> DEFINE b == i - 1
  <2>1. b \in 0 .. NFrames /\ b < QueueLength /\ i \in Int /\ b \in Int
    BY <1>1, <1>3
  <2>2. Front \in Int /\ Front + i - 1 = Front + b
    BY <1>4, <2>1 DEF Frames
  <2> HIDE DEF b
  <2>3. /\ (Front + b) % NFrames \in Frames
        /\ (Front + b) % NFrames = IF Front + b < NFrames THEN Front + b
                                   ELSE Front + b - NFrames
    BY <1>4, <2>1, WrapAround
  <2> DEFINE k == (Front + b) % NFrames
  <2>4. k \in Int /\ k < NFrames
    BY <2>3, <1>1 DEF Frames
  <2>5. QueueLength < NFrames => k = b
    BY <1>1, <1>3, <1>5, <2>1, <2>3
  <2>6. k < QueueLength
    BY <1>1, <1>3, <2>1, <2>4, <2>5
  <2> HIDE DEF k
  <2>7. k \in Frames /\ framepage[k] # VOID_IDX
    BY <1>6, <2>3, <2>6 DEF k
  <2>8. PageAhead(i) = framepage[k]
    BY <2>2 DEF k, PageAhead
  <2> QED BY <2>7, <2>8, <1>1
<1>8. {f \in Frames : framepage[f] # VOID_IDX} = 0 .. QueueLength - 1
  BY <1>1, <1>3, <1>6 DEF Frames
<1>9. Cardinality(0 .. QueueLength - 1) = QueueLength
  <2>1. QueueLength - 1 \in Int /\ 0 \in Int
    BY <1>3, <1>1
  <2>2. Cardinality(0 .. QueueLength - 1)
          = IF 0 > QueueLength - 1 THEN 0 ELSE QueueLength - 1 - 0 + 1
    BY <2>1, FS_Interval
  <2> QED BY <2>2, <1>3, <1>1
<1>10. ReplacementQueue = [i \in 1 .. QueueLength |-> QueueEntry(PageAhead(i))]
  BY <1>8, <1>9 DEF ReplacementQueue
<1> QED BY <1>3, <1>4, <1>5, <1>6, <1>7, <1>10 DEF QueueShape

\* Each page in memory stands at one place of the queue.
LEMMA PageHasOnePlace ==
  ASSUME HandInv, NEW p \in Pages, Present(p)
  PROVE  \E i \in 1 .. QueueLength :
           /\ PageAhead(i) = p
           /\ \A j \in 1 .. QueueLength : PageAhead(j) = p => j = i
<1> DEFINE f == frame[p]
<1>1. QueueShape /\ NFrames \in Nat /\ NFrames > 0
  BY ShapeOfQueue, SizesAssumption
<1>2. f \in Frames /\ framepage[f] = p /\ p # VOID_IDX
  BY VoidIsNoPage DEF HandInv, PagingInv, TablesInverse
<1>3. \A g \in Frames : framepage[g] = p => g = f
  BY <1>2 DEF HandInv, PagingInv, TablesInverse
<1> HIDE DEF f
<1>4. /\ Front \in Frames /\ Front \in Int /\ f \in Int /\ QueueLength \in Int
      /\ 0 <= f /\ f < NFrames /\ 0 <= Front /\ Front < NFrames
      /\ f < QueueLength /\ QueueLength <= NFrames
      /\ QueueLength < NFrames => Front = 0
  BY <1>1, <1>2 DEF QueueShape, Frames
<1> DEFINE i == IF f >= Front THEN f - Front + 1 ELSE f - Front + NFrames + 1
<1>5. i \in 1 .. QueueLength
  BY <1>1, <1>4
<1>6. ASSUME NEW j \in 1 .. QueueLength
      PROVE  /\ (Front + j - 1) % NFrames \in Frames
             /\ (Front + j - 1) % NFrames = f <=> j = i
  <2> DEFINE b == j - 1
  <2>1. b \in 0 .. NFrames /\ b < NFrames /\ j = b + 1 /\ b \in Int /\ Front + j - 1 = Front + b
    BY <1>1, <1>4
  <2> HIDE DEF b
  <2>2. /\ (Front + b) % NFrames = IF Front + b < NFrames THEN Front + b
                                                     ELSE Front + b - NFrames
        /\ (Front + b) % NFrames \in Frames
    BY <1>4, <2>1, WrapAround
  <2>3. (Front + b) % NFrames = f <=> b + 1 = i
    BY <1>1, <1>4, <2>1, <2>2
  <2> QED BY <2>1, <2>2, <2>3
<1> HIDE DEF i
<1>7. PageAhead(i) = p
  BY <1>2, <1>5, <1>6 DEF PageAhead
<1>8. ASSUME NEW j \in 1 .. QueueLength, PageAhead(j) = p
      PROVE  j = i
  BY <1>3, <1>6, <1>8 DEF PageAhead
<1> QED BY <1>5, <1>7, <1>8

\* The queue holds the pages in memory.
LEMMA QueueHoldsPresentPages ==
  ASSUME HandInv
  PROVE  /\ Len(ReplacementQueue) = QueueLength
         /\ \A i \in 1 .. QueueLength : Present(PageAhead(i))
         /\ \A i \in 1 .. QueueLength :
              ReplacementQueue[i] = QueueEntry(PageAhead(i))
         /\ \A p \in Pages : ~Present(p) => p \notin Policy!Resident
<1>1. QueueShape /\ NFrames \in Nat /\ NFrames > 0
  BY ShapeOfQueue, SizesAssumption
<1>2. /\ QueueLength \in Nat
      /\ ReplacementQueue = [i \in 1 .. QueueLength |-> QueueEntry(PageAhead(i))]
  BY <1>1 DEF QueueShape
<1> HIDE DEF ReplacementQueue, QueueLength
<1>3. Len(ReplacementQueue) = QueueLength
  BY <1>2
<1>4. ASSUME NEW i \in 1 .. QueueLength PROVE Present(PageAhead(i))
  <2> DEFINE b == i - 1
             k == (Front + b) % NFrames
  <2>1. b \in 0 .. NFrames /\ Front \in Frames /\ Front + i - 1 = Front + b
    BY <1>1 DEF QueueShape, Frames
  <2>2. k \in Frames
    BY <2>1, WrapAround
  <2>3. PageAhead(i) = framepage[k]
    BY <2>1 DEF PageAhead
  <2>4. framepage[k] # VOID_IDX
    BY <1>1, <2>3, VoidIsNoPage DEF QueueShape
  <2> QED BY <2>2, <2>3, <2>4 DEF HandInv, PagingInv, TablesInverse
<1>5. \A i \in 1 .. QueueLength :
        ReplacementQueue[i] = QueueEntry(PageAhead(i))
  BY <1>2
<1>6. ASSUME NEW p \in Pages, ~Present(p)
      PROVE  p \notin Policy!Resident
  <2>1. ASSUME NEW i \in 1 .. QueueLength
        PROVE  ReplacementQueue[i].page # p
    <3>1. ReplacementQueue[i] = QueueEntry(PageAhead(i))
      BY <1>5
    <3>3. QueueEntry(PageAhead(i)).page = PageAhead(i)
      BY DEF QueueEntry
    <3>2. Present(PageAhead(i))
      BY <1>4
    <3> QED BY <3>1, <3>2, <3>3, <1>6
  <2> QED BY <1>3, <2>1 DEF Policy!Resident
<1> QED BY <1>3, <1>4, <1>5, <1>6

LEMMA InitQueue == Init => Policy!Init
<1> SUFFICES ASSUME Init PROVE ReplacementQueue = <<>>
  BY DEF Policy!Init
<1>1. {f \in Frames : framepage[f] # VOID_IDX} = {}
  BY DEF Init
<1>2. Cardinality({f \in Frames : framepage[f] # VOID_IDX}) = 0
  BY <1>1, FS_EmptySet
<1>3. ReplacementQueue = [i \in 1 .. 0 |-> QueueEntry(PageAhead(i))]
  BY <1>2 DEF ReplacementQueue
<1> QED BY <1>3

\* Most steps leave the table alone and the hand where it is.
LEMMA QueueKept ==
  ASSUME UNCHANGED table, Front' = Front
  PROVE  ReplacementQueue' = ReplacementQueue
BY DEF ReplacementQueue, QueueEntry, Chances, PageAhead, table

\* The places as they are met after the hand has moved on by one.
LEMMA PlacesMoveUp ==
  ASSUME NEW a \in Frames
  PROVE  /\ \A i \in 1 .. NFrames - 1 :
              /\ (Rotated(a) + i - 1) % NFrames = (a + (i + 1) - 1) % NFrames
              /\ (a + (i + 1) - 1) % NFrames \in Frames \ {a}
         /\ (Rotated(a) + NFrames - 1) % NFrames = a
         /\ (a + 1 - 1) % NFrames = a
<1>1. NFrames \in Nat /\ NFrames > 0 /\ a \in Int /\ 0 <= a /\ a < NFrames
  BY SizesAssumption DEF Frames
<1>2. /\ Rotated(a) \in Frames /\ Rotated(a) \in Int
      /\ Rotated(a) = IF a + 1 < NFrames THEN a + 1 ELSE 0
  BY RotatedInFrames, RotatedWraps DEF Frames
<1>3. ASSUME NEW i \in 1 .. NFrames - 1
      PROVE  /\ (Rotated(a) + i - 1) % NFrames = (a + (i + 1) - 1) % NFrames
             /\ (a + (i + 1) - 1) % NFrames \in Frames \ {a}
  <2> DEFINE b == i - 1
             r == Rotated(a)
  <2>1. /\ i \in 0 .. NFrames /\ b \in 0 .. NFrames /\ i \in Int /\ b \in Int
        /\ i = b + 1 /\ b < NFrames /\ i < NFrames
        /\ Rotated(a) + i - 1 = r + b /\ a + (i + 1) - 1 = a + i
    BY <1>1, <1>2
  <2>2. r \in Frames /\ r \in Int /\ r = IF a + 1 < NFrames THEN a + 1 ELSE 0
    BY <1>2
  <2> HIDE DEF b, r
  <2>3. (r + b) % NFrames = IF r + b < NFrames THEN r + b ELSE r + b - NFrames
    BY <2>1, <2>2, WrapAround
  <2>4. /\ (a + i) % NFrames = IF a + i < NFrames THEN a + i
                                                ELSE a + i - NFrames
        /\ (a + i) % NFrames \in Frames
    BY <2>1, WrapAround
  <2>5. (r + b) % NFrames = (a + i) % NFrames
    BY <1>1, <2>1, <2>2, <2>3, <2>4
  <2>6. (a + i) % NFrames # a
    BY <1>1, <2>1, <2>4
  <2> QED BY <2>1, <2>4, <2>5, <2>6
<1>4. (Rotated(a) + NFrames - 1) % NFrames = a
  <2> DEFINE b == NFrames - 1
             r == Rotated(a)
  <2>1. /\ b \in 0 .. NFrames /\ b \in Int /\ b = NFrames - 1
        /\ Rotated(a) + NFrames - 1 = r + b
    BY <1>1, <1>2
  <2>2. r \in Frames /\ r \in Int /\ r = IF a + 1 < NFrames THEN a + 1 ELSE 0
    BY <1>2
  <2> HIDE DEF b, r
  <2>3. (r + b) % NFrames = IF r + b < NFrames THEN r + b ELSE r + b - NFrames
    BY <2>1, <2>2, WrapAround
  <2>4. (r + b) % NFrames = a
    BY <1>1, <2>1, <2>2, <2>3
  <2> QED BY <2>1, <2>4
<1>5. (a + 1 - 1) % NFrames = a
  <2>1. 0 \in 0 .. NFrames /\ a + 1 - 1 = a + 0 /\ a + 0 = a
    BY <1>1
  <2>2. (a + 0) % NFrames = IF a + 0 < NFrames THEN a + 0 ELSE a + 0 - NFrames
    BY <2>1, WrapAround
  <2> QED BY <1>1, <2>1, <2>2
<1> QED BY <1>3, <1>4, <1>5

\* When the head leaves and an entry joins, all others move up by one.
LEMMA MoveUp ==
  ASSUME NEW X, NEW s \in Seq(X), NEW t \in Seq(X), NEW e \in X,
         Len(s) # 0, Len(t) = Len(s),
         \A i \in 1 .. Len(s) - 1 : t[i] = s[i + 1],
         t[Len(s)] = e
  PROVE  t = Append(Tail(s), e)
<1> DEFINE n == Len(s)
           u == Append(Tail(s), e)
<1>1. n \in Nat /\ n > 0
  OBVIOUS
<1>2. Tail(s) \in Seq(X) /\ Len(Tail(s)) = n - 1
      /\ \A i \in 1 .. n - 1 : Tail(s)[i] = s[i + 1]
  BY <1>1
<1>3. u \in Seq(X) /\ Len(u) = n
      /\ (\A i \in 1 .. n - 1 : u[i] = Tail(s)[i]) /\ u[n] = e
  BY <1>1, <1>2
<1>4. \A i \in 1 .. n : t[i] = u[i]
  BY <1>1, <1>2, <1>3
<1> HIDE DEF u
<1>5. t = u
  BY <1>1, <1>3, <1>4
<1> QED BY <1>5 DEF u

\* An entry joins at the end.
LEMMA JoinAtEnd ==
  ASSUME NEW X, NEW s \in Seq(X), NEW t \in Seq(X), NEW e \in X,
         Len(t) = Len(s) + 1,
         \A i \in 1 .. Len(s) : t[i] = s[i],
         t[Len(s) + 1] = e
  PROVE  t = Append(s, e)
<1> DEFINE u == Append(s, e)
<1>1. u \in Seq(X) /\ Len(u) = Len(s) + 1 /\ Len(s) \in Nat
      /\ (\A i \in 1 .. Len(s) : u[i] = s[i]) /\ u[Len(s) + 1] = e
  OBVIOUS
<1> HIDE DEF u
<1>2. \A i \in 1 .. Len(t) : t[i] = u[i]
  BY <1>1
<1>3. t = u
  BY <1>1, <1>2
<1> QED BY <1>3 DEF u

Entries == [page : Pages, chances : 0 .. 2]

LEMMA ChancesTyped == \A p \in Pages : QueueEntry(p) \in Entries
BY DEF QueueEntry, Entries, Chances, ChancesIn

LEMMA QueueTyped == HandInv => ReplacementQueue \in Seq(Entries)
<1> SUFFICES ASSUME HandInv PROVE ReplacementQueue \in Seq(Entries)
  OBVIOUS
<1>1. QueueShape
  BY ShapeOfQueue
<1>2. \A i \in 1 .. QueueLength : QueueEntry(PageAhead(i)) \in Entries
  BY <1>1, ChancesTyped DEF QueueShape
<1>3. QueueLength \in Nat
  BY <1>1, SizesAssumption DEF QueueShape
<1> HIDE DEF QueueLength
<1>4. ReplacementQueue = [i \in 1 .. QueueLength |-> QueueEntry(PageAhead(i))]
  BY <1>1 DEF QueueShape
<1> HIDE DEF ReplacementQueue, QueueEntry, PageAhead
<1> QED BY <1>2, <1>3, <1>4

LEMMA QuietStepsKeepQueue ==
  ASSUME NEW c \in Clients, HandInv,
         \/ UNCHANGED vars
         \/ BeginAccess(c) \/ CheckPresent(c) \/ RaiseFault(c)
         \/ AwaitPage(c) \/ Transfer(c)
         \/ EnterFault \/ TakeFreeFrame \/ TakeVictim \/ StorePage
         \/ FetchPage \/ PostSema \/ LeaveFault
  PROVE  ReplacementQueue' = ReplacementQueue
<1> USE DEF table, counts, manager, store, clients
<1>1. UNCHANGED table
  BY DEF vars, BeginAccess, CheckPresent, RaiseFault, AwaitPage, Transfer,
         EnterFault, TakeFreeFrame, TakeVictim, StorePage, FetchPage,
         PostSema, LeaveFault
<1>2. Front' = Front
  <2>1. CASE \/ UNCHANGED vars
             \/ BeginAccess(c) \/ CheckPresent(c) \/ RaiseFault(c)
             \/ AwaitPage(c) \/ Transfer(c)
             \/ EnterFault \/ StorePage \/ FetchPage \/ PostSema \/ LeaveFault
    BY <2>1
    DEF vars, BeginAccess, CheckPresent, RaiseFault, AwaitPage, Transfer,
        EnterFault, StorePage, FetchPage, PostSema, LeaveFault,
        Front, Evicting
  <2>2. CASE TakeFreeFrame
    <3>1. size \in Frames /\ size >= size
      BY <2>2, SizesAssumption
      DEF TakeFreeFrame, FramesAreOccupied, Frames, HandInv, PagingInv,
          TypeInv, TypeOK
    <3>2. framepage[size] = VOID_IDX
      BY <3>1 DEF HandInv, PagingInv, FillOrder
    <3> QED BY <2>2, <3>2 DEF TakeFreeFrame, Front, Evicting
  <2>3. CASE TakeVictim
    <3>1. /\ next_alloc_idx \in Frames /\ size >= NFrames
          /\ mm = "search" /\ size \in Nat
      BY <2>3 DEF TakeVictim, FramesAreOccupied, HandInv, PagingInv, TypeInv,
         TypeOK
    <3>2. next_alloc_idx < size
      BY <3>1, SizesAssumption DEF Frames
    <3>3. framepage[next_alloc_idx] # VOID_IDX
      BY <3>1, <3>2 DEF HandInv, PagingInv, FillOrder
    <3> QED BY <2>3, <3>1, <3>3 DEF TakeVictim, Front, Evicting
  <2> QED BY <2>1, <2>2, <2>3
<1> QED BY <1>1, <1>2, QueueKept

\* countUsed adds a chance, up to the last one.
LEMMA UseEarnsChance ==
  ASSUME NEW fl \in SUBSET PTF, NEW m, m = {} \/ m = {"CHANGED"},
         Algo = "CLOCK2" /\ "USEDBIT2" \in fl => "USEDBIT1" \in fl
  PROVE  ChancesIn(MarkUsed(fl) \union m)
           = IF ChancesIn(fl) < MaxChances THEN ChancesIn(fl) + 1
                                           ELSE ChancesIn(fl)
<1> DEFINE new == MarkUsed(fl) \union m
<1>1. /\ "USEDBIT1" \in new
      /\ "USEDBIT2" \in new <=> "USEDBIT1" \in fl \/ "USEDBIT2" \in fl
  BY DEF MarkUsed
<1> HIDE DEF new
<1>2. ChancesIn(new) = IF ChancesIn(fl) < MaxChances THEN ChancesIn(fl) + 1
                                                     ELSE ChancesIn(fl)
  <2>1. CASE Algo = "FIFO"
    <3>1. MaxChances = 0
      BY <2>1 DEF MaxChances
    <3> QED BY <2>1, <3>1 DEF ChancesIn
  <2>2. CASE Algo = "CLOCK"
    <3>1. MaxChances = 1
      BY <2>2 DEF MaxChances
    <3> QED BY <1>1, <2>2, <3>1 DEF ChancesIn
  <2>3. CASE Algo = "CLOCK2"
    <3>1. MaxChances = 2
      BY <2>3 DEF MaxChances
    <3> QED BY <1>1, <2>3, <3>1 DEF ChancesIn
  <2> QED BY <2>1, <2>2, <2>3, BuildAssumption
<1> QED BY <1>2 DEF new

\* The clocks take one chance from a page they pass, and it had one.
LEMMA PassSpendsChance ==
  ASSUME NEW fl \in SUBSET PTF, Algo # "FIFO", "USEDBIT1" \in fl
  PROVE  /\ ChancesIn(fl) \in {1, 2}
         /\ ChancesIn(SpendChance(fl)) = ChancesIn(fl) - 1
<1>1. CASE Algo = "CLOCK"
  BY <1>1 DEF ChancesIn, SpendChance
<1>2. CASE Algo = "CLOCK2" /\ "USEDBIT2" \in fl
  BY <1>2 DEF ChancesIn, SpendChance
<1>3. CASE Algo = "CLOCK2" /\ "USEDBIT2" \notin fl
  BY <1>3 DEF ChancesIn, SpendChance
<1> QED BY <1>1, <1>2, <1>3, BuildAssumption

\* countUsed gives the page another chance, if it has not all of them.
LEMMA TouchUses ==
  ASSUME NEW c \in Clients, Clients = {c}, HandInv, HandInv', Touch(c)
  PROVE  Policy!Use \/ UNCHANGED ReplacementQueue
<1> DEFINE q == Page(c)
           L == QueueLength
           Later(p) == ChancesIn(flags'[p])
<1>1. /\ q \in Pages /\ Present(q) /\ flags \in [Pages -> SUBSET PTF]
      /\ mm \notin {"evict", "remap"}
  BY DEF Touch, HandInv, PagingInv, TypeInv, TypeOK, LocalsInRange, Handshake,
         Quiet, ServesFault, ServedPageIsPresent
<1>2. /\ UNCHANGED <<mm, new_frame, framepage, size, next_alloc_idx>>
      /\ flags' = [flags EXCEPT ![q] = MarkUsed(@) \union MarkChanged(c)]
  BY DEF Touch, table, counts, manager
<1>3. L' = L /\ Front' = Front
  BY <1>1, <1>2 DEF QueueLength, Filling, Evicting, Front
<1>4. \A i \in 1 .. L : PageAhead(i)' = PageAhead(i)
  BY <1>2, <1>3 DEF PageAhead
<1>5. \A p \in Pages : p # q => Later(p) = Chances(p)
  BY <1>1, <1>2 DEF Chances
<1>6. Later(q) = IF Chances(q) < MaxChances THEN Chances(q) + 1 ELSE Chances(q)
  <2>1. flags'[q] = MarkUsed(flags[q]) \union MarkChanged(c)
    BY <1>1, <1>2
  <2>2. MarkChanged(c) = {} \/ MarkChanged(c) = {"CHANGED"}
    BY DEF MarkChanged
  <2>3. /\ flags[q] \in SUBSET PTF
        /\ Algo = "CLOCK2" /\ "USEDBIT2" \in flags[q] => "USEDBIT1" \in flags[q]
    BY <1>1 DEF HandInv, UsedBitsInOrder
  <2> QED BY <2>1, <2>2, <2>3, UseEarnsChance DEF Chances
<1>7. PICK i \in 1 .. L : /\ PageAhead(i) = q
                          /\ \A j \in 1 .. L : PageAhead(j) = q => j = i
  BY <1>1, PageHasOnePlace
<1>8. QueueShape /\ QueueShape'
  BY ShapeOfQueue, PTL
<1>9. /\ ReplacementQueue = [j \in 1 .. L |->
                [page |-> PageAhead(j), chances |-> Chances(PageAhead(j))]]
      /\ \A j \in 1 .. L : PageAhead(j) \in Pages
  BY <1>8 DEF QueueShape, QueueEntry
<1>10. ReplacementQueue' = [j \in 1 .. L |->
                [page |-> PageAhead(j), chances |-> Later(PageAhead(j))]]
  BY <1>3, <1>4, <1>8 DEF QueueShape, QueueEntry, Chances
<1> HIDE DEF q, L, Later
<1>11. \A j \in 1 .. L : j # i => Later(PageAhead(j)) = Chances(PageAhead(j))
  BY <1>5, <1>7, <1>9
<1>12. CASE Chances(q) < MaxChances
  <2>1. Len(ReplacementQueue) = L
    BY QueueHoldsPresentPages DEF L
  <2>2. ReplacementQueue[i].chances = Chances(q)
    BY <1>7, <1>9
  <2>3. ReplacementQueue'
          = [ReplacementQueue EXCEPT ![i].chances = Chances(q) + 1]
    BY <1>6, <1>7, <1>9, <1>10, <1>11, <1>12
  <2> QED BY <2>1, <2>2, <2>3, <1>12 DEF Policy!Use
<1>13. CASE ~(Chances(q) < MaxChances)
  <2>1. \A j \in 1 .. L : Later(PageAhead(j)) = Chances(PageAhead(j))
    BY <1>6, <1>7, <1>11, <1>13
  <2> QED BY <1>9, <1>10, <2>1
<1> QED BY <1>12, <1>13

\* The head of the queue is the page under the hand.
LEMMA HeadOfQueue ==
  ASSUME HandInv, FramesAreOccupied, ~Filling
  PROVE  /\ QueueLength = NFrames /\ Len(ReplacementQueue) = NFrames
         /\ PageAhead(1) = framepage[Front]
         /\ Head(ReplacementQueue) = QueueEntry(framepage[Front])
<1>1. /\ NFrames \in Nat /\ NFrames > 0 /\ QueueLength = NFrames
      /\ Front \in Frames
  BY ShapeOfQueue, SizesAssumption
  DEF HandInv, PagingInv, TypeInv, TypeOK, QueueLength, FramesAreOccupied,
      QueueShape
<1>2. Len(ReplacementQueue) = NFrames
  BY <1>1, QueueHoldsPresentPages
<1>3. PageAhead(1) = framepage[Front]
  BY <1>1, PlacesMoveUp DEF PageAhead
<1>4. ReplacementQueue[1] = QueueEntry(PageAhead(1))
  BY <1>1, QueueHoldsPresentPages
<1>5. Head(ReplacementQueue) = ReplacementQueue[1]
  BY <1>1, <1>2, QueueTyped
<1> QED BY <1>1, <1>2, <1>3, <1>4, <1>5

\* The clocks pass a page: it goes to the end of the queue.
LEMMA PassFramePassesOver ==
  ASSUME HandInv, HandInv', PassFrame
  PROVE  Policy!PassOver
<1> DEFINE h == next_alloc_idx
           v == framepage[h]
           Q == ReplacementQueue
           T == ReplacementQueue'
           Later(p) == ChancesIn(flags'[p])
           e == [page |-> v, chances |-> Chances(v) - 1]
<1>1. /\ NFrames \in Nat /\ NFrames > 0 /\ h \in Frames
      /\ FramesAreOccupied /\ ~Filling /\ Front = h
      /\ flags \in [Pages -> SUBSET PTF]
  BY SizesAssumption
  DEF PassFrame, Filling, Evicting, Front, HandInv, PagingInv, TypeInv, TypeOK
<1>2. /\ UNCHANGED <<mm, new_frame, framepage, size>>
      /\ h' = Rotated(h) /\ Front' = Rotated(h)
      /\ flags' = [flags EXCEPT ![v] = SpendChance(@)]
      /\ Algo # "FIFO" /\ "USEDBIT1" \in flags[v]
  BY DEF PassFrame, table, counts, manager, IsSpared, Front, Evicting
<1>3. /\ QueueLength = NFrames /\ Len(Q) = NFrames /\ Head(Q) = QueueEntry(v)
      /\ PageAhead(1) = v
  BY <1>1, HeadOfQueue
<1>4. QueueLength' = NFrames
  BY <1>2, <1>3 DEF QueueLength, Filling
<1>5. QueueShape /\ QueueShape'
  BY ShapeOfQueue, PTL
<1>6. v \in Pages
  BY <1>1, <1>3, <1>5 DEF QueueShape
<1>7. /\ Chances(v) \in {1, 2} /\ Later(v) = Chances(v) - 1
      /\ \A p \in Pages : p # v => Later(p) = Chances(p)
  <2>1. flags'[v] = SpendChance(flags[v]) /\ flags[v] \in SUBSET PTF
    BY <1>1, <1>2, <1>6
  <2>2. \A p \in Pages : p # v => flags'[p] = flags[p]
    BY <1>1, <1>2, <1>6
  <2> QED BY <1>2, <2>1, <2>2, PassSpendsChance DEF Chances
<1>8. /\ \A i \in 1 .. NFrames : Q[i] = QueueEntry(PageAhead(i))
      /\ \A i \in 1 .. NFrames : PageAhead(i) = framepage[(h + i - 1) % NFrames]
      /\ \A i \in 1 .. NFrames : PageAhead(i) \in Pages
  BY <1>1, <1>3, <1>5, QueueHoldsPresentPages DEF PageAhead, QueueShape
<1>9. T = [i \in 1 .. NFrames |->
             LET p == framepage[(Rotated(h) + i - 1) % NFrames]
             IN [page |-> p, chances |-> Later(p)]]
  BY <1>2, <1>4, <1>5 DEF QueueShape, QueueEntry, PageAhead, Chances
<1>10. ASSUME NEW i \in 1 .. NFrames - 1 PROVE T[i] = Q[i + 1]
  <2>1. /\ i \in 1 .. NFrames /\ i + 1 \in 1 .. NFrames
    BY <1>1
  <2> DEFINE k == (h + (i + 1) - 1) % NFrames
             p == framepage[k]
  <2>2. (Rotated(h) + i - 1) % NFrames = k /\ k \in Frames \ {h}
    BY <1>1, PlacesMoveUp
  <2>3. PageAhead(i + 1) = p /\ p \in Pages
    BY <1>8, <2>1
  <2>4. p # v
    BY <1>1, <1>6, <2>2, <2>3, VoidIsNoPage
    DEF HandInv, PagingInv, TablesInverse
  <2>5. Later(p) = Chances(p)
    BY <1>7, <2>3, <2>4
  <2>6. T[i] = [page |-> p, chances |-> Later(p)]
    BY <1>9, <2>1, <2>2
  <2>7. Q[i + 1] = [page |-> p, chances |-> Chances(p)]
    BY <1>8, <2>1, <2>3 DEF QueueEntry
  <2> QED BY <2>5, <2>6, <2>7
<1>11. T[NFrames] = e
  <2>1. (Rotated(h) + NFrames - 1) % NFrames = h /\ NFrames \in 1 .. NFrames
    BY <1>1, PlacesMoveUp
  <2> QED BY <1>7, <1>9, <2>1
<1>12. Q \in Seq(Entries) /\ T \in Seq(Entries) /\ e \in Entries
  <2>1. (ReplacementQueue \in Seq(Entries))'
    BY QueueTyped, PTL
  <2>3. T \in Seq(Entries)
    BY <2>1
  <2>2. e \in Entries
    BY <1>6, <1>7 DEF Entries
  <2> QED BY <2>2, <2>3, QueueTyped
<1>13. Len(T) = NFrames
  <2>1. (Len(ReplacementQueue) = QueueLength)'
    BY QueueHoldsPresentPages, PTL
  <2> QED BY <2>1, <1>4
<1>14. Head(Q).chances > 0 /\ e = [Head(Q) EXCEPT !.chances = @ - 1]
  BY <1>3, <1>7 DEF QueueEntry
<1> HIDE DEF Q, T, e, h, v, Later
<1>15. T = Append(Tail(Q), e)
  BY <1>1, <1>3, <1>10, <1>11, <1>12, <1>13, MoveUp
<1> QED BY <1>3, <1>14, <1>15 DEF Policy!PassOver, Q, T

\* update_pt of a free frame: the page joins the queue.
LEMMA UpdatePtLoads ==
  ASSUME NEW c \in Clients, HandInv, HandInv', UpdatePt, Filling
  PROVE  Policy!LoadFree
<1> DEFINE p == req_pageno
           L == QueueLength
           Q == ReplacementQueue
           T == ReplacementQueue'
           Later(x) == ChancesIn(flags'[x])
           e == [page |-> p, chances |-> 0]
<1>1. /\ p \in Pages /\ ~Present(p)
      /\ flags \in [Pages -> SUBSET PTF]
      /\ framepage \in [Frames -> Pages \union {VOID_IDX}]
      /\ new_frame \in Frames /\ NFrames \in Nat /\ NFrames > 0
      /\ size \in 0 .. NFrames
  <2>1. ServesFault /\ mm = "remap"
    BY DEF ServesFault, UpdatePt
  <2>2. req_pageno = Page(c) /\ Page(c) \in Pages /\ pc[c] = "wait"
    BY <2>1, ManagerWorksForWaiting DEF HandInv
  <2>3. ~Present(Page(c))
    BY <2>1, <2>2 DEF HandInv, PagingInv, Handshake
  <2> QED BY <2>1, <2>2, <2>3, SizesAssumption
          DEF HandInv, PagingInv, TypeInv, TypeOK, LocalsInRange
<1>2. /\ framepage[new_frame] = VOID_IDX /\ new_frame = size - 1 /\ size > 0
      /\ L = size - 1 /\ L \in Nat /\ L < NFrames
      /\ Front = 0 /\ 0 \in Frames
  <2>1. framepage[new_frame] = VOID_IDX /\ new_frame = size - 1
    BY DEF Filling, HandInv, HandPosition
  <2>2. L = size - 1 /\ L \in Nat /\ L < NFrames
    BY <1>1, <2>1 DEF QueueLength, Frames
  <2>3. Front = 0 /\ Front \in Frames
    BY <2>2, ShapeOfQueue DEF QueueShape
  <2> QED BY <1>1, <2>1, <2>2, <2>3
<1>3. /\ flags' = [x \in Pages |-> IF x = p THEN flags[p] \union {"PRESENT"}
                                            ELSE flags[x]]
      /\ framepage' = [framepage EXCEPT ![new_frame] = p]
      /\ size' = size /\ mm' = "fetch"
  <2>1. UnloadFlags(VOID_IDX) = flags
    BY <1>1, VoidIsNoPage DEF UnloadFlags
  <2> QED BY <1>1, <1>2, <2>1 DEF UpdatePt
<1>4. L' = L + 1
  BY <1>1, <1>2, <1>3 DEF QueueLength, Filling
<1>5. Front' = 0
  BY <1>2, <1>3 DEF UpdatePt, Front, Evicting, Filling
<1>6. QueueShape /\ QueueShape'
  BY ShapeOfQueue, PTL
<1>7. Later(p) = 0 /\ \A x \in Pages : x # p => Later(x) = Chances(x)
  <2>1. flags[p] = {}
    BY <1>1 DEF HandInv, PagingInv, TablesInverse
  <2> QED BY <1>1, <1>3, <2>1 DEF Chances, ChancesIn
<1>8. /\ \A i \in 1 .. L : Q[i] = QueueEntry(PageAhead(i))
      /\ \A i \in 1 .. L : PageAhead(i) \in Pages /\ PageAhead(i) # p
      /\ \A i \in 1 .. L : PageAhead(i) = framepage[(0 + i - 1) % NFrames]
      /\ Len(Q) = L
  <2>1. \A i \in 1 .. L : Present(PageAhead(i))
    BY QueueHoldsPresentPages
  <2> QED BY <1>1, <1>2, <1>6, <2>1, QueueHoldsPresentPages DEF PageAhead, QueueShape
<1>9. T = [i \in 1 .. L + 1 |->
             LET x == framepage'[(0 + i - 1) % NFrames]
             IN [page |-> x, chances |-> Later(x)]]
  BY <1>4, <1>5, <1>6 DEF QueueShape, QueueEntry, PageAhead, Chances
<1>10. ASSUME NEW i \in 1 .. L + 1
       PROVE  (0 + i - 1) % NFrames = i - 1 /\ i - 1 \in Frames
  <2> DEFINE b == i - 1
  <2>1. b \in 0 .. NFrames /\ b \in Int /\ 0 + i - 1 = 0 + b /\ 0 + b = b /\ b < NFrames
    BY <1>1, <1>2
  <2> HIDE DEF b
  <2>2. (0 + b) % NFrames = b /\ (0 + b) % NFrames \in Frames
    BY <2>1, <1>1, <1>2, WrapAround
  <2> QED BY <2>1, <2>2 DEF b
<1>11. ASSUME NEW i \in 1 .. L PROVE T[i] = Q[i]
  <2> DEFINE x == framepage[i - 1]
  <2>1. i \in 1 .. L + 1 /\ i - 1 # new_frame
    BY <1>1, <1>2
  <2>2. i - 1 \in Frames /\ (0 + i - 1) % NFrames = i - 1
    BY <2>1, <1>10
  <2>3. framepage'[i - 1] = x
    BY <2>1, <2>2, <1>1, <1>3
  <2>4. PageAhead(i) = x /\ x \in Pages /\ x # p
    BY <1>8, <2>2
  <2>5. T[i] = [page |-> x, chances |-> Later(x)]
    BY <1>9, <2>1, <2>2, <2>3
  <2>6. Q[i] = [page |-> x, chances |-> Chances(x)]
    BY <1>8, <2>4 DEF QueueEntry
  <2> QED BY <1>7, <2>4, <2>5, <2>6
<1>12. T[L + 1] = e
  <2> DEFINE m == L + 1
  <2>1. m \in 1 .. L + 1 /\ m - 1 = new_frame
    BY <1>1, <1>2
  <2> HIDE DEF m
  <2>2. (0 + m - 1) % NFrames = new_frame
    BY <2>1, <1>10
  <2>3. framepage'[new_frame] = p
    BY <1>1, <1>3
  <2>4. T[m] = e
    BY <1>7, <1>9, <2>1, <2>2, <2>3
  <2> QED BY <2>4 DEF m
<1>13. Q \in Seq(Entries) /\ T \in Seq(Entries) /\ e \in Entries
  <2>1. (ReplacementQueue \in Seq(Entries))'
    BY QueueTyped, PTL
  <2>2. T \in Seq(Entries)
    BY <2>1
  <2>3. e \in Entries
    BY <1>1 DEF Entries
  <2> QED BY <2>2, <2>3, QueueTyped
<1>14. Len(T) = L + 1
  <2>1. (Len(ReplacementQueue) = QueueLength)'
    BY QueueHoldsPresentPages, PTL
  <2> QED BY <2>1, <1>4
<1>15. p \in Pages \ Policy!Resident
  BY <1>1, QueueHoldsPresentPages
<1> HIDE DEF Q, T, e, L, Later
<1>16. T = Append(Q, e)
  BY <1>8, <1>11, <1>12, <1>13, <1>14, JoinAtEnd
<1> QED BY <1>2, <1>8, <1>15, <1>16 DEF Policy!LoadFree, Policy!Fresh, Q, T, e

\* update_pt of a victim: the page takes the place of the head.
LEMMA UpdatePtReplaces ==
  ASSUME NEW c \in Clients, HandInv, HandInv', UpdatePt, ~Filling
  PROVE  Policy!Replace
<1> DEFINE p == req_pageno
           n == new_frame
           old == framepage[n]
           Q == ReplacementQueue
           T == ReplacementQueue'
           Later(x) == ChancesIn(flags'[x])
           e == [page |-> p, chances |-> 0]
<1>1. /\ p \in Pages /\ ~Present(p)
      /\ flags \in [Pages -> SUBSET PTF]
      /\ framepage \in [Frames -> Pages \union {VOID_IDX}]
      /\ n \in Frames /\ NFrames \in Nat /\ NFrames > 0
      /\ size \in 0 .. NFrames
  <2>1. ServesFault /\ mm = "remap"
    BY DEF ServesFault, UpdatePt
  <2>2. req_pageno = Page(c) /\ Page(c) \in Pages /\ pc[c] = "wait"
    BY <2>1, ManagerWorksForWaiting DEF HandInv
  <2>3. ~Present(Page(c))
    BY <2>1, <2>2 DEF HandInv, PagingInv, Handshake
  <2> QED BY <2>1, <2>2, <2>3, SizesAssumption
          DEF HandInv, PagingInv, TypeInv, TypeOK, LocalsInRange
<1>2. /\ Evicting /\ old \in Pages /\ p # old
      /\ FramesAreOccupied
      /\ Front = n /\ next_alloc_idx = Rotated(n) /\ Chances(old) = 0
  <2>1. old # VOID_IDX /\ Evicting
    BY DEF UpdatePt, Filling, Evicting
  <2>2. old \in Pages /\ Present(old)
    BY <1>1, <2>1 DEF HandInv, PagingInv, TablesInverse
  <2>3. FramesAreOccupied
    BY <2>1 DEF UpdatePt, HandInv, PagingInv, FillOrder
  <2> QED BY <1>1, <2>1, <2>2, <2>3 DEF Front, HandInv, HandPosition
<1>3. /\ flags'[p] = {"PRESENT"}
      /\ \A x \in Pages : x # p /\ x # old => flags'[x] = flags[x]
      /\ framepage' = [framepage EXCEPT ![n] = p]
      /\ UNCHANGED <<size, next_alloc_idx>> /\ mm' = "fetch"
  <2>1. flags[p] = {}
    BY <1>1 DEF HandInv, PagingInv, TablesInverse
  <2> QED BY <1>1, <1>2, <2>1 DEF UpdatePt, UnloadFlags
<1>4. /\ QueueLength = NFrames /\ Len(Q) = NFrames
      /\ Head(Q) = QueueEntry(old)
  BY <1>2, HeadOfQueue
<1>5. QueueLength' = NFrames /\ Front' = Rotated(n)
  BY <1>2, <1>3, <1>4 DEF QueueLength, Filling, Front, Evicting
<1>6. QueueShape /\ QueueShape'
  BY ShapeOfQueue, PTL
<1>7. /\ Later(p) = 0
      /\ \A x \in Pages : x # p /\ x # old => Later(x) = Chances(x)
  BY <1>1, <1>3 DEF Chances, ChancesIn
<1>8. /\ \A i \in 1 .. NFrames : Q[i] = QueueEntry(PageAhead(i))
      /\ \A i \in 1 .. NFrames : PageAhead(i) \in Pages /\ PageAhead(i) # p
      /\ \A i \in 1 .. NFrames : PageAhead(i) = framepage[(n + i - 1) % NFrames]
  <2>1. \A i \in 1 .. NFrames : Present(PageAhead(i))
    BY <1>4, QueueHoldsPresentPages
  <2> QED BY <1>1, <1>2, <1>4, <1>6, <2>1, QueueHoldsPresentPages
          DEF PageAhead, QueueShape
<1>9. T = [i \in 1 .. NFrames |->
             LET x == framepage'[(Rotated(n) + i - 1) % NFrames]
             IN [page |-> x, chances |-> Later(x)]]
  BY <1>5, <1>6 DEF QueueShape, QueueEntry, PageAhead, Chances
<1>10. ASSUME NEW i \in 1 .. NFrames - 1 PROVE T[i] = Q[i + 1]
  <2> DEFINE k == (n + (i + 1) - 1) % NFrames
             x == framepage[k]
  <2>1. i \in 1 .. NFrames /\ i + 1 \in 1 .. NFrames
    BY <1>1
  <2>2. (Rotated(n) + i - 1) % NFrames = k /\ k \in Frames \ {n}
    BY <1>1, PlacesMoveUp
  <2>3. PageAhead(i + 1) = x /\ x \in Pages /\ x # p
    BY <1>8, <2>1
  <2>4. x # old
    BY <1>1, <1>2, <2>2, <2>3, VoidIsNoPage
    DEF HandInv, PagingInv, TablesInverse
  <2>5. framepage'[k] = x
    BY <1>1, <1>3, <2>2
  <2>6. Later(x) = Chances(x)
    BY <1>7, <2>3, <2>4
  <2>7. T[i] = [page |-> x, chances |-> Later(x)]
    BY <1>9, <2>1, <2>2, <2>5
  <2>8. Q[i + 1] = [page |-> x, chances |-> Chances(x)]
    BY <1>8, <2>1, <2>3 DEF QueueEntry
  <2> QED BY <2>6, <2>7, <2>8
<1>11. T[NFrames] = e
  <2>1. (Rotated(n) + NFrames - 1) % NFrames = n /\ NFrames \in 1 .. NFrames
    BY <1>1, PlacesMoveUp
  <2>2. framepage'[n] = p
    BY <1>1, <1>3
  <2> QED BY <1>7, <1>9, <2>1, <2>2
<1>12. Q \in Seq(Entries) /\ T \in Seq(Entries) /\ e \in Entries
  <2>1. (ReplacementQueue \in Seq(Entries))'
    BY QueueTyped, PTL
  <2>2. T \in Seq(Entries)
    BY <2>1
  <2>3. e \in Entries
    BY <1>1 DEF Entries
  <2> QED BY <2>2, <2>3, QueueTyped
<1>13. Len(T) = NFrames
  <2>1. (Len(ReplacementQueue) = QueueLength)'
    BY QueueHoldsPresentPages, PTL
  <2> QED BY <2>1, <1>5
<1>14. p \in Pages \ Policy!Resident
  BY <1>1, QueueHoldsPresentPages
<1>15. Head(Q).chances = 0
  BY <1>2, <1>4 DEF QueueEntry
<1> HIDE DEF Q, T, e, n, old, Later
<1>16. T = Append(Tail(Q), e)
  BY <1>1, <1>4, <1>10, <1>11, <1>12, <1>13, MoveUp
<1> QED BY <1>4, <1>14, <1>15, <1>16
        DEF Policy!Replace, Policy!Fresh, Q, T, e

LEMMA StepPolicy ==
  ASSUME NEW c \in Clients, Clients = {c}
  PROVE  HandInv /\ [Next]_vars => [Policy!Next]_ReplacementQueue
<1> SUFFICES ASSUME HandInv, [Next]_vars
             PROVE  [Policy!Next]_ReplacementQueue
  OBVIOUS
<1>1. HandInv'
  BY StepHandInv
<1>2. CASE \/ UNCHANGED vars
           \/ BeginAccess(c) \/ CheckPresent(c) \/ RaiseFault(c)
           \/ AwaitPage(c) \/ Transfer(c)
           \/ EnterFault \/ TakeFreeFrame \/ TakeVictim \/ StorePage
           \/ FetchPage \/ PostSema \/ LeaveFault
  BY <1>2, QuietStepsKeepQueue
<1>3. CASE Touch(c)
  BY <1>1, <1>3, TouchUses DEF Policy!Next
<1>4. CASE PassFrame
  BY <1>1, <1>4, PassFramePassesOver DEF Policy!Next
<1>5. CASE UpdatePt
  BY <1>1, <1>5, UpdatePtLoads, UpdatePtReplaces DEF Policy!Next
<1> QED BY <1>2, <1>3, <1>4, <1>5 DEF Next, Proceed, ManagerStep

\* For one client, every number of pages and frames and all three algorithms,
\* the hand, the used bits and update_pt choose the victims that the
\* second-chance queue chooses.
THEOREM ReplacementIsSecondChance ==
  ASSUME NEW c \in Clients, Clients = {c}
  PROVE  Spec => ImplementsSecondChance
<1>1. Spec => []HandInv
  BY InitHandInv, StepHandInv, PTL DEF Spec
<1> QED BY <1>1, InitQueue, StepPolicy, PTL
        DEF Spec, ImplementsSecondChance, Policy!Spec
=============================================================================
