---------------------------- MODULE VMApplProofs ----------------------------
(***************************************************************************)
(* The demo application sorts its array, for every length, every size of   *)
(* the memory and every replacement algorithm.  The first part turns the   *)
(* calls of the virtual memory into plain reads and writes of Soon, the    *)
(* memory once the call under way has returned, and of Heard, the answer   *)
(* to the last vmem_read.  The rest is the quicksort of vmappl.c.          *)
(***************************************************************************)
EXTENDS VMAppl, PagingProofs, SequenceTheorems

\* A call of vmem_write is under way.
Writing == ~Returned /\ request[Me].op = "write"

\* The memory once that call has returned.
Soon == IF Writing THEN [FlatView EXCEPT ![request[Me].addr] = request[Me].val]
                   ELSE FlatView

\* What the last vmem_read has returned, or will return.
Heard == IF Returned \/ request[Me].op = "write" THEN result[Me]
                                                 ELSE FlatView[request[Me].addr]

LEMMA MeIsAlone == Me \in Clients /\ Clients = {Me}
<1>1. PICK c : Clients = {c}  BY ApplicationAssumption, FS_Singleton
<1> QED  BY <1>1 DEF Me

LEMMA ElementsAreAddresses ==
  /\ Length \in Nat \ {0} /\ \A k \in Elements : k \in Addresses
  /\ \A k : k \in Elements <=> k \in Int /\ 0 <= k /\ k < Length
<1>1. NPages * PageSize \in Nat  BY SizesAssumption
<1> DEFINE n == NPages * PageSize
<1> HIDE DEF n
<1>2. n \in Nat /\ Length \in 1 .. n  BY <1>1, ApplicationAssumption DEF n
<1>3. \A k \in 0 .. Length - 1 : k \in 0 .. n - 1  BY <1>2
<1> QED  BY <1>2, <1>3 DEF Elements, Addresses, n

\* The application's steps are steps of the virtual memory.
LEMMA ApplStepsAreSteps == [ApplNext]_avars => [Next]_vars
<1> SUFFICES ASSUME [ApplNext]_avars PROVE [Next]_vars  OBVIOUS
<1>1. ASSUME NEW q, Call(q) PROVE Next
  BY <1>1, MeIsAlone DEF Call, Next
<1>2. CASE VMem  BY <1>2, MeIsAlone DEF VMem, Next
<1>3. CASE Main
  <2>1. UNCHANGED vars \/ \E q : Call(q)
    BY <1>3 DEF Main, Fill, Display, NextPart, Enter, ReadElement, ReadPivot, LeftTest,
       RightTest, Swap1, Swap2, Swap3, Swap4, Swapped, Read, Write, NoCall
  <2> QED  BY <1>1, <2>1
<1>4. CASE UNCHANGED avars  BY <1>4 DEF avars
<1> QED  BY <1>2, <1>3, <1>4 DEF ApplNext

LEMMA MemoryHolds == ApplSpec => []PagingInv
<1>1. ApplInit => PagingInv  BY InitPagingInv DEF ApplInit
<1>2. PagingInv /\ [ApplNext]_avars => PagingInv'
  BY ApplStepsAreSteps, MeIsAlone, StepPagingInv
<1> QED  BY <1>1, <1>2, PTL DEF ApplSpec

\* The types of the virtual memory that the application relies on.
LEMMA CallTypes ==
  ASSUME PagingInv
  PROVE  /\ request[Me] \in Calls \union {NoRequest}
         /\ ~Returned => request[Me] \in Calls
         /\ request \in [Clients -> Calls \union {NoRequest}]
         /\ result \in [Clients -> Values \union {VOID_IDX}]
         /\ DOMAIN pc = Clients
  BY MeIsAlone DEF PagingInv, TypeInv, TypeOK, LocalsInRange, Returned

\* The virtual memory works on for the application, which sees nothing of it
\* before its call returns.
LEMMA VMemIsUnheard ==
  ASSUME PagingInv, VMem
  PROVE  /\ Soon' = Soon /\ Heard' = Heard /\ FlatView' \in {FlatView, Soon}
         /\ (Writing' => Writing) /\ UNCHANGED appl
<1>1. CASE ManagerStep
  <2>1. UNCHANGED <<FlatView, request, result>>
    BY <1>1, MeIsAlone, ManagerIsInvisible DEF Flat!memvars
  <2>2. pc' = pc
    BY <1>1
    DEF ManagerStep, EnterFault, TakeFreeFrame, PassFrame, TakeVictim, StorePage,
        UpdatePt, FetchPage, PostSema, LeaveFault, clients
  <2> QED  BY <2>1, <2>2 DEF VMem, Soon, Heard, Writing, Returned, Me
<1>2. CASE CheckPresent(Me) \/ RaiseFault(Me) \/ AwaitPage(Me) \/ Touch(Me)
  <2>1. FlatView' = FlatView  BY <1>2, MeIsAlone, ClientKeepsView
  <2>2. UNCHANGED <<request, result>> /\ pc[Me] # "idle" /\ pc'[Me] # "idle"
    BY <1>2, MeIsAlone, CallTypes DEF CheckPresent, RaiseFault, AwaitPage, Touch
  <2> QED  BY <2>1, <2>2 DEF VMem, Soon, Heard, Writing, Returned, Me
<1>3. CASE Transfer(Me)
  <2>1. /\ ~Returned /\ pc'[Me] = "idle"
        /\ request' = [request EXCEPT ![Me] = NoRequest]
    BY <1>3, MeIsAlone, CallTypes DEF Transfer, Returned
  <2>2. Flat!Read(Me) \/ Flat!Write(Me)
    BY <1>3, MeIsAlone, TransferPerforms
  <2>3. CASE Flat!Read(Me)
    <3>1. /\ request[Me].op = "read" /\ FlatView' = FlatView
          /\ result'[Me] = FlatView[request[Me].addr]
      BY <2>3, MeIsAlone, CallTypes DEF Flat!Read
    <3> QED  BY <2>1, <3>1 DEF VMem, Soon, Heard, Writing, Returned, Me
  <2>4. CASE Flat!Write(Me)
    <3>1. /\ request[Me].op = "write" /\ result' = result
          /\ FlatView' = [FlatView EXCEPT ![request[Me].addr] = request[Me].val]
      BY <2>4 DEF Flat!Write
    <3> QED  BY <2>1, <3>1 DEF VMem, Soon, Heard, Writing, Returned, Me
  <2> QED  BY <2>2, <2>3, <2>4
<1> QED  BY <1>1, <1>2, <1>3 DEF VMem, Proceed

\* A call begins when no other is under way.
LEMMA CallBegins ==
  ASSUME PagingInv, NEW q, Call(q)
  PROVE  /\ ~Writing /\ Soon = FlatView /\ FlatView' = FlatView
         /\ ~Returned' /\ request'[Me] = q /\ q \in Calls
<1>1. FlatView' = FlatView  BY MeIsAlone, ClientKeepsView DEF Call
<1>2. pc[Me] = "idle" /\ pc'[Me] # "idle"
  BY MeIsAlone, CallTypes DEF Call, BeginAccess
<1>3. q \in Calls /\ request'[Me] = q
  BY MeIsAlone, CallTypes DEF Call, BeginAccess
<1> QED  BY <1>1, <1>2, <1>3 DEF Writing, Soon, Returned, Me

LEMMA ReadBegins ==
  ASSUME PagingInv, NEW a, Read(a)
  PROVE  /\ ~Writing /\ ~Writing' /\ FlatView' = FlatView
         /\ Soon = FlatView /\ Soon' = Soon /\ Heard' = Soon[a]
  BY CallBegins DEF Read, Writing, Soon, Heard, Me

LEMMA WriteBegins ==
  ASSUME PagingInv, NEW a, NEW v, Write(a, v)
  PROVE  /\ ~Writing /\ FlatView' = FlatView /\ Soon = FlatView
         /\ Soon' = [Soon EXCEPT ![a] = v] /\ a \in Addresses /\ v \in Values
<1> DEFINE q == [op |-> "write", addr |-> a, val |-> v]
<1>1. Call(q)  BY DEF Write
<1>2. /\ ~Writing /\ Soon = FlatView /\ FlatView' = FlatView
      /\ ~Returned' /\ request'[Me] = q /\ q \in Calls
  BY <1>1, CallBegins
<1>3. a \in Addresses /\ v \in Values
  <2>1. q.addr \in Addresses /\ (q.op = "write" => q.val \in Values)
    <3> HIDE DEF q
    <3> QED  BY <1>2, CallsTyped
  <2> QED  BY <2>1
<1>4. request'[Me].op = "write" /\ request'[Me].addr = a /\ request'[Me].val = v
  BY <1>2
<1>5. Soon' = [FlatView' EXCEPT ![a] = v]
  BY <1>2, <1>4 DEF Writing, Soon, Me
<1> QED  BY <1>2, <1>3, <1>5

LEMMA NothingBegins ==
  ASSUME UNCHANGED vars
  PROVE  /\ FlatView' = FlatView /\ Soon' = Soon /\ Heard' = Heard
         /\ Writing' = Writing
<1>1. \A p \in Pages : PageView(p)' = PageView(p)
  BY DEF vars, table, store, manager, PageView, Loaded, Present
<1>2. FlatView' = FlatView  BY <1>1, FlatViewFromPages
<1> QED  BY <1>2 DEF vars, clients, Writing, Soon, Heard, Returned, Me

-----------------------------------------------------------------------------
(* The inductive invariant *)

\* The memory once swap has returned.
Goal == IF at = "swap4" THEN [Soon EXCEPT ![addr2] = tmp] ELSE Soon

MemoryTypes == FlatView \in [Addresses -> Values] /\ Soon \in [Addresses -> Values]

\* Where quicksort is inside a call, and where such a call has written.
Outer == {"init", "unsorted", "quicksort", "sorted", "exit"}
InPart == at \notin Outer
SwapWrites == {"swap4", "swapped"}

\* Where a write may be under way.
WritesEnd == at \notin SwapWrites /\ at # "init" => ~Writing

ApplTypes == /\ i \in Int /\ j \in Int /\ addr2 \in Int
             /\ filled \in [Elements -> Int]
             /\ todo \in Seq(Int \X Int)

\* init_data's loop.
FilledSoFar == at = "init" => /\ i \in 0 .. Length
                              /\ \A k \in 0 .. i - 1 : Soon[k] = filled[k]

NothingIsLost ==
  at # "init" => \A v \in Values : Occurrences(Goal, v) = Occurrences(filled, v)

\* The pending calls stand in the order of their parts, which do not overlap.
PartsStandApart ==
  /\ \A n \in 1 .. Len(todo) : 0 <= todo[n][1] /\ todo[n][2] < Length
  /\ \A m, n \in 1 .. Len(todo) : m < n => todo[m][2] < todo[n][1]

\* Only elements of the same part may still be in the wrong order.
InOrder(a) ==
  \A k, m \in Elements : k < m =>
    \/ a[k] <= a[m]
    \/ \E n \in 1 .. Len(todo) : todo[n][1] <= k /\ m <= todo[n][2]

SortedButForParts == at \notin {"init", "unsorted"} => InOrder(Goal)
SortedAtEnd == at \in {"sorted", "exit"} => todo = <<>>

\* a differs from b only in the current part, and by values that b has there: so
\* it is in the middle of a swap.
Near(a, b) ==
  \A k \in Elements : \/ a[k] = b[k]
                      \/ k \in l .. r /\ \E m \in l .. r : a[k] = b[m]

SwapIsInside == at \in SwapWrites => Near(FlatView, Goal) /\ Near(Soon, Goal)

\* The loops of quicksort.
IndexesInPart == InPart => /\ todo # <<>> /\ l < r
                           /\ l <= i /\ i <= r
                           /\ l <= j /\ j < r

Passed == InPart /\ ~(at \in SwapWrites /\ addr2 = r) =>
            /\ \A k \in l .. i - 1 : Goal[k] <= Goal[r]
            /\ \A k \in j + 1 .. r - 1 : Goal[k] >= Goal[r]

LeftStands == at \in {"right", "rightPivot", "rightTest", "swap1", "swap2", "swap3"} =>
                Goal[i] >= Goal[r]

SwapArguments ==
  at \in {"swap1", "swap2", "swap3"} =>
    \/ addr2 = r /\ j <= i
    \/ addr2 = j /\ i < j /\ Goal[j] <= Goal[r]

PivotIsPlaced ==
  /\ at \in SwapWrites => addr2 = r \/ (addr2 = j /\ i < j)
  /\ at \in SwapWrites /\ addr2 = r =>
       /\ \A k \in l .. i - 1 : Goal[k] <= Goal[i]
       /\ \A k \in i + 1 .. r : Goal[k] >= Goal[i]

HeardWhatWasAsked ==
  /\ at = "leftPivot" => Heard = Goal[i]
  /\ at = "rightPivot" => Heard = Goal[j]
  /\ at = "leftTest" => tmp = Goal[i] /\ Heard = Goal[r]
  /\ at = "rightTest" => tmp = Goal[j] /\ Heard = Goal[r]
  /\ at = "swap2" => Heard = Goal[i]
  /\ at = "swap3" => tmp = Goal[i] /\ Heard = Goal[addr2]
  /\ at = "swap4" => tmp \in Values

\* What holds of the array and of the pending calls, and of the current call.
ArrayInv == /\ MemoryTypes /\ WritesEnd /\ ApplTypes /\ FilledSoFar /\ NothingIsLost
            /\ PartsStandApart /\ SortedButForParts /\ SortedAtEnd /\ SwapIsInside

LoopInv == /\ IndexesInPart /\ Passed /\ LeftStands /\ SwapArguments /\ PivotIsPlaced
           /\ HeardWhatWasAsked

SortInv == ArrayInv /\ LoopInv

-----------------------------------------------------------------------------
(* Arrays, parts and swaps *)

\* An array of numbers.
IsArray(a) == \A k \in Elements : a[k] \in Int

LEMMA PartsTyped ==
  ASSUME ApplTypes, PartsStandApart
  PROVE  /\ Len(todo) \in Nat
         /\ \A n \in 1 .. Len(todo) : /\ todo[n][1] \in Int /\ todo[n][2] \in Int
                                      /\ 0 <= todo[n][1] /\ todo[n][2] < Length
         /\ todo # <<>> => /\ 1 \in 1 .. Len(todo)
                           /\ l = todo[1][1] /\ r = todo[1][2]
<1>1. Len(todo) \in Nat /\ \A n \in 1 .. Len(todo) : todo[n] \in Int \X Int
  BY DEF ApplTypes
<1>2. \A n \in 1 .. Len(todo) : todo[n][1] \in Int /\ todo[n][2] \in Int
  BY <1>1
<1>3. todo # <<>> => Head(todo) = todo[1] /\ Len(todo) # 0  BY DEF ApplTypes
<1> QED  BY <1>1, <1>2, <1>3 DEF PartsStandApart, l, r

\* The current part lies in the array.
LEMMA PartInArray ==
  ASSUME ApplTypes, PartsStandApart, todo # <<>>
  PROVE  /\ l \in Int /\ r \in Int /\ 0 <= l /\ r < Length
         /\ \A k \in l .. r : k \in Elements /\ k \in Int
  BY PartsTyped, ElementsAreAddresses

\* What lies left of a pending part is not greater, what lies right not less.
LEMMA OutsideIsApart ==
  ASSUME ApplTypes, PartsStandApart, NEW a, InOrder(a),
         NEW n \in 1 .. Len(todo), NEW k \in todo[n][1] .. todo[n][2],
         NEW m \in Elements
  PROVE  /\ m < todo[n][1] => a[m] <= a[k]
         /\ m > todo[n][2] => a[k] <= a[m]
<1> DEFINE lo(x) == todo[x][1]
           hi(x) == todo[x][2]
<1>1. /\ \A x \in 1 .. Len(todo) : lo(x) \in Int /\ hi(x) \in Int
      /\ 0 <= lo(n) /\ hi(n) < Length /\ Len(todo) \in Nat
  BY PartsTyped
<1>2. \A x, y \in 1 .. Len(todo) : x < y => hi(x) < lo(y)  BY DEF PartsStandApart
<1> HIDE DEF lo, hi
<1>3. k \in Int /\ lo(n) <= k /\ k <= hi(n) /\ k \in Elements /\ m \in Int
  <2>1. k \in Int /\ lo(n) <= k /\ k <= hi(n)  BY <1>1 DEF lo, hi
  <2> QED  BY <1>1, <2>1, ElementsAreAddresses
<1>4. ASSUME NEW x \in Elements, NEW y \in Elements, x < y
      PROVE  a[x] <= a[y] \/ \E z \in 1 .. Len(todo) : lo(z) <= x /\ y <= hi(z)
  BY <1>4 DEF InOrder, lo, hi
<1>5. ASSUME NEW z \in 1 .. Len(todo), m < lo(n), lo(z) <= m, k <= hi(z) PROVE FALSE
  BY <1>1, <1>2, <1>3, <1>5
<1>6. ASSUME NEW z \in 1 .. Len(todo), m > hi(n), lo(z) <= k, m <= hi(z) PROVE FALSE
  BY <1>1, <1>2, <1>3, <1>6
<1>7. CASE m < lo(n)
  <2>1. m < k /\ ~(m > hi(n))  BY <1>1, <1>3, <1>7
  <2> QED  BY <1>3, <1>4, <1>5, <1>7, <2>1 DEF lo, hi
<1>8. CASE m > hi(n)
  <2>1. k < m /\ ~(m < lo(n))  BY <1>1, <1>3, <1>8
  <2> QED  BY <1>3, <1>4, <1>6, <1>8, <2>1 DEF lo, hi
<1> QED  BY <1>7, <1>8 DEF lo, hi

\* Exchanging values within the current part disturbs no other part.
LEMMA NearKeepsOrder ==
  ASSUME ApplTypes, PartsStandApart, todo # <<>>,
         NEW a, NEW b, InOrder(b), Near(a, b)
  PROVE  InOrder(a)
<1> SUFFICES ASSUME NEW k \in Elements, NEW m \in Elements, k < m
             PROVE  \/ a[k] <= a[m]
                    \/ \E n \in 1 .. Len(todo) : todo[n][1] <= k /\ m <= todo[n][2]
  BY DEF InOrder
<1>1. /\ 1 \in 1 .. Len(todo) /\ l = todo[1][1] /\ r = todo[1][2]
      /\ l \in Int /\ r \in Int /\ k \in Int /\ m \in Int
  BY PartsTyped, PartInArray, ElementsAreAddresses
<1>2. CASE k \in l .. r /\ m \in l .. r  BY <1>1, <1>2
<1>3. CASE k \notin l .. r /\ m \notin l .. r
  <2>1. a[k] = b[k] /\ a[m] = b[m]  BY <1>3 DEF Near
  <2> QED  BY <2>1 DEF InOrder
<1>4. CASE k \in l .. r /\ m \notin l .. r
  <2>1. a[m] = b[m] /\ m > r  BY <1>1, <1>4 DEF Near
  <2>2. PICK x \in l .. r : a[k] = b[x]  BY <1>4 DEF Near
  <2>3. b[x] <= b[m]  BY <1>1, <2>1, OutsideIsApart
  <2> QED  BY <2>1, <2>2, <2>3
<1>5. CASE k \notin l .. r /\ m \in l .. r
  <2>1. a[k] = b[k] /\ k < l  BY <1>1, <1>5 DEF Near
  <2>2. PICK x \in l .. r : a[m] = b[x]  BY <1>5 DEF Near
  <2>3. b[k] <= b[x]  BY <1>1, <2>1, OutsideIsApart
  <2> QED  BY <2>1, <2>2, <2>3
<1> QED  BY <1>2, <1>3, <1>4, <1>5

\* b is a with two elements exchanged.
Exchanges(a, b, x, y) == /\ b[x] = a[y] /\ b[y] = a[x]
                         /\ \A k \in Elements : k # x /\ k # y => b[k] = a[k]

\* A swap keeps how often each value occurs.
LEMMA SwapKeepsOccurrences ==
  ASSUME NEW a, NEW b, NEW x \in Elements, NEW y \in Elements,
         Exchanges(a, b, x, y), NEW v
  PROVE  Occurrences(b, v) = Occurrences(a, v)
<1> DEFINE S == {k \in Elements : a[k] = v}
           T == {k \in Elements : b[k] = v}
           twin(k) == IF k = x THEN y ELSE IF k = y THEN x ELSE k
           f == [k \in S |-> twin(k)]
<1>1. \A k \in Elements : twin(k) \in Elements /\ twin(twin(k)) = k /\ b[twin(k)] = a[k]
  BY DEF Exchanges
<1>2. IsFiniteSet(S)
  <2>1. IsFiniteSet(Elements)  BY FS_Interval, ElementsAreAddresses DEF Elements
  <2> QED  BY <2>1, FS_Subset
<1>3. f \in Bijection(S, T)
  <2>1. f \in [S -> T]  BY <1>1
  <2>2. \A k, m \in S : f[k] = f[m] => k = m  BY <1>1
  <2>3. ASSUME NEW m \in T PROVE \E k \in S : f[k] = m
    <3>1. twin(m) \in S  BY <1>1
    <3> QED  BY <1>1, <3>1
  <2> QED  BY <2>1, <2>2, <2>3 DEF Bijection, Injection, Surjection, IsInjective
<1>4. ExistsBijection(S, T)  BY <1>3 DEF ExistsBijection
<1> QED  BY <1>2, <1>4, FS_Bijection DEF Occurrences

-----------------------------------------------------------------------------
(* The steps inside a call of quicksort *)

LEMMA MemoryIsArray ==
  ASSUME MemoryTypes
  PROVE  \A k \in Elements : FlatView[k] \in Int /\ Soon[k] \in Int /\ Soon[k] \in Values
<1>1. \A v \in Values : v \in Int  BY ApplicationAssumption
<1> QED  BY <1>1, ElementsAreAddresses DEF MemoryTypes

\* The numbers of the current call.
LEMMA PartKnown ==
  ASSUME SortInv, InPart
  PROVE  /\ i \in Int /\ j \in Int /\ l \in Int /\ r \in Int
         /\ 0 <= l /\ l < r /\ r < Length
         /\ l <= i /\ i <= r /\ l <= j /\ j < r
         /\ \A k \in l .. r : k \in Elements
         /\ todo # <<>>
  BY PartInArray DEF SortInv, ArrayInv, LoopInv, ApplTypes, IndexesInPart

\* A step that neither writes nor leaves the current call.
LEMMA QuietStep ==
  ASSUME SortInv, InPart, Goal = Soon, InPart', at' \notin SwapWrites,
         FlatView' = FlatView, Soon' = Soon, ~Writing',
         i' \in Int, j' \in Int, addr2' \in Int, UNCHANGED <<todo, filled>>
  PROVE  ArrayInv' /\ PivotIsPlaced' /\ Goal' = Goal /\ l' = l /\ r' = r
<1> USE DEF SortInv, ArrayInv
<1>1. at # "init" /\ at # "unsorted" /\ at \notin {"sorted", "exit"}
  BY DEF InPart, Outer
<1>2. at' # "init" /\ at' # "unsorted" /\ at' \notin {"sorted", "exit"}
  BY DEF InPart, Outer
<1>3. Goal' = Goal /\ l' = l /\ r' = r  BY DEF Goal, SwapWrites, l, r
<1>4. MemoryTypes' /\ WritesEnd' /\ ApplTypes'  BY DEF MemoryTypes, WritesEnd, ApplTypes
<1>5. FilledSoFar' /\ SortedAtEnd' /\ SwapIsInside' /\ PivotIsPlaced'
  BY <1>2 DEF FilledSoFar, SortedAtEnd, SwapIsInside, PivotIsPlaced
<1>6. NothingIsLost'  BY <1>1, <1>3 DEF NothingIsLost, Occurrences
<1>7. PartsStandApart'  BY DEF PartsStandApart
<1>8. SortedButForParts'  BY <1>1, <1>3 DEF SortedButForParts, InOrder
<1> QED  BY <1>3, <1>4, <1>5, <1>6, <1>7, <1>8

\* If the loop variables stay as well, so does what they have passed.
LEMMA LoopsStand ==
  ASSUME SortInv, InPart, InPart',
         at \notin SwapWrites \/ addr2 # r, at' \notin SwapWrites,
         Goal' = Goal, l' = l, r' = r, UNCHANGED <<i, j, todo>>
  PROVE  IndexesInPart' /\ Passed'
<1>1. IndexesInPart'  BY DEF SortInv, LoopInv, IndexesInPart
<1>2. Passed'  BY DEF SortInv, LoopInv, Passed
<1> QED  BY <1>1, <1>2

LEMMA ReadElementSorts ==
  ASSUME PagingInv, SortInv, ReadElement
  PROVE  SortInv'
<1>1. /\ at \in {"left", "right"} /\ UNCHANGED <<i, j, tmp, addr2, todo, filled>>
      /\ at' = IF at = "left" THEN "leftPivot" ELSE "rightPivot"
      /\ Read(IF at = "left" THEN i ELSE j)
  BY DEF ReadElement
<1>2. /\ ~Writing' /\ FlatView' = FlatView /\ Soon' = Soon
      /\ Heard' = Soon[IF at = "left" THEN i ELSE j]
  BY <1>1, ReadBegins
<1>3. InPart /\ InPart' /\ Goal = Soon /\ at \notin SwapWrites /\ at' \notin SwapWrites
  BY <1>1 DEF InPart, Outer, Goal, SwapWrites
<1>4. i \in Int /\ j \in Int /\ addr2 \in Int  BY DEF SortInv, ArrayInv, ApplTypes
<1>5. ArrayInv' /\ PivotIsPlaced' /\ Goal' = Goal /\ l' = l /\ r' = r
  BY <1>1, <1>2, <1>3, <1>4, QuietStep
<1>6. IndexesInPart' /\ Passed'  BY <1>1, <1>3, <1>5, LoopsStand
<1>7. LeftStands' /\ SwapArguments'
  BY <1>1, <1>5 DEF LeftStands, SwapArguments, SortInv, LoopInv
<1>8. HeardWhatWasAsked'
  BY <1>1, <1>2, <1>3, <1>5 DEF HeardWhatWasAsked
<1> QED  BY <1>5, <1>6, <1>7, <1>8 DEF SortInv, LoopInv

LEMMA ReadPivotSorts ==
  ASSUME PagingInv, SortInv, ReadPivot
  PROVE  SortInv'
<1>1. /\ at \in {"leftPivot", "rightPivot"} /\ Returned /\ tmp' = result[Me] /\ Read(r)
      /\ at' = IF at = "leftPivot" THEN "leftTest" ELSE "rightTest"
      /\ UNCHANGED <<i, j, addr2, todo, filled>>
  BY DEF ReadPivot
<1>2. /\ ~Writing' /\ FlatView' = FlatView /\ Soon' = Soon /\ Heard' = Soon[r]
      /\ tmp' = Heard
  BY <1>1, ReadBegins DEF Heard
<1>3. InPart /\ InPart' /\ Goal = Soon /\ at \notin SwapWrites /\ at' \notin SwapWrites
  BY <1>1 DEF InPart, Outer, Goal, SwapWrites
<1>4. i \in Int /\ j \in Int /\ addr2 \in Int  BY DEF SortInv, ArrayInv, ApplTypes
<1>5. ArrayInv' /\ PivotIsPlaced' /\ Goal' = Goal /\ l' = l /\ r' = r
  BY <1>1, <1>2, <1>3, <1>4, QuietStep
<1>6. IndexesInPart' /\ Passed'  BY <1>1, <1>3, <1>5, LoopsStand
<1>7. LeftStands' /\ SwapArguments'
  BY <1>1, <1>5 DEF LeftStands, SwapArguments, SortInv, LoopInv
<1>8. HeardWhatWasAsked'
  BY <1>1, <1>2, <1>3, <1>5 DEF HeardWhatWasAsked, SortInv, LoopInv
<1> QED  BY <1>5, <1>6, <1>7, <1>8 DEF SortInv, LoopInv

\* The first inner loop ends at the pivot at the latest.
LEMMA LeftTestSorts ==
  ASSUME PagingInv, SortInv, LeftTest
  PROVE  SortInv'
<1>1. /\ at = "leftTest" /\ Returned /\ UNCHANGED <<j, tmp, addr2, todo, filled>>
      /\ UNCHANGED vars
      /\ \/ tmp < result[Me] /\ i' = i + 1 /\ at' = "left"
         \/ ~(tmp < result[Me]) /\ i' = i /\ at' = "right"
  BY DEF LeftTest, GoesRight, NoCall
<1>2. FlatView' = FlatView /\ Soon' = Soon /\ ~Writing' /\ Heard = result[Me]
  BY <1>1, NothingBegins DEF Writing, Heard
<1>3. InPart /\ InPart' /\ Goal = Soon /\ at \notin SwapWrites /\ at' \notin SwapWrites
  BY <1>1 DEF InPart, Outer, Goal, SwapWrites
<1>4. /\ i \in Int /\ j \in Int /\ addr2 \in Int
      /\ l \in Int /\ r \in Int /\ l <= i /\ i <= r /\ i \in Elements /\ r \in Elements
  BY <1>3, PartKnown DEF SortInv, ArrayInv, ApplTypes
<1>5. ArrayInv' /\ PivotIsPlaced' /\ Goal' = Goal /\ l' = l /\ r' = r
  BY <1>1, <1>2, <1>3, <1>4, QuietStep
<1>6. tmp = Goal[i] /\ result[Me] = Goal[r] /\ Goal[i] \in Int /\ Goal[r] \in Int
  BY <1>1, <1>2, <1>3, <1>4, MemoryIsArray
  DEF SortInv, LoopInv, HeardWhatWasAsked, ArrayInv
<1>7. CASE at' = "left"
  <2>1. i' = i + 1 /\ Goal[i] < Goal[r] /\ i < r  BY <1>1, <1>4, <1>6, <1>7
  <2>2. IndexesInPart'
    BY <1>1, <1>3, <1>4, <1>5, <2>1 DEF IndexesInPart, SortInv, LoopInv
  <2>3. Passed'
    <3>1. \A k \in l .. i - 1 : Goal[k] <= Goal[r]
      BY <1>3 DEF SortInv, LoopInv, Passed
    <3>2. \A k \in l .. i' - 1 : k = i \/ k \in l .. i - 1  BY <1>4, <2>1
    <3>3. \A k \in l .. i' - 1 : Goal[k] <= Goal[r]  BY <1>6, <2>1, <3>1, <3>2
    <3> QED  BY <1>1, <1>3, <1>5, <3>3 DEF SortInv, LoopInv, Passed
  <2>4. LeftStands' /\ SwapArguments' /\ HeardWhatWasAsked'
    BY <1>7 DEF LeftStands, SwapArguments, HeardWhatWasAsked
  <2> QED  BY <1>5, <2>2, <2>3, <2>4 DEF SortInv, LoopInv
<1>8. CASE at' = "right"
  <2>1. i' = i /\ Goal[i] >= Goal[r]  BY <1>1, <1>6, <1>8
  <2>2. IndexesInPart' /\ Passed'  BY <1>1, <1>3, <1>5, <2>1, LoopsStand
  <2>3. LeftStands'  BY <1>5, <2>1 DEF LeftStands
  <2>4. SwapArguments' /\ HeardWhatWasAsked'
    BY <1>8 DEF SwapArguments, HeardWhatWasAsked
  <2> QED  BY <1>5, <2>2, <2>3, <2>4 DEF SortInv, LoopInv
<1> QED  BY <1>1, <1>7, <1>8

\* The second one ends at l at the latest.  If i has not met j, both swap places;
\* else the pivot goes between the parts.
LEMMA RightTestSorts ==
  ASSUME PagingInv, SortInv, RightTest
  PROVE  SortInv'
<1>1. /\ at = "rightTest" /\ Returned /\ UNCHANGED <<i, tmp, todo, filled>>
      /\ UNCHANGED vars
      /\ \/ tmp >= result[Me] /\ j > l /\ j' = j - 1 /\ at' = "right" /\ addr2' = addr2
         \/ /\ ~(tmp >= result[Me] /\ j > l) /\ j' = j /\ at' = "swap1"
            /\ addr2' = IF i >= j THEN r ELSE j
  BY DEF RightTest, GoesLeft, NoCall
<1>2. FlatView' = FlatView /\ Soon' = Soon /\ ~Writing' /\ Heard = result[Me]
  BY <1>1, NothingBegins DEF Writing, Heard
<1>3. InPart /\ InPart' /\ Goal = Soon /\ at \notin SwapWrites /\ at' \notin SwapWrites
  BY <1>1 DEF InPart, Outer, Goal, SwapWrites
<1>4. /\ i \in Int /\ j \in Int /\ addr2 \in Int /\ addr2' \in Int
      /\ l \in Int /\ r \in Int /\ l <= i /\ i <= r /\ l <= j /\ j < r
      /\ j \in Elements /\ r \in Elements
  BY <1>1, <1>3, PartKnown DEF SortInv, ArrayInv, ApplTypes
<1>5. ArrayInv' /\ PivotIsPlaced' /\ Goal' = Goal /\ l' = l /\ r' = r
  BY <1>1, <1>2, <1>3, <1>4, QuietStep
<1>6. tmp = Goal[j] /\ result[Me] = Goal[r] /\ Goal[j] \in Int /\ Goal[r] \in Int
  BY <1>1, <1>2, <1>3, <1>4, MemoryIsArray
  DEF SortInv, LoopInv, HeardWhatWasAsked, ArrayInv
<1>7. LeftStands'
  <2>1. Goal[i] >= Goal[r]  BY <1>1 DEF SortInv, LoopInv, LeftStands
  <2> QED  BY <1>1, <1>5, <2>1 DEF LeftStands
<1>8. HeardWhatWasAsked'  BY <1>1 DEF HeardWhatWasAsked
<1>9. CASE at' = "right"
  <2>1. j' = j - 1 /\ Goal[j] >= Goal[r] /\ j > l  BY <1>1, <1>6, <1>9
  <2>2. IndexesInPart'
    BY <1>1, <1>3, <1>4, <1>5, <2>1 DEF IndexesInPart, SortInv, LoopInv
  <2>3. Passed'
    <3>1. \A k \in j + 1 .. r - 1 : Goal[k] >= Goal[r]
      BY <1>3 DEF SortInv, LoopInv, Passed
    <3>2. \A k \in j' + 1 .. r - 1 : k = j \/ k \in j + 1 .. r - 1  BY <1>4, <2>1
    <3>3. \A k \in j' + 1 .. r - 1 : Goal[k] >= Goal[r]  BY <1>6, <2>1, <3>1, <3>2
    <3> QED  BY <1>1, <1>3, <1>5, <3>3 DEF SortInv, LoopInv, Passed
  <2>4. SwapArguments'  BY <1>9 DEF SwapArguments
  <2> QED  BY <1>5, <1>7, <1>8, <2>2, <2>3, <2>4 DEF SortInv, LoopInv
<1>10. CASE at' = "swap1"
  <2>1. j' = j /\ ~(Goal[j] >= Goal[r] /\ j > l) /\ addr2' = IF i >= j THEN r ELSE j
    BY <1>1, <1>6, <1>10
  <2>2. IndexesInPart' /\ Passed'  BY <1>1, <1>3, <1>5, <2>1, LoopsStand
  <2>3. \/ addr2' = r /\ j <= i
        \/ addr2' = j /\ i < j /\ Goal[j] <= Goal[r]
    BY <1>4, <1>6, <2>1
  <2>4. SwapArguments'  BY <1>1, <1>5, <2>1, <2>3 DEF SwapArguments
  <2> QED  BY <1>5, <1>7, <1>8, <2>2, <2>4 DEF SortInv, LoopInv
<1> QED  BY <1>1, <1>9, <1>10

LEMMA SwapReadsSort ==
  ASSUME PagingInv, SortInv, Swap1 \/ Swap2
  PROVE  SortInv'
<1>1. /\ \/ at = "swap1" /\ at' = "swap2" /\ tmp' = tmp /\ Read(i)
         \/ at = "swap2" /\ at' = "swap3" /\ tmp' = result[Me] /\ Returned /\ Read(addr2)
      /\ UNCHANGED <<i, j, addr2, todo, filled>>
  BY DEF Swap1, Swap2
<1>2. /\ ~Writing' /\ FlatView' = FlatView /\ Soon' = Soon
      /\ at = "swap1" => Heard' = Soon[i]
      /\ at = "swap2" => Heard' = Soon[addr2] /\ tmp' = Heard
  BY <1>1, ReadBegins DEF Heard
<1>3. InPart /\ InPart' /\ Goal = Soon /\ at \notin SwapWrites /\ at' \notin SwapWrites
  BY <1>1 DEF InPart, Outer, Goal, SwapWrites
<1>4. i \in Int /\ j \in Int /\ addr2 \in Int  BY DEF SortInv, ArrayInv, ApplTypes
<1>5. ArrayInv' /\ PivotIsPlaced' /\ Goal' = Goal /\ l' = l /\ r' = r
  BY <1>1, <1>2, <1>3, <1>4, QuietStep
<1>6. IndexesInPart' /\ Passed'  BY <1>1, <1>3, <1>5, LoopsStand
<1>7. LeftStands' /\ SwapArguments'
  BY <1>1, <1>5 DEF LeftStands, SwapArguments, SortInv, LoopInv
<1>8. HeardWhatWasAsked'
  BY <1>1, <1>2, <1>3, <1>5 DEF HeardWhatWasAsked, SortInv, LoopInv
<1> QED  BY <1>5, <1>6, <1>7, <1>8 DEF SortInv, LoopInv

\* With the first write of swap it is settled how the array looks afterwards.
LEMMA Swap3Sorts ==
  ASSUME PagingInv, SortInv, Swap3
  PROVE  SortInv'
<1> USE DEF SortInv, ArrayInv, LoopInv
<1>1. /\ at = "swap3" /\ at' = "swap4" /\ Returned /\ Write(i, result[Me])
      /\ UNCHANGED <<i, j, tmp, addr2, todo, filled>>
  BY DEF Swap3
<1>2. InPart /\ InPart' /\ at \notin SwapWrites /\ at' \in SwapWrites /\ Goal = Soon
  BY <1>1 DEF InPart, Outer, SwapWrites, Goal
<1>3. /\ i \in Int /\ j \in Int /\ l \in Int /\ r \in Int
      /\ l <= i /\ i <= r /\ l <= j /\ j < r /\ l < r
      /\ \A k \in l .. r : k \in Elements
  BY <1>2, PartKnown
<1>4. /\ l' = l /\ r' = r /\ todo # <<>>  BY <1>1, <1>2, PartKnown DEF l, r
<1>5. /\ addr2 \in l .. r /\ i \in l .. r /\ i \in Elements /\ addr2 \in Elements
      /\ r \in Elements
      /\ \/ addr2 = r /\ j <= i
         \/ addr2 = j /\ i < j /\ Goal[j] <= Goal[r]
  BY <1>1, <1>3 DEF SwapArguments
<1>6. tmp = Goal[i] /\ Heard = Goal[addr2] /\ Heard = result[Me] /\ Goal[i] >= Goal[r]
  BY <1>1 DEF HeardWhatWasAsked, Heard, LeftStands
<1>7. /\ FlatView' = FlatView /\ Soon = FlatView /\ result[Me] \in Values
      /\ Soon' = [Soon EXCEPT ![i] = Goal[addr2]]
  BY <1>1, <1>6, WriteBegins
<1>8. MemoryTypes'  BY <1>6, <1>7 DEF MemoryTypes
<1>9. Goal' = [Soon' EXCEPT ![addr2] = tmp]  BY <1>1 DEF Goal
<1>10. /\ Goal'[i] = Goal[addr2] /\ Goal'[addr2] = Goal[i]
       /\ \A k \in Elements : k # i /\ k # addr2 => Goal'[k] = Goal[k]
  BY <1>2, <1>5, <1>6, <1>7, <1>9, ElementsAreAddresses DEF MemoryTypes
<1>11. \A k \in Elements : Goal[k] \in Int /\ Goal[k] \in Values
  BY <1>2, MemoryIsArray
<1>12. WritesEnd' /\ ApplTypes' /\ PartsStandApart' /\ FilledSoFar' /\ SortedAtEnd'
  BY <1>1, <1>2 DEF WritesEnd, ApplTypes, PartsStandApart, FilledSoFar, SortedAtEnd
<1>13. NothingIsLost'
  <2>1. ASSUME NEW v PROVE Occurrences(Goal', v) = Occurrences(Goal, v)
    <3> DEFINE a == Goal
               b == Goal'
    <3>1. Exchanges(a, b, i, addr2)  BY <1>10 DEF Exchanges
    <3> HIDE DEF a, b
    <3>2. Occurrences(b, v) = Occurrences(a, v)  BY <1>5, <3>1, SwapKeepsOccurrences
    <3> QED  BY <3>2 DEF a, b
  <2> QED  BY <1>1, <2>1 DEF NothingIsLost, Occurrences
<1>14. SortedButForParts'
  <2>1. Near(Goal', Goal)  BY <1>5, <1>10 DEF Near
  <2>2. InOrder(Goal)  BY <1>1 DEF SortedButForParts
  <2>3. InOrder(Goal')  BY <1>4, <2>1, <2>2, NearKeepsOrder
  <2> QED  BY <1>1, <2>3 DEF SortedButForParts, InOrder
<1>15. SwapIsInside'
  <2>1. Near(FlatView', Goal')  BY <1>2, <1>5, <1>7, <1>10 DEF Near
  <2>2. \A k \in Elements : Soon'[k] = IF k = i THEN Goal[addr2] ELSE Goal[k]
    BY <1>2, <1>5, <1>7, ElementsAreAddresses DEF MemoryTypes
  <2>3. Near(Soon', Goal')  BY <1>5, <1>10, <2>2 DEF Near
  <2> QED  BY <1>4, <2>1, <2>3 DEF SwapIsInside, Near
<1>16. IndexesInPart'  BY <1>1, <1>2, <1>4 DEF IndexesInPart
<1>17. /\ \A k \in l .. i - 1 : Goal[k] <= Goal[r]
       /\ \A k \in j + 1 .. r - 1 : Goal[k] >= Goal[r]
  BY <1>2 DEF Passed
<1>18. ASSUME addr2 = r PROVE Passed' /\ PivotIsPlaced'
  <2>1. Goal'[i] = Goal[r] /\ Goal'[r] = Goal[i]  BY <1>10, <1>18
  <2>2. ASSUME NEW k \in l .. i - 1 PROVE Goal'[k] <= Goal'[i]
    BY <1>3, <1>10, <1>17, <1>18, <2>1
  <2>3. ASSUME NEW k \in i + 1 .. r PROVE Goal'[k] >= Goal'[i]
    <3>1. CASE k = r  BY <1>6, <2>1, <3>1
    <3>2. CASE k # r
      <4>1. k \in j + 1 .. r - 1 /\ k \in l .. r  BY <1>3, <1>5, <1>18, <3>2
      <4> QED  BY <1>3, <1>10, <1>17, <1>18, <2>1, <3>2, <4>1
    <3> QED  BY <3>1, <3>2
  <2>4. Passed'  BY <1>1, <1>2, <1>4, <1>18 DEF Passed
  <2>5. PivotIsPlaced'  BY <1>1, <1>4, <1>18, <2>2, <2>3 DEF PivotIsPlaced
  <2> QED  BY <2>4, <2>5
<1>19. ASSUME addr2 # r PROVE Passed' /\ PivotIsPlaced'
  <2>1. addr2 = j /\ i < j /\ Goal[j] <= Goal[r]  BY <1>5, <1>19
  <2>2. Goal'[r] = Goal[r]  BY <1>3, <1>5, <1>10, <2>1
  <2>3. ASSUME NEW k \in l .. i - 1 PROVE Goal'[k] <= Goal'[r]
    BY <1>3, <1>10, <1>17, <2>1, <2>2
  <2>4. ASSUME NEW k \in j + 1 .. r - 1 PROVE Goal'[k] >= Goal'[r]
    BY <1>3, <1>10, <1>17, <2>1, <2>2
  <2>5. Passed'  BY <1>1, <1>4, <2>3, <2>4 DEF Passed
  <2>6. PivotIsPlaced'  BY <1>1, <1>4, <1>19, <2>1 DEF PivotIsPlaced
  <2> QED  BY <2>5, <2>6
<1>20. LeftStands' /\ SwapArguments'  BY <1>1 DEF LeftStands, SwapArguments
<1>21. HeardWhatWasAsked'
  BY <1>1, <1>5, <1>6, <1>11 DEF HeardWhatWasAsked
<1> QED  BY <1>8, <1>12, <1>13, <1>14, <1>15, <1>16, <1>18, <1>19, <1>20, <1>21

\* The second write ends the swap.
LEMMA Swap4Sorts ==
  ASSUME PagingInv, SortInv, Swap4
  PROVE  SortInv'
<1> USE DEF SortInv, ArrayInv, LoopInv
<1>1. /\ at = "swap4" /\ at' = "swapped" /\ Write(addr2, tmp)
      /\ UNCHANGED <<i, j, tmp, addr2, todo, filled>>
  BY DEF Swap4
<1>2. InPart /\ InPart' /\ at \in SwapWrites /\ at' \in SwapWrites
  BY <1>1 DEF InPart, Outer, SwapWrites
<1>3. /\ FlatView' = FlatView /\ Soon = FlatView /\ Soon' = [Soon EXCEPT ![addr2] = tmp]
      /\ addr2 \in Addresses /\ tmp \in Values
  BY <1>1, WriteBegins
<1>4. Goal = Soon' /\ Goal' = Goal /\ l' = l /\ r' = r
  BY <1>1, <1>3 DEF Goal, l, r
<1>5. MemoryTypes'  BY <1>3 DEF MemoryTypes
<1>6. WritesEnd' /\ ApplTypes' /\ PartsStandApart' /\ FilledSoFar' /\ SortedAtEnd'
  BY <1>1, <1>2 DEF WritesEnd, ApplTypes, PartsStandApart, FilledSoFar, SortedAtEnd
<1>7. NothingIsLost'  BY <1>1, <1>4 DEF NothingIsLost, Occurrences
<1>8. SortedButForParts'  BY <1>1, <1>4 DEF SortedButForParts, InOrder
<1>9. SwapIsInside'  BY <1>2, <1>3, <1>4 DEF SwapIsInside, Near
<1>10. IndexesInPart'  BY <1>1, <1>2, <1>4 DEF IndexesInPart
<1>11. Passed'  BY <1>1, <1>2, <1>4 DEF Passed
<1>12. PivotIsPlaced'  BY <1>1, <1>2, <1>4 DEF PivotIsPlaced
<1>13. LeftStands' /\ SwapArguments' /\ HeardWhatWasAsked'
  BY <1>1 DEF LeftStands, SwapArguments, HeardWhatWasAsked
<1> QED  BY <1>5, <1>6, <1>7, <1>8, <1>9, <1>10, <1>11, <1>12, <1>13

\* Outside a call of quicksort nothing is said of one.
LEMMA OutsideCalls ==
  ASSUME at' \in Outer
  PROVE  LoopInv' /\ SwapIsInside' /\ (at' # "init" => FilledSoFar')
<1>1. ~InPart' /\ at' \notin SwapWrites
  BY DEF InPart, Outer, SwapWrites
<1>2. IndexesInPart' /\ Passed' /\ PivotIsPlaced'
  BY <1>1 DEF IndexesInPart, Passed, PivotIsPlaced
<1>3. LeftStands' /\ SwapArguments'  BY DEF Outer, LeftStands, SwapArguments
<1>4. HeardWhatWasAsked'  BY DEF Outer, HeardWhatWasAsked
<1> QED  BY <1>1, <1>2, <1>3, <1>4 DEF LoopInv, SwapIsInside, FilledSoFar

\* The recursive calls take the place of the current one.
LEMMA PartsInFront ==
  ASSUME ApplTypes, PartsStandApart, todo # <<>>
  PROVE  LET s == Parts \o Tail(todo)
         IN  /\ s \in Seq(Int \X Int) /\ Len(s) = Len(todo) + 1
             /\ s[1] = <<l, i - 1>> /\ s[2] = <<i + 1, r>>
             /\ \A n \in 3 .. Len(s) : s[n] = todo[n - 1]
<1>1. todo \in Seq(Int \X Int) /\ i \in Int /\ l \in Int /\ r \in Int
  BY PartInArray DEF ApplTypes
<1> DEFINE t == Tail(todo)
<1>2. /\ t \in Seq(Int \X Int) /\ Len(t) = Len(todo) - 1 /\ Len(todo) \in Nat
      /\ \A n \in 1 .. Len(t) : t[n] = todo[n + 1]
  BY <1>1, HeadTailProperties
<1>3. Parts \in Seq(Int \X Int) /\ Len(Parts) = 2  BY <1>1 DEF Parts
<1> HIDE DEF t
<1>4. /\ Parts \o t \in Seq(Int \X Int) /\ Len(Parts \o t) = Len(todo) + 1
      /\ \A n \in 1 .. Len(todo) + 1 :
           (Parts \o t)[n] = IF n <= 2 THEN Parts[n] ELSE t[n - 2]
  <2>1. Len(t) \in Nat /\ Len(Parts) + Len(t) = Len(todo) + 1  BY <1>2, <1>3
  <2> DEFINE p == Parts
  <2>2. p \in Seq(Int \X Int) /\ Len(p) = 2 /\ Len(p) + Len(t) = Len(todo) + 1
    BY <1>3, <2>1
  <2> HIDE DEF p
  <2>3. /\ p \o t \in Seq(Int \X Int) /\ Len(p \o t) = Len(todo) + 1
        /\ \A n \in 1 .. Len(todo) + 1 :
             (p \o t)[n] = IF n <= 2 THEN p[n] ELSE t[n - 2]
    <3>1. /\ p \o t \in Seq(Int \X Int) /\ Len(p \o t) = Len(p) + Len(t)
          /\ \A n \in 1 .. Len(p) + Len(t) :
               (p \o t)[n] = IF n <= Len(p) THEN p[n] ELSE t[n - Len(p)]
      BY <1>2, <2>2, ConcatProperties, Zenon
    <3> QED  BY <2>2, <3>1
  <2> QED  BY <2>3 DEF p
<1>5. Len(todo) # 0  BY <1>1
<1>6. (Parts \o t)[1] = Parts[1] /\ (Parts \o t)[2] = Parts[2]  BY <1>2, <1>4, <1>5
<1>7. ASSUME NEW n \in 3 .. Len(todo) + 1 PROVE (Parts \o t)[n] = todo[n - 1]
  <2>1. /\ n - 2 \in 1 .. Len(t) /\ (n - 2) + 1 = n - 1 /\ ~(n <= 2)
        /\ n \in 1 .. Len(todo) + 1
    BY <1>2
  <2>2. (Parts \o t)[n] = t[n - 2]  BY <1>4, <2>1
  <2>3. t[n - 2] = todo[(n - 2) + 1]  BY <1>2, <2>1
  <2> QED  BY <2>1, <2>2, <2>3
<1> QED  BY <1>4, <1>6, <1>7 DEF t, Parts

\* The pivot is in its place, and the recursive calls sort what is on either side.
LEMMA SwappedSorts ==
  ASSUME PagingInv, SortInv, Swapped
  PROVE  SortInv'
<1>1. /\ at = "swapped" /\ Returned /\ UNCHANGED <<i, j, tmp, addr2, filled>>
      /\ UNCHANGED vars
      /\ \/ addr2 = r /\ todo' = Parts \o Tail(todo) /\ at' = "quicksort"
         \/ addr2 # r /\ todo' = todo /\ at' = "left"
  BY DEF Swapped, NoCall
<1>2. FlatView' = FlatView /\ Soon' = Soon /\ ~Writing' /\ Soon = FlatView
  BY <1>1, NothingBegins DEF Writing, Soon
<1>3. InPart /\ at \in SwapWrites /\ Goal = Soon /\ at # "init"
  BY <1>1 DEF InPart, Outer, Goal, SwapWrites
<1>4. ApplTypes /\ PartsStandApart /\ todo # <<>> /\ IndexesInPart /\ MemoryTypes
  BY <1>3 DEF SortInv, ArrayInv, LoopInv, IndexesInPart
<1>5. /\ i \in Int /\ j \in Int /\ addr2 \in Int /\ l \in Int /\ r \in Int
      /\ l < r /\ l <= i /\ i <= r /\ 0 <= l /\ r < Length
  BY <1>3, PartKnown DEF SortInv, ArrayInv, ApplTypes
<1>6. CASE addr2 # r
  <2>1. at' = "left" /\ UNCHANGED <<i, j, todo>>  BY <1>1, <1>6
  <2>2. InPart' /\ at' \notin SwapWrites  BY <2>1 DEF InPart, Outer, SwapWrites
  <2>3. ArrayInv' /\ PivotIsPlaced' /\ Goal' = Goal /\ l' = l /\ r' = r
    BY <1>1, <1>2, <1>3, <1>5, <2>1, <2>2, QuietStep
  <2>4. IndexesInPart' /\ Passed'  BY <1>3, <1>6, <2>1, <2>2, <2>3, LoopsStand
  <2>5. LeftStands' /\ SwapArguments' /\ HeardWhatWasAsked'
    BY <2>1 DEF LeftStands, SwapArguments, HeardWhatWasAsked
  <2> QED  BY <2>3, <2>4, <2>5 DEF SortInv, LoopInv
<1>7. CASE addr2 = r
  <2>1. todo' = Parts \o Tail(todo) /\ at' = "quicksort"  BY <1>1, <1>7
  <2>2. /\ todo' \in Seq(Int \X Int) /\ Len(todo') = Len(todo) + 1
        /\ todo'[1] = <<l, i - 1>> /\ todo'[2] = <<i + 1, r>>
        /\ \A n \in 3 .. Len(todo') : todo'[n] = todo[n - 1]
    BY <1>4, <2>1, PartsInFront
  <2>3. Goal' = Goal  BY <1>2, <1>3, <2>1 DEF Goal
  <2>4. LoopInv' /\ SwapIsInside' /\ FilledSoFar'
    BY <2>1, OutsideCalls DEF Outer
  <2>5. MemoryTypes' /\ WritesEnd' /\ ApplTypes' /\ SortedAtEnd'
    BY <1>1, <1>2, <1>4, <2>1, <2>2
    DEF MemoryTypes, WritesEnd, ApplTypes, SortedAtEnd
  <2>6. NothingIsLost'
    BY <1>1, <1>3, <2>3 DEF NothingIsLost, Occurrences, SortInv, ArrayInv
  <2>7. /\ Len(todo) \in Nat /\ Len(todo) >= 1 /\ l = todo[1][1] /\ r = todo[1][2]
        /\ \A n \in 1 .. Len(todo) : /\ todo[n][1] \in Int /\ todo[n][2] \in Int
                                     /\ 0 <= todo[n][1] /\ todo[n][2] < Length
        /\ \A m, n \in 1 .. Len(todo) : m < n => todo[m][2] < todo[n][1]
    BY <1>4, PartsTyped DEF PartsStandApart
  <2>8. PartsStandApart'
    <3>1. ASSUME NEW n \in 1 .. Len(todo')
          PROVE  0 <= todo'[n][1] /\ todo'[n][2] < Length
      <4>1. CASE n \in 3 .. Len(todo')
        <5>1. n - 1 \in 1 .. Len(todo)  BY <2>2, <2>7, <4>1
        <5>2. todo'[n] = todo[n - 1]  BY <2>2, <4>1
        <5> QED  BY <2>7, <5>1, <5>2
      <4>2. n = 1 \/ n = 2 \/ n \in 3 .. Len(todo')  BY <2>2, <2>7
      <4> QED  BY <1>5, <2>2, <4>1, <4>2, ElementsAreAddresses
    <3>2. ASSUME NEW m \in 1 .. Len(todo'), NEW n \in 1 .. Len(todo'), m < n
          PROVE  todo'[m][2] < todo'[n][1]
      <4>1. CASE n = 2
        <5>1. m = 1  BY <2>2, <2>7, <3>2, <4>1
        <5> QED  BY <1>5, <2>2, <4>1, <5>1
      <4>2. CASE n \in 3 .. Len(todo')
        <5>1. n - 1 \in 2 .. Len(todo)  BY <2>2, <2>7, <4>2
        <5>2. todo'[n] = todo[n - 1]  BY <2>2, <4>2
        <5>3. r < todo'[n][1] /\ todo'[n][1] \in Int  BY <2>7, <5>1, <5>2
        <5>4. CASE m \in 3 .. Len(todo')
          <6>1. m - 1 \in 1 .. Len(todo) /\ m - 1 < n - 1
            BY <2>2, <2>7, <3>2, <5>4
          <6>2. todo'[m] = todo[m - 1]  BY <2>2, <5>4
          <6> QED  BY <2>7, <5>1, <5>2, <6>1, <6>2
        <5>5. CASE m = 1
          <6>1. todo'[m][2] = i - 1  BY <2>2, <5>5
          <6> QED  BY <1>5, <5>3, <6>1
        <5>6. CASE m = 2
          <6>1. todo'[m][2] = r  BY <2>2, <5>6
          <6> QED  BY <5>3, <6>1
        <5>7. m = 1 \/ m = 2 \/ m \in 3 .. Len(todo')  BY <2>2, <2>7
        <5> QED  BY <5>4, <5>5, <5>6, <5>7
      <4>3. n = 2 \/ n \in 3 .. Len(todo')  BY <2>2, <2>7, <3>2
      <4> QED  BY <4>1, <4>2, <4>3
    <3> QED  BY <3>1, <3>2 DEF PartsStandApart
  <2>9. /\ \A k \in l .. i - 1 : Goal[k] <= Goal[i]
        /\ \A k \in i + 1 .. r : Goal[k] >= Goal[i]
    BY <1>3, <1>7 DEF SortInv, LoopInv, PivotIsPlaced
  <2>10. SortedButForParts'
    <3>1. SUFFICES ASSUME NEW k \in Elements, NEW m \in Elements, k < m
                   PROVE  \/ Goal[k] <= Goal[m]
                          \/ \E n \in 1 .. Len(todo') : /\ todo'[n][1] <= k
                                                         /\ m <= todo'[n][2]
      BY <2>3 DEF SortedButForParts, InOrder
    <3>2. \/ Goal[k] <= Goal[m]
          \/ \E n \in 1 .. Len(todo) : todo[n][1] <= k /\ m <= todo[n][2]
      BY <1>1, <3>1 DEF SortInv, ArrayInv, SortedButForParts, InOrder
    <3>3. CASE \E n \in 2 .. Len(todo) : todo[n][1] <= k /\ m <= todo[n][2]
      <4>1. PICK n \in 2 .. Len(todo) : todo[n][1] <= k /\ m <= todo[n][2]  BY <3>3
      <4>2. n + 1 \in 3 .. Len(todo') /\ (n + 1) - 1 = n  BY <2>2, <2>7
      <4>3. n + 1 \in 1 .. Len(todo')  BY <2>2, <2>7
      <4>4. todo'[n + 1] = todo[(n + 1) - 1]  BY <2>2, <4>2
      <4> QED  BY <4>1, <4>2, <4>3, <4>4
    <3>4. CASE l <= k /\ m <= r
      <4>1. k \in Int /\ m \in Int  BY ElementsAreAddresses
      <4>2. CASE m <= i - 1
        <5>1. 1 \in 1 .. Len(todo') /\ todo'[1][1] = l /\ todo'[1][2] = i - 1
          BY <2>2, <2>7
        <5> QED  BY <3>4, <4>2, <5>1
      <4>3. CASE i + 1 <= k
        <5>1. 2 \in 1 .. Len(todo') /\ todo'[2][1] = i + 1 /\ todo'[2][2] = r
          BY <2>2, <2>7
        <5> QED  BY <3>4, <4>3, <5>1
      <4>4. CASE k <= i /\ i <= m
        <5>1. Goal[k] \in Int /\ Goal[m] \in Int /\ Goal[i] \in Int
          BY <1>3, <1>4, <1>5, MemoryIsArray, ElementsAreAddresses
        <5>2. Goal[k] <= Goal[i]  BY <1>5, <2>9, <3>4, <4>1, <4>4, <5>1
        <5>3. Goal[m] >= Goal[i]  BY <1>5, <2>9, <3>4, <4>1, <4>4, <5>1
        <5> QED  BY <5>1, <5>2, <5>3
      <4> QED  BY <1>5, <4>1, <4>2, <4>3, <4>4
    <3> QED
      <4>1. ASSUME NEW n \in 1 .. Len(todo) PROVE n = 1 \/ n \in 2 .. Len(todo)
        BY <2>7
      <4> QED  BY <2>7, <3>2, <3>3, <3>4, <4>1
  <2> QED  BY <2>4, <2>5, <2>6, <2>8, <2>10 DEF SortInv, ArrayInv
<1> QED  BY <1>6, <1>7

-----------------------------------------------------------------------------
(* The other steps *)

\* A step outside the calls of quicksort that does not write.
LEMMA OuterStep ==
  ASSUME SortInv, at \in Outer, at' \in Outer \ {"init"},
         FlatView' = FlatView, Soon' = Soon, ~Writing'
  PROVE  /\ LoopInv' /\ SwapIsInside' /\ FilledSoFar' /\ MemoryTypes' /\ WritesEnd'
         /\ Goal = Soon /\ Goal' = Goal
<1>1. LoopInv' /\ SwapIsInside' /\ FilledSoFar'  BY OutsideCalls
<1>2. MemoryTypes' /\ WritesEnd'
  BY DEF MemoryTypes, WritesEnd, SortInv, ArrayInv
<1>3. at # "swap4" /\ at' # "swap4"  BY DEF Outer
<1> QED  BY <1>1, <1>2, <1>3 DEF Goal

LEMMA EnterSorts ==
  ASSUME PagingInv, SortInv, Enter
  PROVE  SortInv'
<1> USE DEF SortInv, ArrayInv
<1>1. /\ at = "quicksort" /\ UNCHANGED vars /\ UNCHANGED <<tmp, addr2, filled>>
      /\ \/ todo = <<>> /\ at' = "sorted" /\ i' = 0 /\ UNCHANGED <<j, todo>>
         \/ /\ todo # <<>> /\ l < r
            /\ at' = "left" /\ i' = l /\ j' = r - 1 /\ UNCHANGED todo
         \/ /\ todo # <<>> /\ ~(l < r)
            /\ todo' = Tail(todo) /\ UNCHANGED <<at, i, j>>
  BY DEF Enter, NoCall
<1>2. FlatView' = FlatView /\ Soon' = Soon /\ ~Writing'
  BY <1>1, NothingBegins DEF WritesEnd, SwapWrites
<1>3. Goal = Soon /\ at' # "init" /\ at' # "swap4" /\ Goal' = Goal
  BY <1>1, <1>2 DEF Goal
<1>4. NothingIsLost'  BY <1>1, <1>3 DEF NothingIsLost, Occurrences
<1>5. CASE todo = <<>> \/ l < r
  <2>1. UNCHANGED todo /\ (at' = "sorted" => todo = <<>>) /\ at' \notin SwapWrites
    BY <1>1, <1>5 DEF SwapWrites
  <2>2. i' \in Int /\ j' \in Int /\ addr2' \in Int
    <3>1. CASE todo = <<>>  BY <1>1, <3>1 DEF ApplTypes
    <3>2. CASE todo # <<>>  BY <1>1, <1>5, <3>2, PartInArray DEF ApplTypes
    <3> QED  BY <3>1, <3>2
  <2>3. MemoryTypes' /\ WritesEnd' /\ FilledSoFar' /\ ApplTypes'
    BY <1>1, <1>2, <1>3, <2>1, <2>2
    DEF MemoryTypes, WritesEnd, FilledSoFar, ApplTypes
  <2>4. PartsStandApart'  BY <2>1 DEF PartsStandApart
  <2>5. SortedButForParts' /\ SortedAtEnd' /\ SwapIsInside'
    <3>1. SortedButForParts'
      BY <1>1, <1>3, <2>1 DEF SortedButForParts, InOrder
    <3>2. at' = "sorted" \/ at' = "left"  BY <1>1, <1>5
    <3> QED  BY <2>1, <3>1, <3>2 DEF SortedAtEnd, SwapIsInside
  <2>6. CASE at' = "sorted"
    <3>1. LoopInv'  BY <2>6, OutsideCalls DEF Outer
    <3> QED  BY <1>4, <2>3, <2>4, <2>5, <3>1
  <2>7. CASE at' = "left"
    <3>1. /\ todo # <<>> /\ l < r /\ i' = l /\ j' = r - 1 /\ l' = l /\ r' = r
          /\ l \in Int /\ r \in Int
      BY <1>1, <2>1, <2>7, PartInArray DEF l, r
    <3>2. l \in Int /\ r \in Int /\ l <= l /\ l <= r - 1 /\ r - 1 < r /\ l <= r
      BY <3>1
    <3>3. IndexesInPart'  BY <2>1, <3>1, <3>2 DEF IndexesInPart
    <3>4. /\ \A k \in l' .. i' - 1 : FALSE
          /\ \A k \in j' + 1 .. r' - 1 : FALSE
      BY <3>1
    <3>5. Passed'  BY <3>4 DEF Passed
    <3>6. LeftStands' /\ SwapArguments' /\ PivotIsPlaced' /\ HeardWhatWasAsked'
      BY <2>7 DEF LeftStands, SwapArguments, PivotIsPlaced, HeardWhatWasAsked,
         SwapWrites
    <3> QED  BY <1>4, <2>3, <2>4, <2>5, <3>3, <3>5, <3>6 DEF LoopInv
  <2> QED  BY <1>1, <1>5, <2>6, <2>7
<1>6. CASE todo # <<>> /\ ~(l < r)
  <2>1. todo' = Tail(todo) /\ at' = "quicksort" /\ UNCHANGED <<i, j, addr2, filled>>
    BY <1>1, <1>6
  <2>2. /\ Len(todo) \in Nat /\ Len(todo) >= 1 /\ l = todo[1][1] /\ r = todo[1][2]
        /\ l \in Int /\ r \in Int
        /\ \A n \in 1 .. Len(todo) : 0 <= todo[n][1] /\ todo[n][2] < Length
        /\ \A m, n \in 1 .. Len(todo) : m < n => todo[m][2] < todo[n][1]
    BY <1>6, PartsTyped, PartInArray DEF PartsStandApart
  <2>3. /\ todo' \in Seq(Int \X Int) /\ Len(todo') = Len(todo) - 1
        /\ \A n \in 1 .. Len(todo') : todo'[n] = todo[n + 1]
    BY <1>6, <2>1, HeadTailProperties DEF ApplTypes
  <2>4. /\ LoopInv' /\ SwapIsInside' /\ FilledSoFar' /\ MemoryTypes' /\ WritesEnd'
    BY <1>1, <1>2, <2>1, OuterStep DEF Outer
  <2>5. ApplTypes' /\ SortedAtEnd'  BY <2>1, <2>3 DEF ApplTypes, SortedAtEnd
  <2>6. \A n \in 1 .. Len(todo') : n + 1 \in 1 .. Len(todo)  BY <2>2, <2>3
  <2>7. PartsStandApart'
    <3>1. ASSUME NEW n \in 1 .. Len(todo')
          PROVE  0 <= todo'[n][1] /\ todo'[n][2] < Length
      BY <2>2, <2>3, <2>6
    <3>2. ASSUME NEW m \in 1 .. Len(todo'), NEW n \in 1 .. Len(todo'), m < n
          PROVE  todo'[m][2] < todo'[n][1]
      <4>1. m + 1 \in 1 .. Len(todo) /\ n + 1 \in 1 .. Len(todo) /\ m + 1 < n + 1
        BY <2>2, <2>6, <3>2
      <4>2. todo'[m] = todo[m + 1] /\ todo'[n] = todo[n + 1]  BY <2>3
      <4> QED  BY <2>2, <4>1, <4>2
    <3> QED  BY <3>1, <3>2 DEF PartsStandApart
  <2>8. SortedButForParts'
    <3>1. SUFFICES ASSUME NEW k \in Elements, NEW m \in Elements, k < m
                   PROVE  \/ Goal[k] <= Goal[m]
                          \/ \E n \in 1 .. Len(todo') : /\ todo'[n][1] <= k
                                                         /\ m <= todo'[n][2]
      BY <1>3 DEF SortedButForParts, InOrder
    <3>2. \/ Goal[k] <= Goal[m]
          \/ \E n \in 1 .. Len(todo) : todo[n][1] <= k /\ m <= todo[n][2]
      BY <1>1, <3>1 DEF SortedButForParts, InOrder
    <3>3. ASSUME NEW n \in 1 .. Len(todo), todo[n][1] <= k, m <= todo[n][2]
          PROVE  \E z \in 1 .. Len(todo') : todo'[z][1] <= k /\ m <= todo'[z][2]
      <4>1. n # 1  BY <1>6, <2>2, <3>1, <3>3, ElementsAreAddresses
      <4>2. n - 1 \in 1 .. Len(todo') /\ (n - 1) + 1 = n  BY <2>2, <2>3, <4>1
      <4>3. todo'[n - 1] = todo[(n - 1) + 1]  BY <2>3, <4>2
      <4> QED  BY <3>3, <4>2, <4>3
    <3> QED  BY <3>2, <3>3
  <2> QED  BY <1>4, <2>4, <2>5, <2>7, <2>8
<1> QED  BY <1>5, <1>6

LEMMA FillSorts ==
  ASSUME PagingInv, SortInv, Fill
  PROVE  SortInv'
<1> USE DEF SortInv, ArrayInv
<1>1. PICK v \in Values : Write(i, v) /\ filled' = [filled EXCEPT ![i] = v]  BY DEF Fill
<1>2. /\ at = "init" /\ at' = "init" /\ i < Length /\ i' = i + 1
      /\ UNCHANGED <<j, tmp, addr2, todo>>
  BY DEF Fill
<1>3. /\ FlatView' = FlatView /\ Soon = FlatView /\ i \in Addresses
      /\ Soon' = [Soon EXCEPT ![i] = v]
  BY <1>1, WriteBegins
<1>4. /\ i \in 0 .. Length /\ i \in Elements /\ Length \in Int /\ v \in Int
      /\ \A k \in 0 .. i - 1 : Soon[k] = filled[k]
  <2>1. \A w \in Values : w \in Int  BY ApplicationAssumption
  <2>2. i \in 0 .. Length /\ \A k \in 0 .. i - 1 : Soon[k] = filled[k]
    BY <1>2 DEF FilledSoFar
  <2> QED  BY <1>2, <2>1, <2>2, ElementsAreAddresses
<1>5. MemoryTypes' /\ WritesEnd'  BY <1>2, <1>3 DEF MemoryTypes, WritesEnd
<1>6. ApplTypes'
  <2>1. filled' \in [Elements -> Int]  BY <1>1, <1>4 DEF ApplTypes
  <2> QED  BY <1>2, <1>4, <2>1 DEF ApplTypes
<1>7. FilledSoFar'
  <2>1. i' \in 0 .. Length  BY <1>2, <1>4
  <2>2. ASSUME NEW k \in 0 .. i' - 1 PROVE Soon'[k] = filled'[k]
    <3>1. k \in Elements /\ k \in Addresses /\ (k = i \/ k \in 0 .. i - 1)
      BY <1>2, <1>4, <2>1, ElementsAreAddresses
    <3>2. Soon'[k] = IF k = i THEN v ELSE Soon[k]  BY <1>3, <3>1 DEF MemoryTypes
    <3>3. filled'[k] = IF k = i THEN v ELSE filled[k]  BY <1>1, <3>1 DEF ApplTypes
    <3> QED  BY <1>4, <3>1, <3>2, <3>3
  <2> QED  BY <2>1, <2>2 DEF FilledSoFar
<1>8. NothingIsLost' /\ SortedButForParts' /\ SortedAtEnd'
  BY <1>2 DEF NothingIsLost, SortedButForParts, SortedAtEnd
<1>9. PartsStandApart'  BY <1>2 DEF PartsStandApart
<1>10. LoopInv' /\ SwapIsInside'  BY <1>2, OutsideCalls DEF Outer
<1> QED  BY <1>5, <1>6, <1>7, <1>8, <1>9, <1>10

LEMMA DisplaySorts ==
  ASSUME PagingInv, SortInv, Display
  PROVE  SortInv'
<1> USE DEF SortInv, ArrayInv
<1>1. /\ at \in {"unsorted", "sorted"} /\ at' = at /\ Read(i) /\ i' = i + 1
      /\ UNCHANGED <<j, tmp, addr2, todo, filled>>
  BY DEF Display
<1>2. ~Writing' /\ FlatView' = FlatView /\ Soon' = Soon  BY <1>1, ReadBegins
<1>3. /\ LoopInv' /\ SwapIsInside' /\ FilledSoFar' /\ MemoryTypes' /\ WritesEnd'
      /\ Goal' = Goal
  BY <1>1, <1>2, OuterStep DEF Outer
<1>4. ApplTypes'  BY <1>1 DEF ApplTypes
<1>5. NothingIsLost'  BY <1>1, <1>3 DEF NothingIsLost, Occurrences
<1>6. SortedButForParts' /\ SortedAtEnd'
  BY <1>1, <1>3 DEF SortedButForParts, SortedAtEnd, InOrder
<1>7. PartsStandApart'  BY <1>1 DEF PartsStandApart
<1> QED  BY <1>3, <1>4, <1>5, <1>6, <1>7

LEMMA NextPartSorts ==
  ASSUME PagingInv, SortInv, NextPart
  PROVE  SortInv'
<1> USE DEF SortInv, ArrayInv
<1>1. /\ Returned /\ UNCHANGED vars /\ i = Length /\ i' = 0
      /\ UNCHANGED <<j, tmp, addr2, filled>>
      /\ \/ at = "init" /\ at' = "unsorted" /\ UNCHANGED todo
         \/ /\ at = "unsorted" /\ at' = "quicksort"
            /\ todo' = << <<0, Length - 1>> >>
         \/ at = "sorted" /\ at' = "exit" /\ UNCHANGED todo
  BY DEF NextPart, NoCall
<1>2. FlatView' = FlatView /\ Soon' = Soon /\ ~Writing'
  BY <1>1, NothingBegins DEF Writing
<1>3. /\ LoopInv' /\ SwapIsInside' /\ FilledSoFar' /\ MemoryTypes' /\ WritesEnd'
      /\ Goal = Soon /\ Goal' = Goal
  BY <1>1, <1>2, OuterStep DEF Outer
<1>4. CASE at = "init"
  <2>1. at' = "unsorted" /\ UNCHANGED <<j, addr2, filled, todo>>  BY <1>1, <1>4
  <2>2. ApplTypes'  BY <1>1, <2>1 DEF ApplTypes
  <2>3. PartsStandApart' /\ SortedButForParts' /\ SortedAtEnd'
    BY <2>1 DEF PartsStandApart, SortedButForParts, SortedAtEnd
  <2>4. \A k \in Elements : Goal'[k] = filled'[k]
    BY <1>1, <1>3, <1>4 DEF FilledSoFar, Elements
  <2>5. NothingIsLost'
    <3>1. ASSUME NEW v
          PROVE  {k \in Elements : Goal'[k] = v} = {k \in Elements : filled'[k] = v}
      BY <2>4
    <3> QED  BY <3>1 DEF NothingIsLost, Occurrences
  <2> QED  BY <1>3, <2>2, <2>3, <2>5
<1>5. CASE at = "unsorted"
  <2>1. /\ at' = "quicksort" /\ todo' = << <<0, Length - 1>> >>
        /\ UNCHANGED <<j, addr2, filled>>
    BY <1>1, <1>5
  <2>2. /\ Length \in Int /\ Length - 1 < Length /\ Len(todo') = 1
        /\ todo'[1] = <<0, Length - 1>>
        /\ todo' \in Seq(Int \X Int)
    BY <2>1, ElementsAreAddresses
  <2>3. ApplTypes' /\ SortedAtEnd'  BY <1>1, <2>1, <2>2 DEF ApplTypes, SortedAtEnd
  <2>4. PartsStandApart'  BY <2>2 DEF PartsStandApart
  <2>5. SortedButForParts'
    <3>1. ASSUME NEW k \in Elements, NEW m \in Elements
          PROVE  1 \in 1 .. Len(todo') /\ todo'[1][1] <= k /\ m <= todo'[1][2]
      BY <2>2, ElementsAreAddresses
    <3> QED  BY <3>1 DEF SortedButForParts, InOrder
  <2>6. NothingIsLost'  BY <1>3, <1>5, <2>1 DEF NothingIsLost, Occurrences
  <2> QED  BY <1>3, <2>3, <2>4, <2>5, <2>6
<1>6. CASE at = "sorted"
  <2>1. at' = "exit" /\ UNCHANGED <<j, addr2, filled, todo>>  BY <1>1, <1>6
  <2>2. ApplTypes'  BY <1>1, <2>1 DEF ApplTypes
  <2>3. NothingIsLost'  BY <1>3, <1>6, <2>1 DEF NothingIsLost, Occurrences
  <2>4. SortedButForParts' /\ SortedAtEnd'
    BY <1>3, <1>6, <2>1 DEF SortedButForParts, SortedAtEnd, InOrder
  <2>5. PartsStandApart'  BY <2>1 DEF PartsStandApart
  <2> QED  BY <1>3, <2>2, <2>3, <2>4, <2>5
<1> QED  BY <1>1, <1>4, <1>5, <1>6

\* A step of the virtual memory, or none.
LEMMA ApplicationWaits ==
  ASSUME SortInv, UNCHANGED appl, Soon' = Soon, Heard' = Heard,
         FlatView' \in {FlatView, Soon}, Writing' => Writing
  PROVE  SortInv'
<1> USE DEF SortInv, ArrayInv
<1>1. UNCHANGED <<at, i, j, tmp, addr2, todo, filled>>  BY DEF appl
<1>2. Goal' = Goal /\ l' = l /\ r' = r  BY <1>1 DEF Goal, l, r
<1>3. MemoryTypes' /\ WritesEnd' /\ ApplTypes'
  BY <1>1 DEF MemoryTypes, WritesEnd, ApplTypes
<1>4. FilledSoFar' /\ SortedAtEnd' /\ PartsStandApart'
  BY <1>1 DEF FilledSoFar, SortedAtEnd, PartsStandApart
<1>5. NothingIsLost'  BY <1>1, <1>2 DEF NothingIsLost, Occurrences
<1>6. SortedButForParts'  BY <1>1, <1>2 DEF SortedButForParts, InOrder
<1>7. SwapIsInside'
  <2>1. CASE FlatView' = FlatView  BY <1>1, <1>2, <2>1 DEF SwapIsInside, Near
  <2>2. CASE FlatView' = Soon  BY <1>1, <1>2, <2>2 DEF SwapIsInside, Near
  <2> QED  BY <2>1, <2>2
<1>8. LoopInv'
  <2> USE DEF LoopInv
  <2>1. IndexesInPart' /\ Passed'  BY <1>1, <1>2 DEF IndexesInPart, Passed, InPart
  <2>2. LeftStands' /\ SwapArguments'  BY <1>1, <1>2 DEF LeftStands, SwapArguments
  <2>3. PivotIsPlaced'  BY <1>1, <1>2 DEF PivotIsPlaced
  <2>4. HeardWhatWasAsked'  BY <1>1, <1>2 DEF HeardWhatWasAsked
  <2> QED  BY <2>1, <2>2, <2>3, <2>4
<1> QED  BY <1>3, <1>4, <1>5, <1>6, <1>7, <1>8

LEMMA InitSorts == ApplInit => SortInv
<1> SUFFICES ASSUME ApplInit PROVE SortInv  OBVIOUS
<1>1. /\ at = "init" /\ i = 0 /\ j = 0 /\ addr2 = 0 /\ todo = <<>>
      /\ filled = [k \in Elements |-> 0]
  BY DEF ApplInit
<1>2. FlatView \in [Addresses -> Values]  BY InitFlat DEF ApplInit, Flat!Init
<1>3. pc = [c \in Clients |-> "idle"]  BY DEF ApplInit, Init
<1>4. Returned /\ ~Writing /\ Soon = FlatView
  BY <1>3, MeIsAlone DEF Returned, Writing, Soon
<1>5. LoopInv /\ SwapIsInside
  <2>1. ~InPart /\ at \notin SwapWrites  BY <1>1 DEF InPart, Outer, SwapWrites
  <2>2. IndexesInPart /\ Passed /\ PivotIsPlaced
    BY <2>1 DEF IndexesInPart, Passed, PivotIsPlaced
  <2>3. LeftStands /\ SwapArguments /\ HeardWhatWasAsked
    BY <1>1 DEF LeftStands, SwapArguments, HeardWhatWasAsked
  <2> QED  BY <2>1, <2>2, <2>3 DEF LoopInv, SwapIsInside
<1>6. MemoryTypes /\ WritesEnd  BY <1>1, <1>2, <1>4 DEF MemoryTypes, WritesEnd
<1>7. ApplTypes  BY <1>1 DEF ApplTypes
<1>8. FilledSoFar  BY <1>1, ElementsAreAddresses DEF FilledSoFar
<1>9. NothingIsLost /\ SortedButForParts /\ SortedAtEnd
  BY <1>1 DEF NothingIsLost, SortedButForParts, SortedAtEnd
<1>10. PartsStandApart  BY <1>1 DEF PartsStandApart
<1> QED  BY <1>5, <1>6, <1>7, <1>8, <1>9, <1>10 DEF SortInv, ArrayInv

LEMMA StepSorts == PagingInv /\ SortInv /\ [ApplNext]_avars => SortInv'
<1> SUFFICES ASSUME PagingInv, SortInv, [ApplNext]_avars PROVE SortInv'
  OBVIOUS
<1>1. CASE Main
  BY <1>1, FillSorts, DisplaySorts, NextPartSorts, EnterSorts, ReadElementSorts,
     ReadPivotSorts, LeftTestSorts, RightTestSorts, SwapReadsSort, Swap3Sorts,
     Swap4Sorts, SwappedSorts
  DEF Main
<1>2. CASE VMem
  BY <1>2, VMemIsUnheard, ApplicationWaits
<1>3. CASE UNCHANGED avars
  <2>1. UNCHANGED vars /\ UNCHANGED appl  BY <1>3 DEF avars
  <2> QED  BY <2>1, NothingBegins, ApplicationWaits
<1> QED  BY <1>1, <1>2, <1>3 DEF ApplNext

LEMMA SortInvariant == ApplSpec => []SortInv
<1>1. ApplSpec => []PagingInv  BY MemoryHolds
<1> QED  BY <1>1, InitSorts, StepSorts, PTL DEF ApplSpec

-----------------------------------------------------------------------------
(* What the invariant says of the array *)

LEMMA ElementsRead ==
  ASSUME SortInv
  PROVE  /\ Array \in [Elements -> Int] /\ Array = [k \in Elements |-> FlatView[k]]
         /\ \A k \in Elements : Array[k] = FlatView[k]
  BY MemoryIsArray DEF Array, SortInv, ArrayInv

\* Once swap has returned the array is as it should be.
LEMMA ArrayIsGoal ==
  ASSUME SortInv, at # "init", at \notin SwapWrites
  PROVE  FlatView = Goal
  BY DEF SortInv, ArrayInv, WritesEnd, Soon, Goal, SwapWrites

\* Even in the middle of a swap only pending parts are out of order.
LEMMA ArrayInOrder ==
  ASSUME SortInv, at \notin {"init", "unsorted"}
  PROVE  InOrder(FlatView)
<1> USE DEF SortInv, ArrayInv, LoopInv
<1>1. InOrder(Goal)  BY DEF SortedButForParts
<1>2. CASE at \in SwapWrites
  <2>1. InPart  BY <1>2 DEF InPart, Outer, SwapWrites
  <2>2. todo # <<>> /\ Near(FlatView, Goal)
    BY <1>2, <2>1 DEF IndexesInPart, SwapIsInside
  <2> QED  BY <1>1, <2>2, NearKeepsOrder
<1>3. CASE at \notin SwapWrites
  <2>1. FlatView = Goal  BY <1>3, ArrayIsGoal
  <2> QED  BY <1>1, <2>1
<1> QED  BY <1>2, <1>3

\* However long the array, however few frames and whichever the replacement
\* algorithm: when quicksort has returned, the array that vmem_read shows is in
\* order and holds what init_data has written.
THEOREM TheSortSorts == ApplSpec => []SortedWhenDisplayed
<1>1. SortInv => SortedWhenDisplayed
  <2> SUFFICES ASSUME SortInv, at \in {"sorted", "exit"}
               PROVE  /\ \A k \in Elements : k > 0 => Array[k - 1] <= Array[k]
                      /\ \A v \in Values : Occurrences(Array, v) = Occurrences(filled, v)
    BY DEF SortedWhenDisplayed
  <2>1. FlatView = Goal /\ todo = <<>>
    BY ArrayIsGoal DEF SwapWrites, SortInv, ArrayInv, SortedAtEnd
  <2>2. InOrder(FlatView)  BY ArrayInOrder
  <2>3. ASSUME NEW k \in Elements, k > 0 PROVE Array[k - 1] <= Array[k]
    <3>1. k - 1 \in Elements /\ k - 1 < k  BY <2>3, ElementsAreAddresses
    <3>2. FlatView[k - 1] <= FlatView[k]  BY <2>1, <2>2, <3>1 DEF InOrder
    <3> QED  BY <3>1, <3>2, ElementsRead
  <2>4. ASSUME NEW v \in Values PROVE Occurrences(Array, v) = Occurrences(filled, v)
    <3>1. Occurrences(FlatView, v) = Occurrences(filled, v)
      BY <2>1 DEF SortInv, ArrayInv, NothingIsLost
    <3>2. {k \in Elements : Array[k] = v} = {k \in Elements : FlatView[k] = v}
      BY ElementsRead
    <3> QED  BY <3>1, <3>2 DEF Occurrences
  <2> QED  BY <2>3, <2>4
<1> QED  BY <1>1, SortInvariant, PTL

\* The first inner loop has no bound check at all and the second one only l: both
\* stay in the range of the current call.
THEOREM TheLoopsStayInRange == ApplSpec => []LoopsStayInRange
<1>1. SortInv => LoopsStayInRange
  BY DEF SortInv, LoopInv, IndexesInPart, InPart, Outer, LoopsStayInRange
<1> QED  BY <1>1, SortInvariant, PTL

\* At every moment of the sort, between the two writes of a swap as well, a pending
\* call of quicksort has nothing to exchange with the rest of the array.
THEOREM ThePartsAreApart == ApplSpec => []PendingPartsAreApart
<1>1. SortInv => PendingPartsAreApart
  <2> SUFFICES ASSUME SortInv, at \notin {"init", "unsorted"},
                      NEW n \in 1 .. Len(todo), NEW k \in todo[n][1] .. todo[n][2],
                      NEW m \in Elements
               PROVE  /\ m < todo[n][1] => Array[m] <= Array[k]
                      /\ m > todo[n][2] => Array[m] >= Array[k]
    BY DEF PendingPartsAreApart
  <2>1. ApplTypes /\ PartsStandApart  BY DEF SortInv, ArrayInv
  <2>2. /\ m < todo[n][1] => FlatView[m] <= FlatView[k]
        /\ m > todo[n][2] => FlatView[k] <= FlatView[m]
    BY <2>1, ArrayInOrder, OutsideIsApart
  <2>3. k \in Elements  BY <2>1, PartsTyped, ElementsAreAddresses
  <2>4. Array[k] = FlatView[k] /\ Array[m] = FlatView[m] /\ Array[k] \in Int
        /\ Array[m] \in Int
    BY <2>3, ElementsRead
  <2> QED  BY <2>2, <2>4
<1> QED  BY <1>1, SortInvariant, PTL
=============================================================================
