------------------------------- MODULE VMAppl -------------------------------
(***************************************************************************)
(* The demo application of working/ (vmappl.c) on top of Paging: it fills  *)
(* an array in the virtual memory with pseudo-random data, displays it,    *)
(* sorts it by quicksort and displays it again.  Every element it looks at *)
(* or stores is a call of vmem_read or vmem_write, so that pages are       *)
(* faulted in and evicted between any two steps of the sort.               *)
(*                                                                         *)
(* An action runs from the return of one call up to the next call.  Of the *)
(* two calls in a comparison C leaves the order open; here the left one    *)
(* comes first.                                                            *)
(***************************************************************************)
EXTENDS PagingProperties

CONSTANTS Length,  \* LENGTH, the number of elements
          Disks    \* the contents of the new page file that are looked at

ASSUME ApplicationAssumption == /\ IsFiniteSet(Clients) /\ Cardinality(Clients) = 1
                                /\ Length \in 1 .. NPages * PageSize
                                /\ Values \subseteq Nat

VARIABLES
  at,      \* where the application is
  i, j,    \* the loop variables of that name
  tmp,     \* swap's local, or the left side of a comparison
  addr2,   \* swap's second argument; the first is i
  todo,    \* the pending calls of quicksort, the current one first
  filled   \* (history) what init_data has written

appl  == <<at, i, j, tmp, addr2, todo, filled>>
avars == <<vars, appl>>

Elements == 0 .. Length - 1

Me == CHOOSE c \in Clients : TRUE

Returned == pc[Me] = "idle"

Call(r) == BeginAccess(Me) /\ request'[Me] = r
Read(a) == Call([op |-> "read", addr |-> a, val |-> VOID_IDX])
Write(a, v) == Call([op |-> "write", addr |-> a, val |-> v])
NoCall == UNCHANGED vars

\* The arguments of the current call of quicksort.
l == Head(todo)[1]
r == Head(todo)[2]

ApplInit == /\ Init
            /\ pagefile \in Disks
            /\ at = "init" /\ i = 0 /\ j = 0 /\ tmp = 0 /\ addr2 = 0
            /\ todo = <<>>
            /\ filled = [k \in Elements |-> 0]

-----------------------------------------------------------------------------
(* main, init_data and display_data *)

\* init_data writes the next element.
Fill == /\ at = "init" /\ i < Length /\ Returned
        /\ \E v \in Values : /\ Write(i, v)
                             /\ filled' = [filled EXCEPT ![i] = v]
        /\ i' = i + 1
        /\ UNCHANGED <<at, j, tmp, addr2, todo>>

\* display_data reads the next element.
Display == /\ at \in {"unsorted", "sorted"} /\ i < Length /\ Returned
           /\ Read(i)
           /\ i' = i + 1
           /\ UNCHANGED <<at, j, tmp, addr2, todo, filled>>

\* main goes on to its next part.
NextPart == /\ at \in {"init", "unsorted", "sorted"} /\ i = Length /\ Returned
            /\ at' = CASE at = "init"     -> "unsorted"
                       [] at = "unsorted" -> "quicksort"
                       [] at = "sorted"   -> "exit"
            /\ todo' = IF at = "unsorted" THEN << <<0, Length - 1>> >> ELSE todo
            /\ i' = 0
            /\ NoCall /\ UNCHANGED <<j, tmp, addr2, filled>>

-----------------------------------------------------------------------------
(* quicksort and swap *)

\* A call of quicksort starts, or returns at once, and the last return ends
\* the sort.
Enter ==
  /\ at = "quicksort"
  /\ IF todo = <<>>
       THEN at' = "sorted" /\ i' = 0 /\ UNCHANGED <<j, todo>>
       ELSE IF l < r
         THEN at' = "left" /\ i' = l /\ j' = r - 1 /\ UNCHANGED todo
         ELSE todo' = Tail(todo) /\ UNCHANGED <<at, i, j>>
  /\ NoCall /\ UNCHANGED <<tmp, addr2, filled>>

\* The left sides of the comparisons that move i and j.
ReadElement == /\ at \in {"left", "right"}
               /\ Read(IF at = "left" THEN i ELSE j)
               /\ at' = IF at = "left" THEN "leftPivot" ELSE "rightPivot"
               /\ UNCHANGED <<i, j, tmp, addr2, todo, filled>>

\* Their right sides, vmem_read(r).
ReadPivot == /\ at \in {"leftPivot", "rightPivot"} /\ Returned
             /\ tmp' = result[Me]
             /\ Read(r)
             /\ at' = IF at = "leftPivot" THEN "leftTest" ELSE "rightTest"
             /\ UNCHANGED <<i, j, addr2, todo, filled>>

\* (Faulty: the comparison is the wrong way round.)
GoesRightOver(x, pivot) == x > pivot

\* The condition of the first inner loop.
GoesRight(x, pivot) == x < pivot

LeftTest == /\ at = "leftTest" /\ Returned
            /\ IF GoesRight(tmp, result[Me]) THEN i' = i + 1 /\ at' = "left"
                                             ELSE at' = "right" /\ UNCHANGED i
            /\ NoCall /\ UNCHANGED <<j, tmp, addr2, todo, filled>>

\* (Faulty: the lower end of the range does not stop the loop.)
GoesLeftFreely(x, pivot) == x >= pivot

\* The condition of the second inner loop.
GoesLeft(x, pivot) == x >= pivot /\ j > l

\* The second inner loop ends: swap and repeat, or leave the outer loop and
\* move the pivot in between the parts.
RightTest ==
  /\ at = "rightTest" /\ Returned
  /\ IF GoesLeft(tmp, result[Me])
       THEN j' = j - 1 /\ at' = "right" /\ UNCHANGED addr2
       ELSE /\ addr2' = IF i >= j THEN r ELSE j
            /\ at' = "swap1"
            /\ UNCHANGED j
  /\ NoCall /\ UNCHANGED <<i, tmp, todo, filled>>

\* swap reads both elements and writes both.
Swap1 == /\ at = "swap1"
         /\ Read(i)
         /\ at' = "swap2"
         /\ UNCHANGED <<i, j, tmp, addr2, todo, filled>>

Swap2 == /\ at = "swap2" /\ Returned
         /\ tmp' = result[Me]
         /\ Read(addr2)
         /\ at' = "swap3"
         /\ UNCHANGED <<i, j, addr2, todo, filled>>

Swap3 == /\ at = "swap3" /\ Returned
         /\ Write(i, result[Me])
         /\ at' = "swap4"
         /\ UNCHANGED <<i, j, tmp, addr2, todo, filled>>

\* (Faulty: the second element is read again instead of remembered.)
Swap4Again == /\ at = "swap4" /\ Returned
              /\ Write(addr2, FlatView[i])
              /\ at' = "swapped"
              /\ UNCHANGED <<i, j, tmp, addr2, todo, filled>>

Swap4 == /\ at = "swap4" /\ Returned
         /\ Write(addr2, tmp)
         /\ at' = "swapped"
         /\ UNCHANGED <<i, j, tmp, addr2, todo, filled>>

\* (Faulty: the pivot remains in the right part.)
PivotToo == << <<l, i - 1>>, <<i, r>> >>

\* The two recursive calls.
Parts == << <<l, i - 1>>, <<i + 1, r>> >>

\* Back from swap: into the outer loop, or on to the recursive calls.
Swapped == /\ at = "swapped" /\ Returned
           /\ IF addr2 = r THEN todo' = Parts \o Tail(todo) /\ at' = "quicksort"
                           ELSE at' = "left" /\ UNCHANGED todo
           /\ NoCall /\ UNCHANGED <<i, j, tmp, addr2, filled>>

-----------------------------------------------------------------------------

Main == \/ Fill \/ Display \/ NextPart \/ Enter \/ ReadElement \/ ReadPivot
        \/ LeftTest \/ RightTest \/ Swap1 \/ Swap2 \/ Swap3 \/ Swap4 \/ Swapped

VMem == (ManagerStep \/ Proceed(Me)) /\ UNCHANGED appl

ApplNext == Main \/ VMem

\* The application and the manager are scheduled.
ApplSpec == /\ ApplInit /\ [][ApplNext]_avars
            /\ WF_avars(Main)
            /\ WF_avars(ManagerStep /\ UNCHANGED appl)
            /\ WF_avars(Proceed(Me) /\ UNCHANGED appl)

-----------------------------------------------------------------------------
(* Properties *)

\* The array as the application would read it now.
Array == [k \in Elements |-> FlatView[k]]

Occurrences(a, v) == Cardinality({k \in Elements : a[k] = v})

\* When the sort is over the array is in order and holds what init_data has
\* written, however often its pages were evicted in between (vmappl.c:21).
SortedWhenDisplayed ==
  at \in {"sorted", "exit"} =>
    /\ \A k \in Elements : k > 0 => Array[k - 1] <= Array[k]
    /\ \A v \in Values : Occurrences(Array, v) = Occurrences(filled, v)

\* The inner loops have no bound check of their own, the first one none at
\* all (vmappl.c:70-75): what they read is in the current range all the same,
\* because the pivot stops one of them and l the other.
LoopsStayInRange ==
  at \in {"left", "right", "swap1", "swapped"} =>
    /\ l <= i /\ i <= r
    /\ l <= j /\ j < r

\* A pending call of quicksort has nothing to exchange with the rest of the
\* array: what is to its left is not greater, what is to its right not less.
PendingPartsAreApart ==
  at \notin {"init", "unsorted"} =>
    \A n \in 1 .. Len(todo) : \A k \in todo[n][1] .. todo[n][2], m \in Elements :
      /\ m < todo[n][1] => Array[m] <= Array[k]
      /\ m > todo[n][2] => Array[m] >= Array[k]

\* The sort ends, and with it the application.
Exits == <>(at = "exit")
=============================================================================
