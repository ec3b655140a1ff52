---------------------------- MODULE SecondChance ----------------------------
(***************************************************************************)
(* The replacement policies of the memory manager as the textbook states   *)
(* them: resident pages queue up in the order they were loaded, each with  *)
(* a number of chances.  A page that is used earns a chance, up to         *)
(* MaxChances.  When a page must go, the head of the queue either spends a *)
(* chance and moves to the tail, or, having none left, makes room for the  *)
(* new page.  MaxChances = 0 is FIFO, 1 is the clock with one used bit, 2  *)
(* the clock with two.                                                     *)
(***************************************************************************)
EXTENDS Integers, Sequences

CONSTANTS Pages, Capacity, MaxChances

VARIABLE queue    \* sequence of resident pages, next candidate first

Resident == {queue[i].page : i \in 1..Len(queue)}

Fresh(p) == [page |-> p, chances |-> 0]

Init == queue = <<>>

\* A resident page is used and earns a chance.
Use == \E i \in 1..Len(queue) :
    /\ queue[i].chances < MaxChances
    /\ queue' = [queue EXCEPT ![i].chances = @ + 1]

\* A victim is sought: the head spends a chance and becomes the last in line.
PassOver == /\ Len(queue) = Capacity
            /\ Head(queue).chances > 0
            /\ queue' = Append(Tail(queue),
                               [Head(queue) EXCEPT !.chances = @ - 1])

\* A page is loaded into free room.
LoadFree == \E p \in Pages \ Resident :
    /\ Len(queue) < Capacity
    /\ queue' = Append(queue, Fresh(p))

\* A page is loaded in place of the head, which has no chance left.
Replace == \E p \in Pages \ Resident :
    /\ Len(queue) = Capacity
    /\ Head(queue).chances = 0
    /\ queue' = Append(Tail(queue), Fresh(p))

Next == Use \/ PassOver \/ LoadFree \/ Replace

Spec == Init /\ [][Next]_queue
=============================================================================
