------------------------------ MODULE MCVMAppl ------------------------------
(* Model checking of VMAppl. *)
EXTENDS VMAppl

\* One page file whose content differs from what the application writes.
OneDisk == {[p \in Pages |-> [o \in Offsets |-> (p + o) % 3]]}
=============================================================================
