------------------------------ MODULE MCPaging ------------------------------
(* Model checking of Paging: the values are alike. *)
EXTENDS PagingProperties, TLC

ValueSymmetry == Permutations(Values)
=============================================================================
