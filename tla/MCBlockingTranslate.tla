------------------------- MODULE MCBlockingTranslate -------------------------
(* Model checking of the blocking translate device. *)
EXTENDS BlockingProperties

\* TRANSLATE_DEF_SUBST: upper case letters first, so that cases are swapped.
DefaultSubst == [i \in 0 .. 51 |-> IF i < 26 THEN 65 + i ELSE 97 + i - 26]
=============================================================================
