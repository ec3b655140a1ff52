----------------------------- MODULE MCTranslate -----------------------------
(* Model checking of the translate device. *)
EXTENDS TranslateProperties, TLC

\* The default table: upper case letters first, so that cases are swapped.
SwapCase == [i \in Positions |-> IF i < CaseSize THEN UPPER_CASE_ASCII + i
                                 ELSE LOWER_CASE_ASCII + i - CaseSize]

UserSymmetry == Permutations(Users)
=============================================================================
