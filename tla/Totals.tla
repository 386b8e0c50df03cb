-------------------------------- MODULE Totals --------------------------------
(***************************************************************************)
(* The sum of the values of a function to the natural numbers, as the      *)
(* number of the units it counts: each argument x has the units <<x, 1>>   *)
(* to <<x, f[x]>>.  A sum that is a cardinality can be reasoned about with *)
(* the facts on finite sets, without induction.                            *)
(***************************************************************************)
EXTENDS Integers, FiniteSets

Units(f) == UNION {{x} \X (1 .. f[x]) : x \in DOMAIN f}

Total(f) == Cardinality(Units(f))
=============================================================================
