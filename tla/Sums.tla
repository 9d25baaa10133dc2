---------------------------------- MODULE Sums ----------------------------------
(***************************************************************************)
(* The sum of a function's values, as the poker modules count chips.       *)
(***************************************************************************)
EXTENDS Integers, FiniteSetsExt

SumOf(f) == MapThenSumSet(LAMBDA x : f[x], DOMAIN f)
=============================================================================
