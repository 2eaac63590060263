-------------------------------- MODULE Totals --------------------------------
(* What a map from keys to amounts adds up to.                                  *)
EXTENDS Integers, Functions

Total(f) == FoldFunction(+, 0, f)
=============================================================================
