---------------------------- MODULE MCGiftCreation ----------------------------
(* Model values for checking GiftCreation on small instances. *)
EXTENDS GiftCreation, TLC

\* Sound for the runs without liveness: handlers of a kind are alike.
Symmetry == Permutations(Builders) \cup Permutations(Submitters)
=============================================================================
