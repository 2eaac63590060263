------------------------------ MODULE MCGiftCache ------------------------------
(* Model values for checking GiftCache on small instances. *)
EXTENDS GiftCache, TLC

\* Sound for the runs without liveness: transactions are alike.
Symmetry == Permutations(Txs)
=============================================================================
