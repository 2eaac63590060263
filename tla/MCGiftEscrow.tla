----------------------------- MODULE MCGiftEscrow -----------------------------
(* Model values for checking GiftEscrow on small instances. *)
EXTENDS GiftEscrow, TLC

\* Sound: the specification and its properties treat all users alike.
Symmetry == Permutations(Users)
=============================================================================
