----------------------------- MODULE MCSealedGift -----------------------------
(* Symmetry for checking SealedGift on small instances; the liveness run       *)
(* uses none.                                                                  *)
EXTENDS SealedGift, TLC

SyncSymmetry == Permutations(Syncs)
=============================================================================
