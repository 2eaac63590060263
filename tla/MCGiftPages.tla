------------------------------ MODULE MCGiftPages ------------------------------
(* Instances of GiftPages: the texts an answer is typed as.                    *)
EXTENDS GiftPages

Spellings ==
  {[word |-> "right", plain |-> TRUE], [word |-> "right", plain |-> FALSE],
   [word |-> "wrong", plain |-> TRUE]}
=============================================================================
