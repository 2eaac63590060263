------------------------------- MODULE MCClient -------------------------------
(* Instances of Client: the accounts a wallet holds are symmetric.             *)
EXTENDS Client, TLC

WalletSymmetry == Permutations(Wallets)
=============================================================================
