----------------------------- MODULE ShieldedPool -----------------------------
(***************************************************************************)
(* The shielded-pool contract (contracts/shielded-pool/src/lib.rs): notes   *)
(* of one denomination go in under a commitment and come out against a      *)
(* zero-knowledge proof of membership under a recent root.                  *)
(*                                                                         *)
(* A note stands for its secret; commitment and nullifier are two           *)
(* injective hashes of it, so both are written as the note.  An invocation  *)
(* is atomic, as in GiftEscrow.                                             *)
(***************************************************************************)
EXTENDS MerkleTree, FiniteSets, SequencesExt

CONSTANTS Notes,       \* note secrets
          RootHistory  \* ROOT_HISTORY

ASSUME HistoryAssumption == RootHistory \in Nat \ {0}

\* No secret is known whose commitment is the constant an empty leaf is.
ASSUME ZeroAssumption == Zero \notin Notes

VARIABLES initialized,  \* Config is stored
          leaves,       \* the deposit events, whose number is NextIndex
          frontier,
          roots,        \* Roots, oldest first
          spent,        \* Nullifier keys
          funds         \* the pool's token balance, in denominations

poolVars == <<initialized, leaves, frontier, roots, spent, funds>>

PoolTypeOK ==
  /\ initialized \in BOOLEAN
  /\ leaves \in Seq(Notes) /\ Len(leaves) <= Capacity
  /\ DOMAIN frontier = 0..(Depth - 1)
  /\ Len(roots) <= RootHistory
  /\ spent \in SUBSET Notes
  /\ funds \in 0..Capacity

PoolInit ==
  /\ initialized = FALSE
  /\ leaves = <<>>
  /\ frontier = EmptyFrontier
  /\ roots = <<>>
  /\ spent = {}
  /\ funds = 0

-----------------------------------------------------------------------------
(* Faulty variants of definitions below: none is part of the specification. *)

RememberedUnbounded(rs) == rs
RememberedNewest(rs) == SubSeq(rs, 1, RootHistory)
UnspentAlways(note) == TRUE
RootAccepted(root) == TRUE

-----------------------------------------------------------------------------
(* Entry points *)

Initialize ==
  /\ ~initialized
  /\ initialized' = TRUE
  /\ frontier' = EmptyFrontier
  /\ roots' = <<zeros[Depth]>>
  /\ UNCHANGED <<leaves, spent, funds>>

\* push_back, then pop_front while the history is too long
Remembered(rs) ==
  IF Len(rs) > RootHistory THEN SubSeq(rs, Len(rs) - RootHistory + 1, Len(rs)) ELSE rs

\* The commitment is not checked against the ones already there.
Deposit(note) ==
  /\ initialized
  /\ Len(leaves) < Capacity
  /\ LET inserted == Insert(frontier, Len(leaves), note)
     IN /\ frontier' = inserted.frontier
        /\ roots' = Remembered(Append(roots, inserted.root))
  /\ leaves' = Append(leaves, note)
  /\ funds' = funds + 1
  /\ UNCHANGED <<initialized, spent>>

KnownRoot(root) == root \in ToSet(roots)
Unspent(note) == note \notin spent

\* path is the proof's private witness.  Nothing here depends on the recipient:
\* the contract pays whom it is told to, without comparing that address with
\* the signal the proof is bound to, as its header says.
Withdraw(root, note, path) ==
  /\ initialized
  /\ KnownRoot(root)
  /\ Unspent(note)
  /\ PathRoot(note, path) = root
  /\ funds >= 1
  /\ spent' = spent \cup {note}
  /\ funds' = funds - 1
  /\ UNCHANGED <<initialized, leaves, frontier, roots>>

-----------------------------------------------------------------------------
(* Safety *)

Prefix(n) == SubSeq(leaves, 1, n)

\* The frontier, a handful of hashes carried from deposit to deposit, always
\* yields the root of the complete tree over all leaves, and the history holds
\* exactly the roots of the latest trees, in order and no other.
RootsAreTrees ==
  initialized =>
    /\ Len(roots) = (IF Len(leaves) < RootHistory THEN Len(leaves) + 1 ELSE RootHistory)
    /\ \A j \in 1..Len(roots) :
         roots[j] = TreeRoot(Prefix(Len(leaves) - (Len(roots) - j)))

\* Whoever holds a deposited, unspent note can be paid: the pool has a
\* denomination for each, and paid none out for a note that was not put in,
\* also when one commitment was deposited twice.
PoolFunded ==
  /\ spent \subseteq ToSet(leaves)
  /\ funds = Len(leaves) - Cardinality(spent)
  /\ funds >= Cardinality(ToSet(leaves) \ spent)
=============================================================================
