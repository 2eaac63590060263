------------------------------ MODULE MerkleTree ------------------------------
(***************************************************************************)
(* The three places that compute the sealed pool's Merkle tree: the         *)
(* contract inserts leaves one by one and keeps only a frontier             *)
(* (contracts/shielded-pool), the browser rebuilds the whole tree from the  *)
(* list of leaves and extracts a path (frontend/src/lib/merkleTree.ts), and *)
(* the circuit folds a path back to a root (zk-circuits).                   *)
(*                                                                         *)
(* Poseidon2 is taken to be collision-free: a hash is the pair it hashes.   *)
(***************************************************************************)
EXTENDS Integers, Sequences

CONSTANTS Depth,   \* DEPTH, POOL_DEPTH
          Zero     \* zeros[0], the empty leaf

ASSUME DepthAssumption == Depth \in Nat

Hash(a, b) == <<a, b>>

Capacity == 2^Depth

\* Whether the node above leaf index at a level is a right child.
IsRight(index, level) == (index \div 2^level) % 2 = 1

\* The hash of an empty subtree of each height.
zeros[i \in 0..Depth] == IF i = 0 THEN Zero ELSE Hash(zeros[i - 1], zeros[i - 1])

EmptyFrontier == [i \in 0..(Depth - 1) |-> zeros[i]]

-----------------------------------------------------------------------------
(* Faulty variants of definitions below: none is part of the specification. *)

InsertKeepsFrontier(frontier, index, leaf) ==
  LET walk[i \in 0..Depth] ==
        IF i = 0 THEN leaf
        ELSE IF IsRight(index, i - 1) THEN Hash(frontier[i - 1], walk[i - 1])
        ELSE Hash(walk[i - 1], zeros[i - 1])
  IN [root |-> walk[Depth], frontier |-> frontier]

SiblingOfLeaf(index, level) == index \div 2^level

-----------------------------------------------------------------------------
(* The contract: one insertion *)

\* From the leaf up: a left child is remembered and hashed with an empty
\* sibling, a right child with the left subtree remembered at its level.
Insert(frontier, index, leaf) ==
  LET walk[i \in 0..Depth] ==
        IF i = 0 THEN leaf
        ELSE IF IsRight(index, i - 1) THEN Hash(frontier[i - 1], walk[i - 1])
        ELSE Hash(walk[i - 1], zeros[i - 1])
  IN [root     |-> walk[Depth],
      frontier |-> [i \in 0..(Depth - 1) |->
                      IF IsRight(index, i) THEN frontier[i] ELSE walk[i]]]

-----------------------------------------------------------------------------
(* The browser: the whole tree from its leaves, and one path *)

Rows(leaves) ==
  LET row[d \in 0..Depth] ==
        IF d = 0
        THEN [j \in 0..(Capacity - 1) |-> IF j < Len(leaves) THEN leaves[j + 1] ELSE Zero]
        ELSE [j \in 0..(2^(Depth - d) - 1) |-> Hash(row[d - 1][2 * j], row[d - 1][2 * j + 1])]
  IN row

TreeRoot(leaves) == Rows(leaves)[Depth][0]

\* pos ^ 1 at a level
Sibling(index, level) ==
  LET pos == index \div 2^level
  IN IF pos % 2 = 1 THEN pos - 1 ELSE pos + 1

AuthPath(leaves, index) ==
  LET row == Rows(leaves)
  IN [siblings |-> [d \in 0..(Depth - 1) |-> row[d][Sibling(index, d)]],
      bits     |-> [d \in 0..(Depth - 1) |-> IsRight(index, d)]]

-----------------------------------------------------------------------------
(* The circuit: the root a leaf and a path prove membership under *)

PathRoot(leaf, path) ==
  LET walk[i \in 0..Depth] ==
        IF i = 0 THEN leaf
        ELSE IF path.bits[i - 1] THEN Hash(path.siblings[i - 1], walk[i - 1])
        ELSE Hash(walk[i - 1], path.siblings[i - 1])
  IN walk[Depth]
=============================================================================
