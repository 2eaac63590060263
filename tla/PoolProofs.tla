------------------------------ MODULE PoolProofs ------------------------------
(***************************************************************************)
(* Theorems about MerkleTree and ShieldedPool: for every depth of the tree  *)
(* the contract's frontier, the browser's tree and the circuit's path give  *)
(* the same root, and the pool pays out only what was put in.               *)
(***************************************************************************)
EXTENDS ShieldedPool, Induction, SequenceTheorems

-----------------------------------------------------------------------------
(* Powers of two and positions in the tree *)

\* A set with one element more has twice as many subsets.
LEMMA TwiceTheSubsets ==
  ASSUME NEW S, IsFiniteSet(S), NEW x, x \notin S
  PROVE  Cardinality(SUBSET (S \cup {x})) = 2 * Cardinality(SUBSET S)
<1> DEFINE P == SUBSET S
           Q == {U \cup {x} : U \in P}
           f == [U \in P |-> U \cup {x}]
<1>1. IsFiniteSet(P)
  BY FS_SUBSET
<1>2. f \in Bijection(P, Q)
  <2>1. f \in Surjection(P, Q)
    BY DEF Surjection
  <2>2. \A U, V \in P : f[U] = f[V] => U = V
    OBVIOUS
  <2>3. f \in Injection(P, Q)
    BY <2>1, <2>2 DEF Surjection, Injection, IsInjective
  <2>4. QED
    BY <2>1, <2>3 DEF Bijection
<1>3. IsFiniteSet(Q) /\ Cardinality(Q) = Cardinality(P)
  <2>1. ExistsBijection(P, Q)
    BY <1>2 DEF ExistsBijection
  <2> HIDE DEF P, Q, f
  <2>2. QED
    BY <1>1, <2>1, FS_Bijection
<1>4. P \cap Q = {}
  OBVIOUS
<1>5. SUBSET (S \cup {x}) = P \cup Q
  <2>1. ASSUME NEW U \in SUBSET (S \cup {x}) PROVE U \in P \cup Q
    <3>1. CASE x \in U
      <4>1. U = (U \ {x}) \cup {x} /\ U \ {x} \in P
        BY <3>1
      <4>2. QED
        BY <4>1
    <3>2. QED
      BY <3>1
  <2>2. QED
    BY <2>1
<1> HIDE DEF P, Q
<1>6. Cardinality(P \cup Q) = Cardinality(P) + Cardinality(Q) - Cardinality(P \cap Q)
  BY <1>1, <1>3, FS_Union
<1>7. Cardinality(P \cap Q) = 0 /\ Cardinality(P) \in Nat
  BY <1>1, <1>4, FS_EmptySet, FS_CardinalityType
<1>8. Cardinality(P \cup Q) = 2 * Cardinality(P)
  BY <1>3, <1>6, <1>7
<1>9. QED
  BY <1>5, <1>8 DEF P

\* The powers of two, whose only known law is the number of subsets.
LEMMA Powers ==
  /\ 2^0 = 1
  /\ \A n \in Nat : 2^n \in Nat \ {0} /\ 2^(n + 1) = 2 * 2^n
<1>1. ASSUME NEW n \in Nat
      PROVE  IsFiniteSet(SUBSET (1..n)) /\ Cardinality(SUBSET (1..n)) = 2^n
  <2>1. IsFiniteSet(1..n) /\ Cardinality(1..n) = n
    BY FS_Interval
  <2>2. QED
    BY <2>1, FS_SUBSET
<1>2. ASSUME NEW n \in Nat PROVE 2^n \in Nat /\ 2^n # 0
  <2>1. SUBSET (1..n) # {}
    OBVIOUS
  <2>2. QED
    BY <1>1, <2>1, FS_EmptySet, FS_CardinalityType
<1>3. ASSUME NEW n \in Nat PROVE 2^(n + 1) = 2 * 2^n
  <2>1. 1..(n + 1) = (1..n) \cup {n + 1} /\ n + 1 \notin 1..n /\ IsFiniteSet(1..n)
    BY FS_Interval
  <2>2. Cardinality(SUBSET (1..(n + 1))) = 2 * Cardinality(SUBSET (1..n))
    BY <2>1, TwiceTheSubsets
  <2>3. Cardinality(SUBSET (1..n)) = 2^n
    BY <1>1, Zenon
  <2>4. Cardinality(SUBSET (1..(n + 1))) = 2^(n + 1)
    <3>1. n + 1 \in Nat
      OBVIOUS
    <3>2. QED
      BY <1>1, <3>1, Zenon
  <2>5. QED
    BY <2>2, <2>3, <2>4
<1>4. 2^0 = 1
  <2>1. SUBSET (1..0) = {{}}
    OBVIOUS
  <2>2. QED
    BY <1>1, <2>1, FS_Singleton
<1>5. QED
  BY <1>2, <1>3, <1>4

\* What a quotient is, and that nothing else is.
LEMMA Quotient ==
  ASSUME NEW k \in Nat, NEW p \in Nat \ {0}
  PROVE  /\ k \div p \in Nat
         /\ (k \div p) * p <= k
         /\ k < (k \div p) * p + p
OBVIOUS

\* A smaller multiple of p ends before a larger one begins.
LEMMA LessTimes ==
  ASSUME NEW a \in Nat, NEW b \in Nat, NEW p \in Nat, a < b
  PROVE  a * p + p <= b * p
<1>1. (a + 1) * p <= b * p
  OBVIOUS
<1>2. QED
  BY <1>1

\* A position has one quotient by the span of a row.
LEMMA OneQuotient ==
  ASSUME NEW k \in Nat, NEW p \in Nat \ {0}, NEW q \in Nat,
         q * p <= k, k < q * p + p
  PROVE  k \div p = q
<1> DEFINE r == k \div p
<1>1. r \in Nat /\ r * p <= k /\ k < r * p + p /\ p \in Nat
  BY Quotient
<1>2. q * p \in Int /\ r * p \in Int
  BY <1>1
<1> HIDE DEF r
<1>3. ~ (r < q)
  BY <1>1, <1>2, LessTimes
<1>4. ~ (q < r)
  BY <1>1, <1>2, LessTimes
<1>5. QED
  BY <1>1, <1>3, <1>4 DEF r

\* Halving a quotient is dividing by twice as much.
LEMMA HalfOfQuotient ==
  ASSUME NEW k \in Nat, NEW p \in Nat \ {0}
  PROVE  k \div (2 * p) = (k \div p) \div 2
<1> DEFINE q == k \div p
           h == q \div 2
           m == 2 * p
<1>1. q \in Nat /\ q * p <= k /\ k < q * p + p
  BY Quotient
<1>2. h \in Nat /\ (q = 2 * h \/ q = 2 * h + 1) /\ m \in Nat \ {0}
  BY <1>1
<1>3. h * m = (2 * h) * p /\ h * m \in Nat /\ (2 * h + 1) * p = (2 * h) * p + p
  BY <1>2
<1>4. h * m <= k /\ k < h * m + m
  BY <1>1, <1>2, <1>3
<1> HIDE DEF h, m
<1>5. k \div m = h
  BY <1>2, <1>4, OneQuotient
<1>6. QED
  BY <1>5 DEF h, m

\* Where the node above leaf k is at level d, and how many nodes a level has.
Pos(k, d) == k \div 2^d
Width(d) == 2^(Depth - d)

\* Going up halves the position.
LEMMA PosUp ==
  ASSUME NEW k \in Nat, NEW d \in Nat
  PROVE  /\ Pos(k, 0) = k
         /\ Pos(k, d) \in Nat
         /\ Pos(k, d + 1) = Pos(k, d) \div 2
<1>1. 2^0 = 1 /\ 2^d \in Nat \ {0} /\ 2^(d + 1) = 2 * 2^d
  BY Powers
<1>2. k \div 1 = k
  BY OneQuotient
<1> DEFINE p == 2^d
<1>3. p \in Nat \ {0} /\ k \div p \in Nat
  BY <1>1, Quotient
<1>4. k \div (2 * p) = (k \div p) \div 2
  BY <1>3, HalfOfQuotient
<1>5. QED
  BY <1>1, <1>2, <1>3, <1>4 DEF Pos

\* Each level has half the nodes of the one below, the last has one.
LEMMA Widths ==
  /\ Capacity \in Nat \ {0} /\ Width(0) = Capacity /\ Width(Depth) = 1
  /\ \A d \in 0..Depth : Width(d) \in Nat \ {0}
  /\ \A d \in 0..(Depth - 1) : Width(d) = 2 * Width(d + 1)
<1>1. Depth \in Nat /\ Depth - 0 = Depth /\ Depth - Depth = 0
  BY DepthAssumption
<1>2. ASSUME NEW d \in 0..Depth PROVE Width(d) \in Nat \ {0}
  <2>1. Depth - d \in Nat
    BY <1>1
  <2>2. QED
    BY <2>1, Powers DEF Width
<1>3. ASSUME NEW d \in 0..(Depth - 1) PROVE Width(d) = 2 * Width(d + 1)
  <2> DEFINE e == Depth - (d + 1)
  <2>1. e \in Nat /\ Depth - d = e + 1
    BY <1>1
  <2>2. 2^(e + 1) = 2 * 2^e
    <3> HIDE DEF e
    <3>1. QED
      BY <2>1, Powers
  <2>3. Width(d) = 2^(e + 1)
    <3> HIDE DEF e
    <3>1. QED
      BY <2>1 DEF Width
  <2>4. Width(d + 1) = 2^e
    BY DEF Width
  <2>5. QED
    BY <2>2, <2>3, <2>4
<1>4. QED
  BY <1>1, <1>2, <1>3, Powers DEF Width, Capacity

\* A leaf of the tree has a node above it at every level, the root last.
LEMMA PosInRow ==
  ASSUME NEW k \in 0..(Capacity - 1), NEW d \in 0..Depth
  PROVE  Pos(k, d) \in 0..(Width(d) - 1)
<1> DEFINE E == {i \in 0..Depth : Pos(k, i) \in 0..(Width(i) - 1)}
<1>0. k \in Nat /\ Depth \in Nat
  BY DepthAssumption, Widths
<1>1. 0 \in E
  <2>1. Pos(k, 0) = k
    BY <1>0, PosUp
  <2>2. k \in 0..(Width(0) - 1)
    BY Widths
  <2>3. QED
    BY <1>0, <2>1, <2>2
<1>2. ASSUME NEW i \in E, i < Depth PROVE i + 1 \in E
  <2>1. i \in 0..(Depth - 1) /\ i \in Nat /\ i + 1 \in 0..Depth /\ Pos(k, i) \in 0..(Width(i) - 1)
    BY <1>0, <1>2
  <2>2. Width(i) = 2 * Width(i + 1) /\ Width(i + 1) \in Nat
    BY <2>1, Widths
  <2>3. Pos(k, i + 1) = Pos(k, i) \div 2
    BY <1>0, <2>1, PosUp
  <2>4. Pos(k, i + 1) \in 0..(Width(i + 1) - 1)
    BY <2>1, <2>2, <2>3
  <2>5. QED
    BY <2>1, <2>4
<1>3. E = 0..Depth
  <2>1. E \in SUBSET (0..Depth)
    OBVIOUS
  <2> HIDE DEF E
  <2>2. QED
    BY <1>0, <1>1, <1>2, <2>1, IntervalSets
<1>4. QED
  BY <1>3

\* The next leaf is below the same node or below the next one.
LEMMA PosNext ==
  ASSUME NEW k \in Nat, NEW d \in Nat
  PROVE  /\ Pos(k + 1, d) = Pos(k, d) \/ Pos(k + 1, d) = Pos(k, d) + 1
         /\ Pos(0, d) = 0
<1> DEFINE Ok(i) == /\ Pos(k + 1, i) = Pos(k, i) \/ Pos(k + 1, i) = Pos(k, i) + 1
                    /\ Pos(0, i) = 0
           E == {i \in Nat : Ok(i)}
<1>1. 0 \in E
  <2>1. Pos(k, 0) = k /\ Pos(k + 1, 0) = k + 1 /\ Pos(0, 0) = 0
    <3>1. k + 1 \in Nat /\ 0 \in Nat
      OBVIOUS
    <3>2. QED
      BY <3>1, PosUp
  <2>2. Ok(0)
    BY <2>1
  <2> HIDE DEF Ok
  <2>3. QED
    BY <2>2
<1>2. ASSUME NEW i \in E PROVE i + 1 \in E
  <2>1. i \in Nat /\ i + 1 \in Nat /\ Pos(0, i) = 0
        /\ (Pos(k + 1, i) = Pos(k, i) \/ Pos(k + 1, i) = Pos(k, i) + 1)
    BY <1>2
  <2> HIDE DEF E
  <2>2. ASSUME NEW j \in Nat PROVE Pos(j, i) \in Nat /\ Pos(j, i + 1) = Pos(j, i) \div 2
    BY <2>1, PosUp
  <2> DEFINE a == Pos(k, i)
             b == Pos(k + 1, i)
             c == Pos(0, i)
  <2>3. a \in Nat /\ Pos(k, i + 1) = a \div 2 /\ Pos(k + 1, i + 1) = b \div 2
        /\ Pos(0, i + 1) = c \div 2
    BY <2>2
  <2> HIDE DEF a, b, c
  <2>4. (b \div 2 = a \div 2 \/ b \div 2 = (a \div 2) + 1) /\ c \div 2 = 0
    BY <2>1, <2>3 DEF a, b, c
  <2>5. QED
    BY <2>1, <2>3, <2>4 DEF E
<1>3. E = Nat
  <2>1. E \in SUBSET Nat
    OBVIOUS
  <2> HIDE DEF E
  <2>2. QED
    BY <1>1, <1>2, <2>1, NatSets
<1>4. QED
  BY <1>3

-----------------------------------------------------------------------------
(* The recursions are functions *)

\* What Insert and PathRoot have in common: from a leaf up, hashing with what is
\* on the left or on the right.
IsWalk(w, leaf, bits, left, right) ==
  w = [i \in 0..Depth |->
         IF i = 0 THEN leaf
         ELSE IF bits[i - 1] THEN Hash(left[i - 1], w[i - 1])
         ELSE Hash(w[i - 1], right[i - 1])]

\* The fold of a path can be written out as a function of the level.
LEMMA WalkExists ==
  ASSUME NEW leaf, NEW bits, NEW left, NEW right
  PROVE  \E w : IsWalk(w, leaf, bits, left, right)
<1> DEFINE Up(w, n) ==
             w = [i \in 0..n |->
                    IF i = 0 THEN leaf
                    ELSE IF bits[i - 1] THEN Hash(left[i - 1], w[i - 1])
                    ELSE Hash(w[i - 1], right[i - 1])]
           E == {n \in Nat : \E w : Up(w, n)}
<1>1. 0 \in E
  <2>1. Up([i \in 0..0 |-> leaf], 0)
    OBVIOUS
  <2>2. QED
    BY <2>1
<1>2. ASSUME NEW n \in E PROVE n + 1 \in E
  <2>1. PICK w : Up(w, n)
    OBVIOUS
  <2> DEFINE v == [i \in 0..(n + 1) |->
                     IF i = 0 THEN leaf
                     ELSE IF bits[i - 1] THEN Hash(left[i - 1], w[i - 1])
                     ELSE Hash(w[i - 1], right[i - 1])]
  <2>2. n \in Nat /\ \A i \in 0..n : v[i] = w[i]
    BY <2>1
  <2>3. ASSUME NEW i \in 0..(n + 1), i # 0 PROVE v[i - 1] = w[i - 1]
    <3>1. i - 1 \in 0..n
      BY <2>2, <2>3
    <3> HIDE DEF v
    <3>2. QED
      BY <2>2, <3>1
  <2>4. Up(v, n + 1)
    BY <2>3
  <2> HIDE DEF v, Up
  <2>5. QED
    BY <2>2, <2>4
<1>3. E = Nat
  <2>1. E \in SUBSET Nat
    OBVIOUS
  <2> HIDE DEF E
  <2>2. QED
    BY <1>1, <1>2, <2>1, NatSets
<1>4. Depth \in E
  BY <1>3, DepthAssumption
<1>5. QED
  BY <1>4 DEF IsWalk

\* On which side each node above leaf k is.
Bits(k) == [i \in 0..(Depth - 1) |-> IsRight(k, i)]

\* The contract's walk from a new leaf to the root.
LEMMA InsertIsWalk ==
  ASSUME NEW fr, NEW index, NEW leaf
  PROVE  \E w : /\ IsWalk(w, leaf, Bits(index), fr, zeros)
                /\ Insert(fr, index, leaf)
                     = [root     |-> w[Depth],
                        frontier |-> [i \in 0..(Depth - 1) |->
                                        IF IsRight(index, i) THEN fr[i] ELSE w[i]]]
<1> DEFINE bits == Bits(index)
           Up(w) == w = [i \in 0..Depth |->
                           IF i = 0 THEN leaf
                           ELSE IF IsRight(index, i - 1) THEN Hash(fr[i - 1], w[i - 1])
                           ELSE Hash(w[i - 1], zeros[i - 1])]
           walk == CHOOSE w : Up(w)
<1>1. \A i \in 0..Depth : i # 0 => bits[i - 1] = IsRight(index, i - 1)
  BY DepthAssumption DEF Bits
<1>2. \A w : IsWalk(w, leaf, bits, fr, zeros) <=> Up(w)
  <2> HIDE DEF bits
  <2>1. QED
    BY <1>1 DEF IsWalk
<1>3. Up(walk)
  <2> HIDE DEF Up, bits
  <2>1. \E w : Up(w)
    BY <1>2, WalkExists
  <2>2. QED
    BY <2>1
<1>4. Insert(fr, index, leaf)
        = [root     |-> walk[Depth],
           frontier |-> [i \in 0..(Depth - 1) |-> IF IsRight(index, i) THEN fr[i] ELSE walk[i]]]
  BY DEF Insert
<1> HIDE DEF walk, Up
<1>5. QED
  BY <1>2, <1>3, <1>4

\* The circuit's walk from a leaf and a path to the root.
LEMMA PathIsWalk ==
  ASSUME NEW leaf, NEW path
  PROVE  \E w : /\ IsWalk(w, leaf, path.bits, path.siblings, path.siblings)
                /\ PathRoot(leaf, path) = w[Depth]
<1> DEFINE Up(w) == w = [i \in 0..Depth |->
                           IF i = 0 THEN leaf
                           ELSE IF path.bits[i - 1] THEN Hash(path.siblings[i - 1], w[i - 1])
                           ELSE Hash(w[i - 1], path.siblings[i - 1])]
           walk == CHOOSE w : Up(w)
<1>1. \A w : IsWalk(w, leaf, path.bits, path.siblings, path.siblings) <=> Up(w)
  BY DEF IsWalk
<1>2. Up(walk)
  <2> HIDE DEF Up
  <2>1. \E w : Up(w)
    BY <1>1, WalkExists
  <2>2. QED
    BY <2>1
<1>3. PathRoot(leaf, path) = walk[Depth]
  BY DEF PathRoot
<1> HIDE DEF walk, Up
<1>4. QED
  BY <1>1, <1>2, <1>3

\* One step of a walk.
LEMMA WalkStep ==
  ASSUME NEW w, NEW leaf, NEW bits, NEW left, NEW right, IsWalk(w, leaf, bits, left, right)
  PROVE  /\ w[0] = leaf
         /\ \A i \in 0..(Depth - 1) :
              w[i + 1] = IF bits[i] THEN Hash(left[i], w[i]) ELSE Hash(w[i], right[i])
<1>1. w[0] = leaf
  <2>1. 0 \in 0..Depth
    BY DepthAssumption
  <2>2. QED
    BY <2>1 DEF IsWalk
<1>2. ASSUME NEW i \in 0..(Depth - 1)
      PROVE  w[i + 1] = IF bits[i] THEN Hash(left[i], w[i]) ELSE Hash(w[i], right[i])
  <2>1. i + 1 \in 0..Depth /\ i + 1 # 0 /\ (i + 1) - 1 = i
    BY DepthAssumption
  <2>2. QED
    BY <2>1 DEF IsWalk
<1>3. QED
  BY <1>1, <1>2

\* The empty subtrees.
LEMMA Empties ==
  /\ zeros[0] = Zero
  /\ \A i \in 0..(Depth - 1) : zeros[i + 1] = Hash(zeros[i], zeros[i])
<1> DEFINE Up(z, n) ==
             z = [i \in 0..n |-> IF i = 0 THEN Zero ELSE Hash(z[i - 1], z[i - 1])]
           E == {n \in Nat : \E z : Up(z, n)}
<1>1. 0 \in E
  <2>1. Up([i \in 0..0 |-> Zero], 0)
    OBVIOUS
  <2>2. QED
    BY <2>1
<1>2. ASSUME NEW n \in E PROVE n + 1 \in E
  <2>1. PICK z : Up(z, n)
    OBVIOUS
  <2> DEFINE v == [i \in 0..(n + 1) |-> IF i = 0 THEN Zero ELSE Hash(z[i - 1], z[i - 1])]
  <2>2. n \in Nat /\ \A i \in 0..n : v[i] = z[i]
    BY <2>1
  <2>3. ASSUME NEW i \in 0..(n + 1), i # 0 PROVE v[i - 1] = z[i - 1]
    <3>1. i - 1 \in 0..n
      BY <2>2, <2>3
    <3> HIDE DEF v
    <3>2. QED
      BY <2>2, <3>1
  <2>4. Up(v, n + 1)
    BY <2>3
  <2> HIDE DEF v, Up
  <2>5. QED
    BY <2>2, <2>4
<1>3. E = Nat
  <2>1. E \in SUBSET Nat
    OBVIOUS
  <2> HIDE DEF E
  <2>2. QED
    BY <1>1, <1>2, <2>1, NatSets
<1>4. Depth \in E
  BY <1>3, DepthAssumption
<1>5. zeros = CHOOSE z : Up(z, Depth)
  BY DEF zeros
<1>6. Up(zeros, Depth)
  <2> HIDE DEF Up
  <2>1. QED
    BY <1>4, <1>5
<1>7. zeros[0] = Zero
  BY <1>6, DepthAssumption
<1>8. ASSUME NEW i \in 0..(Depth - 1) PROVE zeros[i + 1] = Hash(zeros[i], zeros[i])
  <2>1. i + 1 \in 0..Depth /\ i + 1 # 0 /\ (i + 1) - 1 = i
    BY DepthAssumption
  <2>2. QED
    BY <1>6, <2>1
<1>9. QED
  BY <1>7, <1>8

\* The browser's rows.
LEMMA RowsAre ==
  ASSUME NEW L
  PROVE  /\ Rows(L)[0] = [j \in 0..(Capacity - 1) |-> IF j < Len(L) THEN L[j + 1] ELSE Zero]
         /\ \A d \in 0..(Depth - 1) : \A j \in 0..(Width(d + 1) - 1) :
              Rows(L)[d + 1][j] = Hash(Rows(L)[d][2 * j], Rows(L)[d][2 * j + 1])
<1> DEFINE bottom == [j \in 0..(Capacity - 1) |-> IF j < Len(L) THEN L[j + 1] ELSE Zero]
           Up(r, n) ==
             r = [d \in 0..n |->
                    IF d = 0 THEN bottom
                    ELSE [j \in 0..(2^(Depth - d) - 1) |-> Hash(r[d - 1][2 * j], r[d - 1][2 * j + 1])]]
           E == {n \in Nat : \E r : Up(r, n)}
<1>0. Rows(L) = CHOOSE r : Up(r, Depth)
  BY DEF Rows
<1> HIDE DEF bottom
<1>1. 0 \in E
  <2>1. Up([i \in 0..0 |-> bottom], 0)
    OBVIOUS
  <2>2. QED
    BY <2>1
<1>2. ASSUME NEW n \in E PROVE n + 1 \in E
  <2>1. PICK r : Up(r, n)
    OBVIOUS
  <2> DEFINE v == [d \in 0..(n + 1) |->
                    IF d = 0 THEN bottom
                    ELSE [j \in 0..(2^(Depth - d) - 1) |-> Hash(r[d - 1][2 * j], r[d - 1][2 * j + 1])]]
  <2>0. n \in Nat
    OBVIOUS
  <2> HIDE DEF E
  <2>2. ASSUME NEW d \in 0..n PROVE v[d] = r[d]
    <3>1. d \in 0..(n + 1)
      BY <2>0
    <3>2. CASE d = 0
      BY <2>1, <3>1, <3>2
    <3>3. CASE d # 0
      BY <2>1, <3>1, <3>3
    <3>4. QED
      BY <3>2, <3>3
  <2>3. ASSUME NEW d \in 0..(n + 1), d # 0 PROVE v[d - 1] = r[d - 1]
    <3> HIDE DEF v, Up
    <3>1. d - 1 \in 0..n
      BY <2>0, <2>3
    <3>2. QED
      BY <2>2, <3>1
  <2>4. Up(v, n + 1)
    BY <2>3
  <2> HIDE DEF v, Up
  <2>5. n + 1 \in Nat
    BY <2>0
  <2>6. QED
    BY <2>4, <2>5 DEF E
<1>3. E = Nat
  <2>1. E \in SUBSET Nat
    OBVIOUS
  <2> HIDE DEF E
  <2>2. QED
    BY <1>1, <1>2, <2>1, NatSets
<1>4. Depth \in E
  BY <1>3, DepthAssumption
<1>5. Up(Rows(L), Depth)
  <2> HIDE DEF Up
  <2>1. QED
    BY <1>0, <1>4
<1>6. Rows(L)[0] = bottom
  BY <1>5, DepthAssumption
<1>7. ASSUME NEW d \in 0..(Depth - 1), NEW j \in 0..(Width(d + 1) - 1)
      PROVE  Rows(L)[d + 1][j] = Hash(Rows(L)[d][2 * j], Rows(L)[d][2 * j + 1])
  <2>1. d + 1 \in 0..Depth /\ d + 1 # 0 /\ (d + 1) - 1 = d
    BY DepthAssumption
  <2>2. Rows(L)[d + 1] = [i \in 0..(Width(d + 1) - 1) |-> Hash(Rows(L)[d][2 * i], Rows(L)[d][2 * i + 1])]
    BY <1>5, <2>1 DEF Width
  <2>3. QED
    BY <2>2
<1>8. QED
  BY <1>6, <1>7 DEF bottom

-----------------------------------------------------------------------------
(* The complete tree *)

Node(L, d, j) == Rows(L)[d][j]

\* A node is the hash of the two below it.
LEMMA Parent ==
  ASSUME NEW L, NEW d \in 0..(Depth - 1), NEW j \in 0..(Width(d + 1) - 1)
  PROVE  /\ Node(L, d + 1, j) = Hash(Node(L, d, 2 * j), Node(L, d, 2 * j + 1))
         /\ 2 * j \in 0..(Width(d) - 1) /\ 2 * j + 1 \in 0..(Width(d) - 1)
<1>1. Width(d) = 2 * Width(d + 1) /\ Width(d + 1) \in Nat
  <2>1. d + 1 \in 0..Depth
    BY DepthAssumption
  <2>2. QED
    BY <2>1, Widths
<1>2. Node(L, d + 1, j) = Hash(Node(L, d, 2 * j), Node(L, d, 2 * j + 1))
  <2>1. \A e \in 0..(Depth - 1) : \A i \in 0..(Width(e + 1) - 1) :
           Rows(L)[e + 1][i] = Hash(Rows(L)[e][2 * i], Rows(L)[e][2 * i + 1])
    BY RowsAre, Zenon
  <2>2. Rows(L)[d + 1][j] = Hash(Rows(L)[d][2 * j], Rows(L)[d][2 * j + 1])
    BY <2>1, Zenon
  <2>3. QED
    BY <2>2, Zenon DEF Node
<1>3. QED
  BY <1>1, <1>2

\* The lowest row of the tree is the leaves, and zeros after them.
LEMMA Bottom ==
  ASSUME NEW L, NEW j \in 0..(Capacity - 1)
  PROVE  Node(L, 0, j) = IF j < Len(L) THEN L[j + 1] ELSE Zero
BY RowsAre DEF Node

\* Right of the next free leaf, and everywhere in the empty tree, the subtrees
\* are empty ones.
LEMMA EmptySubtrees ==
  ASSUME NEW L, Len(L) \in Nat, NEW d \in 0..Depth, NEW j \in 0..(Width(d) - 1),
         Len(L) = 0 \/ Pos(Len(L), d) < j
  PROVE  Node(L, d, j) = zeros[d]
<1> DEFINE n == Len(L)
           Ok(e) == \A i \in 0..(Width(e) - 1) : n = 0 \/ Pos(n, e) < i => Node(L, e, i) = zeros[e]
           E == {e \in 0..Depth : Ok(e)}
<1>0. Depth \in Nat /\ n \in Nat
  BY DepthAssumption
<1>1. 0 \in E
  <2>1. Ok(0)
    <3>1. Pos(n, 0) = n /\ zeros[0] = Zero /\ Width(0) = Capacity
      BY <1>0, PosUp, Empties, Widths
    <3> SUFFICES ASSUME NEW i \in 0..(Width(0) - 1), n = 0 \/ Pos(n, 0) < i
                 PROVE  Node(L, 0, i) = zeros[0]
      OBVIOUS
    <3>2. Node(L, 0, i) = IF i < n THEN L[i + 1] ELSE Zero
      BY <3>1, Bottom
    <3>3. Capacity \in Nat
      BY Widths
    <3>4. QED
      BY <1>0, <3>1, <3>2, <3>3
  <2> HIDE DEF Ok
  <2>2. QED
    BY <1>0, <2>1
<1>2. ASSUME NEW e \in E, e < Depth PROVE e + 1 \in E
  <2>1. e \in 0..(Depth - 1) /\ e \in Nat /\ e + 1 \in 0..Depth /\ Ok(e)
    BY <1>0, <1>2
  <2>2. Ok(e + 1)
    <3> SUFFICES ASSUME NEW i \in 0..(Width(e + 1) - 1), n = 0 \/ Pos(n, e + 1) < i
                 PROVE  Node(L, e + 1, i) = zeros[e + 1]
      OBVIOUS
    <3>1. /\ Node(L, e + 1, i) = Hash(Node(L, e, 2 * i), Node(L, e, 2 * i + 1))
          /\ 2 * i \in 0..(Width(e) - 1) /\ 2 * i + 1 \in 0..(Width(e) - 1)
      BY <2>1, Parent
    <3>2. Pos(n, e) \in Nat /\ Pos(n, e + 1) = Pos(n, e) \div 2 /\ i \in Nat
      <4> HIDE DEF n, E, Ok
      <4>1. e \in Nat /\ n \in Nat
        BY <1>0, <2>1
      <4>2. Pos(n, e) \in Nat /\ Pos(n, e + 1) = Pos(n, e) \div 2
        BY <4>1, PosUp
      <4>3. i \in Nat
        OBVIOUS
      <4>4. QED
        BY <4>2, <4>3
    <3>3. n = 0 \/ (Pos(n, e) < 2 * i /\ Pos(n, e) < 2 * i + 1)
      BY <3>2
    <3>4. Node(L, e, 2 * i) = zeros[e] /\ Node(L, e, 2 * i + 1) = zeros[e]
      BY <2>1, <3>1, <3>3
    <3>5. QED
      BY <2>1, <3>1, <3>4, Empties
  <2> HIDE DEF Ok
  <2>3. QED
    BY <2>1, <2>2
<1>3. E = 0..Depth
  <2>1. E \in SUBSET (0..Depth)
    OBVIOUS
  <2> HIDE DEF E
  <2>2. QED
    BY <1>0, <1>1, <1>2, <2>1, IntervalSets
<1>4. QED
  BY <1>3

\* M is L with one leaf more.
Adds(M, L, x) ==
  /\ Len(L) \in Nat /\ Len(L) < Capacity /\ Len(M) = Len(L) + 1
  /\ M[Len(L) + 1] = x /\ \A i \in 1..Len(L) : M[i] = L[i]

\* A new leaf changes only the nodes above it.
LEMMA OtherSubtrees ==
  ASSUME NEW L, NEW M, NEW x, Adds(M, L, x),
         NEW d \in 0..Depth, NEW j \in 0..(Width(d) - 1), j # Pos(Len(L), d)
  PROVE  Node(M, d, j) = Node(L, d, j)
<1> DEFINE n == Len(L)
           Ok(e) == \A i \in 0..(Width(e) - 1) : i # Pos(n, e) => Node(M, e, i) = Node(L, e, i)
           E == {e \in 0..Depth : Ok(e)}
<1>0. Depth \in Nat /\ n \in Nat
  BY DepthAssumption DEF Adds
<1>1. 0 \in E
  <2>1. Ok(0)
    <3>1. Pos(n, 0) = n /\ Width(0) = Capacity /\ Capacity \in Nat
      BY <1>0, PosUp, Widths
    <3> SUFFICES ASSUME NEW i \in 0..(Width(0) - 1), i # Pos(n, 0)
                 PROVE  Node(M, 0, i) = Node(L, 0, i)
      OBVIOUS
    <3>2. /\ Node(L, 0, i) = IF i < n THEN L[i + 1] ELSE Zero
          /\ Node(M, 0, i) = IF i < n + 1 THEN M[i + 1] ELSE Zero
      BY <3>1, Bottom DEF Adds
    <3>3. i < n => M[i + 1] = L[i + 1]
      BY <1>0, <3>1 DEF Adds
    <3>4. QED
      BY <1>0, <3>1, <3>2, <3>3
  <2> HIDE DEF Ok
  <2>2. QED
    BY <1>0, <2>1
<1>2. ASSUME NEW e \in E, e < Depth PROVE e + 1 \in E
  <2>1. e \in 0..(Depth - 1) /\ e \in Nat /\ e + 1 \in 0..Depth /\ Ok(e)
    BY <1>0, <1>2
  <2>2. Ok(e + 1)
    <3> SUFFICES ASSUME NEW i \in 0..(Width(e + 1) - 1), i # Pos(n, e + 1)
                 PROVE  Node(M, e + 1, i) = Node(L, e + 1, i)
      OBVIOUS
    <3>1. /\ Node(L, e + 1, i) = Hash(Node(L, e, 2 * i), Node(L, e, 2 * i + 1))
          /\ Node(M, e + 1, i) = Hash(Node(M, e, 2 * i), Node(M, e, 2 * i + 1))
          /\ 2 * i \in 0..(Width(e) - 1) /\ 2 * i + 1 \in 0..(Width(e) - 1)
      BY <2>1, Parent
    <3>2. Pos(n, e) \in Nat /\ Pos(n, e + 1) = Pos(n, e) \div 2 /\ i \in Nat
      <4> HIDE DEF n, E, Ok
      <4>1. e \in Nat /\ n \in Nat
        BY <1>0, <2>1
      <4>2. Pos(n, e) \in Nat /\ Pos(n, e + 1) = Pos(n, e) \div 2
        BY <4>1, PosUp
      <4>3. i \in Nat
        OBVIOUS
      <4>4. QED
        BY <4>2, <4>3
    <3>3. 2 * i # Pos(n, e) /\ 2 * i + 1 # Pos(n, e)
      BY <3>2
    <3>4. Node(M, e, 2 * i) = Node(L, e, 2 * i) /\ Node(M, e, 2 * i + 1) = Node(L, e, 2 * i + 1)
      BY <2>1, <3>1, <3>3
    <3>5. QED
      BY <3>1, <3>4
  <2> HIDE DEF Ok
  <2>3. QED
    BY <2>1, <2>2
<1>3. E = 0..Depth
  <2>1. E \in SUBSET (0..Depth)
    OBVIOUS
  <2> HIDE DEF E
  <2>2. QED
    BY <1>0, <1>1, <1>2, <2>1, IntervalSets
<1>4. QED
  BY <1>3

-----------------------------------------------------------------------------
(* The contract's frontier *)

\* At every level where the next leaf comes out on the right, the frontier has
\* the root of the subtree on its left.
OnFrontier(fr, L) ==
  \A i \in 0..(Depth - 1) : IsRight(Len(L), i) => fr[i] = Node(L, i, Pos(Len(L), i) - 1)

\* So the walk of an insertion goes through the nodes of the new complete tree.
LEMMA WalkInTree ==
  ASSUME NEW L, NEW M, NEW x, Adds(M, L, x), NEW fr, OnFrontier(fr, L),
         NEW w, IsWalk(w, x, Bits(Len(L)), fr, zeros), NEW d \in 0..Depth
  PROVE  w[d] = Node(M, d, Pos(Len(L), d))
<1> DEFINE n == Len(L)
           E == {i \in 0..Depth : w[i] = Node(M, i, Pos(n, i))}
<1>0. Depth \in Nat /\ n \in Nat /\ n \in 0..(Capacity - 1) /\ Capacity \in Nat
  BY DepthAssumption, Widths DEF Adds
<1>1. 0 \in E
  <2>1. w[0] = x
    BY WalkStep
  <2>2. Pos(n, 0) = n
    BY <1>0, PosUp
  <2>3. Node(M, 0, n) = x
    BY <1>0, Bottom DEF Adds
  <2>4. QED
    BY <1>0, <2>1, <2>2, <2>3
<1>2. ASSUME NEW e \in E, e < Depth PROVE e + 1 \in E
  <2> DEFINE p == Pos(n, e)
             q == Pos(n, e + 1)
  <2>1. e \in 0..(Depth - 1) /\ e \in Nat /\ e \in 0..Depth /\ e + 1 \in 0..Depth /\ w[e] = Node(M, e, p)
    BY <1>0, <1>2
  <2> HIDE DEF E, n
  <2>2. p \in Nat /\ q = p \div 2
    BY <1>0, <2>1, PosUp
  <2>3. p \in 0..(Width(e) - 1) /\ q \in 0..(Width(e + 1) - 1)
    BY <1>0, <2>1, PosInRow
  <2>4. /\ Node(M, e + 1, q) = Hash(Node(M, e, 2 * q), Node(M, e, 2 * q + 1))
        /\ 2 * q \in 0..(Width(e) - 1) /\ 2 * q + 1 \in 0..(Width(e) - 1)
    <3> HIDE DEF q
    <3>1. QED
      BY <2>1, <2>3, Parent
  <2>5. w[e + 1] = IF IsRight(n, e) THEN Hash(fr[e], w[e]) ELSE Hash(w[e], zeros[e])
    <3>1. Bits(n)[e] = IsRight(n, e)
      BY <2>1 DEF Bits
    <3>2. w[e + 1] = IF Bits(n)[e] THEN Hash(fr[e], w[e]) ELSE Hash(w[e], zeros[e])
      BY <2>1, WalkStep DEF n
    <3>3. QED
      BY <3>1, <3>2
  <2>6. IsRight(n, e) <=> p % 2 = 1
    BY DEF IsRight, Pos
  <2>7. CASE p % 2 = 1
    <3>1. p - 1 = 2 * q /\ p = 2 * q + 1
      BY <2>2, <2>7
    <3>2. fr[e] = Node(L, e, p - 1)
      BY <2>1, <2>6, <2>7 DEF OnFrontier, n
    <3>3. Node(M, e, 2 * q) = Node(L, e, 2 * q)
      <4>1. 2 * q # p
        BY <2>2, <3>1
      <4> DEFINE j == 2 * q
      <4>2. j \in 0..(Width(e) - 1) /\ j # Pos(Len(L), e)
        BY <2>4, <4>1 DEF n
      <4> HIDE DEF j, p, q
      <4>3. Node(M, e, j) = Node(L, e, j)
        BY <2>1, <4>2, OtherSubtrees
      <4>4. QED
        BY <4>3 DEF j
    <3>4. w[e + 1] = Hash(fr[e], w[e])
      BY <2>5, <2>6, <2>7
    <3> HIDE DEF p, q
    <3>5. w[e + 1] = Node(M, e + 1, q)
      BY <2>1, <2>4, <3>1, <3>2, <3>3, <3>4
    <3>6. QED
      BY <2>1, <3>5 DEF E, q
  <2>8. CASE p % 2 # 1
    <3>1. p = 2 * q /\ p < 2 * q + 1
      BY <2>2, <2>8
    <3>2. Node(M, e, 2 * q + 1) = zeros[e]
      <4> DEFINE j == 2 * q + 1
      <4>1. j \in 0..(Width(e) - 1) /\ j # Pos(Len(L), e) /\ Pos(Len(L), e) < j /\ Len(L) \in Nat
        BY <1>0, <2>2, <2>4, <3>1 DEF n
      <4> HIDE DEF j, p, q
      <4>2. Node(M, e, j) = Node(L, e, j)
        BY <2>1, <4>1, OtherSubtrees
      <4>3. Node(L, e, j) = zeros[e]
        BY <2>1, <4>1, EmptySubtrees
      <4>4. QED
        BY <4>2, <4>3 DEF j
    <3>3. w[e + 1] = Hash(w[e], zeros[e])
      BY <2>5, <2>6, <2>8
    <3> HIDE DEF p, q
    <3>4. w[e + 1] = Node(M, e + 1, q)
      BY <2>1, <2>4, <3>1, <3>2, <3>3
    <3>5. QED
      BY <2>1, <3>4 DEF E, q
  <2>9. QED
    BY <2>7, <2>8
<1>3. E = 0..Depth
  <2>1. E \in SUBSET (0..Depth)
    OBVIOUS
  <2> HIDE DEF E
  <2>2. QED
    BY <1>0, <1>1, <1>2, <2>1, IntervalSets
<1>4. QED
  BY <1>3

\* One insertion: the root it computes from a handful of hashes is the root of
\* the complete tree, and it leaves the frontier of that tree behind.
THEOREM InsertionIsTree ==
  ASSUME NEW L, NEW M, NEW x, Adds(M, L, x), NEW fr, OnFrontier(fr, L)
  PROVE  /\ Insert(fr, Len(L), x).root = TreeRoot(M)
         /\ OnFrontier(Insert(fr, Len(L), x).frontier, M)
         /\ DOMAIN Insert(fr, Len(L), x).frontier = 0..(Depth - 1)
<1> DEFINE n == Len(L)
<1>0. Depth \in Nat /\ n \in Nat /\ n \in 0..(Capacity - 1) /\ Capacity \in Nat /\ Len(M) = n + 1
  BY DepthAssumption, Widths DEF Adds
<1>1. PICK w : /\ IsWalk(w, x, Bits(n), fr, zeros)
               /\ Insert(fr, n, x)
                    = [root     |-> w[Depth],
                       frontier |-> [i \in 0..(Depth - 1) |->
                                       IF IsRight(n, i) THEN fr[i] ELSE w[i]]]
  <2> HIDE DEF n
  <2>1. QED
    BY InsertIsWalk
<1>2. \A d \in 0..Depth : w[d] = Node(M, d, Pos(n, d))
  BY <1>1, WalkInTree
<1>3. Insert(fr, n, x).root = TreeRoot(M)
  <2>1. Pos(n, Depth) = 0
    <3>1. Pos(n, Depth) \in 0..(Width(Depth) - 1)
      BY <1>0, PosInRow
    <3>2. QED
      BY <3>1, Widths
  <2>2. w[Depth] = Node(M, Depth, 0)
    BY <1>0, <1>2, <2>1
  <2>3. QED
    BY <1>1, <2>2 DEF Node, TreeRoot
<1>4. ASSUME NEW i \in 0..(Depth - 1), IsRight(Len(M), i)
      PROVE  Insert(fr, n, x).frontier[i] = Node(M, i, Pos(Len(M), i) - 1)
  <2> DEFINE p == Pos(n, i)
             q == Pos(n + 1, i)
             f == Insert(fr, n, x).frontier
  <2>1. i \in Nat /\ i \in 0..Depth
    BY <1>0
  <2>2. f[i] = IF IsRight(n, i) THEN fr[i] ELSE w[i]
    BY <1>1
  <2> HIDE DEF n
  <2>3. /\ p \in Nat /\ (q = p \/ q = p + 1) /\ q % 2 = 1 /\ Pos(Len(M), i) = q
        /\ IsRight(n, i) <=> p % 2 = 1
    <3>1. p \in Nat
      BY <1>0, <2>1, PosUp
    <3>2. q = p \/ q = p + 1
      BY <1>0, <2>1, PosNext
    <3>3. Pos(Len(M), i) = q
      BY <1>0
    <3>4. q % 2 = 1 /\ (IsRight(n, i) <=> p % 2 = 1)
      <4>1. \A k : IsRight(k, i) <=> Pos(k, i) % 2 = 1
        BY DEF IsRight, Pos
      <4>2. QED
        BY <1>4, <3>3, <4>1
    <3>5. QED
      BY <3>1, <3>2, <3>3, <3>4
  <2>4. p \in 0..(Width(i) - 1)
    BY <1>0, <2>1, PosInRow
  <2> HIDE DEF f, p, q
  <2>5. CASE q = p
    <3> DEFINE j == p - 1
    <3>1. IsRight(n, i) /\ f[i] = fr[i]
      BY <2>2, <2>3, <2>5
    <3>2. fr[i] = Node(L, i, j)
      BY <3>1 DEF OnFrontier, n, p
    <3>3. j \in 0..(Width(i) - 1) /\ j # Pos(Len(L), i)
      <4>1. j \in 0..(Width(i) - 1) /\ j # p
        <5>1. Width(i) \in Nat
          BY <2>1, Widths
        <5>2. QED
          BY <2>3, <2>4, <2>5, <5>1
      <4> HIDE DEF j
      <4>2. QED
        BY <4>1 DEF p, n
    <3> HIDE DEF j
    <3>4. Node(M, i, j) = Node(L, i, j)
      BY <2>1, <3>3, OtherSubtrees
    <3>5. QED
      BY <2>3, <2>5, <3>1, <3>2, <3>4 DEF j, f
  <2>6. CASE q = p + 1
    <3>1. ~ IsRight(n, i) /\ f[i] = w[i] /\ q - 1 = p
      BY <2>2, <2>3, <2>6
    <3>2. w[i] = Node(M, i, p)
      BY <1>2, <2>1 DEF p
    <3>3. QED
      BY <2>3, <3>1, <3>2 DEF f
  <2>7. QED
    BY <2>3, <2>5, <2>6
<1>5. QED
  BY <1>1, <1>3, <1>4 DEF OnFrontier

-----------------------------------------------------------------------------
(* The circuit's paths *)

\* The browser's path of a leaf folds to the root of the browser's tree.
THEOREM PathOfLeaf ==
  ASSUME NEW L, Len(L) \in Nat, NEW k \in 0..(Capacity - 1), k < Len(L)
  PROVE  PathRoot(L[k + 1], AuthPath(L, k)) = TreeRoot(L)
<1> DEFINE path == AuthPath(L, k)
           x == L[k + 1]
           E(w) == {i \in 0..Depth : w[i] = Node(L, i, Pos(k, i))}
<1>0. Depth \in Nat /\ k \in Nat /\ Capacity \in Nat
  BY DepthAssumption, Widths
<1>1. \A d \in 0..(Depth - 1) : /\ path.bits[d] = IsRight(k, d)
                                /\ path.siblings[d] = Node(L, d, Sibling(k, d))
  BY DEF AuthPath, Node
<1>2. PICK w : /\ IsWalk(w, x, path.bits, path.siblings, path.siblings)
               /\ PathRoot(x, path) = w[Depth]
  <2> HIDE DEF path, x
  <2>1. QED
    BY PathIsWalk
<1> HIDE DEF path
<1>3. 0 \in E(w)
  <2>1. w[0] = x
    BY <1>2, WalkStep
  <2>2. Pos(k, 0) = k
    BY <1>0, PosUp
  <2>3. Node(L, 0, k) = x
    BY Bottom
  <2>4. QED
    BY <1>0, <2>1, <2>2, <2>3
<1>4. ASSUME NEW e \in E(w), e < Depth PROVE e + 1 \in E(w)
  <2> DEFINE p == Pos(k, e)
             q == Pos(k, e + 1)
  <2>1. e \in 0..(Depth - 1) /\ e \in Nat /\ e + 1 \in 0..Depth /\ w[e] = Node(L, e, p)
    BY <1>0, <1>4
  <2> HIDE DEF E
  <2>2. p \in Nat /\ q = p \div 2
    BY <1>0, <2>1, PosUp
  <2>3. q \in 0..(Width(e + 1) - 1)
    BY <1>0, <2>1, PosInRow
  <2>4. Node(L, e + 1, q) = Hash(Node(L, e, 2 * q), Node(L, e, 2 * q + 1))
    <3> HIDE DEF q
    <3>1. QED
      BY <2>1, <2>3, Parent
  <2>5. w[e + 1] = IF IsRight(k, e) THEN Hash(path.siblings[e], w[e]) ELSE Hash(w[e], path.siblings[e])
    <3>1. path.bits[e] = IsRight(k, e)
      BY <1>1, <2>1
    <3>2. w[e + 1] = IF path.bits[e] THEN Hash(path.siblings[e], w[e]) ELSE Hash(w[e], path.siblings[e])
      BY <1>2, <2>1, WalkStep
    <3>3. QED
      BY <3>1, <3>2
  <2>6. /\ IsRight(k, e) <=> p % 2 = 1
        /\ Sibling(k, e) = IF p % 2 = 1 THEN p - 1 ELSE p + 1
    BY DEF IsRight, Sibling, Pos
  <2>7. path.siblings[e] = Node(L, e, Sibling(k, e))
    BY <1>1, <2>1
  <2>8. w[e + 1] = Node(L, e + 1, q)
    <3> HIDE DEF p, q
    <3>1. CASE p % 2 = 1
      <4>1. Sibling(k, e) = 2 * q /\ p = 2 * q + 1
        BY <2>2, <2>6, <3>1
      <4>2. QED
        BY <2>1, <2>4, <2>5, <2>6, <2>7, <3>1, <4>1
    <3>2. CASE p % 2 # 1
      <4>1. Sibling(k, e) = 2 * q + 1 /\ p = 2 * q
        BY <2>2, <2>6, <3>2
      <4>2. QED
        BY <2>1, <2>4, <2>5, <2>6, <2>7, <3>2, <4>1
    <3>3. QED
      BY <3>1, <3>2
  <2>9. QED
    BY <2>1, <2>8 DEF E
<1>5. E(w) = 0..Depth
  <2>1. E(w) \in SUBSET (0..Depth)
    OBVIOUS
  <2> DEFINE F == E(w)
  <2>2. 0 \in F /\ F \in SUBSET (0..Depth) /\ \A e \in F : e < Depth => e + 1 \in F
    BY <1>3, <1>4, <2>1
  <2> HIDE DEF E, F
  <2>3. F = 0..Depth
    BY <1>0, <2>2, IntervalSets
  <2>4. QED
    BY <2>3 DEF F
<1>6. Pos(k, Depth) = 0
  <2>1. Pos(k, Depth) \in 0..(Width(Depth) - 1)
    BY <1>0, PosInRow
  <2>2. QED
    BY <2>1, Widths
<1>7. w[Depth] = Node(L, Depth, 0)
  BY <1>0, <1>5, <1>6
<1>8. QED
  BY <1>2, <1>7 DEF path, Node, TreeRoot

\* And whatever the path: what folds to the root of a tree is a leaf of it, or
\* the empty leaf.
THEOREM OnlyMembers ==
  ASSUME NEW L, Len(L) \in Nat, NEW x, NEW path, PathRoot(x, path) = TreeRoot(L)
  PROVE  x = Zero \/ \E i \in 1..Len(L) : L[i] = x
<1>0. Depth \in Nat /\ Capacity \in Nat
  BY DepthAssumption, Widths
<1>1. PICK w : /\ IsWalk(w, x, path.bits, path.siblings, path.siblings)
               /\ PathRoot(x, path) = w[Depth]
  BY PathIsWalk
<1> DEFINE InRow(d) == \E j \in 0..(Width(d) - 1) : w[d] = Node(L, d, j)
           E == {i \in 0..Depth : InRow(Depth - i)}
<1>2. 0 \in E
  <2>1. w[Depth] = Node(L, Depth, 0) /\ 0 \in 0..(Width(Depth) - 1)
    BY <1>1, Widths DEF Node, TreeRoot
  <2>2. InRow(Depth) /\ Depth - 0 = Depth
    BY <1>0, <2>1
  <2> HIDE DEF InRow
  <2>3. QED
    BY <1>0, <2>2
<1>3. ASSUME NEW e \in E, e < Depth PROVE e + 1 \in E
  <2> DEFINE d == Depth - (e + 1)
  <2>1. d \in 0..(Depth - 1) /\ d + 1 = Depth - e /\ e + 1 \in 0..Depth
    BY <1>0, <1>3
  <2>2. InRow(Depth - e)
    OBVIOUS
  <2> HIDE DEF d, E
  <2>3. PICK j \in 0..(Width(d + 1) - 1) : w[d + 1] = Node(L, d + 1, j)
    BY <2>1, <2>2
  <2>4. /\ w[d + 1] = Hash(Node(L, d, 2 * j), Node(L, d, 2 * j + 1))
        /\ 2 * j \in 0..(Width(d) - 1) /\ 2 * j + 1 \in 0..(Width(d) - 1)
    BY <2>1, <2>3, Parent
  <2>5. \/ w[d + 1] = Hash(path.siblings[d], w[d])
        \/ w[d + 1] = Hash(w[d], path.siblings[d])
    BY <1>1, <2>1, WalkStep
  <2>6. w[d] = Node(L, d, 2 * j) \/ w[d] = Node(L, d, 2 * j + 1)
    BY <2>4, <2>5 DEF Hash
  <2>7. InRow(d)
    BY <2>4, <2>6
  <2> HIDE DEF InRow
  <2>8. QED
    BY <2>1, <2>7 DEF E, d
<1>4. E = 0..Depth
  <2>1. E \in SUBSET (0..Depth)
    OBVIOUS
  <2> HIDE DEF E
  <2>2. QED
    BY <1>0, <1>2, <1>3, <2>1, IntervalSets
<1>5. InRow(0)
  <2>1. Depth \in E /\ Depth - Depth = 0
    BY <1>0, <1>4
  <2> HIDE DEF InRow
  <2>2. QED
    BY <2>1
<1>6. PICK j \in 0..(Capacity - 1) : w[0] = Node(L, 0, j)
  BY <1>5, Widths
<1>7. w[0] = x
  BY <1>1, WalkStep
<1>8. x = IF j < Len(L) THEN L[j + 1] ELSE Zero
  BY <1>6, <1>7, Bottom
<1>9. j < Len(L) => j + 1 \in 1..Len(L)
  BY <1>0
<1>10. QED
  BY <1>8, <1>9

-----------------------------------------------------------------------------
(* The pool *)

\* The roots of all trees there have been.
Trees(L) == {TreeRoot(SubSeq(L, 1, m)) : m \in 0..Len(L)}

TreeInv ==
  /\ initialized \in BOOLEAN
  /\ leaves \in Seq(Notes) /\ Len(leaves) <= Capacity
  /\ ~initialized => leaves = <<>> /\ roots = <<>>
  /\ DOMAIN frontier = 0..(Depth - 1)
  /\ OnFrontier(frontier, leaves)
  /\ roots \in Seq(Trees(leaves))
  /\ RootsAreTrees

PoolInv == TreeInv /\ spent \in SUBSET Notes /\ PoolFunded

\* What a deposit does to the list of leaves and to the trees there have been.
LEMMA LeafAdded ==
  ASSUME NEW L \in Seq(Notes), NEW x \in Notes, Len(L) < Capacity
  PROVE  /\ Append(L, x) \in Seq(Notes)
         /\ Adds(Append(L, x), L, x)
         /\ \A m \in 0..Len(L) : SubSeq(Append(L, x), 1, m) = SubSeq(L, 1, m)
         /\ SubSeq(Append(L, x), 1, Len(L) + 1) = Append(L, x)
         /\ Trees(Append(L, x)) = Trees(L) \cup {TreeRoot(Append(L, x))}
<1> DEFINE M == Append(L, x)
           n == Len(L)
<1>1. n \in Nat /\ M \in Seq(Notes) /\ Len(M) = n + 1 /\ M[n + 1] = x
      /\ \A i \in 1..n : M[i] = L[i]
  BY AppendProperties, LenProperties
<1>2. Adds(M, L, x)
  BY <1>1 DEF Adds
<1> HIDE DEF M
<1>3. ASSUME NEW m \in 0..n PROVE SubSeq(M, 1, m) = SubSeq(L, 1, m)
  <2>1. \A i \in 1..m : M[i] \in Notes /\ L[i] \in Notes /\ M[i] = L[i]
    BY <1>1, ElementOfSeq
  <2>2. /\ SubSeq(M, 1, m) \in Seq(Notes) /\ SubSeq(L, 1, m) \in Seq(Notes)
        /\ Len(SubSeq(M, 1, m)) = m /\ Len(SubSeq(L, 1, m)) = m
        /\ \A i \in 1..m : SubSeq(M, 1, m)[i] = M[i] /\ SubSeq(L, 1, m)[i] = L[i]
    BY <1>1, <2>1, SubSeqProperties
  <2>3. QED
    BY <2>1, <2>2, SeqEqual
<1>4. SubSeq(M, 1, n + 1) = M
  BY <1>1, SubSeqFull
<1>5. Trees(M) = Trees(L) \cup {TreeRoot(M)}
  <2>1. 0..Len(M) = 0..n \cup {n + 1}
    BY <1>1
  <2>2. QED
    BY <1>3, <1>4, <2>1 DEF Trees
<1>6. QED
  BY <1>1, <1>2, <1>3, <1>4, <1>5 DEF M

\* The history keeps the latest roots, RootHistory of them.
LEMMA HistoryKept ==
  ASSUME NEW S, NEW rs \in Seq(S), NEW r \in S
  PROVE  /\ Len(rs) < RootHistory => Remembered(Append(rs, r)) = Append(rs, r)
         /\ Len(rs) = RootHistory =>
              /\ Remembered(Append(rs, r)) \in Seq(S)
              /\ Len(Remembered(Append(rs, r))) = Len(rs)
              /\ \A j \in 1..(Len(rs) - 1) : Remembered(Append(rs, r))[j] = rs[j + 1]
              /\ Remembered(Append(rs, r))[Len(rs)] = r
<1> DEFINE A == Append(rs, r)
<1>1. /\ A \in Seq(S) /\ Len(A) = Len(rs) + 1 /\ A[Len(rs) + 1] = r /\ Len(rs) \in Nat
      /\ \A i \in 1..Len(rs) : A[i] = rs[i]
  BY AppendProperties, LenProperties
<1>2. RootHistory \in Nat \ {0}
  BY HistoryAssumption
<1> HIDE DEF A
<1>3. ASSUME Len(rs) < RootHistory PROVE Remembered(A) = A
  BY <1>1, <1>2, <1>3 DEF Remembered
<1>4. ASSUME Len(rs) = RootHistory
      PROVE  /\ Remembered(A) \in Seq(S) /\ Len(Remembered(A)) = Len(rs)
             /\ \A j \in 1..(Len(rs) - 1) : Remembered(A)[j] = rs[j + 1]
             /\ Remembered(A)[Len(rs)] = r
  <2>1. Remembered(A) = SubSeq(A, 2, Len(rs) + 1)
    BY <1>1, <1>2, <1>4 DEF Remembered
  <2>2. \A i \in 2..(Len(rs) + 1) : A[i] \in S
    BY <1>1, ElementOfSeq
  <2> DEFINE R == SubSeq(A, 2, Len(rs) + 1)
  <2>3. /\ R \in Seq(S) /\ Len(R) = Len(rs)
        /\ \A i \in 1..Len(rs) : R[i] = A[i + 1]
    BY <1>1, <1>2, <1>4, <2>2, SubSeqProperties
  <2> HIDE DEF R
  <2>4. \A j \in 1..(Len(rs) - 1) : R[j] = rs[j + 1]
    BY <1>1, <2>3
  <2>5. R[Len(rs)] = r
    BY <1>1, <1>2, <1>4, <2>3
  <2>6. Remembered(A) = R
    BY <2>1 DEF R
  <2>7. QED
    BY <2>3, <2>4, <2>5, <2>6
<1>5. QED
  BY <1>3, <1>4 DEF A

\* A new pool: the empty tree and its root.
LEMMA PoolInitialized ==
  ASSUME PoolInv, Initialize
  PROVE  PoolInv'
<1>1. /\ leaves = <<>> /\ leaves' = leaves /\ initialized' = TRUE
      /\ frontier' = EmptyFrontier /\ roots' = <<zeros[Depth]>>
  BY DEF Initialize, PoolInv, TreeInv
<1>2. Len(<<>>) = 0 /\ SubSeq(<<>>, 1, 0) = <<>>
  BY EmptySeq, SubSeqEmpty
<1>3. TreeRoot(<<>>) = zeros[Depth]
  <2>1. Depth \in 0..Depth /\ 0 \in 0..(Width(Depth) - 1)
    BY DepthAssumption, Widths
  <2>2. Node(<<>>, Depth, 0) = zeros[Depth]
    BY <1>2, <2>1, EmptySubtrees
  <2>3. QED
    BY <2>2 DEF Node, TreeRoot
<1>4. Trees(leaves') = {zeros[Depth]}
  <2>1. 0..0 = {0}
    OBVIOUS
  <2>2. Trees(<<>>) = {TreeRoot(SubSeq(<<>>, 1, 0))}
    BY <1>2, <2>1 DEF Trees
  <2>3. QED
    BY <1>1, <1>2, <1>3, <2>2
<1>5. roots' \in Seq(Trees(leaves')) /\ Len(roots') = 1 /\ roots'[1] = zeros[Depth]
  BY <1>1, <1>4
<1>6. RootsAreTrees'
  <2>1. Len(roots') = (IF Len(leaves') < RootHistory THEN Len(leaves') + 1 ELSE RootHistory)
    BY <1>1, <1>2, <1>5, HistoryAssumption
  <2>2. \A j \in 1..Len(roots') :
           roots'[j] = TreeRoot(SubSeq(leaves', 1, Len(leaves') - (Len(roots') - j)))
    <3> SUFFICES ASSUME NEW j \in 1..Len(roots')
                 PROVE  roots'[j] = TreeRoot(SubSeq(leaves', 1, Len(leaves') - (Len(roots') - j)))
      OBVIOUS
    <3>1. j = 1 /\ Len(leaves') - (Len(roots') - j) = 0
      BY <1>1, <1>2, <1>5
    <3>2. QED
      BY <1>1, <1>2, <1>3, <1>5, <3>1
  <2>3. QED
    BY <2>1, <2>2 DEF RootsAreTrees, Prefix
<1>7. OnFrontier(frontier', leaves')
  <2>1. ASSUME NEW i \in 0..(Depth - 1) PROVE ~ IsRight(0, i)
    <3>1. i \in Nat /\ 0 \in Nat
      BY DepthAssumption
    <3>2. Pos(0, i) = 0
      BY <3>1, PosNext
    <3>3. IsRight(0, i) <=> Pos(0, i) % 2 = 1
      BY DEF IsRight, Pos
    <3>4. QED
      BY <3>2, <3>3
  <2>2. QED
    BY <1>1, <1>2, <2>1 DEF OnFrontier
<1>8. spent' = spent /\ funds' = funds
  BY DEF Initialize
<1>9. PoolFunded'
  BY <1>1, <1>8 DEF PoolInv, PoolFunded
<1>10. DOMAIN frontier' = 0..(Depth - 1)
  BY <1>1 DEF EmptyFrontier
<1>11. QED
  BY <1>1, <1>5, <1>6, <1>7, <1>8, <1>9, <1>10 DEF PoolInv, TreeInv

\* The leaves are finitely many, at most as many as deposits.
LEMMA LeafCount ==
  ASSUME NEW L \in Seq(Notes)
  PROVE  IsFiniteSet(ToSet(L)) /\ Cardinality(ToSet(L)) \in Nat /\ Cardinality(ToSet(L)) <= Len(L)
<1>1. L \in [1..Len(L) -> Notes] /\ Len(L) \in Nat /\ DOMAIN L = 1..Len(L)
  BY LenProperties
<1>2. L \in Surjection(1..Len(L), ToSet(L))
  BY <1>1 DEF ToSet, Surjection
<1>3. IsFiniteSet(1..Len(L)) /\ Cardinality(1..Len(L)) = Len(L)
  <2> DEFINE n == Len(L)
  <2>1. n \in Nat
    BY <1>1
  <2> HIDE DEF n
  <2>2. IsFiniteSet(1..n) /\ Cardinality(1..n) = n
    BY <2>1, FS_Interval
  <2>3. QED
    BY <2>2 DEF n
<1>4. QED
  BY <1>2, <1>3, FS_Surjection, FS_CardinalityType

\* What the pool owes never exceeds what it has: one denomination per note that
\* is in and not out.
LEMMA FundsSuffice ==
  ASSUME NEW L \in Seq(Notes), NEW gone \in SUBSET ToSet(L)
  PROVE  /\ Cardinality(gone) \in Nat /\ IsFiniteSet(gone)
         /\ Len(L) - Cardinality(gone) >= Cardinality(ToSet(L) \ gone)
<1>1. IsFiniteSet(ToSet(L)) /\ Cardinality(ToSet(L)) \in Nat /\ Cardinality(ToSet(L)) <= Len(L)
  BY LeafCount
<1>2. IsFiniteSet(gone) /\ Cardinality(gone) \in Nat
  BY <1>1, FS_Subset, FS_CardinalityType
<1>3. ToSet(L) \cap gone = gone
  OBVIOUS
<1>4. Cardinality(ToSet(L) \ gone) = Cardinality(ToSet(L)) - Cardinality(ToSet(L) \cap gone)
  BY <1>1, FS_Difference
<1>5. Len(L) \in Nat
  BY LenProperties
<1>6. Cardinality(ToSet(L) \ gone) = Cardinality(ToSet(L)) - Cardinality(gone)
  BY <1>3, <1>4
<1>7. QED
  BY <1>1, <1>2, <1>5, <1>6

\* A deposit, of a note that is in already, too.
LEMMA PoolDeposit ==
  ASSUME PoolInv, NEW x \in Notes, Deposit(x)
  PROVE  PoolInv'
<1> DEFINE n == Len(leaves)
           k == Len(roots)
           root == TreeRoot(leaves')
<1>1. /\ initialized /\ n < Capacity /\ leaves' = Append(leaves, x)
      /\ frontier' = Insert(frontier, n, x).frontier
      /\ roots' = Remembered(Append(roots, Insert(frontier, n, x).root))
      /\ funds' = funds + 1 /\ initialized' = initialized /\ spent' = spent
  BY DEF Deposit
<1>2. /\ leaves \in Seq(Notes) /\ OnFrontier(frontier, leaves) /\ roots \in Seq(Trees(leaves))
      /\ spent \in SUBSET Notes /\ RootsAreTrees /\ PoolFunded /\ initialized \in BOOLEAN
  BY DEF PoolInv, TreeInv
<1>3. /\ leaves' \in Seq(Notes) /\ Adds(leaves', leaves, x)
      /\ \A m \in 0..n : SubSeq(leaves', 1, m) = SubSeq(leaves, 1, m)
      /\ SubSeq(leaves', 1, n + 1) = leaves'
      /\ Trees(leaves') = Trees(leaves) \cup {root}
  BY <1>1, <1>2, LeafAdded
<1>4. n \in Nat /\ Len(leaves') = n + 1 /\ k \in Nat /\ Capacity \in Nat /\ RootHistory \in Nat \ {0}
  BY <1>2, <1>3, Widths, HistoryAssumption, LenProperties DEF Adds
<1>5. /\ Insert(frontier, n, x).root = root
      /\ OnFrontier(frontier', leaves') /\ DOMAIN frontier' = 0..(Depth - 1)
  BY <1>1, <1>2, <1>3, InsertionIsTree
<1>6. roots' = Remembered(Append(roots, root))
  BY <1>1, <1>5
<1>7. roots \in Seq(Trees(leaves')) /\ root \in Trees(leaves')
  BY <1>2, <1>3, SeqMonotonic
<1>8. /\ k = (IF n < RootHistory THEN n + 1 ELSE RootHistory)
      /\ \A j \in 1..k : roots[j] = TreeRoot(SubSeq(leaves, 1, n - (k - j)))
  BY <1>1, <1>2 DEF RootsAreTrees, Prefix
<1>9. \A j \in 1..k : n - (k - j) \in 0..n
  BY <1>4, <1>8
<1> HIDE DEF n, k, root
<1>10. ASSUME k < RootHistory
       PROVE  roots' \in Seq(Trees(leaves')) /\ RootsAreTrees'
  <2>1. roots' = Append(roots, root)
    BY <1>6, <1>7, <1>10, HistoryKept DEF k
  <2>2. /\ roots' \in Seq(Trees(leaves')) /\ Len(roots') = k + 1 /\ roots'[k + 1] = root
        /\ \A j \in 1..k : roots'[j] = roots[j]
    BY <1>7, <2>1, AppendProperties DEF k
  <2>3. k + 1 = IF n + 1 < RootHistory THEN n + 2 ELSE RootHistory
    BY <1>4, <1>8, <1>10
  <2>4. ASSUME NEW j \in 1..(k + 1)
        PROVE  roots'[j] = TreeRoot(SubSeq(leaves', 1, (n + 1) - ((k + 1) - j)))
    <3>1. CASE j = k + 1
      <4>1. (n + 1) - ((k + 1) - j) = n + 1
        BY <1>4, <3>1
      <4>2. QED
        BY <1>3, <2>2, <3>1, <4>1 DEF root
    <3>2. CASE j # k + 1
      <4>1. j \in 1..k /\ (n + 1) - ((k + 1) - j) = n - (k - j) /\ n - (k - j) \in 0..n
        BY <1>4, <1>9, <3>2
      <4>2. SubSeq(leaves', 1, n - (k - j)) = SubSeq(leaves, 1, n - (k - j))
        BY <1>3, <4>1
      <4>3. QED
        BY <1>8, <2>2, <4>1, <4>2
    <3>3. QED
      BY <3>1, <3>2
  <2>5. RootsAreTrees'
    BY <1>4, <2>2, <2>3, <2>4 DEF RootsAreTrees, Prefix
  <2>6. QED
    BY <2>2, <2>5
<1>11. ASSUME k = RootHistory
       PROVE  roots' \in Seq(Trees(leaves')) /\ RootsAreTrees'
  <2>1. /\ roots' \in Seq(Trees(leaves')) /\ Len(roots') = k /\ roots'[k] = root
        /\ \A j \in 1..(k - 1) : roots'[j] = roots[j + 1]
    BY <1>6, <1>7, <1>11, HistoryKept DEF k
  <2>2. k = IF n + 1 < RootHistory THEN n + 2 ELSE RootHistory
    BY <1>4, <1>8, <1>11
  <2>3. ASSUME NEW j \in 1..k
        PROVE  roots'[j] = TreeRoot(SubSeq(leaves', 1, (n + 1) - (k - j)))
    <3>1. CASE j = k
      <4>1. (n + 1) - (k - j) = n + 1
        BY <1>4, <3>1
      <4>2. QED
        BY <1>3, <2>1, <3>1, <4>1 DEF root
    <3>2. CASE j # k
      <4>1. j + 1 \in 1..k /\ j \in 1..(k - 1) /\ (n + 1) - (k - j) = n - (k - (j + 1))
        BY <1>4, <3>2
      <4>2. n - (k - (j + 1)) \in 0..n
        BY <1>9, <4>1
      <4>3. SubSeq(leaves', 1, n - (k - (j + 1))) = SubSeq(leaves, 1, n - (k - (j + 1)))
        BY <1>3, <4>2
      <4>4. roots[j + 1] = TreeRoot(SubSeq(leaves, 1, n - (k - (j + 1))))
        BY <1>8, <4>1
      <4>5. QED
        BY <2>1, <4>1, <4>3, <4>4
    <3>3. QED
      BY <3>1, <3>2
  <2>4. RootsAreTrees'
    BY <1>4, <2>1, <2>2, <2>3 DEF RootsAreTrees, Prefix
  <2>5. QED
    BY <2>1, <2>4
<1>12. roots' \in Seq(Trees(leaves')) /\ RootsAreTrees'
  BY <1>4, <1>8, <1>10, <1>11
<1>13. PoolFunded'
  <2>1. spent \subseteq ToSet(leaves) /\ funds = n - Cardinality(spent)
    BY <1>2 DEF PoolFunded, n
  <2>2. ToSet(leaves) \subseteq ToSet(leaves')
    BY <1>3, <1>4, <1>2, LenProperties DEF ToSet, Adds, n
  <2>3. /\ Cardinality(spent) \in Nat
        /\ Len(leaves') - Cardinality(spent) >= Cardinality(ToSet(leaves') \ spent)
    BY <1>3, <2>1, <2>2, FundsSuffice
  <2>4. QED
    BY <1>1, <1>4, <2>1, <2>2, <2>3 DEF PoolFunded
<1>14. QED
  BY <1>1, <1>2, <1>3, <1>4, <1>5, <1>12, <1>13 DEF PoolInv, TreeInv, n

\* Whoever is paid had put the note in: its path folds to a root of a tree there
\* was, so it is a leaf of that tree.
LEMMA OnlyLeavesWithdrawn ==
  ASSUME PoolInv, NEW x \in Notes, NEW root, NEW path, Withdraw(root, x, path)
  PROVE  x \in ToSet(leaves)
<1>1. leaves \in Seq(Notes) /\ roots \in Seq(Trees(leaves)) /\ root \in ToSet(roots)
      /\ PathRoot(x, path) = root
  BY DEF PoolInv, TreeInv, Withdraw, KnownRoot
<1>2. root \in Trees(leaves)
  BY <1>1, ElementOfSeq, LenProperties DEF ToSet
<1>3. PICK m \in 0..Len(leaves) : root = TreeRoot(SubSeq(leaves, 1, m))
  BY <1>2 DEF Trees
<1> DEFINE L == SubSeq(leaves, 1, m)
<1>4. Len(leaves) \in Nat /\ DOMAIN leaves = 1..Len(leaves)
  BY <1>1, LenProperties
<1>5. Len(L) = m /\ \A i \in 1..m : L[i] = leaves[i]
  <2>1. \A i \in 1..m : leaves[i] \in Notes
    BY <1>1, <1>4, ElementOfSeq
  <2>2. QED
    BY <1>4, <2>1, SubSeqProperties
<1> HIDE DEF L
<1>6. x = Zero \/ \E i \in 1..Len(L) : L[i] = x
  <2>1. Len(L) \in Nat /\ PathRoot(x, path) = TreeRoot(L)
    BY <1>1, <1>3, <1>5 DEF L
  <2>2. QED
    BY <2>1, OnlyMembers
<1>7. PICK i \in 1..Len(L) : L[i] = x
  BY <1>6, ZeroAssumption
<1>8. QED
  BY <1>4, <1>5, <1>7 DEF ToSet

\* A withdrawal.
LEMMA PoolWithdraw ==
  ASSUME PoolInv, NEW x \in Notes, NEW root, NEW path, Withdraw(root, x, path)
  PROVE  PoolInv'
<1>1. /\ x \notin spent /\ spent' = spent \cup {x} /\ funds' = funds - 1
      /\ UNCHANGED <<initialized, leaves, frontier, roots>>
  BY DEF Withdraw, Unspent
<1>2. /\ leaves \in Seq(Notes) /\ spent \subseteq ToSet(leaves) /\ spent \in SUBSET Notes
      /\ funds = Len(leaves) - Cardinality(spent) /\ Len(leaves) \in Nat
  BY LenProperties DEF PoolInv, TreeInv, PoolFunded
<1>3. spent' \subseteq ToSet(leaves)
  BY <1>1, <1>2, OnlyLeavesWithdrawn
<1>4. Cardinality(spent) \in Nat /\ Cardinality(spent') = Cardinality(spent) + 1
  BY <1>1, <1>2, FundsSuffice, FS_AddElement
<1>5. Len(leaves) - Cardinality(spent') >= Cardinality(ToSet(leaves) \ spent')
  BY <1>2, <1>3, FundsSuffice
<1>6. PoolFunded'
  BY <1>1, <1>2, <1>3, <1>4, <1>5 DEF PoolFunded
<1>7. TreeInv'
  BY <1>1 DEF PoolInv, TreeInv, RootsAreTrees, Prefix
<1>8. QED
  BY <1>1, <1>2, <1>6, <1>7 DEF PoolInv

\* The invariant implies the pool's types, its balance's bound included.
LEMMA PoolInvTyped ==
  ASSUME PoolInv
  PROVE  PoolTypeOK /\ \A x \in ToSet(leaves) \ spent : funds >= 1
<1>1. /\ leaves \in Seq(Notes) /\ Len(leaves) \in Nat /\ Len(leaves) <= Capacity /\ Capacity \in Nat
      /\ spent \subseteq ToSet(leaves) /\ funds = Len(leaves) - Cardinality(spent)
      /\ funds >= Cardinality(ToSet(leaves) \ spent) /\ Cardinality(spent) \in Nat
  BY LenProperties, Widths, FundsSuffice DEF PoolInv, TreeInv, PoolFunded
<1>2. IsFiniteSet(ToSet(leaves) \ spent)
  BY <1>1, LeafCount, FS_Difference
<1>3. Cardinality(ToSet(leaves) \ spent) \in Nat
  BY <1>2, FS_CardinalityType
<1>4. funds \in 0..Capacity
  BY <1>1, <1>3
<1>5. Len(roots) <= RootHistory
  BY <1>1, HistoryAssumption, EmptySeq DEF PoolInv, TreeInv, RootsAreTrees
<1>6. ASSUME NEW x \in ToSet(leaves) \ spent PROVE funds >= 1
  <2>1. Cardinality(ToSet(leaves) \ spent) # 0
    BY <1>2, FS_EmptySet
  <2>2. QED
    BY <1>1, <1>3, <2>1
<1>7. QED
  BY <1>1, <1>4, <1>5, <1>6 DEF PoolTypeOK, PoolInv, TreeInv

\* And the first state satisfies it.
LEMMA PoolStarts == ASSUME PoolInit PROVE PoolInv
<1>1. leaves = <<>> /\ Len(leaves) = 0 /\ roots = <<>> /\ spent = {} /\ funds = 0 /\ initialized = FALSE
      /\ leaves \in Seq(Notes) /\ roots \in Seq(Trees(leaves)) /\ frontier = EmptyFrontier
  BY EmptySeq DEF PoolInit
<1>2. OnFrontier(frontier, leaves)
  <2>1. ASSUME NEW i \in 0..(Depth - 1) PROVE ~ IsRight(0, i)
    <3>1. i \in Nat /\ 0 \in Nat
      BY DepthAssumption
    <3>2. Pos(0, i) = 0
      BY <3>1, PosNext
    <3>3. IsRight(0, i) <=> Pos(0, i) % 2 = 1
      BY DEF IsRight, Pos
    <3>4. QED
      BY <3>2, <3>3
  <2>2. QED
    BY <1>1, <2>1 DEF OnFrontier
<1>3. PoolFunded
  <2>1. spent \in SUBSET ToSet(leaves) /\ Cardinality(spent) = 0
    BY <1>1, FS_EmptySet
  <2>2. Len(leaves) - Cardinality(spent) >= Cardinality(ToSet(leaves) \ spent)
    BY <1>1, <2>1, FundsSuffice
  <2>3. QED
    BY <1>1, <2>1, <2>2 DEF PoolFunded
<1>4. DOMAIN frontier = 0..(Depth - 1) /\ RootsAreTrees /\ Len(leaves) <= Capacity
  BY <1>1, Widths DEF RootsAreTrees, EmptyFrontier
<1>5. QED
  BY <1>1, <1>2, <1>3, <1>4 DEF PoolInv, TreeInv
=============================================================================
