------------------------------- MODULE Induction -------------------------------
(***************************************************************************)
(* Induction stated for sets, as the provers cannot instantiate a predicate *)
(* parameter: what is to be shown of all naturals, or of all subsets of a   *)
(* finite set, is given as the set of those it holds of.  Then what Total   *)
(* computes, which needs that the recursion behind it defines a function.   *)
(***************************************************************************)
EXTENDS Totals, FiniteSets, FiniteSetTheorems, TLAPS

\* A set of naturals has a least element.
LEMMA LeastNat ==
  ASSUME NEW S \in SUBSET Nat, S # {}
  PROVE  \E m \in S : \A i \in S : m <= i
<1>1. PICK m \in S : \A i \in S : ~ (<<i, m>> \in OpToRel(<, Nat))
  BY NatLessThanWellFounded, WFMin
<1>2. \A i \in S : ~(i < m)
  BY <1>1 DEF OpToRel
<1>3. QED
  BY <1>2

\* A set of naturals with 0 and every successor is all of them.
LEMMA NatSets ==
  ASSUME NEW S \in SUBSET Nat, 0 \in S, \A n \in S : n + 1 \in S
  PROVE  S = Nat
<1> DEFINE T == Nat \ S
<1>1. SUFFICES ASSUME T # {} PROVE FALSE
  OBVIOUS
<1>2. PICK m \in T : \A i \in T : m <= i
  <2>1. T \in SUBSET Nat
    OBVIOUS
  <2> HIDE DEF T
  <2>2. QED
    BY <1>1, <2>1, LeastNat
<1>3. m # 0 /\ m - 1 \in Nat /\ m - 1 \in S
  BY <1>2
<1>4. QED
  BY <1>3

\* The same up to a bound.
LEMMA IntervalSets ==
  ASSUME NEW N \in Nat, NEW S \in SUBSET (0..N), 0 \in S,
         \A n \in S : n < N => n + 1 \in S
  PROVE  S = 0..N
<1> DEFINE T == {n \in Nat : n <= N => n \in S}
<1>1. T = Nat
  <2>1. 0 \in T /\ \A n \in T : n + 1 \in T
    OBVIOUS
  <2>2. T \in SUBSET Nat
    OBVIOUS
  <2> HIDE DEF T
  <2>3. QED
    BY <2>1, <2>2, NatSets
<1>2. ASSUME NEW n \in 0..N PROVE n \in S
  <2>1. n \in T /\ n <= N
    BY <1>1
  <2>2. QED
    BY <2>1
<1>3. S \subseteq 0..N /\ 0..N \subseteq S
  BY <1>2
<1>4. QED
  BY <1>3

\* One element less.
LEMMA OneLess ==
  ASSUME NEW n \in Nat, NEW T, IsFiniteSet(T), Cardinality(T) = n + 1
  PROVE  /\ T # {}
         /\ \A x \in T : IsFiniteSet(T \ {x}) /\ Cardinality(T \ {x}) = n
<1>1. T # {}
  <2>1. SUFFICES ASSUME T = {} PROVE FALSE
    OBVIOUS
  <2>2. Cardinality(T) = 0
    BY <2>1, FS_EmptySet
  <2>3. QED
    BY <2>2
<1>2. ASSUME NEW x \in T PROVE IsFiniteSet(T \ {x}) /\ Cardinality(T \ {x}) = n
  <2>1. IsFiniteSet(T \ {x}) /\ Cardinality(T \ {x}) = Cardinality(T) - 1
    BY FS_RemoveElement
  <2>2. QED
    BY <2>1
<1>3. QED
  BY <1>1, <1>2

\* Subsets of a finite set: the empty one, and one element more at a time.
LEMMA SubsetSets ==
  ASSUME NEW S, IsFiniteSet(S), NEW P \in SUBSET (SUBSET S), {} \in P,
         \A T \in P : \A x \in S \ T : T \cup {x} \in P
  PROVE  P = SUBSET S
<1> DEFINE E == {n \in Nat : \A T \in SUBSET S : Cardinality(T) = n => T \in P}
<1>0. \A T \in SUBSET S : IsFiniteSet(T) /\ Cardinality(T) \in Nat
  BY FS_Subset, FS_CardinalityType
<1>1. 0 \in E
  BY <1>0, FS_EmptySet
<1>2. ASSUME NEW n \in E PROVE n + 1 \in E
  <2>1. SUFFICES ASSUME NEW T \in SUBSET S, Cardinality(T) = n + 1 PROVE T \in P
    OBVIOUS
  <2>2. n \in Nat
    OBVIOUS
  <2>3. PICK x \in T : TRUE
    BY <1>0, <2>1, <2>2, OneLess
  <2>4. Cardinality(T \ {x}) = n
    <3> HIDE DEF E
    <3>1. QED
      BY <1>0, <2>1, <2>2, OneLess
  <2>5. T \ {x} \in P
    BY <2>4
  <2>6. (T \ {x}) \cup {x} = T /\ x \in S \ (T \ {x})
    BY <2>3
  <2>7. QED
    BY <2>5, <2>6
<1>3. E = Nat
  <2>1. E \in SUBSET Nat
    OBVIOUS
  <2> HIDE DEF E
  <2>2. QED
    BY <1>1, <1>2, <2>1, NatSets
<1>4. QED
  BY <1>0, <1>3

-----------------------------------------------------------------------------
(* Sums over finite sets *)

\* What FoldFunction takes out of a set first, and the function it computes.
Choice(s) == CHOOSE x \in s : TRUE
IsSum(h, f, D) ==
  h = [s \in D |-> IF s = {} THEN 0 ELSE f[Choice(s)] + h[s \ {Choice(s)}]]

IntOn(f, S) == \A x \in S : f[x] \in Int
AgreeOn(f, g, S) == \A x \in S : g[x] = f[x]
AnyOrder(h, f, S) ==
  \A s \in SUBSET S : h[s] \in Int /\ \A x \in s : h[s] = f[x] + h[s \ {x}]

Sums(h, f, S) == IsSum(h, f, SUBSET S)

\* It is an element.
LEMMA ChoiceIn == ASSUME NEW s, s # {} PROVE Choice(s) \in s
BY DEF Choice

\* It exists on every finite set.
LEMMA SumExists ==
  ASSUME NEW f, NEW S, IsFiniteSet(S)
  PROVE  \E h : Sums(h, f, S)
<1> DEFINE D(n) == {s \in SUBSET S : Cardinality(s) <= n}
           E == {n \in Nat : \E h : IsSum(h, f, D(n))}
<1>0. \A s \in SUBSET S : IsFiniteSet(s) /\ Cardinality(s) \in Nat
                          /\ Cardinality(s) <= Cardinality(S)
  BY FS_Subset, FS_CardinalityType
<1>1. 0 \in E
  <2>1. \A s \in D(0) : s = {}
    BY <1>0, FS_EmptySet
  <2>2. IsSum([s \in D(0) |-> 0], f, D(0))
    BY <2>1 DEF Sums, IsSum
  <2>3. QED
    BY <2>2
<1>2. ASSUME NEW n \in E PROVE n + 1 \in E
  <2>1. PICK h : IsSum(h, f, D(n))
    OBVIOUS
  <2> DEFINE k == [s \in D(n + 1) |-> IF s = {} THEN 0 ELSE f[Choice(s)] + h[s \ {Choice(s)}]]
  <2>2. ASSUME NEW s \in D(n + 1), s # {} PROVE k[s \ {Choice(s)}] = h[s \ {Choice(s)}]
    <3> DEFINE t == s \ {Choice(s)}
    <3>1. Choice(s) \in s
      BY <2>2, ChoiceIn
    <3>2. Cardinality(t) = Cardinality(s) - 1
      BY <1>0, <3>1, FS_RemoveElement
    <3>3. t \in D(n) /\ t \in D(n + 1)
      BY <1>0, <3>2
    <3> HIDE DEF t, D
    <3>4. h[t] = IF t = {} THEN 0 ELSE f[Choice(t)] + h[t \ {Choice(t)}]
      BY <2>1, <3>3 DEF Sums, IsSum
    <3>5. k[t] = IF t = {} THEN 0 ELSE f[Choice(t)] + h[t \ {Choice(t)}]
      BY <3>3
    <3>6. QED
      BY <3>4, <3>5 DEF t
  <2>3. IsSum(k, f, D(n + 1))
    <3> HIDE DEF D
    <3>1. QED
      BY <2>2 DEF Sums, IsSum
  <2>4. n + 1 \in Nat
    OBVIOUS
  <2> HIDE DEF k, D
  <2>5. QED
    BY <2>3, <2>4
<1>3. E = Nat
  <2>1. E \in SUBSET Nat
    OBVIOUS
  <2> HIDE DEF E
  <2>2. QED
    BY <1>1, <1>2, <2>1, NatSets
<1>4. Cardinality(S) \in E
  BY <1>3, FS_CardinalityType
<1>5. D(Cardinality(S)) = SUBSET S
  BY <1>0
<1>6. QED
  BY <1>4, <1>5 DEF Sums

\* On the subsets of the domain it has natural values, and it does not matter
\* which element is taken out first.
LEMMA SumAnyOrder ==
  ASSUME NEW S, IsFiniteSet(S), NEW f, IntOn(f, S),
         NEW h, Sums(h, f, S)
  PROVE  AnyOrder(h, f, S)
<1> USE DEF IntOn, AnyOrder
<1> DEFINE Ok(s) == h[s] \in Int /\ \A x \in s : h[s] = f[x] + h[s \ {x}]
           E == {n \in Nat : \A s \in SUBSET S : Cardinality(s) <= n => Ok(s)}
<1>0. \A s \in SUBSET S : IsFiniteSet(s) /\ Cardinality(s) \in Nat
  BY FS_Subset, FS_CardinalityType
<1>1. h[{}] = 0 /\ \A s \in SUBSET S : s # {} => h[s] = f[Choice(s)] + h[s \ {Choice(s)}]
  BY DEF Sums, IsSum
<1>2. 0 \in E
  <2>1. \A s \in SUBSET S : Cardinality(s) <= 0 => s = {}
    BY <1>0, FS_EmptySet
  <2>2. Ok({})
    BY <1>1
  <2>3. QED
    BY <2>1, <2>2
<1>3. ASSUME NEW n \in E PROVE n + 1 \in E
  <2>0. n \in Nat
    OBVIOUS
  <2>1. SUFFICES ASSUME NEW s \in SUBSET S, Cardinality(s) = n + 1 PROVE Ok(s)
    <3> HIDE DEF Ok
    <3>1. QED
      BY <1>0, <2>0
  <2> DEFINE p == Choice(s)
  <2>2. p \in s /\ s # {}
    <3> HIDE DEF E
    <3>1. QED
      BY <1>0, <2>0, <2>1, OneLess, ChoiceIn
  <2>3. \A x \in s : s \ {x} \in SUBSET S /\ Cardinality(s \ {x}) = n
    <3> HIDE DEF E
    <3>1. QED
      BY <1>0, <2>0, <2>1, OneLess
  <2>4. ASSUME NEW x \in s PROVE Ok(s \ {x})
    <3>1. s \ {x} \in SUBSET S /\ Cardinality(s \ {x}) <= n
      BY <2>0, <2>3
    <3> HIDE DEF Ok
    <3>2. QED
      BY <3>1
  <2>5. h[s] = f[p] + h[s \ {p}]
    BY <1>1, <2>2
  <2> HIDE DEF p
  <2>6. ASSUME NEW x \in s, x # p PROVE h[s] = f[x] + h[s \ {x}]
    <3>1. (s \ {p}) \ {x} = (s \ {x}) \ {p} /\ x \in s \ {p} /\ p \in s \ {x}
      BY <2>2, <2>6
    <3> DEFINE r == (s \ {p}) \ {x}
    <3>2. h[s \ {p}] = f[x] + h[r]
      <4>1. \A y \in s \ {p} : h[s \ {p}] = f[y] + h[(s \ {p}) \ {y}]
        BY <2>2, <2>4
      <4>2. QED
        BY <3>1, <4>1
    <3>3. h[s \ {x}] = f[p] + h[r]
      <4>1. \A y \in s \ {x} : h[s \ {x}] = f[y] + h[(s \ {x}) \ {y}]
        BY <2>4
      <4>2. QED
        BY <3>1, <4>1
    <3>4. r \in SUBSET S /\ IsFiniteSet(r)
      BY <1>0
    <3>5. f[x] \in Int /\ f[p] \in Int /\ h[s \ {p}] \in Int /\ h[s \ {x}] \in Int
      BY <2>2, <2>4
    <3>6. h[r] \in Int
      <4>1. IsFiniteSet(s \ {p}) /\ Cardinality(s \ {p}) = n
        BY <1>0, <2>2, <2>3
      <4>2. Cardinality(r) <= n
        BY <2>0, <4>1, FS_Subset, FS_CardinalityType
      <4>3. QED
        BY <3>4, <4>2
    <3>7. QED
      BY <2>5, <3>2, <3>3, <3>5, <3>6
  <2>7. h[s] \in Int
    <3>1. f[p] \in Int /\ h[s \ {p}] \in Int
      BY <2>2, <2>4
    <3>2. QED
      BY <2>5, <3>1
  <2>8. QED
    BY <2>5, <2>6, <2>7
<1>4. E = Nat
  <2>1. E \in SUBSET Nat
    OBVIOUS
  <2> HIDE DEF E
  <2>2. QED
    BY <1>2, <1>3, <2>1, NatSets
<1>5. QED
  BY <1>0, <1>4

\* It is the same where the functions agree.
LEMMA SumAgrees ==
  ASSUME NEW S, IsFiniteSet(S), NEW T \in SUBSET S,
         NEW f, NEW g, IntOn(f, S), AgreeOn(f, g, T),
         NEW h, Sums(h, f, S), NEW k, Sums(k, g, T)
  PROVE  h[T] = k[T]
<1> DEFINE P == {s \in SUBSET T : h[s] = k[s]}
<1>1. IsFiniteSet(T) /\ IntOn(g, T)
  BY FS_Subset DEF IntOn, AgreeOn
<1>2. AnyOrder(h, f, S)
  BY SumAnyOrder
<1>3. AnyOrder(k, g, T)
  BY <1>1, SumAnyOrder
<1>4. {} \in P
  BY DEF Sums, IsSum
<1>5. ASSUME NEW s \in P, NEW x \in T \ s PROVE s \cup {x} \in P
  <2>1. (s \cup {x}) \ {x} = s /\ s \cup {x} \in SUBSET T /\ s \cup {x} \in SUBSET S
    OBVIOUS
  <2>2. h[s \cup {x}] = f[x] + h[s]
    BY <1>2, <2>1 DEF AnyOrder
  <2>3. k[s \cup {x}] = g[x] + k[s]
    BY <1>3, <2>1 DEF AnyOrder
  <2>4. QED
    BY <2>1, <2>2, <2>3 DEF AgreeOn
<1>6. P = SUBSET T
  <2>1. P \in SUBSET (SUBSET T)
    OBVIOUS
  <2> HIDE DEF P
  <2>2. QED
    BY <1>1, <1>4, <1>5, <2>1, SubsetSets
<1>7. QED
  BY <1>6

\* And it is what Total computes.
LEMMA TotalIsSum ==
  ASSUME NEW S, IsFiniteSet(S), NEW f, DOMAIN f = S
  PROVE  \E h : Sums(h, f, S) /\ Total(f) = h[S]
<1> DEFINE h == CHOOSE h : Sums(h, f, S)
<1>1. Sums(h, f, S)
  BY SumExists
<1>2. Total(f) = h[S]
  BY DEF Total, FoldFunction, FoldFunctionOnSet, MapThenFoldSet, Sums, IsSum, Choice
<1>3. QED
  BY <1>1, <1>2

\* One summand taken out.
LEMMA TotalSplit ==
  ASSUME NEW S, IsFiniteSet(S), NEW f \in [S -> Int], NEW x \in S
  PROVE  /\ Total(f) \in Int
         /\ Total(f) = f[x] + Total([y \in S \ {x} |-> f[y]])
<1>0. IntOn(f, S)
  BY DEF IntOn
<1> DEFINE T == S \ {x}
           g == [y \in T |-> f[y]]
<1>1. IsFiniteSet(T) /\ T \in SUBSET S /\ DOMAIN g = T /\ AgreeOn(f, g, T)
  BY FS_RemoveElement DEF AgreeOn
<1>2. PICK h : Sums(h, f, S) /\ Total(f) = h[S]
  BY TotalIsSum
<1> HIDE DEF g
<1>3. PICK k : Sums(k, g, T) /\ Total(g) = k[T]
  BY <1>1, TotalIsSum
<1>4. h[T] = k[T]
  <2> HIDE DEF T
  <2>1. QED
    BY <1>0, <1>1, <1>2, <1>3, SumAgrees
<1>5. h[S] \in Int /\ h[S] = f[x] + h[T]
  <2>1. AnyOrder(h, f, S)
    BY <1>0, <1>2, SumAnyOrder
  <2>2. QED
    BY <2>1 DEF AnyOrder
<1>6. QED
  BY <1>2, <1>3, <1>4, <1>5 DEF g

\* Nothing adds up to zero.
LEMMA TotalEmpty ==
  ASSUME NEW f, DOMAIN f = {}
  PROVE  Total(f) = 0
<1>1. PICK h : Sums(h, f, {}) /\ Total(f) = h[{}]
  BY FS_EmptySet, TotalIsSum
<1>2. QED
  BY <1>1 DEF Sums, IsSum

\* Naturals add up to a natural.
LEMMA TotalNat ==
  ASSUME NEW S, IsFiniteSet(S), NEW f \in [S -> Nat]
  PROVE  /\ Total(f) \in Nat
         /\ (\A x \in S : f[x] = 0) => Total(f) = 0
<1>1. PICK h : Sums(h, f, S) /\ Total(f) = h[S]
  BY TotalIsSum
<1>a. AnyOrder(h, f, S)
  <2>1. IntOn(f, S)
    BY DEF IntOn
  <2>2. QED
    BY <1>1, <2>1, SumAnyOrder
<1> DEFINE P == {s \in SUBSET S : h[s] \in Nat /\ ((\A x \in s : f[x] = 0) => h[s] = 0)}
<1>2. {} \in P
  BY <1>1 DEF Sums, IsSum
<1>3. ASSUME NEW s \in P, NEW x \in S \ s PROVE s \cup {x} \in P
  <2>1. (s \cup {x}) \ {x} = s /\ s \cup {x} \in SUBSET S
    OBVIOUS
  <2>2. h[s \cup {x}] = f[x] + h[s]
    BY <1>a, <2>1 DEF AnyOrder
  <2>3. QED
    BY <2>1, <2>2
<1>4. P = SUBSET S
  <2>1. P \in SUBSET (SUBSET S)
    OBVIOUS
  <2> HIDE DEF P
  <2>2. QED
    BY <1>2, <1>3, <2>1, SubsetSets
<1>5. QED
  BY <1>1, <1>4

\* g is f with one summand more.
OneMore(f, g, S, x) ==
  x \notin S /\ f \in [S -> Int] /\ g \in [S \cup {x} -> Int] /\ AgreeOn(f, g, S)

\* A summand added or removed.
LEMMA TotalAdded ==
  ASSUME NEW S, IsFiniteSet(S), NEW f, NEW g, NEW x, OneMore(f, g, S, x)
  PROVE  Total(g) = Total(f) + g[x] /\ Total(f) = Total(g) - g[x]
<1> USE DEF OneMore
<1>1. IsFiniteSet(S \cup {x}) /\ (S \cup {x}) \ {x} = S
  BY FS_AddElement
<1>2. [y \in S |-> g[y]] = f
  BY DEF AgreeOn
<1>3. Total(g) \in Int /\ Total(g) = g[x] + Total(f)
  BY <1>1, <1>2, TotalSplit
<1>4. Total(f) \in Int
  <2>1. CASE S = {}
    BY <2>1, TotalEmpty
  <2>2. CASE S # {}
    BY <2>2, TotalSplit
  <2>3. QED
    BY <2>1, <2>2
<1>5. QED
  BY <1>3, <1>4

\* A summand changed.
LEMMA TotalChanged ==
  ASSUME NEW S, IsFiniteSet(S), NEW x \in S, NEW f \in [S -> Int],
         NEW g \in [S -> Int], AgreeOn(f, g, S \ {x})
  PROVE  Total(g) = Total(f) - f[x] + g[x]
<1> DEFINE T == S \ {x}
           r == [y \in T |-> f[y]]
<1>1. IsFiniteSet(T) /\ T \cup {x} = S /\ x \notin T /\ r \in [T -> Int]
  BY FS_RemoveElement
<1> HIDE DEF T
<1>2. Total(f) = Total(r) + f[x] /\ Total(r) = Total(f) - f[x]
  <2>1. OneMore(r, f, T, x)
    BY <1>1 DEF AgreeOn, OneMore
  <2> HIDE DEF r
  <2>2. QED
    BY <1>1, <2>1, TotalAdded
<1>3. Total(g) = Total(r) + g[x] /\ Total(r) = Total(g) - g[x]
  <2>1. OneMore(r, g, T, x)
    BY <1>1 DEF T, AgreeOn, OneMore
  <2> HIDE DEF r
  <2>2. QED
    BY <1>1, <2>1, TotalAdded
<1>4. QED
  BY <1>2, <1>3
=============================================================================
