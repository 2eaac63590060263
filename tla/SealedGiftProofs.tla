--------------------------- MODULE SealedGiftProofs ---------------------------
(***************************************************************************)
(* Theorems about SealedGift, for a tree of any depth, any number of       *)
(* notes, links and index runs, and pages of any size.  However many index *)
(* runs overlap and fail, the list they fill never lies; unless a page was *)
(* cut short their cursor never passes a leaf that is not in it; what is   *)
(* lost behind a cut page leaves a gap, and no gap is served; what a       *)
(* receiver proves from the list is a root the pool had; and the pool has  *)
(* a denomination for every link handed out.                               *)
(***************************************************************************)
EXTENDS SealedGift, PoolProofs

-----------------------------------------------------------------------------
(* The index *)

\* What the indexer's argument needs of types.
Runs == [pc : {"idle", "fetch", "upsert"}, from : Nat, read : Nat, latest : Nat]

IndexTyped ==
  /\ leaves \in Seq(Notes) /\ Len(leaves) <= Capacity
  /\ sync \in [Syncs -> Runs]
  /\ DOMAIN stored = 1..Capacity
  /\ cursor \in Int /\ cursor <= Len(leaves)
  /\ lookback \in Nat

\* A run has upserted all before the leaf it is at, once the cursor of the run
\* before it, or the first scan, reaches back to what is stored.
Behind(s) == \A i \in 1..(sync[s].from - 1) : i <= Len(leaves) /\ stored[i] = leaves[i]

\* It has collected nothing that is not there, and, if no page was cut, all
\* there was when it read the last one.
RunInv(s) ==
  /\ sync[s].pc # "idle" => sync[s].from \in 1..(sync[s].read + 1) /\ sync[s].read <= Len(leaves)
  /\ sync[s].pc = "upsert" => sync[s].latest <= Len(leaves)
  /\ sync[s].pc = "upsert" /\ ~cut => sync[s].latest <= sync[s].read
  /\ lookback >= Capacity /\ ~cut /\ sync[s].pc # "idle" => Behind(s)

\* What is stored of a leaf is that leaf.
StoredIsLeaf == \A i \in 1..Capacity : stored[i] # NoNote => i <= Len(leaves) /\ stored[i] = leaves[i]

IndexInv ==
  /\ IndexTyped
  /\ StoredIsLeaf
  /\ \A s \in Syncs : RunInv(s)
  /\ CursorCovers

\* A deposit, by whomever, appends a leaf and touches nothing of the indexer's.
LEMMA DepositKeeps ==
  ASSUME IndexInv, NEW n \in Notes, Deposit(n), UNCHANGED <<indexer, lookback, cut>>
  PROVE  IndexInv'
<1>1. leaves' = Append(leaves, n) /\ Len(leaves) < Capacity
  BY DEF Deposit
<1>2. /\ leaves' \in Seq(Notes) /\ Len(leaves') = Len(leaves) + 1 /\ Len(leaves) \in Nat
      /\ \A i \in 1..Len(leaves) : leaves'[i] = leaves[i]
  BY <1>1 DEF IndexInv, IndexTyped
<1>3. IndexTyped'
  BY <1>1, <1>2, Widths DEF IndexInv, IndexTyped, indexer
<1>4. StoredIsLeaf'
  BY <1>2, Widths DEF IndexInv, IndexTyped, StoredIsLeaf, indexer
<1>5. ASSUME NEW s \in Syncs PROVE RunInv(s)'
  <2>1. sync[s] \in Runs
    BY DEF IndexInv, IndexTyped
  <2>2. Behind(s) => Behind(s)'
    BY <1>2, <2>1 DEF Behind, indexer, Runs
  <2>3. QED
    BY <1>2, <2>1, <2>2 DEF IndexInv, RunInv, Runs, indexer
<1>6. CursorCovers'
  BY <1>2 DEF IndexInv, IndexTyped, CursorCovers, indexer
<1>7. QED
  BY <1>3, <1>4, <1>5, <1>6 DEF IndexInv

\* One run moved, the list did not.
LEMMA RunMoved ==
  ASSUME IndexInv, NEW s \in Syncs, NEW r \in Runs, sync' = [sync EXCEPT ![s] = r],
         UNCHANGED <<leaves, stored, cursor, lookback>>, ~cut' => ~cut, RunInv(s)'
  PROVE  IndexInv'
<1>1. sync' \in [Syncs -> Runs] /\ \A q \in Syncs \ {s} : sync'[q] = sync[q]
  BY DEF IndexInv, IndexTyped
<1>2. ASSUME NEW q \in Syncs \ {s} PROVE RunInv(q)'
  BY <1>1 DEF IndexInv, RunInv, Behind
<1>3. CursorCovers'
  BY DEF IndexInv, CursorCovers
<1>4. QED
  BY <1>1, <1>2, <1>3 DEF IndexInv, IndexTyped, StoredIsLeaf

\* A page was read as far as leaf i, to its limit or the tip unless it was cut.
LEMMA PageKeeps ==
  ASSUME IndexInv, NEW s \in Syncs, sync[s].pc = "fetch", NEW i \in Nat, PageRead(s, i),
         sync[s].read <= i, i <= Len(leaves), UNCHANGED <<leaves, stored, cursor, lookback>>,
         ~cut' => ~cut /\ (i = sync[s].read + PageSize \/ i = Len(leaves))
  PROVE  IndexInv'
<1> DEFINE more == [sync[s] EXCEPT !.read = i]
           last == [sync[s] EXCEPT !.pc = "upsert", !.read = i, !.latest = LatestLedger]
           r == IF i = sync[s].read + PageSize THEN more ELSE last
<1>0. sync[s] \in Runs /\ sync \in [Syncs -> Runs] /\ RunInv(s) /\ Len(leaves) \in Nat
  BY LenProperties DEF IndexInv, IndexTyped
<1>1. /\ more \in Runs /\ more.pc = "fetch" /\ more.from = sync[s].from /\ more.read = i
      /\ last \in Runs /\ last.pc = "upsert" /\ last.from = sync[s].from /\ last.read = i
      /\ last.latest = Len(leaves)
  BY <1>0 DEF Runs, LatestLedger
<1>2. sync' = [sync EXCEPT ![s] = r]
  BY <1>0 DEF PageRead
<1> HIDE DEF more, last
<1>3. /\ r \in Runs /\ r.from = sync[s].from /\ r.read = i /\ sync'[s] = r
      /\ r.pc = "fetch" \/ (r = last /\ i # sync[s].read + PageSize)
  BY <1>0, <1>1, <1>2
<1> HIDE DEF r
<1>4. Behind(s) => Behind(s)'
  BY <1>3 DEF Behind
<1>5. RunInv(s)'
  BY <1>0, <1>1, <1>3, <1>4 DEF RunInv, Runs
<1>6. QED
  BY <1>2, <1>3, <1>5, RunMoved

\* The steps of a run, a page cut short, and its failure.
LEMMA IndexKeeps ==
  ASSUME IndexInv, NEW s \in Syncs, Index(s) \/ PageCut(s) \/ SyncFails(s)
  PROVE  IndexInv'
<1>0. /\ sync[s] \in Runs /\ leaves \in Seq(Notes) /\ Len(leaves) \in Nat /\ Len(leaves) <= Capacity
      /\ Capacity \in Nat /\ cursor \in Int /\ lookback \in Nat /\ RunInv(s)
      /\ sync \in [Syncs -> Runs]
  BY Widths DEF IndexInv, IndexTyped
<1>1. SyncIdle \in Runs /\ SyncIdle.pc = "idle"
  BY DEF SyncIdle, Runs
<1>2. CASE SyncBegin(s)
  <2> DEFINE r == [pc |-> "fetch", from |-> ScanStart, read |-> ScanStart - 1, latest |-> 0]
  <2>1. ScanStart \in Nat /\ ScanStart >= 1 /\ ScanStart <= Len(leaves) + 1
    BY <1>0 DEF ScanStart, AtLeastOne, LatestLedger, IndexInv, IndexTyped
  <2>2. r \in Runs /\ r.pc = "fetch" /\ r.from = ScanStart /\ r.read = ScanStart - 1
    BY <2>1 DEF Runs
  <2>3. sync' = [sync EXCEPT ![s] = r] /\ UNCHANGED <<leaves, stored, cursor, lookback, cut>>
    BY <1>2 DEF SyncBegin, poolVars
  <2> HIDE DEF r
  <2>4. sync'[s] = r
    BY <1>0, <2>3
  <2>5. lookback >= Capacity /\ ~cut =>
          \A i \in 1..(ScanStart - 1) : i <= Len(leaves) /\ stored[i] = leaves[i]
    BY <1>0 DEF ScanStart, AtLeastOne, LatestLedger, IndexInv, IndexTyped, CursorCovers, NoCursor
  <2>6. RunInv(s)'
    BY <1>0, <2>1, <2>2, <2>3, <2>4, <2>5 DEF RunInv, Behind
  <2>7. QED
    BY <1>0, <2>2, <2>3, <2>6, RunMoved
<1>3. CASE SyncFetch(s) \/ PageCut(s)
  <2>1. /\ sync[s].pc = "fetch" /\ UNCHANGED <<leaves, stored, cursor, lookback>>
        /\ sync[s].read \in Nat /\ sync[s].read <= Len(leaves)
    BY <1>0, <1>3 DEF SyncFetch, PageCut, poolVars, RunInv, Runs
  <2>2. /\ PageEnd(s) \in Nat /\ sync[s].read <= PageEnd(s) /\ PageEnd(s) <= Len(leaves)
        /\ PageEnd(s) = sync[s].read + PageSize \/ PageEnd(s) = Len(leaves)
    BY <1>0, <2>1, PageAssumption DEF PageEnd, LatestLedger
  <2>3. CASE SyncFetch(s)
    BY <1>0, <2>1, <2>2, <2>3, PageKeeps DEF SyncFetch
  <2>4. CASE PageCut(s)
    <3>1. PICK i \in sync[s].read..(PageEnd(s) - 1) : PageRead(s, i)
      BY <2>4 DEF PageCut
    <3>2. i \in Nat /\ sync[s].read <= i /\ i <= Len(leaves) /\ cut' = TRUE
      BY <1>0, <2>1, <2>2, <2>4 DEF PageCut
    <3>3. QED
      BY <2>1, <3>1, <3>2, PageKeeps
  <2>5. QED
    BY <1>3, <2>3, <2>4
<1>4. CASE SyncUpsert(s)
  <2> DEFINE i == sync[s].from
             leaf == IF stored[i] = NoNote THEN leaves[i] ELSE stored[i]
             r == [sync[s] EXCEPT !.from = i + 1]
  <2>1. i \in 1..Len(leaves) /\ i \in 1..Capacity
    BY <1>0, <1>4 DEF SyncUpsert, Drained, RunInv, Runs
  <2>2. leaf = leaves[i]
    BY <2>1 DEF IndexInv, StoredIsLeaf
  <2>3. stored' = [stored EXCEPT ![i] = leaf] /\ UNCHANGED <<leaves, cursor, lookback, cut>>
    BY <1>4 DEF SyncUpsert, poolVars
  <2>4. sync' = [sync EXCEPT ![s] = r]
    BY <1>4, <1>0 DEF SyncUpsert
  <2>5. /\ r \in Runs /\ r.pc = "upsert" /\ r.from = i + 1
        /\ r.latest = sync[s].latest /\ r.read = sync[s].read
    <3>1. sync[s].pc = "upsert" /\ i + 1 \in Nat
      BY <1>0, <1>4 DEF SyncUpsert, Runs
    <3>2. QED
      BY <1>0, <3>1 DEF Runs
  <2> HIDE DEF r, leaf
  <2>6. /\ DOMAIN stored' = 1..Capacity /\ stored'[i] = leaves[i]
        /\ \A j \in 1..Capacity \ {i} : stored'[j] = stored[j]
    BY <2>1, <2>2, <2>3 DEF IndexInv, IndexTyped
  <2>7. sync' \in [Syncs -> Runs] /\ sync'[s] = r /\ \A q \in Syncs \ {s} : sync'[q] = sync[q]
    BY <2>4, <2>5, <1>0
  \* No entry that was right is changed.
  <2>8. ASSUME NEW k \in Int, \A j \in 1..k : j <= Len(leaves) /\ stored[j] = leaves[j]
        PROVE  \A j \in 1..k : j <= Len(leaves) /\ stored'[j] = leaves[j]
    BY <2>8, <2>6, <1>0
  <2>9. IndexTyped' /\ StoredIsLeaf'
    BY <2>1, <2>3, <2>6, <2>7 DEF IndexInv, IndexTyped, StoredIsLeaf
  <2>10. ASSUME NEW q \in Syncs \ {s} PROVE RunInv(q)'
    <3>1. sync[q].from - 1 \in Int /\ RunInv(q)
      BY DEF IndexInv, IndexTyped, Runs
    <3>2. Behind(q) => Behind(q)'
      BY <3>1, <2>3, <2>7, <2>8 DEF Behind
    <3>3. QED
      BY <3>1, <3>2, <2>3, <2>7 DEF RunInv
  <2>11. RunInv(s)'
    <3>1. sync[s].pc = "upsert" /\ i - 1 \in Int /\ i \in Nat
      BY <1>0, <1>4 DEF SyncUpsert, Runs
    <3>2. lookback >= Capacity /\ ~cut => \A j \in 1..(i - 1) : j <= Len(leaves) /\ stored'[j] = leaves[j]
      BY <1>0, <3>1, <2>8 DEF RunInv, Behind
    <3>3. lookback >= Capacity /\ ~cut => \A j \in 1..i : j <= Len(leaves) /\ stored'[j] = leaves[j]
      BY <3>1, <3>2, <2>1, <2>6
    <3>4. lookback >= Capacity /\ ~cut => Behind(s)'
      <4>1. sync'[s].from - 1 = i
        BY <2>5, <2>7, <3>1
      <4>2. QED
        BY <3>3, <4>1, <2>3 DEF Behind
    <3>5. /\ sync'[s].from \in 1..(sync'[s].read + 1) /\ sync'[s].read <= Len(leaves')
          /\ sync'[s].latest <= Len(leaves') /\ (~cut' => sync'[s].latest <= sync'[s].read)
      <4>1. /\ sync'[s].from = i + 1 /\ sync'[s].read = sync[s].read /\ sync'[s].latest = sync[s].latest
            /\ leaves' = leaves /\ cut' = cut
        BY <2>3, <2>5, <2>7
      <4>2. i <= sync[s].read /\ sync[s].read \in Nat
        BY <1>0, <1>4 DEF SyncUpsert, Drained, Runs
      <4>3. QED
        BY <1>0, <3>1, <4>1, <4>2 DEF RunInv
    <3>6. QED
      BY <3>4, <3>5, <2>3 DEF RunInv
  <2>12. CursorCovers'
    <3>1. cursor <= Len(leaves) /\ CursorCovers
      BY DEF IndexInv, IndexTyped
    <3>2. lookback >= Capacity /\ ~cut => \A j \in 1..cursor : j <= Len(leaves) /\ stored[j] = leaves[j]
      BY <1>0, <3>1 DEF CursorCovers
    <3>3. QED
      BY <1>0, <3>2, <2>3, <2>8 DEF CursorCovers
  <2>13. QED
    BY <2>9, <2>10, <2>11, <2>12 DEF IndexInv
<1>5. CASE SyncFinish(s)
  <2>1. /\ sync' = [sync EXCEPT ![s] = SyncIdle] /\ UNCHANGED <<leaves, stored, lookback, cut>>
        /\ cursor' = sync[s].latest /\ sync[s].pc = "upsert" /\ sync[s].from > sync[s].read
    BY <1>5 DEF SyncFinish, Drained, poolVars
  <2>2. cursor' \in Int /\ cursor' <= Len(leaves) /\ sync[s].from \in Nat /\ sync[s].read \in Nat
    BY <1>0, <2>1 DEF Runs, RunInv
  <2>3. lookback >= Capacity /\ ~cut => \A i \in 1..cursor' : stored[i] = leaves[i]
    BY <1>0, <2>1, <2>2 DEF RunInv, Behind
  <2>4. sync' \in [Syncs -> Runs] /\ sync'[s] = SyncIdle /\ \A q \in Syncs \ {s} : sync'[q] = sync[q]
    BY <1>0, <1>1, <2>1
  <2>5. ASSUME NEW q \in Syncs PROVE RunInv(q)'
    BY <1>1, <2>1, <2>4 DEF IndexInv, RunInv, Behind
  <2>6. QED
    BY <2>1, <2>2, <2>3, <2>4, <2>5 DEF IndexInv, IndexTyped, StoredIsLeaf, CursorCovers
<1>6. CASE SyncFails(s)
  <2>1. sync' = [sync EXCEPT ![s] = SyncIdle] /\ UNCHANGED <<leaves, stored, cursor, lookback, cut>>
    BY <1>6 DEF SyncFails, poolVars
  <2>2. sync'[s] = SyncIdle
    BY <1>0, <2>1
  <2>3. RunInv(s)'
    BY <1>1, <2>2 DEF RunInv
  <2>4. QED
    BY <1>0, <1>1, <2>1, <2>3, RunMoved
<1>7. QED
  BY <1>2, <1>3, <1>4, <1>5, <1>6 DEF Index

\* All of it, from the first state on.
THEOREM IndexHolds == SealedSpec => []IndexInv
<1>1. SealedInit => IndexInv
  <2> SUFFICES ASSUME SealedInit PROVE IndexInv
    OBVIOUS
  <2>1. leaves \in Seq(Notes) /\ Len(leaves) = 0 /\ lookback \in Nat
    BY SealedBounds DEF SealedInit, PoolInit
  <2>2. sync \in [Syncs -> Runs] /\ \A s \in Syncs : sync[s].pc = "idle"
    BY DEF SealedInit, SyncIdle, Runs
  <2>3. IndexTyped
    BY <2>1, <2>2, Widths DEF SealedInit, IndexTyped, NoCursor
  <2>4. StoredIsLeaf /\ CursorCovers
    BY DEF SealedInit, StoredIsLeaf, CursorCovers, NoCursor
  <2>5. QED
    BY <2>2, <2>3, <2>4 DEF IndexInv, RunInv
<1>2. IndexInv /\ [SealedNext]_sealedVars => IndexInv'
  <2> SUFFICES ASSUME IndexInv, [SealedNext]_sealedVars PROVE IndexInv'
    OBVIOUS
  <2>1. ASSUME UNCHANGED <<leaves, indexer, lookback, cut>> PROVE IndexInv'
    BY <2>1 DEF IndexInv, IndexTyped, StoredIsLeaf, RunInv, Behind, CursorCovers, indexer
  <2>2. ASSUME NEW n \in Gifts, DepositLands(n) PROVE IndexInv'
    BY <2>2, DepositKeeps DEF DepositLands, Gifts
  <2>3. ASSUME NEW n \in Strangers, DepositDirectly(n) PROVE IndexInv'
    BY <2>3, StrangersAssumption, DepositKeeps DEF DepositDirectly
  <2>4. ASSUME NEW s \in Syncs, Index(s) \/ PageCut(s) \/ SyncFails(s) PROVE IndexInv'
    BY <2>4, IndexKeeps
  <2>5. ASSUME NEW n \in Gifts, Receive(n) PROVE IndexInv'
    BY <2>5, <2>1 DEF Receive, FetchAndProve, SubmitWithdraw, WithdrawLands, WithdrawRefused, Withdraw, poolVars
  <2>6. ASSUME NEW n \in Gifts, SubmitDeposit(n) \/ MakeLink(n) \/ LoseNote(n) PROVE IndexInv'
    BY <2>6, <2>1 DEF SubmitDeposit, MakeLink, LoseNote, poolVars
  <2>7. ASSUME NEW n \in Strangers, WithdrawDirectly(n) PROVE IndexInv'
    BY <2>7, <2>1 DEF WithdrawDirectly, Withdraw
  <2>8. CASE InitializePool \/ UNCHANGED sealedVars
    BY <2>8, <2>1 DEF InitializePool, Initialize, sealedVars, poolVars
  <2>9. QED
    BY <2>2, <2>3, <2>4, <2>5, <2>6, <2>7, <2>8 DEF SealedNext
<1>3. QED
  BY <1>1, <1>2, PTL DEF SealedSpec

\* The cursor never passes a leaf that is not stored, for any number of runs
\* and pages of any size, as long as the first scan reaches back to the first
\* leaf and no page was cut.
THEOREM CursorNeverSkips == SealedSpec => []CursorCovers
<1>1. IndexInv => CursorCovers
  BY DEF IndexInv
<1>2. QED
  BY <1>1, IndexHolds, PTL

-----------------------------------------------------------------------------
(* The pool under its clients *)

\* Whatever senders, strangers, receivers and the indexer do, the pool's
\* invariant is kept.
LEMMA PoolKeeps ==
  ASSUME PoolInv, [SealedNext]_sealedVars
  PROVE  PoolInv'
<1>1. ASSUME UNCHANGED poolVars PROVE PoolInv'
  BY <1>1 DEF PoolInv, TreeInv, poolVars, RootsAreTrees, PoolFunded, Prefix
<1>2. ASSUME InitializePool PROVE PoolInv'
  BY <1>2, PoolInitialized DEF InitializePool
<1>3. ASSUME NEW n \in Gifts, DepositLands(n) PROVE PoolInv'
  BY <1>3, PoolDeposit DEF DepositLands, Gifts
<1>4. ASSUME NEW n \in Strangers, DepositDirectly(n) PROVE PoolInv'
  BY <1>4, PoolDeposit, StrangersAssumption DEF DepositDirectly
<1>5. ASSUME NEW n \in Gifts, WithdrawLands(n) PROVE PoolInv'
  BY <1>5, PoolWithdraw DEF WithdrawLands, Gifts
<1>6. ASSUME NEW n \in Strangers, WithdrawDirectly(n) PROVE PoolInv'
  <2>1. PICK k \in 1..Len(leaves), i \in 0..(Capacity - 1) :
          Withdraw(PathRoot(n, AuthPath(Prefix(k), i)), n, AuthPath(Prefix(k), i))
    BY <1>6 DEF WithdrawDirectly
  <2>2. QED
    BY <2>1, PoolWithdraw, StrangersAssumption
<1>7. ASSUME NEW n \in Gifts, Receive(n) PROVE PoolInv'
  BY <1>1, <1>5, <1>7 DEF Receive, FetchAndProve, SubmitWithdraw, WithdrawRefused
<1>8. ASSUME NEW n \in Gifts, SubmitDeposit(n) \/ MakeLink(n) \/ LoseNote(n) PROVE PoolInv'
  BY <1>1, <1>8 DEF SubmitDeposit, MakeLink, LoseNote
<1>9. ASSUME NEW s \in Syncs, Index(s) \/ PageCut(s) \/ SyncFails(s) PROVE PoolInv'
  BY <1>1, <1>9 DEF Index, SyncBegin, SyncFetch, PageCut, SyncUpsert, SyncFinish, SyncFails
<1>10. QED
  BY <1>1, <1>2, <1>3, <1>4, <1>6, <1>7, <1>8, <1>9 DEF SealedNext, sealedVars

\* The pool's invariant holds from the first state on.
THEOREM PoolHolds == SealedSpec => []PoolInv
<1>1. SealedInit => PoolInv
  BY PoolStarts DEF SealedInit
<1>2. QED
  BY <1>1, PoolKeeps, PTL DEF SealedSpec

\* The frontier the contract carries from deposit to deposit always yields the
\* root of the whole tree, and the history is that of the latest trees.
THEOREM RootsStayTrees == SealedSpec => []RootsAreTrees
<1>1. PoolInv => RootsAreTrees
  BY DEF PoolInv, TreeInv
<1>2. QED
  BY <1>1, PoolHolds, PTL

\* The pool has a denomination for every deposited note that is unspent.
THEOREM PoolStaysFunded == SealedSpec => []PoolFunded
<1>1. PoolInv => PoolFunded
  BY DEF PoolInv
<1>2. QED
  BY <1>1, PoolHolds, PTL

-----------------------------------------------------------------------------
(* The receiver *)

\* A list without gaps, sorted by leaf index, is the first of the leaves.
LEMMA ServedIsPrefix ==
  ASSUME IndexInv, GapFree
  PROVE  StoredCount \in 0..Len(leaves) /\ Served = Prefix(StoredCount)
<1> DEFINE S == StoredAt
           m == StoredCount
<1>1. /\ Capacity \in Nat /\ leaves \in Seq(Notes) /\ Len(leaves) \in Nat /\ StoredIsLeaf
  BY Widths, LenProperties DEF IndexInv, IndexTyped
<1>2. IsFiniteSet(1..Capacity) /\ Cardinality(1..Capacity) = Capacity
  BY <1>1, FS_Interval
<1>3. S \in SUBSET (1..Capacity)
  BY DEF StoredAt
<1>4. IsFiniteSet(S) /\ m = Cardinality(S) /\ m \in Nat /\ m <= Capacity
  BY <1>2, <1>3, FS_Subset, FS_CardinalityType DEF StoredCount
<1>5. S = 1..m
  <2>1. IsFiniteSet(1..m) /\ Cardinality(1..m) = m
    BY <1>4, FS_Interval
  <2>2. 1..m \in SUBSET S
    <3>1. \A k \in 1..m : k \in 1..Capacity /\ stored[k] # NoNote
      <4>1. \A k \in 1..m : stored[k] # NoNote
        BY DEF GapFree
      <4> HIDE DEF m
      <4>2. QED
        BY <1>1, <1>4, <4>1
    <3>2. QED
      BY <3>1 DEF StoredAt
  <2> HIDE DEF S, m
  <2>3. QED
    BY <1>4, <2>1, <2>2, FS_Subset
<1>6. \A k \in 1..m : stored[k] = leaves[k] /\ k <= Len(leaves)
  <2>1. \A k \in S : stored[k] # NoNote /\ k \in 1..Capacity
    BY DEF StoredAt
  <2> HIDE DEF S, m
  <2>2. QED
    BY <1>1, <1>5, <2>1 DEF StoredIsLeaf
<1>7. \A k \in S : Cardinality({j \in S : j <= k}) = k
  <2>1. ASSUME NEW k \in 1..m PROVE Cardinality({j \in 1..m : j <= k}) = k
    <3> HIDE DEF m
    <3>1. {j \in 1..m : j <= k} = 1..k /\ k \in Nat /\ k >= 1
      BY <1>4
    <3>2. Cardinality(1..k) = k
      BY <3>1, FS_Interval
    <3>3. QED
      BY <3>1, <3>2, Zenon
  <2> HIDE DEF S, m
  <2>2. QED
    BY <1>5, <2>1, Zenon
<1>8. \A k \in 1..m : NthStored(k) = k
  <2>1. \A k \in 1..m : NthStored(k) = CHOOSE i \in S : Cardinality({j \in S : j <= i}) = k
    BY DEF NthStored
  <2> HIDE DEF S, m
  <2>2. QED
    BY <1>5, <1>7, <2>1
<1>9. m <= Len(leaves)
  BY <1>1, <1>4, <1>6
<1>10. Served = [k \in 1..m |-> leaves[k]]
  BY <1>6, <1>8 DEF Served
<1>11. Prefix(m) = [k \in 1..m |-> leaves[k]]
  <2> HIDE DEF m
  <2>1. \A i \in 1..m : leaves[i] \in Notes
    BY <1>1, <1>4, <1>9, ElementOfSeq
  <2>2. /\ Prefix(m) \in Seq(Notes) /\ Len(Prefix(m)) = m
        /\ \A i \in 1..m : Prefix(m)[i] = leaves[i]
    BY <1>4, <2>1, SubSeqProperties DEF Prefix
  <2>3. QED
    BY <2>2, LenProperties
<1>12. QED
  BY <1>4, <1>9, <1>10, <1>11

\* What is proved for a member of a list is the root of the list's tree.
LEMMA ProofOfMember ==
  ASSUME NEW L \in Seq(Notes), Len(L) <= Capacity, NEW n \in ToSet(L)
  PROVE  ProofFor(n, L).root = TreeRoot(L)
<1> DEFINE S == {i \in DOMAIN L : L[i] = n}
           First(i) == i \in DOMAIN L /\ L[i] = n /\ \A j \in 1..(i - 1) : L[j] # n
           k == CHOOSE i \in DOMAIN L : L[i] = n /\ \A j \in 1..(i - 1) : L[j] # n
<1>1. DOMAIN L = 1..Len(L) /\ Len(L) \in Nat /\ Capacity \in Nat
  BY LenProperties, Widths
<1>2. S \in SUBSET Nat /\ S # {}
  BY <1>1 DEF ToSet
<1>3. PICK m \in S : \A i \in S : m <= i
  <2> HIDE DEF S
  <2>1. QED
    BY <1>2, LeastNat
<1>4. First(m)
  BY <1>1, <1>3
<1>5. First(k)
  BY <1>4
<1> HIDE DEF k, S
<1>6. k - 1 \in 0..(Capacity - 1) /\ k - 1 < Len(L) /\ L[(k - 1) + 1] = n
  BY <1>1, <1>5
<1>7. IndexOf(n, L) = k - 1
  BY DEF IndexOf, k
<1>8. ProofFor(n, L).root = PathRoot(n, AuthPath(L, k - 1))
  BY <1>7 DEF ProofFor
<1>9. PathRoot(L[(k - 1) + 1], AuthPath(L, k - 1)) = TreeRoot(L)
  BY <1>1, <1>6, PathOfLeaf
<1>10. QED
  BY <1>6, <1>8, <1>9

-----------------------------------------------------------------------------
(* Senders and receivers *)

Proofs(L) == {<<>>} \cup {ProofFor(x, SubSeq(L, 1, k)) : x \in Notes, k \in 1..Len(L)}
Attempts(L) == [pc : {"idle", "proved", "submitted"}, proof : Proofs(L)]
RootWasHeld(r) == \E k \in 1..Len(leaves) : r.proof.root = TreeRoot(Prefix(k))

ClientInv ==
  /\ sender \in [Gifts -> SenderStates]
  /\ receiver \in [Gifts -> Attempts(leaves)]
  /\ \A n \in Gifts : sender[n] = "linked" => n \in ToSet(leaves)
  /\ \A n \in Gifts : receiver[n].pc # "idle" => RootWasHeld(receiver[n])

\* Nothing a client relies on is taken away by a further leaf.
LEMMA ClientsOutlastDeposit ==
  ASSUME IndexInv, ClientInv, NEW x \in Notes, Deposit(x), UNCHANGED clients
  PROVE  ClientInv'
<1> DEFINE n == Len(leaves)
<1>1. /\ leaves \in Seq(Notes) /\ n \in Nat /\ n < Capacity /\ leaves' = Append(leaves, x)
      /\ sender' = sender /\ receiver' = receiver
  BY LenProperties DEF Deposit, IndexInv, IndexTyped, clients
<1>2. /\ Len(leaves') = n + 1 /\ \A i \in 1..n : leaves'[i] = leaves[i]
      /\ \A m \in 0..n : SubSeq(leaves', 1, m) = SubSeq(leaves, 1, m)
      /\ leaves' \in Seq(Notes)
  BY <1>1, LeafAdded DEF Adds
<1> HIDE DEF n
<1>3. 1..n \subseteq 1..Len(leaves') /\ n = Len(leaves)
  BY <1>1, <1>2 DEF n
<1>4. Proofs(leaves) \subseteq Proofs(leaves')
  <2> SUFFICES ASSUME NEW p \in Proofs(leaves) PROVE p \in Proofs(leaves')
    OBVIOUS
  <2>1. CASE p = <<>>
    BY <2>1 DEF Proofs
  <2>2. CASE p # <<>>
    <3>1. PICK y \in Notes, k \in 1..n : p = ProofFor(y, SubSeq(leaves, 1, k))
      BY <1>3, <2>2 DEF Proofs
    <3>2. k \in 1..Len(leaves') /\ SubSeq(leaves', 1, k) = SubSeq(leaves, 1, k)
      BY <1>1, <1>2, <1>3
    <3>3. p = ProofFor(y, SubSeq(leaves', 1, k))
      BY <3>1, <3>2
    <3>4. QED
      BY <3>2, <3>3 DEF Proofs
  <2>3. QED
    BY <2>1, <2>2
<1>5. receiver' \in [Gifts -> Attempts(leaves')]
  BY <1>1, <1>4 DEF ClientInv, Attempts
<1>6. ToSet(leaves) \subseteq ToSet(leaves')
  BY <1>1, <1>2, <1>3, LenProperties DEF ToSet
<1>7. ASSUME NEW g \in Gifts, receiver'[g].pc # "idle" PROVE RootWasHeld(receiver[g])'
  <2>1. PICK k \in 1..n : receiver[g].proof.root = TreeRoot(SubSeq(leaves, 1, k))
    BY <1>1, <1>3, <1>7 DEF ClientInv, RootWasHeld, Prefix
  <2>2. k \in 1..Len(leaves') /\ SubSeq(leaves', 1, k) = SubSeq(leaves, 1, k)
    BY <1>1, <1>2, <1>3
  <2>3. receiver'[g].proof.root = TreeRoot(SubSeq(leaves', 1, k))
    BY <1>1, <2>1, <2>2
  <2>4. QED
    BY <2>2, <2>3 DEF RootWasHeld, Prefix
<1>8. QED
  BY <1>1, <1>5, <1>6, <1>7 DEF ClientInv

\* A sender moves on; the link is made of a note that is in.
LEMMA SenderMoved ==
  ASSUME ClientInv, NEW n \in Gifts, NEW st \in SenderStates,
         st = "linked" => n \in ToSet(leaves),
         sender' = [sender EXCEPT ![n] = st], UNCHANGED <<leaves, receiver>>
  PROVE  ClientInv'
<1>1. sender' \in [Gifts -> SenderStates] /\ sender'[n] = st
      /\ \A g \in Gifts \ {n} : sender'[g] = sender[g]
  BY DEF ClientInv
<1>2. QED
  BY <1>1 DEF ClientInv, RootWasHeld, Prefix

\* A receiver moves on; what it holds is a proof under a root the pool had.
LEMMA ReceiverMoved ==
  ASSUME ClientInv, NEW n \in Gifts, NEW r \in Attempts(leaves),
         r.pc # "idle" => RootWasHeld(r),
         receiver' = [receiver EXCEPT ![n] = r], UNCHANGED <<leaves, sender>>
  PROVE  ClientInv'
<1>1. receiver' \in [Gifts -> Attempts(leaves)] /\ receiver'[n] = r
      /\ \A g \in Gifts \ {n} : receiver'[g] = receiver[g]
  BY DEF ClientInv
<1>2. ASSUME NEW g \in Gifts, receiver'[g].pc # "idle" PROVE RootWasHeld(receiver[g])'
  BY <1>1, <1>2 DEF ClientInv, RootWasHeld, Prefix
<1>3. QED
  BY <1>1, <1>2 DEF ClientInv

\* Fetching the list, proving, submitting, and the two ends of a withdrawal.
LEMMA ReceiverKeeps ==
  ASSUME IndexInv, ClientInv, NEW n \in Gifts, Receive(n)
  PROVE  ClientInv'
<1>1. /\ receiver \in [Gifts -> Attempts(leaves)] /\ receiver[n] \in Attempts(leaves)
      /\ receiver[n].pc # "idle" => RootWasHeld(receiver[n])
  BY DEF ClientInv
<1>2. ReceiverIdle \in Attempts(leaves) /\ ReceiverIdle.pc = "idle"
  BY DEF Attempts, Proofs, ReceiverIdle
<1>3. CASE FetchAndProve(n)
  <2> DEFINE r == [pc |-> "proved", proof |-> ProofFor(n, Served)]
             m == StoredCount
  <2>1. /\ receiver' = [receiver EXCEPT ![n] = r] /\ UNCHANGED <<leaves, sender>>
        /\ GapFree /\ n \in ToSet(Served) /\ n \in Notes
    BY <1>3 DEF FetchAndProve, poolVars, Gifts
  <2>2. m \in 0..Len(leaves) /\ Served = Prefix(m)
    BY <2>1, ServedIsPrefix
  <2> HIDE DEF m
  <2>3. leaves \in Seq(Notes) /\ Len(leaves) \in Nat /\ Len(leaves) <= Capacity /\ Capacity \in Nat
    BY Widths, LenProperties DEF IndexInv, IndexTyped
  <2>4. Prefix(m) \in Seq(Notes) /\ Len(Prefix(m)) = m
    <3>1. \A i \in 1..m : leaves[i] \in Notes
      BY <2>2, <2>3, ElementOfSeq
    <3>2. QED
      BY <2>2, <2>3, <3>1, SubSeqProperties DEF Prefix
  <2>5. m \in 1..Len(leaves)
    <3>1. PICK i \in DOMAIN Prefix(m) : Prefix(m)[i] = n
      BY <2>1, <2>2 DEF ToSet
    <3>2. i \in 1..m
      BY <2>4, <3>1, LenProperties
    <3>3. QED
      BY <2>2, <2>3, <3>2
  <2>6. ProofFor(n, Prefix(m)).root = TreeRoot(Prefix(m))
    BY <2>1, <2>2, <2>3, <2>4, ProofOfMember
  <2>7. ProofFor(n, Prefix(m)) \in Proofs(leaves)
    BY <2>1, <2>5 DEF Proofs, Prefix
  <2>8. r = [pc |-> "proved", proof |-> ProofFor(n, Prefix(m))]
    BY <2>2
  <2> HIDE DEF r
  <2>9. r \in Attempts(leaves)
    BY <2>7, <2>8 DEF Attempts
  <2>10. RootWasHeld(r)
    <3>1. r.proof = ProofFor(n, Prefix(m))
      BY <2>8
    <3>2. QED
      BY <2>5, <2>6, <3>1 DEF RootWasHeld
  <2>11. QED
    BY <2>1, <2>9, <2>10, ReceiverMoved
<1>4. CASE SubmitWithdraw(n)
  <2> DEFINE r == [receiver[n] EXCEPT !.pc = "submitted"]
  <2>1. receiver' = [receiver EXCEPT ![n] = r] /\ UNCHANGED <<leaves, sender>>
        /\ receiver[n].pc = "proved"
    BY <1>1, <1>4 DEF SubmitWithdraw, poolVars
  <2>2. r \in Attempts(leaves) /\ r.proof = receiver[n].proof
    BY <1>1 DEF Attempts
  <2>3. RootWasHeld(r)
    BY <1>1, <2>1, <2>2 DEF RootWasHeld
  <2> HIDE DEF r
  <2>4. QED
    BY <2>1, <2>2, <2>3, ReceiverMoved
<1>5. CASE WithdrawLands(n) \/ WithdrawRefused(n)
  <2>1. receiver' = [receiver EXCEPT ![n] = ReceiverIdle] /\ UNCHANGED <<leaves, sender>>
    BY <1>5 DEF WithdrawLands, WithdrawRefused, Withdraw, poolVars
  <2>2. QED
    BY <1>2, <2>1, ReceiverMoved
<1>6. QED
  BY <1>3, <1>4, <1>5 DEF Receive

\* Every step.
LEMMA ClientsKeep ==
  ASSUME IndexInv, ClientInv, [SealedNext]_sealedVars
  PROVE  ClientInv'
<1>1. ASSUME UNCHANGED <<leaves, clients>> PROVE ClientInv'
  BY <1>1 DEF ClientInv, RootWasHeld, Prefix, clients
<1>2. ASSUME NEW n \in Gifts, DepositLands(n) PROVE ClientInv'
  BY <1>2, ClientsOutlastDeposit DEF DepositLands, Gifts
<1>3. ASSUME NEW n \in Strangers, DepositDirectly(n) PROVE ClientInv'
  BY <1>3, StrangersAssumption, ClientsOutlastDeposit DEF DepositDirectly
<1>4. ASSUME NEW n \in Gifts, SubmitDeposit(n) PROVE ClientInv'
  BY <1>4, SenderMoved DEF SubmitDeposit, SenderStates, poolVars
<1>5. ASSUME NEW n \in Gifts, MakeLink(n) PROVE ClientInv'
  BY <1>5, SenderMoved DEF MakeLink, Landed, SenderStates, poolVars
<1>6. ASSUME NEW n \in Gifts, LoseNote(n) PROVE ClientInv'
  BY <1>6, SenderMoved DEF LoseNote, SenderStates, poolVars
<1>7. ASSUME NEW n \in Gifts, Receive(n) PROVE ClientInv'
  BY <1>7, ReceiverKeeps
<1>8. ASSUME NEW n \in Strangers, WithdrawDirectly(n) PROVE ClientInv'
  BY <1>1, <1>8 DEF WithdrawDirectly, Withdraw
<1>9. ASSUME NEW s \in Syncs, Index(s) \/ PageCut(s) \/ SyncFails(s) PROVE ClientInv'
  BY <1>1, <1>9 DEF Index, SyncBegin, SyncFetch, PageCut, SyncUpsert, SyncFinish, SyncFails, poolVars
<1>10. CASE InitializePool \/ UNCHANGED sealedVars
  BY <1>1, <1>10 DEF InitializePool, Initialize, sealedVars, poolVars
<1>11. QED
  BY <1>2, <1>3, <1>4, <1>5, <1>6, <1>7, <1>8, <1>9, <1>10 DEF SealedNext

\* Together with what the list holds, from the first state on.
THEOREM ClientsHold == SealedSpec => []ClientInv
<1>1. SealedInit => ClientInv
  <2> SUFFICES ASSUME SealedInit PROVE ClientInv
    OBVIOUS
  <2>1. ReceiverIdle \in Attempts(leaves) /\ ReceiverIdle.pc = "idle"
    BY DEF Attempts, Proofs, ReceiverIdle
  <2>2. QED
    BY <2>1 DEF SealedInit, ClientInv, SenderStates
<1>2. QED
  BY <1>1, IndexHolds, ClientsKeep, PTL DEF SealedSpec

\* Whatever was served, and whenever it was fetched, the proof made from it is
\* for a tree the pool had.
THEOREM ProofRootsWereHeld == SealedSpec => []ProofRootWasHeld
<1>1. ClientInv => ProofRootWasHeld
  BY DEF ClientInv, ProofRootWasHeld, RootWasHeld
<1>2. QED
  BY <1>1, ClientsHold, PTL

\* A link that was handed out and is unspent is backed by a leaf and a
\* denomination.
THEOREM LinksAreBacked == SealedSpec => []LinkIsBacked
<1>1. ASSUME PoolInv, ClientInv PROVE LinkIsBacked
  <2>1. \A n \in ToSet(leaves) \ spent : funds >= 1
    BY <1>1, PoolInvTyped
  <2>2. QED
    BY <1>1, <2>1 DEF ClientInv, LinkIsBacked
<1>2. QED
  BY <1>1, PoolHolds, ClientsHold, PTL

-----------------------------------------------------------------------------
(* Types *)

BoundedRuns ==
  [pc : {"idle", "fetch", "upsert"}, from : 0..(Capacity + 1), read : 0..Capacity, latest : 0..Capacity]

RestTyped ==
  /\ sync \in [Syncs -> BoundedRuns]
  /\ stored \in [1..Capacity -> Notes \cup {NoNote}]
  /\ cursor \in NoCursor..Capacity
  /\ lookback \in Lookbacks
  /\ cut \in BOOLEAN
  /\ faults \in 0..MaxFaults

\* A page that ends within the tree keeps a run within its bounds.
LEMMA PageBounded ==
  ASSUME IndexInv, RestTyped, NEW s \in Syncs, NEW i \in 0..Capacity, PageRead(s, i)
  PROVE  sync' \in [Syncs -> BoundedRuns]
<1> DEFINE more == [sync[s] EXCEPT !.read = i]
           last == [sync[s] EXCEPT !.pc = "upsert", !.read = i, !.latest = LatestLedger]
<1>1. /\ sync \in [Syncs -> BoundedRuns] /\ sync[s] \in BoundedRuns
      /\ LatestLedger \in 0..Capacity
  BY Widths, LenProperties DEF RestTyped, IndexInv, IndexTyped, LatestLedger
<1>2. more \in BoundedRuns /\ last \in BoundedRuns
  BY <1>1 DEF BoundedRuns
<1>3. \/ sync' = [sync EXCEPT ![s] = more]
      \/ sync' = [sync EXCEPT ![s] = last]
  BY <1>1 DEF PageRead
<1> HIDE DEF more, last
<1>4. QED
  BY <1>1, <1>2, <1>3

\* The indexer's bounds: a run starts at or below the ledger after the last
\* one, and goes as far as the leaf after it.
LEMMA IndexBounded ==
  ASSUME IndexInv, RestTyped, NEW s \in Syncs, Index(s)
  PROVE  RestTyped'
<1>0. /\ sync \in [Syncs -> BoundedRuns] /\ sync[s] \in BoundedRuns /\ RunInv(s)
      /\ leaves \in Seq(Notes) /\ Len(leaves) \in 0..Capacity /\ Capacity \in Nat \ {0}
      /\ cursor \in NoCursor..Capacity /\ lookback \in Nat
  BY Widths, LenProperties DEF RestTyped, IndexInv, IndexTyped
<1>1. ASSUME NEW r \in BoundedRuns, sync' = [sync EXCEPT ![s] = r]
      PROVE  sync' \in [Syncs -> BoundedRuns]
  BY <1>0, <1>1
<1>2. CASE SyncBegin(s)
  <2> DEFINE r == [pc |-> "fetch", from |-> ScanStart, read |-> ScanStart - 1, latest |-> 0]
  <2>1. ScanStart \in 1..(Capacity + 1)
    BY <1>0 DEF ScanStart, AtLeastOne, LatestLedger, NoCursor, IndexInv, IndexTyped
  <2>2. r \in BoundedRuns
    BY <1>0, <2>1 DEF BoundedRuns
  <2>3. QED
    BY <1>1, <1>2, <2>2 DEF SyncBegin, RestTyped
<1>3. CASE SyncFetch(s)
  <2>1. PageEnd(s) \in 0..Capacity
    BY <1>0, <1>3, PageAssumption DEF SyncFetch, PageEnd, LatestLedger, BoundedRuns
  <2>2. QED
    BY <1>3, <2>1, PageBounded DEF SyncFetch, RestTyped
<1>4. CASE SyncUpsert(s)
  <2> DEFINE i == sync[s].from
             leaf == IF stored[i] = NoNote THEN leaves[i] ELSE stored[i]
  <2>1. i \in 1..Len(leaves) /\ i \in 1..Capacity
    BY <1>0, <1>4 DEF SyncUpsert, Drained, RunInv, BoundedRuns
  <2>2. leaf \in Notes \cup {NoNote}
    BY <1>0, <2>1, ElementOfSeq DEF RestTyped
  <2>3. stored' = [stored EXCEPT ![i] = leaf]
    BY <1>4 DEF SyncUpsert
  <2>4. [sync[s] EXCEPT !.from = i + 1] \in BoundedRuns
    <3>1. i + 1 \in 0..(Capacity + 1)
      BY <1>0, <2>1
    <3>2. QED
      BY <1>0, <3>1 DEF BoundedRuns
  <2>5. sync' = [sync EXCEPT ![s] = [sync[s] EXCEPT !.from = i + 1]]
    BY <1>0, <1>4 DEF SyncUpsert
  <2> HIDE DEF leaf
  <2>6. stored' \in [1..Capacity -> Notes \cup {NoNote}]
    BY <2>1, <2>2, <2>3 DEF RestTyped
  <2>7. QED
    BY <1>1, <1>4, <2>4, <2>5, <2>6 DEF SyncUpsert, RestTyped
<1>5. CASE SyncFinish(s)
  <2>1. SyncIdle \in BoundedRuns /\ sync[s].latest \in NoCursor..Capacity
    BY <1>0 DEF SyncIdle, BoundedRuns, NoCursor
  <2>2. QED
    BY <1>1, <1>5, <2>1 DEF SyncFinish, RestTyped
<1>6. QED
  BY <1>2, <1>3, <1>4, <1>5 DEF Index

\* All variables keep their types: the pool's by its invariant, the clients' by
\* theirs, the indexer's by the bounds above.
THEOREM SealedTyped == SealedSpec => []SealedTypeOK
<1>1. SealedInit => RestTyped
  <2> SUFFICES ASSUME SealedInit PROVE RestTyped
    OBVIOUS
  <2>1. SyncIdle \in BoundedRuns /\ Capacity \in Nat
    BY Widths DEF SyncIdle, BoundedRuns
  <2>2. cut \in BOOLEAN
    BY DEF SealedInit
  <2>3. QED
    BY <2>1, <2>2, SealedBounds DEF SealedInit, RestTyped, NoCursor
<1>2. IndexInv /\ RestTyped /\ [SealedNext]_sealedVars => RestTyped'
  <2> SUFFICES ASSUME IndexInv, RestTyped, [SealedNext]_sealedVars PROVE RestTyped'
    OBVIOUS
  <2>1. ASSUME UNCHANGED <<indexer, lookback, cut, faults>> PROVE RestTyped'
    BY <2>1 DEF RestTyped, indexer
  <2>2. ASSUME faults < MaxFaults, faults' = faults + 1 PROVE faults' \in 0..MaxFaults
    BY <2>2, SealedBounds DEF RestTyped
  <2>3. ASSUME NEW n \in Gifts, LoseNote(n) PROVE RestTyped'
    BY <2>2, <2>3 DEF LoseNote, RestTyped, indexer
  <2>4. ASSUME NEW s \in Syncs, SyncFails(s) PROVE RestTyped'
    <3>1. SyncIdle \in BoundedRuns
      BY Widths DEF SyncIdle, BoundedRuns
    <3>2. sync' \in [Syncs -> BoundedRuns]
      BY <2>4, <3>1 DEF SyncFails, RestTyped
    <3>3. QED
      BY <2>2, <2>4, <3>2 DEF SyncFails, RestTyped
  <2>5. ASSUME NEW s \in Syncs, Index(s) PROVE RestTyped'
    BY <2>5, IndexBounded
  <2>6. ASSUME NEW n \in Gifts,
               SubmitDeposit(n) \/ DepositLands(n) \/ MakeLink(n) \/ Receive(n)
        PROVE  RestTyped'
    BY <2>1, <2>6 DEF SubmitDeposit, DepositLands, MakeLink, Receive, FetchAndProve,
                      SubmitWithdraw, WithdrawLands, WithdrawRefused
  <2>7. CASE InitializePool \/ UNCHANGED sealedVars
    BY <2>1, <2>7 DEF InitializePool, sealedVars
  <2>8. ASSUME NEW n \in Strangers, DepositDirectly(n) \/ WithdrawDirectly(n) PROVE RestTyped'
    BY <2>1, <2>8 DEF DepositDirectly, WithdrawDirectly
  <2>9. ASSUME NEW s \in Syncs, PageCut(s) PROVE RestTyped'
    <3>1. PICK i \in sync[s].read..(PageEnd(s) - 1) : PageRead(s, i)
      BY <2>9 DEF PageCut
    <3>2. i \in 0..Capacity
      BY <3>1, Widths, LenProperties, PageAssumption
         DEF PageEnd, LatestLedger, RestTyped, BoundedRuns, IndexInv, IndexTyped
    <3>3. sync' \in [Syncs -> BoundedRuns]
      BY <3>1, <3>2, PageBounded
    <3>4. cut' \in BOOLEAN
      BY <2>9 DEF PageCut
    <3>5. QED
      BY <2>2, <2>9, <3>3, <3>4 DEF PageCut, RestTyped
  <2>10. QED
    BY <2>3, <2>4, <2>5, <2>6, <2>7, <2>8, <2>9 DEF SealedNext
<1>3. ASSUME PoolInv, ClientInv, RestTyped PROVE SealedTypeOK
  <2>1. PoolTypeOK
    BY <1>3, PoolInvTyped
  <2>2. QED
    BY <1>3, <2>1 DEF ClientInv, Attempts, RestTyped, BoundedRuns, SealedTypeOK
<1>4. QED
  BY <1>1, <1>2, <1>3, IndexHolds, PoolHolds, ClientsHold, PTL DEF SealedSpec
=============================================================================
