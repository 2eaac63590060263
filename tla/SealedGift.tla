------------------------------ MODULE SealedGift ------------------------------
(***************************************************************************)
(* Sealed gifts end to end: senders deposit notes into the pool             *)
(* (useSealedDeposit.ts), the backend indexes the deposit events            *)
(* (poolIndexerService.ts), and receivers rebuild the tree from the served  *)
(* list, prove and withdraw (poolClient.ts, useSealedClaim.ts).             *)
(*                                                                         *)
(* A ledger holds at most one deposit, so a ledger is named by the number   *)
(* of leaves there are after it.                                            *)
(***************************************************************************)
EXTENDS ShieldedPool

CONSTANTS Strangers,  \* notes whose holders use the contract directly
          NoNote,
          Syncs,      \* index runs that may overlap: cron, boot, submit
          Lookbacks,  \* values of SHIELDED_POOL_START_LOOKBACK
          PageSize,   \* the limit of a getEvents call
          MaxFaults   \* bound: calls that throw or are cut, and process exits

Gifts == Notes \ Strangers

ASSUME StrangersAssumption == Strangers \subseteq Notes /\ NoNote \notin Notes
ASSUME SealedBounds == MaxFaults \in Nat /\ Lookbacks \subseteq Nat
ASSUME PageAssumption == PageSize \in Nat \ {0}

VARIABLES
  sender,    \* [Gifts -> SenderStates]
  receiver,  \* [Gifts -> ReceiverStates]
  sync,      \* [Syncs -> SyncStates]
  stored,    \* the poolleaves collection, by leaf index
  cursor,    \* lastLedger of the sync state, or NoCursor
  lookback,
  cut,       \* history: some page left leaves out that were there
  faults

indexer == <<sync, stored, cursor>>
clients == <<sender, receiver>>
sealedVars == <<poolVars, indexer, clients, lookback, cut, faults>>

-----------------------------------------------------------------------------
(* Types *)

SenderStates == {"idle", "submitted", "linked", "lost"}

ReceiverIdle == [pc |-> "idle", proof |-> <<>>]
NoCursor == -1
\* from: the next leaf to upsert, read: the last one collected
SyncIdle == [pc |-> "idle", from |-> 0, read |-> 0, latest |-> 0]

SealedTypeOK ==
  /\ PoolTypeOK
  /\ sender \in [Gifts -> SenderStates]
  /\ \A n \in Gifts : receiver[n].pc \in {"idle", "proved", "submitted"}
  /\ \A s \in Syncs :
       /\ sync[s].pc \in {"idle", "fetch", "upsert"}
       /\ sync[s].from \in 0..(Capacity + 1)
       /\ sync[s].read \in 0..Capacity /\ sync[s].latest \in 0..Capacity
  /\ stored \in [1..Capacity -> Notes \cup {NoNote}]
  /\ cursor \in NoCursor..Capacity
  /\ lookback \in Lookbacks
  /\ cut \in BOOLEAN
  /\ faults \in 0..MaxFaults

SealedInit ==
  /\ PoolInit
  /\ sender = [n \in Gifts |-> "idle"]
  /\ receiver = [n \in Gifts |-> ReceiverIdle]
  /\ sync = [s \in Syncs |-> SyncIdle]
  /\ stored = [i \in 1..Capacity |-> NoNote]
  /\ cursor = NoCursor
  /\ lookback \in Lookbacks
  /\ cut = FALSE
  /\ faults = 0

-----------------------------------------------------------------------------
(* Faulty variants of definitions below: none is part of the specification. *)

ScanStartSkipping == IF cursor = NoCursor THEN 1 ELSE cursor + 2
LandedAssumed(n) == TRUE
GapUnchecked == TRUE
PageReadOnce(s, i) ==
  sync' = [sync EXCEPT ![s].pc = "upsert", ![s].read = i, ![s].latest = Len(leaves)]

-----------------------------------------------------------------------------
(* The sender *)

SubmitDeposit(n) ==
  /\ sender[n] = "idle"
  /\ sender' = [sender EXCEPT ![n] = "submitted"]
  /\ UNCHANGED <<poolVars, indexer, receiver, lookback, cut, faults>>

\* The transaction may land after the sender's poll timed out, too.
DepositLands(n) ==
  /\ sender[n] \in {"submitted", "lost"}
  /\ n \notin ToSet(leaves)
  /\ Deposit(n)
  /\ UNCHANGED <<indexer, clients, lookback, cut, faults>>

\* The link is made only when the submit reports success.
Landed(n) == n \in ToSet(leaves)

MakeLink(n) ==
  /\ sender[n] = "submitted"
  /\ Landed(n)
  /\ sender' = [sender EXCEPT ![n] = "linked"]
  /\ UNCHANGED <<poolVars, indexer, receiver, lookback, cut, faults>>

\* Failure or timeout: the secret was only in the page's memory.
LoseNote(n) ==
  /\ sender[n] = "submitted"
  /\ faults < MaxFaults
  /\ faults' = faults + 1
  /\ sender' = [sender EXCEPT ![n] = "lost"]
  /\ UNCHANGED <<poolVars, indexer, receiver, lookback, cut>>

DepositDirectly(n) ==
  /\ n \in Strangers
  /\ Deposit(n)
  /\ UNCHANGED <<indexer, clients, lookback, cut, faults>>

-----------------------------------------------------------------------------
(* syncPoolDeposits *)

LatestLedger == Len(leaves)
AtLeastOne(i) == IF i < 1 THEN 1 ELSE i
ScanStart == AtLeastOne(IF cursor = NoCursor THEN LatestLedger - lookback ELSE cursor)

SyncBegin(s) ==
  /\ sync[s].pc = "idle"
  /\ initialized
  /\ sync' = [sync EXCEPT ![s] =
       [pc |-> "fetch", from |-> ScanStart, read |-> ScanStart - 1, latest |-> 0]]
  /\ UNCHANGED <<poolVars, stored, cursor, clients, lookback, cut, faults>>

\* The leaf a page ends at: it is full, or it has come to the tip.
PageEnd(s) ==
  LET full == sync[s].read + PageSize IN IF full <= LatestLedger THEN full ELSE LatestLedger

\* The loop goes on only behind a full page.  The ledger to resume from is the
\* latest one when the last page is read, whatever that page left out.
PageRead(s, i) ==
  sync' = [sync EXCEPT ![s] =
    IF i = sync[s].read + PageSize THEN [@ EXCEPT !.read = i]
    ELSE [@ EXCEPT !.pc = "upsert", !.read = i, !.latest = LatestLedger]]

\* One page of getPoolDepositEvents.
SyncFetch(s) ==
  /\ sync[s].pc = "fetch"
  /\ PageRead(s, PageEnd(s))
  /\ UNCHANGED <<poolVars, stored, cursor, clients, lookback, cut, faults>>

\* The RPC node ends a page early and hands out a cursor to go on from.
PageCut(s) ==
  /\ sync[s].pc = "fetch"
  /\ faults < MaxFaults
  /\ faults' = faults + 1
  /\ \E i \in sync[s].read..(PageEnd(s) - 1) : PageRead(s, i)
  /\ cut' = TRUE
  /\ UNCHANGED <<poolVars, stored, cursor, clients, lookback>>

Drained(s) == sync[s].pc = "upsert" /\ sync[s].from > sync[s].read

\* $setOnInsert, in leaf order
SyncUpsert(s) ==
  /\ sync[s].pc = "upsert"
  /\ ~Drained(s)
  /\ LET i == sync[s].from
     IN /\ stored' = [stored EXCEPT ![i] = IF @ = NoNote THEN leaves[i] ELSE @]
        /\ sync' = [sync EXCEPT ![s].from = i + 1]
  /\ UNCHANGED <<poolVars, cursor, clients, lookback, cut, faults>>

SyncFinish(s) ==
  /\ Drained(s)
  /\ cursor' = sync[s].latest
  /\ sync' = [sync EXCEPT ![s] = SyncIdle]
  /\ UNCHANGED <<poolVars, stored, clients, lookback, cut, faults>>

\* An RPC or database call throws, or the process exits.
SyncFails(s) ==
  /\ sync[s].pc # "idle"
  /\ faults < MaxFaults
  /\ faults' = faults + 1
  /\ sync' = [sync EXCEPT ![s] = SyncIdle]
  /\ UNCHANGED <<poolVars, stored, cursor, clients, lookback, cut>>

-----------------------------------------------------------------------------
(* The receiver *)

StoredAt == {i \in 1..Capacity : stored[i] # NoNote}
StoredCount == Cardinality(StoredAt)
GapFree == \A i \in 1..StoredCount : stored[i] # NoNote

\* getOrderedCommitments: all that is stored, sorted by leaf index
NthStored(k) == CHOOSE i \in StoredAt : Cardinality({j \in StoredAt : j <= i}) = k
Served == [k \in 1..StoredCount |-> stored[NthStored(k)]]

\* prepareWithdraw: findIndex, buildAuthPath, prove
IndexOf(c, seq) == (CHOOSE i \in DOMAIN seq : seq[i] = c /\ \A j \in 1..(i - 1) : seq[j] # c) - 1

ProofFor(n, seq) ==
  LET path == AuthPath(seq, IndexOf(n, seq)) IN [root |-> PathRoot(n, path), path |-> path]

FetchAndProve(n) ==
  /\ sender[n] = "linked"
  /\ receiver[n].pc = "idle"
  /\ n \notin spent
  /\ GapFree
  /\ n \in ToSet(Served)
  /\ receiver' = [receiver EXCEPT ![n] = [pc |-> "proved", proof |-> ProofFor(n, Served)]]
  /\ UNCHANGED <<poolVars, indexer, sender, lookback, cut, faults>>

\* build-transaction simulates the withdrawal and refuses an unknown root.
Acceptable(n) == KnownRoot(receiver[n].proof.root) /\ Unspent(n)

SubmitWithdraw(n) ==
  /\ receiver[n].pc = "proved"
  /\ Acceptable(n)
  /\ receiver' = [receiver EXCEPT ![n].pc = "submitted"]
  /\ UNCHANGED <<poolVars, indexer, sender, lookback, cut, faults>>

WithdrawLands(n) ==
  /\ receiver[n].pc = "submitted"
  /\ Withdraw(receiver[n].proof.root, n, receiver[n].proof.path)
  /\ receiver' = [receiver EXCEPT ![n] = ReceiverIdle]
  /\ UNCHANGED <<indexer, sender, lookback, cut, faults>>

\* The root has left the history, at the simulation or on the ledger.
WithdrawRefused(n) ==
  /\ receiver[n].pc \in {"proved", "submitted"}
  /\ ~Acceptable(n)
  /\ receiver' = [receiver EXCEPT ![n] = ReceiverIdle]
  /\ UNCHANGED <<poolVars, indexer, sender, lookback, cut, faults>>

\* A stranger proves against any tree there ever was.
WithdrawDirectly(n) ==
  /\ n \in Strangers
  /\ \E k \in 1..Len(leaves), i \in 0..(Capacity - 1) :
       LET path == AuthPath(Prefix(k), i) IN Withdraw(PathRoot(n, path), n, path)
  /\ UNCHANGED <<indexer, clients, lookback, cut, faults>>

-----------------------------------------------------------------------------

InitializePool == Initialize /\ UNCHANGED <<indexer, clients, lookback, cut, faults>>

Receive(n) == FetchAndProve(n) \/ SubmitWithdraw(n) \/ WithdrawLands(n) \/ WithdrawRefused(n)
Index(s) == SyncBegin(s) \/ SyncFetch(s) \/ SyncUpsert(s) \/ SyncFinish(s)

SealedNext ==
  \/ InitializePool
  \/ \E n \in Gifts :
       SubmitDeposit(n) \/ DepositLands(n) \/ MakeLink(n) \/ LoseNote(n) \/ Receive(n)
  \/ \E n \in Strangers : DepositDirectly(n) \/ WithdrawDirectly(n)
  \/ \E s \in Syncs : Index(s) \/ PageCut(s) \/ SyncFails(s)

SealedSpec == SealedInit /\ [][SealedNext]_sealedVars

\* The indexer's cron keeps running and a receiver with a link keeps trying;
\* senders, strangers and faults owe nothing.
FairSealedSpec ==
  /\ SealedSpec
  /\ \A s \in Syncs : WF_sealedVars(Index(s))
  /\ \A n \in Gifts : WF_sealedVars(Receive(n))

-----------------------------------------------------------------------------
(* Properties *)

\* Overlapping, failing and repeated index runs, however deposits fall between
\* their pages and upserts, never let the cursor pass a leaf that is not
\* stored: it would never be scanned again.  Two exceptions are known, a first
\* scan that starts too late, and an RPC node that ends a page before its limit
\* and before the tip: the loop takes the short page for the last, cursor or
\* no, and resumes from the tip.
CursorCovers ==
  lookback >= Capacity /\ ~cut => \A i \in 1..cursor : stored[i] = leaves[i]

\* "building a Merkle path on an incomplete list would produce a root the
\* contract never held": whatever was served, gaps, overlapping runs, leaves
\* lost behind a cut page and missed events included, the proof made from it is
\* for a tree the pool had.
ProofRootWasHeld ==
  \A n \in Gifts : receiver[n].pc # "idle" =>
    \E k \in 1..Len(leaves) : receiver[n].proof.root = TreeRoot(Prefix(k))

\* A sealed link that exists is worth a denomination until it is spent.
LinkIsBacked ==
  \A n \in Gifts : sender[n] = "linked" /\ n \notin spent => n \in ToSet(leaves) /\ funds >= 1

\* A sealed gift whose link was handed out is withdrawn in the end, although
\* deposits keep pushing old roots out of the history while proofs are made,
\* and index runs find pages that are full.  The two scans above that miss
\* leaves are excepted.  To whom it is paid is not said: the contract pays the
\* recipient it is given, which the proof's signal is not compared with.
LinkIsWithdrawn ==
  \A n \in Gifts : (sender[n] = "linked" /\ lookback >= Capacity) ~> (n \in spent \/ cut)
=============================================================================
