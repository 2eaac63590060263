--------------------------- MODULE GiftCacheProofs ---------------------------
(***************************************************************************)
(* Theorems about GiftCache: however many handlers, sweeps and wallets mix, *)
(* the row lags behind the contract and never runs ahead of it.  The        *)
(* argument is that the contract only grows and snapshots only age.         *)
(***************************************************************************)
EXTENDS GiftCache, GiftEscrowProofs, FiniteSetTheorems

\* What a gift's record may become, and what a view of it may claim.
Grew(g, h) ==
  /\ g.total_amount <= h.total_amount
  /\ g.steps_completed <= h.steps_completed
  /\ g.status # "Open" => h.status = g.status

Within(v, g) ==
  /\ v.status = "claimed" => g.status = "Claimed"
  /\ v.status = "refunded" => g.status = "Refunded"
  /\ v.amount \in Nat /\ v.amount <= g.total_amount
  /\ v.steps \in Nat /\ v.steps <= g.steps_completed

\* A view stays within what the gift grows to.
LEMMA ViewsAge ==
  ASSUME NEW g \in GiftRecords, NEW h \in GiftRecords, Grew(g, h), NEW v, Within(v, g)
  PROVE  Within(v, h)
<1>1. /\ g.total_amount \in Nat /\ h.total_amount \in Nat
      /\ g.steps_completed \in Nat /\ h.steps_completed \in Nat
  BY DEF GiftRecords
<1>2. QED
  BY <1>1 DEF Grew, Within

GiftTyped == DOMAIN gifts = {1} /\ gifts[1] \in GiftRecords

\* An invocation makes the gift grow, and a claim or a refund settles it.
LEMMA InvocationGrows ==
  ASSUME GiftTyped, NEW op \in Ops, Invocation(op)
  PROVE  /\ GiftTyped' /\ Grew(Gift, Gift')
         /\ op = "claim" => Gift'.status = "Claimed"
         /\ op = "refund" => Gift'.status = "Refunded"
<1>0. /\ DOMAIN gifts = {1} /\ Gift \in GiftRecords
      /\ Gift.total_amount \in Nat /\ Gift.steps_completed \in Nat
  BY DEF GiftTyped, Gift, GiftRecords
<1>1. ASSUME NEW g \in GiftRecords, gifts' = WithGift(1, g), Grew(Gift, g)
      PROVE  GiftTyped' /\ Gift' = g /\ Grew(Gift, Gift')
  BY <1>1, <1>0 DEF GiftTyped, Gift, WithGift
<1>2. ASSUME NEW u \in Users, NEW a \in 1..MaxAmount, Contribute(u, 1, a)
      PROVE  GiftTyped' /\ Grew(Gift, Gift')
  <2> DEFINE c == [Gift.contributions EXCEPT ![u] = @ + a]
             k == [Gift EXCEPT !.contributions = c]
             g == [k EXCEPT !.total_amount = @ + a]
  <2>1. a \in Nat /\ Gift.contributions \in [Users -> Nat]
    BY <1>0, BoundAssumption DEF GiftRecords, ContributionMaps
  <2>2. c \in ContributionMaps
    BY <2>1 DEF ContributionMaps
  <2>3. k \in GiftRecords /\ k.total_amount = Gift.total_amount
        /\ k.status = Gift.status /\ k.steps_completed = Gift.steps_completed
    <3> HIDE DEF c
    <3>1. QED
      BY <2>2, <1>0 DEF GiftRecords
  <2>4. ToppedUp(Gift, u, a) = g
    BY <1>0 DEF ToppedUp, GiftRecords
  <2> HIDE DEF k
  <2>5. g \in GiftRecords /\ g.total_amount = Gift.total_amount + a
        /\ g.status = Gift.status /\ g.steps_completed = Gift.steps_completed
    BY <2>1, <2>3, <1>0 DEF GiftRecords
  <2>6. gifts' = WithGift(1, g)
    BY <1>2, <2>4 DEF Contribute, Gift
  <2> HIDE DEF g
  <2>7. Grew(Gift, g)
    BY <2>1, <2>5, <1>0 DEF Grew
  <2>8. QED
    BY <2>5, <2>6, <2>7, <1>1
<1>3. ASSUME NEW u, UnlockStep(u, 1) PROVE GiftTyped' /\ Grew(Gift, Gift')
  <2> DEFINE g == [Gift EXCEPT !.steps_completed = @ + 1]
  <2>1. g \in GiftRecords /\ gifts' = WithGift(1, g) /\ Grew(Gift, g)
    BY <1>0, <1>3 DEF UnlockStep, GiftRecords, Grew, Gift
  <2>2. QED
    BY <2>1, <1>1
<1>4. ASSUME NEW u, NEW answer, Claim(1, u, answer)
      PROVE  GiftTyped' /\ Grew(Gift, Gift') /\ Gift'.status = "Claimed"
  <2> DEFINE g == [Gift EXCEPT !.status = "Claimed"]
  <2>1. g \in GiftRecords /\ gifts' = WithGift(1, g) /\ Grew(Gift, g) /\ g.status = "Claimed"
    BY <1>0, <1>4 DEF Claim, OpenAndUnexpired, GiftRecords, GiftStatus, Grew, Gift
  <2>2. QED
    BY <2>1, <1>1
<1>5. ASSUME NEW u \in Users, Refund(1, u)
      PROVE  GiftTyped' /\ Grew(Gift, Gift') /\ Gift'.status = "Refunded"
  <2> DEFINE g == [Gift EXCEPT !.status = "Refunded"]
  <2>1. g \in GiftRecords /\ gifts' = WithGift(1, g) /\ Grew(Gift, g) /\ g.status = "Refunded"
    BY <1>0, <1>5 DEF Refund, Refundable, GiftRecords, GiftStatus, Grew, Gift
  <2>2. QED
    BY <2>1, <1>1
<1>6. QED
  BY <1>2, <1>3, <1>4, <1>5 DEF Invocation

-----------------------------------------------------------------------------
(* The invariant *)

CacheTyped ==
  /\ GiftTyped
  /\ row \in [status : RowStatuses, amount : Nat, steps : Nat]
  /\ txs \in [Txs -> Transactions]
  /\ slot \in [Slots -> SlotStates]
  /\ listed \in [Txs -> Nat]

\* A settling transaction that landed has settled the gift that way.
SettledAs(t) ==
  txs[t].state = "landed" =>
    /\ txs[t].op = "claim" => Gift.status = "Claimed"
    /\ txs[t].op = "refund" => Gift.status = "Refunded"

\* A request goes on past its poll only if its transaction landed; what it, or
\* the sweep, has read was so and the gift has only grown since.
SlotInv(s) ==
  /\ slot[s].pc = "write" => Within(slot[s].saw, Gift)
  /\ s = Sweeper => slot[s].pc \in {"idle", "read", "write"}
  /\ s # Sweeper /\ slot[s].pc # "idle" => slot[s].tx \in Txs
  /\ s # Sweeper /\ slot[s].pc \in {"hash", "read", "write", "push"} => txs[slot[s].tx].state = "landed"
  /\ slot[s].pc = "hash" => SettlesGift(slot[s].tx)
  /\ s # Sweeper /\ slot[s].pc = "write" =>
       /\ txs[slot[s].tx].op = "claim" => slot[s].saw.status = "claimed"
       /\ txs[slot[s].tx].op = "refund" => slot[s].saw.status = "refunded"

CacheInv ==
  /\ CacheTyped
  /\ Within(row, Gift)
  /\ \A t \in Txs : SettledAs(t)
  /\ settledBy # NoTx => settledBy \in Txs /\ txs[settledBy].state = "landed" /\ SettlesGift(settledBy)
  /\ \A s \in Slots : SlotInv(s)
  /\ ListedHasLanded

\* One slot moved and nothing else did.
LEMMA SlotMoved ==
  ASSUME CacheInv, NEW s \in Slots, NEW h \in SlotStates, slot' = [slot EXCEPT ![s] = h],
         UNCHANGED <<gifts, row, txs, settledBy, listed>>, SlotInv(s)'
  PROVE  CacheInv'
<1>1. slot' \in [Slots -> SlotStates] /\ \A q \in Slots \ {s} : slot'[q] = slot[q]
  BY DEF CacheInv, CacheTyped
<1>2. ASSUME NEW q \in Slots \ {s} PROVE SlotInv(q)'
  BY <1>1 DEF CacheInv, SlotInv, Gift, SettlesGift
<1>3. ASSUME NEW t \in Txs PROVE SettledAs(t)'
  BY DEF CacheInv, SettledAs, Gift
<1>4. QED
  BY <1>1, <1>2, <1>3 DEF CacheInv, CacheTyped, GiftTyped, Gift, SettlesGift, ListedHasLanded

\* A transaction moved on, and the gift with it or not.
LEMMA ChainMoved ==
  ASSUME CacheInv, UNCHANGED <<row, settledBy, listed, slot>>, GiftTyped', Grew(Gift, Gift'),
         NEW t \in Txs, NEW st \in {"pending", "landed", "failed"},
         txs' = [txs EXCEPT ![t].state = st], txs[t].state # "landed", SettledAs(t)'
  PROVE  CacheInv'
<1>0. /\ txs \in [Txs -> Transactions] /\ Gift \in GiftRecords /\ Gift' \in GiftRecords
  BY DEF CacheInv, CacheTyped, GiftTyped, Gift
<1>1. /\ txs' \in [Txs -> Transactions]
      /\ \A u \in Txs : txs'[u].op = txs[u].op
      /\ \A u \in Txs \ {t} : txs'[u] = txs[u]
      /\ \A u \in Txs : txs[u].state = "landed" => txs'[u].state = "landed"
  BY <1>0 DEF Transactions
<1>2. ASSUME NEW v, Within(v, Gift) PROVE Within(v, Gift')
  BY <1>0, <1>2, ViewsAge
<1>3. Within(row', Gift')
  <2>1. row' = row /\ Within(row, Gift)
    BY DEF CacheInv
  <2>2. QED
    BY <2>1, <1>2
<1>4. ASSUME NEW u \in Txs PROVE SettledAs(u)'
  BY <1>1 DEF CacheInv, SettledAs, Grew
<1>5. ASSUME NEW s \in Slots PROVE SlotInv(s)'
  <2>1. SlotInv(s) /\ slot' = slot
    BY DEF CacheInv
  <2>2. slot[s].pc = "write" => Within(slot[s].saw, Gift')
    BY <2>1, <1>2 DEF SlotInv
  <2>3. s # Sweeper /\ slot[s].pc # "idle" => slot[s].tx \in Txs
    BY <2>1 DEF SlotInv
  <2>4. slot[s].pc = "hash" => SettlesGift(slot[s].tx)'
    BY <2>1, <2>3, <1>1 DEF SlotInv, SettlesGift
  <2>5. QED
    BY <2>1, <2>2, <2>3, <2>4, <1>1 DEF SlotInv
<1>6. settledBy # NoTx => settledBy \in Txs /\ txs'[settledBy].state = "landed" /\ SettlesGift(settledBy)'
  BY <1>1 DEF CacheInv, SettlesGift
<1>7. ListedHasLanded'
  BY <1>1 DEF CacheInv, ListedHasLanded
<1>8. QED
  BY <1>1, <1>3, <1>4, <1>5, <1>6, <1>7 DEF CacheInv, CacheTyped

\* A submit handler's own steps.
LEMMA ServeKeeps ==
  ASSUME CacheInv, NEW r \in Requests, Serve(r) \/ \E t \in Txs : SubmitLoad(r, t)
  PROVE  CacheInv'
<1>0. /\ r \in Slots /\ r # Sweeper /\ slot[r] \in SlotStates /\ SlotInv(r)
      /\ slot \in [Slots -> SlotStates] /\ Idle \in SlotStates /\ Idle.pc = "idle"
      /\ txs \in [Txs -> Transactions]
  BY SlotAssumption DEF Slots, CacheInv, CacheTyped, Idle, SlotStates, NothingSeen, Snapshots
\* Giving up.
<1>1. ASSUME slot' = [slot EXCEPT ![r] = Idle], UNCHANGED <<gifts, row, txs, settledBy, listed>>
      PROVE  CacheInv'
  <2>1. slot'[r] = Idle
    BY <1>0, <1>1
  <2>2. SlotInv(r)'
    BY <1>0, <2>1 DEF SlotInv
  <2>3. QED
    BY <1>0, <1>1, <2>2, SlotMoved
\* Going on with the same transaction.
<1>2. ASSUME NEW p \in {"poll", "hash", "read"}, slot' = [slot EXCEPT ![r].pc = p],
             UNCHANGED <<gifts, row, txs, settledBy, listed>>, slot[r].pc # "idle",
             p # "poll" => txs[slot[r].tx].state = "landed", p = "hash" => SettlesGift(slot[r].tx)
      PROVE  CacheInv'
  <2> DEFINE h == [slot[r] EXCEPT !.pc = p]
  <2>1. h \in SlotStates /\ h.pc = p /\ h.tx = slot[r].tx /\ slot' = [slot EXCEPT ![r] = h]
    BY <1>0, <1>2 DEF SlotStates
  <2> HIDE DEF h
  <2>2. slot'[r] = h /\ slot[r].tx \in Txs
    BY <1>0, <1>2, <2>1 DEF SlotInv
  <2>3. SlotInv(r)'
    BY <1>0, <1>2, <2>1, <2>2 DEF SlotInv, SettlesGift
  <2>4. QED
    BY <1>0, <1>2, <2>1, <2>3, SlotMoved
<1>3. ASSUME NEW t \in Txs, SubmitLoad(r, t) PROVE CacheInv'
  <2> DEFINE h == [[Idle EXCEPT !.pc = "send"] EXCEPT !.tx = t]
  <2>1. h \in SlotStates /\ h.pc = "send" /\ h.tx = t
    BY DEF Idle, SlotStates, NothingSeen, Snapshots
  <2>2. slot' = [slot EXCEPT ![r] = h] /\ UNCHANGED <<gifts, row, txs, settledBy, listed>>
    BY <1>3 DEF SubmitLoad, chain, Idle
  <2> HIDE DEF h
  <2>3. slot'[r] = h
    BY <1>0, <2>2
  <2>4. SlotInv(r)'
    BY <1>0, <2>1, <2>3 DEF SlotInv
  <2>5. QED
    BY <1>0, <2>1, <2>2, <2>4, SlotMoved
<1>4. CASE Send(r)
  <2> DEFINE t == slot[r].tx
  <2>1. t \in Txs
    BY <1>0, <1>4 DEF Send, SlotInv
  <2>2. /\ UNCHANGED <<gifts, row, settledBy, listed>>
        /\ slot' = [slot EXCEPT ![r].pc = "poll"] /\ slot[r].pc = "send" /\ txs' = Sent(t)
    BY <1>4 DEF Send, AfterSend, chain
  \* The transaction first, then the slot.
  <2>3. CASE txs[t].state # "signed"
    <3>1. txs' = txs
      BY <1>0, <2>1, <2>2, <2>3 DEF Sent, Transactions
    <3>2. QED
      BY <2>2, <3>1, <1>2
  <2>4. CASE txs[t].state = "signed"
    <3> DEFINE h == [slot[r] EXCEPT !.pc = "poll"]
    <3>1. /\ txs' \in [Txs -> Transactions]
          /\ \A u \in Txs : txs'[u].op = txs[u].op
          /\ \A u \in Txs : txs[u].state = "landed" => txs'[u].state = "landed"
          /\ \A u \in Txs : txs'[u].state = "landed" => txs[u].state = "landed"
      BY <1>0, <2>1, <2>2, <2>4 DEF Sent, Transactions
    <3>2. /\ h \in SlotStates /\ h.pc = "poll" /\ h.tx = t /\ slot' = [slot EXCEPT ![r] = h]
      BY <1>0, <2>2 DEF SlotStates
    <3> HIDE DEF h
    <3>3. /\ slot' \in [Slots -> SlotStates] /\ slot'[r] = h
          /\ \A q \in Slots \ {r} : slot'[q] = slot[q]
      BY <1>0, <3>2
    <3>4. ASSUME NEW u \in Txs PROVE SettledAs(u)'
      BY <2>2, <3>1 DEF CacheInv, SettledAs, Gift
    <3>5. ASSUME NEW q \in Slots PROVE SlotInv(q)'
      <4>1. CASE q = r
        BY <4>1, <1>0, <2>1, <3>2, <3>3 DEF SlotInv
      <4>2. CASE q # r
        <5>1. SlotInv(q) /\ slot'[q] = slot[q]
          BY <4>2, <3>3 DEF CacheInv
        <5>2. slot[q].pc = "hash" => slot[q].tx \in Txs
          BY <5>1 DEF SlotInv
        <5>3. QED
          BY <5>1, <5>2, <2>2, <3>1 DEF SlotInv, SettlesGift, Gift
      <4>3. QED
        BY <4>1, <4>2
    <3>6. settledBy # NoTx => settledBy \in Txs /\ txs'[settledBy].state = "landed" /\ SettlesGift(settledBy)'
      BY <2>2, <3>1 DEF CacheInv, SettlesGift
    <3>7. ListedHasLanded'
      BY <2>2, <3>1 DEF CacheInv, ListedHasLanded
    <3>8. CacheTyped' /\ Within(row', Gift')
      BY <2>2, <3>1, <3>3 DEF CacheInv, CacheTyped, GiftTyped, Gift
    <3>9. QED
      BY <2>2, <3>4, <3>5, <3>6, <3>7, <3>8 DEF CacheInv
  <2>5. QED
    BY <2>3, <2>4
<1>5. CASE PollSucceeds(r)
  <2>1. UNCHANGED <<gifts, row, txs, settledBy, listed>> /\ slot[r].pc = "poll"
    BY <1>5 DEF PollSucceeds, chain
  <2>2. txs[slot[r].tx].state = "landed"
    BY <1>5 DEF PollSucceeds, Succeeded
  <2>3. \E p \in {"hash", "read"} : slot' = [slot EXCEPT ![r].pc = p] /\ (p = "hash" => SettlesGift(slot[r].tx))
    BY <1>5 DEF PollSucceeds
  <2>4. QED
    BY <2>1, <2>2, <2>3, <1>2
<1>6. CASE PollGivesUp(r)
  BY <1>6, <1>1 DEF PollGivesUp, chain
<1>7. CASE SaveHash(r)
  <2> DEFINE h == [slot[r] EXCEPT !.pc = "read"]
  <2>1. /\ UNCHANGED <<gifts, row, txs, listed>> /\ settledBy' = slot[r].tx
        /\ slot[r].pc = "hash" /\ slot' = [slot EXCEPT ![r] = h]
    BY <1>7, <1>0 DEF SaveHash, chain
  <2>2. h \in SlotStates /\ h.pc = "read" /\ h.tx = slot[r].tx
    BY <1>0 DEF SlotStates
  <2> HIDE DEF h
  <2>3. slot[r].tx \in Txs /\ txs[slot[r].tx].state = "landed" /\ SettlesGift(slot[r].tx)
    BY <1>0, <2>1 DEF SlotInv
  <2>4. /\ slot' \in [Slots -> SlotStates] /\ slot'[r] = h
        /\ \A q \in Slots \ {r} : slot'[q] = slot[q]
    BY <1>0, <2>1, <2>2
  <2>5. ASSUME NEW q \in Slots PROVE SlotInv(q)'
    <3>1. CASE q = r
      BY <3>1, <1>0, <2>1, <2>2, <2>3, <2>4 DEF SlotInv
    <3>2. CASE q # r
      BY <3>2, <2>1, <2>4 DEF CacheInv, SlotInv, SettlesGift, Gift
    <3>3. QED
      BY <3>1, <3>2
  <2>6. (settledBy \in Txs /\ txs[settledBy].state = "landed" /\ SettlesGift(settledBy))'
    BY <2>1, <2>3 DEF SettlesGift
  <2>7. \A t \in Txs : SettledAs(t)'
    BY <2>1 DEF CacheInv, SettledAs, Gift
  <2>8. QED
    BY <2>1, <2>4, <2>5, <2>6, <2>7 DEF CacheInv, CacheTyped, GiftTyped, Gift, ListedHasLanded
<1>8. CASE Push(r)
  <2> DEFINE t == slot[r].tx
  <2>1. /\ UNCHANGED <<gifts, row, txs, settledBy>> /\ slot[r].pc = "push"
        /\ slot' = [slot EXCEPT ![r] = Idle] /\ listed' = [listed EXCEPT ![t] = @ + 1]
    BY <1>8 DEF Push, chain
  <2>2. t \in Txs /\ txs[t].state = "landed"
    BY <1>0, <2>1 DEF SlotInv
  <2>3. /\ listed' \in [Txs -> Nat] /\ ListedHasLanded'
    BY <2>1, <2>2 DEF CacheInv, CacheTyped, ListedHasLanded
  <2>4. /\ slot' \in [Slots -> SlotStates] /\ slot'[r] = Idle
        /\ \A q \in Slots \ {r} : slot'[q] = slot[q]
    BY <1>0, <2>1
  <2>5. ASSUME NEW q \in Slots PROVE SlotInv(q)'
    <3>1. CASE q = r
      BY <3>1, <1>0, <2>4 DEF SlotInv
    <3>2. CASE q # r
      BY <3>2, <2>1, <2>4 DEF CacheInv, SlotInv, SettlesGift, Gift
    <3>3. QED
      BY <3>1, <3>2
  <2>6. \A u \in Txs : SettledAs(u)'
    BY <2>1 DEF CacheInv, SettledAs, Gift
  <2>7. QED
    BY <2>1, <2>3, <2>4, <2>5, <2>6 DEF CacheInv, CacheTyped, GiftTyped, Gift, SettlesGift
<1>9. QED
  BY <1>3, <1>4, <1>5, <1>6, <1>7, <1>8 DEF Serve

\* reconcileGift reads what is so, and writes what was.
LEMMA ReconcileKeeps ==
  ASSUME CacheInv, NEW s \in Slots, ReconcileRead(s) \/ ReconcileWrite(s) \/ CallThrows(s)
  PROVE  CacheInv'
<1>0. /\ slot[s] \in SlotStates /\ SlotInv(s) /\ slot \in [Slots -> SlotStates]
      /\ Idle \in SlotStates /\ Idle.pc = "idle" /\ Gift \in GiftRecords
  BY DEF CacheInv, CacheTyped, GiftTyped, Gift, Idle, SlotStates, NothingSeen, Snapshots
<1>1. CASE ReconcileRead(s)
  <2> DEFINE h == [[slot[s] EXCEPT !.pc = "write"] EXCEPT !.saw = OnChain]
  <2>1. OnChain \in Snapshots /\ Within(OnChain, Gift)
    BY <1>0 DEF OnChain, Snapshots, mapContractStatus, Within, GiftRecords, GiftStatus
  <2>2. OnChain.status = (IF Gift.status = "Open" THEN "active" ELSE IF Gift.status = "Claimed" THEN "claimed" ELSE "refunded")
    BY DEF OnChain, mapContractStatus
  <2>3. h \in SlotStates /\ h.pc = "write" /\ h.tx = slot[s].tx /\ h.saw = OnChain
    BY <1>0, <2>1 DEF SlotStates
  <2>4. slot' = [slot EXCEPT ![s] = h] /\ UNCHANGED <<gifts, row, txs, settledBy, listed>> /\ slot[s].pc = "read"
    BY <1>1, <1>0 DEF ReconcileRead, chain
  <2> HIDE DEF h
  <2>5. slot'[s] = h /\ Gift' = Gift
    BY <1>0, <2>4 DEF Gift
  <2>6. s # Sweeper => /\ slot[s].tx \in Txs /\ txs[slot[s].tx].state = "landed"
                       /\ SettledAs(slot[s].tx)
    BY <1>0, <2>4 DEF SlotInv, CacheInv
  <2>7. s # Sweeper => /\ txs[slot[s].tx].op = "claim" => OnChain.status = "claimed"
                       /\ txs[slot[s].tx].op = "refund" => OnChain.status = "refunded"
    BY <2>2, <2>6 DEF SettledAs
  <2> HIDE DEF OnChain
  <2>8. SlotInv(s)'
    BY <2>1, <2>3, <2>4, <2>5, <2>6, <2>7 DEF SlotInv
  <2>9. QED
    BY <2>3, <2>4, <2>8, SlotMoved
<1>2. CASE ReconcileWrite(s)
  <2> DEFINE h == IF Lists(s) THEN [slot[s] EXCEPT !.pc = "push"] ELSE Idle
  <2>1. /\ row' = slot[s].saw /\ slot[s].pc = "write" /\ slot' = [slot EXCEPT ![s] = h]
        /\ UNCHANGED <<gifts, txs, settledBy, listed>>
    BY <1>2, <1>0 DEF ReconcileWrite, chain
  <2>2. /\ h \in SlotStates /\ (h.pc = "idle" \/ (h.pc = "push" /\ h.tx = slot[s].tx /\ s # Sweeper))
    BY <1>0 DEF SlotStates, Lists
  <2> HIDE DEF h
  <2>3. /\ slot' \in [Slots -> SlotStates] /\ slot'[s] = h
        /\ \A q \in Slots \ {s} : slot'[q] = slot[q]
    BY <1>0, <2>1, <2>2
  <2>4. Within(row', Gift') /\ row' \in [status : RowStatuses, amount : Nat, steps : Nat]
    BY <1>0, <2>1 DEF SlotInv, SlotStates, Snapshots, RowStatuses, Gift
  <2>5. ASSUME NEW q \in Slots PROVE SlotInv(q)'
    <3>1. CASE q = s
      BY <3>1, <1>0, <2>1, <2>2, <2>3 DEF SlotInv
    <3>2. CASE q # s
      BY <3>2, <2>1, <2>3 DEF CacheInv, SlotInv, SettlesGift, Gift
    <3>3. QED
      BY <3>1, <3>2
  <2>6. \A u \in Txs : SettledAs(u)'
    BY <2>1 DEF CacheInv, SettledAs, Gift
  <2>7. QED
    BY <2>1, <2>3, <2>4, <2>5, <2>6 DEF CacheInv, CacheTyped, GiftTyped, Gift, SettlesGift, ListedHasLanded
<1>3. CASE CallThrows(s)
  <2>1. slot' = [slot EXCEPT ![s] = Idle] /\ UNCHANGED <<gifts, row, txs, settledBy, listed>>
    BY <1>3 DEF CallThrows, chain
  <2>2. slot'[s] = Idle
    BY <1>0, <2>1
  <2>3. SlotInv(s)'
    BY <1>0, <2>2 DEF SlotInv
  <2>4. QED
    BY <1>0, <2>1, <2>3, SlotMoved
<1>4. QED
  BY <1>1, <1>2, <1>3

\* The refund sweep offers a reclaim, which says nothing of what is settled.
LEMMA SweepsKeep ==
  ASSUME CacheInv, ReconciliationSweep \/ FindExpired \/ markRefundPending
  PROVE  CacheInv'
<1>1. CASE ReconciliationSweep
  <2> DEFINE h == [slot[Sweeper] EXCEPT !.pc = "read"]
  <2>1. Sweeper \in Slots /\ slot[Sweeper] \in SlotStates /\ slot \in [Slots -> SlotStates]
    BY DEF Slots, CacheInv, CacheTyped
  <2>2. h \in SlotStates /\ h.pc = "read"
    BY <2>1 DEF SlotStates
  <2>3. slot' = [slot EXCEPT ![Sweeper] = h] /\ UNCHANGED <<gifts, row, txs, settledBy, listed>>
    BY <1>1, <2>1 DEF ReconciliationSweep, chain
  <2> HIDE DEF h
  <2>4. slot'[Sweeper] = h
    BY <2>1, <2>3
  <2>5. SlotInv(Sweeper)'
    BY <2>2, <2>4 DEF SlotInv
  <2>6. QED
    BY <2>1, <2>2, <2>3, <2>5, SlotMoved
<1>2. ASSUME UNCHANGED <<gifts, txs, settledBy, listed, slot>>,
             row' = row \/ row' = [row EXCEPT !.status = "refund_pending"]
      PROVE  CacheInv'
  <2>1. Within(row', Gift') /\ row' \in [status : RowStatuses, amount : Nat, steps : Nat]
    BY <1>2 DEF CacheInv, CacheTyped, Within, RowStatuses, Gift
  <2>2. \A q \in Slots : SlotInv(q)'
    BY <1>2 DEF CacheInv, SlotInv, SettlesGift, Gift
  <2>3. \A u \in Txs : SettledAs(u)'
    BY <1>2 DEF CacheInv, SettledAs, Gift
  <2>4. QED
    BY <1>2, <2>1, <2>2, <2>3 DEF CacheInv, CacheTyped, GiftTyped, Gift, SettlesGift, ListedHasLanded
<1>3. QED
  BY <1>1, <1>2 DEF FindExpired, markRefundPending, chain

\* The network.
LEMMA NetworkKeeps ==
  ASSUME CacheInv, NEW t \in Txs, SendDirectly(t) \/ Land(t) \/ Fail(t)
  PROVE  CacheInv'
<1>0. /\ txs \in [Txs -> Transactions] /\ txs[t] \in Transactions /\ GiftTyped
      /\ Gift.total_amount \in Nat /\ Gift.steps_completed \in Nat
      /\ UNCHANGED <<row, settledBy, listed, slot>>
  BY DEF CacheInv, CacheTyped, GiftTyped, Gift, GiftRecords, SendDirectly, Land, Fail, backend
<1>1. CASE Land(t)
  <2>1. txs' = [txs EXCEPT ![t].state = "landed"] /\ txs[t].state # "landed" /\ Invocation(txs[t].op)
    BY <1>1 DEF Land
  <2>2. txs[t].op \in Ops /\ txs'[t].op = txs[t].op
    BY <1>0, <2>1 DEF Transactions
  <2>3. GiftTyped' /\ Grew(Gift, Gift') /\ SettledAs(t)'
    <3>1. /\ GiftTyped' /\ Grew(Gift, Gift')
          /\ txs[t].op = "claim" => Gift'.status = "Claimed"
          /\ txs[t].op = "refund" => Gift'.status = "Refunded"
      BY <1>0, <2>1, <2>2, InvocationGrows
    <3>2. QED
      BY <2>2, <3>1 DEF SettledAs
  <2>4. QED
    BY <1>0, <2>1, <2>3, ChainMoved
<1>2. ASSUME NEW st \in {"pending", "failed"}, txs' = [txs EXCEPT ![t].state = st],
             txs[t].state # "landed", gifts' = gifts
      PROVE  CacheInv'
  <2>1. GiftTyped' /\ Grew(Gift, Gift')
    BY <1>0, <1>2 DEF GiftTyped, Grew, Gift
  <2>2. SettledAs(t)'
    BY <1>0, <1>2 DEF SettledAs, Transactions
  <2>3. QED
    BY <1>0, <1>2, <2>1, <2>2, ChainMoved
<1>3. CASE SendDirectly(t) \/ Fail(t)
  <2>1. txs[t].state # "landed" /\ gifts' = gifts
    BY <1>3 DEF SendDirectly, Fail, chain
  <2>2. \E st \in {"pending", "failed"} : txs' = [txs EXCEPT ![t].state = st]
    BY <1>3, <1>0 DEF SendDirectly, Fail, Sent
  <2>3. QED
    BY <2>1, <2>2, <1>2
<1>4. QED
  BY <1>1, <1>3

\* All of it, from the first state on.
THEOREM CacheHolds == CacheSpec => []CacheInv
<1>1. CacheInit => CacheInv
  <2> SUFFICES ASSUME CacheInit PROVE CacheInv
    OBVIOUS
  <2>1. GiftTyped /\ Gift.status = "Open" /\ Gift.total_amount = 1 /\ Gift.steps_completed = 0
    <3>1. PICK tok \in Tokens, c \in ClaimConditions :
             gifts = [i \in 1..1 |->
               [sender |-> Sender, receiver |-> Receiver, token |-> tok, total_amount |-> 1,
                contributions |-> [u \in Users |-> IF u = Sender THEN 1 ELSE 0],
                expires_at |-> 1, status |-> "Open", condition |-> c,
                steps_completed |-> 0, step_unlocker |-> Sender]]
      BY DEF CacheInit
    <3>2. DOMAIN gifts = {1}
      BY <3>1
    <3>3. gifts[1] = [sender |-> Sender, receiver |-> Receiver, token |-> tok, total_amount |-> 1,
                contributions |-> [u \in Users |-> IF u = Sender THEN 1 ELSE 0],
                expires_at |-> 1, status |-> "Open", condition |-> c,
                steps_completed |-> 0, step_unlocker |-> Sender]
      BY <3>1
    <3>4. [u \in Users |-> IF u = Sender THEN 1 ELSE 0] \in ContributionMaps
      BY DEF ContributionMaps
    <3>5. gifts[1] \in GiftRecords
      BY <3>3, <3>4, PartiesAssumption DEF GiftRecords, GiftStatus
    <3>6. QED
      BY <3>2, <3>3, <3>5 DEF GiftTyped, Gift
  <2>2. slot \in [Slots -> SlotStates] /\ \A s \in Slots : slot[s].pc = "idle"
    BY DEF CacheInit, Idle, SlotStates, NothingSeen, Snapshots
  <2>3. txs \in [Txs -> Transactions] /\ \A t \in Txs : txs[t].state = "signed"
    BY DEF CacheInit, Transactions
  <2>4. Within(row, Gift) /\ row \in [status : RowStatuses, amount : Nat, steps : Nat]
    BY <2>1 DEF CacheInit, Within, RowStatuses
  <2>5. listed \in [Txs -> Nat] /\ ListedHasLanded
    BY DEF CacheInit, ListedHasLanded
  <2>6. QED
    BY <2>1, <2>2, <2>3, <2>4, <2>5 DEF CacheInit, CacheInv, CacheTyped, SettledAs, SlotInv
<1>2. CacheInv /\ [CacheNext]_cacheVars => CacheInv'
  <2> SUFFICES ASSUME CacheInv, [CacheNext]_cacheVars PROVE CacheInv'
    OBVIOUS
  <2>1. ASSUME UNCHANGED <<gifts, row, txs, settledBy, listed, slot>> PROVE CacheInv'
    BY <2>1 DEF CacheInv, CacheTyped, GiftTyped, Gift, SettledAs, SlotInv, SettlesGift, ListedHasLanded
  <2>2. ASSUME ProcessExits PROVE CacheInv'
    <3>1. UNCHANGED <<gifts, row, txs, settledBy, listed>> /\ slot' = [s \in Slots |-> Idle]
      BY <2>2 DEF ProcessExits, chain
    <3>2. slot' \in [Slots -> SlotStates] /\ \A s \in Slots : slot'[s].pc = "idle"
      BY <3>1 DEF Idle, SlotStates, NothingSeen, Snapshots
    <3>3. \A u \in Txs : SettledAs(u)'
      BY <3>1 DEF CacheInv, SettledAs, Gift
    <3>4. QED
      BY <3>1, <3>2, <3>3 DEF CacheInv, CacheTyped, GiftTyped, Gift, SlotInv, SettlesGift, ListedHasLanded
  <2>3. CASE WallTick \/ LedgerCloses \/ UNCHANGED cacheVars
    BY <2>3, <2>1 DEF WallTick, LedgerCloses, Tick, chain, backend, cacheVars
  <2>4. QED
    BY <2>2, <2>3, ServeKeeps, ReconcileKeeps, SweepsKeep, NetworkKeeps DEF CacheNext
<1>3. QED
  BY <1>1, <1>2, PTL DEF CacheSpec

\* The row never runs ahead of the contract, whichever stale snapshots are
\* written in whatever order.
THEOREM RowNeverAhead == CacheSpec => []CacheNeverAhead
<1>1. CacheInv => CacheNeverAhead
  BY DEF CacheInv, Within, SettledAs, SettlesGift, CacheNeverAhead
<1>2. QED
  BY <1>1, CacheHolds, PTL

\* The answer to a submitted claim or refund says what it did.
THEOREM ToldOwnOutcome == CacheSpec => []ReadsOwnWrite
<1>1. CacheInv => ReadsOwnWrite
  BY SlotAssumption DEF CacheInv, SlotInv, Slots, ReadsOwnWrite
<1>2. QED
  BY <1>1, CacheHolds, PTL

\* Only transactions that landed have their hash in the contributions list.
THEOREM OnlyLandedListed == CacheSpec => []ListedHasLanded
<1>1. CacheInv => ListedHasLanded
  BY DEF CacheInv
<1>2. QED
  BY <1>1, CacheHolds, PTL

-----------------------------------------------------------------------------
(* The contract behind the row, and the rest of the types *)

\* Whatever the backend, the wallets and the network do is to the contract one
\* of its own invocations, a tick of its clock, or nothing.
LEMMA StepsAreContract ==
  ASSUME CacheInv, [CacheNext]_cacheVars
  PROVE  [Next]_vars
<1>0. 1 \in DOMAIN gifts /\ Gift \in GiftRecords
  BY DEF CacheInv, CacheTyped, GiftTyped, Gift
<1>1. ASSUME NEW op \in Ops, Invocation(op) PROVE Next
  <2>1. CASE op = "contribute"
    BY <1>0, <1>1, <2>1 DEF Invocation, Next
  <2>2. CASE op = "unlock_step"
    <3>1. Gift.step_unlocker \in Users /\ UnlockStep(Gift.step_unlocker, 1)
      BY <1>0, <1>1, <2>2 DEF Invocation, GiftRecords
    <3>2. QED
      BY <1>0, <3>1 DEF Next
  <2>3. CASE op = "claim"
    <3>1. Gift.receiver \in Users /\ Claim(1, Gift.receiver, Gift.condition.answer)
      BY <1>0, <1>1, <2>3 DEF Invocation, GiftRecords
    <3>2. Gift.condition.answer \in Answers \cup {NoAnswer}
      <4>1. Gift.condition \in ClaimConditions
        BY <1>0 DEF GiftRecords
      <4>2. QED
        BY <4>1 DEF ClaimConditions
    <3>3. QED
      BY <1>0, <3>1, <3>2 DEF Next
  <2>4. CASE op = "refund"
    BY <1>0, <1>1, <2>4 DEF Invocation, Next
  <2>5. QED
    BY <2>1, <2>2, <2>3, <2>4 DEF Ops
<1>2. ASSUME NEW t \in Txs, Land(t) PROVE Next
  <2>1. txs[t].op \in Ops
    BY DEF CacheInv, CacheTyped, Transactions
  <2>2. QED
    BY <1>1, <1>2, <2>1 DEF Land
<1>3. ASSUME NEW t \in Txs, SendDirectly(t) \/ Fail(t) PROVE UNCHANGED vars
  BY <1>3 DEF SendDirectly, Fail, chain, vars
<1>4. ASSUME NEW r \in Requests, Serve(r) \/ \E t \in Txs : SubmitLoad(r, t) PROVE UNCHANGED vars
  BY <1>4 DEF Serve, Send, PollSucceeds, PollGivesUp, SaveHash, Push, SubmitLoad, chain, vars
<1>5. ASSUME NEW s \in Slots, ReconcileRead(s) \/ ReconcileWrite(s) \/ CallThrows(s)
      PROVE  UNCHANGED vars
  BY <1>5 DEF ReconcileRead, ReconcileWrite, CallThrows, chain, vars
<1>6. ASSUME ReconciliationSweep \/ FindExpired \/ markRefundPending \/ WallTick \/ ProcessExits
             \/ UNCHANGED cacheVars
      PROVE  UNCHANGED vars
  BY <1>6 DEF ReconciliationSweep, FindExpired, markRefundPending, WallTick, ProcessExits,
              cacheVars, chain, vars
<1>7. CASE LedgerCloses
  BY <1>7 DEF LedgerCloses, Next
<1>8. QED
  BY <1>2, <1>3, <1>4, <1>5, <1>6, <1>7 DEF CacheNext

\* The gift there is at first is one its sender has paid for.
LEMMA CreatedSound ==
  ASSUME CacheInit
  PROVE  TypeOK /\ GateInv /\ FundedInFull /\ Solvency
<1>1. PICK tok \in Tokens, c \in ClaimConditions :
        /\ gifts = [i \in 1..1 |-> FreshGift(Sender, Receiver, tok, 1, 1, c, Sender)]
        /\ balance = [t \in Tokens |->
             [a \in Accounts |->
                (IF a = Escrow THEN 0 ELSE InitialBalance)
                + (IF t # tok THEN 0 ELSE IF a = Escrow THEN 1 ELSE IF a = Sender THEN -1 ELSE 0)]]
  BY DEF CacheInit, FreshGift
<1> DEFINE g == FreshGift(Sender, Receiver, tok, 1, 1, c, Sender)
<1>2. g \in GiftRecords
  BY PartiesAssumption, FreshHeld
<1>3. g.steps_completed = 0 /\ g.status = "Open" /\ g.condition = c /\ g.token = tok
      /\ g.total_amount = 1 /\ g.contributions = [u \in Users |-> IF u = Sender THEN 1 ELSE 0]
  BY DEF FreshGift
<1> HIDE DEF g
<1>4. gifts = [i \in {1} |-> g] /\ DOMAIN gifts = {1} /\ gifts[1] = g /\ giftCounter = 1
  BY <1>1 DEF CacheInit, g
<1>5. TypeOK
  <2>1. balance \in [Tokens -> [Accounts -> Nat]]
    BY <1>1, AddressAssumption, PartiesAssumption, BoundAssumption, CreatedAssumption DEF Accounts
  <2>2. giftCounter \in 0..MaxGifts /\ gifts \in [1..giftCounter -> GiftRecords]
    BY <1>2, <1>4, BoundAssumption, CreatedAssumption
  <2>3. now \in 0..MaxTime /\ trusts \in SUBSET (Users \X Tokens)
    BY BoundAssumption DEF CacheInit
  <2>4. QED
    BY <2>1, <2>2, <2>3 DEF TypeOK
<1>6. GateInv
  <2>1. c.steps \in Nat
    BY ConditionSteps
  <2>2. QED
    BY <1>3, <1>4, <2>1, GateInvPerGift DEF GateOK
<1>7. FundedInFull
  <2>1. Owed(g) = 1
    BY <1>3, PartiesAssumption, OwedFresh DEF Owed
  <2>2. QED
    BY <1>3, <1>4, <2>1 DEF FundedInFull
<1>8. Solvency
  <2> SUFFICES ASSUME NEW t \in Tokens PROVE balance[t][Escrow] = Total(Held(gifts, t))
    BY DEF Solvency, OpenGifts, Held
  <2>1. balance[t][Escrow] = IF t = tok THEN 1 ELSE 0
    BY <1>1, AddressAssumption, PartiesAssumption DEF Accounts
  <2> DEFINE h == Held(gifts, t)
  <2>2. CASE t = tok
    <3>1. h \in [{1} -> Int] /\ h[1] = 1 /\ IsFiniteSet({1})
      <4>1. {i \in DOMAIN gifts : gifts[i].status = "Open" /\ gifts[i].token = t} = {1}
        BY <1>3, <1>4, <2>2
      <4>2. h = [i \in {1} |-> gifts[i].total_amount]
        BY <4>1 DEF Held
      <4> HIDE DEF h
      <4>3. h \in [{1} -> Int] /\ h[1] = 1
        BY <1>3, <1>4, <4>2
      <4>4. QED
        BY <4>3, FS_Singleton
    <3>2. Total([y \in {1} \ {1} |-> h[y]]) = 0
      BY TotalEmpty
    <3> HIDE DEF h
    <3>3. Total(h) = h[1] + Total([y \in {1} \ {1} |-> h[y]])
      BY <3>1, TotalSplit
    <3>4. Total(h) = 1
      BY <3>1, <3>2, <3>3
    <3>5. QED
      BY <2>1, <2>2, <3>4 DEF h
  <2>3. CASE t # tok
    <3>1. DOMAIN h = {}
      BY <1>3, <1>4, <2>3 DEF Held
    <3>2. Total(h) = 0
      BY <3>1, TotalEmpty
    <3>3. QED
      BY <2>1, <2>3, <3>2
  <2>4. QED
    BY <2>2, <2>3
<1>9. QED
  BY <1>5, <1>6, <1>7, <1>8

\* The contract keeps everything proved of it alone when it is reached through
\* the backend: each of its steps here is one of its own.
THEOREM ChainKeepsPromises ==
  CacheSpec => [](TypeOK /\ StepsWithinGate /\ ClaimedThroughGate /\ FundedInFull /\ Solvency)
<1>1. CacheInit => TypeOK /\ GateInv /\ FundedInFull /\ Solvency
  BY CreatedSound
<1>2. TypeOK /\ GateInv /\ FundedInFull /\ Solvency /\ CacheInv /\ [CacheNext]_cacheVars
        => (TypeOK /\ GateInv /\ FundedInFull /\ Solvency)'
  BY StepsAreContract, StepTyped, StepGated, StepFunded, StepSolvent
<1>3. QED
  BY <1>1, <1>2, CacheHolds, PTL DEF CacheSpec, GateInv

\* Requests that are being served: each is one of those begun, and lists a
\* transaction at most once, when it ends.
Busy == {r \in Requests : slot[r].pc # "idle"}

RestTyped ==
  /\ expired \in BOOLEAN
  /\ wall \in now..MaxTime
  /\ served \in 0..MaxRequests
  /\ faults \in 0..MaxFaults
  /\ \A t \in Txs : listed[t] + Cardinality(Busy) <= served

\* Only so many slots are there to be busy.
LEMMA BusyFinite == IsFiniteSet(Busy) /\ Cardinality(Busy) \in Nat
BY SlotAssumption, FS_Subset, FS_CardinalityType DEF Busy

\* Requests begin by being served and end by listing; nothing else adds to either.
LEMMA ListedWithinServed ==
  ASSUME CacheInv, RestTyped, [CacheNext]_cacheVars
  PROVE  \A t \in Txs : listed'[t] + Cardinality(Busy') <= served'
<1>0. /\ IsFiniteSet(Busy) /\ Cardinality(Busy) \in Nat /\ served \in Nat
      /\ \A t \in Txs : listed[t] \in Nat /\ listed[t] + Cardinality(Busy) <= served
      /\ slot \in [Slots -> SlotStates] /\ Requests \subseteq Slots /\ Idle.pc = "idle"
      /\ Sweeper \notin Requests /\ listed \in [Txs -> Nat]
  BY BusyFinite, SlotAssumption, CacheBounds DEF CacheInv, CacheTyped, RestTyped, Slots, Idle
<1>1. ASSUME UNCHANGED <<listed, served>>, Busy' \subseteq Busy
      PROVE  \A t \in Txs : listed'[t] + Cardinality(Busy') <= served'
  <2>1. Cardinality(Busy') <= Cardinality(Busy) /\ Cardinality(Busy') \in Nat
    BY <1>0, <1>1, FS_Subset, FS_CardinalityType
  <2>2. QED
    BY <1>0, <1>1, <2>1
\* One slot moved: a busy one, or the sweeper's.
<1>2. ASSUME UNCHANGED <<listed, served>>, NEW s \in Slots, NEW h,
             slot' = [slot EXCEPT ![s] = h],
             slot[s].pc # "idle" \/ s = Sweeper
      PROVE  \A t \in Txs : listed'[t] + Cardinality(Busy') <= served'
  <2>1. Busy' \subseteq Busy
    BY <1>0, <1>2 DEF Busy
  <2>2. QED
    BY <1>1, <1>2, <2>1
<1>3. ASSUME NEW r \in Requests, NEW t \in Txs, SubmitLoad(r, t)
      PROVE  \A u \in Txs : listed'[u] + Cardinality(Busy') <= served'
  <2>1. served' = served + 1 /\ listed' = listed
    BY <1>3 DEF SubmitLoad
  <2>2. Busy' \subseteq Busy \cup {r}
    BY <1>0, <1>3 DEF SubmitLoad, Busy
  <2>3. /\ IsFiniteSet(Busy \cup {r}) /\ Cardinality(Busy \cup {r}) \in Nat
        /\ Cardinality(Busy \cup {r}) <= Cardinality(Busy) + 1
    <3>1. /\ IsFiniteSet(Busy \cup {r})
          /\ r \in Busy => Cardinality(Busy \cup {r}) = Cardinality(Busy)
          /\ r \notin Busy => Cardinality(Busy \cup {r}) = Cardinality(Busy) + 1
      BY <1>0, FS_AddElement
    <3>2. QED
      BY <1>0, <3>1
  <2>4. Cardinality(Busy') <= Cardinality(Busy \cup {r}) /\ Cardinality(Busy') \in Nat
    BY <2>2, <2>3, FS_Subset, FS_CardinalityType
  <2>5. QED
    BY <1>0, <2>1, <2>3, <2>4
<1>4. ASSUME NEW r \in Requests, Push(r)
      PROVE  \A u \in Txs : listed'[u] + Cardinality(Busy') <= served'
  <2>1. /\ served' = served /\ slot[r].pc = "push" /\ slot' = [slot EXCEPT ![r] = Idle]
        /\ listed' = [listed EXCEPT ![slot[r].tx] = @ + 1]
    BY <1>4 DEF Push
  <2>2. r \in Busy /\ Busy' = Busy \ {r}
    BY <1>0, <2>1 DEF Busy
  <2>3. Cardinality(Busy') = Cardinality(Busy) - 1
    BY <1>0, <2>2, FS_RemoveElement
  <2>4. \A u \in Txs : listed'[u] \in Nat /\ listed'[u] <= listed[u] + 1
    BY <1>0, <2>1
  <2>5. QED
    BY <1>0, <2>1, <2>3, <2>4
<1>5. ASSUME NEW r \in Requests, Send(r) \/ PollSucceeds(r) \/ PollGivesUp(r) \/ SaveHash(r)
      PROVE  \A t \in Txs : listed'[t] + Cardinality(Busy') <= served'
  <2>1. /\ UNCHANGED <<listed, served>> /\ slot[r].pc # "idle" /\ r \in Slots
        /\ \E h : slot' = [slot EXCEPT ![r] = h]
    BY <1>0, <1>5 DEF Send, PollSucceeds, PollGivesUp, SaveHash
  <2>2. QED
    BY <2>1, <1>2
<1>6. ASSUME NEW s \in Slots, ReconcileRead(s) \/ ReconcileWrite(s) \/ CallThrows(s)
      PROVE  \A t \in Txs : listed'[t] + Cardinality(Busy') <= served'
  <2>1. UNCHANGED <<listed, served>> /\ slot[s].pc # "idle"
    BY <1>6 DEF ReconcileRead, ReconcileWrite, CallThrows
  <2>2. \E h : slot' = [slot EXCEPT ![s] = h]
    <3>1. CASE ReconcileRead(s)
      BY <1>0, <3>1 DEF ReconcileRead
    <3>2. CASE ReconcileWrite(s)
      BY <3>2 DEF ReconcileWrite
    <3>3. CASE CallThrows(s)
      BY <3>3 DEF CallThrows
    <3>4. QED
      BY <1>6, <3>1, <3>2, <3>3
  <2>3. QED
    BY <2>1, <2>2, <1>2
<1>7. CASE ReconciliationSweep
  <2>1. UNCHANGED <<listed, served>> /\ Sweeper \in Slots /\ \E h : slot' = [slot EXCEPT ![Sweeper] = h]
    BY <1>7 DEF ReconciliationSweep, Slots
  <2>2. QED
    BY <2>1, <1>2
<1>8. CASE ProcessExits
  <2>1. UNCHANGED <<listed, served>> /\ Busy' \subseteq Busy
    BY <1>0, <1>8 DEF ProcessExits, Busy
  <2>2. QED
    BY <2>1, <1>1
<1>9. ASSUME UNCHANGED <<listed, served, slot>>
      PROVE  \A t \in Txs : listed'[t] + Cardinality(Busy') <= served'
  BY <1>9, <1>1 DEF Busy
<1>10. ASSUME NEW t \in Txs, SendDirectly(t) \/ Land(t) \/ Fail(t)
       PROVE  UNCHANGED <<listed, served, slot>>
  BY <1>10 DEF SendDirectly, Land, Fail, backend
<1>11. ASSUME FindExpired \/ markRefundPending \/ WallTick \/ LedgerCloses \/ UNCHANGED cacheVars
       PROVE  UNCHANGED <<listed, served, slot>>
  BY <1>11 DEF FindExpired, markRefundPending, WallTick, LedgerCloses, cacheVars, backend
<1>12. QED
  BY <1>3, <1>4, <1>5, <1>6, <1>7, <1>8, <1>9, <1>10, <1>11 DEF CacheNext, Serve

\* Clocks, counters and the sweep's flag.
LEMMA CountersTyped ==
  ASSUME CacheInv, TypeOK, RestTyped, [CacheNext]_cacheVars
  PROVE  /\ expired' \in BOOLEAN /\ wall' \in now'..MaxTime
         /\ served' \in 0..MaxRequests /\ faults' \in 0..MaxFaults
<1>0. /\ now \in Nat /\ MaxTime \in Nat /\ MaxRequests \in Nat /\ MaxFaults \in Nat
      /\ expired \in BOOLEAN /\ wall \in now..MaxTime
      /\ served \in 0..MaxRequests /\ faults \in 0..MaxFaults
  BY BoundAssumption, CacheBounds DEF TypeOK, RestTyped
<1> DEFINE Goal == /\ expired' \in BOOLEAN /\ wall' \in now'..MaxTime
                   /\ served' \in 0..MaxRequests /\ faults' \in 0..MaxFaults
<1>1. ASSUME NEW r \in Requests, NEW t \in Txs, SubmitLoad(r, t) PROVE Goal
  BY <1>0, <1>1 DEF SubmitLoad, chain
<1>2. ASSUME NEW r \in Requests, Serve(r) PROVE Goal
  BY <1>0, <1>2 DEF Serve, Send, PollSucceeds, PollGivesUp, SaveHash, Push, chain
<1>3. ASSUME NEW s \in Slots, ReconcileRead(s) \/ ReconcileWrite(s) PROVE Goal
  BY <1>0, <1>3 DEF ReconcileRead, ReconcileWrite, chain
<1>4. ASSUME (\E s \in Slots : CallThrows(s)) \/ ProcessExits PROVE Goal
  <2>1. /\ faults < MaxFaults /\ faults' = faults + 1 /\ UNCHANGED <<now, wall, served>>
        /\ expired' = expired \/ expired' = FALSE
    BY <1>4 DEF CallThrows, ProcessExits, chain
  <2>2. expired' \in BOOLEAN
    BY <1>0, <2>1
  <2>3. QED
    BY <1>0, <2>1, <2>2
<1>5. ASSUME ReconciliationSweep \/ FindExpired \/ markRefundPending PROVE Goal
  BY <1>0, <1>5 DEF ReconciliationSweep, FindExpired, markRefundPending, chain
<1>6. ASSUME NEW t \in Txs, SendDirectly(t) \/ Fail(t) PROVE Goal
  BY <1>0, <1>6 DEF SendDirectly, Fail, chain, backend
<1>7. ASSUME NEW t \in Txs, Land(t) PROVE Goal
  <2>1. now' = now
    BY <1>7 DEF Land, Invocation, Contribute, UnlockStep, Claim, Refund
  <2>2. QED
    BY <1>0, <1>7, <2>1 DEF Land, backend
<1>8. CASE WallTick \/ LedgerCloses \/ UNCHANGED cacheVars
  BY <1>0, <1>8 DEF WallTick, LedgerCloses, Tick, cacheVars, chain, backend
<1>9. QED
  BY <1>1, <1>2, <1>3, <1>4, <1>5, <1>6, <1>7, <1>8 DEF CacheNext

\* The type invariant of row, handlers and contract, for any number of
\* requests; in it, that no transaction is listed more often than requests
\* were served.
THEOREM CacheTypeCorrect == CacheSpec => []CacheTypeOK
<1>1. CacheInit => RestTyped
  <2> SUFFICES ASSUME CacheInit PROVE RestTyped
    OBVIOUS
  <2>1. Busy = {}
    BY DEF CacheInit, Busy, Idle, Slots
  <2>2. Cardinality(Busy) = 0
    BY <2>1, FS_EmptySet
  <2>3. QED
    <3>1. /\ expired = FALSE /\ wall = 0 /\ now = 0 /\ served = 0 /\ faults = 0
          /\ \A t \in Txs : listed[t] = 0
      BY DEF CacheInit
    <3>2. MaxTime \in Nat /\ MaxRequests \in Nat /\ MaxFaults \in Nat
      BY BoundAssumption, CacheBounds
    <3>3. \A t \in Txs : listed[t] + Cardinality(Busy) <= served
      BY <2>2, <3>1
    <3>4. expired \in BOOLEAN
      BY <3>1
    <3>5. /\ wall \in now..MaxTime /\ served \in 0..MaxRequests /\ faults \in 0..MaxFaults
      BY <3>1, <3>2
    <3>6. QED
      BY <3>3, <3>4, <3>5 DEF RestTyped
<1>2. CacheInv /\ TypeOK /\ RestTyped /\ [CacheNext]_cacheVars => RestTyped'
  BY ListedWithinServed, CountersTyped DEF RestTyped
<1>3. CacheInv /\ TypeOK /\ RestTyped => CacheTypeOK
  <2> SUFFICES ASSUME CacheInv, TypeOK, RestTyped PROVE CacheTypeOK
    OBVIOUS
  <2>1. listed \in [Txs -> 0..MaxRequests]
    BY BusyFinite, CacheBounds DEF CacheInv, CacheTyped, RestTyped
  <2>2. QED
    BY <2>1 DEF CacheInv, CacheTyped, RestTyped, CacheTypeOK
<1>4. QED
  BY <1>1, <1>2, <1>3, CacheHolds, ChainKeepsPromises, PTL DEF CacheSpec
=============================================================================
