------------------------------ MODULE GiftCache ------------------------------
(***************************************************************************)
(* The backend's row of a gift as a cache over the gift-escrow contract:    *)
(* the submit handlers of claimService, refundService, contributeService    *)
(* and conditionService, reconcileGift behind them, and the two cron sweeps *)
(* over the same row.  The contract is GiftEscrow, with one gift created    *)
(* and its row active.                                                      *)
(*                                                                         *)
(* Handlers and sweeps run in slots, one step per await.  A slot abandons   *)
(* its work when a call throws, all of them when the process dies.  Signed  *)
(* transactions may be submitted through the backend, more than once, or    *)
(* sent to the network past it.                                             *)
(***************************************************************************)
EXTENDS GiftEscrow

CONSTANTS Sender,      \* of the gift, its receiver
          Receiver,
          Txs,         \* signed transactions the wallets hold
          NoTx,        \* the transaction of a slot that submits none
          Requests,    \* slots of submit handlers
          Sweeper,     \* slot of the reconciliation cron
          MaxRequests, \* bound: submit requests ever served
          MaxFaults    \* bound: thrown calls and process exits

ASSUME SlotAssumption ==
  /\ Sweeper \notin Requests /\ IsFiniteSet(Requests)
  /\ NoTx \notin Txs
ASSUME PartiesAssumption == Sender \in Users /\ Receiver \in Users
ASSUME CacheBounds == MaxRequests \in Nat /\ MaxFaults \in Nat
\* The gift there is counts as one, and its sender could pay for it.
ASSUME CreatedAssumption == MaxGifts >= 1 /\ InitialBalance >= 1

VARIABLES
  row,      \* the cached fields of the gifts document
  settledBy,\* the transaction in txHashClaim or txHashRefund
  listed,   \* how often each transaction is in its contributions list
  txs,      \* [Txs -> Transactions]
  slot,     \* [Slots -> SlotStates]
  expired,  \* the refund sweep has found the gift and is about to mark it
  wall,     \* the backend's clock; ledger timestamps lag behind it
  served,   \* requests begun
  faults

chain == <<gifts, giftCounter, balance, trusts, now>>
backend == <<row, settledBy, listed, slot, expired>>
cacheVars == <<chain, backend, txs, wall, served, faults>>

-----------------------------------------------------------------------------
(* Types *)

Slots == Requests \cup {Sweeper}
Gift == gifts[1]

RowStatuses == {"active", "claimed", "refund_pending", "refunded"}
Snapshots == [status : {"active", "claimed", "refunded"}, amount : Nat, steps : Nat]

Ops == {"contribute", "unlock_step", "claim", "refund"}
Transactions == [op : Ops, state : {"signed", "pending", "landed", "failed"}]

\* tx: what a request submits, saw: what get_gift answered it
NothingSeen == [status |-> "active", amount |-> 0, steps |-> 0]
SlotStates ==
  [pc : {"idle", "send", "poll", "hash", "read", "write", "push"},
   tx : Txs \cup {NoTx}, saw : Snapshots]
Idle == [pc |-> "idle", tx |-> NoTx, saw |-> NothingSeen]

CacheTypeOK ==
  /\ TypeOK
  /\ row \in [status : RowStatuses, amount : Nat, steps : Nat]
  /\ settledBy \in Txs \cup {NoTx}
  /\ listed \in [Txs -> 0..MaxRequests]
  /\ txs \in [Txs -> Transactions]
  /\ slot \in [Slots -> SlotStates]
  /\ expired \in BOOLEAN
  /\ wall \in now..MaxTime
  /\ served \in 0..MaxRequests
  /\ faults \in 0..MaxFaults

-----------------------------------------------------------------------------
(* Faulty variants of definitions below: none is part of the specification. *)

AfterSendUnpolled(t) == "read"
TakesAccepted(t) == txs[t].state \in {"pending", "landed"}
mapContractStatusByDeadline(status) ==
  CASE status = "Open"    -> IF wall > Gift.expires_at THEN "refunded" ELSE "active"
    [] status = "Claimed" -> "claimed"
    [] OTHER              -> "refunded"
UnmappedStatus(status) == status
SweptActiveOnly == {"active"}
MarkableBeforeExpiry == row.status = "active" /\ wall < Gift.expires_at

-----------------------------------------------------------------------------
(* The initial state: submitCreateTransaction has just recorded the gift *)

CacheInit ==
  /\ giftCounter = 1
  /\ \E tok \in Tokens, c \in ClaimConditions :
        /\ gifts = [i \in 1..1 |->
             [sender |-> Sender, receiver |-> Receiver, token |-> tok, total_amount |-> 1,
              contributions |-> [u \in Users |-> IF u = Sender THEN 1 ELSE 0],
              expires_at |-> 1, status |-> "Open", condition |-> c,
              steps_completed |-> 0, step_unlocker |-> Sender]]
        /\ balance = [t \in Tokens |->
             [a \in Accounts |->
                (IF a = Escrow THEN 0 ELSE InitialBalance)
                + (IF t # tok THEN 0 ELSE IF a = Escrow THEN 1 ELSE IF a = Sender THEN -1 ELSE 0)]]
  /\ trusts = Users \X Tokens
  /\ now = 0 /\ wall = 0
  /\ row = [status |-> "active", amount |-> 1, steps |-> 0]
  /\ settledBy = NoTx
  /\ listed = [t \in Txs |-> 0]
  /\ txs \in [Txs -> [op : Ops, state : {"signed"}]]
  /\ slot = [s \in Slots |-> Idle]
  /\ expired = FALSE
  /\ served = 0
  /\ faults = 0

-----------------------------------------------------------------------------
(* The submit handlers *)

\* What the handler of each operation checks on the row before submitting.
\* contribute checks nothing; unlock_step only the kind of the condition.
assertClaimable == row.status = "active" /\ wall < Gift.expires_at
assertRefundable == row.status \in {"active", "refund_pending"} /\ wall >= Gift.expires_at

MaySubmit(op) ==
  /\ op = "claim" => assertClaimable
  /\ op = "refund" => assertRefundable
  /\ op = "unlock_step" => Gift.condition.kind = "StepGate"

SubmitLoad(r, t) ==
  /\ slot[r].pc = "idle"
  /\ served < MaxRequests
  /\ MaySubmit(txs[t].op)
  /\ served' = served + 1
  /\ slot' = [slot EXCEPT ![r] = [Idle EXCEPT !.pc = "send", !.tx = t]]
  /\ UNCHANGED <<chain, row, settledBy, listed, expired, txs, wall, faults>>

Sent(t) == [txs EXCEPT ![t].state = IF @ = "signed" THEN "pending" ELSE @]

\* submitSignedInvocation: send, then poll
AfterSend(t) == "poll"
Send(r) ==
  /\ slot[r].pc = "send"
  /\ txs' = Sent(slot[r].tx)
  /\ slot' = [slot EXCEPT ![r].pc = AfterSend(slot[r].tx)]
  /\ UNCHANGED <<chain, row, settledBy, listed, expired, wall, served, faults>>

Succeeded(t) == txs[t].state = "landed"
SettlesGift(t) == txs[t].op \in {"claim", "refund"}

PollSucceeds(r) ==
  /\ slot[r].pc = "poll"
  /\ Succeeded(slot[r].tx)
  /\ slot' = [slot EXCEPT ![r].pc = IF SettlesGift(slot[r].tx) THEN "hash" ELSE "read"]
  /\ UNCHANGED <<chain, row, settledBy, listed, expired, txs, wall, served, faults>>

\* claim and refund save the transaction's hash before they reconcile.
SaveHash(r) ==
  /\ slot[r].pc = "hash"
  /\ settledBy' = slot[r].tx
  /\ slot' = [slot EXCEPT ![r].pc = "read"]
  /\ UNCHANGED <<chain, row, listed, expired, txs, wall, served, faults>>

\* FAILED, or the timeout; the transaction may still land afterwards.
PollGivesUp(r) ==
  /\ slot[r].pc = "poll"
  /\ txs[slot[r].tx].state # "landed"
  /\ slot' = [slot EXCEPT ![r] = Idle]
  /\ UNCHANGED <<chain, row, settledBy, listed, expired, txs, wall, served, faults>>

\* submitContributeTransaction appends to the list last, whatever it holds.
Push(r) ==
  /\ slot[r].pc = "push"
  /\ listed' = [listed EXCEPT ![slot[r].tx] = @ + 1]
  /\ slot' = [slot EXCEPT ![r] = Idle]
  /\ UNCHANGED <<chain, row, settledBy, expired, txs, wall, served, faults>>

-----------------------------------------------------------------------------
(* reconcileGift: read the contract, then overwrite the row *)

mapContractStatus(status) ==
  CASE status = "Open"    -> "active"
    [] status = "Claimed" -> "claimed"
    [] OTHER              -> "refunded"

OnChain ==
  [status |-> mapContractStatus(Gift.status),
   amount |-> Gift.total_amount, steps |-> Gift.steps_completed]

ReconcileRead(s) ==
  /\ slot[s].pc = "read"
  /\ slot' = [slot EXCEPT ![s].pc = "write", ![s].saw = OnChain]
  /\ UNCHANGED <<chain, row, settledBy, listed, expired, txs, wall, served, faults>>

Lists(s) == s # Sweeper /\ txs[slot[s].tx].op = "contribute"

ReconcileWrite(s) ==
  /\ slot[s].pc = "write"
  /\ row' = slot[s].saw
  /\ slot' = [slot EXCEPT ![s] =
                IF Lists(s) THEN [@ EXCEPT !.pc = "push"] ELSE Idle]
  /\ UNCHANGED <<chain, settledBy, listed, expired, txs, wall, served, faults>>

-----------------------------------------------------------------------------
(* The cron sweeps *)

Swept == {"active", "refund_pending"}

ReconciliationSweep ==
  /\ slot[Sweeper].pc = "idle"
  /\ row.status \in Swept
  /\ slot' = [slot EXCEPT ![Sweeper].pc = "read"]
  /\ UNCHANGED <<chain, row, settledBy, listed, expired, txs, wall, served, faults>>

Markable == row.status = "active" /\ wall > Gift.expires_at

FindExpired ==
  /\ ~expired
  /\ Markable
  /\ expired' = TRUE
  /\ UNCHANGED <<chain, row, settledBy, listed, slot, txs, wall, served, faults>>

markRefundPending ==
  /\ expired
  /\ expired' = FALSE
  /\ row' = IF Markable THEN [row EXCEPT !.status = "refund_pending"] ELSE row
  /\ UNCHANGED <<chain, settledBy, listed, slot, txs, wall, served, faults>>

-----------------------------------------------------------------------------
(* The network, the clocks, and failures *)

\* A wallet sends a transaction without the backend.
SendDirectly(t) ==
  /\ txs[t].state = "signed"
  /\ txs' = Sent(t)
  /\ UNCHANGED <<chain, backend, wall, served, faults>>

Invocation(op) ==
  \/ op = "contribute" /\ \E u \in Users, a \in 1..MaxAmount : Contribute(u, 1, a)
  \/ op = "unlock_step" /\ UnlockStep(Gift.step_unlocker, 1)
  \/ op = "claim" /\ Claim(1, Gift.receiver, Gift.condition.answer)
  \/ op = "refund" /\ \E u \in Users : Refund(1, u)

Land(t) ==
  /\ txs[t].state = "pending"
  /\ Invocation(txs[t].op)
  /\ txs' = [txs EXCEPT ![t].state = "landed"]
  /\ UNCHANGED <<backend, wall, served, faults>>

Fail(t) ==
  /\ txs[t].state = "pending"
  /\ txs' = [txs EXCEPT ![t].state = "failed"]
  /\ UNCHANGED <<chain, backend, wall, served, faults>>

WallTick ==
  /\ wall < MaxTime
  /\ wall' = wall + 1
  /\ UNCHANGED <<chain, backend, txs, served, faults>>

LedgerCloses ==
  /\ now < wall
  /\ Tick
  /\ UNCHANGED <<backend, txs, wall, served, faults>>

\* An RPC or database call of one slot throws.
CallThrows(s) ==
  /\ faults < MaxFaults
  /\ slot[s].pc # "idle"
  /\ faults' = faults + 1
  /\ slot' = [slot EXCEPT ![s] = Idle]
  /\ UNCHANGED <<chain, row, settledBy, listed, expired, txs, wall, served>>

ProcessExits ==
  /\ faults < MaxFaults
  /\ faults' = faults + 1
  /\ slot' = [s \in Slots |-> Idle]
  /\ expired' = FALSE
  /\ UNCHANGED <<chain, row, settledBy, listed, txs, wall, served>>

Serve(r) == Send(r) \/ PollSucceeds(r) \/ PollGivesUp(r) \/ SaveHash(r) \/ Push(r)

CacheNext ==
  \/ \E r \in Requests : Serve(r) \/ \E t \in Txs : SubmitLoad(r, t)
  \/ \E s \in Slots : ReconcileRead(s) \/ ReconcileWrite(s) \/ CallThrows(s)
  \/ ReconciliationSweep \/ FindExpired \/ markRefundPending
  \/ \E t \in Txs : SendDirectly(t) \/ Land(t) \/ Fail(t)
  \/ WallTick \/ LedgerCloses
  \/ ProcessExits

CacheSpec == CacheInit /\ [][CacheNext]_cacheVars

\* The crons fire for ever and what they began goes on; requests, the network
\* and the clocks owe nothing.
FairCacheSpec ==
  /\ CacheSpec
  /\ WF_cacheVars(ReconciliationSweep)
  /\ WF_cacheVars(ReconcileRead(Sweeper))
  /\ WF_cacheVars(ReconcileWrite(Sweeper))
  /\ WF_cacheVars(FindExpired)
  /\ WF_cacheVars(markRefundPending)

-----------------------------------------------------------------------------
(* Properties *)

\* The row may lag but never runs ahead of the contract: a gift shown as
\* claimed or refunded is, the settling transaction it names did settle it,
\* and no amount or step is shown that is not there, whichever stale snapshots
\* are written in whatever order.
CacheNeverAhead ==
  /\ row.status = "claimed" => Gift.status = "Claimed"
  /\ row.status = "refunded" => Gift.status = "Refunded"
  /\ settledBy # NoTx =>
       Gift.status = (IF txs[settledBy].op = "claim" THEN "Claimed" ELSE "Refunded")
  /\ row.amount <= Gift.total_amount
  /\ row.steps <= Gift.steps_completed

\* refundService.ts: the reconcile after a refund "will observe status ->
\* refunded"; the same goes for a claim.  What the client is told is what its
\* transaction did, although others land meanwhile.
ReadsOwnWrite ==
  \A r \in Requests :
    slot[r].pc = "write" =>
      /\ txs[slot[r].tx].op = "claim"  => slot[r].saw.status = "claimed"
      /\ txs[slot[r].tx].op = "refund" => slot[r].saw.status = "refunded"

\* Every hash in the contributions list is that of a transaction that landed: an
\* accepted submission, a timeout or a failure lists nothing.  The contributor
\* and the amount beside the hash are the request's word, never compared with the
\* XDR, and not modelled; a row missing or pushed twice does not violate this.
ListedHasLanded == \A t \in Txs : listed[t] > 0 => txs[t].state = "landed"

InLine ==
  /\ row.status = OnChain.status \/ (OnChain.status = "active" /\ row.status = "refund_pending")
  /\ row.amount = Gift.total_amount
  /\ Gift.status # "Refunded" => row.steps = Gift.steps_completed

\* Once the contract no longer changes, the row ends up agreeing with it and
\* stays so, in spite of lost responses, crashes, stale writes and calls made
\* past the backend.  (Steps unlocked on a refunded gift are the exception:
\* the sweep no longer looks at it.)
CacheConverges == <>[]InLine

\* The refund sweep never stops offering the reclaim of an expired open gift,
\* although the reconciliation sweep takes the offer back each time.
ReclaimOffered ==
  (OnChain.status = "active" /\ wall > Gift.expires_at)
    ~> (row.status = "refund_pending" \/ OnChain.status # "active")

\* refundService.ts: "an unconditional update would stomp claimed back";
\* a settled status is final on the row.
SettledIsFinal ==
  [][row.status \in {"claimed", "refunded"} => row'.status = row.status]_row
=============================================================================
