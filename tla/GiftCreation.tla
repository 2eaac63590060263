----------------------------- MODULE GiftCreation -----------------------------
(***************************************************************************)
(* The create handshake of one gift row: build -> sign -> submit            *)
(* (backend/src/services/giftService.ts) over the submission path every     *)
(* Soroban call takes (chain/src/sorobanClient.ts).                         *)
(*                                                                         *)
(* Each handler is split at its awaits: it loads the row, talks to the      *)
(* network, and saves what it then believes.  Between two of its steps      *)
(* other requests run, the network moves, and the process may be killed.    *)
(* Mongoose saves only the paths a handler changed, and checks the          *)
(* document version only when an array was replaced.                        *)
(***************************************************************************)
EXTENDS Integers, Sequences

CONSTANTS Builders,    \* build-transaction requests served at the same time
          Submitters,  \* submit requests served at the same time
          MaxTxs,      \* bound: transactions ever built for the row
          MaxFaults    \* bound: process exits and RPC calls that fail

ASSUME HandlerAssumption == Builders \cap Submitters = {}
ASSUME CreationBounds == MaxTxs \in Nat /\ MaxFaults \in Nat

VARIABLES
  rowStatus,    \* gifts.status
  rowGift,      \* gifts.contractGiftId, 0 while absent
  rowVersion,   \* gifts.__v
  rowToken,     \* which minted token claimTokenHash hashes, 0: the placeholder
  overdue,      \* expiresAt <= now
  txs,          \* transactions built so far, see Transactions
  accountSeq,   \* the sender account's sequence number
  chainGifts,   \* gifts create_gift has made for this row
  builder,      \* [Builders -> BuilderStates]
  submitter,    \* [Submitters -> SubmitterStates]
  links,        \* <<token, contract gift>> of the claim links clients received
  faults

row == <<rowStatus, rowGift, rowVersion, rowToken>>
network == <<txs, accountSeq, chainGifts>>
vars == <<row, overdue, network, builder, submitter, links, faults>>

-----------------------------------------------------------------------------
(* Types *)

Statuses == {"draft", "pending_chain", "active"}

\* built: XDR assembled; offered: returned to the client, who may sign it;
\* pending: in the network's queue; the rest are final.
TxStates == {"built", "offered", "pending", "landed", "failed", "expired"}
Transactions == [seq : Nat, state : TxStates, gift : Nat]

BuilderStates == [pc : {"idle", "rpc", "save"}, seen : Statuses, tx : 0..MaxTxs]
SubmitterStates ==
  [pc : {"idle", "send", "poll", "save"}, ver : Nat, tx : 0..MaxTxs]

TypeOK ==
  /\ rowStatus \in Statuses
  /\ rowGift \in Nat /\ rowVersion \in Nat /\ rowToken \in Nat
  /\ overdue \in BOOLEAN
  /\ txs \in Seq(Transactions) /\ Len(txs) <= MaxTxs
  /\ accountSeq \in Nat /\ chainGifts \in Nat
  /\ builder \in [Builders -> BuilderStates]
  /\ submitter \in [Submitters -> SubmitterStates]
  /\ links \in SUBSET (Nat \X Nat)
  /\ faults \in 0..MaxFaults

IdleBuilder == [pc |-> "idle", seen |-> "draft", tx |-> 0]
IdleSubmitter == [pc |-> "idle", ver |-> 0, tx |-> 0]

Init ==
  /\ rowStatus = "draft" /\ rowGift = 0 /\ rowVersion = 0 /\ rowToken = 0
  /\ overdue = FALSE
  /\ txs = <<>> /\ accountSeq = 0 /\ chainGifts = 0
  /\ builder = [b \in Builders |-> IdleBuilder]
  /\ submitter = [s \in Submitters |-> IdleSubmitter]
  /\ links = {}
  /\ faults = 0

-----------------------------------------------------------------------------
(* Faulty variants of definitions below: none is part of the specification. *)
(* Each is a plausible slip in the handlers that a property must notice.    *)

StatusAfterBuildAlways(seen) == "pending_chain"
MaySubmitBuilt(status) == status # "draft"
VersionUnchecked(ver) == TRUE
AcceptedIsSuccess(tx) == tx.state \in {"pending", "landed"}
TimeoutFirst(tx) == TRUE
MissingReturnValue(tx) == -1

-----------------------------------------------------------------------------
(* buildCreateTransaction *)

MayBuild(status) == status \in {"draft", "pending_chain"} /\ ~overdue

BuildLoad(b) ==
  /\ builder[b].pc = "idle"
  /\ MayBuild(rowStatus)
  /\ builder' = [builder EXCEPT ![b] = [pc |-> "rpc", seen |-> rowStatus, tx |-> 0]]
  /\ UNCHANGED <<row, overdue, network, submitter, links, faults>>

\* getAccount, simulateTransaction, assembleTransaction: the transaction is
\* bound to the sequence number the account has now.
BuildRpc(b) ==
  /\ builder[b].pc = "rpc"
  /\ Len(txs) < MaxTxs
  /\ txs' = Append(txs, [seq |-> accountSeq, state |-> "built", gift |-> 0])
  /\ builder' = [builder EXCEPT ![b].pc = "save", ![b].tx = Len(txs) + 1]
  /\ UNCHANGED <<row, overdue, accountSeq, chainGifts, submitter, links, faults>>

BuildFails(b) ==
  /\ builder[b].pc = "rpc"
  /\ builder' = [builder EXCEPT ![b] = IdleBuilder]
  /\ UNCHANGED <<row, overdue, network, submitter, links, faults>>

\* The status path is dirty only if the loaded value differed; no version check.
StatusAfterBuild(seen) == IF seen = "pending_chain" THEN rowStatus ELSE "pending_chain"

BuildSave(b) ==
  /\ builder[b].pc = "save"
  /\ rowStatus' = StatusAfterBuild(builder[b].seen)
  /\ txs' = [txs EXCEPT ![builder[b].tx].state = "offered"]
  /\ builder' = [builder EXCEPT ![b] = IdleBuilder]
  /\ UNCHANGED <<rowGift, rowVersion, rowToken, overdue, accountSeq, chainGifts,
                 submitter, links, faults>>

-----------------------------------------------------------------------------
(* submitCreateTransaction and submitSignedInvocation *)

MaySubmit(status) == status = "pending_chain"

\* A client may submit the same signed XDR again, also while the first request
\* is still being served.  The handler itself takes any signed XDR and never
\* compares it with the one it built; the clients of this model are the create
\* page, which submits nothing but transactions built for this row.
SubmitLoad(s, i) ==
  /\ submitter[s].pc = "idle"
  /\ MaySubmit(rowStatus)
  /\ txs[i].state \notin {"built"}
  /\ submitter' = [submitter EXCEPT ![s] = [pc |-> "send", ver |-> rowVersion, tx |-> i]]
  /\ UNCHANGED <<row, overdue, network, builder, links, faults>>

TxOf(s) == txs[submitter[s].tx]

\* sendTransaction accepts (PENDING), knows it (DUPLICATE), or asks to come
\* back because the account already has a transaction queued
\* (TRY_AGAIN_LATER): none of these is ERROR, and the handler goes on to poll.
QueueFree == \A i \in DOMAIN txs : txs[i].state # "pending"

Enqueued(i) ==
  /\ txs[i].state = "offered" /\ txs[i].seq = accountSeq /\ QueueFree
  /\ txs' = [txs EXCEPT ![i].state = "pending"]

Send(s) ==
  /\ submitter[s].pc = "send"
  /\ \/ Enqueued(submitter[s].tx)
     \/ /\ TxOf(s).state = "offered" => TxOf(s).seq = accountSeq /\ ~QueueFree
        /\ TxOf(s).state # "expired"
        /\ UNCHANGED txs
  /\ submitter' = [submitter EXCEPT ![s].pc = "poll"]
  /\ UNCHANGED <<row, overdue, accountSeq, chainGifts, builder, links, faults>>

\* sendTransaction answers ERROR: a used sequence number or passed time bounds.
SendRejected(s) ==
  /\ submitter[s].pc = "send"
  /\ TxOf(s).seq # accountSeq \/ TxOf(s).state = "expired"
  /\ submitter' = [submitter EXCEPT ![s] = IdleSubmitter]
  /\ UNCHANGED <<row, overdue, network, builder, links, faults>>

Succeeded(tx) == tx.state = "landed"

PollSucceeds(s) ==
  /\ submitter[s].pc = "poll"
  /\ Succeeded(TxOf(s))
  /\ submitter' = [submitter EXCEPT ![s].pc = "save"]
  /\ UNCHANGED <<row, overdue, network, builder, links, faults>>

\* The last getTransaction said FAILED, or still NOT_FOUND although the timeout
\* is over: the step is that last look, the result decides and not the clock.
Unsuccessful(tx) == tx.state # "landed"

PollGivesUp(s) ==
  /\ submitter[s].pc = "poll"
  /\ Unsuccessful(TxOf(s))
  /\ submitter' = [submitter EXCEPT ![s] = IdleSubmitter]
  /\ UNCHANGED <<row, overdue, network, builder, links, faults>>

\* String(returnValue): the id the contract assigned.
ContractGiftId(tx) == tx.gift

\* contributions is replaced, so mongoose checks and bumps the version: of two
\* handlers that loaded the same version one throws VersionError.
VersionMatches(ver) == ver = rowVersion

\* The new claim token exists in plain only in the response, which may not
\* reach the client.
SubmitSave(s) ==
  /\ submitter[s].pc = "save"
  /\ VersionMatches(submitter[s].ver)
  /\ rowStatus' = "active"
  /\ rowGift' = ContractGiftId(TxOf(s))
  /\ rowVersion' = rowVersion + 1
  /\ rowToken' = rowVersion + 1
  /\ links' \in {links, links \cup {<<rowVersion + 1, ContractGiftId(TxOf(s))>>}}
  /\ submitter' = [submitter EXCEPT ![s] = IdleSubmitter]
  /\ UNCHANGED <<overdue, network, builder, faults>>

SubmitSaveConflicts(s) ==
  /\ submitter[s].pc = "save"
  /\ ~VersionMatches(submitter[s].ver)
  /\ submitter' = [submitter EXCEPT ![s] = IdleSubmitter]
  /\ UNCHANGED <<row, overdue, network, builder, links, faults>>

-----------------------------------------------------------------------------
(* The network, time, and the process *)

\* A queued transaction is applied: create_gift succeeds, unless the deadline
\* has passed, or it fails; either way the sequence number is used up.
Apply(i) ==
  /\ txs[i].state = "pending"
  /\ txs[i].seq = accountSeq
  /\ accountSeq' = accountSeq + 1
  /\ \/ /\ ~overdue
        /\ chainGifts' = chainGifts + 1
        /\ txs' = [txs EXCEPT ![i].state = "landed", ![i].gift = chainGifts + 1]
     \/ /\ txs' = [txs EXCEPT ![i].state = "failed"]
        /\ UNCHANGED chainGifts
  /\ UNCHANGED <<row, overdue, builder, submitter, links, faults>>

\* TRANSACTION_TIMEOUT_SECONDS: past its time bounds it can no longer land.
Expire(i) ==
  /\ txs[i].state \in {"offered", "pending"}
  /\ txs' = [txs EXCEPT ![i].state = "expired"]
  /\ UNCHANGED <<row, overdue, accountSeq, chainGifts, builder, submitter, links, faults>>

DeadlinePasses ==
  /\ ~overdue
  /\ overdue' = TRUE
  /\ UNCHANGED <<row, network, builder, submitter, links, faults>>

\* A kill, or server.ts's forced exit ten seconds into a shutdown.
Crash ==
  /\ faults < MaxFaults
  /\ faults' = faults + 1
  /\ builder' = [b \in Builders |-> IdleBuilder]
  /\ submitter' = [s \in Submitters |-> IdleSubmitter]
  /\ UNCHANGED <<row, overdue, network, links>>

\* An RPC call of a submit throws: its answer is lost, and the network may have
\* accepted the transaction all the same.
RpcFails(s) ==
  /\ faults < MaxFaults
  /\ faults' = faults + 1
  /\ \/ submitter[s].pc \in {"send", "poll"} /\ UNCHANGED txs
     \/ submitter[s].pc = "send" /\ Enqueued(submitter[s].tx)
  /\ submitter' = [submitter EXCEPT ![s] = IdleSubmitter]
  /\ UNCHANGED <<row, overdue, accountSeq, chainGifts, builder, links>>

Build(b) == BuildLoad(b) \/ BuildRpc(b) \/ BuildFails(b) \/ BuildSave(b)
Serve(s) ==
  \/ Send(s) \/ SendRejected(s) \/ PollSucceeds(s) \/ PollGivesUp(s)
  \/ SubmitSave(s) \/ SubmitSaveConflicts(s)

Next ==
  \/ \E b \in Builders : Build(b)
  \/ \E s \in Submitters : Serve(s) \/ RpcFails(s) \/ \E i \in DOMAIN txs : SubmitLoad(s, i)
  \/ \E i \in DOMAIN txs : Apply(i) \/ Expire(i)
  \/ DeadlinePasses
  \/ Crash

Spec == Init /\ [][Next]_vars

\* A handler that was scheduled keeps running while the process lives; the
\* client, the network, the deadline and faults owe nothing.
FairSpec == Spec /\ \A s \in Submitters : WF_vars(Serve(s))

-----------------------------------------------------------------------------
(* Properties *)

\* An active row points at a gift that a landed transaction of this row made,
\* and every link a client ever received was minted after its funds were
\* locked ("a link handed out before the funds are locked on-chain would be a
\* link to nothing"), however submits, rebuilds, duplicates and faults mix.
LinkIsFunded ==
  /\ rowStatus = "active" => rowGift # 0
  /\ \A g \in {rowGift} \cup {l[2] : l \in links} :
        g # 0 => \E i \in DOMAIN txs : txs[i].state = "landed" /\ txs[i].gift = g

\* Two submits of one XDR, overlapping or one after the other, never hand out
\* two links to the same gift: the later one would silently kill the earlier,
\* since the row keeps one hash.
OneLinkPerGift == \A k, l \in links : k[2] = l[2] => k = l

\* A link that reached its client keeps resolving.
LinkKeepsResolving == \A l \in links : l[1] = rowToken /\ l[2] = rowGift

\* README: draft -> pending_chain -> active, with no way back.
StatusMachine ==
  [][\/ rowStatus = "draft" /\ rowStatus' = "pending_chain"
     \/ rowStatus = "pending_chain" /\ rowStatus' = "active"]_rowStatus

\* giftService.ts: re-validating the status "stops a stale frontend from
\* re-submitting an action the gift has already moved past": one row, one gift.
OneGiftPerRow == chainGifts <= 1

\* An active row is final for the handlers of this handshake: of two overlapping
\* submits the one that loaded the row before the other's save writes nothing,
\* so no gift, link hash or link changes under a receiver who already has one.
\* (A build that loaded the draft may still reopen the status: see StatusMachine.)
ActiveRowStands ==
  [][rowStatus = "active" => UNCHANGED <<rowGift, rowToken, links>>]_vars

\* A create that lands under a polling handler is recorded: if no fault follows,
\* the row gets a gift, and that very one when no other create of the row landed.
\* A version conflict between two submits of one XDR thus loses nothing.  It says
\* nothing of a second create that landed too (OneGiftPerRow speaks of that one),
\* nor of a process that dies before its save.
LandedIsRecorded ==
  \A k \in 0..MaxFaults :
    (/\ faults = k
     /\ \E s \in Submitters : submitter[s].pc = "poll" /\ TxOf(s).state = "landed")
      ~> \/ rowGift = chainGifts
         \/ rowGift # 0 /\ chainGifts > 1
         \/ faults > k
=============================================================================
