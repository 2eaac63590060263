------------------------------ MODULE GiftEscrow ------------------------------
(***************************************************************************)
(* The gift-escrow Soroban contract (contracts/gift-escrow/src): gifts that *)
(* hold their funders' tokens until the receiver claims them or, after the  *)
(* deadline, any funder sends them back.                                    *)
(*                                                                         *)
(* A contract invocation runs atomically and a panic reverts all it did,   *)
(* so each entry point is one action whose guard is the conjunction of the *)
(* checks it passes, the token transfers it makes included.  A rejected    *)
(* invocation changes nothing and is no step.                              *)
(***************************************************************************)
EXTENDS Integers, FiniteSets, Totals

CONSTANTS Users,          \* addresses that sign invocations
          Escrow,         \* the contract's own address
          Tokens,         \* token contracts a gift may be denominated in
          Answers,        \* trivia answers; sha256 is injective on them
          NoAnswer,       \* Option::None of the claim argument
          StepGates,      \* the totals a StepGate condition is created with
          MaxGifts,       \* bound: gifts ever created
          MaxTime,        \* bound: last ledger timestamp
          MaxAmount,      \* bound: largest single transfer
          InitialBalance  \* bound: tokens of each kind a user starts with

ASSUME AddressAssumption == Escrow \notin Users /\ IsFiniteSet(Users)
ASSUME AnswerAssumption == NoAnswer \notin Answers
ASSUME BoundAssumption ==
  /\ StepGates \subseteq Nat
  /\ MaxGifts \in Nat
  /\ MaxTime \in Nat
  /\ MaxAmount \in Nat
  /\ InitialBalance \in Nat

VARIABLES gifts,      \* persistent storage: [1..giftCounter -> GiftRecord]
          giftCounter,\* instance storage: the last id given out
          balance,    \* the tokens' ledgers: [Tokens -> [Accounts -> Nat]]
          trusts,     \* <<user, token>> pairs that can receive (a trustline)
          now         \* env.ledger().timestamp()

vars == <<gifts, giftCounter, balance, trusts, now>>

-----------------------------------------------------------------------------
(* Types *)

Accounts == Users \cup {Escrow}
GiftStatus == {"Open", "Claimed", "Refunded"}

\* enum ClaimCondition { None, AnswerHash(hash), StepGate(u32) }
ClaimConditions ==
       [kind : {"None"}, answer : {NoAnswer}, steps : {0}]
  \cup [kind : {"AnswerHash"}, answer : Answers, steps : {0}]
  \cup [kind : {"StepGate"}, answer : {NoAnswer}, steps : StepGates]

\* contributions is a Map<Address, i128> whose values are all positive, so an
\* absent key is the amount zero.
ContributionMaps == [Users -> Nat]

GiftRecords ==
  [sender : Users, receiver : Users, token : Tokens, total_amount : Nat,
   contributions : ContributionMaps, expires_at : Nat, status : GiftStatus,
   condition : ClaimConditions, steps_completed : Nat, step_unlocker : Users]

TypeOK ==
  /\ giftCounter \in 0..MaxGifts
  /\ gifts \in [1..giftCounter -> GiftRecords]
  /\ balance \in [Tokens -> [Accounts -> Nat]]
  /\ trusts \in SUBSET (Users \X Tokens)
  /\ now \in 0..MaxTime

-----------------------------------------------------------------------------
(* Faulty variants of definitions below: none is part of the specification. *)
(* Each stands for a plausible slip in the contract that a property must    *)
(* notice when it takes the place of the definition it varies.              *)

CanTransferUnfunded(token, from, to, amount) == to = Escrow \/ <<to, token>> \in trusts
OpenUpToDeadline(g) == g.status = "Open" /\ now <= g.expires_at
RefundableAnyStatus(g) == now >= g.expires_at
ToppedUpRecordOnly(g, contributor, amount) ==
  [g EXCEPT !.contributions[contributor] = @ + amount]
StepsRemainAtTotal(g) == g.steps_completed <= g.condition.steps
ConditionMetUngated(g, answer) ==
  g.condition.kind = "AnswerHash" => answer = g.condition.answer
PayoutOfSenderOnly(g) == g.contributions[g.sender]
PaidBackToSender(g, owed) ==
  [balance EXCEPT ![g.token][Escrow] = @ - owed, ![g.token][g.sender] = @ + owed]

-----------------------------------------------------------------------------
(* The token contract's transfer, as the escrow calls it *)

CanReceive(to, token) == to = Escrow \/ <<to, token>> \in trusts

\* balances after moving amount; the sender must hold it (else it panics)
CanTransfer(token, from, to, amount) ==
  /\ balance[token][from] >= amount
  /\ CanReceive(to, token)

Moved(token, from, to, amount) ==
  [balance EXCEPT ![token] =
     [a \in Accounts |-> @[a] - (IF a = from THEN amount ELSE 0)
                              + (IF a = to THEN amount ELSE 0)]]

-----------------------------------------------------------------------------
(* Entry points *)

Init ==
  /\ gifts = [i \in {} |-> {}]
  /\ giftCounter = 0
  /\ balance = [t \in Tokens |->
                  [a \in Accounts |-> IF a = Escrow THEN 0 ELSE InitialBalance]]
  /\ trusts = Users \X Tokens
  /\ now = 0

OpenAndUnexpired(g) == g.status = "Open" /\ now < g.expires_at

\* storage::set_gift on a fresh or an existing key
WithGift(id, g) == [i \in DOMAIN gifts \cup {id} |-> IF i = id THEN g ELSE gifts[i]]

CreateGift(sender, receiver, token, amount, expires_at, condition, unlocker) ==
  LET id == giftCounter + 1
  IN /\ giftCounter < MaxGifts
     /\ amount > 0
     /\ expires_at > now
     /\ CanTransfer(token, sender, Escrow, amount)
     /\ balance' = Moved(token, sender, Escrow, amount)
     /\ giftCounter' = id
     /\ gifts' = WithGift(id,
          [sender |-> sender, receiver |-> receiver, token |-> token,
           total_amount |-> amount,
           contributions |-> [u \in Users |-> IF u = sender THEN amount ELSE 0],
           expires_at |-> expires_at, status |-> "Open",
           condition |-> condition, steps_completed |-> 0,
           step_unlocker |-> unlocker])
     /\ UNCHANGED <<trusts, now>>

ToppedUp(g, contributor, amount) ==
  [g EXCEPT !.contributions[contributor] = @ + amount, !.total_amount = @ + amount]

Contribute(contributor, id, amount) ==
  /\ id \in DOMAIN gifts
  /\ amount > 0
  /\ LET g == gifts[id]
     IN /\ OpenAndUnexpired(g)
        /\ CanTransfer(g.token, contributor, Escrow, amount)
        /\ balance' = Moved(g.token, contributor, Escrow, amount)
        /\ gifts' = WithGift(id, ToppedUp(g, contributor, amount))
  /\ UNCHANGED <<giftCounter, trusts, now>>

\* unlock_step looks neither at the status nor at the deadline.
StepsRemain(g) == g.steps_completed < g.condition.steps

UnlockStep(unlocker, id) ==
  /\ id \in DOMAIN gifts
  /\ LET g == gifts[id]
     IN /\ unlocker = g.step_unlocker
        /\ g.condition.kind = "StepGate"
        /\ StepsRemain(g)
        /\ gifts' = WithGift(id, [g EXCEPT !.steps_completed = @ + 1])
  /\ UNCHANGED <<giftCounter, balance, trusts, now>>

ConditionMet(g, answer) ==
  CASE g.condition.kind = "None"       -> TRUE
    [] g.condition.kind = "AnswerHash" -> answer = g.condition.answer
    [] g.condition.kind = "StepGate"   -> g.steps_completed = g.condition.steps

Payout(g) == g.total_amount

Claim(id, claimant, answer) ==
  /\ id \in DOMAIN gifts
  /\ LET g == gifts[id]
     IN /\ claimant = g.receiver
        /\ OpenAndUnexpired(g)
        /\ ConditionMet(g, answer)
        /\ CanTransfer(g.token, Escrow, claimant, Payout(g))
        /\ balance' = Moved(g.token, Escrow, claimant, Payout(g))
        /\ gifts' = WithGift(id, [g EXCEPT !.status = "Claimed"])
  /\ UNCHANGED <<giftCounter, trusts, now>>

Contributors(g) == {u \in Users : g.contributions[u] > 0}

\* The loop of transfers in refund: each contributor gets back its own entry,
\* and the escrow's balance must cover what they add up to.
Owed(g) == Total(g.contributions)

PaidBack(g, owed) ==
  [balance EXCEPT ![g.token] =
     [a \in Accounts |-> IF a = Escrow THEN @[a] - owed ELSE @[a] + g.contributions[a]]]

Refundable(g) == g.status = "Open" /\ now >= g.expires_at

Refund(id, caller) ==
  /\ id \in DOMAIN gifts
  /\ LET g == gifts[id]
     IN /\ caller = g.sender \/ caller \in Contributors(g)
        /\ Refundable(g)
        /\ \A u \in Contributors(g) : CanReceive(u, g.token)
        /\ \E owed \in 0..balance[g.token][Escrow] :
              owed = Owed(g) /\ balance' = PaidBack(g, owed)
        /\ gifts' = WithGift(id, [g EXCEPT !.status = "Refunded"])
  /\ UNCHANGED <<giftCounter, trusts, now>>

-----------------------------------------------------------------------------
(* The environment: time, and trustlines (removable only at balance zero) *)

Tick == now < MaxTime /\ now' = now + 1 /\ UNCHANGED <<gifts, giftCounter, balance, trusts>>

DropTrustline(u, t) ==
  /\ <<u, t>> \in trusts
  /\ balance[t][u] = 0
  /\ trusts' = trusts \ {<<u, t>>}
  /\ UNCHANGED <<gifts, giftCounter, balance, now>>

AddTrustline(u, t) ==
  /\ <<u, t>> \notin trusts
  /\ trusts' = trusts \cup {<<u, t>>}
  /\ UNCHANGED <<gifts, giftCounter, balance, now>>

Next ==
  \/ \E s, r, k \in Users, t \in Tokens, a \in 1..MaxAmount,
        e \in 1..MaxTime, c \in ClaimConditions : CreateGift(s, r, t, a, e, c, k)
  \/ \E u \in Users, id \in DOMAIN gifts :
        \/ \E a \in 1..MaxAmount : Contribute(u, id, a)
        \/ UnlockStep(u, id)
        \/ \E ans \in Answers \cup {NoAnswer} : Claim(id, u, ans)
        \/ Refund(id, u)
  \/ \E u \in Users, t \in Tokens : DropTrustline(u, t) \/ AddTrustline(u, t)
  \/ Tick

Spec == Init /\ [][Next]_vars

-----------------------------------------------------------------------------
(* Safety *)

OpenGifts(t) == {id \in DOMAIN gifts : gifts[id].status = "Open" /\ gifts[id].token = t}

\* The escrow's balance of each token is exactly what its open gifts hold: all
\* gifts of a token share one account, so a payout that takes too much from one
\* gift (claim, refund) or a credit that is miscounted (contribute) is paid
\* with somebody else's gift.
Solvency ==
  \A t \in Tokens :
     balance[t][Escrow] = Total([id \in OpenGifts(t) |-> gifts[id].total_amount])

\* claim pays total_amount and refund pays the contributions one by one: both
\* fields are maintained separately and must agree on every gift at all times,
\* or one of the two ways out takes money of other gifts or strands some.
FundedInFull == \A id \in DOMAIN gifts : gifts[id].total_amount = Owed(gifts[id])

\* Step gates: claim demands steps_completed = total and not >=, so a count
\* past the total would lock the gift until its deadline.
StepsWithinGate ==
  \A id \in DOMAIN gifts : gifts[id].steps_completed <= gifts[id].condition.steps

\* unlock_step ignores the status, so a claimed gift's steps may in principle
\* move after the claim: the gate that let the claim through must still be
\* shut complete in every later state.
ClaimedThroughGate ==
  \A id \in DOMAIN gifts :
     gifts[id].status = "Claimed" /\ gifts[id].condition.kind = "StepGate"
       => gifts[id].steps_completed = gifts[id].condition.steps

\* Every gift follows the life GiftLifecycle allows: one way out of "open",
\* claim and refund never possible at the same timestamp, the deadline fixed.
PhaseOf(g) ==
  CASE g.status = "Open"    -> "open"
    [] g.status = "Claimed" -> "claimed"
    [] OTHER                -> "refunded"

phaseBar ==
  [id \in 1..MaxGifts |-> IF id \in DOMAIN gifts THEN PhaseOf(gifts[id]) ELSE "absent"]
deadlineBar ==
  [id \in 1..MaxGifts |-> IF id \in DOMAIN gifts THEN gifts[id].expires_at ELSE 0]

Lifecycle ==
  INSTANCE GiftLifecycle WITH Gifts <- 1..MaxGifts, phase <- phaseBar, deadline <- deadlineBar

LifecycleSpec == Lifecycle!Spec

Settles(id, status) ==
  id \in DOMAIN gifts /\ gifts[id].status = "Open" /\ gifts'[id].status = status

\* The step that refunds a gift leaves every funder exactly its own recorded
\* share richer, also when the gift was topped up by the same funder twice,
\* and nobody else any richer.
RefundMakesWhole ==
  [][\A id \in 1..MaxGifts : Settles(id, "Refunded") =>
       \A u \in Users : balance'[gifts[id].token][u]
                          = balance[gifts[id].token][u] + gifts[id].contributions[u]]_vars

\* Everything the funders of a gift put in reaches its receiver on a claim.
ClaimPaysAll ==
  [][\A id \in 1..MaxGifts : Settles(id, "Claimed") =>
       LET g == gifts[id]
       IN balance'[g.token][g.receiver]
            = balance[g.token][g.receiver] + Owed(g)]_vars
=============================================================================
