--------------------------- MODULE GiftEscrowProofs ---------------------------
(***************************************************************************)
(* Theorems about GiftEscrow, for every number of users, tokens and gifts. *)
(***************************************************************************)
EXTENDS GiftEscrow, Induction, TLAPS

\* What set_gift leaves behind when it overwrites a gift or adds the next one.
LEMMA WithGiftTyped ==
  ASSUME TypeOK, NEW n \in Nat, n = giftCounter \/ n = giftCounter + 1,
         NEW id \in 1..n, n = giftCounter + 1 => id = n,
         NEW g \in GiftRecords
  PROVE  /\ WithGift(id, g) \in [1..n -> GiftRecords]
         /\ WithGift(id, g)[id] = g
         /\ \A i \in 1..giftCounter : i # id => WithGift(id, g)[i] = gifts[i]
<1>1. DOMAIN gifts = 1..giftCounter
  BY DEF TypeOK
<1>2. DOMAIN gifts \cup {id} = 1..n
  BY <1>1 DEF TypeOK
<1>3. QED
  BY <1>1, <1>2 DEF WithGift, TypeOK

\* Overwriting an existing gift with a well-typed record keeps the type of gifts.
LEMMA OverwriteTyped ==
  ASSUME TypeOK, NEW id \in DOMAIN gifts, NEW g \in GiftRecords
  PROVE  /\ WithGift(id, g) \in [1..giftCounter -> GiftRecords]
         /\ WithGift(id, g)[id] = g
         /\ \A i \in DOMAIN gifts : i # id => WithGift(id, g)[i] = gifts[i]
<1>1. giftCounter \in Nat /\ DOMAIN gifts = 1..giftCounter
  BY BoundAssumption DEF TypeOK
<1>2. id \in 1..giftCounter /\ DOMAIN gifts \cup {id} = 1..giftCounter
  BY <1>1
<1>3. QED
  BY <1>1, <1>2 DEF WithGift, TypeOK

\* A transfer the token contract accepts keeps every balance a natural number.
LEMMA MovedTyped ==
  ASSUME TypeOK, NEW t \in Tokens, NEW from \in Accounts, NEW to \in Accounts,
         NEW amount \in Nat, CanTransfer(t, from, to, amount)
  PROVE  Moved(t, from, to, amount) \in [Tokens -> [Accounts -> Nat]]
<1> DEFINE row == [a \in Accounts |-> balance[t][a] - (IF a = from THEN amount ELSE 0)
                                                 + (IF a = to THEN amount ELSE 0)]
<1>1. balance[t] \in [Accounts -> Nat] /\ balance[t][from] >= amount
  BY DEF TypeOK, CanTransfer
<1>2. row \in [Accounts -> Nat]
  BY <1>1
<1>3. QED
  BY <1>2 DEF TypeOK, Moved

\* A top-up keeps the type of a gift.
LEMMA ToppedUpTyped ==
  ASSUME NEW g \in GiftRecords, NEW u \in Users, NEW a \in Nat
  PROVE  ToppedUp(g, u, a) \in GiftRecords
<1> DEFINE c == [g.contributions EXCEPT ![u] = @ + a]
           h == [g EXCEPT !.contributions = c]
<1>1. g.total_amount \in Nat /\ g.contributions \in [Users -> Nat]
  BY DEF GiftRecords, ContributionMaps
<1>2. c \in ContributionMaps
  BY <1>1 DEF ContributionMaps
<1>3. ToppedUp(g, u, a) = [g EXCEPT !.contributions = c, !.total_amount = @ + a]
  BY DEF ToppedUp, GiftRecords
<1> HIDE DEF c
<1>4. h \in GiftRecords /\ h.total_amount = g.total_amount
  BY <1>2 DEF GiftRecords
<1>5. ToppedUp(g, u, a) = [h EXCEPT !.total_amount = @ + a]
  BY <1>3, <1>4
<1> HIDE DEF h
<1>6. QED
  BY <1>1, <1>4, <1>5 DEF GiftRecords

\* Every step keeps the types.
LEMMA StepTyped ==
  ASSUME TypeOK, [Next]_vars
  PROVE  TypeOK'
<1>0. DOMAIN gifts = 1..giftCounter /\ giftCounter \in Nat /\ now \in Nat
  BY BoundAssumption DEF TypeOK
<1>1. ASSUME NEW s \in Users, NEW r \in Users, NEW k \in Users, NEW t \in Tokens,
             NEW a \in 1..MaxAmount, NEW e \in 1..MaxTime,
             NEW c \in ClaimConditions, CreateGift(s, r, t, a, e, c, k)
      PROVE  TypeOK'
  <2> DEFINE g == [sender |-> s, receiver |-> r, token |-> t, total_amount |-> a,
                   contributions |-> [u \in Users |-> IF u = s THEN a ELSE 0],
                   expires_at |-> e, status |-> "Open", condition |-> c,
                   steps_completed |-> 0, step_unlocker |-> k]
  <2>1. g \in GiftRecords
    BY DEF GiftRecords, GiftStatus, ContributionMaps
  <2>2. giftCounter' \in 0..MaxGifts /\ giftCounter' = giftCounter + 1
    BY <1>1, <1>0, BoundAssumption DEF CreateGift, TypeOK
  <2>3. gifts' = WithGift(giftCounter', g)
    BY <1>1 DEF CreateGift
  <2> HIDE DEF g
  <2>4. gifts' \in [1..giftCounter' -> GiftRecords]
    BY <2>1, <2>2, <2>3, <1>0, WithGiftTyped
  <2>5. balance' \in [Tokens -> [Accounts -> Nat]]
    <3>1. /\ CanTransfer(t, s, Escrow, a)
          /\ balance' = Moved(t, s, Escrow, a)
      BY <1>1 DEF CreateGift
    <3>2. a \in Nat
      BY BoundAssumption
    <3>3. QED
      BY <3>1, <3>2, MovedTyped DEF Accounts
  <2>6. QED
    BY <1>1, <2>2, <2>4, <2>5 DEF CreateGift, TypeOK
<1>2. ASSUME NEW u \in Users, NEW id \in DOMAIN gifts, NEW a \in 1..MaxAmount,
             Contribute(u, id, a)
      PROVE  TypeOK'
  <2>1. gifts[id] \in GiftRecords
    BY DEF TypeOK
  <2>2. ToppedUp(gifts[id], u, a) \in GiftRecords
    <3>1. a \in Nat
      BY BoundAssumption
    <3>2. QED
      BY <2>1, <3>1, ToppedUpTyped
  <2>3. gifts' \in [1..giftCounter' -> GiftRecords]
    <3>1. gifts' = WithGift(id, ToppedUp(gifts[id], u, a)) /\ giftCounter' = giftCounter
      BY <1>2 DEF Contribute
    <3>2. QED
      BY <3>1, <2>2, OverwriteTyped
  <2>4. balance' \in [Tokens -> [Accounts -> Nat]]
    <3>1. /\ CanTransfer(gifts[id].token, u, Escrow, a)
          /\ balance' = Moved(gifts[id].token, u, Escrow, a)
      BY <1>2 DEF Contribute
    <3>2. gifts[id].token \in Tokens /\ a \in Nat
      BY <2>1, BoundAssumption DEF GiftRecords
    <3>3. QED
      BY <3>1, <3>2, MovedTyped DEF Accounts
  <2>5. QED
    BY <1>2, <2>3, <2>4 DEF Contribute, TypeOK
<1>3. ASSUME NEW u \in Users, NEW id \in DOMAIN gifts, UnlockStep(u, id)
      PROVE  TypeOK'
  <2>1. gifts[id] \in GiftRecords
    BY DEF TypeOK
  <2>2. [gifts[id] EXCEPT !.steps_completed = @ + 1] \in GiftRecords
    BY <2>1 DEF GiftRecords
  <2>3. gifts' \in [1..giftCounter' -> GiftRecords]
    <3>1. gifts' = WithGift(id, [gifts[id] EXCEPT !.steps_completed = @ + 1]) /\ giftCounter' = giftCounter
      BY <1>3 DEF UnlockStep
    <3>2. QED
      BY <3>1, <2>2, OverwriteTyped
  <2>4. QED
    BY <1>3, <2>3 DEF UnlockStep, TypeOK
<1>4. ASSUME NEW u \in Users, NEW id \in DOMAIN gifts,
             NEW ans \in Answers \cup {NoAnswer}, Claim(id, u, ans)
      PROVE  TypeOK'
  <2>1. gifts[id] \in GiftRecords
    BY DEF TypeOK
  <2>2. [gifts[id] EXCEPT !.status = "Claimed"] \in GiftRecords
    BY <2>1 DEF GiftRecords, GiftStatus
  <2>3. gifts' \in [1..giftCounter' -> GiftRecords]
    <3>1. gifts' = WithGift(id, [gifts[id] EXCEPT !.status = "Claimed"]) /\ giftCounter' = giftCounter
      BY <1>4 DEF Claim
    <3>2. QED
      BY <3>1, <2>2, OverwriteTyped
  <2>4. balance' \in [Tokens -> [Accounts -> Nat]]
    <3>1. /\ CanTransfer(gifts[id].token, Escrow, u, Payout(gifts[id]))
          /\ balance' = Moved(gifts[id].token, Escrow, u, Payout(gifts[id]))
      BY <1>4 DEF Claim
    <3>2. gifts[id].token \in Tokens /\ Payout(gifts[id]) \in Nat
      BY <2>1 DEF GiftRecords, Payout
    <3>3. QED
      BY <3>1, <3>2, MovedTyped DEF Accounts
  <2>5. QED
    BY <1>4, <2>3, <2>4 DEF Claim, TypeOK
<1>5. ASSUME NEW u \in Users, NEW id \in DOMAIN gifts, Refund(id, u)
      PROVE  TypeOK'
  <2>1. gifts[id] \in GiftRecords
    BY DEF TypeOK
  <2>2. [gifts[id] EXCEPT !.status = "Refunded"] \in GiftRecords
    BY <2>1 DEF GiftRecords, GiftStatus
  <2>3. gifts' \in [1..giftCounter' -> GiftRecords]
    <3>1. gifts' = WithGift(id, [gifts[id] EXCEPT !.status = "Refunded"]) /\ giftCounter' = giftCounter
      BY <1>5 DEF Refund
    <3>2. QED
      BY <3>1, <2>2, OverwriteTyped
  <2>4. PICK owed \in 0..balance[gifts[id].token][Escrow] :
               balance' = PaidBack(gifts[id], owed)
    BY <1>5 DEF Refund
  <2>5. balance' \in [Tokens -> [Accounts -> Nat]]
    <3>1. /\ gifts[id].token \in Tokens
          /\ gifts[id].contributions \in [Users -> Nat]
          /\ balance[gifts[id].token] \in [Accounts -> Nat]
      BY <2>1 DEF GiftRecords, ContributionMaps, TypeOK
    <3> DEFINE row == [a \in Accounts |->
                         IF a = Escrow THEN balance[gifts[id].token][a] - owed
                         ELSE balance[gifts[id].token][a] + gifts[id].contributions[a]]
    <3>2. row \in [Accounts -> Nat]
      BY <3>1 DEF Accounts
    <3>3. QED
      BY <2>4, <3>2 DEF PaidBack, TypeOK
  <2>6. QED
    BY <1>5, <2>3, <2>5 DEF Refund, TypeOK
<1>6. ASSUME NEW u \in Users, NEW t \in Tokens,
             DropTrustline(u, t) \/ AddTrustline(u, t)
      PROVE  TypeOK'
  BY <1>6 DEF DropTrustline, AddTrustline, TypeOK
<1>7. CASE Tick
  BY <1>7, <1>0, BoundAssumption DEF Tick, TypeOK
<1>8. CASE UNCHANGED vars
  BY <1>8 DEF vars, TypeOK
<1>9. QED
  BY <1>1, <1>2, <1>3, <1>4, <1>5, <1>6, <1>7, <1>8 DEF Next

\* Type correctness: in particular no balance ever becomes negative and gift
\* identifiers are dense from 1, as the contract's counter gives them out.
THEOREM TypeCorrect == Spec => []TypeOK
<1>1. Init => TypeOK
  BY AddressAssumption, BoundAssumption DEF Init, TypeOK, Accounts
<1>2. TypeOK /\ [Next]_vars => TypeOK'
  BY StepTyped
<1>3. QED
  BY <1>1, <1>2, PTL DEF Spec

-----------------------------------------------------------------------------
(* Step gates *)

GateInv == StepsWithinGate /\ ClaimedThroughGate

\* What GateInv says of one gift, and what every action that writes a gift
\* establishes for the record it writes.
GateOK(g) ==
  /\ g.steps_completed <= g.condition.steps
  /\ g.status = "Claimed" /\ g.condition.kind = "StepGate"
       => g.steps_completed = g.condition.steps

\* Every claim condition has a natural number of steps, zero without a gate.
LEMMA ConditionSteps == ASSUME NEW c \in ClaimConditions PROVE c.steps \in Nat
<1>1. CASE c \in [kind : {"None"}, answer : {NoAnswer}, steps : {0}]
  BY <1>1
<1>2. CASE c \in [kind : {"AnswerHash"}, answer : Answers, steps : {0}]
  BY <1>2
<1>3. CASE c \in [kind : {"StepGate"}, answer : {NoAnswer}, steps : StepGates]
  <2>1. c.steps \in StepGates
    BY <1>3
  <2>2. QED
    BY <2>1, BoundAssumption
<1>4. QED
  BY <1>1, <1>2, <1>3 DEF ClaimConditions

\* The gate invariant holds of the state when it holds of each gift by itself.
LEMMA GateInvPerGift == GateInv <=> \A id \in DOMAIN gifts : GateOK(gifts[id])
BY DEF GateInv, GateOK, StepsWithinGate, ClaimedThroughGate

\* Every step keeps every gate within its total, and complete once claimed.
LEMMA StepGated ==
  ASSUME TypeOK, GateInv, [Next]_vars
  PROVE  GateInv'
<1>0. /\ DOMAIN gifts = 1..giftCounter /\ giftCounter \in Nat
      /\ \A id \in DOMAIN gifts : gifts[id] \in GiftRecords /\ GateOK(gifts[id])
  BY BoundAssumption, GateInvPerGift DEF TypeOK
<1> SUFFICES \A i \in DOMAIN gifts' : GateOK(gifts'[i])
  BY DEF GateInv, GateOK, StepsWithinGate, ClaimedThroughGate
<1>A. ASSUME NEW id, NEW g, gifts' = WithGift(id, g), GateOK(g)
      PROVE  \A i \in DOMAIN gifts' : GateOK(gifts'[i])
  BY <1>A, <1>0 DEF WithGift
<1>1. ASSUME NEW s \in Users, NEW r \in Users, NEW k \in Users, NEW t \in Tokens,
             NEW a \in 1..MaxAmount, NEW e \in 1..MaxTime,
             NEW c \in ClaimConditions, CreateGift(s, r, t, a, e, c, k)
      PROVE  \A i \in DOMAIN gifts' : GateOK(gifts'[i])
  <2> DEFINE g == [sender |-> s, receiver |-> r, token |-> t, total_amount |-> a,
                   contributions |-> [u \in Users |-> IF u = s THEN a ELSE 0],
                   expires_at |-> e, status |-> "Open", condition |-> c,
                   steps_completed |-> 0, step_unlocker |-> k]
  <2>1. c.steps \in Nat
    BY ConditionSteps
  <2>2. GateOK(g)
    BY <2>1 DEF GateOK
  <2>3. gifts' = WithGift(giftCounter + 1, g)
    BY <1>1 DEF CreateGift
  <2> HIDE DEF g
  <2>4. QED
    BY <2>2, <2>3, <1>A
<1>2. ASSUME NEW u \in Users, NEW id \in DOMAIN gifts, NEW a \in 1..MaxAmount,
             Contribute(u, id, a)
      PROVE  \A i \in DOMAIN gifts' : GateOK(gifts'[i])
  <2>1. GateOK(ToppedUp(gifts[id], u, a))
    BY <1>0 DEF GateOK, ToppedUp, GiftRecords
  <2>2. QED
    BY <1>2, <2>1, <1>A DEF Contribute
<1>3. ASSUME NEW u \in Users, NEW id \in DOMAIN gifts, UnlockStep(u, id)
      PROVE  \A i \in DOMAIN gifts' : GateOK(gifts'[i])
  <2> DEFINE g == [gifts[id] EXCEPT !.steps_completed = @ + 1]
  <2>1. gifts[id].steps_completed \in Nat /\ gifts[id].condition.steps \in Nat
    BY <1>0, ConditionSteps DEF GiftRecords
  <2>2. gifts[id].steps_completed < gifts[id].condition.steps
    BY <1>3 DEF UnlockStep, StepsRemain
  <2>3. gifts[id].condition.kind = "StepGate" /\ gifts[id].status # "Claimed"
    BY <1>0, <1>3, <2>1, <2>2 DEF UnlockStep, GateOK
  <2>4. GateOK(g)
    BY <1>0, <2>1, <2>2, <2>3 DEF GateOK, GiftRecords
  <2>5. gifts' = WithGift(id, g)
    BY <1>3 DEF UnlockStep
  <2>6. QED
    BY <2>4, <2>5, <1>A
<1>4. ASSUME NEW u \in Users, NEW id \in DOMAIN gifts,
             NEW ans \in Answers \cup {NoAnswer}, Claim(id, u, ans)
      PROVE  \A i \in DOMAIN gifts' : GateOK(gifts'[i])
  <2> DEFINE g == [gifts[id] EXCEPT !.status = "Claimed"]
  <2>1. ConditionMet(gifts[id], ans) /\ gifts' = WithGift(id, g)
    BY <1>4 DEF Claim
  <2>2. gifts[id].condition.kind = "StepGate"
          => gifts[id].steps_completed = gifts[id].condition.steps
    BY <2>1 DEF ConditionMet
  <2>3. GateOK(g)
    BY <1>0, <2>2 DEF GateOK, GiftRecords
  <2>4. QED
    BY <2>1, <2>3, <1>A
<1>5. ASSUME NEW u \in Users, NEW id \in DOMAIN gifts, Refund(id, u)
      PROVE  \A i \in DOMAIN gifts' : GateOK(gifts'[i])
  <2> DEFINE g == [gifts[id] EXCEPT !.status = "Refunded"]
  <2>1. gifts' = WithGift(id, g)
    BY <1>5 DEF Refund
  <2>2. GateOK(g)
    BY <1>0 DEF GateOK, GiftRecords
  <2>3. QED
    BY <2>1, <2>2, <1>A
<1>6. ASSUME gifts' = gifts
      PROVE  \A i \in DOMAIN gifts' : GateOK(gifts'[i])
  BY <1>6, <1>0
<1>7. QED
  BY <1>1, <1>2, <1>3, <1>4, <1>5, <1>6
     DEF Next, vars, Tick, DropTrustline, AddTrustline

\* The gate of a step-gated gift is never overrun and a gift claimed through
\* it stays exactly complete, although unlock_step ignores the gift's status.
\* The type invariant supplies that counts are naturals and that a condition
\* without a gate has zero steps.
THEOREM GateNeverOverrun == Spec => [](StepsWithinGate /\ ClaimedThroughGate)
<1>1. Init => GateInv
  BY GateInvPerGift DEF Init
<1>2. TypeOK /\ GateInv /\ [Next]_vars => GateInv'
  BY StepGated
<1>3. QED
  BY <1>1, <1>2, TypeCorrect, PTL DEF Spec, GateInv

\* So the gate a claim went through is still exactly complete ever after, while
\* unlock_step keeps being callable on the claimed gift.
THEOREM ClaimedGateStaysComplete == Spec => []ClaimedThroughGate
BY GateNeverOverrun, PTL

-----------------------------------------------------------------------------
(* The contract implements the life of a gift *)

\* How a write to one gift shows in the abstract variables.
LEMMA BarsAfterWrite ==
  ASSUME TypeOK, NEW id \in 1..MaxGifts, NEW g,
         id \in DOMAIN gifts \/ id = giftCounter + 1, gifts' = WithGift(id, g)
  PROVE  /\ phaseBar' = [phaseBar EXCEPT ![id] = PhaseOf(g)]
         /\ deadlineBar' = [deadlineBar EXCEPT ![id] = g.expires_at]
<1>1. DOMAIN gifts' = DOMAIN gifts \cup {id} /\ gifts'[id] = g
      /\ \A i \in DOMAIN gifts : i # id => gifts'[i] = gifts[i]
  BY DEF WithGift
<1>2. ASSUME NEW i \in 1..MaxGifts
      PROVE  /\ phaseBar'[i] = [phaseBar EXCEPT ![id] = PhaseOf(g)][i]
             /\ deadlineBar'[i] = [deadlineBar EXCEPT ![id] = g.expires_at][i]
  <2>1. CASE i = id
    BY <1>1, <2>1 DEF phaseBar, deadlineBar, PhaseOf
  <2>2. CASE i # id /\ i \in DOMAIN gifts
    <3>1. i \in DOMAIN gifts' /\ gifts'[i] = gifts[i]
      BY <1>1, <2>2
    <3>2. QED
      BY <2>2, <3>1 DEF phaseBar, deadlineBar, PhaseOf
  <2>3. CASE i # id /\ i \notin DOMAIN gifts
    <3>1. i \notin DOMAIN gifts'
      BY <1>1, <2>3
    <3>2. QED
      BY <2>3, <3>1 DEF phaseBar, deadlineBar, PhaseOf
  <2>4. QED
    BY <2>1, <2>2, <2>3
<1>3. QED
  BY <1>2 DEF phaseBar, deadlineBar

\* One way out of "open" per gift, claims strictly before the fixed deadline
\* and refunds from the deadline on: every step of the contract is a step of
\* GiftLifecycle or leaves its variables unchanged.
THEOREM ImplementsLifecycle == Spec => LifecycleSpec
<1>1. Init => Lifecycle!Init
  BY DEF Init, Lifecycle!Init, phaseBar, deadlineBar
<1>2. TypeOK /\ [Next]_vars => [Lifecycle!Next]_(Lifecycle!vars)
  <2> SUFFICES ASSUME TypeOK, [Next]_vars
               PROVE  Lifecycle!Next \/ UNCHANGED Lifecycle!vars
    OBVIOUS
  <2>0. /\ giftCounter \in Nat /\ DOMAIN gifts = 1..giftCounter
        /\ DOMAIN gifts \subseteq 1..MaxGifts
        /\ \A id \in DOMAIN gifts : gifts[id] \in GiftRecords
        /\ now \in Nat
    BY BoundAssumption DEF TypeOK
  <2>1. ASSUME NEW s \in Users, NEW r \in Users, NEW k \in Users, NEW t \in Tokens,
               NEW a \in 1..MaxAmount, NEW e \in 1..MaxTime,
               NEW c \in ClaimConditions, CreateGift(s, r, t, a, e, c, k)
        PROVE  \E id \in 1..MaxGifts : Lifecycle!Open(id)
    <3> DEFINE id == giftCounter + 1
    <3> DEFINE g == [sender |-> s, receiver |-> r, token |-> t, total_amount |-> a,
                     contributions |-> [u \in Users |-> IF u = s THEN a ELSE 0],
                     expires_at |-> e, status |-> "Open", condition |-> c,
                     steps_completed |-> 0, step_unlocker |-> k]
    <3>1. /\ id \in 1..MaxGifts /\ id \notin DOMAIN gifts
          /\ e > now /\ now' = now /\ gifts' = WithGift(id, g)
      BY <2>0, <2>1, BoundAssumption DEF CreateGift
    <3>2. g.expires_at = e /\ PhaseOf(g) = "open" /\ e \in Nat
      BY BoundAssumption DEF PhaseOf
    <3> HIDE DEF g, id
    <3>3. /\ phaseBar' = [phaseBar EXCEPT ![id] = "open"]
          /\ deadlineBar' = [deadlineBar EXCEPT ![id] = e]
      BY <3>1, <3>2, BarsAfterWrite DEF id
    <3>4. phaseBar[id] = "absent" /\ deadlineBar'[id] = e
      BY <3>1, <3>3 DEF phaseBar, deadlineBar
    <3>5. Lifecycle!Open(id)
      BY <3>1, <3>2, <3>3, <3>4 DEF Lifecycle!Open
    <3>6. QED
      BY <3>1, <3>5
  <2>A. ASSUME NEW id \in DOMAIN gifts, NEW g, gifts' = WithGift(id, g),
               g.status = gifts[id].status, g.expires_at = gifts[id].expires_at,
               now' = now
        PROVE  UNCHANGED Lifecycle!vars
    <3>1. /\ phaseBar' = [phaseBar EXCEPT ![id] = PhaseOf(gifts[id])]
          /\ deadlineBar' = [deadlineBar EXCEPT ![id] = gifts[id].expires_at]
      BY <2>A, <2>0, BarsAfterWrite DEF PhaseOf
    <3>2. phaseBar[id] = PhaseOf(gifts[id]) /\ deadlineBar[id] = gifts[id].expires_at
      BY <2>0 DEF phaseBar, deadlineBar
    <3>3. phaseBar' = phaseBar /\ deadlineBar' = deadlineBar
      BY <3>1, <3>2 DEF phaseBar, deadlineBar
    <3>4. QED
      BY <2>A, <3>3 DEF Lifecycle!vars
  <2>2. ASSUME NEW u \in Users, NEW id \in DOMAIN gifts, NEW a \in 1..MaxAmount,
               Contribute(u, id, a)
        PROVE  UNCHANGED Lifecycle!vars
    <3>1. /\ gifts' = WithGift(id, ToppedUp(gifts[id], u, a)) /\ now' = now
          /\ gifts[id] \in GiftRecords
      BY <2>2, <2>0 DEF Contribute
    <3>2. /\ ToppedUp(gifts[id], u, a).status = gifts[id].status
          /\ ToppedUp(gifts[id], u, a).expires_at = gifts[id].expires_at
      BY <3>1 DEF ToppedUp, GiftRecords
    <3>3. QED
      BY <3>1, <3>2, <2>A
  <2>3. ASSUME NEW u \in Users, NEW id \in DOMAIN gifts, UnlockStep(u, id)
        PROVE  UNCHANGED Lifecycle!vars
    <3> DEFINE g == [gifts[id] EXCEPT !.steps_completed = @ + 1]
    <3>1. gifts' = WithGift(id, g) /\ now' = now /\ gifts[id] \in GiftRecords
      BY <2>3, <2>0 DEF UnlockStep
    <3>2. g.status = gifts[id].status /\ g.expires_at = gifts[id].expires_at
      BY <3>1 DEF GiftRecords
    <3>3. QED
      BY <3>1, <3>2, <2>A
  <2>4. ASSUME NEW u \in Users, NEW id \in DOMAIN gifts,
               NEW ans \in Answers \cup {NoAnswer}, Claim(id, u, ans)
        PROVE  Lifecycle!GiveToReceiver(id)
    <3> DEFINE g == [gifts[id] EXCEPT !.status = "Claimed"]
    <3>1. /\ gifts' = WithGift(id, g) /\ now' = now /\ gifts[id] \in GiftRecords
          /\ gifts[id].status = "Open" /\ now < gifts[id].expires_at
      BY <2>4, <2>0 DEF Claim, OpenAndUnexpired
    <3>2. PhaseOf(g) = "claimed" /\ g.expires_at = gifts[id].expires_at
      BY <3>1 DEF GiftRecords, PhaseOf
    <3>3. phaseBar[id] = "open" /\ deadlineBar[id] = gifts[id].expires_at
      BY <3>1, <2>0 DEF phaseBar, deadlineBar, PhaseOf
    <3> HIDE DEF g
    <3>4. /\ phaseBar' = [phaseBar EXCEPT ![id] = "claimed"]
          /\ deadlineBar' = [deadlineBar EXCEPT ![id] = gifts[id].expires_at]
      BY <3>1, <3>2, <2>0, BarsAfterWrite
    <3>5. deadlineBar' = deadlineBar
      BY <3>3, <3>4 DEF deadlineBar
    <3>6. QED
      BY <3>1, <3>3, <3>4, <3>5 DEF Lifecycle!GiveToReceiver
  <2>5. ASSUME NEW u \in Users, NEW id \in DOMAIN gifts, Refund(id, u)
        PROVE  Lifecycle!ReturnToFunders(id)
    <3> DEFINE g == [gifts[id] EXCEPT !.status = "Refunded"]
    <3>1. /\ gifts' = WithGift(id, g) /\ now' = now /\ gifts[id] \in GiftRecords
          /\ gifts[id].status = "Open" /\ now >= gifts[id].expires_at
      BY <2>5, <2>0 DEF Refund, Refundable
    <3>2. PhaseOf(g) = "refunded" /\ g.expires_at = gifts[id].expires_at
      BY <3>1 DEF GiftRecords, PhaseOf
    <3>3. phaseBar[id] = "open" /\ deadlineBar[id] = gifts[id].expires_at
      BY <3>1, <2>0 DEF phaseBar, deadlineBar, PhaseOf
    <3> HIDE DEF g
    <3>4. /\ phaseBar' = [phaseBar EXCEPT ![id] = "refunded"]
          /\ deadlineBar' = [deadlineBar EXCEPT ![id] = gifts[id].expires_at]
      BY <3>1, <3>2, <2>0, BarsAfterWrite
    <3>5. deadlineBar' = deadlineBar
      BY <3>3, <3>4 DEF deadlineBar
    <3>6. QED
      BY <3>1, <3>3, <3>4, <3>5 DEF Lifecycle!ReturnToFunders
  <2>6. CASE Tick
    <3>1. phaseBar' = phaseBar /\ deadlineBar' = deadlineBar /\ now' = now + 1
      BY <2>6 DEF Tick, phaseBar, deadlineBar, PhaseOf
    <3>2. Lifecycle!TimePasses
      BY <3>1, <2>0 DEF Lifecycle!TimePasses
    <3>3. QED
      BY <3>2 DEF Lifecycle!Next
  <2>7. ASSUME UNCHANGED <<gifts, now>>
        PROVE  UNCHANGED Lifecycle!vars
    BY <2>7 DEF Lifecycle!vars, phaseBar, deadlineBar, PhaseOf
  <2>8. QED
    BY <2>0, <2>1, <2>2, <2>3, <2>4, <2>5, <2>6, <2>7
       DEF Next, vars, DropTrustline, AddTrustline, Lifecycle!Next
<1>3. QED
  BY <1>1, <1>2, TypeCorrect, PTL DEF Spec, LifecycleSpec, Lifecycle!Spec

-----------------------------------------------------------------------------
(* The money: what the gifts say they hold is what the escrow holds *)

\* A fresh gift owes its sender what it was created with.
LEMMA OwedFresh ==
  ASSUME NEW s \in Users, NEW a \in Nat
  PROVE  Total([u \in Users |-> IF u = s THEN a ELSE 0]) = a
<1> DEFINE z == [u \in Users |-> 0]
           f == [u \in Users |-> IF u = s THEN a ELSE 0]
<1>1. z \in [Users -> Nat] /\ z \in [Users -> Int] /\ f \in [Users -> Int]
      /\ z[s] = 0 /\ f[s] = a /\ AgreeOn(z, f, Users \ {s}) /\ \A u \in Users : z[u] = 0
  BY DEF AgreeOn
<1>2. IsFiniteSet(Users)
  BY AddressAssumption
<1> HIDE DEF z, f
<1>3. Total(z) = 0
  BY <1>1, <1>2, TotalNat
<1>4. Total(f) = Total(z) - z[s] + f[s]
  BY <1>1, <1>2, TotalChanged
<1>5. QED
  BY <1>1, <1>3, <1>4 DEF f

\* What a gift owes is a natural, and a top-up adds its amount to it.
LEMMA OwedToppedUp ==
  ASSUME NEW g \in GiftRecords, NEW u \in Users, NEW a \in Nat
  PROVE  /\ Owed(g) \in Nat
         /\ Owed(ToppedUp(g, u, a)) = Owed(g) + a
<1> DEFINE c == g.contributions
           d == [c EXCEPT ![u] = @ + a]
<1>1. c \in [Users -> Nat] /\ c \in [Users -> Int] /\ c[u] \in Nat
  BY DEF GiftRecords, ContributionMaps
<1>2. d \in [Users -> Int] /\ d[u] = c[u] + a /\ AgreeOn(c, d, Users \ {u})
  BY <1>1 DEF AgreeOn
<1>3. IsFiniteSet(Users)
  BY AddressAssumption
<1>4. ToppedUp(g, u, a).contributions = d
  BY DEF ToppedUp, GiftRecords
<1> HIDE DEF c, d
<1>5. Total(c) \in Nat
  BY <1>1, <1>3, TotalNat
<1>6. Total(d) = Total(c) - c[u] + d[u]
  BY <1>1, <1>2, <1>3, TotalChanged
<1>7. QED
  BY <1>1, <1>2, <1>4, <1>5, <1>6 DEF Owed, c

\* What the open gifts of a token hold, gift by gift.
Held(gs, t) ==
  [id \in {i \in DOMAIN gs : gs[i].status = "Open" /\ gs[i].token = t} |-> gs[id].total_amount]
HeldBy(g, t) == IF g.status = "Open" /\ g.token = t THEN g.total_amount ELSE 0

\* Writing one gift changes their total by what that gift held and holds.
LEMMA HeldAfterWrite ==
  ASSUME TypeOK, NEW id, NEW g \in GiftRecords, NEW t
  PROVE  /\ Total(Held(gifts, t)) \in Nat
         /\ id \in DOMAIN gifts =>
              Total(Held(WithGift(id, g), t))
                = Total(Held(gifts, t)) - HeldBy(gifts[id], t) + HeldBy(g, t)
         /\ id \notin DOMAIN gifts =>
              Total(Held(WithGift(id, g), t)) = Total(Held(gifts, t)) + HeldBy(g, t)
<1> DEFINE S == {i \in DOMAIN gifts : gifts[i].status = "Open" /\ gifts[i].token = t}
           f == Held(gifts, t)
           h == Held(WithGift(id, g), t)
           now_ == g.status = "Open" /\ g.token = t
<1>1. IsFiniteSet(S) /\ f \in [S -> Nat] /\ f \in [S -> Int]
  <2>1. IsFiniteSet(DOMAIN gifts)
    BY BoundAssumption, FS_Interval DEF TypeOK
  <2>2. IsFiniteSet(S)
    BY <2>1, FS_Subset
  <2>3. \A i \in DOMAIN gifts : gifts[i].total_amount \in Nat
    BY DEF TypeOK, GiftRecords
  <2>4. QED
    BY <2>2, <2>3 DEF Held
<1>2. g.total_amount \in Nat
  BY DEF GiftRecords
<1>3. Total(f) \in Nat
  <2> HIDE DEF S, f
  <2>1. QED
    BY <1>1, TotalNat
<1>4. h = [i \in (S \ {id}) \cup (IF now_ THEN {id} ELSE {})
             |-> IF i = id THEN g.total_amount ELSE f[i]]
  <2>1. DOMAIN WithGift(id, g) = DOMAIN gifts \cup {id} /\ WithGift(id, g)[id] = g
        /\ \A i \in DOMAIN gifts : i # id => WithGift(id, g)[i] = gifts[i]
    BY DEF WithGift
  <2>2. {i \in DOMAIN WithGift(id, g) : WithGift(id, g)[i].status = "Open"
                                        /\ WithGift(id, g)[i].token = t}
          = (S \ {id}) \cup (IF now_ THEN {id} ELSE {})
    BY <2>1
  <2>3. QED
    BY <2>1, <2>2 DEF Held
<1>5. id \in S => id \in DOMAIN gifts /\ HeldBy(gifts[id], t) = f[id]
  BY DEF Held, HeldBy
<1>6. id \notin S /\ id \in DOMAIN gifts => HeldBy(gifts[id], t) = 0
  BY DEF HeldBy
<1>7. HeldBy(g, t) = IF now_ THEN g.total_amount ELSE 0
  BY DEF HeldBy
<1> HIDE DEF S, f, h, now_
<1>8. CASE id \in S /\ now_
  <2>1. h \in [S -> Int] /\ AgreeOn(f, h, S \ {id}) /\ h[id] = g.total_amount
    BY <1>1, <1>2, <1>4, <1>8 DEF AgreeOn
  <2>2. Total(h) = Total(f) - f[id] + h[id]
    BY <1>1, <1>8, <2>1, TotalChanged
  <2>3. QED
    BY <1>3, <1>5, <1>7, <1>8, <2>1, <2>2 DEF f, h
<1>9. CASE id \in S /\ ~now_
  <2> DEFINE T == S \ {id}
  <2>1. OneMore(h, f, T, id)
    BY <1>1, <1>4, <1>9 DEF OneMore, AgreeOn
  <2>2. IsFiniteSet(T)
    BY <1>1, FS_RemoveElement
  <2> HIDE DEF T
  <2>3. Total(h) = Total(f) - f[id]
    BY <2>1, <2>2, TotalAdded
  <2>4. QED
    BY <1>1, <1>3, <1>5, <1>7, <1>9, <2>3 DEF f, h
<1>10. CASE id \notin S /\ now_
  <2>1. OneMore(f, h, S, id) /\ h[id] = g.total_amount
    BY <1>1, <1>2, <1>4, <1>10 DEF OneMore, AgreeOn
  <2>2. Total(h) = Total(f) + h[id]
    BY <1>1, <2>1, TotalAdded
  <2>3. QED
    BY <1>2, <1>3, <1>6, <1>7, <1>10, <2>1, <2>2 DEF f, h
<1>11. CASE id \notin S /\ ~now_
  <2>1. h = f
    BY <1>1, <1>4, <1>11
  <2>2. QED
    BY <1>3, <1>6, <1>7, <1>11, <2>1 DEF f, h
<1>12. QED
  BY <1>8, <1>9, <1>10, <1>11

Funded(g) == g.total_amount = Owed(g)

\* Every step keeps both records of a gift's money in agreement.
LEMMA StepFunded ==
  ASSUME TypeOK, FundedInFull, [Next]_vars
  PROVE  FundedInFull'
<1>0. /\ DOMAIN gifts = 1..giftCounter /\ giftCounter \in Nat
      /\ \A id \in DOMAIN gifts : gifts[id] \in GiftRecords /\ Funded(gifts[id])
  BY BoundAssumption DEF TypeOK, FundedInFull, Funded
<1> SUFFICES \A i \in DOMAIN gifts' : Funded(gifts'[i])
  BY DEF FundedInFull, Funded, Owed
<1>A. ASSUME NEW id, NEW g, gifts' = WithGift(id, g), Funded(g)
      PROVE  \A i \in DOMAIN gifts' : Funded(gifts'[i])
  BY <1>A, <1>0 DEF WithGift
<1>1. ASSUME NEW s \in Users, NEW r \in Users, NEW k \in Users, NEW t \in Tokens,
             NEW a \in 1..MaxAmount, NEW e \in 1..MaxTime,
             NEW c \in ClaimConditions, CreateGift(s, r, t, a, e, c, k)
      PROVE  \A i \in DOMAIN gifts' : Funded(gifts'[i])
  <2> DEFINE g == [sender |-> s, receiver |-> r, token |-> t, total_amount |-> a,
                   contributions |-> [u \in Users |-> IF u = s THEN a ELSE 0],
                   expires_at |-> e, status |-> "Open", condition |-> c,
                   steps_completed |-> 0, step_unlocker |-> k]
  <2>1. Funded(g)
    BY OwedFresh, BoundAssumption DEF Funded, Owed
  <2>2. gifts' = WithGift(giftCounter + 1, g)
    BY <1>1 DEF CreateGift
  <2> HIDE DEF g
  <2>3. QED
    BY <2>1, <2>2, <1>A
<1>2. ASSUME NEW u \in Users, NEW id \in DOMAIN gifts, NEW a \in 1..MaxAmount,
             Contribute(u, id, a)
      PROVE  \A i \in DOMAIN gifts' : Funded(gifts'[i])
  <2>1. a \in Nat /\ gifts[id] \in GiftRecords /\ Funded(gifts[id])
    BY <1>0, BoundAssumption
  <2>2. ToppedUp(gifts[id], u, a).total_amount = gifts[id].total_amount + a
    BY <2>1 DEF ToppedUp, GiftRecords
  <2>3. Owed(ToppedUp(gifts[id], u, a)) = Owed(gifts[id]) + a
    BY <2>1, OwedToppedUp
  <2>4. Funded(ToppedUp(gifts[id], u, a))
    BY <2>1, <2>2, <2>3 DEF Funded
  <2>5. QED
    BY <1>2, <2>4, <1>A DEF Contribute
<1>B. ASSUME NEW id \in DOMAIN gifts, NEW g, gifts' = WithGift(id, g),
             g.total_amount = gifts[id].total_amount,
             g.contributions = gifts[id].contributions
      PROVE  \A i \in DOMAIN gifts' : Funded(gifts'[i])
  <2>1. Funded(g)
    BY <1>B, <1>0 DEF Funded, Owed
  <2>2. QED
    BY <2>1, <1>A, <1>B
<1>3. ASSUME NEW u \in Users, NEW id \in DOMAIN gifts, UnlockStep(u, id)
      PROVE  \A i \in DOMAIN gifts' : Funded(gifts'[i])
  BY <1>3, <1>B, <1>0 DEF UnlockStep, GiftRecords
<1>4. ASSUME NEW u \in Users, NEW id \in DOMAIN gifts,
             NEW ans \in Answers \cup {NoAnswer}, Claim(id, u, ans)
      PROVE  \A i \in DOMAIN gifts' : Funded(gifts'[i])
  BY <1>4, <1>B, <1>0 DEF Claim, GiftRecords
<1>5. ASSUME NEW u \in Users, NEW id \in DOMAIN gifts, Refund(id, u)
      PROVE  \A i \in DOMAIN gifts' : Funded(gifts'[i])
  BY <1>5, <1>B, <1>0 DEF Refund, GiftRecords
<1>6. ASSUME gifts' = gifts
      PROVE  \A i \in DOMAIN gifts' : Funded(gifts'[i])
  BY <1>6, <1>0
<1>7. QED
  BY <1>1, <1>2, <1>3, <1>4, <1>5, <1>6
     DEF Next, vars, Tick, DropTrustline, AddTrustline

\* Both records of a gift's money agree, whatever is written to it.
THEOREM FundsAgree == Spec => []FundedInFull
<1>1. Init => FundedInFull
  BY DEF Init, FundedInFull
<1>2. TypeOK /\ FundedInFull /\ [Next]_vars => FundedInFull'
  BY StepFunded
<1>3. QED
  BY <1>1, <1>2, TypeCorrect, PTL DEF Spec

\* A transfer between two accounts, seen from the escrow's own.
LEMMA MovedEscrow ==
  ASSUME TypeOK, NEW t \in Tokens, NEW u \in Users, NEW amount \in Nat, NEW s \in Tokens
  PROVE  /\ Moved(t, u, Escrow, amount)[s][Escrow]
              = balance[s][Escrow] + IF s = t THEN amount ELSE 0
         /\ Moved(t, Escrow, u, amount)[s][Escrow]
              = balance[s][Escrow] - IF s = t THEN amount ELSE 0
         /\ balance[s][Escrow] \in Nat
BY AddressAssumption DEF TypeOK, Accounts, Moved

\* The record of a new gift.
FreshGift(s, r, t, a, e, c, k) ==
  [sender |-> s, receiver |-> r, token |-> t, total_amount |-> a,
   contributions |-> [u \in Users |-> IF u = s THEN a ELSE 0],
   expires_at |-> e, status |-> "Open", condition |-> c,
   steps_completed |-> 0, step_unlocker |-> k]

\* It is well typed and counts for its own token only.
LEMMA FreshHeld ==
  ASSUME NEW s \in Users, NEW r \in Users, NEW v \in Tokens, NEW a \in Nat, NEW e \in Nat,
         NEW c \in ClaimConditions, NEW k \in Users, NEW t
  PROVE  /\ FreshGift(s, r, v, a, e, c, k) \in GiftRecords
         /\ HeldBy(FreshGift(s, r, v, a, e, c, k), t) = IF t = v THEN a ELSE 0
BY DEF FreshGift, GiftRecords, GiftStatus, ContributionMaps, HeldBy

\* Every step moves the escrow's balance by what it moves of the open gifts.
LEMMA StepSolvent ==
  ASSUME TypeOK, FundedInFull, Solvency, [Next]_vars
  PROVE  Solvency'
<1> SUFFICES ASSUME NEW t \in Tokens
             PROVE  balance'[t][Escrow] = Total(Held(gifts', t))
  BY DEF Solvency, OpenGifts, Held
<1>0. /\ DOMAIN gifts = 1..giftCounter /\ giftCounter \in Nat
      /\ \A id \in DOMAIN gifts : gifts[id] \in GiftRecords /\ Funded(gifts[id])
  BY BoundAssumption DEF TypeOK, FundedInFull, Funded
<1>00. balance[t][Escrow] = Total(Held(gifts, t))
  BY DEF Solvency, OpenGifts, Held
<1>1. ASSUME NEW s \in Users, NEW r \in Users, NEW k \in Users, NEW v \in Tokens,
             NEW a \in 1..MaxAmount, NEW e \in 1..MaxTime,
             NEW c \in ClaimConditions, CreateGift(s, r, v, a, e, c, k)
      PROVE  balance'[t][Escrow] = Total(Held(gifts', t))
  <2> DEFINE g == FreshGift(s, r, v, a, e, c, k)
  <2>1. a \in Nat /\ e \in Nat
    BY BoundAssumption
  <2>2. g \in GiftRecords /\ HeldBy(g, t) = IF t = v THEN a ELSE 0
    BY <2>1, FreshHeld
  <2>3. gifts' = WithGift(giftCounter + 1, g) /\ balance' = Moved(v, s, Escrow, a)
    BY <1>1 DEF CreateGift, FreshGift
  <2>4. giftCounter + 1 \notin DOMAIN gifts
    BY <1>0
  <2> HIDE DEF g
  <2>5. Total(Held(gifts', t)) = Total(Held(gifts, t)) + HeldBy(g, t)
    BY <2>2, <2>3, <2>4, HeldAfterWrite
  <2>6. QED
    BY <1>00, <2>1, <2>2, <2>3, <2>5, MovedEscrow
<1>A. ASSUME NEW id \in DOMAIN gifts, NEW g \in GiftRecords, gifts' = WithGift(id, g)
      PROVE  /\ Total(Held(gifts', t))
                  = Total(Held(gifts, t)) - HeldBy(gifts[id], t) + HeldBy(g, t)
             /\ Total(Held(gifts, t)) \in Nat
             /\ HeldBy(gifts[id], t) \in Nat
  <2>1. HeldBy(gifts[id], t) \in Nat
    BY <1>0 DEF HeldBy, GiftRecords
  <2>2. QED
    BY <1>A, <2>1, HeldAfterWrite
<1>2. ASSUME NEW u \in Users, NEW id \in DOMAIN gifts, NEW a \in 1..MaxAmount,
             Contribute(u, id, a)
      PROVE  balance'[t][Escrow] = Total(Held(gifts', t))
  <2> DEFINE g == ToppedUp(gifts[id], u, a)
  <2>1. a \in Nat /\ gifts[id] \in GiftRecords /\ gifts[id].token \in Tokens
    BY <1>0, BoundAssumption DEF GiftRecords
  <2>2. /\ gifts' = WithGift(id, g) /\ balance' = Moved(gifts[id].token, u, Escrow, a)
        /\ gifts[id].status = "Open"
    BY <1>2 DEF Contribute, OpenAndUnexpired
  <2>3. g \in GiftRecords
    BY <2>1, ToppedUpTyped
  <2>4. HeldBy(g, t) = HeldBy(gifts[id], t) + IF t = gifts[id].token THEN a ELSE 0
    BY <2>1, <2>2 DEF ToppedUp, GiftRecords, HeldBy
  <2> HIDE DEF g
  <2>5. QED
    BY <1>00, <1>A, <2>1, <2>2, <2>3, <2>4, MovedEscrow
<1>3. ASSUME NEW u \in Users, NEW id \in DOMAIN gifts, UnlockStep(u, id)
      PROVE  balance'[t][Escrow] = Total(Held(gifts', t))
  <2> DEFINE g == [gifts[id] EXCEPT !.steps_completed = @ + 1]
  <2>1. gifts' = WithGift(id, g) /\ balance' = balance
    BY <1>3 DEF UnlockStep
  <2>2. g \in GiftRecords /\ HeldBy(g, t) = HeldBy(gifts[id], t)
    BY <1>0 DEF GiftRecords, HeldBy
  <2> HIDE DEF g
  <2>3. QED
    BY <1>00, <1>A, <2>1, <2>2
<1>4. ASSUME NEW u \in Users, NEW id \in DOMAIN gifts,
             NEW ans \in Answers \cup {NoAnswer}, Claim(id, u, ans)
      PROVE  balance'[t][Escrow] = Total(Held(gifts', t))
  <2> DEFINE g == [gifts[id] EXCEPT !.status = "Claimed"]
             paid == gifts[id].total_amount
  <2>1. /\ gifts' = WithGift(id, g) /\ gifts[id].status = "Open"
        /\ balance' = Moved(gifts[id].token, Escrow, u, paid)
    BY <1>4 DEF Claim, OpenAndUnexpired, Payout
  <2>2. gifts[id].token \in Tokens /\ paid \in Nat
    BY <1>0 DEF GiftRecords
  <2>3. /\ g \in GiftRecords /\ HeldBy(g, t) = 0
        /\ HeldBy(gifts[id], t) = IF t = gifts[id].token THEN paid ELSE 0
    BY <1>0, <2>1 DEF GiftRecords, GiftStatus, HeldBy
  <2> HIDE DEF g, paid
  <2>4. QED
    BY <1>00, <1>A, <2>1, <2>2, <2>3, MovedEscrow
<1>5. ASSUME NEW u \in Users, NEW id \in DOMAIN gifts, Refund(id, u)
      PROVE  balance'[t][Escrow] = Total(Held(gifts', t))
  <2> DEFINE g == [gifts[id] EXCEPT !.status = "Refunded"]
             paid == gifts[id].total_amount
  <2>0. gifts[id] \in GiftRecords /\ Funded(gifts[id])
    BY <1>0
  <2>1. gifts' = WithGift(id, g) /\ gifts[id].status = "Open" /\ balance' = PaidBack(gifts[id], paid)
    BY <1>5, <2>0 DEF Refund, Refundable, Funded
  <2>2. gifts[id].token \in Tokens /\ paid \in Nat
    BY <2>0 DEF GiftRecords
  <2>3. /\ g \in GiftRecords /\ HeldBy(g, t) = 0
        /\ HeldBy(gifts[id], t) = IF t = gifts[id].token THEN paid ELSE 0
    BY <2>0, <2>1 DEF GiftRecords, GiftStatus, HeldBy
  <2> HIDE DEF g, paid
  <2>4. balance'[t][Escrow] = balance[t][Escrow] - IF t = gifts[id].token THEN paid ELSE 0
    BY <2>1, <2>2 DEF PaidBack, TypeOK, Accounts
  <2>5. QED
    BY <1>00, <1>A, <2>1, <2>2, <2>3, <2>4
<1>6. ASSUME gifts' = gifts, balance' = balance
      PROVE  balance'[t][Escrow] = Total(Held(gifts', t))
  BY <1>6, <1>00
<1>7. QED
  BY <1>1, <1>2, <1>3, <1>4, <1>5, <1>6
     DEF Next, vars, Tick, DropTrustline, AddTrustline

\* The escrow's balance of each token is exactly the sum of what its open gifts
\* hold, for any number of gifts and funders: no way out of one gift is ever
\* paid with the money of another, and none is left behind.
THEOREM EscrowSolvent == Spec => []Solvency
<1>1. Init => Solvency
  <2> SUFFICES ASSUME Init, NEW t \in Tokens PROVE balance[t][Escrow] = Total(Held(gifts, t))
    BY DEF Solvency, OpenGifts, Held
  <2>1. QED
    BY AddressAssumption, TotalEmpty DEF Init, Held, Accounts
<1>2. TypeOK /\ FundedInFull /\ Solvency /\ [Next]_vars => Solvency'
  BY StepSolvent
<1>3. QED
  BY <1>1, <1>2, TypeCorrect, FundsAgree, PTL DEF Spec

-----------------------------------------------------------------------------
(* The two ways out, and what they pay *)

\* Only claim and refund end a gift, each with its own status.
LEMMA OnlyTwoWaysOut ==
  ASSUME TypeOK, Next, NEW id, NEW st \in {"Claimed", "Refunded"}, Settles(id, st)
  PROVE  /\ gifts[id] \in GiftRecords
         /\ st = "Claimed" => \E ans : Claim(id, gifts[id].receiver, ans)
         /\ st = "Refunded" => \E u \in Users : Refund(id, u)
<1>0. /\ DOMAIN gifts = 1..giftCounter /\ id \in DOMAIN gifts /\ giftCounter \in Nat
      /\ \A j \in DOMAIN gifts : gifts[j] \in GiftRecords
      /\ gifts[id].status = "Open" /\ gifts'[id].status = st
  BY BoundAssumption DEF Settles, TypeOK
<1> DEFINE Goal == /\ st = "Claimed" => \E ans : Claim(id, gifts[id].receiver, ans)
                   /\ st = "Refunded" => \E u \in Users : Refund(id, u)
<1>A. ASSUME NEW j, NEW g, gifts' = WithGift(j, g) PROVE j = id /\ g.status = st
  BY <1>A, <1>0 DEF WithGift
<1>1. ASSUME NEW s \in Users, NEW r \in Users, NEW k \in Users, NEW t \in Tokens,
             NEW a \in 1..MaxAmount, NEW e \in 1..MaxTime,
             NEW c \in ClaimConditions, CreateGift(s, r, t, a, e, c, k)
      PROVE  Goal
  <2>1. giftCounter + 1 = id
    BY <1>1, <1>A DEF CreateGift
  <2>2. QED
    BY <2>1, <1>0
<1>2. ASSUME NEW u \in Users, NEW j \in DOMAIN gifts, NEW a \in 1..MaxAmount,
             Contribute(u, j, a)
      PROVE  Goal
  <2>1. ToppedUp(gifts[j], u, a).status = gifts[j].status
    BY <1>0 DEF ToppedUp, GiftRecords
  <2>2. j = id /\ ToppedUp(gifts[j], u, a).status = st
    BY <1>2, <1>A DEF Contribute
  <2>3. QED
    BY <2>1, <2>2, <1>0
<1>3. ASSUME NEW u \in Users, NEW j \in DOMAIN gifts, UnlockStep(u, j) PROVE Goal
  <2> DEFINE g == [gifts[j] EXCEPT !.steps_completed = @ + 1]
  <2>1. g.status = gifts[j].status
    BY <1>0 DEF GiftRecords
  <2>2. gifts' = WithGift(j, g)
    BY <1>3 DEF UnlockStep
  <2> HIDE DEF g
  <2>3. QED
    BY <2>1, <2>2, <1>A, <1>0
<1>4. ASSUME NEW u \in Users, NEW j \in DOMAIN gifts,
             NEW ans \in Answers \cup {NoAnswer}, Claim(j, u, ans)
      PROVE  Goal
  <2> DEFINE g == [gifts[j] EXCEPT !.status = "Claimed"]
  <2>1. g.status = "Claimed" /\ gifts' = WithGift(j, g) /\ u = gifts[j].receiver
    BY <1>4, <1>0 DEF Claim, GiftRecords
  <2> HIDE DEF g
  <2>2. QED
    BY <2>1, <1>4, <1>A
<1>5. ASSUME NEW u \in Users, NEW j \in DOMAIN gifts, Refund(j, u)
      PROVE  Goal
  <2> DEFINE g == [gifts[j] EXCEPT !.status = "Refunded"]
  <2>1. g.status = "Refunded" /\ gifts' = WithGift(j, g)
    BY <1>5, <1>0 DEF Refund, GiftRecords
  <2> HIDE DEF g
  <2>2. QED
    BY <2>1, <1>5, <1>A
<1>6. ASSUME gifts' = gifts PROVE Goal
  BY <1>6, <1>0
<1>7. QED
  BY <1>0, <1>1, <1>2, <1>3, <1>4, <1>5, <1>6 DEF Next, Tick, DropTrustline, AddTrustline

\* What RefundMakesWhole and ClaimPaysAll ask of a step, for one gift.
PaysShares(id) ==
  Settles(id, "Refunded") =>
    \A u \in Users : balance'[gifts[id].token][u]
                       = balance[gifts[id].token][u] + gifts[id].contributions[u]
PaysReceiver(id) ==
  Settles(id, "Claimed") =>
    balance'[gifts[id].token][gifts[id].receiver]
      = balance[gifts[id].token][gifts[id].receiver] + Owed(gifts[id])

\* Only refund settles a gift as refunded, and it pays each funder the share on
\* record, for any number of funders; the escrow is none of them.
THEOREM RefundPaysShares == Spec => RefundMakesWhole
<1>1. TypeOK /\ [Next]_vars => [\A id \in 1..MaxGifts : PaysShares(id)]_vars
  <2> SUFFICES ASSUME TypeOK, Next, NEW id \in 1..MaxGifts, Settles(id, "Refunded")
               PROVE  \A u \in Users : balance'[gifts[id].token][u]
                        = balance[gifts[id].token][u] + gifts[id].contributions[u]
    BY DEF PaysShares
  <2>1. PICK v \in Users : gifts[id] \in GiftRecords /\ Refund(id, v)
    BY OnlyTwoWaysOut
  <2>2. PICK owed \in 0..balance[gifts[id].token][Escrow] : balance' = PaidBack(gifts[id], owed)
    BY <2>1 DEF Refund
  <2>3. gifts[id].token \in Tokens /\ balance \in [Tokens -> [Accounts -> Nat]]
    BY <2>1 DEF GiftRecords, TypeOK
  <2>4. \A u \in Users : u \in Accounts /\ u # Escrow
    BY AddressAssumption DEF Accounts
  <2>5. QED
    BY <2>2, <2>3, <2>4 DEF PaidBack
<1>2. QED
  BY <1>1, TypeCorrect, PTL DEF Spec, RefundMakesWhole, PaysShares

\* Only claim settles a gift as claimed, and as both records of its money agree
\* (FundsAgree) the receiver gets all that its funders put in.
THEOREM ClaimPaysFunds == Spec => ClaimPaysAll
<1>1. TypeOK /\ FundedInFull /\ [Next]_vars => [\A id \in 1..MaxGifts : PaysReceiver(id)]_vars
  <2> SUFFICES ASSUME TypeOK, FundedInFull, Next, NEW id \in 1..MaxGifts, Settles(id, "Claimed")
               PROVE  balance'[gifts[id].token][gifts[id].receiver]
                        = balance[gifts[id].token][gifts[id].receiver] + Owed(gifts[id])
    BY DEF PaysReceiver
  <2> DEFINE g == gifts[id]
  <2>1. PICK ans : g \in GiftRecords /\ Claim(id, g.receiver, ans)
    BY OnlyTwoWaysOut
  <2>2. /\ balance' = Moved(g.token, Escrow, g.receiver, g.total_amount)
        /\ g.total_amount = Owed(g)
    BY <2>1 DEF Claim, Payout, FundedInFull
  <2>3. /\ g.token \in Tokens /\ g.receiver \in Users /\ Owed(g) \in Nat
        /\ balance \in [Tokens -> [Accounts -> Nat]]
    BY <2>1, <2>2 DEF GiftRecords, TypeOK
  <2>4. g.receiver \in Accounts /\ g.receiver # Escrow
    BY <2>3, AddressAssumption DEF Accounts
  <2> HIDE DEF g
  <2>5. balance'[g.token][g.receiver] = balance[g.token][g.receiver] + Owed(g)
    BY <2>2, <2>3, <2>4 DEF Moved
  <2>6. QED
    BY <2>5 DEF g
<1>2. QED
  BY <1>1, TypeCorrect, FundsAgree, PTL DEF Spec, ClaimPaysAll, PaysReceiver
=============================================================================
