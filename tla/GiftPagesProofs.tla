---------------------------- MODULE GiftPagesProofs ----------------------------
(***************************************************************************)
(* Theorems about GiftPages, for a step gate of any length and any texts:   *)
(* what a page says was done was done, the reason it gives for a failure is *)
(* true of the gift, and an answer it let through is not called wrong.      *)
(***************************************************************************)
EXTENDS GiftPages, Induction, SequenceTheorems

-----------------------------------------------------------------------------
(* The terms a gift is created under *)

\* The condition the contract enforces is the one the row holds, although it
\* went there as a tagged value.
LEMMA TermsAgree ==
  ASSUME NEW t \in Terms
  PROVE  /\ t.enforced.type = t.stored.type
         /\ t.stored.type = "trivia" => t.enforced.answerHash = t.stored.answerHash
         /\ t.stored.type = "stepGate" => t.enforced.totalSteps = TotalSteps
<1>1. PICK form \in Composed :
        t = [stored   |-> toStoredCondition(buildCondition(form)),
             unlocker |-> Unlocker(toStoredCondition(buildCondition(form))),
             enforced |-> decodeCondition(encodeCondition(toConditionInput(
                            toStoredCondition(buildCondition(form)))))]
  BY DEF Terms
<1> DEFINE stored == toStoredCondition(buildCondition(form))
<1>2. t.stored = stored
      /\ t.enforced = decodeCondition(encodeCondition(toConditionInput(stored)))
  BY <1>1
<1> HIDE DEF stored
<1>3. CASE form.conditionType = "trivia"
  <2>1. stored.type = "trivia" /\ stored = [type |-> "trivia", answerHash |-> hashAnswer(form.answer)]
    BY <1>3 DEF stored, toStoredCondition, buildCondition
  <2>2. encodeCondition(toConditionInput(stored)) = <<"AnswerHash", stored.answerHash>>
    BY <2>1 DEF encodeCondition, toConditionInput
  <2>3. t.enforced = [type |-> "trivia", answerHash |-> stored.answerHash]
    BY <1>2, <2>2 DEF decodeCondition
  <2>4. QED
    BY <1>2, <2>1, <2>3
<1>4. CASE form.conditionType = "stepGate"
  <2>1. stored.type = "stepGate" /\ stored.steps = TotalSteps
    BY <1>4 DEF stored, toStoredCondition, buildCondition, Composed
  <2>2. encodeCondition(toConditionInput(stored)) = <<"StepGate", TotalSteps>>
    BY <2>1 DEF encodeCondition, toConditionInput
  <2>3. t.enforced = [type |-> "stepGate", totalSteps |-> TotalSteps]
    BY <1>2, <2>2 DEF decodeCondition
  <2>4. QED
    BY <1>2, <2>1, <2>3
<1>5. CASE form.conditionType = "none"
  <2>1. stored = [type |-> "none"]
    BY <1>5 DEF stored, toStoredCondition, buildCondition
  <2>2. encodeCondition(toConditionInput(stored)) = <<"None">>
    BY <2>1 DEF encodeCondition, toConditionInput
  <2>3. t.enforced = [type |-> "none"]
    BY <1>2, <2>2 DEF decodeCondition
  <2>4. QED
    BY <1>2, <2>1, <2>3
<1>6. QED
  BY <1>3, <1>4, <1>5 DEF Composed

-----------------------------------------------------------------------------
(* What refuses a call *)

\* Either no check holds and nothing is refused, or one of those that hold is
\* what is told.
LEMMA FirstFails ==
  ASSUME NEW checks, NEW none, NEW n \in Nat, DOMAIN checks = 1..n
  PROVE  \/ /\ \A i \in 1..n : ~checks[i].holds
            /\ FirstFailing(checks, none) = none
         \/ \E i \in 1..n : checks[i].holds /\ FirstFailing(checks, none) = checks[i].code
<1> DEFINE failing == {i \in 1..n : checks[i].holds}
<1>1. FirstFailing(checks, none) = IF failing = {} THEN none ELSE checks[Min(failing)].code
  BY DEF FirstFailing
<1>2. CASE failing = {}
  BY <1>1, <1>2
<1>3. CASE failing # {}
  <2>1. failing \in SUBSET Nat
    OBVIOUS
  <2> HIDE DEF failing
  <2>2. \E m \in failing : \A i \in failing : m <= i
    BY <1>3, <2>1, LeastNat
  <2>3. Min(failing) \in failing
    BY <2>2 DEF Min
  <2>4. QED
    BY <1>1, <1>3, <2>3 DEF failing
<1>4. QED
  BY <1>2, <1>3

\* A check's two parts.
LEMMA WhenIs ==
  ASSUME NEW h \in BOOLEAN, NEW code
  PROVE  (When(h, code).holds <=> h) /\ When(h, code).code = code
BY DEF When

\* The same for two checks.
LEMMA TwoChecks ==
  ASSUME NEW a \in BOOLEAN, NEW b \in BOOLEAN,
         NEW c1, NEW c2, NEW none
  PROVE  \/ ~a /\ ~b /\ FirstFailing(<<When(a, c1), When(b, c2)>>, none) = none
         \/ a /\ FirstFailing(<<When(a, c1), When(b, c2)>>, none) = c1
         \/ b /\ FirstFailing(<<When(a, c1), When(b, c2)>>, none) = c2
<1> DEFINE s == <<When(a, c1), When(b, c2)>>
<1>1. DOMAIN s = 1..2 /\ 2 \in Nat
      /\ s[1] = When(a, c1)
      /\ s[2] = When(b, c2)
  OBVIOUS
<1> HIDE DEF s
<1>2. \/ (\A i \in 1..2 : ~s[i].holds) /\ FirstFailing(s, none) = none
      \/ \E i \in 1..2 : s[i].holds /\ FirstFailing(s, none) = s[i].code
  BY <1>1, FirstFails
<1>3. /\ (s[1].holds <=> a) /\ s[1].code = c1
      /\ (s[2].holds <=> b) /\ s[2].code = c2
  BY <1>1, WhenIs
<1>4. ASSUME \A i \in 1..2 : ~s[i].holds PROVE ~a /\ ~b
  <2>1. 1 \in 1..2 /\ 2 \in 1..2
    OBVIOUS
  <2>2. QED
    BY <1>3, <1>4, <2>1, Zenon
<1>5. ASSUME NEW i \in 1..2, s[i].holds, FirstFailing(s, none) = s[i].code
      PROVE  \/ a /\ FirstFailing(s, none) = c1
             \/ b /\ FirstFailing(s, none) = c2
  <2>1. i = 1 \/ i = 2
    OBVIOUS
  <2>2. QED
    BY <1>3, <1>5, <2>1, Zenon
<1>6. QED
  BY <1>2, <1>4, <1>5, Zenon DEF s

-----------------------------------------------------------------------------
(* How a contract's code is told *)

Sentence(c) == IF c = NoCode THEN "UNKNOWN_CONTRACT_ERROR" ELSE CONTRACT_ERROR_MESSAGES[c]
ToldOf(err) == describeTransactionError(toResponse(parseContractError(err)))

FirstNumber(s) ==
  IF {i \in DOMAIN s : s[i] # NoCode} = {} THEN NoCode ELSE s[Min({i \in DOMAIN s : s[i] # NoCode})]
OnlyAt(s, n, k, c) ==
  DOMAIN s = 1..n /\ k \in 1..n /\ s[k] = c /\ \A i \in 1..n : i # k => s[i] = NoCode

\* One number in one place is found, wherever it is.
LEMMA CodeFound ==
  ASSUME NEW c \in 0..13
  PROVE  /\ extractContractErrorCode(SimulationError(c)) = c
         /\ extractContractErrorCode(FailedTransaction(c)) = c
         /\ extractContractErrorCode(NothingFound) = NoCode
<1>1. ASSUME NEW s, NEW n \in Nat, NEW k, NEW d, OnlyAt(s, n, k, d) PROVE FirstNumber(s) = d
  <2>1. CASE d = NoCode
    BY <1>1, <2>1 DEF OnlyAt, FirstNumber
  <2>2. CASE d # NoCode
    <3>1. {i \in DOMAIN s : s[i] # NoCode} = {k} /\ k \in Nat
      BY <1>1, <2>2 DEF OnlyAt
    <3>2. Min({k}) = k
      BY <3>1 DEF Min
    <3>3. QED
      BY <1>1, <3>1, <3>2 DEF OnlyAt, FirstNumber
  <2>3. QED
    BY <2>1, <2>2
<1>2. ASSUME NEW err
      PROVE  extractContractErrorCode(err)
               = FirstNumber(<<err.error>> \o err.events \o <<err.message>>)
  BY DEF extractContractErrorCode, FirstNumber
<1>3. OnlyAt(<<c>> \o <<>> \o <<NoCode>>, 2, 1, c)
  BY DEF OnlyAt
<1>4. OnlyAt(<<NoCode>> \o <<c>> \o <<NoCode>>, 3, 2, c)
  BY DEF OnlyAt
<1>5. OnlyAt(<<NoCode>> \o <<>> \o <<NoCode>>, 2, 1, NoCode)
  BY DEF OnlyAt
<1>6. QED
  BY <1>1, <1>2, <1>3, <1>4, <1>5 DEF SimulationError, FailedTransaction, NothingFound

\* The table has a sentence for each of the contract's thirteen codes.
LEMMA Codes ==
  /\ DOMAIN CONTRACT_ERROR_MESSAGES = 1..13
  /\ \A c \in 0..13 :
       /\ Sentence(c) = "GIFT_NOT_OPEN" => c = 2
       /\ Sentence(c) = "GIFT_EXPIRED" => c = 3
       /\ Sentence(c) = "NOT_RECEIVER" => c = 5
       /\ Sentence(c) = "WRONG_ANSWER" => c = 6
       /\ Sentence(c) = "NOT_AUTHORIZED_UNLOCKER" => c = 8
       /\ Sentence(c) = "ALL_STEPS_ALREADY_COMPLETE" => c = 9
       /\ Sentence(c) = "NOT_SENDER_OR_CONTRIBUTOR" => c = 13
BY DEF CONTRACT_ERROR_MESSAGES, Sentence, NoCode

\* A contract's code is told in the table's sentence, by the simulation as by
\* the failed transaction.
LEMMA CodeTold ==
  ASSUME NEW err, NEW c \in 0..13, extractContractErrorCode(err) = c
  PROVE  ToldOf(err) = Sentence(c)
<1>1. NoCode = 0 /\ DOMAIN CONTRACT_ERROR_MESSAGES = 1..13
  BY Codes DEF NoCode
<1>2. parseContractError(err) = Thrown("chain", Sentence(c), Sentence(c))
  BY <1>1 DEF parseContractError, Sentence
<1>3. /\ toResponse(parseContractError(err)).code = Sentence(c)
      /\ toResponse(parseContractError(err)).said = Sentence(c)
  BY <1>2 DEF toResponse, Thrown
<1>4. QED
  BY <1>3 DEF ToldOf, describeTransactionError

\* Giffy's own refusal is told as it was made.
LEMMA RefusalTold ==
  ASSUME NEW code
  PROVE  describeTransactionError(Refusal(code)) = code
<1>1. Refusal(code).code = code /\ Refusal(code).said = code
  BY DEF Refusal, Thrown, toResponse
<1>2. QED
  BY <1>1 DEF describeTransactionError

-----------------------------------------------------------------------------
(* The invariant *)

Stages == {"idle", "building", "signing", "submitting", "polling"}
Calls == [stage : Stages, by : {Nothing, "sender", "receiver", "friend"},
          answer : Texts \cup {NoAnswer}, amount : AmountKinds \cup {Nothing},
          tx : {"none", "pending", "landed", "failed"}, why : 0..13]

GiftTyped ==
  /\ terms \in Terms
  /\ gift \in [status : {"active", "claimed", "refunded"}, steps : 0..TotalSteps, contributed : BOOLEAN]
  /\ row \in [status : RowStatuses, steps : 0..TotalSteps]
  /\ late \in BOOLEAN /\ ledgerLate \in BOOLEAN /\ (ledgerLate => late)

ClaimPages == [preview : RowStatuses \cup {NotShown}, countdownDone : BOOLEAN,
               answer : Texts \cup {NoAnswer}, checks : SUBSET Texts,
               verifiedAnswer : Texts \cup {NoAnswer}, claimedTx : BOOLEAN]
Dashboards == [status : RowStatuses \cup {NotShown}, steps : 0..TotalSteps,
               reclaimed : BOOLEAN, unlocked : BOOLEAN]
ContributePages == [summary : RowStatuses \cup {NotShown}, success : BOOLEAN]

PagesTyped ==
  /\ giftPage \in DOMAIN ButtonsOf
  /\ claimPage \in ClaimPages /\ dashboard \in Dashboards /\ contributePage \in ContributePages

\* What a landed transaction leaves in the ledger.
Effect(op) ==
  /\ op = "claim" => gift.status = "claimed"
  /\ op = "refund" => gift.status = "refunded"
  /\ op = "unlock_step" => gift.steps > 0
  /\ op = "contribute" => gift.contributed

\* The row is not ahead of the gift.
RowFollows == row.status # "active" => late \/ gift.status # "active"

\* A press is somebody's; a claim comes with an answer the row accepts, a step
\* is unlocked where there are steps.
Pressed(op, c) ==
  /\ c.stage # "idle" \/ c.tx # "none" => c.by # Nothing
  /\ op = "claim" /\ c.by # Nothing => ~WrongAnswer(c.answer)
  /\ op = "unlock_step" /\ c.by # Nothing => terms.stored.type = "stepGate"

\* A contract's code is a true reason of a press.
Reason(op, by, code) ==
  /\ code = 2 => gift.status # "active"
  /\ code = 3 => ledgerLate
  /\ code = 5 => by # "receiver"
  /\ code = 6 => op # "claim"
  /\ code = 8 => by # terms.unlocker
  /\ code = 9 => gift.steps = TotalSteps
  /\ code # 13

\* So is a sentence.
Said(op, by, sentence) ==
  /\ sentence = "NOT_RECEIVER" => by # "receiver"
  /\ sentence = "GIFT_NOT_OPEN" => late \/ gift.status # "active"
  /\ sentence = "GIFT_EXPIRED" => ledgerLate
  /\ sentence = "NOT_AUTHORIZED_UNLOCKER" => by # terms.unlocker
  /\ sentence = "ALL_STEPS_ALREADY_COMPLETE" => gift.steps = TotalSteps
  /\ sentence = "NOT_SENDER_OR_CONTRIBUTOR" => by = "friend"
  /\ sentence = "WRONG_ANSWER" => op # "claim"

CallHolds(op) ==
  /\ Pressed(op, call[op])
  /\ Reason(op, call[op].by, call[op].why)
  /\ Said(op, call[op].by, toastOf[op])
  /\ call[op].tx = "landed" => Effect(op)

PagesInv ==
  /\ GiftTyped
  /\ PagesTyped
  /\ call \in [Operations -> Calls]
  /\ DOMAIN toastOf = Operations
  /\ RowFollows
  /\ claimPage.verifiedAnswer # NoAnswer => verifyAnswer(claimPage.verifiedAnswer)
  /\ \A op \in Operations : CallHolds(op)
  /\ ToldDoneIsDone

-----------------------------------------------------------------------------
(* Reasons *)

\* Whatever the contract refuses a call for is true of it, and what it accepts
\* it has reason to.
LEMMA PanicsForAReason ==
  ASSUME GiftTyped, NEW op \in Operations, Pressed(op, call[op]), call[op].by # Nothing
  PROVE  /\ Panics(op) \in 0..9
         /\ Reason(op, call[op].by, Panics(op))
         /\ Panics(op) = NoCode =>
              /\ op # "unlock_step" => gift.status = "active"
              /\ op = "unlock_step" => GateClosed(gift.steps)
<1> DEFINE by == call[op].by
<1>1. /\ terms.enforced.type = terms.stored.type
      /\ terms.stored.type = "trivia" => terms.enforced.answerHash = terms.stored.answerHash
      /\ terms.stored.type = "stepGate" => terms.enforced.totalSteps = TotalSteps
      /\ gift.steps \in 0..TotalSteps /\ TotalSteps \in Nat /\ NoCode = 0
  BY TermsAgree, StepsAssumption DEF GiftTyped, NoCode
<1>2. CASE op = "claim"
  <2> DEFINE other == by # "receiver"
             closed == gift.status # "active"
             wrong == AnswerMismatch(call[op].answer)
             gated == GateClosed(gift.steps)
             s == <<When(other, 5), When(closed, 2), When(ledgerLate, 3), When(wrong, 6), When(gated, 7)>>
  <2>1. Panics(op) = FirstFailing(s, NoCode)
    BY <1>2 DEF Panics
  <2>2. /\ other \in BOOLEAN /\ closed \in BOOLEAN /\ ledgerLate \in BOOLEAN
        /\ wrong \in BOOLEAN /\ gated \in BOOLEAN
    BY DEF GiftTyped, AnswerMismatch, GateClosed
  <2>3. ~wrong
    BY <1>1, <1>2 DEF Pressed, WrongAnswer, verifyAnswer, AnswerMismatch, normalizeAnswer, hashAnswer
  <2> HIDE DEF other, closed, wrong, gated
  <2>4. /\ DOMAIN s = 1..5
        /\ s[1] = When(other, 5) /\ s[2] = When(closed, 2) /\ s[3] = When(ledgerLate, 3)
        /\ s[4] = When(wrong, 6) /\ s[5] = When(gated, 7)
    OBVIOUS
  <2> HIDE DEF s
  <2>5. /\ s[1].code = 5 /\ (s[2].holds <=> closed)
        /\ (s[1].holds <=> other) /\ s[2].code = 2
        /\ (s[3].holds <=> ledgerLate) /\ s[3].code = 3
        /\ (s[4].holds <=> wrong) /\ s[5].code = 7
    BY <2>2, <2>4, WhenIs
  <2>6. \/ (\A i \in 1..5 : ~s[i].holds) /\ Panics(op) = NoCode
        \/ \E i \in 1..5 : s[i].holds /\ Panics(op) = s[i].code
    BY <2>1, <2>4, FirstFails
  <2>7. CASE (\A i \in 1..5 : ~s[i].holds) /\ Panics(op) = NoCode
    <3>1. ~closed
      BY <2>5, <2>7
    <3>2. QED
      BY <1>1, <1>2, <2>7, <3>1 DEF Reason, closed
  <2>8. ASSUME NEW i \in 1..5, s[i].holds, Panics(op) = s[i].code
        PROVE  \/ other /\ Panics(op) = 5
               \/ closed /\ Panics(op) = 2
               \/ ledgerLate /\ Panics(op) = 3
               \/ Panics(op) = 7
    <3>1. i = 1 \/ i = 2 \/ i = 3 \/ i = 4 \/ i = 5
      OBVIOUS
    <3>2. QED
      BY <2>3, <2>5, <2>8, <3>1, Zenon
  <2>9. QED
    BY <1>1, <1>2, <2>6, <2>7, <2>8 DEF Reason, other, closed
<1>3. CASE op = "refund"
  <2> DEFINE closed == gift.status # "active"
             early == ~ledgerLate
  <2>1. Panics(op) = FirstFailing(<<When(closed, 2), When(early, 4)>>, NoCode)
    BY <1>3 DEF Panics
  <2>2. closed \in BOOLEAN /\ early \in BOOLEAN
    BY DEF GiftTyped
  <2> HIDE DEF closed, early
  <2>3. \/ ~closed /\ Panics(op) = NoCode
        \/ closed /\ Panics(op) = 2
        \/ early /\ Panics(op) = 4
    BY <2>1, <2>2, TwoChecks
  <2>4. QED
    BY <1>1, <1>3, <2>3 DEF Reason, closed
<1>4. CASE op = "unlock_step"
  <2> DEFINE other == by # terms.unlocker
             open == ~GateClosed(gift.steps)
  <2>1. Panics(op) = FirstFailing(<<When(other, 8), When(open, 9)>>, NoCode)
    BY <1>4 DEF Panics
  <2>2. other \in BOOLEAN /\ open \in BOOLEAN
    BY DEF GateClosed
  <2>3. open => gift.steps = TotalSteps
    BY <1>1, <1>4 DEF Pressed, GateClosed
  <2> HIDE DEF other, open
  <2>4. \/ ~open /\ Panics(op) = NoCode
        \/ other /\ Panics(op) = 8
        \/ open /\ Panics(op) = 9
    BY <2>1, <2>2, TwoChecks
  <2>5. QED
    BY <1>1, <1>4, <2>3, <2>4 DEF Reason, other, open
<1>5. CASE op = "contribute"
  <2> DEFINE closed == gift.status # "active"
  <2>1. Panics(op) = FirstFailing(<<When(closed, 2), When(ledgerLate, 3)>>, NoCode)
    BY <1>5 DEF Panics
  <2>2. closed \in BOOLEAN /\ ledgerLate \in BOOLEAN
    BY DEF GiftTyped
  <2> HIDE DEF closed
  <2>3. \/ ~closed /\ Panics(op) = NoCode
        \/ closed /\ Panics(op) = 2
        \/ ledgerLate /\ Panics(op) = 3
    BY <2>1, <2>2, TwoChecks
  <2>4. QED
    BY <1>1, <1>5, <2>3 DEF Reason, closed
<1>6. QED
  BY <1>2, <1>3, <1>4, <1>5 DEF Operations

\* A true code is told in a true sentence.
LEMMA ReasonSaid ==
  ASSUME NEW op, NEW by, NEW err, NEW code \in 0..13,
         extractContractErrorCode(err) = code, Reason(op, by, code)
  PROVE  Said(op, by, ToldOf(err))
BY CodeTold, Codes DEF Reason, Said

\* What the services refuse a call for is true of it as well.
LEMMA RefusedForAReason ==
  ASSUME RowFollows, NEW op \in Operations, Pressed(op, call[op]), call[op].by # Nothing,
         NEW checks \in {RefusesToBuild(op), RefusesToSubmit(op)},
         FirstFailing(checks, Nothing) # Nothing
  PROVE  Said(op, call[op].by, FirstFailing(checks, Nothing))
<1> DEFINE by == call[op].by
           r == FirstFailing(checks, Nothing)
           Fine(code) == code \notin {"NOT_RECEIVER", "GIFT_NOT_OPEN", "GIFT_EXPIRED",
                                     "NOT_AUTHORIZED_UNLOCKER", "ALL_STEPS_ALREADY_COMPLETE",
                                     "NOT_SENDER_OR_CONTRIBUTOR", "WRONG_ANSWER"}
<1>1. ASSUME NEW code, Fine(code) PROVE Said(op, by, code)
  BY <1>1 DEF Said
<1>2. ASSUME NEW n \in Nat, DOMAIN checks = 1..n,
             \A i \in 1..n : checks[i].holds => Said(op, by, checks[i].code)
      PROVE  Said(op, by, r)
  BY <1>2, FirstFails
<1>3. ASSUME NEW a, NEW b, Fine(a), Fine(b), NEW x \in BOOLEAN, NEW y \in BOOLEAN,
             checks = <<When(x, a), When(y, b)>>
      PROVE  Said(op, by, r)
  BY <1>1, <1>3, TwoChecks
<1>4. ASSUME NEW a, Fine(a), NEW x \in BOOLEAN, checks = <<When(x, a)>>
      PROVE  Said(op, by, r)
  <2>1. DOMAIN checks = 1..1 /\ checks[1] = When(x, a) /\ 1 \in Nat
    BY <1>4
  <2>2. checks[1].code = a
    BY <2>1, WhenIs
  <2>3. QED
    BY <1>1, <1>2, <1>4, <2>1, <2>2
<1>5. CASE op = "claim" /\ checks = RefusesToBuild(op)
  <2> DEFINE wrong == WrongAnswer(call["claim"].answer)
  <2>1. ~wrong /\ wrong \in BOOLEAN
    BY <1>5 DEF Pressed, WrongAnswer
  <2>2. checks = <<When(row.status = "claimed", "INVALID_GIFT_STATE"),
                   When(row.status \in {"refund_pending", "refunded"} \/ late, "CLAIM_EXPIRED")>>
                 \o <<When(call["claim"].by # "receiver", "NOT_CLAIMANT"), When(wrong, "WRONG_ANSWER"),
                     When(StepsRemain(row.steps), "STEPS_NOT_COMPLETE")>>
    BY <1>5 DEF RefusesToBuild, buildClaimTransaction, assertClaimable
  <2> HIDE DEF wrong
  <2>3. /\ DOMAIN checks = 1..5
        /\ checks[1] = When(row.status = "claimed", "INVALID_GIFT_STATE")
        /\ checks[2] = When(row.status \in {"refund_pending", "refunded"} \/ late, "CLAIM_EXPIRED")
        /\ checks[3] = When(call["claim"].by # "receiver", "NOT_CLAIMANT")
        /\ checks[4] = When(wrong, "WRONG_ANSWER")
        /\ checks[5] = When(StepsRemain(row.steps), "STEPS_NOT_COMPLETE")
    BY <2>2
  <2>4. /\ checks[1].code = "INVALID_GIFT_STATE" /\ checks[2].code = "CLAIM_EXPIRED"
        /\ checks[3].code = "NOT_CLAIMANT" /\ checks[5].code = "STEPS_NOT_COMPLETE"
    BY <2>3 DEF When
  <2>5. ~checks[4].holds
    BY <2>1, <2>3, WhenIs
  <2>6. ASSUME NEW i \in 1..5, checks[i].holds PROVE Said(op, by, checks[i].code)
    <3>1. i = 1 \/ i = 2 \/ i = 3 \/ i = 5
      BY <2>5, <2>6
    <3>2. Fine(checks[i].code)
      BY <2>4, <3>1
    <3>3. QED
      BY <1>1, <3>2
  <2>7. QED
    BY <1>2, <2>3, <2>6
<1>6. CASE op = "claim" /\ checks = RefusesToSubmit(op)
  <2>1. checks = <<When(row.status = "claimed", "INVALID_GIFT_STATE"),
                   When(row.status \in {"refund_pending", "refunded"} \/ late, "CLAIM_EXPIRED")>>
    BY <1>6 DEF RefusesToSubmit, submitClaimTransaction, assertClaimable
  <2>2. QED
    BY <1>3, <2>1
<1>7. CASE op = "refund"
  <2>1. checks = <<When(row.status \in {"claimed", "refunded"} \/ ~late, "REFUND_NOT_ELIGIBLE")>>
    BY <1>7 DEF RefusesToBuild, RefusesToSubmit, buildRefundTransaction, submitRefundTransaction,
                assertRefundable
  <2>2. QED
    BY <1>4, <2>1
<1>8. CASE op = "unlock_step"
  <2>1. checks = <<When(terms.stored.type # "stepGate", "NOT_STEP_GATED")>>
    BY <1>8 DEF RefusesToBuild, RefusesToSubmit, buildUnlockStepTransaction,
                submitUnlockStepTransaction, findStepGatedGift
  <2>2. QED
    BY <1>4, <2>1
<1>9. CASE op = "contribute" /\ checks = RefusesToBuild(op)
  <2> DEFINE small == call["contribute"].amount = "below minimum"
             broken == call["contribute"].amount = "with a fraction"
  <2>1. checks = <<When(row.status # "active", "GIFT_NOT_OPEN"),
                   When(small, "CONTRIBUTION_TOO_SMALL"), When(broken, "INTERNAL_ERROR")>>
    BY <1>9 DEF RefusesToBuild, buildContributeTransaction
  <2> HIDE DEF small, broken
  <2>2. /\ DOMAIN checks = 1..3 /\ checks[1] = When(row.status # "active", "GIFT_NOT_OPEN")
        /\ checks[2].code = "CONTRIBUTION_TOO_SMALL" /\ checks[3].code = "INTERNAL_ERROR"
    <3>1. /\ DOMAIN checks = 1..3
          /\ checks[1] = When(row.status # "active", "GIFT_NOT_OPEN")
          /\ checks[2] = When(small, "CONTRIBUTION_TOO_SMALL")
          /\ checks[3] = When(broken, "INTERNAL_ERROR")
      BY <2>1
    <3>2. QED
      BY <3>1 DEF When
  <2>3. (checks[1].holds <=> row.status # "active") /\ checks[1].code = "GIFT_NOT_OPEN"
    BY <2>2, WhenIs
  <2>4. row.status # "active" => Said(op, by, "GIFT_NOT_OPEN")
    BY DEF RowFollows, Said
  <2>5. ASSUME NEW i \in 1..3, checks[i].holds PROVE Said(op, by, checks[i].code)
    <3>1. i = 1 \/ i = 2 \/ i = 3
      OBVIOUS
    <3>2. i # 1 => Fine(checks[i].code)
      BY <2>2, <3>1
    <3>3. QED
      BY <1>1, <2>3, <2>4, <2>5, <3>1, <3>2
  <2>6. QED
    BY <1>2, <2>2, <2>5
<1>10. CASE op = "contribute" /\ checks = RefusesToSubmit(op)
  <2>1. DOMAIN checks = 1..0 /\ 0 \in Nat
    BY <1>10 DEF RefusesToSubmit
  <2>2. QED
    BY <1>2, <2>1
<1>11. QED
  BY <1>5, <1>6, <1>7, <1>8, <1>9, <1>10 DEF Operations

-----------------------------------------------------------------------------
(* What only grows *)

Onwards ==
  /\ terms' = terms
  /\ gift.status # "active" => gift'.status = gift.status
  /\ gift.steps <= gift'.steps
  /\ gift.contributed => gift'.contributed
  /\ late => late'
  /\ ledgerLate => ledgerLate'

\* A press keeps its reasons while the gift moves on, whatever stage it is at,
LEMMA CallCarried ==
  ASSUME GiftTyped, GiftTyped', Onwards, NEW op \in Operations, CallHolds(op),
         call'[op].by = call[op].by, call'[op].answer = call[op].answer,
         call'[op].why = call[op].why, toastOf'[op] = toastOf[op],
         call'[op].stage # "idle" \/ call'[op].tx # "none" => call'[op].by # Nothing,
         call'[op].tx = "landed" => Effect(op)'
  PROVE  CallHolds(op)'
<1>1. gift.steps \in 0..TotalSteps /\ gift'.steps \in 0..TotalSteps /\ TotalSteps \in Nat
  BY StepsAssumption DEF GiftTyped
<1>2. gift.steps = TotalSteps => gift'.steps = TotalSteps
  BY <1>1 DEF Onwards
<1>3. Pressed(op, call[op])'
  BY DEF CallHolds, Pressed, WrongAnswer, verifyAnswer, Onwards
<1>4. Reason(op, call[op].by, call[op].why)'
  BY <1>2 DEF CallHolds, Reason, Onwards
<1>5. Said(op, call[op].by, toastOf[op])'
  BY <1>2 DEF CallHolds, Said, Onwards
<1>6. QED
  BY <1>3, <1>4, <1>5 DEF CallHolds

\* and its effect while it waits.
LEMMA CallKept ==
  ASSUME GiftTyped, GiftTyped', Onwards, NEW op \in Operations, CallHolds(op),
         call'[op] = call[op], toastOf'[op] = toastOf[op]
  PROVE  CallHolds(op)'
<1>1. gift.steps \in Nat /\ gift'.steps \in Nat
  BY StepsAssumption DEF GiftTyped
<1>2. Effect(op) => Effect(op)'
  BY <1>1 DEF Effect, Onwards
<1>3. QED
  BY <1>2, CallCarried DEF CallHolds, Pressed

\* So does what the pages have said.
LEMMA DoneKept ==
  ASSUME GiftTyped, GiftTyped', Onwards, ToldDoneIsDone, UNCHANGED pageVars
  PROVE  ToldDoneIsDone'
<1>1. gift.steps \in Nat /\ gift'.steps \in Nat
  BY StepsAssumption DEF GiftTyped
<1>2. QED
  BY <1>1 DEF ToldDoneIsDone, Onwards, pageVars

\* And the row stays behind it.
LEMMA RowKept ==
  ASSUME RowFollows, Onwards, row' = row
  PROVE  RowFollows'
BY DEF RowFollows, Onwards

\* The gift, the row and the clocks move; presses and pages wait.
LEMMA GiftMoved ==
  ASSUME PagesInv, Onwards, GiftTyped', RowFollows', UNCHANGED <<call, toastOf, pageVars>>
  PROVE  PagesInv'
<1>1. \A op \in Operations : CallHolds(op)'
  BY CallKept DEF PagesInv
<1>2. ToldDoneIsDone'
  BY DoneKept DEF PagesInv
<1>3. PagesTyped' /\ (claimPage.verifiedAnswer # NoAnswer => verifyAnswer(claimPage.verifiedAnswer))'
  BY DEF PagesInv, PagesTyped, pageVars, Onwards, verifyAnswer
<1>4. QED
  BY <1>1, <1>2, <1>3 DEF PagesInv

\* An operation the contract accepts.
Accepted(op) ==
  /\ op # "unlock_step" => gift.status = "active"
  /\ op = "unlock_step" => GateClosed(gift.steps)

\* What an accepted operation makes of the gift is what it is for, and no
\* more than the gift allows.
LEMMA Applied ==
  ASSUME GiftTyped, NEW op \in Operations, Accepted(op), Apply(op),
         UNCHANGED <<terms, row, late, ledgerLate>>
  PROVE  Onwards /\ GiftTyped' /\ Effect(op)'
<1>1. terms.enforced.type = "stepGate" => terms.enforced.totalSteps = TotalSteps
  BY TermsAgree DEF GiftTyped
<1>2. /\ gift \in [status : {"active", "claimed", "refunded"}, steps : 0..TotalSteps, contributed : BOOLEAN]
      /\ TotalSteps \in Nat
  BY StepsAssumption DEF GiftTyped
<1>3. CASE op = "claim"
  <2>1. gift' = [gift EXCEPT !.status = "claimed"] /\ gift.status = "active"
    BY <1>3 DEF Apply, Accepted
  <2>2. QED
    BY <1>2, <1>3, <2>1 DEF GiftTyped, Onwards, Effect
<1>4. CASE op = "refund"
  <2>1. gift' = [gift EXCEPT !.status = "refunded"] /\ gift.status = "active"
    BY <1>4 DEF Apply, Accepted
  <2>2. QED
    BY <1>2, <1>4, <2>1 DEF GiftTyped, Onwards, Effect
<1>5. CASE op = "unlock_step"
  <2>1. gift' = [gift EXCEPT !.steps = gift.steps + 1] /\ gift.steps < TotalSteps
    BY <1>1, <1>5 DEF Apply, Accepted, GateClosed
  <2>2. /\ gift'.status = gift.status /\ gift'.steps = gift.steps + 1
        /\ gift'.contributed = gift.contributed /\ gift.steps + 1 \in 0..TotalSteps
    BY <1>2, <2>1
  <2>3. gift' \in [status : {"active", "claimed", "refunded"}, steps : 0..TotalSteps, contributed : BOOLEAN]
    BY <1>2, <2>1, <2>2
  <2>4. Onwards /\ GiftTyped'
    BY <1>2, <2>2, <2>3 DEF GiftTyped, Onwards
  <2>5. gift'.steps > 0
    BY <1>2, <2>2
  <2>6. QED
    BY <1>5, <2>4, <2>5 DEF Effect
<1>6. CASE op = "contribute"
  <2>1. gift' = [gift EXCEPT !.contributed = TRUE]
    BY <1>6 DEF Apply
  <2>2. gift'.status = gift.status /\ gift'.steps = gift.steps /\ gift'.contributed
    BY <1>2, <2>1
  <2>3. gift' \in [status : {"active", "claimed", "refunded"}, steps : 0..TotalSteps, contributed : BOOLEAN]
    BY <1>2, <2>1
  <2>4. Onwards /\ GiftTyped'
    BY <1>2, <2>2, <2>3 DEF GiftTyped, Onwards
  <2>5. QED
    BY <1>6, <2>2, <2>4 DEF Effect
<1>7. QED
  BY <1>3, <1>4, <1>5, <1>6 DEF Operations

\* Others, the cron and the clocks.
LEMMA ElsewhereKeeps ==
  ASSUME PagesInv, Elsewhere \/ ReconciledElsewhere \/ markRefundPending \/ DeadlinePasses
  PROVE  PagesInv'
<1>1. GiftTyped /\ RowFollows
  BY DEF PagesInv
<1>2. CASE Elsewhere
  <2>1. PICK op \in Operations : Accepted(op) /\ Apply(op)
    BY <1>2 DEF Elsewhere, Accepted, Operations
  <2>2. Onwards /\ GiftTyped'
    BY <1>1, <1>2, <2>1, Applied DEF Elsewhere
  <2>3. RowFollows'
    BY <1>1, <1>2, <2>2, RowKept DEF Elsewhere
  <2>4. QED
    BY <1>2, <2>2, <2>3, GiftMoved DEF Elsewhere
<1>3. CASE ReconciledElsewhere
  <2>1. Onwards /\ GiftTyped' /\ RowFollows'
    BY <1>1, <1>3, StepsAssumption
       DEF ReconciledElsewhere, reconcileGift, ledgerVars, Onwards, GiftTyped, RowStatuses, RowFollows
  <2>2. QED
    BY <1>3, <2>1, GiftMoved DEF ReconciledElsewhere
<1>4. CASE markRefundPending
  <2>1. Onwards /\ GiftTyped' /\ RowFollows'
    BY <1>1, <1>4, StepsAssumption
       DEF markRefundPending, ledgerVars, Onwards, GiftTyped, RowStatuses, RowFollows
  <2>2. QED
    BY <1>4, <2>1, GiftMoved DEF markRefundPending
<1>5. CASE DeadlinePasses
  <2>1. /\ late' \in BOOLEAN /\ ledgerLate' \in BOOLEAN /\ (ledgerLate' => late')
        /\ (late => late') /\ (ledgerLate => ledgerLate')
    BY <1>1, <1>5, Zenon DEF DeadlinePasses, GiftTyped
  <2>2. UNCHANGED <<terms, gift, row>>
    BY <1>5 DEF DeadlinePasses
  <2>3. gift.steps <= gift'.steps
    BY <1>1, <2>2, StepsAssumption DEF GiftTyped
  <2>4. Onwards /\ GiftTyped' /\ RowFollows'
    BY <1>1, <2>1, <2>2, <2>3 DEF Onwards, GiftTyped, RowFollows
  <2>5. QED
    BY <1>5, <2>4, GiftMoved DEF DeadlinePasses
<1>6. QED
  BY <1>2, <1>3, <1>4, <1>5

-----------------------------------------------------------------------------
(* Presses *)

\* One button's press moves on, with reasons for what it holds and tells.
LEMMA CallMoved ==
  ASSUME PagesInv, NEW op \in Operations, NEW c \in Calls, call' = [call EXCEPT ![op] = c],
         Pressed(op, c), Reason(op, c.by, c.why), c.tx = "landed" => Effect(op),
         DOMAIN toastOf' = Operations, Said(op, c.by, toastOf'[op]),
         \A q \in Operations \ {op} : toastOf'[q] = toastOf[q],
         UNCHANGED <<giftVars, pageVars>>
  PROVE  PagesInv'
<1>1. call' \in [Operations -> Calls] /\ call'[op] = c
      /\ \A q \in Operations \ {op} : call'[q] = call[q]
  BY DEF PagesInv
<1>2. UNCHANGED <<terms, gift, ledgerLate, row, late>>
  BY DEF giftVars, ledgerVars
<1>3. GiftTyped /\ GiftTyped' /\ Onwards /\ RowFollows'
  BY <1>2, StepsAssumption DEF PagesInv, GiftTyped, Onwards, RowFollows
<1>4. ASSUME NEW q \in Operations \ {op} PROVE CallHolds(q)'
  BY <1>1, <1>3, CallKept DEF PagesInv
<1>5. CallHolds(op)'
  BY <1>1, <1>2 DEF CallHolds, Pressed, Reason, Said, Effect, WrongAnswer, verifyAnswer
<1>6. ToldDoneIsDone' /\ PagesTyped'
      /\ (claimPage.verifiedAnswer # NoAnswer => verifyAnswer(claimPage.verifiedAnswer))'
  BY <1>2 DEF PagesInv, ToldDoneIsDone, PagesTyped, pageVars, verifyAnswer
<1>7. QED
  BY <1>1, <1>3, <1>4, <1>5, <1>6 DEF PagesInv

\* Another stage.
LEMMA StageMoved ==
  ASSUME PagesInv, NEW op \in Operations, NEW st \in Stages, Stage(op, st),
         st # "idle" => call[op].by # Nothing, UNCHANGED <<toastOf, giftVars, pageVars>>
  PROVE  PagesInv'
<1> DEFINE c == [call[op] EXCEPT !.stage = st]
<1>1. call \in [Operations -> Calls] /\ call[op] \in Calls /\ CallHolds(op) /\ DOMAIN toastOf = Operations
  BY DEF PagesInv
<1>2. call' = [call EXCEPT ![op] = c]
  BY <1>1 DEF Stage
<1>3. /\ c \in Calls /\ c.stage = st /\ c.by = call[op].by /\ c.answer = call[op].answer
      /\ c.tx = call[op].tx /\ c.why = call[op].why
  BY <1>1 DEF Calls
<1> HIDE DEF c
<1>4. Pressed(op, c) /\ Reason(op, c.by, c.why) /\ Said(op, c.by, toastOf[op])
      /\ (c.tx = "landed" => Effect(op))
  BY <1>1, <1>3 DEF CallHolds, Pressed
<1>5. QED
  BY <1>1, <1>2, <1>3, <1>4, CallMoved

\* A failure told.
LEMMA FailureTold ==
  ASSUME PagesInv, NEW op \in Operations, NEW answer, Tells(op, answer),
         Said(op, call[op].by, describeTransactionError(answer)), UNCHANGED <<giftVars, pageVars>>
  PROVE  PagesInv'
<1> DEFINE c == [call[op] EXCEPT !.stage = "idle"]
           told == describeTransactionError(answer)
<1>1. call \in [Operations -> Calls] /\ call[op] \in Calls /\ CallHolds(op) /\ DOMAIN toastOf = Operations
  BY DEF PagesInv
<1>2. call' = [call EXCEPT ![op] = c] /\ toastOf' = [toastOf EXCEPT ![op] = told]
  BY <1>1 DEF Tells, Stage
<1>3. /\ c \in Calls /\ c.stage = "idle" /\ c.by = call[op].by /\ c.answer = call[op].answer
      /\ c.tx = call[op].tx /\ c.why = call[op].why
  BY <1>1 DEF Calls, Stages
<1> HIDE DEF c
<1>4. Said(op, c.by, told)
  BY <1>3
<1> HIDE DEF told
<1>5. DOMAIN toastOf' = Operations /\ toastOf'[op] = told
      /\ \A q \in Operations \ {op} : toastOf'[q] = toastOf[q]
  BY <1>1, <1>2
<1>6. Pressed(op, c) /\ Reason(op, c.by, c.why) /\ (c.tx = "landed" => Effect(op))
  BY <1>1, <1>3 DEF CallHolds, Pressed
<1>7. QED
  BY <1>2, <1>3, <1>4, <1>5, <1>6, CallMoved

\* An answer that says what its code says.
LEMMA PlainTold ==
  ASSUME NEW op, NEW by, NEW answer \in {NotSigned, Unreachable, RateLimited}
  PROVE  Said(op, by, describeTransactionError(answer))
<1>1. answer.said \in {"NOT_SIGNED", "NETWORK_ERROR", "RATE_LIMITED"} /\ answer.code = answer.said
  BY DEF NotSigned, Unreachable, RateLimited
<1>2. describeTransactionError(answer) = answer.said
  BY <1>1 DEF describeTransactionError
<1>3. QED
  BY <1>1, <1>2 DEF Said

\* The press itself.
LEMMA PressKeeps ==
  ASSUME PagesInv, NEW op \in Operations, NEW by \in {"sender", "receiver", "friend"},
         NEW answer \in Texts \cup {NoAnswer}, NEW amount \in AmountKinds \cup {Nothing},
         Press(op, by, answer, amount),
         op = "claim" => ~WrongAnswer(answer),
         op = "unlock_step" => terms.stored.type = "stepGate"
  PROVE  PagesInv'
<1> DEFINE c == [NoCall EXCEPT !.stage = "building", !.by = by, !.answer = answer, !.amount = amount]
<1>1. call' = [call EXCEPT ![op] = c] /\ toastOf' = [toastOf EXCEPT ![op] = Nothing]
      /\ UNCHANGED <<giftVars, pageVars>> /\ DOMAIN toastOf = Operations
  BY DEF Press, PagesInv
<1>2. c.stage = "building" /\ c.by = by /\ c.answer = answer /\ c.tx = "none" /\ c.why = 0
  BY DEF NoCall, NoCode
<1>3. c \in Calls
  <2>1. NoCall \in Calls
    BY DEF Calls, Stages, NoCall, NoCode
  <2>2. "building" \in Stages /\ by \in {Nothing, "sender", "receiver", "friend"}
    BY DEF Stages
  <2>3. QED
    BY <2>1, <2>2 DEF Calls
<1> HIDE DEF c
<1>4. Pressed(op, c) /\ Reason(op, c.by, c.why)
  BY <1>2 DEF Pressed, Reason, Nothing
<1>5. Said(op, c.by, toastOf'[op]) /\ DOMAIN toastOf' = Operations
      /\ \A q \in Operations \ {op} : toastOf'[q] = toastOf[q]
  <2>1. DOMAIN toastOf' = Operations /\ toastOf'[op] = Nothing
        /\ \A q \in Operations \ {op} : toastOf'[q] = toastOf[q]
    BY <1>1
  <2>2. Said(op, c.by, Nothing)
    BY DEF Said, Nothing
  <2>3. QED
    BY <2>1, <2>2
<1>6. QED
  BY <1>1, <1>2, <1>3, <1>4, <1>5, CallMoved

-----------------------------------------------------------------------------
(* Build, sign, submit, land *)

\* The build's answer: a transaction to sign, or the reason there is none.
LEMMA BuildKeeps ==
  ASSUME PagesInv, NEW op \in Operations, BuildAnswered(op)
  PROVE  PagesInv'
<1> DEFINE refusal == FirstFailing(RefusesToBuild(op), Nothing)
<1>1. /\ GiftTyped /\ RowFollows /\ CallHolds(op) /\ Pressed(op, call[op])
      /\ call[op].by # Nothing /\ UNCHANGED <<giftVars, pageVars>>
  BY DEF PagesInv, CallHolds, Pressed, BuildAnswered
<1>2. CASE refusal # Nothing
  <2>1. Tells(op, Refusal(refusal))
    BY <1>2 DEF BuildAnswered
  <2>2. Said(op, call[op].by, refusal)
    BY <1>1, <1>2, RefusedForAReason
  <2> HIDE DEF refusal
  <2>3. Said(op, call[op].by, describeTransactionError(Refusal(refusal)))
    BY <2>2, RefusalTold
  <2>4. QED
    BY <1>1, <2>1, <2>3, FailureTold
<1>3. CASE refusal = Nothing /\ Panics(op) # NoCode
  <2>1. Tells(op, toResponse(parseContractError(SimulationError(Panics(op)))))
    BY <1>3 DEF BuildAnswered
  <2>2. Panics(op) \in 0..13 /\ Reason(op, call[op].by, Panics(op))
    BY <1>1, PanicsForAReason
  <2>3. extractContractErrorCode(SimulationError(Panics(op))) = Panics(op)
    BY <2>2, CodeFound
  <2>4. Said(op, call[op].by, ToldOf(SimulationError(Panics(op))))
    BY <2>2, <2>3, ReasonSaid
  <2>5. QED
    BY <1>1, <2>1, <2>4, FailureTold DEF ToldOf
<1>4. CASE refusal = Nothing /\ Panics(op) = NoCode
  <2>1. Stage(op, "signing") /\ UNCHANGED toastOf /\ "signing" \in Stages
    BY <1>4 DEF BuildAnswered, Stages
  <2>2. QED
    BY <1>1, <2>1, StageMoved
<1>5. QED
  BY <1>2, <1>3, <1>4

\* The wallet signs or does not.
LEMMA WalletKeeps ==
  ASSUME PagesInv, NEW op \in Operations, WalletAnswered(op)
  PROVE  PagesInv'
<1>1. call[op].by # Nothing /\ UNCHANGED <<giftVars, pageVars>> /\ "submitting" \in Stages
  BY DEF PagesInv, CallHolds, Pressed, WalletAnswered, Stages
<1>2. CASE Stage(op, "submitting") /\ UNCHANGED toastOf
  BY <1>1, <1>2, StageMoved
<1>3. CASE Tells(op, NotSigned)
  <2>1. Said(op, call[op].by, describeTransactionError(NotSigned))
    BY PlainTold
  <2>2. QED
    BY <1>1, <1>3, <2>1, FailureTold
<1>4. QED
  BY <1>2, <1>3 DEF WalletAnswered

\* A request lost on the way there or back.
LEMMA RequestFailsKeeps ==
  ASSUME PagesInv, NEW op \in Operations, RequestFails(op)
  PROVE  PagesInv'
<1>1. PICK answer \in {Unreachable, RateLimited} : Tells(op, answer)
  BY DEF RequestFails
<1>2. Said(op, call[op].by, describeTransactionError(answer))
  BY PlainTold
<1>3. QED
  BY <1>1, <1>2, FailureTold DEF RequestFails

\* The signed transaction is sent on, or refused.
LEMMA SubmitKeeps ==
  ASSUME PagesInv, NEW op \in Operations, SubmitArrives(op)
  PROVE  PagesInv'
<1> DEFINE refusal == FirstFailing(RefusesToSubmit(op), Nothing)
           c == [[call[op] EXCEPT !.stage = "polling"] EXCEPT !.tx = "pending"]
<1>1. /\ GiftTyped /\ RowFollows /\ CallHolds(op) /\ Pressed(op, call[op])
      /\ call[op].by # Nothing /\ UNCHANGED <<giftVars, pageVars>>
      /\ call \in [Operations -> Calls] /\ call[op] \in Calls /\ DOMAIN toastOf = Operations
  BY DEF PagesInv, CallHolds, Pressed, SubmitArrives
<1>2. CASE refusal # Nothing
  <2>1. Tells(op, Refusal(refusal))
    BY <1>2 DEF SubmitArrives
  <2>2. Said(op, call[op].by, refusal)
    BY <1>1, <1>2, RefusedForAReason
  <2> HIDE DEF refusal
  <2>3. Said(op, call[op].by, describeTransactionError(Refusal(refusal)))
    BY <2>2, RefusalTold
  <2>4. QED
    BY <1>1, <2>1, <2>3, FailureTold
<1>3. CASE refusal = Nothing
  <2>1. call' = [call EXCEPT ![op] = c] /\ UNCHANGED toastOf
    BY <1>1, <1>3 DEF SubmitArrives
  <2>2. /\ c \in Calls /\ c.by = call[op].by /\ c.answer = call[op].answer
        /\ c.tx = "pending" /\ c.why = call[op].why
    BY <1>1 DEF Calls, Stages
  <2> HIDE DEF c
  <2>3. Pressed(op, c) /\ Reason(op, c.by, c.why) /\ Said(op, c.by, toastOf[op])
    BY <1>1, <2>2 DEF CallHolds, Pressed
  <2>4. QED
    BY <1>1, <2>1, <2>2, <2>3, CallMoved
<1>4. QED
  BY <1>2, <1>3

\* The ledger closes with the transaction in it, done or refused.
LEMMA ClosingKeeps ==
  ASSUME PagesInv, NEW op \in Operations, TransactionCloses(op)
  PROVE  PagesInv'
<1>1. /\ GiftTyped /\ RowFollows /\ CallHolds(op) /\ Pressed(op, call[op])
      /\ call[op].by # Nothing /\ call[op].tx = "pending"
      /\ UNCHANGED <<terms, row, late, ledgerLate, toastOf, pageVars>>
      /\ call \in [Operations -> Calls] /\ call[op] \in Calls /\ DOMAIN toastOf = Operations
  BY DEF PagesInv, CallHolds, Pressed, TransactionCloses
<1>2. CASE Panics(op) = NoCode /\ Apply(op) /\ call' = [call EXCEPT ![op].tx = "landed"]
  <2> DEFINE c == [call[op] EXCEPT !.tx = "landed"]
  <2>1. Accepted(op)
    BY <1>1, <1>2, PanicsForAReason DEF Accepted
  <2>2. Onwards /\ GiftTyped' /\ Effect(op)' /\ RowFollows'
    BY <1>1, <1>2, <2>1, Applied, RowKept
  <2>3. /\ c \in Calls /\ c.stage = call[op].stage /\ c.by = call[op].by
        /\ c.answer = call[op].answer /\ c.why = call[op].why
    BY <1>1 DEF Calls
  <2>4. call' = [call EXCEPT ![op] = c]
    BY <1>1, <1>2
  <2> HIDE DEF c
  <2>5. call' \in [Operations -> Calls] /\ call'[op] = c
        /\ \A q \in Operations \ {op} : call'[q] = call[q]
    BY <1>1, <2>3, <2>4
  <2>6. CallHolds(op)'
    BY <1>1, <2>2, <2>3, <2>5, CallCarried
  <2>7. ASSUME NEW q \in Operations \ {op} PROVE CallHolds(q)'
    BY <1>1, <2>2, <2>5, CallKept DEF PagesInv
  <2>8. ToldDoneIsDone'
    BY <1>1, <2>2, DoneKept DEF PagesInv
  <2>9. PagesTyped' /\ (claimPage.verifiedAnswer # NoAnswer => verifyAnswer(claimPage.verifiedAnswer))'
    BY <1>1 DEF PagesInv, PagesTyped, pageVars, verifyAnswer
  <2>10. QED
    BY <1>1, <2>2, <2>5, <2>6, <2>7, <2>8, <2>9 DEF PagesInv
<1>3. CASE UNCHANGED gift /\ call' = [call EXCEPT ![op].tx = "failed", ![op].why = Panics(op)]
  <2> DEFINE c == [[call[op] EXCEPT !.tx = "failed"] EXCEPT !.why = Panics(op)]
  <2>1. Panics(op) \in 0..13 /\ Reason(op, call[op].by, Panics(op))
    BY <1>1, PanicsForAReason
  <2>2. call' = [call EXCEPT ![op] = c]
    BY <1>1, <1>3
  <2>3. /\ c \in Calls /\ c.by = call[op].by /\ c.answer = call[op].answer
        /\ c.tx = "failed" /\ c.why = Panics(op)
    BY <1>1, <2>1 DEF Calls
  <2> HIDE DEF c
  <2>4. Pressed(op, c) /\ Reason(op, c.by, c.why) /\ Said(op, c.by, toastOf'[op])
    BY <1>1, <2>1, <2>3 DEF CallHolds, Pressed
  <2>5. UNCHANGED <<giftVars, pageVars>> /\ DOMAIN toastOf' = Operations
    BY <1>1, <1>3 DEF giftVars, ledgerVars
  <2>6. QED
    BY <1>1, <2>2, <2>3, <2>4, <2>5, CallMoved
<1>4. QED
  BY <1>2, <1>3 DEF TransactionCloses

\* The poll ends: the page says it is done, or why it is not.
LEMMA PollKeeps ==
  ASSUME PagesInv, NEW op \in Operations, submitSignedInvocation(op)
  PROVE  PagesInv'
<1>1. /\ GiftTyped /\ RowFollows /\ CallHolds(op) /\ Pressed(op, call[op])
      /\ call[op].by # Nothing /\ UNCHANGED <<terms, gift, ledgerLate, late>>
      /\ call \in [Operations -> Calls] /\ call[op] \in Calls /\ DOMAIN toastOf = Operations
  BY DEF PagesInv, CallHolds, Pressed, submitSignedInvocation, ledgerVars
<1>2. CASE ~IsSuccess(op)
  <2> DEFINE err == IF call[op].tx = "failed" THEN FailedTransaction(call[op].why) ELSE NothingFound
             code == IF call[op].tx = "failed" THEN call[op].why ELSE NoCode
  <2>1. Tells(op, toResponse(parseContractError(err))) /\ UNCHANGED <<giftVars, pageVars>>
    BY <1>1, <1>2 DEF submitSignedInvocation, giftVars, ledgerVars
  <2>2. call[op].why \in 0..13 /\ Reason(op, call[op].by, call[op].why)
    BY <1>1 DEF Calls, CallHolds
  <2>3. code \in 0..13 /\ Reason(op, call[op].by, code)
    BY <2>2 DEF Reason, NoCode
  <2>4. extractContractErrorCode(err) = code
    BY <2>2, CodeFound
  <2> HIDE DEF err, code
  <2>5. Said(op, call[op].by, ToldOf(err))
    BY <2>3, <2>4, ReasonSaid
  <2>6. QED
    BY <2>1, <2>5, FailureTold DEF ToldOf
<1>3. CASE IsSuccess(op)
  <2> DEFINE c == [call[op] EXCEPT !.stage = "idle"]
  <2>1. reconcileGift /\ Succeeds(op) /\ UNCHANGED <<toastOf, giftPage>>
    BY <1>3 DEF submitSignedInvocation
  <2>2. Effect(op)
    BY <1>1, <1>3 DEF CallHolds, IsSuccess
  <2>3. Onwards /\ GiftTyped' /\ RowFollows'
    BY <1>1, <2>1, StepsAssumption DEF reconcileGift, Onwards, GiftTyped, RowStatuses, RowFollows
  <2>4. call' = [call EXCEPT ![op] = c]
    BY <1>1, <2>1 DEF Succeeds, Stage
  <2>5. /\ c \in Calls /\ c.stage = "idle" /\ c.by = call[op].by /\ c.answer = call[op].answer
        /\ c.tx = call[op].tx /\ c.why = call[op].why
    BY <1>1 DEF Calls, Stages
  <2> HIDE DEF c
  <2>6. call' \in [Operations -> Calls] /\ call'[op] = c
        /\ \A q \in Operations \ {op} : call'[q] = call[q]
    BY <1>1, <2>4, <2>5
  <2>7. Effect(op)'
    BY <1>1, <2>2 DEF Effect
  <2>8. CallHolds(op)'
    BY <1>1, <2>1, <2>3, <2>5, <2>6, <2>7, CallCarried
  <2>9. ASSUME NEW q \in Operations \ {op} PROVE CallHolds(q)'
    BY <1>1, <2>1, <2>3, <2>6, CallKept DEF PagesInv
  <2>10. PagesTyped'
    <3>1. row'.status \in RowStatuses
      BY <2>3 DEF GiftTyped
    <3>2. claimPage' = [claimPage EXCEPT !.claimedTx = claimPage.claimedTx \/ op = "claim"]
      BY <2>1 DEF Succeeds
    <3>3. dashboard' = [[dashboard EXCEPT !.reclaimed = dashboard.reclaimed \/ op = "refund"]
                          EXCEPT !.unlocked = dashboard.unlocked \/ op = "unlock_step"]
      BY <2>1 DEF Succeeds, PagesInv, PagesTyped
    <3>4. contributePage' \in {[summary |-> row'.status, success |-> TRUE], contributePage}
      BY <2>1 DEF Succeeds, getPublicSummary
    <3>5. (claimPage.claimedTx \/ op = "claim") \in BOOLEAN
          /\ (dashboard.reclaimed \/ op = "refund") \in BOOLEAN
          /\ (dashboard.unlocked \/ op = "unlock_step") \in BOOLEAN
      OBVIOUS
    <3>6. claimPage' \in ClaimPages
      BY <3>2, <3>5 DEF PagesInv, PagesTyped, ClaimPages
    <3>7. dashboard' \in Dashboards
      BY <3>3, <3>5 DEF PagesInv, PagesTyped, Dashboards
    <3>8. contributePage' \in ContributePages
      <4>1. [summary |-> row'.status, success |-> TRUE] \in ContributePages
        BY <3>1 DEF ContributePages
      <4>2. QED
        BY <3>4, <4>1 DEF PagesInv, PagesTyped
    <3>9. QED
      BY <2>1, <3>6, <3>7, <3>8 DEF PagesInv, PagesTyped
  <2>11. ToldDoneIsDone'
    <3>1. claimPage'.claimedTx => claimPage.claimedTx \/ op = "claim"
      BY <2>1 DEF Succeeds, PagesInv, PagesTyped, ClaimPages
    <3>2. dashboard'.reclaimed => dashboard.reclaimed \/ op = "refund"
      BY <2>1 DEF Succeeds, PagesInv, PagesTyped, Dashboards
    <3>3. dashboard'.unlocked => dashboard.unlocked \/ op = "unlock_step"
      BY <2>1 DEF Succeeds, PagesInv, PagesTyped, Dashboards
    <3>4. contributePage'.success => contributePage.success \/ op = "contribute"
      BY <2>1 DEF Succeeds
    <3>5. gift' = gift /\ ToldDoneIsDone
      BY <1>1 DEF PagesInv
    <3>6. QED
      BY <2>2, <3>1, <3>2, <3>3, <3>4, <3>5, Zenon DEF ToldDoneIsDone, Effect
  <2>12. (claimPage.verifiedAnswer # NoAnswer => verifyAnswer(claimPage.verifiedAnswer))'
    BY <1>1, <2>1 DEF PagesInv, PagesTyped, ClaimPages, Succeeds, verifyAnswer
  <2>13. QED
    BY <1>1, <2>1, <2>3, <2>6, <2>8, <2>9, <2>10, <2>11, <2>12 DEF PagesInv
<1>4. QED
  BY <1>2, <1>3

-----------------------------------------------------------------------------
(* The pages *)

\* The claim page turns to something else, without saying more is done.
LEMMA ClaimPageMoved ==
  ASSUME PagesInv, NEW page \in ClaimPages, SetClaimPage(page),
         page.claimedTx = claimPage.claimedTx,
         page.verifiedAnswer # NoAnswer => verifyAnswer(page.verifiedAnswer)
  PROVE  PagesInv'
<1>1. UNCHANGED <<terms, gift, ledgerLate, row, late, call, toastOf, giftPage, dashboard, contributePage>>
      /\ claimPage' = page
  BY DEF SetClaimPage, giftVars, ledgerVars
<1>2. GiftTyped /\ GiftTyped' /\ Onwards /\ RowFollows'
  BY <1>1, StepsAssumption DEF PagesInv, GiftTyped, Onwards, RowFollows
<1>3. \A op \in Operations : CallHolds(op)'
  BY <1>1, <1>2, CallKept DEF PagesInv
<1>4. PagesTyped' /\ ToldDoneIsDone'
      /\ (claimPage.verifiedAnswer # NoAnswer => verifyAnswer(claimPage.verifiedAnswer))'
  BY <1>1 DEF PagesInv, PagesTyped, ToldDoneIsDone, verifyAnswer
<1>5. QED
  BY <1>1, <1>2, <1>3, <1>4 DEF PagesInv

\* The claim page: previews, clocks, answers and their checks, and the press.
LEMMA ClaimPageKeeps ==
  ASSUME PagesInv, ClaimPageNext
  PROVE  PagesInv'
<1>1. /\ claimPage \in ClaimPages /\ row.status \in RowStatuses
      /\ claimPage.verifiedAnswer # NoAnswer => verifyAnswer(claimPage.verifiedAnswer)
  BY DEF PagesInv, PagesTyped, GiftTyped
<1>2. CASE PreviewAnswered
  <2>1. PICK status \in {row.status, NotShown} : SetClaimPage([claimPage EXCEPT !.preview = status])
    BY <1>2 DEF PreviewAnswered, resolveClaimToken
  <2> DEFINE page == [claimPage EXCEPT !.preview = status]
  <2>2. page \in ClaimPages /\ page.claimedTx = claimPage.claimedTx
        /\ page.verifiedAnswer = claimPage.verifiedAnswer
    BY <1>1 DEF ClaimPages
  <2> HIDE DEF page
  <2>3. SetClaimPage(page)
    BY <2>1 DEF page
  <2>4. QED
    BY <1>1, <2>2, <2>3, ClaimPageMoved
<1>3. CASE CountdownExpires
  <2> DEFINE page == [claimPage EXCEPT !.countdownDone = TRUE]
  <2>1. page \in ClaimPages /\ page.claimedTx = claimPage.claimedTx
        /\ page.verifiedAnswer = claimPage.verifiedAnswer
    BY <1>1 DEF ClaimPages
  <2>2. SetClaimPage(page)
    BY <1>3 DEF CountdownExpires
  <2> HIDE DEF page
  <2>3. QED
    BY <1>1, <2>1, <2>2, ClaimPageMoved
<1>4. CASE TypeAnswer
  <2>1. PICK text \in Texts : SetClaimPage([claimPage EXCEPT !.answer = text])
    BY <1>4 DEF TypeAnswer
  <2> DEFINE page == [claimPage EXCEPT !.answer = text]
  <2>2. page \in ClaimPages /\ page.claimedTx = claimPage.claimedTx
        /\ page.verifiedAnswer = claimPage.verifiedAnswer
    BY <1>1 DEF ClaimPages
  <2> HIDE DEF page
  <2>3. SetClaimPage(page)
    BY <2>1 DEF page
  <2>4. QED
    BY <1>1, <2>2, <2>3, ClaimPageMoved
<1>5. CASE CheckAnswer
  <2> DEFINE page == [claimPage EXCEPT !.checks = claimPage.checks \cup {claimPage.answer}]
  <2>1. claimPage.answer \in Texts /\ SetClaimPage(page)
    BY <1>1, <1>5 DEF CheckAnswer, ClaimPages
  <2>2. page \in ClaimPages /\ page.claimedTx = claimPage.claimedTx
        /\ page.verifiedAnswer = claimPage.verifiedAnswer
    BY <1>1, <2>1 DEF ClaimPages
  <2> HIDE DEF page
  <2>3. QED
    BY <1>1, <2>1, <2>2, ClaimPageMoved
<1>6. ASSUME NEW text \in Texts, CheckAnswered(text) PROVE PagesInv'
  <2> DEFINE answer == IF verifyAnswer(text) THEN text ELSE claimPage.verifiedAnswer
             page == [[claimPage EXCEPT !.checks = claimPage.checks \ {text}] EXCEPT !.verifiedAnswer = answer]
  <2>1. SetClaimPage(page)
    BY <1>1, <1>6 DEF CheckAnswered, Verified, ClaimPages
  <2>2. answer \in Texts \cup {NoAnswer} /\ (answer # NoAnswer => verifyAnswer(answer))
    BY <1>1 DEF ClaimPages
  <2> HIDE DEF answer
  <2>3. page \in ClaimPages /\ page.claimedTx = claimPage.claimedTx /\ page.verifiedAnswer = answer
    BY <1>1, <2>2 DEF ClaimPages
  <2> HIDE DEF page
  <2>4. QED
    BY <2>1, <2>2, <2>3, ClaimPageMoved
<1>7. ASSUME NEW text \in Texts, CheckLost(text) PROVE PagesInv'
  <2> DEFINE page == [claimPage EXCEPT !.checks = claimPage.checks \ {text}]
  <2>1. page \in ClaimPages /\ page.claimedTx = claimPage.claimedTx
        /\ page.verifiedAnswer = claimPage.verifiedAnswer
    BY <1>1 DEF ClaimPages
  <2>2. SetClaimPage(page)
    BY <1>7 DEF CheckLost
  <2> HIDE DEF page
  <2>3. QED
    BY <1>1, <2>1, <2>2, ClaimPageMoved
<1>8. CASE doClaim
  <2>1. PICK by \in {"receiver", "friend"} : Press("claim", by, claimPage.verifiedAnswer, Nothing)
    BY <1>8 DEF doClaim, claim
  <2>2. ~WrongAnswer(claimPage.verifiedAnswer)
    BY <1>1, <1>8 DEF doClaim, conditionSatisfied, WrongAnswer
  <2>3. claimPage.verifiedAnswer \in Texts \cup {NoAnswer} /\ "claim" \in Operations
    BY <1>1 DEF ClaimPages, Operations
  <2>4. QED
    BY <2>1, <2>2, <2>3, PressKeeps
<1>9. QED
  BY <1>2, <1>3, <1>4, <1>5, <1>6, <1>7, <1>8 DEF ClaimPageNext

\* The dashboard and the contribution page.
LEMMA SenderPagesKeep ==
  ASSUME PagesInv, ListAnswered \/ SummaryAnswered \/ reclaim \/ unlockNext \/ ContributeForm
  PROVE  PagesInv'
<1>1. GiftTyped /\ PagesTyped /\ Operations = {"claim", "refund", "unlock_step", "contribute"}
  BY DEF PagesInv, Operations
<1>2. ASSUME UNCHANGED <<giftVars, call, toastOf, giftPage, claimPage>>,
             dashboard' \in Dashboards, contributePage' \in ContributePages,
             dashboard'.reclaimed = dashboard.reclaimed, dashboard'.unlocked = dashboard.unlocked,
             contributePage'.success = contributePage.success
      PROVE  PagesInv'
  <2>1. UNCHANGED <<terms, gift, ledgerLate, row, late>>
    BY <1>2 DEF giftVars, ledgerVars
  <2>2. GiftTyped' /\ Onwards /\ RowFollows'
    BY <1>1, <2>1, StepsAssumption DEF PagesInv, GiftTyped, Onwards, RowFollows
  <2>3. \A op \in Operations : CallHolds(op)'
    BY <1>1, <1>2, <2>2, CallKept DEF PagesInv
  <2>4. PagesTyped' /\ ToldDoneIsDone'
        /\ (claimPage.verifiedAnswer # NoAnswer => verifyAnswer(claimPage.verifiedAnswer))'
    BY <1>2, <2>1 DEF PagesInv, PagesTyped, ToldDoneIsDone, verifyAnswer
  <2>5. QED
    BY <1>2, <2>2, <2>3, <2>4 DEF PagesInv
<1>3. CASE ListAnswered
  <2> DEFINE page == [[dashboard EXCEPT !.status = row.status] EXCEPT !.steps = row.steps]
  <2>1. dashboard' = page
    BY <1>1, <1>3 DEF ListAnswered, toGiftDTO, PagesTyped, Dashboards
  <2>2. page \in Dashboards /\ page.reclaimed = dashboard.reclaimed /\ page.unlocked = dashboard.unlocked
    BY <1>1 DEF GiftTyped, PagesTyped, Dashboards
  <2> HIDE DEF page
  <2>3. QED
    BY <1>1, <1>2, <1>3, <2>1, <2>2 DEF ListAnswered, PagesTyped
<1>4. CASE SummaryAnswered
  <2> DEFINE page == [contributePage EXCEPT !.summary = row.status]
  <2>1. contributePage' = page
    BY <1>4 DEF SummaryAnswered, getPublicSummary
  <2>2. page \in ContributePages /\ page.success = contributePage.success
    BY <1>1 DEF GiftTyped, PagesTyped, ContributePages
  <2> HIDE DEF page
  <2>3. QED
    BY <1>1, <1>2, <1>4, <2>1, <2>2 DEF SummaryAnswered, PagesTyped
<1>5. CASE reclaim
  <2>1. Press("refund", "sender", NoAnswer, Nothing)
    BY <1>5 DEF reclaim, refund
  <2>2. QED
    BY <1>1, <2>1, PressKeeps
<1>6. CASE unlockNext
  <2>1. Press("unlock_step", "sender", NoAnswer, Nothing) /\ terms.stored.type = "stepGate"
    BY <1>6 DEF unlockNext, unlockNextStep, DashboardGiftRow, stepsRemaining, StepsRemain
  <2>2. QED
    BY <1>1, <2>1, PressKeeps
<1>7. CASE ContributeForm
  <2>1. PICK amount \in AmountKinds : Press("contribute", "friend", NoAnswer, amount)
    BY <1>7 DEF ContributeForm, contribute
  <2>2. QED
    BY <1>1, <2>1, PressKeeps
<1>8. QED
  BY <1>3, <1>4, <1>5, <1>6, <1>7

-----------------------------------------------------------------------------
(* Theorems *)

\* The invariant holds from the first state on.
THEOREM PagesHold == GiftPagesSpec => []PagesInv
<1>1. GiftPagesInit => PagesInv
  <2> SUFFICES ASSUME GiftPagesInit PROVE PagesInv
    OBVIOUS
  <2>1. TotalSteps \in Nat /\ 0 \in 0..TotalSteps
    BY StepsAssumption
  <2>2. GiftTyped /\ RowFollows
    BY <2>1 DEF GiftPagesInit, GiftTyped, RowStatuses, RowFollows
  <2>3. PagesTyped /\ claimPage.verifiedAnswer = NoAnswer
    BY <2>1 DEF GiftPagesInit, PagesTyped, ClaimPages, Dashboards, ContributePages
  <2>4. NoCall \in Calls
    BY DEF NoCall, Calls, Stages, NoCode
  <2>5. call \in [Operations -> Calls] /\ DOMAIN toastOf = Operations
        /\ \A op \in Operations : call[op] = NoCall /\ toastOf[op] = Nothing
    BY <2>4 DEF GiftPagesInit
  <2>6. NoCall.stage = "idle" /\ NoCall.by = Nothing /\ NoCall.tx = "none" /\ NoCall.why = 0
    BY DEF NoCall, NoCode
  <2>7. \A op \in Operations : CallHolds(op)
    <3>1. \A op \in Operations : Said(op, Nothing, Nothing)
      BY DEF Said, Nothing
    <3>2. QED
      BY <2>5, <2>6, <3>1 DEF CallHolds, Pressed, Reason, Nothing
  <2>8. ToldDoneIsDone
    BY DEF GiftPagesInit, ToldDoneIsDone
  <2>9. QED
    BY <2>2, <2>3, <2>5, <2>7, <2>8 DEF PagesInv
<1>2. PagesInv /\ [GiftPagesNext]_giftPagesVars => PagesInv'
  <2> SUFFICES ASSUME PagesInv, [GiftPagesNext]_giftPagesVars PROVE PagesInv'
    OBVIOUS
  <2>1. ASSUME NEW op \in Operations, Serve(op) PROVE PagesInv'
    BY <2>1, BuildKeeps, WalletKeeps, SubmitKeeps, ClosingKeeps, PollKeeps, RequestFailsKeeps DEF Serve
  <2>2. \A op \in ButtonsOf[giftPage] : op \in Operations
    BY DEF PagesInv, PagesTyped, ButtonsOf, Operations
  <2>3. CASE UNCHANGED giftPagesVars
    <3>1. UNCHANGED <<terms, gift, ledgerLate, row, late, call, toastOf, pageVars>>
      BY <2>3 DEF giftPagesVars, giftVars, ledgerVars
    <3>2. GiftTyped' /\ Onwards /\ RowFollows'
      BY <3>1, StepsAssumption DEF PagesInv, GiftTyped, Onwards, RowFollows
    <3>3. QED
      BY <3>1, <3>2, GiftMoved
  <2>4. QED
    BY <2>1, <2>2, <2>3, ClaimPageKeeps, SenderPagesKeep, ElsewhereKeeps DEF GiftPagesNext
<1>3. QED
  BY <1>1, <1>2, PTL DEF GiftPagesSpec

\* All variables keep their types.
THEOREM PagesTypedAlways == GiftPagesSpec => []GiftPagesTypeOK
<1>1. PagesInv => GiftPagesTypeOK
  <2> SUFFICES ASSUME PagesInv PROVE GiftPagesTypeOK
    OBVIOUS
  <2>1. {NoCode} \cup DOMAIN CONTRACT_ERROR_MESSAGES = 0..13
    BY Codes DEF NoCode
  <2>2. ASSUME NEW op \in Operations
        PROVE  /\ call[op].stage \in {"idle", "building", "signing", "submitting", "polling"}
               /\ call[op].by \in {Nothing, "sender", "receiver", "friend"}
               /\ call[op].answer \in Texts \cup {NoAnswer}
               /\ call[op].amount \in AmountKinds \cup {Nothing}
               /\ call[op].tx \in {"none", "pending", "landed", "failed"}
               /\ call[op].why \in {NoCode} \cup DOMAIN CONTRACT_ERROR_MESSAGES
    BY <2>1 DEF PagesInv, Calls, Stages
  <2>3. QED
    BY <2>2 DEF PagesInv, GiftTyped, PagesTyped, ClaimPages, Dashboards, ContributePages, GiftPagesTypeOK
<1>2. QED
  BY <1>1, PagesHold, PTL

\* What a page says was done is done, whatever was lost or timed out.
THEOREM ToldDoneWasDone == GiftPagesSpec => []ToldDoneIsDone
<1>1. PagesInv => ToldDoneIsDone
  BY DEF PagesInv
<1>2. QED
  BY <1>1, PagesHold, PTL

\* An answer the page let through is not called wrong by anyone.
THEOREM RightAnswerSuffices == GiftPagesSpec => []RightAnswerIsEnough
<1>1. PagesInv => RightAnswerIsEnough
  BY DEF PagesInv, CallHolds, Said, Operations, RightAnswerIsEnough
<1>2. QED
  BY <1>1, PagesHold, PTL

\* The reason told for a failure is true of the gift.
THEOREM ReasonsAreTrue == GiftPagesSpec => []ToldTheReason
<1>1. PagesInv => ToldTheReason
  BY DEF PagesInv, CallHolds, Said, ToldTheReason
<1>2. QED
  BY <1>1, PagesHold, PTL
=============================================================================
