------------------------------ MODULE GiftPages ------------------------------
(***************************************************************************)
(* The pages that act on a gift that is out: the receiver's claim page, the *)
(* sender's dashboard and a friend's contribution page, with the hooks, the *)
(* routes and the services behind their buttons.  A press is a run of       *)
(* awaits -- build, sign, submit, poll -- against a row that lags behind    *)
(* the contract, under two clocks, while others act on the same gift.       *)
(*                                                                         *)
(* One page is open; what the other two could do to the gift is done        *)
(* elsewhere.  Created gifts are in XLM, for which TrustlinePrompt is       *)
(* satisfied as soon as a wallet is connected.                              *)
(***************************************************************************)
EXTENDS ApiErrors, ClaimConditions

VARIABLES
  giftPage,   \* the page that is open
  terms,      \* fixed when the gift was created
  gift,       \* what the contract holds
  row,        \* what the backend's document says
  late,       \* the deadline has passed on the hosts' clocks
  ledgerLate, \* and for the ledger, whose time lags behind
  call,       \* the last press of each button
  toastOf,    \* the last failure told for each button
  claimPage,
  dashboard,
  contributePage

ledgerVars == <<gift, ledgerLate>>
giftVars == <<terms, ledgerVars, row, late>>
pageVars == <<giftPage, claimPage, dashboard, contributePage>>
giftPagesVars == <<giftVars, call, toastOf, pageVars>>

-----------------------------------------------------------------------------
(* Types *)

Operations == {"claim", "refund", "unlock_step", "contribute"}
ButtonsOf ==
  [claim |-> {"claim"}, dashboard |-> {"refund", "unlock_step"}, contribute |-> {"contribute"}]

RowStatuses == {"active", "claimed", "refund_pending", "refunded"}
NotShown == "not shown"
AmountKinds == {"whole", "below minimum", "with a fraction"}
Nothing == "nothing"

NoCall == [stage |-> "idle", by |-> Nothing, answer |-> NoAnswer, amount |-> Nothing,
           tx |-> "none", why |-> NoCode]

GiftPagesTypeOK ==
  /\ giftPage \in DOMAIN ButtonsOf
  /\ terms \in Terms
  /\ gift \in [status : {"active", "claimed", "refunded"}, steps : 0..TotalSteps, contributed : BOOLEAN]
  /\ row \in [status : RowStatuses, steps : 0..TotalSteps]
  /\ late \in BOOLEAN /\ ledgerLate \in BOOLEAN /\ (ledgerLate => late)
  /\ DOMAIN call = Operations /\ DOMAIN toastOf = Operations
  /\ \A op \in Operations :
       /\ call[op].stage \in {"idle", "building", "signing", "submitting", "polling"}
       /\ call[op].by \in {Nothing, "sender", "receiver", "friend"}
       /\ call[op].answer \in Texts \cup {NoAnswer}
       /\ call[op].amount \in AmountKinds \cup {Nothing}
       /\ call[op].tx \in {"none", "pending", "landed", "failed"}
       /\ call[op].why \in {NoCode} \cup DOMAIN CONTRACT_ERROR_MESSAGES
  /\ claimPage \in [preview : RowStatuses \cup {NotShown}, countdownDone : BOOLEAN,
                    answer : Texts \cup {NoAnswer}, checks : SUBSET Texts,
                    verifiedAnswer : Texts \cup {NoAnswer}, claimedTx : BOOLEAN]
  /\ dashboard \in [status : RowStatuses \cup {NotShown}, steps : 0..TotalSteps,
                    reclaimed : BOOLEAN, unlocked : BOOLEAN]
  /\ contributePage \in [summary : RowStatuses \cup {NotShown}, success : BOOLEAN]

GiftPagesInit ==
  /\ giftPage \in DOMAIN ButtonsOf
  /\ terms \in Terms
  /\ gift = [status |-> "active", steps |-> 0, contributed |-> FALSE]
  /\ row = [status |-> "active", steps |-> 0]
  /\ late = FALSE /\ ledgerLate = FALSE
  /\ call = [op \in Operations |-> NoCall]
  /\ toastOf = [op \in Operations |-> Nothing]
  /\ claimPage = [preview |-> NotShown, countdownDone |-> FALSE, answer |-> NoAnswer,
                  checks |-> {}, verifiedAnswer |-> NoAnswer, claimedTx |-> FALSE]
  /\ dashboard = [status |-> NotShown, steps |-> 0, reclaimed |-> FALSE, unlocked |-> FALSE]
  /\ contributePage = [summary |-> NotShown, success |-> FALSE]

-----------------------------------------------------------------------------
(* What refuses a call: the first check that fails *)

FirstFailing(checks, none) ==
  LET failing == {i \in DOMAIN checks : checks[i].holds}
  IN  IF failing = {} THEN none ELSE checks[Min(failing)].code
When(holds, code) == [holds |-> holds, code |-> code]

\* By the row, or by the contract.
StepsRemain(steps) == terms.stored.type = "stepGate" /\ steps < terms.stored.steps

\* Faulty variant: one more step may be unlocked than the gate has.
GateOneTooMany(steps) == terms.enforced.type = "stepGate" /\ steps <= terms.enforced.totalSteps

GateClosed(steps) == terms.enforced.type = "stepGate" /\ steps < terms.enforced.totalSteps

\* The backend hashes what was typed, the contract what the backend sent on.
verifyAnswer(rawAnswer) ==
  terms.stored.type = "trivia" /\ hashAnswer(rawAnswer) = terms.stored.answerHash
WrongAnswer(rawAnswer) == terms.stored.type = "trivia" /\ ~verifyAnswer(rawAnswer)
AnswerMismatch(rawAnswer) ==
  terms.enforced.type = "trivia" /\ normalizeAnswer(rawAnswer) # terms.enforced.answerHash

assertClaimable ==
  << When(row.status = "claimed", "INVALID_GIFT_STATE"),
     When(row.status \in {"refund_pending", "refunded"} \/ late, "CLAIM_EXPIRED") >>

assertRefundable ==
  << When(row.status \in {"claimed", "refunded"} \/ ~late, "REFUND_NOT_ELIGIBLE") >>

findStepGatedGift == << When(terms.stored.type # "stepGate", "NOT_STEP_GATED") >>

\* The services' checks before a transaction is built.  (The delays of a request
\* and of its answer are one step with what it reads.)
buildClaimTransaction ==
  assertClaimable \o
  << When(call["claim"].by # "receiver", "NOT_CLAIMANT"),
     When(WrongAnswer(call["claim"].answer), "WRONG_ANSWER"),
     When(StepsRemain(row.steps), "STEPS_NOT_COMPLETE") >>

buildRefundTransaction == assertRefundable
buildUnlockStepTransaction == findStepGatedGift

\* A fraction has no i128, and what BigInt throws is nobody's error.
buildContributeTransaction ==
  << When(row.status # "active", "GIFT_NOT_OPEN"),
     When(call["contribute"].amount = "below minimum", "CONTRIBUTION_TOO_SMALL"),
     When(call["contribute"].amount = "with a fraction", "INTERNAL_ERROR") >>

RefusesToBuild(op) ==
  CASE op = "claim"       -> buildClaimTransaction
    [] op = "refund"      -> buildRefundTransaction
    [] op = "unlock_step" -> buildUnlockStepTransaction
    [] op = "contribute"  -> buildContributeTransaction

\* And before a signed one is sent; a contribution is sent as it comes.
submitClaimTransaction == assertClaimable
submitRefundTransaction == assertRefundable
submitUnlockStepTransaction == findStepGatedGift

RefusesToSubmit(op) ==
  CASE op = "claim"       -> submitClaimTransaction
    [] op = "refund"      -> submitRefundTransaction
    [] op = "unlock_step" -> submitUnlockStepTransaction
    [] op = "contribute"  -> <<>>

\* The contract's own checks, in its order.  The sender's refund and the friend's
\* whole amount pass the ones that are left out.
Panics(op) ==
  FirstFailing(
    CASE op = "claim" ->
           << When(call[op].by # "receiver", 5), When(gift.status # "active", 2),
              When(ledgerLate, 3), When(AnswerMismatch(call[op].answer), 6),
              When(GateClosed(gift.steps), 7) >>
      [] op = "refund" -> << When(gift.status # "active", 2), When(~ledgerLate, 4) >>
      [] op = "unlock_step" ->
           << When(call[op].by # terms.unlocker, 8), When(~GateClosed(gift.steps), 9) >>
      [] op = "contribute" -> << When(gift.status # "active", 2), When(ledgerLate, 3) >>,
    NoCode)

Apply(op) ==
  gift' = CASE op = "claim"       -> [gift EXCEPT !.status = "claimed"]
            [] op = "refund"      -> [gift EXCEPT !.status = "refunded"]
            [] op = "unlock_step" -> [gift EXCEPT !.steps = @ + 1]
            [] op = "contribute"  -> [gift EXCEPT !.contributed = TRUE]

\* What the services show of the row.  (A gift that never reached the chain has
\* no preview; this one has.)
resolveClaimToken == row.status
getPublicSummary == row.status
toGiftDTO == [status |-> row.status, steps |-> row.steps]

-----------------------------------------------------------------------------
(* Build, sign, submit *)

Stage(op, stage) == call' = [call EXCEPT ![op].stage = stage]

\* The toast, and the finally block that enables the button again.
Tells(op, answer) ==
  /\ toastOf' = [toastOf EXCEPT ![op] = describeTransactionError(answer)]
  /\ Stage(op, "idle")

Refusal(code) ==
  toResponse(Thrown(IF code = "INTERNAL_ERROR" THEN "unknown" ELSE "api", code, code))

BuildAnswered(op) ==
  /\ call[op].stage = "building"
  /\ LET refusal == FirstFailing(RefusesToBuild(op), Nothing)
     IN  IF refusal # Nothing
         THEN Tells(op, Refusal(refusal))
         ELSE IF Panics(op) # NoCode
              THEN Tells(op, toResponse(parseContractError(SimulationError(Panics(op)))))
              ELSE Stage(op, "signing") /\ UNCHANGED toastOf
  /\ UNCHANGED <<giftVars, pageVars>>

\* Declined, or the wallet is on another network.
NotSigned == [status |-> 0, code |-> "NOT_SIGNED", said |-> "NOT_SIGNED"]

WalletAnswered(op) ==
  /\ call[op].stage = "signing"
  /\ \/ Stage(op, "submitting") /\ UNCHANGED toastOf
     \/ Tells(op, NotSigned)
  /\ UNCHANGED <<giftVars, pageVars>>

SubmitArrives(op) ==
  /\ call[op].stage = "submitting"
  /\ LET refusal == FirstFailing(RefusesToSubmit(op), Nothing)
     IN  IF refusal # Nothing
         THEN Tells(op, Refusal(refusal))
         ELSE /\ call' = [call EXCEPT ![op].stage = "polling", ![op].tx = "pending"]
              /\ UNCHANGED toastOf
  /\ UNCHANGED <<giftVars, pageVars>>

\* In the ledger, whoever is still waiting for it; a transaction also fails for
\* reasons of the network, which no contract code explains.
TransactionCloses(op) ==
  /\ call[op].tx = "pending"
  /\ \/ /\ Panics(op) = NoCode
        /\ Apply(op)
        /\ call' = [call EXCEPT ![op].tx = "landed"]
     \/ /\ call' = [call EXCEPT ![op].tx = "failed", ![op].why = Panics(op)]
        /\ UNCHANGED gift
  /\ UNCHANGED <<terms, row, late, ledgerLate, toastOf, pageVars>>

reconcileGift == row' = [status |-> gift.status, steps |-> gift.steps]

\* What a page does with a result; the contribution page reads its summary again
\* before it says thanks, the dashboard reads its list some time later.
Succeeds(op) ==
  /\ claimPage' = [claimPage EXCEPT !.claimedTx = @ \/ op = "claim"]
  /\ dashboard' = [dashboard EXCEPT !.reclaimed = @ \/ op = "refund",
                                    !.unlocked = @ \/ op = "unlock_step"]
  /\ contributePage' = IF op = "contribute" THEN [summary |-> getPublicSummary', success |-> TRUE]
                       ELSE contributePage
  /\ Stage(op, "idle")

\* Faulty variant: anything but a failure is taken for success.
NotFailed(op) == call[op].tx # "failed"

IsSuccess(op) == call[op].tx = "landed"

submitSignedInvocation(op) ==
  /\ call[op].stage = "polling"
  /\ IF IsSuccess(op)
     THEN reconcileGift /\ Succeeds(op) /\ UNCHANGED <<toastOf, giftPage>>
     ELSE /\ Tells(op, toResponse(parseContractError(
               IF call[op].tx = "failed" THEN FailedTransaction(call[op].why) ELSE NothingFound)))
          /\ UNCHANGED <<row, pageVars>>
  /\ UNCHANGED <<terms, ledgerVars, late>>

RateLimited == [status |-> 429, code |-> "RATE_LIMITED", said |-> "RATE_LIMITED"]

\* A request that never arrives, is throttled, or whose answer is lost; what was
\* sent to the network stays there.
RequestFails(op) ==
  /\ call[op].stage \in {"building", "submitting", "polling"}
  /\ \E answer \in {Unreachable, RateLimited} : Tells(op, answer)
  /\ UNCHANGED <<giftVars, pageVars>>

\* A new press.  One transaction of a kind is outstanding at a time, a bound.
Press(op, by, answer, amount) ==
  /\ call[op].stage = "idle" /\ call[op].tx # "pending"
  /\ call' = [call EXCEPT ![op] = [NoCall EXCEPT !.stage = "building", !.by = by,
                                                 !.answer = answer, !.amount = amount]]
  /\ toastOf' = [toastOf EXCEPT ![op] = Nothing]
  /\ UNCHANGED <<giftVars, pageVars>>

-----------------------------------------------------------------------------
(* The claim page *)

SetClaimPage(page) ==
  claimPage' = page /\ UNCHANGED <<giftVars, call, toastOf, giftPage, dashboard, contributePage>>

\* Once, and again after the connection was lost; a failure hides the gift.
PreviewAnswered ==
  \E status \in {resolveClaimToken, NotShown} :
    SetClaimPage([claimPage EXCEPT !.preview = status])

\* Success first, then the terminal states; the browser's clock is its own.
ShowsSuccess == claimPage.claimedTx
ShowsExpired == claimPage.countdownDone \/ claimPage.preview \in {"refunded", "refund_pending"}
LiveClaimUI ==
  claimPage.preview \notin {NotShown, "claimed"} /\ ~ShowsSuccess /\ ~ShowsExpired

CountdownExpires == LiveClaimUI /\ SetClaimPage([claimPage EXCEPT !.countdownDone = TRUE])

TypeAnswer ==
  /\ LiveClaimUI /\ terms.stored.type = "trivia"
  /\ \E text \in Texts : SetClaimPage([claimPage EXCEPT !.answer = text])

\* Enter is not held back while a check is on its way.
CheckAnswer ==
  /\ LiveClaimUI /\ terms.stored.type = "trivia" /\ claimPage.answer # NoAnswer
  /\ SetClaimPage([claimPage EXCEPT !.checks = @ \cup {claimPage.answer}])

\* Faulty variant: the field is read when the answer arrives.
TakesCurrent(text) == claimPage.answer

Verified(text) == text

\* A refusal leaves what an earlier check put there.
CheckAnswered(text) ==
  /\ text \in claimPage.checks
  /\ SetClaimPage([claimPage EXCEPT
       !.checks = @ \ {text},
       !.verifiedAnswer = IF verifyAnswer(text) THEN Verified(text) ELSE @])

CheckLost(text) ==
  text \in claimPage.checks /\ SetClaimPage([claimPage EXCEPT !.checks = @ \ {text}])

\* The preview carries no step counts, so a step gate always looks satisfied.
conditionSatisfied == terms.stored.type = "trivia" => claimPage.verifiedAnswer # NoAnswer

claim(by, answer) == Press("claim", by, answer, Nothing)

doClaim ==
  /\ LiveClaimUI /\ conditionSatisfied
  /\ \E by \in {"receiver", "friend"} : claim(by, claimPage.verifiedAnswer)

ClaimPageNext ==
  \/ PreviewAnswered \/ CountdownExpires \/ TypeAnswer \/ CheckAnswer \/ doClaim
  \/ \E text \in Texts : CheckAnswered(text) \/ CheckLost(text)

-----------------------------------------------------------------------------
(* The dashboard and the contribution page *)

ListAnswered ==
  /\ dashboard' = [dashboard EXCEPT !.status = toGiftDTO.status, !.steps = toGiftDTO.steps]
  /\ UNCHANGED <<giftVars, call, toastOf, giftPage, claimPage, contributePage>>

\* By the browser's clock an active gift is reclaimable too.
reclaimable == dashboard.status \in {"active", "refund_pending"}
stepsRemaining == dashboard.status # NotShown /\ StepsRemain(dashboard.steps)

\* The buttons of the row; the list is the sender's, so nobody else finds them.
DashboardGiftRow ==
  {op \in ButtonsOf["dashboard"] :
     (op = "refund" => reclaimable) /\ (op = "unlock_step" => stepsRemaining)}

refund == Press("refund", "sender", NoAnswer, Nothing)
reclaim == "refund" \in DashboardGiftRow /\ refund

unlockNextStep == Press("unlock_step", "sender", NoAnswer, Nothing)
unlockNext == "unlock_step" \in DashboardGiftRow /\ unlockNextStep

SummaryAnswered ==
  /\ contributePage' = [contributePage EXCEPT !.summary = getPublicSummary]
  /\ UNCHANGED <<giftVars, call, toastOf, giftPage, claimPage, dashboard>>

\* The page has a form unless the gift is closed.
ShowsForm == contributePage.summary = "active"

contribute(amount) == Press("contribute", "friend", NoAnswer, amount)
ContributeForm == ShowsForm /\ \E amount \in AmountKinds : contribute(amount)

-----------------------------------------------------------------------------
(* Elsewhere *)

Elsewhere ==
  /\ gift.status = "active"
  /\ \/ ~ledgerLate /\ ~GateClosed(gift.steps) /\ Apply("claim")
     \/ ledgerLate /\ Apply("refund")
     \/ GateClosed(gift.steps) /\ Apply("unlock_step")
  /\ UNCHANGED <<terms, row, late, ledgerLate, call, toastOf, pageVars>>

\* The handler of a call whose page stopped waiting, or the cron.
ReconciledElsewhere ==
  /\ reconcileGift
  /\ UNCHANGED <<terms, ledgerVars, late, call, toastOf, pageVars>>

markRefundPending ==
  /\ row.status = "active" /\ late
  /\ row' = [row EXCEPT !.status = "refund_pending"]
  /\ UNCHANGED <<terms, ledgerVars, late, call, toastOf, pageVars>>

DeadlinePasses ==
  /\ \/ ~late /\ late' = TRUE /\ UNCHANGED ledgerLate
     \/ late /\ ~ledgerLate /\ ledgerLate' = TRUE /\ UNCHANGED late
  /\ UNCHANGED <<terms, gift, row, call, toastOf, pageVars>>

-----------------------------------------------------------------------------
Serve(op) ==
  \/ BuildAnswered(op) \/ WalletAnswered(op) \/ SubmitArrives(op)
  \/ TransactionCloses(op) \/ submitSignedInvocation(op) \/ RequestFails(op)

GiftPagesNext ==
  \/ giftPage = "claim" /\ ClaimPageNext
  \/ giftPage = "dashboard" /\ (ListAnswered \/ reclaim \/ unlockNext)
  \/ giftPage = "contribute" /\ (SummaryAnswered \/ ContributeForm)
  \/ \E op \in ButtonsOf[giftPage] : Serve(op)
  \/ Elsewhere \/ ReconciledElsewhere \/ markRefundPending \/ DeadlinePasses

GiftPagesSpec == GiftPagesInit /\ [][GiftPagesNext]_giftPagesVars

-----------------------------------------------------------------------------
(* Properties *)

\* A page that says a gift was claimed, reclaimed, unlocked or added to is right:
\* the ledger holds the transaction, whatever was lost or timed out on the way.
ToldDoneIsDone ==
  /\ claimPage.claimedTx => gift.status = "claimed"
  /\ dashboard.reclaimed => gift.status = "refunded"
  /\ dashboard.unlocked => gift.steps > 0
  /\ contributePage.success => gift.contributed

\* Once the page has let the receiver through, nobody says the answer is wrong:
\* not the build after an overlapping check, not the contract for its spelling.
\* (Whether the page should have let an answer through is not said: the code
\* trims the ends where its comment promises that extra spaces are ignored.)
RightAnswerIsEnough == toastOf["claim"] # "WRONG_ANSWER"

\* A failure is told with a reason that is true of the gift, although it passed
\* a contract code, a chain error, a status and a table of sentences on the way.
\* (Of the reasons that stay true.)
ToldTheReason ==
  \A op \in Operations :
    /\ toastOf[op] = "NOT_RECEIVER" => call[op].by # "receiver"
    /\ toastOf[op] = "GIFT_NOT_OPEN" => late \/ gift.status # "active"
    /\ toastOf[op] = "GIFT_EXPIRED" => ledgerLate
    /\ toastOf[op] = "NOT_AUTHORIZED_UNLOCKER" => call[op].by # terms.unlocker
    /\ toastOf[op] = "ALL_STEPS_ALREADY_COMPLETE" => gift.steps = TotalSteps
    /\ toastOf[op] = "NOT_SENDER_OR_CONTRIBUTOR" => call[op].by = "friend"
=============================================================================
