-------------------------------- MODULE Onramp --------------------------------
(***************************************************************************)
(* Buying test funds: the modal and useOnramp in the browser, onrampService *)
(* and its Sep24Session documents in the backend, the SEP-1, SEP-10 and     *)
(* SEP-24 clients of the chain library, and the anchor they talk to.        *)
(*                                                                         *)
(* A start() call is a run of awaits that closing the modal does not stop.  *)
(* Each run that gets its deposit starts an interval of its own, and the    *)
(* polls of an interval overlap.                                            *)
(***************************************************************************)
EXTENDS Wallet, FiniteSets

CONSTANTS MaxStarts,   \* bound: calls of start()
          MaxPolls,    \* bound: polls of one interval in flight at a time
          MaxFaults    \* bound: calls that fail, answers lost, sessions that expire

ASSUME OnrampAssumption ==
  MaxStarts \in Nat /\ MaxPolls \in Nat \ {0} /\ MaxFaults \in Nat

VARIABLES
  modal,     \* open, closed, or gone with its page
  phase,     \* of the hook
  timer,     \* pollTimer.current: the run whose interval it holds
  intervals, \* the runs whose interval is running
  run,       \* [Starts -> Runs]
  session,   \* the Sep24Session document of each run
  deposit,   \* what the anchor holds for each run
  inFlight,  \* how many polls of each run have read what
  faults

hookVars == <<modal, phase, timer, intervals, run>>
onrampVars == <<hookVars, session, deposit, inFlight, faults>>

Starts == 1..MaxStarts
NoStart == 0

Phases == {"idle", "authenticating", "depositing", "polling", "completed", "error"}
Stages == {"unused", "challenge", "sign", "submit", "deposit", "polling", "over"}

\* The anchor's own statuses; "error" stands for the five listed failures and
\* "pending" for all that are not final.
TERMINAL_FAILURES == {"error"}
FinalStatuses == {"completed", "refunded", "error"}
AnchorStatuses == {"pending"} \cup FinalStatuses

Challenges == [account : Wallets, network : Networks, signer : {"anchor", "other"}]

OnrampTypeOK ==
  /\ modal \in {"closed", "open", "gone"}
  /\ phase \in Phases
  /\ timer \in Starts \cup {NoStart}
  /\ intervals \subseteq Starts
  /\ run \in [Starts -> [stage : Stages, by : Wallets \cup {NoWallet}]]
  /\ session \in [Starts -> [owner : Wallets \cup {NoWallet}, live : BOOLEAN]]
  /\ deposit \in [Starts -> [to : Wallets \cup {NoWallet}, status : AnchorStatuses \cup {"none"}]]
  /\ inFlight \in [Starts -> [AnchorStatuses -> 0..MaxPolls]]
  /\ faults \in 0..MaxFaults

NoSession == [owner |-> NoWallet, live |-> FALSE]

OnrampInit ==
  /\ modal = "closed" /\ phase = "idle" /\ timer = NoStart
  /\ intervals = {}
  /\ run = [f \in Starts |-> [stage |-> "unused", by |-> NoWallet]]
  /\ session = [f \in Starts |-> NoSession]
  /\ deposit = [f \in Starts |-> [to |-> NoWallet, status |-> "none"]]
  /\ inFlight = [f \in Starts |-> [x \in AnchorStatuses |-> 0]]
  /\ faults = 0

-----------------------------------------------------------------------------
(* The modal *)

stopPolling == intervals' = intervals \ {timer} /\ timer' = NoStart

\* What the modal shows, if it is open, or when it is opened again.
SaysWaiting == phase = "polling" /\ modal # "gone"
SaysComplete == phase = "completed" /\ modal # "gone"

\* State set by a run whose page is gone is dropped.
SetPhase(p) == phase' = IF modal = "gone" THEN phase ELSE p

reset ==
  /\ stopPolling
  /\ phase' = "idle"
  /\ UNCHANGED <<run, session, deposit, inFlight, faults>>

\* The button is on the compose step, which needs a connected wallet.
OpenModal ==
  /\ modal = "closed"
  /\ Connected
  /\ modal' = "open"
  /\ UNCHANGED <<walletVars, phase, timer, intervals, run, session, deposit,
                 inFlight, faults>>

\* The backdrop, the cross, and Done.
CloseModal ==
  /\ modal = "open"
  /\ modal' = "closed"
  /\ reset
  /\ UNCHANGED walletVars

TryAgain ==
  /\ modal = "open" /\ phase = "error"
  /\ reset
  /\ UNCHANGED <<walletVars, modal>>

\* Unmounting clears the interval the ref holds; runs under way go on.
LeavePage ==
  /\ modal # "gone"
  /\ modal' = "gone"
  /\ stopPolling
  /\ UNCHANGED <<walletVars, phase, run, session, deposit, inFlight, faults>>

NextStart(f) == run[f].stage = "unused" /\ \A g \in Starts : g < f => run[g].stage # "unused"

start(f) ==
  /\ modal = "open" /\ phase = "idle"
  /\ NextStart(f)
  /\ IF Connected
     THEN /\ run' = [run EXCEPT ![f] = [stage |-> "challenge", by |-> publicKey]]
          /\ phase' = "authenticating"
     ELSE /\ run' = [run EXCEPT ![f].stage = "over"]
          /\ phase' = "error"
  /\ UNCHANGED <<walletVars, modal, timer, intervals, session, deposit,
                 inFlight, faults>>

\* Faulty variant: the catch forgets to leave the phase it was in.
CaughtKeepsPhase(f) ==
  stopPolling /\ run' = [run EXCEPT ![f].stage = "over"] /\ UNCHANGED <<modal, phase>>

\* The catch of start(): it stops whatever interval the ref now holds.
Caught(f) ==
  /\ stopPolling
  /\ SetPhase("error")
  /\ run' = [run EXCEPT ![f].stage = "over"]
  /\ UNCHANGED modal

Proceeds(f, stage, p) ==
  /\ SetPhase(p)
  /\ run' = [run EXCEPT ![f].stage = stage]
  /\ UNCHANGED <<modal, timer, intervals>>

Faulty == faults < MaxFaults /\ faults' = faults + 1

-----------------------------------------------------------------------------
(* SEP-10: the challenge, its signature, and the session *)

\* What the home domain publishes; one that lacks an endpoint or its key is no
\* anchor.  (The hour for which an answer is kept is left out.)
TomlKeys == {"WEB_AUTH_ENDPOINT", "TRANSFER_SERVER_SEP0024", "SIGNING_KEY"}
resolveStellarToml(published) == TomlKeys \subseteq published

verifyChallenge(f, c) == c.signer = "anchor" /\ c.account = run[f].by

requestChallenge(f, c) == c.network = "TESTNET" /\ verifyChallenge(f, c)

\* Anything may come back; a challenge that fails the checks is never signed.  A
\* call that throws ends the run the same way.
ChallengeAnswered(f) ==
  /\ run[f].stage = "challenge"
  /\ \E published \in SUBSET TomlKeys, c \in Challenges :
       IF resolveStellarToml(published) /\ requestChallenge(f, c)
       THEN Proceeds(f, "sign", "authenticating") /\ UNCHANGED faults
       ELSE Caught(f) /\ Faulty
  /\ UNCHANGED <<walletVars, session, deposit, inFlight>>

\* Declining, or being on the wrong network, ends the run.
ChallengeSigned(f) ==
  /\ run[f].stage = "sign"
  /\ \/ MaySign /\ Proceeds(f, "submit", "authenticating") /\ UNCHANGED walletVars
     \/ MaySign /\ Caught(f) /\ UNCHANGED walletVars
     \/ RefusedToSign /\ Caught(f)
  /\ UNCHANGED <<session, deposit, inFlight, faults>>

\* Faulty variant: the key the page shows when the call is made.
CurrentOwner(f) == publicKey

\* The account named in the request, which is the one start() captured.
SessionOwner(f) == run[f].by

OpensSession(f) ==
  session' = [session EXCEPT ![f] =
                [owner |-> SessionOwner(f), live |-> TRUE]]

\* The anchor's answers: no answer, not JSON, an error, and what was asked for.
Answers == {"none", "garbled", "error", "token"}
submitSignedChallenge(answer) == answer = "token"

\* The session is opened with the token; the backend's answer may be lost too.
SignatureSubmitted(f) ==
  /\ run[f].stage = "submit"
  /\ \E answer \in Answers :
       IF submitSignedChallenge(answer)
       THEN /\ OpensSession(f)
            /\ \/ Proceeds(f, "deposit", "depositing") /\ UNCHANGED faults
               \/ Caught(f) /\ Faulty
       ELSE Caught(f) /\ Faulty /\ UNCHANGED session
  /\ UNCHANGED <<walletVars, deposit, inFlight>>

\* Mongo reaps the document a day later.
SessionExpires(f) ==
  /\ session[f].live
  /\ Faulty
  /\ session' = [session EXCEPT ![f].live = FALSE]
  /\ UNCHANGED <<walletVars, hookVars, deposit, inFlight>>

-----------------------------------------------------------------------------
(* SEP-24: the deposit and its polls *)

\* Until the document is reaped, a lookup by token checks the expiry itself.
findSessionByToken(f) == session[f].live

Depositor(f) == session[f].owner

initiateInteractiveDeposit(f) ==
  deposit' = [deposit EXCEPT ![f] = [to |-> Depositor(f), status |-> "pending"]]

\* The ref is overwritten even if it holds the interval of an earlier run.
StartsPolling(f) ==
  /\ SetPhase("polling")
  /\ timer' = f
  /\ intervals' = intervals \cup {f}
  /\ run' = [run EXCEPT ![f].stage = "polling"]
  /\ UNCHANGED modal

DepositAnswered(f) ==
  /\ run[f].stage = "deposit"
  /\ IF findSessionByToken(f)
     THEN \/ initiateInteractiveDeposit(f) /\ StartsPolling(f) /\ UNCHANGED faults
          \/ initiateInteractiveDeposit(f) /\ Caught(f) /\ Faulty
          \/ Caught(f) /\ Faulty /\ UNCHANGED deposit
     ELSE Caught(f) /\ UNCHANGED <<deposit, faults>>
  /\ UNCHANGED <<walletVars, session, inFlight>>

PollsOf(f) == {x \in AnchorStatuses : inFlight[f][x] > 0}
Crowded(f) == \E x \in PollsOf(f) : inFlight[f][x] = MaxPolls \/ Cardinality(PollsOf(f)) = MaxPolls
Taken(f, from) == [inFlight EXCEPT ![f][from] = @ - 1]

pollTransactionStatus(f) == deposit[f].status

\* The session is looked up by its id, without an expiry check, and then the
\* anchor is asked; the answer may be overtaken on its way back.
\* (The copy of the status that is saved there is read by nothing.)
getDepositStatus(f) ==
  /\ session[f].live
  /\ inFlight' = [inFlight EXCEPT ![f][pollTransactionStatus(f)] = @ + 1]

IntervalTicks(f) ==
  /\ f \in intervals
  /\ ~Crowded(f)
  /\ getDepositStatus(f)
  /\ UNCHANGED <<walletVars, hookVars, session, deposit, faults>>

\* Faulty variant: the anchor's status is kept as it came.
PhaseIsStatus(status) == status

\* Faulty variant: a refund is final, so it is taken for a deposit.
TakesRefundForDone(status) ==
  CASE status \in {"completed", "refunded"} -> "completed"
    [] status \in TERMINAL_FAILURES         -> "error"
    [] OTHER                                -> "polling"

PhaseAfter(status) ==
  CASE status = "completed"           -> "completed"
    [] status \in TERMINAL_FAILURES   -> "error"
    [] OTHER                          -> "polling"

PollAnswered(f, status) ==
  /\ inFlight[f][status] > 0
  /\ inFlight' = Taken(f, status)
  /\ IF PhaseAfter(status) = "polling"
     THEN UNCHANGED <<phase, timer, intervals>>
     ELSE stopPolling /\ SetPhase(PhaseAfter(status))
  /\ UNCHANGED <<walletVars, modal, run, session, deposit, faults>>

\* A poll that fails is ignored; so is, for ever, one for a dead session.
PollFails(f) ==
  /\ Faulty
  /\ \E x \in PollsOf(f) : inFlight' = Taken(f, x)
  /\ UNCHANGED <<walletVars, hookVars, session, deposit>>

AnchorAdvances(f) ==
  /\ deposit[f].status = "pending"
  /\ \E s \in FinalStatuses : deposit' = [deposit EXCEPT ![f].status = s]
  /\ UNCHANGED <<walletVars, hookVars, session, inFlight, faults>>

-----------------------------------------------------------------------------
Polls(f) == IntervalTicks(f) \/ PollFails(f) \/ \E s \in AnchorStatuses : PollAnswered(f, s)
Runs(f) == ChallengeAnswered(f) \/ ChallengeSigned(f) \/ SignatureSubmitted(f) \/ DepositAnswered(f)

OnrampNext ==
  \/ OpenModal \/ CloseModal \/ TryAgain \/ LeavePage
  \/ \E f \in Starts : start(f) \/ Runs(f) \/ Polls(f) \/ SessionExpires(f) \/ AnchorAdvances(f)
  \/ (WalletAnswers \/ (modal # "open" /\ WalletClicks)) /\ UNCHANGED onrampVars

OnrampSpec == WalletInit /\ OnrampInit /\ [][OnrampNext]_<<walletVars, onrampVars>>

-----------------------------------------------------------------------------
(* Properties *)

\* Whatever the user does with the wallet while a run is under way, the
\* deposit credits the account that signed the run's challenge.
DepositCreditsSigner ==
  \A f \in Starts : deposit[f].status # "none" => deposit[f].to = run[f].by

\* "Deposit complete" is only ever shown when a deposit of this tab completed,
\* whichever interval's answer came last.
CompletedIsReal == SaysComplete => \E f \in Starts : deposit[f].status = "completed"

\* A modal that says "Waiting for the anchor" has an interval running that will
\* go on asking, although runs left behind start, overwrite and stop intervals.
WaitingIsServed == SaysWaiting => timer \in intervals
=============================================================================
