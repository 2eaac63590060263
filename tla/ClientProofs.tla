----------------------------- MODULE ClientProofs -----------------------------
(***************************************************************************)
(* Theorems about Client, for every number of accounts, runs, polls, sends  *)
(* and presses: types, what the on-ramp credits and shows, what the wizard  *)
(* locks and shows, and what the /wallet page pays.                         *)
(*                                                                         *)
(* The screens share the wallet and nothing else: a step of Client is a     *)
(* step of one of them and leaves the variables of the others alone.        *)
(***************************************************************************)
EXTENDS Client, TLAPS

-----------------------------------------------------------------------------
(* Types *)

\* The session's variables keep their types under each of its steps.
LEMMA WalletTyped ==
  ASSUME WalletTypeOK, WalletAnswers \/ WalletClicks \/ RefusedToSign
  PROVE  WalletTypeOK'
<1>1. publicKey \in Wallets \cup {NoWallet} /\ switches \in 0..MaxSwitches
  BY DEF WalletTypeOK
<1>2. extension.account \in Wallets /\ extension.network \in Networks
  BY DEF WalletTypeOK
<1>3. CASE WalletClicks
  BY <1>3 DEF WalletClicks, ClickConnect, Disconnect, WalletTypeOK
<1>4. CASE RefusedToSign
  BY <1>4, <1>2 DEF RefusedToSign, NetworkReads, Refuses, Networks, UnknownNetwork, WalletTypeOK
<1>5. CASE RestoreSession \/ AccessAnswered \/ NetworkAnswered \/ WindowFocused
  BY <1>5, <1>2 DEF RestoreSession, AccessAnswered, NetworkAnswered, WindowFocused, WalletTypeOK
<1>6. CASE SwitchAccount \/ SwitchNetwork
  <2>1. switches' \in 0..MaxSwitches
    BY <1>1, <1>6, WalletAssumption DEF SwitchAccount, SwitchNetwork, Switches
  <2>2. extension' \in [account : Wallets, network : Networks]
    BY <1>6 DEF SwitchAccount, SwitchNetwork, WalletTypeOK
  <2>3. QED
    BY <1>6, <2>1, <2>2 DEF SwitchAccount, SwitchNetwork, WalletTypeOK
<1>7. QED
  BY <1>3, <1>4, <1>5, <1>6 DEF WalletAnswers

\* Whatever the screen does, the session's variables keep their types.
LEMMA WalletStaysTyped ==
  ASSUME WalletTypeOK, ClientNext
  PROVE  WalletTypeOK'
<1>0. ASSUME UNCHANGED walletVars PROVE WalletTypeOK'
  BY <1>0 DEF walletVars, WalletTypeOK
<1>1. OnrampNext => WalletAnswers \/ WalletClicks \/ RefusedToSign \/ UNCHANGED walletVars
  BY DEF OnrampNext, OpenModal, CloseModal, TryAgain, LeavePage, start, Runs, Polls,
         ChallengeAnswered, ChallengeSigned, SignatureSubmitted, DepositAnswered, IntervalTicks,
         PollFails, PollAnswered, SessionExpires, AnchorAdvances
<1>2. CreateNext => WalletAnswers \/ WalletClicks \/ RefusedToSign \/ UNCHANGED walletVars
  BY DEF CreateNext, WalletMoves, FillIn, Continue, Back, restart, TrustlineChecked, ClickAllow,
         AllowSigned, AllowAnswered, sendGift, SendFails, DraftAnswered, SendBuilt, SendSigned,
         SendAnswered, sealGift, SealFails, SealProceeds, NoteDeposited
<1>3. PanelNext => WalletAnswers \/ UNCHANGED walletVars
  BY DEF PanelNext, detectFreighter, getWalletAddress, connect, connectWallet, disconnect,
         refreshBalance, fetchXlmBalance, handleSend, sendXlm, PaymentFails, submitSignedTx,
         SentAnswered, WalletAnswers
<1>4. QED
  BY <1>0, <1>1, <1>2, <1>3, WalletTyped DEF ClientNext

\* The steps of the on-ramp keep the types of its variables: in particular the
\* polls in flight never outgrow their bound.
LEMMA OnrampTyped ==
  ASSUME WalletTypeOK, OnrampTypeOK, OnrampNext
  PROVE  OnrampTypeOK'
<1>0. publicKey \in Wallets \cup {NoWallet}
  BY DEF WalletTypeOK
<1>1. ASSUME UNCHANGED onrampVars PROVE OnrampTypeOK'
  BY <1>1 DEF onrampVars, hookVars, OnrampTypeOK
<1>2. ASSUME OpenModal \/ CloseModal \/ TryAgain \/ LeavePage PROVE OnrampTypeOK'
  BY <1>2 DEF OpenModal, CloseModal, TryAgain, LeavePage, reset, stopPolling, Phases, OnrampTypeOK
<1>3. ASSUME NEW f \in Starts, start(f) PROVE OnrampTypeOK'
  <2>1. run' \in [Starts -> [stage : Stages, by : Wallets \cup {NoWallet}]]
    <3>1. CASE Connected
      <4>1. run' = [run EXCEPT ![f] = [stage |-> "challenge", by |-> publicKey]]
        BY <1>3, <3>1 DEF start
      <4>2. [stage |-> "challenge", by |-> publicKey] \in [stage : Stages, by : Wallets \cup {NoWallet}]
        BY <1>0 DEF Stages
      <4>3. QED
        BY <4>1, <4>2 DEF OnrampTypeOK
    <3>2. CASE ~Connected
      <4>1. run' = [run EXCEPT ![f].stage = "over"]
        BY <1>3, <3>2 DEF start
      <4>2. QED
        BY <4>1 DEF Stages, OnrampTypeOK
    <3>3. QED
      BY <3>1, <3>2
  <2>2. phase' \in Phases
    BY <1>3 DEF start, Phases
  <2>3. QED
    BY <1>3, <2>1, <2>2 DEF start, OnrampTypeOK
<1>4. ASSUME NEW f \in Starts, Caught(f) 
      PROVE  /\ modal' \in {"closed", "open", "gone"} /\ phase' \in Phases
             /\ timer' \in Starts \cup {NoStart} /\ intervals' \subseteq Starts
             /\ run' \in [Starts -> [stage : Stages, by : Wallets \cup {NoWallet}]]
  BY <1>4 DEF Caught, stopPolling, SetPhase, Phases, Stages, OnrampTypeOK
<1>5. ASSUME NEW f \in Starts, NEW s \in Stages, NEW p \in Phases, Proceeds(f, s, p)
      PROVE  /\ modal' \in {"closed", "open", "gone"} /\ phase' \in Phases
             /\ timer' \in Starts \cup {NoStart} /\ intervals' \subseteq Starts
             /\ run' \in [Starts -> [stage : Stages, by : Wallets \cup {NoWallet}]]
  BY <1>5 DEF Proceeds, SetPhase, OnrampTypeOK
<1>6. Faulty => faults' \in 0..MaxFaults
  BY OnrampAssumption DEF Faulty, OnrampTypeOK
<1>7. /\ {"sign", "submit", "deposit"} \subseteq Stages
      /\ {"authenticating", "depositing"} \subseteq Phases
  BY DEF Stages, Phases
<1>8. ASSUME NEW f \in Starts, ChallengeAnswered(f) PROVE OnrampTypeOK'
  BY <1>8, <1>4, <1>5, <1>6, <1>7 DEF ChallengeAnswered, OnrampTypeOK
<1>9. ASSUME NEW f \in Starts, ChallengeSigned(f) PROVE OnrampTypeOK'
  BY <1>9, <1>4, <1>5, <1>7 DEF ChallengeSigned, OnrampTypeOK
<1>10. ASSUME NEW f \in Starts, SignatureSubmitted(f) PROVE OnrampTypeOK'
  <2>1. run[f].by \in Wallets \cup {NoWallet}
    BY DEF OnrampTypeOK
  <2>2. OpensSession(f) => session' \in [Starts -> [owner : Wallets \cup {NoWallet}, live : BOOLEAN]]
    BY <2>1 DEF OpensSession, SessionOwner, OnrampTypeOK
  <2>3. QED
    BY <1>10, <2>2, <1>4, <1>5, <1>6, <1>7 DEF SignatureSubmitted, OnrampTypeOK
<1>11. ASSUME NEW f \in Starts, SessionExpires(f) PROVE OnrampTypeOK'
  BY <1>11, <1>6 DEF SessionExpires, hookVars, OnrampTypeOK
<1>12. ASSUME NEW f \in Starts, DepositAnswered(f) PROVE OnrampTypeOK'
  <2>1. initiateInteractiveDeposit(f) =>
          deposit' \in [Starts -> [to : Wallets \cup {NoWallet}, status : AnchorStatuses \cup {"none"}]]
    BY DEF initiateInteractiveDeposit, Depositor, AnchorStatuses, OnrampTypeOK
  <2>2. StartsPolling(f) =>
          /\ modal' \in {"closed", "open", "gone"} /\ phase' \in Phases
          /\ timer' \in Starts \cup {NoStart} /\ intervals' \subseteq Starts
          /\ run' \in [Starts -> [stage : Stages, by : Wallets \cup {NoWallet}]]
    <3> SUFFICES ASSUME StartsPolling(f)
                 PROVE  /\ modal' \in {"closed", "open", "gone"} /\ phase' \in Phases
                        /\ timer' \in Starts \cup {NoStart} /\ intervals' \subseteq Starts
                        /\ run' \in [Starts -> [stage : Stages, by : Wallets \cup {NoWallet}]]
      OBVIOUS
    <3>1. run' = [run EXCEPT ![f].stage = "polling"]
      BY DEF StartsPolling
    <3>2. run' \in [Starts -> [stage : Stages, by : Wallets \cup {NoWallet}]]
      BY <3>1 DEF Stages, OnrampTypeOK
    <3>3. phase' \in Phases
      BY DEF StartsPolling, SetPhase, Phases, OnrampTypeOK
    <3>4. QED
      BY <3>2, <3>3 DEF StartsPolling, OnrampTypeOK
  <2>3. QED
    BY <1>12, <2>1, <2>2, <1>4, <1>6 DEF DepositAnswered, OnrampTypeOK
<1>13. ASSUME NEW f \in Starts, IntervalTicks(f) PROVE OnrampTypeOK'
  <2>1. inFlight[f] \in [AnchorStatuses -> 0..MaxPolls]
    BY DEF OnrampTypeOK
  <2>2. CASE pollTransactionStatus(f) \in AnchorStatuses
    <3>1. inFlight[f][pollTransactionStatus(f)] + 1 \in 0..MaxPolls
      BY <1>13, <2>1, <2>2, OnrampAssumption DEF IntervalTicks, Crowded, PollsOf
    <3>2. QED
      BY <1>13, <2>1, <2>2, <3>1 DEF IntervalTicks, getDepositStatus, hookVars, OnrampTypeOK
  <2>3. CASE pollTransactionStatus(f) \notin AnchorStatuses
    <3>1. [inFlight[f] EXCEPT ![pollTransactionStatus(f)] = @ + 1] = inFlight[f]
      BY <2>1, <2>3
    <3>2. QED
      BY <1>13, <2>1, <3>1 DEF IntervalTicks, getDepositStatus, hookVars, OnrampTypeOK
  <2>4. QED
    BY <2>2, <2>3
<1>14. ASSUME NEW f \in Starts, NEW s \in AnchorStatuses, inFlight[f][s] > 0, inFlight' = Taken(f, s)
       PROVE  inFlight' \in [Starts -> [AnchorStatuses -> 0..MaxPolls]]
  <2>1. inFlight[f] \in [AnchorStatuses -> 0..MaxPolls]
    BY DEF OnrampTypeOK
  <2>2. inFlight[f][s] - 1 \in 0..MaxPolls
    BY <1>14, <2>1, OnrampAssumption
  <2>3. QED
    BY <1>14, <2>1, <2>2 DEF Taken, OnrampTypeOK
<1>15. ASSUME NEW f \in Starts, PollFails(f) PROVE OnrampTypeOK'
  BY <1>15, <1>6, <1>14 DEF PollFails, PollsOf, hookVars, OnrampTypeOK
<1>16. ASSUME NEW f \in Starts, NEW s \in AnchorStatuses, PollAnswered(f, s) PROVE OnrampTypeOK'
  <2>1. PhaseAfter(s) \in Phases
    BY DEF PhaseAfter, Phases
  <2>2. QED
    BY <1>16, <1>14, <2>1 DEF PollAnswered, stopPolling, SetPhase, OnrampTypeOK
<1>17. ASSUME NEW f \in Starts, AnchorAdvances(f) PROVE OnrampTypeOK'
  <2>1. PICK s \in FinalStatuses : deposit' = [deposit EXCEPT ![f].status = s]
    BY <1>17 DEF AnchorAdvances
  <2>2. s \in AnchorStatuses \cup {"none"}
    BY DEF AnchorStatuses
  <2>3. deposit' \in [Starts -> [to : Wallets \cup {NoWallet}, status : AnchorStatuses \cup {"none"}]]
    BY <2>1, <2>2 DEF OnrampTypeOK
  <2>4. QED
    BY <1>17, <2>3 DEF AnchorAdvances, hookVars, OnrampTypeOK
<1>18. QED
  BY <1>1, <1>2, <1>3, <1>8, <1>9, <1>10, <1>11, <1>12, <1>13, <1>15, <1>16, <1>17
     DEF OnrampNext, Runs, Polls

-----------------------------------------------------------------------------
(* The wizard's types *)

\* An approval is only ever asked of a connected account; without that the
\* accounts that hold a trustline would not stay accounts.
Approver == approval.stage # "idle" => approval.by \in Wallets
CreateTypeInv == CreateTypeOK /\ Approver

\* The steps of the wizard keep the types of its variables.
LEMMA CreateTyped ==
  ASSUME WalletTypeOK, CreateTypeInv, CreateNext
  PROVE  CreateTypeInv'
<1> USE DEF CreateTypeInv
<1> DEFINE Senders == Wallets \cup {NoWallet}
           Approvals == [stage : {"idle", "signing", "submitting", "over"}, by : Senders]
<1>0. publicKey \in Senders /\ NoForm \in Forms /\ NoRun.by \in Senders /\ NoRun.form \in Forms
  BY DEF WalletTypeOK, NoForm, Forms, Assets, NoRun
<1>1. ASSUME UNCHANGED approval PROVE Approver'
  BY <1>1 DEF Approver
<1>2. ASSUME WalletMoves PROVE CreateTypeInv'
  BY <1>2, <1>1 DEF WalletMoves, CreateTypeOK
<1>3. ASSUME FillIn PROVE CreateTypeInv'
  <2>1. form' \in Forms
    BY <1>3 DEF FillIn, TogglesSeal, Forms, CreateTypeOK
  <2>2. QED
    BY <1>3, <2>1, <1>1 DEF FillIn, CreateTypeOK
<1>4. ASSUME Continue \/ Back \/ restart PROVE CreateTypeInv'
  <2>1. NoResult \in Locks
    BY <1>0 DEF NoResult, Locks
  <2>2. QED
    BY <1>4, <1>0, <1>1, <2>1 DEF Continue, Back, restart, CreateTypeOK
<1>5. ASSUME TrustlineChecked PROVE CreateTypeInv'
  <2>1. step' \in {"connect", "compose", "trustline", "review", "success"}
    BY <1>5 DEF TrustlineChecked, onSatisfied, CreateTypeOK
  <2>2. needed' \in BOOLEAN
    BY <1>5 DEF TrustlineChecked, CreateTypeOK
  <2>3. QED
    BY <1>5, <1>1, <2>1, <2>2 DEF TrustlineChecked, CreateTypeOK
<1>6. ASSUME ClickAllow \/ AllowSigned PROVE CreateTypeInv'
  <2>1. approval' \in Approvals /\ Approver'
    <3>1. CASE ClickAllow
      BY <3>1, <1>0 DEF ClickAllow, Connected, Approver
    <3>2. CASE AllowSigned
      BY <3>2 DEF AllowSigned, CreateTypeOK, Approver
    <3>3. QED
      BY <1>6, <3>1, <3>2
  <2>2. QED
    BY <1>6, <2>1 DEF ClickAllow, AllowSigned, CreateTypeOK
<1>7. ASSUME AllowAnswered PROVE CreateTypeInv'
  <2>1. approval.by \in Wallets /\ approval' \in Approvals /\ approval'.by = approval.by
    BY <1>7 DEF AllowAnswered, CreateTypeOK, Approver
  <2>2. QED
    BY <1>7, <2>1 DEF AllowAnswered, onSatisfied, CreateTypeOK, Approver
<1> DEFINE Sends == [stage : {"idle", "drafting", "building", "signing", "submitting"},
                     by : Senders, form : Forms]
<1>8. ASSUME sendGift PROVE CreateTypeInv'
  <2>1. sending' = [stage |-> "drafting", by |-> publicKey, form |-> form] /\ form \in Forms
    BY <1>8 DEF sendGift, Reviewed, CreateTypeOK
  <2>2. sending' \in Sends
    BY <2>1, <1>0
  <2>3. sends' \in 0..MaxSends
    BY <1>8, CreateAssumption DEF sendGift, CreateTypeOK
  <2>4. QED
    BY <1>8, <2>2, <2>3, <1>1 DEF sendGift, CreateTypeOK
<1>9. NoRun \in Sends
  BY <1>0 DEF NoRun
<1>10. ASSUME SendFails PROVE CreateTypeInv'
  BY <1>10, <1>9, <1>1 DEF SendFails, SendEnds, CreateTypeOK
<1>11. ASSUME DraftAnswered \/ SendBuilt PROVE CreateTypeInv'
  <2>1. sending' \in Sends
    BY <1>11 DEF DraftAnswered, SendBuilt, CreateTypeOK
  <2>2. QED
    BY <1>11, <2>1, <1>1 DEF DraftAnswered, SendBuilt, CreateTypeOK
<1>12. ASSUME SendSigned PROVE CreateTypeInv'
  <2>1. sending' \in Sends
    BY <1>12, <1>9 DEF SendSigned, SendEnds, CreateTypeOK
  <2>2. QED
    BY <1>12, <2>1, <1>1 DEF SendSigned, CreateTypeOK
<1>13. ASSUME SendAnswered PROVE CreateTypeInv'
  <2>1. sending.by \in Senders /\ sending.form \in Forms
    BY DEF CreateTypeOK
  <2>2. sending.form.receiver \in Senders /\ sending.form.amount \in Nat
    <3>1. TypedAmounts \cup {0} \subseteq Nat
      BY CreateAssumption
    <3>2. sending.form.receiver \in Senders /\ sending.form.amount \in TypedAmounts \cup {0}
      BY <2>1 DEF Forms
    <3>3. QED
      BY <3>1, <3>2
  <2>3. InStroops(sending.form.amount) \in Nat
    BY <2>2 DEF InStroops
  <2>4. Lock \in Locks
    BY <2>1, <2>2, <2>3 DEF Lock, Locks
  <2>5. QED
    BY <1>13, <2>4, <1>9, <1>1 DEF SendAnswered, SendEnds, CreateTypeOK
<1> DEFINE Sealings == {"unused", "building", "signing", "submitting", "over"}
           Phased == [phase : {"idle", "signing", "submitting", "done", "error"},
                      claimLink : Seals \cup {NoLink}]
<1>14. ASSUME NEW p \in {"idle", "signing", "submitting", "done", "error"}, SetSealPhase(p)
       PROVE  sealed' \in Phased
  BY <1>14 DEF SetSealPhase, CreateTypeOK
<1>15. ASSUME NEW s \in Seals, sealGift(s) PROVE CreateTypeInv'
  BY <1>15, <1>1 DEF sealGift, CreateTypeOK
<1>16. ASSUME NEW s \in Seals, SealFails(s) PROVE CreateTypeInv'
  BY <1>16, <1>14, <1>1 DEF SealFails, CreateTypeOK
<1>17. ASSUME NEW s \in Seals, SealProceeds(s) PROVE CreateTypeInv'
  BY <1>17, <1>14, <1>1 DEF SealProceeds, CreateTypeOK
<1>18. ASSUME NEW s \in Seals, NoteDeposited(s) PROVE CreateTypeInv'
  BY <1>18, <1>1 DEF NoteDeposited, OwnNote, CreateTypeOK
<1>19. QED
  BY <1>2, <1>3, <1>4, <1>5, <1>6, <1>7, <1>8, <1>10, <1>11, <1>12, <1>13, <1>15, <1>16, <1>17,
     <1>18 DEF CreateNext

-----------------------------------------------------------------------------
(* The /wallet page's types, and the whole *)

\* What is submitted was signed by an account the extension had.
Signed == \A p \in Presses : press[p].stage = "submitting" => press[p].signer \in Wallets
PanelTypeInv == PanelTypeOK /\ Signed

\* The steps of the /wallet page keep the types of its variables.
LEMMA PanelTyped ==
  ASSUME WalletTypeOK, PanelTypeInv, PanelNext
  PROVE  PanelTypeInv'
<1> USE DEF PanelTypeInv
<1> DEFINE Addresses == Wallets \cup {NoWallet}
           Panels == [linking : {"detecting", "asking", "idle", "absent"}, restoring : BOOLEAN,
                      address : Addresses, balance : Addresses]
           Stages_ == {"unused", "building", "signing", "submitting", "balance", "over"}
           Pressed == [stage : Stages_, shown : Addresses, source : Addresses, signer : Addresses]
<1>0. extension.account \in Wallets /\ panel \in Panels /\ press \in [Presses -> Pressed]
  BY DEF WalletTypeOK, PanelTypeOK
<1>s. ASSUME UNCHANGED press PROVE Signed'
  BY <1>s DEF Signed
<1>1. ASSUME NEW page \in Panels, Answered(page) PROVE panel' \in Panels /\ reading' \subseteq Wallets
  BY <1>1, <1>0 DEF Answered, PanelTypeOK
<1>2. ASSUME detectFreighter PROVE PanelTypeInv'
  BY <1>2, <1>0, <1>s DEF detectFreighter, PanelTypeOK
<1>3. ASSUME getWalletAddress PROVE PanelTypeInv'
  <2>1. [panel EXCEPT !.restoring = FALSE] \in Panels
    BY <1>0
  <2>2. QED
    BY <1>3, <1>1, <1>s, <2>1 DEF getWalletAddress, PanelTypeOK
<1>4. ASSUME connect PROVE PanelTypeInv'
  BY <1>4, <1>0, <1>s DEF connect, PanelTypeOK
<1>5. ASSUME connectWallet PROVE PanelTypeInv'
  <2>1. [panel EXCEPT !.linking = "idle"] \in Panels
    BY <1>0
  <2>2. QED
    BY <1>5, <1>1, <1>s, <2>1 DEF connectWallet, PanelTypeOK
<1>6. ASSUME disconnect PROVE PanelTypeInv'
  BY <1>6, <1>0, <1>s DEF disconnect, PanelTypeOK
<1>7. ASSUME refreshBalance PROVE PanelTypeInv'
  BY <1>7, <1>0, <1>s DEF refreshBalance, PanelTypeOK
<1>8. ASSUME NEW a \in Wallets, fetchXlmBalance(a) PROVE PanelTypeInv'
  <2>1. panel' \in Panels
    BY <1>8, <1>0 DEF fetchXlmBalance
  <2>2. QED
    BY <1>8, <1>s, <2>1 DEF fetchXlmBalance, PanelTypeOK
<1>9. ASSUME NEW p \in Presses, NEW g \in Stages_, Step(p, g), g # "submitting"
      PROVE  press' \in [Presses -> Pressed] /\ Signed'
  BY <1>9, <1>0 DEF Step, Signed
<1>10. ASSUME NEW p \in Presses, handleSend(p) PROVE PanelTypeInv'
  <2>1. press' \in [Presses -> Pressed] /\ Signed'
    BY <1>10, <1>0 DEF handleSend, PaymentSource, Signed
  <2>2. QED
    BY <1>10, <2>1 DEF handleSend, PanelTypeOK
<1>11. ASSUME NEW p \in Presses, sendXlm(p) PROVE PanelTypeInv'
  <2>1. press' \in [Presses -> Pressed] /\ Signed'
    <3>1. CASE Step(p, "signing")
      BY <3>1, <1>9
    <3>2. CASE press' = [press EXCEPT ![p].stage = "submitting", ![p].signer = extension.account]
      <4> DEFINE q == [press EXCEPT ![p].stage = "submitting"]
      <4>1. q \in [Presses -> Pressed]
        BY <1>0
      <4>2. press' = [q EXCEPT ![p].signer = extension.account]
        BY <3>2, <1>0
      <4> HIDE DEF q
      <4>3. QED
        <5>1. press' \in [Presses -> Pressed] /\ press'[p].signer = extension.account
          BY <4>1, <4>2, <1>0
        <5>2. \A r \in Presses \ {p} : press'[r] = press[r]
          BY <3>2, <1>0
        <5>3. QED
          BY <5>1, <5>2, <1>0 DEF Signed
    <3>3. QED
      BY <1>11, <3>1, <3>2 DEF sendXlm
  <2>2. QED
    BY <1>11, <2>1 DEF sendXlm, PanelTypeOK
<1>12. ASSUME NEW p \in Presses, Fails(p) 
       PROVE  /\ press' \in [Presses -> Pressed] /\ Signed'
              /\ banner' \in [sent : Presses \cup {NoPress}, failed : BOOLEAN]
  BY <1>12, <1>9 DEF Fails, PanelTypeOK
<1>13. ASSUME NEW p \in Presses, PaymentFails(p) PROVE PanelTypeInv'
  BY <1>13, <1>12 DEF PaymentFails, PanelTypeOK
<1>14. ASSUME NEW p \in Presses, submitSignedTx(p) PROVE PanelTypeInv'
  <2>1. press[p].source \in Wallets
    BY <1>14 DEF submitSignedTx, Signed
  <2>2. paid' \subseteq [press : Presses, source : Wallets]
    BY <1>14, <2>1 DEF submitSignedTx, Lands, PanelTypeOK
  <2>3. QED
    BY <1>14, <1>12, <1>9, <2>2 DEF submitSignedTx, PanelTypeOK
<1>15. ASSUME NEW p \in Presses, SentAnswered(p) PROVE PanelTypeInv'
  BY <1>15, <1>0, <1>9 DEF SentAnswered, PanelTypeOK
<1>16. ASSUME UNCHANGED panelVars PROVE PanelTypeInv'
  BY <1>16, <1>s DEF panelVars, PanelTypeOK
<1>17. QED
  BY <1>2, <1>3, <1>4, <1>5, <1>6, <1>7, <1>8, <1>10, <1>11, <1>13, <1>14, <1>15, <1>16 DEF PanelNext

TypeInv == WalletTypeOK /\ OnrampTypeOK /\ CreateTypeInv /\ PanelTypeInv /\ screen \in Screens

\* Every screen's variables keep their types, the open one's and the others'.
THEOREM TypesHold == ClientSpec => []TypeInv
<1>1. ClientInit => TypeInv
  <2> SUFFICES ASSUME ClientInit PROVE TypeInv
    OBVIOUS
  <2>1. WalletTypeOK
    BY WalletAssumption DEF ClientInit, WalletInit, WalletTypeOK, Networks, UnknownNetwork
  <2>2. OnrampTypeOK
    BY OnrampAssumption DEF ClientInit, OnrampInit, OnrampTypeOK, Stages, Phases, NoSession, AnchorStatuses
  <2>3. CreateTypeInv
    <3>1. NoForm \in Forms
      BY DEF NoForm, Forms, Assets
    <3>2. NoResult \in Locks
      BY <3>1 DEF NoResult, Locks
    <3>3. NoRun.stage = "idle" /\ NoRun \in [stage : {"idle", "drafting", "building", "signing", "submitting"},
                                             by : Wallets \cup {NoWallet}, form : Forms]
      BY <3>1 DEF NoRun
    <3>4. sends \in 0..MaxSends
      BY CreateAssumption DEF ClientInit, CreateInit
    <3>5. QED
      BY <3>1, <3>2, <3>3, <3>4 DEF ClientInit, CreateInit, CreateTypeInv, CreateTypeOK, Approver
  <2>4. PanelTypeInv
    BY PanelAssumption DEF ClientInit, PanelInit, PanelTypeInv, PanelTypeOK, Signed
  <2>5. QED
    BY <2>1, <2>2, <2>3, <2>4 DEF ClientInit, TypeInv
<1>2. TypeInv /\ [ClientNext]_clientVars => TypeInv'
  <2> SUFFICES ASSUME TypeInv, [ClientNext]_clientVars PROVE TypeInv'
    OBVIOUS
  <2>1. CASE UNCHANGED clientVars
    BY <2>1 DEF clientVars, TypeInv, WalletTypeOK, OnrampTypeOK, CreateTypeInv, CreateTypeOK,
       Approver, PanelTypeInv, PanelTypeOK, Signed, walletVars, onrampVars, hookVars, createVars, panelVars
  <2>2. CASE ClientNext
    <3>1. WalletTypeOK'
      BY <2>2, WalletStaysTyped DEF TypeInv
    <3>2. OnrampTypeOK'
      BY <2>2, OnrampTyped DEF TypeInv, ClientNext, OnrampTypeOK, onrampVars, hookVars
    <3>3. CreateTypeInv'
      BY <2>2, CreateTyped DEF TypeInv, ClientNext, CreateTypeInv, CreateTypeOK, Approver, createVars
    <3>4. PanelTypeInv'
      BY <2>2, PanelTyped DEF TypeInv, ClientNext, PanelTypeInv, PanelTypeOK, Signed, panelVars
    <3>5. QED
      BY <2>2, <3>1, <3>2, <3>3, <3>4 DEF TypeInv, ClientNext
  <2>3. QED
    BY <2>1, <2>2
<1>3. QED
  BY <1>1, <1>2, PTL DEF ClientSpec

\* The type invariant the run checks, for the screen that is open.
THEOREM ClientTypeCorrect == ClientSpec => []ClientTypeOK
<1>1. TypeInv => ClientTypeOK
  BY DEF TypeInv, ClientTypeOK, CreateTypeInv, PanelTypeInv, Screens
<1>2. QED
  BY <1>1, TypesHold, PTL

-----------------------------------------------------------------------------
(* The on-ramp *)

\* What the wizard and the /wallet page do leaves the on-ramp as it is.
LEMMA OnrampStep ==
  ASSUME [ClientNext]_clientVars
  PROVE  OnrampNext \/ UNCHANGED onrampVars
BY DEF ClientNext, clientVars

\* A modal that says it is waiting has an interval that goes on asking: a run
\* that stops or overwrites the interval of another also leaves the phase.
THEOREM SomebodyAsks == ClientSpec => []WaitingIsServed
<1>1. ClientInit => WaitingIsServed
  BY DEF ClientInit, OnrampInit, WaitingIsServed, SaysWaiting
<1>2. WaitingIsServed /\ [ClientNext]_clientVars => WaitingIsServed'
  <2> SUFFICES ASSUME WaitingIsServed, OnrampNext PROVE WaitingIsServed'
    BY OnrampStep DEF onrampVars, hookVars, WaitingIsServed, SaysWaiting
  <2> USE DEF WaitingIsServed, SaysWaiting
  <2>1. ASSUME OpenModal \/ CloseModal \/ TryAgain \/ LeavePage PROVE WaitingIsServed'
    BY <2>1 DEF OpenModal, CloseModal, TryAgain, LeavePage, reset, stopPolling
  <2>2. ASSUME NEW f \in Starts, Caught(f) PROVE WaitingIsServed'
    BY <2>2 DEF Caught, stopPolling, SetPhase
  <2>3. ASSUME NEW f \in Starts, NEW g \in Stages, NEW p \in {"authenticating", "depositing"},
               Proceeds(f, g, p)
        PROVE  WaitingIsServed'
    BY <2>3 DEF Proceeds, SetPhase
  <2>4. ASSUME NEW f \in Starts, start(f) PROVE WaitingIsServed'
    BY <2>4 DEF start
  <2>5. ASSUME NEW f \in Starts, Runs(f) PROVE WaitingIsServed'
    <3>1. StartsPolling(f) => WaitingIsServed'
      BY DEF StartsPolling
    <3>2. QED
      BY <2>5, <2>2, <2>3, <3>1 DEF Runs, ChallengeAnswered, ChallengeSigned, SignatureSubmitted,
         DepositAnswered, Stages
  <2>6. ASSUME NEW f \in Starts, NEW s \in AnchorStatuses, PollAnswered(f, s) PROVE WaitingIsServed'
    BY <2>6 DEF PollAnswered, stopPolling, SetPhase
  <2>7. ASSUME UNCHANGED hookVars PROVE WaitingIsServed'
    BY <2>7 DEF hookVars
  <2>8. QED
    BY <2>1, <2>4, <2>5, <2>6, <2>7 DEF OnrampNext, Polls, IntervalTicks, PollFails,
       SessionExpires, AnchorAdvances, onrampVars
<1>3. QED
  BY <1>1, <1>2, PTL DEF ClientSpec

\* Only a run that has signed has a session, which is its signer's, and only a
\* session gets a deposit: what DepositCreditsSigner needs to be kept.
SessionInv ==
  \A f \in Starts :
    /\ run[f].stage \in {"unused", "challenge"} => ~session[f].live /\ deposit[f].status = "none"
    /\ session[f].live => session[f].owner = run[f].by
    /\ deposit[f].status # "none" => deposit[f].to = run[f].by

\* Whatever the wallet does meanwhile, a deposit credits the account that the
\* run began with and that signed its challenge.
THEOREM DepositGoesToSigner == ClientSpec => []DepositCreditsSigner
<1>1. ClientInit => SessionInv
  BY DEF ClientInit, OnrampInit, SessionInv, NoSession
<1>2. TypeInv /\ SessionInv /\ [ClientNext]_clientVars => SessionInv'
  <2> SUFFICES ASSUME OnrampTypeOK, SessionInv, OnrampNext PROVE SessionInv'
    BY OnrampStep DEF TypeInv, onrampVars, hookVars, SessionInv
  <2>0. /\ run \in [Starts -> [stage : Stages, by : Wallets \cup {NoWallet}]]
        /\ session \in [Starts -> [owner : Wallets \cup {NoWallet}, live : BOOLEAN]]
        /\ deposit \in [Starts -> [to : Wallets \cup {NoWallet}, status : AnchorStatuses \cup {"none"}]]
    BY DEF OnrampTypeOK
  <2>1. ASSUME UNCHANGED <<run, session, deposit>> PROVE SessionInv'
    BY <2>1 DEF SessionInv
  <2>2. ASSUME NEW f \in Starts, start(f) PROVE SessionInv'
    <3>1. run[f].stage = "unused"
      BY <2>2 DEF start, NextStart
    <3>2. \A g \in Starts \ {f} : run'[g] = run[g]
      BY <2>2, <2>0 DEF start
    <3>3. QED
      BY <2>2, <3>1, <3>2 DEF start, SessionInv
  <2>3. ASSUME NEW f \in Starts, NEW g \in {"sign", "submit", "deposit", "over", "polling"},
               run' = [run EXCEPT ![f].stage = g]
        PROVE  /\ \A h \in Starts : run'[h].by = run[h].by
               /\ \A h \in Starts : run'[h].stage \in {"unused", "challenge"} => run'[h] = run[h] /\ h # f
    BY <2>3, <2>0
  <2>4. ASSUME NEW f \in Starts, Runs(f)
        PROVE  \E g \in {"sign", "submit", "deposit", "over", "polling"} : run' = [run EXCEPT ![f].stage = g]
    BY <2>4 DEF Runs, ChallengeAnswered, ChallengeSigned, SignatureSubmitted, DepositAnswered,
       Caught, Proceeds, StartsPolling
  <2>5. ASSUME NEW f \in Starts, ChallengeAnswered(f) \/ ChallengeSigned(f) PROVE SessionInv'
    BY <2>5, <2>4, <2>3 DEF Runs, ChallengeAnswered, ChallengeSigned, SessionInv
  <2>6. ASSUME NEW f \in Starts, SignatureSubmitted(f) PROVE SessionInv'
    <3>1. \/ UNCHANGED session
          \/ session' = [session EXCEPT ![f] = [owner |-> run[f].by, live |-> TRUE]]
      BY <2>6 DEF SignatureSubmitted, OpensSession, SessionOwner
    <3>2. deposit' = deposit
      BY <2>6 DEF SignatureSubmitted
    <3>3. /\ \A h \in Starts : run'[h].by = run[h].by
          /\ \A h \in Starts : run'[h].stage \in {"unused", "challenge"} => run'[h] = run[h] /\ h # f
      BY <2>6, <2>4, <2>3 DEF Runs
    <3>4. \A h \in Starts : \/ session'[h] = session[h]
                            \/ h = f /\ session'[h].owner = run[h].by
      BY <2>0, <3>1
    <3>5. QED
      BY <3>2, <3>3, <3>4 DEF SessionInv
  <2>7. ASSUME NEW f \in Starts, DepositAnswered(f) PROVE SessionInv'
    <3>1. \/ UNCHANGED deposit
          \/ /\ session[f].live
             /\ deposit' = [deposit EXCEPT ![f] = [to |-> session[f].owner, status |-> "pending"]]
      BY <2>7 DEF DepositAnswered, initiateInteractiveDeposit, Depositor, findSessionByToken
    <3>2. session' = session
      BY <2>7 DEF DepositAnswered
    <3>3. /\ \A h \in Starts : run'[h].by = run[h].by
          /\ \A h \in Starts : run'[h].stage \in {"unused", "challenge"} => run'[h] = run[h] /\ h # f
      BY <2>7, <2>4, <2>3 DEF Runs
    <3>4. \A h \in Starts : \/ deposit'[h] = deposit[h]
                            \/ h = f /\ deposit'[h].to = run[h].by
      BY <2>0, <3>1 DEF SessionInv
    <3>5. QED
      BY <3>2, <3>3, <3>4 DEF SessionInv
  <2>8. ASSUME NEW f \in Starts, SessionExpires(f) PROVE SessionInv'
    BY <2>8, <2>0 DEF SessionExpires, hookVars, SessionInv
  <2>9. ASSUME NEW f \in Starts, AnchorAdvances(f) PROVE SessionInv'
    BY <2>9, <2>0 DEF AnchorAdvances, hookVars, SessionInv
  <2>10. QED
    BY <2>1, <2>2, <2>5, <2>6, <2>7, <2>8, <2>9 DEF OnrampNext, Runs, Polls, OpenModal, CloseModal,
       TryAgain, LeavePage, reset, IntervalTicks, PollFails, PollAnswered, getDepositStatus,
       onrampVars, hookVars
<1>3. SessionInv => DepositCreditsSigner
  BY DEF SessionInv, DepositCreditsSigner
<1>4. QED
  BY <1>1, <1>2, <1>3, TypesHold, PTL DEF ClientSpec

\* An answer that says completed, and is still on its way, is true; a deposit
\* that is completed stays so; and no second deposit takes a run's place.
CompletedInv ==
  /\ \A f \in Starts : inFlight[f]["completed"] > 0 => deposit[f].status = "completed"
  /\ \A f \in Starts : deposit[f].status # "none" => run[f].stage \in {"polling", "over"}
  /\ phase = "completed" => \E f \in Starts : deposit[f].status = "completed"

\* Whichever interval answers, however late, completed is shown only when a
\* deposit has completed.
THEOREM CompletedIsTrue == ClientSpec => []CompletedIsReal
<1>1. ClientInit => CompletedInv
  BY DEF ClientInit, OnrampInit, CompletedInv, AnchorStatuses, FinalStatuses
<1>2. TypeInv /\ CompletedInv /\ [ClientNext]_clientVars => CompletedInv'
  <2> SUFFICES ASSUME OnrampTypeOK, CompletedInv, OnrampNext PROVE CompletedInv'
    BY OnrampStep DEF TypeInv, onrampVars, hookVars, CompletedInv
  <2>0. /\ run \in [Starts -> [stage : Stages, by : Wallets \cup {NoWallet}]]
        /\ deposit \in [Starts -> [to : Wallets \cup {NoWallet}, status : AnchorStatuses \cup {"none"}]]
        /\ inFlight \in [Starts -> [AnchorStatuses -> 0..MaxPolls]]
        /\ MaxPolls \in Nat
    BY OnrampAssumption DEF OnrampTypeOK
  <2>1. ASSUME phase' # "completed" \/ phase' = phase, UNCHANGED <<run, deposit, inFlight>>
        PROVE  CompletedInv'
    BY <2>1 DEF CompletedInv
  <2>2. ASSUME NEW f \in Starts, NEW g \in Stages, run' = [run EXCEPT ![f].stage = g],
               run[f].stage \in {"polling", "over"} => g \in {"polling", "over"}
        PROVE  \A h \in Starts : run[h].stage \in {"polling", "over"} => run'[h].stage \in {"polling", "over"}
    BY <2>2, <2>0
  <2>3. ASSUME phase' # "completed" \/ phase' = phase, UNCHANGED <<deposit, inFlight>>,
               \A h \in Starts : run[h].stage \in {"polling", "over"} => run'[h].stage \in {"polling", "over"}
        PROVE  CompletedInv'
    BY <2>3 DEF CompletedInv
  <2>4. ASSUME NEW f \in Starts, start(f) PROVE CompletedInv'
    <3>1. run[f].stage = "unused" /\ phase' # "completed" /\ UNCHANGED <<deposit, inFlight>>
      BY <2>4 DEF start, NextStart
    <3>2. \A h \in Starts \ {f} : run'[h] = run[h]
      BY <2>4, <2>0 DEF start
    <3>3. QED
      BY <3>1, <3>2, <2>3
  <2>5. ASSUME NEW f \in Starts, ChallengeAnswered(f) \/ ChallengeSigned(f) \/ SignatureSubmitted(f)
        PROVE  CompletedInv'
    <3>1. /\ run[f].stage \in {"challenge", "sign", "submit"} /\ UNCHANGED <<deposit, inFlight>>
          /\ phase' # "completed" \/ phase' = phase
          /\ \E g \in Stages : run' = [run EXCEPT ![f].stage = g]
      BY <2>5 DEF ChallengeAnswered, ChallengeSigned, SignatureSubmitted, Caught, Proceeds, SetPhase, Stages
    <3>2. QED
      BY <3>1, <2>2, <2>3
  <2>6. ASSUME NEW f \in Starts, DepositAnswered(f) PROVE CompletedInv'
    <3>1. /\ run[f].stage = "deposit" /\ inFlight' = inFlight
          /\ phase' # "completed" \/ phase' = phase
          /\ \E g \in {"polling", "over"} : run' = [run EXCEPT ![f].stage = g]
      BY <2>6 DEF DepositAnswered, Caught, StartsPolling, SetPhase
    <3>2. \A h \in Starts : run[h].stage \in {"polling", "over"} => run'[h].stage \in {"polling", "over"}
      BY <3>1, <2>0
    <3>3. deposit[f].status = "none"
      BY <3>1 DEF CompletedInv
    <3>4. \A h \in Starts \ {f} : deposit'[h] = deposit[h]
      BY <2>6, <2>0 DEF DepositAnswered, initiateInteractiveDeposit
    <3>5. run'[f].stage \in {"polling", "over"}
      BY <3>1, <2>0
    <3>6. QED
      BY <3>1, <3>2, <3>3, <3>4, <3>5 DEF CompletedInv
  <2>7. ASSUME NEW f \in Starts, IntervalTicks(f) PROVE CompletedInv'
    <3>1. inFlight[f] \in [AnchorStatuses -> 0..MaxPolls] /\ "completed" \in AnchorStatuses
      BY <2>0 DEF AnchorStatuses, FinalStatuses
    <3>2. inFlight'[f]["completed"] > 0 => inFlight[f]["completed"] > 0 \/ deposit[f].status = "completed"
      BY <2>7, <2>0, <3>1 DEF IntervalTicks, getDepositStatus, pollTransactionStatus
    <3>3. \A h \in Starts \ {f} : inFlight'[h] = inFlight[h]
      BY <2>7, <2>0 DEF IntervalTicks, getDepositStatus
    <3>4. QED
      BY <2>7, <3>2, <3>3 DEF IntervalTicks, hookVars, CompletedInv
  <2>8. ASSUME NEW f \in Starts, NEW s \in AnchorStatuses, inFlight[f][s] > 0, inFlight' = Taken(f, s)
        PROVE  \A h \in Starts : inFlight'[h]["completed"] > 0 => inFlight[h]["completed"] > 0
    <3>1. inFlight[f] \in [AnchorStatuses -> 0..MaxPolls] /\ "completed" \in AnchorStatuses
      BY <2>0 DEF AnchorStatuses, FinalStatuses
    <3>2. inFlight'[f]["completed"] > 0 => inFlight[f]["completed"] > 0
      BY <2>8, <2>0, <3>1 DEF Taken
    <3>3. \A h \in Starts \ {f} : inFlight'[h] = inFlight[h]
      BY <2>8, <2>0 DEF Taken
    <3>4. QED
      BY <3>2, <3>3
  <2>9. ASSUME NEW f \in Starts, NEW s \in AnchorStatuses, PollAnswered(f, s) PROVE CompletedInv'
    <3>1. /\ UNCHANGED <<run, deposit>>
          /\ \A h \in Starts : inFlight'[h]["completed"] > 0 => inFlight[h]["completed"] > 0
      BY <2>9, <2>8 DEF PollAnswered
    <3>2. phase' = "completed" => phase = "completed" \/ s = "completed"
      BY <2>9 DEF PollAnswered, PhaseAfter, SetPhase, stopPolling, AnchorStatuses, FinalStatuses
    <3>3. s = "completed" => deposit[f].status = "completed"
      BY <2>9 DEF PollAnswered, CompletedInv
    <3>4. QED
      BY <3>1, <3>2, <3>3 DEF CompletedInv
  <2>10. ASSUME NEW f \in Starts, PollFails(f) PROVE CompletedInv'
    <3>1. \A h \in Starts : inFlight'[h]["completed"] > 0 => inFlight[h]["completed"] > 0
      BY <2>10, <2>8 DEF PollFails, PollsOf
    <3>2. QED
      BY <2>10, <3>1 DEF PollFails, hookVars, CompletedInv
  <2>11. ASSUME NEW f \in Starts, AnchorAdvances(f) PROVE CompletedInv'
    <3>1. PICK s \in FinalStatuses : deposit' = [deposit EXCEPT ![f].status = s]
      BY <2>11 DEF AnchorAdvances
    <3>2. \A h \in Starts :
             /\ deposit[h].status = "completed" => deposit'[h].status = "completed"
             /\ deposit'[h].status # "none" => deposit[h].status # "none"
      BY <2>11, <2>0, <3>1 DEF AnchorAdvances
    <3>3. QED
      BY <2>11, <3>2 DEF AnchorAdvances, hookVars, CompletedInv
  <2>12. QED
    BY <2>1, <2>4, <2>5, <2>6, <2>7, <2>9, <2>10, <2>11 DEF OnrampNext, Runs, Polls, OpenModal,
       CloseModal, TryAgain, LeavePage, reset, stopPolling, SessionExpires, onrampVars, hookVars
<1>3. CompletedInv => CompletedIsReal
  BY DEF CompletedInv, CompletedIsReal, SaysComplete
<1>4. QED
  BY <1>1, <1>2, <1>3, TypesHold, PTL DEF ClientSpec

-----------------------------------------------------------------------------
(* The wizard *)

\* What the on-ramp and the /wallet page do leaves the wizard as it is.
LEMMA CreateStep ==
  ASSUME [ClientNext]_clientVars
  PROVE  CreateNext \/ UNCHANGED createVars
BY DEF ClientNext, clientVars

\* The backend refuses a gift to its sender when it is drafted, and what is
\* drafted is what is locked, whoever is connected to the page by then.
GiftInv ==
  /\ sending.stage \in {"building", "signing", "submitting"} => sending.by # sending.form.receiver
  /\ NoSelfGift

\* No gift is locked for the account that locks it.
THEOREM NobodyGiftsHimself == ClientSpec => []NoSelfGift
<1>1. ClientInit => GiftInv
  BY DEF ClientInit, CreateInit, NoRun, GiftInv, NoSelfGift
<1>2. TypeInv /\ GiftInv /\ [ClientNext]_clientVars => GiftInv'
  <2> SUFFICES ASSUME CreateTypeOK, GiftInv, CreateNext PROVE GiftInv'
    BY CreateStep DEF TypeInv, CreateTypeInv, createVars, GiftInv, NoSelfGift
  <2> USE DEF GiftInv, NoSelfGift
  <2>0. sending \in [stage : {"idle", "drafting", "building", "signing", "submitting"},
                     by : Wallets \cup {NoWallet}, form : Forms]
    BY DEF CreateTypeOK
  <2>1. ASSUME UNCHANGED <<sending, locked>> PROVE GiftInv'
    BY <2>1
  <2>2. ASSUME locked' = locked, sendGift \/ SendFails \/ DraftAnswered \/ SendBuilt \/ SendSigned
        PROVE  GiftInv'
    BY <2>0, <2>2 DEF sendGift, SendFails, SendEnds, NoRun, DraftAnswered, createGiftSchema,
       SendBuilt, SendSigned
  <2>3. ASSUME SendAnswered PROVE GiftInv'
    <3>1. locked' = locked \cup {Lock} /\ sending' = NoRun /\ sending.by # sending.form.receiver
      BY <2>3 DEF SendAnswered, SendEnds
    <3>2. Lock.sender # Lock.receiver
      BY <3>1 DEF Lock
    <3>3. QED
      BY <3>1, <3>2 DEF NoRun
  <2>4. QED
    BY <2>1, <2>2, <2>3 DEF CreateNext, WalletMoves, FillIn, Continue, Back, restart,
       TrustlineChecked, ClickAllow, AllowSigned, AllowAnswered, sendGift, SendFails, DraftAnswered,
       SendBuilt, SendSigned, sealGift, SealFails, SealProceeds, NoteDeposited
<1>3. QED
  BY <1>1, <1>2, TypesHold, PTL DEF ClientSpec, GiftInv

\* A sealed link on show opens a note of the pool, however many deposits run.
LinkInv == sealed.claimLink # NoLink => sealed.claimLink \in pool

\* The sealed link on show opens a note the pool holds.
THEOREM ShownLinkIsLive == ClientSpec => []SealedLinkIsLive
<1>1. ClientInit => LinkInv
  BY DEF ClientInit, CreateInit, LinkInv
<1>2. TypeInv /\ LinkInv /\ [ClientNext]_clientVars => LinkInv'
  <2> SUFFICES ASSUME CreateTypeOK, LinkInv, CreateNext PROVE LinkInv'
    BY CreateStep DEF TypeInv, CreateTypeInv, createVars, LinkInv
  <2> USE DEF LinkInv
  <2>1. ASSUME sealed'.claimLink = sealed.claimLink, pool \subseteq pool' PROVE LinkInv'
    BY <2>1
  <2>2. ASSUME NEW p \in {"error", "signing", "submitting"}, SetSealPhase(p) PROVE sealed'.claimLink = sealed.claimLink
    BY <2>2 DEF SetSealPhase, CreateTypeOK
  <2>3. ASSUME NEW s \in Seals, SealFails(s) \/ SealProceeds(s) PROVE LinkInv'
    <3>1. \E p \in {"error", "signing", "submitting"} : SetSealPhase(p)
      BY <2>3 DEF SealFails, SealProceeds
    <3>2. pool \subseteq pool'
      BY <2>3 DEF SealFails, SealProceeds
    <3>3. QED
      BY <3>1, <3>2, <2>2, <2>1
  <2>4. ASSUME NEW s \in Seals, NoteDeposited(s) PROVE LinkInv'
    BY <2>4 DEF NoteDeposited, OwnNote
  <2>5. ASSUME NEW s \in Seals, sealGift(s) PROVE LinkInv'
    BY <2>5, <2>1 DEF sealGift
  <2>6. ASSUME UNCHANGED <<sealed, pool>> PROVE LinkInv'
    BY <2>6
  <2>7. QED
    BY <2>3, <2>4, <2>5, <2>6 DEF CreateNext, WalletMoves, FillIn, Continue, Back, restart,
       TrustlineChecked, ClickAllow, AllowSigned, AllowAnswered, sendGift, SendFails, DraftAnswered,
       SendBuilt, SendSigned, SendAnswered
<1>3. LinkInv => SealedLinkIsLive
  BY DEF LinkInv, SealedLinkIsLive, ShowsSealedLink
<1>4. QED
  BY <1>1, <1>2, <1>3, TypesHold, PTL DEF ClientSpec

-----------------------------------------------------------------------------
(* The /wallet page *)

\* A payment is built for the account on screen and is taken by the ledger only
\* if that account signed it; a hash comes back only from the ledger.
PaymentInv ==
  /\ \A p \in Presses : press[p].source = press[p].shown
  /\ \A p \in Presses : press[p].stage = "balance" => \E t \in paid : t.press = p
  /\ \A t \in paid : press[t.press].stage # "unused"
  /\ SentIsReal

\* A "sent" on screen is a payment the ledger took from the account shown.
THEOREM SentIsTrue == ClientSpec => []SentIsReal
<1>1. ClientInit => PaymentInv
  BY DEF ClientInit, PanelInit, PaymentInv, SentIsReal
<1>2. TypeInv /\ PaymentInv /\ [ClientNext]_clientVars => PaymentInv'
  <2> SUFFICES ASSUME PanelTypeOK, PaymentInv, PanelNext PROVE PaymentInv'
    BY DEF TypeInv, PanelTypeInv, panelVars, PaymentInv, SentIsReal, ClientNext, clientVars
  <2> USE DEF PaymentInv, SentIsReal
  <2> DEFINE Accounts == Wallets \cup {NoWallet}
             Pressed == [stage : {"unused", "building", "signing", "submitting", "balance", "over"},
                         shown : Accounts, source : Accounts, signer : Accounts]
  <2>0. press \in [Presses -> Pressed] /\ paid \subseteq [press : Presses, source : Wallets]
    BY DEF PanelTypeOK
  <2>1. ASSUME UNCHANGED <<press, paid, banner>> PROVE PaymentInv'
    BY <2>1
  <2>2. ASSUME NEW p \in Presses, handleSend(p) PROVE PaymentInv'
    <3>1. /\ press[p].stage = "unused" /\ paid' = paid /\ banner'.sent = NoPress
          /\ press' = [press EXCEPT ![p] = [stage |-> "building", shown |-> panel.address,
                                            source |-> panel.address, signer |-> NoWallet]]
      BY <2>2 DEF handleSend, PaymentSource
    <3>2. /\ press'[p].stage = "building" /\ press'[p].source = press'[p].shown
          /\ \A r \in Presses \ {p} : press'[r] = press[r]
      BY <3>1, <2>0
    <3>3. \A t \in paid : t.press # p /\ t.press \in Presses
      BY <3>1, <2>0
    <3>4. QED
      BY <3>1, <3>2, <3>3
  <2>3. ASSUME NEW p \in Presses, press[p].stage # "unused", paid \subseteq paid', banner'.sent = banner.sent,
               \A r \in Presses \ {p} : press'[r] = press[r],
               press'[p].source = press[p].source, press'[p].shown = press[p].shown,
               press'[p].stage # "unused",
               press'[p].stage = "balance" => \E t \in paid' : t.press = p,
               \A t \in paid' \ paid : t.press = p /\ t.source = press[p].source
        PROVE  PaymentInv'
    <3>1. \A t \in paid : t.press \in Presses
      BY <2>0
    <3>2. \A r \in Presses : press'[r].source = press'[r].shown
      BY <2>3
    <3>3. \A r \in Presses : press'[r].stage = "balance" => \E t \in paid' : t.press = r
      BY <2>3
    <3>4. \A t \in paid' : press'[t.press].stage # "unused" /\ t.source = press'[t.press].shown
      BY <2>3, <3>1
    <3>5. banner'.sent # NoPress => \E t \in paid' : t.press = banner'.sent
      BY <2>3
    <3>6. QED
      BY <3>2, <3>3, <3>4, <3>5
  <2>4. ASSUME NEW p \in Presses, NEW g \in {"signing", "balance", "over"}, Step(p, g)
        PROVE  /\ \A r \in Presses \ {p} : press'[r] = press[r]
               /\ press'[p].source = press[p].source /\ press'[p].shown = press[p].shown
               /\ press'[p].stage = g
    BY <2>4, <2>0 DEF Step
  <2>5. ASSUME NEW p \in Presses, sendXlm(p) PROVE PaymentInv'
    <3>1. CASE press[p].stage = "building" /\ Step(p, "signing")
      BY <2>5, <3>1, <2>4, <2>3 DEF sendXlm
    <3>2. CASE /\ press[p].stage = "signing"
               /\ press' = [press EXCEPT ![p].stage = "submitting", ![p].signer = extension.account]
      <4>1. /\ \A r \in Presses \ {p} : press'[r] = press[r]
            /\ press'[p].source = press[p].source /\ press'[p].shown = press[p].shown
            /\ press'[p].stage = "submitting"
        BY <3>2, <2>0
      <4>2. QED
        BY <2>5, <3>2, <4>1, <2>3 DEF sendXlm
    <3>3. QED
      BY <2>5, <3>1, <3>2 DEF sendXlm
  <2>6. ASSUME NEW p \in Presses, Fails(p) PROVE banner'.sent = banner.sent /\ Step(p, "over")
    BY <2>6 DEF Fails, PanelTypeOK
  <2>7. ASSUME NEW p \in Presses, PaymentFails(p) PROVE PaymentInv'
    BY <2>7, <2>6, <2>4, <2>3 DEF PaymentFails
  <2>8. ASSUME NEW p \in Presses, submitSignedTx(p) PROVE PaymentInv'
    <3>1. /\ press[p].stage = "submitting" 
          /\ paid' = paid \cup {[press |-> p, source |-> press[p].source]}
      BY <2>8 DEF submitSignedTx, Lands
    <3>2. banner'.sent = banner.sent /\ (Step(p, "balance") \/ Step(p, "over"))
      BY <2>8, <2>6 DEF submitSignedTx
    <3>3. /\ \A r \in Presses \ {p} : press'[r] = press[r]
          /\ press'[p].source = press[p].source /\ press'[p].shown = press[p].shown
          /\ press'[p].stage \in {"balance", "over"}
      BY <3>2, <2>4
    <3>4. /\ paid \subseteq paid' /\ \E t \in paid' : t.press = p
          /\ \A t \in paid' \ paid : t.press = p /\ t.source = press[p].source
      <4> DEFINE t == [press |-> p, source |-> press[p].source]
      <4>1. t.press = p /\ t.source = press[p].source
        OBVIOUS
      <4>2. paid' = paid \cup {t}
        BY <3>1
      <4> HIDE DEF t
      <4>3. QED
        BY <4>1, <4>2
    <3>5. QED
      BY <3>1, <3>2, <3>3, <3>4, <2>3
  <2>9. ASSUME NEW p \in Presses, SentAnswered(p) PROVE PaymentInv'
    <3>1. press[p].stage = "balance" /\ paid' = paid /\ banner'.sent = p /\ Step(p, "over")
      BY <2>9 DEF SentAnswered, PanelTypeOK
    <3>2. /\ \A r \in Presses \ {p} : press'[r] = press[r]
          /\ press'[p].source = press[p].source /\ press'[p].shown = press[p].shown
          /\ press'[p].stage = "over"
      BY <3>1, <2>4
    <3>3. \A t \in paid : t.press \in Presses
      BY <2>0
    <3>4. QED
      BY <3>1, <3>2, <3>3
  <2>10. QED
    BY <2>1, <2>2, <2>5, <2>7, <2>8, <2>9 DEF PanelNext, detectFreighter, getWalletAddress, connect,
       connectWallet, disconnect, refreshBalance, fetchXlmBalance, panelVars
<1>3. QED
  BY <1>1, <1>2, TypesHold, PTL DEF ClientSpec, PaymentInv
=============================================================================
