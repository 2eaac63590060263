------------------------------ MODULE CreatePage ------------------------------
(***************************************************************************)
(* The sender's wizard: its steps, TrustlinePrompt, the send of useGift     *)
(* with the backend's refusals behind it, and useSealedDeposit.  What was   *)
(* set going with one wallet goes on after that wallet has left the page,   *)
(* and an answer may move the wizard from wherever it is by then.           *)
(*                                                                         *)
(* TypedAmounts are the field's decimal strings, in tenths: 25 is "2.5".  The    *)
(* handshake of send with the ledger is GiftCreation's; here it is one step.*)
(***************************************************************************)
EXTENDS Wallet

CONSTANTS TypedAmounts,   \* that are typed, in tenths
          MaxSends,  \* bound: presses of Sign & send
          MaxSeals   \* bound: presses of Seal & send

ASSUME CreateAssumption ==
  TypedAmounts \subseteq Nat \ {0} /\ MaxSends \in Nat /\ MaxSeals \in Nat

VARIABLES
  step,      \* of the wizard
  form,      \* ComposeState
  needed,    \* TrustlinePrompt offers its button
  approval,  \* the run of its approve
  trusting,  \* the accounts that hold a trustline
  sending,   \* the run of send
  sends,
  result,    \* the gift the success step shows
  locked,    \* the gifts create_gift has made
  sealed,    \* [phase, claimLink]
  sealing,   \* [Seals -> stage], the runs of deposit
  pool       \* the notes that are in the pool

createVars == <<step, form, needed, approval, trusting, sending, sends, result,
                locked, sealed, sealing, pool>>

Assets == {"XLM", "USDC"}
Seals == 1..MaxSeals
NoLink == 0
NoForm == [asset |-> "XLM", receiver |-> NoWallet, amount |-> 0, seal |-> FALSE]
Forms == [asset : Assets, receiver : Wallets \cup {NoWallet}, amount : TypedAmounts \cup {0}, seal : BOOLEAN]

NoRun == [stage |-> "idle", by |-> NoWallet, form |-> NoForm]
NoResult == [sender |-> NoWallet, receiver |-> NoWallet, stroops |-> 0, reviewed |-> NoForm]
Locks == [sender : Wallets \cup {NoWallet}, receiver : Wallets \cup {NoWallet},
          stroops : Nat, reviewed : Forms]

CreateTypeOK ==
  /\ step \in {"connect", "compose", "trustline", "review", "success"}
  /\ form \in Forms
  /\ needed \in BOOLEAN
  /\ approval \in [stage : {"idle", "signing", "submitting", "over"}, by : Wallets \cup {NoWallet}]
  /\ trusting \subseteq Wallets
  /\ sending \in [stage : {"idle", "drafting", "building", "signing", "submitting"},
                  by : Wallets \cup {NoWallet}, form : Forms]
  /\ sends \in 0..MaxSends
  /\ result \in Locks /\ locked \subseteq Locks
  /\ sealed \in [phase : {"idle", "signing", "submitting", "done", "error"},
                 claimLink : Seals \cup {NoLink}]
  /\ sealing \in [Seals -> {"unused", "building", "signing", "submitting", "over"}]
  /\ pool \subseteq Seals

CreateInit ==
  /\ step = "connect" /\ form = NoForm
  /\ needed = FALSE /\ approval = [stage |-> "idle", by |-> NoWallet]
  /\ trusting = {}
  /\ sending = NoRun /\ sends = 0
  /\ result = NoResult /\ locked = {}
  /\ sealed = [phase |-> "idle", claimLink |-> NoLink]
  /\ sealing = [s \in Seals |-> "unused"]
  /\ pool = {}

-----------------------------------------------------------------------------
(* The wizard *)

\* Everything is behind NetworkGuard.
At(s) == step = s /\ GuardOpen

\* The effect of a key that came, went or changed.
WalletMoves ==
  /\ WalletAnswers \/ WalletClicks
  /\ step' = CASE publicKey' = publicKey                        -> step
               [] publicKey' # NoWallet /\ step = "connect"     -> "compose"
               [] publicKey' = NoWallet /\ step # "success"     -> "connect"
               [] OTHER                                         -> step
  /\ UNCHANGED <<form, needed, approval, trusting, sending, sends, result, locked,
                 sealed, sealing, pool>>

\* (It cannot be switched while others may contribute, but stays on.)
TogglesSeal == form' = [form EXCEPT !.seal = ~@]

FillIn ==
  /\ At("compose")
  /\ \/ \E a \in Assets : form' = [form EXCEPT !.asset = a]
     \/ \E w \in Wallets : form' = [form EXCEPT !.receiver = w]
     \/ \E x \in TypedAmounts : form' = [form EXCEPT !.amount = x]
     \/ TogglesSeal
  /\ UNCHANGED <<walletVars, step, needed, approval, trusting, sending, sends,
                 result, locked, sealed, sealing, pool>>

composeValid ==
  form.amount # 0 /\ form.receiver # NoWallet /\ form.receiver # publicKey

\* To the trustline step, where TrustlinePrompt mounts and checks.
Continue ==
  /\ At("compose") /\ composeValid
  /\ step' = "trustline" /\ needed' = FALSE
  /\ UNCHANGED <<walletVars, form, approval, trusting, sending, sends, result, locked,
                 sealed, sealing, pool>>

\* The sealed gift's page shows nothing to go back with.
ShowsSealedLink == sealed.phase = "done" /\ sealed.claimLink # NoLink

Back ==
  /\ At("review") /\ ~ShowsSealedLink
  /\ step' = "compose"
  /\ UNCHANGED <<walletVars, form, needed, approval, trusting, sending, sends, result,
                 locked, sealed, sealing, pool>>

ShowsGift == step = "success" /\ result # NoResult

restart ==
  /\ ShowsGift /\ GuardOpen
  /\ form' = NoForm /\ result' = NoResult
  /\ step' = IF Connected THEN "compose" ELSE "connect"
  /\ UNCHANGED <<walletVars, needed, approval, trusting, sending, sends, locked,
                 sealed, sealing, pool>>

-----------------------------------------------------------------------------
(* TrustlinePrompt *)

onSatisfied == step' = "review"

hasTrustline(w, asset) == asset = "XLM" \/ w \in trusting

\* The effect drops its answer once the key has changed or the step is left; a
\* failed look-up reads as no trustline.
TrustlineChecked ==
  /\ At("trustline")
  /\ \/ /\ ~Connected \/ hasTrustline(publicKey, form.asset)
        /\ onSatisfied /\ UNCHANGED needed
     \/ /\ Connected /\ form.asset # "XLM"
        /\ needed' = TRUE /\ UNCHANGED step
  /\ UNCHANGED <<walletVars, form, approval, trusting, sending, sends, result, locked,
                 sealed, sealing, pool>>

ClickAllow ==
  /\ At("trustline") /\ needed /\ Connected
  /\ approval.stage = "idle"
  /\ approval' = [stage |-> "signing", by |-> publicKey]
  /\ UNCHANGED <<walletVars, step, form, needed, trusting, sending, sends, result,
                 locked, sealed, sealing, pool>>

AllowSigned ==
  /\ approval.stage = "signing"
  /\ \/ MaySign /\ approval' = [approval EXCEPT !.stage = "submitting"] /\ UNCHANGED walletVars
     \/ MaySign /\ approval' = [approval EXCEPT !.stage = "idle"] /\ UNCHANGED walletVars
     \/ RefusedToSign /\ approval' = [approval EXCEPT !.stage = "idle"]
  /\ UNCHANGED <<step, form, needed, trusting, sending, sends, result, locked,
                 sealed, sealing, pool>>

\* approve has no cancelled flag: it moves the wizard from any step.  One
\* approval that succeeds is enough for the instance, a bound.
AllowAnswered ==
  /\ approval.stage = "submitting"
  /\ \/ /\ trusting' = trusting \cup {approval.by}
        /\ approval' = [approval EXCEPT !.stage = "over"]
        /\ onSatisfied /\ needed' = FALSE
     \/ /\ trusting' \in {trusting, trusting \cup {approval.by}}
        /\ approval' = [approval EXCEPT !.stage = "idle"]
        /\ UNCHANGED <<step, needed>>
  /\ UNCHANGED <<walletVars, form, sending, sends, result, locked, sealed, sealing, pool>>

-----------------------------------------------------------------------------
(* Sign & send *)

\* The list that is shown before signing.
Reviewed == form

\* A bound: one visit sends sealed gifts or others.
OneKind(seals) == \A s \in Seals : seals[s] = "unused"

sendGift ==
  /\ At("review") /\ ~ShowsSealedLink /\ ~form.seal
  /\ Connected
  /\ sending.stage = "idle" /\ sends < MaxSends /\ OneKind(sealing)
  /\ sends' = sends + 1
  /\ sending' = [stage |-> "drafting", by |-> publicKey, form |-> Reviewed]
  /\ UNCHANGED <<walletVars, step, form, needed, approval, trusting, result, locked,
                 sealed, sealing, pool>>

\* Any failure leaves the page where it is, with a toast.
SendEnds == sending' = NoRun
SendFails ==
  /\ sending.stage # "idle"
  /\ SendEnds
  /\ UNCHANGED <<walletVars, step, form, needed, approval, trusting, sends, result,
                 locked, sealed, sealing, pool>>

\* Faulty variant: the page has checked that already.
SchemaTrustsThePage(by, body) == body.asset = "XLM"

stellarAmount(amount) == amount # 0

\* What the page's request can fail: it never names an issuer.
createGiftSchema(by, body) ==
  by # body.receiver /\ stellarAmount(body.amount) /\ body.asset = "XLM"

KNOWN_TESTNET_TOKEN_CONTRACTS == {"XLM"}
resolveTokenContractId(asset) == asset \in KNOWN_TESTNET_TOKEN_CONTRACTS

\* An i128 is made of the amount as it stands; a fraction makes it throw.
InStroops(amount) == amount \div 10
Encodes(amount) == amount % 10 = 0

DraftAnswered ==
  /\ sending.stage = "drafting"
  /\ createGiftSchema(sending.by, sending.form)
  /\ resolveTokenContractId(sending.form.asset)
  /\ sending' = [sending EXCEPT !.stage = "building"]
  /\ UNCHANGED <<walletVars, step, form, needed, approval, trusting, sends, result,
                 locked, sealed, sealing, pool>>

SendBuilt ==
  /\ sending.stage = "building"
  /\ Encodes(sending.form.amount)
  /\ sending' = [sending EXCEPT !.stage = "signing"]
  /\ UNCHANGED <<walletVars, step, form, needed, approval, trusting, sends, result,
                 locked, sealed, sealing, pool>>

SendSigned ==
  /\ sending.stage = "signing"
  /\ \/ MaySign /\ sending' = [sending EXCEPT !.stage = "submitting"] /\ UNCHANGED walletVars
     \/ RefusedToSign /\ SendEnds
  /\ UNCHANGED <<step, form, needed, approval, trusting, sends, result, locked,
                 sealed, sealing, pool>>

Lock ==
  [sender |-> sending.by, receiver |-> sending.form.receiver,
   stroops |-> InStroops(sending.form.amount), reviewed |-> sending.form]

\* The gift is locked; its answer may be lost.
SendAnswered ==
  /\ sending.stage = "submitting"
  /\ locked' = locked \cup {Lock}
  /\ \/ result' = Lock /\ step' = "success"
     \/ UNCHANGED <<result, step>>
  /\ SendEnds
  /\ UNCHANGED <<walletVars, form, needed, approval, trusting, sends, sealed, sealing, pool>>

-----------------------------------------------------------------------------
(* Seal & send *)

SetSealPhase(p) == sealed' = [sealed EXCEPT !.phase = p]

\* The button is only held back once the build has been answered.
sealGift(s) ==
  /\ At("review") /\ ~ShowsSealedLink /\ form.seal
  /\ Connected
  /\ sealed.phase \notin {"signing", "submitting"} /\ sends = 0
  /\ sealing[s] = "unused" /\ \A r \in Seals : r < s => sealing[r] # "unused"
  /\ sealing' = [sealing EXCEPT ![s] = "building"]
  /\ UNCHANGED <<walletVars, step, form, needed, approval, trusting, sending, sends,
                 result, locked, sealed, pool>>

\* A note whose deposit landed without an answer is gone with its secret.
SealFails(s) ==
  /\ sealing[s] \in {"building", "signing", "submitting"}
  /\ SetSealPhase("error")
  /\ sealing' = [sealing EXCEPT ![s] = "over"]
  /\ pool' \in {pool} \cup {pool \cup {r} : r \in {s} \cap {q \in Seals : sealing[q] = "submitting"}}
  /\ UNCHANGED <<walletVars, step, form, needed, approval, trusting, sending, sends,
                 result, locked>>

SealProceeds(s) ==
  /\ \/ sealing[s] = "building" /\ sealing' = [sealing EXCEPT ![s] = "signing"]
        /\ SetSealPhase("signing") /\ UNCHANGED walletVars
     \/ sealing[s] = "signing" /\ MaySign /\ sealing' = [sealing EXCEPT ![s] = "submitting"]
        /\ SetSealPhase("submitting") /\ UNCHANGED walletVars
     \/ sealing[s] = "signing" /\ RefusedToSign /\ sealing' = [sealing EXCEPT ![s] = "over"]
        /\ SetSealPhase("error")
  /\ UNCHANGED <<step, form, needed, approval, trusting, sending, sends, result,
                 locked, pool>>

\* Faulty variant: the note is kept beside the phase, not in the run.
LatestNote(s) == CHOOSE r \in Seals :
  sealing[r] # "unused" /\ \A q \in Seals : q > r => sealing[q] = "unused"

OwnNote(s) == s

NoteDeposited(s) ==
  /\ sealing[s] = "submitting"
  /\ sealing' = [sealing EXCEPT ![s] = "over"]
  /\ pool' = pool \cup {s}
  /\ sealed' = [phase |-> "done", claimLink |-> OwnNote(s)]
  /\ UNCHANGED <<walletVars, step, form, needed, approval, trusting, sending, sends,
                 result, locked>>

-----------------------------------------------------------------------------
CreateNext ==
  \/ WalletMoves \/ FillIn \/ Continue \/ Back \/ restart
  \/ TrustlineChecked \/ ClickAllow \/ AllowSigned \/ AllowAnswered
  \/ sendGift \/ SendFails \/ DraftAnswered \/ SendBuilt \/ SendSigned \/ SendAnswered
  \/ \E s \in Seals : sealGift(s) \/ SealFails(s) \/ SealProceeds(s) \/ NoteDeposited(s)

CreateSpec == WalletInit /\ CreateInit /\ [][CreateNext]_<<walletVars, createVars>>

-----------------------------------------------------------------------------
(* Properties *)

\* Nobody locks a gift for himself, although a late approval takes the wizard to
\* review past the form's own check and another wallet may be connected by then.
NoSelfGift == \A g \in locked : g.sender # g.receiver

\* The link shown as a live sealed gift opens a note that is in the pool, although
\* the button lets two deposits run at once.
SealedLinkIsLive == ShowsSealedLink => sealed.claimLink \in pool

\* "This is exactly what will be locked on-chain": what review shows as XLM is
\* locked, 10^7 stroops to the unit.
StroopsPerUnit == 10000000
ReviewedIsLocked == \A g \in locked : g.stroops * 10 = g.reviewed.amount * StroopsPerUnit
=============================================================================
