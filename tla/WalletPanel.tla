------------------------------ MODULE WalletPanel ------------------------------
(***************************************************************************)
(* The /wallet page: its own hook over Freighter and Horizon, beside the    *)
(* session of Wallet.  Nothing tells it that the extension's account has    *)
(* changed, Freighter signs with the account it has, and the balance reads  *)
(* of a session go on after it was disconnected.                            *)
(***************************************************************************)
EXTENDS Wallet

CONSTANT MaxPresses  \* bound: presses of Send XLM

ASSUME PanelAssumption == MaxPresses \in Nat

VARIABLES
  panel,   \* [linking, restoring, address, balance]: whose balance is shown
  reading, \* balance reads in flight, by account
  press,   \* [Presses -> the run of handleSend]
  paid,    \* the payments in the ledger
  banner   \* [sent, failed]

panelVars == <<panel, reading, press, paid, banner>>

Presses == 1..MaxPresses
NoPress == 0

PanelTypeOK ==
  /\ panel \in [linking : {"detecting", "asking", "idle", "absent"}, restoring : BOOLEAN,
                address : Wallets \cup {NoWallet}, balance : Wallets \cup {NoWallet}]
  /\ reading \subseteq Wallets
  /\ press \in [Presses -> [stage : {"unused", "building", "signing", "submitting", "balance", "over"},
                            shown : Wallets \cup {NoWallet}, source : Wallets \cup {NoWallet},
                            signer : Wallets \cup {NoWallet}]]
  /\ paid \subseteq [press : Presses, source : Wallets]
  /\ banner \in [sent : Presses \cup {NoPress}, failed : BOOLEAN]

PanelInit ==
  /\ panel = [linking |-> "detecting", restoring |-> FALSE, address |-> NoWallet, balance |-> NoWallet]
  /\ reading = {}
  /\ press = [p \in Presses |-> [stage |-> "unused", shown |-> NoWallet,
                                 source |-> NoWallet, signer |-> NoWallet]]
  /\ paid = {}
  /\ banner = [sent |-> NoPress, failed |-> FALSE]

-----------------------------------------------------------------------------
(* Detect, connect, balance *)

\* The account that answers, and the read of its balance; or a refusal.
Answered(page) ==
  \/ panel' = [page EXCEPT !.address = extension.account] /\ reading' = reading \cup {extension.account}
  \/ panel' = page /\ UNCHANGED reading

detectFreighter ==
  /\ panel.linking = "detecting"
  /\ \/ panel' = [panel EXCEPT !.linking = "idle", !.restoring = TRUE]
     \/ panel' = [panel EXCEPT !.linking = "absent"]
  /\ UNCHANGED <<walletVars, reading, press, paid, banner>>

\* A session granted earlier comes back, one that was not or a throw leaves none.
getWalletAddress ==
  /\ panel.restoring
  /\ Answered([panel EXCEPT !.restoring = FALSE])
  /\ UNCHANGED <<walletVars, press, paid, banner>>

\* Connect is offered while the restore is still under way.
connect ==
  /\ panel.linking = "idle" /\ panel.address = NoWallet
  /\ panel' = [panel EXCEPT !.linking = "asking"]
  /\ UNCHANGED <<walletVars, reading, press, paid, banner>>

connectWallet ==
  /\ panel.linking = "asking"
  /\ Answered([panel EXCEPT !.linking = "idle"])
  /\ UNCHANGED <<walletVars, press, paid, banner>>

disconnect ==
  /\ panel.address # NoWallet
  /\ panel' = [panel EXCEPT !.address = NoWallet, !.balance = NoWallet]
  /\ UNCHANGED <<walletVars, reading, press, paid, banner>>

refreshBalance ==
  /\ panel.address # NoWallet
  /\ reading' = reading \cup {panel.address}
  /\ UNCHANGED <<walletVars, panel, press, paid, banner>>

\* Read or failed; nothing asks whether the account is still the one connected.
fetchXlmBalance(a) ==
  /\ a \in reading
  /\ reading' = reading \ {a}
  /\ \/ panel' = [panel EXCEPT !.balance = a]
     \/ UNCHANGED panel
  /\ UNCHANGED <<walletVars, press, paid, banner>>

-----------------------------------------------------------------------------
(* Send *)

Sending == \E p \in Presses : press[p].stage \notin {"unused", "over"}

\* Faulty variant: the payment is built for the account the extension is on.
ExtensionSource == extension.account

PaymentSource == panel.address

handleSend(p) ==
  /\ panel.address # NoWallet /\ ~Sending
  /\ press[p].stage = "unused" /\ \A q \in Presses : q < p => press[q].stage # "unused"
  /\ banner' = [sent |-> NoPress, failed |-> FALSE]
  /\ press' = [press EXCEPT ![p] = [stage |-> "building", shown |-> panel.address,
                                    source |-> PaymentSource, signer |-> NoWallet]]
  /\ UNCHANGED <<walletVars, panel, reading, paid>>

Step(p, stage) == press' = [press EXCEPT ![p].stage = stage]

\* Built or not, signed by the account the extension is on or declined.
sendXlm(p) ==
  /\ \/ press[p].stage = "building" /\ Step(p, "signing")
     \/ /\ press[p].stage = "signing"
        /\ press' = [press EXCEPT ![p].stage = "submitting", ![p].signer = extension.account]
  /\ UNCHANGED <<walletVars, panel, reading, paid, banner>>

\* The catch takes every failure for a payment that was not sent.
Fails(p) == Step(p, "over") /\ banner' = [banner EXCEPT !.failed = TRUE]

PaymentFails(p) ==
  /\ press[p].stage \in {"building", "signing", "submitting", "balance"}
  /\ Fails(p)
  /\ UNCHANGED <<walletVars, panel, reading, paid>>

\* Horizon takes a payment signed by its source; its answer may be lost.
Lands(p) == paid' = paid \cup {[press |-> p, source |-> press[p].source]}

submitSignedTx(p) ==
  /\ press[p].stage = "submitting" /\ press[p].signer = press[p].source
  /\ Lands(p)
  /\ \/ Step(p, "balance") /\ UNCHANGED banner
     \/ Fails(p)
  /\ UNCHANGED <<walletVars, panel, reading>>

\* The hash is shown once the balance has been read again.
SentAnswered(p) ==
  /\ press[p].stage = "balance"
  /\ panel' = [panel EXCEPT !.balance = press[p].shown]
  /\ Step(p, "over")
  /\ banner' = [banner EXCEPT !.sent = p]
  /\ UNCHANGED <<walletVars, reading, paid>>

-----------------------------------------------------------------------------
PanelNext ==
  \/ detectFreighter \/ getWalletAddress \/ connect \/ connectWallet \/ disconnect
  \/ refreshBalance \/ \E a \in Wallets : fetchXlmBalance(a)
  \/ \E p \in Presses :
       handleSend(p) \/ sendXlm(p) \/ PaymentFails(p) \/ submitSignedTx(p) \/ SentAnswered(p)
  \/ SwitchAccount /\ UNCHANGED panelVars

PanelSpec == WalletInit /\ PanelInit /\ [][PanelNext]_<<walletVars, panelVars>>

-----------------------------------------------------------------------------
(* Properties *)

\* Money only leaves the account that was on screen when Send was pressed, and
\* "Transaction sent!" stands for such a payment in the ledger, although the
\* extension, which signs, may have moved to another account.
SentIsReal ==
  /\ \A t \in paid : t.source = press[t.press].shown
  /\ banner.sent # NoPress => \E t \in paid : t.press = banner.sent
=============================================================================
