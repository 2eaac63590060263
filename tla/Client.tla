-------------------------------- MODULE Client --------------------------------
(***************************************************************************)
(* The pages that sign with the browser's wallet: the wizard, the on-ramp   *)
(* modal it opens, and the /wallet page.  A tab shows one of them; the      *)
(* wizard and its modal share the session but no other state, so that each  *)
(* is checked from its own first screen.                                    *)
(***************************************************************************)
EXTENDS Onramp, CreatePage, WalletPanel

VARIABLE screen

clientVars == <<walletVars, onrampVars, createVars, panelVars, screen>>

Screens == {"create", "onramp", "wallet"}

ClientTypeOK ==
  /\ screen \in Screens
  /\ WalletTypeOK
  /\ CASE screen = "create" -> CreateTypeOK
       [] screen = "onramp" -> OnrampTypeOK
       [] screen = "wallet" -> PanelTypeOK

\* A bound: the on-ramp, whose button needs a wallet, is entered with the restore
\* answered.  The wizard is entered while it is waiting.
ClientInit ==
  /\ screen \in Screens
  /\ restoring = (screen # "onramp")
  /\ WalletInit /\ OnrampInit /\ CreateInit /\ PanelInit

ClientNext ==
  /\ UNCHANGED screen
  /\ \/ /\ screen = "create" /\ CreateNext
        /\ UNCHANGED <<onrampVars, panelVars>>
     \/ /\ screen = "onramp" /\ OnrampNext
        /\ UNCHANGED <<createVars, panelVars>>
     \/ /\ screen = "wallet" /\ PanelNext
        /\ UNCHANGED <<onrampVars, createVars>>

ClientSpec == ClientInit /\ [][ClientNext]_clientVars
=============================================================================
