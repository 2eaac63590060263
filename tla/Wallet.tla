-------------------------------- MODULE Wallet --------------------------------
(***************************************************************************)
(* The Freighter session every page of the frontend shares: useFreighter,   *)
(* the connect button and the network guard.  The extension's own account   *)
(* and network change without telling the page, which learns of them when   *)
(* it connects, when its window regains focus, and before each signature.   *)
(***************************************************************************)
EXTENDS Naturals

CONSTANTS Wallets,     \* accounts the extension holds
          NoWallet,
          MaxSwitches  \* bound: changes made in the extension

ASSUME WalletAssumption == NoWallet \notin Wallets /\ MaxSwitches \in Nat

VARIABLES
  extension,  \* Freighter: [account, network]
  publicKey,  \* the account the page believes is connected
  network,    \* the network last read
  restoring,  \* the mount effect waits for getAddress
  linking,    \* progress of connect
  switches

walletVars == <<extension, publicKey, network, restoring, linking, switches>>

Networks == {"TESTNET", "PUBLIC"}
UnknownNetwork == "unknown"

WalletTypeOK ==
  /\ extension \in [account : Wallets, network : Networks]
  /\ publicKey \in Wallets \cup {NoWallet}
  /\ network \in Networks \cup {UnknownNetwork}
  /\ restoring \in BOOLEAN
  /\ linking \in {"idle", "asking", "reading"}
  /\ switches \in 0..MaxSwitches

\* The extension was found (without it there is only a link to install it), and
\* there is no session, yet or at all; a wrong network comes by a switch.
WalletInit ==
  /\ extension \in [account : Wallets, network : {"TESTNET"}]
  /\ publicKey = NoWallet
  /\ switches = 0
  /\ network = UnknownNetwork
  /\ restoring \in BOOLEAN
  /\ linking = "idle"

Connected == publicKey # NoWallet
Switches == switches < MaxSwitches /\ switches' = switches + 1

-----------------------------------------------------------------------------
(* The session *)

\* The mount effect: a session granted earlier comes back without a prompt,
\* whatever the user has connected or forgotten meanwhile.  (The network behind
\* the key is then read as on a focus, or not: a read may fail.)
RestoreSession ==
  /\ restoring
  /\ restoring' = FALSE
  /\ publicKey' \in {publicKey, extension.account}
  /\ UNCHANGED <<extension, network, linking, switches>>

\* The button offers Connect while the restore is still waiting, and never while
\* a connect is under way.
ClickConnect ==
  /\ linking = "idle"
  /\ ~Connected
  /\ linking' = "asking"
  /\ UNCHANGED <<extension, publicKey, network, restoring, switches>>

AccessAnswered ==
  /\ linking = "asking"
  /\ \/ publicKey' = extension.account /\ linking' = "reading"
     \/ publicKey' = publicKey /\ linking' = "idle"
  /\ UNCHANGED <<extension, network, restoring, switches>>

\* The key is shown before the network behind it has been read; a read that
\* fails leaves what was known.
NetworkAnswered ==
  /\ linking = "reading"
  /\ network' \in {network, extension.network}
  /\ linking' = "idle"
  /\ UNCHANGED <<extension, publicKey, restoring, switches>>

\* There is nothing to revoke: the page only forgets.
Disconnect ==
  /\ Connected
  /\ publicKey' = NoWallet
  /\ network' = UnknownNetwork
  /\ UNCHANGED <<extension, restoring, linking, switches>>

WindowFocused ==
  /\ Connected
  /\ network # extension.network
  /\ network' = extension.network
  /\ UNCHANGED <<extension, publicKey, restoring, linking, switches>>

-----------------------------------------------------------------------------
(* The extension *)

SwitchAccount ==
  /\ Switches
  /\ \E a \in Wallets \ {extension.account} : extension' = [extension EXCEPT !.account = a]
  /\ UNCHANGED <<publicKey, network, restoring, linking>>

SwitchNetwork ==
  /\ Switches
  /\ \E n \in Networks \ {extension.network} : extension' = [extension EXCEPT !.network = n]
  /\ UNCHANGED <<publicKey, network, restoring, linking>>

\* What the user does in the page; an overlay covers it.
WalletClicks == ClickConnect \/ Disconnect
WalletAnswers ==
  \/ RestoreSession \/ AccessAnswered \/ NetworkAnswered \/ WindowFocused
  \/ SwitchAccount \/ SwitchNetwork

-----------------------------------------------------------------------------
(* What the pages use *)

\* NetworkGuard: what is behind it is not rendered on a network known to be wrong.
GuardOpen == Connected /\ network # UnknownNetwork => network = "TESTNET"

\* signXdr reads the network again and hands the wallet the key the page had
\* when the flow began; off testnet it throws and shows what it read, but a read
\* that fails stops nothing.
NetworkReads == {extension.network, UnknownNetwork}
Refuses(read) == read \notin {"TESTNET", UnknownNetwork}

MaySign == \E read \in NetworkReads : ~Refuses(read)
RefusedToSign ==
  /\ \E read \in NetworkReads : Refuses(read) /\ network' = read
  /\ UNCHANGED <<extension, publicKey, restoring, linking, switches>>
=============================================================================
