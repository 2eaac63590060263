---------------------------- MODULE GiftLifecycle ----------------------------
(***************************************************************************)
(* What the gift-escrow contract promises about one gift's life, with no   *)
(* mechanism: a gift is opened with a deadline in the future, and leaves   *)
(* the open phase exactly once - to its receiver, strictly before the      *)
(* deadline, or back to its funders, at the deadline or after it.          *)
(***************************************************************************)
EXTENDS Naturals

CONSTANT Gifts                   \* identifiers a gift may have

VARIABLES phase,                 \* [Gifts -> Phases]
          deadline,              \* [Gifts -> Nat], 0 while the gift is absent
          now                    \* ledger time

Phases == {"absent", "open", "claimed", "refunded"}

Init ==
  /\ phase = [g \in Gifts |-> "absent"]
  /\ deadline = [g \in Gifts |-> 0]
  /\ now \in Nat

\* A gift comes into being open, and its deadline never moves afterwards.
Open(g) ==
  /\ phase[g] = "absent"
  /\ deadline'[g] \in Nat
  /\ deadline'[g] > now
  /\ deadline' = [deadline EXCEPT ![g] = deadline'[g]]
  /\ phase' = [phase EXCEPT ![g] = "open"]
  /\ UNCHANGED now

GiveToReceiver(g) ==
  /\ phase[g] = "open"
  /\ now < deadline[g]
  /\ phase' = [phase EXCEPT ![g] = "claimed"]
  /\ UNCHANGED <<deadline, now>>

ReturnToFunders(g) ==
  /\ phase[g] = "open"
  /\ now >= deadline[g]
  /\ phase' = [phase EXCEPT ![g] = "refunded"]
  /\ UNCHANGED <<deadline, now>>

TimePasses ==
  /\ now' \in Nat
  /\ now' > now
  /\ UNCHANGED <<phase, deadline>>

vars == <<phase, deadline, now>>

Next ==
  \/ TimePasses
  \/ \E g \in Gifts : Open(g) \/ GiveToReceiver(g) \/ ReturnToFunders(g)

Spec == Init /\ [][Next]_vars
=============================================================================
