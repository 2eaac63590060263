-------------------------- MODULE GiftCreationProofs --------------------------
(***************************************************************************)
(* Theorems about GiftCreation, for any number of builds and submits served *)
(* at once: what a row and a link say of the chain, that an active row is   *)
(* written over by nobody, the one event that reopens it, and that a gift   *)
(* has one link, which goes on resolving, until that event.                 *)
(***************************************************************************)
EXTENDS GiftCreation, TLAPS

\* A transaction keeps its type and the list its length when one moves on.
LEMMA TxMoved ==
  ASSUME TypeOK, NEW i \in DOMAIN txs, NEW st \in TxStates, txs' = [txs EXCEPT ![i].state = st]
  PROVE  /\ txs' \in Seq(Transactions) /\ Len(txs') = Len(txs) /\ DOMAIN txs' = DOMAIN txs
         /\ \A j \in DOMAIN txs \ {i} : txs'[j] = txs[j]
         /\ txs'[i].state = st /\ txs'[i].gift = txs[i].gift
<1> DEFINE t == [txs[i] EXCEPT !.state = st]
<1>1. txs \in Seq(Transactions) /\ i \in 1..Len(txs) /\ txs[i] \in Transactions
  BY DEF TypeOK
<1>2. t \in Transactions /\ t.state = st /\ t.gift = txs[i].gift
  BY <1>1 DEF Transactions
<1>3. txs' = [txs EXCEPT ![i] = t]
  OBVIOUS
<1> HIDE DEF t
<1>4. QED
  BY <1>1, <1>2, <1>3

Lands(i, g) == txs' = [txs EXCEPT ![i].state = "landed", ![i].gift = g]

\* And when one lands and has its gift.
LEMMA TxLanded ==
  ASSUME TypeOK, NEW i \in DOMAIN txs, NEW g \in Nat, Lands(i, g)
  PROVE  /\ txs' \in Seq(Transactions) /\ Len(txs') = Len(txs) /\ DOMAIN txs' = DOMAIN txs
         /\ \A j \in DOMAIN txs \ {i} : txs'[j] = txs[j]
         /\ txs'[i].state = "landed" /\ txs'[i].gift = g
<1> DEFINE u == [txs[i] EXCEPT !.state = "landed"]
<1>1. txs \in Seq(Transactions) /\ i \in 1..Len(txs) /\ txs[i] \in Transactions
  BY DEF TypeOK
<1>2. u \in Transactions /\ u.state = "landed"
  BY <1>1 DEF Transactions, TxStates
<1>3. txs' = [txs EXCEPT ![i] = [u EXCEPT !.gift = g]]
  BY <1>1 DEF Lands
<1> HIDE DEF u
<1> DEFINE t == [u EXCEPT !.gift = g]
<1>4. t \in Transactions /\ t.state = "landed" /\ t.gift = g
  BY <1>2 DEF Transactions
<1>5. txs' = [txs EXCEPT ![i] = t]
  BY <1>3
<1> HIDE DEF t
<1>6. txs' \in Seq(Transactions) /\ Len(txs') = Len(txs) /\ DOMAIN txs' = DOMAIN txs
  <2>1. txs \in Seq(Transactions) /\ i \in 1..Len(txs) /\ t \in Transactions
    BY <1>1, <1>4
  <2>2. QED
    BY <2>1, <1>5
<1>7. txs'[i] = t /\ \A j \in DOMAIN txs \ {i} : txs'[j] = txs[j]
  BY <1>1, <1>5
<1>8. QED
  BY <1>4, <1>6, <1>7

\* Types: in particular what a submit knows of the row and of a transaction
\* exists, and no save goes beyond the transactions built.
SubmitsKnown == \A s \in Submitters : submitter[s].pc # "idle" => submitter[s].tx \in DOMAIN txs
BuildsKnown == \A b \in Builders : builder[b].pc = "save" => builder[b].tx \in DOMAIN txs
TypeInv == TypeOK /\ SubmitsKnown /\ BuildsKnown

\* Types hold of any number of builds and submits served at once.
THEOREM TypesHold == Spec => []TypeInv
<1> USE CreationBounds
<1>1. Init => TypeInv
  <2> SUFFICES ASSUME Init PROVE TypeInv
    OBVIOUS
  <2>1. builder \in [Builders -> BuilderStates] /\ submitter \in [Submitters -> SubmitterStates]
    BY DEF Init, IdleBuilder, IdleSubmitter, BuilderStates, SubmitterStates, Statuses
  <2>2. SubmitsKnown /\ BuildsKnown
    BY DEF Init, SubmitsKnown, BuildsKnown, IdleBuilder, IdleSubmitter
  <2>3. txs \in Seq(Transactions) /\ Len(txs) <= MaxTxs
    BY DEF Init
  <2>4. links \in SUBSET (Nat \X Nat) /\ faults \in 0..MaxFaults
    BY DEF Init
  <2>5. QED
    BY <2>1, <2>2, <2>3, <2>4 DEF Init, TypeInv, TypeOK, Statuses
<1>2. TypeInv /\ [Next]_vars => TypeInv'
  <2> SUFFICES ASSUME TypeInv, [Next]_vars PROVE TypeInv'
    OBVIOUS
  <2> USE DEF TypeInv
  <2>0. /\ IdleBuilder \in BuilderStates /\ IdleSubmitter \in SubmitterStates
        /\ txs \in Seq(Transactions) /\ Len(txs) \in Nat /\ DOMAIN txs = 1..Len(txs)
        /\ \A i \in DOMAIN txs : txs[i] \in Transactions
        /\ builder \in [Builders -> BuilderStates] /\ submitter \in [Submitters -> SubmitterStates]
    BY DEF IdleBuilder, IdleSubmitter, BuilderStates, SubmitterStates, Statuses, TypeOK
  <2>1. ASSUME UNCHANGED vars PROVE TypeInv'
    BY <2>1 DEF vars, row, network, TypeOK, SubmitsKnown, BuildsKnown
  \* One handler moved, the rest of what types speak of is as it was or typed.
  <2>2. ASSUME NEW s \in Submitters, NEW h \in SubmitterStates, submitter' = [submitter EXCEPT ![s] = h],
               h.pc # "idle" => h.tx \in DOMAIN txs', DOMAIN txs \subseteq DOMAIN txs'
        PROVE  submitter' \in [Submitters -> SubmitterStates] /\ SubmitsKnown'
    BY <2>2, <2>0 DEF SubmitsKnown
  <2>3. ASSUME NEW b \in Builders, NEW h \in BuilderStates, builder' = [builder EXCEPT ![b] = h],
               h.pc = "save" => h.tx \in DOMAIN txs', DOMAIN txs \subseteq DOMAIN txs'
        PROVE  builder' \in [Builders -> BuilderStates] /\ BuildsKnown'
    BY <2>3, <2>0 DEF BuildsKnown
  <2>4. ASSUME DOMAIN txs \subseteq DOMAIN txs' 
        PROVE  /\ submitter' = submitter => SubmitsKnown'
               /\ builder' = builder => BuildsKnown'
    BY <2>4 DEF SubmitsKnown, BuildsKnown
  <2>5. ASSUME NEW b \in Builders, Build(b) PROVE TypeInv'
    <3>1. CASE BuildLoad(b)
      <4>1. [pc |-> "rpc", seen |-> rowStatus, tx |-> 0] \in BuilderStates
        BY DEF TypeOK, BuilderStates
      <4>2. QED
        BY <3>1, <4>1, <2>3, <2>4 DEF BuildLoad, row, network, TypeOK
    <3>2. CASE BuildRpc(b)
      <4> DEFINE t == [seq |-> accountSeq, state |-> "built", gift |-> 0]
                 h == [builder[b] EXCEPT !.pc = "save", !.tx = Len(txs) + 1]
      <4>1. t \in Transactions
        BY DEF Transactions, TxStates, TypeOK
      <4>2. txs' \in Seq(Transactions) /\ Len(txs') = Len(txs) + 1 /\ Len(txs') <= MaxTxs
        BY <3>2, <4>1, <2>0 DEF BuildRpc
      <4>3. DOMAIN txs' = 1..(Len(txs) + 1) /\ DOMAIN txs \subseteq DOMAIN txs'
        BY <4>2, <2>0
      <4>4. h.tx = Len(txs) + 1 /\ h \in BuilderStates
        <5> DEFINE k == [builder[b] EXCEPT !.pc = "save"]
        <5>1. k \in BuilderStates
          BY <2>0 DEF BuilderStates
        <5>2. h = [k EXCEPT !.tx = Len(txs) + 1]
          BY <2>0 DEF BuilderStates
        <5>3. Len(txs) + 1 \in 0..MaxTxs
          BY <3>2, <2>0 DEF BuildRpc
        <5> HIDE DEF k, h
        <5>4. QED
          BY <5>1, <5>2, <5>3 DEF BuilderStates
      <4>5. builder' = [builder EXCEPT ![b] = h]
        BY <3>2, <2>0 DEF BuildRpc
      <4> HIDE DEF h
      <4>6. builder' \in [Builders -> BuilderStates] /\ BuildsKnown'
        <5>1. Len(txs) + 1 \in DOMAIN txs'
          BY <4>3, <2>0
        <5>2. h \in BuilderStates /\ h.tx \in DOMAIN txs'
          BY <4>4, <5>1
        <5>3. QED
          BY <2>3, <4>3, <4>5, <5>2
      <4>7. QED
        BY <3>2, <4>2, <4>3, <4>6, <2>4 DEF BuildRpc, row, TypeOK
    <3>3. CASE BuildFails(b)
      BY <3>3, <2>0, <2>3, <2>4 DEF BuildFails, IdleBuilder, row, network, TypeOK
    <3>4. CASE BuildSave(b)
      <4>1. builder[b].tx \in DOMAIN txs /\ "offered" \in TxStates
        BY <3>4 DEF BuildSave, BuildsKnown, TxStates
      <4>2. txs' \in Seq(Transactions) /\ Len(txs') = Len(txs) /\ DOMAIN txs' = DOMAIN txs
        BY <3>4, <4>1, TxMoved DEF BuildSave
      <4>3. builder' \in [Builders -> BuilderStates] /\ BuildsKnown'
        BY <3>4, <4>2, <2>0, <2>3 DEF BuildSave, IdleBuilder
      <4>4. rowStatus' \in Statuses
        BY <3>4 DEF BuildSave, StatusAfterBuild, Statuses, TypeOK
      <4>5. QED
        BY <3>4, <4>2, <4>3, <4>4, <2>4 DEF BuildSave, TypeOK
    <3>5. QED
      BY <2>5, <3>1, <3>2, <3>3, <3>4 DEF Build
  <2>6. ASSUME NEW s \in Submitters, NEW i \in DOMAIN txs, SubmitLoad(s, i) PROVE TypeInv'
    <3>1. [pc |-> "send", ver |-> rowVersion, tx |-> i] \in SubmitterStates
      <4>1. i \in 0..MaxTxs
        BY <2>0 DEF TypeOK
      <4>2. QED
        BY <4>1 DEF TypeOK, SubmitterStates
    <3>2. QED
      BY <2>6, <3>1, <2>2, <2>4 DEF SubmitLoad, row, network, TypeOK
  \* A submit's program counter moved and nothing it knows changed.
  <2>7. ASSUME NEW s \in Submitters, submitter[s].pc # "idle", DOMAIN txs' = DOMAIN txs,
               \/ submitter' = [submitter EXCEPT ![s] = IdleSubmitter]
               \/ \E p \in {"poll", "save"} : submitter' = [submitter EXCEPT ![s].pc = p]
        PROVE  submitter' \in [Submitters -> SubmitterStates] /\ SubmitsKnown'
    <3>1. CASE submitter' = [submitter EXCEPT ![s] = IdleSubmitter]
      BY <3>1, <2>7, <2>2, <2>0 DEF IdleSubmitter
    <3>2. ASSUME NEW p \in {"poll", "save"}, submitter' = [submitter EXCEPT ![s].pc = p]
          PROVE  submitter' \in [Submitters -> SubmitterStates] /\ SubmitsKnown'
      <4> DEFINE h == [submitter[s] EXCEPT !.pc = p]
      <4>1. h \in SubmitterStates /\ h.tx = submitter[s].tx
        BY <2>0 DEF SubmitterStates
      <4>2. submitter' = [submitter EXCEPT ![s] = h]
        BY <3>2
      <4>3. submitter[s].tx \in DOMAIN txs
        BY <2>7 DEF SubmitsKnown
      <4> HIDE DEF h
      <4>4. QED
        BY <4>1, <4>2, <4>3, <2>7, <2>2
    <3>3. QED
      BY <2>7, <3>1, <3>2
  <2>8. ASSUME NEW i \in DOMAIN txs, Enqueued(i)
        PROVE  txs' \in Seq(Transactions) /\ Len(txs') = Len(txs) /\ DOMAIN txs' = DOMAIN txs
    <3>1. txs' = [txs EXCEPT ![i].state = "pending"] /\ "pending" \in TxStates
      BY <2>8 DEF Enqueued, TxStates
    <3>2. QED
      BY <3>1, TxMoved
  <2>9. ASSUME NEW s \in Submitters, Serve(s) PROVE TypeInv'
    <3>1. CASE Send(s)
      <4>1. submitter[s].pc # "idle" /\ submitter[s].tx \in DOMAIN txs
        BY <3>1 DEF Send, SubmitsKnown
      <4>2. txs' \in Seq(Transactions) /\ Len(txs') = Len(txs) /\ DOMAIN txs' = DOMAIN txs
        BY <3>1, <4>1, <2>8, <2>0 DEF Send
      <4>3. QED
        BY <3>1, <4>1, <4>2, <2>4, <2>7 DEF Send, row, TypeOK
    <3>2. CASE SendRejected(s) \/ PollSucceeds(s) \/ PollGivesUp(s) \/ SubmitSaveConflicts(s)
      BY <3>2, <2>4, <2>7 DEF SendRejected, PollSucceeds, PollGivesUp, SubmitSaveConflicts, row, network, TypeOK
    <3>3. CASE SubmitSave(s)
      <4>1. submitter[s].pc # "idle" /\ submitter[s].tx \in DOMAIN txs
        BY <3>3 DEF SubmitSave, SubmitsKnown
      <4>2. TxOf(s).gift \in Nat /\ rowVersion + 1 \in Nat
        BY <4>1, <2>0 DEF TxOf, Transactions, TypeOK
      <4>3. links' \in SUBSET (Nat \X Nat)
        BY <3>3, <4>2 DEF SubmitSave, ContractGiftId, TypeOK
      <4>4. QED
        BY <3>3, <4>1, <4>2, <4>3, <2>4, <2>7 DEF SubmitSave, ContractGiftId, Statuses, network, TypeOK
    <3>4. QED
      BY <2>9, <3>1, <3>2, <3>3 DEF Serve
  <2>10. ASSUME NEW s \in Submitters, RpcFails(s) PROVE TypeInv'
    <3>1. submitter[s].pc # "idle" /\ submitter[s].tx \in DOMAIN txs
      BY <2>10 DEF RpcFails, SubmitsKnown
    <3>2. txs' \in Seq(Transactions) /\ Len(txs') = Len(txs) /\ DOMAIN txs' = DOMAIN txs
      BY <2>10, <3>1, <2>8, <2>0 DEF RpcFails
    <3>3. faults' \in 0..MaxFaults
      BY <2>10 DEF RpcFails, TypeOK
    <3>4. submitter' \in [Submitters -> SubmitterStates] /\ SubmitsKnown'
      BY <2>10, <3>1, <3>2, <2>7 DEF RpcFails
    <3>5. QED
      BY <2>10, <3>2, <3>3, <3>4, <2>4 DEF RpcFails, row, TypeOK
  <2>11. ASSUME NEW i \in DOMAIN txs, Apply(i) \/ Expire(i) PROVE TypeInv'
    <3>1. chainGifts + 1 \in Nat /\ accountSeq + 1 \in Nat
      BY DEF TypeOK
    <3>2. txs' \in Seq(Transactions) /\ Len(txs') = Len(txs) /\ DOMAIN txs' = DOMAIN txs
      <4>1. CASE txs' = [txs EXCEPT ![i].state = "landed", ![i].gift = chainGifts + 1]
        BY <4>1, <3>1, TxLanded DEF Lands
      <4>2. ASSUME NEW st \in {"failed", "expired"}, txs' = [txs EXCEPT ![i].state = st]
            PROVE  txs' \in Seq(Transactions) /\ Len(txs') = Len(txs) /\ DOMAIN txs' = DOMAIN txs
        <5>1. st \in TxStates
          BY DEF TxStates
        <5>2. QED
          BY <4>2, <5>1, TxMoved
      <4>3. QED
        BY <2>11, <4>1, <4>2 DEF Apply, Expire
    <3>3. QED
      BY <2>11, <3>1, <3>2, <2>4 DEF Apply, Expire, row, TypeOK
  <2>12. ASSUME DeadlinePasses PROVE TypeInv'
    BY <2>12, <2>4 DEF DeadlinePasses, row, network, TypeOK
  <2>13. ASSUME Crash PROVE TypeInv'
    BY <2>13, <2>0 DEF Crash, row, network, TypeOK, SubmitsKnown, BuildsKnown, IdleBuilder, IdleSubmitter
  <2>14. QED
    BY <2>1, <2>5, <2>6, <2>9, <2>10, <2>11, <2>12, <2>13 DEF Next
<1>3. QED
  BY <1>1, <1>2, PTL DEF Spec

\* The type invariant the run checks.
THEOREM TypeCorrect == Spec => []TypeOK
<1>1. TypeInv => TypeOK
  BY DEF TypeInv
<1>2. QED
  BY <1>1, TypesHold, PTL

-----------------------------------------------------------------------------
(* Funds behind every row and link *)

\* A build that has yet to save owns a transaction nobody has been offered, and
\* no two builds own the same.
BuiltInv ==
  \A b \in Builders : builder[b].pc = "save" =>
    /\ txs[builder[b].tx].state = "built"
    /\ \A c \in Builders \ {b} : builder[c].pc = "save" => builder[c].tx # builder[b].tx

\* How a step changes the list of transactions, if it does.
LEMMA TxsStep ==
  ASSUME TypeInv, BuiltInv, [Next]_vars
  PROVE  /\ DOMAIN txs \subseteq DOMAIN txs'
         /\ \A i \in DOMAIN txs : txs[i].state = "landed" => txs'[i] = txs[i]
         /\ \A i \in DOMAIN txs' : txs'[i].state = "landed" =>
              \/ i \in DOMAIN txs /\ txs[i].state = "landed"
              \/ txs'[i].gift # 0
<1> DEFINE Safe == /\ DOMAIN txs \subseteq DOMAIN txs'
                   /\ \A i \in DOMAIN txs : txs[i].state = "landed" => txs'[i] = txs[i]
                   /\ \A i \in DOMAIN txs' : txs'[i].state = "landed" =>
                        \/ i \in DOMAIN txs /\ txs[i].state = "landed"
                        \/ txs'[i].gift # 0
<1>0. TypeOK /\ txs \in Seq(Transactions) /\ chainGifts \in Nat /\ accountSeq \in Nat
  BY DEF TypeInv, TypeOK
<1>1. ASSUME UNCHANGED txs PROVE Safe
  BY <1>1
<1>2. ASSUME NEW i \in DOMAIN txs, NEW st \in TxStates, txs' = [txs EXCEPT ![i].state = st],
             txs[i].state # "landed", st # "landed"
      PROVE  Safe
  BY <1>0, <1>2, TxMoved
<1>3. ASSUME NEW b \in Builders, BuildRpc(b) PROVE Safe
  <2> DEFINE t == [seq |-> accountSeq, state |-> "built", gift |-> 0]
  <2>1. txs' = Append(txs, t) /\ t \in Transactions /\ t.state = "built"
    BY <1>3, <1>0 DEF BuildRpc, Transactions, TxStates
  <2> HIDE DEF t
  <2>2. /\ DOMAIN txs = 1..Len(txs) /\ DOMAIN txs' = 1..(Len(txs) + 1) /\ Len(txs) \in Nat
        /\ txs'[Len(txs) + 1] = t /\ \A i \in DOMAIN txs : txs'[i] = txs[i]
    BY <2>1, <1>0
  <2>3. QED
    BY <2>1, <2>2
<1>4. ASSUME NEW b \in Builders, BuildSave(b) PROVE Safe
  <2>1. /\ builder[b].tx \in DOMAIN txs /\ txs[builder[b].tx].state = "built"
        /\ txs' = [txs EXCEPT ![builder[b].tx].state = "offered"] /\ "offered" \in TxStates
    BY <1>4 DEF BuildSave, TypeInv, BuildsKnown, BuiltInv, TxStates
  <2>2. QED
    BY <2>1, <1>2
<1>5. ASSUME NEW i \in DOMAIN txs, Enqueued(i) PROVE Safe
  <2>1. txs[i].state # "landed" /\ txs' = [txs EXCEPT ![i].state = "pending"] /\ "pending" \in TxStates
    BY <1>5 DEF Enqueued, TxStates
  <2>2. QED
    BY <2>1, <1>2
<1>6. ASSUME NEW i \in DOMAIN txs, Apply(i) PROVE Safe
  <2>1. txs[i].state # "landed"
    BY <1>6 DEF Apply
  <2>2. CASE Lands(i, chainGifts + 1)
    <3>1. chainGifts + 1 \in Nat /\ chainGifts + 1 # 0
      BY <1>0
    <3>2. QED
      BY <1>0, <2>1, <2>2, <3>1, TxLanded
  <2>3. CASE txs' = [txs EXCEPT ![i].state = "failed"]
    <3>1. "failed" \in TxStates
      BY DEF TxStates
    <3>2. QED
      BY <2>1, <2>3, <3>1, <1>2
  <2>4. QED
    BY <1>6, <2>2, <2>3 DEF Apply, Lands
<1>7. ASSUME NEW i \in DOMAIN txs, Expire(i) PROVE Safe
  <2>1. txs[i].state # "landed" /\ txs' = [txs EXCEPT ![i].state = "expired"] /\ "expired" \in TxStates
    BY <1>7 DEF Expire, TxStates
  <2>2. QED
    BY <2>1, <1>2
<1>8. ASSUME NEW s \in Submitters, Send(s) \/ RpcFails(s) PROVE Safe
  BY <1>8, <1>1, <1>5 DEF Send, RpcFails, TypeInv, SubmitsKnown
<1>9. QED
  BY <1>1, <1>3, <1>4, <1>6, <1>7, <1>8 DEF Next, vars, network, Build, BuildLoad, BuildFails, Serve,
     SendRejected, PollSucceeds, PollGivesUp, SubmitSave, SubmitSaveConflicts, SubmitLoad,
     DeadlinePasses, Crash

\* BuiltInv is kept: the other handlers never see a transaction before it is
\* offered, and each build appends its own.
LEMMA BuiltKept ==
  ASSUME TypeInv, BuiltInv, [Next]_vars
  PROVE  BuiltInv'
<1>0. /\ TypeOK /\ txs \in Seq(Transactions) /\ DOMAIN txs = 1..Len(txs) /\ Len(txs) \in Nat
      /\ builder \in [Builders -> BuilderStates]
  BY DEF TypeInv, TypeOK
<1>1. ASSUME UNCHANGED <<txs, builder>> PROVE BuiltInv'
  BY <1>1 DEF BuiltInv
<1>2. ASSUME UNCHANGED builder, NEW i \in DOMAIN txs, txs[i].state # "built",
             \A j \in DOMAIN txs \ {i} : txs'[j] = txs[j]
      PROVE  BuiltInv'
  BY <1>2 DEF BuiltInv, TypeInv, BuildsKnown
<1>3. ASSUME NEW b \in Builders, BuildLoad(b) \/ BuildFails(b) PROVE BuiltInv'
  <2>1. txs' = txs /\ builder'[b].pc # "save" /\ \A c \in Builders \ {b} : builder'[c] = builder[c]
    BY <1>3, <1>0 DEF BuildLoad, BuildFails, IdleBuilder, network
  <2>2. QED
    BY <2>1 DEF BuiltInv
<1>4. ASSUME NEW b \in Builders, BuildRpc(b) PROVE BuiltInv'
  <2> DEFINE t == [seq |-> accountSeq, state |-> "built", gift |-> 0]
  <2>1. txs' = Append(txs, t) /\ t.state = "built"
    BY <1>4 DEF BuildRpc
  <2> HIDE DEF t
  <2>2. txs'[Len(txs) + 1].state = "built" /\ \A i \in DOMAIN txs : txs'[i] = txs[i]
    BY <2>1, <1>0
  <2>3. \A c \in Builders \ {b} : builder'[c] = builder[c]
    BY <1>4, <1>0 DEF BuildRpc
  <2>4. builder'[b].tx = Len(txs) + 1
    <3>1. builder' = [builder EXCEPT ![b] = [[builder[b] EXCEPT !.pc = "save"] EXCEPT !.tx = Len(txs) + 1]]
      BY <1>4, <1>0 DEF BuildRpc
    <3>2. [builder[b] EXCEPT !.pc = "save"] \in BuilderStates
      BY <1>0 DEF BuilderStates
    <3>3. [[builder[b] EXCEPT !.pc = "save"] EXCEPT !.tx = Len(txs) + 1].tx = Len(txs) + 1
      BY <3>2 DEF BuilderStates
    <3>4. QED
      BY <3>1, <3>3, <1>0
  <2>5. \A c \in Builders \ {b} : builder[c].pc = "save" => builder[c].tx \in DOMAIN txs /\ builder[c].tx # Len(txs) + 1
    BY <1>0 DEF TypeInv, BuildsKnown
  <2>6. QED
    BY <2>2, <2>3, <2>4, <2>5 DEF BuiltInv
<1>5. ASSUME NEW b \in Builders, BuildSave(b) PROVE BuiltInv'
  <2>1. /\ builder[b].pc = "save" /\ builder[b].tx \in DOMAIN txs
        /\ txs' = [txs EXCEPT ![builder[b].tx].state = "offered"] /\ "offered" \in TxStates
    BY <1>5 DEF BuildSave, TypeInv, BuildsKnown, TxStates
  <2>2. \A j \in DOMAIN txs \ {builder[b].tx} : txs'[j] = txs[j]
    BY <2>1, <1>0, TxMoved
  <2>3. builder'[b].pc # "save" /\ \A c \in Builders \ {b} : builder'[c] = builder[c]
    BY <1>5, <1>0 DEF BuildSave, IdleBuilder
  <2>4. QED
    BY <2>1, <2>2, <2>3 DEF BuiltInv, TypeInv, BuildsKnown
<1>6. ASSUME NEW i \in DOMAIN txs, Enqueued(i) PROVE \A j \in DOMAIN txs \ {i} : txs'[j] = txs[j]
  <2>1. txs' = [txs EXCEPT ![i].state = "pending"] /\ "pending" \in TxStates
    BY <1>6 DEF Enqueued, TxStates
  <2>2. QED
    BY <2>1, <1>0, TxMoved
<1>7. ASSUME NEW s \in Submitters, Send(s) \/ RpcFails(s) PROVE BuiltInv'
  <2>1. submitter[s].tx \in DOMAIN txs /\ builder' = builder
    BY <1>7 DEF Send, RpcFails, TypeInv, SubmitsKnown
  <2>2. CASE Enqueued(submitter[s].tx)
    <3>1. txs[submitter[s].tx].state # "built"
      BY <2>2 DEF Enqueued
    <3>2. QED
      BY <2>1, <2>2, <3>1, <1>2, <1>6
  <2>3. CASE txs' = txs
    BY <2>1, <2>3, <1>1
  <2>4. QED
    BY <1>7, <2>2, <2>3 DEF Send, RpcFails
<1>8. ASSUME NEW i \in DOMAIN txs, Apply(i) \/ Expire(i) PROVE BuiltInv'
  <2>1. txs[i].state # "built" /\ builder' = builder
    BY <1>8 DEF Apply, Expire
  <2>2. \A j \in DOMAIN txs \ {i} : txs'[j] = txs[j]
    BY <1>8, <1>0 DEF Apply, Expire
  <2>3. QED
    BY <2>1, <2>2, <1>2
<1>9. ASSUME Crash PROVE BuiltInv'
  BY <1>9, <1>0 DEF Crash, IdleBuilder, BuiltInv
<1>10. QED
  BY <1>1, <1>3, <1>4, <1>5, <1>7, <1>8, <1>9 DEF Next, vars, network, Build, Serve, SendRejected,
     PollSucceeds, PollGivesUp, SubmitSave, SubmitSaveConflicts, SubmitLoad, DeadlinePasses

LandedGift(g) == \E i \in DOMAIN txs : txs[i].state = "landed" /\ txs[i].gift = g

\* What a submit is about to save has landed, and what has landed has a gift.
FundedInv ==
  /\ BuiltInv
  /\ \A i \in DOMAIN txs : txs[i].state = "landed" => txs[i].gift # 0
  /\ \A s \in Submitters : submitter[s].pc = "save" => TxOf(s).state = "landed"
  /\ LinkIsFunded

\* For any number of builds and submits at once, crashes and lost answers: an
\* active row and every link ever handed out point at a gift that landed.
THEOREM LinksAreFunded == Spec => []LinkIsFunded
<1>1. Init => FundedInv
  BY DEF Init, FundedInv, BuiltInv, LinkIsFunded, IdleBuilder, IdleSubmitter
<1>2. TypeInv /\ FundedInv /\ [Next]_vars => FundedInv'
  <2> SUFFICES ASSUME TypeInv, FundedInv, [Next]_vars PROVE FundedInv'
    OBVIOUS
  <2>0. /\ BuiltInv /\ BuiltInv'
        /\ DOMAIN txs \subseteq DOMAIN txs'
        /\ \A i \in DOMAIN txs : txs[i].state = "landed" => txs'[i] = txs[i]
        /\ \A i \in DOMAIN txs' : txs'[i].state = "landed" => txs'[i].gift # 0
    BY TxsStep, BuiltKept DEF FundedInv
  <2>1. submitter \in [Submitters -> SubmitterStates]
    BY DEF TypeInv, TypeOK
  <2>2. \A g : LandedGift(g) => LandedGift(g)'
    BY <2>0 DEF LandedGift
  <2>3. \A s \in Submitters : submitter'[s].pc = "save" =>
          \/ submitter[s].pc = "save" /\ submitter'[s].tx = submitter[s].tx
          \/ TxOf(s).state = "landed" /\ submitter'[s].tx = submitter[s].tx /\ submitter[s].pc # "idle"
    <3>1. ASSUME NEW s \in Submitters, Serve(s) \/ RpcFails(s) \/ (\E i \in DOMAIN txs : SubmitLoad(s, i))
          PROVE  /\ \A r \in Submitters \ {s} : submitter'[r] = submitter[r]
                 /\ submitter'[s].pc = "save" =>
                      TxOf(s).state = "landed" /\ submitter'[s].tx = submitter[s].tx /\ submitter[s].pc # "idle"
      BY <3>1, <2>1 DEF Serve, RpcFails, SubmitLoad, Send, SendRejected, PollSucceeds, PollGivesUp,
         SubmitSave, SubmitSaveConflicts, IdleSubmitter, Succeeded, SubmitterStates
    <3>2. Crash => \A s \in Submitters : submitter'[s].pc # "save"
      BY DEF Crash, IdleSubmitter
    <3>3. QED
      BY <3>1, <3>2 DEF Next, vars, Build, BuildLoad, BuildRpc, BuildFails, BuildSave, Apply, Expire,
         DeadlinePasses
  <2>4. \A s \in Submitters : submitter'[s].pc = "save" => TxOf(s)'.state = "landed"
    BY <2>3, <2>0 DEF FundedInv, TxOf, TypeInv, SubmitsKnown
  <2>5. LinkIsFunded <=> /\ rowStatus = "active" => rowGift # 0
                         /\ \A g \in {rowGift} \cup {l[2] : l \in links} : g # 0 => LandedGift(g)
    BY DEF LinkIsFunded, LandedGift
  <2>6. ASSUME NEW s \in Submitters, SubmitSave(s) PROVE LinkIsFunded'
    <3> DEFINE g == TxOf(s).gift
    <3>1. LandedGift(g)
      BY <2>6 DEF SubmitSave, FundedInv, LandedGift, TxOf, TypeInv, SubmitsKnown
    <3>2. g # 0 /\ rowGift' = g
      BY <2>6 DEF SubmitSave, FundedInv, ContractGiftId, TxOf, TypeInv, SubmitsKnown
    <3>3. links' \subseteq links \cup {<<rowVersion + 1, g>>}
      BY <2>6 DEF SubmitSave, ContractGiftId
    <3>4. \A l \in links' : l[2] # 0 => LandedGift(l[2])
      BY <3>1, <3>3, <2>5 DEF FundedInv
    <3>5. QED
      BY <3>1, <3>2, <3>4, <2>2 DEF LinkIsFunded, LandedGift
  <2>7. ASSUME UNCHANGED <<rowGift, links>>, rowStatus' = "active" => rowStatus = "active"
        PROVE  LinkIsFunded'
    BY <2>7, <2>2, <2>5 DEF FundedInv, LinkIsFunded, LandedGift
  <2>8. LinkIsFunded'
    BY <2>6, <2>7 DEF Next, vars, row, network, Build, BuildLoad, BuildRpc, BuildFails, BuildSave,
       StatusAfterBuild, Serve, Send, SendRejected, PollSucceeds, PollGivesUp, SubmitSaveConflicts,
       RpcFails, SubmitLoad, Apply, Expire, DeadlinePasses, Crash
  <2>9. QED
    BY <2>0, <2>4, <2>8 DEF FundedInv
<1>3. FundedInv => LinkIsFunded
  BY DEF FundedInv
<1>4. QED
  BY <1>1, <1>2, <1>3, TypesHold, PTL DEF Spec

-----------------------------------------------------------------------------
(* What an active row and its link stand on *)

\* The one event that takes a row back: a build that loaded it before its first
\* build was saved saves over the row a submit has made active meanwhile.
LateSave ==
  \E b \in Builders : BuildSave(b) /\ builder[b].seen # "pending_chain" /\ rowStatus = "active"

\* What a step may do to the status, as StatusMachine has it.
Forwards ==
  \/ rowStatus = "draft" /\ rowStatus' = "pending_chain"
  \/ rowStatus = "pending_chain" /\ rowStatus' = "active"

\* A submit that still holds the row's version holds a row that waits for it:
\* every save of a submit raises the version, and builds leave it alone.
VersionInv ==
  \A s \in Submitters : submitter[s].pc # "idle" =>
    /\ submitter[s].ver <= rowVersion
    /\ submitter[s].ver = rowVersion => rowStatus = "pending_chain"

\* Tokens are minted upwards, and the row's hash is that of the last.
TokenInv ==
  /\ rowToken = rowVersion
  /\ \A l \in links : l[1] <= rowToken /\ (l[1] = rowToken => l[2] = rowGift)

StandsInv == VersionInv /\ TokenInv

\* The row as a step may leave it: as it was, with the status a build gives it,
\* or saved by the submit that holds its version while it waits.
SavedBySubmit ==
  /\ rowStatus = "pending_chain" /\ rowStatus' = "active"
  /\ rowVersion' = rowVersion + 1 /\ rowToken' = rowVersion + 1
  /\ links' \in {links, links \cup {<<rowVersion + 1, rowGift'>>}}
BuildLeaves ==
  /\ UNCHANGED <<rowGift, rowVersion, rowToken, links>>
  /\ \/ UNCHANGED rowStatus
     \/ rowStatus = "draft" /\ rowStatus' = "pending_chain"
     \/ rowStatus = "active" /\ rowStatus' = "pending_chain" /\ LateSave

LEMMA RowStep ==
  ASSUME TypeInv, StandsInv, [Next]_vars
  PROVE  BuildLeaves \/ SavedBySubmit
<1>0. rowStatus \in Statuses
  BY DEF TypeInv, TypeOK
<1>1. ASSUME UNCHANGED <<row, links>> PROVE BuildLeaves
  BY <1>1 DEF BuildLeaves, row
<1>2. ASSUME NEW b \in Builders, BuildSave(b) PROVE BuildLeaves
  <2>1. UNCHANGED <<rowGift, rowVersion, rowToken, links>>
    BY <1>2 DEF BuildSave
  <2>2. CASE builder[b].seen = "pending_chain"
    BY <1>2, <2>1, <2>2 DEF BuildSave, StatusAfterBuild, BuildLeaves
  <2>3. CASE builder[b].seen # "pending_chain"
    <3>1. rowStatus' = "pending_chain"
      BY <1>2, <2>3 DEF BuildSave, StatusAfterBuild
    <3>2. rowStatus = "active" => LateSave
      BY <1>2, <2>3 DEF LateSave
    <3>3. QED
      BY <1>0, <2>1, <3>1, <3>2 DEF BuildLeaves, Statuses
  <2>4. QED
    BY <2>2, <2>3
<1>3. ASSUME NEW s \in Submitters, SubmitSave(s) PROVE SavedBySubmit
  <2>1. rowStatus = "pending_chain"
    BY <1>3 DEF SubmitSave, VersionMatches, StandsInv, VersionInv
  <2>2. QED
    BY <1>3, <2>1 DEF SubmitSave, SavedBySubmit
<1>4. QED
  BY <1>1, <1>2, <1>3 DEF Next, vars, network, Build, BuildLoad, BuildRpc, BuildFails, Serve, Send,
     SendRejected, PollSucceeds, PollGivesUp, SubmitSaveConflicts, RpcFails, SubmitLoad, Apply, Expire,
     DeadlinePasses, Crash

\* A submit that is under way after a step was under way before it, with the
\* version it had, or has loaded a row that waits.
LEMMA SubmitterStep ==
  ASSUME TypeInv, [Next]_vars, NEW s \in Submitters, submitter'[s].pc # "idle"
  PROVE  \/ submitter[s].pc # "idle" /\ submitter'[s].ver = submitter[s].ver
            /\ ~SubmitSave(s)
         \/ submitter'[s].ver = rowVersion /\ rowStatus = "pending_chain" /\ UNCHANGED row
<1>0. submitter \in [Submitters -> SubmitterStates]
  BY DEF TypeInv, TypeOK
<1> DEFINE Kept == submitter[s].pc # "idle" /\ submitter'[s].ver = submitter[s].ver
           Loaded == submitter'[s].ver = rowVersion /\ rowStatus = "pending_chain" /\ UNCHANGED row
<1>1. ~SubmitSave(s)
  BY <1>0 DEF SubmitSave, IdleSubmitter
<1>2. ASSUME UNCHANGED submitter PROVE Kept
  BY <1>2
<1>3. ASSUME NEW r \in Submitters, NEW i \in DOMAIN txs, SubmitLoad(r, i) PROVE Kept \/ Loaded
  BY <1>3, <1>0 DEF SubmitLoad, MaySubmit
<1>4. ASSUME NEW r \in Submitters, Serve(r) \/ RpcFails(r) PROVE Kept
  <2>1. /\ submitter[r].pc # "idle"
        /\ \/ submitter' = [submitter EXCEPT ![r] = IdleSubmitter]
           \/ \E p \in {"poll", "save"} : submitter' = [submitter EXCEPT ![r].pc = p]
    BY <1>4 DEF Serve, Send, SendRejected, PollSucceeds, PollGivesUp, SubmitSave, SubmitSaveConflicts,
       RpcFails
  <2>2. QED
    BY <2>1, <1>0 DEF IdleSubmitter, SubmitterStates
<1>5. ~Crash
  BY <1>0 DEF Crash, IdleSubmitter
<1>6. Kept \/ Loaded
  BY <1>2, <1>3, <1>4, <1>5 DEF Next, vars, Build, BuildLoad, BuildRpc, BuildFails, BuildSave, Apply,
     Expire, DeadlinePasses
<1>7. QED
  BY <1>1, <1>6

\* For any number of builds and submits served at once, with every fault.
LEMMA StandsHolds == Spec => []StandsInv
<1>1. Init => StandsInv
  BY DEF Init, StandsInv, VersionInv, TokenInv, IdleSubmitter
<1>2. TypeInv /\ StandsInv /\ [Next]_vars => StandsInv'
  <2> SUFFICES ASSUME TypeInv, StandsInv, [Next]_vars PROVE StandsInv'
    OBVIOUS
  <2>0. /\ submitter \in [Submitters -> SubmitterStates] /\ rowVersion \in Nat /\ rowToken \in Nat
        /\ links \in SUBSET (Nat \X Nat)
    BY DEF TypeInv, TypeOK
  <2>1. VersionInv'
    <3> SUFFICES ASSUME NEW s \in Submitters, submitter'[s].pc # "idle"
                 PROVE  /\ submitter'[s].ver <= rowVersion'
                        /\ submitter'[s].ver = rowVersion' => rowStatus' = "pending_chain"
      BY DEF VersionInv
    <3>1. submitter[s].ver \in Nat
      BY <2>0 DEF SubmitterStates
    <3>2. CASE submitter'[s].ver = rowVersion /\ rowStatus = "pending_chain" /\ UNCHANGED row
      BY <2>0, <3>2 DEF row
    <3>3. CASE submitter[s].pc # "idle" /\ submitter'[s].ver = submitter[s].ver
      <4>1. submitter[s].ver <= rowVersion /\ (submitter[s].ver = rowVersion => rowStatus = "pending_chain")
        BY <3>3 DEF StandsInv, VersionInv
      <4>2. CASE BuildLeaves
        BY <3>3, <4>1, <4>2 DEF BuildLeaves
      <4>3. CASE SavedBySubmit
        BY <2>0, <3>1, <3>3, <4>1, <4>3 DEF SavedBySubmit
      <4>4. QED
        BY <4>2, <4>3, RowStep
    <3>4. QED
      BY <3>2, <3>3, SubmitterStep
  <2>2. TokenInv'
    <3>1. CASE BuildLeaves
      BY <3>1 DEF BuildLeaves, StandsInv, TokenInv
    <3>2. CASE SavedBySubmit
      <4>1. \A l \in links : l[1] \in Nat /\ l[1] < rowVersion + 1
        BY <2>0 DEF StandsInv, TokenInv
      <4>2. \A l \in links' : l \in links \/ l = <<rowVersion + 1, rowGift'>>
        BY <3>2 DEF SavedBySubmit
      <4>3. rowToken' = rowVersion' /\ rowToken' = rowVersion + 1
        BY <3>2 DEF SavedBySubmit
      <4>4. QED
        BY <2>0, <4>1, <4>2, <4>3 DEF TokenInv
    <3>3. QED
      BY <3>1, <3>2, RowStep
  <2>3. QED
    BY <2>1, <2>2 DEF StandsInv
<1>3. QED
  BY <1>1, <1>2, TypesHold, PTL DEF Spec

\* Nobody writes a gift, a link hash or a link over an active row, however many
\* submits and builds overlap.
THEOREM ActiveRowIsFinal == Spec => ActiveRowStands
<1>1. TypeInv /\ StandsInv /\ [Next]_vars
        => [rowStatus = "active" => UNCHANGED <<rowGift, rowToken, links>>]_vars
  BY RowStep DEF BuildLeaves, SavedBySubmit
<1>2. QED
  BY <1>1, TypesHold, StandsHolds, PTL DEF Spec, ActiveRowStands

\* The status goes forwards, or back by a late save and nothing else.
THEOREM OnlyLateSaveReopens == Spec => [][Forwards \/ LateSave]_rowStatus
<1>1. TypeInv /\ StandsInv /\ [Next]_vars => [Forwards \/ LateSave]_rowStatus
  BY RowStep DEF BuildLeaves, SavedBySubmit, Forwards
<1>2. QED
  BY <1>1, TypesHold, StandsHolds, PTL DEF Spec

\* The link minted last is the one that resolves, and it resolves to the row's
\* gift, even on a row that a late save has reopened and a submit saved again.
LastLinkResolves == \A l \in links : l[1] <= rowToken /\ (l[1] = rowToken => l[2] = rowGift)

THEOREM LastLinkAlwaysResolves == Spec => []LastLinkResolves
<1>1. StandsInv => LastLinkResolves
  BY DEF StandsInv, TokenInv, LastLinkResolves
<1>2. QED
  BY <1>1, StandsHolds, PTL

\* Until a late save has happened: one link at most, and it is the row's.
OnceInv ==
  /\ rowStatus # "active" => links = {}
  /\ rowStatus = "active" => links \subseteq {<<rowToken, rowGift>>}

LEMMA OnceKept ==
  ASSUME TypeInv, StandsInv, OnceInv, [Next]_vars, [~LateSave]_vars
  PROVE  OnceInv'
<1>1. CASE BuildLeaves
  BY <1>1 DEF BuildLeaves, OnceInv, LateSave, BuildSave, vars, row
<1>2. CASE SavedBySubmit
  BY <1>2 DEF SavedBySubmit, OnceInv
<1>3. QED
  BY <1>1, <1>2, RowStep

\* As long as no late save happens, with any number of builds and submits at
\* once, no gift ever gets a second link ...
THEOREM OneLinkUnlessLateSave == Spec /\ [][~LateSave]_vars => []OneLinkPerGift
<1>1. Init => OnceInv
  BY DEF Init, OnceInv
<1>2. TypeInv /\ StandsInv /\ OnceInv /\ [Next]_vars /\ [~LateSave]_vars => OnceInv'
  BY OnceKept
<1>3. OnceInv => OneLinkPerGift
  BY DEF OnceInv, OneLinkPerGift
<1>4. QED
  BY <1>1, <1>2, <1>3, TypesHold, StandsHolds, PTL DEF Spec

\* ... and the link a client received resolves to its gift for ever.
THEOREM LinkResolvesUnlessLateSave == Spec /\ [][~LateSave]_vars => []LinkKeepsResolving
<1>1. Init => OnceInv
  BY DEF Init, OnceInv
<1>2. TypeInv /\ StandsInv /\ OnceInv /\ [Next]_vars /\ [~LateSave]_vars => OnceInv'
  BY OnceKept
<1>3. OnceInv => LinkKeepsResolving
  BY DEF OnceInv, LinkKeepsResolving
<1>4. QED
  BY <1>1, <1>2, <1>3, TypesHold, StandsHolds, PTL DEF Spec
=============================================================================
