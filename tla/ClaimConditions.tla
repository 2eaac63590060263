---------------------------- MODULE ClaimConditions ----------------------------
(***************************************************************************)
(* A claim condition on its way from the composer to the two places that    *)
(* enforce it: the backend's row, which checks a claim before anything is   *)
(* signed, and the contract, to which it travels as a tagged value.  An     *)
(* answer is hashed in one spelling wherever it comes from.                 *)
(***************************************************************************)
EXTENDS Naturals, Sequences

CONSTANTS TotalSteps, \* of a step gate
          Texts       \* what is typed: a word, spelt as it is hashed or otherwise

ASSUME StepsAssumption == TotalSteps \in Nat \ {0}
ASSUME TextsAssumption == Texts \subseteq [word : {"right", "wrong"}, plain : BOOLEAN]

NoAnswer == [word |-> "none", plain |-> TRUE]
NoUnlocker == "nobody"

-----------------------------------------------------------------------------
(* Answers: the ends trimmed and in lower case; the hash is injective on those. *)
(* Extra spaces inside an answer make it another answer, for page and contract. *)

\* Faulty variant: the answer goes to the contract as it was typed.
AsTyped(rawAnswer) == rawAnswer

normalizeAnswer(rawAnswer) == [rawAnswer EXCEPT !.plain = TRUE]
hashAnswer(rawAnswer) == [rawAnswer EXCEPT !.plain = TRUE]

-----------------------------------------------------------------------------
(* From the page to the row, and from the row to the contract *)

\* The form keeps the fields of every kind, whichever is chosen in the end.
Composed ==
  [conditionType : {"none", "trivia", "stepGate"}, answer : {t \in Texts : t.word = "right"},
   steps : {TotalSteps}, stepUnlocker : {NoUnlocker, "sender", "friend"}]

buildCondition(form) ==
  CASE form.conditionType = "trivia"   -> [type |-> "trivia", answer |-> form.answer]
    [] form.conditionType = "stepGate" -> [type |-> "stepGate", steps |-> form.steps,
                                           stepUnlocker |-> form.stepUnlocker]
    [] OTHER                           -> [type |-> "none"]

\* A gate of nothing would be open from the start.
conditionInput(c) == c.type = "stepGate" => c.steps \in 1..20

toStoredCondition(c) ==
  CASE c.type = "trivia" -> [type |-> "trivia", answerHash |-> hashAnswer(c.answer)]
    [] OTHER             -> c

toConditionInput(stored) ==
  CASE stored.type = "trivia"   -> [type |-> "trivia", answerHash |-> stored.answerHash]
    [] stored.type = "stepGate" -> [type |-> "stepGate", totalSteps |-> stored.steps]
    [] OTHER                    -> [type |-> "none"]

\* The sender unlocks where nobody else was named.
Unlocker(stored) ==
  IF stored.type = "stepGate" /\ stored.stepUnlocker # NoUnlocker THEN stored.stepUnlocker
  ELSE "sender"

encodeCondition(c) ==
  CASE c.type = "trivia"   -> <<"AnswerHash", c.answerHash>>
    [] c.type = "stepGate" -> <<"StepGate", c.totalSteps>>
    [] OTHER               -> <<"None">>

decodeCondition(value) ==
  CASE Head(value) = "AnswerHash" -> [type |-> "trivia", answerHash |-> value[2]]
    [] Head(value) = "StepGate"   -> [type |-> "stepGate", totalSteps |-> value[2]]
    [] OTHER                      -> [type |-> "none"]

\* What a created gift is bound to: the row's condition, the contract's, and who
\* may unlock.
Terms ==
  {LET stored == toStoredCondition(buildCondition(form))
   IN  [stored |-> stored, unlocker |-> Unlocker(stored),
        enforced |-> decodeCondition(encodeCondition(toConditionInput(stored)))]
   : form \in {f \in Composed : conditionInput(buildCondition(f))}}
=============================================================================
