------------------------------ MODULE ApiErrors ------------------------------
(***************************************************************************)
(* How a refusal travels: a contract panic or a Horizon result becomes a    *)
(* typed chain error, a thrown error becomes an HTTP answer, and the answer *)
(* becomes the sentence of a toast.  A sentence stands under the code it    *)
(* was written for; the service's own refusals add what they refuse.        *)
(***************************************************************************)
EXTENDS Sequences, FiniteSetsExt

-----------------------------------------------------------------------------
(* Contract failures *)

NoCode == 0

CONTRACT_ERROR_MESSAGES ==
  <<"GIFT_NOT_FOUND", "GIFT_NOT_OPEN", "GIFT_EXPIRED", "GIFT_NOT_YET_EXPIRED",
    "NOT_RECEIVER", "WRONG_ANSWER", "STEPS_NOT_COMPLETE",
    "NOT_AUTHORIZED_UNLOCKER", "ALL_STEPS_ALREADY_COMPLETE",
    "INVALID_CONTRIBUTION_AMOUNT", "INVALID_EXPIRY", "NOT_STEP_GATED",
    "NOT_SENDER_OR_CONTRIBUTOR">>

\* What is thrown carries numbers in up to three places; the first found wins.
extractContractErrorCode(err) ==
  LET places == <<err.error>> \o err.events \o <<err.message>>
      found  == {i \in DOMAIN places : places[i] # NoCode}
  IN  IF found = {} THEN NoCode ELSE places[Min(found)]

Thrown(kind, code, said) == [kind |-> kind, code |-> code, said |-> said]

\* Faulty variant: the table is read as if it began at zero.
ParsedFromZero(err) ==
  LET code  == extractContractErrorCode(err)
      known == IF code + 1 \in DOMAIN CONTRACT_ERROR_MESSAGES
               THEN CONTRACT_ERROR_MESSAGES[code + 1] ELSE "UNKNOWN_CONTRACT_ERROR"
  IN  Thrown("chain", known, known)

parseContractError(err) ==
  LET code  == extractContractErrorCode(err)
      known == IF code \in DOMAIN CONTRACT_ERROR_MESSAGES
               THEN CONTRACT_ERROR_MESSAGES[code] ELSE "UNKNOWN_CONTRACT_ERROR"
  IN  Thrown("chain", known, known)

\* A simulation answers with the host's text, a failed transaction with its
\* events, a transaction that was not found in time with neither.
SimulationError(code) == [error |-> code, events |-> <<>>, message |-> NoCode]
FailedTransaction(code) == [error |-> NoCode, events |-> <<code>>, message |-> NoCode]
NothingFound == [error |-> NoCode, events |-> <<>>, message |-> NoCode]

-----------------------------------------------------------------------------
(* HTTP *)

ApiStatus(code) ==
  CASE code = "VALIDATION_ERROR"                        -> 400
    [] code = "NOT_CLAIMANT"                            -> 403
    [] code \in {"GIFT_NOT_FOUND", "SESSION_NOT_FOUND"} -> 404
    [] code = "CLAIM_EXPIRED"                           -> 410
    [] code = "INTERNAL_ERROR"                          -> 500
    [] OTHER                                            -> 409

CHAIN_ERROR_STATUS(code) ==
  CASE code \in {"GIFT_NOT_FOUND", "ACCOUNT_NOT_FOUND"} -> 404
    [] code = "GIFT_EXPIRED"                            -> 410
    [] code = "ANCHOR_ERROR"                            -> 502
    [] code \in {"NOT_RECEIVER", "NOT_AUTHORIZED_UNLOCKER",
                 "NOT_SENDER_OR_CONTRIBUTOR"}           -> 403
    [] code \in {"GIFT_NOT_OPEN", "GIFT_NOT_YET_EXPIRED", "WRONG_ANSWER",
                 "STEPS_NOT_COMPLETE", "ALL_STEPS_ALREADY_COMPLETE",
                 "NOT_STEP_GATED", "BAD_SEQUENCE"}      -> 409
    [] OTHER                                            -> 400

\* Only Giffy's refusals and the network's keep their code and their words.
toResponse(err) ==
  CASE err.kind = "api"     -> [status |-> ApiStatus(err.code), code |-> err.code, said |-> err.said]
    [] err.kind = "chain"   -> [status |-> CHAIN_ERROR_STATUS(err.code), code |-> err.code, said |-> err.said]
    [] err.kind = "invalid" -> [status |-> 400, code |-> "VALIDATION_ERROR", said |-> "VALIDATION_ERROR"]
    [] OTHER                -> [status |-> 500, code |-> "INTERNAL_ERROR", said |-> "INTERNAL_ERROR"]

-----------------------------------------------------------------------------
(* The toast *)

Unreachable == [status |-> 0, code |-> "NETWORK_ERROR", said |-> "NETWORK_ERROR"]

\* The page's own table goes by the code, whoever chose it, before the words.
describeTransactionError(answer) ==
  IF \E n \in DOMAIN CONTRACT_ERROR_MESSAGES : CONTRACT_ERROR_MESSAGES[n] = answer.code
  THEN answer.code
  ELSE answer.said
=============================================================================
