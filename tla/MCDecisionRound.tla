-------------------------- MODULE MCDecisionRound --------------------------
(* Two rounds against an agent that may answer anything or nothing, behind  *)
(* a gateway and a guard that log two lines in all.                         *)
EXTENDS DecisionRound

Response(status, body) == [what |-> "response", status |-> status, body |-> body]
Failure(what) == [what |-> what, status |-> "other", body |-> "malformed"]

(* One outcome for each way an answer is read (the status is looked at after *)
(* the body, so a refused body is tried under two).                          *)
MCOutcomes ==
  {Response("success", "action"), Response("success", "malformed"),
   Response("success", "secret"), Response("client error", "secret"),
   Failure("timed out")}
=============================================================================
