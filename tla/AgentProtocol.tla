--------------------------- MODULE AgentProtocol ---------------------------
(***************************************************************************)
(* What a decision round promises the episode loop, whatever the agent and *)
(* its network do: the agent is asked once, and once more only after a     *)
(* malformed answer; every round comes to exactly one verdict, decided by  *)
(* the last answer alone.  DecisionRound implements it.                    *)
(***************************************************************************)
EXTENDS Integers, Sequences

CONSTANTS
  Retries          \* parse_failure_retries: 0 or more, only "any" counts

VARIABLES
  asked,           \* attempts made in the open round, 0 between rounds
  answer,          \* what the last attempt brought, "none" while it is open
  verdicts         \* the rounds that are over

vars == <<asked, answer, verdicts>>

Answers == {"action", "malformed", "timeout", "agent_error"}

MayRetry == asked = 1 /\ answer = "malformed" /\ Retries > 0

(* A missed attempt leaves no reply; the one before it, if any, did. *)
Verdict(last, attempts) ==
  [reason   |-> last,
   kind     |-> CASE last = "action"    -> "action"
                  [] last = "malformed" -> "invalid"
                  [] last \in {"timeout", "agent_error"} -> "missed",
   attempts |-> attempts,
   replies  |-> IF last \in {"action", "malformed"} THEN attempts ELSE attempts - 1]

Init == asked = 0 /\ answer = "none" /\ verdicts = <<>>

Ask ==
  /\ asked = 0
  /\ asked' = 1
  /\ UNCHANGED <<answer, verdicts>>

Hear ==
  /\ asked > 0 /\ answer = "none"
  /\ answer' \in Answers
  /\ UNCHANGED <<asked, verdicts>>

AskAgain ==
  /\ MayRetry
  /\ asked' = 2
  /\ answer' = "none"
  /\ UNCHANGED verdicts

Conclude ==
  /\ answer # "none" /\ ~MayRetry
  /\ verdicts' = Append(verdicts, Verdict(answer, asked))
  /\ asked' = 0
  /\ answer' = "none"

Next == Ask \/ Hear \/ AskAgain \/ Conclude

Spec == Init /\ [][Next]_vars

=============================================================================
