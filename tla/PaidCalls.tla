----------------------------- MODULE PaidCalls -----------------------------
(***************************************************************************)
(* What a provider call costs, and what the reference matrix knows of it.  *)
(* The LLM agent (agents/llm.py, served by agents/server.py) answers a     *)
(* request with an action, with evidence of an invalid completion (HTTP    *)
(* 400, which the engine retries once), or not at all.  The estimates      *)
(* (agents/cost.py) and the accounts (tools/llm_reference_matrix.py) are   *)
(* functions of what was asked and what was stored; `billed` is what the   *)
(* provider charges, which no code of the repository ever sees.            *)
(*                                                                         *)
(* A text is its number of bytes.  Money comes in quanta: a price is in    *)
(* parts of a quantum per token, Quantum of them.                          *)
(***************************************************************************)
EXTENDS Integers, Sequences, SequencesExt, FiniteSetsExt

CONSTANTS
  InPrice, CachedPrice, OutPrice, Quantum,
  PromptBytes, ControlBytes,   \* system prompt and request controls
  RetryBytes,                  \* MAX_RETRY_CORRECTION_BYTES
  BytesPerToken, Framing,      \* what an estimate assumes
  AuthorizationFraming,        \* AUTHORIZATION_FRAMING_TOKENS, one byte per token
  MaxOutput,                   \* max_tokens of a request
  Retries                      \* parse_failure_retries

ASSUME PaidCallsAssumption ==
  /\ {InPrice, CachedPrice, OutPrice, PromptBytes, ControlBytes, RetryBytes,
      Framing, AuthorizationFraming} \subseteq Nat
  /\ {Quantum, BytesPerToken, MaxOutput} \subseteq Nat \ {0}
  /\ CachedPrice <= InPrice
  /\ Retries \in {0, 1}

ceil_div(a, b) == (a + b - 1) \div b

numerator(u) == (u.input - u.cached) * InPrice + u.cached * CachedPrice + u.output * OutPrice
usage_cost(u) == ceil_div(numerator(u), Quantum)

-----------------------------------------------------------------------------
(* What a run is expected to cost, and what it may cost at most.           *)

estimate_text_tokens(bytes, per_token) == Max({1, ceil_div(bytes, per_token)})

request_tokens(observation, per_token, framing) ==
  estimate_text_tokens(PromptBytes, per_token) + estimate_text_tokens(observation, per_token)
    + estimate_text_tokens(ControlBytes, per_token) + framing
retry_tokens(attempts) == IF attempts = 1 THEN 0 ELSE estimate_text_tokens(RetryBytes, 1)

estimate_run_cost(observation, turns, attempts, per_token, framing) ==
  usage_cost([input  |-> turns * (attempts * request_tokens(observation, per_token, framing)
                                    + retry_tokens(attempts)),
              cached |-> 0,
              output |-> turns * attempts * MaxOutput])

estimated_cost(observation, turns) == estimate_run_cost(observation, turns, 1, BytesPerToken, Framing)
smoke_authorization_cost(observation) == estimate_run_cost(observation, 1, 1, 1, AuthorizationFraming)
authorization_cost(observation, turns) ==
  estimate_run_cost(observation, turns, 1 + Retries, 1, AuthorizationFraming)

-----------------------------------------------------------------------------
(* One request: the size of its observation and its number in the turn.    *)
(* The provider counts no more tokens than bytes and framing, and writes   *)
(* no more than it was allowed.                                            *)

full_usage(observation, attempt) ==
  [input  |-> PromptBytes + observation + ControlBytes + AuthorizationFraming
                + (IF attempt = 2 THEN RetryBytes ELSE 0),
   cached |-> 0, output |-> MaxOutput]
least_usage(observation) ==
  LET tokens == request_tokens(observation, BytesPerToken, 0)
  IN [input |-> tokens, cached |-> tokens, output |-> 1]

(* A reply carries the usage the provider reported, if it reported all of  *)
(* it; a request that brings no reply may have been billed all the same.   *)
(* The kinds considered: an action that used all it may or the least, or   *)
(* without usage; an invalid completion; a request lost, or late.          *)
no_usage == [input |-> 0, cached |-> 0, output |-> 0]
Reply(kind, usage, told) ==
  [kind |-> kind, usage |-> IF told THEN usage ELSE no_usage, told |-> told, billed |-> numerator(usage)]
Miss(billed) == [kind |-> "missed", usage |-> no_usage, told |-> FALSE, billed |-> billed]
AnswerKinds == {"full", "least", "untold", "invalid", "lost", "late"}
Answers(kinds, observation, attempt) ==
  LET full == full_usage(observation, attempt)
      answer == [full    |-> Reply("action", full, TRUE),
                 least   |-> Reply("action", least_usage(observation), TRUE),
                 untold  |-> Reply("action", full, FALSE),
                 invalid |-> Reply("invalid", least_usage(observation), TRUE),
                 lost    |-> Miss(0),
                 late    |-> Miss(numerator(full))]
  IN {answer[kind] : kind \in kinds}

-----------------------------------------------------------------------------
SumOver(Op(_), list) == SumFunctionOnSet([k \in DOMAIN list |-> Op(list[k])], DOMAIN list)

(* A turn: the replies stored for it, how many requests it took (only the  *)
(* last can have been missed), and the verdict of the engine.              *)
TurnOf(observation, answers) ==
  [observation |-> observation,
   stored      |-> IF Last(answers).kind = "missed" THEN Front(answers) ELSE answers,
   attempts    |-> Len(answers),
   status      |-> CASE Last(answers).kind = "action"  -> "parsed"
                     [] Last(answers).kind = "missed"  -> "missed"
                     [] Last(answers).kind = "invalid" -> "rejected",
   billed      |-> SumOver(LAMBDA a : a.billed, answers)]

Turns(kinds, observation) ==
  LET asked_again(a) == a.kind = "invalid" /\ Retries = 1
      first  == Answers(kinds, observation, 1)
      second == Answers(kinds, observation, 2)
  IN {TurnOf(observation, <<a>>) : a \in {b \in first : ~asked_again(b)}}
       \cup {TurnOf(observation, <<a, b>>) : a \in {c \in first : asked_again(c)}, b \in second}

-----------------------------------------------------------------------------
(* What the matrix makes of a sealed run.  A rejected action, a reply      *)
(* without usage or without cache detail, and a missed turn whose stored   *)
(* replies do not match its attempts cannot be priced.                     *)

priced(turn) ==
  /\ turn.status = "parsed" => turn.stored # <<>>
  /\ turn.status # "rejected"
  /\ turn.status = "missed" => Len(turn.stored) = turn.attempts - 1
  /\ \A k \in DOMAIN turn.stored : turn.stored[k].told
usage_is_collected(turns) == turns # <<>> /\ \A k \in DOMAIN turns : priced(turns[k])

collected(turns) ==
  LET total(field) == SumOver(LAMBDA t : SumOver(LAMBDA a : a.usage[field], t.stored), turns)
  IN [input |-> total("input"), cached |-> total("cached"), output |-> total("output")]
known_cost(turns) == usage_cost(collected(turns))

unpriced_attempt_of_a_first_request(turn) ==
  usage_cost([input  |-> request_tokens(turn.observation, 1, AuthorizationFraming),
              cached |-> 0, output |-> MaxOutput])
unpriced_attempt(turn) ==
  usage_cost([input  |-> request_tokens(turn.observation, 1, AuthorizationFraming) + retry_tokens(turn.attempts),
              cached |-> 0, output |-> MaxOutput])
unpriced_cost_reserve(turns) ==
  SumOver(LAMBDA t : IF t.status = "missed" THEN unpriced_attempt(t) ELSE 0, turns)
accounting_cost_upper_bound(turns) == known_cost(turns) + unpriced_cost_reserve(turns)

(* The actual cost, all of the interval it may lie in, is within a factor  *)
(* of two of the estimate.                                                 *)
within_two_x(estimate, actual) ==
  IF estimate = 0 \/ actual = 0 THEN estimate = actual
  ELSE estimate <= actual * 2 /\ actual <= estimate * 2
within_two_x_interval(estimate, known, upper) ==
  IF known = upper THEN within_two_x(estimate, known)
  ELSE estimate # 0 /\ known # 0 /\ estimate <= known * 2 /\ upper <= estimate * 2
=============================================================================
