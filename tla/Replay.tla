------------------------------- MODULE Replay -------------------------------
(***************************************************************************)
(* An episode recorded and replayed.  The engine asks an agent for each    *)
(* decision and logs what it hears (_request_decision, _run_profile in     *)
(* core/engine.py).  replay_bundle (recorder/replay.py) reads the log back *)
(* and runs the same engine again on _RecordedTraceAgent, which answers    *)
(* from the log: raw texts where the bundle still has them, or, in a share *)
(* copy, texts made up from the logged verdicts (_synthetic_redacted_body).*)
(* generate_decision_records (recorder/decisions.py) cuts the log into     *)
(* turns.                                                                  *)
(*                                                                         *)
(* One market.  The account is left out: what a decision asks for stands   *)
(* for the ledger rows it leads to, and Ruinous leverages end the episode. *)
(***************************************************************************)
EXTENDS Integers, SequencesExt

CONSTANTS
  BarsTotal,    \* turns of a full episode
  Policies,     \* parse_failure_retries of the episodes recorded
  Decimals,     \* decimals of a leverage on the wire
  MaxTargetLev, \* MAX_TARGET_LEV_1E4
  MaxSlippage,  \* the largest max_slippage_bps
  NoLimit,      \* no max_slippage_bps
  Answers,      \* what an ask may bring
  Facts,        \* payloads of block facts, in their sorting order
  MaxFacts,     \* bound: facts the harness observes in all
  Ruinous,      \* leverages that get the account liquidated
  NoTurn        \* the turn of an event that belongs to none

Misses == {"timeout", "agent_error"}

(* A leverage on the wire: an integer, or a sign, a whole part and decimals. *)
Integer_(n) == [form |-> "integer", value |-> n]
Decimal(negative, whole, digits) ==
  [form |-> "decimal", negative |-> negative, whole |-> whole, digits |-> digits]

(* A response body: one that fails in stage V1 to V5, or an action.         *)
Faulty(reason)        == [fault |-> reason]
Action(target, slip)  == [fault |-> "none", target |-> target, slip |-> slip]

ASSUME ReplayAssumption ==
  /\ BarsTotal \in Nat \ {0} /\ Policies \subseteq Nat /\ Decimals \in Nat \ {0}
  /\ MaxFacts \in Nat /\ IsInjective(Facts)
  /\ \A a \in Answers :
       IF a.what = "reply" THEN a.status \in {"success", "client error"}
                           ELSE a.what \in Misses

LevScale == 10 ^ Decimals

-----------------------------------------------------------------------------
(* The parser (core/action.py). *)

magnitude(n) == IF n < 0 THEN -n ELSE n

padded(digits) == digits \o [i \in 1..(Decimals - Len(digits)) |-> 0]

number(digits) == FoldLeft(LAMBDA n, d : 10 * n + d, 0, digits)

parse_decimal_target(t) ==
  LET units == t.whole * LevScale + number(padded(t.digits))
  IN  IF t.negative THEN -units ELSE units

leverage(t) ==
  IF t.form = "integer" THEN t.value * LevScale ELSE parse_decimal_target(t)

reject(reason) == [accepted |-> FALSE, reason |-> reason]

(* The first stage that fails names the reason. *)
parse_action(body) ==
  IF body.fault # "none" THEN reject(body.fault)
  ELSE IF body.target.form = "float" THEN reject("float_target")
  ELSE IF magnitude(leverage(body.target)) > MaxTargetLev
       THEN reject("target_out_of_range")
  ELSE IF body.slip # NoLimit /\ body.slip \notin 0..MaxSlippage
       THEN reject("invalid_slippage")
  ELSE [accepted |-> TRUE, lev |-> leverage(body.target), slip |-> body.slip]

-----------------------------------------------------------------------------
(* The policy of a replay: run_config does not say which was recorded. *)
DefaultRetries == 1

VARIABLES
  policy,    \* parse_failure_retries of the episode recorded
  phase,     \* "live", "sealed", "replay", "compared", "refused", "raised"
  stage,     \* "ask", "asked", "close": where the running episode is
  turn, attempt,
  answer,    \* what decide returned or raised
  replies,   \* responses of the round
  collected, \* harness_events of the round
  first,     \* first_failure.reason, "none" without one
  log,       \* the events of the live episode and of its replay
  withheld,  \* the bundle is a share copy: its raw texts are gone
  pending,   \* _pending_harness_events
  drain_due, \* _attempt_drain_due
  staged     \* _staged_turns

round_vars == <<turn, attempt, answer, replies, collected, first>>
trace_vars == <<pending, drain_due, staged>>
vars == <<policy, phase, stage, round_vars, log, withheld, trace_vars>>

FirstRound ==
  /\ stage' = "ask" /\ turn' = 0 /\ attempt' = 1 /\ answer' = "none"
  /\ replies' = <<>> /\ collected' = <<>> /\ first' = "none"

Init ==
  /\ policy \in Policies
  /\ phase = "live" /\ stage = "ask" /\ turn = 0 /\ attempt = 1
  /\ answer = "none" /\ replies = <<>> /\ collected = <<>> /\ first = "none"
  /\ log = [live |-> <<>>, replay |-> <<>>]
  /\ withheld = FALSE
  /\ pending = <<>> /\ drain_due = FALSE /\ staged = {}

Running == phase \in {"live", "replay"}

-----------------------------------------------------------------------------
(* What the bundle says of a turn (_recorded_turns). *)

Of(type, t) == SelectSeq(log.live, LAMBDA e : e.type = type /\ e.turn = t)

IsTerminal(e) == e.type \in {"ActionParsed", "ActionRejected"}

terminals(t) == SelectSeq(log.live, LAMBDA e : IsTerminal(e) /\ e.turn = t)
terminal(t)  == terminals(t)[1]

turns_of(events) == {events[i].turn : i \in DOMAIN events} \ {NoTurn}

responded(t) == Of("AgentResponded", t)
attempts_of(t) == {responded(t)[i].attempt : i \in DOMAIN responded(t)}

(* One terminal a turn, from turn 0 on; no answer or fact of another turn;  *)
(* the answer an action was read from is there; none after the last attempt.*)
Recorded ==
  /\ turns_of(log.live) = 0..Max(turns_of(log.live))
  /\ \A t \in turns_of(log.live) :
       /\ Len(terminals(t)) = 1
       /\ Len(responded(t)) = Cardinality(attempts_of(t))
       /\ IF terminal(t).type = "ActionParsed"
          THEN terminal(t).from_attempt \in attempts_of(t)
          ELSE attempts_of(t) \subseteq 1..terminal(t).attempts

stripped(digits) == SubSeq(digits, 1, Max({i \in DOMAIN digits : digits[i] # 0}))

digits_of(n) == [i \in 1..Decimals |-> (n \div 10 ^ (Decimals - i)) % 10]

wire_leverage_floors(lev) ==
  IF lev % LevScale = 0
  THEN Integer_(lev \div LevScale)
  ELSE Decimal(lev < 0, magnitude(lev \div LevScale),
               stripped(digits_of(lev % LevScale)))
wire_leverage(lev) ==
  IF lev % LevScale = 0
  THEN Integer_(lev \div LevScale)
  ELSE Decimal(lev < 0, magnitude(lev) \div LevScale,
               stripped(digits_of(magnitude(lev) % LevScale)))

(* A text that parses to the logged verdict. *)
synthetic_body(verdict, n) ==
  IF verdict.type = "ActionParsed" /\ n = verdict.from_attempt
  THEN Action(wire_leverage(verdict.lev), verdict.slip)
  ELSE Faulty("invalid_json")

recorded_reply(t, n) ==
  LET event == SelectSeq(responded(t), LAMBDA e : e.attempt = n)[1]
  IN  [what   |-> "reply",
       status |-> event.status,
       body   |-> IF withheld THEN synthetic_body(terminal(t), n) ELSE event.body]

(* _RecordedTraceAgent.decide: the answers it can give, none if it raises;  *)
(* what was recorded without a second attempt is said again in one.         *)
recorded_answers(t, n) ==
  IF t \notin turns_of(log.live) THEN {}
  ELSE IF n \in attempts_of(t) THEN {recorded_reply(t, n)}
  ELSE IF terminal(t).type = "ActionParsed" THEN {}
  ELSE IF n <= terminal(t).attempts
       THEN {[what |-> miss] : miss \in {terminal(t).reason} \cap Misses}
       ELSE {recorded_reply(t, k) : k \in {i \in attempts_of(t) : /\ terminal(t).attempts = 1
                                                                /\ i = Max(attempts_of(t))}}

recorded_facts(t) ==
  LET events == Of("EgressBlocked", t)
  IN  [i \in DOMAIN events |-> [fact |-> events[i].fact, count |-> events[i].count]]

-----------------------------------------------------------------------------
(* A decision round of the engine, whoever answers. *)

AskLive ==
  /\ phase = "live" /\ stage = "ask"
  /\ answer' \in Answers
  /\ stage' = "asked"
  /\ UNCHANGED <<policy, phase, turn, attempt, replies, collected, first, log, withheld,
                 trace_vars>>

Staged_at_every_attempt ==
  /\ pending' = recorded_facts(turn)
  /\ staged' = staged \cup {turn}
(* The facts of a turn are staged once, at its first attempt. *)
Staged ==
  /\ pending' = IF turn \in staged THEN pending ELSE recorded_facts(turn)
  /\ staged' = staged \cup {turn}

(* ReplayError without an answer: "engine requested missing raw attempt", ...*)
AskTrace ==
  /\ phase = "replay" /\ stage = "ask"
  /\ drain_due' = TRUE
  /\ Staged
  /\ IF recorded_answers(turn, attempt) = {}
     THEN phase' = "raised" /\ UNCHANGED <<stage, answer>>
     ELSE /\ answer' \in recorded_answers(turn, attempt)
          /\ stage' = "asked"
          /\ UNCHANGED phase
  /\ UNCHANGED <<policy, turn, attempt, replies, collected, first, log, withheld>>

observed == Len(SelectSeq(log.live, LAMBDA e : e.type = "EgressBlocked"))
              + Len(collected)

(* drain_harness_events: of the sandbox, or of the trace agent. *)
drains ==
  IF phase = "live"
  THEN {<<>>} \cup (IF observed < MaxFacts
                    THEN {<<[fact |-> f, count |-> 1]>> : f \in ToSet(Facts)}
                    ELSE {})
  ELSE IF drain_due THEN {pending} ELSE {recorded_facts(NoTurn)}

Drained ==
  /\ pending' = IF drain_due THEN <<>> ELSE pending
  /\ drain_due' = FALSE
  /\ UNCHANGED staged

(* _coalesce_harness_events *)
counted(facts, f) ==
  FoldLeft(LAMBDA n, e : n + (IF e.fact = f THEN e.count ELSE 0), 0, facts)

blocked(facts, t) ==
  LET seen == SelectSeq(Facts, LAMBDA f : counted(facts, f) > 0)
  IN  [i \in DOMAIN seen |-> [type |-> "EgressBlocked", turn |-> t,
                             fact |-> seen[i], count |-> counted(facts, seen[i])]]

Emit(events) == log' = [log EXCEPT ![phase] = @ \o events]

(* A 4xx is malformed whatever its body. *)
result ==
  IF answer.what # "reply" THEN reject(answer.what)
  ELSE IF answer.status = "client error" THEN reject("schema_invalid")
  ELSE parse_action(answer.body)

heard == IF answer.what = "reply" THEN Append(replies, answer) ELSE replies

retried == /\ answer.what = "reply" /\ ~result.accepted
           /\ attempt = 1 /\ (IF phase = "live" THEN policy ELSE DefaultRetries) > 0

conclusion ==
  IF result.accepted
  THEN [type |-> "ActionParsed", turn |-> turn, lev |-> result.lev,
        slip |-> result.slip, from_attempt |-> attempt]
  ELSE [type |-> "ActionRejected", turn |-> turn, reason |-> result.reason,
        first |-> first, attempts |-> attempt]

Retry ==
  /\ Running /\ stage = "asked" /\ retried
  /\ \E facts \in drains : collected' = collected \o facts
  /\ Drained
  /\ replies' = heard /\ first' = result.reason
  /\ attempt' = 2 /\ stage' = "ask" /\ answer' = "none"
  /\ UNCHANGED <<policy, phase, turn, log, withheld>>

round_events_facts_first(facts) ==
  blocked(facts, turn)
    \o <<[type |-> "ObservationEmitted", turn |-> turn]>>
    \o [i \in DOMAIN heard |->
          [type |-> "AgentResponded", turn |-> turn, attempt |-> i,
           status |-> heard[i].status, body |-> heard[i].body]]
    \o <<conclusion>>
round_events(facts) ==
  <<[type |-> "ObservationEmitted", turn |-> turn]>>
    \o [i \in DOMAIN heard |->
          [type |-> "AgentResponded", turn |-> turn, attempt |-> i,
           status |-> heard[i].status, body |-> heard[i].body]]
    \o blocked(facts, turn)
    \o <<conclusion>>

(* The verdict; the bar is held; the next turn, or the end. *)
Conclude ==
  /\ Running /\ stage = "asked" /\ ~retried
  /\ \E facts \in drains : Emit(round_events(collected \o facts))
  /\ Drained
  /\ replies' = <<>> /\ collected' = <<>> /\ first' = "none" /\ answer' = "none"
  /\ IF \/ turn + 1 = BarsTotal
        \/ result.accepted /\ result.lev \in Ruinous
     THEN stage' = "close" /\ UNCHANGED <<turn, attempt>>
     ELSE stage' = "ask" /\ turn' = turn + 1 /\ attempt' = 1
  /\ UNCHANGED <<policy, phase, withheld>>

(* The last drain and EpisodeEnd. *)
Finish ==
  /\ Running /\ stage = "close"
  /\ \E facts \in drains :
       Emit(Append(blocked(facts, NoTurn), [type |-> "EpisodeEnd", turn |-> NoTurn]))
  /\ Drained
  /\ phase' = IF phase = "live" THEN "sealed" ELSE "compared"
  /\ UNCHANGED <<policy, stage, round_vars, withheld>>

-----------------------------------------------------------------------------
(* The bundle, sealed. *)

(* create_share_bundle *)
Share ==
  /\ phase = "sealed" /\ ~withheld
  /\ \E i \in DOMAIN log.live : log.live[i].type = "AgentResponded"
  /\ withheld' = TRUE
  /\ UNCHANGED <<policy, phase, stage, round_vars, log, trace_vars>>

(* What a replay wants as it was: the bundle COMPLETE, the agent manifest,  *)
(* the engine and specification versions, the pack and the configuration    *)
(* (_require_complete, _check_compatibility).                               *)
Incompatible ==
  /\ phase = "sealed"
  /\ phase' = "refused"
  /\ UNCHANGED <<policy, stage, round_vars, log, withheld, trace_vars>>

(* replay_bundle, with everything as it was. *)
StartReplay ==
  /\ phase = "sealed"
  /\ phase' = IF Recorded THEN "replay" ELSE "raised"
  /\ FirstRound
  /\ UNCHANGED <<policy, log, withheld, trace_vars>>

Over == phase \in {"compared", "refused", "raised"} /\ UNCHANGED vars

Next ==
  \/ AskLive \/ AskTrace \/ Retry \/ Conclude \/ Finish
  \/ Share \/ Incompatible \/ StartReplay \/ Over

Spec == Init /\ [][Next]_vars

-----------------------------------------------------------------------------
(* The decision records. *)

positions(events, t) == {i \in DOMAIN events : events[i].turn = t}

first_seq(events, t) == Min(positions(events, t))
last_seq(events, t)  == Max(positions(events, t))

turn_events(events, t) ==
  SubSeq(events, first_seq(events, t), last_seq(events, t))

OfType(events, types) == SelectSeq(events, LAMBDA e : e.type \in types)

(* generate_decision_records raises nothing. *)
Projectable(events) ==
  /\ turns_of(events) = 0..(Cardinality(turns_of(events)) - 1)
  /\ \A t \in turns_of(events) :
       LET own == turn_events(events, t)
           said == OfType(own, {"AgentResponded"})
       IN  /\ positions(events, t) = first_seq(events, t)..last_seq(events, t)
           /\ own[1].type = "ObservationEmitted"
           /\ Len(OfType(own, {"ObservationEmitted"})) = 1
           /\ \A i \in DOMAIN said : said[i].attempt = i
           /\ Len(OfType(own, {"ActionParsed", "ActionRejected"})) = 1

-----------------------------------------------------------------------------
(* Properties. *)

(* What a replay has to bring back of an event: all of it, or in a share    *)
(* copy all but the texts and why exactly one could not be read, or, of an  *)
(* episode without second attempts, all but those the replay makes.         *)
Known(e) ==
  IF ~withheld THEN e
  ELSE CASE e.type = "AgentResponded" -> [e EXCEPT !.body = "withheld"]
         [] e.type = "ActionRejected" ->
              [e EXCEPT !.reason = IF @ \in Misses THEN @ ELSE "unreadable",
                        !.first  = IF @ = "none" THEN @ ELSE "unreadable"]
         [] OTHER -> e

Repeated(e) == policy = 0 /\ e.type = "AgentResponded" /\ e.attempt > 1
Kept(e) ==
  IF policy = 0 /\ e.type = "ActionRejected"
  THEN [Known(e) EXCEPT !.first = "none", !.attempts = 1] ELSE Known(e)

View(events) ==
  LET told == SelectSeq(events, LAMBDA e : ~Repeated(e))
  IN  [i \in DOMAIN told |-> Kept(told[i])]

(***************************************************************************)
(* A replay relives the episode event by event: the same attempts, verdicts*)
(* and egress facts, each once and in the same turn, also where an answer  *)
(* came late or failed, a 4xx carried an action, the first attempt could   *)
(* not be read, the account was liquidated or the texts have been withheld *)
(* (_RecordedTraceAgent under the engine that recorded it); recorded       *)
(* without second attempts, it says again in them what it said in the      *)
(* first, and the verdict stays.                                           *)
(***************************************************************************)
ReplayFollows == IsPrefix(View(log.replay), View(log.live))

(***************************************************************************)
(* Every log the engine writes cuts into decision records: the events of a *)
(* turn stand together behind its observation, with one verdict; facts of  *)
(* the final drain belong to no turn (generate_decision_records).          *)
(***************************************************************************)
DecisionsProject ==
  stage = "close" => /\ Projectable(log.live)
                     /\ phase \in {"replay", "compared"} => Projectable(log.replay)

(***************************************************************************)
(* Whatever an agent did, the episode can be cut into its decisions and    *)
(* replayed to its end: the engine never asks for what was not recorded    *)
(* and no check of the log refuses what the engine wrote (_recorded_turns, *)
(* decide), so nothing but a change of the bundle or of the installation   *)
(* breaks a replay.                                                        *)
(***************************************************************************)
RecordedIsReplayable ==
  /\ DecisionsProject
  /\ phase # "raised"
  /\ phase = "compared" => View(log.replay) = View(log.live)

=============================================================================
