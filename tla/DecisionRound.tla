--------------------------- MODULE DecisionRound ---------------------------
(***************************************************************************)
(* The decision rounds of an episode against a sandboxed agent.            *)
(*                                                                         *)
(* _request_decision (core/engine.py) asks the agent at most twice.  Each  *)
(* ask is one HTTPAgent.decide (harness/http.py): a worker thread owns the *)
(* HTTP exchange and hands its outcome over in a queue of one, while the   *)
(* calling thread waits for it until an absolute deadline.  After each ask *)
(* DockerEgressEventSource (sandbox/orchestration.py) reads what the       *)
(* gateway and the guard have logged of refused connections; the round's   *)
(* facts are coalesced per destination when it is over.                    *)
(*                                                                         *)
(* Time is kept as far as it is compared: whether the deadline of the      *)
(* current ask has passed.                                                 *)
(***************************************************************************)
EXTENDS SequencesExt

CONSTANTS
  BarsTotal,       \* rounds of a full episode
  Retries,         \* parse_failure_retries
  Outcomes,        \* how an exchange with the agent may end
  Destinations,    \* payloads of block records
  Garbled,         \* a log line that is not a block record
  MaxBlocks,       \* bound: lines the containers write in all
  LogCap           \* lines a container log holds before it is truncated

(* An HTTP response of some status and body, a TimeoutError of the socket,  *)
(* or another exception.                                                    *)
Outcome ==
  [what   : {"response", "timed out", "failed"},
   status : {"success", "client error", "other"},
   body   : {"action", "malformed", "secret"}]

ASSUME DecisionAssumption ==
  /\ BarsTotal \in Nat \ {0} /\ Retries \in Nat
  /\ MaxBlocks \in Nat /\ LogCap \in Nat \ {0}
  /\ Outcomes \subseteq Outcome
  /\ Garbled \notin Destinations

VARIABLES
  pc,          \* where the episode loop is
  turn,        \* the current round
  attempt,     \* the current ask of the round, 1 or 2
  answer,      \* what the last ask brought; "closing" in the final drain
  replies,     \* the replies of the round
  rounds,      \* verdict and replies of each finished round
  expired,     \* the deadline of the current ask has passed
  queue,       \* the queue between its worker and the caller
  workers,     \* the worker thread of each ask
  aborted,     \* asks whose connection guard was cancelled
  log,         \* what docker logs returns of each container
  emitted,     \* how many lines each has written (only compared)
  prior_lines, \* _prior_lines: each log as last read
  buffer,      \* BlockEventBuffer
  collected,   \* harness_events of the round
  facts        \* coalesced EgressBlocked counts, one function per drain group

caller_vars  == <<pc, turn, attempt, answer, replies, rounds>>
asking_vars  == <<expired, queue, workers, aborted>>
log_vars     == <<log, emitted>>
drain_vars   == <<prior_lines, buffer, collected, facts>>
vars         == <<caller_vars, asking_vars, log_vars, drain_vars>>

Sources == {"gateway", "guard"}
Calls   == (0..(BarsTotal - 1)) \X {1, 2}
Lines   == Destinations \cup {Garbled}

current == <<turn, attempt>>

Idle == [at |-> "none"]

Init ==
  /\ pc = "ask" /\ turn = 0 /\ attempt = 1 /\ answer = "none"
  /\ replies = <<>> /\ rounds = <<>>
  /\ expired = FALSE /\ queue = <<>> /\ aborted = {}
  /\ workers = [c \in Calls |-> Idle]
  /\ log = [s \in Sources |-> <<>>] /\ emitted = [s \in Sources |-> 0]
  /\ prior_lines = [s \in Sources |-> <<>>]
  /\ buffer = <<>> /\ collected = <<>> /\ facts = <<>>

-----------------------------------------------------------------------------
(* The worker thread of an ask. *)

(* The guard takes the connection unless the caller has given up. *)
Install(c) ==
  /\ workers[c].at = "started"
  /\ workers' = [workers EXCEPT ![c].at = IF c \in aborted THEN "gone" ELSE "sent"]
  /\ UNCHANGED <<caller_vars, expired, queue, aborted, log_vars, drain_vars>>

(* finished_at_ns against the deadline: asks before the current one are late. *)
InTime(c) == c = current /\ ~expired

(* The exchange ends, in an answer or an exception, and is stamped. *)
Exchange(c) ==
  /\ workers[c].at = "sent"
  /\ \E o \in Outcomes :
       workers' = [workers EXCEPT ![c] =
                     [at |-> "stamped", outcome |-> o, in_time |-> InTime(c)]]
  /\ UNCHANGED <<caller_vars, expired, queue, aborted, log_vars, drain_vars>>

Handed(c) ==
  [call |-> c, outcome |-> workers[c].outcome, in_time |-> workers[c].in_time]

(* put_nowait: each ask has a queue of its own, so what a worker of an      *)
(* earlier ask puts is never read.                                          *)
PutOutcome_one_queue_for_all(c) ==
  queue' = IF queue = <<>> THEN <<Handed(c)>> ELSE queue
PutOutcome(c) ==
  queue' = IF c = current /\ queue = <<>> THEN <<Handed(c)>> ELSE queue

Put(c) ==
  /\ workers[c].at = "stamped"
  /\ PutOutcome(c)
  /\ workers' = [workers EXCEPT ![c] = [at |-> "gone", in_time |-> @.in_time]]
  /\ UNCHANGED <<caller_vars, expired, aborted, log_vars, drain_vars>>

Worker == \E c \in Calls : Install(c) \/ Exchange(c) \/ Put(c)

-----------------------------------------------------------------------------
(* The calling thread: HTTPAgent.decide. *)

Ask ==
  /\ pc = "ask"
  /\ workers' = [workers EXCEPT ![current] = [at |-> "started"]]
  /\ queue' = <<>>
  /\ expired' = FALSE
  /\ answer' = "none"
  /\ pc' = "wait"
  /\ UNCHANGED <<turn, attempt, replies, rounds, aborted, log_vars, drain_vars>>

DeadlinePasses ==
  /\ pc = "wait" /\ ~expired
  /\ expired' = TRUE
  /\ UNCHANGED <<caller_vars, queue, workers, aborted, log_vars, drain_vars>>

(* What an outcome is to the episode loop.  A 4xx is malformed whatever its *)
(* body; a body with protected material is discarded whatever its status.   *)
reading_checks_status_first(entry) ==
  LET o == entry.outcome
  IN  CASE ~entry.in_time \/ o.what = "timed out" -> "timeout"
        [] entry.in_time /\ o.what = "failed" -> "agent_error"
        [] entry.in_time /\ o.what = "response" ->
             IF o.status = "client error" THEN "malformed"
             ELSE IF o.status = "other" \/ o.body = "secret" THEN "agent_error"
             ELSE o.body
reading(entry) ==
  LET o == entry.outcome
  IN  CASE ~entry.in_time \/ o.what = "timed out" -> "timeout"
        [] entry.in_time /\ o.what = "failed" -> "agent_error"
        [] entry.in_time /\ o.what = "response" ->
             IF o.body = "secret" \/ o.status = "other" THEN "agent_error"
             ELSE IF o.status = "client error" THEN "malformed"
             ELSE o.body

Take ==
  /\ pc \in {"wait", "last look"} /\ queue # <<>>
  /\ LET entry == queue[1]
     IN  /\ answer' = reading(entry)
         /\ replies' = IF answer' \in {"action", "malformed"}
                       THEN Append(replies, entry) ELSE replies
         /\ aborted' = IF entry.in_time THEN aborted ELSE aborted \cup {current}
  /\ queue' = <<>>
  /\ pc' = "drain gateway"
  /\ UNCHANGED <<turn, attempt, rounds, expired, workers, log_vars, drain_vars>>

GetExpires_when_the_worker_ends ==
  /\ pc = "wait" /\ queue = <<>> /\ workers[current].at = "gone"
  /\ pc' = "last look"
  /\ UNCHANGED <<turn, attempt, answer, replies, rounds, asking_vars, log_vars,
                 drain_vars>>
(* get(timeout) raises Empty: the queue is looked at once more. *)
GetExpires ==
  /\ pc = "wait" /\ queue = <<>> /\ expired
  /\ pc' = "last look"
  /\ UNCHANGED <<turn, attempt, answer, replies, rounds, asking_vars, log_vars,
                 drain_vars>>

GiveUp ==
  /\ pc = "last look" /\ queue = <<>>
  /\ aborted' = aborted \cup {current}
  /\ answer' = "timeout"
  /\ pc' = "drain gateway"
  /\ UNCHANGED <<turn, attempt, replies, rounds, expired, queue, workers,
                 log_vars, drain_vars>>

-----------------------------------------------------------------------------
(* The block logs. *)

Written == emitted["gateway"] + emitted["guard"]

(* A container writes a line.  Its log driver keeps one file, so a full log *)
(* starts again from nothing.                                               *)
WriteLine(s) ==
  /\ pc \notin {"over", "lost"} /\ Written < MaxBlocks
  /\ \E line \in Lines :
       log' = [log EXCEPT ![s] = IF Len(@) = LogCap THEN <<line>>
                                                    ELSE Append(@, line)]
  /\ emitted' = [emitted EXCEPT ![s] = @ + 1]
  /\ UNCHANGED <<caller_vars, asking_vars, drain_vars>>

new_lines_all(s) == log[s]
new_lines(s) == SubSeq(log[s], Len(prior_lines[s]) + 1, Len(log[s]))

(* Lines before a garbled one have already entered the buffer. *)
well_formed(lines) ==
  LET before == {n \in 0..Len(lines) : Garbled \notin ToSet(SubSeq(lines, 1, n))}
  IN  SubSeq(lines, 1, Max(before))

Reading(s) == pc = IF s = "gateway" THEN "drain gateway" ELSE "drain guard"

After(s) == IF s = "gateway" THEN "drain guard" ELSE "conclude"

(* docker logs of one container, checked against what was read before. *)
ReadLog(s) ==
  /\ Reading(s)
  /\ IsPrefix(prior_lines[s], log[s])
  /\ buffer' = buffer \o well_formed(new_lines(s))
  /\ IF well_formed(new_lines(s)) = new_lines(s)
     THEN /\ prior_lines' = [prior_lines EXCEPT ![s] = log[s]]
          /\ pc' = After(s)
     ELSE /\ UNCHANGED prior_lines
          /\ pc' = "lost"
  /\ UNCHANGED <<turn, attempt, answer, replies, rounds, asking_vars, log_vars,
                 collected, facts>>

(* The log has changed, or docker logs fails: PreflightFailure, EngineError. *)
LogRefused(s) ==
  /\ Reading(s)
  /\ pc' = "lost"
  /\ UNCHANGED <<turn, attempt, answer, replies, rounds, asking_vars, log_vars,
                 drain_vars>>

-----------------------------------------------------------------------------
(* The round: _request_decision once the drain is done. *)

drained == collected \o buffer

coalesced(lines) ==
  [d \in Destinations |-> Cardinality({i \in DOMAIN lines : lines[i] = d})]

may_retry_after_a_timeout ==
  attempt = 1 /\ Retries > 0 /\ answer \in {"malformed", "timeout"}
may_retry == attempt = 1 /\ Retries > 0 /\ answer = "malformed"

AskAgain ==
  /\ pc = "conclude" /\ may_retry
  /\ attempt' = 2
  /\ pc' = "ask"
  /\ collected' = drained
  /\ buffer' = <<>>
  /\ UNCHANGED <<turn, answer, replies, rounds, asking_vars, log_vars,
                 prior_lines, facts>>

(* The round ends; so does the episode, after its last bar or at once if    *)
(* the account was liquidated.  The logs are then drained a last time.      *)
Conclude ==
  /\ pc = "conclude" /\ answer # "closing" /\ ~may_retry
  /\ rounds' = Append(rounds, [answer |-> answer, attempts |-> attempt,
                               replies |-> replies])
  /\ facts' = Append(facts, coalesced(drained))
  /\ replies' = <<>> /\ collected' = <<>> /\ buffer' = <<>>
  /\ \/ /\ turn + 1 < BarsTotal
        /\ turn' = turn + 1 /\ attempt' = 1
        /\ answer' = "none"
        /\ pc' = "ask"
     \/ /\ answer' = "closing"
        /\ pc' = "drain gateway"
        /\ UNCHANGED <<turn, attempt>>
  /\ UNCHANGED <<asking_vars, log_vars, prior_lines>>

Close ==
  /\ pc = "conclude" /\ answer = "closing"
  /\ facts' = Append(facts, coalesced(drained))
  /\ collected' = <<>> /\ buffer' = <<>>
  /\ pc' = "over"
  /\ UNCHANGED <<turn, attempt, answer, replies, rounds, asking_vars, log_vars,
                 prior_lines>>

Caller ==
  \/ Ask \/ Take \/ GetExpires \/ GiveUp
  \/ (\E s \in Sources : ReadLog(s) \/ LogRefused(s))
  \/ AskAgain \/ Conclude \/ Close

Returned == pc \in {"over", "lost"} /\ UNCHANGED vars

Next ==
  \/ Caller \/ Worker \/ DeadlinePasses
  \/ (\E s \in Sources : WriteLine(s))
  \/ Returned

(* The calling thread runs, docker answers and time passes.  Nothing is     *)
(* asked of the agent, the workers or the containers.                       *)
Fairness == WF_vars(Caller) /\ WF_vars(DeadlinePasses)

Spec == Init /\ [][Next]_vars /\ Fairness

-----------------------------------------------------------------------------
(* Properties. *)

(***************************************************************************)
(* What is recorded as a reply of a round was received in answer to that   *)
(* very ask, before its deadline, and holds nothing protected: not the     *)
(* late answer of an earlier worker, not one another status let through    *)
(* (one queue per decide, finished_at_ns, the secret gate before the       *)
(* status).                                                                *)
(***************************************************************************)
RepliesAreOwnAndInTime ==
  LET Sound(t, recorded) ==
        \A k \in DOMAIN recorded :
          /\ recorded[k].call = <<t, k>>
          /\ recorded[k].in_time
          /\ recorded[k].outcome.what = "response"
          /\ recorded[k].outcome.body # "secret"
  IN  /\ Sound(turn, replies)
      /\ \A t \in DOMAIN rounds : Sound(t - 1, rounds[t].replies)

Occurrences(lines, d) == Cardinality({i \in DOMAIN lines : lines[i] = d})

(* The records of a destination in the facts: which fact, which of its count. *)
Recorded(d) == UNION {{<<r, k>> : k \in 1..facts[r][d]} : r \in DOMAIN facts}

(***************************************************************************)
(* Every block record that was read is counted once: what rounds recorded, *)
(* what the round has collected and what is still buffered are together    *)
(* the lines of the two logs as last read, across retries and rounds       *)
(* (_prior_lines, BlockEventBuffer, _coalesce_harness_events).             *)
(***************************************************************************)
CountsAreTheLog ==
  pc # "lost" =>
    \A d \in Destinations :
      Cardinality(Recorded(d))
        + Occurrences(collected, d) + Occurrences(buffer, d)
      = Occurrences(prior_lines["gateway"], d) + Occurrences(prior_lines["guard"], d)

(***************************************************************************)
(* The rounds keep the protocol of AgentProtocol: one verdict per round,   *)
(* from its last answer alone, and a second ask only after a malformed     *)
(* answer in time; never after a timeout or a transport failure.           *)
(***************************************************************************)
RoundOpen == answer # "closing" /\ pc # "over"

Protocol == INSTANCE AgentProtocol WITH
  asked    <- IF ~RoundOpen THEN 0 ELSE IF pc = "ask" THEN attempt - 1 ELSE attempt,
  answer   <- IF RoundOpen THEN answer ELSE "none",
  verdicts <- [t \in DOMAIN rounds |->
                 [reason   |-> rounds[t].answer,
                  kind     |-> CASE rounds[t].answer = "action" -> "action"
                                [] rounds[t].answer = "malformed" -> "invalid"
                                [] OTHER -> "missed",
                  attempts |-> rounds[t].attempts,
                  replies  |-> Len(rounds[t].replies)]]

KeepsProtocol == Protocol!Spec

(***************************************************************************)
(* The rounds end, in a result or a lost run, even against an agent that   *)
(* never answers: the caller waits for a deadline, not for the worker.     *)
(***************************************************************************)
RunEnds == <>(pc \in {"over", "lost"})

=============================================================================
