----------------------- MODULE DecisionRound_proofs -----------------------
(***************************************************************************)
(* The decision rounds keep the protocol of AgentProtocol and record only  *)
(* replies that are their own and in time, and every record they read of   *)
(* the logs is counted exactly once in the facts of some round, for any    *)
(* number of bars, any agent and any interleaving of the workers, the      *)
(* deadline and the logs.                                                  *)
(***************************************************************************)
EXTENDS DecisionRound, SequenceTheorems, FiniteSetTheorems, TLAPS

Entry == [call : Calls, outcome : Outcomes, in_time : BOOLEAN]

Heard == {"action", "malformed", "timeout", "agent_error"}

Round == [answer : Heard, attempts : {1, 2}, replies : Seq(Entry)]

WorkerState ==
  [at : {"none", "started", "sent", "gone"}]
    \cup [at : {"stamped"}, outcome : Outcomes, in_time : BOOLEAN]
    \cup [at : {"gone"}, in_time : BOOLEAN]

Shape ==
  /\ pc \in {"ask", "wait", "last look", "drain gateway", "drain guard",
             "conclude", "over", "lost"}
  /\ turn \in 0..(BarsTotal - 1) /\ attempt \in {1, 2}
  /\ answer \in Heard \cup {"none", "closing"}
  /\ replies \in Seq(Entry) /\ rounds \in Seq(Round)
  /\ expired \in BOOLEAN
  /\ workers \in [Calls -> WorkerState]

Listening == pc \in {"wait", "last look"}

(* What the caller may find in the queue is from the worker it waits for.  *)
QueueIsOwn ==
  \/ queue = <<>>
  \/ \E e \in Entry : queue = <<e>> /\ (Listening => e.call = current)

(* The replies of the round are as many as its asks brought, by the time   *)
(* it is at; rounds are counted by turns until the last is over.           *)
InStep ==
  /\ answer # "closing" => Len(rounds) = turn
  /\ pc = "ask" =>
       /\ Len(replies) = attempt - 1
       /\ \/ attempt = 1 /\ answer = "none"
          \/ attempt = 2 /\ answer = "malformed" /\ Retries > 0
  /\ Listening => answer = "none" /\ Len(replies) = attempt - 1
  /\ pc \in {"drain gateway", "drain guard", "conclude"} =>
       /\ answer # "none"
       /\ answer # "closing" =>
            Len(replies) = IF answer \in {"action", "malformed"} THEN attempt
                                                                 ELSE attempt - 1
  /\ pc = "over" => answer = "closing"

IInv == Shape /\ QueueIsOwn /\ InStep /\ RepliesAreOwnAndInTime

USE DecisionAssumption DEF DecisionAssumption

(* What Append does, place by place. *)
LEMMA Appended ==
  ASSUME NEW S, NEW seq \in Seq(S), NEW elt \in S
  PROVE  /\ Append(seq, elt) \in Seq(S)
         /\ Len(Append(seq, elt)) = Len(seq) + 1
         /\ DOMAIN Append(seq, elt) = DOMAIN seq \cup {Len(seq) + 1}
         /\ Append(seq, elt)[Len(seq) + 1] = elt
         /\ \A k \in DOMAIN seq : k # Len(seq) + 1 /\ Append(seq, elt)[k] = seq[k]
  <1>1. /\ Append(seq, elt) \in Seq(S) /\ Len(Append(seq, elt)) = Len(seq) + 1
        /\ Append(seq, elt)[Len(seq) + 1] = elt
        /\ \A k \in 1..Len(seq) : Append(seq, elt)[k] = seq[k]
    BY AppendProperties
  <1>2. /\ Len(seq) \in Nat /\ DOMAIN seq = 1..Len(seq)
        /\ DOMAIN Append(seq, elt) = 1..(Len(seq) + 1)
    BY <1>1, LenProperties
  <1> QED BY <1>1, <1>2

-----------------------------------------------------------------------------
(* What an outcome is read as, and when it counts as a reply. *)
LEMMA ReadingIsHeard ==
  ASSUME NEW e \in Entry
  PROVE  /\ reading(e) \in Heard
         /\ reading(e) \in {"action", "malformed"} =>
              e.in_time /\ e.outcome.what = "response" /\ e.outcome.body # "secret"
  <1>1. e.in_time \in BOOLEAN /\ e.outcome \in Outcome
    BY DEF Entry
  <1> QED BY <1>1 DEF reading, Heard, Outcome

LEMMA CurrentIsCall ==
  ASSUME Shape
  PROVE  current \in Calls
  BY DEF Shape, current, Calls

LEMMA InitHolds == Init => IInv
  <1> SUFFICES ASSUME Init PROVE IInv
    OBVIOUS
  <1>1. Idle \in WorkerState /\ 0 \in 0..(BarsTotal - 1)
    BY DEF Idle, WorkerState
  <1>2. replies \in Seq(Entry) /\ rounds \in Seq(Round)
    BY DEF Init
  <1>3. Shape
    BY <1>1, <1>2 DEF Init, Shape
  <1> QED BY <1>3 DEF Init, IInv, QueueIsOwn, InStep, Listening, RepliesAreOwnAndInTime

(* What touches neither the round nor the queue. *)
LEMMA OthersKeep ==
  ASSUME IInv, UNCHANGED <<pc, turn, attempt, answer, replies, rounds>>,
         expired' \in BOOLEAN, workers' \in [Calls -> WorkerState], QueueIsOwn'
  PROVE  IInv'
  <1>1. Shape'
    BY DEF IInv, Shape
  <1>2. InStep' /\ RepliesAreOwnAndInTime'
    BY DEF IInv, InStep, Listening, RepliesAreOwnAndInTime
  <1> QED BY <1>1, <1>2 DEF IInv

-----------------------------------------------------------------------------
(* The worker threads, the clock and the containers. *)
LEMMA WorkersKeep ==
  ASSUME IInv, Worker \/ DeadlinePasses \/ (\E s \in Sources : WriteLine(s))
  PROVE  IInv'
  <1>0. workers \in [Calls -> WorkerState] /\ expired \in BOOLEAN /\ QueueIsOwn
    BY DEF IInv, Shape
  <1> USE DEF QueueIsOwn, Listening, current
  <1>1. ASSUME NEW c \in Calls, Install(c) PROVE IInv'
    <2>1. workers[c] \in [at : {"none", "started", "sent", "gone"}]
      BY <1>0, <1>1 DEF Install, WorkerState
    <2>2. workers' \in [Calls -> WorkerState]
      BY <1>0, <1>1, <2>1 DEF Install, WorkerState
    <2>3. UNCHANGED <<pc, turn, attempt, answer, replies, rounds, expired, queue>>
      BY <1>1 DEF Install, caller_vars
    <2> QED BY <1>0, <2>2, <2>3, OthersKeep
  <1>2. ASSUME NEW c \in Calls, Exchange(c) PROVE IInv'
    <2>1. InTime(c) \in BOOLEAN
      BY DEF InTime
    <2>2. PICK o \in Outcomes :
            workers' = [workers EXCEPT ![c] =
                          [at |-> "stamped", outcome |-> o, in_time |-> InTime(c)]]
      BY <1>2 DEF Exchange
    <2>3. [at |-> "stamped", outcome |-> o, in_time |-> InTime(c)] \in WorkerState
      BY <2>1 DEF WorkerState
    <2>4. workers' \in [Calls -> WorkerState]
      BY <1>0, <2>2, <2>3
    <2>5. UNCHANGED <<pc, turn, attempt, answer, replies, rounds, expired, queue>>
      BY <1>2 DEF Exchange, caller_vars
    <2> QED BY <1>0, <2>4, <2>5, OthersKeep
  <1>3. ASSUME NEW c \in Calls, Put(c) PROVE IInv'
    <2>1. workers[c] \in [at : {"stamped"}, outcome : Outcomes, in_time : BOOLEAN]
      BY <1>0, <1>3 DEF Put, WorkerState
    <2>2. workers' \in [Calls -> WorkerState]
      BY <1>0, <1>3, <2>1 DEF Put, WorkerState
    <2>3. Handed(c) \in Entry /\ Handed(c).call = c
      BY <2>1 DEF Handed, Entry
    <2>4. UNCHANGED <<pc, turn, attempt, answer, replies, rounds, expired>>
      BY <1>3 DEF Put, caller_vars
    <2>5. QueueIsOwn'
      BY <1>0, <1>3, <2>3, <2>4 DEF Put, PutOutcome
    <2> QED BY <1>0, <2>2, <2>4, <2>5, OthersKeep
  <1>4. CASE DeadlinePasses
    <2>1. /\ UNCHANGED <<pc, turn, attempt, answer, replies, rounds, workers, queue>>
          /\ expired' \in BOOLEAN
      BY <1>4 DEF DeadlinePasses, caller_vars
    <2> QED BY <1>0, <2>1, OthersKeep
  <1>5. ASSUME NEW s \in Sources, WriteLine(s) PROVE IInv'
    <2>1. UNCHANGED <<pc, turn, attempt, answer, replies, rounds, workers, queue, expired>>
      BY <1>5 DEF WriteLine, caller_vars, asking_vars
    <2> QED BY <1>0, <2>1, OthersKeep
  <1> QED BY <1>1, <1>2, <1>3, <1>4, <1>5 DEF Worker

-----------------------------------------------------------------------------
(* The calling thread: an ask and what it brings. *)
LEMMA AskKeeps ==
  ASSUME IInv, Ask
  PROVE  IInv'
  <1>1. workers' \in [Calls -> WorkerState]
    BY CurrentIsCall DEF IInv, Ask, Shape, WorkerState
  <1>2. /\ pc = "ask" /\ pc' = "wait" /\ answer' = "none" /\ queue' = <<>> /\ expired' = FALSE
        /\ UNCHANGED <<turn, attempt, replies, rounds>>
    BY DEF Ask
  <1>3. Shape' /\ QueueIsOwn'
    BY <1>1, <1>2 DEF IInv, Shape, QueueIsOwn
  <1>4. InStep' /\ RepliesAreOwnAndInTime'
    BY <1>2 DEF IInv, InStep, Listening, RepliesAreOwnAndInTime
  <1> QED BY <1>3, <1>4 DEF IInv

LEMMA TakeKeeps ==
  ASSUME IInv, Take
  PROVE  IInv' /\ answer = "none" /\ answer' \in Heard
  <1>1. PICK e \in Entry : queue = <<e>> /\ e.call = current
    BY DEF IInv, QueueIsOwn, Take, Listening
  <1>2. /\ answer' = reading(e)
        /\ replies' = IF answer' \in {"action", "malformed"} THEN Append(replies, e)
                                                             ELSE replies
        /\ queue' = <<>> /\ pc' = "drain gateway"
        /\ UNCHANGED <<turn, attempt, rounds, expired, workers>>
    BY <1>1 DEF Take
  <1>3. answer = "none" /\ Len(replies) = attempt - 1 /\ Len(rounds) = turn
    BY DEF IInv, InStep, Listening, Take
  <1>4. answer' \in Heard
    BY <1>2, ReadingIsHeard
  <1>t. replies \in Seq(Entry) /\ attempt \in {1, 2}
    BY DEF IInv, Shape
  <1>r. /\ replies' \in Seq(Entry)
        /\ Len(replies') = IF answer' \in {"action", "malformed"} THEN attempt
                                                                  ELSE attempt - 1
    <2>1. CASE answer' \in {"action", "malformed"}
      <3>1. replies' = Append(replies, e)
        BY <1>2, <2>1
      <3>2. replies' \in Seq(Entry) /\ Len(replies') = Len(replies) + 1
        BY <3>1, <1>t, Appended
      <3> QED BY <1>3, <1>t, <2>1, <3>2
    <2>2. CASE answer' \notin {"action", "malformed"}
      BY <1>2, <1>3, <1>t, <2>2
    <2> QED BY <2>1, <2>2
  <1>5. Shape' /\ QueueIsOwn'
    BY <1>2, <1>4, <1>r DEF IInv, Shape, QueueIsOwn
  <1>6. InStep'
    BY <1>2, <1>3, <1>4, <1>r DEF InStep, Listening, Heard
  <1>7. RepliesAreOwnAndInTime'
    <2>1. CASE answer' \in {"action", "malformed"}
      <3>1. e.in_time /\ e.outcome.what = "response" /\ e.outcome.body # "secret"
        BY <1>2, <2>1, ReadingIsHeard
      <3>2. attempt = Len(replies) + 1
        BY <1>3, <1>t
      <3>3. e.call = <<turn, Len(replies) + 1>>
        BY <1>1, <3>2 DEF current
      <3>4. /\ DOMAIN replies' = DOMAIN replies \cup {Len(replies) + 1}
            /\ replies'[Len(replies) + 1] = e
            /\ \A k \in DOMAIN replies : k # Len(replies) + 1 /\ replies'[k] = replies[k]
        <4>1. replies' = Append(replies, e)
          BY <1>2, <2>1
        <4> QED BY <4>1, <1>t, Appended
      <3>5. UNCHANGED <<turn, rounds>>
        BY <1>2
      <3> QED BY <3>1, <3>3, <3>4, <3>5 DEF IInv, RepliesAreOwnAndInTime
    <2>2. CASE answer' \notin {"action", "malformed"}
      BY <1>2, <2>2 DEF IInv, RepliesAreOwnAndInTime
    <2> QED BY <2>1, <2>2
  <1> QED BY <1>3, <1>4, <1>5, <1>6, <1>7 DEF IInv

LEMMA WaitKeeps ==
  ASSUME IInv, GetExpires \/ GiveUp
  PROVE  IInv'
  <1> USE DEF IInv, Shape, QueueIsOwn, InStep, Listening, current,
              RepliesAreOwnAndInTime, Heard
  <1>1. CASE GetExpires
    BY <1>1 DEF GetExpires, asking_vars
  <1>2. CASE GiveUp
    BY <1>2 DEF GiveUp
  <1> QED BY <1>1, <1>2

(* The drain leaves the round as it is. *)
LEMMA DrainKeeps ==
  ASSUME IInv, NEW s \in Sources, ReadLog(s) \/ LogRefused(s)
  PROVE  IInv'
  <1>1. /\ UNCHANGED <<turn, attempt, answer, replies, rounds, expired, queue, workers>>
        /\ pc \in {"drain gateway", "drain guard"}
        /\ pc' \in {"drain guard", "conclude", "lost"}
    BY DEF ReadLog, LogRefused, Reading, After, Sources, asking_vars
  <1> QED BY <1>1 DEF IInv, Shape, QueueIsOwn, InStep, Listening, current,
                      RepliesAreOwnAndInTime

-----------------------------------------------------------------------------
(* The round is asked again, or is over. *)
LEMMA AskAgainKeeps ==
  ASSUME IInv, AskAgain
  PROVE  IInv'
  BY DEF IInv, AskAgain, may_retry, asking_vars, Shape, QueueIsOwn, InStep,
         Listening, RepliesAreOwnAndInTime

(* The round that is recorded. *)
Concluded == [answer |-> answer, attempts |-> attempt, replies |-> replies]

LEMMA ConcludeKeeps ==
  ASSUME IInv, Conclude
  PROVE  IInv'
  <1>1. /\ rounds' = Append(rounds, Concluded)
        /\ replies' = <<>>
        /\ UNCHANGED <<expired, queue, workers>>
    BY DEF Conclude, Concluded, asking_vars
  <1>n. /\ pc = "conclude" /\ answer # "closing"
        /\ \/ /\ turn' = turn + 1 /\ turn + 1 < BarsTotal /\ attempt' = 1
              /\ answer' = "none" /\ pc' = "ask"
           \/ /\ turn' = turn /\ attempt' = attempt
              /\ answer' = "closing" /\ pc' = "drain gateway"
    BY DEF Conclude
  <1>2. Concluded \in Round /\ Len(rounds) = turn
    BY DEF IInv, Conclude, Shape, InStep, Concluded, Round, Heard
  <1>t. rounds \in Seq(Round) /\ turn \in 0..(BarsTotal - 1) /\ BarsTotal \in Nat
    BY DEF IInv, Shape
  <1>3. rounds' \in Seq(Round) /\ Len(rounds') = turn + 1
    BY <1>1, <1>2, <1>t, Appended
  <1>4. Shape'
    <2>1. turn' \in 0..(BarsTotal - 1)
      <3>1. turn \in 0..(BarsTotal - 1) /\ BarsTotal \in Nat
        BY <1>t
      <3>2. \/ turn' = turn + 1 /\ turn + 1 < BarsTotal
            \/ turn' = turn
        BY <1>n
      <3> QED BY <3>1, <3>2
    <2>2. replies' \in Seq(Entry)
      <3>1. replies' = <<>>
        BY <1>1
      <3> QED BY <3>1
    <2> QED BY <1>1, <1>n, <1>3, <2>1, <2>2 DEF IInv, Shape
  <1>q. QueueIsOwn' /\ InStep'
    <2>1. QueueIsOwn'
      BY <1>1, <1>n DEF IInv, QueueIsOwn, Listening
    <2>2. Len(replies') = 0
      BY <1>1
    <2>3. Len(rounds') = turn + 1 /\ turn \in 0..(BarsTotal - 1)
      BY <1>3, <1>t
    <2>4. InStep'
      <3>1. CASE answer' = "none"
        <4>1. turn' = turn + 1 /\ attempt' = 1 /\ pc' = "ask"
          BY <1>n, <3>1
        <4> QED BY <2>2, <2>3, <3>1, <4>1 DEF InStep, Listening
      <3>2. CASE answer' = "closing"
        <4>1. pc' = "drain gateway"
          BY <1>n, <3>2
        <4> QED BY <3>2, <4>1 DEF InStep, Listening
      <3> QED BY <1>n, <3>1, <3>2
    <2> QED BY <2>1, <2>4
  <1>5. RepliesAreOwnAndInTime'
    <2>1. /\ DOMAIN rounds' = DOMAIN rounds \cup {turn + 1}
          /\ rounds'[turn + 1] = Concluded
          /\ \A t \in DOMAIN rounds : t # turn + 1 /\ rounds'[t] = rounds[t]
      <3>1. rounds' = Append(rounds, Concluded)
        BY <1>1
      <3> QED BY <3>1, <1>2, <1>t, Appended
    <2>2. Concluded.replies = replies /\ (turn + 1) - 1 = turn
      BY <1>t DEF Concluded
    <2>3. DOMAIN replies' = {}
      <3>1. replies' = <<>>
        BY <1>1
      <3> QED BY <3>1
    <2> QED BY <2>1, <2>2, <2>3 DEF IInv, RepliesAreOwnAndInTime
  <1> QED BY <1>4, <1>5, <1>q DEF IInv

LEMMA CloseKeeps ==
  ASSUME IInv, Close
  PROVE  IInv'
  BY DEF IInv, Close, asking_vars, Shape, QueueIsOwn, InStep, Listening, current,
         RepliesAreOwnAndInTime

LEMMA Inductive == Spec => []IInv
  <1>1. IInv /\ [Next]_vars => IInv'
    <2> SUFFICES ASSUME IInv, [Next]_vars PROVE IInv'
      OBVIOUS
    <2>1. CASE UNCHANGED vars
      <3>1. UNCHANGED <<pc, turn, attempt, answer, replies, rounds, workers, queue, expired>>
        BY <2>1 DEF vars, caller_vars, asking_vars
      <3>2. workers \in [Calls -> WorkerState] /\ expired \in BOOLEAN /\ QueueIsOwn
        BY DEF IInv, Shape
      <3> QED BY <3>1, <3>2, OthersKeep DEF QueueIsOwn, Listening, current
    <2>2. CASE Next
      BY <2>1, <2>2, WorkersKeep, AskKeeps, TakeKeeps, WaitKeeps, DrainKeeps,
         AskAgainKeeps, ConcludeKeeps, CloseKeeps DEF Next, Caller, Returned
    <2> QED BY <2>1, <2>2
  <1> QED BY <1>1, InitHolds, PTL DEF Spec

(* A recorded reply came for that very ask, before its deadline, and holds *)
(* nothing protected (HTTPAgent.decide, its worker and _request_decision). *)
THEOREM RepliesAreOwnAndInTimeHolds == Spec => []RepliesAreOwnAndInTime
  <1>1. IInv => RepliesAreOwnAndInTime
    BY DEF IInv
  <1> QED BY <1>1, Inductive, PTL

-----------------------------------------------------------------------------
(* The refinement of AgentProtocol: the values its variables are mapped to. *)
Asked == IF ~RoundOpen THEN 0 ELSE IF pc = "ask" THEN attempt - 1 ELSE attempt

Heeded == IF RoundOpen THEN answer ELSE "none"

verdict_of(round) ==
  [reason   |-> round.answer,
   kind     |-> CASE round.answer = "action" -> "action"
                 [] round.answer = "malformed" -> "invalid"
                 [] OTHER -> "missed",
   attempts |-> round.attempts,
   replies  |-> Len(round.replies)]

Verdicts == [t \in DOMAIN rounds |-> verdict_of(rounds[t])]

(* The actions of the protocol in these terms. *)
LEMMA ProtocolSteps ==
  /\ Asked = 0 /\ Asked' = 1 /\ Heeded' = Heeded /\ Verdicts' = Verdicts
       => Protocol!Next
  /\ Asked > 0 /\ Heeded = "none" /\ Heeded' \in Heard
       /\ Asked' = Asked /\ Verdicts' = Verdicts
       => Protocol!Next
  /\ Asked = 1 /\ Heeded = "malformed" /\ Retries > 0
       /\ Asked' = 2 /\ Heeded' = "none" /\ Verdicts' = Verdicts
       => Protocol!Next
  /\ Heeded # "none" /\ ~(Asked = 1 /\ Heeded = "malformed" /\ Retries > 0)
       /\ Verdicts' = Append(Verdicts, Protocol!Verdict(Heeded, Asked))
       /\ Asked' = 0 /\ Heeded' = "none"
       => Protocol!Next
  /\ Asked' = Asked /\ Heeded' = Heeded /\ Verdicts' = Verdicts
       => UNCHANGED Protocol!vars
  BY DEF Protocol!Next, Protocol!Ask, Protocol!Hear, Protocol!AskAgain,
         Protocol!Conclude, Protocol!MayRetry, Protocol!vars, Protocol!Answers,
         Heard, Asked, Heeded, Verdicts, verdict_of

LEMMA ProtocolInit == Init => Protocol!Init
  <1> SUFFICES ASSUME Init PROVE Protocol!Init
    OBVIOUS
  <1>1. Asked = 0 /\ Heeded = "none"
    BY DEF Init, Asked, Heeded, RoundOpen
  <1>2. Verdicts = <<>>
    BY DEF Init, Verdicts
  <1> QED BY <1>1, <1>2 DEF Protocol!Init, Asked, Heeded, Verdicts, verdict_of

(* Nothing but the round's own steps shows in the protocol. *)
LEMMA StutterSteps ==
  ASSUME IInv,
         \/ UNCHANGED <<pc, attempt, answer, rounds>>
         \/ /\ pc \notin {"ask", "over"} /\ pc' \notin {"ask", "over"}
            /\ UNCHANGED <<attempt, answer, rounds>>
         \/ AskAgain \/ Close
  PROVE  UNCHANGED Protocol!vars
  <1>1. rounds' = rounds /\ Asked' = Asked /\ Heeded' = Heeded
    <2>1. CASE UNCHANGED <<pc, attempt, answer, rounds>>
      BY <2>1 DEF Asked, Heeded, RoundOpen
    <2>2. CASE /\ pc \notin {"ask", "over"} /\ pc' \notin {"ask", "over"}
               /\ UNCHANGED <<attempt, answer, rounds>>
      BY <2>2 DEF Asked, Heeded, RoundOpen
    <2>3. CASE AskAgain
      <3>1. /\ pc = "conclude" /\ pc' = "ask" /\ attempt = 1 /\ attempt' = 2
            /\ answer' = answer /\ answer = "malformed" /\ rounds' = rounds
        BY <2>3 DEF AskAgain, may_retry
      <3> QED BY <3>1 DEF Asked, Heeded, RoundOpen
    <2>4. CASE Close
      <3>1. answer = "closing" /\ answer' = "closing" /\ rounds' = rounds
        BY <2>4 DEF Close
      <3> QED BY <3>1 DEF Asked, Heeded, RoundOpen
    <2> QED BY <2>1, <2>2, <2>3, <2>4
  <1> QED BY <1>1, ProtocolSteps DEF Verdicts

LEMMA AskSteps ==
  ASSUME IInv, Ask
  PROVE  Protocol!Next
  <1>1. /\ pc = "ask" /\ pc' = "wait" /\ answer' = "none"
        /\ attempt' = attempt /\ rounds' = rounds
    BY DEF Ask
  <1>2. RoundOpen /\ RoundOpen'
    BY <1>1 DEF IInv, InStep, RoundOpen
  <1>3. Asked = attempt - 1 /\ Asked' = attempt /\ Heeded = answer /\ Heeded' = "none"
    BY <1>1, <1>2 DEF Asked, Heeded
  <1>4. Verdicts' = Verdicts
    BY <1>1 DEF Verdicts
  <1>5. \/ attempt = 1 /\ answer = "none"
        \/ attempt = 2 /\ answer = "malformed" /\ Retries > 0
    BY <1>1 DEF IInv, InStep
  <1> QED BY <1>3, <1>4, <1>5, ProtocolSteps

LEMMA HearSteps ==
  ASSUME IInv, Take \/ GiveUp
  PROVE  Protocol!Next
  <1>1. /\ pc \in {"wait", "last look"} /\ pc' = "drain gateway"
        /\ attempt' = attempt /\ rounds' = rounds
    BY DEF Take, GiveUp
  <1>2. answer = "none" /\ answer' \in Heard /\ attempt \in {1, 2}
    BY TakeKeeps DEF GiveUp, Heard, IInv, Shape, InStep, Listening
  <1>3. RoundOpen /\ RoundOpen'
    BY <1>1, <1>2 DEF RoundOpen, Heard
  <1>4. Asked = attempt /\ Asked' = attempt /\ Heeded = "none" /\ Heeded' = answer'
    BY <1>1, <1>2, <1>3 DEF Asked, Heeded
  <1>5. Verdicts' = Verdicts
    BY <1>1 DEF Verdicts
  <1> QED BY <1>2, <1>4, <1>5, ProtocolSteps

LEMMA ConcludeSteps ==
  ASSUME IInv, Conclude
  PROVE  Protocol!Next
  <1>1. /\ pc = "conclude" /\ answer # "closing" /\ ~may_retry
        /\ \/ attempt' = 1 /\ answer' = "none" /\ pc' = "ask"
           \/ answer' = "closing" /\ pc' = "drain gateway"
    BY DEF Conclude
  <1>2. /\ answer \in Heard /\ attempt \in {1, 2} /\ rounds \in Seq(Round)
        /\ Len(replies) = IF answer \in {"action", "malformed"} THEN attempt
                                                               ELSE attempt - 1
    BY <1>1 DEF IInv, Shape, InStep
  <1>3. RoundOpen /\ Asked = attempt /\ Heeded = answer
    BY <1>1 DEF RoundOpen, Asked, Heeded
  <1>4. Asked' = 0 /\ Heeded' = "none"
    <2>1. CASE answer' = "none" /\ pc' = "ask" /\ attempt' = 1
      BY <2>1 DEF RoundOpen, Asked, Heeded
    <2>2. CASE answer' = "closing"
      BY <2>2 DEF RoundOpen, Asked, Heeded
    <2> QED BY <1>1, <2>1, <2>2
  <1>5. Heeded # "none" /\ ~(Asked = 1 /\ Heeded = "malformed" /\ Retries > 0)
    BY <1>1, <1>2, <1>3 DEF may_retry, Heard
  <1>6. verdict_of(Concluded) = Protocol!Verdict(answer, attempt)
    BY <1>2 DEF verdict_of, Concluded, Protocol!Verdict, Heard
  <1>7. Concluded \in Round
    BY <1>2 DEF IInv, Shape, Concluded, Round
  <1>8. /\ DOMAIN rounds' = DOMAIN rounds \cup {Len(rounds) + 1}
        /\ rounds'[Len(rounds) + 1] = Concluded
        /\ \A t \in DOMAIN rounds : t # Len(rounds) + 1 /\ rounds'[t] = rounds[t]
    <2>1. rounds' = Append(rounds, Concluded)
      BY DEF Conclude, Concluded
    <2> QED BY <1>2, <1>7, <2>1, Appended
  <1>9. Verdicts' = Append(Verdicts, verdict_of(Concluded))
    <2> DEFINE found == {verdict_of(rounds[t]) : t \in DOMAIN rounds}
                          \cup {verdict_of(Concluded)}
               longer == Append(Verdicts, verdict_of(Concluded))
    <2>1. /\ Verdicts \in Seq(found)
          /\ DOMAIN Verdicts = 1..Len(rounds) /\ Len(Verdicts) = Len(rounds)
      BY <1>2, LenProperties DEF Verdicts
    <2>2. /\ longer = [k \in 1..(Len(rounds) + 1) |-> longer[k]]
          /\ longer[Len(rounds) + 1] = verdict_of(Concluded)
          /\ \A k \in 1..Len(rounds) : longer[k] = Verdicts[k]
      <3>1. verdict_of(Concluded) \in found
        OBVIOUS
      <3>2. longer \in Seq(found) /\ Len(longer) = Len(rounds) + 1
        BY <2>1, <3>1, AppendProperties
      <3>3. longer = [k \in 1..(Len(rounds) + 1) |-> longer[k]]
        BY <3>2, LenProperties
      <3> HIDE DEF found
      <3> QED BY <2>1, <3>1, <3>3, AppendProperties
    <2>3. Verdicts' = [t \in DOMAIN rounds' |-> verdict_of(rounds'[t])]
      BY DEF Verdicts, verdict_of
    <2>4. DOMAIN rounds' = 1..(Len(rounds) + 1) /\ DOMAIN rounds = 1..Len(rounds)
      BY <1>2, <1>8, LenProperties
    <2> QED BY <1>8, <2>1, <2>2, <2>3, <2>4 DEF Verdicts
  <1> QED BY <1>3, <1>4, <1>5, <1>6, <1>9, ProtocolSteps

(* The rounds of an episode are rounds of the protocol: one verdict each,  *)
(* a second ask only after a malformed answer (_request_decision).         *)
THEOREM RoundsKeepProtocol == Spec => KeepsProtocol
  <1>1. IInv /\ [Next]_vars => [Protocol!Next]_(Protocol!vars)
    <2> SUFFICES ASSUME IInv, [Next]_vars
                 PROVE  Protocol!Next \/ UNCHANGED Protocol!vars
      OBVIOUS
    <2>1. CASE Worker
      BY <2>1, StutterSteps DEF Worker, Install, Exchange, Put, caller_vars
    <2>2. CASE DeadlinePasses \/ \E s \in Sources : WriteLine(s)
      BY <2>2, StutterSteps DEF DeadlinePasses, WriteLine, caller_vars
    <2>3. CASE GetExpires \/ \E s \in Sources : ReadLog(s) \/ LogRefused(s)
      BY <2>3, StutterSteps DEF GetExpires, ReadLog, LogRefused, Reading, After, Sources
    <2>4. CASE Ask \/ Take \/ GiveUp
      BY <2>4, AskSteps, HearSteps
    <2>5. CASE AskAgain \/ Close \/ Conclude
      BY <2>5, StutterSteps, ConcludeSteps
    <2>6. CASE UNCHANGED vars
      BY <2>6, StutterSteps DEF vars, caller_vars
    <2> QED BY <2>1, <2>2, <2>3, <2>4, <2>5, <2>6 DEF Next, Caller, Returned
  <1> QED BY <1>1, Inductive, ProtocolInit, PTL DEF Spec, KeepsProtocol, Protocol!Spec

-----------------------------------------------------------------------------
(* Every block record is counted once. *)

(* The positions of a destination in a list of lines. *)
spots(lines, d) == {i \in DOMAIN lines : lines[i] = d}

(* Moving or numbering the members of a finite set keeps their number. *)
LEMMA Shifted ==
  ASSUME NEW n \in Nat, NEW A, A \subseteq Nat, IsFiniteSet(A)
  PROVE  /\ IsFiniteSet({n + i : i \in A})
         /\ Cardinality({n + i : i \in A}) = Cardinality(A)
  <1> DEFINE B == {n + i : i \in A}
             f == [i \in A |-> n + i]
  <1>1. f \in Bijection(A, B)
    <2>1. f \in [A -> B] /\ \A i \in A : f[i] = n + i
      OBVIOUS
    <2>2. ASSUME NEW i \in A, NEW j \in A, f[i] = f[j] PROVE i = j
      <3>1. n + i = n + j
        BY <2>1, <2>2
      <3>2. i \in Nat /\ j \in Nat
        OBVIOUS
      <3> QED BY <3>1, <3>2
    <2>3. \A b \in B : \E i \in A : f[i] = b
      BY <2>1
    <2> HIDE DEF f, B
    <2> QED BY <2>1, <2>2, <2>3 DEF Bijection, Injection, Surjection, IsInjective
  <1>2. ExistsBijection(A, B)
    BY <1>1 DEF ExistsBijection
  <1> QED BY <1>2, FS_Bijection

LEMMA Numbered ==
  ASSUME NEW r, NEW n \in Nat
  PROVE  /\ IsFiniteSet({<<r, k>> : k \in 1..n})
         /\ Cardinality({<<r, k>> : k \in 1..n}) = n
  <1> DEFINE A == 1..n
             B == {<<r, k>> : k \in 1..n}
             f == [k \in A |-> <<r, k>>]
  <1>1. f \in Bijection(A, B)
    <2>1. f \in [A -> B] /\ \A k \in A : f[k] = <<r, k>>
      OBVIOUS
    <2>2. \A i, j \in A : f[i] = f[j] => i = j
      BY <2>1
    <2>3. \A b \in B : \E k \in A : f[k] = b
      BY <2>1
    <2> HIDE DEF f, B, A
    <2> QED BY <2>1, <2>2, <2>3 DEF Bijection, Injection, Surjection, IsInjective
  <1>2. ExistsBijection(A, B)
    BY <1>1 DEF ExistsBijection
  <1>3. IsFiniteSet(A) /\ Cardinality(A) = n
    BY FS_Interval
  <1> QED BY <1>2, <1>3, FS_Bijection

LEMMA SpotsAreFinite ==
  ASSUME NEW S, NEW lines \in Seq(S), NEW d
  PROVE  /\ spots(lines, d) \subseteq 1..Len(lines) /\ Len(lines) \in Nat
         /\ IsFiniteSet(spots(lines, d))
         /\ Occurrences(lines, d) \in Nat
         /\ Occurrences(lines, d) = Cardinality(spots(lines, d))
  <1>1. spots(lines, d) \subseteq 1..Len(lines) /\ Len(lines) \in Nat
    BY LenProperties DEF spots
  <1>2. IsFiniteSet(1..Len(lines))
    BY <1>1, FS_Interval
  <1>3. IsFiniteSet(spots(lines, d))
    BY <1>1, <1>2, FS_Subset
  <1>4. Cardinality(spots(lines, d)) \in Nat
    BY <1>3, FS_CardinalityType
  <1> QED BY <1>1, <1>3, <1>4 DEF Occurrences, spots

(* What two lists have together is what they have in a row. *)
LEMMA OccurrencesAdd ==
  ASSUME NEW S, NEW s \in Seq(S), NEW t \in Seq(S), NEW d
  PROVE  Occurrences(s \o t, d) = Occurrences(s, d) + Occurrences(t, d)
  <1> DEFINE n == Len(s)
             left == spots(s, d)
             right == {n + i : i \in spots(t, d)}
  <1>1. /\ s \o t \in Seq(S) /\ Len(s \o t) = n + Len(t)
        /\ \A i \in 1..(n + Len(t)) : (s \o t)[i] = IF i <= n THEN s[i] ELSE t[i - n]
    BY ConcatProperties
  <1>2. /\ n \in Nat /\ Len(t) \in Nat
        /\ DOMAIN s = 1..n /\ DOMAIN t = 1..Len(t) /\ DOMAIN (s \o t) = 1..(n + Len(t))
    BY <1>1, LenProperties
  <1>3. spots(s \o t, d) = left \cup right
    <2>1. ASSUME NEW i \in spots(s \o t, d) PROVE i \in left \cup right
      <3>1. i \in 1..(n + Len(t)) /\ (s \o t)[i] = d
        BY <1>2, <2>1 DEF spots
      <3>2. CASE i <= n
        BY <1>1, <1>2, <3>1, <3>2 DEF spots
      <3>3. CASE i > n
        <4>1. i - n \in 1..Len(t) /\ t[i - n] = d /\ i = n + (i - n)
          BY <1>1, <1>2, <3>1, <3>3
        <4>2. i - n \in spots(t, d)
          BY <1>2, <4>1 DEF spots
        <4> QED BY <4>1, <4>2
      <3> QED BY <1>2, <3>1, <3>2, <3>3
    <2>2. ASSUME NEW i \in left PROVE i \in spots(s \o t, d)
      BY <1>1, <1>2, <2>2 DEF spots
    <2>3. ASSUME NEW i \in right PROVE i \in spots(s \o t, d)
      <3>1. PICK j \in spots(t, d) : i = n + j
        BY <2>3
      <3>2. j \in 1..Len(t) /\ t[j] = d
        BY <1>2, <3>1 DEF spots
      <3>3. i \in 1..(n + Len(t)) /\ ~(i <= n) /\ i - n = j
        BY <1>2, <3>1, <3>2
      <3> QED BY <1>1, <1>2, <3>2, <3>3 DEF spots
    <2> QED BY <2>1, <2>2, <2>3
  <1>4. left \subseteq 1..n /\ spots(t, d) \subseteq 1..Len(t)
        /\ IsFiniteSet(left) /\ IsFiniteSet(spots(t, d))
    BY SpotsAreFinite
  <1>5. left \cap right = {}
    <2> SUFFICES ASSUME NEW i \in left, i \in right PROVE FALSE
      OBVIOUS
    <2>1. PICK j \in spots(t, d) : i = n + j
      OBVIOUS
    <2>2. j \in 1..Len(t) /\ i \in 1..n
      BY <1>4
    <2> QED BY <1>2, <2>1, <2>2
  <1>6. IsFiniteSet(right) /\ Cardinality(right) = Cardinality(spots(t, d))
    <2>1. spots(t, d) \subseteq Nat
      BY <1>2, <1>4
    <2> QED BY <1>2, <1>4, <2>1, Shifted
  <1>7. /\ Occurrences(s, d) \in Nat /\ Occurrences(t, d) \in Nat
        /\ Occurrences(s, d) = Cardinality(left)
        /\ Occurrences(t, d) = Cardinality(spots(t, d))
        /\ Occurrences(s \o t, d) = Cardinality(spots(s \o t, d))
    BY <1>1, SpotsAreFinite
  <1> HIDE DEF left, right, n
  <1>8. Cardinality(left \cup right)
          = Cardinality(left) + Cardinality(right) - Cardinality(left \cap right)
    BY <1>4, <1>6, FS_Union
  <1>9. Cardinality({}) = 0
    BY FS_EmptySet
  <1>10. Cardinality(spots(s \o t, d)) = Cardinality(left) + Cardinality(right)
    <2>1. Cardinality(left) \in Nat /\ Cardinality(right) \in Nat
      BY <1>6, <1>7
    <2>2. Cardinality(left \cup right) = Cardinality(left) + Cardinality(right) - 0
      BY <1>5, <1>8, <1>9
    <2> QED BY <1>3, <2>1, <2>2
  <1> QED BY <1>6, <1>7, <1>10

LEMMA NoOccurrence ==
  ASSUME NEW d
  PROVE  Occurrences(<<>>, d) = 0
  <1>1. {i \in DOMAIN <<>> : <<>>[i] = d} = {}
    OBVIOUS
  <1> QED BY <1>1, FS_EmptySet DEF Occurrences

(* One more fact has the records of its own count. *)
LEMMA RecordedMore ==
  ASSUME facts \in Seq([Destinations -> Nat]), NEW f \in [Destinations -> Nat],
         facts' = Append(facts, f), NEW d \in Destinations, IsFiniteSet(Recorded(d))
  PROVE  /\ IsFiniteSet(Recorded(d)')
         /\ Cardinality(Recorded(d)') = Cardinality(Recorded(d)) + f[d]
  <1> DEFINE last == Len(facts) + 1
             added == {<<last, k>> : k \in 1..f[d]}
  <1>1. /\ DOMAIN facts' = DOMAIN facts \cup {last} /\ facts'[last] = f
        /\ \A r \in DOMAIN facts : r # last /\ facts'[r] = facts[r]
    BY Appended
  <1>2. Recorded(d)' = Recorded(d) \cup added
    BY <1>1 DEF Recorded
  <1>3. Recorded(d) \cap added = {}
    BY <1>1 DEF Recorded
  <1>4. f[d] \in Nat
    OBVIOUS
  <1>5. IsFiniteSet(added) /\ Cardinality(added) = f[d]
    BY <1>4, Numbered
  <1> HIDE DEF added, last
  <1>6. /\ IsFiniteSet(Recorded(d) \cup added)
        /\ Cardinality(Recorded(d) \cup added)
             = Cardinality(Recorded(d)) + Cardinality(added)
                 - Cardinality(Recorded(d) \cap added)
    BY <1>5, FS_Union
  <1>7. Cardinality({}) = 0 /\ Cardinality(Recorded(d)) \in Nat
    BY FS_EmptySet, FS_CardinalityType
  <1>8. Cardinality(Recorded(d) \cup added) = Cardinality(Recorded(d)) + f[d] - 0
    BY <1>3, <1>5, <1>6, <1>7
  <1>9. Cardinality(Recorded(d) \cup added) = Cardinality(Recorded(d)) + f[d]
    BY <1>4, <1>7, <1>8
  <1> QED BY <1>2, <1>6, <1>9

(* A log that has kept what was read is that and what is new. *)
LEMMA LogGrown ==
  ASSUME NEW S, NEW old \in Seq(S), NEW all \in Seq(S), IsPrefix(old, all)
  PROVE  /\ SubSeq(all, Len(old) + 1, Len(all)) \in Seq(S)
         /\ all = old \o SubSeq(all, Len(old) + 1, Len(all))
  <1> DEFINE n == Len(old)
             m == Len(all)
  <1>1. n \in Nat /\ m \in Nat /\ n <= m
    BY LenProperties DEF IsPrefix
  <1>2. SubSeq(all, 1, n) \o SubSeq(all, n + 1, m) = SubSeq(all, 1, m)
    <2>1. /\ 1 \in 1..(m + 1) /\ n \in (1 - 1)..m /\ m \in n..m
      BY <1>1
    <2> QED BY <2>1, ConcatAdjacentSubSeq
  <1>3. SubSeq(all, 1, m) = all /\ SubSeq(old, 1, n) = old
    BY SubSeqFull
  <1>4. SubSeq(all, 1, n) = old
    BY <1>3 DEF IsPrefix
  <1>5. SubSeq(all, n + 1, m) \in Seq(S)
    <2>1. \A i \in (n + 1)..m : all[i] \in S
      BY <1>1, ElementOfSeq
    <2> QED BY <1>1, <2>1, SubSeqProperties
  <1> QED BY <1>2, <1>3, <1>4, <1>5

(* The lines of the logs, and what has been made of them. *)
LogsAre ==
  /\ log \in [Sources -> Seq(Lines)]
  /\ pc # "lost" =>
       /\ prior_lines \in [Sources -> Seq(Lines)]
       /\ buffer \in Seq(Lines) /\ collected \in Seq(Lines)
       /\ facts \in Seq([Destinations -> Nat])
       /\ \A d \in Destinations : IsFiniteSet(Recorded(d))

Counted == LogsAre /\ CountsAreTheLog

LEMMA CountedInit == Init => Counted
  <1> SUFFICES ASSUME Init PROVE Counted
    OBVIOUS
  <1>1. /\ log = [s \in Sources |-> <<>>] /\ prior_lines = [s \in Sources |-> <<>>]
        /\ buffer = <<>> /\ collected = <<>> /\ facts = <<>>
    BY DEF Init
  <1>2. \A d : Recorded(d) = {}
    BY <1>1 DEF Recorded
  <1>3. LogsAre
    <2>1. /\ log \in [Sources -> Seq(Lines)] /\ prior_lines \in [Sources -> Seq(Lines)]
          /\ buffer \in Seq(Lines) /\ collected \in Seq(Lines)
          /\ facts \in Seq([Destinations -> Nat])
      BY <1>1
    <2>2. \A d \in Destinations : IsFiniteSet(Recorded(d))
      BY <1>2, FS_EmptySet
    <2> QED BY <2>1, <2>2 DEF LogsAre
  <1>4. /\ prior_lines["gateway"] = <<>> /\ prior_lines["guard"] = <<>>
    BY <1>1 DEF Sources
  <1>5. ASSUME NEW d \in Destinations
        PROVE  Cardinality(Recorded(d))
                 + Occurrences(collected, d) + Occurrences(buffer, d)
               = Occurrences(prior_lines["gateway"], d)
                   + Occurrences(prior_lines["guard"], d)
    <2>1. Cardinality(Recorded(d)) = 0 /\ Occurrences(<<>>, d) = 0
      BY <1>2, FS_EmptySet, NoOccurrence
    <2> QED BY <1>1, <1>4, <2>1
  <1> QED BY <1>3, <1>5 DEF Counted, CountsAreTheLog

(* What reads nothing and records nothing changes nothing of it. *)
LEMMA CountedSame ==
  ASSUME Counted, log' \in [Sources -> Seq(Lines)],
         UNCHANGED <<prior_lines, buffer, collected, facts>>,
         pc' # "lost" => pc # "lost"
  PROVE  Counted'
  <1>1. \A d : Recorded(d)' = Recorded(d)
    BY DEF Recorded
  <1>2. LogsAre'
    BY <1>1 DEF Counted, LogsAre
  <1>3. CountsAreTheLog'
    BY <1>1 DEF Counted, CountsAreTheLog, Occurrences
  <1> QED BY <1>2, <1>3 DEF Counted

LEMMA CountedRead ==
  ASSUME Counted, NEW s \in Sources, ReadLog(s), pc # "lost"
  PROVE  Counted'
  <1>1. CASE pc' = "lost"
    BY <1>1 DEF Counted, LogsAre, CountsAreTheLog, ReadLog, log_vars
  <1>2. CASE pc' # "lost"
    <2>1. /\ buffer' = buffer \o new_lines(s)
          /\ prior_lines' = [prior_lines EXCEPT ![s] = log[s]]
          /\ UNCHANGED <<log, collected, facts>>
          /\ IsPrefix(prior_lines[s], log[s])
      BY <1>2 DEF ReadLog, log_vars
    <2>2. /\ log \in [Sources -> Seq(Lines)] /\ prior_lines \in [Sources -> Seq(Lines)]
          /\ buffer \in Seq(Lines) /\ collected \in Seq(Lines)
          /\ facts \in Seq([Destinations -> Nat])
          /\ \A d \in Destinations : IsFiniteSet(Recorded(d))
      BY DEF Counted, LogsAre
    <2>3. /\ new_lines(s) \in Seq(Lines)
          /\ log[s] = prior_lines[s] \o new_lines(s)
      BY <2>1, <2>2, LogGrown DEF new_lines
    <2>4. \A d : Recorded(d)' = Recorded(d)
      BY <2>1 DEF Recorded
    <2>5. LogsAre'
      <3>1. buffer' \in Seq(Lines) /\ prior_lines' \in [Sources -> Seq(Lines)]
        BY <2>1, <2>2, <2>3, ConcatProperties
      <3> QED BY <2>1, <2>2, <2>4, <3>1 DEF LogsAre
    <2>6. ASSUME NEW d \in Destinations
          PROVE  Cardinality(Recorded(d)')
                   + Occurrences(collected', d) + Occurrences(buffer', d)
                 = Occurrences(prior_lines'["gateway"], d)
                     + Occurrences(prior_lines'["guard"], d)
      <3> DEFINE new == Occurrences(new_lines(s), d)
                 rec == Cardinality(Recorded(d))
                 col == Occurrences(collected, d)
                 buf == Occurrences(buffer, d)
                 gat == Occurrences(prior_lines["gateway"], d)
                 gua == Occurrences(prior_lines["guard"], d)
      <3>1. /\ Occurrences(buffer', d) = buf + new
            /\ Occurrences(log[s], d) = Occurrences(prior_lines[s], d) + new
        BY <2>1, <2>2, <2>3, OccurrencesAdd
      <3>2. rec + col + buf = gat + gua
        BY DEF Counted, CountsAreTheLog
      <3>3. /\ rec \in Nat /\ col \in Nat /\ buf \in Nat /\ gat \in Nat /\ gua \in Nat
            /\ new \in Nat
        <4>1. rec \in Nat
          BY <2>2, FS_CardinalityType
        <4>2. prior_lines["gateway"] \in Seq(Lines) /\ prior_lines["guard"] \in Seq(Lines)
          BY <2>2 DEF Sources
        <4> QED BY <2>2, <2>3, <4>1, <4>2, SpotsAreFinite
      <3>4. Occurrences(prior_lines'["gateway"], d)
              = IF s = "gateway" THEN gat + new ELSE gat
        BY <2>1, <2>2, <3>1 DEF Sources
      <3>5. Occurrences(prior_lines'["guard"], d)
              = IF s = "guard" THEN gua + new ELSE gua
        BY <2>1, <2>2, <3>1 DEF Sources
      <3>6. Cardinality(Recorded(d)') = rec /\ Occurrences(collected', d) = col
        BY <2>1, <2>4
      <3> HIDE DEF new, rec, col, buf, gat, gua
      <3>7. CASE s = "gateway"
        <4>1. Occurrences(prior_lines'["gateway"], d) = gat + new
          BY <3>4, <3>7
        <4>2. Occurrences(prior_lines'["guard"], d) = gua
          BY <3>5, <3>7
        <4> QED BY <3>1, <3>2, <3>3, <3>6, <4>1, <4>2
      <3>8. CASE s = "guard"
        <4>1. Occurrences(prior_lines'["gateway"], d) = gat
          BY <3>4, <3>8
        <4>2. Occurrences(prior_lines'["guard"], d) = gua + new
          BY <3>5, <3>8
        <4> QED BY <3>1, <3>2, <3>3, <3>6, <4>1, <4>2
      <3> QED BY <3>7, <3>8 DEF Sources
    <2> QED BY <2>5, <2>6 DEF Counted, CountsAreTheLog
  <1> QED BY <1>1, <1>2

(* The drain of an ask is kept for the round. *)
LEMMA CountedKept ==
  ASSUME Counted, pc # "lost", pc' # "lost", UNCHANGED <<log, prior_lines>>,
         buffer' = <<>>,
         \/ collected' = drained /\ facts' = facts
         \/ collected' = <<>> /\ facts' = Append(facts, coalesced(drained))
  PROVE  Counted'
  <1>1. /\ log \in [Sources -> Seq(Lines)] /\ prior_lines \in [Sources -> Seq(Lines)]
        /\ buffer \in Seq(Lines) /\ collected \in Seq(Lines)
        /\ facts \in Seq([Destinations -> Nat])
        /\ \A d \in Destinations : IsFiniteSet(Recorded(d))
    BY DEF Counted, LogsAre
  <1>2. /\ drained \in Seq(Lines)
        /\ \A d : Occurrences(drained, d) = Occurrences(collected, d) + Occurrences(buffer, d)
    BY <1>1, ConcatProperties, OccurrencesAdd DEF drained
  <1>3. ASSUME NEW d \in Destinations
        PROVE  /\ IsFiniteSet(Recorded(d)')
               /\ Cardinality(Recorded(d)') + Occurrences(collected', d)
                    = Cardinality(Recorded(d)) + Occurrences(drained, d)
    <2>1. CASE collected' = drained /\ facts' = facts
      <3>1. Recorded(d)' = Recorded(d)
        BY <2>1 DEF Recorded
      <3> QED BY <1>1, <2>1, <3>1
    <2>2. CASE collected' = <<>> /\ facts' = Append(facts, coalesced(drained))
      <3>1. /\ coalesced(drained) \in [Destinations -> Nat]
            /\ coalesced(drained)[d] = Occurrences(drained, d)
        <4>1. \A e \in Destinations : Occurrences(drained, e) \in Nat
          BY <1>2, SpotsAreFinite
        <4>2. coalesced(drained) = [e \in Destinations |-> Occurrences(drained, e)]
          BY DEF coalesced, Occurrences
        <4> QED BY <4>1, <4>2
      <3>2. IsFiniteSet(Recorded(d))
        BY <1>1
      <3>3. /\ IsFiniteSet(Recorded(d)')
            /\ Cardinality(Recorded(d)') = Cardinality(Recorded(d)) + coalesced(drained)[d]
        BY <1>1, <2>2, <3>1, <3>2, RecordedMore
      <3>4. Occurrences(collected', d) = 0
        BY <2>2, NoOccurrence
      <3>5. Cardinality(Recorded(d)) \in Nat /\ Occurrences(drained, d) \in Nat
        BY <1>2, <3>2, FS_CardinalityType, SpotsAreFinite
      <3> QED BY <3>1, <3>3, <3>4, <3>5
    <2> QED BY <2>1, <2>2
  <1>4. LogsAre'
    <2>1. coalesced(drained) \in [Destinations -> Nat]
      <3>1. \A e \in Destinations : Occurrences(drained, e) \in Nat
        BY <1>2, SpotsAreFinite
      <3> QED BY <3>1 DEF coalesced, Occurrences
    <2>2. Append(facts, coalesced(drained)) \in Seq([Destinations -> Nat])
      BY <1>1, <2>1, Appended
    <2>3. <<>> \in Seq(Lines)
      OBVIOUS
    <2>4. buffer' \in Seq(Lines)
      BY <2>3
    <2>5. collected' \in Seq(Lines) /\ facts' \in Seq([Destinations -> Nat])
      <3>1. CASE collected' = drained /\ facts' = facts
        BY <1>1, <1>2, <3>1
      <3>2. CASE collected' = <<>> /\ facts' = Append(facts, coalesced(drained))
        BY <2>2, <2>3, <3>2
      <3> QED BY <3>1, <3>2
    <2> QED BY <1>1, <1>3, <2>4, <2>5 DEF LogsAre
  <1>5. ASSUME NEW d \in Destinations
        PROVE  Cardinality(Recorded(d)')
                 + Occurrences(collected', d) + Occurrences(buffer', d)
               = Occurrences(prior_lines'["gateway"], d)
                   + Occurrences(prior_lines'["guard"], d)
    <2>1. Cardinality(Recorded(d)') + Occurrences(collected', d)
            = Cardinality(Recorded(d)) + (Occurrences(collected, d) + Occurrences(buffer, d))
      BY <1>2, <1>3
    <2>2. Occurrences(buffer', d) = 0
      BY NoOccurrence
    <2>3. Cardinality(Recorded(d)) + Occurrences(collected, d) + Occurrences(buffer, d)
            = Occurrences(prior_lines["gateway"], d) + Occurrences(prior_lines["guard"], d)
      BY DEF Counted, CountsAreTheLog
    <2>4. /\ Cardinality(Recorded(d)) \in Nat
          /\ Occurrences(collected, d) \in Nat /\ Occurrences(buffer, d) \in Nat
      BY <1>1, FS_CardinalityType, SpotsAreFinite
    <2>5. prior_lines' = prior_lines
      OBVIOUS
    <2> QED BY <2>1, <2>2, <2>3, <2>4, <2>5
  <1> QED BY <1>4, <1>5 DEF Counted, CountsAreTheLog

LEMMA CountedStep ==
  ASSUME Counted, [Next]_vars
  PROVE  Counted'
  <1>0. log \in [Sources -> Seq(Lines)]
    BY DEF Counted, LogsAre
  <1>1. CASE Ask \/ Take \/ GetExpires \/ GiveUp
    <2>1. UNCHANGED <<log, prior_lines, buffer, collected, facts>> /\ pc # "lost"
      BY <1>1 DEF Ask, Take, GetExpires, GiveUp, log_vars, drain_vars
    <2> QED BY <1>0, <2>1, CountedSame
  <1>2. CASE Worker \/ DeadlinePasses \/ Returned \/ UNCHANGED vars
    <2>1. UNCHANGED <<pc, log, prior_lines, buffer, collected, facts>>
      BY <1>2 DEF Worker, Install, Exchange, Put, DeadlinePasses, Returned, vars,
                  caller_vars, log_vars, drain_vars
    <2> QED BY <1>0, <2>1, CountedSame
  <1>3. ASSUME NEW s \in Sources, WriteLine(s) PROVE Counted'
    <2>1. UNCHANGED <<pc, prior_lines, buffer, collected, facts>>
      BY <1>3 DEF WriteLine, caller_vars, drain_vars
    <2>2. PICK line \in Lines :
            log' = [log EXCEPT ![s] = IF Len(@) = LogCap THEN <<line>> ELSE Append(@, line)]
      BY <1>3 DEF WriteLine
    <2>3. Append(log[s], line) \in Seq(Lines) /\ <<line>> \in Seq(Lines)
      BY <1>0, AppendProperties
    <2>4. log' \in [Sources -> Seq(Lines)]
      BY <1>0, <2>2, <2>3
    <2> QED BY <2>1, <2>4, CountedSame
  <1>4. ASSUME NEW s \in Sources, ReadLog(s) PROVE Counted'
    <2>1. pc # "lost"
      BY <1>4 DEF ReadLog, Reading, Sources
    <2> QED BY <1>4, <2>1, CountedRead
  <1>5. ASSUME NEW s \in Sources, LogRefused(s) PROVE Counted'
    BY <1>5 DEF LogRefused, Counted, LogsAre, CountsAreTheLog, log_vars
  <1>6. CASE AskAgain \/ Conclude \/ Close
    <2>1. /\ pc # "lost" /\ pc' # "lost" /\ UNCHANGED <<log, prior_lines>>
          /\ buffer' = <<>>
          /\ \/ collected' = drained /\ facts' = facts
             \/ collected' = <<>> /\ facts' = Append(facts, coalesced(drained))
      BY <1>6 DEF AskAgain, Conclude, Close, log_vars
    <2> QED BY <2>1, CountedKept
  <1> QED
    BY <1>1, <1>2, <1>3, <1>4, <1>5, <1>6 DEF Next, Caller

(* Every block record the logs have shown is in one place: the facts of a   *)
(* round that is over, the collection of the open one, or the buffer, and   *)
(* there once (DockerEgressEventSource, BlockEventBuffer and                *)
(* _coalesce_harness_events), for any number of lines and rounds.           *)
THEOREM EveryRecordIsCountedOnce == Spec => []CountsAreTheLog
  <1>1. Counted /\ [Next]_vars => Counted'
    BY CountedStep
  <1>2. Counted => CountsAreTheLog
    BY DEF Counted
  <1> QED BY <1>1, <1>2, CountedInit, PTL DEF Spec
=============================================================================
