--------------------------- MODULE Sandbox_proofs ---------------------------
(***************************************************************************)
(* For every bound on polls, starts, faults and interrupts: the agent is   *)
(* always behind the guard (Confinement), and nothing is left behind, or   *)
(* taken away before its time, in silence (CleanInv).                      *)
(***************************************************************************)
EXTENDS Sandbox, TLAPS

(* The part of the type invariant the argument needs. *)
Shape ==
  /\ phase \in Phases
  /\ at \in 1..Len(Steps) /\ probe \in 0..Len(Checks) + 1
  /\ guard \in 0..Len(Stages)
  /\ box \in [Resources -> {"absent", "ours", "foreign"}]
  /\ run \in [Containers -> {"none", "created", "running", "exited"}]
  /\ attached \in [Containers -> SUBSET (Networks \cup {"guard"})]

IInv == Shape /\ Confinement

(* The tables of start and of the guard, as facts the provers can use. *)
LEMMA StepsTable ==
  /\ Len(Steps) = 10
  /\ Steps[1] = [op |-> "create", of |-> "internal"]
  /\ Steps[2] = [op |-> "create", of |-> "egress"]
  /\ Steps[3] = [op |-> "run", of |-> "gateway"]
  /\ Steps[4] = [op |-> "connect", of |-> "gateway"]
  /\ Steps[5] = [op |-> "run", of |-> "guard"]
  /\ Steps[6] = [op |-> "connect", of |-> "guard"]
  /\ Steps[7] = [op |-> "wait", of |-> "guard"]
  /\ Steps[8] = [op |-> "run", of |-> "agent"]
  /\ Steps[9] = [op |-> "wait", of |-> "agent"]
  /\ Steps[10] = [op |-> "preflight", of |-> "agent"]
  BY DEF Steps

LEMMA StagesTable ==
  /\ Len(Stages) = 8
  /\ Stages[2] = "firewall_install" /\ Stages[3] = "firewall_verify"
  /\ Stages[4] = "ipv6_proof" /\ Stages[6] = "privilege_drop"
  /\ Stages[7] = "collector_start" /\ Stages[8] = "ready_record"
  /\ \A i \in 1..8 : Stages[i] = "ready_record" => i = 8
  BY DEF Stages

LEMMA ChecksTable ==
  /\ Len(Checks) = 3
  /\ Checks[1] = "ready" /\ Checks[2] = "firewall" /\ Checks[3] = "gateway"
  BY DEF Checks

(* A step of start that does one thing is at one place of the table. *)
LEMMA Places ==
  ASSUME at \in 1..Len(Steps)
  PROVE  /\ Step.op = "create"    => at \in {1, 2}  /\ Step.of \in Networks
         /\ Step.op = "run"       => at \in {3, 5, 8}
         /\ Step.op = "run" /\ Step.of = "gateway" => at = 3
         /\ Step.op = "run" /\ Step.of = "guard" => at = 5
         /\ Step.op = "run" /\ Step.of = "agent" => at = 8
         /\ Step.op = "run"       => Step.of \in Containers
         /\ Step.op = "connect"   => \/ at = 4 /\ Step.of = "gateway"
                                     \/ at = 6 /\ Step.of = "guard"
         /\ Step.op = "wait"      => at \in {7, 9}
         /\ Step.op = "wait" /\ Step.of = "guard" => at = 7
         /\ Step.op = "wait" /\ Step.of = "agent" => at = 9
         /\ Step.op = "preflight" => at = 10
  <1>1. at \in {1, 2, 3, 4, 5, 6, 7, 8, 9, 10}
    BY StepsTable
  <1>2. CASE at \in {1, 2, 3, 4, 5}
    BY <1>2, StepsTable DEF Step, Networks, Containers
  <1>3. CASE at \in {6, 7, 8, 9, 10}
    BY <1>3, StepsTable DEF Step, Networks, Containers
  <1> QED BY <1>1, <1>2, <1>3

LEMMA InitInv == Init => IInv
  BY StepsTable, ChecksTable, StagesTable
     DEF Init, IInv, Shape, Confinement, Running, GuardAt, Phases, Resources,
         Containers, Networks

-----------------------------------------------------------------------------
(* One lemma for each kind of step. *)

(* The object moves, Docker does not. *)
LEMMA WaitsKeep ==
  ASSUME IInv, PollGuard \/ PollAgent \/ AgentReplies \/ Inspect \/ Check \/ Ready \/ Serve
  PROVE  IInv'
  <1>1. /\ phase' \in Phases /\ at' \in 1..Len(Steps) /\ probe' \in 0..Len(Checks) + 1
        /\ phase' = "starting" => phase = "starting"
        /\ phase' = "starting" /\ at' # at => at \in {7, 9} /\ at' = at + 1 /\ probe' = 0
        /\ phase' = "starting" /\ at' # at /\ at = 7 => probe > 1
        /\ phase' = "starting" /\ at' = at /\ at = 7 /\ probe' > 1 =>
             probe > 1 \/ guard = Len(Stages)
    <2>1. CASE PollGuard
      BY <2>1, Places, StepsTable, ChecksTable
         DEF IInv, Shape, PollGuard, Doing, Abort, NotYet, NextCheck, Phases
    <2>2. CASE PollAgent \/ AgentReplies
      BY <2>2, Places, StepsTable, ChecksTable
         DEF IInv, Shape, PollAgent, AgentReplies, Unhealthy, Doing, Abort, NotYet, NextCheck,
             Proceed, Phases
    <2>3. CASE Inspect
      BY <2>3, Places, StepsTable, ChecksTable
         DEF IInv, Shape, Inspect, Doing, Abort, NextCheck, Phases
    <2>4. CASE Check
      <3>1. Passes("ready") => guard = Len(Stages)
        BY StagesTable DEF Passes, ReadyRecord, Done, IInv, Shape
      <3> QED
        BY <2>4, <3>1, Places, StepsTable, ChecksTable
           DEF IInv, Shape, Check, Doing, Abort, NextCheck, Phases
    <2>5. CASE Ready \/ Serve
      BY <2>5, Places, StepsTable, ChecksTable
         DEF IInv, Shape, Ready, Serve, Doing, Abort, Proceed, Phases
    <2> QED BY <2>1, <2>2, <2>3, <2>4, <2>5
  <1>2. UNCHANGED docker_vars
    BY DEF PollGuard, PollAgent, AgentReplies, Inspect, Check, Ready, Serve
  <1> QED
    BY <1>1, <1>2 DEF IInv, Shape, Confinement, GuardAt, Running, docker_vars

(* start begins or refuses, close begins, either ends or is interrupted. *)
LEMMA CallsKeep ==
  ASSUME IInv, Start \/ Close \/ Cleaned \/ NotRemoved \/ InterruptedInStart
  PROVE  IInv'
  <1>1. /\ phase' \in Phases /\ at' \in 1..Len(Steps) /\ probe' \in 0..Len(Checks) + 1
        /\ phase' = "starting" => at' = 1
    BY StepsTable, ChecksTable
       DEF IInv, Shape, Start, Close, Cleaned, NotRemoved, Cleaning, CleanRest,
           InterruptedInStart, Abort, Phases
  <1>2. UNCHANGED docker_vars
    BY DEF Start, Close, Cleaned, NotRemoved, InterruptedInStart
  <1> QED
    BY <1>1, <1>2 DEF IInv, Shape, Confinement, GuardAt, Running, docker_vars

(* The guard moves on; a container listens; one dies. *)
LEMMA ContainersKeep ==
  ASSUME IInv, GuardStep \/ HealthProbe \/ \E c \in Containers : Listens(c) \/ Dies(c)
  PROVE  IInv'
  <1>1. CASE GuardStep
    BY <1>1, StagesTable
       DEF IInv, Shape, Confinement, GuardStep, GuardAt, Running, object_vars
  <1>2. CASE HealthProbe \/ \E c \in Containers : Listens(c)
    BY <1>2
       DEF IInv, Shape, Confinement, HealthProbe, Listens, GuardAt, Running, object_vars
  <1>3. ASSUME NEW c \in Containers, Dies(c) PROVE IInv'
    BY <1>3 DEF IInv, Shape, Confinement, Dies, GuardAt, Running, object_vars
  <1> QED BY <1>1, <1>2, <1>3

(* Going on to the next step, or aborting, after a Docker command. *)
LEMMA ContinueOrAbort ==
  ASSUME Shape, phase = "starting", at < Len(Steps), Continue \/ Abort
  PROVE  /\ phase' \in Phases /\ at' \in 1..Len(Steps) /\ probe' \in 0..Len(Checks) + 1
         /\ phase' = "starting" => at' = at + 1 /\ probe' = 0
  BY StepsTable, ChecksTable DEF Shape, Continue, Proceed, Abort, Phases

LEMMA CreateNetworkKeeps ==
  ASSUME IInv, CreateNetwork
  PROVE  IInv'
  <1>1. Step.of \in Networks /\ at \in {1, 2} /\ phase = "starting"
    BY Places DEF IInv, Shape, CreateNetwork, Doing
  <1>2. /\ phase' \in Phases /\ at' \in 1..Len(Steps) /\ probe' \in 0..Len(Checks) + 1
        /\ phase' = "starting" => at' = at + 1 /\ probe' = 0
    BY <1>1, ContinueOrAbort, StepsTable, ChecksTable DEF IInv, CreateNetwork
  <1>3. /\ box' \in [Resources -> {"absent", "ours", "foreign"}]
        /\ \A c \in Containers : box'[c] = box[c]
    BY <1>1 DEF IInv, Shape, CreateNetwork, Resources, Networks, Containers
  <1>4. UNCHANGED <<run, attached, guard>>
    BY DEF CreateNetwork
  <1> QED
    BY <1>1, <1>2, <1>3, <1>4 DEF IInv, Shape, Confinement, GuardAt, Running, Containers

(* What Docker has once it made a container, started or not. *)
LEMMA MadeKeeps ==
  ASSUME IInv, NEW c \in Containers, NEW state \in {"created", "running"},
         Made(c, state), box[c] = "absent",
         state = "running" => CanJoin(c),
         c = "agent" => guard = Len(Stages) /\ attached["guard"] = Networks
                          /\ box["guard"] = "ours"
  PROVE  /\ guard' \in 0..Len(Stages)
         /\ box' \in [Resources -> {"absent", "ours", "foreign"}]
         /\ run' \in [Containers -> {"none", "created", "running", "exited"}]
         /\ attached' \in [Containers -> SUBSET (Networks \cup {"guard"})]
         /\ \A d \in Containers : Running(d)' => box'[d] = "ours"
         /\ "guard" \in attached'["agent"] =>
              /\ box'["guard"] = "ours" /\ guard' = Len(Stages)
              /\ Running("guard")' => attached'["guard"] = Networks
         /\ attached'["guard"] \subseteq Networks
         /\ c = "guard" => box'["guard"] = "ours" /\ attached'["guard"] = {"egress"}
         /\ c # "guard" => guard' = guard /\ attached'["guard"] = attached["guard"]
                             /\ box'["guard"] = box["guard"]
  <1>1. c \in {"gateway", "guard", "agent"}
    BY DEF Containers
  <1>2. CASE c = "gateway"
    BY <1>2, StagesTable
       DEF IInv, Shape, Confinement, Made, Running, home, Resources, Containers, Networks
  <1>3. CASE c = "guard"
    BY <1>3, StagesTable
       DEF IInv, Shape, Confinement, Made, Running, home, Resources, Containers, Networks
  <1>4. CASE c = "agent"
    BY <1>4, StagesTable
       DEF IInv, Shape, Confinement, Made, Running, home, Resources, Containers, Networks
  <1> QED BY <1>1, <1>2, <1>3, <1>4

LEMMA RunContainerKeeps ==
  ASSUME IInv, RunContainer
  PROVE  IInv'
  <1> DEFINE c == Step.of
  <1>1. /\ c \in Containers /\ at \in {3, 5, 8} /\ phase = "starting"
        /\ c = "gateway" => at = 3
        /\ c = "guard" => at = 5
        /\ c = "agent" => at = 8
    BY Places DEF IInv, Shape, RunContainer, Doing
  <1>2. /\ phase' \in Phases /\ at' \in 1..Len(Steps) /\ probe' \in 0..Len(Checks) + 1
        /\ phase' = "starting" => at' = at + 1 /\ probe' = 0
    BY <1>1, ContinueOrAbort, StepsTable, ChecksTable DEF IInv, RunContainer
  <1>3. c = "agent" => guard = Len(Stages) /\ attached["guard"] = Networks
                         /\ box["guard"] = "ours"
    BY <1>1 DEF IInv, Confinement, GuardAt
  <1>4. CASE UNCHANGED docker_vars /\ phase' # "starting"
    BY <1>1, <1>2, <1>4 DEF IInv, Shape, Confinement, GuardAt, Running, docker_vars
  <1>5. CASE /\ box[c] = "absent"
             /\ \/ CanJoin(c) /\ Made(c, "running") /\ Continue
                \/ Made(c, "created") /\ Abort
    <2>1. PICK state \in {"created", "running"} :
            Made(c, state) /\ (state = "running" => CanJoin(c))
                           /\ (phase' = "starting" => state = "running")
      BY <1>5 DEF Abort
    <2> HIDE DEF c
    <2>2. /\ c = "guard" => box'["guard"] = "ours" /\ attached'["guard"] = {"egress"}
          /\ c # "guard" => guard' = guard /\ attached'["guard"] = attached["guard"]
                              /\ box'["guard"] = box["guard"]
      BY <1>1, <1>3, <1>5, <2>1, MadeKeeps
    <2>3. /\ guard' \in 0..Len(Stages)
          /\ box' \in [Resources -> {"absent", "ours", "foreign"}]
          /\ run' \in [Containers -> {"none", "created", "running", "exited"}]
          /\ attached' \in [Containers -> SUBSET (Networks \cup {"guard"})]
          /\ \A d \in Containers : Running(d)' => box'[d] = "ours"
          /\ "guard" \in attached'["agent"] =>
               /\ box'["guard"] = "ours" /\ guard' = Len(Stages)
               /\ Running("guard")' => attached'["guard"] = Networks
          /\ attached'["guard"] \subseteq Networks
      BY <1>1, <1>3, <1>5, <2>1, MadeKeeps
    <2>4. /\ GuardAt(6)' => box'["guard"] = "ours" /\ "egress" \in attached'["guard"]
          /\ GuardAt(7)' => attached'["guard"] = Networks
          /\ GuardAt(7)' /\ probe' > 1 => guard' = Len(Stages)
          /\ GuardAt(8)' => guard' = Len(Stages)
      <3>1. CASE at = 3
        BY <1>2, <3>1 DEF GuardAt
      <3>2. CASE at = 5
        BY <1>1, <1>2, <2>2, <3>2 DEF GuardAt, Containers
      <3>3. CASE at = 8
        BY <1>1, <1>2, <2>2, <3>3 DEF GuardAt, IInv, Confinement, Containers
      <3> QED BY <1>1, <3>1, <3>2, <3>3
    <2> QED
      BY <1>2, <2>3, <2>4 DEF IInv, Shape, Confinement
  <1> QED
    BY <1>4, <1>5 DEF RunContainer, Abort

LEMMA ConnectKeeps ==
  ASSUME IInv, Connect
  PROVE  IInv'
  <1>1. /\ phase = "starting"
        /\ \/ at = 4 /\ Step.of = "gateway"
           \/ at = 6 /\ Step.of = "guard"
    BY Places DEF IInv, Shape, Connect, Doing
  <1>2. /\ phase' \in Phases /\ at' \in 1..Len(Steps) /\ probe' \in 0..Len(Checks) + 1
        /\ phase' = "starting" => at' = at + 1 /\ probe' = 0
    BY <1>1, ContinueOrAbort, StepsTable, ChecksTable DEF IInv, Connect
  <1>3. UNCHANGED <<box, run, guard>>
    BY DEF Connect
  <1>4. CASE UNCHANGED attached /\ phase' # "starting"
    BY <1>1, <1>2, <1>3, <1>4 DEF IInv, Shape, Confinement, GuardAt, Running
  <1>5. CASE attached' = [attached EXCEPT ![Step.of] = @ \cup {other[Step.of]}]
    <2>1. CASE at = 4
      BY <1>1, <1>2, <1>3, <1>5, <2>1
         DEF IInv, Shape, Confinement, GuardAt, Running, other, Containers, Networks
    <2>2. CASE at = 6
      BY <1>1, <1>2, <1>3, <1>5, <2>2
         DEF IInv, Shape, Confinement, GuardAt, Running, other, Containers, Networks
    <2> QED BY <1>1, <2>1, <2>2
  <1> QED
    BY <1>4, <1>5 DEF Connect, Abort

(* Taking a thing away: an agent left in the guard's namespace lost it. *)
LEMMA DiscardKeeps ==
  ASSUME IInv, NEW resource \in Resources, Discard(resource), Removable(resource),
         phase' \in Phases, phase' # "starting", UNCHANGED <<at, probe>>
  PROVE  IInv'
  <1>1. /\ box' \in [Resources -> {"absent", "ours", "foreign"}]
        /\ run' \in [Containers -> {"none", "created", "running", "exited"}]
        /\ attached' \in [Containers -> SUBSET (Networks \cup {"guard"})]
        /\ guard' = guard
    BY DEF IInv, Shape, Discard
  <1>2. \A d \in Containers : Running(d)' => box'[d] = "ours"
    BY DEF IInv, Shape, Confinement, Discard, Running, Resources
  <1>3. "guard" \in attached'["agent"] =>
          "guard" \in attached["agent"] /\ resource # "guard"
    BY DEF Discard, Containers
  <1>4. "guard" \in attached'["agent"] => box'["guard"] = "ours" /\ guard' = Len(Stages)
    BY <1>3 DEF IInv, Shape, Confinement, Discard, Resources, Containers
  <1>5. "guard" \in attached'["agent"] /\ Running("guard")' => attached'["guard"] = Networks
    <2>1. SUFFICES ASSUME "guard" \in attached'["agent"], Running("guard")'
                   PROVE  attached'["guard"] = Networks
      OBVIOUS
    <2>2. Running("guard") /\ attached["guard"] = Networks
      BY <1>3, <2>1 DEF IInv, Confinement, Discard, Running, Containers
    <2>3. resource \notin Networks
      BY <2>2 DEF Removable, Containers
    <2>4. attached'["guard"] = attached["guard"] \ {resource}
      BY <1>3, <2>1 DEF Discard, Containers
    <2> QED
      BY <2>2, <2>3, <2>4
  <1>6. attached'["guard"] \subseteq Networks
    BY DEF IInv, Confinement, Discard, Containers
  <1> QED
    BY <1>1, <1>2, <1>4, <1>5, <1>6 DEF IInv, Shape, Confinement, GuardAt

LEMMA RemovalKeeps ==
  ASSUME IInv, Removed \/ InterruptedInCleanup
  PROVE  IInv'
  <1>1. /\ phase' \in Phases /\ phase' # "starting" /\ UNCHANGED <<at, probe>>
    BY DEF IInv, Shape, Removed, Cleaning, CleanRest, InterruptedInCleanup, Phases
  <1>2. CASE UNCHANGED docker_vars
    BY <1>1, <1>2 DEF IInv, Shape, Confinement, GuardAt, Running, docker_vars
  <1>3. CASE Owned(Current) /\ Removable(Current) /\ Discard(Current)
    <2>1. CASE Current \in Resources
      BY <1>1, <1>3, <2>1, DiscardKeeps
    <2>2. CASE Current \notin Resources
      <3>1. box' = box /\ guard' = guard
        BY <1>3, <2>2 DEF Discard, IInv, Shape
      <3>2. run' = run
        BY <1>3, <2>2 DEF Discard, IInv, Shape, Resources
      <3> Networks \cup {"guard"} \subseteq Resources /\ Containers \subseteq Resources
        BY DEF Resources, Containers
      <3>3. \A c \in Containers : attached'[c] = attached[c]
        <4> TAKE c \in Containers
        <4>1. attached'[c] = attached[c] \ {Current}
          BY <1>3, <2>2 DEF Discard
        <4>2. Current \notin attached[c]
          BY <2>2 DEF IInv, Shape
        <4> QED BY <4>1, <4>2
      <3>4. attached' = attached
        BY <1>3, <3>3 DEF Discard, IInv, Shape
      <3> QED
        BY <1>1, <3>1, <3>2, <3>4 DEF IInv, Shape, Confinement, GuardAt, Running
    <2> QED BY <2>1, <2>2
  <1> QED
    BY <1>2, <1>3 DEF Removed, InterruptedInCleanup

-----------------------------------------------------------------------------
LEMMA NextInv == IInv /\ [Next]_vars => IInv'
  <1> SUFFICES ASSUME IInv, [Next]_vars PROVE IInv'
    OBVIOUS
  <1>1. CASE Start \/ Close \/ Cleaned \/ NotRemoved \/ InterruptedInStart
    BY <1>1, CallsKeep
  <1>2. CASE CreateNetwork
    BY <1>2, CreateNetworkKeeps
  <1>3. CASE RunContainer
    BY <1>3, RunContainerKeeps
  <1>4. CASE Connect
    BY <1>4, ConnectKeeps
  <1>5. CASE PollGuard \/ PollAgent \/ AgentReplies \/ Inspect \/ Check \/ Ready \/ Serve
    BY <1>5, WaitsKeep
  <1>6. CASE Removed \/ InterruptedInCleanup
    BY <1>6, RemovalKeeps
  <1>7. CASE GuardStep \/ HealthProbe \/ \E c \in Containers : Listens(c) \/ Dies(c)
    BY <1>7, ContainersKeep
  <1>8. CASE UNCHANGED vars
    BY <1>8 DEF IInv, Shape, Confinement, GuardAt, Running, vars, object_vars, docker_vars
  <1> QED
    BY <1>1, <1>2, <1>3, <1>4, <1>5, <1>6, <1>7, <1>8 DEF Next, Object

LEMMA Invariance == Spec => []IInv
  BY InitInv, NextInv, PTL DEF Spec

(* A guard that has done its eight stages has done each of them. *)
LEMMA GuardIsArmed ==
  ASSUME IInv PROVE AgentIsBehindTheGuard
  <1>1. guard = Len(Stages) =>
          \A stage \in {"firewall_install", "firewall_verify", "ipv6_proof",
                        "privilege_drop", "collector_start"} : Done(stage)
    BY StagesTable DEF Done
  <1> QED
    BY <1>1 DEF IInv, Confinement, AgentIsBehindTheGuard

(* No agent runs in a guard's namespace before the guard's rules are       *)
(* installed and verified, its privileges dropped and its collectors       *)
(* started: DockerSandbox.start runs it only after the guard's own checks. *)
THEOREM SandboxAgentIsBehindTheGuard == Spec => []AgentIsBehindTheGuard
  BY Invariance, GuardIsArmed, PTL

(* Nothing another program made under one of the sandbox's names is ever   *)
(* removed: a create command meets a free name or fails, and the clean-up  *)
(* asks for the ownership label first.                                     *)
THEOREM SandboxForeignIsUntouched == Spec => ForeignIsUntouched
  <1> DEFINE Kept == \A resource \in Resources :
                       box[resource] = "foreign" => box'[resource] = "foreign"
  <1>1. ASSUME IInv, [Next]_vars PROVE Kept
    <2> USE <1>1
    <2>1. CASE CreateNetwork
      BY <2>1 DEF CreateNetwork, IInv, Shape
    <2>2. CASE RunContainer
      BY <2>2 DEF RunContainer, Made, docker_vars, IInv, Shape
    <2>3. CASE Removed \/ InterruptedInCleanup
      BY <2>3 DEF Removed, InterruptedInCleanup, Owned, Discard, docker_vars, IInv, Shape
    <2>4. CASE UNCHANGED box
      BY <2>4
    <2>5. \/ CreateNetwork \/ RunContainer \/ Removed \/ InterruptedInCleanup
          \/ UNCHANGED box
      BY DEF Next, Object, Start, Close, Cleaned, NotRemoved, InterruptedInStart, Connect,
             PollGuard, PollAgent, AgentReplies, Inspect, Check, Ready, Serve, GuardStep, HealthProbe, Listens, Dies,
             vars, docker_vars
    <2> QED BY <2>1, <2>2, <2>3, <2>4, <2>5
  <1>2. IInv /\ [Next]_vars
          => [\A resource \in Resources :
                box[resource] = "foreign" => box'[resource] = "foreign"]_vars
    BY <1>1
  <1> QED
    BY <1>2, Invariance, PTL DEF Spec, ForeignIsUntouched

(* What the preflight under way has seen, or has died since. *)
Seen ==
  Doing("preflight") /\ probe > 0 =>
    /\ sound => \A c \in Containers : Running(c) \/ c \in lost
    /\ probe > Len(Checks) => "gateway" \in listening \cup lost

(* A preflight starts with nothing seen. *)
LEMMA SeenFromNothing ==
  ASSUME phase' # "starting" \/ probe' = 0
  PROVE  Seen'
  BY DEF Seen, Doing

(* A container that dies is lost; one that listens goes on to run. *)
LEMMA SeenByContainers ==
  ASSUME IInv, Seen, GuardStep \/ HealthProbe \/ \E c \in Containers : Listens(c) \/ Dies(c)
  PROVE  Seen'
  <1>1. UNCHANGED object_vars
    BY DEF GuardStep, HealthProbe, Listens, Dies
  <1>2. (Doing("preflight") /\ probe > 0)' <=> Doing("preflight") /\ probe > 0
    BY <1>1 DEF object_vars, Doing, Step
  <1>3. CASE GuardStep \/ HealthProbe \/ \E c \in Containers : Listens(c)
    BY <1>1, <1>2, <1>3
       DEF Seen, GuardStep, HealthProbe, Listens, Running, object_vars
  <1>4. ASSUME NEW c \in Containers, Dies(c) PROVE Seen'
    <2> SUFFICES ASSUME Doing("preflight"), probe > 0
                 PROVE  /\ sound => \A d \in Containers : Running(d)' \/ d \in lost'
                        /\ probe > Len(Checks) => "gateway" \in listening' \cup lost'
      BY <1>1, <1>2 DEF Seen, object_vars
    <2>1. lost' = lost \cup {c} /\ listening' = listening \ {c}
      BY <1>4 DEF Dies, Doing, Step
    <2>2. \A d \in Containers : Running(d)' \/ ~Running(d) \/ d = c
      BY <1>4 DEF Dies, Running, IInv, Shape
    <2> QED BY <2>1, <2>2 DEF Seen
  <1> QED BY <1>3, <1>4

(* Inspecting and checking. *)
LEMMA SeenByChecks ==
  ASSUME IInv, Seen, Inspect \/ Check
  PROVE  Seen'
  <1> SUFFICES ASSUME phase' = "starting" PROVE Seen'
    BY SeenFromNothing
  <1>1. CASE Inspect
    <2>1. probe = 0 /\ probe' = 1 /\ sound' = AsPlanned /\ UNCHANGED docker_vars
      BY <1>1 DEF Inspect, Abort, NextCheck
    <2> QED BY <2>1, ChecksTable DEF Seen, AsPlanned, Running, docker_vars
  <1>2. CASE Check
    <2>1. /\ probe \in 1..3 /\ probe' = probe + 1 /\ Passes(Checks[probe])
          /\ lost' = lost \ Shown(Checks[probe])
          /\ UNCHANGED <<phase, at, sound, docker_vars>>
      BY <1>2, ChecksTable DEF Check, Abort, NextCheck
    <2>2. Doing("preflight")' <=> Doing("preflight")
      BY <2>1 DEF Doing, Step
    <2>3. \A c \in Shown(Checks[probe]) : Running(c)
      BY <2>1, ChecksTable DEF Shown, Passes
    <2>4. probe = 3 => "gateway" \in listening
      BY <2>1, ChecksTable DEF Passes
    <2> QED BY <2>1, <2>2, <2>3, <2>4, ChecksTable DEF Seen, Running, docker_vars
  <1> QED BY <1>1, <1>2

LEMMA SeenStep ==
  ASSUME IInv, Seen, [Next]_vars
  PROVE  Seen'
  <1>1. CASE Inspect \/ Check
    BY <1>1, SeenByChecks
  <1>2. CASE GuardStep \/ HealthProbe \/ \E c \in Containers : Listens(c) \/ Dies(c)
    BY <1>2, SeenByContainers
  <1>3. CASE UNCHANGED vars
    BY <1>3 DEF Seen, Doing, Step, Running, vars, object_vars, docker_vars
  <1>4. CASE \/ Start \/ Close \/ CreateNetwork \/ RunContainer \/ Connect \/ Serve
             \/ Removed \/ NotRemoved \/ Cleaned \/ InterruptedInStart \/ InterruptedInCleanup
    <2>1. phase' # "starting" \/ probe' = 0
      BY <1>4
         DEF Start, Close, CreateNetwork, RunContainer, Connect, Serve, Continue, Proceed,
             Abort, Removed, NotRemoved, Cleaning, CleanRest, Cleaned, InterruptedInStart,
             InterruptedInCleanup
    <2> QED BY <2>1, SeenFromNothing
  <1>5. CASE PollGuard \/ PollAgent \/ AgentReplies \/ Ready
    <2>1. \/ phase' # "starting" \/ probe' = 0
          \/ Step.op = "wait" /\ at' = at
      BY <1>5
         DEF PollGuard, PollAgent, AgentReplies, Ready, Unhealthy, NotYet, NextCheck, Proceed,
             Abort, Doing
    <2> QED BY <2>1, SeenFromNothing DEF Seen, Doing, Step
  <1> QED
    BY <1>1, <1>2, <1>3, <1>4, <1>5 DEF Next, Object

LEMMA SeenInvariance == Spec => []Seen
  <1>1. Init => Seen
    BY DEF Init, Seen, Doing
  <1>2. IInv /\ Seen /\ [Next]_vars => Seen'
    BY SeenStep
  <1> QED BY <1>1, <1>2, Invariance, PTL DEF Spec

(* Whatever is dead in a sandbox that start hands out has died since the    *)
(* preflight saw it; the guard is joined to both networks, its record made. *)
THEOREM SandboxHandedOutAlive == Spec => HandedOutAlive
  <1>1. ASSUME IInv, Seen, [Next]_vars, phase = "starting", phase' = "serving"
        PROVE  /\ \A c \in Containers : Running(c) \/ c \in lost
               /\ "gateway" \in listening \cup lost
               /\ attached["guard"] = Networks /\ ReadyRecord
    <2> USE <1>1
    <2>1. Serve
      BY DEF Next, Object, Start, Close, CreateNetwork, RunContainer, Connect, Continue,
             Proceed, Abort, PollGuard, PollAgent, AgentReplies, Unhealthy, Ready, Inspect,
             Check, NotYet, NextCheck, Removed, NotRemoved, Cleaning, CleanRest, Cleaned,
             InterruptedInStart, InterruptedInCleanup, GuardStep, HealthProbe, Listens, Dies,
             vars, object_vars
    <2>2. Doing("preflight") /\ probe = Len(Checks) + 1 /\ sound
      BY <2>1 DEF Serve, Abort
    <2>3. /\ \A c \in Containers : Running(c) \/ c \in lost
          /\ "gateway" \in listening \cup lost
      BY <2>2, ChecksTable DEF Seen
    <2>4. guard = Len(Stages) /\ attached["guard"] = Networks
      BY <2>2, Places DEF IInv, Shape, Confinement, GuardAt, Doing
    <2>5. ReadyRecord
      BY <2>4, StagesTable DEF ReadyRecord, Done
    <2> QED BY <2>3, <2>4, <2>5
  <1>2. IInv /\ Seen /\ [Next]_vars
          => [phase = "starting" /\ phase' = "serving" =>
                /\ \A c \in Containers : Running(c) \/ c \in lost
                /\ "gateway" \in listening \cup lost
                /\ attached["guard"] = Networks /\ ReadyRecord]_vars
    BY <1>1
  <1> QED
    BY <1>2, Invariance, SeenInvariance, PTL DEF Spec, HandedOutAlive
-----------------------------------------------------------------------------
(* What is removed, in which order, and what is then still there.          *)

(* The place of each thing in a clean-up that has everything to remove.     *)
place == [agent |-> 1, guard |-> 2, gateway |-> 3, egress |-> 4, internal |-> 5]

(* How many things start has registered; which of them a clean-up still has *)
(* before it.                                                               *)
made == Len(containers) + Len(networks)

pending(resource) == place[resource] > 5 - made + cleaned

(* An interrupted clean-up keeps its lists, and start then refuses for ever.*)
stuck == phase = "idle" /\ made > 0

Listed ==
  \/ /\ containers = <<>>
     /\ networks \in {<<>>, <<"internal">>, <<"internal", "egress">>}
  \/ /\ networks = <<"internal", "egress">>
     /\ containers \in {<<"gateway">>, <<"gateway", "guard">>,
                        <<"gateway", "guard", "agent">>}

RegisteredInOrder ==
  /\ Listed
  /\ cleaned \in 0..made
  /\ phase \notin {"cleaning", "closing"} => cleaned = 0
  /\ phase = "starting" => made = <<0, 1, 2, 3, 3, 4, 4, 4, 5, 5>>[at]
  /\ phase \in {"serving", "closing"} => made = 5
  /\ result \in {"raised", "closed", "unclean"} => phase = "idle" /\ made = 0
  /\ GuardAt(4) => box["gateway"] = "ours"

(* A container that the clean-up has passed, or that an earlier start left,  *)
(* is one whose removal was refused; a network was refused itself, or is     *)
(* kept by such a container.                                                 *)
Swept ==
  ~stuck =>
    /\ \A c \in Containers : box[c] = "ours" /\ ~pending(c) => c \in excused
    /\ \A n \in Networks : box[n] = "ours" /\ ~pending(n) =>
         \/ n \in excused
         \/ \E c \in Containers \cap excused : box[c] = "ours" /\ n \in attached[c]

Reported ==
  phase = "closing" =>
    \A resource \in Resources :
      box[resource] = "ours" /\ ~pending(resource) => resource \in failures

CleanInv ==
  /\ RegisteredInOrder /\ Swept /\ Reported
  /\ CloseReportsWhatIsLeft /\ WitnessesOutliveTheAgent

LEMMA PlaceTable ==
  /\ place["agent"] = 1 /\ place["guard"] = 2 /\ place["gateway"] = 3
  /\ place["egress"] = 4 /\ place["internal"] = 5
  /\ \A r \in Resources : place[r] \in 1..5
  /\ \A r, q \in Resources : place[r] = place[q] => r = q
  /\ \A c \in Containers : place[c] \in 1..3 /\ c \in Resources
  /\ \A n \in Networks : place[n] \in 4..5 /\ n \in Resources
  BY DEF place, Resources, Containers, Networks

(* Youngest first: what is cleaned up in each of the six states of the lists.*)
LEMMA CleanupTable ==
  ASSUME Listed
  PROVE  /\ made \in 0..5 /\ Len(CleanupOrder) = made
         /\ \A i \in 1..made : /\ CleanupOrder[i] \in Resources
                               /\ place[CleanupOrder[i]] = 5 - made + i
  <1>1. CASE containers = <<>> /\ networks = <<>>
    BY <1>1, PlaceTable DEF CleanupOrder, Reverse, made
  <1>2. CASE containers = <<>> /\ networks = <<"internal">>
    BY <1>2, PlaceTable DEF CleanupOrder, Reverse, made, Resources, Networks
  <1>3. CASE containers = <<>> /\ networks = <<"internal", "egress">>
    BY <1>3, PlaceTable DEF CleanupOrder, Reverse, made, Resources, Networks
  <1>4. CASE containers = <<"gateway">> /\ networks = <<"internal", "egress">>
    BY <1>4, PlaceTable DEF CleanupOrder, Reverse, made, Resources, Networks, Containers
  <1>5. CASE containers = <<"gateway", "guard">> /\ networks = <<"internal", "egress">>
    BY <1>5, PlaceTable DEF CleanupOrder, Reverse, made, Resources, Networks, Containers
  <1>6. CASE /\ containers = <<"gateway", "guard", "agent">>
             /\ networks = <<"internal", "egress">>
    BY <1>6, PlaceTable DEF CleanupOrder, Reverse, made, Resources, Networks, Containers
  <1> QED BY <1>1, <1>2, <1>3, <1>4, <1>5, <1>6 DEF Listed

(* The number of things registered by each step of start. *)
LEMMA MadeTable ==
  ASSUME at \in 1..Len(Steps), phase = "starting", RegisteredInOrder
  PROVE  /\ at = 1 => made = 0
         /\ at = 2 => made = 1
         /\ at = 3 => made = 2
         /\ at \in {4, 5} => made = 3
         /\ at \in {6, 7, 8} => made = 4
         /\ at \in {9, 10} => made = 5
  BY StepsTable DEF RegisteredInOrder

(* The lists tell how many there are, and conversely. *)
LEMMA ListTable ==
  ASSUME Listed
  PROVE  /\ made = 0 => containers = <<>> /\ networks = <<>>
         /\ made = 1 => containers = <<>> /\ networks = <<"internal">>
         /\ made = 2 => containers = <<>> /\ networks = <<"internal", "egress">>
         /\ made = 3 => containers = <<"gateway">> /\ networks = <<"internal", "egress">>
         /\ made = 4 => /\ containers = <<"gateway", "guard">>
                        /\ networks = <<"internal", "egress">>
         /\ made = 5 => /\ containers = <<"gateway", "guard", "agent">>
                        /\ networks = <<"internal", "egress">>
  <1>1. CASE containers = <<>> /\ networks = <<>>
    <2>1. made = 0
      BY <1>1 DEF made
    <2> QED BY <1>1, <2>1
  <1>2. CASE containers = <<>> /\ networks = <<"internal">>
    <2>1. made = 1
      BY <1>2 DEF made
    <2> QED BY <1>2, <2>1
  <1>3. CASE containers = <<>> /\ networks = <<"internal", "egress">>
    <2>1. made = 2
      BY <1>3 DEF made
    <2> QED BY <1>3, <2>1
  <1>4. CASE containers = <<"gateway">> /\ networks = <<"internal", "egress">>
    <2>1. made = 3
      BY <1>4 DEF made
    <2> QED BY <1>4, <2>1
  <1>5. CASE containers = <<"gateway", "guard">> /\ networks = <<"internal", "egress">>
    <2>1. made = 4
      BY <1>5 DEF made
    <2> QED BY <1>5, <2>1
  <1>6. CASE containers = <<"gateway", "guard", "agent">> /\ networks = <<"internal", "egress">>
    <2>1. made = 5
      BY <1>6 DEF made
    <2> QED BY <1>6, <2>1
  <1> QED BY <1>1, <1>2, <1>3, <1>4, <1>5, <1>6 DEF Listed

(* A command that makes something registers the next thing of the order. *)
LEMMA Registers ==
  ASSUME IInv, RegisteredInOrder, CreateNetwork \/ RunContainer
  PROVE  /\ phase = "starting" /\ phase' \in {"starting", "cleaning"}
         /\ phase' = "starting" => at' = at + 1
         /\ at \in {1, 2, 3, 5, 8}
         /\ cleaned = 0 /\ cleaned' = 0 /\ UNCHANGED <<result, excused, failures>>
         /\ Step.of \in Resources /\ place[Step.of] = 5 - made
         /\ Listed' /\ made' = made + 1 /\ made \in 0..4
  <1>1. /\ phase = "starting" /\ at \in 1..Len(Steps) /\ Listed
        /\ \/ at = 1 /\ Step.of = "internal"
           \/ at = 2 /\ Step.of = "egress"
           \/ at = 3 /\ Step.of = "gateway"
           \/ at = 5 /\ Step.of = "guard"
           \/ at = 8 /\ Step.of = "agent"
    <2>1. phase = "starting" /\ at \in 1..Len(Steps) /\ Listed
      BY DEF IInv, Shape, RegisteredInOrder, CreateNetwork, RunContainer, Doing
    <2>2. at \in {1, 2, 3, 5, 8}
      BY <2>1, Places DEF CreateNetwork, RunContainer, Doing
    <2> QED BY <2>1, <2>2, StepsTable DEF Step
  <1>2. /\ Register(Step.of) /\ UNCHANGED <<excused, failures>>
        /\ Continue \/ Abort
    BY DEF CreateNetwork, RunContainer
  <1>3. /\ phase' \in {"starting", "cleaning"} /\ cleaned = 0 /\ cleaned' = 0
        /\ phase' = "starting" => at' = at + 1
        /\ result' = result
    BY <1>1, <1>2 DEF Continue, Proceed, Abort, RegisteredInOrder
  <1> DEFINE Registered == /\ Step.of \in Resources /\ place[Step.of] = 5 - made
                           /\ Listed' /\ made' = made + 1 /\ made \in 0..4
  <1> SUFFICES Registered
    BY <1>1, <1>2, <1>3
  <1>4. CASE at = 1
    <2>1. made = 0 /\ Step.of = "internal"
      BY <1>1, <1>4, MadeTable
    <2>2. containers = <<>> /\ networks = <<>>
      BY <1>1, <2>1, ListTable
    <2>3. containers' = <<>> /\ networks' = <<"internal">>
      BY <1>2, <2>1, <2>2 DEF Register, Networks
    <2>4. Listed' /\ made' = 1
      BY <2>3 DEF Listed, made
    <2> QED BY <2>1, <2>4, PlaceTable DEF Resources, Networks, Containers
  <1>5. CASE at = 2
    <2>1. made = 1 /\ Step.of = "egress"
      BY <1>1, <1>5, MadeTable
    <2>2. containers = <<>> /\ networks = <<"internal">>
      BY <1>1, <2>1, ListTable
    <2>3. containers' = <<>> /\ networks' = <<"internal", "egress">>
      BY <1>2, <2>1, <2>2 DEF Register, Networks
    <2>4. Listed' /\ made' = 2
      BY <2>3 DEF Listed, made
    <2> QED BY <2>1, <2>4, PlaceTable DEF Resources, Networks, Containers
  <1>6. CASE at = 3
    <2>1. made = 2 /\ Step.of = "gateway"
      BY <1>1, <1>6, MadeTable
    <2>2. containers = <<>> /\ networks = <<"internal", "egress">>
      BY <1>1, <2>1, ListTable
    <2>3. containers' = <<"gateway">> /\ networks' = <<"internal", "egress">>
      BY <1>2, <2>1, <2>2 DEF Register, Networks
    <2>4. Listed' /\ made' = 3
      BY <2>3 DEF Listed, made
    <2> QED BY <2>1, <2>4, PlaceTable DEF Resources, Networks, Containers
  <1>7. CASE at = 5
    <2>1. made = 3 /\ Step.of = "guard"
      BY <1>1, <1>7, MadeTable
    <2>2. containers = <<"gateway">> /\ networks = <<"internal", "egress">>
      BY <1>1, <2>1, ListTable
    <2>3. containers' = <<"gateway", "guard">> /\ networks' = <<"internal", "egress">>
      BY <1>2, <2>1, <2>2 DEF Register, Networks
    <2>4. Listed' /\ made' = 4
      BY <2>3 DEF Listed, made
    <2> QED BY <2>1, <2>4, PlaceTable DEF Resources, Networks, Containers
  <1>8. CASE at = 8
    <2>1. made = 4 /\ Step.of = "agent"
      BY <1>1, <1>8, MadeTable
    <2>2. containers = <<"gateway", "guard">> /\ networks = <<"internal", "egress">>
      BY <1>1, <2>1, ListTable
    <2>3. containers' = <<"gateway", "guard", "agent">> /\ networks' = <<"internal", "egress">>
      BY <1>2, <2>1, <2>2 DEF Register, Networks
    <2>4. Listed' /\ made' = 5
      BY <2>3 DEF Listed, made
    <2> QED BY <2>1, <2>4, PlaceTable DEF Resources, Networks, Containers
  <1> QED BY <1>1, <1>4, <1>5, <1>6, <1>7, <1>8

(* A step of the clean-up deals with the next thing of the order. *)
LEMMA Sweeps ==
  ASSUME IInv, RegisteredInOrder, Cleaning
  PROVE  /\ Current \in Resources /\ place[Current] = 5 - made + cleaned + 1
         /\ made \in 1..5 /\ cleaned \in 0..(made - 1)
         /\ \A r \in Resources : place[r] > 5 - made + (cleaned + 1)
                                   <=> pending(r) /\ r # Current
  <1>1. made \in 0..5 /\ Len(CleanupOrder) = made /\ cleaned \in 0..made
    BY CleanupTable DEF RegisteredInOrder
  <1>2. cleaned + 1 \in 1..made
    BY <1>1 DEF Cleaning
  <1>3. Current \in Resources /\ place[Current] = 5 - made + (cleaned + 1)
    BY <1>2, CleanupTable DEF RegisteredInOrder, Current
  <1>4. \A r \in Resources : place[r] \in Nat
    BY PlaceTable
  <1>5. ASSUME NEW r \in Resources
        PROVE  place[r] > 5 - made + (cleaned + 1) <=> pending(r) /\ r # Current
    BY <1>1, <1>3, <1>4, <1>5, PlaceTable DEF pending
  <1> QED BY <1>1, <1>2, <1>3, <1>5

(* The other steps of start register nothing; the last of them returns. *)
LEMMA Starts ==
  ASSUME IInv, RegisteredInOrder,
         Connect \/ PollGuard \/ PollAgent \/ AgentReplies \/ Inspect \/ Check \/ Ready
              \/ Serve \/ InterruptedInStart
  PROVE  /\ phase = "starting" /\ phase' \in {"starting", "cleaning", "serving"}
         /\ phase' = "starting" => at' = at \/ (at \in {4, 6, 7, 9} /\ at' = at + 1)
         /\ phase' = "serving" => at = 10 /\ result' = "handle"
         /\ phase' # "serving" => result' = result
         /\ cleaned = 0 /\ cleaned' = 0
         /\ UNCHANGED <<containers, networks, failures, excused, box, run>>
         /\ \A c \in Containers : attached[c] \subseteq attached'[c]
  <1>1. phase = "starting" /\ at \in 1..Len(Steps) /\ cleaned = 0
    BY DEF IInv, Shape, RegisteredInOrder, Connect, PollGuard, PollAgent, AgentReplies,
           Inspect, Check, Ready, Serve, InterruptedInStart, Doing
  <1> DEFINE Goal == /\ phase' \in {"starting", "cleaning", "serving"}
                     /\ phase' = "starting" =>
                          at' = at \/ (at \in {4, 6, 7, 9} /\ at' = at + 1)
                     /\ phase' = "serving" => at = 10 /\ result' = "handle"
                     /\ phase' # "serving" => result' = result
                     /\ cleaned' = 0
  <1>0. /\ UNCHANGED <<containers, networks, failures, excused, box, run>>
        /\ \A c \in Containers : attached[c] \subseteq attached'[c]
    BY DEF IInv, Shape, Connect, PollGuard, PollAgent, AgentReplies, Inspect, Check, Ready, Serve,
           InterruptedInStart, docker_vars
  <1> SUFFICES Goal
    BY <1>0, <1>1
  <1>2. CASE Connect
    BY <1>1, <1>2, Places DEF Connect, Doing, Continue, Proceed, Abort
  <1>3. CASE PollGuard
    BY <1>1, <1>3, Places DEF PollGuard, Doing, Abort, NotYet, NextCheck
  <1>4. CASE PollAgent \/ AgentReplies
    BY <1>1, <1>4, Places
       DEF PollAgent, AgentReplies, Unhealthy, Doing, Abort, NotYet, NextCheck, Proceed
  <1>5. CASE Inspect \/ Check
    BY <1>1, <1>5, Places DEF Inspect, Check, Doing, Abort, NextCheck
  <1>6. CASE Ready \/ Serve
    BY <1>1, <1>6, Places DEF Ready, Serve, Doing, Abort, Proceed
  <1>7. CASE InterruptedInStart
    BY <1>1, <1>7 DEF InterruptedInStart, Abort
  <1> QED BY <1>2, <1>3, <1>4, <1>5, <1>6, <1>7

LEMMA RegisteredStep ==
  ASSUME IInv, CleanInv, [Next]_vars
  PROVE  RegisteredInOrder'
  <1> USE DEF CleanInv
  <1>1. at \in 1..Len(Steps) /\ Listed /\ made \in 0..5 /\ cleaned \in 0..made
    BY CleanupTable DEF IInv, Shape, RegisteredInOrder
  <1> DEFINE Counted(i) == <<0, 1, 2, 3, 3, 4, 4, 4, 5, 5>>[i]
  <1>2. CASE CreateNetwork \/ RunContainer
    <2>1. /\ phase = "starting" /\ phase' \in {"starting", "cleaning"}
          /\ phase' = "starting" => at' = at + 1
          /\ at \in {1, 2, 3, 5, 8}
          /\ cleaned' = 0 /\ result' = result
          /\ Listed' /\ made' = made + 1 /\ made \in 0..4
      BY <1>2, Registers
    <2>2. made = Counted(at)
      BY <2>1 DEF RegisteredInOrder
    <2>3. phase' = "starting" => made' = Counted(at')
      BY <2>1, <2>2
    <2>4. GuardAt(4)' => box'["gateway"] = "ours"
      <3>1. SUFFICES ASSUME phase' = "starting", at' >= 4 PROVE box'["gateway"] = "ours"
        BY DEF GuardAt
      <3>2. at \in {3, 5, 8}
        BY <2>1, <3>1
      <3>3. RunContainer
        BY <1>1, <1>2, <3>2, Places DEF CreateNetwork, Doing
      <3>4. Made(Step.of, "running")
        BY <3>1, <3>3 DEF RunContainer, Abort
      <3>5. CASE at = 3
        BY <3>4, <3>5, StepsTable DEF Step, Made, IInv, Shape, Resources, Containers
      <3>6. CASE at \in {5, 8}
        <4>1. box["gateway"] = "ours"
          BY <2>1, <3>6 DEF RegisteredInOrder, GuardAt
        <4> QED BY <3>4, <4>1 DEF Made, IInv, Shape
      <3> QED BY <3>2, <3>5, <3>6
    <2> QED BY <2>1, <2>3, <2>4 DEF RegisteredInOrder
  <1>3. CASE Connect \/ PollGuard \/ PollAgent \/ AgentReplies \/ Inspect \/ Check \/ Ready
              \/ Serve \/ InterruptedInStart
    <2>1. /\ phase = "starting" /\ phase' \in {"starting", "cleaning", "serving"}
          /\ phase' = "starting" => at' = at \/ (at \in {4, 6, 7, 9} /\ at' = at + 1)
          /\ phase' = "serving" => at = 10 /\ result' = "handle"
          /\ phase' # "serving" => result' = result
          /\ cleaned' = 0
          /\ UNCHANGED <<containers, networks, box>>
      BY <1>3, Starts
    <2>2. Listed' /\ made' = made
      BY <1>1, <2>1 DEF Listed, made
    <2>3. made = Counted(at)
      BY <2>1 DEF RegisteredInOrder
    <2>4. phase' = "starting" => made' = Counted(at')
      BY <2>1, <2>2, <2>3
    <2>5. GuardAt(4)' => box'["gateway"] = "ours"
      BY <1>1, <2>1, StepsTable DEF GuardAt, RegisteredInOrder
    <2>6. phase' = "serving" => made' = 5
      BY <2>1, <2>2, <2>3
    <2> QED BY <1>1, <2>1, <2>2, <2>4, <2>5, <2>6 DEF RegisteredInOrder
  <1>4. CASE Start
    <2>1. /\ phase = "idle" /\ phase' \in {"idle", "starting"} /\ at' = 1
          /\ phase' = "starting" => made = 0
          /\ result' \in {"none", "refused"}
          /\ UNCHANGED <<containers, networks, cleaned>>
      BY <1>4 DEF Start, made
    <2>2. Listed' /\ made' = made
      BY <1>1, <2>1 DEF Listed, made
    <2>3. cleaned' = 0
      BY <2>1 DEF RegisteredInOrder
    <2> QED BY <1>1, <2>1, <2>2, <2>3 DEF RegisteredInOrder, GuardAt
  <1>5. CASE Close
    <2>1. /\ phase = "serving" /\ phase' = "closing" /\ cleaned' = 0
          /\ UNCHANGED <<result, containers, networks>>
      BY <1>5 DEF Close
    <2>2. Listed' /\ made' = made
      BY <1>1, <2>1 DEF Listed, made
    <2> QED BY <1>1, <2>1, <2>2 DEF RegisteredInOrder, GuardAt
  <1>6. CASE Removed \/ NotRemoved
    <2>1. /\ Cleaning /\ phase \in {"cleaning", "closing"} /\ cleaned' = cleaned + 1
          /\ UNCHANGED <<phase, result, containers, networks>>
      BY <1>6 DEF Removed, NotRemoved, CleanRest, Cleaning
    <2>2. Listed' /\ made' = made
      BY <1>1, <2>1 DEF Listed, made
    <2>3. cleaned' \in 0..made
      BY <1>1, <2>1, Sweeps
    <2> QED BY <2>1, <2>2, <2>3 DEF RegisteredInOrder, GuardAt
  <1>7. CASE InterruptedInCleanup
    <2>1. /\ phase' = "idle" /\ result' = "interrupted" /\ cleaned' = 0
          /\ UNCHANGED <<containers, networks>>
      BY <1>7 DEF InterruptedInCleanup
    <2>2. Listed' /\ made' = made
      BY <1>1, <2>1 DEF Listed, made
    <2> QED BY <1>1, <2>1, <2>2 DEF RegisteredInOrder, GuardAt
  <1>8. CASE Cleaned
    <2>1. /\ phase' = "idle" /\ cleaned' = 0 /\ containers' = <<>> /\ networks' = <<>>
      BY <1>8 DEF Cleaned
    <2>2. Listed' /\ made' = 0
      BY <2>1 DEF Listed, made
    <2> QED BY <2>1, <2>2 DEF RegisteredInOrder, GuardAt
  <1>9. CASE UNCHANGED <<phase, result, at, containers, networks, cleaned, box>>
    <2>1. Listed' /\ made' = made
      BY <1>1, <1>9 DEF Listed, made
    <2> QED BY <1>9, <2>1 DEF RegisteredInOrder, GuardAt
  <1> QED
    BY <1>2, <1>3, <1>4, <1>5, <1>6, <1>7, <1>8, <1>9
       DEF Next, Object, GuardStep, HealthProbe, Listens, Dies, vars, object_vars,
           docker_vars

(* Nothing more has been passed, and what was excused is still there. *)
LEMMA StillSwept ==
  ASSUME Swept, ~stuck, excused \subseteq excused',
         \A r \in Resources : box'[r] = "ours" /\ ~pending(r)'
                                => box[r] = "ours" /\ ~pending(r),
         \A c \in Containers : box[c] = "ours"
                                => box'[c] = "ours" /\ attached[c] \subseteq attached'[c]
  PROVE  Swept'
  <1>1. \A r \in Containers \cup Networks : r \in Resources
    BY DEF Resources
  <1>2. \A c \in Containers : box'[c] = "ours" /\ ~pending(c)' => c \in excused'
    BY <1>1 DEF Swept
  <1>3. ASSUME NEW n \in Networks, box'[n] = "ours", ~pending(n)'
        PROVE  \/ n \in excused'
               \/ \E c \in Containers \cap excused' : box'[c] = "ours" /\ n \in attached'[c]
    <2>1. box[n] = "ours" /\ ~pending(n)
      BY <1>1, <1>3
    <2>2. \/ n \in excused
          \/ \E c \in Containers \cap excused : box[c] = "ours" /\ n \in attached[c]
      BY <2>1 DEF Swept
    <2> QED BY <2>2
  <1> QED BY <1>2, <1>3 DEF Swept

(* The clean-up passes a thing: it is gone, or excused, or kept in use. *)
LEMMA SweptBySweeping ==
  ASSUME IInv, CleanInv, Removed \/ NotRemoved
  PROVE  Swept'
  <1>1. /\ Cleaning /\ RegisteredInOrder /\ Swept /\ ~stuck
        /\ \A c \in Containers : Running(c) => box[c] = "ours"
    BY DEF Removed, NotRemoved, Cleaning, CleanInv, stuck, IInv, Confinement
  <1>2. Current \in Resources /\ place[Current] = 5 - made + cleaned + 1
        /\ made \in 1..5 /\ cleaned \in 0..(made - 1)
    BY <1>1, Sweeps
  <1>3. \A r \in Resources : pending(r)' <=> pending(r) /\ r # Current
    <2>1. made' = made /\ cleaned' = cleaned + 1
      BY DEF Removed, NotRemoved, CleanRest, made
    <2>2. \A r \in Resources : place[r] > 5 - made + (cleaned + 1)
                                 <=> pending(r) /\ r # Current
      BY <1>1, Sweeps
    <2> QED BY <2>1, <2>2 DEF pending
  <1>4. \A r \in Containers \cup Networks : r \in Resources
    BY DEF Resources
  <1>5. CASE Removed
    <2>1. Discard(Current) /\ excused' = excused
      BY <1>5 DEF Removed
    <2>2. \A r \in Resources : box'[r] = IF r = Current THEN "absent" ELSE box[r]
      BY <1>2, <2>1 DEF Discard, IInv, Shape
    <2>3. \A c \in Containers :
            attached'[c] = IF c = Current THEN {} ELSE attached[c] \ {Current}
      BY <2>1 DEF Discard
    <2>4. \A c \in Containers : box'[c] = "ours" /\ ~pending(c)' => c \in excused'
      BY <1>1, <1>3, <1>4, <2>1, <2>2 DEF Swept
    <2>5. ASSUME NEW n \in Networks, box'[n] = "ours", ~pending(n)'
          PROVE  \/ n \in excused'
                 \/ \E c \in Containers \cap excused' :
                      box'[c] = "ours" /\ n \in attached'[c]
      <3>1. n # Current /\ box[n] = "ours" /\ ~pending(n)
        BY <1>3, <1>4, <2>2, <2>5
      <3>2. CASE n \in excused
        BY <2>1, <3>2
      <3>3. CASE n \notin excused
        <4>1. PICK c \in Containers \cap excused : box[c] = "ours" /\ n \in attached[c]
          BY <1>1, <3>1, <3>3 DEF Swept
        <4>2. Current \notin Containers
          <5>1. place[n] \in 4..5 /\ ~(place[n] > 5 - made + cleaned)
            BY <3>1, PlaceTable DEF pending
          <5>2. place[Current] > 4
            BY <1>2, <5>1
          <5> QED BY <5>2, PlaceTable
        <4>3. c # Current
          BY <4>2
        <4> QED BY <1>4, <2>1, <2>2, <2>3, <3>1, <4>1, <4>3
      <3> QED BY <3>2, <3>3
    <2> QED BY <2>4, <2>5 DEF Swept
  <1>6. CASE NotRemoved
    <2>1. /\ box' = box /\ attached' = attached /\ excused \subseteq excused'
          /\ Current \in excused' \/ ~Owned(Current) \/ ~Removable(Current)
      BY <1>6 DEF NotRemoved, docker_vars
    <2>2. ASSUME NEW c \in Containers, box'[c] = "ours", ~pending(c)'
          PROVE  c \in excused'
      <3>1. CASE c = Current
        <4>1. c \notin Networks
          BY PlaceTable
        <4> QED BY <2>1, <2>2, <3>1, <4>1 DEF Owned, Removable
      <3>2. CASE c # Current
        <4>1. ~pending(c)
          BY <1>3, <1>4, <2>2, <3>2
        <4> QED BY <1>1, <2>1, <2>2, <4>1 DEF Swept
      <3> QED BY <3>1, <3>2
    <2>3. ASSUME NEW n \in Networks, box'[n] = "ours", ~pending(n)'
          PROVE  \/ n \in excused'
                 \/ \E c \in Containers \cap excused' :
                      box'[c] = "ours" /\ n \in attached'[c]
      <3>1. CASE n # Current
        <4>1. ~pending(n)
          BY <1>3, <1>4, <2>3, <3>1
        <4>2. \/ n \in excused
              \/ \E c \in Containers \cap excused : box[c] = "ours" /\ n \in attached[c]
          BY <1>1, <2>1, <2>3, <4>1 DEF Swept
        <4> QED BY <2>1, <4>2
      <3>2. CASE n = Current
        <4>1. n \in excused' \/ ~Removable(n)
          BY <2>1, <2>3, <3>2 DEF Owned
        <4>2. ASSUME ~Removable(n)
              PROVE  \E c \in Containers \cap excused' :
                       box'[c] = "ours" /\ n \in attached'[c]
          <5>1. PICK c \in Containers : Running(c) /\ n \in attached[c]
            BY <4>2 DEF Removable
          <5>2. box[c] = "ours"
            BY <1>1, <5>1
          <5>3. ~pending(c)
            <6>1. place[n] = 5 - made + cleaned + 1 /\ place[n] \in 4..5
              BY <1>2, <3>2, PlaceTable
            <6>2. place[c] \in 1..3
              BY PlaceTable
            <6> QED BY <1>2, <6>1, <6>2 DEF pending
          <5>4. c \in excused
            BY <1>1, <5>2, <5>3 DEF Swept
          <5> QED BY <2>1, <5>1, <5>2, <5>4
        <4> QED BY <4>1, <4>2
      <3> QED BY <3>1, <3>2
    <2> QED BY <2>2, <2>3 DEF Swept
  <1> QED BY <1>5, <1>6

LEMMA SweptStep ==
  ASSUME IInv, CleanInv, [Next]_vars
  PROVE  Swept'
  <1>1. RegisteredInOrder /\ Swept /\ Listed /\ made \in 0..5 /\ Len(CleanupOrder) = made
    BY CleanupTable DEF CleanInv, RegisteredInOrder
  <1>2. CASE CreateNetwork \/ RunContainer
    <2>1. /\ phase = "starting" /\ cleaned = 0 /\ cleaned' = 0 /\ excused' = excused
          /\ Step.of \in Resources /\ place[Step.of] = 5 - made
          /\ made' = made + 1 /\ made \in 0..4
      BY <1>1, <1>2, Registers
    <2>2. /\ \A r \in Resources : r # Step.of => box'[r] = box[r]
          /\ \A c \in Containers : box[c] = "ours"
                                => box'[c] = "ours" /\ attached[c] \subseteq attached'[c]
      <3> DEFINE new == Step.of
      <3>1. \/ UNCHANGED <<box, attached>>
            \/ /\ box[new] = "absent" /\ box' = [box EXCEPT ![new] = "ours"]
               /\ \/ attached' = attached
                  \/ attached' = [attached EXCEPT ![new] = home[new]]
        BY <1>2 DEF CreateNetwork, RunContainer, Made, docker_vars
      <3> HIDE DEF new
      <3>2. /\ box \in [Resources -> {"absent", "ours", "foreign"}]
            /\ attached \in [Containers -> SUBSET (Networks \cup {"guard"})]
        BY DEF IInv, Shape
      <3>3. /\ \A r \in Resources : r # new => box'[r] = box[r]
            /\ \A c \in Containers : box[c] = "ours"
                                  => box'[c] = "ours" /\ attached[c] \subseteq attached'[c]
        BY <3>1, <3>2, PlaceTable
      <3> QED BY <3>3 DEF new
    <2>3. ASSUME NEW r \in Resources, box'[r] = "ours", ~pending(r)'
          PROVE  box[r] = "ours" /\ ~pending(r)
      <3>1. place[r] \in 1..5 /\ ~(place[r] > 5 - (made + 1) + 0)
        BY <2>1, <2>3, PlaceTable DEF pending
      <3>2. r # Step.of /\ ~(place[r] > 5 - made + 0)
        BY <2>1, <3>1
      <3> QED BY <2>1, <2>2, <2>3, <3>2 DEF pending
    <2> QED BY <1>1, <2>1, <2>2, <2>3, StillSwept DEF stuck
  <1>3. CASE Connect \/ PollGuard \/ PollAgent \/ AgentReplies \/ Inspect \/ Check \/ Ready
              \/ Serve \/ InterruptedInStart
    <2>1. /\ phase = "starting" /\ cleaned = 0 /\ cleaned' = 0
          /\ UNCHANGED <<containers, networks, excused, box>>
          /\ \A c \in Containers : attached[c] \subseteq attached'[c]
      BY <1>1, <1>3, Starts
    <2>2. \A r \in Resources : pending(r)' <=> pending(r)
      BY <2>1 DEF pending, made
    <2> QED BY <1>1, <2>1, <2>2, StillSwept DEF stuck
  <1>4. CASE Removed \/ NotRemoved
    BY <1>4, SweptBySweeping
  <1>5. CASE InterruptedInCleanup
    <2>1. /\ phase \in {"cleaning", "closing"} /\ phase' = "idle" /\ cleaned' = 0
          /\ made' = made /\ excused \subseteq excused'
      BY <1>5 DEF InterruptedInCleanup, made
    <2>2. CASE made > 0
      BY <1>1, <2>1, <2>2 DEF Swept, stuck
    <2>3. CASE made = 0
      <3>1. cleaned = 0 /\ ~Cleaning
        BY <1>1, <2>3 DEF RegisteredInOrder, Cleaning
      <3>2. UNCHANGED <<box, attached>>
        BY <1>5, <3>1 DEF InterruptedInCleanup, docker_vars
      <3>3. \A r \in Resources : pending(r)' <=> pending(r)
        BY <2>1, <3>1 DEF pending
      <3> QED BY <1>1, <2>1, <3>2, <3>3, StillSwept DEF stuck
    <2> QED BY <1>1, <2>2, <2>3
  <1>6. CASE Cleaned
    <2>1. /\ phase \in {"cleaning", "closing"} /\ cleaned = made /\ cleaned' = 0
          /\ containers' = <<>> /\ networks' = <<>>
          /\ UNCHANGED <<box, attached, excused>>
      BY <1>1, <1>6 DEF Cleaned, docker_vars
    <2>2. made' = 0
      BY <2>1 DEF made
    <2>3. \A r \in Resources : pending(r)' <=> pending(r)
      BY <1>1, <2>1, <2>2 DEF pending
    <2> QED BY <1>1, <2>1, <2>3, StillSwept DEF stuck
  <1>7. CASE Start \/ Close
    <2>1. /\ UNCHANGED <<containers, networks, excused, box, attached>> /\ cleaned' = cleaned
          /\ ~stuck \/ stuck'
      <3>1. CASE Start
        BY <1>1, <3>1 DEF Start, stuck, made, docker_vars
      <3>2. CASE Close
        BY <1>1, <3>2 DEF Close, stuck, docker_vars, RegisteredInOrder
      <3> QED BY <1>7, <3>1, <3>2
    <2>2. \A r \in Resources : pending(r)' <=> pending(r)
      BY <2>1 DEF pending, made
    <2>3. CASE ~stuck
      BY <1>1, <2>1, <2>2, <2>3, StillSwept
    <2>4. CASE stuck'
      BY <2>4 DEF Swept
    <2> QED BY <2>1, <2>3, <2>4
  <1>8. CASE UNCHANGED <<object_vars, box, attached, excused>>
    <2>1. /\ stuck' <=> stuck
          /\ \A r \in Resources : pending(r)' <=> pending(r)
      BY <1>8 DEF object_vars, stuck, pending, made
    <2>2. CASE ~stuck
      BY <1>1, <1>8, <2>1, <2>2, StillSwept
    <2>3. CASE stuck'
      BY <2>3 DEF Swept
    <2> QED BY <2>1, <2>2, <2>3
  <1> QED
    BY <1>2, <1>3, <1>4, <1>5, <1>6, <1>7, <1>8
       DEF Next, Object, GuardStep, HealthProbe, Listens, Dies, vars, docker_vars

(* What close has passed and not removed it will report. *)
LEMMA ReportedStep ==
  ASSUME IInv, CleanInv, [Next]_vars
  PROVE  Reported'
  <1>1. RegisteredInOrder /\ Reported
    BY DEF CleanInv
  <1> SUFFICES ASSUME phase' = "closing",
                      NEW r \in Resources, box'[r] = "ours", ~pending(r)'
               PROVE  r \in failures'
    BY DEF Reported
  <1>2. CASE Close
    <2>1. made = 5 /\ made' = made /\ cleaned' = 0
      BY <1>1, <1>2 DEF Close, RegisteredInOrder, made
    <2>2. place[r] \in 1..5
      BY PlaceTable
    <2> QED BY <2>1, <2>2 DEF pending
  <1>3. CASE Removed \/ NotRemoved
    <2>1. Cleaning /\ phase = "closing" /\ made' = made /\ cleaned' = cleaned + 1
      BY <1>3 DEF Removed, NotRemoved, CleanRest, made
    <2>2. Current \in Resources /\ (r = Current \/ ~pending(r))
      BY <1>1, <2>1, Sweeps DEF pending
    <2>3. CASE Removed
      BY <1>1, <2>1, <2>2, <2>3 DEF Removed, Discard, Reported, IInv, Shape
    <2>4. CASE NotRemoved
      BY <1>1, <2>1, <2>2, <2>4 DEF NotRemoved, Report, Reported, docker_vars
    <2> QED BY <1>3, <2>3, <2>4
  <1>4. CASE UNCHANGED <<object_vars, box>>
    BY <1>1, <1>4 DEF object_vars, Reported, pending, made
  <1>5. CASE Connect \/ PollGuard \/ PollAgent \/ AgentReplies \/ Inspect \/ Check \/ Ready
              \/ Serve \/ InterruptedInStart
    BY <1>1, <1>5, Starts
  <1>6. CASE CreateNetwork \/ RunContainer
    BY <1>1, <1>6, Registers
  <1>7. CASE Start \/ InterruptedInCleanup \/ Cleaned
    BY <1>7 DEF Start, InterruptedInCleanup, Cleaned
  <1> QED
    BY <1>2, <1>3, <1>4, <1>5, <1>6, <1>7
       DEF Next, Object, GuardStep, HealthProbe, Listens, Dies, vars, docker_vars

(* close has passed everything when it says how it went. *)
LEMMA CloseStep ==
  ASSUME IInv, CleanInv, [Next]_vars
  PROVE  CloseReportsWhatIsLeft'
  <1>1. RegisteredInOrder /\ Reported /\ CloseReportsWhatIsLeft
        /\ made \in 0..5 /\ Len(CleanupOrder) = made
    BY CleanupTable DEF CleanInv, RegisteredInOrder
  <1>2. CASE Cleaned
    <2>1. /\ cleaned = made /\ result' \in {"raised", "closed", "unclean"}
          /\ UNCHANGED <<box, failures>>
          /\ result' \in {"closed", "unclean"} => phase = "closing"
          /\ result' = "closed" => failures = {}
      BY <1>1, <1>2 DEF Cleaned, docker_vars
    <2>2. ASSUME phase = "closing" PROVE Left \subseteq failures
      <3>1. ASSUME NEW r \in Resources PROVE ~pending(r)
        <4>1. place[r] \in 1..5
          BY PlaceTable
        <4> QED BY <1>1, <2>1, <4>1 DEF pending
      <3> QED BY <1>1, <2>2, <3>1 DEF Reported, Left
    <2>3. Left' = Left
      BY <2>1 DEF Left
    <2> QED BY <2>1, <2>2, <2>3 DEF CloseReportsWhatIsLeft
  <1>3. CASE result' = result /\ UNCHANGED <<box, failures>>
    BY <1>1, <1>3 DEF CloseReportsWhatIsLeft, Left
  <1>4. CASE result' \notin {"closed", "unclean"}
    BY <1>4 DEF CloseReportsWhatIsLeft
  <1>5. CASE CreateNetwork \/ RunContainer
    BY <1>1, <1>4, <1>5, Registers DEF RegisteredInOrder
  <1>6. CASE Connect \/ PollGuard \/ PollAgent \/ AgentReplies \/ Inspect \/ Check \/ Ready
              \/ Serve \/ InterruptedInStart
    BY <1>1, <1>4, <1>6, Starts DEF RegisteredInOrder
  <1>7. CASE Removed \/ NotRemoved
    BY <1>1, <1>4, <1>7 DEF Removed, NotRemoved, Cleaning, CleanRest, RegisteredInOrder
  <1>8. CASE Start \/ InterruptedInCleanup
    BY <1>4, <1>8 DEF Start, InterruptedInCleanup
  <1>9. CASE Close
    BY <1>1, <1>4, <1>9 DEF Close, RegisteredInOrder
  <1> QED
    BY <1>2, <1>3, <1>5, <1>6, <1>7, <1>8, <1>9
       DEF Next, Object, GuardStep, HealthProbe, Listens, Dies, vars, object_vars,
           docker_vars

(* Taking the guard or the gateway away: the agent went before, or was passed. *)
LEMMA WitnessesDiscarded ==
  ASSUME IInv, CleanInv, Cleaning, Discard(Current), excused \subseteq excused'
  PROVE  WitnessesOutliveTheAgent'
  <1>1. /\ RegisteredInOrder /\ Swept /\ ~stuck /\ WitnessesOutliveTheAgent
        /\ Running("agent") => box["agent"] = "ours"
    BY DEF Cleaning, CleanInv, stuck, IInv, Confinement, Containers
  <1> SUFFICES ASSUME Running("agent")', "agent" \notin excused'
               PROVE  box'["guard"] = "ours" /\ box'["gateway"] = "ours"
    BY DEF WitnessesOutliveTheAgent
  <1>2. Running("agent") /\ Current # "agent"
    BY DEF Discard, Running, Containers
  <1>3. box["agent"] = "ours" /\ box["guard"] = "ours" /\ box["gateway"] = "ours"
    BY <1>1, <1>2 DEF WitnessesOutliveTheAgent
  <1>4. pending("agent")
    BY <1>1, <1>3 DEF Swept, Containers
  <1>5. place[Current] <= place["agent"]
    BY <1>1, <1>4, Sweeps, PlaceTable DEF pending
  <1>6. Current \notin {"guard", "gateway"}
    BY <1>5, PlaceTable
  <1> QED
    BY <1>3, <1>6 DEF Discard, IInv, Shape

LEMMA WitnessStep ==
  ASSUME IInv, CleanInv, [Next]_vars
  PROVE  WitnessesOutliveTheAgent'
  <1>1. RegisteredInOrder /\ WitnessesOutliveTheAgent
    BY DEF CleanInv
  <1>2. CASE /\ UNCHANGED box /\ excused \subseteq excused'
             /\ Running("agent")' => Running("agent")
    BY <1>1, <1>2 DEF WitnessesOutliveTheAgent
  <1>3. CASE CreateNetwork
    <2>1. Step.of \in Networks
      BY <1>3, Places DEF IInv, Shape, CreateNetwork, Doing
    <2>2. box'["guard"] = box["guard"] /\ box'["gateway"] = box["gateway"]
      <3>1. Step.of # "guard" /\ Step.of # "gateway"
        BY <2>1 DEF Networks
      <3>2. box' = box \/ box' = [box EXCEPT ![Step.of] = "ours"]
        BY <1>3 DEF CreateNetwork
      <3> QED BY <3>1, <3>2 DEF IInv, Shape, Resources, Containers
    <2>3. UNCHANGED <<run, excused>>
      BY <1>3 DEF CreateNetwork
    <2> QED BY <1>1, <2>2, <2>3 DEF WitnessesOutliveTheAgent, Running
  <1>4. CASE RunContainer
    <2> DEFINE c == Step.of
    <2>1. /\ phase = "starting" /\ at \in {3, 5, 8} /\ (c = "agent" => at = 8)
          /\ excused' = excused
      BY <1>4, Places DEF IInv, Shape, RunContainer, Doing
    <2>2. CASE UNCHANGED docker_vars
      BY <1>2, <2>1, <2>2 DEF docker_vars, Running
    <2>3. CASE box[c] = "absent" /\ \E state \in {"created", "running"} : Made(c, state)
      <3>1. c = "agent" => box["guard"] = "ours" /\ box["gateway"] = "ours"
        BY <1>1, <2>1 DEF IInv, Confinement, GuardAt, RegisteredInOrder
      <3> HIDE DEF c
      <3>2. /\ \A d \in Containers : box[d] = "ours" => box'[d] = "ours"
            /\ c # "agent" => run'["agent"] = run["agent"]
        BY <2>3 DEF Made, IInv, Shape, Containers, Resources
      <3>3. CASE c = "agent"
        BY <3>1, <3>2, <3>3 DEF WitnessesOutliveTheAgent, Containers
      <3>4. CASE c # "agent"
        BY <1>1, <2>1, <3>2, <3>4 DEF WitnessesOutliveTheAgent, Running, Containers
      <3> QED BY <3>3, <3>4
    <2> QED BY <1>4, <2>2, <2>3 DEF RunContainer
  <1>5. CASE Removed
    BY <1>5, WitnessesDiscarded DEF Removed
  <1>6. CASE InterruptedInCleanup
    <2>1. CASE UNCHANGED docker_vars
      BY <1>2, <1>6, <2>1 DEF InterruptedInCleanup, docker_vars, Running
    <2>2. CASE Cleaning /\ Discard(Current)
      BY <1>6, <2>2, WitnessesDiscarded DEF InterruptedInCleanup
    <2> QED BY <1>6, <2>1, <2>2 DEF InterruptedInCleanup
  <1>7. CASE \E c \in Containers : Dies(c)
    BY <1>2, <1>7 DEF Dies, Running, IInv, Shape
  <1>8. CASE Connect \/ PollGuard \/ PollAgent \/ AgentReplies \/ Inspect \/ Check \/ Ready
              \/ Serve \/ InterruptedInStart
    BY <1>1, <1>2, <1>8, Starts DEF Running
  <1>9. CASE Start \/ Close \/ Cleaned \/ NotRemoved
    BY <1>2, <1>9 DEF Start, Close, Cleaned, NotRemoved, docker_vars, Running
  <1>10. CASE \/ GuardStep \/ HealthProbe \/ (\E c \in Containers : Listens(c))
              \/ UNCHANGED vars
    BY <1>2, <1>10
       DEF GuardStep, HealthProbe, Listens, vars, docker_vars, Running
  <1> QED
    BY <1>3, <1>4, <1>5, <1>6, <1>7, <1>8, <1>9, <1>10 DEF Next, Object

LEMMA CleanInit == Init => CleanInv
  <1> SUFFICES ASSUME Init PROVE CleanInv
    OBVIOUS
  <1>1. /\ phase = "idle" /\ result = "none" /\ cleaned = 0
        /\ containers = <<>> /\ networks = <<>>
        /\ box \in [Resources -> {"absent", "foreign"}]
        /\ run["agent"] = "none"
    BY DEF Init, Containers
  <1>2. made = 0 /\ Listed
    BY <1>1 DEF made, Listed
  <1>3. \A r \in Containers \cup Networks : box[r] # "ours"
    BY <1>1 DEF Resources
  <1> QED
    BY <1>1, <1>2, <1>3
       DEF CleanInv, RegisteredInOrder, Swept, Reported, CloseReportsWhatIsLeft,
           WitnessesOutliveTheAgent, Running, GuardAt

LEMMA CleanInvariance == Spec => []CleanInv
  <1>1. IInv /\ CleanInv /\ [Next]_vars => CleanInv'
    BY RegisteredStep, SweptStep, ReportedStep, CloseStep, WitnessStep DEF CleanInv
  <1> QED BY <1>1, CleanInit, Invariance, PTL DEF Spec

(* Nothing is left behind in silence: what a failed start leaves is what    *)
(* Docker refused to remove or such a container keeps in use, and a close   *)
(* names everything that is left (_cleanup_best_effort and close).          *)
THEOREM SandboxLeavesNothingUnsaid == Spec => []NothingIsLeftUnsaid
  <1>1. CleanInv => FailedStartLeavesNothing
    <2> SUFFICES ASSUME CleanInv, result = "raised", NEW resource \in Left \ excused
                 PROVE  \E c \in Containers \cap excused : c \in Left /\ resource \in attached[c]
      BY DEF FailedStartLeavesNothing
    <2>1. phase = "idle" /\ made = 0 /\ cleaned = 0 /\ Swept
      BY DEF CleanInv, RegisteredInOrder
    <2>2. resource \in Resources /\ box[resource] = "ours" /\ resource \notin excused
      BY DEF Left
    <2>3. ~stuck /\ ~pending(resource)
      BY <2>1, <2>2, PlaceTable DEF stuck, pending
    <2>4. resource \in Networks
      BY <2>1, <2>2, <2>3 DEF Swept, Resources
    <2>5. PICK c \in Containers \cap excused : box[c] = "ours" /\ resource \in attached[c]
      BY <2>1, <2>2, <2>3, <2>4 DEF Swept
    <2> QED BY <2>5 DEF Left, Resources
  <1>2. CleanInv => NothingIsLeftUnsaid
    BY <1>1 DEF CleanInv, NothingIsLeftUnsaid
  <1> QED BY <1>2, CleanInvariance, PTL

(* While the agent runs, the guard and the gateway that see what it tries   *)
(* are not removed, unless its own removal was refused or cut short (the    *)
(* reversed lists of _cleanup_best_effort and close).                       *)
THEOREM SandboxWitnessesOutliveTheAgent == Spec => []WitnessesOutliveTheAgent
  BY CleanInvariance, PTL DEF CleanInv
=============================================================================
