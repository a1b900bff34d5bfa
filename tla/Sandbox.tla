------------------------------ MODULE Sandbox ------------------------------
(***************************************************************************)
(* DockerSandbox (sandbox/orchestration.py): the life of the networks and  *)
(* containers an untrusted agent runs in.  start issues Docker commands in *)
(* a fixed order and waits twice; any command may fail, and any point may  *)
(* be interrupted by an exception such as KeyboardInterrupt.  Meanwhile    *)
(* the guard runs through its own start (guard_main.py), the gateway and   *)
(* the agent begin to listen, and any container may die.  The agent's      *)
(* answer to the health check is its own to give, in its own time.  A      *)
(* failed start cleans up as well as it can; close cleans up and reports.  *)
(*                                                                         *)
(* Images, addresses, ports and secrets are left out.  A name may be taken *)
(* by something another program made: the ownership label tells.  A        *)
(* `docker run` that fails may leave a container that was never started.   *)
(***************************************************************************)
EXTENDS Integers, Sequences, SequencesExt

CONSTANTS
  MaxPolls,       \* polls that fit in startup_timeout_s
  MaxStarts,      \* calls of start
  MaxFaults,      \* Docker commands that fail for no reason of ours
  MaxInterrupts   \* exceptions such as KeyboardInterrupt

ASSUME SandboxAssumption == {MaxPolls, MaxStarts, MaxFaults, MaxInterrupts} \subseteq Nat

Networks   == {"internal", "egress"}
Containers == {"gateway", "guard", "agent"}
Resources  == Networks \cup Containers

-----------------------------------------------------------------------------
(* What start does, in order; what a guard does before it is ready; the    *)
(* checks that are run inside the guard, while start waits and at its end. *)

Steps_runs_the_agent_unchecked ==
  << [op |-> "create", of |-> "internal"], [op |-> "create", of |-> "egress"],
     [op |-> "run", of |-> "gateway"], [op |-> "connect", of |-> "gateway"],
     [op |-> "run", of |-> "guard"], [op |-> "connect", of |-> "guard"],
     [op |-> "run", of |-> "agent"], [op |-> "wait", of |-> "guard"],
     [op |-> "wait", of |-> "agent"], [op |-> "preflight", of |-> "agent"] >>
Steps ==
  << [op |-> "create", of |-> "internal"], [op |-> "create", of |-> "egress"],
     [op |-> "run", of |-> "gateway"], [op |-> "connect", of |-> "gateway"],
     [op |-> "run", of |-> "guard"], [op |-> "connect", of |-> "guard"],
     [op |-> "wait", of |-> "guard"], [op |-> "run", of |-> "agent"],
     [op |-> "wait", of |-> "agent"], [op |-> "preflight", of |-> "agent"] >>

Stages_ready_before_collectors ==
  << "configuration", "firewall_install", "firewall_verify", "ipv6_proof",
     "runtime_directory", "privilege_drop", "ready_record", "collector_start" >>
Stages ==
  << "configuration", "firewall_install", "firewall_verify", "ipv6_proof",
     "runtime_directory", "privilege_drop", "collector_start", "ready_record" >>

Checks_without_gateway == <<"ready", "firewall">>
Checks == <<"ready", "firewall", "gateway">>

(* The network a container is created on, and the one it is connected to later. *)
home  == [gateway |-> {"internal"}, guard |-> {"egress"}, agent |-> {"guard"}]
other == [gateway |-> "egress", guard |-> "internal"]

VARIABLES
  phase,       \* of the DockerSandbox object: see Phases
  result,      \* how the last call of start or close ended
  at,          \* the step of start under way
  probe,       \* the check under way in that step, 0 before the first and
               \* Len(Checks) + 1 when all have passed
  polls,       \* polls the current wait has made
  sound,       \* the preflight's inspection found every container as planned
  containers,  \* _created_containers
  networks,    \* _created_networks
  cleaned,     \* things the clean-up under way has dealt with
  failures,    \* what close will report
  box,         \* Docker: who owns the thing of each name
  run,         \* Docker: the state of each of our containers
  attached,    \* Docker: the networks of each; "guard" is the guard's namespace
  health,      \* Docker: the guard's health status
  guard,       \* guard_main: stages done
  listening,   \* containers that answer on their port
  starts, faults, interrupts,  \* how often each has happened
  excused,     \* things whose clean-up Docker refused or an exception cut short
  lost         \* history: containers that died since the preflight under way saw them alive

object_vars == <<phase, result, at, probe, polls, sound, containers, networks, cleaned, failures>>
docker_vars == <<box, run, attached, health, guard, listening>>
bound_vars  == <<starts, faults, interrupts>>
vars        == <<object_vars, docker_vars, bound_vars, excused, lost>>

CleanupOrder_oldest_first == containers \o networks
CleanupOrder == Reverse(containers) \o Reverse(networks)

Phases  == {"idle", "starting", "serving", "cleaning", "closing"}
Results == {"none", "handle", "refused", "raised", "closed", "unclean", "interrupted"}

TypeOK ==
  /\ phase \in Phases /\ result \in Results
  /\ at \in DOMAIN Steps /\ probe \in 0..Len(Checks) + 1 /\ polls \in 0..MaxPolls
  /\ sound \in BOOLEAN
  /\ containers \in Seq(Containers) /\ networks \in Seq(Networks)
  /\ cleaned \in 0..Len(CleanupOrder)
  /\ failures \subseteq Resources /\ excused \subseteq Resources /\ lost \subseteq Containers
  /\ box \in [Resources -> {"absent", "ours", "foreign"}]
  /\ run \in [Containers -> {"none", "created", "running", "exited"}]
  /\ attached \in [Containers -> SUBSET (Networks \cup {"guard"})]
  /\ health \in {"starting", "healthy", "unhealthy"}
  /\ guard \in 0..Len(Stages)
  /\ listening \subseteq {"gateway", "agent"}
  /\ starts \in 0..MaxStarts /\ faults \in 0..MaxFaults /\ interrupts \in 0..MaxInterrupts

Init ==
  /\ phase = "idle" /\ result = "none"
  /\ at = 1 /\ probe = 0 /\ polls = 0 /\ sound = FALSE
  /\ containers = <<>> /\ networks = <<>> /\ cleaned = 0
  /\ failures = {} /\ excused = {} /\ lost = {}
  /\ box \in [Resources -> {"absent", "foreign"}]
  /\ run = [c \in Containers |-> "none"]
  /\ attached = [c \in Containers |-> {}]
  /\ health = "starting" /\ guard = 0 /\ listening = {}
  /\ starts = 0 /\ faults = 0 /\ interrupts = 0

Running(c) == run[c] = "running"
Done(stage) == \E i \in 1..guard : Stages[i] = stage

-----------------------------------------------------------------------------
(* The processes in the containers, and Docker. *)

(* The ready record says what the guard's privileges were when it was written. *)
ReadyRecord == Done("ready_record")

Passes(check) ==
  /\ Running("guard")
  /\ check = "ready"    => ReadyRecord
  /\ check = "firewall" => Done("firewall_install")
  /\ check = "gateway"  => /\ "internal" \in attached["guard"]
                           /\ Running("gateway") /\ "gateway" \in listening

GuardStep ==
  /\ Running("guard") /\ guard < Len(Stages)
  /\ guard' = guard + 1
  /\ UNCHANGED <<object_vars, box, run, attached, health, listening, bound_vars, excused, lost>>

(* The image's health check runs --check-ready every two seconds. *)
HealthProbe ==
  /\ Running("guard")
  /\ \/ ReadyRecord /\ health' = "healthy"
     \/ health' = "unhealthy"
  /\ UNCHANGED <<object_vars, box, run, attached, guard, listening, bound_vars, excused, lost>>

Listens(c) ==
  /\ Running(c) /\ c # "guard"
  /\ listening' = listening \cup {c}
  /\ UNCHANGED <<object_vars, box, run, attached, health, guard, bound_vars, excused, lost>>

(* A process ends: killed, or by an error (a stage of the guard's start). *)
Dies(c) ==
  /\ Running(c)
  /\ run' = [run EXCEPT ![c] = "exited"]
  /\ listening' = listening \ {c}
  /\ lost' = IF phase = "starting" /\ Steps[at].op = "preflight" /\ probe > 0
               THEN lost \cup {c} ELSE {}
  /\ UNCHANGED <<object_vars, box, attached, health, guard, bound_vars, excused>>

DockerFails == faults < MaxFaults /\ faults' = faults + 1 /\ UNCHANGED <<starts, interrupts>>
Interrupted == interrupts < MaxInterrupts /\ interrupts' = interrupts + 1
                 /\ UNCHANGED <<starts, faults>>
Undisturbed == UNCHANGED bound_vars

-----------------------------------------------------------------------------
(* start *)

Step == Steps[at]
Doing(op) == phase = "starting" /\ Step.op = op

Proceed ==
  /\ at' = at + 1 /\ probe' = 0 /\ polls' = 0
  /\ UNCHANGED <<phase, result, cleaned>>

Abort ==
  /\ phase' = "cleaning" /\ cleaned' = 0
  /\ UNCHANGED <<result, at, probe, polls>>

(* After a command's effect: go on, or be interrupted before the next. *)
Continue ==
  \/ Undisturbed /\ Proceed
  \/ Interrupted /\ Abort

Start ==
  /\ phase = "idle" /\ starts < MaxStarts
  /\ starts' = starts + 1
  /\ IF containers = <<>> /\ networks = <<>>
       THEN \/ phase' = "starting" /\ result' = "none"
            \/ phase' = "idle" /\ result' = "refused"   \* no secret source
       ELSE phase' = "idle" /\ result' = "refused"      \* already started
  /\ at' = 1 /\ probe' = 0 /\ polls' = 0 /\ sound' = FALSE
  /\ UNCHANGED <<containers, networks, cleaned, failures, docker_vars, faults, interrupts, excused, lost>>

Register_after_success(resource) ==
  IF phase' = "cleaning" THEN UNCHANGED <<containers, networks>>
  ELSE IF resource \in Networks
    THEN networks' = Append(networks, resource) /\ UNCHANGED containers
    ELSE containers' = Append(containers, resource) /\ UNCHANGED networks
Register(resource) ==
  IF resource \in Networks
    THEN networks' = Append(networks, resource) /\ UNCHANGED containers
    ELSE containers' = Append(containers, resource) /\ UNCHANGED networks

CreateNetwork ==
  /\ Doing("create")
  /\ \/ /\ box[Step.of] = "absent"
        /\ box' = [box EXCEPT ![Step.of] = "ours"]
        /\ Continue
     \/ box[Step.of] # "absent" /\ Undisturbed /\ Abort /\ UNCHANGED box
     \/ DockerFails /\ Abort /\ UNCHANGED box
  /\ Register(Step.of)
  /\ UNCHANGED <<sound, failures, run, attached, health, guard, listening, excused, lost>>

(* What the container joins must be there: its network, or a guard that runs. *)
CanJoin(c) == IF c = "agent" THEN Running("guard") ELSE \A n \in home[c] : box[n] = "ours"

(* Docker makes the container, then starts it; the guard's process begins. *)
Made(c, state) ==
  /\ box' = [box EXCEPT ![c] = "ours"]
  /\ run' = [run EXCEPT ![c] = state]
  /\ attached' = [attached EXCEPT ![c] = home[c]]
  /\ listening' = listening \ {c}
  /\ guard' = IF c = "guard" THEN 0 ELSE guard
  /\ health' = IF c = "guard" THEN "starting" ELSE health

RunContainer ==
  /\ Doing("run")
  /\ LET c == Step.of IN
       /\ \/ box[c] = "absent" /\ CanJoin(c) /\ Made(c, "running") /\ Continue
          \/ box[c] # "absent" /\ Undisturbed /\ Abort /\ UNCHANGED docker_vars
          \/ /\ box[c] = "absent"
             /\ DockerFails \/ Interrupted \/ (~CanJoin(c) /\ Undisturbed)
             /\ Made(c, "created") \/ UNCHANGED docker_vars
             /\ Abort
       /\ Register(c)
  /\ UNCHANGED <<sound, failures, excused, lost>>

Connect ==
  /\ Doing("connect")
  /\ \/ /\ attached' = [attached EXCEPT ![Step.of] = @ \cup {other[Step.of]}]
        /\ Continue
     \/ DockerFails /\ Abort /\ UNCHANGED attached
  /\ UNCHANGED <<sound, containers, networks, failures, box, run, health, guard, listening, excused, lost>>

(* An exception between two commands, while one runs, or in a sleep. *)
InterruptedInStart ==
  /\ phase = "starting" /\ Interrupted /\ Abort /\ lost' = {}
  /\ UNCHANGED <<sound, containers, networks, failures, docker_vars, excused>>

(* _wait_until: the predicate may settle it; if not, is it too late? *)
NotYet_without_deadline ==
  /\ IF polls = MaxPolls THEN UNCHANGED polls ELSE polls' = polls + 1
  /\ probe' = 0 /\ UNCHANGED <<phase, result, at, cleaned>>
NotYet ==
  \/ polls = MaxPolls /\ Abort
  \/ /\ polls < MaxPolls /\ polls' = polls + 1
     /\ probe' = 0 /\ UNCHANGED <<phase, result, at, cleaned>>

NextCheck == probe' = probe + 1 /\ UNCHANGED <<phase, result, at, polls, cleaned>>

PollGuard ==
  /\ Doing("wait") /\ Step.of = "guard" /\ probe = 0
  /\ \/ DockerFails /\ Abort
     \/ /\ Undisturbed
        /\ \/ Running("guard") /\ health = "healthy" /\ NextCheck
           \/ Running("guard") /\ health = "starting" /\ NotYet
           \/ ~Running("guard") /\ Abort
           \/ health = "unhealthy" /\ Abort
  /\ UNCHANGED <<sound, containers, networks, failures, docker_vars, excused, lost>>

(* /healthz is asked through the port the guard publishes.                  *)
Reachable == "agent" \in listening /\ Running("guard")

(* Not healthy: docker inspect tells whether the agent still runs. *)
Unhealthy ==
  \/ DockerFails /\ Abort
  \/ Undisturbed /\ ~Running("agent") /\ Abort
  \/ Undisturbed /\ Running("agent") /\ NotYet

PollAgent ==
  /\ Doing("wait") /\ Step.of = "agent" /\ probe = 0
  /\ \/ Reachable /\ Undisturbed /\ NextCheck
     \/ ~Reachable /\ Unhealthy
  /\ UNCHANGED <<sound, containers, networks, failures, docker_vars, excused, lost>>

(* What comes back is the agent's choice: 200; what is no HTTP, which       *)
(* _health_check does not catch; or another status, or a second's silence.  *)
AgentReplies ==
  /\ Doing("wait") /\ Step.of = "agent" /\ probe = 1
  /\ \/ Undisturbed /\ (Proceed \/ Abort)
     \/ Unhealthy
  /\ UNCHANGED <<sound, containers, networks, failures, docker_vars, excused, lost>>

(* Bytes that keep coming and never end a response hold start: the time-out *)
(* is for each read, and the deadline is looked at between two polls.       *)
HeldByAgent ==
  /\ Doing("wait") /\ Step.of = "agent" /\ probe = 1
  /\ Running("agent") /\ Running("guard")

(* DockerRuntimePreflight.collect: what docker inspect shows of the plan. *)
AsPlanned ==
  /\ \A c \in Containers : Running(c)
  /\ \A r \in Resources : box[r] = "ours"
  /\ health = "healthy"
  /\ attached = [gateway |-> Networks, guard |-> Networks, agent |-> {"guard"}]

Inspect ==
  /\ Doing("preflight") /\ probe = 0
  /\ \/ DockerFails /\ Abort /\ UNCHANGED sound
     \/ Undisturbed /\ sound' = AsPlanned /\ NextCheck
  /\ UNCHANGED <<containers, networks, failures, docker_vars, excused, lost>>

(* Whom a check that passes has shown alive. *)
Shown(check) == IF check = "gateway" THEN {"guard", "gateway"} ELSE {"guard"}

Check ==
  /\ Doing("preflight") \/ (Doing("wait") /\ Step.of = "guard")
  /\ probe \in DOMAIN Checks
  /\ \/ DockerFails /\ Abort /\ lost' = {}
     \/ Undisturbed /\ ~Passes(Checks[probe]) /\ Abort /\ lost' = {}
     \/ /\ Undisturbed /\ Passes(Checks[probe])
        /\ lost' = lost \ Shown(Checks[probe])
        /\ NextCheck
  /\ UNCHANGED <<sound, containers, networks, failures, docker_vars, excused>>

(* The guard is ready: the wait ends. *)
Ready ==
  /\ Doing("wait") /\ probe = Len(Checks) + 1
  /\ Undisturbed /\ Proceed
  /\ UNCHANGED <<sound, containers, networks, failures, docker_vars, excused, lost>>

(* evaluate_runtime_snapshot, and the handle: nothing is asked of Docker    *)
(* any more, and what died since is handed out.                             *)
Serve ==
  /\ Doing("preflight") /\ probe = Len(Checks) + 1
  /\ Undisturbed
  /\ \/ ~sound /\ Abort
     \/ /\ sound /\ phase' = "serving" /\ result' = "handle"
        /\ UNCHANGED <<at, probe, polls, cleaned>>
  /\ lost' = {}
  /\ UNCHANGED <<sound, containers, networks, failures, docker_vars, excused>>

-----------------------------------------------------------------------------
(* _cleanup_best_effort and close: for each thing registered, is it ours,  *)
(* and if so remove it by name.                                            *)

Close ==
  /\ phase = "serving"
  /\ phase' = "closing" /\ cleaned' = 0 /\ failures' = {}
  /\ UNCHANGED <<result, at, probe, polls, sound, containers, networks,
                 docker_vars, bound_vars, excused, lost>>

Owned_by_name(resource) == box[resource] # "absent"
Owned(resource) == box[resource] = "ours"

(* Docker keeps a network that a running container is attached to. *)
Removable(resource) ==
  resource \in Networks =>
    \A c \in Containers : Running(c) => resource \notin attached[c]

(* Without the guard the agent's namespace is nobody's. *)
Discard(resource) ==
  /\ box' = [box EXCEPT ![resource] = "absent"]
  /\ run' = [c \in Containers |-> IF c = resource THEN "none" ELSE run[c]]
  /\ attached' = [c \in Containers |-> IF c = resource THEN {} ELSE attached[c] \ {resource}]
  /\ listening' = listening \ {resource}
  /\ UNCHANGED <<health, guard>>

Cleaning == phase \in {"cleaning", "closing"} /\ cleaned < Len(CleanupOrder)
Current  == CleanupOrder[cleaned + 1]

CleanRest ==
  /\ cleaned' = cleaned + 1
  /\ UNCHANGED <<phase, result, at, probe, polls, sound, containers, networks>>

Removed ==
  /\ Cleaning
  /\ Owned(Current) /\ Removable(Current)
  /\ Discard(Current) /\ CleanRest
  /\ UNCHANGED <<failures, bound_vars, excused, lost>>

Reports_nothing(resource) == UNCHANGED failures
Report(resource) ==
  failures' = IF phase = "closing" THEN failures \cup {resource} ELSE failures

(* Not ours, not there, refused by Docker, or the command failed. *)
NotRemoved ==
  /\ Cleaning
  /\ LET resource == Current IN
       /\ \/ /\ ~Owned(resource) \/ ~Removable(resource)
             /\ Undisturbed /\ UNCHANGED excused
          \/ DockerFails /\ excused' = excused \cup {resource}
       /\ Report(resource)
  /\ CleanRest
  /\ UNCHANGED <<docker_vars, lost>>

(* An exception other than PreflightFailure ends the clean-up; the lists stay. *)
InterruptedInCleanup ==
  /\ phase \in {"cleaning", "closing"} /\ Interrupted
  /\ phase' = "idle" /\ result' = "interrupted" /\ cleaned' = 0
  /\ \/ UNCHANGED docker_vars
     \/ /\ Cleaning
        /\ Owned(Current) /\ Removable(Current)
        /\ Discard(Current)
  /\ excused' = excused \cup {CleanupOrder[i] : i \in cleaned + 1..Len(CleanupOrder)}
  /\ UNCHANGED <<at, probe, polls, sound, containers, networks, failures, lost>>

Cleaned ==
  /\ phase \in {"cleaning", "closing"} /\ cleaned = Len(CleanupOrder)
  /\ phase' = "idle" /\ cleaned' = 0
  /\ \/ phase = "cleaning" /\ result' = "raised"
     \/ phase = "closing" /\ failures = {} /\ result' = "closed"
     \/ phase = "closing" /\ failures # {} /\ result' = "unclean"
  /\ containers' = <<>> /\ networks' = <<>>
  /\ UNCHANGED <<at, probe, polls, sound, failures, docker_vars, bound_vars, excused, lost>>

-----------------------------------------------------------------------------
Object ==
  CreateNetwork \/ RunContainer \/ Connect \/ PollGuard \/ PollAgent \/ AgentReplies
    \/ Inspect \/ Check \/ Ready \/ Serve \/ Removed \/ NotRemoved \/ Cleaned

Next ==
  \/ Start \/ Close \/ Object
  \/ InterruptedInStart \/ InterruptedInCleanup
  \/ GuardStep \/ HealthProbe
  \/ \E c \in Containers : Listens(c) \/ Dies(c)

(* The thread inside start or close runs on and Docker answers it; nothing *)
(* is owed by the containers, not even an end to the agent's answer.       *)
Spec == Init /\ [][Next]_vars /\ WF_vars(Object /\ ~HeldByAgent)

-----------------------------------------------------------------------------
(* Why the agent is always behind the guard: what start has established    *)
(* by each step, and what keeps a namespace from changing hands.           *)

GuardAt(step) == phase = "starting" /\ at >= step

Confinement ==
  /\ \A c \in Containers : Running(c) => box[c] = "ours"
  /\ "guard" \in attached["agent"] => box["guard"] = "ours"
  /\ "guard" \in attached["agent"] => guard = Len(Stages)
  /\ "guard" \in attached["agent"] /\ Running("guard") => attached["guard"] = Networks
  /\ attached["guard"] \subseteq Networks
  /\ GuardAt(6) => box["guard"] = "ours" /\ "egress" \in attached["guard"]
  /\ GuardAt(7) => attached["guard"] = Networks
  /\ GuardAt(7) /\ probe > 1 => guard = Len(Stages)
  /\ GuardAt(8) => guard = Len(Stages)

-----------------------------------------------------------------------------
(* Properties *)

(* An agent that runs in a guard's namespace runs behind that guard's rules, *)
(* verified, its privileges dropped and its collectors started; while the    *)
(* guard lives it is on both networks, so the gateway can be reached.        *)
AgentIsBehindTheGuard ==
  Running("agent") /\ "guard" \in attached["agent"] =>
    /\ \A stage \in {"firewall_install", "firewall_verify", "ipv6_proof",
                     "privilege_drop", "collector_start"} : Done(stage)
    /\ Running("guard") => attached["guard"] = Networks

(* The two witnesses of what the agent tries are not taken away while it   *)
(* runs, unless its own removal was refused or cut short: containers are   *)
(* removed youngest first.                                                 *)
WitnessesOutliveTheAgent ==
  Running("agent") /\ "agent" \notin excused =>
    box["guard"] = "ours" /\ box["gateway"] = "ours"

Left == {resource \in Resources : box[resource] = "ours"}

(* What a failed start leaves behind is what Docker refused to remove, or a *)
(* network such a container is attached to: everything made is registered, even a  *)
(* container its failed `docker run` left unstarted.                        *)
FailedStartLeavesNothing ==
  result = "raised" =>
    \A resource \in Left \ excused :
      \E c \in Containers \cap excused : c \in Left /\ resource \in attached[c]

(* close returns only when nothing of the sandbox is left, and when it     *)
(* raises it names everything that is.                                     *)
CloseReportsWhatIsLeft ==
  /\ result = "closed"  => Left = {}
  /\ result = "unclean" => Left \subseteq failures

(* A failed start and a close leave nothing behind but what Docker refused  *)
(* to remove, and a close says what.                                        *)
NothingIsLeftUnsaid == FailedStartLeavesNothing /\ CloseReportsWhatIsLeft

(* Another program's network or container is never removed, whatever name  *)
(* it took and whenever the start that met it failed.                      *)
ForeignIsUntouched ==
  [][\A resource \in Resources :
        box[resource] = "foreign" => box'[resource] = "foreign"]_vars

(* Whatever is dead in a sandbox that is handed out died after start last   *)
(* saw it alive, in this preflight and not in a wait before: the agent when *)
(* Docker inspected it, the guard and the gateway when the guard reached    *)
(* the gateway.  The guard is joined to both networks and has its record.   *)
HandedOutAlive ==
  [][phase = "starting" /\ phase' = "serving" =>
       /\ \A c \in Containers : Running(c) \/ c \in lost
       /\ "gateway" \in listening \cup lost
       /\ attached["guard"] = Networks /\ ReadyRecord]_vars

(* start and close return, and a wait that nothing settles ends at its      *)
(* deadline, unless the agent holds the health check for ever: of all that  *)
(* start waits for, its answer alone has no time limit (_health_check).     *)
EveryCallReturns ==
  \/ <>[]HeldByAgent
  \/ phase \in {"starting", "cleaning", "closing"} ~> phase \in {"idle", "serving"}
=============================================================================
