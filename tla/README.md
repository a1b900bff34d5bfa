# A TLA+ model of wagmi-bench

wagmi-bench asks a trading agent for one decision per bar of a historical
market scenario, executes the decisions in an integer-exact simulator under two
cost profiles, and records everything in a hash-chained evidence bundle. This
directory holds TLA+ specifications of the parts that decide whether a result
can be trusted, TLC configurations that check them on small instances, and
machine-checked proofs of the most important safety properties of the engine.

## 1. Inventory

### The system

```
 pack + config                                     sandbox (docker)
      |                                    agent container   guard   gateway
      v                                          ^  |          |        |
 run_episode ---- request_decision ---- HTTPAgent|--+   block logs (docker logs)
   | primary      (2 asks per turn)     worker   |             |        |
   |                                    thread   |             v        v
   | stress_2x: same decisions again             |   DockerEgressEventSource
   v                                             |             |
 events, rows, metrics  <------------------------+-------------+
   |
   v
 BundleWriter: manifest, blobs, events + chain, decisions + chain, ledgers,
   metrics, seal  ---->  verify / replay / redact / report

 raw archives (shared) --> build / hydrate / nightly --> packs
 reference matrix: settings --> smoke call, packs bought one by one --> receipts
```

| Part | Source | State | Operations | Hard behaviour |
|---|---|---|---|---|
| Arithmetic | `core/math.py` | none | rounding, sizing, fill price, funding, margin, liquidation | direction of every rounding, boundaries |
| Episode engine | `core/engine.py` | `_Account`, snapshots, counters, events, recorded decisions | one pass through a turn; liquidation; kill switch; second pass under stress | order within a turn, early ends, exceptions that lose the run |
| Decision round | `core/engine.py`, `harness/http.py` | attempt, replies; worker thread, queue, deadline, connection guard | ask, answer, deadline, retry | thread races, late answers, retries |
| Egress facts | `sandbox/orchestration.py`, `sandbox/events.py` | lines already read, buffer, collected facts | drain, coalesce | lines written while read, truncated logs |
| Recorder | `recorder/writer.py`, `spec/canonical.py` | files, two chained streams, seal | create, append, install, finalize | crash and power loss between system calls |
| Verifier | `recorder/verify.py` | none | verdict on a directory | what is tolerated in an interrupted bundle |
| Action parser | `core/action.py` | none | V1 to V8 | order of checks |
| Observation | `core/observation.py` | none | window of bars for a turn | look-ahead |
| Packs, config | `core/pack.py`, `core/config.py` | none | load and validate | boundary values |
| Metrics | `core/metrics.py` | none | drawdown, Sortino, CVaR, distances | exact roots, empty samples |
| Decision records | `recorder/decisions.py` | none | events to one record per turn | events in unexpected order |
| Replay | `recorder/replay.py` | recorded answers | re-run and compare | trace shorter than the episode |
| Redaction | `recorder/redaction.py` | share copy | remove raw answers | crash between steps |
| Sandbox lifecycle | `sandbox/orchestration.py` | networks, containers, secrets files | start, health, close | partial failure, clean-up |
| Gateway, guard | `sandbox/docker/**` | allow list, DNS pins, firewall, block counters | CONNECT, install, collect | start order, limits, concurrent tunnels |
| LLM agents | `agents/*.py` | budget, retry count | provider call, parse, cost | retry and budget limits |
| Data | `data/*.py`, `cli/packs.py` | raw archives, `.part` files, packs | download, build, hydrate, validate, nightly matrix | resumption after a kill, shared files, new versions upstream |
| Reference matrix | `tools/llm_reference_matrix.py` | receipts and reports under one root | smoke call, purchase, judgement, aggregate | concurrent and killed invocations, money spent without a trace |
| Reports | `report/*.py` | none | score, render, compare | incomplete sets of runs |
| CLI and other tools | `cli/*.py`, `tools/*.py` | wizard answers | commands | none of their own |

### Interactions

* The engine calls the harness synchronously, at most twice per turn; each call
  starts a worker thread that it waits for until an absolute deadline and then
  abandons.
* After each ask the engine drains the egress source of the sandbox, which
  reads container logs that grow on their own.
* The stress profile re-uses the primary profile's recorded decisions; it has
  no agent and no events.
* The recorder is given the whole result after the episode: a run that raises
  is not recorded at all.
* The verifier reads what the recorder left, complete or not. The replay reads a
  complete bundle back and runs the engine again; the share export copies one.
* The kernel sends a flow of the agent to the gateway, to a collector of the
  guard or nowhere; gateway and collectors write the block lines that the drain
  reads.
* The reference matrix runs the engine against a paid agent, once per pack; its
  invocations meet only on the disk. So do those of the pack acquisition and of
  the nightly matrix, which share the raw directory.

### What makes each modelled part correct

* Arithmetic: no combination of roundings can be turned into a gain, doubled
  costs are never cheaper, the impact and the liquidation price are exact to a
  tick, a fill stays inside its share of the bar.
* Engine: cash is conserved; a position has the entry and leverage its margin
  is computed from; liquidation and kill switch are final and exclusive; the
  last row is the account; no move without its event; the run ends.
* Decision round: a recorded reply was received for that very ask, in time, and
  has nothing protected in it; the retry protocol is kept; the round ends
  against any agent.
* Egress facts: a line that was read is counted exactly once.
* Recorder and verifier: an interrupted bundle is TRUNCATED and never CORRUPT;
  a seal is on everything; what a call returned from survives a power loss.
* Sandbox: the agent runs only behind a guard whose rules are in and verified;
  a start that fails and a close leave nothing of theirs, or say what; what
  another program made is not touched; both calls return, unless the agent never
  ends its answer to the health check.
* Egress: whatever the order of the rules, no packet leaves but by the gateway;
  a tunnel goes to an address that was vetted, for the name that was allowed, and
  is a pipe; a refusal is on record before the agent can notice it; flows end.
* Replay and records: what was recorded can be replayed, shared or not, and the
  replay relives it event by event; every finished turn projects to a record.
* Share export: what is returned has no model text; what verifies is the whole
  bundle or a clean one, or was disclosed by hand in the parent already.
* Reference matrix: nothing is bought twice, unrecorded or past the limits, and
  evidence is never replaced.
* Packs: a raw file is what was published; a whole manifest never changes, a whole
  series only while the copy that wrote it has not returned; and what earlier runs
  have left stops a later one only in known ways.

The hazards of the code, each at its line and with the properties that cover
it, are listed under `hazards` in `PROJECT.json`.

## 2. Modules

```
FillMath <- FillLaws <- MCFillLaws
            FillLaws <- FillLaws_proofs
FillMath <- Account <- EpisodeEngine <- MCEpisodeEngine
                                    EpisodeEngine <- EpisodeEngine_proofs
AgentProtocol <= DecisionRound <- MCDecisionRound
                 DecisionRound <- DecisionRound_proofs
EvidenceLog   <= BundleWriter  <- MCBundleWriter
                 BundleWriter  <- BundleWriter_proofs
Sandbox <- Sandbox_proofs
Firewall <- EgressPath <- MCEgressPath
            EgressPath <- EgressPath_proofs
PaidCalls <- ReferenceMatrix <- MCReferenceMatrix
             ReferenceMatrix <- ReferenceMatrix_proofs
Replay <- MCReplay       ShareExport <- MCShareExport
                         ShareExport <- BundleWriter_proofs
BulkFetch <- PackAcquisition <- MCPackAcquisition
             PackAcquisition <- PackAcquisition_proofs
                  (<- EXTENDS,  <= is implemented by, INSTANCE ... WITH)
```

**FillMath** has one operator per function of `core/math.py`, with the scales
(`1e8`, `1e4`, micro per tick, ...) as constants so that TLC can use small ones
and the proofs need nothing but that they are positive. Python integers are
unbounded, so there is no width. Division is floor division in both.

**FillLaws** fills an order under both cost profiles and fills it back, and
states what the arithmetic promises as invariants of the two fills.

**Account** has the account record of `_Account` and one operator per thing
that happens to it: `applied_funding`, `apply_position_fill`, `liquidated`,
`killed`, and `snapshot`, the ledger row. **EpisodeEngine** is `run_episode`: a
turn passes through the stages *decide, carry, order, hold, mark, close*, and
each stage has one action per outcome.

| Action | Code (`core/engine.py`) |
|---|---|
| `Decide`, `Redecide`, `TraceEnds` | observation, `_request_decision`, events and counters of the decision; the recorded decision under stress; its absence |
| `CarryFunding` | settlement at the fill instant |
| `NoOrder`, `OrderRaises`, `OrderBlocked`, `OrderCancelled`, `OrderFilled`, `NothingToTrade` | sizing, risk checks, fill, cancellations, rounding to nothing |
| `HoldFunding`, `Held` | settlements strictly inside the bar |
| `MarkSurvives`, `Liquidate` | margin update, near-liquidation, liquidation, the row of the bar |
| `CloseBar`, `KillSwitch` | forced close, the row taken again, next turn |
| `StartStress`, `Finish` | second profile, last drain, metrics, `EpisodeEnd`, ledgers |

An exception (negative equity at sizing, a sell without a positive price, a
trace that ends, an undefined return, an unbalanced row) is the stage `raised`
with its cause. `trail` holds the types of the events of the current turn, in
the order they are appended; payloads are left out. The observation has no
effect on the engine's state, so it is left out and the decision is any
decision.

**AgentProtocol** says what a round of asks promises; **DecisionRound** is the
code: `Ask`, `Take`, `GetExpires`, `GiveUp` are `HTTPAgent.decide`, `Install`,
`Exchange` and `Put` its worker thread, `ReadLog` and `LogRefused` the drain,
`AskAgain`, `Conclude` and `Close` `_request_decision` and its caller. Time is
only what is compared: whether the deadline has passed. A worker of an earlier
ask lives on and may answer at any later moment. An outcome is a status class
and a body class; the action parser is the difference between an `action` and a
`malformed` body. The container logs are outside `src/`: `WriteLine` is the
docker `local` log driver as it is configured there (`max-file=1`): a full log
starts again from nothing.

**EvidenceLog** says what a bundle promises; **BundleWriter** is
`record_episode_bundle` system call by system call. `Script` is the sequence of
operations; a file is installed by `OpenTemp`, `SyncTemp`, `Replace`, `SyncDir`
and a record by `BeginRecord`, `EndRecord`, `SyncRecord`, `BeginLink`,
`EndLink`, `SyncLink`. `Stop` is an exception or a kill between any two calls,
`PowerLoss` keeps any part of what was not fsynced: names, contents, and of an
append a prefix (the file systems the code is run on do not persist a later
part of an append without the earlier one). `Verdict` is `verify_bundle`.
Hashes are left out: nothing but the writer, a crash and the disk touches the
bundle here, so a record is its place in its stream.

**Sandbox** is the life of a `DockerSandbox` object with the containers and
Docker around it. `Steps` is the order of the commands of `start`, `Stages` that
of the guard's start, `Checks` what is run inside the guard.

| Action | Code (`sandbox/orchestration.py`) |
|---|---|
| `Start`, `CreateNetwork`, `RunContainer`, `Connect` | `start`, and its four kinds of commands: each is registered for clean-up before it is issued |
| `PollGuard`, `Check`, `Ready` | the wait for the guard with its deadline, and the checks inside it |
| `PollAgent`, `AgentReplies` | the wait for the agent: its port is asked, and what comes back, if it ever does (`HeldByAgent`) |
| `Inspect`, `Check`, `Serve` | the preflight; then the handle, when nothing is asked of Docker any more |
| `InterruptedInStart`, `InterruptedInCleanup` | an exception such as `KeyboardInterrupt`, anywhere |
| `Close`, `Removed`, `NotRemoved`, `Cleaned` | `close` and `_cleanup_best_effort`, thing by thing |
| `GuardStep`, `HealthProbe` | `guard_main.py` up to its ready record; the image's health check |
| `Listens`, `Dies` | external: a process answers on its port, or ends |

Any Docker command may fail; a `docker run` that fails may leave a container
that was never started; any name may belong to another program. An interrupted
command has taken effect or not: the daemon does not complete it later. The
label check and the removal of a thing are one step. Between asking the agent
for its health and hearing of it anything may happen, and the agent may never
finish its answer: `_health_check` limits each read, not the response, and
`_wait_until` looks at its deadline between two polls only. `lost` is history:
the containers that have died since the checks of the preflight under way saw
them alive. Docker refuses to remove a network with a running container on it,
and an agent's namespace is lost with its guard.

**Firewall** has the rules that `firewall_runtime.py` installs and what the
first matching one does to a packet; **EgressPath** follows flows through them.
The order of the rules in the kernel is any of `Tables`, because the health
check (`iptables -C`) cannot see it. `Open` is the agent; `Connect`, `Answer`,
`ReadHello`, `Resolve`, `Dialled`, `DialFails`, `Unreachable`, `Receive`,
`SendOn`, `SendFails` and `Idle` are the thread of a CONNECT
(`gateway_server.py`), `DenyNonConnect` and `UnknownMethod` that of anything
else; `Accept`, `Collect` and `CloseCollected` are a collector's loop
(`block_collector.py`). What a resolver answers, whether a dial fails and what
the ends of a tunnel send is any of a small set.

**PaidCalls** has what a paid turn costs, what the estimate says beforehand and
what the account makes of it afterwards (`agents/llm.py`, `agents/cost.py`,
`agents/server.py` and the matrix tool); **ReferenceMatrix** is
`execute_matrix`. Each invocation is a process with a program counter over the
shared root: preflight, smoke call, per pack the dry run, the attempt receipt,
the sandbox and the calls, the receipt, the three reports, and the aggregate.
`_write_new` is a temporary file, a link that fails if the name exists, and an
unlink; `Dies` stops a process between any two of its steps, inside a write too.

**Replay** records an episode of the decision round (`AskLive`, `Retry`,
`Conclude`, `Finish`), may take the texts out of it (`Share`), and then runs the
same round on an agent that answers from the log (`StartReplay`, `AskTrace`,
`Over`). A leverage is written as an integer or with decimals, and the text
`_synthetic_redacted_body` makes up of a withheld one is parsed again by the
same `parse_action`. The episode is recorded with second attempts or without
(`policy`); the recorded configuration leaves that out, so a replay always runs with
the default, and `recorded_answers` then gives the one reply there is again.
**ShareExport** is `create_share_bundle` step by step, with the verifier's judgement
(`is_complete`) of what is left. The parent may be edited at any moment, also
between the listing of a directory (`ListBundle`, `ListRaw`) and the copying of what
was listed (`CopyEntry`); then a link that took the place of a file is followed. Its
`redaction.json`, which is under no seal, may be written by hand or be a link: it is
copied like any entry, and `OpenRedaction` and `WriteRedaction` write over it, or
through it. `by` in a document is history: whether the export wrote it.

**BulkFetch** is the download of archives (`data/binance.py`), system call by
system call, with names and inodes apart, since a process may go on writing to
a file that another has renamed. **PackAcquisition** is what is done with them.

| Action | Code |
|---|---|
| `Look`, `Ask`, `Answer`, `AnswerFails`, `AnswerRefuses`, `Open`, `Write`, `EndBody`, `CutBody`, `Install` | `download` and `_download_once` |
| `Verify`, `Read`, `MakeDirectory`, `WriteFile` | `build_pack`: verify all, hash again and read, write in place, the manifest last |
| `Acquire`, `Compare`, `CopyFile`, `CopyFails`, `Copied`, `Load` | `acquire_pack` and `_hydrate_committed_manifest` (`cli/packs.py`) |
| `Nightly`, `Receipt` | one pack of `execute_nightly_matrix` (`data/nightly.py`) |
| `Publish`, `Kill` | external: Binance replaces an archive; the process ends |

A copy is made in three steps: the file is created (`OpenCopy`), filled and flushed
(`FillCopy`), and then safe (`SyncCopy`). From the second on anybody may load it, and
until the third an error takes it away again (`CopyFails`), unless that fails as well.
`calm` of a run is history: nothing it needs was in its way when it began (`fit`), and
nothing has failed, was published or ran beside it since. `odd` is history
too: the raw files whose bytes no check of the download vouches for. A build in
a directory nobody else sees is one step, and a series is converted from one
archive.

## 3. Runs

| Run | Bounds | Shows |
|---|---|---|
| `fill_laws` | prices 8 to 34 ticks, 3 sizes, 3 volumes, 24 venues, both impact models | three laws of the arithmetic |
| `episode` | 3 turns, 4 bars, 7 decisions, tiers, caps, kill limit 20% | eight properties of the engine and its records |
| `decision_round` | 2 rounds, 5 outcomes, 2 log lines in logs of 1 line | replies, counts, protocol, termination |
| `bundle_writer` | 2 turns, 5 blobs, 8 events, 2 decisions | crashes and power loss |
| `sandbox` | 2 starts, 1 poll per wait, 2 failed commands, 1 exception, any subset of names foreign, deaths without a bound | confinement, clean-up, termination |
| `matrix` | smoke call and 2 packs of one turn, 5 settings, 2 invocations, 1 kill | what is bought, recorded and judged |
| `egress_path` | 2 flows, 5 kinds of packet, 4 rule tables, 2 hosts, 3 resolver answers, 1 chunk per end | refusals, vetting, tunnels, termination |
| `replay` | 2 turns, 1 or 2 attempts, 8 answers, 2 facts | replays and shared replays |
| `share_export` | 2 texts and the `redaction.json` of the parent, 3 edits, 2 exports | crashes and edits during an export |
| `pack_fetch` | 2 processes, 2 invocations, 2 archives of which one is cached, 1 retry, 2 mishaps | downloads, hydration, builds, nightly |

Where a property is a conjunction of named parts (`SpendingIsOnRecord`,
`VerdictIsHonest`, `LedgerIsTheEpisode`, ...), each part has its comment beside
its definition, and most have a mutant of their own.

*Are the bounds enough?* The scales of `fill_laws` and `episode` keep every
division inexact (prices around 20 or 100 against rates in percent, steps of 2,
fees of 1%), which is what the roundings need. Three turns are the least that
open, change and end a position in different bars; the four bars hold a
settlement at the open, one and two inside, a wick through the trigger of a
leverage of 3 but not of 2, a fall that the kill switch catches and the
trigger does not, and a bar too thin for the order. The decisions include a
flattening, both directions, a slippage limit that is exceeded, a leverage over
the cap, a malformed and a missed one; every action and every branch is taken.
Two rounds are the least in which a worker of one round can answer in another.
Two lines in a log of one are the least with a truncation after a read. Two
turns in a bundle have a blob before and after an event, and a retry.
Two failed commands are the least that keep both the agent and the guard when
their network is to be removed; two starts are the least in which leftovers of
one meet the next; of polls only "in time" and "too late" matter, so one is
enough. Two invocations of the matrix and of the pack acquisition can run at
once, or the second after the first was killed; two mishaps are the least that
leave a cut reply of unknown length, or a kill and then a new version. Two
retried exports meet what a first one left. Two flows are the least in which a
collector, which is one thread, has one waiting. Leverages of two decimals have
every shape of number that the texts made up for a replay can have (negative,
padded, stripped). Deadlock is not checked where a specification really ends:
`fill_laws` after the way back, `sandbox`, `matrix` and `pack_fetch` when nobody
calls again, `egress_path` when its flows are
over; the others have a final stuttering action (`Returned`, `Over`), so that a
deadlock is an error.

*Fairness.* `DecisionRound` has weak fairness of the calling thread (the
operating system runs it, and docker answers a `docker logs`) and of the passing
of time; `Sandbox` has weak fairness of the thread inside `start` or `close`
(Docker answers every command), but not of a step that waits for an answer of the
agent: `EveryCallReturns` therefore says that the calls return or the agent holds its
health check for ever, and no more is true of the code; `EgressPath` has
weak fairness of each thread of the gateway and of each collector, because every
wait of theirs has a timeout, but for a peer that does not read what it is sent,
which is assumed to. Nothing is
assumed of the agent, the worker threads, the guard or the containers.
`EpisodeEngine` needs none: `EpisodeEnds` says that every step brings the run
closer to its end, and TLC finds no deadlock before it.

*Disagreements.* Two runs are expected to fail, each with one property that a
document states and the code does not keep: ledgers of different length
(`stress_ledger_length`), and leverage updates that depend on whether events are
collected (`stress_same_costs`). The quotations are under `findings` in
`PROJECT.json`. Others are in the models without a run of their own, and quoted
in the notes of their hazards: a stress profile that outlives the recorded
decisions, the order of the events of a turn, the attempts of a missed retry, a
truncated log that is not rejected. The comment in `recorder/redaction.py:250` says
that an entry which becomes a symlink after verification is not followed; that holds
of a link that is there when `copytree` lists its directory, and `CopyEntry` has the
other case too. What it copies then never verifies.

*Exceptions the properties state.* `CompleteIsAllOrNothing` allows a bundle that is
redacted in part when the parent shows the same document: somebody has removed a
text by hand after the commitments were read and disclosed it in a `redaction.json`,
which verifies (`recorder/verify.py` accepts a disclosure of some texts); the export
fails at the missing text and leaves that copy. `KeepsThePin` allows a series to go
away again while the copy that wrote it has not returned, although another process
may have called the pack ready by then. `HandedOutAlive` says of each container that
is dead at the handing out that it died after the last look at it.

*A limit of the code that shows in `pack_fetch`.* A download that is killed
between its last byte and the rename leaves a `.part` as long as the archive.
The next run asks for the range behind its end, is told that there is none, and
gives up without a retry, as every later run does until somebody removes the
file. `CalmRunsDoNotFail` names this among the things that can stop a calm run,
and fails as soon as any of them is left out.

## 4. Proofs

*The arithmetic.* `FillLaws_proofs` proves, for all positive scales and steps and
every order, venue, leverage, rate and price:

* `StressIsNeverCheaper` (MATH-5), `RoundingPaysNobody` and `PricesAreExactAlways`,
  the three invariants of the run `fill_laws`.

The assumption `FillLawsAssumption` gives the inputs the ranges `core/pack.py` loads,
with one bound that it does not check: a taker fee of at most the notional. Only
a sale in `StressIsNeverCheaper` needs it. The notional of a dearer sale is
lower, and its fee with it; with a fee of more than the notional a sale that
brings in less may cost less.
The products are of unknowns, so every rounding is first reduced to a comparison:
`floor_fraction` is the greatest whole number not above the fraction
(`FloorIsGreatest`), `ceil_fraction` the least not below it (`CeilIsLeast`), and
`ceil_sqrt_fraction` the least whose square is not below it (`CeilSqrtIs`). From
these follow that each of them grows with its argument, what each cost does under
a doubled rate, and both directions of the liquidation trigger, where the margin
one tick on is the difference of the two products the rounding compares.
`isqrt` needs no induction: the numbers whose square is not above `n` are the
first numbers, and a set of first numbers with `c` elements is `1..c`.

*The engine.* `EpisodeEngine_proofs` proves, for every pack,
market, configuration and sequence of decisions, with tlapm:

* `EpisodeTypeOK`, `EpisodeConservesCash` (MATH-2), `EpisodePositionIsMargined`,
  `EpisodeKilledStaysFlat` and `EpisodeKilledNeverTrades` (SAFE-3);
* `EpisodeLedger`, `EpisodeMovesAreLogged`, `EpisodeDecisionsProject` and
  `EpisodeAlwaysEnds`.

They assume `ScalesArePositive`, `AccountAssumption` and `EpisodeAssumption`
only: positive scales, a market of the ranges the pack schema allows, bars with
positive prices.

`CashConserved` is not inductive: that a fill conserves cash
needs an account of the right type whose position has an entry; that needs the
bar and the decision of the turn, which exist because the tape reaches the turn
(`TapeReaches`); and the two verdicts need that a killed account is flat, which
holds because the gates let only a target of zero through and a flat account
then has nothing to trade (`ZeroTarget`, `PassedGates`). The inductive invariant
is `IInv == TypeOK /\ TapeReaches /\ AccountSound /\ RowsSound`. Each account
operation has a lemma (`FundingKeeps`, `FillKeeps`, `LiquidatedKeeps`,
`KilledKeeps`) that it keeps `Conserved` and `Backed`, and each action of the
engine has one that it keeps `IInv`. The entry price after an increase is
positive because the weighted average of two positive prices is at least one of
them rounded down (`AverageEntry`).

The other four stand on `IInv` and an invariant of their own. `LedgerHolds` follows
the counters through the stages of a turn: how many rows there are depends on
whether the bar is closed (`rows_taken`), what ended a profile is in its counters
before the profile knows that it ended (`OneEnd`), and every decided turn has
been counted as one of the kinds (`KindsAgree`). `TrailHolds` says what is in the log
by each stage: the observation and one decision from the start, no snapshot before
the mark, and from the close on a snapshot behind the last fill, settlement or
liquidation (`Marked`). The gate checks are a sequence of a length that depends on
the decision, so what an action appends is described by where it has events of
each type (`at`), never by listing it (`ChecksAnd`, `MiddleTraced`, `KillEventsType`).
`EpisodeAlwaysEnds` shows that every action lowers `steps_left`, or is one of the
settlements of the bar, of which there are finitely many, and that the measure is a
natural number (`turn` is below `BarsTotal`).
The theorem needs no fairness and no ENABLED; that there is always a next step until
the end is the absence of deadlock, which the run `episode` checks.

*The sandbox.* `Sandbox_proofs` proves, for any number of starts, polls, failures
and exceptions, from `SandboxAssumption` (these are natural numbers) alone:

* `SandboxAgentIsBehindTheGuard`, `SandboxForeignIsUntouched`,
  `SandboxHandedOutAlive`;
* `SandboxLeavesNothingUnsaid` and `SandboxWitnessesOutliveTheAgent`, of the
  clean-up.

That the agent is behind the guard is not inductive: the agent enters the
guard's namespace at step 8 of `start` because of what the wait at step 7 found,
which concerned the guard that step 5 made and step 6 connected. `Confinement`
says what `start` has established by each step, that a running container is
ours, and that the namespace an agent shares never changes hands: it is the
agent's own removal, or that of the guard, that ends it. The other two are
action properties: a removal is of something that is ours, and what the preflight
found is, at each check, still so but for what is in `lost`, from which a check takes
whom it has shown alive.

The clean-up stands on an invariant of its own, `CleanInv`. What `start` has
registered is one of six states of the two lists (`RegisteredInOrder`), so the
order of the clean-up is known and is the youngest first: the agent is passed
before its guard and its gateway, and containers before networks. `Swept` says
what that leaves behind: a container that has been passed, or that is of an
earlier start, and still exists is one whose removal was refused; a network was
refused itself or is kept by such a container. While `close` runs, `Reported` says
that each of them is among its failures. A clean-up that is interrupted keeps its
lists and every later `start` refuses (`stuck`): it has promised nothing, and `Swept`
excepts it.

*The decision round.* `DecisionRound_proofs` proves, from `DecisionAssumption`
(the bounds are numbers, the outcomes are outcomes), for any number of bars,
any setting of retries, any agent and any interleaving of workers, deadline and container logs:

* `RepliesAreOwnAndInTimeHolds` and `RoundsKeepProtocol`, the refinement of
  `AgentProtocol` with the mapping of `DecisionRound`;
* `EveryRecordIsCountedOnce`, of the drain of the two logs.

That a reply is the round's own needs to know what is in the queue the caller
listens to (`QueueIsOwn`: at most one entry, of the worker it waits for, since
each ask has a queue of its own); that a round has one reply per ask heard, and
one retry at most, needs the number of replies at every program counter
(`InStep`). Both are conjuncts of `IInv`. The refinement then has one step per
action: `Conclude` maps to the protocol's end of a round, the asks and replies to
its own, and workers, deadline and logs stutter.

The count of records is an equation over sequences that grow, and a sum over the
rounds would need an induction. The records in the facts are therefore
counted as a set of pairs, the fact and which of its count (`Recorded`), and a
round adds a set disjoint from all before (`RecordedMore`). Occurrences add up
when sequences are joined (`OccurrencesAdd`), and what a drain hands on is what a
log has beyond the lines read before, since a log only grows (`LogGrown`).
`Counted` joins the equation with the types of the sequences.

*The share export.* `BundleWriter_proofs`, last part, proves, from `ShareAssumption` (there is
a text, names and contents are distinct), for any number of texts, edits of the
parent, crashes and tries:

* `ShareIsWholeOrCleanHolds`.

What an export returns was verified last, and what verifies is complete. A
complete bundle is whole or has no text because the disclosure the export writes
names every text, never some: `RemovesAll` says that it holds the names of all of
them from the commitments on, and that what it discloses outlives it. Any other
document at the destination is a copy of one of the parent's, a share's own or one
written by hand, or it is cut short or a link, and then nothing verifies.

*The reference matrix.* `ReferenceMatrix_proofs` proves, for any number of
processes, packs, turns, invocations and kills, any prices, sizes and limits:

* `AccountBoundsTheBill`, of the accounts of any run: the cost on record is at most what
  was billed, in whole quanta, and with the reserve for what was missed at least that;
* `MatrixBuysOnce`, `MatrixPaysOnRecord`, `MatrixHasOneBasis` and, with them,
  `MatrixSpendingIsOnRecord`; `MatrixEvidenceIsImmutable`;
* `MatrixBuysAfterGoodOnes` and `MatrixPurchasesAreJustified`;
* `MatrixAggregatesAll` and `MatrixAggregateIsEarned`.

`MatrixAssumption` says that the packs are a sequence that is not empty, as the tool
insists on all of its packs, and that no pack is named as one of the tags the smoke
call and the aggregate are filed under; `PaidCallsAssumption` and `SizesAssumption`
that prices, sizes, turns and limits are counts, and a cached token is no dearer than
another (`agents/cost.py` refuses such a table). `SettingsAssumption` says that a set
of settings is known by its name, and that the smoke receipt it may start from is one
of a paid call.

The argument of the first is ownership. `link` gives the attempt receipt to one
process; until the bundle is sealed that process is the only owner of the item
(`OneOwner`) and finds it unbought as long as it has no turn, its bundle absent
before `Record` and partial before `Seal` (`OwnershipHolds`). `PaidHolds` keeps
anyone else from becoming an owner later: what was bought, and every bundle, has an
attempt on the disk, and files never go away. `PapersHold` says which files each
stage of `execute_matrix` relies on; a preflight that skipped the smoke call has seen
its receipt. A file being written is held in a field of the process, so `WritesPaper`
says which name is free to be linked for which next stage. Kills lose nothing of
this: a dead process owns nothing. These are `IInv`.

`Basis` adds whose files they are. A process that is past its documents, or holds a
file other than the authorization, has found an authorization of its own settings
(`Signed`); an authorization is linked once and never changed, so all files have
its author.

`Good` adds what the evidence is worth. A process at pack `k` has found or judged
every pack before it good, and the smoke call within its estimate (`PlaceHolds`,
`AnswerHolds`); what it holds of earlier packs is on the disk, whole and within the
authorization (`EvidenceHolds`); and it derives, links and judges only from that
(`DerivedHolds`). On the disk, whatever was bought has all packs before it good
(`Earned`). A buyer therefore stands at the last item that was bought, and the
attempt receipt it holds excludes that this item itself was. Good evidence stays
good, because it speaks of published files only (`Grown`), and these never change.

`Books` adds the money. The bill of an item is a sum over its turns, wherever they
are: with the process that is buying it, or on the disk (`BillIs`). A turn raises bill
and account together, `Record` and `Seal` move them from one place to the other, and
no other process bills that item (`OneOwner`). The sums are folds of the community
modules over sets, and what a proof needs of them, that a sum over a union of disjoint
sets is the sum of the sums, would be an induction over data; it is had without one,
as the least counterexample among the subsets of a finite set, because the strict
subset order is well founded (`MinimalSubset`, `Induct`). `PurchaseWithinBudget` adds
up an authorization: what was bought before a pack cost at most its estimates, so what
is reserved for the packs to come still fits.

*The egress path.* `EgressPath_proofs` proves, from `FirewallAssumption` (ports and
addresses differ) and `EgressAssumption` (the agent's packets open new flows;
rules and answers are sequences), for any number of flows, any packets, names and
answers, and any tables:

* `EgressStaysVetted`, `EgressRefusalsAreOnRecord`, `EgressTunnelsArePipes`.

The first rests on `RulesConfine`: the check of the guard sees which rules are in
the tables and not their order, and in every order it accepts a packet of the
agent ends at the gateway, at the agent, at a collector or nowhere. `StageHolds`
then says what a flow has shown by each stage of its CONNECT, since the properties
speak of the flow at its end only. That a refusal has exactly one fact needs that a
flow is with one collector at most, in its queue or in its thread's hands
(`PlaceHolds`): otherwise it could be recorded twice. A tunnel is a pipe because
while it is open what an end sent is what the other got, followed by what the
gateway holds, followed by what it has not received (`Pumping`); what is lost when
a send fails is at the tail.

*The bundle.* `BundleWriter_proofs` proves, from `BundleAssumption` (a blob is
written once, for an event that refers to it, and no two files have one name, as
`write_observation`, `write_raw` and the directories see to), for any number of
turns, events and files, any point at which the writer stops and any loss of power:

* `VerdictIsAlwaysHonest`, `ReturnedCallsAlwaysSurvive`, and `BundleKeepsEvidence`,
  the refinement of `EvidenceLog`.

The script is a concatenation of unknown length, so the proof first says what each
place of it is (`OpIs`) and that, but for the log of the events, a name is used in
one place only (`OnePlace`). The invariant `IInv` relates what is on the disk to
the place the writer has reached: before a power loss everything is exactly what
the operations so far have made it; afterwards it lies between what was durable
and that. From it the number of records and links of each stream follows
(`StreamsAre`, `RecordsAre`), and that the decision records have no gap
(`DecisionsAre`). A seal that can be seen is therefore one the last operation has
installed, after everything it covers (`SealIsLast`). In the refinement, writing a
link is the abstract write and its fsync the acknowledgement.

*The acquisition of packs.* `PackAcquisition_proofs` proves, from `BulkAssumption` and
`PackAssumption` (the archives are a sequence, not empty and without repetition, as
`build_pack` and `_validate_source_matrix` of `data/builder.py` insist; the bounds are
numbers), for any number of processes, archives, retries, publications, kills and
invocations:

* `PackIsPinned`, the action property `KeepsThePin`;
* `RawFilesAreAsPublished`, the invariant `CacheIsAsPublished`;
* `CalmRunsNeverFail`, the invariant `CalmRunsDoNotFail`.

Two processes may build, hydrate and compare in one directory, so that a step keeps
what is whole rests on what the process has found. The invariant `PinHolds` says for
each process what it relies on in the shared directory: a build in place is the only
one (`Apart`), because it made the directory, what it has not planned any more is
there and the manifest is not; a hydration has a whole manifest that is what it
generated, and a file it has open is partial or the pinned one, and no other process's.

A download is between a name and an inode. While a process reads a reply into a
`.part`, another may rename that file, open it again or install it, and each such
case makes the file `odd`. `CacheHolds` says of every other file that at most one
process is busy with it, that the file it has open is the one under the name, and
that this holds the first blocks of the one version its reply was given for, up to
the block that is read next; that whatever a `.part` is left with, by a retry or a
kill, is the start of one version; and that no inode has two names. The steps of the
downloads touch one name and one inode (`Touches`), so each has to be followed for
one file only, and `TouchKeepsCache` gives the others. A range served for a newer
version is where this could break: `Open` sees that the blocks kept are of another
version and makes the file odd.

That a run does not fail is proved the other way round, from what it has established.
`CalmHolds` says of a run that is calm, so began fit, that nobody else is active and
that there is one version of each archive, `vs`, fixed when the run began, to which
everything belongs: a raw file is there in that version, or what its `.part` holds is
the start of it and no newer one is published (`Comes`, `Downloads`); what was read is
`vs` (`AllCame`); and, by the kind of the run, a build in place finds no directory
until it makes one, a hydration is for a manifest that is `vs` and beside which every
series is `vs` or planned, and the nightly comparison was begun with `vs`. Each way to
fail contradicts one of these. What would break them, a mishap, a publication or
another process, takes the calm away (`UpsetIsCalm`). The hypothesis `fit` is over
the disk as it is found, so nothing is assumed about the earlier runs; its parts
are what the comment on `CalmRunsDoNotFail` lists.

*Model-checked only*:

* `ReplayFollows` and `RecordedIsReplayable`, whose leverages are decimals read digit
  by digit and whose log is filtered by a fold, so that a proof would be an induction
  over data;
* all liveness (`RunEnds`, `EveryCallReturns`, `FlowsEnd`), which is out of the
  prover's reach.

## 5. Plan

Done, in order: `FillMath`, `FillLaws`; `Account`, `EpisodeEngine` and their
proofs; `AgentProtocol`, `DecisionRound`; `EvidenceLog`, `BundleWriter`;
`Sandbox` and its proofs; `PaidCalls`, `ReferenceMatrix`; `Firewall`,
`EgressPath`; `Replay`; `ShareExport`; `BulkFetch`, `PackAcquisition`; the proofs
of `ShareExport`, `DecisionRound`, `ReferenceMatrix`, `EgressPath`, `BundleWriter`,
`FillLaws` and `PackAcquisition`.

Left, in order of importance:

1. **Composition**: the sandbox, the egress path and the decision round in one
   specification, so that the drain of a turn reads what the gateway logs.
2. **Pure operators** against reference definitions: drawdown, Sortino, CVaR,
   ranks and scores; the conversion of archive rows.

## 6. Not modelled

Parts that only read files or render (`core/config.py`, `core/observation.py`,
`data/validator.py`, `report/**`, `cli/**` but for `cli/packs.py`,
`tools/independent_metrics_audit.py`), whose results enter as assumptions on
constants or are read by nobody; parts that are pure input and output
(`sandbox/egress_probe.py`, `tools/*_probe.py`) or build images
(`sandbox/reproducible.py`); stateless policies (`agents/reckless.py`,
`harness/scripted.py`), which any decision covers. Within the modelled parts:
event payloads, observations, hashes and schemas, argument checks that a loaded
pack cannot trip, more than one market (the engine refuses it), a verifier that
reads while the writer writes, power loss below the root of the reference
matrix, the parsing of HTTP and TLS bytes, and a raw archive that changes between
its second hash and its reading.
