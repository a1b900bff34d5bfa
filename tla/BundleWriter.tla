---------------------------- MODULE BundleWriter ----------------------------
(***************************************************************************)
(* record_episode_bundle (recorder/writer.py): an episode result is stored *)
(* as a directory of immutable files and two hash-chained streams, in a    *)
(* fixed order of operations and each operation in a fixed order of system *)
(* calls.  The process may be killed or stopped by an exception between    *)
(* any two of them and the machine may lose power: what was not fsynced    *)
(* may then be gone, whole or in part.  Verdict is what verify_bundle      *)
(* (recorder/verify.py) says of the directory that is left.                *)
(*                                                                         *)
(* Hashes are left out: a record is its place in its stream, and content   *)
(* is either what the writer wrote or spoiled.                             *)
(***************************************************************************)
EXTENDS Integers, Sequences, FiniteSets

CONSTANTS
  Blobs,           \* names of the observation and raw files, in write order
  EventRefs,       \* for each event the blob it refers to, or NoRef
  DecisionFiles,   \* names of the decision records, by turn
  NoRef            \* an event that refers to no blob

Streams == {"events", "decisions"}

Dirs       == <<"bundle", "observations", "raw", "decisions">>
Manifests  == <<"agent_manifest.json", "manifest.json">>
StreamLogs == <<"events.jsonl", "chain.jsonl">>
Ledgers    == <<"ledger.jsonl", "ledger_stress_2x.jsonl">>

Names(seq) == {seq[i] : i \in DOMAIN seq}

Fixed == Names(Dirs) \cup Names(Manifests) \cup Names(StreamLogs) \cup Names(Ledgers)
           \cup {"metrics.json", "chain.json"}
Distinct(seq) == \A i, j \in DOMAIN seq : i # j => seq[i] # seq[j]

(* The names of an episode: a blob is written once, for an event that      *)
(* refers to it, and the directories keep the names apart.                 *)
ASSUME BundleAssumption ==
  /\ Blobs \in Seq(Names(Blobs)) /\ EventRefs \in Seq(Names(EventRefs))
  /\ DecisionFiles \in Seq(Names(DecisionFiles))
  /\ Names(EventRefs) \ {NoRef} = Names(Blobs) /\ NoRef \notin Names(Blobs)
  /\ Distinct(Blobs) /\ Distinct(DecisionFiles)
  /\ (Names(Blobs) \cup Names(DecisionFiles)) \cap Fixed = {}
  /\ Names(Blobs) \cap Names(DecisionFiles) = {}

-----------------------------------------------------------------------------
(* The operations of record_episode_bundle, in order. *)

Ops(kind, names) == [i \in DOMAIN names |-> [kind |-> kind, name |-> names[i]]]

Creation == Ops("dir", Dirs) \o Ops("sync_dirs", <<"bundle">>)
              \o Ops("file", Manifests \o StreamLogs)

Script_events_before_blobs ==
  Creation \o [i \in DOMAIN EventRefs |-> [kind |-> "event", name |-> "events.jsonl"]]
    \o Ops("file", Blobs) \o Ops("decision", DecisionFiles)
    \o Ops("file", Ledgers) \o Ops("file", <<"metrics.json", "chain.json">>)
Script_seals_before_the_metrics ==
  Creation \o Ops("file", Blobs)
    \o [i \in DOMAIN EventRefs |-> [kind |-> "event", name |-> "events.jsonl"]]
    \o Ops("decision", DecisionFiles) \o Ops("file", Ledgers)
    \o Ops("file", <<"chain.json", "metrics.json">>)
Script ==
  Creation \o Ops("file", Blobs)
    \o [i \in DOMAIN EventRefs |-> [kind |-> "event", name |-> "events.jsonl"]]
    \o Ops("decision", DecisionFiles) \o Ops("file", Ledgers)
    \o Ops("file", <<"metrics.json", "chain.json">>)

VARIABLES
  state,         \* "writing", "sealed", "failed", "killed"
  at,            \* the operation being carried out
  step,          \* how far it has got
  ledgers_agree, \* the two ledgers of the result have the same length
  powered,       \* no power loss yet
  present,       \* names a reader finds
  durable,       \* names that survive a power loss
  temps,         \* names whose temporary file is there
  solid,         \* names whose content was fsynced
  spoiled,       \* names whose content a power loss took
  events,        \* whole records in events.jsonl
  events_safe,   \* of which fsynced
  links,         \* whole links in chain.jsonl: the stream of each
  links_safe,    \* of which fsynced
  torn           \* streams files that end in part of a line

control_vars == <<state, at, step, ledgers_agree, powered>>
file_vars    == <<present, durable, temps, solid, spoiled>>
log_vars     == <<events, events_safe, links, links_safe, torn>>
vars         == <<control_vars, file_vars, log_vars>>

op == Script[at]

Init ==
  /\ state = "writing" /\ at = 1 /\ step = "start" /\ powered = TRUE
  /\ ledgers_agree \in BOOLEAN
  /\ present = {} /\ durable = {} /\ temps = {} /\ solid = {} /\ spoiled = {}
  /\ events = 0 /\ events_safe = 0
  /\ links = <<>> /\ links_safe = 0 /\ torn = {}

Writing == state = "writing" /\ powered

(* The call returns; after finalize the bundle is sealed. *)
Done ==
  /\ at' = at + 1
  /\ step' = "start"
  /\ state' = IF at = Len(Script) THEN "sealed" ELSE state
  /\ UNCHANGED <<ledgers_agree, powered>>

Step(next) ==
  /\ step' = next
  /\ UNCHANGED <<state, at, ledgers_agree, powered>>

-----------------------------------------------------------------------------
(* BundleWriter.create: the directories. *)

MakeDir ==
  /\ Writing /\ op.kind = "dir"
  /\ present' = present \cup {op.name} /\ solid' = solid \cup {op.name}
  /\ Done
  /\ UNCHANGED <<durable, temps, spoiled, log_vars>>

SyncDirs ==
  /\ Writing /\ op.kind = "sync_dirs"
  /\ durable' = durable \cup present
  /\ Done
  /\ UNCHANGED <<present, temps, solid, spoiled, log_vars>>

-----------------------------------------------------------------------------
(* _atomic_new_file: write a temporary file, fsync it, rename it over the   *)
(* target, fsync the directory.                                             *)

Refused == op.name = "ledger.jsonl" /\ ~ledgers_agree

InstallsFile == op.kind \in {"file", "decision"} /\ ~Refused

OpenTemp ==
  /\ Writing /\ InstallsFile /\ step = "start"
  /\ temps' = temps \cup {op.name}
  /\ Step("temp")
  /\ UNCHANGED <<present, durable, solid, spoiled, log_vars>>

SyncTemp ==
  /\ Writing /\ step = "temp"
  /\ solid' = solid \cup {op.name}
  /\ Step("written")
  /\ UNCHANGED <<present, durable, temps, spoiled, log_vars>>

Replace ==
  /\ Writing /\ step = "written"
  /\ temps' = temps \ {op.name}
  /\ present' = present \cup {op.name}
  /\ Step("replaced")
  /\ UNCHANGED <<durable, solid, spoiled, log_vars>>

SyncDir ==
  /\ Writing /\ step = "replaced"
  /\ durable' = durable \cup {op.name}
  /\ IF op.kind = "decision" THEN Step("recorded") ELSE Done
  /\ UNCHANGED <<present, temps, solid, spoiled, log_vars>>

(* write_ledgers raises on ledgers of different lengths. *)
RefuseLedgers ==
  /\ Writing /\ Refused /\ step = "start"
  /\ state' = "failed"
  /\ UNCHANGED <<at, step, ledgers_agree, powered, file_vars, log_vars>>

-----------------------------------------------------------------------------
(* append_event: the record and its fsync, then the link and its fsync. *)

BeginRecord ==
  /\ Writing /\ op.kind = "event" /\ step = "start"
  /\ torn' = torn \cup {"events.jsonl"}
  /\ Step("torn_record")
  /\ UNCHANGED <<file_vars, events, events_safe, links, links_safe>>

EndRecord ==
  /\ Writing /\ step = "torn_record"
  /\ events' = events + 1
  /\ torn' = torn \ {"events.jsonl"}
  /\ Step("record")
  /\ UNCHANGED <<file_vars, events_safe, links, links_safe>>

SyncRecord ==
  /\ Writing /\ step = "record"
  /\ events_safe' = events
  /\ Step("recorded")
  /\ UNCHANGED <<file_vars, events, links, links_safe, torn>>

(* The link of an event or of a decision already installed. *)
BeginLink ==
  /\ Writing /\ step = "recorded"
  /\ torn' = torn \cup {"chain.jsonl"}
  /\ Step("torn_link")
  /\ UNCHANGED <<file_vars, events, events_safe, links, links_safe>>

EndLink ==
  /\ Writing /\ step = "torn_link"
  /\ links' = Append(links, IF op.kind = "event" THEN "events" ELSE "decisions")
  /\ torn' = torn \ {"chain.jsonl"}
  /\ Step("link")
  /\ UNCHANGED <<file_vars, events, events_safe, links_safe>>

SyncLink_without_fsync ==
  /\ Writing /\ step = "link"
  /\ Done
  /\ UNCHANGED <<file_vars, log_vars>>
SyncLink ==
  /\ Writing /\ step = "link"
  /\ links_safe' = Len(links)
  /\ Done
  /\ UNCHANGED <<file_vars, events, events_safe, links, torn>>

-----------------------------------------------------------------------------
(* What may end the run. *)

(* A system call raises, or the process is killed: the files stay as they are. *)
Stop ==
  /\ Writing
  /\ state' \in {"failed", "killed"}
  /\ UNCHANGED <<at, step, ledgers_agree, powered, file_vars, log_vars>>

(* Of what was not fsynced a power loss leaves any part.  A rename that is  *)
(* lost leaves the temporary file, which may itself be lost.                *)
PowerLoss ==
  /\ powered
  /\ powered' = FALSE
  /\ present' \in {durable \cup more : more \in SUBSET (present \ durable)}
  /\ temps' \in SUBSET (temps \cup (present \ present'))
  /\ spoiled' \in SUBSET (present' \ solid)
  /\ events' \in (IF "events.jsonl" \in present' THEN events_safe..events ELSE {0})
  /\ \E n \in (IF "chain.jsonl" \in present' THEN links_safe..Len(links) ELSE {0}) :
       links' = SubSeq(links, 1, n)
  /\ torn' \in SUBSET (torn
                 \cup (IF events' < events THEN {"events.jsonl"} ELSE {})
                 \cup (IF Len(links') < Len(links) THEN {"chain.jsonl"} ELSE {}))
  /\ UNCHANGED <<state, at, step, ledgers_agree, durable, solid, events_safe,
                 links_safe>>

Over == (~Writing) /\ UNCHANGED vars

Next ==
  \/ MakeDir \/ SyncDirs
  \/ OpenTemp \/ SyncTemp \/ Replace \/ SyncDir \/ RefuseLedgers
  \/ BeginRecord \/ EndRecord \/ SyncRecord \/ BeginLink \/ EndLink \/ SyncLink
  \/ Stop \/ PowerLoss \/ Over

Spec == Init /\ [][Next]_vars

-----------------------------------------------------------------------------
(* verify_bundle. *)

linked(s) == Cardinality({i \in DOMAIN links : links[i] = s})

decisions == Names(DecisionFiles) \cap present

records(s) == IF s = "events" THEN events ELSE Cardinality(decisions)

(* _read_decisions: numbered from zero without a gap. *)
Contiguous == decisions = {DecisionFiles[i] : i \in 1..Cardinality(decisions)}

Readable ==
  /\ Names(Dirs \o Manifests \o StreamLogs) \subseteq present
  /\ spoiled = {}
  /\ Contiguous

sealed_on_disk == "chain.json" \in present

(* _verify_blobs: the blobs of the linked events. *)
referenced == {EventRefs[i] : i \in 1..linked("events")} \ {NoRef}

LedgersPair == Names(Ledgers) \subseteq present => ledgers_agree

PrefixHolds ==
  /\ \A s \in Streams : records(s) - linked(s) \in {0, 1}
  /\ referenced \subseteq present
  /\ LedgersPair

SealHolds ==
  /\ temps = {} /\ torn = {}
  /\ \A s \in Streams : records(s) = linked(s)
  /\ events = Len(EventRefs)
  /\ decisions = Names(DecisionFiles)
  /\ referenced = Names(Blobs) \cap present
  /\ Names(Ledgers) \cup {"metrics.json"} \subseteq present
  /\ LedgersPair

Verdict ==
  CASE Readable /\ sealed_on_disk /\ SealHolds     -> "COMPLETE"
    [] Readable /\ ~sealed_on_disk /\ PrefixHolds  -> "TRUNCATED"
    [] OTHER                                       -> "CORRUPT"

-----------------------------------------------------------------------------
(* Properties. *)

Created == at > Len(Creation)

(***************************************************************************)
(* A run that stops anywhere after create returned leaves evidence and not *)
(* rubble: until the seal is on the disk the verdict is TRUNCATED, never   *)
(* CORRUPT, whichever system call was the last and whatever the power loss *)
(* took (the record is fsynced before its link, the blobs before the       *)
(* events that refer to them).                                             *)
(***************************************************************************)
InterruptedIsTruncated ==
  (Created /\ ~sealed_on_disk) => Verdict = "TRUNCATED"

(***************************************************************************)
(* No seal without everything it seals: as soon as chain.json can be seen, *)
(* even by a reader after a power loss before finalize returned, the       *)
(* bundle verifies completely (finalize is last and installs atomically).  *)
(***************************************************************************)
SealedIsComplete == sealed_on_disk => Verdict = "COMPLETE"

(***************************************************************************)
(* The verdict on what a stopped or cut-off writer has left says what it   *)
(* is: evidence of an unfinished run, or all of a finished one.            *)
(***************************************************************************)
VerdictIsHonest == InterruptedIsTruncated /\ SealedIsComplete

(***************************************************************************)
(* What a call of the writer has returned from survives anything: its file *)
(* is there whole, its record and its link can be read.                    *)
(***************************************************************************)
ReturnedCallsSurvive ==
  LET done == [i \in 1..(at - 1) |-> Script[i]]
      Calls(kind) == Cardinality({i \in DOMAIN done : done[i].kind = kind})
  IN  Created =>
        /\ {done[i].name : i \in DOMAIN done} \subseteq present \ spoiled
        /\ events >= Calls("event")
        /\ linked("events") >= Calls("event")
        /\ linked("decisions") >= Calls("decision")

(***************************************************************************)
(* The streams are the append-only log of EvidenceLog: at most one record  *)
(* is in doubt, a seal leaves none, and nothing acknowledged is lost.      *)
(***************************************************************************)
Acknowledged(s) == Cardinality({i \in 1..links_safe : links[i] = s})

Log == INSTANCE EvidenceLog WITH
  committed <- [s \in Streams |-> Acknowledged(s)],
  readable  <- [s \in Streams |-> linked(s)],
  status    <- IF state = "sealed" THEN "sealed"
               ELSE IF Writing THEN "open" ELSE "stopped"

KeepsEvidence == Log!Spec

=============================================================================
