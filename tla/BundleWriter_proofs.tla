------------------------- MODULE BundleWriter_proofs -------------------------
(***************************************************************************)
(* What a bundle is worth after its writer was stopped anywhere, and the   *)
(* machine lost power, for any number of turns, events and files; and that *)
(* what the share export returns or leaves behind of one is whole or clean,*)
(* with nothing from outside the bundle in it, for any number of texts,    *)
(* edits and tries.                                                        *)
(***************************************************************************)
EXTENDS BundleWriter, ShareExport, FiniteSetTheorems, SequenceTheorems, TLAPS

B == Len(Blobs)
E == Len(EventRefs)
D == Len(DecisionFiles)

(* The places of the script where a part of it begins. *)
FirstBlob     == 10
FirstEvent    == 10 + B
FirstDecision == 10 + B + E
FirstLedger   == 10 + B + E + D
Last          == 13 + B + E + D

-----------------------------------------------------------------------------
(* The inductive invariant.  Where the writer is: *)

Kind == IF at <= Last THEN op.kind ELSE "none"
Name == IF at <= Last THEN op.name ELSE "none"

StepsOf(kind) ==
  CASE kind = "file"     -> {"start", "temp", "written", "replaced"}
    [] kind = "decision" -> {"start", "temp", "written", "replaced", "recorded", "torn_link", "link"}
    [] kind = "event"    -> {"start", "torn_record", "record", "recorded", "torn_link", "link"}
    [] OTHER             -> {"start"}

ControlHolds ==
  /\ at \in 1..(Last + 1) /\ step \in StepsOf(Kind)
  /\ state \in {"writing", "sealed", "failed", "killed"} /\ powered \in BOOLEAN
  /\ state = "sealed" <=> at = Last + 1
  /\ at > FirstLedger \/ (at = FirstLedger /\ step # "start") => ledgers_agree

(* What the operations before this one have left, and this one so far. *)
Before == {Script[i].name : i \in 1..(at - 1)}
Linking == {"recorded", "torn_link", "link"}
Placed == IF step \in {"replaced"} \cup Linking THEN {Name} ELSE {}

FilesHold ==
  /\ spoiled = {} /\ durable \subseteq present /\ present \subseteq solid
  /\ step = "written" => Name \in solid
  /\ present \subseteq Before \cup Placed
  /\ at > 5 => Before \subseteq durable
  /\ step \in Linking => Name \in durable
  /\ temps \cap present = {}
  /\ at > 5 => temps \subseteq (IF at <= Last THEN {Name} ELSE {})
  /\ powered => /\ present = Before \cup Placed
                /\ temps = IF step \in {"temp", "written"} THEN {Name} ELSE {}

(* Records and links of the operations before, and of this one. *)
Clamp(n, m) == IF n < 0 THEN 0 ELSE IF n > m THEN m ELSE n
EventsDone    == Clamp(at - FirstEvent, E)
DecisionsDone == Clamp(at - FirstDecision, D)
Recorded == IF Kind = "event" /\ step \in {"record"} \cup Linking THEN 1 ELSE 0
Linked   == IF step = "link" THEN 1 ELSE 0

LogsHold ==
  /\ events_safe \in Nat /\ events \in Nat
  /\ EventsDone <= events_safe /\ events_safe <= events /\ events <= EventsDone + Recorded
  /\ Kind = "event" /\ step \in Linking => events_safe = EventsDone + 1
  /\ links \in Seq(Streams) /\ links_safe = EventsDone + DecisionsDone
  /\ links_safe <= Len(links) /\ Len(links) <= links_safe + Linked
  /\ \A i \in DOMAIN links : links[i] = IF i <= E THEN "events" ELSE "decisions"
  /\ torn # {} => step \in {"torn_record", "record", "torn_link", "link"}
  /\ powered => /\ events = EventsDone + Recorded /\ Len(links) = links_safe + Linked
                /\ torn = CASE step = "torn_record" -> {"events.jsonl"}
                            [] step = "torn_link" -> {"chain.jsonl"}
                            [] OTHER -> {}

IInv == ControlHolds /\ FilesHold /\ LogsHold

-----------------------------------------------------------------------------
(* The script, operation by operation. *)

AllNames == Fixed \cup Names(Blobs) \cup Names(DecisionFiles)
AllKinds == {"dir", "sync_dirs", "file", "event", "decision"}
Operations == [kind : AllKinds, name : AllNames]

LEMMA LengthsAreNat ==
  /\ B \in Nat /\ E \in Nat /\ D \in Nat
  /\ DOMAIN Blobs = 1..B /\ DOMAIN EventRefs = 1..E /\ DOMAIN DecisionFiles = 1..D
  BY BundleAssumption, LenProperties DEF B, E, D

LEMMA FixedNames ==
  Fixed = {"bundle", "observations", "raw", "decisions", "agent_manifest.json", "manifest.json",
           "events.jsonl", "chain.jsonl", "ledger.jsonl", "ledger_stress_2x.jsonl",
           "metrics.json", "chain.json"}
  <1>1. Names(Dirs) = {"bundle", "observations", "raw", "decisions"}
    BY DEF Names, Dirs
  <1>2. Names(Manifests) = {"agent_manifest.json", "manifest.json"}
    BY DEF Names, Manifests
  <1>3. Names(StreamLogs) = {"events.jsonl", "chain.jsonl"}
    BY DEF Names, StreamLogs
  <1>4. Names(Ledgers) = {"ledger.jsonl", "ledger_stress_2x.jsonl"}
    BY DEF Names, Ledgers
  <1> QED BY <1>1, <1>2, <1>3, <1>4 DEF Fixed

LEMMA OpsAre ==
  ASSUME NEW kind \in AllKinds, NEW names \in Seq(AllNames)
  PROVE  /\ Ops(kind, names) \in Seq(Operations) /\ Len(Ops(kind, names)) = Len(names)
         /\ \A i \in 1..Len(names) : Ops(kind, names)[i] = [kind |-> kind, name |-> names[i]]
  <1>1. /\ Len(names) \in Nat /\ DOMAIN names = 1..Len(names) /\ \A i \in 1..Len(names) : names[i] \in AllNames
    BY LenProperties, ElementOfSeq
  <1>2. Ops(kind, names) = [i \in 1..Len(names) |-> [kind |-> kind, name |-> names[i]]]
    BY <1>1 DEF Ops
  <1>3. \A i \in 1..Len(names) : [kind |-> kind, name |-> names[i]] \in Operations
    BY <1>1 DEF Operations
  <1> QED BY <1>1, <1>2, <1>3, IsASeq, LenProperties

(* One part after another. *)
LEMMA Joined ==
  ASSUME NEW S, NEW s \in Seq(S), NEW r \in Seq(S)
  PROVE  /\ s \o r \in Seq(S) /\ Len(s \o r) = Len(s) + Len(r)
         /\ \A i \in 1..(Len(s) + Len(r)) : (s \o r)[i] = IF i <= Len(s) THEN s[i] ELSE r[i - Len(s)]
  BY ConcatProperties

LEMMA CreationIs ==
  /\ Creation \in Seq(Operations) /\ Len(Creation) = 9
  /\ \A i \in 1..4 : Creation[i] = [kind |-> "dir", name |-> Dirs[i]]
  /\ Creation[5] = [kind |-> "sync_dirs", name |-> "bundle"]
  /\ Creation[6] = [kind |-> "file", name |-> "agent_manifest.json"]
  /\ Creation[7] = [kind |-> "file", name |-> "manifest.json"]
  /\ Creation[8] = [kind |-> "file", name |-> "events.jsonl"]
  /\ Creation[9] = [kind |-> "file", name |-> "chain.jsonl"]
  <1>1. /\ Dirs \in Seq(AllNames) /\ Len(Dirs) = 4
        /\ <<"bundle">> \in Seq(AllNames) /\ Len(<<"bundle">>) = 1 /\ <<"bundle">>[1] = "bundle"
        /\ Manifests \in Seq(AllNames) /\ StreamLogs \in Seq(AllNames)
        /\ Len(Manifests) = 2 /\ Len(StreamLogs) = 2
    BY FixedNames DEF Dirs, Manifests, StreamLogs, AllNames
  <1>2. PICK names : names = Manifests \o StreamLogs
    OBVIOUS
  <1>3. /\ names \in Seq(AllNames) /\ Len(names) = 4
        /\ \A i \in 1..4 : names[i] = IF i <= 2 THEN Manifests[i] ELSE StreamLogs[i - 2]
    <2>1. /\ names \in Seq(AllNames) /\ Len(names) = Len(Manifests) + Len(StreamLogs)
          /\ \A i \in 1..(Len(Manifests) + Len(StreamLogs)) :
               names[i] = IF i <= Len(Manifests) THEN Manifests[i] ELSE StreamLogs[i - Len(Manifests)]
      BY <1>1, <1>2, Joined
    <2> QED BY <1>1, <2>1
  <1>4. /\ names[1] = "agent_manifest.json" /\ names[2] = "manifest.json"
        /\ names[3] = "events.jsonl" /\ names[4] = "chain.jsonl"
    BY <1>3 DEF Manifests, StreamLogs
  <1>5. "dir" \in AllKinds /\ "sync_dirs" \in AllKinds /\ "file" \in AllKinds
    BY DEF AllKinds
  <1>6. PICK dirs, sync, files :
          dirs = Ops("dir", Dirs) /\ sync = Ops("sync_dirs", <<"bundle">>) /\ files = Ops("file", names)
    OBVIOUS
  <1>7. /\ dirs \in Seq(Operations) /\ Len(dirs) = 4
        /\ \A i \in 1..4 : dirs[i] = [kind |-> "dir", name |-> Dirs[i]]
    <2>1. /\ dirs \in Seq(Operations) /\ Len(dirs) = Len(Dirs)
          /\ \A i \in 1..Len(Dirs) : dirs[i] = [kind |-> "dir", name |-> Dirs[i]]
      BY <1>1, <1>5, <1>6, OpsAre
    <2> QED BY <1>1, <2>1
  <1>8. /\ sync \in Seq(Operations) /\ Len(sync) = 1
        /\ sync[1] = [kind |-> "sync_dirs", name |-> "bundle"]
    <2>1. PICK one : one = <<"bundle">>
      OBVIOUS
    <2>2. one \in Seq(AllNames) /\ sync = Ops("sync_dirs", one)
      BY <1>1, <1>6, <2>1
    <2>3. /\ sync \in Seq(Operations) /\ Len(sync) = Len(one)
          /\ \A i \in 1..Len(one) : sync[i] = [kind |-> "sync_dirs", name |-> one[i]]
      BY <1>5, <2>2, OpsAre
    <2>4. Len(one) = 1 /\ one[1] = "bundle"
      BY <2>1
    <2>5. Len(sync) = 1
      BY <2>3, <2>4
    <2>6. 1 \in 1..Len(one)
      BY <2>4
    <2>7. sync[1] = [kind |-> "sync_dirs", name |-> one[1]]
      BY <2>3, <2>6
    <2> QED BY <2>3, <2>4, <2>5, <2>7
  <1>9. /\ files \in Seq(Operations) /\ Len(files) = 4
        /\ \A i \in 1..4 : files[i] = [kind |-> "file", name |-> names[i]]
    <2>1. /\ files \in Seq(Operations) /\ Len(files) = Len(names)
          /\ \A i \in 1..Len(names) : files[i] = [kind |-> "file", name |-> names[i]]
      BY <1>3, <1>5, <1>6, OpsAre
    <2> QED BY <1>3, <2>1
  <1>10. PICK front : front = dirs \o sync
    OBVIOUS
  <1>11. /\ front \in Seq(Operations) /\ Len(front) = 5
        /\ \A i \in 1..(5) : front[i] = IF i <= 4 THEN dirs[i] ELSE sync[i - (4)]
    <2>1. /\ front \in Seq(Operations) /\ Len(front) = Len(dirs) + Len(sync)
          /\ \A i \in 1..(Len(dirs) + Len(sync)) : front[i] = IF i <= Len(dirs) THEN dirs[i] ELSE sync[i - Len(dirs)]
      BY <1>7, <1>8, <1>10, Joined
    <2>2. Len(dirs) = 4 /\ Len(sync) = 1
      BY <1>7, <1>8
    <2>3. Len(front) = 5
      BY <2>1, <2>2
    <2>4. \A i \in 1..5 : front[i] = IF i <= 4 THEN dirs[i] ELSE sync[i - 4]
      BY <2>1, <2>2
    <2> QED BY <2>1, <2>3, <2>4
  <1>12. Creation = front \o files
    BY <1>2, <1>6, <1>10 DEF Creation
  <1>13. /\ Creation \in Seq(Operations) /\ Len(Creation) = 9
        /\ \A i \in 1..(9) : Creation[i] = IF i <= 5 THEN front[i] ELSE files[i - (5)]
    <2>1. /\ Creation \in Seq(Operations) /\ Len(Creation) = Len(front) + Len(files)
          /\ \A i \in 1..(Len(front) + Len(files)) : Creation[i] = IF i <= Len(front) THEN front[i] ELSE files[i - Len(front)]
      BY <1>9, <1>11, <1>12, Joined
    <2> QED BY <2>1, <1>9, <1>11, <1>12
  <1>14. \A i \in 1..4 : Creation[i] = [kind |-> "dir", name |-> Dirs[i]]
    BY <1>7, <1>11, <1>13
  <1>15. Creation[5] = [kind |-> "sync_dirs", name |-> "bundle"]
    <2>1. Creation[5] = front[5]
      BY <1>13
    <2>2. front[5] = sync[5 - 4]
      BY <1>11
    <2>3. 5 - 4 = 1
      OBVIOUS
    <2> QED BY <1>8, <2>1, <2>2, <2>3
  <1>16. \A i \in 1..4 : Creation[i + 5] = [kind |-> "file", name |-> names[i]]
    BY <1>9, <1>13
  <1>17. /\ Creation[1 + 5] = [kind |-> "file", name |-> names[1]]
         /\ Creation[2 + 5] = [kind |-> "file", name |-> names[2]]
         /\ Creation[3 + 5] = [kind |-> "file", name |-> names[3]]
         /\ Creation[4 + 5] = [kind |-> "file", name |-> names[4]]
    BY <1>16
  <1>18. 1 + 5 = 6 /\ 2 + 5 = 7 /\ 3 + 5 = 8 /\ 4 + 5 = 9
    OBVIOUS
  <1>19. /\ Creation[6] = [kind |-> "file", name |-> names[1]]
         /\ Creation[7] = [kind |-> "file", name |-> names[2]]
         /\ Creation[8] = [kind |-> "file", name |-> names[3]]
         /\ Creation[9] = [kind |-> "file", name |-> names[4]]
    BY <1>17, <1>18
  <1>20. Creation \in Seq(Operations) /\ Len(Creation) = 9
    BY <1>13
  <1> QED BY <1>4, <1>14, <1>15, <1>19, <1>20


(* The parts of the script that follow the creation. *)
EventOps == [i \in DOMAIN EventRefs |-> [kind |-> "event", name |-> "events.jsonl"]]
Closing  == <<"metrics.json", "chain.json">>

LEMMA PartsAre ==
  /\ Ops("file", Blobs) \in Seq(Operations) /\ Len(Ops("file", Blobs)) = B
  /\ \A i \in 1..B : Ops("file", Blobs)[i] = [kind |-> "file", name |-> Blobs[i]]
  /\ EventOps \in Seq(Operations) /\ Len(EventOps) = E
  /\ \A i \in 1..E : EventOps[i] = [kind |-> "event", name |-> "events.jsonl"]
  /\ Ops("decision", DecisionFiles) \in Seq(Operations)
  /\ Len(Ops("decision", DecisionFiles)) = D
  /\ \A i \in 1..D :
       Ops("decision", DecisionFiles)[i] = [kind |-> "decision", name |-> DecisionFiles[i]]
  <1>1. "file" \in AllKinds /\ "event" \in AllKinds /\ "decision" \in AllKinds
    BY DEF AllKinds
  <1>2. Blobs \in Seq(AllNames) /\ DecisionFiles \in Seq(AllNames)
    <2>1. \A i \in 1..B : Blobs[i] \in AllNames
      BY LengthsAreNat DEF Names, AllNames
    <2>2. \A i \in 1..D : DecisionFiles[i] \in AllNames
      BY LengthsAreNat DEF Names, AllNames
    <2>3. Blobs \in Seq(Names(Blobs)) /\ DecisionFiles \in Seq(Names(DecisionFiles))
      BY BundleAssumption
    <2>4. /\ Blobs = [i \in 1..B |-> Blobs[i]]
          /\ DecisionFiles = [i \in 1..D |-> DecisionFiles[i]]
      BY <2>3, LenProperties DEF B, D
    <2>5. [i \in 1..B |-> Blobs[i]] \in Seq(AllNames)
      BY <2>1, LengthsAreNat, IsASeq
    <2>6. [i \in 1..D |-> DecisionFiles[i]] \in Seq(AllNames)
      BY <2>2, LengthsAreNat, IsASeq
    <2> QED BY <2>4, <2>5, <2>6
  <1>3. /\ Ops("file", Blobs) \in Seq(Operations) /\ Len(Ops("file", Blobs)) = B
        /\ \A i \in 1..B : Ops("file", Blobs)[i] = [kind |-> "file", name |-> Blobs[i]]
    BY <1>1, <1>2, OpsAre DEF B
  <1>4. /\ Ops("decision", DecisionFiles) \in Seq(Operations)
        /\ Len(Ops("decision", DecisionFiles)) = D
        /\ \A i \in 1..D :
             Ops("decision", DecisionFiles)[i] = [kind |-> "decision", name |-> DecisionFiles[i]]
    BY <1>1, <1>2, OpsAre DEF D
  <1>5. [kind |-> "event", name |-> "events.jsonl"] \in Operations
    BY <1>1, FixedNames DEF Operations, AllNames
  <1>6. EventOps = [i \in 1..E |-> [kind |-> "event", name |-> "events.jsonl"]]
    BY LengthsAreNat DEF EventOps
  <1>7. EventOps \in Seq(Operations) /\ Len(EventOps) = E
    BY <1>5, <1>6, LengthsAreNat, IsASeq, LenProperties
  <1>8. \A i \in 1..E : EventOps[i] = [kind |-> "event", name |-> "events.jsonl"]
    BY <1>6
  <1> QED BY <1>3, <1>4, <1>7, <1>8

(* The first of two parts joined, and the second. *)
LEMMA Parts ==
  ASSUME NEW S, NEW s \in Seq(S), NEW r \in Seq(S), NEW c, c = s \o r
  PROVE  /\ c \in Seq(S) /\ Len(c) = Len(s) + Len(r)
         /\ \A i \in 1..Len(s) : c[i] = s[i]
         /\ \A i \in 1..Len(r) : c[Len(s) + i] = r[i]
  <1>1. Len(s) \in Nat /\ Len(r) \in Nat
    BY LenProperties
  <1>2. /\ c \in Seq(S) /\ Len(c) = Len(s) + Len(r)
        /\ \A i \in 1..(Len(s) + Len(r)) : c[i] = IF i <= Len(s) THEN s[i] ELSE r[i - Len(s)]
    BY Joined
  <1>3. \A i \in 1..Len(s) : c[i] = s[i]
    BY <1>1, <1>2
  <1>4. ASSUME NEW i \in 1..Len(r)
        PROVE  c[Len(s) + i] = r[i]
    <2>1. Len(s) + i \in 1..(Len(s) + Len(r)) /\ ~(Len(s) + i <= Len(s)) /\ (Len(s) + i) - Len(s) = i
      BY <1>1
    <2>2. c[Len(s) + i] = r[(Len(s) + i) - Len(s)]
      BY <1>2, <2>1
    <2> QED BY <2>1, <2>2
  <1> QED BY <1>2, <1>3, <1>4

LEMMA TwoFiles ==
  ASSUME NEW a \in AllNames, NEW b \in AllNames
  PROVE  /\ Ops("file", <<a, b>>) \in Seq(Operations) /\ Len(Ops("file", <<a, b>>)) = 2
         /\ Ops("file", <<a, b>>)[1] = [kind |-> "file", name |-> a]
         /\ Ops("file", <<a, b>>)[2] = [kind |-> "file", name |-> b]
  <1>1. PICK two : two = <<a, b>>
    OBVIOUS
  <1>2. two \in Seq(AllNames) /\ Len(two) = 2 /\ two[1] = a /\ two[2] = b
    BY <1>1
  <1>3. "file" \in AllKinds
    BY DEF AllKinds
  <1>4. PICK ops : ops = Ops("file", two)
    OBVIOUS
  <1>5. /\ ops \in Seq(Operations) /\ Len(ops) = Len(two)
        /\ \A i \in 1..Len(two) : ops[i] = [kind |-> "file", name |-> two[i]]
    BY <1>2, <1>3, <1>4, OpsAre
  <1>6. 1 \in 1..Len(two) /\ 2 \in 1..Len(two)
    BY <1>2
  <1>7. ops[1] = [kind |-> "file", name |-> two[1]] /\ ops[2] = [kind |-> "file", name |-> two[2]]
    BY <1>5, <1>6
  <1>8. /\ ops \in Seq(Operations) /\ Len(ops) = 2
        /\ ops[1] = [kind |-> "file", name |-> a] /\ ops[2] = [kind |-> "file", name |-> b]
    BY <1>2, <1>5, <1>7
  <1>9. ops = Ops("file", <<a, b>>)
    BY <1>1, <1>4
  <1> QED BY <1>8, <1>9

LEMMA ScriptIs ==
  /\ Script \in Seq(Operations) /\ Len(Script) = Last
  /\ \A i \in 1..9 : Script[i] = Creation[i]
  /\ \A i \in 1..B : Script[9 + i] = [kind |-> "file", name |-> Blobs[i]]
  /\ \A i \in 1..E : Script[9 + B + i] = [kind |-> "event", name |-> "events.jsonl"]
  /\ \A i \in 1..D : Script[9 + B + E + i] = [kind |-> "decision", name |-> DecisionFiles[i]]
  /\ Script[Last - 3] = [kind |-> "file", name |-> "ledger.jsonl"]
  /\ Script[Last - 2] = [kind |-> "file", name |-> "ledger_stress_2x.jsonl"]
  /\ Script[Last - 1] = [kind |-> "file", name |-> "metrics.json"]
  /\ Script[Last] = [kind |-> "file", name |-> "chain.json"]
  <1> DEFINE files == Ops("file", Blobs)
             decs  == Ops("decision", DecisionFiles)
             ledgs == Ops("file", Ledgers)
             fin   == Ops("file", <<"metrics.json", "chain.json">>)
  <1>1. Creation \in Seq(Operations) /\ Len(Creation) = 9
    BY CreationIs
  <1>2. /\ files \in Seq(Operations) /\ Len(files) = B
        /\ \A i \in 1..B : files[i] = [kind |-> "file", name |-> Blobs[i]]
    BY PartsAre
  <1>3. /\ EventOps \in Seq(Operations) /\ Len(EventOps) = E
        /\ \A i \in 1..E : EventOps[i] = [kind |-> "event", name |-> "events.jsonl"]
    BY PartsAre
  <1>4. /\ decs \in Seq(Operations) /\ Len(decs) = D
        /\ \A i \in 1..D : decs[i] = [kind |-> "decision", name |-> DecisionFiles[i]]
    BY PartsAre
  <1>5. /\ "ledger.jsonl" \in AllNames /\ "ledger_stress_2x.jsonl" \in AllNames
        /\ "metrics.json" \in AllNames /\ "chain.json" \in AllNames
    BY FixedNames DEF AllNames
  <1>6. /\ ledgs \in Seq(Operations) /\ Len(ledgs) = 2
        /\ ledgs[1] = [kind |-> "file", name |-> "ledger.jsonl"]
        /\ ledgs[2] = [kind |-> "file", name |-> "ledger_stress_2x.jsonl"]
    BY <1>5, TwoFiles DEF Ledgers
  <1>7. /\ fin \in Seq(Operations) /\ Len(fin) = 2
        /\ fin[1] = [kind |-> "file", name |-> "metrics.json"]
        /\ fin[2] = [kind |-> "file", name |-> "chain.json"]
    BY <1>5, TwoFiles
  <1>8. Script = ((((Creation \o files) \o EventOps) \o decs) \o ledgs) \o fin
    BY DEF Script, EventOps
  <1> HIDE DEF files, decs, ledgs, fin
  <1>0. /\ Creation \in Seq(Operations) /\ files \in Seq(Operations) /\ decs \in Seq(Operations)
        /\ ledgs \in Seq(Operations) /\ fin \in Seq(Operations)
    BY <1>1, <1>2, <1>4, <1>6, <1>7
  <1>9. PICK c1 : c1 = Creation \o files
    OBVIOUS
  <1>10. /\ c1 \in Seq(Operations) /\ Len(c1) = Len(Creation) + Len(files)
         /\ \A i \in 1..Len(Creation) : c1[i] = Creation[i]
         /\ \A i \in 1..Len(files) : c1[Len(Creation) + i] = files[i]
    BY <1>0, <1>9, Parts
  <1>11. PICK c2 : c2 = c1 \o EventOps
    OBVIOUS
  <1>12. /\ c2 \in Seq(Operations) /\ Len(c2) = Len(c1) + Len(EventOps)
         /\ \A i \in 1..Len(c1) : c2[i] = c1[i]
         /\ \A i \in 1..Len(EventOps) : c2[Len(c1) + i] = EventOps[i]
    BY <1>3, <1>10, <1>11, Parts
  <1>13. PICK c3 : c3 = c2 \o decs
    OBVIOUS
  <1>14. /\ c3 \in Seq(Operations) /\ Len(c3) = Len(c2) + Len(decs)
         /\ \A i \in 1..Len(c2) : c3[i] = c2[i]
         /\ \A i \in 1..Len(decs) : c3[Len(c2) + i] = decs[i]
    <2>1. c2 \in Seq(Operations)
      BY <1>12
    <2> QED BY <1>0, <1>13, <2>1, Parts
  <1>15. PICK c4 : c4 = c3 \o ledgs
    OBVIOUS
  <1>16. /\ c4 \in Seq(Operations) /\ Len(c4) = Len(c3) + Len(ledgs)
         /\ \A i \in 1..Len(c3) : c4[i] = c3[i]
         /\ \A i \in 1..Len(ledgs) : c4[Len(c3) + i] = ledgs[i]
    <2>1. c3 \in Seq(Operations)
      BY <1>14
    <2> QED BY <1>0, <1>15, <2>1, Parts
  <1>17. Script = c4 \o fin
    BY <1>8, <1>9, <1>11, <1>13, <1>15
  <1>18. /\ Script \in Seq(Operations) /\ Len(Script) = Len(c4) + Len(fin)
         /\ \A i \in 1..Len(c4) : Script[i] = c4[i]
         /\ \A i \in 1..Len(fin) : Script[Len(c4) + i] = fin[i]
    <2>1. c4 \in Seq(Operations)
      BY <1>16
    <2> QED BY <1>0, <1>17, <2>1, Parts
  <1>19. B \in Nat /\ E \in Nat /\ D \in Nat
    BY LengthsAreNat
  <1>20. /\ Len(c1) = 9 + B /\ Len(c2) = 9 + B + E /\ Len(c3) = 9 + B + E + D
         /\ Len(c4) = 11 + B + E + D /\ Len(Script) = 13 + B + E + D
    BY <1>1, <1>2, <1>3, <1>4, <1>6, <1>7, <1>10, <1>12, <1>14, <1>16, <1>18, <1>19
  <1>21. /\ \A i \in 1..(11 + B + E + D) : Script[i] = c4[i]
         /\ \A i \in 1..(9 + B + E + D) : Script[i] = c3[i]
         /\ \A i \in 1..(9 + B + E) : Script[i] = c2[i]
         /\ \A i \in 1..(9 + B) : Script[i] = c1[i]
    <2>1. \A i \in 1..(11 + B + E + D) : Script[i] = c4[i]
      BY <1>18, <1>20
    <2>2. \A i \in 1..(9 + B + E + D) : c4[i] = c3[i]
      BY <1>16, <1>20
    <2>3. \A i \in 1..(9 + B + E) : c3[i] = c2[i]
      BY <1>14, <1>20
    <2>4. \A i \in 1..(9 + B) : c2[i] = c1[i]
      BY <1>12, <1>20
    <2>5. \A i \in 1..(9 + B + E + D) : Script[i] = c3[i]
      BY <2>1, <2>2, <1>19
    <2>6. \A i \in 1..(9 + B + E) : Script[i] = c2[i]
      BY <2>3, <2>5, <1>19
    <2> QED BY <2>1, <2>4, <2>5, <2>6, <1>19
  <1>22. \A i \in 1..9 : Script[i] = Creation[i]
    <2>1. \A i \in 1..9 : c1[i] = Creation[i]
      BY <1>1, <1>10
    <2>2. \A i \in 1..9 : i \in 1..(9 + B)
      BY <1>19
    <2> QED BY <1>21, <2>1, <2>2
  <1>23. \A i \in 1..B : Script[9 + i] = files[i]
    <2>1. \A i \in 1..B : c1[9 + i] = files[i]
      BY <1>1, <1>2, <1>10
    <2>2. \A i \in 1..B : 9 + i \in 1..(9 + B)
      BY <1>19
    <2> QED BY <1>21, <2>1, <2>2
  <1>24. \A i \in 1..E : Script[9 + B + i] = EventOps[i]
    <2>1. \A i \in 1..E : c2[9 + B + i] = EventOps[i]
      BY <1>3, <1>12, <1>20
    <2>2. \A i \in 1..E : 9 + B + i \in 1..(9 + B + E)
      BY <1>19
    <2> QED BY <1>21, <2>1, <2>2
  <1>25. \A i \in 1..D : Script[9 + B + E + i] = decs[i]
    <2>1. \A i \in 1..D : c3[9 + B + E + i] = decs[i]
      BY <1>4, <1>14, <1>20
    <2>2. \A i \in 1..D : 9 + B + E + i \in 1..(9 + B + E + D)
      BY <1>19
    <2> QED BY <1>21, <2>1, <2>2
  <1>26. Script[Last - 3] = ledgs[1] /\ Script[Last - 2] = ledgs[2]
    <2>1. 1 \in 1..Len(ledgs) /\ 2 \in 1..Len(ledgs)
      BY <1>6
    <2>2. c4[Len(c3) + 1] = ledgs[1] /\ c4[Len(c3) + 2] = ledgs[2]
      BY <1>16, <2>1
    <2>3. /\ Len(c3) + 1 = Last - 3 /\ Len(c3) + 2 = Last - 2
          /\ Last - 3 \in 1..(11 + B + E + D) /\ Last - 2 \in 1..(11 + B + E + D)
      BY <1>19, <1>20 DEF Last
    <2> QED BY <1>21, <2>2, <2>3
  <1>27. Script[Last - 1] = fin[1] /\ Script[Last] = fin[2]
    <2>1. 1 \in 1..Len(fin) /\ 2 \in 1..Len(fin)
      BY <1>7
    <2>2. Script[Len(c4) + 1] = fin[1] /\ Script[Len(c4) + 2] = fin[2]
      BY <1>18, <2>1
    <2>3. Len(c4) + 1 = Last - 1 /\ Len(c4) + 2 = Last
      BY <1>19, <1>20 DEF Last
    <2> QED BY <2>2, <2>3
  <1>28. Script \in Seq(Operations) /\ Len(Script) = Last
    BY <1>18, <1>20 DEF Last
  <1> QED BY <1>2, <1>3, <1>4, <1>6, <1>7, <1>22, <1>23, <1>24, <1>25, <1>26, <1>27, <1>28

(* The kind and the name of each operation. *)
KindAt(i) ==
  IF i < 5 THEN "dir" ELSE IF i = 5 THEN "sync_dirs" ELSE IF i < FirstEvent THEN "file"
  ELSE IF i < FirstDecision THEN "event" ELSE IF i < FirstLedger THEN "decision" ELSE "file"

CreatedName(i) ==
  CASE i = 1 -> "bundle" [] i = 2 -> "observations" [] i = 3 -> "raw" [] i = 4 -> "decisions"
    [] i = 5 -> "bundle" [] i = 6 -> "agent_manifest.json" [] i = 7 -> "manifest.json"
    [] i = 8 -> "events.jsonl" [] i = 9 -> "chain.jsonl"
ClosingName(k) ==
  CASE k = 0 -> "ledger.jsonl" [] k = 1 -> "ledger_stress_2x.jsonl"
    [] k = 2 -> "metrics.json" [] k = 3 -> "chain.json"

NameAt(i) ==
  IF i < FirstBlob THEN CreatedName(i) ELSE IF i < FirstEvent THEN Blobs[i - 9]
  ELSE IF i < FirstDecision THEN "events.jsonl"
  ELSE IF i < FirstLedger THEN DecisionFiles[i - (9 + B + E)] ELSE ClosingName(i - FirstLedger)

LEMMA OpIs ==
  ASSUME NEW i \in 1..Last
  PROVE  Script[i].kind = KindAt(i) /\ Script[i].name = NameAt(i)
  <1>1. B \in Nat /\ E \in Nat /\ D \in Nat
    BY LengthsAreNat
  <1> DEFINE Claim == Script[i].kind = KindAt(i) /\ Script[i].name = NameAt(i)
  <1>2. CASE i \in 1..4
    <2>0. \A k \in 1..9 : Script[k] = Creation[k]
      BY ScriptIs
    <2>a. \A k \in 1..4 : Creation[k] = [kind |-> "dir", name |-> Dirs[k]]
      BY CreationIs
    <2>1. Script[i] = [kind |-> "dir", name |-> Dirs[i]]
      BY <1>2, <2>0, <2>a
    <2>2. NameAt(i) = CreatedName(i) /\ KindAt(i) = "dir"
      BY <1>1, <1>2 DEF NameAt, KindAt, FirstBlob
    <2>3. CreatedName(i) = Dirs[i]
      BY <1>2 DEF CreatedName, Dirs
    <2> QED BY <2>1, <2>2, <2>3
  <1>3. CASE i \in 5..9
    <2>1. Script[i] = Creation[i]
      BY <1>3, ScriptIs
    <2>2. i = 5 \/ i = 6 \/ i = 7 \/ i = 8 \/ i = 9
      BY <1>3
    <2>3. /\ Creation[5] = [kind |-> "sync_dirs", name |-> "bundle"]
          /\ Creation[6] = [kind |-> "file", name |-> "agent_manifest.json"]
          /\ Creation[7] = [kind |-> "file", name |-> "manifest.json"]
          /\ Creation[8] = [kind |-> "file", name |-> "events.jsonl"]
          /\ Creation[9] = [kind |-> "file", name |-> "chain.jsonl"]
      BY CreationIs
    <2>4. Creation[i].name = CreatedName(i)
      BY <2>2, <2>3 DEF CreatedName
    <2>5. Creation[i].kind = IF i = 5 THEN "sync_dirs" ELSE "file"
      BY <2>2, <2>3
    <2>6. NameAt(i) = CreatedName(i)
      BY <1>3 DEF NameAt, FirstBlob
    <2>7. i < FirstEvent
      BY <1>1, <1>3 DEF FirstEvent
    <2>8. KindAt(i) = IF i = 5 THEN "sync_dirs" ELSE "file"
      BY <1>3, <2>7 DEF KindAt
    <2> QED BY <2>1, <2>4, <2>5, <2>6, <2>8
  <1>4. CASE i \in FirstBlob..(FirstEvent - 1)
    <2>1. i - 9 \in 1..B /\ 9 + (i - 9) = i
      BY <1>1, <1>4 DEF FirstBlob, FirstEvent
    <2>2. Script[i] = [kind |-> "file", name |-> Blobs[i - 9]]
      BY <2>1, ScriptIs
    <2>3. KindAt(i) = "file" /\ NameAt(i) = Blobs[i - 9]
      BY <1>1, <1>4 DEF KindAt, NameAt, FirstBlob, FirstEvent
    <2> QED BY <2>2, <2>3
  <1>5. CASE i \in FirstEvent..(FirstDecision - 1)
    <2>1. i - (9 + B) \in 1..E /\ 9 + B + (i - (9 + B)) = i
      BY <1>1, <1>5 DEF FirstEvent, FirstDecision
    <2>2. Script[i] = [kind |-> "event", name |-> "events.jsonl"]
      BY <2>1, ScriptIs
    <2>3. KindAt(i) = "event" /\ NameAt(i) = "events.jsonl"
      BY <1>1, <1>5 DEF KindAt, NameAt, FirstBlob, FirstEvent, FirstDecision
    <2> QED BY <2>2, <2>3
  <1>6. CASE i \in FirstDecision..(FirstLedger - 1)
    <2>1. i - (9 + B + E) \in 1..D /\ 9 + B + E + (i - (9 + B + E)) = i
      BY <1>1, <1>6 DEF FirstDecision, FirstLedger
    <2>2. Script[i] = [kind |-> "decision", name |-> DecisionFiles[i - (9 + B + E)]]
      BY <2>1, ScriptIs
    <2>3. KindAt(i) = "decision" /\ NameAt(i) = DecisionFiles[i - (9 + B + E)]
      BY <1>1, <1>6 DEF KindAt, NameAt, FirstBlob, FirstEvent, FirstDecision, FirstLedger
    <2> QED BY <2>2, <2>3
  <1>7. CASE i \in FirstLedger..Last
    <2>1. i = Last - 3 \/ i = Last - 2 \/ i = Last - 1 \/ i = Last
      BY <1>1, <1>7 DEF FirstLedger, Last
    <2>2. KindAt(i) = "file" /\ NameAt(i) = ClosingName(i - FirstLedger)
      BY <1>1, <1>7 DEF KindAt, NameAt, FirstBlob, FirstEvent, FirstDecision, FirstLedger
    <2>3. Script[i].kind = "file"
      BY <2>1, ScriptIs
    <2>4. /\ (Last - 3) - FirstLedger = 0 /\ (Last - 2) - FirstLedger = 1
          /\ (Last - 1) - FirstLedger = 2 /\ Last - FirstLedger = 3
      BY <1>1 DEF FirstLedger, Last
    <2>5. Script[i].name = ClosingName(i - FirstLedger)
      BY <2>1, <2>4, ScriptIs DEF ClosingName
    <2> QED BY <2>2, <2>3, <2>5
  <1>8. \/ i \in 1..4 \/ i \in 5..9 \/ i \in FirstBlob..(FirstEvent - 1)
        \/ i \in FirstEvent..(FirstDecision - 1) \/ i \in FirstDecision..(FirstLedger - 1)
        \/ i \in FirstLedger..Last
    BY <1>1 DEF FirstBlob, FirstEvent, FirstDecision, FirstLedger, Last
  <1> QED BY <1>2, <1>3, <1>4, <1>5, <1>6, <1>7, <1>8

(* No file is installed under a name that an earlier operation used. *)
LEMMA NamesAreNew ==
  ASSUME NEW i \in 1..Last, NEW j \in 1..Last, j < i, KindAt(i) \in {"file", "decision"}
  PROVE  NameAt(j) # NameAt(i)
  <1>1. B \in Nat /\ E \in Nat /\ D \in Nat
    BY LengthsAreNat
  <1>2. \A k \in 1..B : Blobs[k] \in Names(Blobs)
    BY LengthsAreNat DEF Names
  <1>3. \A k \in 1..D : DecisionFiles[k] \in Names(DecisionFiles)
    BY LengthsAreNat DEF Names
  <1>4. \A k, l \in 1..B : k # l => Blobs[k] # Blobs[l]
    BY LengthsAreNat, BundleAssumption DEF Distinct
  <1>5. \A k, l \in 1..D : k # l => DecisionFiles[k] # DecisionFiles[l]
    BY LengthsAreNat, BundleAssumption DEF Distinct
  <1>6. /\ (Names(Blobs) \cup Names(DecisionFiles)) \cap Fixed = {}
        /\ Names(Blobs) \cap Names(DecisionFiles) = {}
    BY BundleAssumption
  <1>7. \A k \in 1..9 : CreatedName(k) \in Fixed
    BY FixedNames DEF CreatedName
  <1>8. "events.jsonl" \in Fixed
    BY FixedNames
  <1>9. \A k \in 0..3 : ClosingName(k) \in Fixed
    BY FixedNames DEF ClosingName
  <1>10. CASE i < FirstBlob
    <2>1. i \in 6..9 /\ j \in 1..8 /\ NameAt(i) = CreatedName(i) /\ NameAt(j) = CreatedName(j)
      BY <1>1, <1>10 DEF KindAt, NameAt, FirstBlob, FirstEvent, FirstDecision, FirstLedger, Last
    <2>2. CreatedName(j) # CreatedName(i)
      BY <2>1 DEF CreatedName
    <2> QED BY <2>1, <2>2
  <1>11. CASE i >= FirstBlob /\ i < FirstEvent
    <2>1. NameAt(i) = Blobs[i - 9] /\ i - 9 \in 1..B
      BY <1>1, <1>11 DEF NameAt, FirstBlob, FirstEvent
    <2>2. CASE j < FirstBlob
      BY <1>1, <1>2, <1>6, <1>7, <2>1, <2>2 DEF NameAt, FirstBlob
    <2>3. CASE j >= FirstBlob
      <3>1. NameAt(j) = Blobs[j - 9] /\ j - 9 \in 1..B /\ j - 9 # i - 9
        BY <1>1, <1>11, <2>3 DEF NameAt, FirstBlob, FirstEvent
      <3> QED BY <1>4, <2>1, <3>1
    <2> QED BY <2>2, <2>3, <1>1 DEF FirstBlob
  <1>12. CASE i >= FirstDecision /\ i < FirstLedger
    <2>1. NameAt(i) = DecisionFiles[i - (9 + B + E)] /\ i - (9 + B + E) \in 1..D
      BY <1>1, <1>12 DEF NameAt, FirstBlob, FirstEvent, FirstDecision, FirstLedger
    <2>2. CASE j < FirstBlob
      BY <1>1, <1>3, <1>6, <1>7, <2>1, <2>2 DEF NameAt, FirstBlob
    <2>3. CASE j >= FirstBlob /\ j < FirstEvent
      <3>1. NameAt(j) = Blobs[j - 9] /\ j - 9 \in 1..B
        BY <1>1, <2>3 DEF NameAt, FirstBlob, FirstEvent
      <3> QED BY <1>2, <1>3, <1>6, <2>1, <3>1
    <2>4. CASE j >= FirstEvent /\ j < FirstDecision
      <3>1. NameAt(j) = "events.jsonl"
        BY <1>1, <2>4 DEF NameAt, FirstBlob, FirstEvent, FirstDecision
      <3> QED BY <1>3, <1>6, <1>8, <2>1, <3>1
    <2>5. CASE j >= FirstDecision
      <3>1. /\ NameAt(j) = DecisionFiles[j - (9 + B + E)] /\ j - (9 + B + E) \in 1..D
            /\ j - (9 + B + E) # i - (9 + B + E)
        BY <1>1, <1>12, <2>5 DEF NameAt, FirstBlob, FirstEvent, FirstDecision, FirstLedger
      <3> QED BY <1>5, <2>1, <3>1
    <2> QED BY <2>2, <2>3, <2>4, <2>5, <1>1 DEF FirstBlob, FirstEvent, FirstDecision
  <1>13. CASE i >= FirstLedger
    <2>1. NameAt(i) = ClosingName(i - FirstLedger) /\ i - FirstLedger \in 0..3
      BY <1>1, <1>13 DEF NameAt, FirstBlob, FirstEvent, FirstDecision, FirstLedger, Last
    <2>2. ClosingName(i - FirstLedger) \in
            {"ledger.jsonl", "ledger_stress_2x.jsonl", "metrics.json", "chain.json"}
      BY <2>1 DEF ClosingName
    <2>3. CASE j < FirstBlob
      <3>1. NameAt(j) = CreatedName(j) /\ j \in 1..9
        BY <1>1, <2>3 DEF NameAt, FirstBlob
      <3>2. CreatedName(j) \notin {"ledger.jsonl", "ledger_stress_2x.jsonl", "metrics.json", "chain.json"}
        BY <3>1 DEF CreatedName
      <3> QED BY <2>1, <2>2, <3>1, <3>2
    <2>4. CASE j >= FirstBlob /\ j < FirstEvent
      <3>1. NameAt(j) = Blobs[j - 9] /\ j - 9 \in 1..B
        BY <1>1, <2>4 DEF NameAt, FirstBlob, FirstEvent
      <3> QED BY <1>2, <1>6, <1>9, <2>1, <3>1
    <2>5. CASE j >= FirstEvent /\ j < FirstDecision
      <3>1. NameAt(j) = "events.jsonl"
        BY <1>1, <2>5 DEF NameAt, FirstBlob, FirstEvent, FirstDecision
      <3> QED BY <2>1, <2>2, <3>1
    <2>6. CASE j >= FirstDecision /\ j < FirstLedger
      <3>1. NameAt(j) = DecisionFiles[j - (9 + B + E)] /\ j - (9 + B + E) \in 1..D
        BY <1>1, <2>6 DEF NameAt, FirstBlob, FirstEvent, FirstDecision, FirstLedger
      <3> QED BY <1>3, <1>6, <1>9, <2>1, <3>1
    <2>7. CASE j >= FirstLedger
      <3>1. NameAt(j) = ClosingName(j - FirstLedger) /\ j - FirstLedger \in 0..3
        BY <1>1, <2>7 DEF NameAt, FirstBlob, FirstEvent, FirstDecision, FirstLedger, Last
      <3>2. j - FirstLedger < i - FirstLedger
        BY <1>1 DEF FirstLedger
      <3>3. \A k, l \in 0..3 : k < l => ClosingName(k) # ClosingName(l)
        BY DEF ClosingName
      <3> QED BY <2>1, <3>1, <3>2, <3>3
    <2> QED BY <2>3, <2>4, <2>5, <2>6, <2>7, <1>1 DEF FirstBlob, FirstEvent, FirstDecision, FirstLedger
  <1>14. i < FirstBlob \/ (i >= FirstBlob /\ i < FirstEvent)
           \/ (i >= FirstDecision /\ i < FirstLedger) \/ i >= FirstLedger
    <2>1. ~(i >= FirstEvent /\ i < FirstDecision)
      BY <1>1 DEF KindAt, FirstBlob, FirstEvent, FirstDecision
    <2> QED BY <2>1, <1>1 DEF FirstBlob, FirstEvent, FirstDecision, FirstLedger
  <1> QED BY <1>10, <1>11, <1>12, <1>13, <1>14

-----------------------------------------------------------------------------
(* Where a step of the writer leaves it. *)

(* A writer at work is at an operation of the script. *)
LEMMA AtWork ==
  ASSUME IInv, Writing
  PROVE  /\ at \in 1..Last /\ Kind = KindAt(at) /\ Name = NameAt(at) /\ op.kind = Kind /\ op.name = Name
         /\ state = "writing" /\ powered = TRUE /\ Len(Script) = Last
  <1>1. at \in 1..(Last + 1) /\ at # Last + 1 /\ state = "writing" /\ powered = TRUE
    BY DEF IInv, ControlHolds, Writing
  <1>2. at \in 1..Last /\ at <= Last
    BY <1>1, LengthsAreNat DEF Last
  <1>3. Script[at].kind = KindAt(at) /\ Script[at].name = NameAt(at)
    BY <1>2, OpIs
  <1>4. Kind = op.kind /\ Name = op.name /\ op = Script[at]
    BY <1>2 DEF Kind, Name, op
  <1> QED BY <1>1, <1>2, <1>3, <1>4, ScriptIs

LEMMA KindsAre ==
  ASSUME NEW i \in 1..Last
  PROVE  /\ KindAt(i) = "dir" <=> i <= 4
         /\ KindAt(i) = "sync_dirs" <=> i = 5
         /\ KindAt(i) = "event" <=> FirstEvent <= i /\ i < FirstDecision
         /\ KindAt(i) = "decision" <=> FirstDecision <= i /\ i < FirstLedger
         /\ KindAt(i) = "file" <=> (6 <= i /\ i < FirstEvent) \/ FirstLedger <= i
  BY LengthsAreNat DEF KindAt, FirstEvent, FirstDecision, FirstLedger, Last

(* Going on within an operation. *)
LEMMA StepStays ==
  ASSUME IInv, Writing, NEW next, Step(next), next \in StepsOf(Kind),
         at = FirstLedger => ledgers_agree
  PROVE  /\ ControlHolds' /\ Kind' = Kind /\ Name' = Name /\ Before' = Before
         /\ at' = at /\ step' = next /\ powered' = powered
         /\ EventsDone' = EventsDone /\ DecisionsDone' = DecisionsDone
  <1>1. step' = next /\ state' = state /\ at' = at /\ ledgers_agree' = ledgers_agree /\ powered' = powered
    BY DEF Step
  <1>2. Kind' = Kind /\ Name' = Name /\ Before' = Before
    BY <1>1 DEF Kind, Name, Before, op
  <1>3. EventsDone' = EventsDone /\ DecisionsDone' = DecisionsDone
    BY <1>1 DEF EventsDone, DecisionsDone
  <1>4. ControlHolds'
    BY <1>1, <1>2 DEF IInv, ControlHolds, StepsOf
  <1> QED BY <1>1, <1>2, <1>3, <1>4

(* Going on to the next operation. *)
LEMMA DoneMoves ==
  ASSUME IInv, Writing, Done, at = FirstLedger => ledgers_agree
  PROVE  /\ ControlHolds' /\ at' = at + 1 /\ step' = "start" /\ powered' = powered
         /\ Before' = Before \cup {Name} /\ Placed' = {}
         /\ Recorded' = 0 /\ Linked' = 0
         /\ EventsDone' = EventsDone + (IF Kind = "event" THEN 1 ELSE 0)
         /\ DecisionsDone' = DecisionsDone + (IF Kind = "decision" THEN 1 ELSE 0)
  <1>1. /\ at' = at + 1 /\ step' = "start" /\ powered' = powered /\ ledgers_agree' = ledgers_agree
        /\ state' = IF at = Len(Script) THEN "sealed" ELSE state
    BY DEF Done
  <1>2. at \in 1..Last /\ Name = Script[at].name /\ state = "writing" /\ Len(Script) = Last
    BY AtWork DEF op
  <1>3. B \in Nat /\ E \in Nat /\ D \in Nat
    BY LengthsAreNat
  <1>4. "start" \in StepsOf(Kind')
    BY DEF StepsOf
  <1>5. ControlHolds'
    <2>1. at' \in 1..(Last + 1)
      BY <1>1, <1>2, <1>3 DEF Last
    <2>2. state' = "sealed" <=> at' = Last + 1
      BY <1>1, <1>2, <1>3 DEF Last
    <2>3. state' \in {"writing", "sealed", "failed", "killed"} /\ powered' \in BOOLEAN
      BY <1>1, <1>2 DEF IInv, ControlHolds
    <2>4. at' > FirstLedger \/ (at' = FirstLedger /\ step' # "start") => ledgers_agree'
      BY <1>1, <1>2, <1>3 DEF IInv, ControlHolds, FirstLedger, Last
    <2> QED BY <1>1, <1>4, <2>1, <2>2, <2>3, <2>4 DEF ControlHolds
  <1>6. Before' = Before \cup {Name}
    <2>1. Before' = {Script[i].name : i \in 1..at}
      BY <1>1, <1>2 DEF Before
    <2>2. 1..at = (1..(at - 1)) \cup {at}
      BY <1>2
    <2> QED BY <1>2, <2>1, <2>2 DEF Before
  <1>7. Placed' = {} /\ Recorded' = 0 /\ Linked' = 0
    BY <1>1 DEF Placed, Recorded, Linked, Linking
  <1>8. /\ Kind = "event" <=> FirstEvent <= at /\ at < FirstDecision
        /\ Kind = "decision" <=> FirstDecision <= at /\ at < FirstLedger
    BY <1>2, AtWork, KindsAre
  <1>9. EventsDone' = EventsDone + (IF Kind = "event" THEN 1 ELSE 0)
    BY <1>1, <1>2, <1>3, <1>8 DEF EventsDone, Clamp, FirstEvent, FirstDecision
  <1>10. DecisionsDone' = DecisionsDone + (IF Kind = "decision" THEN 1 ELSE 0)
    BY <1>1, <1>2, <1>3, <1>8 DEF DecisionsDone, Clamp, FirstLedger, FirstDecision
  <1> QED BY <1>1, <1>5, <1>6, <1>7, <1>9, <1>10

(* How far the streams are. *)
LEMMA Counts ==
  ASSUME IInv
  PROVE  /\ EventsDone \in 0..E /\ DecisionsDone \in 0..D
         /\ at <= FirstEvent => EventsDone = 0
         /\ at <= FirstDecision => DecisionsDone = 0
         /\ at >= FirstDecision => EventsDone = E
         /\ at >= FirstLedger => DecisionsDone = D
         /\ Kind = "event" => EventsDone < E /\ DecisionsDone = 0
         /\ Kind = "decision" => EventsDone = E /\ DecisionsDone < D
  <1>1. B \in Nat /\ E \in Nat /\ D \in Nat
    BY LengthsAreNat
  <1>2. at \in 1..(Last + 1)
    BY DEF IInv, ControlHolds
  <1>3. EventsDone \in 0..E /\ (at <= FirstEvent => EventsDone = 0) /\ (at >= FirstDecision => EventsDone = E)
    BY <1>1, <1>2 DEF EventsDone, Clamp, FirstEvent, FirstDecision
  <1>4. /\ DecisionsDone \in 0..D /\ (at <= FirstDecision => DecisionsDone = 0)
        /\ (at >= FirstLedger => DecisionsDone = D)
    BY <1>1, <1>2 DEF DecisionsDone, Clamp, FirstLedger, FirstDecision
  <1>5. ASSUME at <= Last
        PROVE  /\ Kind = "event" <=> FirstEvent <= at /\ at < FirstDecision
               /\ Kind = "decision" <=> FirstDecision <= at /\ at < FirstLedger
    <2>1. at \in 1..Last
      BY <1>1, <1>2, <1>5 DEF Last
    <2>2. Kind = KindAt(at)
      BY <1>5, <2>1, OpIs DEF Kind, op
    <2> QED BY <2>1, <2>2, KindsAre
  <1>6. Kind \in {"event", "decision"} => at <= Last
    BY DEF Kind
  <1>7. Kind = "event" => EventsDone < E /\ DecisionsDone = 0
    <2>1. Kind = "event" => FirstEvent <= at /\ at < FirstDecision
      BY <1>5, <1>6
    <2>2. FirstEvent <= at /\ at < FirstDecision => EventsDone < E
      BY <1>1, <1>2 DEF EventsDone, Clamp, FirstEvent, FirstDecision
    <2>3. at < FirstDecision => at <= FirstDecision
      BY <1>1, <1>2 DEF FirstDecision
    <2> QED BY <1>4, <2>1, <2>2, <2>3
  <1>8. Kind = "decision" => EventsDone = E /\ DecisionsDone < D
    <2>1. Kind = "decision" => FirstDecision <= at /\ at < FirstLedger
      BY <1>5, <1>6
    <2>2. FirstDecision <= at /\ at < FirstLedger => DecisionsDone < D
      BY <1>1, <1>2 DEF DecisionsDone, Clamp, FirstLedger, FirstDecision
    <2>3. at >= FirstDecision <=> FirstDecision <= at
      BY <1>1, <1>2 DEF FirstDecision
    <2> QED BY <1>3, <2>1, <2>2, <2>3
  <1> QED BY <1>3, <1>4, <1>7, <1>8

LEMMA BeforeHas ==
  ASSUME IInv
  PROVE  /\ \A i \in 1..(at - 1) : NameAt(i) \in Before
         /\ \A name \in Before : \E i \in 1..(at - 1) : i \in 1..Last /\ name = NameAt(i)
  <1>1. \A i \in 1..(at - 1) : i \in 1..Last
    BY LengthsAreNat DEF IInv, ControlHolds, Last
  <1>2. \A i \in 1..(at - 1) : Script[i].name = NameAt(i)
    BY <1>1, OpIs
  <1> QED BY <1>1, <1>2 DEF Before

(* A file is installed under a name not used before it. *)
LEMMA NameIsNew ==
  ASSUME IInv, Writing, Kind \in {"file", "decision"}
  PROVE  Name \notin Before
  <1>1. at \in 1..Last /\ KindAt(at) \in {"file", "decision"} /\ Name = NameAt(at)
    BY AtWork
  <1>2. \A i \in 1..(at - 1) : i < at
    BY <1>1
  <1>3. \A i \in 1..(at - 1) : i \in 1..Last => NameAt(i) # NameAt(at)
    BY <1>1, <1>2, NamesAreNew
  <1> QED BY <1>1, <1>3, BeforeHas

(* The record of an event goes to a file created long before. *)
LEMMA EventsLog ==
  ASSUME IInv, Writing, Kind = "event"
  PROVE  Name \in Before /\ at > 9
  <1>1. at \in 1..Last /\ KindAt(at) = "event" /\ Name = NameAt(at)
    BY AtWork
  <1>2. FirstEvent <= at /\ at < FirstDecision
    BY <1>1, KindsAre
  <1>3. 8 \in 1..(at - 1) /\ at > 9
    BY <1>1, <1>2, LengthsAreNat DEF FirstEvent
  <1>4. NameAt(8) = "events.jsonl" /\ NameAt(at) = "events.jsonl"
    BY <1>1, <1>2, LengthsAreNat DEF NameAt, CreatedName, FirstBlob, FirstEvent, FirstDecision
  <1> QED BY <1>1, <1>3, <1>4, BeforeHas

-----------------------------------------------------------------------------
(* The invariant is inductive. *)

LEMMA InitHolds == Init => IInv
  <1> SUFFICES ASSUME Init PROVE IInv
    OBVIOUS
  <1>1. B \in Nat /\ E \in Nat /\ D \in Nat
    BY LengthsAreNat
  <1>2. at = 1 /\ step = "start" /\ state = "writing" /\ powered = TRUE
    BY DEF Init
  <1>3. Before = {} /\ Placed = {} /\ Recorded = 0 /\ Linked = 0
    BY <1>2 DEF Before, Placed, Recorded, Linked, Linking
  <1>4. EventsDone = 0 /\ DecisionsDone = 0
    BY <1>1, <1>2 DEF EventsDone, DecisionsDone, Clamp, FirstEvent, FirstDecision
  <1>5. ControlHolds
    BY <1>1, <1>2 DEF ControlHolds, StepsOf, FirstLedger, Last
  <1>6. FilesHold
    BY <1>2, <1>3 DEF FilesHold, Init, Linking
  <1>7. LogsHold
    BY <1>2, <1>3, <1>4 DEF LogsHold, Init, Linking
  <1> QED BY <1>5, <1>6, <1>7 DEF IInv

(* What a step on the files leaves alone. *)
LEMMA LogsKept ==
  ASSUME IInv, Writing, UNCHANGED log_vars, powered' = powered,
         EventsDone' = EventsDone, DecisionsDone' = DecisionsDone,
         step \in {"start", "temp", "written", "replaced"},
         \/ step' \in {"start", "temp", "written", "replaced"}
         \/ step' = "recorded" /\ Kind' = "decision"
  PROVE  LogsHold'
  <1>1. LogsHold /\ powered = TRUE
    BY AtWork DEF IInv
  <1>2. Recorded = 0 /\ Linked = 0 /\ Recorded' = 0 /\ Linked' = 0
    BY DEF Recorded, Linked, Linking
  <1>3. /\ events' = events /\ events_safe' = events_safe /\ links' = links
        /\ links_safe' = links_safe /\ torn' = torn /\ torn = {}
    BY <1>1 DEF log_vars, LogsHold
  <1> QED BY <1>1, <1>2, <1>3 DEF LogsHold, Linking

(* What is there before and after an operation on a file. *)
LEMMA FileSteps ==
  ASSUME IInv, Writing
  PROVE  /\ Kind \in {"dir", "sync_dirs"} => step = "start"
         /\ Kind = "file" => step \in {"start", "temp", "written", "replaced"}
         /\ step \in {"temp", "written", "replaced"} => Kind \in {"file", "decision"}
         /\ present = Before \cup Placed
         /\ temps = IF step \in {"temp", "written"} THEN {Name} ELSE {}
         /\ at = FirstLedger /\ step # "start" => ledgers_agree
         /\ at = FirstLedger => Kind = "file"
         /\ EventsDone \in Nat /\ DecisionsDone \in Nat
  <1>1. step \in StepsOf(Kind) /\ (at = FirstLedger /\ step # "start" => ledgers_agree)
    BY DEF IInv, ControlHolds
  <1>2. Kind \in {"dir", "sync_dirs"} => step = "start"
    BY <1>1 DEF StepsOf
  <1>3. Kind = "file" => step \in {"start", "temp", "written", "replaced"}
    BY <1>1 DEF StepsOf
  <1>4. step \in {"temp", "written", "replaced"} => Kind \in {"file", "decision"}
    BY <1>1 DEF StepsOf
  <1>5. powered = TRUE /\ FilesHold
    BY AtWork DEF IInv
  <1>6. present = Before \cup Placed /\ temps = IF step \in {"temp", "written"} THEN {Name} ELSE {}
    BY <1>5 DEF FilesHold
  <1>7. at = FirstLedger => Kind = "file"
    <2>1. at \in 1..Last /\ Kind = KindAt(at)
      BY AtWork
    <2> QED BY <2>1, KindsAre
  <1>8. EventsDone \in Nat /\ DecisionsDone \in Nat
    BY Counts, LengthsAreNat
  <1> QED BY <1>1, <1>2, <1>3, <1>4, <1>6, <1>7, <1>8

LEMMA FileDone ==
  ASSUME IInv, Writing, Done, at = FirstLedger => ledgers_agree, Kind \in {"dir", "sync_dirs", "file"}
  PROVE  /\ ControlHolds' /\ at' = at + 1 /\ step' = "start" /\ powered' = powered
         /\ Before' = Before \cup {Name} /\ Placed' = {}
         /\ EventsDone' = EventsDone /\ DecisionsDone' = DecisionsDone
  <1>1. /\ ControlHolds' /\ at' = at + 1 /\ step' = "start" /\ powered' = powered
        /\ Before' = Before \cup {Name} /\ Placed' = {}
    BY DoneMoves
  <1>2. /\ EventsDone' = EventsDone + (IF Kind = "event" THEN 1 ELSE 0)
        /\ DecisionsDone' = DecisionsDone + (IF Kind = "decision" THEN 1 ELSE 0)
    BY DoneMoves
  <1>3. EventsDone \in Nat /\ DecisionsDone \in Nat
    BY FileSteps
  <1>4. EventsDone' = EventsDone /\ DecisionsDone' = DecisionsDone
    BY <1>2, <1>3
  <1> QED BY <1>1, <1>4

LEMMA MakeDirHolds == IInv /\ MakeDir => IInv'
  <1> SUFFICES ASSUME IInv, MakeDir PROVE IInv'
    OBVIOUS
  <1>1. /\ at \in 1..Last /\ Kind = "dir" /\ at <= 4 /\ Writing /\ op.name = Name /\ powered = TRUE
    BY AtWork, KindsAre DEF MakeDir
  <1>2. step = "start" /\ Placed = {} /\ temps = {} /\ present = Before /\ ~(at = FirstLedger)
    <2>1. step = "start" /\ present = Before \cup Placed /\ ~(at = FirstLedger)
      BY <1>1, FileSteps
    <2>2. Placed = {}
      BY <2>1 DEF Placed, Linking
    <2> QED BY <1>1, <2>1, <2>2, FileSteps
  <1>3. Done /\ UNCHANGED log_vars
    BY DEF MakeDir
  <1>4. /\ ControlHolds' /\ at' = at + 1 /\ step' = "start" /\ powered' = powered
        /\ Before' = Before \cup {Name} /\ Placed' = {}
        /\ EventsDone' = EventsDone /\ DecisionsDone' = DecisionsDone
    BY <1>1, <1>2, <1>3, FileDone
  <1>5. /\ present' = present \cup {Name} /\ solid' = solid \cup {Name}
        /\ durable' = durable /\ temps' = temps /\ spoiled' = spoiled
    BY <1>1 DEF MakeDir
  <1>6. FilesHold'
    BY <1>1, <1>2, <1>4, <1>5 DEF IInv, FilesHold, Linking
  <1>7. LogsHold'
    BY <1>1, <1>2, <1>3, <1>4, LogsKept
  <1> QED BY <1>4, <1>6, <1>7 DEF IInv

LEMMA SyncDirsHolds == IInv /\ SyncDirs => IInv'
  <1> SUFFICES ASSUME IInv, SyncDirs PROVE IInv'
    OBVIOUS
  <1>1. /\ at \in 1..Last /\ Kind = "sync_dirs" /\ at = 5 /\ Writing /\ Name = NameAt(at) /\ powered = TRUE
    BY AtWork, KindsAre DEF SyncDirs
  <1>2. step = "start" /\ Placed = {} /\ temps = {} /\ present = Before /\ ~(at = FirstLedger)
    <2>1. step = "start" /\ present = Before \cup Placed /\ ~(at = FirstLedger)
      BY <1>1, FileSteps
    <2>2. Placed = {}
      BY <2>1 DEF Placed, Linking
    <2> QED BY <1>1, <2>1, <2>2, FileSteps
  <1>3. Done /\ UNCHANGED log_vars
    BY DEF SyncDirs
  <1>4. /\ ControlHolds' /\ at' = at + 1 /\ step' = "start" /\ powered' = powered
        /\ Before' = Before \cup {Name} /\ Placed' = {}
        /\ EventsDone' = EventsDone /\ DecisionsDone' = DecisionsDone
    BY <1>1, <1>2, <1>3, FileDone
  <1>5. Name \in Before
    <2>1. NameAt(5) = NameAt(1)
      BY LengthsAreNat DEF NameAt, CreatedName, FirstBlob
    <2>2. 1 \in 1..(at - 1)
      BY <1>1
    <2> QED BY <1>1, <2>1, <2>2, BeforeHas
  <1>6. /\ durable' = durable \cup present
        /\ present' = present /\ solid' = solid /\ temps' = temps /\ spoiled' = spoiled
    BY DEF SyncDirs
  <1>7. FilesHold'
    BY <1>1, <1>2, <1>4, <1>5, <1>6 DEF IInv, FilesHold, Linking
  <1>8. LogsHold'
    BY <1>1, <1>2, <1>3, <1>4, LogsKept
  <1> QED BY <1>4, <1>7, <1>8 DEF IInv

(* The ledgers are written only if they agree. *)
LEMMA FirstLedgerIs ==
  ASSUME IInv, Writing
  PROVE  at = FirstLedger <=> op.name = "ledger.jsonl"
  <1>1. at \in 1..Last /\ op.name = NameAt(at)
    BY AtWork
  <1>2. FirstLedger \in 1..Last /\ NameAt(FirstLedger) = "ledger.jsonl"
    BY LengthsAreNat DEF FirstLedger, Last, NameAt, FirstBlob, FirstEvent, FirstDecision, ClosingName
  <1>3. KindAt(FirstLedger) = "file"
    BY <1>2, KindsAre
  <1>4. at < FirstLedger => NameAt(at) # NameAt(FirstLedger)
    BY <1>1, <1>2, <1>3, NamesAreNew
  <1>5. at > FirstLedger => NameAt(FirstLedger) # NameAt(at)
    <2>1. at > FirstLedger => KindAt(at) = "file" /\ FirstLedger < at
      BY <1>1, <1>2, KindsAre, LengthsAreNat DEF FirstLedger
    <2> QED BY <1>1, <1>2, <2>1, NamesAreNew
  <1>6. at < FirstLedger \/ at = FirstLedger \/ at > FirstLedger
    BY <1>1, <1>2
  <1> QED BY <1>1, <1>2, <1>4, <1>5, <1>6

LEMMA OpenTempHolds == IInv /\ OpenTemp => IInv'
  <1> SUFFICES ASSUME IInv, OpenTemp PROVE IInv'
    OBVIOUS
  <1>1. /\ at \in 1..Last /\ Kind \in {"file", "decision"} /\ Writing /\ op.name = Name
        /\ step = "start" /\ powered = TRUE
    BY AtWork DEF OpenTemp, InstallsFile
  <1>2. at = FirstLedger => ledgers_agree
    BY <1>1, FirstLedgerIs DEF OpenTemp, InstallsFile, Refused
  <1>3. Placed = {} /\ temps = {} /\ present = Before
    BY <1>1 DEF IInv, FilesHold, Placed, Linking
  <1>4. "temp" \in StepsOf(Kind) /\ Step("temp") /\ UNCHANGED log_vars
    BY <1>1 DEF StepsOf, OpenTemp
  <1>5. /\ ControlHolds' /\ Kind' = Kind /\ Name' = Name /\ Before' = Before
        /\ at' = at /\ step' = "temp" /\ powered' = powered
        /\ EventsDone' = EventsDone /\ DecisionsDone' = DecisionsDone
    BY <1>1, <1>2, <1>4, StepStays
  <1>6. Placed' = {}
    BY <1>5 DEF Placed, Linking
  <1>7. Name \notin Before
    BY <1>1, NameIsNew
  <1>8. /\ temps' = {Name} /\ present' = present /\ durable' = durable /\ solid' = solid
        /\ spoiled' = spoiled
    BY <1>1, <1>3 DEF OpenTemp
  <1>9. at <= Last
    BY <1>1
  <1>10. FilesHold'
    BY <1>1, <1>3, <1>5, <1>6, <1>7, <1>8, <1>9 DEF IInv, FilesHold, Linking
  <1>11. LogsHold'
    BY <1>1, <1>4, <1>5, LogsKept
  <1> QED BY <1>5, <1>10, <1>11 DEF IInv

LEMMA SyncTempHolds == IInv /\ SyncTemp => IInv'
  <1> SUFFICES ASSUME IInv, SyncTemp PROVE IInv'
    OBVIOUS
  <1>1. /\ at \in 1..Last /\ Writing /\ op.name = Name /\ step = "temp" /\ powered = TRUE
    BY AtWork DEF SyncTemp
  <1>2. Kind \in {"file", "decision"} /\ temps = {Name} /\ (at = FirstLedger => ledgers_agree)
    BY <1>1, FileSteps
  <1>3. Placed = {} /\ present = Before
    BY <1>1, FileSteps DEF Placed, Linking
  <1>4. "written" \in StepsOf(Kind) /\ Step("written") /\ UNCHANGED log_vars
    BY <1>2 DEF StepsOf, SyncTemp
  <1>5. /\ ControlHolds' /\ Kind' = Kind /\ Name' = Name /\ Before' = Before
        /\ at' = at /\ step' = "written" /\ powered' = powered
        /\ EventsDone' = EventsDone /\ DecisionsDone' = DecisionsDone
    BY <1>1, <1>2, <1>4, StepStays
  <1>6. Placed' = {}
    BY <1>5 DEF Placed, Linking
  <1>7. /\ temps' = temps /\ present' = present /\ durable' = durable /\ solid' = solid \cup {Name}
        /\ spoiled' = spoiled
    BY <1>1 DEF SyncTemp
  <1>8. FilesHold'
    BY <1>1, <1>2, <1>3, <1>5, <1>6, <1>7 DEF IInv, FilesHold, Linking
  <1>9. LogsHold'
    BY <1>1, <1>4, <1>5, LogsKept
  <1> QED BY <1>5, <1>8, <1>9 DEF IInv

LEMMA ReplaceHolds == IInv /\ Replace => IInv'
  <1> SUFFICES ASSUME IInv, Replace PROVE IInv'
    OBVIOUS
  <1>1. /\ at \in 1..Last /\ Writing /\ op.name = Name /\ step = "written" /\ powered = TRUE
    BY AtWork DEF Replace
  <1>2. Kind \in {"file", "decision"} /\ temps = {Name} /\ (at = FirstLedger => ledgers_agree)
    BY <1>1, FileSteps
  <1>3. Placed = {} /\ present = Before
    BY <1>1, FileSteps DEF Placed, Linking
  <1>4. "replaced" \in StepsOf(Kind) /\ Step("replaced") /\ UNCHANGED log_vars
    BY <1>2 DEF StepsOf, Replace
  <1>5. /\ ControlHolds' /\ Kind' = Kind /\ Name' = Name /\ Before' = Before
        /\ at' = at /\ step' = "replaced" /\ powered' = powered
        /\ EventsDone' = EventsDone /\ DecisionsDone' = DecisionsDone
    BY <1>1, <1>2, <1>4, StepStays
  <1>6. Placed' = {Name}
    BY <1>5 DEF Placed, Linking
  <1>7. /\ temps' = {} /\ present' = present \cup {Name} /\ durable' = durable /\ solid' = solid
        /\ spoiled' = spoiled
    BY <1>1, <1>2 DEF Replace
  <1>8. Name \in solid
    BY <1>1 DEF IInv, FilesHold
  <1>9. FilesHold'
    BY <1>1, <1>2, <1>3, <1>5, <1>6, <1>7, <1>8 DEF IInv, FilesHold, Linking
  <1>10. LogsHold'
    BY <1>1, <1>4, <1>5, LogsKept
  <1> QED BY <1>5, <1>9, <1>10 DEF IInv

LEMMA SyncDirHolds == IInv /\ SyncDir => IInv'
  <1> SUFFICES ASSUME IInv, SyncDir PROVE IInv'
    OBVIOUS
  <1>1. /\ at \in 1..Last /\ Writing /\ op.name = Name /\ op.kind = Kind /\ step = "replaced"
        /\ powered = TRUE
    BY AtWork DEF SyncDir
  <1>2. Kind \in {"file", "decision"} /\ temps = {} /\ (at = FirstLedger => ledgers_agree)
    BY <1>1, FileSteps
  <1>3. Placed = {Name} /\ present = Before \cup {Name}
    BY <1>1, FileSteps DEF Placed, Linking
  <1>4. /\ temps' = temps /\ present' = present /\ durable' = durable \cup {Name} /\ solid' = solid
        /\ spoiled' = spoiled /\ UNCHANGED log_vars
    BY <1>1 DEF SyncDir
  <1>5. CASE Kind = "decision"
    <2>1. "recorded" \in StepsOf(Kind) /\ Step("recorded")
      BY <1>1, <1>5 DEF StepsOf, SyncDir
    <2>2. /\ ControlHolds' /\ Kind' = Kind /\ Name' = Name /\ Before' = Before
          /\ at' = at /\ step' = "recorded" /\ powered' = powered
          /\ EventsDone' = EventsDone /\ DecisionsDone' = DecisionsDone
      BY <1>1, <1>2, <2>1, StepStays
    <2>3. Placed' = {Name}
      BY <2>2 DEF Placed, Linking
    <2>4. FilesHold'
      BY <1>1, <1>2, <1>3, <1>4, <2>2, <2>3 DEF IInv, FilesHold, Linking
    <2>5. LogsHold'
      BY <1>1, <1>4, <1>5, <2>2, LogsKept
    <2> QED BY <2>2, <2>4, <2>5 DEF IInv
  <1>6. CASE Kind = "file"
    <2>1. Done
      BY <1>1, <1>6 DEF SyncDir
    <2>2. /\ ControlHolds' /\ at' = at + 1 /\ step' = "start" /\ powered' = powered
          /\ Before' = Before \cup {Name} /\ Placed' = {}
          /\ EventsDone' = EventsDone /\ DecisionsDone' = DecisionsDone
      BY <1>1, <1>2, <1>6, <2>1, FileDone
    <2>3. FilesHold'
      <3>1. at \in Nat /\ at # 5
        <4>1. KindAt(at) = "file" /\ at \in 1..Last
          BY <1>1, <1>6, AtWork
        <4> QED BY <4>1, KindsAre, LengthsAreNat DEF Last, FirstLedger
      <3> QED BY <1>1, <1>2, <1>3, <1>4, <2>2, <3>1 DEF IInv, FilesHold, Linking
    <2>4. LogsHold'
      BY <1>1, <1>4, <2>2, LogsKept
    <2> QED BY <2>2, <2>3, <2>4 DEF IInv
  <1> QED BY <1>2, <1>5, <1>6

(* A run that ends leaves everything as it is. *)
LEMMA EndsHold == IInv /\ (RefuseLedgers \/ Stop) => IInv'
  <1> SUFFICES ASSUME IInv, RefuseLedgers \/ Stop PROVE IInv'
    OBVIOUS
  <1>1. Writing /\ state' \in {"failed", "killed"}
        /\ UNCHANGED <<at, step, ledgers_agree, powered, file_vars, log_vars>>
    BY DEF RefuseLedgers, Stop
  <1>2. at # Last + 1
    BY <1>1 DEF IInv, ControlHolds, Writing
  <1>3. Kind' = Kind /\ Name' = Name /\ Before' = Before
    BY <1>1 DEF Kind, Name, Before, op
  <1>4. /\ EventsDone' = EventsDone /\ DecisionsDone' = DecisionsDone
        /\ Placed' = Placed /\ Recorded' = Recorded /\ Linked' = Linked
    BY <1>1, <1>3 DEF EventsDone, DecisionsDone, Placed, Recorded, Linked
  <1>5. ControlHolds'
    BY <1>1, <1>2, <1>3 DEF IInv, ControlHolds
  <1>6. FilesHold'
    BY <1>1, <1>3, <1>4 DEF IInv, FilesHold, file_vars
  <1>7. LogsHold'
    BY <1>1, <1>3, <1>4 DEF IInv, LogsHold, log_vars
  <1> QED BY <1>5, <1>6, <1>7 DEF IInv

(* A step on a stream leaves the files alone. *)
LEMMA FilesKept ==
  ASSUME IInv, Writing, UNCHANGED file_vars, Kind \in {"event", "decision"},
         step \notin {"temp", "written", "replaced"}, step # "start" \/ Kind = "event",
         powered' = powered,
         \/ /\ at' = at /\ Name' = Name /\ Before' = Before
            /\ step' \in Linking => step \in Linking \/ Kind = "event"
            /\ step \in Linking => step' \in Linking
            /\ step' \notin {"temp", "written", "replaced"}
         \/ /\ at' = at + 1 /\ Before' = Before \cup {Name} /\ step' = "start"
            /\ step \in Linking
  PROVE  FilesHold'
  <1>1. /\ FilesHold /\ powered = TRUE /\ at \in 1..Last /\ at <= Last
    BY AtWork DEF IInv
  <1>2. at > 5
    <2>1. KindAt(at) \in {"event", "decision"}
      BY AtWork
    <2> QED BY <1>1, <2>1, KindsAre, LengthsAreNat DEF FirstEvent, FirstDecision
  <1>3. Placed \subseteq Before \cup {Name} /\ (step \in Linking => Name \in durable)
        /\ present = Before \cup Placed /\ temps = {}
    BY <1>1, FileSteps DEF FilesHold, Placed
  <1>4. Kind = "event" => Name \in Before /\ Name \in durable
    BY <1>1, <1>2, EventsLog DEF FilesHold
  <1>5. step \in Linking => present = Before \cup {Name}
    BY <1>3 DEF Placed
  <1>6. Kind = "event" => present = Before
    BY <1>3, <1>4
  <1>7. /\ present' = present /\ durable' = durable /\ temps' = temps /\ solid' = solid
        /\ spoiled' = spoiled
    BY DEF file_vars
  <1>8. Kind = "event" \/ step \in Linking
    <2>1. step \in StepsOf(Kind)
      BY DEF IInv, ControlHolds
    <2> QED BY <2>1 DEF StepsOf, Linking
  <1>9. CASE at' = at + 1 /\ Before' = Before \cup {Name} /\ step' = "start" /\ step \in Linking
    <2>1. Placed' = {}
      BY <1>9 DEF Placed, Linking
    <2> QED BY <1>1, <1>2, <1>3, <1>5, <1>7, <1>9, <2>1 DEF FilesHold, Linking
  <1>10. CASE /\ at' = at /\ Name' = Name /\ Before' = Before
              /\ step' \in Linking => step \in Linking \/ Kind = "event"
              /\ step \in Linking => step' \in Linking
              /\ step' \notin {"temp", "written", "replaced"}
    <2>1. Placed' = IF step' \in Linking THEN {Name} ELSE {}
      BY <1>10 DEF Placed
    <2>2. present = Before \cup Placed'
      BY <1>3, <1>4, <1>5, <1>6, <1>8, <1>10, <2>1
    <2>3. step' \in Linking => Name \in durable
      BY <1>3, <1>4, <1>10
    <2> QED BY <1>1, <1>2, <1>3, <1>7, <1>10, <2>2, <2>3 DEF FilesHold
  <1> QED BY <1>9, <1>10

LEMMA BeginRecordHolds == IInv /\ BeginRecord => IInv'
  <1> SUFFICES ASSUME IInv, BeginRecord PROVE IInv'
    OBVIOUS
  <1>1. /\ Writing /\ Kind = "event" /\ step = "start" /\ powered = TRUE /\ Step("torn_record")
    BY AtWork DEF BeginRecord
  <1>2. ~(at = FirstLedger) /\ "torn_record" \in StepsOf(Kind)
    BY <1>1, FileSteps DEF StepsOf
  <1>3. /\ ControlHolds' /\ Kind' = Kind /\ Name' = Name /\ Before' = Before
        /\ at' = at /\ step' = "torn_record" /\ powered' = powered
        /\ EventsDone' = EventsDone /\ DecisionsDone' = DecisionsDone
    BY <1>1, <1>2, StepStays
  <1>4. FilesHold'
    BY <1>1, <1>3, FilesKept DEF BeginRecord, Linking
  <1>5. Recorded = 0 /\ Linked = 0 /\ Recorded' = 0 /\ Linked' = 0
    BY <1>1, <1>3 DEF Recorded, Linked, Linking
  <1>6. /\ events' = events /\ events_safe' = events_safe /\ links' = links /\ links_safe' = links_safe
        /\ torn' = {"events.jsonl"}
    BY <1>1 DEF BeginRecord, IInv, LogsHold
  <1>7. LogsHold'
    BY <1>1, <1>3, <1>5, <1>6 DEF IInv, LogsHold, Linking
  <1> QED BY <1>3, <1>4, <1>7 DEF IInv

LEMMA EndRecordHolds == IInv /\ EndRecord => IInv'
  <1> SUFFICES ASSUME IInv, EndRecord PROVE IInv'
    OBVIOUS
  <1>1. /\ Writing /\ step = "torn_record" /\ powered = TRUE /\ Step("record")
    BY AtWork DEF EndRecord
  <1>2. Kind = "event" /\ "record" \in StepsOf(Kind)
    BY <1>1 DEF IInv, ControlHolds, StepsOf
  <1>3. ~(at = FirstLedger)
    BY <1>1, <1>2, FileSteps
  <1>4. /\ ControlHolds' /\ Kind' = Kind /\ Name' = Name /\ Before' = Before
        /\ at' = at /\ step' = "record" /\ powered' = powered
        /\ EventsDone' = EventsDone /\ DecisionsDone' = DecisionsDone
    BY <1>1, <1>2, <1>3, StepStays
  <1>5. FilesHold'
    BY <1>1, <1>2, <1>4, FilesKept DEF EndRecord, Linking
  <1>6. Recorded = 0 /\ Linked = 0 /\ Recorded' = 1 /\ Linked' = 0
    BY <1>1, <1>2, <1>4 DEF Recorded, Linked, Linking
  <1>7. /\ events' = events + 1 /\ events_safe' = events_safe /\ links' = links
        /\ links_safe' = links_safe /\ torn' = {}
    BY <1>1 DEF EndRecord, IInv, LogsHold
  <1>8. EventsDone \in Nat /\ DecisionsDone \in Nat
    BY <1>1, FileSteps
  <1>9. LogsHold'
    BY <1>1, <1>4, <1>6, <1>7, <1>8 DEF IInv, LogsHold, Linking
  <1> QED BY <1>4, <1>5, <1>9 DEF IInv

LEMMA SyncRecordHolds == IInv /\ SyncRecord => IInv'
  <1> SUFFICES ASSUME IInv, SyncRecord PROVE IInv'
    OBVIOUS
  <1>1. /\ Writing /\ step = "record" /\ powered = TRUE /\ Step("recorded")
    BY AtWork DEF SyncRecord
  <1>2. Kind = "event" /\ "recorded" \in StepsOf(Kind)
    BY <1>1 DEF IInv, ControlHolds, StepsOf
  <1>3. ~(at = FirstLedger)
    BY <1>1, <1>2, FileSteps
  <1>4. /\ ControlHolds' /\ Kind' = Kind /\ Name' = Name /\ Before' = Before
        /\ at' = at /\ step' = "recorded" /\ powered' = powered
        /\ EventsDone' = EventsDone /\ DecisionsDone' = DecisionsDone
    BY <1>1, <1>2, <1>3, StepStays
  <1>5. FilesHold'
    BY <1>1, <1>2, <1>4, FilesKept DEF SyncRecord, Linking
  <1>6. Recorded = 1 /\ Linked = 0 /\ Recorded' = 1 /\ Linked' = 0
    BY <1>1, <1>2, <1>4 DEF Recorded, Linked, Linking
  <1>7. /\ events' = events /\ events_safe' = events /\ links' = links
        /\ links_safe' = links_safe /\ torn' = {}
    BY <1>1 DEF SyncRecord, IInv, LogsHold
  <1>8. EventsDone \in Nat /\ DecisionsDone \in Nat
    BY <1>1, FileSteps
  <1>9. LogsHold'
    BY <1>1, <1>4, <1>6, <1>7, <1>8 DEF IInv, LogsHold, Linking
  <1> QED BY <1>4, <1>5, <1>9 DEF IInv

LEMMA BeginLinkHolds == IInv /\ BeginLink => IInv'
  <1> SUFFICES ASSUME IInv, BeginLink PROVE IInv'
    OBVIOUS
  <1>1. /\ Writing /\ step = "recorded" /\ powered = TRUE /\ Step("torn_link")
    BY AtWork DEF BeginLink
  <1>2. Kind \in {"event", "decision"} /\ "torn_link" \in StepsOf(Kind)
    BY <1>1 DEF IInv, ControlHolds, StepsOf
  <1>3. ~(at = FirstLedger)
    BY <1>1, <1>2, FileSteps
  <1>4. /\ ControlHolds' /\ Kind' = Kind /\ Name' = Name /\ Before' = Before
        /\ at' = at /\ step' = "torn_link" /\ powered' = powered
        /\ EventsDone' = EventsDone /\ DecisionsDone' = DecisionsDone
    BY <1>1, <1>2, <1>3, StepStays
  <1>5. FilesHold'
    BY <1>1, <1>2, <1>4, FilesKept DEF BeginLink, Linking
  <1>6. Recorded' = Recorded /\ Linked = 0 /\ Linked' = 0
    BY <1>1, <1>4 DEF Recorded, Linked, Linking
  <1>7. /\ events' = events /\ events_safe' = events_safe /\ links' = links
        /\ links_safe' = links_safe /\ torn' = {"chain.jsonl"}
    BY <1>1 DEF BeginLink, IInv, LogsHold
  <1>8. LogsHold'
    BY <1>1, <1>4, <1>6, <1>7 DEF IInv, LogsHold, Linking
  <1> QED BY <1>4, <1>5, <1>8 DEF IInv

LEMMA EndLinkHolds == IInv /\ EndLink => IInv'
  <1> SUFFICES ASSUME IInv, EndLink PROVE IInv'
    OBVIOUS
  <1>1. /\ Writing /\ step = "torn_link" /\ powered = TRUE /\ Step("link") /\ op.kind = Kind
    BY AtWork DEF EndLink
  <1>2. Kind \in {"event", "decision"} /\ "link" \in StepsOf(Kind)
    BY <1>1 DEF IInv, ControlHolds, StepsOf
  <1>3. ~(at = FirstLedger)
    BY <1>1, <1>2, FileSteps
  <1>4. /\ ControlHolds' /\ Kind' = Kind /\ Name' = Name /\ Before' = Before
        /\ at' = at /\ step' = "link" /\ powered' = powered
        /\ EventsDone' = EventsDone /\ DecisionsDone' = DecisionsDone
    BY <1>1, <1>2, <1>3, StepStays
  <1>5. FilesHold'
    BY <1>1, <1>2, <1>4, FilesKept DEF EndLink, Linking
  <1>6. Recorded' = Recorded /\ Linked = 0 /\ Linked' = 1
    BY <1>1, <1>4 DEF Recorded, Linked, Linking
  <1>7. LogsHold /\ B \in Nat /\ E \in Nat /\ D \in Nat /\ EventsDone \in Nat /\ DecisionsDone \in Nat
    BY <1>1, FileSteps, LengthsAreNat DEF IInv
  <1>8. PICK stream : stream = IF Kind = "event" THEN "events" ELSE "decisions"
    OBVIOUS
  <1>9. stream \in Streams
    BY <1>8 DEF Streams
  <1>10. /\ events' = events /\ events_safe' = events_safe /\ links' = Append(links, stream)
         /\ links_safe' = links_safe /\ torn' = {}
    BY <1>1, <1>7, <1>8 DEF EndLink, LogsHold
  <1>11. links \in Seq(Streams) /\ Len(links) = EventsDone + DecisionsDone /\ links_safe = Len(links)
    BY <1>1, <1>6, <1>7 DEF LogsHold
  <1>12. /\ links' \in Seq(Streams) /\ Len(links') = Len(links) + 1 /\ DOMAIN links' = 1..(Len(links) + 1)
         /\ links'[Len(links) + 1] = stream
         /\ \A i \in 1..Len(links) : links'[i] = links[i]
    BY <1>9, <1>10, <1>11, AppendProperties, LenProperties
  <1>13. DOMAIN links = 1..Len(links) /\ \A i \in DOMAIN links : links[i] = IF i <= E THEN "events" ELSE "decisions"
    BY <1>7, <1>11, LenProperties DEF LogsHold
  <1>14. stream = IF Len(links) + 1 <= E THEN "events" ELSE "decisions"
    <2>1. Kind = "event" => EventsDone < E /\ DecisionsDone = 0
      BY Counts
    <2>2. Kind = "decision" => EventsDone = E /\ DecisionsDone < D
      BY Counts
    <2> QED BY <1>2, <1>7, <1>8, <1>11, <2>1, <2>2
  <1>15. \A i \in DOMAIN links' : links'[i] = IF i <= E THEN "events" ELSE "decisions"
    <2> SUFFICES ASSUME NEW i \in DOMAIN links' PROVE links'[i] = IF i <= E THEN "events" ELSE "decisions"
      OBVIOUS
    <2>1. Len(links) \in Nat
      BY <1>7, <1>11
    <2>2. i \in 1..Len(links) \/ i = Len(links) + 1
      BY <1>12, <2>1
    <2> QED BY <1>12, <1>13, <1>14, <2>2
  <1>16. events_safe \in Nat /\ events \in Nat
    BY <1>7 DEF LogsHold
  <1>17. LogsHold'
    <2>1. /\ events_safe' \in Nat /\ events' \in Nat
          /\ EventsDone' <= events_safe' /\ events_safe' <= events' /\ events' <= EventsDone' + Recorded'
          /\ (Kind' = "event" /\ step' \in Linking => events_safe' = EventsDone' + 1)
          /\ events' = EventsDone' + Recorded'
      BY <1>1, <1>4, <1>6, <1>7, <1>10 DEF LogsHold, Linking
    <2>2. /\ links' \in Seq(Streams) /\ links_safe' = EventsDone' + DecisionsDone'
          /\ links_safe' <= Len(links') /\ Len(links') <= links_safe' + Linked'
          /\ Len(links') = links_safe' + Linked'
      BY <1>4, <1>6, <1>7, <1>10, <1>11, <1>12
    <2> QED BY <1>4, <1>10, <1>15, <2>1, <2>2 DEF LogsHold
  <1> QED BY <1>4, <1>5, <1>17 DEF IInv

LEMMA SyncLinkHolds == IInv /\ SyncLink => IInv'
  <1> SUFFICES ASSUME IInv, SyncLink PROVE IInv'
    OBVIOUS
  <1>1. /\ Writing /\ step = "link" /\ powered = TRUE /\ Done
    BY AtWork DEF SyncLink
  <1>2. Kind \in {"event", "decision"}
    BY <1>1 DEF IInv, ControlHolds, StepsOf
  <1>3. ~(at = FirstLedger)
    BY <1>1, <1>2, FileSteps
  <1>4. /\ ControlHolds' /\ at' = at + 1 /\ step' = "start" /\ powered' = powered
        /\ Before' = Before \cup {Name} /\ Placed' = {} /\ Recorded' = 0 /\ Linked' = 0
        /\ EventsDone' = EventsDone + (IF Kind = "event" THEN 1 ELSE 0)
        /\ DecisionsDone' = DecisionsDone + (IF Kind = "decision" THEN 1 ELSE 0)
    BY <1>1, <1>3, DoneMoves
  <1>5. FilesHold'
    BY <1>1, <1>2, <1>4, FilesKept DEF SyncLink, Linking
  <1>6. LogsHold /\ EventsDone \in Nat /\ DecisionsDone \in Nat
    BY <1>1, FileSteps DEF IInv
  <1>7. Linked = 1 /\ Recorded = (IF Kind = "event" THEN 1 ELSE 0)
    BY <1>1 DEF Recorded, Linked, Linking
  <1>8. /\ events' = events /\ events_safe' = events_safe /\ links' = links
        /\ links_safe' = Len(links) /\ torn' = {}
    BY <1>1, <1>6 DEF SyncLink, LogsHold
  <1>9. Len(links) = links_safe + 1 /\ links_safe = EventsDone + DecisionsDone
    BY <1>1, <1>6, <1>7 DEF LogsHold
  <1>10. links_safe' = EventsDone' + DecisionsDone'
    BY <1>2, <1>4, <1>6, <1>8, <1>9
  <1>11. /\ EventsDone' <= events_safe' /\ events_safe' <= events' /\ events' <= EventsDone' + Recorded'
         /\ events' = EventsDone' + Recorded'
    BY <1>1, <1>2, <1>4, <1>6, <1>7, <1>8 DEF LogsHold, Linking
  <1>12. LogsHold'
    BY <1>1, <1>4, <1>6, <1>8, <1>9, <1>10, <1>11 DEF LogsHold, Linking
  <1> QED BY <1>4, <1>5, <1>12 DEF IInv

(* A power loss takes no more than the operation that was being carried out. *)
LEMMA PowerLossHolds == IInv /\ PowerLoss => IInv'
  <1> SUFFICES ASSUME IInv, PowerLoss PROVE IInv'
    OBVIOUS
  <1>1. /\ powered = TRUE /\ powered' = FALSE /\ state' = state /\ at' = at /\ step' = step
        /\ ledgers_agree' = ledgers_agree /\ durable' = durable /\ solid' = solid
        /\ events_safe' = events_safe /\ links_safe' = links_safe
    BY DEF PowerLoss, IInv, ControlHolds
  <1>2. FilesHold /\ LogsHold /\ at \in 1..(Last + 1)
    BY DEF IInv, ControlHolds
  <1>3. Kind' = Kind /\ Name' = Name /\ Before' = Before
    BY <1>1 DEF Kind, Name, Before, op
  <1>4. /\ EventsDone' = EventsDone /\ DecisionsDone' = DecisionsDone
        /\ Placed' = Placed /\ Recorded' = Recorded /\ Linked' = Linked
    BY <1>1, <1>3 DEF EventsDone, DecisionsDone, Placed, Recorded, Linked
  <1>5. ControlHolds'
    BY <1>1, <1>3 DEF IInv, ControlHolds
  <1>6. /\ durable \subseteq present' /\ present' \subseteq present
        /\ temps' \subseteq temps \cup (present \ present') /\ spoiled' \subseteq present' \ solid
    <2>1. present' \in {durable \cup more : more \in SUBSET (present \ durable)}
      BY DEF PowerLoss
    <2>2. PICK more \in SUBSET (present \ durable) : present' = durable \cup more
      BY <2>1
    <2> QED BY <1>2, <2>2 DEF PowerLoss, FilesHold
  <1>7. at = Last + 1 => Placed = {} /\ temps = {}
    <2>1. at = Last + 1 => step = "start"
      BY LengthsAreNat DEF IInv, ControlHolds, Kind, StepsOf, Last
    <2> QED BY <1>1, <1>2, <2>1 DEF Placed, Linking, FilesHold
  <1>8. Placed \subseteq {Name}
    BY DEF Placed
  <1>9. FilesHold'
    <2>1. spoiled' = {}
      BY <1>2, <1>6 DEF FilesHold
    <2>2. at > 5 => temps' \subseteq (IF at <= Last THEN {Name} ELSE {})
      <3>1. at > 5 => present \ present' \subseteq Placed
        BY <1>2, <1>6 DEF FilesHold
      <3>2. at <= Last \/ at = Last + 1
        BY <1>2, LengthsAreNat DEF Last
      <3> QED BY <1>2, <1>6, <1>7, <1>8, <3>1, <3>2 DEF FilesHold
    <2>3. temps' \cap present' = {}
      BY <1>2, <1>6 DEF FilesHold
    <2> QED BY <1>1, <1>2, <1>3, <1>4, <1>6, <2>1, <2>2, <2>3 DEF FilesHold
  <1>10. at > 9 => "events.jsonl" \in durable /\ "chain.jsonl" \in durable
    <2>1. NameAt(8) = "events.jsonl" /\ NameAt(9) = "chain.jsonl"
      BY LengthsAreNat DEF NameAt, CreatedName, FirstBlob
    <2>2. at > 9 => 8 \in 1..(at - 1) /\ 9 \in 1..(at - 1)
      BY <1>2
    <2>3. at > 9 => at > 5
      BY <1>2
    <2> QED BY <1>2, <2>1, <2>2, <2>3, BeforeHas DEF FilesHold
  <1>11. EventsDone \in Nat /\ DecisionsDone \in Nat
    BY Counts, LengthsAreNat
  <1>12. ~(at > 9) => events = 0 /\ links_safe = 0 /\ Len(links) = 0
    <2> SUFFICES ASSUME ~(at > 9) PROVE events = 0 /\ links_safe = 0 /\ Len(links) = 0
      OBVIOUS
    <2>1. at \in 1..Last /\ at < FirstEvent /\ at <= FirstEvent /\ at <= FirstDecision
      BY <1>2, LengthsAreNat DEF Last, FirstEvent, FirstDecision
    <2>2. Kind = KindAt(at)
      BY <2>1, OpIs, LengthsAreNat DEF Kind, op, Last
    <2>3. Kind \notin {"event", "decision"}
      BY <2>1, <2>2, KindsAre, LengthsAreNat DEF FirstEvent, FirstDecision
    <2>4. step # "link" /\ Recorded = 0
      BY <2>3 DEF IInv, ControlHolds, StepsOf, Recorded
    <2>5. EventsDone = 0 /\ DecisionsDone = 0 /\ Linked = 0
      BY <2>1, <2>4, Counts DEF Linked
    <2> QED BY <1>1, <1>2, <2>4, <2>5 DEF LogsHold
  <1>13. events' \in events_safe..events
    <2>1. events' \in (IF "events.jsonl" \in present' THEN events_safe..events ELSE {0})
      BY DEF PowerLoss
    <2>2. "events.jsonl" \in present' \/ events = 0
      BY <1>6, <1>10, <1>12
    <2> QED BY <1>2, <1>11, <2>1, <2>2 DEF LogsHold
  <1>14. PICK n \in links_safe..Len(links) : links' = SubSeq(links, 1, n)
    <2>1. \E n \in (IF "chain.jsonl" \in present' THEN links_safe..Len(links) ELSE {0}) :
            links' = SubSeq(links, 1, n)
      BY DEF PowerLoss
    <2>2. "chain.jsonl" \in present' \/ (links_safe = 0 /\ Len(links) = 0)
      BY <1>6, <1>10, <1>12
    <2> QED BY <1>2, <2>1, <2>2 DEF LogsHold
  <1>15. links \in Seq(Streams) /\ links_safe \in Nat /\ Len(links) \in Nat /\ DOMAIN links = 1..Len(links)
    BY <1>2, <1>11, LenProperties DEF LogsHold
  <1>16. /\ links' \in Seq(Streams) /\ Len(links') = n /\ DOMAIN links' = 1..n
         /\ \A i \in 1..n : links'[i] = links[i]
    <2>1. n \in Nat /\ n <= Len(links)
      BY <1>15
    <2>2. \A i \in 1..n : links[i] \in Streams
      BY <1>15, <2>1, ElementOfSeq
    <2>3. links' = [i \in 1..n |-> links[i]]
      BY <1>14, <1>15, <2>1
    <2> QED BY <2>1, <2>2, <2>3, IsASeq, LenProperties
  <1>17. \A i \in DOMAIN links' : links'[i] = IF i <= E THEN "events" ELSE "decisions"
    BY <1>2, <1>15, <1>16 DEF LogsHold
  <1>18. torn' # {} => step \in {"torn_record", "record", "torn_link", "link"}
    <2>1. torn' \in SUBSET (torn
                 \cup (IF events' < events THEN {"events.jsonl"} ELSE {})
                 \cup (IF Len(links') < Len(links) THEN {"chain.jsonl"} ELSE {}))
      BY DEF PowerLoss
    <2>2. events' < events => step = "record"
      <3>1. Recorded = 1 => Kind = "event" /\ step \in {"record"} \cup Linking
        BY DEF Recorded
      <3>2. Recorded \in {0, 1}
        BY DEF Recorded
      <3> QED BY <1>1, <1>2, <1>11, <1>13, <3>1, <3>2 DEF LogsHold
    <2>3. Len(links') < Len(links) => step = "link"
      <3>1. Linked = IF step = "link" THEN 1 ELSE 0
        BY DEF Linked
      <3> QED BY <1>1, <1>2, <1>11, <1>15, <1>16, <3>1 DEF LogsHold
    <2> QED BY <1>2, <2>1, <2>2, <2>3 DEF LogsHold
  <1>19. LogsHold'
    <2>1. Recorded \in {0, 1} /\ Linked \in {0, 1}
      BY DEF Recorded, Linked
    <2>2. /\ events_safe' \in Nat /\ events' \in Nat /\ EventsDone' <= events_safe'
          /\ events_safe' <= events' /\ events' <= EventsDone' + Recorded'
      BY <1>1, <1>2, <1>4, <1>11, <1>13, <2>1 DEF LogsHold
    <2>3. /\ links_safe' = EventsDone' + DecisionsDone' /\ links_safe' <= Len(links')
          /\ Len(links') <= links_safe' + Linked'
      BY <1>1, <1>2, <1>4, <1>11, <1>15, <1>16, <2>1 DEF LogsHold
    <2> QED BY <1>1, <1>2, <1>3, <1>4, <1>16, <1>17, <1>18, <2>2, <2>3 DEF LogsHold
  <1> QED BY <1>5, <1>9, <1>19 DEF IInv

LEMMA NothingHolds == IInv /\ UNCHANGED vars => IInv'
  <1> SUFFICES ASSUME IInv, UNCHANGED vars PROVE IInv'
    OBVIOUS
  <1>1. UNCHANGED <<state, at, step, ledgers_agree, powered, file_vars, log_vars>>
    BY DEF vars, control_vars
  <1>2. Kind' = Kind /\ Name' = Name /\ Before' = Before
    BY <1>1 DEF Kind, Name, Before, op
  <1>3. /\ EventsDone' = EventsDone /\ DecisionsDone' = DecisionsDone
        /\ Placed' = Placed /\ Recorded' = Recorded /\ Linked' = Linked
    BY <1>1, <1>2 DEF EventsDone, DecisionsDone, Placed, Recorded, Linked
  <1>4. ControlHolds'
    BY <1>1, <1>2 DEF IInv, ControlHolds
  <1>5. FilesHold'
    BY <1>1, <1>2, <1>3 DEF IInv, FilesHold, file_vars
  <1>6. LogsHold'
    BY <1>1, <1>2, <1>3 DEF IInv, LogsHold, log_vars
  <1> QED BY <1>4, <1>5, <1>6 DEF IInv

LEMMA StepHolds == IInv /\ [Next]_vars => IInv'
  BY MakeDirHolds, SyncDirsHolds, OpenTempHolds, SyncTempHolds, ReplaceHolds, SyncDirHolds,
     EndsHold, BeginRecordHolds, EndRecordHolds, SyncRecordHolds, BeginLinkHolds, EndLinkHolds,
     SyncLinkHolds, PowerLossHolds, NothingHolds DEF Next, Over

LEMMA Invariant == Spec => []IInv
  BY InitHolds, StepHolds, PTL DEF Spec

-----------------------------------------------------------------------------
(* What the invariant says of the streams. *)

(* The events' links come first. *)
LEMMA CountIs ==
  ASSUME IInv, NEW n \in 0..Len(links)
  PROVE  /\ Cardinality({i \in 1..n : links[i] = "events"}) = (IF n <= E THEN n ELSE E)
         /\ Cardinality({i \in 1..n : links[i] = "decisions"}) = (IF n <= E THEN 0 ELSE n - E)
  <1>1. links \in Seq(Streams) /\ \A i \in DOMAIN links : links[i] = IF i <= E THEN "events" ELSE "decisions"
    BY DEF IInv, LogsHold
  <1>2. DOMAIN links = 1..Len(links) /\ Len(links) \in Nat /\ E \in Nat
    BY <1>1, LenProperties, LengthsAreNat
  <1>3. \A i \in 1..n : links[i] = IF i <= E THEN "events" ELSE "decisions"
    BY <1>1, <1>2
  <1>4. {i \in 1..n : links[i] = "events"} = 1..(IF n <= E THEN n ELSE E)
    BY <1>2, <1>3
  <1>5. {i \in 1..n : links[i] = "decisions"} = (E + 1)..n
    BY <1>2, <1>3
  <1>6. n \in Nat
    BY <1>2
  <1>7. Cardinality(1..(IF n <= E THEN n ELSE E)) = (IF n <= E THEN n ELSE E)
    <2> DEFINE m == IF n <= E THEN n ELSE E
    <2>1. m \in Nat
      BY <1>2, <1>6
    <2> HIDE DEF m
    <2>2. Cardinality(1..m) = IF 1 > m THEN 0 ELSE m - 1 + 1
      BY <2>1, FS_Interval
    <2>3. Cardinality(1..m) = m
      BY <2>1, <2>2
    <2> QED BY <2>3 DEF m
  <1>8. Cardinality((E + 1)..n) = (IF n <= E THEN 0 ELSE n - E)
    <2>1. E + 1 \in Int /\ n \in Int
      BY <1>2, <1>6
    <2>2. Cardinality((E + 1)..n) = IF E + 1 > n THEN 0 ELSE n - (E + 1) + 1
      BY <2>1, FS_Interval
    <2> QED BY <1>2, <1>6, <2>2
  <1> QED BY <1>4, <1>5, <1>7, <1>8

(* A link that was written and not yet fsynced. *)
Extra == Len(links) - links_safe

LEMMA StreamsAre ==
  ASSUME IInv
  PROVE  /\ Acknowledged("events") = EventsDone /\ Acknowledged("decisions") = DecisionsDone
         /\ linked("events") = EventsDone + (IF Kind = "event" THEN Extra ELSE 0)
         /\ linked("decisions") = DecisionsDone + (IF Kind = "decision" THEN Extra ELSE 0)
         /\ Extra \in {0, 1} /\ (Extra = 1 => step = "link" /\ Kind \in {"event", "decision"})
         /\ (powered => Extra = Linked)
  <1>1. LogsHold /\ step \in StepsOf(Kind) /\ at \in 1..(Last + 1) /\ powered \in BOOLEAN
    BY DEF IInv, ControlHolds
  <1>2. /\ links \in Seq(Streams) /\ DOMAIN links = 1..Len(links) /\ Len(links) \in Nat
        /\ E \in Nat /\ D \in Nat /\ B \in Nat
    BY <1>1, LenProperties, LengthsAreNat DEF LogsHold
  <1>3. EventsDone \in 0..E /\ DecisionsDone \in 0..D
    BY Counts
  <1>4. links_safe = EventsDone + DecisionsDone /\ links_safe <= Len(links) /\ Len(links) <= links_safe + Linked
    BY <1>1 DEF LogsHold
  <1>5. Linked = IF step = "link" THEN 1 ELSE 0
    BY DEF Linked
  <1>6. step = "link" => Kind \in {"event", "decision"}
    BY <1>1 DEF StepsOf
  <1>7. Extra \in {0, 1} /\ (Extra = 1 => step = "link" /\ Kind \in {"event", "decision"})
    <2>1. links_safe \in Nat
      BY <1>2, <1>3, <1>4
    <2>2. 0 <= Extra /\ Extra <= Linked /\ Extra \in Int
      BY <1>2, <1>4, <1>5, <2>1 DEF Extra
    <2>3. step # "link" => Extra = 0
      BY <1>5, <2>2
    <2>4. Extra \in {0, 1}
      BY <1>5, <2>2
    <2> QED BY <1>6, <2>3, <2>4
  <1>8. powered => Extra = Linked
    BY <1>1, <1>2, <1>3, <1>4, <1>5 DEF Extra, LogsHold
  <1>9. DecisionsDone > 0 => EventsDone = E
    <2>1. at <= FirstDecision \/ at >= FirstDecision
      BY <1>1, <1>2 DEF FirstDecision, Last
    <2> QED BY <2>1, <1>3, Counts
  <1>10. /\ Kind = "event" => EventsDone < E /\ DecisionsDone = 0
         /\ Kind = "decision" => EventsDone = E
    BY Counts
  <1>11. Len(links) = EventsDone + DecisionsDone + Extra
    BY <1>2, <1>3, <1>4 DEF Extra
  <1>12. /\ Acknowledged("events") = (IF links_safe <= E THEN links_safe ELSE E)
         /\ Acknowledged("decisions") = (IF links_safe <= E THEN 0 ELSE links_safe - E)
    <2>1. links_safe \in 0..Len(links)
      BY <1>2, <1>3, <1>4
    <2> QED BY <2>1, CountIs DEF Acknowledged
  <1>13. /\ linked("events") = (IF Len(links) <= E THEN Len(links) ELSE E)
         /\ linked("decisions") = (IF Len(links) <= E THEN 0 ELSE Len(links) - E)
    <2>1. Len(links) \in 0..Len(links)
      BY <1>2
    <2> QED BY <1>2, <2>1, CountIs DEF linked
  <1>14. Acknowledged("events") = EventsDone /\ Acknowledged("decisions") = DecisionsDone
    BY <1>2, <1>3, <1>4, <1>9, <1>12
  <1>15. CASE Extra = 0
    <2>1. linked("events") = EventsDone /\ linked("decisions") = DecisionsDone
      BY <1>2, <1>3, <1>9, <1>11, <1>13, <1>15
    <2> QED BY <1>3, <1>7, <1>8, <1>14, <1>15, <2>1
  <1>16. CASE Extra = 1
    <2>1. CASE Kind = "event"
      <3>1. linked("events") = EventsDone + 1 /\ linked("decisions") = DecisionsDone
        BY <1>2, <1>3, <1>10, <1>11, <1>13, <1>16, <2>1
      <3> QED BY <1>3, <1>7, <1>8, <1>14, <1>16, <2>1, <3>1
    <2>2. CASE Kind = "decision"
      <3>1. linked("events") = EventsDone /\ linked("decisions") = DecisionsDone + 1
        BY <1>2, <1>3, <1>10, <1>11, <1>13, <1>16, <2>2
      <3> QED BY <1>3, <1>7, <1>8, <1>14, <1>16, <2>2, <3>1
    <2> QED BY <1>7, <1>16, <2>1, <2>2
  <1> QED BY <1>7, <1>15, <1>16

-----------------------------------------------------------------------------
(* What the invariant says of the files. *)

(* Only the log of the events is named by more than one operation. *)
LEMMA OnePlace ==
  ASSUME NEW p \in 1..Last, KindAt(p) \in {"file", "decision"}, p # 8, NEW j \in 1..Last, j # p
  PROVE  NameAt(j) # NameAt(p)
  <1>1. B \in Nat /\ E \in Nat /\ D \in Nat
    BY LengthsAreNat
  <1>2. CASE j < p
    BY <1>2, NamesAreNew
  <1>3. CASE p < j /\ KindAt(j) \in {"file", "decision"}
    BY <1>3, NamesAreNew
  <1>4. CASE p < j /\ KindAt(j) = "event"
    <2>1. FirstEvent <= j /\ j < FirstDecision
      BY <1>4, KindsAre
    <2>2. NameAt(j) = "events.jsonl" /\ NameAt(8) = "events.jsonl"
      BY <1>1, <2>1 DEF NameAt, CreatedName, FirstBlob, FirstEvent, FirstDecision
    <2>3. 8 \in 1..Last
      BY <1>1 DEF Last
    <2>4. KindAt(8) \in {"file", "decision"}
      BY <1>1 DEF KindAt, FirstEvent
    <2>5. CASE p < 8
      <3>1. NameAt(p) # NameAt(8)
        BY <2>3, <2>4, <2>5, NamesAreNew
      <3> QED BY <2>2, <3>1
    <2>6. CASE 8 < p
      <3>1. NameAt(8) # NameAt(p)
        BY <2>3, <2>6, NamesAreNew
      <3> QED BY <2>2, <3>1
    <2> QED BY <2>5, <2>6
  <1>5. KindAt(j) \in {"file", "decision", "event"} \/ j < p
    <2>1. p > 5
      BY KindsAre
    <2>2. KindAt(j) \in {"dir", "sync_dirs"} => j <= 5
      BY KindsAre
    <2>3. KindAt(j) \in {"dir", "sync_dirs", "file", "decision", "event"}
      BY DEF KindAt
    <2> QED BY <2>1, <2>2, <2>3
  <1> QED BY <1>2, <1>3, <1>4, <1>5

LEMMA Installed ==
  ASSUME IInv, NEW p \in 1..Last
  PROVE  /\ at > 5 /\ p < at => NameAt(p) \in present /\ NameAt(p) \in durable
         /\ KindAt(p) \in {"file", "decision"} /\ p # 8 /\ NameAt(p) \in present =>
              p < at \/ (p = at /\ step \in {"replaced"} \cup Linking)
  <1>1. FilesHold /\ at \in 1..(Last + 1)
    BY DEF IInv, ControlHolds
  <1>2. at > 5 /\ p < at => NameAt(p) \in present /\ NameAt(p) \in durable
    <2>1. p < at => p \in 1..(at - 1)
      BY <1>1
    <2> QED BY <1>1, <2>1, BeforeHas DEF FilesHold
  <1>3. ASSUME KindAt(p) \in {"file", "decision"}, p # 8, NameAt(p) \in present
        PROVE  p < at \/ (p = at /\ step \in {"replaced"} \cup Linking)
    <2>1. NameAt(p) \in Before \/ NameAt(p) \in Placed
      BY <1>1, <1>3 DEF FilesHold
    <2>2. CASE NameAt(p) \in Before
      <3>1. PICK j \in 1..(at - 1) : j \in 1..Last /\ NameAt(p) = NameAt(j)
        BY <2>2, BeforeHas
      <3>2. j = p
        BY <1>3, <3>1, OnePlace
      <3> QED BY <1>1, <3>1, <3>2
    <2>3. CASE NameAt(p) \in Placed
      <3>1. NameAt(p) = Name /\ step \in {"replaced"} \cup Linking
        BY <2>3 DEF Placed
      <3>2. at \in 1..Last /\ Name = NameAt(at)
        <4>1. step \in StepsOf(Kind)
          BY DEF IInv, ControlHolds
        <4>2. Kind # "none"
          BY <3>1, <4>1 DEF StepsOf, Linking
        <4>3. at <= Last
          BY <4>2 DEF Kind
        <4>4. at \in 1..Last
          BY <1>1, <4>3, LengthsAreNat DEF Last
        <4> QED BY <4>3, <4>4, OpIs DEF Name, op
      <3>3. at = p
        BY <1>3, <3>1, <3>2, OnePlace
      <3> QED BY <3>1, <3>3
    <2> QED BY <2>1, <2>2, <2>3
  <1> QED BY <1>2, <1>3

(* The decision records are numbered without a gap. *)
LEMMA DecisionsAre ==
  ASSUME IInv
  PROVE  \E k \in {DecisionsDone, DecisionsDone + 1} :
           /\ k \in 0..D /\ decisions = {DecisionFiles[i] : i \in 1..k} /\ Cardinality(decisions) = k
           /\ k = DecisionsDone + 1 => Kind = "decision"
           /\ step \in Linking /\ Kind = "decision" => k = DecisionsDone + 1
  <1>1. B \in Nat /\ E \in Nat /\ D \in Nat
    BY LengthsAreNat
  <1>2. FilesHold /\ at \in 1..(Last + 1) /\ step \in StepsOf(Kind)
    BY DEF IInv, ControlHolds
  <1> DEFINE place(i) == 9 + B + E + i
  <1>3. \A i \in 1..D : /\ place(i) \in 1..Last /\ KindAt(place(i)) = "decision" /\ place(i) # 8
                        /\ NameAt(place(i)) = DecisionFiles[i]
    <2> SUFFICES ASSUME NEW i \in 1..D
                 PROVE  /\ place(i) \in 1..Last /\ KindAt(place(i)) = "decision" /\ place(i) # 8
                        /\ NameAt(place(i)) = DecisionFiles[i]
      OBVIOUS
    <2>1. place(i) \in 1..Last /\ place(i) # 8 /\ FirstDecision <= place(i) /\ place(i) < FirstLedger
      BY <1>1 DEF Last, FirstDecision, FirstLedger
    <2>2. KindAt(place(i)) = "decision"
      BY <2>1, KindsAre
    <2>3. place(i) - (9 + B + E) = i
      BY <1>1
    <2>4. NameAt(place(i)) = DecisionFiles[place(i) - (9 + B + E)]
      BY <1>1, <2>1 DEF NameAt, FirstBlob, FirstEvent, FirstDecision, FirstLedger
    <2> QED BY <2>1, <2>2, <2>3, <2>4
  <1>4. DecisionsDone \in 0..D /\ \A i \in 1..D : place(i) < at <=> i <= DecisionsDone
    BY <1>1, <1>2 DEF DecisionsDone, Clamp, FirstDecision
  <1>5. \A i \in 1..DecisionsDone : DecisionFiles[i] \in present
    <2> SUFFICES ASSUME NEW i \in 1..DecisionsDone PROVE DecisionFiles[i] \in present
      OBVIOUS
    <2>1. i \in 1..D /\ i <= DecisionsDone
      BY <1>1, <1>4
    <2>2. place(i) < at /\ place(i) > 5
      BY <1>1, <1>4, <2>1
    <2>3. at > 5
      BY <1>1, <1>2, <2>2
    <2> QED BY <1>3, <2>1, <2>2, <2>3, Installed
  <1>6. \A i \in 1..D : DecisionFiles[i] \in present =>
          i <= DecisionsDone \/ (place(i) = at /\ step \in {"replaced"} \cup Linking)
    BY <1>3, <1>4, Installed
  <1>7. \A i \in 1..D : place(i) = at => i = DecisionsDone + 1 /\ Kind = "decision" /\ DecisionFiles[i] = Name
    <2> SUFFICES ASSUME NEW i \in 1..D, place(i) = at
                 PROVE  i = DecisionsDone + 1 /\ Kind = "decision" /\ DecisionFiles[i] = Name
      OBVIOUS
    <2>1. i = DecisionsDone + 1
      BY <1>1 DEF DecisionsDone, Clamp, FirstDecision
    <2>2. at \in 1..Last /\ at <= Last
      BY <1>1, <1>3
    <2>3. Kind = KindAt(at) /\ Name = NameAt(at)
      BY <2>2, OpIs DEF Kind, Name, op
    <2> QED BY <1>3, <2>1, <2>3
  <1>8. Kind = "decision" => DecisionsDone + 1 \in 1..D /\ place(DecisionsDone + 1) = at
    <2>1. Kind = "decision" => at <= Last
      BY DEF Kind
    <2>2. Kind = "decision" => FirstDecision <= at /\ at < FirstLedger
      <3>1. Kind = "decision" => at \in 1..Last
        BY <1>1, <1>2, <2>1 DEF Last
      <3>2. Kind = "decision" => KindAt(at) = "decision"
        BY <2>1, <3>1, OpIs DEF Kind, op
      <3> QED BY <3>1, <3>2, KindsAre
    <2> QED BY <1>1, <1>2, <2>2 DEF DecisionsDone, Clamp, FirstDecision, FirstLedger
  <1>9. step \in Linking /\ Kind = "decision" => Name \in present
    BY <1>2 DEF FilesHold
  <1> DEFINE k == IF Kind = "decision" /\ Name \in present THEN DecisionsDone + 1 ELSE DecisionsDone
  <1>10. k \in {DecisionsDone, DecisionsDone + 1} /\ k \in 0..D
    BY <1>1, <1>4, <1>8
  <1>11. (k = DecisionsDone + 1 => Kind = "decision") /\ (step \in Linking /\ Kind = "decision" => k = DecisionsDone + 1)
    BY <1>4, <1>9
  <1>12. \A i \in 1..D : DecisionFiles[i] \in present <=> i <= k
    <2> SUFFICES ASSUME NEW i \in 1..D PROVE DecisionFiles[i] \in present <=> i <= k
      OBVIOUS
    <2>1. CASE i <= DecisionsDone
      BY <1>1, <1>4, <1>5, <2>1
    <2>2. CASE i = DecisionsDone + 1 /\ Kind = "decision"
      <3>1. DecisionFiles[i] = Name
        BY <1>7, <1>8, <2>2
      <3> QED BY <1>4, <2>2, <3>1
    <2>3. CASE i > DecisionsDone /\ ~(i = DecisionsDone + 1 /\ Kind = "decision")
      <3>1. ~(i <= k)
        BY <1>1, <1>4, <2>3
      <3>2. DecisionFiles[i] \notin present
        BY <1>1, <1>4, <1>6, <1>7, <2>3
      <3> QED BY <3>1, <3>2
    <2> QED BY <1>1, <1>4, <2>1, <2>2, <2>3
  <1> HIDE DEF k
  <1>13. decisions = {DecisionFiles[i] : i \in 1..k}
    <2>1. decisions = {DecisionFiles[i] : i \in 1..D} \cap present
      BY LengthsAreNat DEF decisions, Names
    <2>2. \A i \in 1..D : DecisionFiles[i] \in present <=> i \in 1..k
      BY <1>1, <1>10, <1>12
    <2>3. \A i \in 1..k : i \in 1..D
      BY <1>1, <1>10
    <2> QED BY <2>1, <2>2, <2>3
  <1>14. Cardinality(decisions) = k
    <2> DEFINE f == [i \in 1..k |-> DecisionFiles[i]]
    <2>1. \A i, j \in 1..k : i # j => DecisionFiles[i] # DecisionFiles[j]
      <3>1. \A i, j \in 1..D : i # j => DecisionFiles[i] # DecisionFiles[j]
        BY LengthsAreNat, BundleAssumption DEF Distinct
      <3> QED BY <1>1, <1>10, <3>1
    <2>2. f \in Bijection(1..k, decisions)
      BY <1>13, <2>1 DEF Bijection, Injection, Surjection, IsInjective
    <2>3. ExistsBijection(1..k, decisions)
      BY <2>2 DEF ExistsBijection
    <2>4. k \in Nat
      BY <1>1, <1>10
    <2> QED BY <2>3, <2>4, FS_CountingElements
  <1> QED BY <1>10, <1>11, <1>13, <1>14

(* The parts of the verdict, one by one. *)

LEMMA CreatedMeans == Created <=> at > 9
  BY CreationIs DEF Created

LEMMA IsReadable ==
  ASSUME IInv, at > 9
  PROVE  Readable
  <1>1. at \in Nat /\ at <= Last + 1 /\ FilesHold
    BY LengthsAreNat DEF IInv, ControlHolds, Last
  <1>2. \A i \in 1..9 : CreatedName(i) \in present
    <2>1. \A i \in 1..9 : i \in 1..Last /\ i < at /\ NameAt(i) = CreatedName(i)
      BY <1>1, LengthsAreNat DEF Last, NameAt, FirstBlob
    <2>2. at > 5
      BY <1>1
    <2> QED BY <2>1, <2>2, Installed
  <1>3. Names(Dirs \o Manifests \o StreamLogs) \subseteq
          {"bundle", "observations", "raw", "decisions", "agent_manifest.json", "manifest.json",
           "events.jsonl", "chain.jsonl"}
    <2>1. Dirs \in Seq(AllNames) /\ Manifests \in Seq(AllNames) /\ StreamLogs \in Seq(AllNames)
      BY FixedNames DEF Dirs, Manifests, StreamLogs, AllNames
    <2>2. PICK c : c = Dirs \o Manifests
      OBVIOUS
    <2>3. PICK d : d = c \o StreamLogs
      OBVIOUS
    <2>4. /\ c \in Seq(AllNames) /\ Len(c) = Len(Dirs) + Len(Manifests)
          /\ \A i \in 1..Len(Dirs) : c[i] = Dirs[i]
          /\ \A i \in 1..Len(Manifests) : c[Len(Dirs) + i] = Manifests[i]
      BY <2>1, <2>2, Parts
    <2>5. /\ d \in Seq(AllNames) /\ Len(d) = Len(c) + Len(StreamLogs)
          /\ \A i \in 1..Len(c) : d[i] = c[i]
          /\ \A i \in 1..Len(StreamLogs) : d[Len(c) + i] = StreamLogs[i]
      <3>1. c \in Seq(AllNames)
        BY <2>4
      <3> QED BY <2>1, <2>3, <3>1, Parts
    <2>6. Len(Dirs) = 4 /\ Len(Manifests) = 2 /\ Len(StreamLogs) = 2
      BY DEF Dirs, Manifests, StreamLogs
    <2>7. Len(c) = 6 /\ Len(d) = 8
      BY <2>4, <2>5, <2>6
    <2>8. \A i \in 1..4 : d[i] = Dirs[i]
      BY <2>4, <2>5, <2>6, <2>7
    <2>9. \A i \in 1..2 : d[4 + i] = Manifests[i]
      BY <2>4, <2>5, <2>6, <2>7
    <2>10. \A i \in 1..2 : d[6 + i] = StreamLogs[i]
      BY <2>5, <2>6, <2>7
    <2>11. \A i \in 1..4 : Dirs[i] \in {"bundle", "observations", "raw", "decisions"}
      BY DEF Dirs
    <2>12. \A i \in 1..2 : Manifests[i] \in {"agent_manifest.json", "manifest.json"}
      BY DEF Manifests
    <2>13. \A i \in 1..2 : StreamLogs[i] \in {"events.jsonl", "chain.jsonl"}
      BY DEF StreamLogs
    <2>14. \A j \in 1..8 : j \in 1..4 \/ (\E i \in 1..2 : j = 4 + i) \/ (\E i \in 1..2 : j = 6 + i)
      OBVIOUS
    <2>15. \A j \in 1..8 : d[j] \in
          {"bundle", "observations", "raw", "decisions", "agent_manifest.json", "manifest.json",
           "events.jsonl", "chain.jsonl"}
      BY <2>8, <2>9, <2>10, <2>11, <2>12, <2>13, <2>14
    <2>16. DOMAIN d = 1..8
      BY <2>5, <2>7, LenProperties
    <2> QED BY <2>2, <2>3, <2>15, <2>16 DEF Names
  <1>4. {"bundle", "observations", "raw", "decisions", "agent_manifest.json", "manifest.json",
         "events.jsonl", "chain.jsonl"} \subseteq present
    <2>1. /\ CreatedName(1) = "bundle" /\ CreatedName(2) = "observations" /\ CreatedName(3) = "raw"
          /\ CreatedName(4) = "decisions" /\ CreatedName(6) = "agent_manifest.json"
          /\ CreatedName(7) = "manifest.json" /\ CreatedName(8) = "events.jsonl"
          /\ CreatedName(9) = "chain.jsonl"
      BY DEF CreatedName
    <2>2. /\ CreatedName(1) \in present /\ CreatedName(2) \in present /\ CreatedName(3) \in present
          /\ CreatedName(4) \in present /\ CreatedName(6) \in present /\ CreatedName(7) \in present
          /\ CreatedName(8) \in present /\ CreatedName(9) \in present
      BY <1>2
    <2> QED BY <2>1, <2>2
  <1>5. Contiguous
    BY DecisionsAre DEF Contiguous
  <1> QED BY <1>1, <1>3, <1>4, <1>5 DEF Readable, FilesHold

(* Each stream's records are its links, and at most one more. *)
LEMMA RecordsAre ==
  ASSUME IInv
  PROVE  /\ \A s \in Streams : records(s) - linked(s) \in {0, 1}
         /\ at > FirstLedger => /\ \A s \in Streams : records(s) = linked(s)
                               /\ events = E /\ linked("events") = E
                               /\ decisions = Names(DecisionFiles)
  <1>1. LogsHold /\ at \in 1..(Last + 1) /\ step \in StepsOf(Kind)
    BY DEF IInv, ControlHolds
  <1>2. B \in Nat /\ E \in Nat /\ D \in Nat /\ EventsDone \in 0..E /\ DecisionsDone \in 0..D
    BY LengthsAreNat, Counts
  <1>3. /\ linked("events") = EventsDone + (IF Kind = "event" THEN Extra ELSE 0)
        /\ linked("decisions") = DecisionsDone + (IF Kind = "decision" THEN Extra ELSE 0)
        /\ Extra \in {0, 1} /\ (Extra = 1 => step = "link")
    BY StreamsAre
  <1>4. PICK k \in {DecisionsDone, DecisionsDone + 1} :
           /\ k \in 0..D /\ decisions = {DecisionFiles[i] : i \in 1..k} /\ Cardinality(decisions) = k
           /\ k = DecisionsDone + 1 => Kind = "decision"
           /\ step \in Linking /\ Kind = "decision" => k = DecisionsDone + 1
    BY DecisionsAre
  <1>5. /\ Recorded \in {0, 1} /\ (Recorded = 1 => Kind = "event")
        /\ events_safe \in Nat /\ events \in Nat
        /\ EventsDone <= events_safe /\ events_safe <= events /\ events <= EventsDone + Recorded
        /\ Kind = "event" /\ step \in Linking => events_safe = EventsDone + 1
    BY <1>1 DEF LogsHold, Recorded
  <1>6. step = "link" => step \in Linking
    BY DEF Linking
  <1>7. records("events") = events /\ records("decisions") = k
    BY <1>4 DEF records
  <1>8. events - linked("events") \in {0, 1}
    <2>1. CASE Kind = "event" /\ Extra = 1
      BY <1>2, <1>3, <1>5, <1>6, <2>1
    <2>2. CASE ~(Kind = "event" /\ Extra = 1)
      BY <1>2, <1>3, <1>5, <2>2
    <2> QED BY <2>1, <2>2
  <1>9. k - linked("decisions") \in {0, 1}
    <2>1. CASE Kind = "decision" /\ Extra = 1
      BY <1>2, <1>3, <1>4, <1>6, <2>1
    <2>2. CASE ~(Kind = "decision" /\ Extra = 1)
      BY <1>2, <1>3, <1>4, <2>2
    <2> QED BY <2>1, <2>2
  <1>10. ASSUME at > FirstLedger
         PROVE  Kind \notin {"event", "decision"} /\ EventsDone = E /\ DecisionsDone = D
    <2>1. at >= FirstLedger /\ at >= FirstDecision
      BY <1>1, <1>2, <1>10 DEF FirstLedger, FirstDecision
    <2>2. EventsDone = E /\ DecisionsDone = D
      BY <2>1, Counts
    <2>3. Kind = "event" => EventsDone < E
      BY Counts
    <2>4. Kind = "decision" => DecisionsDone < D
      BY Counts
    <2> QED BY <1>2, <2>2, <2>3, <2>4
  <1>11. ASSUME at > FirstLedger
         PROVE  /\ records("events") = linked("events") /\ records("decisions") = linked("decisions")
                /\ events = E /\ linked("events") = E /\ decisions = Names(DecisionFiles)
    <2>1. k = DecisionsDone
      BY <1>2, <1>4, <1>10, <1>11
    <2>2. linked("events") = E /\ linked("decisions") = D
      BY <1>2, <1>3, <1>10, <1>11
    <2>3. events = E
      BY <1>2, <1>5, <1>10, <1>11
    <2>4. decisions = Names(DecisionFiles)
      BY <1>4, <1>10, <1>11, <2>1, LengthsAreNat DEF Names
    <2> QED BY <1>7, <1>10, <1>11, <2>1, <2>2, <2>3, <2>4
  <1>12. \A s \in Streams : s = "events" \/ s = "decisions"
    BY DEF Streams
  <1> QED BY <1>7, <1>8, <1>9, <1>11, <1>12

(* The blobs are there before an event that refers to them is linked. *)
LEMMA BlobsAreThere ==
  ASSUME IInv
  PROVE  /\ at >= FirstEvent => Names(Blobs) \subseteq present
         /\ referenced \subseteq Names(Blobs) /\ (linked("events") = E => referenced = Names(Blobs))
         /\ referenced \subseteq present
  <1>1. B \in Nat /\ E \in Nat /\ D \in Nat /\ at \in 1..(Last + 1)
    BY LengthsAreNat DEF IInv, ControlHolds
  <1>2. at >= FirstEvent => Names(Blobs) \subseteq present
    <2> SUFFICES ASSUME at >= FirstEvent, NEW i \in 1..B PROVE Blobs[i] \in present
      BY LengthsAreNat DEF Names
    <2>1. 9 + i \in 1..Last /\ 9 + i < at /\ at > 5 /\ (9 + i) - 9 = i
          /\ ~(9 + i < FirstBlob) /\ 9 + i < FirstEvent
      BY <1>1 DEF Last, FirstEvent, FirstBlob
    <2>2. NameAt(9 + i) = Blobs[(9 + i) - 9]
      BY <2>1 DEF NameAt
    <2> QED BY <2>1, <2>2, Installed
  <1>3. linked("events") \in 0..E /\ (linked("events") > 0 => at >= FirstEvent)
    <2>1. linked("events") = EventsDone + (IF Kind = "event" THEN Extra ELSE 0) /\ Extra \in {0, 1}
      BY StreamsAre
    <2>2. /\ EventsDone \in 0..E /\ (at <= FirstEvent => EventsDone = 0)
          /\ (Kind = "event" => EventsDone < E)
      BY Counts
    <2>3. Kind = "event" => at >= FirstEvent
      <3>1. Kind = "event" => at <= Last
        BY DEF Kind
      <3>2. Kind = "event" => at \in 1..Last /\ KindAt(at) = "event"
        <4>1. at <= Last => at \in 1..Last
          BY <1>1 DEF Last
        <4> QED BY <3>1, <4>1, OpIs DEF Kind, op
      <3> QED BY <1>1, <3>2, KindsAre DEF FirstEvent
    <2> QED BY <1>1, <2>1, <2>2, <2>3 DEF FirstEvent
  <1>4. Names(EventRefs) \ {NoRef} = Names(Blobs) /\ DOMAIN EventRefs = 1..E
    BY BundleAssumption, LengthsAreNat
  <1>5. referenced \subseteq Names(Blobs)
    <2>1. \A i \in 1..linked("events") : i \in 1..E
      BY <1>1, <1>3
    <2> QED BY <1>4, <2>1 DEF referenced, Names
  <1>6. linked("events") = E => referenced = Names(Blobs)
    BY <1>4 DEF referenced, Names
  <1>7. referenced \subseteq present
    <2>1. CASE linked("events") = 0
      <3>1. referenced = {}
        BY <2>1 DEF referenced
      <3> QED BY <3>1
    <2>2. CASE linked("events") > 0
      BY <1>2, <1>3, <1>5, <2>2
    <2> QED BY <1>1, <1>3, <2>1, <2>2
  <1> QED BY <1>2, <1>5, <1>6, <1>7

-----------------------------------------------------------------------------
(* The verdict. *)

LEMMA LedgersAgree == IInv => LedgersPair
  <1> SUFFICES ASSUME IInv, Names(Ledgers) \subseteq present PROVE ledgers_agree
    BY DEF LedgersPair
  <1>1. B \in Nat /\ E \in Nat /\ D \in Nat
    BY LengthsAreNat
  <1>2. FirstLedger \in 1..Last /\ FirstLedger # 8 /\ FirstLedger - FirstLedger = 0
    BY <1>1 DEF FirstLedger, Last
  <1>3. KindAt(FirstLedger) \in {"file", "decision"}
    BY <1>2, KindsAre
  <1>4. NameAt(FirstLedger) = "ledger.jsonl"
    BY <1>1, <1>2 DEF NameAt, FirstLedger, FirstBlob, FirstEvent, FirstDecision, ClosingName
  <1>5. "ledger.jsonl" \in Names(Ledgers)
    BY DEF Names, Ledgers
  <1>6. FirstLedger < at \/ (FirstLedger = at /\ step \in {"replaced"} \cup Linking)
    BY <1>2, <1>3, <1>4, <1>5, Installed
  <1>7. step \in {"replaced"} \cup Linking => step # "start"
    BY DEF Linking
  <1>8. at \in Nat
    BY <1>1 DEF IInv, ControlHolds, Last
  <1>9. at > FirstLedger \/ (at = FirstLedger /\ step # "start")
    BY <1>1, <1>6, <1>7, <1>8 DEF FirstLedger
  <1> QED BY <1>9 DEF IInv, ControlHolds

(* A seal is seen only after the last operation has installed it. *)
LEMMA SealIsLast ==
  ASSUME IInv, sealed_on_disk
  PROVE  at > FirstLedger /\ at > 9 /\ SealHolds
  <1>1. B \in Nat /\ E \in Nat /\ D \in Nat
    BY LengthsAreNat
  <1>2. /\ Last \in 1..Last /\ Last # 8 /\ Last - FirstLedger = 3 /\ FirstLedger <= Last
        /\ Last - 1 \in 1..Last /\ (Last - 1) - FirstLedger = 2
        /\ Last - 2 \in 1..Last /\ (Last - 2) - FirstLedger = 1
        /\ Last - 3 \in 1..Last /\ (Last - 3) - FirstLedger = 0
    BY <1>1 DEF FirstLedger, Last
  <1>3. \A i \in FirstLedger..Last : NameAt(i) = ClosingName(i - FirstLedger)
    BY <1>1 DEF NameAt, FirstLedger, FirstBlob, FirstEvent, FirstDecision, Last
  <1>4. /\ NameAt(Last) = "chain.json" /\ NameAt(Last - 1) = "metrics.json"
        /\ NameAt(Last - 2) = "ledger_stress_2x.jsonl" /\ NameAt(Last - 3) = "ledger.jsonl"
    <2>1. /\ Last \in FirstLedger..Last /\ Last - 1 \in FirstLedger..Last
          /\ Last - 2 \in FirstLedger..Last /\ Last - 3 \in FirstLedger..Last
      BY <1>1 DEF FirstLedger, Last
    <2>2. /\ NameAt(Last) = ClosingName(3) /\ NameAt(Last - 1) = ClosingName(2)
          /\ NameAt(Last - 2) = ClosingName(1) /\ NameAt(Last - 3) = ClosingName(0)
      BY <1>2, <1>3, <2>1
    <2> QED BY <2>2 DEF ClosingName
  <1>5. KindAt(Last) \in {"file", "decision"}
    BY <1>2, KindsAre
  <1>6. Last < at \/ (Last = at /\ step \in {"replaced"} \cup Linking)
    BY <1>2, <1>4, <1>5, Installed DEF sealed_on_disk
  <1>7. at \in 1..(Last + 1) /\ FilesHold /\ LogsHold /\ step \in StepsOf(Kind)
    BY DEF IInv, ControlHolds
  <1>8. at > FirstLedger /\ at > 9 /\ at >= FirstEvent /\ at > 5
    BY <1>1, <1>6, <1>7 DEF FirstLedger, FirstEvent, Last
  <1>9. Kind \in {"file", "none"}
    <2>1. at \in 1..Last /\ at <= Last => Kind = KindAt(at)
      BY OpIs DEF Kind, op
    <2>2. at \in 1..Last => KindAt(at) = "file"
      <3>1. FirstLedger <= at
        BY <1>1, <1>7, <1>8 DEF FirstLedger
      <3> QED BY <3>1, KindsAre
    <2>3. at <= Last => at \in 1..Last
      BY <1>1, <1>7 DEF Last
    <2> QED BY <2>1, <2>2, <2>3 DEF Kind
  <1>10. torn = {}
    BY <1>7, <1>9 DEF StepsOf, LogsHold
  <1>11. temps = {}
    <2>1. CASE at = Last
      <3>1. Name = "chain.json"
        <4>1. at <= Last
          BY <1>1, <2>1 DEF Last
        <4> QED BY <1>2, <1>4, <2>1, <4>1, OpIs DEF Name, op
      <3>2. temps \subseteq {Name} /\ temps \cap present = {}
        BY <1>7, <1>8 DEF FilesHold
      <3> QED BY <3>1, <3>2 DEF sealed_on_disk
    <2>2. CASE at > Last
      <3>1. ~(at <= Last)
        BY <1>1, <1>7, <2>2 DEF Last
      <3> QED BY <1>7, <1>8, <3>1 DEF FilesHold
    <2> QED BY <1>1, <1>6, <1>7, <2>1, <2>2 DEF Last
  <1>12. Names(Ledgers) \cup {"metrics.json"} \subseteq present
    <2>1. Last - 1 < at /\ Last - 2 < at /\ Last - 3 < at
      BY <1>1, <1>6, <1>7 DEF Last
    <2>2. "metrics.json" \in present
      BY <1>2, <1>4, <1>8, <2>1, Installed
    <2>3. "ledger_stress_2x.jsonl" \in present
      BY <1>2, <1>4, <1>8, <2>1, Installed
    <2>4. "ledger.jsonl" \in present
      BY <1>2, <1>4, <1>8, <2>1, Installed
    <2>5. Names(Ledgers) = {"ledger.jsonl", "ledger_stress_2x.jsonl"}
      BY DEF Names, Ledgers
    <2> QED BY <2>2, <2>3, <2>4, <2>5
  <1>13. /\ \A s \in Streams : records(s) = linked(s)
         /\ events = E /\ linked("events") = E /\ decisions = Names(DecisionFiles)
    BY <1>8, RecordsAre
  <1>14. referenced = Names(Blobs) \cap present
    BY <1>8, <1>13, BlobsAreThere
  <1>15. LedgersPair
    BY LedgersAgree
  <1>16. SealHolds
    BY <1>10, <1>11, <1>12, <1>13, <1>14, <1>15 DEF SealHolds, E
  <1> QED BY <1>8, <1>16

(***************************************************************************)
(* Wherever the writer was stopped and whatever a power loss took, the     *)
(* verdict on what is left is TRUNCATED while the seal is not there and    *)
(* COMPLETE as soon as it is: for any number of turns, events and files.   *)
(***************************************************************************)
THEOREM VerdictIsAlwaysHonest == Spec => []VerdictIsHonest
  <1>1. IInv => VerdictIsHonest
    <2> SUFFICES ASSUME IInv PROVE VerdictIsHonest
      OBVIOUS
    <2>1. ASSUME Created, ~sealed_on_disk
          PROVE  Verdict = "TRUNCATED"
      <3>1. Readable
        BY <2>1, CreatedMeans, IsReadable
      <3>2. PrefixHolds
        BY RecordsAre, BlobsAreThere, LedgersAgree DEF PrefixHolds
      <3> QED BY <2>1, <3>1, <3>2 DEF Verdict
    <2>2. ASSUME sealed_on_disk
          PROVE  Verdict = "COMPLETE"
      <3>1. SealHolds /\ Readable
        BY <2>2, SealIsLast, IsReadable
      <3> QED BY <2>2, <3>1 DEF Verdict
    <2> QED BY <2>1, <2>2 DEF VerdictIsHonest, InterruptedIsTruncated, SealedIsComplete
  <1> QED BY <1>1, Invariant, PTL

(* The operations of a kind among those that returned. *)
LEMMA ReturnedAre ==
  ASSUME IInv
  PROVE  /\ Cardinality({i \in 1..(at - 1) : Script[i].kind = "event"}) = EventsDone
         /\ Cardinality({i \in 1..(at - 1) : Script[i].kind = "decision"}) = DecisionsDone
  <1>1. B \in Nat /\ E \in Nat /\ D \in Nat /\ at \in 1..(Last + 1)
    BY LengthsAreNat DEF IInv, ControlHolds
  <1>2. EventsDone \in Nat /\ DecisionsDone \in Nat
    BY <1>1, Counts
  <1>3. \A i \in 1..(at - 1) : i \in 1..Last
    BY <1>1 DEF Last
  <1>4. \A i \in 1..(at - 1) : Script[i].kind = "event" <=> FirstEvent <= i /\ i < FirstDecision
    BY <1>3, OpIs, KindsAre
  <1>5a. \A i \in 1..(at - 1) : Script[i].kind = "decision" <=> FirstDecision <= i /\ i < FirstLedger
    BY <1>3, OpIs, KindsAre
  <1>5. {i \in 1..(at - 1) : Script[i].kind = "event"} = FirstEvent..(FirstEvent + EventsDone - 1)
    <2>1. \A i \in Int : (i \in 1..(at - 1) /\ FirstEvent <= i /\ i < FirstDecision)
                        <=> i \in FirstEvent..(FirstEvent + EventsDone - 1)
      BY <1>1 DEF EventsDone, Clamp, FirstEvent, FirstDecision
    <2>2. {i \in 1..(at - 1) : Script[i].kind = "event"} = {i \in 1..(at - 1) : FirstEvent <= i /\ i < FirstDecision}
      BY <1>4
    <2>3. \A i : i \in 1..(at - 1) => i \in Int
      BY <1>1
    <2>4. \A i : i \in FirstEvent..(FirstEvent + EventsDone - 1) => i \in Int
      OBVIOUS
    <2> QED BY <2>1, <2>2, <2>3, <2>4
  <1>6. {i \in 1..(at - 1) : Script[i].kind = "decision"} = FirstDecision..(FirstDecision + DecisionsDone - 1)
    <2>1. \A i \in Int : (i \in 1..(at - 1) /\ FirstDecision <= i /\ i < FirstLedger)
                        <=> i \in FirstDecision..(FirstDecision + DecisionsDone - 1)
      BY <1>1 DEF DecisionsDone, Clamp, FirstDecision, FirstLedger
    <2>2. {i \in 1..(at - 1) : Script[i].kind = "decision"} = {i \in 1..(at - 1) : FirstDecision <= i /\ i < FirstLedger}
      BY <1>5a
    <2>3. \A i : i \in 1..(at - 1) => i \in Int
      BY <1>1
    <2>4. \A i : i \in FirstDecision..(FirstDecision + DecisionsDone - 1) => i \in Int
      OBVIOUS
    <2> QED BY <2>1, <2>2, <2>3, <2>4
  <1>7. ASSUME NEW a \in Int, NEW n \in Nat
        PROVE  Cardinality(a..(a + n - 1)) = n
    <2>1. a + n - 1 \in Int
      OBVIOUS
    <2>2. Cardinality(a..(a + n - 1)) = IF a > a + n - 1 THEN 0 ELSE (a + n - 1) - a + 1
      BY <2>1, FS_Interval
    <2> QED BY <2>2
  <1>8. FirstEvent \in Int /\ FirstDecision \in Int
    BY <1>1 DEF FirstEvent, FirstDecision
  <1> QED BY <1>2, <1>5, <1>6, <1>7, <1>8

(***************************************************************************)
(* What a call of the writer has returned from survives any stop and any   *)
(* power loss: its file whole, its record and its link.                    *)
(***************************************************************************)
THEOREM ReturnedCallsAlwaysSurvive == Spec => []ReturnedCallsSurvive
  <1>1. IInv => ReturnedCallsSurvive
    <2> SUFFICES ASSUME IInv PROVE ReturnedCallsSurvive
      OBVIOUS
    <2> DEFINE done == [i \in 1..(at - 1) |-> Script[i]]
               Calls(kind) == Cardinality({i \in DOMAIN done : done[i].kind = kind})
    <2>1. \A kind : {i \in DOMAIN done : done[i].kind = kind} = {i \in 1..(at - 1) : Script[i].kind = kind}
      OBVIOUS
    <2>2. Calls("event") = EventsDone /\ Calls("decision") = DecisionsDone
      BY <2>1, ReturnedAre
    <2>3. {done[i].name : i \in DOMAIN done} = Before
      BY DEF Before
    <2>4. ASSUME Created
          PROVE  /\ {done[i].name : i \in DOMAIN done} \subseteq present \ spoiled
                 /\ events >= Calls("event") /\ linked("events") >= Calls("event")
                 /\ linked("decisions") >= Calls("decision")
      <3>1. at > 5
        BY <2>4, CreatedMeans, LengthsAreNat DEF IInv, ControlHolds, Last
      <3>2. Before \subseteq present \ spoiled
        BY <3>1 DEF IInv, FilesHold
      <3>3. EventsDone \in Nat /\ DecisionsDone \in Nat
        BY Counts, LengthsAreNat
      <3>4. linked("events") >= EventsDone /\ linked("decisions") >= DecisionsDone
        BY <3>3, StreamsAre
      <3>5. events >= EventsDone
        BY <3>3 DEF IInv, LogsHold
      <3> QED BY <2>2, <2>3, <3>2, <3>4, <3>5
    <2> QED BY <2>4 DEF ReturnedCallsSurvive
  <1> QED BY <1>1, Invariant, PTL

-----------------------------------------------------------------------------
(* The bundle as the log of EvidenceLog. *)

committedLog == [s \in Streams |-> Acknowledged(s)]
readableLog  == [s \in Streams |-> linked(s)]
statusLog    == IF state = "sealed" THEN "sealed" ELSE IF Writing THEN "open" ELSE "stopped"

(* The stream of the operation, and its place in the abstract log. *)
Stream == IF Kind = "event" THEN "events" ELSE "decisions"

LEMMA LogIs ==
  ASSUME IInv
  PROVE  /\ committedLog = [s \in Streams |-> IF s = "events" THEN EventsDone ELSE DecisionsDone]
         /\ readableLog = [s \in Streams |-> committedLog[s] + (IF s = Stream THEN Extra ELSE 0)]
         /\ EventsDone \in Nat /\ DecisionsDone \in Nat /\ Extra \in {0, 1}
         /\ Extra = 0 => readableLog = committedLog
  <1>1. EventsDone \in Nat /\ DecisionsDone \in Nat
    BY Counts, LengthsAreNat
  <1>2. Acknowledged("events") = EventsDone /\ Acknowledged("decisions") = DecisionsDone
    BY StreamsAre
  <1>3. \A s \in Streams : s = "events" \/ s = "decisions"
    BY DEF Streams
  <1>4. committedLog = [s \in Streams |-> IF s = "events" THEN EventsDone ELSE DecisionsDone]
    BY <1>2, <1>3 DEF committedLog
  <1>5. /\ linked("events") = EventsDone + (IF Kind = "event" THEN Extra ELSE 0)
        /\ linked("decisions") = DecisionsDone + (IF Kind = "decision" THEN Extra ELSE 0)
        /\ Extra \in {0, 1} /\ (Extra = 1 => Kind \in {"event", "decision"})
    BY StreamsAre
  <1>6. /\ linked("events") = EventsDone + (IF "events" = Stream THEN Extra ELSE 0)
        /\ linked("decisions") = DecisionsDone + (IF "decisions" = Stream THEN Extra ELSE 0)
    BY <1>1, <1>5 DEF Stream
  <1>7. "events" \in Streams /\ "decisions" \in Streams /\ "events" # "decisions"
    BY DEF Streams
  <1>8. readableLog = [s \in Streams |-> committedLog[s] + (IF s = Stream THEN Extra ELSE 0)]
    BY <1>3, <1>4, <1>6, <1>7 DEF readableLog
  <1>9. Extra = 0 => readableLog = committedLog
    <2>1. \A s \in Streams : committedLog[s] \in Nat
      BY <1>1, <1>4
    <2>2. Extra = 0 => \A s \in Streams : committedLog[s] + (IF s = Stream THEN Extra ELSE 0) = committedLog[s]
      BY <2>1
    <2>3. committedLog = [s \in Streams |-> committedLog[s]]
      BY <1>4
    <2> QED BY <1>8, <2>2, <2>3
  <1> QED BY <1>1, <1>4, <1>5, <1>8, <1>9

(* A step that leaves the links alone and does not seal leaves the log. *)
LEMMA LogKept ==
  ASSUME links' = links, links_safe' = links_safe
  PROVE  committedLog' = committedLog /\ readableLog' = readableLog
  BY DEF committedLog, readableLog, Acknowledged, linked

LEMMA StatusOpen == Writing => statusLog = "open"
  BY DEF statusLog, Writing

LEMMA StepOpen ==
  ASSUME Writing, NEW next, Step(next)
  PROVE  statusLog' = statusLog
  BY DEF Step, statusLog, Writing

LEMMA DoneOpen ==
  ASSUME Writing, Done
  PROVE  statusLog' = IF at = Len(Script) THEN "sealed" ELSE statusLog
  BY DEF Done, statusLog, Writing

LEMMA LogVars == Log!vars = <<committedLog, readableLog, statusLog>>
  BY DEF Log!vars, committedLog, readableLog, statusLog

LEMMA LogInit == Init => Log!Init
  <1> SUFFICES ASSUME Init PROVE Log!Init
    OBVIOUS
  <1>1. links = <<>> /\ links_safe = 0 /\ Writing
    BY DEF Init, Writing
  <1>2. statusLog = "open"
    BY <1>1, StatusOpen
  <1>3. \A s : Acknowledged(s) = 0 /\ linked(s) = 0
    <2>1. \A s : {i \in 1..links_safe : links[i] = s} = {} /\ {i \in DOMAIN links : links[i] = s} = {}
      BY <1>1
    <2> QED BY <2>1, FS_EmptySet DEF Acknowledged, linked
  <1> QED BY <1>2, <1>3 DEF Log!Init, statusLog

(* Writing a link and making it last are the steps of the log. *)
LogShape ==
  /\ committedLog = [s \in Streams |-> IF s = "events" THEN EventsDone ELSE DecisionsDone]
  /\ readableLog = [s \in Streams |-> committedLog[s] + (IF s = Stream THEN Extra ELSE 0)]
  /\ Extra \in {0, 1} /\ (Extra = 0 => readableLog = committedLog)
  /\ (Extra = 1 => step = "link") /\ (powered => Extra = Linked)

LEMMA LogShapeHolds == IInv => LogShape
  <1> SUFFICES ASSUME IInv PROVE LogShape
    OBVIOUS
  <1>1. (Extra = 1 => step = "link") /\ (powered => Extra = Linked)
    BY StreamsAre
  <1> QED BY <1>1, LogIs DEF LogShape

LEMMA EndLinkWrites == IInv /\ EndLink => \E s \in Streams : Log!Write(s)
  <1> SUFFICES ASSUME IInv, EndLink PROVE \E s \in Streams : Log!Write(s)
    OBVIOUS
  <1>0. IInv' => LogShape'
    BY LogShapeHolds, PTL
  <1>1. /\ Writing /\ step = "torn_link" /\ powered = TRUE /\ Step("link") /\ op.kind = Kind /\ IInv'
    BY AtWork, EndLinkHolds DEF EndLink
  <1>2. Kind \in {"event", "decision"} /\ "link" \in StepsOf(Kind) /\ ~(at = FirstLedger)
    <2>1. Kind \in {"event", "decision"} /\ "link" \in StepsOf(Kind)
      BY <1>1 DEF IInv, ControlHolds, StepsOf
    <2> QED BY <1>1, <2>1, FileSteps
  <1>3. /\ Kind' = Kind /\ step' = "link" /\ powered' = TRUE
        /\ EventsDone' = EventsDone /\ DecisionsDone' = DecisionsDone
    BY <1>1, <1>2, StepStays
  <1>4. Extra = 0 /\ Extra' = 1 /\ Stream' = Stream
    <2>1. Linked = 0 /\ Linked' = 1
      BY <1>1, <1>3 DEF Linked
    <2>2. Extra = Linked
      BY <1>1, StreamsAre
    <2>3. Extra' = Linked'
      BY <1>0, <1>1, <1>3 DEF LogShape
    <2> QED BY <1>3, <2>1, <2>2, <2>3 DEF Stream
  <1>5. /\ committedLog = [s \in Streams |-> IF s = "events" THEN EventsDone ELSE DecisionsDone]
        /\ readableLog = committedLog /\ EventsDone \in Nat /\ DecisionsDone \in Nat
    BY <1>4, LogIs
  <1>6. /\ committedLog' = [s \in Streams |-> IF s = "events" THEN EventsDone' ELSE DecisionsDone']
        /\ readableLog' = [s \in Streams |-> committedLog'[s] + (IF s = Stream' THEN Extra' ELSE 0)]
    BY <1>0, <1>1 DEF LogShape
  <1>7. committedLog' = committedLog
    BY <1>3, <1>5, <1>6
  <1>8. Stream \in Streams
    BY DEF Stream, Streams
  <1>9. readableLog' = [readableLog EXCEPT ![Stream] = @ + 1]
    <2>1. \A s \in Streams : committedLog[s] \in Nat
      BY <1>5
    <2>2. readableLog' = [s \in Streams |-> committedLog[s] + (IF s = Stream THEN 1 ELSE 0)]
      BY <1>4, <1>6, <1>7
    <2>3. \A s \in Streams : committedLog[s] + (IF s = Stream THEN 1 ELSE 0)
                            = IF s = Stream THEN committedLog[s] + 1 ELSE committedLog[s]
      BY <2>1
    <2>4. readableLog' = [s \in Streams |-> IF s = Stream THEN committedLog[s] + 1 ELSE committedLog[s]]
      BY <2>2, <2>3
    <2> QED BY <1>5, <2>4
  <1>10. statusLog = "open" /\ statusLog' = statusLog
    BY <1>1, StatusOpen, StepOpen
  <1>11. Log!Write(Stream)
    BY <1>5, <1>7, <1>9, <1>10 DEF Log!Write, Log!NoDoubt, committedLog, readableLog, statusLog
  <1> QED BY <1>8, <1>11

LEMMA SyncLinkAcknowledges == IInv /\ SyncLink => Log!Acknowledge
  <1> SUFFICES ASSUME IInv, SyncLink PROVE Log!Acknowledge
    OBVIOUS
  <1>1. /\ Writing /\ step = "link" /\ powered = TRUE /\ Done /\ IInv' /\ at \in 1..Last /\ Kind = KindAt(at)
        /\ Len(Script) = Last
    BY AtWork, SyncLinkHolds DEF SyncLink
  <1>2. Kind \in {"event", "decision"}
    BY <1>1 DEF IInv, ControlHolds, StepsOf
  <1>3. at # Len(Script)
    BY <1>1, <1>2, KindsAre, LengthsAreNat DEF Last, FirstDecision, FirstLedger
  <1>4. statusLog = "open" /\ statusLog' = statusLog
    BY <1>1, <1>3, StatusOpen, DoneOpen
  <1>5. links' = links /\ links_safe' = Len(links)
    BY <1>1 DEF SyncLink
  <1>6. committedLog' = readableLog
    <2>1. links \in Seq(Streams)
      BY DEF IInv, LogsHold
    <2>2. DOMAIN links = 1..Len(links)
      BY <2>1, LenProperties
    <2>3. \A s : {i \in 1..links_safe' : links'[i] = s} = {i \in DOMAIN links : links[i] = s}
      BY <1>5, <2>2
    <2> QED BY <2>3 DEF committedLog, readableLog, Acknowledged, linked
  <1>7. readableLog' = readableLog
    BY <1>5 DEF readableLog, linked
  <1> QED BY <1>4, <1>6, <1>7 DEF Log!Acknowledge, committedLog, readableLog, statusLog

(* A power loss takes the link in doubt, or nothing. *)
LEMMA PowerLossLoses == IInv /\ PowerLoss => Log!LosePower
  <1> SUFFICES ASSUME IInv, PowerLoss PROVE Log!LosePower
    OBVIOUS
  <1>0. IInv' => LogShape'
    BY LogShapeHolds, PTL
  <1>1. /\ IInv' /\ powered = TRUE /\ powered' = FALSE /\ state' = state /\ at' = at /\ step' = step
    BY PowerLossHolds DEF PowerLoss, IInv, ControlHolds
  <1>2. Kind' = Kind /\ Stream' = Stream
    BY <1>1 DEF Kind, op, Stream
  <1>3. EventsDone' = EventsDone /\ DecisionsDone' = DecisionsDone
    BY <1>1 DEF EventsDone, DecisionsDone
  <1>4. /\ committedLog = [s \in Streams |-> IF s = "events" THEN EventsDone ELSE DecisionsDone]
        /\ readableLog = [s \in Streams |-> committedLog[s] + (IF s = Stream THEN Extra ELSE 0)]
        /\ Extra \in {0, 1}
    BY LogIs
  <1>5. /\ committedLog' = [s \in Streams |-> IF s = "events" THEN EventsDone' ELSE DecisionsDone']
        /\ readableLog' = [s \in Streams |-> committedLog'[s] + (IF s = Stream' THEN Extra' ELSE 0)]
        /\ Extra' \in {0, 1} /\ (Extra' = 0 => readableLog' = committedLog')
    BY <1>0, <1>1 DEF LogShape
  <1>6. committedLog' = committedLog
    BY <1>3, <1>4, <1>5
  <1>7. Extra' = Extra \/ Extra' = 0
    <2>1. Extra = Linked
      BY <1>1, StreamsAre
    <2>2. Extra' = 1 => step' = "link"
      BY <1>0, <1>1 DEF LogShape
    <2> QED BY <1>1, <1>5, <2>1, <2>2 DEF Linked
  <1>8. readableLog' \in {readableLog, committedLog}
    BY <1>2, <1>4, <1>5, <1>6, <1>7
  <1>9. statusLog' = IF statusLog = "sealed" THEN statusLog ELSE "stopped"
    BY <1>1 DEF statusLog, Writing
  <1> QED BY <1>6, <1>8, <1>9 DEF Log!LosePower, committedLog, readableLog, statusLog

(* The last operation of the script seals a log with nothing in doubt. *)
LEMMA FileDoneSeals ==
  ASSUME IInv, Writing, Done, UNCHANGED log_vars, step # "link"
  PROVE  Log!Seal \/ UNCHANGED Log!vars
  <1>1. committedLog' = committedLog /\ readableLog' = readableLog
    BY LogKept DEF log_vars
  <1>2. statusLog = "open" /\ statusLog' = IF at = Len(Script) THEN "sealed" ELSE statusLog
    BY StatusOpen, DoneOpen
  <1>3. Extra = 0
    BY StreamsAre
  <1>4. readableLog = committedLog
    BY <1>3, LogIs
  <1>5. CASE at = Len(Script)
    <2>1. Log!Seal
      BY <1>1, <1>2, <1>4, <1>5 DEF Log!Seal, Log!NoDoubt, committedLog, readableLog, statusLog
    <2> QED BY <2>1
  <1>6. CASE at # Len(Script)
    <2>1. statusLog' = statusLog
      BY <1>2, <1>6
    <2>2. UNCHANGED <<committedLog, readableLog, statusLog>>
      BY <1>1, <2>1
    <2> QED BY <2>2, LogVars DEF Log!vars, committedLog, readableLog, statusLog
  <1> QED BY <1>5, <1>6

LEMMA StepStutters ==
  ASSUME Writing, NEW next, Step(next), links' = links, links_safe' = links_safe
  PROVE  UNCHANGED Log!vars
  <1>1. statusLog' = statusLog /\ committedLog' = committedLog /\ readableLog' = readableLog
    BY StepOpen, LogKept
  <1> QED BY <1>1 DEF Log!vars, committedLog, readableLog, statusLog

(***************************************************************************)
(* The streams of a bundle are an append-only log: every step of the       *)
(* writer, of a crash and of a power loss is a step of EvidenceLog.        *)
(***************************************************************************)
THEOREM BundleKeepsEvidence == Spec => KeepsEvidence
  <1>1. IInv /\ [Next]_vars => [Log!Next]_(Log!vars)
    <2> SUFFICES ASSUME IInv, [Next]_vars
                 PROVE  Log!Next \/ UNCHANGED Log!vars
      OBVIOUS
    <2>1. CASE MakeDir \/ SyncDirs
      <3>1. Writing /\ Done /\ UNCHANGED log_vars /\ Kind \in {"dir", "sync_dirs"}
        BY <2>1, AtWork DEF MakeDir, SyncDirs
      <3>2. step # "link"
        BY <3>1, FileSteps
      <3> QED BY <3>1, <3>2, FileDoneSeals DEF Log!Next
    <2>2. CASE OpenTemp \/ SyncTemp \/ Replace
      BY <2>2, StepStutters DEF OpenTemp, SyncTemp, Replace, log_vars
    <2>3. CASE SyncDir
      <3>1. Writing /\ UNCHANGED log_vars /\ step # "link" /\ (Step("recorded") \/ Done)
        BY <2>3 DEF SyncDir
      <3>2. CASE Step("recorded")
        BY <3>1, <3>2, StepStutters DEF log_vars
      <3>3. CASE Done
        BY <3>1, <3>3, FileDoneSeals DEF Log!Next
      <3> QED BY <3>1, <3>2, <3>3
    <2>4. CASE BeginRecord \/ EndRecord \/ SyncRecord \/ BeginLink
      BY <2>4, StepStutters DEF BeginRecord, EndRecord, SyncRecord, BeginLink
    <2>5. CASE EndLink
      BY <2>5, EndLinkWrites DEF Log!Next
    <2>6. CASE SyncLink
      BY <2>6, SyncLinkAcknowledges DEF Log!Next
    <2>7. CASE RefuseLedgers \/ Stop
      <3>1. Writing /\ state' \in {"failed", "killed"} /\ UNCHANGED log_vars
        BY <2>7 DEF RefuseLedgers, Stop
      <3>2. statusLog = "open" /\ statusLog' = "stopped"
        BY <3>1, StatusOpen DEF statusLog, Writing
      <3>3. committedLog' = committedLog /\ readableLog' = readableLog
        BY <3>1, LogKept DEF log_vars
      <3>4. Log!Stop
        BY <3>2, <3>3 DEF Log!Stop, committedLog, readableLog, statusLog
      <3> QED BY <3>4 DEF Log!Next
    <2>8. CASE PowerLoss
      BY <2>8, PowerLossLoses DEF Log!Next
    <2>9. CASE UNCHANGED vars
      <3>1. links' = links /\ links_safe' = links_safe /\ state' = state /\ powered' = powered
        BY <2>9 DEF vars, control_vars, log_vars
      <3>2. statusLog' = statusLog /\ committedLog' = committedLog /\ readableLog' = readableLog
        BY <3>1, LogKept DEF statusLog, Writing
      <3> QED BY <3>2 DEF Log!vars, committedLog, readableLog, statusLog
    <2> QED BY <2>1, <2>2, <2>3, <2>4, <2>5, <2>6, <2>7, <2>8, <2>9 DEF Next, Over
  <1> QED BY <1>1, Invariant, LogInit, PTL DEF Spec, KeepsEvidence, Log!Spec

-----------------------------------------------------------------------------
(* The share export. *)
(* The directories hold contents the model knows. *)
ShareShape ==
  /\ parent \in [Entries -> Contents]
  /\ target \in [Entries -> Contents]
  /\ listed \subseteq [name : Entries \cup {"redaction", "raw"},
                       kind : {"file", "link", "directory"}]

(* One document or none: made by hand, or an export's, which names all.    *)
Disclosure(document) ==
  document = {} \/ \E d : document = {d} /\ (d \in ByHand \/ d.names = Raws)

(* The export's own disclosure, or the link it was written through.        *)
OwnDisclosure ==
  \/ redaction = {Link}
  \/ \E d : redaction = {d} /\ d.names = Raws /\ d.by = "export"

(* From the commitments on, an export removes every text; its disclosure,  *)
(* once begun, names them all, and outlives the export.                    *)
RemovesAll ==
  /\ Disclosure(notice) /\ Disclosure(redaction)
  /\ pc \in {"committed", "copying", "removing", "disclosing", "disclosed"} =>
       removals.names = Raws
  /\ pc \in {"disclosing", "disclosed", "returned"} => OwnDisclosure

ShareIInv == ShareShape /\ RemovesAll /\ ReturnedShareIsClean

USE ShareAssumption DEF Uncommitted, Texts, Entries, Contents

(* A disclosure of one document names what that document names. *)
LEMMA OneDocument ==
  ASSUME NEW d, redaction = {d}
  PROVE  disclosed(redaction) = d.names
  BY DEF disclosed

(* What verifies is the whole bundle, if nothing is disclosed, and else    *)
(* has no text, or just those that a document made by hand leaves.         *)
LEMMA CompleteIsWholeOrClean ==
  ASSUME ShareShape, Disclosure(redaction)
  PROVE  CompleteIsAllOrNothing
  <1> SUFFICES ASSUME is_complete(target, redaction)
               PROVE  \/ redaction = {} /\ texts(target) = Raws
                      \/ disclosed(redaction) = Raws /\ texts(target) = {}
                      \/ \E d \in ByHand : redaction = {d} /\ texts(target) = Raws \ d.names
    BY DEF CompleteIsAllOrNothing
  <1>1. target["record"] \in {Run, Rerun} /\ target[Uncommitted] = "none"
    BY DEF is_complete, blobs_hold
  <1>2. CASE redaction = {}
    <2>1. disclosed(redaction) = {}
      BY <1>2 DEF disclosed
    <2>2. \A n \in Raws : target[n] # "none"
      BY <1>1, <2>1 DEF is_complete, blobs_hold
    <2> QED BY <1>1, <1>2, <2>2 DEF texts
  <1>3. ASSUME NEW d, redaction = {d}
        PROVE  \A n \in Raws : target[n] = "none" <=> n \in d.names
    <2>1. \A n \in Raws : target[n] = "none" => n \in d.names
      BY <1>1, <1>3, OneDocument DEF is_complete, blobs_hold
    <2>2. \A n \in d.names : target[n] = "none"
      BY <1>3 DEF is_complete, redaction_holds
    <2> QED BY <2>1, <2>2
  <1>4. ASSUME NEW d, redaction = {d}
        PROVE  texts(target) = Raws \ d.names
    BY <1>1, <1>3, <1>4 DEF texts
  <1> QED BY <1>2, <1>4, OneDocument DEF Disclosure

LEMMA ShareInitHolds == ShareInit => ShareIInv
  <1> SUFFICES ASSUME ShareInit PROVE ShareIInv
    OBVIOUS
  <1>1. ShareShape
    <2>1. /\ [e \in Entries |-> IF e = Uncommitted THEN "none" ELSE Run] \in [Entries -> Contents]
          /\ [e \in Entries |-> IF e = "record" THEN Run ELSE "none"] \in [Entries -> Contents]
          /\ empty \in [Entries -> Contents]
      BY DEF empty
    <2> QED BY <2>1 DEF ShareInit, ShareShape
  <1>2. Disclosure(notice)
    <2> DEFINE d == Document(Raws, Run, Run, "whole", "export")
    <2>1. d.names = Raws
      BY DEF Document
    <2> HIDE DEF d
    <2>2. Disclosure({d}) /\ Disclosure({})
      BY <2>1 DEF Disclosure
    <2>3. notice = {} \/ notice = {d}
      BY DEF ShareInit, d
    <2> QED BY <2>2, <2>3
  <1>3. pc = "idle" /\ redaction = {}
    BY DEF ShareInit
  <1> QED
    BY <1>1, <1>2, <1>3 DEF ShareIInv, RemovesAll, ReturnedShareIsClean, Disclosure

(* A copied entry is of a kind the model knows. *)
LEMMA CopyKeeps ==
  ASSUME ShareIInv, CopyEntry
  PROVE  ShareIInv'
  <1>1. PICK e \in listed \ {RawDirectory}, content \in Contents,
             document \in {notice, {Spoiled}} :
          /\ listed' = listed \ {e}
          /\ Place(e.name, content, document) \/ UNCHANGED <<target, redaction>>
    <2> PICK e \in listed \ {RawDirectory} :
          /\ listed' = listed \ {e}
          /\ \/ Place(e.name, IF e.name \in Entries THEN parent[e.name] ELSE "none", notice)
             \/ Place(e.name, "spoiled", {Spoiled})
             \/ UNCHANGED <<target, redaction>>
      BY DEF CopyEntry
    <2>1. (IF e.name \in Entries THEN parent[e.name] ELSE "none") \in Contents
      BY DEF ShareIInv, ShareShape
    <2> QED BY <2>1
  <1>2. target' \in [Entries -> Contents]
    BY <1>1 DEF Place, ShareIInv, ShareShape
  <1>3. Disclosure(redaction')
    <2>1. Disclosure({Spoiled})
      BY DEF Disclosure, ByHand
    <2> QED BY <1>1, <2>1 DEF Place, ShareIInv, RemovesAll
  <1>4. /\ pc = "copying"
        /\ UNCHANGED <<parent, notice, pc, removals>>
    BY DEF CopyEntry
  <1> QED
    BY <1>1, <1>2, <1>3, <1>4
       DEF ShareIInv, ShareShape, RemovesAll, ReturnedShareIsClean, Disclosure

(* What is listed is an entry, the redaction or the directory of the texts.*)
LEMMA ListingIs ==
  ASSUME NEW names \in SUBSET (Entries \cup {"redaction"})
  PROVE  Listing(names) \subseteq [name : Entries \cup {"redaction", "raw"},
                                   kind : {"file", "link", "directory"}]
  <1> SUFFICES ASSUME NEW n \in names, KindNow(n) # "none"
               PROVE  [name |-> n, kind |-> KindNow(n)]
                        \in [name : Entries \cup {"redaction", "raw"},
                             kind : {"file", "link", "directory"}]
    BY DEF Listing
  <1>1. KindNow(n) \in {"file", "link"}
    <2>1. KindNow(n) \in {"file", "link", "none"}
      <3>1. CASE n = "redaction"
        BY <3>1, Zenon DEF KindNow
      <3>2. CASE n # "redaction"
        <4>1. KindNow(n) = KindOf(parent[n])
          BY <3>2 DEF KindNow
        <4>2. CASE parent[n] \in {"link", "none"}
          BY <4>1, <4>2 DEF KindOf
        <4>3. CASE parent[n] \notin {"link", "none"}
          BY <4>1, <4>3, Zenon DEF KindOf
        <4> QED BY <4>2, <4>3
      <3> QED BY <3>1, <3>2
    <2> QED BY <2>1
  <1> QED BY <1>1

(* The disclosure is written over what was copied, or through a link. *)
LEMMA WritingKeeps ==
  ASSUME ShareIInv, OpenRedaction \/ WriteRedaction
  PROVE  ShareIInv'
  <1>1. /\ ShareShape' /\ pc' \in {"disclosing", "disclosed"} /\ removals'.names = Raws
        /\ UNCHANGED <<notice, removals>>
    BY DEF OpenRedaction, WriteRedaction, ShareIInv, ShareShape, RemovesAll
  <1>2. PICK form : redaction' = Written(form)
    BY DEF OpenRedaction, WriteRedaction
  <1>3. OwnDisclosure' /\ Disclosure(redaction')
    <2>1. CASE redaction = {Link}
      <3>1. redaction' = {Link} /\ Link \in ByHand
        BY <1>2, <2>1 DEF Written, ByHand
      <3> QED BY <3>1 DEF OwnDisclosure, Disclosure
    <2>2. CASE redaction # {Link}
      <3> DEFINE d == Document(removals.names, removals.run, root, form, "export")
      <3>1. redaction' = {d} /\ d.names = Raws /\ d.by = "export"
        BY <1>1, <1>2, <2>2 DEF Written, Document
      <3> QED BY <3>1 DEF OwnDisclosure, Disclosure
    <2> QED BY <2>1, <2>2
  <1> QED
    BY <1>1, <1>3 DEF ShareIInv, RemovesAll, ReturnedShareIsClean, Disclosure

(* The steps of an export: only Return makes it returned. *)
LEMMA ExportKeeps ==
  ASSUME ShareIInv,
         \/ Begin \/ ReadSeal \/ Commitments \/ ListBundle \/ ListRaw \/ CopyEntry \/ Copied
         \/ Remove \/ OpenRedaction \/ WriteRedaction \/ Dies
  PROVE  ShareIInv'
  <1> USE DEF ShareIInv, Fail, ShareShape, RemovesAll, ReturnedShareIsClean, copy_vars
  <1>1. CASE Begin
    BY <1>1 DEF Begin, Disclosure
  <1>2. CASE ReadSeal \/ Dies
    BY <1>2 DEF ReadSeal, Dies, Disclosure
  <1>3. CASE Commitments
    BY <1>3 DEF Commitments, Disclosure
  <1>4. CASE ListBundle \/ ListRaw
    <2>1. listed' \subseteq [name : Entries \cup {"redaction", "raw"},
                             kind : {"file", "link", "directory"}]
      <3>1. CASE ListBundle
        BY <3>1, ListingIs DEF ListBundle, RawDirectory
      <3>2. CASE ListRaw
        BY <3>2, ListingIs DEF ListRaw
      <3> QED BY <1>4, <3>1, <3>2
    <2>2. /\ pc' = "copying" /\ pc \in {"committed", "copying"}
          /\ UNCHANGED <<parent, notice, target, redaction, removals>>
      BY <1>4 DEF ListBundle, ListRaw
    <2> QED BY <2>1, <2>2 DEF Disclosure
  <1>5. CASE CopyEntry
    BY <1>5, CopyKeeps
  <1>6. CASE Copied
    BY <1>6 DEF Copied, Disclosure
  <1>7. CASE Remove
    BY <1>7 DEF Remove, Disclosure
  <1>8. CASE OpenRedaction \/ WriteRedaction
    BY <1>8, WritingKeeps
  <1> QED BY <1>1, <1>2, <1>3, <1>4, <1>5, <1>6, <1>7, <1>8

(* The copy is verified last: with its disclosure, so without any text. *)
LEMMA ReturnKeeps ==
  ASSUME ShareIInv, Return
  PROVE  ShareIInv'
  <1>1. ShareShape' /\ RemovesAll'
    BY DEF ShareIInv, Return, Fail, ShareShape, RemovesAll, copy_vars, OwnDisclosure, Disclosure
  <1>2. CASE is_complete(target, redaction) /\ target["record"] = root
    <2>1. UNCHANGED <<target, root, redaction>>
      BY <1>2 DEF Return, copy_vars
    <2>2. redaction_holds(target, redaction) /\ blobs_hold(target, redaction)
      BY <1>2 DEF is_complete
    <2>3. PICK d : redaction = {d} /\ d.names = Raws /\ d.by = "export"
      <3>1. Link.form # "whole"
        BY DEF Link, Document
      <3>2. redaction # {Link}
        BY <2>2, <3>1 DEF redaction_holds
      <3> QED BY <3>2 DEF Return, ShareIInv, RemovesAll, OwnDisclosure
    <2>4. disclosed(redaction) = Raws /\ \A n \in Raws : target[n] = "none"
      BY <2>2, <2>3, OneDocument DEF redaction_holds
    <2>5. texts(target) = {}
      BY <2>2, <2>4 DEF texts, blobs_hold
    <2> QED
      BY <1>1, <1>2, <2>1, <2>2, <2>3, <2>4, <2>5
         DEF ShareIInv, ReturnedShareIsClean, texts, disclosed, redaction_holds
  <1>3. CASE ~(is_complete(target, redaction) /\ target["record"] = root)
    BY <1>1, <1>3 DEF Return, Fail, ShareIInv, ReturnedShareIsClean
  <1> QED BY <1>2, <1>3

(* What happens around it touches the parent, or clears what has failed. *)
LEMMA SurroundingsKeep ==
  ASSUME ShareIInv, Edit \/ ClearTarget \/ UNCHANGED share_vars
  PROVE  ShareIInv'
  <1> USE DEF ShareIInv, ShareShape, RemovesAll, ReturnedShareIsClean, texts, disclosed,
             redaction_holds, Disclosure, OwnDisclosure, copy_vars
  <1>1. CASE Edit
    <2>1. parent' \in [Entries -> Contents]
      BY <1>1 DEF Edit
    <2>2. Disclosure(notice')
      BY <1>1 DEF Edit
    <2> QED BY <1>1, <2>1, <2>2 DEF Edit
  <1>2. CASE ClearTarget
    BY <1>2 DEF ClearTarget, empty
  <1>3. CASE UNCHANGED share_vars
    BY <1>3 DEF share_vars
  <1> QED BY <1>1, <1>2, <1>3

LEMMA ShareInductive == ShareSpec => []ShareIInv
  <1>1. ShareIInv /\ [ShareNext]_share_vars => ShareIInv'
    BY ExportKeeps, ReturnKeeps, SurroundingsKeep DEF ShareNext, ShareOver
  <1> QED BY <1>1, ShareInitHolds, PTL DEF ShareSpec

(* An export returns no model text, and what verifies at its destination   *)
(* is the whole bundle or a share of it, whenever the export has died and  *)
(* however the parent was edited, unless the parent itself was redacted by *)
(* hand for some of its texts (create_share_bundle).                       *)
THEOREM ShareIsWholeOrCleanHolds == ShareSpec => []ShareIsWholeOrClean
  <1>1. ShareIInv => ShareIsWholeOrClean
    BY CompleteIsWholeOrClean DEF ShareIInv, RemovesAll, ShareIsWholeOrClean
  <1> QED BY <1>1, ShareInductive, PTL
=============================================================================
