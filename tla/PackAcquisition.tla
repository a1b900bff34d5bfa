--------------------------- MODULE PackAcquisition ---------------------------
(***************************************************************************)
(* What is done with the downloaded archives: a local pack is built, or    *)
(* the series of a pack of which only the manifest is committed are put    *)
(* beside it (cli/packs.py over data/catalog.py and data/builder.py), and  *)
(* the nightly matrix builds a committed pack twice from the raw directory *)
(* and compares (data/nightly.py).  Several processes do this on the same  *)
(* raw directory and pack; each may be killed at any step.                 *)
(*                                                                         *)
(* One archive gives one series of the pack, and the manifest pins both: a *)
(* manifest is the version of every archive, a series the version it was   *)
(* converted from.  The directory a process builds in for itself, staging  *)
(* or work, nobody else sees: a build there is one step.                   *)
(***************************************************************************)
EXTENDS BulkFetch

CONSTANTS
  Homes,    \* what is under the pack's name at first: "nothing", "manifest", "some"
  MaxRuns   \* bound: invocations

ASSUME PackAssumption ==
  /\ Archives # <<>> /\ IsInjective(Archives)
  /\ Homes \subseteq {"nothing", "manifest", "some"}
  /\ MaxRuns \in Nat

VARIABLES
  home,  \* the pack's directory under packs_root
  run,   \* where each process is
  runs   \* invocations so far

vars == <<bulk_vars, home, run, runs>>

Series == ToSet(Archives)
Absent == 0
Partial == MaxPublishes + 2  \* a file somebody has begun to write

no_manifest == [a \in Series |-> Absent]
half_manifest == [a \in Series |-> Partial]
is_whole(manifest) == manifest \notin {no_manifest, half_manifest}

off == [pc |-> "off", does |-> "none", builds |-> <<>>, committed |-> no_manifest,
        plan |-> {}, open |-> FALSE, result |-> "none", calm |-> FALSE]

(* The pack is new, or its manifest is committed, perhaps with a series. *)
Init ==
  /\ BulkInit
  /\ \E h \in Homes :
       home = [dir |-> h # "nothing",
               manifest |-> IF h = "nothing" THEN no_manifest ELSE [a \in Series |-> 1],
               series |-> [a \in Series |-> IF h = "some" /\ a = Head(Archives) THEN 1 ELSE Absent]]
  /\ run = [p \in Procs |-> off]
  /\ runs = 0

(* load_pack: a manifest, and every series it declares with its bytes. *)
loads == is_whole(home.manifest) /\ home.series = home.manifest

Does(p, pc) == run[p].pc = pc
Turn(p, changes) == run' = [run EXCEPT ![p] = changes]
Ended(r, how) == [off EXCEPT !.result = how, !.calm = r.calm, !.builds = IF how = "receipt" THEN r.builds ELSE <<>>]
Fails(p) == Turn(p, Ended(run[p], "failed"))
Succeeds(p, how) == Turn(p, Ended(run[p], how))

disk_vars == <<upstream, store, part, inode, odd>>

-----------------------------------------------------------------------------
(* History: a run is calm if it begins fit, nothing that it needs being in *)
(* its way, and as long as nothing fails, is published or runs beside it.  *)
active(p) == run[p].pc # "off"
upset(r) == [p \in Procs |-> IF r[p].pc = "off" THEN r[p] ELSE [r[p] EXCEPT !.calm = FALSE]]

(* A raw file that is as it is to be, or will be: what is in .part is the  *)
(* beginning, not the whole, of what is published now.                     *)
begins(s, t) == Len(s) < Len(t) /\ s = SubSeq(t, 1, Len(s))
obtainable(f, v) ==
  IF store[f] # 0 THEN bytes(store[f]) = Body(f, v)
  ELSE upstream[f.of] = v /\ begins(bytes(part[f]), Body(f, v))
fit_raw(a, vs) == \E v \in vs : \A f \in {g \in Files : g.of = a} : obtainable(f, v)
fit(does) ==
  IF home.dir
  THEN /\ is_whole(home.manifest)
       /\ \A a \in Series : fit_raw(a, {home.manifest[a]})
       /\ does = "acquire" => \A a \in Series : home.series[a] \in {Absent, home.manifest[a]}
  ELSE does = "acquire" /\ \A a \in Series : fit_raw(a, 1..(MaxPublishes + 1))

-----------------------------------------------------------------------------
started(p, does) ==
  [off EXCEPT !.does = does, !.pc = "fetch", !.calm = fit(does) /\ \A q \in Procs \ {p} : ~active(q)]

Begin(p, r) ==
  /\ run' = [upset(run) EXCEPT ![p] = r]
  /\ fetch' = IF r.pc = "fetch" THEN [fetch EXCEPT ![p] = begun] ELSE fetch
  /\ runs < MaxRuns /\ runs' = runs + 1
  /\ UNCHANGED <<disk_vars, mishaps, home>>

(* acquire_pack: a pack that loads is ready; a directory is hydrated, if   *)
(* it has a manifest.json; else the pack is built in its place.            *)
Acquire(p) ==
  /\ Does(p, "off")
  /\ LET r == started(p, "acquire")
     IN Begin(p, CASE loads -> Ended(r, "ready")
                   [] ~loads /\ home.dir /\ home.manifest = no_manifest -> Ended(r, "failed")
                   [] OTHER -> [r EXCEPT !.does = IF home.dir THEN "hydrate" ELSE "build"])

(* execute_nightly_matrix, on a fresh work root: the committed manifest is *)
(* read before anything is fetched.                                        *)
Nightly(p) ==
  /\ Does(p, "off")
  /\ LET r == started(p, "nightly")
     IN Begin(p, IF home.manifest = no_manifest THEN Ended(r, "failed")
                 ELSE [r EXCEPT !.committed = home.manifest])

(* One step of the downloads; what goes wrong upsets every run. *)
Fetching(p) ==
  /\ Does(p, "fetch") /\ Downloading(p)
  /\ run' = IF mishaps' = mishaps THEN run ELSE upset(run)
  /\ UNCHANGED <<home, runs>>

FetchFails(p) ==
  /\ Does(p, "fetch") /\ At(p, "failed")
  /\ Fails(p) /\ fetch' = [fetch EXCEPT ![p] = idle]
  /\ UNCHANGED <<disk_vars, mishaps, home, runs>>

(* build_pack: every archive is verified before any is read; there must be *)
(* no output directory.                                                    *)
Verify(p) ==
  /\ Does(p, "fetch") /\ At(p, "fetched")
  /\ fetch' = [fetch EXCEPT ![p] = idle]
  /\ IF (run[p].does = "build" /\ home.dir) \/ \E a \in Series : ~verified(a) THEN Fails(p)
     ELSE Turn(p, [run[p] EXCEPT !.pc = "read", !.builds = Append(@, [a \in Series |-> version(a)])])
  /\ UNCHANGED <<disk_vars, mishaps, home, runs>>

built(p) == Last(run[p].builds)

(* read_verified_csv_rows: every archive is hashed again as it is read.    *)
(* What was converted is then written, in place or to a private directory; *)
(* the nightly matrix does all of it twice.                                *)
Read(p) ==
  /\ Does(p, "read")
  /\ LET r == run[p]
         unchanged == \A a \in Series : installed(a, "zip") = Body([of |-> a, is |-> "zip"], built(p)[a])
         twice == r.does = "nightly" /\ Len(r.builds) = 1
     IN IF ~unchanged THEN Fails(p) /\ UNCHANGED fetch
        ELSE /\ Turn(p, [r EXCEPT !.pc = CASE r.does = "build" -> "mkdir" [] twice -> "fetch" [] OTHER -> "compare"])
             /\ fetch' = IF twice THEN [fetch EXCEPT ![p] = begun] ELSE fetch
  /\ UNCHANGED <<disk_vars, mishaps, home, runs>>

-----------------------------------------------------------------------------
(* The rest of build_pack, in place: every file is opened and then filled, *)
(* the manifest last.                                                      *)
elsewhere == <<disk_vars, fetch, runs>>

(* What is planned is done in the order of the catalog. *)
first(plan) == Archives[Min({i \in DOMAIN Archives : Archives[i] \in plan})]

MakeDirectory(p) ==
  /\ Does(p, "mkdir")
  /\ IF home.dir THEN Fails(p) /\ UNCHANGED home
     ELSE home' = [home EXCEPT !.dir = TRUE] /\ Turn(p, [run[p] EXCEPT !.pc = "write", !.plan = Series])
  /\ UNCHANGED <<elsewhere, mishaps>>

WriteFile(p) ==
  /\ Does(p, "write")
  /\ LET r == run[p]
         a == first(r.plan)
         opened == [r EXCEPT !.open = TRUE]
         filled == [r EXCEPT !.open = FALSE, !.plan = @ \ {a}]
     IN IF r.plan # {}
        THEN /\ home' = [home EXCEPT !.series[a] = IF r.open THEN built(p)[a] ELSE Partial]
             /\ Turn(p, IF r.open THEN filled ELSE opened)
        ELSE /\ home' = [home EXCEPT !.manifest = IF r.open THEN built(p) ELSE half_manifest]
             /\ Turn(p, IF r.open THEN [r EXCEPT !.open = FALSE, !.pc = "load"] ELSE opened)
  /\ UNCHANGED <<elsewhere, mishaps>>

-----------------------------------------------------------------------------
(* _hydrate_committed_manifest: what was generated must be what is         *)
(* committed, and what is installed what was generated; the rest is        *)
(* planned.                                                                *)
conflicts(p) == \E a \in Series : home.series[a] \notin {Absent, built(p)[a]}
planned_all(p) == Series
planned(p) == {a \in Series : home.series[a] = Absent}

Compare_of_series_only(p) ==
  /\ Does(p, "compare") /\ run[p].does = "hydrate"
  /\ IF conflicts(p) THEN Fails(p)
     ELSE Turn(p, [run[p] EXCEPT !.pc = "copy", !.plan = planned(p)])
  /\ UNCHANGED <<elsewhere, mishaps, home>>
Compare(p) ==
  /\ Does(p, "compare") /\ run[p].does = "hydrate"
  /\ IF home.manifest # built(p) \/ conflicts(p) THEN Fails(p)
     ELSE Turn(p, [run[p] EXCEPT !.pc = "copy", !.plan = planned(p)])
  /\ UNCHANGED <<elsewhere, mishaps, home>>

(* _copy_exclusive: "xb" opens no file that is there; then the content is  *)
(* written and flushed, and is whole for whoever reads it; the copy is     *)
(* done when fsync returns.                                                *)
OpenCopy(p) ==
  /\ Does(p, "copy") /\ run[p].plan # {} /\ ~run[p].open
  /\ LET a == first(run[p].plan)
     IN IF home.series[a] # Absent THEN Fails(p) /\ UNCHANGED home
        ELSE home' = [home EXCEPT !.series[a] = Partial] /\ Turn(p, [run[p] EXCEPT !.open = TRUE])
  /\ UNCHANGED <<elsewhere, mishaps>>

FillCopy(p) ==
  /\ Does(p, "copy") /\ run[p].open /\ home.series[first(run[p].plan)] = Partial
  /\ home' = [home EXCEPT !.series[first(run[p].plan)] = built(p)[first(run[p].plan)]]
  /\ UNCHANGED <<elsewhere, mishaps, run>>

SyncCopy(p) ==
  /\ Does(p, "copy") /\ run[p].open /\ home.series[first(run[p].plan)] # Partial
  /\ Turn(p, [run[p] EXCEPT !.open = FALSE, !.plan = @ \ {first(run[p].plan)}])
  /\ UNCHANGED <<elsewhere, mishaps, home>>

CopyFile(p) == OpenCopy(p) \/ FillCopy(p) \/ SyncCopy(p)

(* The copy raises before fsync has returned: the file is unlinked, a      *)
(* whole one like a part of one, if that does not fail in its turn.        *)
CopyFails(p) ==
  /\ Does(p, "copy") /\ run[p].open
  /\ Mishap
  /\ LET a == first(run[p].plan)
     IN \E left \in {Absent, home.series[a]} : home' = [home EXCEPT !.series[a] = left]
  /\ run' = [upset(run) EXCEPT ![p] = Ended(upset(run)[p], "failed")]
  /\ UNCHANGED elsewhere

Copied(p) ==
  /\ Does(p, "copy") /\ run[p].plan = {}
  /\ Turn(p, [run[p] EXCEPT !.pc = "load"])
  /\ UNCHANGED <<elsewhere, mishaps, home>>

(* _ready: the pack is loaded before it is called so. *)
Load(p) ==
  /\ Does(p, "load")
  /\ IF loads THEN Succeeds(p, "ready") ELSE Fails(p)
  /\ UNCHANGED <<elsewhere, mishaps, home>>

same_builds(p) == Cardinality(ToSet(run[p].builds)) = 1

(* The nightly comparison: of the two builds, file by file, and of the     *)
(* manifest with the committed one; then the receipt.  A pack that is as   *)
(* committed is valid, and its evidence replays (the replay's own module). *)
Receipt(p) ==
  /\ Does(p, "compare") /\ run[p].does = "nightly"
  /\ IF same_builds(p) /\ built(p) = run[p].committed THEN Succeeds(p, "receipt") ELSE Fails(p)
  /\ UNCHANGED <<elsewhere, mishaps, home>>

(* The process is killed: nothing is cleaned up. *)
Kill(p) ==
  /\ active(p) /\ Mishap
  /\ run' = [upset(run) EXCEPT ![p] = off] /\ fetch' = [fetch EXCEPT ![p] = idle]
  /\ UNCHANGED <<disk_vars, home, runs>>

Published ==
  /\ Publish /\ run' = upset(run)
  /\ UNCHANGED <<home, runs>>

Next ==
  \/ Published
  \/ \E p \in Procs :
       \/ Acquire(p) \/ Nightly(p) \/ Fetching(p) \/ FetchFails(p) \/ Verify(p) \/ Read(p)
       \/ MakeDirectory(p) \/ WriteFile(p)
       \/ Compare(p) \/ CopyFile(p) \/ CopyFails(p) \/ Copied(p) \/ Load(p) \/ Receipt(p) \/ Kill(p)

Spec == Init /\ [][Next]_vars

-----------------------------------------------------------------------------
(* What a series may lose: the process that still has the file open, its   *)
(* content written but fsync not returned, fails and takes it back.        *)
Kept(old, new) == old # Absent /\ old # Partial => new = old
TakenBack(a) ==
  /\ \E p \in Procs : Does(p, "copy") /\ run[p].open /\ first(run[p].plan) = a /\ run'[p].result = "failed"
  /\ home'.series[a] = Absent

(* A pack loads when it is called ready, and goes on loading until a copy  *)
(* of one of its series fails, its own or another process's; beside a      *)
(* whole manifest every series is the pinned one or is not whole; a        *)
(* receipt is for the manifest that is committed.  No step replaces a      *)
(* manifest or a series that is whole, whoever runs beside it, and         *)
(* whatever is published.                                                  *)
KeepsThePin ==
  [][/\ \A p \in Procs :
          /\ run'[p].result = "ready" => loads' \/ run[p].result = "ready"
          /\ run'[p].result = "receipt" => \A i \in DOMAIN run'[p].builds : run'[p].builds[i] = home'.manifest
     /\ loads => loads' \/ \E a \in Series : TakenBack(a)
     /\ is_whole(home'.manifest) => \A a \in Series : home'.series[a] \in {Absent, Partial, home'.manifest[a]}
     /\ \A a \in Series :
          /\ Kept(home.manifest[a], home'.manifest[a])
          /\ Kept(home.series[a], home'.series[a]) \/ TakenBack(a)]_vars

(* A run that meets no failure, no new version and no other process, and   *)
(* that begins where nothing stands in its way, does not fail: what        *)
(* earlier runs, killed at any step, have left can stop it only as a .part *)
(* that is whole or of another version, as archives that do not fit their  *)
(* checksum or the pin, as a directory without a manifest, or as a series  *)
(* that is not whole.                                                      *)
CalmRunsDoNotFail == \A p \in Procs : run[p].calm => run[p].result # "failed"
=============================================================================
