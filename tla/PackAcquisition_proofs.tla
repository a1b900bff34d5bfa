----------------------- MODULE PackAcquisition_proofs -----------------------
(***************************************************************************)
(* What the acquisition of a pack keeps, for any number of processes,      *)
(* archives, retries, publications and mishaps: nothing that is whole is   *)
(* replaced, what is called ready or is given a receipt is what the        *)
(* manifest pins, a raw file is what was published once, and a run that    *)
(* nothing disturbs and that begins fit does not fail.  Three invariants:  *)
(* PinHolds, of the pack's directory, CacheHolds, of the downloads, and    *)
(* CalmHolds, of the one run that nothing disturbs.                        *)
(***************************************************************************)
EXTENDS PackAcquisition, SequenceTheorems, FiniteSetTheorems, WellFoundedInduction, TLAPS

(* A manifest that is whole: a version of every archive. *)
Versions == 1..(MaxPublishes + 1)
Pins == [Series -> Versions]

IsRun(r) ==
  r = [pc |-> r.pc, does |-> r.does, builds |-> r.builds, committed |-> r.committed,
       plan |-> r.plan, open |-> r.open, result |-> r.result, calm |-> r.calm]

HomeShape ==
  /\ home = [dir |-> home.dir, manifest |-> home.manifest, series |-> home.series]
  /\ home.dir \in BOOLEAN
  /\ home.manifest \in Pins \cup {no_manifest, half_manifest}
  /\ home.series \in [Series -> 0..(MaxPublishes + 2)]
  /\ ~home.dir => home.manifest = no_manifest /\ home.series = no_manifest

(* Beside a manifest that is whole, a series is the pinned one or not whole. *)
SeriesArePinned == is_whole(home.manifest) => \A a \in Series : home.series[a] \in {Absent, Partial, home.manifest[a]}

(* In the middle of a build in place: what is not planned any more is      *)
(* there, what is planned is not, and the manifest comes last.             *)
WritesHome(r) ==
  /\ home.dir /\ ~is_whole(home.manifest)
  /\ r.plan \subseteq Series
  /\ \A a \in Series : IF a \in r.plan THEN home.series[a] \in {Absent, Partial}
                       ELSE home.series[a] = Last(r.builds)[a]

(* In the middle of a hydration: it is for the manifest that is there, and *)
(* the file it has opened is there, whole or not.                          *)
CopiesHome(r) ==
  /\ home.manifest = Last(r.builds)
  /\ r.open /\ first(r.plan) \in Series => home.series[first(r.plan)] \in {Partial, home.manifest[first(r.plan)]}

RunHolds(r) ==
  /\ IsRun(r) /\ r.builds \in Seq(Pins)
  /\ r.pc \in {"read", "mkdir", "write", "copy", "compare", "load"} => r.builds # <<>>
  /\ r.pc # "off" /\ r.does = "nightly" =>
       r.committed = half_manifest \/ (home.manifest \in Pins /\ r.committed = home.manifest)
  /\ r.pc = "write" => WritesHome(r)
  /\ r.pc = "copy" => CopiesHome(r)
  /\ r.pc # "off" => r.result = "none"
  /\ r.pc \in {"fetch", "read", "mkdir", "compare"} => ~r.open
  /\ r.result = "receipt" => \A i \in DOMAIN r.builds : r.builds[i] = home.manifest

(* One process builds in place; no two have opened the same file. *)
Apart(p, q) ==
  /\ ~(run[p].pc = "write" /\ run[q].pc = "write")
  /\ run[p].pc = "copy" /\ run[p].open /\ run[q].pc = "copy" /\ run[q].open =>
       first(run[p].plan) # first(run[q].plan) \/ first(run[p].plan) \notin Series

PinHolds ==
  /\ HomeShape /\ SeriesArePinned
  /\ run = [p \in Procs |-> run[p]]
  /\ \A p \in Procs : RunHolds(run[p])
  /\ \A p, q \in Procs : p # q => Apart(p, q)

-----------------------------------------------------------------------------
LEMMA SeriesAre ==
  /\ Series # {} /\ Archives \in Seq(Series) /\ ToSet(Archives) = Series
  /\ MaxPublishes \in Nat /\ Absent \notin Versions /\ Partial \notin Versions
  /\ Absent # Partial /\ Absent \in 0..(MaxPublishes + 2) /\ Partial \in 0..(MaxPublishes + 2)
  /\ Versions \subseteq 0..(MaxPublishes + 2)
  <1>1. Archives \in Seq(Series) /\ Archives # <<>> /\ MaxPublishes \in Nat
    BY BulkAssumption, PackAssumption DEF Series
  <1>2. Archives[1] \in ToSet(Archives)
    BY <1>1 DEF ToSet
  <1> QED BY <1>1, <1>2 DEF Absent, Partial, Versions, Series

LEMMA WholeIs ==
  /\ \A m \in Pins : m \notin {no_manifest, half_manifest} /\ \A a \in Series : m[a] \in Versions
  /\ HomeShape => (is_whole(home.manifest) <=> home.manifest \in Pins)
  <1>1. PICK a \in Series : TRUE
    BY SeriesAre
  <1>2. no_manifest[a] = Absent /\ half_manifest[a] = Partial
    BY DEF no_manifest, half_manifest
  <1>3. \A m \in Pins : \A b \in Series : m[b] \in Versions
    BY DEF Pins
  <1>4. \A m \in Pins : m \notin {no_manifest, half_manifest}
    BY <1>1, <1>2, <1>3, SeriesAre
  <1> QED BY <1>3, <1>4 DEF HomeShape, is_whole

LEMMA BuiltIs ==
  ASSUME NEW r, r.builds \in Seq(Pins), r.builds # <<>>
  PROVE  Last(r.builds) \in Pins
  BY DEF Last

(* What is planned has a first archive. *)
LEMMA FirstIs ==
  ASSUME NEW plan, plan \subseteq Series, plan # {}
  PROVE  first(plan) \in plan
  <1> DEFINE less == {ij \in Nat \X Nat : ij[1] < ij[2]}
  <1>1. IsWellFoundedOn(less, Nat)
    BY NatLessThanWellFounded DEF OpToRel
  <1>2. PICK places : places = {i \in DOMAIN Archives : Archives[i] \in plan}
    OBVIOUS
  <1>3. places \subseteq Nat /\ places # {}
    <2>1. PICK a \in plan : a \in ToSet(Archives) /\ DOMAIN Archives \subseteq Nat
      BY SeriesAre
    <2> QED BY <1>2, <2>1 DEF ToSet
  <1>4. PICK x \in places : \A y \in places : <<y, x>> \notin less
    BY <1>1, <1>3, WFMin
  <1>5. \A y \in places : x <= y
    <2> TAKE y \in places
    <2>1. x \in Nat /\ y \in Nat /\ <<y, x>> \notin less
      BY <1>3, <1>4
    <2> QED BY <2>1
  <1>6. Min(places) \in places
    BY <1>5 DEF Min
  <1> QED BY <1>2, <1>6 DEF first

-----------------------------------------------------------------------------
LEMMA PinInit == Init => PinHolds
  <1> SUFFICES ASSUME Init PROVE PinHolds
    OBVIOUS
  <1>1. PICK h \in Homes :
          home = [dir |-> h # "nothing",
                  manifest |-> IF h = "nothing" THEN no_manifest ELSE [a \in Series |-> 1],
                  series |-> [a \in Series |-> IF h = "some" /\ a = Head(Archives) THEN 1 ELSE Absent]]
    BY DEF Init
  <1>2. 1 \in Versions /\ [a \in Series |-> 1] \in Pins
    BY SeriesAre DEF Versions, Pins
  <1>3. HomeShape
    BY <1>1, <1>2, SeriesAre, PackAssumption DEF HomeShape, no_manifest
  <1>4. SeriesArePinned
    BY <1>1, <1>2, SeriesAre DEF SeriesArePinned, is_whole
  <1>5. RunHolds(off)
    BY DEF RunHolds, off, IsRun
  <1>6. run = [p \in Procs |-> off]
    BY DEF Init
  <1> QED BY <1>3, <1>4, <1>5, <1>6 DEF PinHolds, Apart, off

-----------------------------------------------------------------------------
(* Two states of a run that the home can not tell apart. *)
Alike(r, s) ==
  /\ s.pc = r.pc /\ s.does = r.does /\ s.builds = r.builds /\ s.committed = r.committed
  /\ s.plan = r.plan /\ s.open = r.open /\ s.result = r.result /\ IsRun(s)

LEMMA AlikeHolds ==
  ASSUME NEW r, NEW s, Alike(r, s), RunHolds(r)
  PROVE  RunHolds(s)
  BY DEF Alike, RunHolds, WritesHome, CopiesHome

LEMMA UpsetIs ==
  ASSUME \A p \in Procs : RunHolds(run[p])
  PROVE  /\ upset(run) = [p \in Procs |-> upset(run)[p]]
         /\ \A p \in Procs : Alike(run[p], upset(run)[p])
  <1>1. ASSUME NEW r, IsRun(r) PROVE Alike(r, r) /\ Alike(r, [r EXCEPT !.calm = FALSE])
    <2>1. PICK s : s = [r EXCEPT !.calm = FALSE]
      OBVIOUS
    <2>2. Alike(r, s)
      BY <1>1, <2>1 DEF Alike, IsRun
    <2>3. Alike(r, r)
      BY <1>1 DEF Alike
    <2> QED BY <2>1, <2>2, <2>3
  <1>2. \A p \in Procs : IsRun(run[p])
    BY DEF RunHolds
  <1>3. \A p \in Procs : upset(run)[p] \in {run[p], [run[p] EXCEPT !.calm = FALSE]}
    BY DEF upset
  <1> QED BY <1>1, <1>2, <1>3 DEF upset

(* The home stays, and all but one run stay where they are. *)
OthersAreAlike(p) ==
  /\ run' = [q \in Procs |-> run'[q]]
  /\ \A q \in Procs \ {p} : Alike(run[q], run'[q])

LEMMA QuietKeepsPin ==
  ASSUME PinHolds, NEW p \in Procs, UNCHANGED home, OthersAreAlike(p), RunHolds(run'[p]),
         run'[p].pc # "write" \/ run[p].pc = "write",
         run'[p].pc # "copy" \/ ~run'[p].open \/ Alike(run[p], run'[p])
  PROVE  PinHolds'
  <1>1. ASSUME NEW q \in Procs, NEW r, RunHolds(r), run'[q] = r PROVE RunHolds(run[q])'
    BY <1>1 DEF RunHolds, WritesHome, CopiesHome
  <1>2. ASSUME NEW q \in Procs PROVE RunHolds(run[q])'
    <2>1. CASE q = p
      BY <1>1, <2>1
    <2>2. CASE q # p
      <3>1. RunHolds(run[q]) /\ Alike(run[q], run'[q])
        BY <2>2 DEF PinHolds, OthersAreAlike
      <3> QED BY <1>1, <3>1, AlikeHolds
    <2> QED BY <2>1, <2>2
  <1>3. ASSUME NEW q \in Procs, NEW s \in Procs, q # s PROVE Apart(q, s)'
    <2>1. Apart(q, s)
      BY <1>3 DEF PinHolds
    <2>2. \A t \in Procs : run'[t].pc = "write" => run[t].pc = "write"
      BY DEF OthersAreAlike, Alike
    <2>3. \A t \in Procs : run'[t].pc = "copy" /\ run'[t].open =>
             run[t].pc = "copy" /\ run[t].open /\ run[t].plan = run'[t].plan
      BY DEF OthersAreAlike, Alike
    <2> QED BY <2>1, <2>2, <2>3 DEF Apart
  <1>4. HomeShape' /\ SeriesArePinned'
    BY DEF PinHolds, HomeShape, SeriesArePinned
  <1> QED BY <1>2, <1>3, <1>4 DEF PinHolds, OthersAreAlike

LEMMA TurnMoves ==
  ASSUME PinHolds, NEW p \in Procs, NEW r, Turn(p, r) \/ run' = [upset(run) EXCEPT ![p] = r]
  PROVE  OthersAreAlike(p) /\ run'[p] = r
  <1>1. /\ run = [q \in Procs |-> run[q]] /\ \A q \in Procs : Alike(run[q], run[q])
        /\ upset(run) = [q \in Procs |-> upset(run)[q]] /\ \A q \in Procs : Alike(run[q], upset(run)[q])
    BY UpsetIs DEF PinHolds, Alike, RunHolds
  <1>2. CASE Turn(p, r)
    BY <1>1, <1>2 DEF Turn, OthersAreAlike
  <1>3. CASE run' = [upset(run) EXCEPT ![p] = r]
    <2>1. PICK u : u = upset(run)
      OBVIOUS
    <2>2. run' = [u EXCEPT ![p] = r] /\ u = [q \in Procs |-> u[q]] /\ \A q \in Procs : Alike(run[q], u[q])
      BY <1>1, <1>3, <2>1
    <2> QED BY <2>2 DEF OthersAreAlike
  <1> QED BY <1>2, <1>3

LEMMA EndedHolds ==
  ASSUME NEW r, NEW how,
         how = "receipt" => r.builds \in Seq(Pins) /\ \A i \in DOMAIN r.builds : r.builds[i] = home.manifest
  PROVE  RunHolds(Ended(r, how)) /\ Ended(r, how).pc = "off"
  <1>1. PICK e : e = Ended(r, how)
    OBVIOUS
  <1>2. /\ IsRun(e) /\ e.pc = "off" /\ e.result = how
        /\ e.builds = IF how = "receipt" THEN r.builds ELSE <<>>
    BY <1>1 DEF Ended, off, IsRun
  <1>3. e.builds \in Seq(Pins)
    BY <1>2
  <1> QED BY <1>1, <1>2, <1>3 DEF RunHolds

LEMMA EndKeepsPin ==
  ASSUME PinHolds, NEW p \in Procs, UNCHANGED home, OthersAreAlike(p), NEW r, NEW how,
         run'[p] = Ended(r, how),
         how = "receipt" => r.builds \in Seq(Pins) /\ \A i \in DOMAIN r.builds : r.builds[i] = home.manifest
  PROVE  PinHolds'
  <1>1. RunHolds(run'[p]) /\ run'[p].pc = "off"
    BY EndedHolds
  <1> QED BY <1>1, QuietKeepsPin

LEMMA FailKeepsPin ==
  ASSUME PinHolds, NEW p \in Procs, UNCHANGED home, Fails(p)
  PROVE  PinHolds'
  <1>1. OthersAreAlike(p) /\ run'[p] = Ended(run[p], "failed")
    BY TurnMoves DEF Fails
  <1> QED BY <1>1, EndKeepsPin

(* A run goes on, where it touches the home not yet or no more. *)
LEMMA GoKeepsPin ==
  ASSUME PinHolds, NEW p \in Procs, UNCHANGED home, NEW r, Turn(p, r), RunHolds(r),
         r.pc \in {"fetch", "read", "mkdir", "compare", "load"}
  PROVE  PinHolds'
  <1>1. OthersAreAlike(p) /\ run'[p] = r
    BY TurnMoves
  <1> QED BY <1>1, QuietKeepsPin

-----------------------------------------------------------------------------
(* The steps that leave the home alone. *)
LEMMA BegunHolds ==
  ASSUME NEW r, IsRun(r), r.builds = <<>>, r.pc = "fetch", r.result = "none", ~r.open,
         r.does = "nightly" => r.committed = half_manifest \/ (home.manifest \in Pins /\ r.committed = home.manifest)
  PROVE  RunHolds(r)
  <1>1. <<>> \in Seq(Pins)
    OBVIOUS
  <1> QED BY <1>1 DEF RunHolds

LEMMA BeginKeepsPin ==
  ASSUME PinHolds, NEW p \in Procs, Acquire(p) \/ Nightly(p)
  PROVE  PinHolds'
  <1>1. ASSUME NEW does PROVE /\ IsRun(started(p, does)) /\ started(p, does).builds = <<>>
                              /\ started(p, does).pc = "fetch" /\ started(p, does).result = "none"
                              /\ started(p, does).does = does /\ ~started(p, does).open
    <2>1. PICK calm : calm = (fit(does) /\ \A q \in Procs \ {p} : ~active(q))
      OBVIOUS
    <2>2. started(p, does) = [off EXCEPT !.does = does, !.pc = "fetch", !.calm = calm]
      BY <2>1 DEF started
    <2> QED BY <2>2 DEF off, IsRun
  <1>2. CASE Acquire(p)
    <2>1. PICK r, h : /\ r = started(p, "acquire")
                      /\ Begin(p, h)
                      /\ h = CASE loads -> Ended(r, "ready")
                               [] ~loads /\ home.dir /\ home.manifest = no_manifest -> Ended(r, "failed")
                               [] OTHER -> [r EXCEPT !.does = IF home.dir THEN "hydrate" ELSE "build"]
      BY <1>2 DEF Acquire
    <2>2. OthersAreAlike(p) /\ run'[p] = h /\ UNCHANGED home
      BY <2>1, TurnMoves DEF Begin
    <2>3. CASE loads
      BY <2>1, <2>2, <2>3, EndKeepsPin
    <2>4. CASE ~loads /\ home.dir /\ home.manifest = no_manifest
      BY <2>1, <2>2, <2>4, EndKeepsPin
    <2>5. CASE ~loads /\ ~(home.dir /\ home.manifest = no_manifest)
      <3>1. PICK does \in {"hydrate", "build"} : h = [r EXCEPT !.does = does]
        BY <2>1, <2>5
      <3>2. /\ IsRun(h) /\ h.does = does /\ h.builds = r.builds /\ h.pc = r.pc /\ h.result = r.result /\ h.open = r.open
        BY <1>1, <2>1, <3>1 DEF IsRun
      <3>3. RunHolds(h) /\ h.pc = "fetch"
        <4>1. h.does # "nightly" /\ h.builds = <<>> /\ h.pc = "fetch" /\ h.result = "none" /\ ~h.open
          BY <1>1, <2>1, <3>1, <3>2
        <4> QED BY <3>2, <4>1, BegunHolds
      <3> QED BY <2>2, <3>3, QuietKeepsPin
    <2> QED BY <2>3, <2>4, <2>5
  <1>3. CASE Nightly(p)
    <2>1. PICK r, h : /\ r = started(p, "nightly")
                      /\ Begin(p, h)
                      /\ h = IF home.manifest = no_manifest THEN Ended(r, "failed")
                             ELSE [r EXCEPT !.committed = home.manifest]
      BY <1>3 DEF Nightly
    <2>2. OthersAreAlike(p) /\ run'[p] = h /\ UNCHANGED home
      BY <2>1, TurnMoves DEF Begin
    <2>3. CASE home.manifest = no_manifest
      BY <2>1, <2>2, <2>3, EndKeepsPin
    <2>4. CASE home.manifest # no_manifest
      <3>1. home.manifest = half_manifest \/ home.manifest \in Pins
        BY <2>4 DEF PinHolds, HomeShape
      <3>2. /\ IsRun(h) /\ h.builds = r.builds /\ h.pc = r.pc /\ h.result = r.result /\ h.open = r.open
            /\ h.committed = home.manifest
        BY <1>1, <2>1, <2>4 DEF IsRun
      <3>3. RunHolds(h) /\ h.pc = "fetch"
        BY <1>1, <2>1, <3>1, <3>2, BegunHolds
      <3> QED BY <2>2, <3>3, QuietKeepsPin
    <2> QED BY <2>3, <2>4
  <1> QED BY <1>2, <1>3

LEMMA VerifyKeepsPin ==
  ASSUME PinHolds, NEW p \in Procs, Verify(p)
  PROVE  PinHolds'
  <1>1. CASE Fails(p)
    BY <1>1, FailKeepsPin DEF Verify
  <1>2. CASE ~Fails(p)
    <2>0. PICK built_now : built_now = [a \in Series |-> version(a)]
      OBVIOUS
    <2>1. PICK r : /\ r = [run[p] EXCEPT !.pc = "read", !.builds = Append(@, built_now)]
                   /\ Turn(p, r)
      BY <1>2, <2>0 DEF Verify
    <2>2. /\ UNCHANGED home /\ run[p].pc = "fetch" /\ RunHolds(run[p])
          /\ \A a \in Series : verified(a)
      BY <1>2 DEF Verify, Does, PinHolds
    <2>3. built_now \in Pins
      <3>1. \A a \in Series : version(a) \in Versions
        BY <2>2 DEF verified, version, Versions
      <3> QED BY <2>0, <3>1 DEF Pins
    <2>4. PICK builds \in Seq(Pins) : builds = Append(run[p].builds, built_now) /\ builds # <<>>
      <3>1. run[p].builds \in Seq(Pins)
        BY <2>2 DEF RunHolds
      <3>2. PICK builds : builds = Append(run[p].builds, built_now)
        OBVIOUS
      <3>3. builds \in Seq(Pins) /\ Len(builds) = Len(run[p].builds) + 1 /\ Len(run[p].builds) \in Nat
        BY <2>3, <3>1, <3>2
      <3>4. builds # <<>>
        BY <3>3
      <3> QED BY <3>2, <3>3, <3>4
    <2>5. /\ IsRun(r) /\ r.pc = "read" /\ r.builds = builds /\ r.does = run[p].does
          /\ r.committed = run[p].committed /\ r.result = run[p].result /\ r.open = run[p].open
      BY <2>1, <2>2, <2>4 DEF RunHolds, IsRun
    <2>6. RunHolds(r)
      BY <2>2, <2>4, <2>5 DEF RunHolds
    <2> QED BY <2>1, <2>2, <2>5, <2>6, GoKeepsPin
  <1> QED BY <1>1, <1>2

LEMMA ReadKeepsPin ==
  ASSUME PinHolds, NEW p \in Procs, Read(p)
  PROVE  PinHolds'
  <1>1. CASE Fails(p)
    BY <1>1, FailKeepsPin DEF Read, elsewhere
  <1>2. CASE ~Fails(p)
    <2>0. PICK pc \in {"mkdir", "fetch", "compare"} : Turn(p, [run[p] EXCEPT !.pc = pc])
      BY <1>2 DEF Read
    <2>1. PICK r : r = [run[p] EXCEPT !.pc = pc] /\ Turn(p, r)
      BY <2>0
    <2>2. /\ UNCHANGED home /\ run[p].pc = "read" /\ RunHolds(run[p])
      BY DEF Read, Does, PinHolds
    <2>3. /\ IsRun(r) /\ r.pc = pc /\ r.builds = run[p].builds /\ r.does = run[p].does
          /\ r.committed = run[p].committed /\ r.result = run[p].result /\ r.open = run[p].open
      BY <2>1, <2>2 DEF RunHolds, IsRun
    <2>4. RunHolds(r)
      BY <2>1, <2>2, <2>3 DEF RunHolds
    <2> QED BY <2>1, <2>2, <2>3, <2>4, GoKeepsPin
  <1> QED BY <1>1, <1>2

(* Downloads, their failures, and what is published, seen from the home. *)
LEMMA UpsetKeepsPin ==
  ASSUME PinHolds, UNCHANGED home, run' \in {run, upset(run)}
  PROVE  PinHolds'
  <1>1. /\ \A p \in Procs : Alike(run[p], run[p])
        /\ upset(run) = [q \in Procs |-> upset(run)[q]] /\ \A p \in Procs : Alike(run[p], upset(run)[p])
    BY UpsetIs DEF PinHolds, Alike, RunHolds
  <1>2. run' = [q \in Procs |-> run'[q]] /\ \A p \in Procs : Alike(run[p], run'[p])
    BY <1>1 DEF PinHolds
  <1>3. CASE Procs = {}
    BY <1>2, <1>3 DEF PinHolds, HomeShape, SeriesArePinned
  <1>4. CASE Procs # {}
    <2>1. PICK p \in Procs : TRUE
      BY <1>4
    <2>2. RunHolds(run[p]) /\ Alike(run[p], run'[p])
      BY <1>2 DEF PinHolds
    <2>3. RunHolds(run'[p])
      BY <2>2, AlikeHolds
    <2> QED BY <1>2, <2>2, <2>3, QuietKeepsPin DEF OthersAreAlike, Alike
  <1> QED BY <1>3, <1>4

LEMMA KillKeepsPin ==
  ASSUME PinHolds, NEW p \in Procs, Kill(p)
  PROVE  PinHolds'
  <1>1. OthersAreAlike(p) /\ run'[p] = off /\ UNCHANGED home
    BY TurnMoves DEF Kill
  <1>2. RunHolds(off) /\ off.pc = "off"
    <2>1. IsRun(off) /\ off.builds = <<>> /\ off.pc = "off" /\ off.result = "none"
      BY DEF IsRun, off
    <2>2. off.builds \in Seq(Pins)
      BY <2>1
    <2> QED BY <2>1, <2>2 DEF RunHolds
  <1> QED BY <1>1, <1>2, QuietKeepsPin

LEMMA CompareKeepsPin ==
  ASSUME PinHolds, NEW p \in Procs, Compare(p)
  PROVE  PinHolds'
  <1>1. CASE Fails(p)
    BY <1>1, FailKeepsPin DEF Compare
  <1>2. CASE ~Fails(p)
    <2>1. PICK left, r : r = [run[p] EXCEPT !.pc = "copy", !.plan = left] /\ Turn(p, r)
      <3>1. PICK left : left = planned(p)
        OBVIOUS
      <3>2. PICK r : r = [run[p] EXCEPT !.pc = "copy", !.plan = left] /\ Turn(p, r)
        BY <1>2, <3>1 DEF Compare
      <3> QED BY <3>2
    <2>2. /\ UNCHANGED home /\ run[p].pc = "compare" /\ RunHolds(run[p]) /\ home.manifest = Last(run[p].builds)
      BY <1>2 DEF Compare, Does, PinHolds, built
    <2>3. /\ IsRun(r) /\ r.pc = "copy" /\ r.builds = run[p].builds /\ r.does = run[p].does
          /\ r.committed = run[p].committed /\ r.result = run[p].result /\ r.open = run[p].open
      BY <2>1, <2>2 DEF RunHolds, IsRun
    <2>4. RunHolds(r) /\ ~r.open
      BY <2>2, <2>3 DEF RunHolds, CopiesHome
    <2>5. OthersAreAlike(p) /\ run'[p] = r
      BY <2>1, TurnMoves
    <2> QED BY <2>2, <2>3, <2>4, <2>5, QuietKeepsPin
  <1> QED BY <1>1, <1>2

LEMMA CopiedKeepsPin ==
  ASSUME PinHolds, NEW p \in Procs, Copied(p)
  PROVE  PinHolds'
  <1>1. PICK r : r = [run[p] EXCEPT !.pc = "load"] /\ Turn(p, r)
    BY DEF Copied
  <1>2. UNCHANGED home /\ run[p].pc = "copy" /\ RunHolds(run[p])
    BY DEF Copied, Does, PinHolds
  <1>3. /\ IsRun(r) /\ r.pc = "load" /\ r.builds = run[p].builds /\ r.does = run[p].does
        /\ r.committed = run[p].committed /\ r.result = run[p].result
    BY <1>1, <1>2 DEF RunHolds, IsRun
  <1>4. RunHolds(r)
    BY <1>2, <1>3 DEF RunHolds
  <1> QED BY <1>1, <1>2, <1>3, <1>4, GoKeepsPin

LEMMA LoadKeepsPin ==
  ASSUME PinHolds, NEW p \in Procs, Load(p)
  PROVE  PinHolds'
  <1>1. CASE Fails(p)
    BY <1>1, FailKeepsPin DEF Load
  <1>2. CASE loads /\ Succeeds(p, "ready")
    <2>1. OthersAreAlike(p) /\ run'[p] = Ended(run[p], "ready") /\ UNCHANGED home
      BY <1>2, TurnMoves DEF Succeeds, Load
    <2> QED BY <1>2, <2>1, EndKeepsPin
  <1> QED BY <1>1, <1>2 DEF Load

(* Builds that are all the same are all the last. *)
LEMMA SameBuilds ==
  ASSUME NEW p \in Procs, run[p].builds \in Seq(Pins), run[p].builds # <<>>, same_builds(p)
  PROVE  \A i \in DOMAIN run[p].builds : run[p].builds[i] = built(p)
  <1>1. PICK b : b = run[p].builds /\ b \in Seq(Pins) /\ b # <<>>
    OBVIOUS
  <1>2. Len(b) \in DOMAIN b /\ built(p) = b[Len(b)]
    BY <1>1 DEF built, Last
  <1>3. Cardinality(ToSet(b)) = 1 /\ IsFiniteSet(ToSet(b))
    <2>1. Cardinality(ToSet(b)) = 1
      BY <1>1 DEF same_builds
    <2>2. b \in [1..Len(b) -> Pins] /\ Len(b) \in Nat
      BY <1>1
    <2>3. ToSet(b) = {b[i] : i \in 1..Len(b)}
      BY <2>2 DEF ToSet
    <2>4. PICK f : f = [i \in 1..Len(b) |-> b[i]]
      OBVIOUS
    <2>5. f \in Surjection(1..Len(b), ToSet(b))
      BY <2>2, <2>3, <2>4 DEF Surjection
    <2>6. IsFiniteSet(1..Len(b))
      <3>1. PICK n \in Nat : n = Len(b)
        BY <2>2
      <3>2. IsFiniteSet(1..n)
        BY FS_Interval
      <3> QED BY <3>1, <3>2
    <2> QED BY <2>1, <2>5, <2>6, FS_Surjection
  <1>4. PICK x : ToSet(b) = {x}
    BY <1>3, FS_Singleton
  <1>5. \A i \in DOMAIN b : b[i] \in ToSet(b)
    BY DEF ToSet
  <1> QED BY <1>1, <1>2, <1>4, <1>5

LEMMA ReceiptKeepsPin ==
  ASSUME PinHolds, NEW p \in Procs, Receipt(p)
  PROVE  PinHolds'
  <1>1. CASE Fails(p)
    BY <1>1, FailKeepsPin DEF Receipt
  <1>2. CASE same_builds(p) /\ built(p) = run[p].committed /\ Succeeds(p, "receipt")
    <2>1. OthersAreAlike(p) /\ run'[p] = Ended(run[p], "receipt") /\ UNCHANGED home
      BY <1>2, TurnMoves DEF Succeeds, Receipt
    <2>2. /\ run[p].pc = "compare" /\ run[p].does = "nightly" /\ RunHolds(run[p])
      BY DEF Receipt, Does, PinHolds
    <2>3. run[p].builds \in Seq(Pins) /\ run[p].builds # <<>> /\ built(p) \in Pins
      BY <2>2, BuiltIs DEF RunHolds, built
    <2>4. run[p].committed = home.manifest
      BY <1>2, <2>2, <2>3, WholeIs DEF RunHolds
    <2>5. \A i \in DOMAIN run[p].builds : run[p].builds[i] = home.manifest
      BY <1>2, <2>3, <2>4, SameBuilds
    <2> QED BY <2>1, <2>3, <2>5, EndKeepsPin
  <1> QED BY <1>1, <1>2 DEF Receipt

-----------------------------------------------------------------------------
(* The steps that change the home. *)
LEMMA FileChanges ==
  ASSUME HomeShape, NEW a, NEW v, a \in Series => v \in 0..(MaxPublishes + 2), home' = [home EXCEPT !.series[a] = v]
  PROVE  /\ home' = [dir |-> home.dir, manifest |-> home.manifest, series |-> home'.series]
         /\ home'.series \in [Series -> 0..(MaxPublishes + 2)]
         /\ \A b \in Series : home'.series[b] = IF b = a THEN v ELSE home.series[b]
  <1>1. PICK dir, manifest, series :
          home = [dir |-> dir, manifest |-> manifest, series |-> series]
    BY DEF HomeShape
  <1>2. home.series = series /\ series \in [Series -> 0..(MaxPublishes + 2)]
    BY <1>1 DEF HomeShape
  <1>3. PICK new : new = [series EXCEPT ![a] = v]
    OBVIOUS
  <1>4. new \in [Series -> 0..(MaxPublishes + 2)] /\ \A b \in Series : new[b] = IF b = a THEN v ELSE series[b]
    BY <1>2, <1>3
  <1>5. home' = [home EXCEPT !.series = new]
    BY <1>2, <1>3
  <1>6. home' = [dir |-> dir, manifest |-> manifest, series |-> new]
    BY <1>1, <1>5
  <1> QED BY <1>1, <1>2, <1>4, <1>6

(* While there is no manifest, nothing but a build in place has to do with *)
(* the home.                                                               *)
LEMMA WithoutManifest ==
  ASSUME PinHolds, home.manifest \notin Pins, NEW r, RunHolds(r), r.pc # "write"
  PROVE  RunHolds(r)'
  <1>1. r.pc # "copy"
    BY BuiltIs DEF RunHolds, CopiesHome
  <1>2. r.result = "receipt" => DOMAIN r.builds = {}
    <2>1. ASSUME r.result = "receipt", NEW i \in DOMAIN r.builds PROVE FALSE
      <3>1. r.builds[i] = home.manifest /\ r.builds \in Seq(Pins)
        BY <2>1 DEF RunHolds
      <3>2. r.builds[i] \in Pins
        BY <2>1, <3>1
      <3> QED BY <3>1, <3>2
    <2> QED BY <2>1
  <1>3. r.pc # "off" /\ r.does = "nightly" => r.committed = half_manifest
    BY DEF RunHolds
  <1> QED BY <1>1, <1>2, <1>3 DEF RunHolds

(* Under a manifest, only who copies a file has to do with it. *)
LEMMA UnderManifest ==
  ASSUME PinHolds, HomeShape', home.manifest \in Pins, home'.manifest = home.manifest, NEW a,
         \A b \in Series : b # a => home'.series[b] = home.series[b],
         NEW r, RunHolds(r),
         r.pc = "copy" /\ r.open /\ a \in Series => first(r.plan) # a
  PROVE  RunHolds(r)'
  <1>1. r.pc # "write"
    BY WholeIs DEF RunHolds, WritesHome, PinHolds
  <1>2. r.pc = "copy" => CopiesHome(r)'
    BY DEF RunHolds, CopiesHome
  <1> QED BY <1>1, <1>2 DEF RunHolds

(* A step on the home is a step of one process. *)
LEMMA HomeStepKeepsPin ==
  ASSUME PinHolds, NEW p \in Procs, HomeShape', SeriesArePinned', OthersAreAlike(p),
         RunHolds(run[p])',
         \A q \in Procs : \A r : q # p /\ run'[q] = r /\ RunHolds(r) => RunHolds(r)',
         \A q \in Procs \ {p} : Apart(p, q)'
  PROVE  PinHolds'
  <1>1. ASSUME NEW q \in Procs, q # p PROVE RunHolds(run[q])'
    <2>1. PICK r : r = run'[q]
      OBVIOUS
    <2>2. RunHolds(r)
      BY <1>1, <2>1, AlikeHolds DEF PinHolds, OthersAreAlike
    <2>3. RunHolds(r)'
      BY <1>1, <2>1, <2>2
    <2> QED BY <2>1, <2>3 DEF RunHolds, WritesHome, CopiesHome
  <1>2. ASSUME NEW q \in Procs, NEW s \in Procs, q # s PROVE Apart(q, s)'
    <2>1. CASE q = p
      BY <1>2, <2>1
    <2>2. CASE s = p
      <3>1. Apart(s, q)'
        BY <1>2, <2>2
      <3> QED BY <3>1 DEF Apart
    <2>3. CASE q # p /\ s # p
      BY <1>2, <2>3 DEF PinHolds, Apart, OthersAreAlike, Alike
    <2> QED BY <2>1, <2>2, <2>3
  <1> QED BY <1>1, <1>2 DEF PinHolds, OthersAreAlike

LEMMA MakeDirectoryKeepsPin ==
  ASSUME PinHolds, NEW p \in Procs, MakeDirectory(p)
  PROVE  PinHolds'
  <1>1. CASE home.dir
    BY <1>1, FailKeepsPin DEF MakeDirectory
  <1>2. CASE ~home.dir
    <2>1. PICK r : r = [run[p] EXCEPT !.pc = "write", !.plan = Series] /\ Turn(p, r)
      BY <1>2 DEF MakeDirectory
    <2>2. /\ home' = [home EXCEPT !.dir = TRUE] /\ run[p].pc = "mkdir" /\ RunHolds(run[p])
          /\ home.manifest = no_manifest /\ home.series = no_manifest
          /\ home = [dir |-> home.dir, manifest |-> home.manifest, series |-> home.series]
          /\ no_manifest \in [Series -> 0..(MaxPublishes + 2)]
      BY <1>2 DEF MakeDirectory, Does, PinHolds, HomeShape
    <2>3. /\ home' = [dir |-> TRUE, manifest |-> no_manifest, series |-> no_manifest]
          /\ \A a \in Series : no_manifest[a] = Absent
      BY <2>2 DEF no_manifest
    <2>4. HomeShape' /\ SeriesArePinned'
      BY <2>2, <2>3 DEF HomeShape, SeriesArePinned, is_whole
    <2>5. OthersAreAlike(p) /\ run'[p] = r
      BY <2>1, TurnMoves
    <2>6. home.manifest \notin Pins
      BY <2>2, WholeIs
    <2>7. ASSUME NEW q \in Procs PROVE run[q].pc # "write"
      BY <1>2 DEF PinHolds, RunHolds, WritesHome
    <2>8. ASSUME NEW q \in Procs, NEW s, q # p, run'[q] = s, RunHolds(s) PROVE RunHolds(s)'
      BY <2>5, <2>6, <2>7, <2>8, WithoutManifest DEF OthersAreAlike, Alike
    <2>9. /\ IsRun(r) /\ r.pc = "write" /\ r.builds = run[p].builds /\ r.does = run[p].does
          /\ r.committed = run[p].committed /\ r.result = run[p].result /\ r.plan = Series
      BY <2>1, <2>2 DEF RunHolds, IsRun
    <2>10. WritesHome(r)'
      BY <2>3, <2>9, SeriesAre DEF WritesHome, is_whole
    <2>11. r.does = "nightly" => r.committed = half_manifest
      BY <2>2, <2>6, <2>9 DEF RunHolds
    <2>12. RunHolds(r)'
      BY <2>2, <2>9, <2>10, <2>11 DEF RunHolds
    <2>13. RunHolds(run[p])'
      BY <2>5, <2>12 DEF RunHolds, WritesHome, CopiesHome
    <2>14. \A q \in Procs \ {p} : Apart(p, q)'
      BY <2>5, <2>7, <2>9 DEF Apart, OthersAreAlike, Alike
    <2> QED BY <2>4, <2>5, <2>8, <2>13, <2>14, HomeStepKeepsPin
  <1> QED BY <1>1, <1>2

(* A run is an open or a filled file further. *)
LEMMA PlanMoves ==
  ASSUME NEW r, IsRun(r), NEW s, NEW left,
         \/ s = [r EXCEPT !.open = FALSE, !.plan = left]
         \/ s = [r EXCEPT !.open = TRUE]
         \/ s = [r EXCEPT !.open = FALSE, !.pc = "load"]
  PROVE  /\ IsRun(s) /\ s.builds = r.builds /\ s.does = r.does /\ s.committed = r.committed
         /\ s.result = r.result /\ s.pc \in {r.pc, "load"}
  <1>1. CASE s = [r EXCEPT !.open = FALSE, !.plan = left]
    BY <1>1 DEF IsRun
  <1>2. CASE s = [r EXCEPT !.open = TRUE]
    BY <1>2 DEF IsRun
  <1>3. CASE s = [r EXCEPT !.open = FALSE, !.pc = "load"]
    BY <1>3 DEF IsRun
  <1> QED BY <1>1, <1>2, <1>3

LEMMA WriteFileKeepsPin ==
  ASSUME PinHolds, NEW p \in Procs, WriteFile(p)
  PROVE  PinHolds'
  <1>1. PICK r : r = run[p] /\ r.pc = "write" /\ RunHolds(r) /\ IsRun(r) /\ WritesHome(r)
                 /\ r.builds \in Seq(Pins) /\ r.builds # <<>> /\ r.result = "none"
    BY DEF WriteFile, Does, PinHolds, RunHolds
  <1>2. PICK b \in Pins : b = built(p) /\ b = Last(r.builds)
    BY <1>1, BuiltIs DEF built
  <1>3. PICK s : Turn(p, s) /\
          \/ /\ r.plan # {} /\ r.open /\ home' = [home EXCEPT !.series[first(r.plan)] = b[first(r.plan)]]
             /\ s = [r EXCEPT !.open = FALSE, !.plan = r.plan \ {first(r.plan)}]
          \/ /\ r.plan # {} /\ ~r.open /\ home' = [home EXCEPT !.series[first(r.plan)] = Partial]
             /\ s = [r EXCEPT !.open = TRUE]
          \/ /\ r.plan = {} /\ r.open /\ home' = [home EXCEPT !.manifest = b]
             /\ s = [r EXCEPT !.open = FALSE, !.pc = "load"]
          \/ /\ r.plan = {} /\ ~r.open /\ home' = [home EXCEPT !.manifest = half_manifest]
             /\ s = [r EXCEPT !.open = TRUE]
    <2>1. CASE r.plan # {} /\ r.open
      BY <1>1, <1>2, <2>1 DEF WriteFile
    <2>2. CASE r.plan # {} /\ ~r.open
      BY <1>1, <1>2, <2>2 DEF WriteFile
    <2>3. CASE r.plan = {} /\ r.open
      BY <1>1, <1>2, <2>3 DEF WriteFile
    <2>4. CASE r.plan = {} /\ ~r.open
      BY <1>1, <1>2, <2>4 DEF WriteFile
    <2> QED BY <2>1, <2>2, <2>3, <2>4
  <1>4. /\ OthersAreAlike(p) /\ run'[p] = s
        /\ IsRun(s) /\ s.builds = r.builds /\ s.does = r.does /\ s.committed = r.committed
        /\ s.result = r.result /\ s.pc \in {"write", "load"}
    <2>1. /\ IsRun(s) /\ s.builds = r.builds /\ s.does = r.does /\ s.committed = r.committed
          /\ s.result = r.result /\ s.pc \in {r.pc, "load"}
      <3>1. \/ s = [r EXCEPT !.open = FALSE, !.plan = r.plan \ {first(r.plan)}]
            \/ s = [r EXCEPT !.open = TRUE]
            \/ s = [r EXCEPT !.open = FALSE, !.pc = "load"]
        BY <1>3, Zenon
      <3>2. IsRun(r)
        BY <1>1
      <3> QED BY <3>1, <3>2, PlanMoves, Zenon
    <2>2. OthersAreAlike(p) /\ run'[p] = s
      BY <1>3, TurnMoves
    <2> QED BY <1>1, <2>1, <2>2
  <1>5. home.manifest \notin Pins /\ home.dir /\ HomeShape
    BY <1>1, WholeIs DEF WritesHome, PinHolds
  <1>6. \A q \in Procs : \A u : q # p /\ run'[q] = u /\ RunHolds(u) => RunHolds(u)'
    <2>1. \A q \in Procs \ {p} : run[q].pc # "write"
      BY <1>1 DEF PinHolds, Apart
    <2> QED BY <1>4, <1>5, <2>1, WithoutManifest DEF OthersAreAlike, Alike
  <1>7. \A q \in Procs \ {p} : Apart(p, q)'
    <2>1. \A q \in Procs \ {p} : run'[q].pc # "write"
      BY <1>1, <1>4 DEF PinHolds, Apart, OthersAreAlike, Alike
    <2> QED BY <1>4, <2>1 DEF Apart
  <1>8. HomeShape' /\ SeriesArePinned' /\ RunHolds(s)'
    <2>1. CASE r.plan # {}
      <3>1. PICK a, v :
              /\ v \in 0..(MaxPublishes + 2) /\ a = first(r.plan) /\ home' = [home EXCEPT !.series[a] = v]
              /\ v = IF r.open THEN b[a] ELSE Partial
              /\ s.pc = "write" /\ s.plan = IF r.open THEN r.plan \ {a} ELSE r.plan
        <4>1. PICK a : a = first(r.plan) /\ a \in Series
          BY <1>1, <2>1, FirstIs DEF WritesHome
        <4>2. b[a] \in 0..(MaxPublishes + 2) /\ Partial \in 0..(MaxPublishes + 2)
          BY <1>2, <4>1, SeriesAre, WholeIs
        <4>3. PICK v : v = IF r.open THEN b[a] ELSE Partial
          OBVIOUS
        <4>4. home' = [home EXCEPT !.series[a] = v] /\ v \in 0..(MaxPublishes + 2)
          BY <1>3, <2>1, <4>1, <4>2, <4>3
        <4>5. s.pc = "write" /\ s.plan = IF r.open THEN r.plan \ {a} ELSE r.plan
          BY <1>1, <1>3, <2>1, <4>1 DEF IsRun
        <4> QED BY <4>1, <4>3, <4>4, <4>5
      <3>2. /\ home' = [dir |-> home.dir, manifest |-> home.manifest, series |-> home'.series]
            /\ home'.series \in [Series -> 0..(MaxPublishes + 2)]
            /\ \A c \in Series : home'.series[c] = IF c = a THEN v ELSE home.series[c]
        BY <1>5, <3>1, FileChanges
      <3>3. HomeShape' /\ SeriesArePinned'
        <4>1. home'.dir = home.dir /\ home'.manifest = home.manifest
          BY <3>2
        <4>2. HomeShape'
          BY <1>5, <3>2, <4>1 DEF HomeShape
        <4>3. SeriesArePinned'
          BY <1>1, <4>1 DEF SeriesArePinned, WritesHome, is_whole
        <4> QED BY <4>2, <4>3
      <3>4. a \in Series /\ a \in r.plan /\ r.plan \subseteq Series
        BY <1>1, <2>1, <3>1, FirstIs DEF WritesHome
      <3>5. \A c \in Series : IF c \in s.plan THEN home'.series[c] \in {Absent, Partial}
                              ELSE home'.series[c] = b[c]
        <4>1. \A c \in Series : IF c \in r.plan THEN home.series[c] \in {Absent, Partial}
                                ELSE home.series[c] = b[c]
          BY <1>1, <1>2 DEF WritesHome
        <4>2. CASE r.open
          BY <3>1, <3>2, <3>4, <4>1, <4>2
        <4>3. CASE ~r.open
          BY <3>1, <3>2, <3>4, <4>1, <4>3
        <4> QED BY <4>2, <4>3
      <3>6. WritesHome(s)'
        <4>1. s.plan \subseteq Series
          BY <3>1, <3>4
        <4>2. home'.dir /\ ~is_whole(home'.manifest)
          BY <1>1, <3>2 DEF WritesHome
        <4> QED BY <1>2, <1>4, <3>5, <4>1, <4>2 DEF WritesHome
      <3>7. s.does = "nightly" => s.committed = half_manifest
        BY <1>1, <1>4, <1>5 DEF RunHolds
      <3> QED BY <1>1, <1>4, <3>1, <3>3, <3>6, <3>7 DEF RunHolds
    <2>2. CASE r.plan = {}
      <3>1. r.plan \subseteq Series
        BY <1>1 DEF WritesHome
      <3>2. \A c \in Series : home.series[c] = b[c]
        BY <1>1, <1>2, <2>2 DEF WritesHome
      <3>3. PICK m \in {b, half_manifest} :
              /\ home' = [home EXCEPT !.manifest = m] /\ m = IF r.open THEN b ELSE half_manifest
              /\ s.pc = (IF r.open THEN "load" ELSE "write") /\ s.plan = r.plan
        <4>1. PICK m : m = IF r.open THEN b ELSE half_manifest
          OBVIOUS
        <4>2. home' = [home EXCEPT !.manifest = m]
          BY <1>3, <2>2, <4>1
        <4>3. s.pc = (IF r.open THEN "load" ELSE "write") /\ s.plan = r.plan
          BY <1>1, <1>3, <2>2 DEF IsRun
        <4> QED BY <4>1, <4>2, <4>3
      <3>4. home' = [dir |-> home.dir, manifest |-> m, series |-> home.series]
        BY <1>5, <3>3 DEF HomeShape
      <3>5. HomeShape' /\ SeriesArePinned'
        BY <1>2, <1>5, <3>2, <3>3, <3>4 DEF HomeShape, SeriesArePinned, is_whole
      <3>6. s.pc = "write" => WritesHome(s)'
        BY <1>1, <1>2, <1>4, <3>1, <3>2, <3>3, <3>4 DEF WritesHome, is_whole
      <3>7. s.does = "nightly" => s.committed = half_manifest
        BY <1>1, <1>4, <1>5 DEF RunHolds
      <3> QED BY <1>1, <1>4, <3>3, <3>5, <3>6, <3>7 DEF RunHolds
    <2> QED BY <2>1, <2>2
  <1>9. RunHolds(run[p])'
    BY <1>4, <1>8 DEF RunHolds, WritesHome, CopiesHome
  <1> QED BY <1>4, <1>6, <1>7, <1>8, <1>9, HomeStepKeepsPin

(* Who has opened a file for a copy. *)
Opened(r, a) == r.pc = "copy" /\ r.open /\ first(r.plan) = a /\ a \in Series

LEMMA CopyKeepsPin ==
  ASSUME PinHolds, NEW p \in Procs, NEW a, NEW v, run[p].pc = "copy", a = first(run[p].plan),
         a \in Series => v \in {Absent, Partial, home.manifest[a]}, home' = [home EXCEPT !.series[a] = v],
         run[p].open \/ home.series[a] = Absent,
         OthersAreAlike(p), NEW s, run'[p] = s, IsRun(s), s.builds \in Seq(Pins),
         s.pc = "copy" =>
           /\ s.builds = run[p].builds /\ s.does = run[p].does /\ s.committed = run[p].committed
           /\ s.result = "none" /\ (s.open => v # Absent /\ first(s.plan) = a),
         s.pc \in {"copy", "off"}, s.result # "receipt"
  PROVE  PinHolds'
  <1>1. home.manifest = Last(run[p].builds)
    BY DEF PinHolds, RunHolds, CopiesHome
  <1>2. home.manifest \in Pins /\ HomeShape
    BY <1>1, BuiltIs DEF PinHolds, RunHolds
  <1>3. a \in Series => v \in 0..(MaxPublishes + 2) /\ home.manifest[a] # Absent
    BY <1>2, WholeIs, SeriesAre
  <1>4. /\ home' = [dir |-> home.dir, manifest |-> home.manifest, series |-> home'.series]
        /\ home'.series \in [Series -> 0..(MaxPublishes + 2)]
        /\ \A b \in Series : home'.series[b] = IF b = a THEN v ELSE home.series[b]
    BY <1>2, <1>3, FileChanges
  <1>5. home'.dir = home.dir /\ home'.manifest = home.manifest
    BY <1>4
  <1>6. HomeShape'
    <2>1. home.dir
      BY <1>2, WholeIs DEF HomeShape
    <2> QED BY <1>2, <1>4, <1>5, <2>1 DEF HomeShape
  <1>7. SeriesArePinned'
    BY <1>4, <1>5 DEF PinHolds, SeriesArePinned, is_whole
  <1>8. ASSUME NEW q \in Procs, q # p PROVE ~Opened(run[q], a)
    <2>1. ASSUME Opened(run[q], a) PROVE FALSE
      <3>1. a \in Series /\ home.series[a] \in {Partial, home.manifest[a]}
        BY <2>1 DEF Opened, PinHolds, RunHolds, CopiesHome
      <3>2. run[p].open
        BY <1>3, <3>1, SeriesAre
      <3>3. Apart(p, q)
        BY <1>8 DEF PinHolds
      <3> QED BY <2>1, <3>2, <3>3 DEF Apart, Opened
    <2> QED BY <2>1
  <1>9. \A q \in Procs : \A u : q # p /\ run'[q] = u /\ RunHolds(u) => RunHolds(u)'
    <2>1. ASSUME NEW q \in Procs, NEW u, q # p, run'[q] = u, RunHolds(u) PROVE RunHolds(u)'
      <3>1. ~Opened(u, a)
        BY <1>8, <2>1 DEF Opened, OthersAreAlike, Alike
      <3> QED BY <1>2, <1>3, <1>4, <1>5, <1>6, <2>1, <3>1, UnderManifest DEF Opened
    <2> QED BY <2>1
  <1>10. RunHolds(run[p])'
    <2>1. s.pc = "copy" => CopiesHome(s)'
      BY <1>1, <1>4, <1>5 DEF CopiesHome
    <2>2. RunHolds(run[p])
      BY DEF PinHolds
    <2>3. s.pc = "copy" => s.builds # <<>>
      BY <2>2 DEF RunHolds
    <2>4. s.pc = "copy" /\ s.does = "nightly" =>
            s.committed = half_manifest \/ (home'.manifest \in Pins /\ s.committed = home'.manifest)
      BY <1>5, <2>2 DEF RunHolds
    <2>5. RunHolds(s)'
      BY <2>1, <2>3, <2>4 DEF RunHolds
    <2> QED BY <2>5 DEF RunHolds, WritesHome, CopiesHome
  <1>11. \A q \in Procs \ {p} : Apart(p, q)'
    <2>1. ASSUME NEW q \in Procs, q # p PROVE Apart(p, q)'
      <3>1. ~Opened(run'[q], a)
        BY <1>8, <2>1 DEF Opened, OthersAreAlike, Alike
      <3> QED BY <3>1 DEF Opened, Apart
    <2> QED BY <2>1
  <1> QED BY <1>6, <1>7, <1>9, <1>10, <1>11, HomeStepKeepsPin

LEMMA CopyIs ==
  ASSUME PinHolds, NEW p \in Procs, Does(p, "copy")
  PROVE  /\ RunHolds(run[p]) /\ IsRun(run[p]) /\ run[p].pc = "copy" /\ run[p].result = "none"
         /\ run[p].builds \in Seq(Pins) /\ run[p].builds # <<>>
         /\ home.manifest = built(p) /\ home.manifest \in Pins
  <1>1. /\ RunHolds(run[p]) /\ IsRun(run[p]) /\ run[p].pc = "copy" /\ run[p].result = "none"
        /\ run[p].builds \in Seq(Pins) /\ run[p].builds # <<>> /\ home.manifest = built(p)
    BY DEF Does, PinHolds, RunHolds, CopiesHome, built
  <1> QED BY <1>1, BuiltIs DEF built

LEMMA OpenCopyKeepsPin ==
  ASSUME PinHolds, NEW p \in Procs, OpenCopy(p)
  PROVE  PinHolds'
  <1>1. PICK r, a : /\ r = run[p] /\ a = first(r.plan) /\ RunHolds(r) /\ IsRun(r) /\ r.pc = "copy"
                    /\ r.result = "none" /\ r.builds \in Seq(Pins)
    BY CopyIs DEF OpenCopy
  <1>2. CASE Fails(p) /\ UNCHANGED home
    BY <1>2, FailKeepsPin
  <1>3. CASE /\ home.series[a] = Absent /\ home' = [home EXCEPT !.series[a] = Partial]
             /\ Turn(p, [r EXCEPT !.open = TRUE])
    <2>1. PICK s : s = [r EXCEPT !.open = TRUE]
      OBVIOUS
    <2>2. OthersAreAlike(p) /\ run'[p] = s
      BY <1>3, <2>1, TurnMoves
    <2>3. /\ IsRun(s) /\ s.builds = r.builds /\ s.does = r.does /\ s.committed = r.committed
          /\ s.result = r.result /\ s.pc = "copy" /\ s.open /\ s.plan = r.plan
      BY <1>1, <2>1 DEF IsRun
    <2>4. Partial # Absent
      BY SeriesAre
    <2>5. PICK v : v = Partial /\ v # Absent /\ home' = [home EXCEPT !.series[a] = v]
      BY <1>3, <2>4
    <2>6. /\ a = first(run[p].plan) /\ run[p].pc = "copy" /\ home.series[a] = Absent
          /\ s.builds = run[p].builds /\ s.builds \in Seq(Pins) /\ s.does = run[p].does
          /\ s.committed = run[p].committed /\ s.result = "none" /\ first(s.plan) = a
      BY <1>1, <1>3, <2>3
    <2> QED BY <2>2, <2>3, <2>5, <2>6, CopyKeepsPin
  <1> QED BY <1>1, <1>2, <1>3 DEF OpenCopy

LEMMA FillCopyKeepsPin ==
  ASSUME PinHolds, NEW p \in Procs, FillCopy(p)
  PROVE  PinHolds'
  <1>1. PICK r, a : /\ r = run[p] /\ a = first(r.plan) /\ IsRun(r) /\ r.pc = "copy" /\ r.open
                    /\ r.result = "none" /\ r.builds \in Seq(Pins) /\ home.manifest \in Pins
                    /\ home' = [home EXCEPT !.series[a] = home.manifest[a]]
    BY CopyIs DEF FillCopy
  <1>2. OthersAreAlike(p) /\ run'[p] = r
    BY <1>1 DEF FillCopy, PinHolds, RunHolds, OthersAreAlike, Alike
  <1>3. a \in Series => home.manifest[a] # Absent
    BY <1>1, WholeIs, SeriesAre
  <1>4. CASE a \in Series
    <2>1. PICK v : v = home.manifest[a] /\ v # Absent /\ home' = [home EXCEPT !.series[a] = v]
      BY <1>1, <1>3, <1>4
    <2> QED BY <1>1, <1>2, <2>1, CopyKeepsPin
  <1>5. CASE a \notin Series
    <2>1. home' = home
      BY <1>1, <1>5 DEF PinHolds, HomeShape
    <2> QED BY <2>1, UpsetKeepsPin DEF FillCopy
  <1> QED BY <1>4, <1>5

LEMMA SyncCopyKeepsPin ==
  ASSUME PinHolds, NEW p \in Procs, SyncCopy(p)
  PROVE  PinHolds'
  <1>1. PICK r, left : /\ r = run[p] /\ RunHolds(r) /\ IsRun(r) /\ r.pc = "copy"
                       /\ Turn(p, [r EXCEPT !.open = FALSE, !.plan = left])
    BY CopyIs DEF SyncCopy
  <1>2. PICK s : s = [r EXCEPT !.open = FALSE, !.plan = left] /\ Turn(p, s)
    BY <1>1
  <1>3. /\ IsRun(s) /\ s.builds = r.builds /\ s.does = r.does /\ s.committed = r.committed
        /\ s.result = r.result /\ s.pc = "copy" /\ ~s.open
    BY <1>1, <1>2 DEF IsRun
  <1>4. RunHolds(s)
    BY <1>1, <1>3 DEF RunHolds, CopiesHome
  <1>5. OthersAreAlike(p) /\ run'[p] = s /\ UNCHANGED home
    BY <1>2, TurnMoves DEF SyncCopy
  <1> QED BY <1>3, <1>4, <1>5, QuietKeepsPin

LEMMA CopyFailsKeepsPin ==
  ASSUME PinHolds, NEW p \in Procs, CopyFails(p)
  PROVE  PinHolds'
  <1>1. PICK e : e = Ended(upset(run)[p], "failed") /\ run' = [upset(run) EXCEPT ![p] = e]
    BY DEF CopyFails
  <1>2. OthersAreAlike(p) /\ run'[p] = e
    BY <1>1, TurnMoves
  <1>3. IsRun(e) /\ e.builds \in Seq(Pins) /\ e.pc = "off"
    BY <1>1, EndedHolds DEF RunHolds
  <1>4. e.result = "failed"
    BY <1>1 DEF Ended, off
  <1>5. PICK a, v : /\ a = first(run[p].plan) /\ home' = [home EXCEPT !.series[a] = v]
                    /\ v \in {Absent, home.series[a]}
    BY DEF CopyFails
  <1>6. run[p].pc = "copy" /\ run[p].open
    BY DEF CopyFails, Does
  <1>7. a \in Series => home.series[a] \in {Partial, home.manifest[a]}
    BY <1>5, <1>6 DEF PinHolds, RunHolds, CopiesHome
  <1> QED BY <1>2, <1>3, <1>4, <1>5, <1>6, <1>7, CopyKeepsPin

-----------------------------------------------------------------------------
LEMMA PinInductive == PinHolds /\ [Next]_vars => PinHolds'
  <1> SUFFICES ASSUME PinHolds, [Next]_vars PROVE PinHolds'
    OBVIOUS
  <1>1. CASE Published
    <2>1. UNCHANGED home /\ run' \in {run, upset(run)}
      BY <1>1 DEF Published
    <2> QED BY <2>1, UpsetKeepsPin
  <1>2. CASE UNCHANGED vars
    <2>1. UNCHANGED home /\ run' \in {run, upset(run)}
      BY <1>2 DEF vars
    <2> QED BY <2>1, UpsetKeepsPin
  <1>3. ASSUME NEW p \in Procs, Fetching(p) PROVE PinHolds'
    <2>1. UNCHANGED home /\ run' \in {run, upset(run)}
      BY <1>3 DEF Fetching
    <2> QED BY <2>1, UpsetKeepsPin
  <1>4. ASSUME NEW p \in Procs, FetchFails(p) PROVE PinHolds'
    <2>1. UNCHANGED home /\ Fails(p)
      BY <1>4 DEF FetchFails
    <2> QED BY <2>1, FailKeepsPin
  <1> QED BY <1>1, <1>2, <1>3, <1>4, BeginKeepsPin, VerifyKeepsPin, ReadKeepsPin, MakeDirectoryKeepsPin,
             WriteFileKeepsPin, CompareKeepsPin, OpenCopyKeepsPin, FillCopyKeepsPin, SyncCopyKeepsPin,
             CopyFailsKeepsPin, CopiedKeepsPin, LoadKeepsPin, ReceiptKeepsPin, KillKeepsPin DEF Next, CopyFile

LEMMA PinIsInvariant == Spec => []PinHolds
  BY PinInit, PinInductive, PTL DEF Spec

(* A step that changes a file, changes one that is not there or not whole; *)
(* or it takes back one whose copy has failed.                             *)
KeptOrTakenBack(a) ==
  Kept(home.manifest[a], home'.manifest[a]) /\ (Kept(home.series[a], home'.series[a]) \/ TakenBack(a))

LEMMA NothingReplaced ==
  ASSUME PinHolds, [Next]_vars, NEW a \in Series
  PROVE  KeptOrTakenBack(a)
  <1>1. HomeShape
    BY DEF PinHolds
  <1>2. CASE UNCHANGED <<home.manifest, home.series>>
    BY <1>2 DEF Kept, KeptOrTakenBack
  <1>3. ASSUME NEW p \in Procs, MakeDirectory(p) PROVE UNCHANGED <<home.manifest, home.series>>
    <2>1. UNCHANGED home \/ home' = [home EXCEPT !.dir = TRUE]
      BY <1>3 DEF MakeDirectory
    <2> QED BY <1>1, <2>1 DEF HomeShape
  <1>4. ASSUME NEW p \in Procs, WriteFile(p)
        PROVE  KeptOrTakenBack(a)
    <2>1. PICK r : r = run[p] /\ WritesHome(r)
      BY <1>4 DEF WriteFile, Does, PinHolds, RunHolds
    <2>2. home.manifest[a] \in {Absent, Partial}
      <3>1. home.manifest \in {no_manifest, half_manifest}
        BY <2>1 DEF WritesHome, is_whole
      <3> QED BY <3>1 DEF no_manifest, half_manifest
    <2>3. CASE r.plan # {}
      <3>1. PICK v : home' = [home EXCEPT !.series[first(r.plan)] = v]
        BY <1>4, <2>1, <2>3 DEF WriteFile
      <3>2. first(r.plan) \in r.plan /\ first(r.plan) \in Series
        BY <2>1, <2>3, FirstIs DEF WritesHome
      <3>3. home.series[first(r.plan)] \in {Absent, Partial}
        BY <2>1, <3>2 DEF WritesHome
      <3>4. a # first(r.plan) => home'.series[a] = home.series[a]
        BY <1>1, <3>1 DEF HomeShape
      <3> QED BY <2>2, <3>3, <3>4 DEF Kept, KeptOrTakenBack
    <2>4. CASE r.plan = {}
      <3>1. PICK m : home' = [home EXCEPT !.manifest = m]
        BY <1>4, <2>1, <2>4 DEF WriteFile
      <3>2. home'.series = home.series
        BY <1>1, <3>1 DEF HomeShape
      <3> QED BY <2>2, <3>2 DEF Kept, KeptOrTakenBack
    <2> QED BY <2>3, <2>4
  <1>5. ASSUME NEW p \in Procs, OpenCopy(p) \/ FillCopy(p) \/ SyncCopy(p)
        PROVE  KeptOrTakenBack(a)
    <2>1. CASE UNCHANGED home
      BY <1>2, <2>1
    <2>2. CASE ~UNCHANGED home
      <3>1. PICK b, v : b = first(run[p].plan) /\ home' = [home EXCEPT !.series[b] = v] /\ home.series[b] \in {Absent, Partial}
        BY <1>5, <2>2 DEF OpenCopy, FillCopy, SyncCopy
      <3>2. home'.manifest = home.manifest /\ (a # b => home'.series[a] = home.series[a])
        BY <1>1, <3>1 DEF HomeShape
      <3> QED BY <3>1, <3>2 DEF Kept, KeptOrTakenBack
    <2> QED BY <2>1, <2>2
  <1>8. ASSUME NEW p \in Procs, CopyFails(p)
        PROVE  KeptOrTakenBack(a)
    <2>1. PICK b, v : /\ b = first(run[p].plan) /\ home' = [home EXCEPT !.series[b] = v]
                      /\ v \in {Absent, home.series[b]}
      BY <1>8 DEF CopyFails
    <2>2. /\ home'.manifest = home.manifest /\ (a # b => home'.series[a] = home.series[a])
          /\ a = b => home'.series[a] = v
      BY <1>1, <2>1 DEF HomeShape
    <2>3. CASE home'.series[a] = home.series[a]
      BY <2>2, <2>3 DEF Kept, KeptOrTakenBack
    <2>4. CASE home'.series[a] # home.series[a]
      <3>1. a = b /\ home'.series[a] = Absent
        BY <2>1, <2>2, <2>4
      <3>2. run'[p].result = "failed"
        <4>1. PICK e : e = Ended(upset(run)[p], "failed") /\ run' = [upset(run) EXCEPT ![p] = e]
          BY <1>8 DEF CopyFails
        <4>2. e.result = "failed"
          BY <4>1 DEF Ended, off
        <4> QED BY <4>1, <4>2, TurnMoves
      <3>3. TakenBack(a)
        BY <1>8, <2>1, <3>1, <3>2 DEF CopyFails, TakenBack
      <3> QED BY <2>2, <3>3 DEF Kept, KeptOrTakenBack
    <2> QED BY <2>3, <2>4
  <1>6. ASSUME NEW p \in Procs,
               \/ Acquire(p) \/ Nightly(p) \/ Fetching(p) \/ FetchFails(p) \/ Verify(p) \/ Read(p)
               \/ Compare(p) \/ Copied(p) \/ Load(p) \/ Receipt(p) \/ Kill(p)
        PROVE  UNCHANGED home
    BY <1>6 DEF Acquire, Nightly, Begin, Fetching, FetchFails, Verify, Read, Compare, Copied, Load, Receipt, Kill
  <1>7. CASE Published \/ UNCHANGED vars
    BY <1>2, <1>7 DEF Published, vars
  <1> QED BY <1>2, <1>3, <1>4, <1>5, <1>6, <1>7, <1>8 DEF Next, CopyFile

(* A pack is called ready when it loads. *)
LEMMA ReadyLoads ==
  ASSUME PinHolds, [Next]_vars, NEW p \in Procs, run'[p].result = "ready"
  PROVE  loads' \/ run[p].result = "ready"
  <1>1. ASSUME NEW r, NEW how PROVE Ended(r, how).result = how
    BY DEF Ended, off
  <1>2. ASSUME NEW q \in Procs, NEW r, Turn(q, r) \/ run' = [upset(run) EXCEPT ![q] = r], r.result # "ready"
        PROVE  run[p].result = "ready"
    BY <1>2, TurnMoves DEF OthersAreAlike, Alike
  <1>3. ASSUME NEW q \in Procs, Fails(q) PROVE run[p].result = "ready"
    <2>1. PICK e : e = Ended(run[q], "failed") /\ Turn(q, e)
      BY <1>3 DEF Fails
    <2>2. e.result = "failed"
      BY <1>1, <2>1
    <2> QED BY <1>2, <2>1, <2>2
  <1>4. ASSUME run' \in {run, upset(run)} PROVE run[p].result = "ready"
    BY <1>4, UpsetIs DEF PinHolds, Alike
  <1>5. ASSUME NEW q \in Procs, Acquire(q) \/ Nightly(q) PROVE loads' \/ run[p].result = "ready"
    <2>1. ASSUME NEW does PROVE started(q, does).result = "none" /\ IsRun(started(q, does))
      <3>1. PICK calm : calm = (fit(does) /\ \A s \in Procs \ {q} : ~active(s))
        OBVIOUS
      <3>2. started(q, does) = [off EXCEPT !.does = does, !.pc = "fetch", !.calm = calm]
        BY <3>1 DEF started
      <3> QED BY <3>2 DEF off, IsRun
    <2>2. CASE Acquire(q)
      <3>1. PICK r, h : /\ r = started(q, "acquire") /\ Begin(q, h)
                        /\ h = CASE loads -> Ended(r, "ready")
                                 [] ~loads /\ home.dir /\ home.manifest = no_manifest -> Ended(r, "failed")
                                 [] OTHER -> [r EXCEPT !.does = IF home.dir THEN "hydrate" ELSE "build"]
        BY <2>2 DEF Acquire
      <3>2. CASE loads
        BY <3>1, <3>2 DEF Begin, loads
      <3>3. CASE ~loads /\ home.dir /\ home.manifest = no_manifest
        <4>1. h.result = "failed"
          BY <1>1, <3>1, <3>3
        <4> QED BY <1>2, <3>1, <4>1 DEF Begin
      <3>4. CASE ~loads /\ ~(home.dir /\ home.manifest = no_manifest)
        <4>1. PICK does : h = [r EXCEPT !.does = does]
          BY <3>1, <3>4
        <4>2. h.result = "none"
          BY <2>1, <3>1, <4>1 DEF IsRun
        <4> QED BY <1>2, <3>1, <4>2 DEF Begin
      <3> QED BY <3>2, <3>3, <3>4
    <2>3. CASE Nightly(q)
      <3>1. PICK r, h : /\ r = started(q, "nightly") /\ Begin(q, h)
                        /\ h = IF home.manifest = no_manifest THEN Ended(r, "failed")
                               ELSE [r EXCEPT !.committed = home.manifest]
        BY <2>3 DEF Nightly
      <3>2. h.result # "ready"
        BY <1>1, <2>1, <3>1 DEF IsRun
      <3> QED BY <1>2, <3>1, <3>2 DEF Begin
    <2> QED BY <1>5, <2>2, <2>3
  <1>6. ASSUME NEW q \in Procs, run[q].pc # "off", NEW r, Turn(q, r), r.result = run[q].result
        PROVE  run[p].result = "ready"
    <2>1. run[q].result = "none"
      BY <1>6 DEF PinHolds, RunHolds
    <2> QED BY <1>2, <1>6, <2>1
  <1>7. ASSUME NEW q \in Procs, run[q].pc # "off",
               \/ \E b, at : Turn(q, [run[q] EXCEPT !.pc = at, !.builds = b])
               \/ \E at : Turn(q, [run[q] EXCEPT !.pc = at])
               \/ \E at, left : Turn(q, [run[q] EXCEPT !.pc = at, !.plan = left])
               \/ \E o, left : Turn(q, [run[q] EXCEPT !.open = o, !.plan = left])
               \/ \E o, at : Turn(q, [run[q] EXCEPT !.open = o, !.pc = at])
               \/ \E o : Turn(q, [run[q] EXCEPT !.open = o])
        PROVE  run[p].result = "ready"
    <2>1. PICK r : r = run[q] /\ IsRun(r)
      BY DEF PinHolds, RunHolds
    <2>2. PICK b, at, o, left, n : /\ Turn(q, n)
                                   /\ \/ n = [r EXCEPT !.pc = at, !.builds = b]
                                      \/ n = [r EXCEPT !.pc = at]
                                      \/ n = [r EXCEPT !.pc = at, !.plan = left]
                                      \/ n = [r EXCEPT !.open = o, !.plan = left]
                                      \/ n = [r EXCEPT !.open = o, !.pc = at]
                                      \/ n = [r EXCEPT !.open = o]
      BY <1>7, <2>1
    <2>3. n.result = r.result
      BY <2>1, <2>2 DEF IsRun
    <2> QED BY <1>6, <1>7, <2>1, <2>2, <2>3
  <1>8. ASSUME NEW q \in Procs, Verify(q) \/ Read(q) PROVE run[p].result = "ready"
    BY <1>3, <1>7, <1>8 DEF Verify, Read, Does
  <1>9. ASSUME NEW q \in Procs, MakeDirectory(q) \/ Compare(q) \/ Copied(q) PROVE run[p].result = "ready"
    BY <1>3, <1>7, <1>9 DEF MakeDirectory, Compare, Copied, Does
  <1>10. ASSUME NEW q \in Procs, WriteFile(q) PROVE run[p].result = "ready"
    BY <1>7, <1>10 DEF WriteFile, Does
  <1>11. ASSUME NEW q \in Procs, OpenCopy(q) \/ FillCopy(q) \/ SyncCopy(q) PROVE run[p].result = "ready"
    BY <1>3, <1>4, <1>7, <1>11 DEF OpenCopy, FillCopy, SyncCopy, Does
  <1>12. ASSUME NEW q \in Procs, CopyFails(q) \/ Kill(q) PROVE run[p].result = "ready"
    <2>1. PICK e : run' = [upset(run) EXCEPT ![q] = e] /\ e.result # "ready"
      <3>1. PICK e : run' = [upset(run) EXCEPT ![q] = e] /\ e \in {off, Ended(upset(run)[q], "failed")}
        BY <1>12 DEF CopyFails, Kill
      <3>2. off.result = "none" /\ Ended(upset(run)[q], "failed").result = "failed"
        BY <1>1 DEF off
      <3> QED BY <3>1, <3>2
    <2> QED BY <1>2, <2>1
  <1>13. ASSUME NEW q \in Procs, Load(q) \/ Receipt(q) PROVE loads' \/ run[p].result = "ready"
    <2>1. CASE Fails(q)
      BY <1>3, <2>1
    <2>2. CASE Load(q) /\ loads
      BY <2>2 DEF Load, loads
    <2>3. CASE Succeeds(q, "receipt")
      <3>1. PICK e : e = Ended(run[q], "receipt") /\ Turn(q, e)
        BY <2>3 DEF Succeeds
      <3>2. e.result = "receipt"
        BY <1>1, <3>1
      <3> QED BY <1>2, <3>1, <3>2
    <2> QED BY <1>13, <2>1, <2>2, <2>3 DEF Load, Receipt
  <1>14. CASE Published \/ UNCHANGED vars
    BY <1>4, <1>14 DEF Published, vars
  <1>15. ASSUME NEW q \in Procs, Fetching(q) \/ FetchFails(q) PROVE run[p].result = "ready"
    BY <1>3, <1>4, <1>15 DEF Fetching, FetchFails
  <1> QED BY <1>5, <1>8, <1>9, <1>10, <1>11, <1>12, <1>13, <1>14, <1>15 DEF Next, CopyFile

(* A pack loads when it is called ready, and until a copy of a series of   *)
(* it fails; a receipt is for the manifest that is there; beside a whole   *)
(* manifest every series is the pinned one or not whole; nothing that is   *)
(* whole is replaced, and only a copy that has not been synced is taken    *)
(* back: whoever hydrates or builds beside it, is killed, or finds new     *)
(* versions published (acquire_pack, _copy_exclusive, build_pack,          *)
(* execute_nightly_matrix).                                                *)
THEOREM PackIsPinned == Spec => KeepsThePin
  <1> DEFINE Step ==
               /\ \A p \in Procs :
                    /\ run'[p].result = "ready" => loads' \/ run[p].result = "ready"
                    /\ run'[p].result = "receipt" => \A i \in DOMAIN run'[p].builds : run'[p].builds[i] = home'.manifest
               /\ loads => loads' \/ \E a \in Series : TakenBack(a)
               /\ is_whole(home'.manifest) => \A a \in Series : home'.series[a] \in {Absent, Partial, home'.manifest[a]}
               /\ \A a \in Series :
                    /\ Kept(home.manifest[a], home'.manifest[a])
                    /\ Kept(home.series[a], home'.series[a]) \/ TakenBack(a)
  <1>1. PinHolds /\ PinHolds' /\ [Next]_vars => Step
    <2> SUFFICES ASSUME PinHolds, PinHolds', [Next]_vars PROVE Step
      OBVIOUS
    <2>1. \A a \in Series : /\ Kept(home.manifest[a], home'.manifest[a])
                            /\ Kept(home.series[a], home'.series[a]) \/ TakenBack(a)
      BY NothingReplaced DEF KeptOrTakenBack
    <2>2. is_whole(home'.manifest) => \A a \in Series : home'.series[a] \in {Absent, Partial, home'.manifest[a]}
      BY DEF PinHolds, SeriesArePinned
    <2>3. ASSUME NEW p \in Procs
          PROVE  /\ run'[p].result = "ready" => loads' \/ run[p].result = "ready"
                 /\ run'[p].result = "receipt" => \A i \in DOMAIN run'[p].builds : run'[p].builds[i] = home'.manifest
      <3>1. run'[p].result = "ready" => loads' \/ run[p].result = "ready"
        BY <2>3, ReadyLoads
      <3>2. run'[p].result = "receipt" => \A i \in DOMAIN run'[p].builds : run'[p].builds[i] = home'.manifest
        BY <2>3 DEF PinHolds, RunHolds
      <3> QED BY <3>1, <3>2
    <2>4. ASSUME loads, \A a \in Series : ~TakenBack(a) PROVE loads'
      <3>1. home.manifest \in Pins /\ home.series = home.manifest
        BY <2>4, WholeIs DEF PinHolds, loads
      <3>2. \A a \in Series : home.manifest[a] # Absent /\ home.manifest[a] # Partial
        BY <3>1, WholeIs, SeriesAre
      <3>3. \A a \in Series : home'.manifest[a] = home.manifest[a] /\ home'.series[a] = home.manifest[a]
        BY <2>1, <2>4, <3>1, <3>2 DEF Kept
      <3>4. /\ home'.manifest \in [Series -> 0..(MaxPublishes + 2)] /\ home'.series \in [Series -> 0..(MaxPublishes + 2)]
            /\ home.manifest \in [Series -> 0..(MaxPublishes + 2)]
        <4>1. Pins \cup {no_manifest, half_manifest} \subseteq [Series -> 0..(MaxPublishes + 2)]
          <5>1. Pins \subseteq [Series -> 0..(MaxPublishes + 2)]
            BY SeriesAre DEF Pins
          <5>2. no_manifest \in [Series -> 0..(MaxPublishes + 2)] /\ half_manifest \in [Series -> 0..(MaxPublishes + 2)]
            BY SeriesAre DEF no_manifest, half_manifest
          <5> QED BY <5>1, <5>2
        <4> QED BY <3>1, <4>1 DEF PinHolds, HomeShape
      <3>5. home'.manifest = home.manifest /\ home'.series = home.manifest
        BY <3>3, <3>4
      <3> QED BY <3>1, <3>5, WholeIs DEF loads, is_whole
    <2> QED BY <2>1, <2>2, <2>3, <2>4
  <1>2. PinHolds /\ PinHolds' /\ [Next]_vars => [Step]_vars
    BY <1>1
  <1> QED BY <1>2, PinIsInvariant, PTL DEF Spec, KeepsThePin

-----------------------------------------------------------------------------
(* What the raw directory holds.  A content is a sequence of blocks; the   *)
(* start of a file of one version, up to a block, is what its download has *)
(* brought so far.                                                         *)
Content == Seq([of : Nat, at : Nat])
Start(s, f, v, n) == s \in Content /\ Len(s) = n /\ n <= Size(f) /\ \A i \in 1..n : s[i] = Block(v, i)

IsFetch(r) ==
  r = [pc |-> r.pc, todo |-> r.todo, tries |-> r.tries, offset |-> r.offset, answer |-> r.answer,
       file |-> r.file, at |-> r.at]

IsAnswer(a) == a = [of |-> a.of, next |-> a.next, sized |-> a.sized, append |-> a.append]

Busy == {"answer", "open", "body", "install"}
BusyOn(r, f) == r.pc \in Busy /\ Head(r.todo) = f

FilesHold ==
  /\ upstream \in [Series -> Versions]
  /\ inode \in Seq(Content)
  /\ store \in [Files -> 0..Len(inode)] /\ part \in [Files -> 0..Len(inode)]
  /\ odd \subseteq Files
  /\ \A f \in Files \ odd : part[f] # 0 => \E v \in Versions, n \in 0..Size(f) : Start(bytes(part[f]), f, v, n)
  /\ CacheIsAsPublished

(* No two names are of one file. *)
NamesApart ==
  /\ \A f, g \in Files : part[f] # 0 => part[f] # store[g]
  /\ \A f, g \in Files : f # g => /\ part[f] # 0 => part[f] # part[g]
                                  /\ store[f] # 0 => store[f] # store[g]

(* The download of a file, of which nothing is known once it is odd. *)
AsksFor(r, f)  == r.offset \in Nat /\ (f \notin odd => r.offset = Len(bytes(part[f])))
OpensFor(r, f) ==
  /\ IsAnswer(r.answer)
  /\ r.answer.of \in Versions /\ r.answer.next \in Nat \ {0} /\ r.answer.append \in BOOLEAN
  /\ r.answer.next <= Size(f)
  /\ f \notin odd => r.answer.next = IF r.answer.append THEN Len(bytes(part[f])) + 1 ELSE 1
WritesFor(r, f) ==
  /\ IsAnswer(r.answer)
  /\ r.answer.of \in Versions /\ r.answer.next \in Nat \ {0} /\ r.answer.append \in BOOLEAN
  /\ r.file \in 1..Len(inode) /\ r.at \in Nat
  /\ \A g \in Files \ {f} : r.file # part[g] /\ r.file # store[g]
  /\ f \notin odd =>
       /\ r.file = part[f] /\ Start(inode[r.file], f, r.answer.of, r.answer.next - 1)
       /\ ~r.answer.append => r.at = r.answer.next - 1
Installs(f) == f \notin odd /\ part[f] # 0 => \E v \in Versions : bytes(part[f]) = Body(f, v)

FetchHolds(r) ==
  /\ IsFetch(r) /\ r.todo \in Seq(Files)
  /\ r.pc \in {"ask"} \cup Busy => r.todo # <<>>
  /\ r.pc = "answer"  => AsksFor(r, Head(r.todo))
  /\ r.pc = "open"    => OpensFor(r, Head(r.todo))
  /\ r.pc = "body"    => WritesFor(r, Head(r.todo))
  /\ r.pc = "install" => Installs(Head(r.todo))

CacheHolds ==
  /\ FilesHold /\ NamesApart
  /\ fetch = [p \in Procs |-> fetch[p]]
  /\ \A p \in Procs : FetchHolds(fetch[p])
  /\ \A p, q \in Procs, f \in Files \ odd : p # q => ~(BusyOn(fetch[p], f) /\ BusyOn(fetch[q], f))

LEMMA SizesAre ==
  /\ \A f \in Files : Size(f) \in Nat /\ Size(f) > 0 /\ f.of \in Series
  /\ 1 \in Versions /\ Versions \subseteq Nat \ {0} /\ MaxPublishes \in Nat
  BY SeriesAre DEF Files, Size, Versions, Series

LEMMA AllFilesAre == all_files \in Seq(Files)
  <1>1. PICK n \in Nat : n = Len(Archives) /\ \A i \in 1..n : Archives[i] \in ToSet(Archives)
    BY SeriesAre DEF ToSet
  <1>2. ASSUME NEW i \in 1..(2 * n) PROVE (i + 1) \div 2 \in 1..n
    BY <1>1
  <1>3. \A i \in 1..(2 * n) : [of |-> Archives[(i + 1) \div 2], is |-> IF i % 2 = 1 THEN "zip" ELSE "CHECKSUM"] \in Files
    BY <1>1, <1>2 DEF Files
  <1>4. all_files = [i \in 1..(2 * n) |-> [of |-> Archives[(i + 1) \div 2], is |-> IF i % 2 = 1 THEN "zip" ELSE "CHECKSUM"]]
    BY <1>1 DEF all_files
  <1>5. PICK m \in Nat : m = 2 * n
    BY <1>1
  <1>6. all_files \in [1..m -> Files]
    BY <1>3, <1>4, <1>5
  <1> QED BY <1>6, SeqDef

LEMMA BodyIs ==
  ASSUME NEW f \in Files, NEW v \in Versions
  PROVE  /\ Start(Body(f, v), f, v, Size(f)) /\ Start(<<>>, f, v, 0)
         /\ \A s : Start(s, f, v, Size(f)) => s = Body(f, v)
  <1>1. PICK n \in Nat : n = Size(f) /\ n > 0 /\ v \in Nat
    BY SizesAre
  <1>2. Body(f, v) = [i \in 1..n |-> [of |-> v, at |-> i]]
    BY <1>1 DEF Body, Block
  <1>3. Body(f, v) \in Content /\ Len(Body(f, v)) = n /\ \A i \in 1..n : Body(f, v)[i] = Block(v, i)
    <2>1. \A i \in 1..n : [of |-> v, at |-> i] \in [of : Nat, at : Nat]
      BY <1>1
    <2>2. Body(f, v) \in [1..n -> [of : Nat, at : Nat]]
      BY <1>2, <2>1
    <2>3. Body(f, v) \in Content
      <3>1. PICK blocks : blocks = [of : Nat, at : Nat]
        OBVIOUS
      <3>2. n \in Nat /\ Body(f, v) \in [1..n -> blocks]
        BY <1>1, <2>2, <3>1, SizesAre
      <3>3. Body(f, v) \in Seq(blocks)
        BY <3>2, SeqDef
      <3> QED BY <3>1, <3>3 DEF Content
    <2>4. \A i \in 1..n : Body(f, v)[i] = Block(v, i)
      BY <1>2 DEF Block
    <2>5. DOMAIN Body(f, v) = 1..n
      BY <1>2
    <2>6. Len(Body(f, v)) = n
      BY <1>1, <2>3, <2>5 DEF Content
    <2> QED BY <2>3, <2>4, <2>6
  <1>4. <<>> \in Content /\ Len(<<>>) = 0
    BY DEF Content
  <1>5. ASSUME NEW s, Start(s, f, v, n) PROVE s = Body(f, v)
    <2>1. s \in Content /\ Len(s) = n /\ \A i \in 1..n : s[i] = Block(v, i)
      BY <1>5 DEF Start
    <2> QED BY <1>1, <1>3, <2>1, SeqEqual DEF Content
  <1> QED BY <1>1, <1>3, <1>4, <1>5 DEF Start

-----------------------------------------------------------------------------
(* A process that downloads nothing just now. *)
LEMMA NotBusyHolds ==
  ASSUME NEW r, IsFetch(r), r.todo \in Seq(Files), r.pc \notin Busy, r.pc = "ask" => r.todo # <<>>
  PROVE  FetchHolds(r) /\ FetchHolds(r)' /\ \A f : ~BusyOn(r, f)
  BY DEF FetchHolds, Busy, BusyOn

LEMMA AgainHolds ==
  ASSUME NEW r, r.todo \in Seq(Files), r.todo # <<>>
  PROVE  FetchHolds(again(r)) /\ FetchHolds(again(r))' /\ \A f : ~BusyOn(again(r), f)
  <1>1. PICK s : s = again(r)
    OBVIOUS
  <1>2. CASE r.tries = Retries
    <2>1. s = [idle EXCEPT !.pc = "failed"]
      BY <1>1, <1>2 DEF again
    <2>2. IsFetch(s) /\ s.pc = "failed" /\ s.todo = <<>>
      BY <2>1 DEF idle, IsFetch
    <2>3. s.todo \in Seq(Files)
      BY <2>2
    <2> QED BY <1>1, <2>2, <2>3, NotBusyHolds DEF Busy
  <1>3. CASE r.tries # Retries
    <2>1. s = [idle EXCEPT !.pc = "ask", !.todo = r.todo, !.tries = r.tries + 1]
      BY <1>1, <1>3 DEF again
    <2>2. IsFetch(s) /\ s.pc = "ask" /\ s.todo = r.todo
      BY <2>1 DEF idle, IsFetch
    <2> QED BY <1>1, <2>2, NotBusyHolds DEF Busy
  <1> QED BY <1>2, <1>3

LEMMA IdleHolds ==
  /\ FetchHolds(idle) /\ FetchHolds(idle)' /\ FetchHolds(begun) /\ FetchHolds(begun)'
  /\ \A f : ~BusyOn(idle, f) /\ ~BusyOn(begun, f)
  <1>1. IsFetch(idle) /\ idle.pc = "idle" /\ idle.todo = <<>>
    BY DEF idle, IsFetch
  <1>2. IsFetch(begun) /\ begun.pc = "look" /\ begun.todo = all_files
    <2>1. PICK s : s = begun
      OBVIOUS
    <2>2. s = [idle EXCEPT !.pc = "look", !.todo = all_files]
      BY <2>1 DEF begun
    <2>3. IsFetch(s) /\ s.pc = "look" /\ s.todo = all_files
      BY <2>2 DEF idle, IsFetch
    <2> QED BY <2>1, <2>3
  <1>3. <<>> \in Seq(Files)
    OBVIOUS
  <1> QED BY <1>1, <1>2, <1>3, AllFilesAre, NotBusyHolds DEF Busy

-----------------------------------------------------------------------------
OnlyMoves(p) ==
  /\ fetch' = [q \in Procs |-> fetch'[q]]
  /\ \A q \in Procs \ {p} : fetch'[q] = fetch[q]

(* No file changes, and a process is nowhere new that others are. *)
LEMMA QuietKeepsCache ==
  ASSUME CacheHolds, NEW p \in Procs, UNCHANGED <<store, part, inode>>, odd \subseteq odd', odd' \subseteq Files,
         upstream' \in [Series -> Versions], OnlyMoves(p), NEW r, fetch'[p] = r, FetchHolds(r)',
         \A f \in Files \ odd' : \A q \in Procs \ {p} : BusyOn(r, f) => ~BusyOn(fetch[q], f)
  PROVE  CacheHolds'
  <1>1. \A id : bytes(id)' = bytes(id)
    BY DEF bytes
  <1>2. FilesHold' /\ NamesApart'
    BY <1>1 DEF CacheHolds, FilesHold, NamesApart, CacheIsAsPublished, Excused
  <1>3. ASSUME NEW s, FetchHolds(s) PROVE FetchHolds(s)'
    BY <1>1, <1>3 DEF FetchHolds, AsksFor, OpensFor, WritesFor, Installs
  <1>4. ASSUME NEW q \in Procs, NEW s, fetch'[q] = s, FetchHolds(s)' PROVE FetchHolds(fetch[q])'
    BY <1>4 DEF FetchHolds, AsksFor, OpensFor, WritesFor, Installs, bytes
  <1>5. ASSUME NEW q \in Procs PROVE FetchHolds(fetch[q])'
    <2>1. CASE q = p
      BY <1>4, <2>1
    <2>2. CASE q # p
      <3>1. PICK s : s = fetch[q] /\ fetch'[q] = s /\ FetchHolds(s)
        BY <2>2 DEF CacheHolds, OnlyMoves
      <3> QED BY <1>3, <1>4, <3>1
    <2> QED BY <2>1, <2>2
  <1>6. ASSUME NEW q \in Procs, NEW s \in Procs, NEW f \in Files \ odd', q # s
        PROVE  ~(BusyOn(fetch'[q], f) /\ BusyOn(fetch'[s], f))
    BY <1>6 DEF CacheHolds, OnlyMoves
  <1> QED BY <1>2, <1>5, <1>6 DEF CacheHolds, OnlyMoves

-----------------------------------------------------------------------------
(* A step that changes the names or the bytes of one file only. *)
Renames(f) ==
  \/ store'[f] = store[f] /\ (part'[f] = part[f] \/ part'[f] > Len(inode))
  \/ store'[f] = part[f] /\ part'[f] = 0

Touches(f) ==
  /\ inode' \in Seq(Content) /\ Len(inode) <= Len(inode')
  /\ odd \subseteq odd' /\ odd' \subseteq Files
  /\ part' \in [Files -> 0..Len(inode')] /\ store' \in [Files -> 0..Len(inode')]
  /\ \A g \in Files \ {f} :
       /\ part'[g] = part[g] /\ store'[g] = store[g]
       /\ \A id \in {part[g], store[g]} : id # 0 => inode'[id] = inode[id]
  /\ Renames(f)

LEMMA OthersAreUntouched ==
  ASSUME NEW f \in Files, Touches(f), NEW g \in Files, g # f
  PROVE  /\ part'[g] = part[g] /\ store'[g] = store[g]
         /\ bytes(part[g])' = bytes(part[g]) /\ bytes(store[g])' = bytes(store[g])
  BY DEF Touches, bytes

(* Whoever downloads another file, or has been declared odd, is as before. *)
LEMMA TouchKeepsOthers ==
  ASSUME CacheHolds, NEW f \in Files, Touches(f), NEW s, FetchHolds(s), f \in odd' \/ ~BusyOn(s, f)
  PROVE  FetchHolds(s)'
  <1>1. IsFetch(s) /\ s.todo \in Seq(Files) /\ (s.pc = "ask" => s.todo # <<>>)
    BY DEF FetchHolds
  <1>2. CASE s.pc \notin Busy
    BY <1>1, <1>2, NotBusyHolds
  <1>3. CASE s.pc \in Busy
    <2>1. PICK g \in Files : g = Head(s.todo) /\ s.todo # <<>>
      BY <1>1, <1>3 DEF FetchHolds
    <2>2. f = g => f \in odd'
      BY <1>3, <2>1 DEF BusyOn
    <2>3. g \notin odd' => /\ g # f /\ g \notin odd
                           /\ part'[g] = part[g] /\ bytes(part[g])' = bytes(part[g])
      BY <2>2, OthersAreUntouched DEF Touches
    <2>4. CASE s.pc = "answer"
      <3>1. AsksFor(s, g)
        BY <2>1, <2>4 DEF FetchHolds
      <3>2. AsksFor(s, g)'
        BY <2>3, <3>1 DEF AsksFor
      <3> QED BY <1>1, <2>1, <2>4, <3>2 DEF FetchHolds
    <2>5. CASE s.pc = "open"
      <3>1. OpensFor(s, g)
        BY <2>1, <2>5 DEF FetchHolds
      <3>2. OpensFor(s, g)'
        BY <2>3, <3>1 DEF OpensFor
      <3> QED BY <1>1, <2>1, <2>5, <3>2 DEF FetchHolds
    <2>6. CASE s.pc = "body"
      <3>1. WritesFor(s, g)
        BY <2>1, <2>6 DEF FetchHolds
      <3>2. s.file \in 1..Len(inode) /\ Len(inode) \in Nat /\ Len(inode') \in Nat
        BY <3>1 DEF WritesFor, Touches, CacheHolds, FilesHold
      <3>3. s.file \in 1..Len(inode')
        BY <3>2 DEF Touches
      <3>4. ASSUME NEW h \in Files \ {g} PROVE s.file # part'[h] /\ s.file # store'[h]
        <4>1. s.file # part[h] /\ s.file # store[h]
          BY <3>1 DEF WritesFor
        <4> QED BY <3>2, <4>1 DEF Touches, Renames
      <3>5. g \notin odd' => s.file # 0 /\ s.file = part[g] /\ inode'[s.file] = inode[s.file]
        <4>1. SUFFICES ASSUME g \notin odd' PROVE s.file # 0 /\ s.file = part[g] /\ inode'[s.file] = inode[s.file]
          OBVIOUS
        <4>2. g # f /\ s.file = part[g] /\ s.file # 0
          BY <2>3, <3>1, <3>2, <4>1 DEF WritesFor
        <4> QED BY <4>2 DEF Touches
      <3>6. WritesFor(s, g)'
        BY <2>3, <3>1, <3>3, <3>4, <3>5 DEF WritesFor
      <3> QED BY <1>1, <2>1, <2>6, <3>6 DEF FetchHolds
    <2>7. CASE s.pc = "install"
      <3>1. Installs(g)
        BY <2>1, <2>7 DEF FetchHolds
      <3>2. Installs(g)'
        BY <2>3, <3>1 DEF Installs
      <3> QED BY <1>1, <2>1, <2>7, <3>2 DEF FetchHolds
    <2> QED BY <1>3, <2>4, <2>5, <2>6, <2>7 DEF Busy
  <1> QED BY <1>2, <1>3

(* The names stay apart: a file is renamed to one that was its own.        *)
LEMMA TouchKeepsNames ==
  ASSUME CacheHolds, NEW f \in Files, Touches(f)
  PROVE  NamesApart'
  <1>1. \A g \in Files : part[g] \in 0..Len(inode) /\ store[g] \in 0..Len(inode)
    BY DEF CacheHolds, FilesHold
  <1>2. Len(inode) \in Nat
    BY DEF CacheHolds, FilesHold
  <1>3. \A g \in Files \ {f} : part'[g] = part[g] /\ store'[g] = store[g]
    BY DEF Touches
  <1>4. part'[f] \in Int /\ store'[f] \in Int
    BY DEF Touches
  <1>5. CASE store'[f] = store[f] /\ part'[f] = part[f]
    BY <1>3, <1>5 DEF NamesApart, CacheHolds
  <1>6. CASE store'[f] = store[f] /\ part'[f] > Len(inode)
    BY <1>1, <1>2, <1>3, <1>4, <1>6 DEF NamesApart, CacheHolds
  <1>7. CASE store'[f] = part[f] /\ part'[f] = 0
    BY <1>1, <1>2, <1>3, <1>7 DEF NamesApart, CacheHolds
  <1> QED BY <1>5, <1>6, <1>7 DEF Touches, Renames

LEMMA TouchKeepsCache ==
  ASSUME CacheHolds, NEW p \in Procs, NEW f \in Files, BusyOn(fetch[p], f), Touches(f),
         upstream' = upstream, OnlyMoves(p), NEW r, fetch'[p] = r, FetchHolds(r)', \A g : BusyOn(r, g) => g = f,
         f \notin odd' => /\ part'[f] # 0 => \E v \in Versions, n \in 0..Size(f) : Start(bytes(part[f])', f, v, n)
                          /\ store'[f] # 0 => \E v \in Versions : bytes(store[f])' = Body(f, v)
  PROVE  CacheHolds'
  <1>1. NamesApart'
    BY TouchKeepsNames
  <1>2. ASSUME NEW g \in Files \ odd', part'[g] # 0
        PROVE  \E v \in Versions, n \in 0..Size(g) : Start(bytes(part[g])', g, v, n)
    <2>1. CASE g = f
      BY <1>2, <2>1
    <2>2. CASE g # f
      <3>1. part'[g] = part[g] /\ bytes(part[g])' = bytes(part[g]) /\ g \notin odd
        BY <2>2, OthersAreUntouched DEF Touches
      <3>2. \E v \in Versions, n \in 0..Size(g) : Start(bytes(part[g]), g, v, n)
        BY <1>2, <3>1 DEF CacheHolds, FilesHold
      <3> QED BY <3>1, <3>2
    <2> QED BY <2>1, <2>2
  <1>3. ASSUME NEW g \in Files \ odd', store'[g] # 0
        PROVE  \E v \in Versions : bytes(store[g])' = Body(g, v)
    <2>1. CASE g = f
      BY <1>3, <2>1
    <2>2. CASE g # f
      <3>1. store'[g] = store[g] /\ bytes(store[g])' = bytes(store[g]) /\ g \notin odd
        BY <2>2, OthersAreUntouched DEF Touches
      <3>2. \E v \in Versions : bytes(store[g]) = Body(g, v)
        BY <1>3, <3>1 DEF CacheHolds, FilesHold, CacheIsAsPublished, Excused, Versions
      <3> QED BY <3>1, <3>2
    <2> QED BY <2>1, <2>2
  <1>4. CacheIsAsPublished'
    BY <1>3 DEF CacheIsAsPublished, Excused, Versions
  <1>5. FilesHold'
    BY <1>2, <1>4 DEF FilesHold, Touches, CacheHolds
  <1>6. ASSUME NEW q \in Procs, NEW s, fetch'[q] = s, FetchHolds(s)' PROVE FetchHolds(fetch[q])'
    BY <1>6 DEF FetchHolds, AsksFor, OpensFor, WritesFor, Installs, bytes
  <1>7. ASSUME NEW q \in Procs PROVE FetchHolds(fetch[q])'
    <2>1. CASE q = p
      BY <1>6, <2>1
    <2>2. CASE q # p
      <3>1. PICK s : s = fetch[q] /\ fetch'[q] = s /\ FetchHolds(s)
        BY <2>2 DEF CacheHolds, OnlyMoves
      <3>2. f \in odd' \/ ~BusyOn(s, f)
        BY <2>2, <3>1 DEF CacheHolds, Touches
      <3>3. FetchHolds(s)'
        BY <3>1, <3>2, TouchKeepsOthers
      <3> QED BY <1>6, <3>1, <3>3
    <2> QED BY <2>1, <2>2
  <1>8. ASSUME NEW q \in Procs, NEW s \in Procs, NEW g \in Files \ odd', q # s
        PROVE  ~(BusyOn(fetch'[q], g) /\ BusyOn(fetch'[s], g))
    BY <1>8 DEF CacheHolds, OnlyMoves, Touches
  <1> QED BY <1>1, <1>5, <1>7, <1>8 DEF CacheHolds, OnlyMoves

-----------------------------------------------------------------------------
(* The steps of one download. *)
LEMMA MoverIs ==
  ASSUME CacheHolds, NEW p \in Procs, NEW s, Goto(p, s)
  PROVE  OnlyMoves(p) /\ fetch'[p] = s
  BY DEF CacheHolds, Goto, OnlyMoves

LEMMA FetcherIs ==
  ASSUME CacheHolds, NEW p \in Procs, NEW r, r = fetch[p]
  PROVE  /\ FetchHolds(r) /\ IsFetch(r) /\ r.todo \in Seq(Files) /\ current(p) = Head(r.todo)
         /\ r.todo # <<>> => Head(r.todo) \in Files /\ Tail(r.todo) \in Seq(Files)
         /\ r.pc \in {"ask"} \cup Busy => r.todo # <<>>
  BY DEF CacheHolds, FetchHolds, current

(* A process that is at no file has no file to share. *)
LEMMA RestKeepsCache ==
  ASSUME CacheHolds, NEW p \in Procs, UNCHANGED <<store, part, inode>>, odd \subseteq odd', odd' \subseteq Files,
         upstream' \in [Series -> Versions], NEW r, Goto(p, r), FetchHolds(r)', \A f : ~BusyOn(r, f)
  PROVE  CacheHolds'
  BY MoverIs, QuietKeepsCache

LEMMA LookKeepsCache ==
  ASSUME CacheHolds, NEW p \in Procs, Look(p)
  PROVE  CacheHolds'
  <1>1. PICK r : r = fetch[p] /\ r.pc = "look"
    BY DEF Look, At
  <1>2. PICK s : Goto(p, s) /\ s = CASE r.todo = <<>> -> [r EXCEPT !.pc = "fetched"]
                                     [] r.todo # <<>> /\ store[Head(r.todo)] # 0 -> [r EXCEPT !.todo = Tail(@)]
                                     [] OTHER -> [r EXCEPT !.pc = "ask"]
    BY <1>1, FetcherIs DEF Look
  <1>3. IsFetch(r) /\ r.todo \in Seq(Files) /\ (r.todo # <<>> => Tail(r.todo) \in Seq(Files))
    BY <1>1, FetcherIs
  <1>4. CASE r.todo = <<>>
    <2>1. IsFetch(s) /\ s.pc = "fetched" /\ s.todo = r.todo
      BY <1>2, <1>3, <1>4 DEF IsFetch
    <2> QED BY <1>2, <1>3, <2>1, NotBusyHolds, RestKeepsCache DEF Look, Busy, CacheHolds, FilesHold
  <1>5. CASE r.todo # <<>> /\ store[Head(r.todo)] # 0
    <2>1. IsFetch(s) /\ s.pc = "look" /\ s.todo = Tail(r.todo)
      BY <1>1, <1>2, <1>3, <1>5 DEF IsFetch
    <2> QED BY <1>2, <1>3, <1>5, <2>1, NotBusyHolds, RestKeepsCache DEF Look, Busy, CacheHolds, FilesHold
  <1>6. CASE r.todo # <<>> /\ store[Head(r.todo)] = 0
    <2>1. IsFetch(s) /\ s.pc = "ask" /\ s.todo = r.todo
      BY <1>2, <1>3, <1>6 DEF IsFetch
    <2> QED BY <1>2, <1>3, <1>6, <2>1, NotBusyHolds, RestKeepsCache DEF Look, Busy, CacheHolds, FilesHold
  <1> QED BY <1>4, <1>5, <1>6

LEMMA AskKeepsCache ==
  ASSUME CacheHolds, NEW p \in Procs, Ask(p)
  PROVE  CacheHolds'
  <1>1. PICK r : r = fetch[p] /\ r.pc = "ask"
    BY DEF Ask, At
  <1>2. PICK f \in Files : f = Head(r.todo) /\ f = current(p)
    BY <1>1, FetcherIs
  <1>3. IsFetch(r) /\ r.todo \in Seq(Files) /\ r.todo # <<>>
    BY <1>1, FetcherIs
  <1>4. PICK s : Goto(p, s) /\ s = [r EXCEPT !.pc = "answer", !.offset = Len(bytes(part[f]))]
    BY <1>1, <1>2 DEF Ask
  <1>5. IsFetch(s) /\ s.pc = "answer" /\ s.todo = r.todo /\ s.offset = Len(bytes(part[f]))
    BY <1>3, <1>4 DEF IsFetch
  <1>6. bytes(part[f]) \in Content
    BY DEF bytes, CacheHolds, FilesHold, Content
  <1>7. AsksFor(s, f)'
    BY <1>5, <1>6 DEF AsksFor, Ask, bytes, Content
  <1>8. FetchHolds(s)'
    BY <1>2, <1>3, <1>5, <1>7 DEF FetchHolds
  <1>9. odd \subseteq odd' /\ odd' \subseteq Files /\ (f \notin odd' => \A q \in Procs \ {p} : ~busy(q, f))
    BY <1>2 DEF Ask, CacheHolds, FilesHold
  <1>10. ASSUME NEW g \in Files \ odd', NEW q \in Procs \ {p}, BusyOn(s, g) PROVE ~BusyOn(fetch[q], g)
    <2>1. g = f
      BY <1>2, <1>5, <1>10 DEF BusyOn
    <2> QED BY <1>9, <1>10, <2>1 DEF busy, BusyOn, Busy, current
  <1>11. OnlyMoves(p) /\ fetch'[p] = s
    BY <1>4, MoverIs
  <1>12. UNCHANGED <<store, part, inode>> /\ upstream' \in [Series -> Versions]
    BY DEF Ask, CacheHolds, FilesHold
  <1> QED BY <1>8, <1>9, <1>10, <1>11, <1>12, QuietKeepsCache

(* A process that goes on with its file meets nobody new there. *)
LEMMA GoesOnKeepsCache ==
  ASSUME CacheHolds, NEW p \in Procs, UNCHANGED <<upstream, store, part, inode>>, odd \subseteq odd', odd' \subseteq Files,
         NEW r, Goto(p, r), FetchHolds(r)', r.todo = fetch[p].todo, fetch[p].pc \in Busy
  PROVE  CacheHolds'
  <1>1. ASSUME NEW f \in Files \ odd', NEW q \in Procs \ {p}, BusyOn(r, f) PROVE ~BusyOn(fetch[q], f)
    BY <1>1 DEF BusyOn, CacheHolds
  <1> QED BY <1>1, MoverIs, QuietKeepsCache DEF CacheHolds, FilesHold

LEMMA AnswerFailsKeepsCache ==
  ASSUME CacheHolds, NEW p \in Procs, AnswerFails(p) \/ AnswerRefuses(p)
  PROVE  CacheHolds'
  <1>1. PICK r : r = fetch[p] /\ r.pc = "answer"
    BY DEF AnswerFails, AnswerRefuses, At
  <1>2. IsFetch(r) /\ r.todo \in Seq(Files) /\ r.todo # <<>>
    BY <1>1, FetcherIs DEF Busy
  <1>3. CASE AnswerFails(p)
    <2>1. PICK s : s = again(r) /\ Goto(p, s)
      BY <1>1, <1>3 DEF AnswerFails, Again
    <2> QED BY <1>2, <1>3, <2>1, AgainHolds, RestKeepsCache DEF AnswerFails, CacheHolds, FilesHold
  <1>4. CASE AnswerRefuses(p)
    <2>1. PICK s : s = [r EXCEPT !.pc = "failed"] /\ Goto(p, s)
      BY <1>1, <1>4 DEF AnswerRefuses, Go
    <2>2. IsFetch(s) /\ s.pc = "failed" /\ s.todo = r.todo
      BY <1>2, <2>1 DEF IsFetch
    <2> QED BY <1>2, <1>4, <2>1, <2>2, NotBusyHolds, RestKeepsCache DEF AnswerRefuses, Busy, CacheHolds, FilesHold
  <1> QED BY <1>3, <1>4

LEMMA AnswerKeepsCache ==
  ASSUME CacheHolds, NEW p \in Procs, Answer(p)
  PROVE  CacheHolds'
  <1>1. PICK r : r = fetch[p] /\ r.pc = "answer"
    BY DEF Answer, At
  <1>2. PICK f \in Files : f = Head(r.todo) /\ f = current(p)
    BY <1>1, FetcherIs DEF Busy
  <1>3. IsFetch(r) /\ r.todo \in Seq(Files) /\ r.todo # <<>> /\ AsksFor(r, f)
    BY <1>1, <1>2, FetcherIs DEF Busy, FetchHolds
  <1>4. CASE \E append \in {FALSE, r.offset > 0 /\ r.offset < Size(f)} : Accept(p, append, TRUE) \/ Accept(p, append, FALSE)
    <2>1. PICK append \in BOOLEAN, sized \in BOOLEAN : Accept(p, append, sized) /\ (append => r.offset < Size(f))
      BY <1>4
    <2>2. PICK answer : answer = [of |-> upstream[f.of], next |-> IF append THEN r.offset + 1 ELSE 1,
                                  sized |-> sized, append |-> append]
      OBVIOUS
    <2>3. PICK s : Goto(p, s) /\ s = [r EXCEPT !.pc = "open", !.offset = 0, !.answer = answer]
      BY <1>1, <1>2, <2>1, <2>2 DEF Accept
    <2>4. IsFetch(s) /\ s.pc = "open" /\ s.todo = r.todo /\ s.answer = answer
      BY <1>3, <2>3 DEF IsFetch
    <2>5. upstream[f.of] \in Versions /\ Size(f) \in Nat /\ Size(f) > 0 /\ r.offset \in Nat
      BY <1>3, SizesAre DEF CacheHolds, FilesHold, AsksFor
    <2>6. s.answer.of \in Versions /\ s.answer.append \in BOOLEAN /\ IsAnswer(s.answer)
      BY <2>2, <2>4, <2>5 DEF IsAnswer
    <2>7. s.answer.next \in Nat \ {0} /\ s.answer.next <= Size(f)
      BY <2>1, <2>2, <2>4, <2>5
    <2>8. f \notin odd => s.answer.next = IF s.answer.append THEN Len(bytes(part[f])) + 1 ELSE 1
      <3>1. s.answer.append = append /\ s.answer.next = IF append THEN r.offset + 1 ELSE 1
        BY <2>2, <2>4
      <3> QED BY <1>3, <3>1 DEF AsksFor
    <2>9. OpensFor(s, f)'
      BY <2>6, <2>7, <2>8 DEF OpensFor, Answer, bytes
    <2>10. FetchHolds(s)'
      BY <1>2, <1>3, <2>4, <2>9 DEF FetchHolds
    <2> QED BY <1>1, <2>3, <2>4, <2>10, GoesOnKeepsCache DEF Answer, Busy, CacheHolds, FilesHold
  <1>5. CASE Go(p, "failed")
    <2>1. PICK s : s = [r EXCEPT !.pc = "failed"] /\ Goto(p, s)
      BY <1>1, <1>5 DEF Go
    <2>2. IsFetch(s) /\ s.pc = "failed" /\ s.todo = r.todo
      BY <1>3, <2>1 DEF IsFetch
    <2> QED BY <1>3, <2>1, <2>2, NotBusyHolds, RestKeepsCache DEF Answer, Busy, CacheHolds, FilesHold
  <1> QED BY <1>1, <1>2, <1>4, <1>5 DEF Answer

(* The .part is opened: it keeps what it has, or is emptied. *)
Opens(p, r, f, s, kept) ==
  /\ r.pc = "open" /\ f \in Files /\ r.todo \in Seq(Files) /\ r.todo # <<>> /\ OpensFor(r, f)
  /\ IsFetch(s) /\ s.pc = "body" /\ s.todo = r.todo /\ s.at = 0 /\ s.answer = r.answer
  /\ s.file = part'[f] /\ s.file \in 1..Len(inode') /\ inode'[s.file] = kept /\ kept \in Content
  /\ \A g \in Files \ {f} : s.file # part[g] /\ s.file # store[g]
  /\ store[f] # 0 => s.file # store[f] /\ inode'[store[f]] = inode[store[f]]
  /\ odd' = IF \E i \in DOMAIN kept : kept[i].of # r.answer.of THEN odd \cup {f} ELSE odd
  /\ Touches(f) /\ OnlyMoves(p) /\ upstream' = upstream /\ store' = store

LEMMA OpenIs ==
  ASSUME CacheHolds, NEW p \in Procs, Open(p), NEW r, r = fetch[p], NEW f, f = Head(r.todo), NEW s, fetch'[p] = s,
         NEW kept, kept = IF r.answer.append THEN bytes(part[f]) ELSE <<>>
  PROVE  Opens(p, r, f, s, kept)
  <1>1. r.pc = "open"
    BY DEF Open, At
  <1>2. f \in Files /\ f = current(p)
    BY <1>1, FetcherIs DEF Busy
  <1>3. IsFetch(r) /\ r.todo \in Seq(Files) /\ r.todo # <<>> /\ OpensFor(r, f)
    BY <1>1, <1>2, FetcherIs DEF Busy, FetchHolds
  <1>4. PICK len \in Nat : len = Len(inode) /\ part[f] \in 0..len /\ inode \in Seq(Content)
    <2>1. f \in Files /\ inode \in Seq(Content) /\ part \in [Files -> 0..Len(inode)]
      BY <1>2 DEF CacheHolds, FilesHold
    <2>2. Len(inode) \in Nat
      BY <2>1
    <2> QED BY <2>1, <2>2
  <1>5. PICK id : id = IF part[f] = 0 THEN len + 1 ELSE part[f]
    OBVIOUS
  <1>7. Goto(p, s) /\ s = [r EXCEPT !.pc = "body", !.file = id, !.at = 0]
    <2>1. PICK t : Goto(p, t) /\ t = [r EXCEPT !.pc = "body", !.file = id, !.at = 0]
      BY <1>1, <1>2, <1>4, <1>5 DEF Open
    <2> QED BY <2>1, MoverIs
  <1>8. /\ part' = [part EXCEPT ![f] = id]
        /\ inode' = IF id > len THEN Append(inode, kept) ELSE [inode EXCEPT ![id] = kept]
        /\ odd' = IF \E i \in DOMAIN kept : kept[i].of # r.answer.of THEN odd \cup {f} ELSE odd
        /\ upstream' = upstream /\ store' = store
    BY <1>1, <1>2, <1>4, <1>5 DEF Open
  <1>9. IsFetch(s) /\ s.pc = "body" /\ s.todo = r.todo /\ s.file = id /\ s.at = 0 /\ s.answer = r.answer
    BY <1>3, <1>7 DEF IsFetch
  <1>10. bytes(part[f]) \in Content /\ kept \in Content
    BY <1>4 DEF bytes, Content
  <1>11. id \in 1..(len + 1) /\ id \in Nat
    BY <1>4, <1>5
  <1>12. /\ inode' \in Seq(Content) /\ Len(inode') = IF id > len THEN len + 1 ELSE len
         /\ \A i \in 1..len : i # id => inode'[i] = inode[i]
         /\ inode'[id] = kept
    <2>1. CASE id > len
      <3>1. id = len + 1 /\ inode' = Append(inode, kept)
        BY <1>8, <1>11, <2>1
      <3> QED BY <1>4, <1>10, <2>1, <3>1, AppendProperties
    <2>2. CASE ~(id > len)
      <3>1. id \in 1..len /\ inode' = [inode EXCEPT ![id] = kept]
        BY <1>4, <1>8, <1>11, <2>2
      <3> QED BY <1>4, <1>10, <2>2, <3>1, ExceptSeq
    <2> QED BY <2>1, <2>2
  <1>13. id <= len => id = part[f] /\ part[f] # 0
    BY <1>4, <1>5
  <1>14. \A g \in Files \ {f} : part[g] \in 0..len /\ store[g] \in 0..len /\ id # part[g] /\ id # store[g]
    <2> TAKE g \in Files \ {f}
    <2>1. part[g] \in 0..len /\ store[g] \in 0..len
      BY <1>4 DEF CacheHolds, FilesHold
    <2>2. CASE id <= len
      BY <1>2, <1>13, <2>1, <2>2 DEF CacheHolds, NamesApart
    <2>3. CASE id > len
      BY <1>4, <1>11, <2>1, <2>3
    <2> QED BY <1>4, <1>11, <2>1, <2>2, <2>3
  <1>15. odd \subseteq odd' /\ odd' \subseteq Files
    BY <1>2, <1>8 DEF CacheHolds, FilesHold
  <1>16. Touches(f)
    <2>1. part' \in [Files -> 0..Len(inode')] /\ store' \in [Files -> 0..Len(inode')]
      <3>1. part \in [Files -> 0..len] /\ store \in [Files -> 0..len]
        BY <1>4 DEF CacheHolds, FilesHold
      <3>2. 0..len \subseteq 0..Len(inode') /\ id \in 0..Len(inode')
        BY <1>4, <1>11, <1>12
      <3> QED BY <1>8, <3>1, <3>2
    <2>2. ASSUME NEW g \in Files \ {f} PROVE part'[g] = part[g] /\ store'[g] = store[g]
      BY <1>8, <1>4 DEF CacheHolds, FilesHold
    <2>3. ASSUME NEW g \in Files \ {f}, NEW x \in {part[g], store[g]}, x # 0 PROVE inode'[x] = inode[x]
      BY <1>4, <1>12, <1>14, <2>3
    <2>4. Renames(f)
      <3>1. part'[f] = id
        BY <1>2, <1>8 DEF CacheHolds, FilesHold
      <3> QED BY <1>4, <1>8, <1>11, <1>13, <3>1 DEF Renames
    <2>5. Len(inode) <= Len(inode')
      BY <1>4, <1>12
    <2> QED BY <1>12, <1>15, <2>1, <2>2, <2>3, <2>4, <2>5 DEF Touches
  <1>17. part'[f] = id /\ id # 0 /\ bytes(part[f])' = kept
    <2>1. part'[f] = id
      BY <1>2, <1>8 DEF CacheHolds, FilesHold
    <2> QED BY <1>11, <1>12, <2>1 DEF bytes
  <1>18. store[f] # 0 => id # store[f] /\ inode'[store[f]] = inode[store[f]]
    <2>1. store[f] \in 0..len
      BY <1>2, <1>4 DEF CacheHolds, FilesHold
    <2>2. store[f] # 0 => id # store[f]
      BY <1>2, <1>4, <1>11, <1>13, <2>1 DEF CacheHolds, NamesApart
    <2> QED BY <1>4, <1>12, <2>1, <2>2
  <1>19. OnlyMoves(p)
    BY <1>7, MoverIs
  <1>20. s.file \in 1..Len(inode')
    BY <1>4, <1>9, <1>11, <1>12
  <1> QED BY <1>1, <1>2, <1>3, <1>8, <1>9, <1>10, <1>12, <1>14, <1>16, <1>17, <1>18, <1>19, <1>20 DEF Opens

(* What is kept is the start of the same version, or the file is odd from  *)
(* now on.                                                                 *)
LEMMA OpenKeepsCache ==
  ASSUME CacheHolds, NEW p \in Procs, Open(p)
  PROVE  CacheHolds'
  <1>1. PICK r, s : r = fetch[p] /\ s = fetch'[p]
    OBVIOUS
  <1>2. PICK f : f = Head(r.todo)
    OBVIOUS
  <1>6. PICK kept : kept = IF r.answer.append THEN bytes(part[f]) ELSE <<>>
    OBVIOUS
  <1>4. Opens(p, r, f, s, kept)
    BY <1>1, <1>2, <1>6, OpenIs
  <1>3. /\ r.pc = "open" /\ f \in Files /\ r.todo \in Seq(Files) /\ r.todo # <<>> /\ OpensFor(r, f)
        /\ IsFetch(s) /\ s.pc = "body" /\ s.todo = r.todo /\ s.at = 0 /\ s.answer = r.answer
        /\ s.file = part'[f] /\ s.file \in 1..Len(inode') /\ inode'[s.file] = kept /\ kept \in Content
        /\ \A g \in Files \ {f} : s.file # part[g] /\ s.file # store[g]
        /\ store[f] # 0 => s.file # store[f] /\ inode'[store[f]] = inode[store[f]]
        /\ odd' = IF \E i \in DOMAIN kept : kept[i].of # r.answer.of THEN odd \cup {f} ELSE odd
        /\ Touches(f) /\ OnlyMoves(p) /\ upstream' = upstream /\ store' = store
    BY <1>4 DEF Opens
  <1>9. IsFetch(s) /\ s.pc = "body" /\ s.todo = r.todo /\ s.at = 0 /\ s.answer = r.answer
    BY <1>3
  <1>10. bytes(part[f]) \in Content /\ kept \in Content
    BY <1>3 DEF bytes, CacheHolds, FilesHold, Content
  <1>15. odd \subseteq odd' /\ odd' \subseteq Files
    BY <1>3 DEF Touches
  <1>17. bytes(part[f])' = kept
    BY <1>3 DEF bytes
  <1>18. IsAnswer(r.answer) /\ r.answer.of \in Versions /\ r.answer.next \in Nat \ {0} /\ r.answer.append \in BOOLEAN /\ r.answer.next <= Size(f)
    BY <1>3 DEF OpensFor
  <1>19. ASSUME f \notin odd' PROVE Start(kept, f, r.answer.of, r.answer.next - 1)
    <2>1. f \notin odd /\ \A i \in DOMAIN kept : kept[i].of = r.answer.of
      BY <1>3, <1>19
    <2>2. PICK next \in Nat \ {0} : next = r.answer.next /\ next <= Size(f) /\ Size(f) \in Nat
      BY <1>3, <1>18, SizesAre
    <2>3. CASE kept = <<>>
      <3>1. r.answer.append => next = Len(bytes(part[f])) + 1
        BY <1>3, <2>1, <2>2 DEF OpensFor
      <3>2. ~r.answer.append => next = 1
        BY <1>3, <2>1, <2>2 DEF OpensFor
      <3>3. Len(kept) = 0 /\ next = 1
        BY <1>6, <2>3, <3>1, <3>2
      <3>4. next - 1 = 0 /\ 0 <= Size(f)
        BY <2>2, <3>3
      <3>5. \A i \in 1..0 : kept[i] = Block(r.answer.of, i)
        OBVIOUS
      <3>6. Start(kept, f, r.answer.of, 0)
        BY <1>10, <3>3, <3>4, <3>5 DEF Start
      <3> QED BY <2>2, <3>4, <3>6
    <2>4. CASE kept # <<>>
      <3>1. r.answer.append /\ kept = bytes(part[f]) /\ part[f] # 0
        BY <1>6, <2>4 DEF bytes
      <3>2. PICK v \in Versions, n \in 0..Size(f) : Start(kept, f, v, n)
        BY <1>3, <2>1, <3>1 DEF CacheHolds, FilesHold
      <3>3. next = Len(kept) + 1
        BY <1>3, <2>1, <2>2, <3>1 DEF OpensFor
      <3>4. PICK m \in Nat : m = n /\ m = Len(kept) /\ m <= Size(f) /\ next - 1 = m
        BY <2>2, <3>2, <3>3 DEF Start
      <3>5. ASSUME NEW i \in 1..m PROVE kept[i] = Block(r.answer.of, i)
        <4>1. kept[i] = Block(v, i) /\ i \in DOMAIN kept
          BY <1>10, <3>2, <3>4 DEF Start, Content
        <4>2. kept[i].of = v
          BY <4>1 DEF Block
        <4> QED BY <2>1, <4>1, <4>2
      <3>6. Start(kept, f, r.answer.of, m)
        BY <1>10, <3>4, <3>5 DEF Start
      <3> QED BY <2>2, <3>4, <3>6
    <2> QED BY <2>3, <2>4
  <1>20. WritesFor(s, f)'
    <2>1. /\ IsAnswer(s.answer) /\ s.answer.of \in Versions /\ s.answer.next \in Nat \ {0}
          /\ s.answer.append \in BOOLEAN
      BY <1>9, <1>18
    <2>2. s.file \in 1..Len(inode') /\ s.at \in Nat
      BY <1>3
    <2>3. \A g \in Files \ {f} : s.file # part'[g] /\ s.file # store'[g]
      BY <1>3 DEF Touches
    <2>4. f \notin odd' => s.file = part'[f] /\ Start(inode'[s.file], f, s.answer.of, s.answer.next - 1)
      BY <1>3, <1>19
    <2>5. f \notin odd' /\ ~s.answer.append => s.at = s.answer.next - 1
      <3>1. f \notin odd' => f \notin odd
        BY <1>15
      <3> QED BY <1>3, <1>9, <3>1 DEF OpensFor
    <2> QED BY <2>1, <2>2, <2>3, <2>4, <2>5 DEF WritesFor
  <1>21. FetchHolds(s)'
    BY <1>2, <1>3, <1>9, <1>20 DEF FetchHolds
  <1>22. ASSUME f \notin odd'
         PROVE  /\ \E v \in Versions, n \in 0..Size(f) : Start(bytes(part[f])', f, v, n)
                /\ store'[f] # 0 => \E v \in Versions : bytes(store[f])' = Body(f, v)
    <2>1. r.answer.next - 1 \in 0..Size(f)
      BY <1>3, <1>18, SizesAre
    <2>2. \E v \in Versions, n \in 0..Size(f) : Start(bytes(part[f])', f, v, n)
      BY <1>17, <1>18, <1>19, <1>22, <2>1
    <2>3. ASSUME store'[f] # 0 PROVE \E v \in Versions : bytes(store[f])' = Body(f, v)
      <3>1. f \notin odd /\ store[f] # 0
        BY <1>3, <1>15, <1>22, <2>3
      <3>3. bytes(store[f])' = bytes(store[f])
        BY <1>3, <3>1 DEF bytes
      <3> QED BY <1>3, <3>1, <3>3 DEF CacheHolds, FilesHold, CacheIsAsPublished, Excused, Versions
    <2> QED BY <2>2, <2>3
  <1>23. OnlyMoves(p) /\ fetch'[p] = s /\ BusyOn(fetch[p], f) /\ \A g : BusyOn(s, g) => g = f
    BY <1>1, <1>2, <1>3 DEF BusyOn, Busy
  <1> QED BY <1>3, <1>21, <1>22, <1>23, TouchKeepsCache

(* A block written right behind the last one makes the content longer. *)
Adds(old, at, block, new) ==
  /\ new \in Content
  /\ at = Len(old) + 1 => Len(new) = at /\ new[at] = block /\ \A i \in 1..Len(old) : new[i] = old[i]

LEMMA WrittenIs ==
  ASSUME NEW old \in Content, NEW at \in Nat \ {0}, NEW v \in Nat, NEW k \in Nat,
         NEW new, new = written(old, at, Block(v, k))
  PROVE  Adds(old, at, Block(v, k), new)
  <1>1. PICK len \in Nat : len = Len(old)
    BY DEF Content
  <1>2. PICK n \in Nat : n = IF at > len THEN at ELSE len
    BY <1>1
  <1>3. PICK blocks : blocks = [of : Nat, at : Nat]
    OBVIOUS
  <1>4. Block(v, k) \in blocks /\ Hole \in blocks /\ \A i \in 1..len : old[i] \in blocks
    BY <1>1, <1>3, ElementOfSeq DEF Block, Hole, Content
  <1>6. new = [i \in 1..n |-> IF i = at THEN Block(v, k) ELSE IF i > len THEN Hole ELSE old[i]]
    BY <1>1, <1>2 DEF written
  <1>7. ASSUME NEW i \in 1..n PROVE new[i] \in blocks
    <2>1. i > len \/ i \in 1..len
      BY <1>1
    <2> QED BY <1>4, <1>6, <2>1
  <1>8. new \in [1..n -> blocks]
    BY <1>6, <1>7
  <1>9. new \in Seq(blocks)
    BY <1>8, SeqDef
  <1>10. Len(new) = n
    BY <1>8, <1>9
  <1>11. ASSUME at = len + 1
         PROVE  Len(new) = at /\ new[at] = Block(v, k) /\ \A i \in 1..len : new[i] = old[i]
    <2>1. n = at /\ at \in 1..n
      BY <1>1, <1>2, <1>11
    <2>2. ASSUME NEW i \in 1..len PROVE new[i] = old[i]
      <3>1. i \in 1..n /\ i # at /\ ~(i > len)
        BY <1>1, <1>11, <2>1
      <3> QED BY <1>6, <3>1
    <2> QED BY <1>6, <1>10, <2>1, <2>2
  <1> QED BY <1>1, <1>3, <1>9, <1>11 DEF Content, Adds

(* A chunk is written, and what was the start of a version is one block    *)
(* longer.                                                                 *)
Writes(p, r, f, s) ==
  /\ r.pc = "body" /\ f \in Files /\ r.todo \in Seq(Files) /\ r.todo # <<>> /\ WritesFor(r, f)
  /\ IsFetch(s) /\ s.pc = "body" /\ s.todo = r.todo /\ s.file = r.file /\ s.at \in Nat
  /\ IsAnswer(s.answer) /\ s.answer.of = r.answer.of /\ s.answer.append = r.answer.append
  /\ s.answer.next = r.answer.next + 1 /\ r.answer.next \in 1..Size(f)
  /\ Len(inode') = Len(inode) /\ \A i \in 1..Len(inode) : i # r.file => inode'[i] = inode[i]
  /\ Touches(f) /\ OnlyMoves(p) /\ UNCHANGED <<upstream, store, part, odd>>
  /\ Start(inode[r.file], f, r.answer.of, r.answer.next - 1) /\ (~r.answer.append => r.at = r.answer.next - 1) =>
       Start(inode'[r.file], f, r.answer.of, r.answer.next) /\ s.at = r.answer.next

LEMMA WriteIs ==
  ASSUME CacheHolds, NEW p \in Procs, Write(p), NEW r, r = fetch[p], NEW f, f = Head(r.todo), NEW s, fetch'[p] = s
  PROVE  Writes(p, r, f, s)
  <1>1. r.pc = "body"
    BY DEF Write, At
  <1>2. f \in Files /\ f = current(p)
    BY <1>1, FetcherIs DEF Busy
  <1>3. IsFetch(r) /\ r.todo \in Seq(Files) /\ r.todo # <<>> /\ WritesFor(r, f)
    BY <1>1, <1>2, FetcherIs DEF Busy, FetchHolds
  <1>4. PICK len \in Nat : len = Len(inode) /\ r.file \in 1..len /\ inode \in Seq(Content)
    BY <1>3 DEF CacheHolds, FilesHold, WritesFor
  <1>5. PICK old \in Content : old = inode[r.file]
    BY <1>4
  <1>6. PICK at : at = IF r.answer.append THEN Len(old) + 1 ELSE r.at + 1
    OBVIOUS
  <1>7. PICK v \in Versions, next \in Nat \ {0} : v = r.answer.of /\ next = r.answer.next /\ v \in Nat
    BY <1>3, SizesAre DEF WritesFor
  <1>8. PICK new : new = written(old, at, Block(v, next))
    OBVIOUS
  <1>9. Goto(p, s) /\ s = [r EXCEPT !.answer.next = @ + 1, !.at = at]
    <2>1. PICK t : Goto(p, t) /\ t = [r EXCEPT !.answer.next = @ + 1, !.at = at]
      BY <1>1, <1>5, <1>6 DEF Write
    <2> QED BY <2>1, MoverIs
  <1>10. /\ next <= Size(f) /\ inode' = [inode EXCEPT ![r.file] = new]
         /\ UNCHANGED <<upstream, store, part, odd>>
    BY <1>1, <1>2, <1>5, <1>6, <1>7, <1>8 DEF Write
  <1>11. PICK answer : answer = [r.answer EXCEPT !.next = @ + 1]
    OBVIOUS
  <1>12. IsFetch(s) /\ s.pc = "body" /\ s.todo = r.todo /\ s.file = r.file /\ s.at = at /\ s.answer = answer
    BY <1>1, <1>3, <1>9, <1>11 DEF IsFetch
  <1>13. at \in Nat \ {0}
    BY <1>3, <1>6 DEF WritesFor, Content
  <1>14. /\ new \in Content
         /\ at = Len(old) + 1 => Len(new) = at /\ new[at] = Block(v, next) /\ \A i \in 1..Len(old) : new[i] = old[i]
    <2>1. v \in Nat /\ next \in Nat /\ at \in Nat \ {0} /\ old \in Content
      BY <1>5, <1>7, <1>13
    <2>2. Adds(old, at, Block(v, next), new)
      BY <1>8, <2>1, WrittenIs
    <2> QED BY <2>2 DEF Adds
  <1>15. /\ inode' \in Seq(Content) /\ Len(inode') = len /\ inode'[r.file] = new
         /\ \A i \in 1..len : i # r.file => inode'[i] = inode[i]
    BY <1>4, <1>10, <1>14, ExceptSeq
  <1>16. \A g \in Files : part[g] \in 0..len /\ store[g] \in 0..len
    BY <1>4 DEF CacheHolds, FilesHold
  <1>17. \A g \in Files \ {f} : r.file # part[g] /\ r.file # store[g]
    BY <1>3 DEF WritesFor
  <1>18. Touches(f)
    <2>1. ASSUME NEW g \in Files \ {f}, NEW x \in {part[g], store[g]}, x # 0 PROVE inode'[x] = inode[x]
      BY <1>2, <1>15, <1>16, <1>17, <2>1
    <2> QED BY <1>4, <1>10, <1>15, <2>1 DEF Touches, Renames, CacheHolds, FilesHold
  <1>19. next \in 1..Size(f)
    BY <1>2, <1>7, <1>10, SizesAre
  <1>20. ASSUME Start(old, f, v, next - 1), ~r.answer.append => r.at = next - 1
         PROVE  Start(new, f, v, next) /\ at = next
    <2>1. Len(old) = next - 1 /\ at = next /\ at = Len(old) + 1
      BY <1>6, <1>7, <1>20 DEF Start
    <2>2. Len(new) = next /\ new[next] = Block(v, next) /\ \A i \in 1..Len(old) : new[i] = old[i]
      BY <1>14, <2>1
    <2>3. ASSUME NEW i \in 1..next PROVE new[i] = Block(v, i)
      <3>1. CASE i = next
        BY <2>2, <3>1
      <3>2. CASE i # next
        <4>1. i \in 1..(next - 1) /\ 1..Len(old) = 1..(next - 1)
          BY <1>7, <2>1, <3>2
        <4> QED BY <1>20, <2>2, <4>1 DEF Start
      <3> QED BY <3>1, <3>2
    <2> QED BY <1>7, <1>10, <1>14, <2>1, <2>2, <2>3 DEF Start
  <1>21. /\ IsAnswer(s.answer) /\ s.answer.of = r.answer.of /\ s.answer.append = r.answer.append
         /\ s.answer.next = r.answer.next + 1
    <2>1. IsAnswer(r.answer)
      BY <1>3 DEF WritesFor
    <2>2. /\ IsAnswer(answer) /\ answer.of = r.answer.of /\ answer.append = r.answer.append
          /\ answer.next = r.answer.next + 1
      BY <1>11, <2>1 DEF IsAnswer
    <2> QED BY <1>12, <2>2
  <1>22. s.at \in Nat /\ OnlyMoves(p)
    BY <1>9, <1>12, <1>13, MoverIs
  <1> QED BY <1>1, <1>2, <1>3, <1>4, <1>5, <1>7, <1>10, <1>12, <1>15, <1>18, <1>19, <1>20, <1>21, <1>22 DEF Writes

LEMMA WriteKeepsCache ==
  ASSUME CacheHolds, NEW p \in Procs, Write(p)
  PROVE  CacheHolds'
  <1>1. PICK r, s : r = fetch[p] /\ s = fetch'[p]
    OBVIOUS
  <1>2. PICK f : f = Head(r.todo)
    OBVIOUS
  <1>3. Writes(p, r, f, s)
    BY <1>1, <1>2, WriteIs
  <1>4. PICK v, next : v = r.answer.of /\ next = r.answer.next
    OBVIOUS
  <1>5. /\ f \in Files /\ v \in Versions /\ next \in Nat \ {0} /\ next \in 0..Size(f)
        /\ s.answer.next - 1 = next /\ Len(inode) \in Nat /\ UNCHANGED <<upstream, store, part, odd>>
    BY <1>3, <1>4, SizesAre DEF Writes, WritesFor, CacheHolds, FilesHold
  <1>6. ASSUME f \notin odd
        PROVE  r.file = part[f] /\ Start(inode'[r.file], f, v, next) /\ s.at = next
    BY <1>3, <1>4, <1>6 DEF Writes, WritesFor
  <1>7. WritesFor(s, f)'
    <2>1. /\ IsAnswer(s.answer) /\ s.answer.of \in Versions /\ s.answer.next \in Nat \ {0}
          /\ s.answer.append \in BOOLEAN
      BY <1>3, <1>4, <1>5 DEF Writes, WritesFor
    <2>2. s.file \in 1..Len(inode') /\ s.at \in Nat
      BY <1>3 DEF Writes, WritesFor
    <2>3. \A g \in Files \ {f} : s.file # part'[g] /\ s.file # store'[g]
      BY <1>3, <1>5 DEF Writes, WritesFor
    <2>4. f \notin odd' => /\ s.file = part'[f] /\ Start(inode'[s.file], f, s.answer.of, s.answer.next - 1)
                           /\ s.at = s.answer.next - 1
      BY <1>3, <1>4, <1>5, <1>6 DEF Writes
    <2> QED BY <2>1, <2>2, <2>3, <2>4 DEF WritesFor
  <1>8. FetchHolds(s)'
    BY <1>2, <1>3, <1>7 DEF FetchHolds, Writes
  <1>9. ASSUME f \notin odd'
        PROVE  /\ \E w \in Versions, n \in 0..Size(f) : Start(bytes(part[f])', f, w, n)
               /\ store'[f] # 0 => \E w \in Versions : bytes(store[f])' = Body(f, w)
    <2>1. f \notin odd /\ r.file = part[f] /\ part[f] # 0 /\ part[f] \in 1..Len(inode)
      BY <1>3, <1>5, <1>6, <1>9 DEF Writes, WritesFor
    <2>2. Start(bytes(part[f])', f, v, next)
      BY <1>5, <1>6, <2>1 DEF bytes
    <2>3. ASSUME store'[f] # 0 PROVE \E w \in Versions : bytes(store[f])' = Body(f, w)
      <3>1. store[f] # 0 /\ store[f] \in 1..Len(inode) /\ store[f] # r.file
        BY <1>5, <2>1, <2>3 DEF CacheHolds, FilesHold, NamesApart
      <3>2. bytes(store[f])' = bytes(store[f])
        BY <1>3, <1>5, <3>1 DEF bytes, Writes
      <3> QED BY <1>5, <2>1, <3>1, <3>2 DEF CacheHolds, FilesHold, CacheIsAsPublished, Excused, Versions
    <2> QED BY <1>5, <2>2, <2>3
  <1>10. Touches(f) /\ OnlyMoves(p) /\ fetch'[p] = s /\ BusyOn(fetch[p], f) /\ \A g : BusyOn(s, g) => g = f
    BY <1>1, <1>2, <1>3 DEF BusyOn, Busy, Writes
  <1> QED BY <1>5, <1>8, <1>9, <1>10, TouchKeepsCache

(* The body ends, as promised, too early, or nobody knows.                 *)
LEMMA BodyEndsKeepCache ==
  ASSUME CacheHolds, NEW p \in Procs, EndBody(p) \/ CutBody(p)
  PROVE  CacheHolds'
  <1>1. PICK r : r = fetch[p] /\ r.pc = "body"
    BY DEF EndBody, CutBody, At
  <1>2. PICK f \in Files : f = Head(r.todo) /\ f = current(p)
    BY <1>1, FetcherIs DEF Busy
  <1>3. IsFetch(r) /\ r.todo \in Seq(Files) /\ r.todo # <<>> /\ WritesFor(r, f)
    BY <1>1, <1>2, FetcherIs DEF Busy, FetchHolds
  <1>4. PICK s : s = [idle EXCEPT !.pc = "install", !.todo = r.todo, !.tries = r.tries]
    OBVIOUS
  <1>5. IsFetch(s) /\ s.pc = "install" /\ s.todo = r.todo
    BY <1>4 DEF idle, IsFetch
  <1>6. odd \subseteq odd' /\ odd' \subseteq Files
    BY <1>2 DEF EndBody, CutBody, CacheHolds, FilesHold
  <1>7. ASSUME Installs(f)', Goto(p, s)
        PROVE  CacheHolds'
    <2>1. FetchHolds(s)'
      BY <1>2, <1>3, <1>5, <1>7 DEF FetchHolds
    <2> QED BY <1>1, <1>5, <1>6, <1>7, <2>1, GoesOnKeepsCache DEF Busy, EndBody, CutBody
  <1>8. CASE EndBody(p)
    <2>1. Goto(p, s) /\ r.answer.next > Size(f)
      BY <1>1, <1>2, <1>4, <1>8 DEF EndBody, body_ended
    <2>2. ASSUME f \notin odd, part[f] # 0 PROVE \E v \in Versions : bytes(part[f]) = Body(f, v)
      <3>1. /\ r.file = part[f] /\ Start(inode[r.file], f, r.answer.of, r.answer.next - 1)
            /\ r.answer.of \in Versions /\ r.answer.next \in Nat
        BY <1>3, <2>2 DEF WritesFor
      <3>2. r.answer.next - 1 <= Size(f) /\ Size(f) \in Nat
        BY <3>1, SizesAre DEF Start
      <3>3. r.answer.next - 1 = Size(f)
        BY <2>1, <3>1, <3>2
      <3>4. inode[r.file] = Body(f, r.answer.of)
        BY <3>1, <3>3, BodyIs
      <3> QED BY <2>2, <3>1, <3>4 DEF bytes
    <2>3. Installs(f)'
      BY <1>8, <2>2 DEF Installs, EndBody, bytes
    <2> QED BY <1>7, <2>1, <2>3
  <1>9. CASE CutBody(p) /\ r.answer.sized
    <2>1. PICK t : t = again(r) /\ Goto(p, t)
      BY <1>1, <1>9 DEF CutBody, body_ended
    <2> QED BY <1>3, <1>6, <1>9, <2>1, AgainHolds, RestKeepsCache DEF CutBody, CacheHolds, FilesHold
  <1>10. CASE CutBody(p) /\ ~r.answer.sized
    <2>1. Goto(p, s) /\ f \in odd'
      BY <1>1, <1>2, <1>4, <1>10 DEF CutBody, body_ended
    <2>2. Installs(f)'
      BY <2>1 DEF Installs
    <2> QED BY <1>7, <2>1, <2>2
  <1> QED BY <1>8, <1>9, <1>10

(* The .part gets the name of the file. *)
Renamed(p, r, f, s) ==
  /\ r.pc = "install" /\ f \in Files /\ r.todo \in Seq(Files) /\ r.todo # <<>> /\ Installs(f)
  /\ IsFetch(s) /\ s.pc = "look" /\ s.todo = Tail(r.todo) /\ s.todo \in Seq(Files)
  /\ store'[f] = part[f] /\ part'[f] = 0
  /\ Touches(f) /\ OnlyMoves(p) /\ UNCHANGED <<upstream, inode, odd>>

LEMMA InstallIs ==
  ASSUME CacheHolds, NEW p \in Procs, Install(p), NEW r, r = fetch[p], NEW f, f = Head(r.todo), NEW s, fetch'[p] = s,
         part[f] # 0
  PROVE  Renamed(p, r, f, s)
  <1>1. r.pc = "install"
    BY DEF Install, At
  <1>2. f \in Files /\ f = current(p)
    BY <1>1, FetcherIs DEF Busy
  <1>3. IsFetch(r) /\ r.todo \in Seq(Files) /\ r.todo # <<>> /\ Tail(r.todo) \in Seq(Files) /\ Installs(f)
    BY <1>1, <1>2, FetcherIs DEF Busy, FetchHolds
  <1>4. s = [idle EXCEPT !.pc = "look", !.todo = Tail(r.todo)] /\ OnlyMoves(p)
    <2>1. PICK t : t = [idle EXCEPT !.pc = "look", !.todo = Tail(r.todo)] /\ Goto(p, t)
      BY <1>1, <1>2 DEF Install
    <2> QED BY <2>1, MoverIs
  <1>5. IsFetch(s) /\ s.pc = "look" /\ s.todo = Tail(r.todo)
    BY <1>4 DEF idle, IsFetch
  <1>6. /\ store' = [store EXCEPT ![f] = part[f]] /\ part' = [part EXCEPT ![f] = 0]
        /\ UNCHANGED <<upstream, inode, odd>>
    BY <1>1, <1>2 DEF Install
  <1>7. store'[f] = part[f] /\ part'[f] = 0
    BY <1>2, <1>6 DEF CacheHolds, FilesHold
  <1>8. part' \in [Files -> 0..Len(inode)] /\ store' \in [Files -> 0..Len(inode)]
    BY <1>2, <1>6 DEF CacheHolds, FilesHold
  <1>9. Touches(f)
    BY <1>2, <1>6, <1>7, <1>8 DEF Touches, Renames, CacheHolds, FilesHold
  <1> QED BY <1>1, <1>2, <1>3, <1>4, <1>5, <1>6, <1>7, <1>9 DEF Renamed

LEMMA InstallKeepsCache ==
  ASSUME CacheHolds, NEW p \in Procs, Install(p)
  PROVE  CacheHolds'
  <1>1. PICK r, s : r = fetch[p] /\ s = fetch'[p] /\ r.pc = "install"
    BY DEF Install, At
  <1>2. PICK f \in Files : f = Head(r.todo) /\ f = current(p)
    BY <1>1, FetcherIs DEF Busy
  <1>3. CASE part[f] = 0
    <2>1. PICK t : t = again(r) /\ Goto(p, t)
      BY <1>1, <1>2, <1>3 DEF Install, Again
    <2>2. r.todo \in Seq(Files) /\ r.todo # <<>>
      BY <1>1, FetcherIs DEF Busy
    <2> QED BY <1>2, <1>3, <2>1, <2>2, AgainHolds, RestKeepsCache DEF Install, CacheHolds, FilesHold
  <1>4. CASE part[f] # 0
    <2>1. Renamed(p, r, f, s)
      BY <1>1, <1>2, <1>4, InstallIs
    <2>2. FetchHolds(s)' /\ \A g : ~BusyOn(s, g)
      BY <2>1, NotBusyHolds DEF Busy, Renamed
    <2>3. f \notin odd' => \E v \in Versions : bytes(store[f])' = Body(f, v)
      BY <1>4, <2>1 DEF Installs, bytes, Renamed
    <2>4. OnlyMoves(p) /\ fetch'[p] = s /\ BusyOn(fetch[p], f)
      BY <1>1, <1>2, <2>1 DEF BusyOn, Busy, Renamed
    <2> QED BY <2>1, <2>2, <2>3, <2>4, TouchKeepsCache DEF Renamed
  <1> QED BY <1>3, <1>4

LEMMA DownloadingKeepsCache ==
  ASSUME CacheHolds, NEW p \in Procs, Downloading(p)
  PROVE  CacheHolds'
  BY LookKeepsCache, AskKeepsCache, AnswerKeepsCache, AnswerFailsKeepsCache, OpenKeepsCache, WriteKeepsCache,
     BodyEndsKeepCache, InstallKeepsCache DEF Downloading

-----------------------------------------------------------------------------
(* What a run does beside its downloads changes no raw file. *)
LEMMA StillKeepsCache ==
  ASSUME CacheHolds, UNCHANGED <<store, part, inode, odd, fetch>>, upstream' \in [Series -> Versions]
  PROVE  CacheHolds'
  <1>1. \A id : bytes(id)' = bytes(id)
    BY DEF bytes
  <1>2. FilesHold' /\ NamesApart'
    BY <1>1 DEF CacheHolds, FilesHold, NamesApart, CacheIsAsPublished, Excused
  <1>3. ASSUME NEW p \in Procs PROVE FetchHolds(fetch[p])'
    <2>1. FetchHolds(fetch[p])
      BY DEF CacheHolds
    <2> QED BY <1>1, <2>1 DEF FetchHolds, AsksFor, OpensFor, WritesFor, Installs, bytes
  <1> QED BY <1>2, <1>3 DEF CacheHolds

LEMMA PublishKeepsCache ==
  ASSUME CacheHolds, Publish
  PROVE  CacheHolds'
  <1>1. PICK a \in Series : upstream[a] <= MaxPublishes /\ upstream' = [upstream EXCEPT ![a] = @ + 1]
    BY DEF Publish, CacheHolds, FilesHold
  <1>2. upstream[a] + 1 \in Versions
    BY <1>1, SizesAre DEF CacheHolds, FilesHold, Versions
  <1>3. upstream' \in [Series -> Versions]
    BY <1>1, <1>2 DEF CacheHolds, FilesHold
  <1> QED BY <1>3, StillKeepsCache DEF Publish

LEMMA ResetKeepsCache ==
  ASSUME CacheHolds, NEW p \in Procs, UNCHANGED disk_vars,
         fetch' \in {fetch, [fetch EXCEPT ![p] = idle], [fetch EXCEPT ![p] = begun]}
  PROVE  CacheHolds'
  <1>1. UNCHANGED <<upstream, store, part, inode, odd>> /\ odd \subseteq Files /\ upstream \in [Series -> Versions]
    BY DEF disk_vars, CacheHolds, FilesHold
  <1>2. CASE fetch' = fetch
    BY <1>1, <1>2, StillKeepsCache
  <1>3. CASE fetch' = [fetch EXCEPT ![p] = idle]
    BY <1>1, <1>3, IdleHolds, RestKeepsCache DEF Goto
  <1>4. CASE fetch' = [fetch EXCEPT ![p] = begun]
    BY <1>1, <1>4, IdleHolds, RestKeepsCache DEF Goto
  <1> QED BY <1>2, <1>3, <1>4

LEMMA CacheInductive == CacheHolds /\ [Next]_vars => CacheHolds'
  <1> SUFFICES ASSUME CacheHolds, [Next]_vars PROVE CacheHolds'
    OBVIOUS
  <1>1. CASE UNCHANGED vars
    BY <1>1, StillKeepsCache DEF vars, bulk_vars, CacheHolds, FilesHold
  <1>2. CASE Published
    BY <1>2, PublishKeepsCache DEF Published
  <1>3. ASSUME NEW p \in Procs, Acquire(p) \/ Nightly(p)
        PROVE  CacheHolds'
    <2>1. PICK r : Begin(p, r)
      BY <1>3 DEF Acquire, Nightly
    <2> QED BY <2>1, ResetKeepsCache DEF Begin
  <1>4. ASSUME NEW p \in Procs, Fetching(p)
        PROVE  CacheHolds'
    BY <1>4, DownloadingKeepsCache DEF Fetching
  <1>5. ASSUME NEW p \in Procs, FetchFails(p) \/ Verify(p) \/ Kill(p)
        PROVE  CacheHolds'
    BY <1>5, ResetKeepsCache DEF FetchFails, Verify, Kill
  <1>6. ASSUME NEW p \in Procs, Read(p)
        PROVE  CacheHolds'
    BY <1>6, ResetKeepsCache DEF Read
  <1>7. ASSUME NEW p \in Procs,
               MakeDirectory(p) \/ WriteFile(p) \/ Compare(p) \/ CopyFile(p) \/ CopyFails(p) \/ Copied(p)
                 \/ Load(p) \/ Receipt(p)
        PROVE  CacheHolds'
    <2>1. UNCHANGED elsewhere
      BY <1>7 DEF MakeDirectory, WriteFile, Compare, CopyFile, OpenCopy, FillCopy, SyncCopy, CopyFails, Copied, Load, Receipt
    <2> QED BY <2>1, ResetKeepsCache DEF elsewhere
  <1> QED BY <1>1, <1>2, <1>3, <1>4, <1>5, <1>6, <1>7 DEF Next

-----------------------------------------------------------------------------
(* What earlier runs have left: every file under its own name. *)
LEMMA EveryFile == \E m \in Nat : all_files \in [1..m -> Files] /\ \A f \in Files : \E i \in 1..m : all_files[i] = f
  <1>1. PICK n \in Nat : n = Len(Archives) /\ DOMAIN Archives = 1..n
    BY SeriesAre
  <1>2. PICK m \in Nat : m = 2 * n
    BY <1>1
  <1>3. all_files = [i \in 1..m |-> [of |-> Archives[(i + 1) \div 2], is |-> IF i % 2 = 1 THEN "zip" ELSE "CHECKSUM"]]
    BY <1>1, <1>2 DEF all_files
  <1>4. all_files \in [1..m -> Files]
    <2>1. Len(all_files) = m
      BY <1>3, AllFilesAre
    <2> QED BY <2>1, AllFilesAre, LenProperties
  <1>5. ASSUME NEW f \in Files PROVE \E i \in 1..m : all_files[i] = f
    <2>1. PICK a \in ToSet(Archives), k \in {"zip", "CHECKSUM"} : f = [of |-> a, is |-> k]
      BY DEF Files
    <2>2. PICK j \in 1..n : Archives[j] = a
      BY <1>1, <2>1 DEF ToSet
    <2>3. CASE k = "zip"
      <3>1. PICK i \in 1..m : i = 2 * j - 1
        BY <1>1, <1>2, <2>2
      <3>2. (i + 1) \div 2 = j /\ i % 2 = 1
        BY <1>1, <2>2, <3>1
      <3> QED BY <1>3, <2>1, <2>2, <2>3, <3>2
    <2>4. CASE k = "CHECKSUM"
      <3>1. PICK i \in 1..m : i = 2 * j
        BY <1>1, <1>2, <2>2
      <3>2. (i + 1) \div 2 = j /\ i % 2 # 1
        BY <1>1, <2>2, <3>1
      <3> QED BY <1>3, <2>1, <2>2, <2>4, <3>2
    <2> QED BY <2>1, <2>3, <2>4
  <1> QED BY <1>4, <1>5

LEMMA FilesAreFinite == IsFiniteSet(Files)
  <1>1. PICK m \in Nat : all_files \in [1..m -> Files] /\ \A f \in Files : \E i \in 1..m : all_files[i] = f
    BY EveryFile
  <1>2. all_files \in Surjection(1..m, Files)
    BY <1>1 DEF Surjection
  <1>3. IsFiniteSet(1..m)
    BY FS_Interval
  <1> QED BY <1>2, <1>3, FS_Surjection

LEMMA SetToSeqIs ==
  ASSUME NEW S, IsFiniteSet(S)
  PROVE  /\ Cardinality(S) \in Nat
         /\ SetToSeq(S) \in [1..Cardinality(S) -> S]
         /\ \A s \in S : \E i \in 1..Cardinality(S) : SetToSeq(S)[i] = s
  <1>1. PICK n \in Nat : n = Cardinality(S) /\ ExistsBijection(1..n, S)
    BY FS_CardinalityType
  <1>2. \E f \in [1..n -> S] : IsInjective(f)
    BY <1>1 DEF ExistsBijection, Bijection, Injection
  <1>3. PICK f : f = SetToSeq(S)
    OBVIOUS
  <1>4. f \in [1..n -> S] /\ IsInjective(f)
    BY <1>1, <1>2, <1>3 DEF SetToSeq
  <1>5. f \in Injection(1..n, S)
    BY <1>4 DEF Injection
  <1>6. Cardinality(1..n) = n
    BY FS_Interval
  <1>7. f \in Surjection(1..n, S)
    BY <1>1, <1>5, <1>6, FS_Injection
  <1> QED BY <1>1, <1>3, <1>4, <1>7 DEF Surjection

LEMMA CacheInit == Init => CacheHolds
  <1> SUFFICES ASSUME BulkInit PROVE CacheHolds
    BY DEF Init
  <1>1. PICK S : S = {f \in Files : f.of \in Cached} /\ IsFiniteSet(S)
    BY FilesAreFinite, FS_Subset
  <1>2. PICK n \in Nat : n = Cardinality(S)
    BY <1>1, FS_CardinalityType
  <1>3. PICK files : files = SetToSeq(S)
    OBVIOUS
  <1>4. files \in [1..n -> S] /\ \A f \in S : \E i \in 1..n : files[i] = f
    BY <1>1, <1>2, <1>3, SetToSeqIs
  <1>5. DOMAIN files = 1..n
    BY <1>4
  <1>6. /\ upstream = [a \in Series |-> 1] /\ part = [f \in Files |-> 0] /\ odd = {}
        /\ fetch = [p \in Procs |-> idle]
    BY DEF BulkInit, Series
  <1>7. inode = [i \in 1..n |-> Body(files[i], 1)] /\ store = [f \in Files |-> store[f]]
    <2>1. files = SetToSeq({f \in Files : f.of \in Cached})
      BY <1>1, <1>3
    <2>2. inode = [i \in DOMAIN files |-> Body(files[i], 1)]
      BY <2>1, Zenon DEF BulkInit
    <2>3. store = [f \in Files |-> store[f]]
      BY DEF BulkInit
    <2> QED BY <1>5, <2>2, <2>3
  <1>8. ASSUME NEW f \in Files
        PROVE  store[f] \in 0..n /\ (store[f] # 0 => store[f] \in 1..n /\ files[store[f]] = f)
    <2>1. CASE f.of \in Cached
      <3> DEFINE list == SetToSeq({g \in Files : g.of \in Cached})
      <3>1. store[f] = CHOOSE i \in DOMAIN list : list[i] = f
        BY <2>1 DEF BulkInit
      <3>2. list = files
        BY <1>1, <1>3
      <3> HIDE DEF list
      <3>3. \E i \in DOMAIN list : list[i] = f
        BY <1>1, <1>4, <1>5, <2>1, <3>2
      <3>4. store[f] \in DOMAIN list /\ list[store[f]] = f
        BY <3>1, <3>3
      <3> QED BY <1>5, <3>2, <3>4
    <2>2. CASE f.of \notin Cached
      BY <2>2 DEF BulkInit
    <2> QED BY <2>1, <2>2
  <1>9. ASSUME NEW i \in 1..n PROVE inode[i] = Body(files[i], 1) /\ files[i] \in Files /\ Body(files[i], 1) \in Content
    <2>1. files[i] \in Files
      BY <1>1, <1>4
    <2> QED BY <1>7, <2>1, SizesAre, BodyIs DEF Start
  <1>10. inode \in [1..n -> Content]
    BY <1>7, <1>9
  <1>11. inode \in Seq(Content) /\ Len(inode) = n
    BY <1>10, SeqDef
  <1>12. CacheIsAsPublished
    <2>1. ASSUME NEW f \in Files, store[f] # 0 PROVE bytes(store[f]) = Body(f, 1)
      BY <1>8, <1>9, <2>1 DEF bytes
    <2> QED BY <2>1, SizesAre DEF CacheIsAsPublished, Versions
  <1>13. FilesHold
    <2>1. upstream \in [Series -> Versions]
      BY <1>6, SizesAre
    <2>2. store \in [Files -> 0..n]
      BY <1>7, <1>8
    <2>3. part \in [Files -> 0..n]
      BY <1>6
    <2> QED BY <1>6, <1>11, <1>12, <2>1, <2>2, <2>3 DEF FilesHold
  <1>14. NamesApart
    <2>1. \A f \in Files : part[f] = 0
      BY <1>6
    <2> QED BY <1>8, <2>1 DEF NamesApart
  <1>15. \A p \in Procs : fetch[p] = idle
    BY <1>6
  <1> QED BY <1>6, <1>13, <1>14, <1>15, IdleHolds DEF CacheHolds

(* A raw file holds one published version, whole, however often its        *)
(* download was cut off, retried, killed and resumed, and whatever other   *)
(* processes did in the directory; unless one of the three things the      *)
(* download has no guard against has happened to it (see Excused).         *)
THEOREM RawFilesAreAsPublished == Spec => []CacheIsAsPublished
  <1>1. CacheHolds => CacheIsAsPublished
    BY DEF CacheHolds, FilesHold
  <1> QED BY <1>1, CacheInit, CacheInductive, PTL DEF Spec

-----------------------------------------------------------------------------
(* A run that nothing disturbs.  Its raw files are of one version of each  *)
(* archive: there already, or on their way.                                *)
Comes(f, v) ==
  IF store[f] # 0 THEN bytes(store[f]) = Body(f, v)
  ELSE /\ upstream[f.of] = v
       /\ Len(bytes(part[f])) < Size(f) /\ Start(bytes(part[f]), f, v, Len(bytes(part[f])))

Downloads(r, f, v) ==
  /\ store[f] = 0
  /\ r.pc = "answer" => r.offset = Len(bytes(part[f]))
  /\ r.pc = "open" => r.answer.of = v /\ r.answer.next = IF r.answer.append THEN Len(bytes(part[f])) + 1 ELSE 1
  /\ r.pc = "body" => /\ r.file = part[f] /\ r.answer.of = v /\ Start(inode[r.file], f, v, r.answer.next - 1)
                      /\ ~r.answer.append => r.at = r.answer.next - 1
  /\ r.pc = "install" => part[f] # 0 /\ bytes(part[f]) = Body(f, v)

FetchGoes(r, vs) ==
  /\ r.pc \in {"look", "fetched", "ask"} \cup Busy
  /\ r.pc = "fetched" => r.todo = <<>>
  /\ r.pc \in {"ask"} \cup Busy => Downloads(r, Head(r.todo), vs[Head(r.todo).of])
  /\ \A f \in Files : /\ store[f] # 0 \/ f \in ToSet(r.todo)
                      /\ Comes(f, vs[f.of]) \/ (r.pc \in {"body", "install"} /\ f = Head(r.todo))

AllCame(vs) == \A f \in Files : store[f] # 0 /\ Comes(f, vs[f.of])

(* The three kinds of runs, beside their downloads. *)
Builds(r) ==
  /\ r.does = "build" /\ r.pc \in {"fetch", "read", "mkdir", "write", "load"}
  /\ r.pc \in {"fetch", "read", "mkdir"} => ~home.dir
  /\ r.pc = "load" => loads
Hydrates(r, vs) ==
  /\ r.does = "hydrate" /\ r.pc \in {"fetch", "read", "compare", "copy", "load"}
  /\ home.manifest = vs
  /\ r.pc \in {"fetch", "read", "compare"} => \A a \in Series : home.series[a] \in {Absent, vs[a]}
  /\ r.pc = "copy" =>
       /\ r.plan \subseteq Series
       /\ \A a \in Series : IF a \in r.plan THEN home.series[a] = Absent \/ (r.open /\ a = first(r.plan))
                            ELSE home.series[a] = vs[a]
  /\ r.pc = "load" => loads
Repeats(r, vs) ==
  /\ r.does = "nightly" /\ r.pc \in {"fetch", "read", "compare"}
  /\ r.committed = vs

RunGoes(r, s, vs) ==
  /\ \A i \in DOMAIN r.builds : r.builds[i] = vs
  /\ r.pc = "fetch" => FetchGoes(s, vs)
  /\ r.pc = "read" => AllCame(vs)
  /\ Builds(r) \/ Hydrates(r, vs) \/ Repeats(r, vs)

Calm(p) ==
  run[p].calm =>
    IF run[p].pc = "off" THEN run[p].result # "failed"
    ELSE /\ \A q \in Procs \ {p} : run[q].pc = "off"
         /\ \E vs \in Pins : RunGoes(run[p], fetch[p], vs)

CalmHolds == mishaps \in Nat /\ \A p \in Procs : Calm(p)

-----------------------------------------------------------------------------
(* A run that has ended, or that others have disturbed. *)
LEMMA UpsetIsCalm ==
  ASSUME PinHolds, CalmHolds, NEW q \in Procs, run'[q] = upset(run)[q]
  PROVE  Calm(q)'
  <1>1. IsRun(run[q]) /\ Calm(q)
    BY DEF PinHolds, RunHolds, CalmHolds
  <1>2. CASE run[q].pc = "off"
    <2>1. run'[q] = run[q]
      BY <1>2 DEF upset
    <2> QED BY <1>1, <1>2, <2>1 DEF Calm
  <1>3. CASE run[q].pc # "off"
    <2>1. PICK r, s : r = run[q] /\ s = [r EXCEPT !.calm = FALSE]
      OBVIOUS
    <2>2. run'[q] = s
      BY <1>3, <2>1 DEF upset
    <2>3. s.calm = FALSE
      BY <1>1, <2>1 DEF IsRun
    <2> QED BY <2>2, <2>3 DEF Calm
  <1> QED BY <1>2, <1>3

(* What goes wrong, or is published, upsets every run. *)
LEMMA MishapKeepsCalm ==
  ASSUME PinHolds, CalmHolds, mishaps' \in Nat, run' = upset(run)
  PROVE  CalmHolds'
  BY UpsetIsCalm DEF CalmHolds

LEMMA UpsetByOne ==
  ASSUME PinHolds, CalmHolds, NEW p \in Procs, mishaps' \in Nat, NEW r, run' = [upset(run) EXCEPT ![p] = r],
         ~r.calm
  PROVE  CalmHolds'
  <1>1. PICK u : u = upset(run)
    OBVIOUS
  <1>2. u = [q \in Procs |-> u[q]] /\ run' = [u EXCEPT ![p] = r]
    BY <1>1, UpsetIs DEF PinHolds
  <1>3. run'[p] = r /\ \A q \in Procs \ {p} : run'[q] = upset(run)[q]
    BY <1>1, <1>2
  <1>4. ASSUME NEW q \in Procs PROVE Calm(q)'
    <2>1. CASE q = p
      BY <1>3, <2>1 DEF Calm
    <2>2. CASE q # p
      BY <1>3, <2>2, UpsetIsCalm
    <2> QED BY <2>1, <2>2
  <1> QED BY <1>4 DEF CalmHolds

(* One process moves on; beside a calm run, it is the only one that can. *)
LEMMA StepKeepsCalm ==
  ASSUME CalmHolds, NEW p \in Procs, run[p].pc # "off", mishaps' = mishaps,
         \A q \in Procs \ {p} : run'[q] = run[q],
         NEW r, run'[p] = r, r.calm = run[p].calm, NEW s, fetch'[p] = s,
         \A vs \in Pins : RunGoes(run[p], fetch[p], vs) =>
           IF r.pc = "off" THEN r.result # "failed" ELSE \E ws \in Pins : RunGoes(r, s, ws)'
  PROVE  CalmHolds'
  <1>1. ASSUME NEW ws, RunGoes(r, s, ws)' PROVE RunGoes(run[p], fetch[p], ws)'
    BY <1>1 DEF RunGoes, FetchGoes, Downloads, Builds, Hydrates, Repeats, bytes
  <1>2. ASSUME NEW q \in Procs PROVE Calm(q)'
    <2>1. CASE q = p
      <3>1. SUFFICES ASSUME run[p].calm PROVE Calm(p)'
        BY <2>1 DEF Calm
      <3>2. PICK vs \in Pins : RunGoes(run[p], fetch[p], vs) /\ \A o \in Procs \ {p} : run[o].pc = "off"
        BY <3>1 DEF CalmHolds, Calm
      <3> QED BY <1>1, <3>2 DEF Calm
    <2>2. CASE q # p
      <3>1. SUFFICES ASSUME run[q].calm PROVE run[q].pc = "off" /\ run[q].result # "failed"
        BY <2>2 DEF Calm
      <3> QED BY <2>2, <3>1 DEF CalmHolds, Calm
    <2> QED BY <2>1, <2>2
  <1> QED BY <1>2 DEF CalmHolds

LEMMA TurnIs ==
  ASSUME PinHolds, NEW p \in Procs, NEW r, Turn(p, r)
  PROVE  run'[p] = r /\ \A q \in Procs \ {p} : run'[q] = run[q]
  BY DEF PinHolds, Turn

(* How a calm run moves on from where it is, and how it ends. *)
LEMMA TurnKeepsCalm ==
  ASSUME PinHolds, CalmHolds, NEW p \in Procs, run[p].pc # "off", mishaps' = mishaps, NEW r, Turn(p, r),
         r.calm = run[p].calm, NEW s, fetch'[p] = s,
         \A vs \in Pins : RunGoes(run[p], fetch[p], vs) =>
           IF r.pc = "off" THEN r.result # "failed" ELSE \E ws \in Pins : RunGoes(r, s, ws)'
  PROVE  CalmHolds'
  BY TurnIs, StepKeepsCalm

LEMMA EndIsCalm ==
  ASSUME NEW r, NEW how, NEW e, e = Ended(r, how)
  PROVE  e.pc = "off" /\ e.result = how /\ e.calm = r.calm
  BY DEF Ended, off

LEMMA FailKeepsCalm ==
  ASSUME PinHolds, CalmHolds, NEW p \in Procs, run[p].pc # "off", mishaps' = mishaps, Fails(p),
         \A vs \in Pins : ~RunGoes(run[p], fetch[p], vs)
  PROVE  CalmHolds'
  <1>1. PICK e, s : e = Ended(run[p], "failed") /\ s = fetch'[p] /\ Turn(p, e)
    BY DEF Fails
  <1>2. e.calm = run[p].calm
    BY <1>1, EndIsCalm
  <1> QED BY <1>1, <1>2, TurnKeepsCalm

-----------------------------------------------------------------------------
(* The downloads of a calm run. *)
LEMMA FetchKeepsCalm ==
  ASSUME PinHolds, CalmHolds, NEW p \in Procs, run[p].pc = "fetch", run' = run, UNCHANGED <<home, mishaps>>,
         NEW s, fetch'[p] = s,
         \A vs \in Pins : FetchGoes(fetch[p], vs) => FetchGoes(s, vs)'
  PROVE  CalmHolds'
  <1>1. PICK r : r = run[p]
    OBVIOUS
  <1>2. ASSUME NEW vs \in Pins, RunGoes(run[p], fetch[p], vs) PROVE RunGoes(r, s, vs)'
    <2>1. FetchGoes(s, vs)' /\ Builds(r)' = Builds(r) /\ Hydrates(r, vs)' = Hydrates(r, vs) /\ Repeats(r, vs)' = Repeats(r, vs)
      BY <1>1, <1>2 DEF RunGoes, Builds, Hydrates, Repeats, loads
    <2> QED BY <1>1, <1>2, <2>1 DEF RunGoes
  <1>3. r.pc # "off" /\ run'[p] = r
    BY <1>1
  <1> QED BY <1>1, <1>2, <1>3, StepKeepsCalm

LEMMA ContentsAre ==
  ASSUME CacheHolds, NEW f \in Files
  PROVE  /\ bytes(part[f]) \in Content /\ Len(bytes(part[f])) \in Nat /\ Size(f) \in Nat /\ Size(f) > 0
         /\ part[f] \in 0..Len(inode) /\ store[f] \in 0..Len(inode) /\ Len(inode) \in Nat
         /\ f.of \in Series /\ upstream[f.of] \in Versions
  <1>1. bytes(part[f]) \in Content
    BY DEF bytes, CacheHolds, FilesHold, Content
  <1> QED BY <1>1, SizesAre DEF CacheHolds, FilesHold, Content

LEMMA ComesStay ==
  ASSUME UNCHANGED <<upstream, store, part, inode>>
  PROVE  /\ \A f, v : Comes(f, v)' = Comes(f, v)
         /\ \A f, v, r : Downloads(r, f, v)' = Downloads(r, f, v)
  BY DEF Comes, Downloads, bytes

(* Another file of which nothing changes. *)
LEMMA OthersCome ==
  ASSUME CacheHolds, NEW f \in Files, Touches(f), upstream' = upstream, NEW g \in Files, g # f, NEW v
  PROVE  /\ Comes(g, v) => Comes(g, v)'
         /\ store'[g] = store[g]
  <1>1. /\ part'[g] = part[g] /\ store'[g] = store[g]
        /\ bytes(part[g])' = bytes(part[g]) /\ bytes(store[g])' = bytes(store[g])
    BY OthersAreUntouched
  <1> QED BY <1>1 DEF Comes

LEMMA TailHas ==
  ASSUME NEW S, NEW s \in Seq(S), s # <<>>, NEW x \in ToSet(s), x # Head(s)
  PROVE  x \in ToSet(Tail(s))
  <1>1. PICK i \in 1..Len(s) : s[i] = x
    BY DEF ToSet
  <1>2. i # 1 /\ Len(s) \in Nat
    BY <1>1
  <1>3. Len(Tail(s)) = Len(s) - 1 /\ Tail(s)[i - 1] = s[i] /\ i - 1 \in 1..Len(Tail(s)) /\ Tail(s) \in Seq(S)
    BY <1>1, <1>2
  <1>4. i - 1 \in DOMAIN Tail(s)
    BY <1>3
  <1> QED BY <1>1, <1>3, <1>4 DEF ToSet

(* A download that moves on and changes no file. *)
LEMMA PlaceGoes ==
  ASSUME NEW r, NEW s, NEW vs, FetchGoes(r, vs), UNCHANGED <<upstream, store, part, inode>>,
         r.pc \notin {"body", "install"}, s.pc \in {"look", "fetched", "ask", "answer", "open"},
         s.pc = "fetched" => s.todo = <<>>,
         s.pc \in {"ask", "answer", "open"} => Downloads(s, Head(s.todo), vs[Head(s.todo).of]),
         \A f \in Files : f \in ToSet(r.todo) => store[f] # 0 \/ f \in ToSet(s.todo)
  PROVE  FetchGoes(s, vs)'
  <1>1. \A f \in Files : store[f] # 0 \/ f \in ToSet(s.todo)
    BY DEF FetchGoes
  <1>2. \A f \in Files : Comes(f, vs[f.of])'
    BY ComesStay DEF FetchGoes
  <1>3. s.pc \in {"ask"} \cup Busy => Downloads(s, Head(s.todo), vs[Head(s.todo).of])'
    BY ComesStay DEF Busy
  <1>4. s.pc \in {"look", "fetched", "ask"} \cup Busy
    BY DEF Busy
  <1> QED BY <1>1, <1>2, <1>3, <1>4 DEF FetchGoes

LEMMA LookGoes ==
  ASSUME CacheHolds, NEW p \in Procs, Look(p), NEW vs, FetchGoes(fetch[p], vs), NEW s, fetch'[p] = s
  PROVE  FetchGoes(s, vs)'
  <1>1. PICK r : r = fetch[p] /\ r.pc = "look" /\ FetchGoes(r, vs)
    BY DEF Look, At
  <1>2. s = CASE r.todo = <<>> -> [r EXCEPT !.pc = "fetched"]
              [] r.todo # <<>> /\ store[Head(r.todo)] # 0 -> [r EXCEPT !.todo = Tail(@)]
              [] OTHER -> [r EXCEPT !.pc = "ask"]
    <2>1. PICK t : Goto(p, t) /\ t = CASE r.todo = <<>> -> [r EXCEPT !.pc = "fetched"]
                                       [] r.todo # <<>> /\ store[Head(r.todo)] # 0 -> [r EXCEPT !.todo = Tail(@)]
                                       [] OTHER -> [r EXCEPT !.pc = "ask"]
      BY <1>1, FetcherIs DEF Look
    <2> QED BY <2>1, MoverIs
  <1>3. IsFetch(r) /\ r.todo \in Seq(Files) /\ (r.todo # <<>> => Head(r.todo) \in Files)
    BY <1>1, FetcherIs
  <1>4. UNCHANGED <<upstream, store, part, inode>>
    BY DEF Look
  <1>5. CASE r.todo = <<>>
    <2>1. s.pc = "fetched" /\ s.todo = r.todo
      BY <1>2, <1>3, <1>5 DEF IsFetch
    <2> QED BY <1>1, <1>4, <1>5, <2>1, PlaceGoes
  <1>6. CASE r.todo # <<>> /\ store[Head(r.todo)] # 0
    <2>1. s.pc = "look" /\ s.todo = Tail(r.todo)
      BY <1>1, <1>2, <1>3, <1>6 DEF IsFetch
    <2>2. \A f \in Files : f \in ToSet(r.todo) => store[f] # 0 \/ f \in ToSet(s.todo)
      BY <1>3, <1>6, <2>1, TailHas
    <2> QED BY <1>1, <1>4, <2>1, <2>2, PlaceGoes
  <1>7. CASE r.todo # <<>> /\ store[Head(r.todo)] = 0
    <2>1. s.pc = "ask" /\ s.todo = r.todo
      BY <1>2, <1>3, <1>7 DEF IsFetch
    <2>2. Downloads(s, Head(s.todo), vs[Head(s.todo).of])
      BY <1>7, <2>1 DEF Downloads
    <2> QED BY <1>1, <1>4, <2>1, <2>2, PlaceGoes
  <1> QED BY <1>5, <1>6, <1>7

LEMMA AskGoes ==
  ASSUME CacheHolds, NEW p \in Procs, Ask(p), NEW vs, FetchGoes(fetch[p], vs), NEW s, fetch'[p] = s
  PROVE  FetchGoes(s, vs)'
  <1>1. PICK r : r = fetch[p] /\ r.pc = "ask" /\ FetchGoes(r, vs)
    BY DEF Ask, At
  <1>2. PICK f \in Files : f = Head(r.todo) /\ f = current(p)
    BY <1>1, FetcherIs
  <1>3. s = [r EXCEPT !.pc = "answer", !.offset = Len(bytes(part[f]))]
    <2>1. PICK t : Goto(p, t) /\ t = [r EXCEPT !.pc = "answer", !.offset = Len(bytes(part[f]))]
      BY <1>1, <1>2 DEF Ask
    <2> QED BY <2>1, MoverIs
  <1>4. s.pc = "answer" /\ s.todo = r.todo /\ s.offset = Len(bytes(part[f]))
    <2>1. IsFetch(r)
      BY <1>1, FetcherIs
    <2> QED BY <1>3, <2>1 DEF IsFetch
  <1>5. Downloads(s, f, vs[f.of])
    BY <1>1, <1>2, <1>4 DEF FetchGoes, Downloads
  <1>6. UNCHANGED <<upstream, store, part, inode>>
    BY DEF Ask
  <1> QED BY <1>1, <1>2, <1>4, <1>5, <1>6, PlaceGoes

(* The range a calm run asks for is there to be served. *)
LEMMA AnswerGoes ==
  ASSUME CacheHolds, NEW p \in Procs, Answer(p), mishaps' = mishaps, mishaps \in Nat,
         NEW vs, FetchGoes(fetch[p], vs), NEW s, fetch'[p] = s
  PROVE  FetchGoes(s, vs)'
  <1>1. PICK r : r = fetch[p] /\ r.pc = "answer" /\ FetchGoes(r, vs)
    BY DEF Answer, At
  <1>2. PICK f \in Files : f = Head(r.todo) /\ f = current(p)
    BY <1>1, FetcherIs DEF Busy
  <1>3. PICK v : v = vs[f.of]
    OBVIOUS
  <1>4. Downloads(r, f, v) /\ Comes(f, v)
    BY <1>1, <1>2, <1>3 DEF FetchGoes, Busy
  <1>5. store[f] = 0 /\ r.offset = Len(bytes(part[f])) /\ r.offset < Size(f) /\ upstream[f.of] = v
    BY <1>1, <1>4 DEF Downloads, Comes
  <1>6. ~Mishap
    BY DEF Mishap
  <1>7. PICK append \in BOOLEAN : Accept(p, append, TRUE)
    <2>1. \E append \in {FALSE, r.offset > 0 /\ r.offset < Size(f)} : Accept(p, append, TRUE)
      BY <1>1, <1>2, <1>5, <1>6 DEF Answer
    <2> QED BY <2>1
  <1>8. PICK answer : answer = [of |-> upstream[f.of], next |-> IF append THEN r.offset + 1 ELSE 1,
                                sized |-> TRUE, append |-> append]
    OBVIOUS
  <1>9. s = [r EXCEPT !.pc = "open", !.offset = 0, !.answer = answer]
    <2>1. PICK t : Goto(p, t) /\ t = [r EXCEPT !.pc = "open", !.offset = 0, !.answer = answer]
      BY <1>1, <1>2, <1>7, <1>8 DEF Accept
    <2> QED BY <2>1, MoverIs
  <1>10. s.pc = "open" /\ s.todo = r.todo /\ s.answer = answer
    <2>1. IsFetch(r)
      BY <1>1, FetcherIs
    <2> QED BY <1>9, <2>1 DEF IsFetch
  <1>11. s.answer.of = v /\ s.answer.append = append /\ s.answer.next = IF append THEN r.offset + 1 ELSE 1
    BY <1>5, <1>8, <1>10
  <1>12. Downloads(s, f, v)
    BY <1>5, <1>10, <1>11 DEF Downloads
  <1>13. UNCHANGED <<upstream, store, part, inode>>
    BY DEF Answer
  <1> QED BY <1>1, <1>2, <1>3, <1>10, <1>12, <1>13, PlaceGoes

(* A download that works on its file, and on no other. *)
LEMMA TouchGoes ==
  ASSUME CacheHolds, NEW r, NEW s, NEW vs, FetchGoes(r, vs), NEW f \in Files, f = Head(r.todo),
         r.pc \in Busy, Touches(f), upstream' = upstream, r.todo \in Seq(Files), r.todo # <<>>,
         \/ s.pc \in {"body", "install"} /\ s.todo = r.todo /\ Downloads(s, f, vs[f.of])'
         \/ s.pc = "look" /\ s.todo = Tail(r.todo) /\ store'[f] # 0 /\ Comes(f, vs[f.of])'
  PROVE  FetchGoes(s, vs)'
  <1>1. ASSUME NEW g \in Files, g # f
        PROVE  Comes(g, vs[g.of])' /\ store'[g] = store[g]
    <2>1. Comes(g, vs[g.of])
      BY <1>1 DEF FetchGoes
    <2>2. PICK v : v = vs[g.of]
      OBVIOUS
    <2>3. Comes(g, v)' /\ store'[g] = store[g]
      BY <1>1, <2>1, <2>2, OthersCome
    <2> QED BY <2>2, <2>3
  <1>2. CASE s.pc \in {"body", "install"} /\ s.todo = r.todo /\ Downloads(s, f, vs[f.of])'
    <2>1. \A g \in Files : store'[g] # 0 \/ g \in ToSet(s.todo)
      <3>1. r.todo[1] = f /\ 1 \in DOMAIN r.todo
        OBVIOUS
      <3>2. f \in ToSet(r.todo)
        BY <3>1 DEF ToSet
      <3> QED BY <1>1, <1>2, <3>2 DEF FetchGoes
    <2>2. \A g \in Files : Comes(g, vs[g.of])' \/ (s.pc \in {"body", "install"} /\ g = Head(s.todo))
      BY <1>1, <1>2
    <2> QED BY <1>2, <2>1, <2>2 DEF FetchGoes, Busy
  <1>3. CASE s.pc = "look" /\ s.todo = Tail(r.todo) /\ store'[f] # 0 /\ Comes(f, vs[f.of])'
    <2>1. ASSUME NEW g \in Files PROVE store'[g] # 0 \/ g \in ToSet(s.todo)
      <3>1. g # f => store'[g] = store[g]
        BY <1>1
      <3>2. store[g] # 0 \/ g \in ToSet(r.todo)
        BY DEF FetchGoes
      <3>3. g # f /\ g \in ToSet(r.todo) => g \in ToSet(s.todo)
        BY <1>3, TailHas
      <3> QED BY <1>3, <3>1, <3>2, <3>3
    <2>2. \A g \in Files : Comes(g, vs[g.of])'
      BY <1>1, <1>3
    <2> QED BY <1>3, <2>1, <2>2 DEF FetchGoes, Busy
  <1> QED BY <1>2, <1>3

(* The .part of a calm run is of the version that is served. *)
LEMMA OpenGoes ==
  ASSUME CacheHolds, NEW p \in Procs, Open(p), NEW vs \in Pins, FetchGoes(fetch[p], vs), NEW s, fetch'[p] = s
  PROVE  FetchGoes(s, vs)'
  <1>1. PICK r : r = fetch[p] /\ FetchGoes(r, vs)
    OBVIOUS
  <1>2. PICK f, kept : f = Head(r.todo) /\ kept = IF r.answer.append THEN bytes(part[f]) ELSE <<>>
    OBVIOUS
  <1>3. Opens(p, r, f, s, kept)
    BY <1>1, <1>2, OpenIs
  <1>4. PICK v \in Versions : v = vs[f.of]
    <2>1. f.of \in Series
      BY <1>3, SizesAre DEF Opens
    <2> QED BY <2>1 DEF Pins
  <1>5. Downloads(r, f, v) /\ Comes(f, v)
    BY <1>1, <1>2, <1>3, <1>4 DEF FetchGoes, Busy, Opens
  <1>6. /\ store[f] = 0 /\ r.answer.of = v
        /\ r.answer.next = IF r.answer.append THEN Len(bytes(part[f])) + 1 ELSE 1
        /\ Start(bytes(part[f]), f, v, Len(bytes(part[f])))
    BY <1>3, <1>5 DEF Downloads, Comes, Opens
  <1>7. Start(kept, f, v, r.answer.next - 1)
    <2>1. PICK n \in Nat : n = Len(bytes(part[f]))
      BY <1>3, ContentsAre DEF Opens
    <2>2. CASE r.answer.append
      <3>1. r.answer.next - 1 = n
        BY <1>6, <2>1, <2>2
      <3> QED BY <1>2, <1>6, <2>1, <2>2, <3>1
    <2>3. CASE ~r.answer.append
      <3>1. r.answer.next - 1 = 0 /\ kept = <<>> /\ f \in Files
        BY <1>2, <1>3, <1>6, <2>3 DEF Opens
      <3>2. Start(<<>>, f, v, 0)
        BY <3>1, BodyIs
      <3> QED BY <3>1, <3>2
    <2> QED BY <2>2, <2>3
  <1>8. Downloads(s, f, v)'
    <2>1. store'[f] = 0 /\ s.pc = "body" /\ s.file = part'[f] /\ s.answer = r.answer /\ s.at = 0
      BY <1>3, <1>6 DEF Opens
    <2>2. Start(inode'[s.file], f, v, s.answer.next - 1)
      BY <1>3, <1>7, <2>1 DEF Opens
    <2>3. ~s.answer.append => s.at = s.answer.next - 1
      BY <1>6, <2>1
    <2> QED BY <1>6, <2>1, <2>2, <2>3 DEF Downloads
  <1> QED BY <1>1, <1>2, <1>3, <1>4, <1>8, TouchGoes DEF Opens, Busy

LEMMA WriteGoes ==
  ASSUME CacheHolds, NEW p \in Procs, Write(p), NEW vs \in Pins, FetchGoes(fetch[p], vs), NEW s, fetch'[p] = s
  PROVE  FetchGoes(s, vs)'
  <1>1. PICK r : r = fetch[p] /\ FetchGoes(r, vs)
    OBVIOUS
  <1>2. PICK f : f = Head(r.todo)
    OBVIOUS
  <1>3. Writes(p, r, f, s)
    BY <1>1, <1>2, WriteIs
  <1>4. PICK v : v = vs[f.of]
    OBVIOUS
  <1>5. Downloads(r, f, v)
    BY <1>1, <1>2, <1>3, <1>4 DEF FetchGoes, Busy, Writes
  <1>6. /\ store[f] = 0 /\ r.file = part[f] /\ r.answer.of = v /\ Start(inode[r.file], f, v, r.answer.next - 1)
        /\ ~r.answer.append => r.at = r.answer.next - 1
    BY <1>3, <1>5 DEF Downloads, Writes
  <1>7. Start(inode'[r.file], f, v, r.answer.next) /\ s.at = r.answer.next
    BY <1>3, <1>6 DEF Writes
  <1>8. Downloads(s, f, v)'
    <2>1. s.answer.next - 1 = r.answer.next
      BY <1>3 DEF Writes
    <2>2. /\ store'[f] = 0 /\ part'[f] = part[f] /\ s.pc = "body" /\ s.file = r.file
          /\ s.answer.of = r.answer.of
      BY <1>3, <1>6 DEF Writes
    <2> QED BY <1>6, <1>7, <2>1, <2>2 DEF Downloads
  <1> QED BY <1>1, <1>2, <1>3, <1>4, <1>8, TouchGoes DEF Writes, Busy

LEMMA EndBodyGoes ==
  ASSUME CacheHolds, NEW p \in Procs, EndBody(p), NEW vs \in Pins, FetchGoes(fetch[p], vs), NEW s, fetch'[p] = s
  PROVE  FetchGoes(s, vs)'
  <1>1. PICK r : r = fetch[p] /\ r.pc = "body" /\ FetchGoes(r, vs)
    BY DEF EndBody, At
  <1>2. PICK f \in Files : f = Head(r.todo) /\ f = current(p)
    BY <1>1, FetcherIs DEF Busy
  <1>3. r.todo \in Seq(Files) /\ r.todo # <<>> /\ WritesFor(r, f)
    BY <1>1, <1>2, FetcherIs DEF Busy, FetchHolds
  <1>4. s = [idle EXCEPT !.pc = "install", !.todo = r.todo, !.tries = r.tries]
    <2>1. PICK t : Goto(p, t) /\ t = [idle EXCEPT !.pc = "install", !.todo = r.todo, !.tries = r.tries]
      BY <1>1 DEF EndBody, body_ended
    <2> QED BY <2>1, MoverIs
  <1>5. s.pc = "install" /\ s.todo = r.todo
    BY <1>4 DEF idle
  <1>6. PICK v \in Versions : v = vs[f.of]
    <2>1. f.of \in Series
      BY SizesAre
    <2> QED BY <2>1 DEF Pins
  <1>7. Downloads(r, f, v)
    BY <1>1, <1>2, <1>6 DEF FetchGoes, Busy
  <1>8. store[f] = 0 /\ r.file = part[f] /\ Start(inode[r.file], f, v, r.answer.next - 1)
    BY <1>1, <1>7 DEF Downloads
  <1>9. r.answer.next > Size(f) /\ r.answer.next \in Nat \ {0} /\ r.file \in 1..Len(inode)
        /\ UNCHANGED <<upstream, store, part, inode, odd>>
    BY <1>1, <1>2, <1>3 DEF EndBody, WritesFor
  <1>10. r.answer.next - 1 = Size(f)
    BY <1>8, <1>9, SizesAre DEF Start
  <1>11. inode[r.file] = Body(f, v)
    BY <1>8, <1>10, BodyIs
  <1>12. part[f] # 0 /\ bytes(part[f]) = Body(f, v)
    BY <1>8, <1>9, <1>11, ContentsAre DEF bytes
  <1>13. Downloads(s, f, v)
    BY <1>5, <1>8, <1>12 DEF Downloads
  <1>14. Touches(f)
    BY <1>9 DEF Touches, Renames, CacheHolds, FilesHold
  <1>15. Downloads(s, f, v)'
    BY <1>9, <1>13, ComesStay
  <1> QED BY <1>1, <1>2, <1>3, <1>5, <1>6, <1>9, <1>14, <1>15, TouchGoes DEF Busy

LEMMA InstallGoes ==
  ASSUME CacheHolds, NEW p \in Procs, Install(p), NEW vs \in Pins, FetchGoes(fetch[p], vs), NEW s, fetch'[p] = s
  PROVE  FetchGoes(s, vs)'
  <1>1. PICK r : r = fetch[p] /\ r.pc = "install" /\ FetchGoes(r, vs)
    BY DEF Install, At
  <1>2. PICK f \in Files : f = Head(r.todo)
    BY <1>1, FetcherIs DEF Busy
  <1>3. PICK v : v = vs[f.of]
    OBVIOUS
  <1>4. part[f] # 0 /\ bytes(part[f]) = Body(f, v)
    BY <1>1, <1>2, <1>3 DEF FetchGoes, Busy, Downloads
  <1>5. Renamed(p, r, f, s)
    BY <1>1, <1>2, <1>4, InstallIs
  <1>6. store'[f] # 0 /\ Comes(f, v)'
    BY <1>4, <1>5 DEF Renamed, Comes, bytes
  <1> QED BY <1>1, <1>2, <1>3, <1>5, <1>6, TouchGoes DEF Renamed, Busy

LEMMA DownloadGoes ==
  ASSUME CacheHolds, NEW p \in Procs, Downloading(p), mishaps' = mishaps, mishaps \in Nat,
         NEW vs \in Pins, FetchGoes(fetch[p], vs), NEW s, fetch'[p] = s
  PROVE  FetchGoes(s, vs)'
  <1>1. ~Mishap
    BY DEF Mishap
  <1>2. ~(AnswerFails(p) \/ AnswerRefuses(p) \/ CutBody(p))
    BY <1>1 DEF AnswerFails, AnswerRefuses, CutBody
  <1> QED BY <1>2, LookGoes, AskGoes, AnswerGoes, OpenGoes, WriteGoes, EndBodyGoes, InstallGoes DEF Downloading

(* Whatever is fetched without a mishap is as it should be. *)
LEMMA FetchingKeepsCalm ==
  ASSUME PinHolds, CacheHolds, CalmHolds, NEW p \in Procs, Fetching(p)
  PROVE  CalmHolds'
  <1>1. mishaps \in Nat /\ run[p].pc = "fetch" /\ Downloading(p) /\ UNCHANGED home
    BY DEF CalmHolds, Fetching, Does
  <1>2. CASE mishaps' = mishaps
    <2>1. PICK s : s = fetch'[p]
      OBVIOUS
    <2>2. \A vs \in Pins : FetchGoes(fetch[p], vs) => FetchGoes(s, vs)'
      BY <1>1, <1>2, <2>1, DownloadGoes
    <2> QED BY <1>1, <1>2, <2>1, <2>2, FetchKeepsCalm DEF Fetching
  <1>3. CASE mishaps' # mishaps
    <2>1. mishaps' = mishaps + 1
      BY <1>1, <1>3 DEF Downloading, Look, Ask, Answer, AnswerFails, AnswerRefuses, Open, Write, EndBody, CutBody,
                        Install, Mishap
    <2> QED BY <1>1, <1>3, <2>1, MishapKeepsCalm DEF Fetching
  <1> QED BY <1>2, <1>3

(* A run that nothing disturbs fetches what it asks for. *)
LEMMA FetchFailsKeepsCalm ==
  ASSUME PinHolds, CalmHolds, NEW p \in Procs, FetchFails(p)
  PROVE  CalmHolds'
  <1>1. run[p].pc = "fetch" /\ fetch[p].pc = "failed" /\ Fails(p) /\ mishaps' = mishaps
    BY DEF FetchFails, Does, At
  <1>2. \A vs \in Pins : ~RunGoes(run[p], fetch[p], vs)
    BY <1>1 DEF RunGoes, FetchGoes, Busy
  <1> QED BY <1>1, <1>2, FailKeepsCalm

-----------------------------------------------------------------------------
(* The home of a calm run: what it finds there is what it has written, or  *)
(* what it compared.                                                       *)
LEMMA LoadKeepsCalm ==
  ASSUME PinHolds, CalmHolds, NEW p \in Procs, Load(p)
  PROVE  CalmHolds'
  <1>1. run[p].pc = "load" /\ mishaps' = mishaps
    BY DEF Load, Does
  <1>2. \A vs \in Pins : RunGoes(run[p], fetch[p], vs) => loads
    BY <1>1 DEF RunGoes, Builds, Hydrates, Repeats
  <1>3. CASE ~loads
    BY <1>1, <1>2, <1>3, FailKeepsCalm DEF Load
  <1>4. CASE loads
    <2>1. PICK e, s : e = Ended(run[p], "ready") /\ s = fetch'[p] /\ Turn(p, e)
      BY <1>4 DEF Load, Succeeds
    <2>2. e.pc = "off" /\ e.result # "failed" /\ e.calm = run[p].calm
      BY <2>1, EndIsCalm
    <2> QED BY <1>1, <2>1, <2>2, TurnKeepsCalm
  <1> QED BY <1>3, <1>4

(* Where everything planned is there, the pack loads. *)
LEMMA CopiedKeepsCalm ==
  ASSUME PinHolds, CalmHolds, NEW p \in Procs, Copied(p)
  PROVE  CalmHolds'
  <1>1. PICK r : r = run[p] /\ r.pc = "copy" /\ r.plan = {} /\ IsRun(r) /\ UNCHANGED <<home, mishaps>>
    BY DEF Copied, Does, PinHolds, RunHolds
  <1>2. PICK n, s : n = [r EXCEPT !.pc = "load"] /\ Turn(p, n) /\ s = fetch'[p]
    BY <1>1 DEF Copied
  <1>3. n.pc = "load" /\ n.does = r.does /\ n.builds = r.builds /\ n.calm = r.calm
    BY <1>1, <1>2 DEF IsRun
  <1>4. ASSUME NEW vs \in Pins, RunGoes(r, fetch[p], vs) PROVE RunGoes(n, s, vs)'
    <2>1. Hydrates(r, vs)
      BY <1>1, <1>4 DEF RunGoes, Builds, Repeats
    <2>2. home.manifest = vs /\ \A a \in Series : home.series[a] = vs[a]
      BY <1>1, <2>1 DEF Hydrates
    <2>3. home.series = vs /\ is_whole(home.manifest)
      BY <2>2, WholeIs DEF PinHolds, HomeShape, Pins
    <2>4. loads'
      BY <1>1, <2>2, <2>3 DEF loads, is_whole
    <2>5. Hydrates(n, vs)'
      BY <1>1, <1>3, <2>1, <2>2, <2>4 DEF Hydrates
    <2> QED BY <1>3, <1>4, <2>5 DEF RunGoes
  <1> QED BY <1>1, <1>2, <1>3, <1>4, TurnKeepsCalm

(* Both builds are of the manifest that was read before the first. *)
LEMMA ReceiptKeepsCalm ==
  ASSUME PinHolds, CalmHolds, NEW p \in Procs, Receipt(p)
  PROVE  CalmHolds'
  <1>1. PICK r : r = run[p] /\ r.pc = "compare" /\ r.does = "nightly" /\ RunHolds(r) /\ mishaps' = mishaps
    BY DEF Receipt, Does, PinHolds
  <1>2. r.builds \in Seq(Pins) /\ r.builds # <<>>
    BY <1>1 DEF RunHolds
  <1>3. ASSUME NEW vs \in Pins, RunGoes(r, fetch[p], vs) PROVE same_builds(p) /\ built(p) = r.committed
    <2>1. r.committed = vs /\ \A i \in DOMAIN r.builds : r.builds[i] = vs
      BY <1>1, <1>3 DEF RunGoes, Builds, Hydrates, Repeats
    <2>2. Len(r.builds) \in DOMAIN r.builds
      BY <1>2
    <2>3. built(p) = vs
      BY <1>1, <2>1, <2>2 DEF built, Last
    <2>4. ToSet(r.builds) = {vs}
      BY <2>1, <2>2 DEF ToSet
    <2> QED BY <1>1, <2>1, <2>3, <2>4, FS_Singleton DEF same_builds
  <1>4. CASE ~(same_builds(p) /\ built(p) = r.committed)
    BY <1>1, <1>3, <1>4, FailKeepsCalm DEF Receipt
  <1>5. CASE same_builds(p) /\ built(p) = r.committed
    <2>1. PICK e, s : e = Ended(run[p], "receipt") /\ s = fetch'[p] /\ Turn(p, e)
      BY <1>1, <1>5 DEF Receipt, Succeeds
    <2>2. e.pc = "off" /\ e.result # "failed" /\ e.calm = run[p].calm
      BY <2>1, EndIsCalm
    <2> QED BY <1>1, <2>1, <2>2, TurnKeepsCalm
  <1> QED BY <1>4, <1>5

LEMMA MakeDirectoryKeepsCalm ==
  ASSUME PinHolds, CalmHolds, NEW p \in Procs, MakeDirectory(p)
  PROVE  CalmHolds'
  <1>1. PICK r : r = run[p] /\ r.pc = "mkdir" /\ IsRun(r) /\ mishaps' = mishaps
    BY DEF MakeDirectory, Does, PinHolds, RunHolds
  <1>2. \A vs \in Pins : RunGoes(r, fetch[p], vs) => Builds(r) /\ ~home.dir
    BY <1>1 DEF RunGoes, Builds, Hydrates, Repeats
  <1>3. CASE home.dir
    BY <1>1, <1>2, <1>3, FailKeepsCalm DEF MakeDirectory
  <1>4. CASE ~home.dir
    <2>1. PICK n, s : n = [r EXCEPT !.pc = "write", !.plan = Series] /\ Turn(p, n) /\ s = fetch'[p]
      BY <1>1, <1>4 DEF MakeDirectory
    <2>2. n.pc = "write" /\ n.does = r.does /\ n.builds = r.builds /\ n.calm = r.calm
      BY <1>1, <2>1 DEF IsRun
    <2>3. ASSUME NEW vs \in Pins, RunGoes(r, fetch[p], vs) PROVE RunGoes(n, s, vs)'
      <3>1. Builds(n)'
        BY <1>2, <2>2, <2>3 DEF Builds
      <3> QED BY <2>2, <2>3, <3>1 DEF RunGoes
    <2> QED BY <1>1, <2>1, <2>2, <2>3, TurnKeepsCalm
  <1> QED BY <1>3, <1>4

(* A build that nothing disturbs has written all when it writes the manifest. *)
LEMMA WriteFileKeepsCalm ==
  ASSUME PinHolds, CalmHolds, NEW p \in Procs, WriteFile(p)
  PROVE  CalmHolds'
  <1>1. PICK r : r = run[p] /\ r.pc = "write" /\ IsRun(r) /\ WritesHome(r)
                 /\ r.builds \in Seq(Pins) /\ r.builds # <<>> /\ mishaps' = mishaps
    BY DEF WriteFile, Does, PinHolds, RunHolds
  <1>2. PICK b \in Pins : b = built(p) /\ b = Last(r.builds)
    BY <1>1, BuiltIs DEF built
  <1>3. PICK n : Turn(p, n) /\
          \/ n = [r EXCEPT !.open = FALSE, !.plan = r.plan \ {first(r.plan)}]
          \/ n = [r EXCEPT !.open = TRUE]
          \/ /\ r.plan = {} /\ home' = [home EXCEPT !.manifest = b]
             /\ n = [r EXCEPT !.open = FALSE, !.pc = "load"]
    <2>1. CASE r.plan # {} /\ r.open
      BY <1>1, <1>2, <2>1 DEF WriteFile
    <2>2. CASE r.plan # {} /\ ~r.open
      BY <1>1, <1>2, <2>2 DEF WriteFile
    <2>3. CASE r.plan = {} /\ r.open
      BY <1>1, <1>2, <2>3 DEF WriteFile
    <2>4. CASE r.plan = {} /\ ~r.open
      BY <1>1, <1>2, <2>4 DEF WriteFile
    <2> QED BY <2>1, <2>2, <2>3, <2>4
  <1>4. /\ n.does = r.does /\ n.builds = r.builds /\ n.calm = r.calm
        /\ n.pc = "write" \/ (n.pc = "load" /\ r.plan = {} /\ home' = [home EXCEPT !.manifest = b])
    <2>1. CASE n = [r EXCEPT !.open = FALSE, !.plan = r.plan \ {first(r.plan)}]
      BY <1>1, <2>1 DEF IsRun
    <2>2. CASE n = [r EXCEPT !.open = TRUE]
      BY <1>1, <2>2 DEF IsRun
    <2>3. CASE r.plan = {} /\ home' = [home EXCEPT !.manifest = b] /\ n = [r EXCEPT !.open = FALSE, !.pc = "load"]
      BY <1>1, <2>3 DEF IsRun
    <2> QED BY <1>3, <2>1, <2>2, <2>3
  <1>5. n.pc = "load" => loads'
    <2>1. SUFFICES ASSUME r.plan = {}, home' = [home EXCEPT !.manifest = b] PROVE loads'
      BY <1>4
    <2>2. HomeShape /\ \A a \in Series : home.series[a] = b[a]
      BY <1>1, <1>2, <2>1 DEF WritesHome, PinHolds
    <2>3. home.series = b
      BY <2>2 DEF HomeShape, Pins
    <2>4. home'.manifest = b /\ home'.series = home.series
      BY <2>1, <2>2 DEF HomeShape
    <2>5. b \notin {no_manifest, half_manifest}
      BY WholeIs
    <2> QED BY <2>3, <2>4, <2>5 DEF loads, is_whole
  <1>6. PICK s : s = fetch'[p]
    OBVIOUS
  <1>7. ASSUME NEW vs \in Pins, RunGoes(r, fetch[p], vs) PROVE RunGoes(n, s, vs)'
    <2>1. Builds(r)
      BY <1>1, <1>7 DEF RunGoes, Hydrates, Repeats
    <2>2. Builds(n)'
      BY <1>4, <1>5, <2>1 DEF Builds
    <2> QED BY <1>4, <1>7, <2>2 DEF RunGoes
  <1> QED BY <1>1, <1>3, <1>4, <1>6, <1>7, TurnKeepsCalm

(* What a calm hydration has generated is what is committed. *)
LEMMA BuiltAsPinned ==
  ASSUME PinHolds, NEW p \in Procs, run[p].pc \in {"read", "compare", "copy"},
         NEW vs, RunGoes(run[p], fetch[p], vs)
  PROVE  built(p) = vs
  <1>1. run[p].builds \in Seq(Pins) /\ run[p].builds # <<>>
    BY DEF PinHolds, RunHolds
  <1>2. Len(run[p].builds) \in DOMAIN run[p].builds
    BY <1>1
  <1> QED BY <1>2 DEF RunGoes, built, Last

LEMMA CompareKeepsCalm ==
  ASSUME PinHolds, CalmHolds, NEW p \in Procs, Compare(p)
  PROVE  CalmHolds'
  <1>1. PICK r : r = run[p] /\ r.pc = "compare" /\ r.does = "hydrate" /\ RunHolds(r) /\ UNCHANGED <<home, mishaps>>
    BY DEF Compare, Does, PinHolds
  <1>2. IsRun(r) /\ ~r.open
    BY <1>1 DEF RunHolds
  <1>3. ASSUME NEW vs \in Pins, RunGoes(r, fetch[p], vs)
        PROVE  /\ home.manifest = vs /\ built(p) = vs
               /\ \A a \in Series : home.series[a] \in {Absent, vs[a]}
    <2>1. Hydrates(r, vs)
      BY <1>1, <1>3 DEF RunGoes, Builds, Repeats
    <2> QED BY <1>1, <1>3, <2>1, BuiltAsPinned DEF Hydrates
  <1>4. CASE home.manifest # built(p) \/ conflicts(p)
    <2>1. \A vs \in Pins : ~RunGoes(run[p], fetch[p], vs)
      BY <1>1, <1>3, <1>4 DEF conflicts
    <2> QED BY <1>1, <1>4, <2>1, FailKeepsCalm DEF Compare
  <1>5. CASE ~(home.manifest # built(p) \/ conflicts(p))
    <2>1. PICK left : left = planned(p)
      OBVIOUS
    <2>2. PICK n, s : n = [r EXCEPT !.pc = "copy", !.plan = left] /\ Turn(p, n) /\ s = fetch'[p]
      BY <1>1, <1>5, <2>1 DEF Compare
    <2>3. /\ n.pc = "copy" /\ n.does = r.does /\ n.builds = r.builds /\ n.calm = r.calm
          /\ n.plan = left
      BY <1>2, <2>2 DEF IsRun
    <2>4. ASSUME NEW vs \in Pins, RunGoes(r, fetch[p], vs) PROVE RunGoes(n, s, vs)'
      <3>1. n.plan \subseteq Series /\ \A a \in Series : IF a \in n.plan THEN home.series[a] = Absent
                                                        ELSE home.series[a] = vs[a]
        BY <1>3, <2>1, <2>3, <2>4 DEF planned
      <3>2. Hydrates(n, vs)'
        BY <1>1, <1>3, <2>3, <2>4, <3>1 DEF Hydrates
      <3> QED BY <2>3, <2>4, <3>2 DEF RunGoes
    <2> QED BY <1>1, <2>2, <2>3, <2>4, TurnKeepsCalm
  <1> QED BY <1>4, <1>5

(* Beside a calm run nobody puts a file where one is planned. *)
LEMMA CalmCopies ==
  ASSUME PinHolds, NEW p \in Procs, Does(p, "copy"), run[p].plan # {}, NEW vs \in Pins, RunGoes(run[p], fetch[p], vs)
  PROVE  /\ Hydrates(run[p], vs) /\ built(p) = vs /\ home.manifest = vs
         /\ first(run[p].plan) \in run[p].plan /\ first(run[p].plan) \in Series
  <1>1. run[p].pc = "copy"
    BY DEF Does
  <1>2. Hydrates(run[p], vs) /\ built(p) = vs
    BY <1>1, BuiltAsPinned DEF RunGoes, Builds, Repeats
  <1>3. run[p].plan \subseteq Series
    BY <1>1, <1>2 DEF Hydrates
  <1> QED BY <1>2, <1>3, FirstIs DEF Hydrates

LEMMA OpenCopyKeepsCalm ==
  ASSUME PinHolds, CalmHolds, NEW p \in Procs, OpenCopy(p)
  PROVE  CalmHolds'
  <1>1. PICK r : r = run[p] /\ r.pc = "copy" /\ r.plan # {} /\ ~r.open /\ IsRun(r) /\ mishaps' = mishaps /\ HomeShape
    BY CopyIs DEF OpenCopy, Does, PinHolds, elsewhere
  <1>2. PICK a, s : a = first(r.plan) /\ s = fetch'[p]
    OBVIOUS
  <1>3. ASSUME NEW vs \in Pins, RunGoes(r, fetch[p], vs)
        PROVE  Hydrates(r, vs) /\ a \in r.plan /\ a \in Series /\ home.series[a] = Absent
    <2>1. Hydrates(r, vs) /\ a \in r.plan /\ a \in Series
      BY <1>1, <1>2, <1>3, CalmCopies DEF OpenCopy
    <2> QED BY <1>1, <2>1 DEF Hydrates
  <1>4. CASE home.series[a] = Absent
    <2>1. PICK n : n = [r EXCEPT !.open = TRUE] /\ Turn(p, n) /\ home' = [home EXCEPT !.series[a] = Partial]
      BY <1>1, <1>2, <1>4 DEF OpenCopy
    <2>2. /\ n.pc = "copy" /\ n.does = r.does /\ n.builds = r.builds /\ n.calm = r.calm
          /\ n.plan = r.plan /\ n.open
      BY <1>1, <2>1 DEF IsRun
    <2>3. /\ home' = [dir |-> home.dir, manifest |-> home.manifest, series |-> home'.series]
          /\ \A c \in Series : home'.series[c] = IF c = a THEN Partial ELSE home.series[c]
      BY <1>1, <2>1, SeriesAre, FileChanges
    <2>4. ASSUME NEW vs \in Pins, RunGoes(r, fetch[p], vs) PROVE RunGoes(n, s, vs)'
      <3>1. Hydrates(r, vs) /\ a \in r.plan /\ home'.manifest = home.manifest
        BY <1>3, <2>3, <2>4
      <3>2. Hydrates(n, vs)'
        BY <1>1, <1>2, <2>2, <2>3, <3>1 DEF Hydrates
      <3> QED BY <2>2, <2>4, <3>2 DEF RunGoes
    <2> QED BY <1>1, <1>2, <2>1, <2>2, <2>4, TurnKeepsCalm
  <1>5. CASE home.series[a] # Absent
    <2>1. Fails(p)
      BY <1>1, <1>2, <1>5 DEF OpenCopy
    <2>2. \A vs \in Pins : ~RunGoes(run[p], fetch[p], vs)
      BY <1>1, <1>3, <1>5
    <2> QED BY <1>1, <2>1, <2>2, FailKeepsCalm
  <1> QED BY <1>4, <1>5

LEMMA FillCopyKeepsCalm ==
  ASSUME PinHolds, CalmHolds, NEW p \in Procs, FillCopy(p)
  PROVE  CalmHolds'
  <1>1. PICK r : r = run[p] /\ r.pc = "copy" /\ r.open /\ IsRun(r) /\ mishaps' = mishaps /\ HomeShape
    BY CopyIs DEF FillCopy, Does, PinHolds, elsewhere
  <1>2. PICK a, v, s : /\ a = first(r.plan) /\ v = home.manifest[a] /\ s = fetch'[p]
                       /\ home' = [home EXCEPT !.series[a] = v]
    BY <1>1, CopyIs DEF FillCopy
  <1>3. a \in Series => v \in 0..(MaxPublishes + 2)
    <2>1. home.manifest \in Pins
      BY CopyIs DEF FillCopy
    <2> QED BY <1>2, <2>1, WholeIs, SeriesAre
  <1>4. /\ home' = [dir |-> home.dir, manifest |-> home.manifest, series |-> home'.series]
        /\ \A c \in Series : home'.series[c] = IF c = a THEN v ELSE home.series[c]
    BY <1>1, <1>2, <1>3, FileChanges
  <1>5. Turn(p, r)
    BY <1>1 DEF FillCopy, Turn, PinHolds
  <1>6. ASSUME NEW vs \in Pins, RunGoes(r, fetch[p], vs) PROVE RunGoes(r, s, vs)'
    <2>1. Hydrates(r, vs) /\ home'.manifest = vs /\ v = vs[a]
      BY <1>1, <1>2, <1>4, <1>6 DEF RunGoes, Builds, Repeats, Hydrates
    <2>2. \A c \in Series : IF c \in r.plan THEN home'.series[c] = Absent \/ (r.open /\ c = first(r.plan))
                            ELSE home'.series[c] = vs[c]
      BY <1>1, <1>2, <1>4, <2>1 DEF Hydrates
    <2>3. Hydrates(r, vs)'
      BY <1>1, <2>1, <2>2 DEF Hydrates
    <2> QED BY <1>1, <1>6, <2>3 DEF RunGoes
  <1> QED BY <1>1, <1>2, <1>5, <1>6, TurnKeepsCalm

LEMMA SyncCopyKeepsCalm ==
  ASSUME PinHolds, CalmHolds, NEW p \in Procs, SyncCopy(p)
  PROVE  CalmHolds'
  <1>1. PICK r : r = run[p] /\ r.pc = "copy" /\ r.open /\ IsRun(r) /\ UNCHANGED <<home, mishaps>>
    BY CopyIs DEF SyncCopy, Does, PinHolds, elsewhere
  <1>2. PICK a, s, left : a = first(r.plan) /\ s = fetch'[p] /\ left = r.plan \ {a}
    OBVIOUS
  <1>3. PICK n : n = [r EXCEPT !.open = FALSE, !.plan = left] /\ Turn(p, n)
    BY <1>1, <1>2 DEF SyncCopy
  <1>4. n.pc = "copy" /\ n.does = r.does /\ n.builds = r.builds /\ n.calm = r.calm /\ n.plan = left
    BY <1>1, <1>3 DEF IsRun
  <1>5. ASSUME NEW vs \in Pins, RunGoes(r, fetch[p], vs) PROVE RunGoes(n, s, vs)'
    <2>1. Hydrates(r, vs) /\ home.manifest = vs
      BY <1>1, <1>5 DEF RunGoes, Builds, Repeats, Hydrates
    <2>2. a \in Series => home.series[a] = vs[a]
      BY <1>1, <1>2, <2>1 DEF SyncCopy, PinHolds, RunHolds, CopiesHome
    <2>3. left \subseteq Series /\ \A c \in Series : IF c \in left THEN home.series[c] = Absent
                                                    ELSE home.series[c] = vs[c]
      BY <1>1, <1>2, <2>1, <2>2 DEF Hydrates
    <2>4. Hydrates(n, vs)'
      BY <1>1, <1>4, <2>1, <2>3 DEF Hydrates
    <2> QED BY <1>4, <1>5, <2>4 DEF RunGoes
  <1> QED BY <1>1, <1>2, <1>3, <1>4, <1>5, TurnKeepsCalm

-----------------------------------------------------------------------------
(* A run that is killed, or fails, and all that run beside it. *)
LEMMA UpsetsKeepCalm ==
  ASSUME PinHolds, CalmHolds
  PROVE  /\ Published => CalmHolds'
         /\ \A p \in Procs : Kill(p) \/ CopyFails(p) => CalmHolds'
  <1>1. mishaps \in Nat /\ (Mishap => mishaps' \in Nat)
    BY DEF CalmHolds, Mishap
  <1>2. CASE Published
    BY <1>1, <1>2, MishapKeepsCalm DEF Published, Publish
  <1>3. ASSUME NEW p \in Procs, Kill(p) PROVE CalmHolds'
    <2>1. mishaps' \in Nat /\ run' = [upset(run) EXCEPT ![p] = off] /\ ~off.calm
      BY <1>1, <1>3 DEF Kill, off
    <2> QED BY <2>1, UpsetByOne
  <1>4. ASSUME NEW p \in Procs, CopyFails(p) PROVE CalmHolds'
    <2>1. PICK u, e : u = upset(run)[p] /\ e = Ended(u, "failed") /\ run' = [upset(run) EXCEPT ![p] = e]
      BY <1>4 DEF CopyFails
    <2>2. run[p].pc = "copy" /\ mishaps' \in Nat /\ IsRun(run[p])
      BY <1>1, <1>4 DEF CopyFails, Does, PinHolds, RunHolds
    <2>3. PICK r : r = run[p]
      OBVIOUS
    <2>4. u = [r EXCEPT !.calm = FALSE]
      BY <2>1, <2>2, <2>3 DEF upset
    <2>5. u.calm = FALSE
      BY <2>2, <2>3, <2>4 DEF IsRun
    <2>6. ~e.calm
      BY <2>1, <2>5, EndIsCalm
    <2> QED BY <2>1, <2>2, <2>6, UpsetByOne
  <1> QED BY <1>2, <1>3, <1>4

-----------------------------------------------------------------------------
(* Where a fit run begins: the versions that its raw files are of, or will *)
(* be.                                                                     *)
LEMMA ObtainableComes ==
  ASSUME CacheHolds, NEW f \in Files, NEW v \in Versions, obtainable(f, v)
  PROVE  Comes(f, v)
  <1>1. CASE store[f] # 0
    BY <1>1 DEF obtainable, Comes
  <1>2. CASE store[f] = 0
    <2>1. PICK s, t : s = bytes(part[f]) /\ t = Body(f, v) /\ upstream[f.of] = v /\ begins(s, t)
      BY <1>2 DEF obtainable
    <2>2. PICK n \in Nat : n = Len(s) /\ s \in Content /\ Size(f) \in Nat
      BY <2>1, ContentsAre
    <2>3. t \in Content /\ Len(t) = Size(f) /\ \A i \in 1..Size(f) : t[i] = Block(v, i)
      BY <2>1, BodyIs DEF Start
    <2>4. n < Size(f) /\ s = SubSeq(t, 1, n)
      BY <2>1, <2>2, <2>3 DEF begins
    <2>5. \A i \in 1..n : s[i] = t[i]
      BY <2>2, <2>3, <2>4 DEF Content
    <2>6. Start(s, f, v, n)
      BY <2>2, <2>3, <2>4, <2>5 DEF Start
    <2> QED BY <1>2, <2>1, <2>2, <2>4, <2>6 DEF Comes
  <1> QED BY <1>1, <1>2

LEMMA FitIs ==
  ASSUME PinHolds, CacheHolds, NEW does, fit(does)
  PROVE  \E vs \in Pins :
           /\ \A f \in Files : Comes(f, vs[f.of])
           /\ home.dir => /\ home.manifest = vs
                          /\ does = "acquire" => \A a \in Series : home.series[a] \in {Absent, vs[a]}
           /\ ~home.dir => does = "acquire"
  <1>1. ASSUME NEW vs \in Pins, NEW f \in Files, NEW a, a = f.of,
               \A g \in {h \in Files : h.of = a} : obtainable(g, vs[a])
        PROVE  Comes(f, vs[f.of])
    <2>1. a \in Series /\ vs[a] \in Versions
      BY <1>1, SizesAre DEF Pins
    <2> QED BY <1>1, <2>1, ObtainableComes
  <1>2. CASE home.dir
    <2>1. home.manifest \in Pins
      BY <1>2, WholeIs DEF fit, PinHolds
    <2>2. ASSUME NEW f \in Files PROVE Comes(f, home.manifest[f.of])
      <3>1. f.of \in Series
        BY SizesAre
      <3>2. fit_raw(f.of, {home.manifest[f.of]})
        BY <1>2, <3>1 DEF fit
      <3> QED BY <1>1, <2>1, <3>2 DEF fit_raw
    <2> QED BY <1>2, <2>1, <2>2 DEF fit
  <1>3. CASE ~home.dir
    <2> DEFINE good(a, v) == \A f \in {g \in Files : g.of = a} : obtainable(f, v)
               vs == [a \in Series |-> CHOOSE v \in Versions : good(a, v)]
    <2>1. does = "acquire" /\ \A a \in Series : \E v \in Versions : good(a, v)
      BY <1>3 DEF fit, fit_raw, Versions
    <2> HIDE DEF good
    <2>2. \A a \in Series : vs[a] \in Versions /\ good(a, vs[a])
      BY <2>1
    <2>3. vs \in Pins
      BY <2>2 DEF Pins
    <2> HIDE DEF vs
    <2>4. ASSUME NEW f \in Files PROVE Comes(f, vs[f.of])
      <3>1. f.of \in Series
        BY SizesAre
      <3>2. good(f.of, vs[f.of])
        BY <2>2, <3>1
      <3> QED BY <1>1, <2>3, <3>2 DEF good
    <2> QED BY <1>3, <2>1, <2>3, <2>4
  <1> QED BY <1>2, <1>3

LEMMA FetchStays ==
  ASSUME UNCHANGED <<upstream, store, part, inode>>
  PROVE  /\ \A r, vs : FetchGoes(r, vs) => FetchGoes(r, vs)'
         /\ \A vs : AllCame(vs) => AllCame(vs)'
  BY ComesStay DEF FetchGoes, AllCame

LEMMA BegunGoes ==
  ASSUME NEW vs \in Pins, \A f \in Files : Comes(f, vs[f.of])
  PROVE  FetchGoes(begun, vs)
  <1>1. begun.pc = "look" /\ begun.todo = all_files
    BY DEF begun, idle
  <1>2. \A f \in Files : f \in ToSet(all_files)
    BY EveryFile DEF ToSet
  <1>3. PICK r : r = begun
    OBVIOUS
  <1>4. FetchGoes(r, vs)
    BY <1>1, <1>2, <1>3 DEF FetchGoes, Busy
  <1> QED BY <1>3, <1>4

(* A run that begins: calm, it fetches; else nothing is said of it. *)
LEMMA BegunKeepsCalm ==
  ASSUME PinHolds, CacheHolds, CalmHolds, NEW p \in Procs, NEW r, Begin(p, r),
         r.calm =>
           IF r.pc = "off" THEN r.result # "failed"
           ELSE /\ r.pc = "fetch" /\ r.builds = <<>> /\ \A q \in Procs \ {p} : run[q].pc = "off"
                /\ \E vs \in Pins : /\ \A f \in Files : Comes(f, vs[f.of])
                                    /\ Builds(r) \/ Hydrates(r, vs) \/ Repeats(r, vs)
  PROVE  CalmHolds'
  <1>1. OthersAreAlike(p) /\ run'[p] = r
    BY TurnMoves DEF Begin
  <1>2. PICK u : u = upset(run)
    OBVIOUS
  <1>3. u = [q \in Procs |-> u[q]] /\ run' = [u EXCEPT ![p] = r]
    BY <1>2, UpsetIs DEF PinHolds, Begin
  <1>4. \A q \in Procs \ {p} : run'[q] = upset(run)[q] /\ run'[q].pc = run[q].pc
    BY <1>1, <1>2, <1>3 DEF OthersAreAlike, Alike
  <1>5. /\ UNCHANGED <<upstream, store, part, inode>> /\ UNCHANGED <<home, mishaps>>
        /\ r.pc = "fetch" => fetch'[p] = begun
    BY DEF Begin, disk_vars, CacheHolds
  <1>6. Calm(p)'
    <2>1. SUFFICES ASSUME r.calm, r.pc # "off"
                   PROVE  /\ \A q \in Procs \ {p} : run'[q].pc = "off"
                          /\ \E vs \in Pins : RunGoes(run[p], fetch[p], vs)'
      BY <1>1 DEF Calm
    <2>2. PICK vs \in Pins : /\ \A f \in Files : Comes(f, vs[f.of])
                             /\ Builds(r) \/ Hydrates(r, vs) \/ Repeats(r, vs)
      BY <2>1
    <2>3. FetchGoes(begun, vs)'
      BY <1>5, <2>2, BegunGoes, FetchStays
    <2>4. PICK s : s = fetch'[p] /\ FetchGoes(s, vs)'
      <3>1. PICK s : s = begun
        OBVIOUS
      <3> QED BY <1>5, <2>1, <2>3, <3>1
    <2>5. (Builds(r) \/ Hydrates(r, vs) \/ Repeats(r, vs))'
      BY <1>5, <2>2 DEF Builds, Hydrates, Repeats, loads
    <2>6. RunGoes(r, s, vs)'
      BY <2>1, <2>4, <2>5 DEF RunGoes
    <2>7. RunGoes(run[p], fetch[p], vs)'
      BY <1>1, <2>4, <2>6 DEF RunGoes, FetchGoes, Downloads, Builds, Hydrates, Repeats, bytes
    <2> QED BY <1>4, <2>1, <2>7
  <1>7. ASSUME NEW q \in Procs PROVE Calm(q)'
    BY <1>4, <1>6, <1>7, UpsetIsCalm
  <1> QED BY <1>5, <1>7 DEF CalmHolds

LEMMA StartedIs ==
  ASSUME NEW p, NEW does, NEW r, r = started(p, does)
  PROVE  /\ IsRun(r) /\ r.pc = "fetch" /\ r.does = does /\ r.builds = <<>>
         /\ r.calm => fit(does) /\ \A q \in Procs \ {p} : run[q].pc = "off"
  <1>1. PICK calm : calm = (fit(does) /\ \A q \in Procs \ {p} : ~active(q))
    OBVIOUS
  <1>2. r = [off EXCEPT !.does = does, !.pc = "fetch", !.calm = calm]
    BY <1>1 DEF started
  <1>3. IsRun(r) /\ r.pc = "fetch" /\ r.does = does /\ r.builds = <<>> /\ r.calm = calm
    BY <1>2 DEF off, IsRun
  <1> QED BY <1>1, <1>3 DEF active

LEMMA AcquireKeepsCalm ==
  ASSUME PinHolds, CacheHolds, CalmHolds, NEW p \in Procs, Acquire(p)
  PROVE  CalmHolds'
  <1>1. PICK r, h : /\ r = started(p, "acquire") /\ Begin(p, h)
                    /\ h = CASE loads -> Ended(r, "ready")
                             [] ~loads /\ home.dir /\ home.manifest = no_manifest -> Ended(r, "failed")
                             [] OTHER -> [r EXCEPT !.does = IF home.dir THEN "hydrate" ELSE "build"]
    BY DEF Acquire
  <1>2. /\ IsRun(r) /\ r.pc = "fetch" /\ r.builds = <<>>
        /\ r.calm => fit("acquire") /\ \A q \in Procs \ {p} : run[q].pc = "off"
    BY <1>1, StartedIs
  <1>3. CASE loads
    <2>1. h = Ended(r, "ready")
      BY <1>1, <1>3
    <2>2. h.pc = "off" /\ h.result # "failed"
      BY <2>1, EndIsCalm
    <2> QED BY <1>1, <2>2, BegunKeepsCalm
  <1>4. CASE ~loads /\ home.dir /\ home.manifest = no_manifest
    <2>1. h = Ended(r, "failed")
      BY <1>1, <1>4
    <2>2. ~fit("acquire")
      BY <1>4, FitIs, WholeIs
    <2>3. ~h.calm
      BY <1>2, <2>1, <2>2, EndIsCalm
    <2> QED BY <1>1, <2>3, BegunKeepsCalm
  <1>5. CASE ~loads /\ ~(home.dir /\ home.manifest = no_manifest)
    <2>1. PICK does : does = (IF home.dir THEN "hydrate" ELSE "build") /\ h = [r EXCEPT !.does = does]
      BY <1>1, <1>5
    <2>2. h.pc = "fetch" /\ h.does = does /\ h.builds = <<>> /\ h.calm = r.calm
      BY <1>2, <2>1 DEF IsRun
    <2>3. ASSUME h.calm
          PROVE  \E vs \in Pins : /\ \A f \in Files : Comes(f, vs[f.of])
                                  /\ Builds(h) \/ Hydrates(h, vs) \/ Repeats(h, vs)
      <3>1. PICK vs \in Pins :
              /\ \A f \in Files : Comes(f, vs[f.of])
              /\ home.dir => home.manifest = vs /\ \A a \in Series : home.series[a] \in {Absent, vs[a]}
        BY <1>2, <2>2, <2>3, FitIs
      <3>2. Builds(h) \/ Hydrates(h, vs)
        BY <2>1, <2>2, <3>1 DEF Builds, Hydrates
      <3> QED BY <3>1, <3>2
    <2> QED BY <1>1, <1>2, <2>2, <2>3, BegunKeepsCalm
  <1> QED BY <1>3, <1>4, <1>5

LEMMA NightlyKeepsCalm ==
  ASSUME PinHolds, CacheHolds, CalmHolds, NEW p \in Procs, Nightly(p)
  PROVE  CalmHolds'
  <1>1. PICK r, h : /\ r = started(p, "nightly") /\ Begin(p, h)
                    /\ h = IF home.manifest = no_manifest THEN Ended(r, "failed")
                           ELSE [r EXCEPT !.committed = home.manifest]
    BY DEF Nightly
  <1>2. /\ IsRun(r) /\ r.pc = "fetch" /\ r.does = "nightly" /\ r.builds = <<>>
        /\ r.calm => fit("nightly") /\ \A q \in Procs \ {p} : run[q].pc = "off"
    BY <1>1, StartedIs
  <1>3. fit("nightly") => \E vs \in Pins : home.manifest = vs /\ \A f \in Files : Comes(f, vs[f.of])
    BY FitIs
  <1>4. CASE home.manifest = no_manifest
    <2>1. h = Ended(r, "failed")
      BY <1>1, <1>4
    <2>2. ~h.calm
      BY <1>2, <1>3, <1>4, <2>1, EndIsCalm, WholeIs
    <2> QED BY <1>1, <2>2, BegunKeepsCalm
  <1>5. CASE home.manifest # no_manifest
    <2>1. PICK m : m = home.manifest /\ h = [r EXCEPT !.committed = m]
      BY <1>1, <1>5
    <2>2. /\ h.pc = "fetch" /\ h.does = "nightly" /\ h.builds = <<>> /\ h.calm = r.calm
          /\ h.committed = m
      BY <1>2, <2>1 DEF IsRun
    <2>3. \A vs : home.manifest = vs => Repeats(h, vs)
      BY <2>1, <2>2 DEF Repeats
    <2> QED BY <1>1, <1>2, <1>3, <2>2, <2>3, BegunKeepsCalm
  <1> QED BY <1>4, <1>5

(* What came is what the checksums are of, in one version of each archive. *)
LEMMA CameIsVerified ==
  ASSUME NEW vs \in Pins, AllCame(vs), NEW a \in Series
  PROVE  /\ verified(a) /\ version(a) = vs[a]
         /\ installed(a, "zip") = Body([of |-> a, is |-> "zip"], vs[a])
  <1>1. PICK v \in Versions : v = vs[a]
    BY DEF Pins
  <1>2. PICK zip, check : zip = [of |-> a, is |-> "zip"] /\ check = [of |-> a, is |-> "CHECKSUM"]
    OBVIOUS
  <1>3. zip \in Files /\ check \in Files /\ zip.of = a /\ check.of = a
    BY <1>2 DEF Files, Series
  <1>4. bytes(store[zip]) = Body(zip, v) /\ bytes(store[check]) = Body(check, v)
    BY <1>1, <1>3 DEF AllCame, Comes
  <1>5. holds(a, v)
    BY <1>2, <1>4 DEF holds, installed
  <1>6. ASSUME NEW w \in Versions, holds(a, w) PROVE w = v
    <2>1. Body(zip, w) = Body(zip, v)
      BY <1>2, <1>4, <1>6 DEF holds, installed
    <2>2. Body(zip, v)[1] = Block(v, 1) /\ Body(zip, w)[1] = Block(w, 1)
      <3>1. 1 \in 1..Size(zip)
        BY <1>3, SizesAre
      <3> QED BY <3>1 DEF Body
    <2> QED BY <2>1, <2>2 DEF Block
  <1>7. version(a) = v
    BY <1>5, <1>6 DEF version, Versions
  <1> QED BY <1>1, <1>2, <1>4, <1>5, <1>7 DEF verified, Versions, installed

LEMMA VerifyKeepsCalm ==
  ASSUME PinHolds, CacheHolds, CalmHolds, NEW p \in Procs, Verify(p)
  PROVE  CalmHolds'
  <1>1. PICK r : /\ r = run[p] /\ r.pc = "fetch" /\ IsRun(r) /\ r.builds \in Seq(Pins) /\ fetch[p].pc = "fetched"
                 /\ UNCHANGED <<upstream, store, part, inode>> /\ UNCHANGED <<home, mishaps>>
    BY DEF Verify, Does, At, disk_vars, PinHolds, RunHolds
  <1>2. ASSUME NEW vs \in Pins, RunGoes(r, fetch[p], vs) PROVE AllCame(vs)
    <2>1. FetchGoes(fetch[p], vs) /\ fetch[p].todo = <<>>
      BY <1>1, <1>2 DEF RunGoes, FetchGoes
    <2>2. \A f \in Files : f \notin ToSet(<<>>)
      BY DEF ToSet
    <2> QED BY <1>1, <2>1, <2>2 DEF AllCame, FetchGoes
  <1>3. CASE (r.does = "build" /\ home.dir) \/ \E a \in Series : ~verified(a)
    <2>1. ASSUME NEW vs \in Pins, RunGoes(r, fetch[p], vs) PROVE FALSE
      <3>1. \A a \in Series : verified(a)
        BY <1>2, <2>1, CameIsVerified
      <3>2. r.does = "build" => ~home.dir
        BY <1>1, <2>1 DEF RunGoes, Builds, Hydrates, Repeats
      <3> QED BY <1>3, <3>1, <3>2
    <2> QED BY <1>1, <1>3, <2>1, FailKeepsCalm DEF Verify
  <1>4. CASE ~((r.does = "build" /\ home.dir) \/ \E a \in Series : ~verified(a))
    <2>1. PICK now, more : now = [a \in Series |-> version(a)] /\ more = Append(r.builds, now)
      OBVIOUS
    <2>2. PICK n, s : n = [r EXCEPT !.pc = "read", !.builds = more] /\ Turn(p, n) /\ s = fetch'[p]
      BY <1>1, <1>4, <2>1 DEF Verify
    <2>3. n.pc = "read" /\ n.does = r.does /\ n.builds = more /\ n.calm = r.calm /\ n.committed = r.committed
      BY <1>1, <2>2 DEF IsRun
    <2>4. ASSUME NEW vs \in Pins, RunGoes(r, fetch[p], vs) PROVE RunGoes(n, s, vs)'
      <3>1. now = vs
        BY <1>2, <2>1, <2>4, CameIsVerified DEF Pins
      <3>2. \A i \in DOMAIN more : more[i] = vs
        <4>1. \A i \in DOMAIN r.builds : r.builds[i] = vs
          BY <2>4 DEF RunGoes
        <4> QED BY <1>1, <2>1, <3>1, <4>1
      <3>3. AllCame(vs)'
        BY <1>1, <1>2, <2>4, FetchStays
      <3>4. (Builds(n) \/ Hydrates(n, vs) \/ Repeats(n, vs))'
        BY <1>1, <2>3, <2>4 DEF RunGoes, Builds, Hydrates, Repeats
      <3> QED BY <2>3, <3>2, <3>3, <3>4 DEF RunGoes
    <2> QED BY <1>1, <2>2, <2>3, <2>4, TurnKeepsCalm
  <1> QED BY <1>3, <1>4

LEMMA ReadKeepsCalm ==
  ASSUME PinHolds, CacheHolds, CalmHolds, NEW p \in Procs, Read(p)
  PROVE  CalmHolds'
  <1>1. PICK r : /\ r = run[p] /\ r.pc = "read" /\ IsRun(r)
                 /\ UNCHANGED <<upstream, store, part, inode>> /\ UNCHANGED <<home, mishaps>>
    BY DEF Read, Does, disk_vars, PinHolds, RunHolds
  <1>2. PICK unchanged : unchanged = \A a \in Series : installed(a, "zip") = Body([of |-> a, is |-> "zip"], built(p)[a])
    OBVIOUS
  <1>3. ASSUME NEW vs \in Pins, RunGoes(r, fetch[p], vs) PROVE AllCame(vs) /\ unchanged
    <2>1. AllCame(vs) /\ built(p) = vs
      BY <1>1, <1>3, BuiltAsPinned DEF RunGoes
    <2> QED BY <1>2, <2>1, CameIsVerified
  <1>4. CASE ~unchanged
    BY <1>1, <1>2, <1>3, <1>4, FailKeepsCalm DEF Read
  <1>5. CASE unchanged
    <2>1. PICK twice : twice = (r.does = "nightly" /\ Len(r.builds) = 1)
      OBVIOUS
    <2>2. PICK at : at = CASE r.does = "build" -> "mkdir" [] twice -> "fetch" [] OTHER -> "compare"
      OBVIOUS
    <2>3. PICK n, s : n = [r EXCEPT !.pc = at] /\ Turn(p, n) /\ s = fetch'[p] /\ (twice => s = begun)
      BY <1>1, <1>2, <1>5, <2>1, <2>2 DEF Read, CacheHolds
    <2>4. n.pc = at /\ n.does = r.does /\ n.builds = r.builds /\ n.calm = r.calm /\ n.committed = r.committed
      BY <1>1, <2>3 DEF IsRun
    <2>5. \/ r.does = "build" /\ at = "mkdir"
          \/ r.does = "nightly" /\ twice /\ at = "fetch"
          \/ r.does # "build" /\ at = "compare"
      BY <2>1, <2>2
    <2>6. ASSUME NEW vs \in Pins, RunGoes(r, fetch[p], vs) PROVE RunGoes(n, s, vs)'
      <3>1. at = "fetch" => FetchGoes(s, vs)'
        <4>1. FetchGoes(begun, vs)'
          BY <1>1, <1>3, <2>6, BegunGoes, FetchStays DEF AllCame
        <4>2. PICK b : b = begun
          OBVIOUS
        <4> QED BY <2>3, <2>5, <4>1, <4>2
      <3>2. (Builds(n) \/ Hydrates(n, vs) \/ Repeats(n, vs))'
        BY <1>1, <2>4, <2>5, <2>6 DEF RunGoes, Builds, Hydrates, Repeats
      <3> QED BY <2>4, <2>5, <2>6, <3>1, <3>2 DEF RunGoes
    <2>7. n.pc # "off"
      BY <2>4, <2>5
    <2> QED BY <1>1, <2>3, <2>4, <2>6, <2>7, TurnKeepsCalm
  <1> QED BY <1>4, <1>5

-----------------------------------------------------------------------------
LEMMA CalmInductive == PinHolds /\ CacheHolds /\ CalmHolds /\ [Next]_vars => CalmHolds'
  <1> SUFFICES ASSUME PinHolds, CacheHolds, CalmHolds, [Next]_vars PROVE CalmHolds'
    OBVIOUS
  <1>1. CASE UNCHANGED vars
    <2>1. run' = run /\ fetch' = fetch /\ home' = home /\ mishaps' = mishaps /\ upstream' = upstream
          /\ store' = store /\ part' = part /\ inode' = inode
      BY <1>1 DEF vars, bulk_vars
    <2> QED BY <2>1 DEF CalmHolds, Calm, RunGoes, FetchGoes, AllCame, Comes, Downloads, Builds, Hydrates, Repeats,
                        loads, bytes
  <1> QED BY <1>1, AcquireKeepsCalm, NightlyKeepsCalm, FetchingKeepsCalm, FetchFailsKeepsCalm, VerifyKeepsCalm,
             ReadKeepsCalm, MakeDirectoryKeepsCalm, WriteFileKeepsCalm, CompareKeepsCalm, OpenCopyKeepsCalm,
             FillCopyKeepsCalm, SyncCopyKeepsCalm, CopiedKeepsCalm, LoadKeepsCalm, ReceiptKeepsCalm, UpsetsKeepCalm
          DEF Next, CopyFile

(* However many runs were killed before, at any step, and whatever the     *)
(* disk was left with: a run that meets no failure, no new version and no  *)
(* other process, and that begins fit, does not fail.                      *)
THEOREM CalmRunsNeverFail == Spec => []CalmRunsDoNotFail
  <1>1. Init => CalmHolds
    <2> SUFFICES ASSUME Init PROVE CalmHolds
      OBVIOUS
    <2>1. mishaps = 0 /\ \A p \in Procs : run[p] = off
      BY DEF Init, BulkInit
    <2>2. ~off.calm
      BY DEF off
    <2> QED BY <2>1, <2>2 DEF CalmHolds, Calm
  <1>2. PinHolds /\ CalmHolds => CalmRunsDoNotFail
    <2> SUFFICES ASSUME PinHolds, CalmHolds, NEW p \in Procs, run[p].calm PROVE run[p].result # "failed"
      BY DEF CalmRunsDoNotFail
    <2>1. CASE run[p].pc = "off"
      BY <2>1 DEF CalmHolds, Calm
    <2>2. CASE run[p].pc # "off"
      BY <2>2 DEF PinHolds, RunHolds
    <2> QED BY <2>1, <2>2
  <1> QED BY <1>1, <1>2, PinInit, PinInductive, CacheInit, CacheInductive, CalmInductive, PTL DEF Spec
=============================================================================
