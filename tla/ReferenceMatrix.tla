-------------------------- MODULE ReferenceMatrix --------------------------
(***************************************************************************)
(* The paid reference matrix (execute_matrix, tools/llm_reference_matrix   *)
(* .py): one smoke call and then one episode per pack, bought from a       *)
(* provider, with every purchase preceded by an immutable attempt receipt  *)
(* and followed by immutable evidence under one output root.  Invocations  *)
(* may overlap, be killed at any step, and be resumed; an item once        *)
(* attempted must never be bought again, and no purchase may lead past the *)
(* limits.                                                                 *)
(*                                                                         *)
(* Each invocation is a process with a program counter over the shared     *)
(* root.  A document is [by, state, turns]: the settings it was computed   *)
(* from, whether it is there in whole, and the turns it accounts for; two  *)
(* documents with the same bytes are equal records.  A preflight reads     *)
(* files that only appear and never change, and is a few steps.  Only      *)
(* confirmed invocations are modelled: the others write nothing.           *)
(***************************************************************************)
EXTENDS PaidCalls

CONSTANTS
  Procs, Packs,             \* processes; a sequence of packs
  SmokePack,                \* the size of the observation of the smoke call
  Sample, TurnsOf,          \* per pack: largest observation of the dry run, turns
  Observed,                 \* per pack: sizes of its real observations, some may be larger
  Kinds,                    \* per item: kinds of answers considered
  Settings,                 \* [name, prior, receipt]: what the documents depend on
  PackLimit, MatrixLimit,
  MaxInvocations, MaxKills

Range_(s) == {s[k] : k \in DOMAIN s}
Items  == {"smoke"} \cup Range_(Packs)
Report == <<"report.html", "report.txt", "share-card.svg">>

Authorization == <<"authorization", "matrix">>
Estimate(x)   == <<"estimate", x>>
Attempt(x)    == <<"attempt", x>>
Receipt(x)    == <<"receipt", x>>
Response      == <<"response", "smoke">>
Failures      == << <<"failure-response", "smoke">>, <<"failure-receipt", "smoke">> >>
Bundle(p)     == <<"bundle", p>>
Reports(p)    == [k \in DOMAIN Report |-> <<Report[k], p>>]
Aggregate     == <<"receipt", "matrix">>
Paths == {Authorization, Aggregate, Response} \cup Range_(Failures)
           \cup {Estimate(x) : x \in Items} \cup {Attempt(x) : x \in Items}
           \cup {Receipt(x) : x \in Items} \cup {Bundle(x) : x \in Range_(Packs)}
           \cup UNION {Range_(Reports(x)) : x \in Range_(Packs)}
Dirs == {"root", "attempts", "bundles"} \cup Range_(Packs)

NoPath == <<"none", "none">>
Nobody == "nobody"
NoFile == [by |-> Nobody, state |-> "absent", turns |-> <<>>]
Whole(by, turns) == [by |-> by, state |-> "whole", turns |-> turns]

(* There are packs (the matrix insists on all thirteen), and the names the *)
(* smoke call and the aggregate are filed under are the name of none: in   *)
(* the root they are in directories of their own.                          *)
ASSUME MatrixAssumption ==
  /\ Packs \in Seq(Range_(Packs)) /\ Packs # <<>>
  /\ {"smoke", "matrix"} \cap Range_(Packs) = {}

(* Sizes, turns and limits are counts, and the answers of the kinds known. *)
ASSUME SizesAssumption ==
  /\ {SmokePack, PackLimit, MatrixLimit} \subseteq Nat
  /\ \A p \in Range_(Packs) : {Sample[p], TurnsOf[p]} \subseteq Nat /\ Observed[p] \subseteq Nat
  /\ \A x \in Items : Kinds[x] \subseteq AnswerKinds

(* A name stands for one set of settings.  The reserve it carries over is  *)
(* a sum of money; the answered smoke call it links is a reply like any    *)
(* other, charged for the usage it reports.                                *)
ASSUME SettingsAssumption ==
  /\ \A s, t \in Settings : s.name = t.name => s = t
  /\ \A s \in Settings :
       /\ s.prior \in Nat
       /\ s.receipt # <<>> /\ s.receipt[1].linked # <<>> =>
            LET basis == s.receipt[1].linked[1]
                usage == basis.answer.usage
            IN /\ {basis.prior, basis.actual, usage.input, usage.cached, usage.output} \subseteq Nat
               /\ usage.cached <= usage.input
               /\ basis.answer.billed = numerator(usage)

VARIABLES
  disk,        \* path -> document
  dirs,        \* directories made; a pack stands for its report directory
  litter,      \* paths whose temporary file a dead process left behind
  proc,        \* process -> its record
  bought,      \* item -> times it was bought
  billed,      \* item -> what the provider charged for it
  invocations, kills

vars == <<disk, dirs, litter, proc, bought, billed, invocations, kills>>
disk_vars == <<disk, dirs, litter>>
paid_vars == <<bought, billed>>

(* A process: its program counter, settings and --resume; the position in  *)
(* the plans it is at (0 is the smoke call); the file it is writing and    *)
(* whether its temporary file exists; the packs it holds evidence of, and  *)
(* those whose reports and receipt were there when it looked; whether it   *)
(* bought the pack it is at; the turns of the call or episode it is in.    *)
Idle == [pc |-> "idle", by |-> Nobody, prior |-> 0, resume |-> FALSE, at |-> 0, path |-> NoPath, after |-> "idle",
         temporary |-> FALSE, smoke |-> <<>>, evidence |-> {}, reported |-> {}, receipted |-> {},
         fresh |-> FALSE, turns |-> <<>>]

Init ==
  /\ disk = [x \in Paths |-> NoFile]
  /\ dirs = {} /\ litter = {}
  /\ proc = [i \in Procs |-> Idle]
  /\ bought = [x \in Items |-> 0] /\ billed = [x \in Items |-> 0]
  /\ invocations = 0 /\ kills = 0

exists(x)       == disk[x] # NoFile
is_doc_by_name(x, i) == exists(x)
is_doc(x, i)    == disk[x] = Whole(proc[i].by, <<>>)
agrees(x, i)    == exists(x) => is_doc(x, i)         \* _expect_bytes does not raise
go(i, pc)       == proc' = [proc EXCEPT ![i].pc = pc]
refuse(i)       == proc' = [proc EXCEPT ![i] = Idle]
at(i, pc)       == proc[i].pc = pc
item(i)         == IF proc[i].at = 0 THEN "smoke" ELSE Packs[proc[i].at]

-----------------------------------------------------------------------------
(* The bounds.                                                             *)

authorization(x) ==
  IF x = "smoke" THEN smoke_authorization_cost(SmokePack) ELSE authorization_cost(Sample[x], TurnsOf[x])
estimate(x) ==
  IF x = "smoke" THEN estimated_cost(SmokePack, 1) ELSE estimated_cost(Sample[x], TurnsOf[x])
sum_of(Op(_), items) == SumFunctionOnSet([x \in items |-> Op(x)], items)

within_pack_limits_alone(prior) == \A x \in Items : authorization(x) < PackLimit
within_estimate_budget(prior) ==
  /\ \A x \in Items : authorization(x) < PackLimit
  /\ prior + sum_of(authorization, Items) < MatrixLimit

(* A reserve carried over from a failed run: v2 asserts it, v3 links an    *)
(* earlier reserve and the answered smoke call, and prices it again.       *)
v3_basis_of_the_sum(r) == r.linked[1].prior + r.linked[1].actual = r.reserve
v3_basis_holds(r) ==
  LET basis == r.linked[1]
  IN /\ basis.prior + basis.actual = r.reserve
     /\ basis.answer.kind = "invalid" /\ basis.answer.told
     /\ usage_cost(basis.answer.usage) = basis.actual
prior_failure_holds(s) ==
  IF s.receipt = <<>> THEN s.prior = 0
  ELSE s.receipt[1].reserve = s.prior /\ (s.receipt[1].linked # <<>> => v3_basis_holds(s.receipt[1]))

accounted(p) == accounting_cost_upper_bound(disk[Bundle(p)].turns)
remaining_bound(i) ==
  proc[i].prior + known_cost(proc[i].smoke) + sum_of(accounted, proc[i].evidence)
    + sum_of(authorization, Range_(Packs) \ proc[i].evidence)

smoke_estimate_holds(turns) == within_two_x(estimate("smoke"), known_cost(turns))
pack_estimate_holds(p) ==
  LET turns == disk[Bundle(p)].turns
  IN within_two_x_interval(estimate(p), known_cost(turns), accounting_cost_upper_bound(turns))

(* A smoke reply is a valid action with full telemetry, within the limits. *)
smoke_is_valid(turns) ==
  /\ turns[1].status = "parsed" /\ usage_is_collected(turns)
  /\ known_cost(turns) < PackLimit /\ known_cost(turns) <= authorization("smoke")

(* _verify_bundle_evidence: the bundle is COMPLETE and of these settings,  *)
(* its usage can be collected and is within its authorization, and what    *)
(* was derived from it before is the same.                                 *)
temporaries == litter \cup {proc[j].path : j \in {k \in Procs : proc[k].temporary}}
reports_are_whole(p) == \A k \in DOMAIN Report : exists(Reports(p)[k])
reports_agree(p) == p \in dirs => reports_are_whole(p) /\ temporaries \cap Range_(Reports(p)) = {}
evidence_holds(i, p) ==
  LET bundle == disk[Bundle(p)]
  IN /\ bundle.state = "whole" /\ bundle.by = proc[i].by
     /\ usage_is_collected(bundle.turns)
     /\ accounting_cost_upper_bound(bundle.turns) <= authorization(p)
     /\ reports_agree(p)
     /\ exists(Receipt(p)) => disk[Receipt(p)] = Whole(proc[i].by, bundle.turns)

-----------------------------------------------------------------------------
(* _write_new: a temporary file beside its name, which must be free, is    *)
(* linked to it unless the name was taken meanwhile, and unlinked.         *)

Directory(path) ==
  CASE path[1] = "attempt" /\ path[2] # "smoke" -> {"root", "attempts"}
    [] path[1] \in Range_(Report) -> {"root", path[2]}
    [] OTHER -> {"root"}

(* What is in a file: the settings it was computed from, and the turns.    *)
basis_document(i)     == Whole(proc[i].by, <<>>)
smoke_document(i)     == Whole(proc[i].by, proc[i].turns)
smoke_failure(i)      == Whole(proc[i].by, proc[i].turns)
actual_receipt(i, p)  == Whole(proc[i].by, disk[Bundle(p)].turns)
aggregate_receipt(i)  == Whole(proc[i].by, FlattenSeq([k \in DOMAIN Packs |-> disk[Bundle(Packs[k])].turns]))
Document(i) ==
  LET path == proc[i].path
  IN CASE path[1] \in {"authorization", "estimate", "attempt"} -> basis_document(i)
       [] path = Aggregate                                     -> aggregate_receipt(i)
       [] path \in Range_(Failures)                            -> smoke_failure(i)
       [] path \in {Response, Receipt("smoke")}                -> smoke_document(i)
       [] OTHER                                                -> actual_receipt(i, path[2])

Write(i, path, after) ==
  IF exists(path) THEN refuse(i) /\ UNCHANGED dirs
  ELSE /\ dirs' = dirs \cup Directory(path)
       /\ proc' = [proc EXCEPT ![i].pc = "link", ![i].path = path, ![i].after = after, ![i].temporary = TRUE]

link_replaces(path) == TRUE
link(path) == ~exists(path)
Link(i) ==
  /\ at(i, "link")
  /\ IF link(proc[i].path)
     THEN /\ disk' = [disk EXCEPT ![proc[i].path] = Document(i)]
          /\ go(i, "unlink")
     ELSE refuse(i) /\ UNCHANGED disk
  /\ UNCHANGED <<dirs, litter, paid_vars, invocations, kills>>

Unlink(i) ==
  /\ at(i, "unlink")
  /\ proc' = [proc EXCEPT ![i].pc = proc[i].after, ![i].path = NoPath, ![i].after = "idle", ![i].temporary = FALSE]
  /\ UNCHANGED <<disk_vars, paid_vars, invocations, kills>>

-----------------------------------------------------------------------------
(* An invocation begins: budget, layout, and what is there already.        *)

Invoke(i) ==
  /\ at(i, "idle") /\ invocations < MaxInvocations
  /\ invocations' = invocations + 1
  /\ \E s \in Settings, resume \in BOOLEAN :
       IF prior_failure_holds(s) /\ within_estimate_budget(s.prior)
       THEN proc' = [proc EXCEPT ![i] = [Idle EXCEPT !.pc = "preflight", !.by = s.name, !.prior = s.prior, !.resume = resume]]
       ELSE UNCHANGED proc
  /\ UNCHANGED <<disk_vars, paid_vars, kills>>

(* An entry the layout does not know is refused, a temporary file too. *)
layout_holds == \A x \in temporaries : x[1] \in Range_(Report)

paid_evidence_exists ==
  \/ {"attempts", "bundles"} \cap dirs # {}
  \/ \E x \in {Attempt("smoke"), Response, Receipt("smoke")} \cup Range_(Failures) : exists(x)
authorization_holds(i) == agrees(Authorization, i) /\ (paid_evidence_exists => exists(Authorization))

(* Passing smoke evidence is loaded; no smoke at all is fine; anything     *)
(* in between is terminal.                                                 *)
smoke_passes(i) ==
  LET turns == disk[Response].turns
  IN /\ is_doc(Attempt("smoke"), i) /\ is_doc(Estimate("smoke"), i)
     /\ disk[Response] = Whole(proc[i].by, turns) /\ disk[Receipt("smoke")] = Whole(proc[i].by, turns)
     /\ smoke_is_valid(turns) /\ \A x \in Range_(Failures) : ~exists(x)
smoke_untouched(i) ==
  /\ agrees(Estimate("smoke"), i) /\ ~exists(Attempt("smoke"))
  /\ \A x \in {Response, Receipt("smoke")} \cup Range_(Failures) : ~exists(x)
  /\ {"attempts", "bundles"} \cap dirs = {}
Preflight(i) ==
  /\ at(i, "preflight")
  /\ IF layout_holds /\ authorization_holds(i) /\ (smoke_untouched(i) \/ (exists(Response) /\ smoke_passes(i)))
     THEN proc' = [proc EXCEPT ![i].pc = "packs?", ![i].smoke = disk[Response].turns]
     ELSE refuse(i)
  /\ UNCHANGED <<disk_vars, paid_vars, invocations, kills>>

(* One pack after the other: evidence that holds, or nothing at all. *)
pack_resumes(i, p) ==
  is_doc(Estimate(p), i) /\ is_doc(Attempt(p), i) /\ evidence_holds(i, p)
    /\ accounting_cost_upper_bound(disk[Bundle(p)].turns) < PackLimit
pack_untouched(i, p) ==
  /\ agrees(Estimate(p), i) /\ (proc[i].smoke # <<>> => exists(Estimate(p)))
  /\ ~exists(Attempt(p)) /\ ~exists(Bundle(p)) /\ p \notin dirs /\ ~exists(Receipt(p))
PreflightPacks(i) ==
  /\ at(i, "packs?")
  /\ IF "root" \notin dirs THEN proc' = [proc EXCEPT ![i].pc = "root", ![i].resume = FALSE]
     ELSE IF ~proc[i].resume THEN refuse(i)
     ELSE proc' = [proc EXCEPT ![i].pc = "pack?", ![i].at = 1, ![i].resume = FALSE]
  /\ UNCHANGED <<disk_vars, paid_vars, invocations, kills>>
PreflightPack(i) ==
  LET p == item(i)
      next == IF proc[i].at = Len(Packs) THEN [pc |-> "aggregate?", at |-> 0] ELSE [pc |-> "pack?", at |-> proc[i].at + 1]
      proceed(known) == proc' = [proc EXCEPT ![i].pc = next.pc, ![i].at = next.at,
                                             ![i].evidence = @ \cup known,
                                             ![i].reported = @ \cup (known \cap dirs),
                                             ![i].receipted = @ \cup {x \in known : exists(Receipt(x))}]
  IN /\ at(i, "pack?")
     /\ CASE pack_untouched(i, p) -> proceed({})
          [] ~pack_untouched(i, p) /\ exists(Bundle(p)) /\ pack_resumes(i, p) -> proceed({p})
          [] OTHER -> refuse(i)
     /\ UNCHANGED <<disk_vars, paid_vars, invocations, kills>>

PreflightAggregate(i) ==
  /\ at(i, "aggregate?")
  /\ IF exists(Aggregate) =>
          /\ proc[i].smoke # <<>> /\ proc[i].evidence = Range_(Packs)
          /\ proc[i].evidence \subseteq proc[i].reported \cap proc[i].receipted
     THEN go(i, "root") ELSE refuse(i)
  /\ UNCHANGED <<disk_vars, paid_vars, invocations, kills>>

-----------------------------------------------------------------------------
(* The root and every document a purchase refers to.                       *)

Documents == <<Authorization, Estimate("smoke")>> \o [k \in DOMAIN Packs |-> Estimate(Packs[k])]
MakeRoot(i) ==
  /\ at(i, "root")
  /\ dirs' = dirs \cup {"root"}
  /\ proc' = [proc EXCEPT ![i].pc = "documents", ![i].at = 0]
  /\ UNCHANGED <<disk, litter, paid_vars, invocations, kills>>

MaterializeEstimates(i) ==
  LET missing == {k \in DOMAIN Documents : ~exists(Documents[k])}
      seen == IF missing = {} THEN Range_(Documents) ELSE {Documents[k] : k \in 1..(Min(missing) - 1)}
  IN /\ at(i, "documents")
     /\ CASE \E x \in seen : ~is_doc(x, i) -> refuse(i) /\ UNCHANGED dirs
          [] missing # {} /\ (\A x \in seen : is_doc(x, i)) -> Write(i, Documents[Min(missing)], "documents")
          [] OTHER -> /\ go(i, IF proc[i].smoke = <<>> THEN "sandbox" ELSE "smoke!")
                      /\ UNCHANGED dirs
     /\ UNCHANGED <<disk, litter, paid_vars, invocations, kills>>

-----------------------------------------------------------------------------
(* A purchase: the sandbox starts, the attempt is published, and only then *)
(* is the agent asked.  What may raise in between ends the invocation.     *)

StartSandbox_and_calls(i) ==
  /\ at(i, "sandbox") /\ go(i, "call")
  /\ UNCHANGED <<disk_vars, paid_vars, invocations, kills>>
StartSandbox(i) ==
  /\ at(i, "sandbox")
  /\ Write(i, Attempt(item(i)), "call") \/ (refuse(i) /\ UNCHANGED dirs)
  /\ UNCHANGED <<disk, litter, paid_vars, invocations, kills>>

Buy(i, turn) ==
  /\ proc[i].turns = <<>> => bought' = [bought EXCEPT ![item(i)] = @ + 1]
  /\ proc[i].turns # <<>> => UNCHANGED bought
  /\ billed' = [billed EXCEPT ![item(i)] = @ + turn.billed]

CallSmoke(i) ==
  /\ at(i, "call") /\ proc[i].at = 0
  /\ \E reply \in Answers(Kinds["smoke"], SmokePack, 1) :
       LET turn == TurnOf(SmokePack, <<reply>>)
       IN Buy(i, turn) /\ proc' = [proc EXCEPT ![i].pc = "close", ![i].turns = <<turn>>]
  /\ UNCHANGED <<disk_vars, invocations, kills>>

(* The sandbox closes, or raises doing so; either way a smoke that does    *)
(* not pass leaves failure evidence, its response first if there was one.  *)
fails_smoke(i, response) ==
  Write(i, Failures[IF response THEN 1 ELSE 2], IF response THEN "failed" ELSE "idle")
CloseSmoke(i) ==
  /\ at(i, "close") /\ proc[i].at = 0
  /\ \/ smoke_is_valid(proc[i].turns) /\ Write(i, Response, "answered")
     \/ proc[i].turns[1].stored # <<>> /\ fails_smoke(i, TRUE)
     \/ proc[i].turns[1].stored = <<>> /\ \E response \in BOOLEAN : fails_smoke(i, response)
  /\ UNCHANGED <<disk, litter, paid_vars, invocations, kills>>
FailSmoke(i) ==
  /\ at(i, "failed") /\ Write(i, Failures[2], "idle")
  /\ UNCHANGED <<disk, litter, paid_vars, invocations, kills>>
PassSmoke(i) ==
  /\ at(i, "answered") /\ Write(i, Receipt("smoke"), "smoke!")
  /\ UNCHANGED <<disk, litter, paid_vars, invocations, kills>>
JudgeSmoke(i) ==
  LET turns == IF proc[i].smoke = <<>> THEN proc[i].turns ELSE proc[i].smoke
  IN /\ at(i, "smoke!")
     /\ IF smoke_estimate_holds(turns)
        THEN proc' = [proc EXCEPT ![i].pc = "loop", ![i].at = 1, ![i].smoke = turns, ![i].turns = <<>>]
        ELSE refuse(i)
     /\ UNCHANGED <<disk_vars, paid_vars, invocations, kills>>

-----------------------------------------------------------------------------
(* The loop over the packs.                                                *)

may_start(i, p) == remaining_bound(i) < MatrixLimit /\ ~exists(Bundle(p))
Loop(i) ==
  LET p == item(i)
  IN /\ at(i, "loop") /\ proc[i].at <= Len(Packs)
     /\ CASE p \in proc[i].evidence -> go(i, "reports") /\ UNCHANGED dirs
          [] p \notin proc[i].evidence /\ may_start(i, p) -> go(i, "sandbox") /\ dirs' = dirs \cup {"bundles"}
          [] OTHER -> refuse(i) /\ UNCHANGED dirs
     /\ UNCHANGED <<disk, litter, paid_vars, invocations, kills>>

(* A turn of the episode; it may also raise, or end early (liquidation).   *)
CallTurn(i) ==
  LET p == item(i)
  IN /\ at(i, "call") /\ proc[i].at > 0 /\ Len(proc[i].turns) < TurnsOf[p]
     /\ \E observation \in Observed[p] : \E turn \in Turns(Kinds[p], observation) :
          Buy(i, turn) /\ proc' = [proc EXCEPT ![i].turns = Append(@, turn)]
     /\ UNCHANGED <<disk_vars, invocations, kills>>
EpisodeRaises(i) ==
  /\ at(i, "call") /\ proc[i].at > 0 /\ proc[i].turns # <<>> /\ refuse(i)
  /\ UNCHANGED <<disk_vars, paid_vars, invocations, kills>>
Record(i) ==
  /\ at(i, "call") /\ proc[i].at > 0 /\ proc[i].turns # <<>>
  /\ disk' = [disk EXCEPT ![Bundle(item(i))] = [by |-> proc[i].by, state |-> "partial", turns |-> proc[i].turns]]
  /\ go(i, "seal")
  /\ UNCHANGED <<dirs, litter, paid_vars, invocations, kills>>
Seal(i) ==
  /\ at(i, "seal")
  /\ disk' = [disk EXCEPT ![Bundle(item(i))].state = "whole"]
  /\ go(i, "close")
  /\ UNCHANGED <<dirs, litter, paid_vars, invocations, kills>>

ClosePack(i) ==
  /\ at(i, "close") /\ proc[i].at > 0
  /\ \/ refuse(i)                                         \* close raises
     \/ ~evidence_holds(i, item(i)) /\ refuse(i)
     \/ /\ evidence_holds(i, item(i))
        /\ proc' = [proc EXCEPT ![i].pc = "reports", ![i].turns = <<>>, ![i].fresh = TRUE,
                                ![i].evidence = @ \cup {item(i)},
                                ![i].reported = @ \cup ({item(i)} \cap dirs),
                                ![i].receipted = @ \cup {x \in {item(i)} : exists(Receipt(x))}]
  /\ UNCHANGED <<disk_vars, paid_vars, invocations, kills>>

(* _materialize_pack_evidence: a report directory nobody else began, its   *)
(* three files, the receipt; then the checks a next purchase depends on.   *)
BeginReports(i) ==
  LET p == item(i)
  IN /\ at(i, "reports")
     /\ IF p \in proc[i].reported THEN go(i, "receipt") /\ UNCHANGED dirs
        ELSE IF p \in dirs THEN refuse(i) /\ UNCHANGED dirs
        ELSE Write(i, Reports(p)[1], "reported")
     /\ UNCHANGED <<disk, litter, paid_vars, invocations, kills>>
NextReport(i) ==
  LET missing == {k \in DOMAIN Report : ~exists(Reports(item(i))[k])}
  IN /\ at(i, "reported")
     /\ IF missing = {} THEN go(i, "receipt") /\ UNCHANGED dirs
        ELSE Write(i, Reports(item(i))[Min(missing)], "reported")
     /\ UNCHANGED <<disk, litter, paid_vars, invocations, kills>>
WriteReceipt(i) ==
  /\ at(i, "receipt")
  /\ IF item(i) \in proc[i].receipted THEN go(i, "judge") /\ UNCHANGED dirs
     ELSE Write(i, Receipt(item(i)), "judge")
  /\ UNCHANGED <<disk, litter, paid_vars, invocations, kills>>

within_limits(i, p) ==
  /\ accounted(p) < PackLimit
  /\ proc[i].prior + known_cost(proc[i].smoke) + sum_of(accounted, proc[i].evidence) < MatrixLimit
judged_by_limits_alone(i, p) == proc[i].fresh => within_limits(i, p)
judged_good(i, p) == pack_estimate_holds(p) /\ (proc[i].fresh => within_limits(i, p))
Judge(i) ==
  /\ at(i, "judge")
  /\ IF judged_good(i, item(i))
     THEN proc' = [proc EXCEPT ![i].pc = "loop", ![i].at = @ + 1, ![i].fresh = FALSE]
     ELSE refuse(i)
  /\ UNCHANGED <<disk_vars, paid_vars, invocations, kills>>

Finish(i) ==
  /\ at(i, "loop") /\ proc[i].at > Len(Packs)
  /\ IF exists(Aggregate) THEN refuse(i) /\ UNCHANGED dirs ELSE Write(i, Aggregate, "idle")
  /\ UNCHANGED <<disk, litter, paid_vars, invocations, kills>>

-----------------------------------------------------------------------------
(* A process dies (killed, interrupted); its temporary file may stay.      *)
Dies(i) ==
  /\ ~at(i, "idle") /\ kills < MaxKills
  /\ kills' = kills + 1
  /\ litter' \in {litter, litter \cup {x \in {proc[i].path} : proc[i].temporary}}
  /\ refuse(i)
  /\ UNCHANGED <<disk, dirs, paid_vars, invocations>>

Step(i) ==
  \/ Link(i) \/ Unlink(i)
  \/ Preflight(i) \/ PreflightPacks(i)
  \/ PreflightPack(i) \/ PreflightAggregate(i) \/ MakeRoot(i) \/ MaterializeEstimates(i)
  \/ StartSandbox(i) \/ CallSmoke(i) \/ CloseSmoke(i) \/ FailSmoke(i) \/ PassSmoke(i) \/ JudgeSmoke(i)
  \/ Loop(i) \/ CallTurn(i) \/ EpisodeRaises(i) \/ Record(i) \/ Seal(i) \/ ClosePack(i)
  \/ BeginReports(i) \/ NextReport(i) \/ WriteReceipt(i) \/ Judge(i) \/ Finish(i)
Next == \E i \in Procs : Invoke(i) \/ Step(i) \/ Dies(i)
Spec == Init /\ [][Next]_vars

-----------------------------------------------------------------------------

(* No call or episode is ever paid for twice, whatever is killed, resumed  *)
(* or started twice: the attempt receipt decides.                          *)
BoughtOnce == \A x \in Items : bought[x] <= 1

(* What was bought was on record first: the authorization, every estimate, *)
(* its attempt, and for a pack the passing smoke.                          *)
PaidOnRecord ==
  \A x \in Items : bought[x] > 0 =>
     /\ \A d \in Range_(Documents) \cup {Attempt(x)} : exists(d)
     /\ x # "smoke" => exists(Receipt("smoke"))

(* All the evidence under one root was computed from the same settings. *)
OneBasis == Cardinality({disk[x].by : x \in {y \in Paths : exists(y)}}) <= 1

(* A receipt never accounts for less than the provider billed.             *)
true_cost(x) == ceil_div(billed[x], Quantum)
AccountsCoverTheBills ==
  /\ \A p \in Range_(Packs) : exists(Receipt(p)) => billed[p] <= Quantum * accounted(p)
  /\ exists(Receipt("smoke")) => true_cost("smoke") = known_cost(disk[Response].turns)

(* The evidence under one root is the whole account of one set of settings: *)
(* each purchase is there before its bill, once, and at no less than it.   *)
SpendingIsOnRecord == BoughtOnce /\ PaidOnRecord /\ OneBasis /\ AccountsCoverTheBills

(* What was bought proved good: it is complete, derived, within its        *)
(* authorization and its estimate.                                         *)
proved_good(x) ==
  IF x = "smoke" THEN exists(Receipt(x)) /\ smoke_estimate_holds(disk[Response].turns)
  ELSE /\ exists(Receipt(x)) /\ reports_are_whole(x)
       /\ accounted(x) <= authorization(x) /\ pack_estimate_holds(x)

(* The aggregate exists only when everything was bought, once, and proved  *)
(* good.                                                                   *)
AggregateIsComplete ==
  exists(Aggregate) => \A x \in Items : bought[x] = 1 /\ proved_good(x)

(* And then the bills were, each, within a factor of two of its estimate   *)
(* and, in all, below the matrix limit.                                    *)
AggregateIsEarned ==
  /\ AggregateIsComplete
  /\ exists(Aggregate) =>
       /\ \A x \in Items : within_two_x(estimate(x), true_cost(x))
       /\ \A s \in Settings : s.name = disk[Aggregate].by => s.prior + sum_of(true_cost, Items) < MatrixLimit

(* When something is bought, what was billed so far, in this run and in the *)
(* failed one it carries, and all that is still authorized stay below the  *)
(* matrix limit.                                                           *)
unbought == {x \in Items : bought[x] = 0}
carried(s) ==
  CASE s.receipt = <<>> -> 0
    [] s.receipt # <<>> /\ s.receipt[1].linked = <<>> -> Quantum * s.receipt[1].reserve
    [] OTHER -> Quantum * s.receipt[1].linked[1].prior + s.receipt[1].linked[1].answer.billed
PurchaseWithinBudget ==
  [][bought' # bought => \A i \in Procs, s \in Settings : proc[i] # proc'[i] /\ s.name = proc[i].by =>
       carried(s) + sum_of(LAMBDA x : billed[x], Items) + Quantum * sum_of(authorization, unbought)
         < Quantum * MatrixLimit]_vars

(* Nothing is bought before all that was bought earlier proved good. *)
PurchasesFollowGoodOnes ==
  [][bought' # bought => \A x \in Items : bought[x] > 0 => proved_good(x)]_vars

(* A purchase is made only with room for it and after good ones.           *)
PurchasesAreJustified == PurchaseWithinBudget /\ PurchasesFollowGoodOnes

(* A file that was published is never changed; a bundle only completes. *)
Immutable ==
  [][\A x \in Paths : exists(x) =>
       disk'[x] = disk[x] \/ (disk[x].state = "partial" /\ disk'[x] = [disk[x] EXCEPT !.state = "whole"])]_vars
=============================================================================
