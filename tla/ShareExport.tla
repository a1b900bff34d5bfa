----------------------------- MODULE ShareExport -----------------------------
(***************************************************************************)
(* create_share_bundle (recorder/redaction.py): a complete bundle is copied*)
(* entry by entry and the raw model texts are taken out of the copy, which *)
(* then discloses what is missing in redaction.json.  The export may die   *)
(* between any two steps and be tried again, and the parent bundle may be  *)
(* edited while the export reads it: it is verified, read once more for    *)
(* its commitments, listed and then copied, without a lock.                *)
(*                                                                         *)
(* A directory holds the record of a run, everything under the seal as one *)
(* entry; its raw texts; and a redaction.json outside the seal, which may  *)
(* have been written by hand, for some of the texts.  An entry is known by *)
(* the run it belongs to; it may also be a symlink, and there may be a raw *)
(* file that no event commits to.                                          *)
(***************************************************************************)
EXTENDS Naturals, FiniteSets

CONSTANTS
  Raws,      \* names of the committed raw texts
  Run, Rerun,\* the run of the parent and another one edited in
  MaxEdits,  \* bound: edits of the parent
  MaxTries   \* bound: exports begun

(* Entries and what may be found there. *)
Uncommitted == "uncommitted"
Texts   == Raws \cup {Uncommitted}
Entries == {"record"} \cup Texts

Contents == {Run, Rerun, "spoiled", "link", "none"}

ASSUME ShareAssumption ==
  /\ Raws # {} /\ Raws \cap {"record", Uncommitted, "redaction", "raw"} = {}
  /\ Run # Rerun /\ {Run, Rerun} \cap {"spoiled", "link", "none"} = {}
  /\ MaxEdits \in Nat /\ MaxTries \in Nat

(* A redaction.json: which texts it discloses, of which bundle, in which    *)
(* form, and (a history) whether the export wrote it or somebody by hand.   *)
Document(names, run, parent_root, form, by) ==
  [names |-> names, run |-> run, parent_root |-> parent_root, form |-> form, by |-> by]

Spoiled == Document({}, "none", "none", "spoiled", "hand")
Link    == Document({}, "none", "none", "link", "hand")
ByHand  == {Document(names, run, run, "whole", "hand") :
              names \in SUBSET Raws \ {{}}, run \in {Run, Rerun}} \cup {Spoiled, Link}

VARIABLES
  parent,    \* the entries of the parent bundle
  notice,    \* its redaction.json: the document, or nothing
  edits,     \* edits so far
  target,    \* the entries of the copy
  redaction, \* its redaction.json
  pc,        \* where the export is
  tries,     \* exports begun
  root,      \* the root the verifier returned for the parent
  removals,  \* committed raw texts, of which run
  listed,    \* what copytree has found in the directories and not yet copied
  errors,    \* copytree: something could not be copied
  left       \* raw texts still to be removed

copy_vars  == <<target, redaction, listed, errors>>
share_vars == <<parent, notice, edits, pc, tries, root, removals, left, copy_vars>>

empty == [e \in Entries |-> "none"]

(* A directory without anything in it counts as none. *)
exists == target # empty \/ redaction # {}

(* The parent is the bundle of a run, or a share of one. *)
ShareInit ==
  /\ \/ /\ parent = [e \in Entries |-> IF e = Uncommitted THEN "none" ELSE Run]
        /\ notice = {}
     \/ /\ parent = [e \in Entries |-> IF e = "record" THEN Run ELSE "none"]
        /\ notice = {Document(Raws, Run, Run, "whole", "export")}
  /\ edits = 0
  /\ target = empty /\ redaction = {} /\ listed = {} /\ errors = FALSE
  /\ pc = "idle" /\ tries = 0 /\ root = "none"
  /\ removals = [names |-> {}, run |-> "none"] /\ left = {}

-----------------------------------------------------------------------------
(* verify_bundle of a directory: a raw text is there as committed, or its   *)
(* absence is disclosed under the root; nothing else is there.              *)

(* _redactions: the document of a sealed bundle, or none. *)
disclosed(document) == UNION {d.names : d \in document}

redaction_holds(dir, document) ==
  \A d \in document :
    /\ d.form = "whole"
    /\ d.parent_root = dir.record /\ d.run = dir.record
    /\ \A n \in d.names : dir[n] = "none"

blobs_hold_undisclosed(dir, document) ==
  (\A n \in Raws : dir[n] \in {"none", dir.record}) /\ dir[Uncommitted] = "none"
(* _verify_blobs *)
blobs_hold(dir, document) ==
  /\ \A n \in Raws : IF dir[n] = "none" THEN n \in disclosed(document)
                                        ELSE dir[n] = dir.record
  /\ dir[Uncommitted] = "none"

is_complete_whatever_else_is_there(dir, document) ==
  /\ dir.record \in {Run, Rerun}
  /\ redaction_holds(dir, document)
  /\ \A n \in Raws : dir[n] = "none" \/ dir[n] = dir.record
is_complete(dir, document) ==
  /\ dir.record \in {Run, Rerun}
  /\ redaction_holds(dir, document)
  /\ blobs_hold(dir, document)

-----------------------------------------------------------------------------
(* create_share_bundle. *)

Fail ==
  /\ pc' = "failed" /\ left' = {} /\ listed' = {} /\ errors' = FALSE
  /\ UNCHANGED <<target, redaction, root, removals>>

(* The destination must be new; the parent must verify. *)
refused == exists \/ ~is_complete(parent, notice)

Begin ==
  /\ pc \in {"idle", "failed"} /\ tries < MaxTries
  /\ tries' = tries + 1
  /\ IF refused
     THEN Fail
     ELSE /\ root' = parent.record
          /\ pc' = "verified"
          /\ UNCHANGED <<removals, left, copy_vars>>
  /\ UNCHANGED <<parent, notice, edits>>

(* chain.json read again must have the root the verifier saw. *)
ReadSeal ==
  /\ pc = "verified"
  /\ IF parent.record = root
     THEN pc' = "read" /\ UNCHANGED <<root, removals, left, copy_vars>>
     ELSE Fail
  /\ UNCHANGED <<parent, notice, edits, tries>>

(* _raw_commitments: every raw text is there, regular and as committed.     *)
Commitments ==
  /\ pc = "read"
  /\ IF /\ parent.record \in {Run, Rerun}
        /\ \A n \in Raws : parent[n] = parent.record
        /\ parent[Uncommitted] = "none"
     THEN /\ removals' = [names |-> Raws, run |-> parent.record]
          /\ pc' = "committed"
          /\ UNCHANGED <<root, left, copy_vars>>
     ELSE Fail
  /\ UNCHANGED <<parent, notice, edits, tries>>

(* What a listing shows of an entry: there, and a file or a link. *)
KindOf(content) == IF content \in {"link", "none"} THEN content ELSE "file"
KindNow(name) ==
  IF name = "redaction"
  THEN IF notice = {} THEN "none" ELSE IF notice = {Link} THEN "link" ELSE "file"
  ELSE KindOf(parent[name])

Listing(names) == {[name |-> n, kind |-> KindNow(n)] : n \in {m \in names : KindNow(m) # "none"}}

RawDirectory == [name |-> "raw", kind |-> "directory"]

(* copytree lists a directory before it copies anything of it. *)
ListBundle ==
  /\ pc = "committed"
  /\ listed' = Listing({"record", "redaction"}) \cup {RawDirectory}
  /\ pc' = "copying"
  /\ UNCHANGED <<parent, notice, edits, target, redaction, tries, root, removals, errors, left>>

ListRaw ==
  /\ pc = "copying" /\ RawDirectory \in listed
  /\ listed' = (listed \ {RawDirectory}) \cup Listing(Texts)
  /\ UNCHANGED <<parent, notice, edits, target, redaction, pc, tries, root, removals, errors, left>>

Place(name, content, document) ==
  IF name = "redaction" THEN redaction' = document /\ UNCHANGED target
                        ELSE target' = [target EXCEPT ![name] = content] /\ UNCHANGED redaction

(* As listed, so copied, a link as a link.  But copy2 follows a link that   *)
(* took the place of a listed file, and a file may be cut short or change   *)
(* while it is read: what is then in the copy is not as committed.  What    *)
(* is gone, or no link any more, or can not be copied, is an error kept     *)
(* for the end.                                                             *)
CopyEntry ==
  /\ pc = "copying"
  /\ \E e \in listed \ {RawDirectory} :
       /\ listed' = listed \ {e}
       /\ \/ /\ e.kind = KindNow(e.name)
             /\ Place(e.name, IF e.name \in Entries THEN parent[e.name] ELSE "none", notice)
             /\ UNCHANGED errors
          \/ /\ e.kind = "file" /\ KindNow(e.name) # "none"
             /\ Place(e.name, "spoiled", {Spoiled})
             /\ errors' \in {errors, TRUE}
          \/ errors' = TRUE /\ UNCHANGED <<target, redaction>>
  /\ UNCHANGED <<parent, notice, edits, pc, tries, root, removals, left>>

(* copytree raises what it kept. *)
Copied ==
  /\ pc = "copying" /\ listed = {}
  /\ IF errors
     THEN Fail
     ELSE /\ left' = removals.names
          /\ pc' = "removing"
          /\ UNCHANGED <<root, removals, copy_vars>>
  /\ UNCHANGED <<parent, notice, edits, tries>>

(* "copied raw blob is not a regular file" *)
Remove ==
  /\ pc = "removing" /\ left # {}
  /\ \E n \in left :
       IF target[n] \in {"none", "link"}
       THEN Fail
       ELSE /\ target' = [target EXCEPT ![n] = "none"]
            /\ left' = left \ {n}
            /\ UNCHANGED <<redaction, pc, root, removals, listed, errors>>
  /\ UNCHANGED <<parent, notice, edits, tries>>

(* write_bytes: over a document that was copied, or through a link that was;*)
(* in place, so a reader or a crash may find a part of it.                  *)
Written(form) ==
  IF redaction = {Link} THEN redaction
  ELSE {Document(removals.names, removals.run, root, form, "export")}

OpenRedaction ==
  /\ pc = "removing" /\ left = {}
  /\ redaction' = Written("spoiled")
  /\ pc' = "disclosing"
  /\ UNCHANGED <<parent, notice, edits, target, tries, root, removals, listed, errors, left>>

WriteRedaction ==
  /\ pc = "disclosing"
  /\ redaction' = Written("whole")
  /\ pc' = "disclosed"
  /\ UNCHANGED <<parent, notice, edits, target, tries, root, removals, listed, errors, left>>

(* The copy must verify, under the same root. *)
Return ==
  /\ pc = "disclosed"
  /\ IF is_complete(target, redaction) /\ target.record = root
     THEN pc' = "returned" /\ UNCHANGED <<root, removals, left, copy_vars>>
     ELSE Fail
  /\ UNCHANGED <<parent, notice, edits, tries>>

-----------------------------------------------------------------------------
(* Around it. *)

Exporting == pc \notin {"idle", "failed", "returned"}

(* A system call raises or the process dies: the copy stays as it is. *)
Dies ==
  /\ Exporting
  /\ Fail
  /\ UNCHANGED <<parent, notice, edits, tries>>

Edit ==
  /\ edits < MaxEdits
  /\ edits' = edits + 1
  /\ \/ \E e \in Entries :
          \E content \in (IF e = "record" THEN {Rerun, "spoiled"}
                          ELSE IF e = Uncommitted THEN {"spoiled"}
                          ELSE {Rerun, "spoiled", "link", "none"}) :
            /\ content # parent[e]
            /\ parent' = [parent EXCEPT ![e] = content]
            /\ UNCHANGED notice
     \/ /\ notice' \in {{}} \cup {{d} : d \in ByHand}
        /\ notice' # notice
        /\ UNCHANGED parent
  /\ UNCHANGED <<pc, tries, root, removals, left, copy_vars>>

(* Somebody clears the destination after a failed export. *)
ClearTarget ==
  /\ pc = "failed" /\ exists
  /\ target' = empty /\ redaction' = {}
  /\ UNCHANGED <<parent, notice, edits, pc, tries, root, removals, listed, errors, left>>

ShareOver == ~Exporting /\ UNCHANGED share_vars

ShareNext ==
  \/ Begin \/ ReadSeal \/ Commitments \/ ListBundle \/ ListRaw \/ CopyEntry \/ Copied
  \/ Remove \/ OpenRedaction \/ WriteRedaction \/ Return
  \/ Dies \/ Edit \/ ClearTarget \/ ShareOver

ShareSpec == ShareInit /\ [][ShareNext]_share_vars

-----------------------------------------------------------------------------
(* Properties. *)

texts(dir) == {n \in Texts : dir[n] # "none"}

(***************************************************************************)
(* What the export returned holds no model text, keeps the root of the     *)
(* bundle that was verified and says of every text, in its own words, that *)
(* it was removed, however the parent was edited meanwhile.                *)
(***************************************************************************)
ReturnedShareIsClean ==
  pc = "returned" =>
    /\ texts(target) = {}
    /\ target.record = root
    /\ disclosed(redaction) = Raws /\ redaction_holds(target, redaction)
    /\ \A d \in redaction : d.by = "export"

(***************************************************************************)
(* Whatever an export that died has left at the destination, what verifies *)
(* there as COMPLETE is the parent whole or the share without any text; a  *)
(* bundle redacted in part is never of the export's making: it shows the   *)
(* document somebody put into the parent by hand, and copytree copied it.  *)
(***************************************************************************)
CompleteIsAllOrNothing ==
  is_complete(target, redaction) =>
    \/ redaction = {} /\ texts(target) = Raws
    \/ disclosed(redaction) = Raws /\ texts(target) = {}
    \/ \E d \in ByHand : redaction = {d} /\ texts(target) = Raws \ d.names

(***************************************************************************)
(* What an export returns is clean, and what passes for a complete bundle  *)
(* where one has died is whole or clean, or was disclosed by hand before.  *)
(***************************************************************************)
ShareIsWholeOrClean == ReturnedShareIsClean /\ CompleteIsAllOrNothing

=============================================================================
