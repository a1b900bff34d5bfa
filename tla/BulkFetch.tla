------------------------------ MODULE BulkFetch ------------------------------
(***************************************************************************)
(* The download of a pack's source archives (data/binance.py) into a raw   *)
(* directory that outlives the process and that other processes use too:   *)
(* each archive and then its .CHECKSUM is skipped when it is there, or is  *)
(* read into <name>.part, resumed from what that file holds, and renamed.  *)
(*                                                                         *)
(* Names and bytes are apart, as on a disk: an open .part that another     *)
(* process renames is from then on the installed file.  The bytes of a     *)
(* file are a sequence of blocks; a block is known by the published        *)
(* version it comes from and its place in it.                              *)
(***************************************************************************)
EXTENDS Naturals, FiniteSets, Sequences, SequencesExt

CONSTANTS
  Procs,        \* processes that fetch
  Archives,     \* the archives of the pack, in catalog order
  Cached,       \* the archives that earlier runs have left in the raw directory
  Retries,      \* retries of one download
  MaxPublishes, \* bound: times an archive is published anew
  MaxMishaps    \* bound: what goes wrong, or is published anew, in all

ASSUME BulkAssumption ==
  /\ Archives \in Seq(ToSet(Archives))
  /\ Cached \subseteq ToSet(Archives)
  /\ Retries \in Nat /\ MaxPublishes \in Nat /\ MaxMishaps \in Nat

VARIABLES
  upstream, \* the published version of each archive
  store,    \* the installed files: their inodes, 0 for none
  part,     \* the .part files: their inodes, 0 for none
  inode,    \* the bytes of every inode made
  fetch,    \* where each process is in its downloads
  mishaps,  \* what went wrong, or was published anew, so far
  odd       \* history: files whose bytes nothing checks (see Excused)

bulk_vars == <<upstream, store, part, inode, fetch, mishaps, odd>>

Files == {[of |-> a, is |-> k] : a \in ToSet(Archives), k \in {"zip", "CHECKSUM"}}
Size(f) == IF f.is = "zip" THEN 2 ELSE 1

(* A version of a file as Binance publishes it; a hole reads as zeros. *)
Block(v, i) == [of |-> v, at |-> i]
Hole == Block(0, 0)
Body(f, v) == [i \in 1..Size(f) |-> Block(v, i)]

bytes(id) == IF id = 0 THEN <<>> ELSE inode[id]

no_answer == [of |-> 0, next |-> 0, sized |-> TRUE, append |-> FALSE]
idle == [pc |-> "idle", todo |-> <<>>, tries |-> 0, offset |-> 0, answer |-> no_answer, file |-> 0, at |-> 0]

(* fetch_archive for every archive: the zip, then its checksum. *)
all_files == [i \in 1..(2 * Len(Archives)) |->
                [of |-> Archives[(i + 1) \div 2], is |-> IF i % 2 = 1 THEN "zip" ELSE "CHECKSUM"]]
begun == [idle EXCEPT !.pc = "look", !.todo = all_files]

current(p) == Head(fetch[p].todo)

(* Earlier runs have left some archives, whole. *)
BulkInit ==
  /\ upstream = [a \in ToSet(Archives) |-> 1]
  /\ LET files == SetToSeq({f \in Files : f.of \in Cached})
     IN /\ inode = [i \in DOMAIN files |-> Body(files[i], 1)]
        /\ store = [f \in Files |-> IF f.of \in Cached THEN CHOOSE i \in DOMAIN files : files[i] = f ELSE 0]
  /\ part = [f \in Files |-> 0]
  /\ fetch = [p \in Procs |-> idle]
  /\ mishaps = 0 /\ odd = {}

-----------------------------------------------------------------------------
At(p, at) == fetch[p].pc = at
Goto(p, changes) == fetch' = [fetch EXCEPT ![p] = changes]
Go(p, at) == Goto(p, [fetch[p] EXCEPT !.pc = at])
Mishap == mishaps < MaxMishaps /\ mishaps' = mishaps + 1

(* Between looking at a .part and renaming it, a process takes it for its own. *)
busy(p, f) == fetch[p].pc \in {"answer", "open", "body", "install"} /\ current(p) = f

(* The error of an attempt: the next attempt, or DownloadError. *)
again(r) ==
  IF r.tries = Retries THEN [idle EXCEPT !.pc = "failed"]
  ELSE [idle EXCEPT !.pc = "ask", !.todo = r.todo, !.tries = r.tries + 1]
Again(p) == Goto(p, again(fetch[p]))

(* download: a file that is there is never looked at again. *)
Look(p) ==
  /\ At(p, "look")
  /\ Goto(p, CASE fetch[p].todo = <<>> -> [fetch[p] EXCEPT !.pc = "fetched"]
               [] fetch[p].todo # <<>> /\ store[current(p)] # 0 -> [fetch[p] EXCEPT !.todo = Tail(@)]
               [] OTHER -> [fetch[p] EXCEPT !.pc = "ask"])
  /\ UNCHANGED <<upstream, store, part, inode, mishaps, odd>>

(* The range to ask for is what .part holds now. *)
Ask(p) ==
  /\ At(p, "ask")
  /\ Goto(p, [fetch[p] EXCEPT !.pc = "answer", !.offset = Len(bytes(part[current(p)]))])
  /\ odd' = odd \cup {f \in {current(p)} : \E q \in Procs \ {p} : busy(q, f)}
  /\ UNCHANGED <<upstream, store, part, inode, mishaps>>

Accept_appends(p, append, sized) ==
  Goto(p, [fetch[p] EXCEPT !.pc = "open", !.offset = 0,
             !.answer = [of |-> upstream[current(p).of], next |-> IF append THEN fetch[p].offset + 1 ELSE 1,
                         sized |-> sized, append |-> TRUE]])

(* Accepted with status 200, from the start, or 206, from the offset. *)
Accept(p, append, sized) ==
  Goto(p, [fetch[p] EXCEPT !.pc = "open", !.offset = 0,
             !.answer = [of |-> upstream[current(p).of], next |-> IF append THEN fetch[p].offset + 1 ELSE 1,
                         sized |-> sized, append |-> append]])

(* The server: all of the file, or the range asked for, or, where the file *)
(* has none, no such range; Content-Length may be missing.  A range is     *)
(* served without asking which version the first bytes were of.            *)
Answer(p) ==
  /\ At(p, "answer")
  /\ LET offset == fetch[p].offset
         in_range == offset < Size(current(p))
     IN \/ \E append \in {FALSE, offset > 0 /\ in_range} : \/ Accept(p, append, TRUE) /\ UNCHANGED mishaps
                                                           \/ Accept(p, append, FALSE) /\ Mishap
        \/ ~in_range /\ Go(p, "failed") /\ UNCHANGED mishaps
  /\ UNCHANGED <<upstream, store, part, inode, odd>>

(* No answer, a status to retry on, or the range of another request. *)
AnswerFails(p) ==
  /\ At(p, "answer") /\ Mishap /\ Again(p)
  /\ UNCHANGED <<upstream, store, part, inode, odd>>

(* A status that is not retried. *)
AnswerRefuses(p) ==
  /\ At(p, "answer") /\ Mishap /\ Go(p, "failed")
  /\ UNCHANGED <<upstream, store, part, inode, odd>>

(* part_path.open: "wb" empties the file it finds, "ab" keeps it. *)
Open(p) ==
  /\ At(p, "open")
  /\ LET f == current(p)
         answer == fetch[p].answer
         id == IF part[f] = 0 THEN Len(inode) + 1 ELSE part[f]
         kept == IF answer.append THEN bytes(part[f]) ELSE <<>>
     IN /\ part' = [part EXCEPT ![f] = id]
        /\ inode' = IF id > Len(inode) THEN Append(inode, kept) ELSE [inode EXCEPT ![id] = kept]
        /\ odd' = IF \E i \in DOMAIN kept : kept[i].of # answer.of THEN odd \cup {f} ELSE odd
        /\ Goto(p, [fetch[p] EXCEPT !.pc = "body", !.file = id, !.at = 0])
  /\ UNCHANGED <<upstream, store, mishaps>>

(* A file written at a place past its end has a hole before it. *)
written(old, at, block) ==
  [i \in 1..(IF at > Len(old) THEN at ELSE Len(old)) |->
     IF i = at THEN block ELSE IF i > Len(old) THEN Hole ELSE old[i]]

(* One chunk, at the end of the file for "ab", at the writer's own place for "wb". *)
Write(p) ==
  /\ At(p, "body")
  /\ LET r == fetch[p]
         at == IF r.answer.append THEN Len(inode[r.file]) + 1 ELSE r.at + 1
     IN /\ r.answer.next <= Size(current(p))
        /\ inode' = [inode EXCEPT ![r.file] = written(@, at, Block(r.answer.of, r.answer.next))]
        /\ Goto(p, [r EXCEPT !.answer.next = @ + 1, !.at = at])
  /\ UNCHANGED <<upstream, store, part, mishaps, odd>>

body_ended_unchecked(r, complete) == [idle EXCEPT !.pc = "install", !.todo = r.todo, !.tries = r.tries]

(* What is done when the body ends: complete, when no length was promised  *)
(* or as much came as was; else tried again.                               *)
body_ended(r, complete) ==
  IF complete \/ ~r.answer.sized THEN [idle EXCEPT !.pc = "install", !.todo = r.todo, !.tries = r.tries] ELSE again(r)

EndBody(p) ==
  /\ At(p, "body") /\ fetch[p].answer.next > Size(current(p))
  /\ Goto(p, body_ended(fetch[p], TRUE))
  /\ UNCHANGED <<upstream, store, part, inode, mishaps, odd>>

(* The connection closes early; without a length nobody can tell. *)
CutBody(p) ==
  /\ At(p, "body") /\ fetch[p].answer.next <= Size(current(p))
  /\ Mishap
  /\ Goto(p, body_ended(fetch[p], FALSE))
  /\ odd' = IF fetch[p].answer.sized THEN odd ELSE odd \cup {current(p)}
  /\ UNCHANGED <<upstream, store, part, inode>>

(* part_path.replace(destination); a .part that is gone is an OSError. *)
Install(p) ==
  /\ At(p, "install")
  /\ LET f == current(p)
     IN IF part[f] = 0 THEN Again(p) /\ UNCHANGED <<store, part>>
        ELSE /\ store' = [store EXCEPT ![f] = part[f]]
             /\ part' = [part EXCEPT ![f] = 0]
             /\ Goto(p, [idle EXCEPT !.pc = "look", !.todo = Tail(fetch[p].todo)])
  /\ UNCHANGED <<upstream, inode, mishaps, odd>>

(* Binance publishes an archive and its checksum anew. *)
Publish ==
  /\ Mishap
  /\ \E a \in DOMAIN upstream :
       /\ upstream[a] <= MaxPublishes
       /\ upstream' = [upstream EXCEPT ![a] = @ + 1]
  /\ UNCHANGED <<store, part, inode, fetch, odd>>

Downloading(p) ==
  \/ Look(p) \/ Ask(p) \/ Answer(p) \/ AnswerFails(p) \/ AnswerRefuses(p)
  \/ Open(p) \/ Write(p) \/ EndBody(p) \/ CutBody(p) \/ Install(p)

-----------------------------------------------------------------------------
(* verify_archive: the checksum file has one line, and it is of the bytes  *)
(* of the archive.                                                         *)
installed(a, is) == bytes(store[[of |-> a, is |-> is]])
holds(a, v) ==
  /\ installed(a, "zip") = Body([of |-> a, is |-> "zip"], v)
  /\ installed(a, "CHECKSUM") = Body([of |-> a, is |-> "CHECKSUM"], v)
verified(a) == \E v \in 1..(MaxPublishes + 1) : holds(a, v)
version(a) == CHOOSE v \in 1..(MaxPublishes + 1) : holds(a, v)

(* What a raw file holds is what was published once, whole, however often  *)
(* its download was cut off, retried, killed and resumed: unless a reply   *)
(* without a length was cut, a new version was appended to the start of an *)
(* old one, or two processes downloaded it at once.  The code has no guard *)
(* against these three; the checksum refuses their result, for good.       *)
Excused(f) == f \in odd
CacheIsAsPublished ==
  \A f \in Files : store[f] # 0 /\ ~Excused(f) =>
    \E v \in 1..(MaxPublishes + 1) : bytes(store[f]) = Body(f, v)
=============================================================================
