---------------------------- MODULE MCShareExport ----------------------------
(* Two raw texts, three edits of the parent and two tries. *)
EXTENDS ShareExport, TLC

RawSymmetry == Permutations(Raws)
=============================================================================
