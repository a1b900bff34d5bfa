-------------------------- MODULE MCPackAcquisition --------------------------
(* Two processes, a pack of two archives, one of them perhaps downloaded. *)
EXTENDS PackAcquisition

CONSTANTS p1, p2, trade, funding

MCArchives == <<trade, funding>>

(* No definition tells the processes apart. *)
ProcSymmetry == Permutations(Procs)
=============================================================================
