--------------------------- MODULE MCBundleWriter ---------------------------
(* Two turns: an answer each, a retry in the second, and EpisodeEnd. *)
EXTENDS BundleWriter

MCBlobs == <<"obs 0", "obs 1", "raw 0-1", "raw 1-1", "raw 1-2">>

MCEventRefs ==
  <<"obs 0", "raw 0-1", NoRef, "obs 1", "raw 1-1", "raw 1-2", NoRef, NoRef>>

MCDecisionFiles == <<"decision 0", "decision 1">>
=============================================================================
