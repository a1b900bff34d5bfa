---------------------------- MODULE EvidenceLog ----------------------------
(***************************************************************************)
(* What a bundle promises its readers: two append-only streams of records, *)
(* of which at most the last may be in doubt, and a seal put on a log with *)
(* nothing in doubt.  Stopping the writer changes nothing and a power loss *)
(* takes away no more than the record in doubt.  BundleWriter implements   *)
(* it.                                                                     *)
(***************************************************************************)
EXTENDS Integers

CONSTANT Streams

VARIABLES
  committed,   \* acknowledged records of each stream
  readable,    \* records of each stream a verifier would accept
  status       \* "open", "sealed" or "stopped"

vars == <<committed, readable, status>>

NoDoubt == readable = committed

Init ==
  /\ committed = [s \in Streams |-> 0]
  /\ readable = committed
  /\ status = "open"

Write(s) ==
  /\ status = "open" /\ NoDoubt
  /\ readable' = [readable EXCEPT ![s] = @ + 1]
  /\ UNCHANGED <<committed, status>>

Acknowledge ==
  /\ status = "open"
  /\ committed' = readable
  /\ UNCHANGED <<readable, status>>

Seal ==
  /\ status = "open" /\ NoDoubt
  /\ status' = "sealed"
  /\ UNCHANGED <<committed, readable>>

Stop ==
  /\ status = "open"
  /\ status' = "stopped"
  /\ UNCHANGED <<committed, readable>>

LosePower ==
  /\ readable' \in {readable, committed}
  /\ status' = IF status = "sealed" THEN status ELSE "stopped"
  /\ UNCHANGED committed

Next == (\E s \in Streams : Write(s)) \/ Acknowledge \/ Seal \/ Stop \/ LosePower

Spec == Init /\ [][Next]_vars

=============================================================================
