-------------------------- MODULE MCReferenceMatrix --------------------------
(* Two packs of one turn; the second may show an observation larger than   *)
(* the dry run's.  Two settings may run, three are refused.                *)
EXTENDS ReferenceMatrix, TLC

CONSTANTS i1, i2

MCPacks    == <<"p1", "p2">>
MCSample   == [p1 |-> 2, p2 |-> 2]
MCTurnsOf  == [p1 |-> 1, p2 |-> 1]
MCObserved == [p1 |-> {2}, p2 |-> {2, 6}]
MCKinds    == [smoke |-> {"full", "untold", "late"}, p1 |-> {"least", "invalid", "late"},
               p2 |-> {"full", "untold", "lost", "late"}]
Reserved(n, linked) == <<[reserve |-> n, linked |-> linked]>>
FailedSmoke(prior, actual) ==
  <<[prior |-> prior, actual |-> actual, answer |-> Reply("invalid", least_usage(SmokePack), TRUE)]>>
MCSettings ==
  {[name |-> "v3", prior |-> 4, receipt |-> Reserved(4, FailedSmoke(1, 3))],
   [name |-> "v2", prior |-> 1, receipt |-> Reserved(1, <<>>)],
   [name |-> "over budget", prior |-> 9, receipt |-> Reserved(9, <<>>)],
   [name |-> "understated", prior |-> 4, receipt |-> Reserved(4, FailedSmoke(4, 0))],
   [name |-> "unreceipted", prior |-> 4, receipt |-> <<>>]}
MCSymmetry == Permutations({i1, i2})
=============================================================================
