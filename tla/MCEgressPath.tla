---------------------------- MODULE MCEgressPath ----------------------------
(* Two flows; two allowed hosts, one written in its own way, and no host; a*)
(* resolver with public, private, repeated and no addresses; the rules in  *)
(* the order they are installed in, and in two that a check cannot tell.   *)
EXTENDS EgressPath, TLC

CONSTANTS f1, f2

packet(proto, dst, dport) ==
  [uid |-> "agent", proto |-> proto, dst |-> dst, dport |-> dport, out |-> "eth", state |-> "new"]
MCPackets ==
  {packet("tcp", "gw", 3128), packet("tcp", "local", 8000), packet("tcp", "far", 53),
   packet("udp", "far", 3128), packet("icmp", "far", 0)}
MCTables ==
  {restore_text, [nat |-> Reverse(nat_chain), filter |-> filter_chain],
   [nat |-> nat_chain, filter |-> Reverse(filter_chain)], [nat |-> <<>>, filter |-> filter_chain]}
MCCanonical == [API |-> "api", other |-> "other", bad |-> "none"]
MCAnswers == {<<>>, <<"a", "a", "b">>, <<"a", "private">>}
=============================================================================
