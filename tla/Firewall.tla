------------------------------ MODULE Firewall ------------------------------
(***************************************************************************)
(* The rules of the agent's network namespace (firewall_runtime.py): what  *)
(* FirewallPlan.restore_text installs, what its check_commands see of it,  *)
(* and the path they give to a packet.  A rule names the fields it         *)
(* restricts and what it does (`to`); the first rule that matches decides. *)
(***************************************************************************)
EXTENDS Integers, Sequences, SequencesExt, FiniteSetsExt

CONSTANTS
  AgentUid, GatewayIp, Loopback,
  AgentPort, GatewayPort, TcpPort, UdpPort

ASSUME FirewallAssumption ==
  /\ Cardinality({AgentPort, GatewayPort, TcpPort, UdpPort}) = 4
  /\ GatewayIp # Loopback

nat_output ==
  << [uid |-> AgentUid, proto |-> "tcp", state |-> "new", to |-> "TE_EGRESS"],
     [uid |-> AgentUid, proto |-> "udp", to |-> "TE_EGRESS"] >>
nat_chain ==
  << [dst |-> Loopback, proto |-> "tcp", dport |-> AgentPort, to |-> "RETURN"],
     [dst |-> GatewayIp, proto |-> "tcp", dport |-> GatewayPort, to |-> "RETURN"],
     [proto |-> "tcp", to |-> "REDIRECT", to_ports |-> TcpPort],
     [proto |-> "udp", to |-> "REDIRECT", to_ports |-> UdpPort] >>
filter_output == << [uid |-> AgentUid, to |-> "TE_FILTER"] >>
filter_chain_without_reject ==
  << [state |-> "established", to |-> "RETURN"],
     [dst |-> Loopback, out |-> "lo", proto |-> "tcp", dport |-> AgentPort, to |-> "RETURN"],
     [dst |-> GatewayIp, proto |-> "tcp", dport |-> GatewayPort, to |-> "RETURN"],
     [proto |-> "tcp", dport |-> TcpPort, to |-> "RETURN"],
     [proto |-> "udp", dport |-> UdpPort, to |-> "RETURN"] >>
filter_chain ==
  << [state |-> "established", to |-> "RETURN"],
     [dst |-> Loopback, out |-> "lo", proto |-> "tcp", dport |-> AgentPort, to |-> "RETURN"],
     [dst |-> GatewayIp, proto |-> "tcp", dport |-> GatewayPort, to |-> "RETURN"],
     [proto |-> "tcp", dport |-> TcpPort, to |-> "RETURN"],
     [proto |-> "udp", dport |-> UdpPort, to |-> "RETURN"],
     [to |-> "REJECT"] >>

restore_text == [nat |-> nat_chain, filter |-> filter_chain]

(* iptables -C finds every rule, wherever it stands in its chain. *)
check_commands(tables) ==
  ToSet(tables.nat) = ToSet(nat_chain) /\ ToSet(tables.filter) = ToSet(filter_chain)

-----------------------------------------------------------------------------
matches(rule, packet) == \A f \in DOMAIN rule \ {"to", "to_ports"} : packet[f] = rule[f]
hits(rules, packet) == {k \in DOMAIN rules : matches(rules[k], packet)}
decides(rules, packet) == rules[Min(hits(rules, packet))]
jumps(rules, packet, to) == hits(rules, packet) # {} /\ decides(rules, packet).to = to

(* Traversal of the nat table; a redirected packet goes to a local port,   *)
(* out of an interface that depends on the kernel.                         *)
translated(tables, packet, out) ==
  IF jumps(nat_output, packet, "TE_EGRESS") /\ jumps(tables.nat, packet, "REDIRECT")
  THEN [packet EXCEPT !.dst = Loopback, !.dport = decides(tables.nat, packet).to_ports, !.out = out]
  ELSE packet
passes(tables, packet) ==
  jumps(filter_output, packet, "TE_FILTER") => ~jumps(tables.filter, packet, "REJECT")

(* Where a new flow ends up. *)
destination(tables, packet, out) ==
  LET p == translated(tables, packet, out)
  IN CASE ~passes(tables, p)                                      -> "rejected"
       [] passes(tables, p) /\ p.dst = GatewayIp /\ p.dport = GatewayPort -> "gateway"
       [] passes(tables, p) /\ p.dst = Loopback /\ p.dport = AgentPort    -> "agent"
       [] passes(tables, p) /\ p.dst = Loopback /\ p.dport = TcpPort /\ p.proto = "tcp" -> "tcp collector"
       [] passes(tables, p) /\ p.dst = Loopback /\ p.dport = UdpPort /\ p.proto = "udp" -> "udp collector"
       [] OTHER                                                   -> "outside"
=============================================================================
