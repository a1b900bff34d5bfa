--------------------------- MODULE EgressPath_proofs ---------------------------
(***************************************************************************)
(* No flow of the agent leaves the sandbox unvetted, a refusal it notices  *)
(* is on record once, and a tunnel is a pipe: for any packets, names and   *)
(* answers, any number of flows, and the rules in any order the check of   *)
(* the guard accepts.                                                      *)
(***************************************************************************)
EXTENDS EgressPath, SequenceTheorems, FiniteSetTheorems, WellFoundedInduction, TLAPS

USE EgressAssumption DEF EgressAssumption

(* A set of numbers has a least one. *)
LEMMA MinIsThere ==
  ASSUME NEW S, S \subseteq Nat, S # {}
  PROVE  Min(S) \in S
  <1> DEFINE less == {ss \in Nat \X Nat : ss[1] < ss[2]}
  <1>0. IsWellFoundedOn(less, Nat)
    BY NatLessThanWellFounded DEF OpToRel
  <1>1. \E x \in S : \A y \in S : <<y, x>> \notin less
    <2> HIDE DEF less
    <2> QED BY <1>0, WFMin
  <1>2. \A x, y \in Nat : <<y, x>> \notin less => x <= y
    OBVIOUS
  <1>3. \E x \in S : \A y \in S : x <= y
    <2> HIDE DEF less
    <2> QED BY <1>1, <1>2
  <1> QED BY <1>3 DEF Min

-----------------------------------------------------------------------------
(* The rules. *)
LEMMA RuleDecides ==
  ASSUME NEW rules, rules \in Seq(ToSet(rules)), NEW packet
  PROVE  /\ hits(rules, packet) # {} =>
              decides(rules, packet) \in ToSet(rules) /\ matches(decides(rules, packet), packet)
         /\ \A rule \in ToSet(rules) : matches(rule, packet) => hits(rules, packet) # {}
  <1>1. DOMAIN rules \subseteq Nat
    BY LenProperties
  <1>2. hits(rules, packet) \subseteq DOMAIN rules
    BY DEF hits
  <1>3. hits(rules, packet) # {} => Min(hits(rules, packet)) \in hits(rules, packet)
    BY <1>1, <1>2, MinIsThere
  <1>4. \A k \in hits(rules, packet) : rules[k] \in ToSet(rules) /\ matches(rules[k], packet)
    BY DEF hits, ToSet
  <1>5. \A rule \in ToSet(rules) : matches(rule, packet) => hits(rules, packet) # {}
    BY DEF hits, ToSet
  <1> QED BY <1>3, <1>4, <1>5 DEF decides

(* What each rule of the plan asks of a packet. *)
LEMMA NatRules ==
  ASSUME NEW rule \in ToSet(nat_chain), NEW packet
  PROVE  \/ /\ rule.to = "RETURN"
            /\ matches(rule, packet) =>
                 /\ packet["proto"] = "tcp"
                 /\ \/ packet["dst"] = Loopback /\ packet["dport"] = AgentPort
                    \/ packet["dst"] = GatewayIp /\ packet["dport"] = GatewayPort
         \/ /\ rule.to = "REDIRECT" /\ rule.to_ports = TcpPort
            /\ matches(rule, packet) => packet["proto"] = "tcp"
         \/ /\ rule.to = "REDIRECT" /\ rule.to_ports = UdpPort
            /\ matches(rule, packet) => packet["proto"] = "udp"
  BY DEF ToSet, nat_chain, matches

LEMMA NatCatches ==
  ASSUME NEW packet, packet["proto"] \in {"tcp", "udp"}
  PROVE  \E rule \in ToSet(nat_chain) : matches(rule, packet)
  <1>1. nat_chain[3] \in ToSet(nat_chain) /\ nat_chain[4] \in ToSet(nat_chain)
    BY DEF ToSet, nat_chain
  <1>2. packet["proto"] = "tcp" => matches(nat_chain[3], packet)
    BY DEF nat_chain, matches
  <1>3. packet["proto"] = "udp" => matches(nat_chain[4], packet)
    BY DEF nat_chain, matches
  <1> QED BY <1>1, <1>2, <1>3

LEMMA FilterRules ==
  ASSUME NEW rule \in ToSet(filter_chain), NEW packet, matches(rule, packet), rule.to # "REJECT"
  PROVE  \/ packet["state"] = "established"
         \/ packet["dst"] = Loopback /\ packet["proto"] = "tcp" /\ packet["dport"] = AgentPort
         \/ packet["dst"] = GatewayIp /\ packet["proto"] = "tcp" /\ packet["dport"] = GatewayPort
         \/ packet["proto"] = "tcp" /\ packet["dport"] = TcpPort
         \/ packet["proto"] = "udp" /\ packet["dport"] = UdpPort
  BY DEF ToSet, filter_chain, matches

LEMMA FilterCatches ==
  ASSUME NEW packet
  PROVE  \E rule \in ToSet(filter_chain) : matches(rule, packet)
  <1>1. filter_chain[6] \in ToSet(filter_chain) /\ matches(filter_chain[6], packet)
    BY DEF ToSet, filter_chain, matches
  <1> QED BY <1>1

LEMMA OutputRules ==
  ASSUME NEW packet, packet["uid"] = AgentUid
  PROVE  /\ jumps(filter_output, packet, "TE_FILTER")
         /\ packet["proto"] \in {"tcp", "udp"} /\ packet["state"] = "new" =>
              jumps(nat_output, packet, "TE_EGRESS")
  <1>1. filter_output \in Seq(ToSet(filter_output)) /\ nat_output \in Seq(ToSet(nat_output))
    BY DEF ToSet, filter_output, nat_output
  <1>2. /\ \A rule \in ToSet(filter_output) : rule.to = "TE_FILTER"
        /\ \A rule \in ToSet(nat_output) : rule.to = "TE_EGRESS"
    BY DEF ToSet, filter_output, nat_output
  <1>3. filter_output[1] \in ToSet(filter_output) /\ matches(filter_output[1], packet)
    BY DEF ToSet, filter_output, matches
  <1>4. nat_output[1] \in ToSet(nat_output) /\ nat_output[2] \in ToSet(nat_output)
    BY DEF ToSet, nat_output
  <1>5. packet["state"] = "new" =>
          /\ packet["proto"] = "tcp" => matches(nat_output[1], packet)
          /\ packet["proto"] = "udp" => matches(nat_output[2], packet)
    BY DEF nat_output, matches
  <1> QED BY <1>1, <1>2, <1>3, <1>4, <1>5, RuleDecides DEF jumps

(* Where the rules, in any order the check accepts, take a new flow.       *)
LEMMA RulesConfine ==
  ASSUME NEW t \in Tables, check_commands(t), NEW p \in Packets, NEW out
  PROVE  /\ destination(t, p, out) # "outside"
         /\ destination(t, p, out) = "gateway" => p.dst = GatewayIp /\ p.dport = GatewayPort
  <1> DEFINE q == translated(t, p, out)
  <1>1. /\ p.uid = AgentUid /\ p.state = "new"
        /\ p = [uid |-> p.uid, proto |-> p.proto, dst |-> p.dst, dport |-> p.dport,
                out |-> p.out, state |-> p.state]
    <2>1. p = [uid |-> AgentUid, proto |-> p.proto, dst |-> p.dst, dport |-> p.dport,
               out |-> p.out, state |-> "new"]
      OBVIOUS
    <2> QED BY <2>1
  <1>2. /\ t.nat \in Seq(ToSet(t.nat)) /\ t.filter \in Seq(ToSet(t.filter))
        /\ ToSet(t.nat) = ToSet(nat_chain) /\ ToSet(t.filter) = ToSet(filter_chain)
    BY DEF check_commands
  <1>3. \/ /\ q = p
           /\ p.proto \in {"tcp", "udp"} =>
                /\ p.proto = "tcp"
                /\ \/ p.dst = Loopback /\ p.dport = AgentPort
                   \/ p.dst = GatewayIp /\ p.dport = GatewayPort
        \/ /\ q.uid = p.uid /\ q.state = p.state /\ q.proto = p.proto /\ q.dst = Loopback
           /\ \/ q.dport = TcpPort /\ p.proto = "tcp"
              \/ q.dport = UdpPort /\ p.proto = "udp"
    <2> DEFINE rule == decides(t.nat, p)
    <2>1. CASE p.proto \in {"tcp", "udp"}
      <3>1. jumps(nat_output, p, "TE_EGRESS")
        BY <1>1, <2>1, OutputRules
      <3>2. hits(t.nat, p) # {}
        <4>1. PICK r \in ToSet(nat_chain) : matches(r, p)
          BY <2>1, NatCatches
        <4> QED BY <1>2, <4>1, RuleDecides
      <3>3. rule \in ToSet(nat_chain) /\ matches(rule, p)
        BY <1>2, <3>2, RuleDecides
      <3> HIDE DEF rule
      <3>4. CASE rule.to = "RETURN"
        <4>1. ~jumps(t.nat, p, "REDIRECT")
          BY <3>4 DEF jumps, rule
        <4>2. q = p
          BY <4>1 DEF translated
        <4>3. /\ p.proto = "tcp"
              /\ \/ p.dst = Loopback /\ p.dport = AgentPort
                 \/ p.dst = GatewayIp /\ p.dport = GatewayPort
          BY <3>3, <3>4, NatRules
        <4> HIDE DEF q
        <4> QED BY <4>2, <4>3
      <3>5. CASE rule.to # "RETURN"
        <4>1. /\ rule.to = "REDIRECT"
              /\ \/ rule.to_ports = TcpPort /\ p.proto = "tcp"
                 \/ rule.to_ports = UdpPort /\ p.proto = "udp"
          BY <3>3, <3>5, NatRules
        <4>2. jumps(t.nat, p, "REDIRECT")
          BY <3>2, <4>1 DEF jumps, rule
        <4>3. PICK port : port = rule.to_ports
          OBVIOUS
        <4>4. q = [p EXCEPT !.dst = Loopback, !.dport = port, !.out = out]
          BY <3>1, <4>2, <4>3 DEF translated, rule
        <4> HIDE DEF q
        <4>5. q.uid = p.uid /\ q.state = p.state /\ q.proto = p.proto /\ q.dst = Loopback /\ q.dport = port
          BY <1>1, <4>4
        <4> QED BY <4>1, <4>3, <4>5
      <3> QED BY <3>4, <3>5
    <2>2. CASE p.proto \notin {"tcp", "udp"}
      <3>1. ~jumps(nat_output, p, "TE_EGRESS")
        <4>1. nat_output \in Seq(ToSet(nat_output))
          BY DEF ToSet, nat_output
        <4>2. \A r \in ToSet(nat_output) : ~matches(r, p)
          BY <2>2 DEF ToSet, nat_output, matches
        <4> QED BY <4>1, <4>2, RuleDecides DEF jumps
      <3>2. q = p
        BY <3>1 DEF translated
      <3> QED BY <2>2, <3>2
    <2> QED BY <2>1, <2>2
  <1>4. q.uid = AgentUid /\ q.state = "new" /\ q.proto = p.proto
    <2> HIDE DEF q
    <2> QED BY <1>1, <1>3
  <1>5. passes(t, q) =>
          \/ q.dst = Loopback /\ q.proto = "tcp" /\ q.dport = AgentPort
          \/ q.dst = GatewayIp /\ q.proto = "tcp" /\ q.dport = GatewayPort
          \/ q.proto = "tcp" /\ q.dport = TcpPort
          \/ q.proto = "udp" /\ q.dport = UdpPort
    <2> HIDE DEF q
    <2>1. SUFFICES ASSUME passes(t, q)
                   PROVE  \/ q.dst = Loopback /\ q.proto = "tcp" /\ q.dport = AgentPort
                          \/ q.dst = GatewayIp /\ q.proto = "tcp" /\ q.dport = GatewayPort
                          \/ q.proto = "tcp" /\ q.dport = TcpPort
                          \/ q.proto = "udp" /\ q.dport = UdpPort
      OBVIOUS
    <2>2. ~jumps(t.filter, q, "REJECT")
      BY <1>4, <2>1, OutputRules DEF passes
    <2>3. hits(t.filter, q) # {}
      BY <1>2, FilterCatches, RuleDecides
    <2>4. decides(t.filter, q) \in ToSet(filter_chain) /\ matches(decides(t.filter, q), q)
      BY <1>2, <2>3, RuleDecides
    <2>5. decides(t.filter, q).to # "REJECT"
      BY <2>2, <2>3 DEF jumps
    <2> QED BY <1>4, <2>4, <2>5, FilterRules
  <1>6. destination(t, p, out) =
          CASE ~passes(t, q)                                      -> "rejected"
            [] passes(t, q) /\ q.dst = GatewayIp /\ q.dport = GatewayPort -> "gateway"
            [] passes(t, q) /\ q.dst = Loopback /\ q.dport = AgentPort    -> "agent"
            [] passes(t, q) /\ q.dst = Loopback /\ q.dport = TcpPort /\ q.proto = "tcp" -> "tcp collector"
            [] passes(t, q) /\ q.dst = Loopback /\ q.dport = UdpPort /\ q.proto = "udp" -> "udp collector"
            [] OTHER                                              -> "outside"
    BY DEF destination
  <1> HIDE DEF q
  <1>7. destination(t, p, out) # "outside"
    <2>1. \/ ~passes(t, q)
          \/ passes(t, q) /\ q.dst = GatewayIp /\ q.dport = GatewayPort
          \/ passes(t, q) /\ q.dst = Loopback /\ q.dport = AgentPort
          \/ passes(t, q) /\ q.dst = Loopback /\ q.dport = TcpPort /\ q.proto = "tcp"
          \/ passes(t, q) /\ q.dst = Loopback /\ q.dport = UdpPort /\ q.proto = "udp"
      BY <1>3, <1>4, <1>5
    <2> QED BY <1>6, <2>1
  <1>8. ASSUME destination(t, p, out) = "gateway"
        PROVE  p.dst = GatewayIp /\ p.dport = GatewayPort
    <2>1. q.dst = GatewayIp /\ q.dport = GatewayPort
      BY <1>6, <1>8
    <2>2. GatewayIp # Loopback
      BY FirewallAssumption
    <2> QED BY <1>3, <2>1, <2>2
  <1> QED BY <1>7, <1>8

-----------------------------------------------------------------------------
(* What a flow has shown by the stage it is at. *)
FlowRecord(r) ==
  r = [at |-> r.at, packet |-> r.packet, method |-> r.method, name |-> r.name, port |-> r.port,
       sni |-> r.sni, answers |-> r.answers, left |-> r.left, upstream |-> r.upstream]

Shape ==
  /\ tables \in Tables /\ check_commands(tables)
  /\ flow = [c \in Flows |-> flow[c]]
  /\ \A c \in Flows : FlowRecord(flow[c])

Asking    == {"gateway", "hello", "resolve", "dial"}
Unanswered == {"none", "queued", "gateway", "hello", "resolve"}

StageHolds(c) ==
  /\ flow[c].at # "outside"
  /\ flow[c].at \in Asking =>
       flow[c].packet.dst = GatewayIp /\ flow[c].packet.dport = GatewayPort
  /\ flow[c].at \in Asking \ {"gateway"} =>
       flow[c].name \in Names /\ Canonical[flow[c].name] \in Domains /\ flow[c].port = 443
  /\ flow[c].at \in {"resolve", "dial"} => flow[c].sni = Canonical[flow[c].name]
  /\ flow[c].at = "dial" =>
       /\ flow[c].answers # <<>> /\ ToSet(flow[c].answers) \subseteq Public
       /\ flow[c].answers \in Answers /\ flow[c].left \subseteq DOMAIN flow[c].answers
  /\ flow[c].at \in Unanswered => flow[c].answers = <<>>
  /\ flow[c].at \in Unanswered \cup Asking => flow[c].upstream = Nowhere
  /\ flow[c].upstream # Nowhere =>
       permitted(c) /\ flow[c].upstream \in ToSet(flow[c].answers) \cap Public

FlowsHold == Shape /\ \A c \in Flows : StageHolds(c)

Over == {"recorded", "refused", "unsupported", "left", "unreachable", "ended"}

(* A flow comes to an end, or nearer to it. *)
LEMMA GoKeeps ==
  ASSUME FlowsHold, UNCHANGED tables, NEW c, NEW place \in Over, Go(c, place)
  PROVE  FlowsHold'
  <1>1. /\ flow = [d \in Flows |-> flow[d]] /\ \A d \in Flows : FlowRecord(flow[d])
    BY DEF FlowsHold, Shape
  <1>2. /\ flow' = [d \in Flows |-> flow'[d]]
        /\ \A d \in Flows : d # c => flow'[d] = flow[d]
        /\ c \in Flows => flow'[c] = [flow[c] EXCEPT !.at = place]
    BY <1>1 DEF Go
  <1>3. c \in Flows =>
          /\ FlowRecord(flow'[c]) /\ flow'[c].at = place
          /\ flow'[c].packet = flow[c].packet /\ flow'[c].name = flow[c].name
          /\ flow'[c].port = flow[c].port /\ flow'[c].sni = flow[c].sni
          /\ flow'[c].answers = flow[c].answers /\ flow'[c].upstream = flow[c].upstream
    BY <1>1, <1>2 DEF FlowRecord
  <1>4. Shape'
    BY <1>1, <1>2, <1>3 DEF FlowsHold, Shape
  <1>5. ASSUME NEW d \in Flows, d # c PROVE StageHolds(d)'
    BY <1>2, <1>5 DEF FlowsHold, StageHolds, permitted
  <1>6. ASSUME c \in Flows PROVE StageHolds(c)'
    <2>1. StageHolds(c) /\ place \notin Asking \cup Unanswered \cup {"outside"}
      BY <1>6 DEF FlowsHold, Over, Asking, Unanswered
    <2> QED BY <1>3, <1>6, <2>1 DEF StageHolds, permitted, Asking
  <1> QED BY <1>4, <1>5, <1>6 DEF FlowsHold

(* A flow gets on: what must have been seen. *)
LEMMA MoveKeeps ==
  ASSUME FlowsHold, UNCHANGED tables, NEW c \in Flows, NEW r, FlowRecord(r),
         flow' = [flow EXCEPT ![c] = r],
         StageHolds(c)'
  PROVE  FlowsHold'
  <1>1. /\ flow = [d \in Flows |-> flow[d]] /\ \A d \in Flows : FlowRecord(flow[d])
    BY DEF FlowsHold, Shape
  <1>2. /\ flow' = [d \in Flows |-> flow'[d]] /\ flow'[c] = r
        /\ \A d \in Flows : d # c => flow'[d] = flow[d]
    BY <1>1
  <1>3. ASSUME NEW d \in Flows, d # c PROVE StageHolds(d)'
    BY <1>2, <1>3 DEF FlowsHold, StageHolds, permitted
  <1> QED BY <1>1, <1>2, <1>3 DEF FlowsHold, Shape

LEMMA OpenKeeps ==
  ASSUME FlowsHold, NEW c \in Flows, Open(c)
  PROVE  FlowsHold'
  <1>1. StageHolds(c) /\ FlowRecord(flow[c]) /\ flow[c].at = "none" /\ UNCHANGED tables
    BY DEF FlowsHold, Shape, Open, at
  <1>2. PICK p \in Packets, out \in {"lo", "eth"},
             place \in {"gateway", "agent", "rejected", "outside", "queued"} :
          /\ place = IF destination(tables, p, out) \in {"gateway", "agent", "rejected", "outside"}
                     THEN destination(tables, p, out) ELSE "queued"
          /\ flow' = [flow EXCEPT ![c].packet = p, ![c].at = place]
    BY DEF Open
  <1>3. /\ place \in {"gateway", "agent", "rejected", "queued"}
        /\ place = "gateway" => p.dst = GatewayIp /\ p.dport = GatewayPort
    BY <1>2, RulesConfine DEF FlowsHold, Shape
  <1>4. PICK r : r = [flow[c] EXCEPT !.packet = p, !.at = place]
    OBVIOUS
  <1>5. flow' = [flow EXCEPT ![c] = r]
    BY <1>2, <1>4
  <1>6. /\ FlowRecord(r) /\ r.at = place /\ r.packet = p /\ r.answers = flow[c].answers
        /\ r.upstream = flow[c].upstream
    BY <1>1, <1>4 DEF FlowRecord
  <1>7. flow'[c] = r
    BY <1>5 DEF FlowsHold, Shape
  <1>8. StageHolds(c)'
    <2>1. flow[c].upstream = Nowhere /\ flow[c].answers = <<>>
      BY <1>1 DEF StageHolds, Unanswered
    <2> QED BY <1>3, <1>6, <1>7, <2>1 DEF StageHolds, Asking, Unanswered
  <1> QED BY <1>1, <1>5, <1>6, <1>8, MoveKeeps

LEMMA ConnectKeeps ==
  ASSUME FlowsHold, NEW c \in Flows, Connect(c)
  PROVE  FlowsHold'
  <1>1. StageHolds(c) /\ FlowRecord(flow[c]) /\ flow[c].at = "gateway" /\ UNCHANGED tables
    BY DEF FlowsHold, Shape, Connect, at
  <1>2. PICK name \in Names, port \in Ports, place \in {"hello", "recorded"} :
          /\ flow' = [flow EXCEPT ![c].at = place, ![c].name = name, ![c].port = port]
          /\ place = "hello" => allows(name, port)
    BY DEF Connect
  <1>3. PICK r : r = [flow[c] EXCEPT !.at = place, !.name = name, !.port = port]
    OBVIOUS
  <1>4. flow' = [flow EXCEPT ![c] = r]
    BY <1>2, <1>3
  <1>5. /\ FlowRecord(r) /\ r.at = place /\ r.packet = flow[c].packet /\ r.answers = flow[c].answers
        /\ r.upstream = flow[c].upstream /\ r.name = name /\ r.port = port
    BY <1>1, <1>3 DEF FlowRecord
  <1>6. flow'[c] = r
    BY <1>4 DEF FlowsHold, Shape
  <1>7. StageHolds(c)'
    <2>1. /\ flow[c].upstream = Nowhere /\ flow[c].answers = <<>>
          /\ flow[c].packet.dst = GatewayIp /\ flow[c].packet.dport = GatewayPort
      BY <1>1 DEF StageHolds, Unanswered, Asking
    <2> QED BY <1>2, <1>5, <1>6, <2>1 DEF StageHolds, Asking, Unanswered, allows
  <1> QED BY <1>1, <1>4, <1>5, <1>7, MoveKeeps

LEMMA ReadHelloKeeps ==
  ASSUME FlowsHold, NEW c \in Flows, ReadHello(c)
  PROVE  FlowsHold'
  <1>1. StageHolds(c) /\ FlowRecord(flow[c]) /\ flow[c].at = "hello" /\ UNCHANGED tables
    BY DEF FlowsHold, Shape, ReadHello, at
  <1>0. PICK name \in Names :
          \/ /\ same_sni(c, name)
             /\ flow' = [flow EXCEPT ![c].at = "resolve", ![c].sni = Canonical[name]]
          \/ flow' = [flow EXCEPT ![c].at = "recorded", ![c].sni = Canonical[name]]
    BY DEF ReadHello
  <1>8. PICK sni : sni = Canonical[name]
    OBVIOUS
  <1>2. PICK place \in {"resolve", "recorded"} :
          /\ flow' = [flow EXCEPT ![c].at = place, ![c].sni = sni]
          /\ place = "resolve" => sni = Canonical[flow[c].name]
    BY <1>0, <1>8 DEF same_sni
  <1>3. PICK r : r = [flow[c] EXCEPT !.at = place, !.sni = sni]
    OBVIOUS
  <1>4. flow' = [flow EXCEPT ![c] = r]
    BY <1>2, <1>3
  <1>5. /\ FlowRecord(r) /\ r.at = place /\ r.packet = flow[c].packet /\ r.answers = flow[c].answers
        /\ r.upstream = flow[c].upstream /\ r.name = flow[c].name /\ r.port = flow[c].port
        /\ r.sni = sni
    BY <1>1, <1>3 DEF FlowRecord
  <1>6. flow'[c] = r
    BY <1>4 DEF FlowsHold, Shape
  <1>7. StageHolds(c)'
    <2>1. /\ flow[c].upstream = Nowhere /\ flow[c].answers = <<>>
          /\ flow[c].packet.dst = GatewayIp /\ flow[c].packet.dport = GatewayPort
          /\ flow[c].name \in Names /\ Canonical[flow[c].name] \in Domains /\ flow[c].port = 443
      BY <1>1 DEF StageHolds, Unanswered, Asking
    <2> QED BY <1>2, <1>5, <1>6, <2>1 DEF StageHolds, Asking, Unanswered
  <1> QED BY <1>1, <1>4, <1>5, <1>7, MoveKeeps

LEMMA ResolveKeeps ==
  ASSUME FlowsHold, NEW c \in Flows, Resolve(c)
  PROVE  FlowsHold'
  <1>1. StageHolds(c) /\ FlowRecord(flow[c]) /\ flow[c].at = "resolve" /\ UNCHANGED tables
    BY DEF FlowsHold, Shape, Resolve, at
  <1>2. /\ flow[c].upstream = Nowhere /\ flow[c].sni = Canonical[flow[c].name]
        /\ flow[c].packet.dst = GatewayIp /\ flow[c].packet.dport = GatewayPort
        /\ flow[c].name \in Names /\ Canonical[flow[c].name] \in Domains /\ flow[c].port = 443
    BY <1>1 DEF StageHolds, Unanswered, Asking
  <1>0. PICK answers \in Answers :
          \/ /\ vetted(answers)
             /\ flow' = [flow EXCEPT ![c].at = "dial", ![c].answers = answers, ![c].left = distinct(answers)]
          \/ flow' = [flow EXCEPT ![c].at = "recorded", ![c].answers = answers]
    BY DEF Resolve
  <1>3. PICK place \in {"dial", "recorded"}, left \in {flow[c].left, distinct(answers)} :
          /\ \/ flow' = [flow EXCEPT ![c].at = place, ![c].answers = answers, ![c].left = left]
             \/ flow' = [flow EXCEPT ![c].at = place, ![c].answers = answers] /\ left = flow[c].left
          /\ place = "dial" => vetted(answers) /\ left = distinct(answers)
    BY <1>0
  <1>4. PICK r : r = [flow[c] EXCEPT !.at = place, !.answers = answers, !.left = left]
    OBVIOUS
  <1>5. flow' = [flow EXCEPT ![c] = r]
    <2>1. CASE flow' = [flow EXCEPT ![c].at = place, ![c].answers = answers, ![c].left = left]
      BY <1>4, <2>1
    <2>2. CASE flow' = [flow EXCEPT ![c].at = place, ![c].answers = answers] /\ left = flow[c].left
      <3>1. r = [flow[c] EXCEPT !.at = place, !.answers = answers]
        BY <1>1, <1>4, <2>2 DEF FlowRecord
      <3> QED BY <2>2, <3>1
    <2> QED BY <1>3, <2>1, <2>2
  <1>6. /\ FlowRecord(r) /\ r.at = place /\ r.packet = flow[c].packet /\ r.answers = answers
        /\ r.upstream = flow[c].upstream /\ r.name = flow[c].name /\ r.port = flow[c].port
        /\ r.sni = flow[c].sni /\ r.left = left
    BY <1>1, <1>4 DEF FlowRecord
  <1>7. flow'[c] = r
    BY <1>5 DEF FlowsHold, Shape
  <1>8. place = "dial" =>
          answers # <<>> /\ ToSet(answers) \subseteq Public /\ left \subseteq DOMAIN answers
    BY <1>3 DEF vetted, distinct
  <1>9. StageHolds(c)'
    BY <1>2, <1>3, <1>6, <1>7, <1>8 DEF StageHolds, Asking, Unanswered
  <1> QED BY <1>1, <1>5, <1>6, <1>9, MoveKeeps

LEMMA DialKeeps ==
  ASSUME FlowsHold, NEW c \in Flows, Dialled(c) \/ DialFails(c)
  PROVE  FlowsHold'
  <1>1. /\ StageHolds(c) /\ FlowRecord(flow[c]) /\ flow[c].at = "dial" /\ UNCHANGED tables
        /\ flow[c].left # {}
    BY DEF FlowsHold, Shape, Dialled, DialFails, at
  <1>2. /\ flow[c].sni = Canonical[flow[c].name]
        /\ flow[c].packet.dst = GatewayIp /\ flow[c].packet.dport = GatewayPort
        /\ flow[c].name \in Names /\ Canonical[flow[c].name] \in Domains /\ flow[c].port = 443
        /\ flow[c].answers # <<>> /\ ToSet(flow[c].answers) \subseteq Public
        /\ flow[c].answers \in Answers /\ flow[c].left \subseteq DOMAIN flow[c].answers
        /\ flow[c].upstream = Nowhere
    BY <1>1 DEF StageHolds, Unanswered, Asking
  <1>3. CASE Dialled(c)
    <2>1. next_address(c) \in ToSet(flow[c].answers)
      <3>1. DOMAIN flow[c].answers \subseteq Nat
        BY <1>2, LenProperties
      <3>2. Min(flow[c].left) \in flow[c].left
        BY <1>1, <1>2, <3>1, MinIsThere
      <3> QED BY <1>2, <3>2 DEF next_address, ToSet
    <2>2. PICK upstream : upstream = next_address(c)
      OBVIOUS
    <2>3. flow' = [flow EXCEPT ![c].at = "relay", ![c].upstream = upstream]
      BY <1>3, <2>2 DEF Dialled
    <2>4. PICK r : r = [flow[c] EXCEPT !.at = "relay", !.upstream = upstream]
      OBVIOUS
    <2>5. flow' = [flow EXCEPT ![c] = r]
      BY <2>3, <2>4
    <2>6. /\ FlowRecord(r) /\ r.at = "relay" /\ r.packet = flow[c].packet /\ r.answers = flow[c].answers
          /\ r.upstream = upstream /\ r.name = flow[c].name /\ r.port = flow[c].port
          /\ r.sni = flow[c].sni
      BY <1>1, <2>4 DEF FlowRecord
    <2>7. flow'[c] = r
      BY <2>5 DEF FlowsHold, Shape
    <2>8. StageHolds(c)'
      BY <1>2, <2>1, <2>2, <2>6, <2>7 DEF StageHolds, Asking, Unanswered, permitted
    <2> QED BY <1>1, <2>5, <2>6, <2>8, MoveKeeps
  <1>4. CASE DialFails(c)
    <2>1. PICK left : left = flow[c].left \ {Min(flow[c].left)}
      OBVIOUS
    <2>2. flow' = [flow EXCEPT ![c].left = left]
      BY <1>4, <2>1 DEF DialFails
    <2>3. PICK r : r = [flow[c] EXCEPT !.left = left]
      OBVIOUS
    <2>4. flow' = [flow EXCEPT ![c] = r]
      BY <2>2, <2>3
    <2>5. /\ FlowRecord(r) /\ r.at = "dial" /\ r.packet = flow[c].packet /\ r.answers = flow[c].answers
          /\ r.upstream = flow[c].upstream /\ r.name = flow[c].name /\ r.port = flow[c].port
          /\ r.sni = flow[c].sni /\ r.left = left
      BY <1>1, <2>3 DEF FlowRecord
    <2>6. flow'[c] = r /\ left \subseteq flow[c].left
      BY <2>1, <2>4 DEF FlowsHold, Shape
    <2>7. StageHolds(c)'
      BY <1>2, <2>5, <2>6 DEF StageHolds, Asking, Unanswered
    <2> QED BY <1>1, <2>4, <2>5, <2>7, MoveKeeps
  <1> QED BY <1>3, <1>4

(* A step of a thread or an end is one of these. *)
LEMMA Steps ==
  ASSUME [Next]_vars
  PROVE  \/ \E c \in Flows : Open(c) \/ Connect(c) \/ ReadHello(c) \/ Resolve(c) \/ Dialled(c) \/ DialFails(c)
         \/ UNCHANGED tables /\ \E c, place : place \in Over /\ Go(c, place)
         \/ UNCHANGED <<tables, flow>>
  <1>1. CASE UNCHANGED vars
    BY <1>1 DEF vars
  <1>2. CASE \E k \in Collectors : Collector(k)
    BY <1>2 DEF Collector, Accept, Collect, CloseCollected, Over
  <1>3. CASE \E c \in Flows : Handle(c)
    <2> PICK c \in Flows : Handle(c)
      BY <1>3
    <2>1. CASE \E e \in Ends : Receive(c, e) \/ SendOn(c, e) \/ SendFails(c, e)
      BY <2>1 DEF Receive, SendOn, SendFails, Over
    <2>2. CASE DenyNonConnect(c) \/ UnknownMethod(c) \/ Hangup(c) \/ Answer(c) \/ Unreachable(c) \/ Idle(c)
      BY <2>2 DEF DenyNonConnect, UnknownMethod, Hangup, Answer, Unreachable, Idle, Refuse, Over
    <2> QED BY <2>1, <2>2 DEF Handle
  <1>4. CASE \E c \in Flows : Open(c)
    BY <1>4
  <1>5. CASE \E c \in Flows, e \in Ends : Sends(c, e) \/ Closes(c, e)
    BY <1>5 DEF Sends, Closes
  <1> QED BY <1>1, <1>2, <1>3, <1>4, <1>5 DEF Next

LEMMA FlowsInit == Init => FlowsHold
  <1> SUFFICES ASSUME Init PROVE FlowsHold
    OBVIOUS
  <1>1. /\ flow = [c \in Flows |-> NewFlow] /\ tables \in Tables /\ check_commands(tables)
    BY DEF Init
  <1>2. /\ FlowRecord(NewFlow) /\ NewFlow.at = "none" /\ NewFlow.answers = <<>>
        /\ NewFlow.upstream = Nowhere
    BY DEF FlowRecord, NewFlow
  <1>3. Shape
    BY <1>1, <1>2 DEF Shape
  <1>4. \A c \in Flows : StageHolds(c)
    BY <1>1, <1>2 DEF StageHolds, Asking, Unanswered
  <1> QED BY <1>3, <1>4 DEF FlowsHold

LEMMA FlowsStep == FlowsHold /\ [Next]_vars => FlowsHold'
  <1> SUFFICES ASSUME FlowsHold, [Next]_vars PROVE FlowsHold'
    OBVIOUS
  <1>1. CASE \E c \in Flows : Open(c) \/ Connect(c) \/ ReadHello(c) \/ Resolve(c) \/ Dialled(c) \/ DialFails(c)
    BY <1>1, OpenKeeps, ConnectKeeps, ReadHelloKeeps, ResolveKeeps, DialKeeps
  <1>2. CASE UNCHANGED tables /\ \E c, place : place \in Over /\ Go(c, place)
    BY <1>2, GoKeeps
  <1>3. CASE UNCHANGED <<tables, flow>>
    BY <1>3 DEF FlowsHold, Shape, StageHolds, permitted
  <1> QED BY <1>1, <1>2, <1>3, Steps

LEMMA FlowsAlwaysHold == Spec => []FlowsHold
  BY FlowsInit, FlowsStep, PTL DEF Spec

(* Whatever order the check of the guard lets pass, the rules send a flow  *)
(* of the agent to the gateway, a collector or nowhere; and the gateway    *)
(* dials only public answers of an allowed name (do_CONNECT).              *)
THEOREM EgressStaysVetted == Spec => []NothingLeavesUnvetted
  <1>1. FlowsHold => NothingLeavesUnvetted
    BY DEF FlowsHold, StageHolds, NothingLeavesUnvetted, UpstreamsAreVetted, at
  <1> QED BY <1>1, FlowsAlwaysHold, PTL

-----------------------------------------------------------------------------
(* What is on record.                                                      *)
Recorded == {"recorded", "refused"}

LogIsList == log \in Seq(ToSet(log))

RecordHolds(c) ==
  /\ flow[c].at \in Recorded => ~permitted(c) /\ \E n \in DOMAIN log : facts_of(c) = {n}
  /\ flow[c].at \notin Recorded => facts_of(c) = {}

(* A flow is with one collector, in its queue or in its thread's hands.    *)
Waiting(c, k) == \E n \in DOMAIN backlog[k] : backlog[k][n] = c

QueueHolds(k) ==
  /\ backlog[k] \in Seq(Flows)
  /\ \A m, n \in DOMAIN backlog[k] : m # n => backlog[k][m] # backlog[k][n]
  /\ taken[k] = <<>> \/ \E c \in Flows : taken[k] = <<c>>

PlaceHolds(c, k) ==
  /\ Waiting(c, k) => flow[c].at = "queued"
  /\ taken[k] = <<c>> => flow[c].at \in {"queued", "recorded"}
  /\ \A l \in Collectors :
       /\ Waiting(c, k) => taken[l] # <<c>> /\ (Waiting(c, l) => k = l)
       /\ taken[k] = <<c>> /\ taken[l] = <<c>> => k = l

QueuesHold ==
  /\ backlog = [k \in Collectors |-> backlog[k]] /\ taken = [k \in Collectors |-> taken[k]]
  /\ \A k \in Collectors : QueueHolds(k) /\ \A c \in Flows : PlaceHolds(c, k)

RecordsHold == LogIsList /\ QueuesHold /\ \A c \in Flows : RecordHolds(c)

LEMMA LogGrows ==
  ASSUME LogIsList, NEW f, emit(f)
  PROVE  /\ LogIsList'
         /\ DOMAIN log' = DOMAIN log \cup {Len(log) + 1} /\ Len(log) + 1 \notin DOMAIN log
         /\ \A c : facts_of(c)' = facts_of(c) \cup {n \in {Len(log) + 1} : f.by = c}
  <1>1. Len(log) \in Nat /\ DOMAIN log = 1..Len(log) /\ log \in Seq(ToSet(log) \cup {f})
    <2>1. log \in Seq(ToSet(log)) /\ ToSet(log) \subseteq ToSet(log) \cup {f}
      BY DEF LogIsList
    <2>2. log \in Seq(ToSet(log) \cup {f})
      BY <2>1, SeqMonotonic
    <2> QED BY <2>1, <2>2, LenProperties
  <1>2. /\ log' \in Seq(ToSet(log) \cup {f}) /\ Len(log') = Len(log) + 1
        /\ log'[Len(log) + 1] = f
        /\ \A k \in 1..Len(log) : log'[k] = log[k]
    BY <1>1, AppendProperties DEF emit
  <1>3. DOMAIN log' = 1..(Len(log) + 1)
    BY <1>2, LenProperties
  <1>4. DOMAIN log' = DOMAIN log \cup {Len(log) + 1} /\ Len(log) + 1 \notin DOMAIN log
    BY <1>1, <1>3
  <1>5. LogIsList'
    <2>1. PICK n \in Nat : n = Len(log) + 1
      BY <1>1
    <2>2. log' \in [1..n -> ToSet(log) \cup {f}]
      BY <1>2, <2>1, LenProperties
    <2>3. log' \in [1..n -> ToSet(log')]
      BY <2>2 DEF ToSet
    <2> QED BY <2>3, SeqDef DEF LogIsList
  <1>6. ASSUME NEW c
        PROVE  facts_of(c)' = facts_of(c) \cup {n \in {Len(log) + 1} : f.by = c}
    BY <1>1, <1>2, <1>4 DEF facts_of
  <1> QED BY <1>4, <1>5, <1>6

(* A flow is refused, and a fact goes to the log. *)
LEMMA EmitKeeps ==
  ASSUME RecordsHold, NEW c \in Flows, NEW f, emit(f), f.by = c,
         flow[c].at \notin Recorded, flow'[c].at = "recorded", ~permitted(c)',
         \A d \in Flows : d # c => flow'[d] = flow[d],
         UNCHANGED collector_vars,
         \A k \in Collectors : ~Waiting(c, k)
  PROVE  RecordsHold'
  <1>1. /\ LogIsList' /\ Len(log) + 1 \in DOMAIN log'
        /\ \A d : facts_of(d)' = facts_of(d) \cup {n \in {Len(log) + 1} : f.by = d}
        /\ \A n \in DOMAIN log : n \in DOMAIN log'
    BY LogGrows DEF RecordsHold
  <1>2. RecordHolds(c)'
    <2>1. facts_of(c)' = {Len(log) + 1}
      BY <1>1 DEF RecordsHold, RecordHolds
    <2> QED BY <1>1, <2>1 DEF RecordHolds, Recorded
  <1>3. ASSUME NEW d \in Flows, d # c PROVE RecordHolds(d)'
    <2>1. facts_of(d)' = facts_of(d) /\ RecordHolds(d) /\ flow'[d] = flow[d]
      BY <1>1, <1>3 DEF RecordsHold
    <2>2. permitted(d)' = permitted(d)
      BY <2>1 DEF permitted
    <2> QED BY <1>1, <2>1, <2>2 DEF RecordHolds
  <1>4. QueuesHold'
    <2>1. QueuesHold /\ UNCHANGED <<backlog, taken>>
      BY DEF RecordsHold, collector_vars
    <2>2. \A d, k : Waiting(d, k)' = Waiting(d, k)
      BY <2>1 DEF Waiting
    <2>3. \A d \in Flows, k \in Collectors :
            /\ Waiting(d, k) => flow'[d].at = "queued"
            /\ taken[k] = <<d>> => flow'[d].at \in {"queued", "recorded"}
      <3>1. ASSUME NEW d \in Flows, NEW k \in Collectors
            PROVE  /\ Waiting(d, k) => flow[d].at = "queued"
                   /\ taken[k] = <<d>> => flow[d].at \in {"queued", "recorded"}
        BY <2>1 DEF QueuesHold, QueueHolds, PlaceHolds
      <3> QED BY <3>1
    <2>4. \A d \in Flows, k \in Collectors : PlaceHolds(d, k)'
      <3>1. \A d \in Flows, k \in Collectors : PlaceHolds(d, k)
        BY <2>1 DEF QueuesHold
      <3> QED BY <2>1, <2>2, <2>3, <3>1 DEF PlaceHolds
    <2>5. \A k \in Collectors : QueueHolds(k)'
      BY <2>1 DEF QueuesHold, QueueHolds
    <2> QED BY <2>1, <2>4, <2>5 DEF QueuesHold
  <1> QED BY <1>1, <1>2, <1>3, <1>4 DEF RecordsHold

(* A flow gets on without a fact: not refused yet, or refused before. *)
LEMMA QuietKeeps ==
  ASSUME RecordsHold, NEW c \in Flows, UNCHANGED log,
         \A d \in Flows : d # c => flow'[d] = flow[d],
         UNCHANGED collector_vars,
         \/ flow[c].at \notin Recorded \cup {"queued"} /\ flow'[c].at \notin Recorded
         \/ /\ flow[c].at = "recorded" /\ flow'[c].at = "refused" /\ ~permitted(c)'
            /\ \A k \in Collectors : taken[k] # <<c>>
  PROVE  RecordsHold'
  <1>1. \A d : facts_of(d)' = facts_of(d)
    BY DEF facts_of
  <1>2. RecordHolds(c)'
    BY <1>1 DEF RecordsHold, RecordHolds, Recorded
  <1>3. ASSUME NEW d \in Flows, d # c PROVE RecordHolds(d)'
    <2>1. RecordHolds(d) /\ flow'[d] = flow[d]
      BY <1>3 DEF RecordsHold
    <2>2. permitted(d)' = permitted(d)
      BY <2>1 DEF permitted
    <2> QED BY <1>1, <2>1, <2>2 DEF RecordHolds
  <1>4. QueuesHold'
    <2>1. QueuesHold /\ UNCHANGED <<backlog, taken>>
      BY DEF RecordsHold, collector_vars
    <2>2. \A d, k : Waiting(d, k)' = Waiting(d, k)
      BY <2>1 DEF Waiting
    <2>3. \A d \in Flows : d # c => flow'[d].at = flow[d].at
      OBVIOUS
    <2>4. \A k \in Collectors : ~Waiting(c, k) /\ taken[k] # <<c>>
      BY <2>1 DEF QueuesHold, QueueHolds, PlaceHolds, Recorded
    <2> QED BY <2>1, <2>2, <2>3, <2>4 DEF QueuesHold, QueueHolds, PlaceHolds
  <1> QED BY <1>1, <1>2, <1>3, <1>4 DEF RecordsHold, LogIsList

(* The places of one flow. *)
LEMMA GoIs ==
  ASSUME Shape, NEW c \in Flows, NEW place, Go(c, place)
  PROVE  /\ flow'[c].at = place
         /\ \A d \in Flows : d # c => flow'[d] = flow[d]
         /\ permitted(c)' = permitted(c)
  <1>1. /\ flow' = [flow EXCEPT ![c].at = place] /\ FlowRecord(flow[c])
        /\ flow = [d \in Flows |-> flow[d]]
    BY DEF Go, Shape
  <1>2. /\ flow'[c].packet = flow[c].packet /\ flow'[c].name = flow[c].name
        /\ flow'[c].port = flow[c].port /\ flow'[c].sni = flow[c].sni
        /\ flow'[c].answers = flow[c].answers
    BY <1>1 DEF FlowRecord
  <1>3. permitted(c)' = permitted(c)
    BY <1>2 DEF permitted
  <1> QED BY <1>1, <1>3 DEF FlowRecord

LEMMA NobodyWaits ==
  ASSUME RecordsHold, NEW c \in Flows, flow[c].at # "queued"
  PROVE  \A k \in Collectors : ~Waiting(c, k)
  BY DEF RecordsHold, QueuesHold, PlaceHolds

(* The gateway's refusals. *)
LEMMA GatewayRecords ==
  ASSUME FlowsHold, RecordsHold, NEW c \in Flows,
         Connect(c) \/ DenyNonConnect(c) \/ ReadHello(c) \/ Resolve(c)
  PROVE  RecordsHold'
  <1> USE DEF FlowsHold
  <1>0. /\ StageHolds(c) /\ FlowRecord(flow[c]) /\ flow[c].at \in {"gateway", "hello", "resolve"}
        /\ flow = [d \in Flows |-> flow[d]] /\ UNCHANGED collector_vars
    BY DEF Shape, Connect, DenyNonConnect, ReadHello, Resolve, Refuse, at
  <1>1. flow[c].answers = <<>> /\ (\A k \in Collectors : ~Waiting(c, k))
    BY <1>0, NobodyWaits DEF StageHolds, Unanswered
  <1>2. CASE DenyNonConnect(c)
    <2>1. PICK f : f.by = c /\ emit(f) /\ Go(c, "recorded")
      BY <1>2 DEF DenyNonConnect, Refuse, Fact
    <2>2. /\ flow'[c].at = "recorded" /\ \A d \in Flows : d # c => flow'[d] = flow[d]
          /\ permitted(c)' = permitted(c)
      BY <2>1, GoIs
    <2>3. ~permitted(c)
      BY <1>1 DEF permitted
    <2> QED BY <1>0, <1>1, <2>1, <2>2, <2>3, EmitKeeps DEF Recorded
  <1>3. CASE Connect(c)
    <2>1. PICK name \in Names, port \in Ports :
            \/ /\ flow' = [flow EXCEPT ![c].at = "hello", ![c].name = name, ![c].port = port]
               /\ UNCHANGED log
            \/ /\ emit(decide_connect(c, name, port))
               /\ flow' = [flow EXCEPT ![c].at = "recorded", ![c].name = name, ![c].port = port]
      BY <1>3 DEF Connect
    <2>2. decide_connect(c, name, port).by = c
      BY DEF decide_connect, Fact
    <2>3. CASE flow' = [flow EXCEPT ![c].at = "hello", ![c].name = name, ![c].port = port] /\ UNCHANGED log
      <3>1. flow'[c].at = "hello" /\ \A d \in Flows : d # c => flow'[d] = flow[d]
        BY <1>0, <2>3 DEF FlowRecord
      <3> QED BY <1>0, <2>3, <3>1, QuietKeeps DEF Recorded
    <2>4. CASE /\ emit(decide_connect(c, name, port))
               /\ flow' = [flow EXCEPT ![c].at = "recorded", ![c].name = name, ![c].port = port]
      <3>1. /\ flow'[c].at = "recorded" /\ flow'[c].answers = flow[c].answers
            /\ \A d \in Flows : d # c => flow'[d] = flow[d]
        BY <1>0, <2>4 DEF FlowRecord
      <3>2. ~permitted(c)'
        BY <1>1, <3>1 DEF permitted
      <3> QED BY <1>0, <1>1, <2>2, <2>4, <3>1, <3>2, EmitKeeps DEF Recorded
    <2> QED BY <2>1, <2>3, <2>4
  <1>4. CASE ReadHello(c)
    <2>1. PICK sni, f : /\ f.by = c
                        /\ \/ flow' = [flow EXCEPT ![c].at = "resolve", ![c].sni = sni] /\ UNCHANGED log
                           \/ emit(f) /\ flow' = [flow EXCEPT ![c].at = "recorded", ![c].sni = sni]
      <3>1. PICK name \in Names :
              \/ flow' = [flow EXCEPT ![c].at = "resolve", ![c].sni = Canonical[name]] /\ UNCHANGED log
              \/ /\ emit(IF Canonical[name] = NoHost THEN Fact(c, "proxy_sni", <<"opaque", flow[c].name>>, flow[c].port, "https")
                         ELSE Fact(c, "proxy_sni", <<"domain", Canonical[name]>>, flow[c].port, "https"))
                 /\ flow' = [flow EXCEPT ![c].at = "recorded", ![c].sni = Canonical[name]]
        BY <1>4 DEF ReadHello
      <3>2. PICK f : f = IF Canonical[name] = NoHost THEN Fact(c, "proxy_sni", <<"opaque", flow[c].name>>, flow[c].port, "https")
                         ELSE Fact(c, "proxy_sni", <<"domain", Canonical[name]>>, flow[c].port, "https")
        OBVIOUS
      <3>4. f.by = c
        BY <3>2 DEF Fact
      <3>3. PICK sni : sni = Canonical[name]
        OBVIOUS
      <3> QED BY <3>1, <3>2, <3>3, <3>4
    <2>2. CASE flow' = [flow EXCEPT ![c].at = "resolve", ![c].sni = sni] /\ UNCHANGED log
      <3>1. flow'[c].at = "resolve" /\ \A d \in Flows : d # c => flow'[d] = flow[d]
        BY <1>0, <2>2 DEF FlowRecord
      <3> QED BY <1>0, <2>2, <3>1, QuietKeeps DEF Recorded
    <2>3. CASE emit(f) /\ flow' = [flow EXCEPT ![c].at = "recorded", ![c].sni = sni]
      <3>1. /\ flow'[c].at = "recorded" /\ flow'[c].answers = flow[c].answers
            /\ \A d \in Flows : d # c => flow'[d] = flow[d]
        BY <1>0, <2>3 DEF FlowRecord
      <3>2. ~permitted(c)'
        BY <1>1, <3>1 DEF permitted
      <3> QED BY <1>0, <1>1, <2>1, <2>3, <3>1, <3>2, EmitKeeps DEF Recorded
    <2> QED BY <2>1, <2>2, <2>3
  <1>5. CASE Resolve(c)
    <2>0. PICK f : f = Fact(c, "proxy_resolution", <<"domain", flow[c].sni>>, flow[c].port, "https")
      OBVIOUS
    <2>4. f.by = c
      BY <2>0 DEF Fact
    <2>1. PICK answers \in Answers :
               \/ /\ flow' = [flow EXCEPT ![c].at = "dial", ![c].answers = answers, ![c].left = distinct(answers)]
                  /\ UNCHANGED log
               \/ /\ emit(f) /\ ~vetted(answers)
                  /\ flow' = [flow EXCEPT ![c].at = "recorded", ![c].answers = answers]
      BY <1>5, <2>0 DEF Resolve
    <2>2. CASE /\ flow' = [flow EXCEPT ![c].at = "dial", ![c].answers = answers, ![c].left = distinct(answers)]
               /\ UNCHANGED log
      <3>1. PICK left : left = distinct(answers)
        OBVIOUS
      <3>2. flow' = [flow EXCEPT ![c].at = "dial", ![c].answers = answers, ![c].left = left]
        BY <2>2, <3>1
      <3>3. flow'[c].at = "dial" /\ \A d \in Flows : d # c => flow'[d] = flow[d]
        BY <1>0, <3>2 DEF FlowRecord
      <3> QED BY <1>0, <2>2, <3>3, QuietKeeps DEF Recorded
    <2>3. CASE /\ emit(f) /\ ~vetted(answers)
               /\ flow' = [flow EXCEPT ![c].at = "recorded", ![c].answers = answers]
      <3>1. /\ flow'[c].at = "recorded" /\ flow'[c].answers = answers
            /\ \A d \in Flows : d # c => flow'[d] = flow[d]
        BY <1>0, <2>3 DEF FlowRecord
      <3>2. ~permitted(c)'
        BY <2>3, <3>1 DEF permitted, vetted
      <3> QED BY <1>0, <1>1, <2>3, <2>4, <3>1, <3>2, EmitKeeps DEF Recorded
    <2> QED BY <2>1, <2>2, <2>3
  <1> QED BY <1>2, <1>3, <1>4, <1>5

(* The collectors: a flow is queued, taken, recorded and closed. *)
LEMMA OpenRecords ==
  ASSUME FlowsHold, RecordsHold, NEW c \in Flows, Open(c)
  PROVE  RecordsHold'
  <1>1. PICK p \in Packets, out \in {"lo", "eth"},
             place \in {"gateway", "agent", "rejected", "outside", "queued"}, k \in Collectors :
          /\ flow' = [flow EXCEPT ![c].packet = p, ![c].at = place]
          /\ \/ place # "queued" /\ backlog' = backlog
             \/ place = "queued" /\ backlog' = [backlog EXCEPT ![k] = Append(@, c)]
    <2>1. PICK p \in Packets, out \in {"lo", "eth"} :
            LET to == destination(tables, p, out)
                k  == IF to = "tcp collector" THEN "tcp" ELSE "udp"
            IN /\ flow' = [flow EXCEPT ![c].packet = p, ![c].at = IF to \in {"gateway", "agent", "rejected", "outside"}
                                                                  THEN to ELSE "queued"]
               /\ backlog' = IF to \in {"tcp collector", "udp collector"}
                             THEN [backlog EXCEPT ![k] = Append(@, c)] ELSE backlog
      BY DEF Open
    <2>2. destination(tables, p, out) \in
            {"gateway", "agent", "rejected", "outside", "tcp collector", "udp collector"}
      BY DEF destination
    <2>3. "tcp" \in Collectors /\ "udp" \in Collectors
      BY DEF Collectors
    <2>4. CASE destination(tables, p, out) \in {"gateway", "agent", "rejected", "outside"}
      BY <2>1, <2>3, <2>4
    <2>5. CASE destination(tables, p, out) = "tcp collector"
      BY <2>1, <2>3, <2>5
    <2>6. CASE destination(tables, p, out) = "udp collector"
      BY <2>1, <2>3, <2>6
    <2> QED BY <2>2, <2>4, <2>5, <2>6
  <1>2. /\ flow[c].at = "none" /\ FlowRecord(flow[c]) /\ flow = [d \in Flows |-> flow[d]]
        /\ UNCHANGED <<taken, log>>
    BY DEF Open, at, FlowsHold, Shape
  <1>3. flow'[c].at = place /\ \A d \in Flows : d # c => flow'[d] = flow[d]
    BY <1>1, <1>2 DEF FlowRecord
  <1>4. CASE place # "queued"
    BY <1>1, <1>2, <1>3, <1>4, QuietKeeps DEF Recorded, collector_vars
  <1>5. CASE place = "queued"
    <2>1. \A d : facts_of(d)' = facts_of(d)
      BY <1>2 DEF facts_of
    <2>2. \A d \in Flows : RecordHolds(d)'
      <3>1. ASSUME NEW d \in Flows, d # c PROVE RecordHolds(d)'
        BY <1>2, <1>3, <2>1, <3>1 DEF RecordsHold, RecordHolds, permitted
      <3>2. RecordHolds(c)'
        BY <1>2, <1>3, <1>5, <2>1 DEF RecordsHold, RecordHolds, Recorded
      <3> QED BY <3>1, <3>2
    <2>3. QueuesHold
      BY DEF RecordsHold
    <2>4. \A l \in Collectors : ~Waiting(c, l) /\ taken[l] # <<c>>
      BY <1>2, <2>3 DEF QueuesHold, QueueHolds, PlaceHolds
    <2>5. /\ backlog' = [l \in Collectors |-> backlog'[l]]
          /\ backlog'[k] = Append(backlog[k], c)
          /\ \A l \in Collectors : l # k => backlog'[l] = backlog[l]
      BY <1>1, <1>5, <2>3 DEF QueuesHold, QueueHolds, PlaceHolds
    <2>6. /\ backlog'[k] \in Seq(Flows)
          /\ Len(backlog[k]) \in Nat /\ DOMAIN backlog[k] = 1..Len(backlog[k])
          /\ DOMAIN backlog'[k] = 1..(Len(backlog[k]) + 1)
          /\ backlog'[k][Len(backlog[k]) + 1] = c
          /\ \A n \in DOMAIN backlog[k] : backlog'[k][n] = backlog[k][n]
      <3>1. backlog[k] \in Seq(Flows)
        BY <2>3 DEF QueuesHold, QueueHolds, PlaceHolds
      <3>2. /\ Len(backlog[k]) \in Nat /\ DOMAIN backlog[k] = 1..Len(backlog[k])
        BY <3>1, LenProperties
      <3>3. /\ Append(backlog[k], c) \in Seq(Flows)
            /\ Len(Append(backlog[k], c)) = Len(backlog[k]) + 1
            /\ Append(backlog[k], c)[Len(backlog[k]) + 1] = c
            /\ \A n \in 1..Len(backlog[k]) : Append(backlog[k], c)[n] = backlog[k][n]
        BY <3>1, AppendProperties
      <3>4. DOMAIN Append(backlog[k], c) = 1..(Len(backlog[k]) + 1)
        BY <3>3, LenProperties
      <3> QED BY <2>5, <3>2, <3>3, <3>4
    <2>7. \A d \in Flows, l \in Collectors :
            Waiting(d, l)' <=> (Waiting(d, l) \/ (d = c /\ l = k))
      <3>1. ASSUME NEW d \in Flows PROVE Waiting(d, k)' <=> (Waiting(d, k) \/ d = c)
        BY <2>6 DEF Waiting
      <3>2. ASSUME NEW d \in Flows, NEW l \in Collectors, l # k PROVE Waiting(d, l)' <=> Waiting(d, l)
        BY <2>5, <3>2 DEF Waiting
      <3> QED BY <3>1, <3>2
    <2>8. \A m, n \in DOMAIN backlog'[k] : m # n => backlog'[k][m] # backlog'[k][n]
      <3>1. \A m, n \in DOMAIN backlog[k] : m # n => backlog[k][m] # backlog[k][n]
        BY <2>3 DEF QueuesHold, QueueHolds, PlaceHolds
      <3>2. \A n \in DOMAIN backlog[k] : backlog[k][n] # c
        BY <2>4 DEF Waiting
      <3> QED BY <2>6, <3>1, <3>2
    <2>9. \A l \in Collectors : QueueHolds(l)'
      <3>1. \A l \in Collectors : QueueHolds(l)
        BY <2>3 DEF QueuesHold
      <3>2. QueueHolds(k)'
        BY <1>2, <2>6, <2>8, <3>1 DEF QueueHolds
      <3>3. ASSUME NEW l \in Collectors, l # k PROVE QueueHolds(l)'
        BY <1>2, <2>5, <3>1, <3>3 DEF QueueHolds
      <3> QED BY <3>2, <3>3
    <2>10. \A d \in Flows, l \in Collectors :
             /\ Waiting(d, l)' => flow'[d].at = "queued"
             /\ taken[l] = <<d>> => flow'[d].at \in {"queued", "recorded"}
      BY <1>2, <1>3, <1>5, <2>3, <2>4, <2>7 DEF QueuesHold, QueueHolds, PlaceHolds
    <2>12. \A d \in Flows, l \in Collectors : PlaceHolds(d, l)'
      <3>1. \A d \in Flows, l \in Collectors : PlaceHolds(d, l)
        BY <2>3 DEF QueuesHold
      <3>2. \A d \in Flows, l \in Collectors : taken'[l] = taken[l]
        BY <1>2
      <3>3. ASSUME NEW d \in Flows, NEW l \in Collectors PROVE PlaceHolds(d, l)'
        BY <2>4, <2>7, <2>10, <3>1, <3>2 DEF PlaceHolds
      <3> QED BY <3>3
    <2>11. QueuesHold'
      BY <1>2, <2>3, <2>5, <2>9, <2>12 DEF QueuesHold
    <2> QED BY <1>2, <2>2, <2>11 DEF RecordsHold, LogIsList
  <1> QED BY <1>4, <1>5

LEMMA AcceptRecords ==
  ASSUME FlowsHold, RecordsHold, NEW k \in Collectors, Accept(k)
  PROVE  RecordsHold'
  <1>1. /\ taken[k] = <<>> /\ backlog[k] # <<>> /\ UNCHANGED <<flow, log>>
        /\ taken' = [taken EXCEPT ![k] = <<Head(backlog[k])>>]
        /\ backlog' = [backlog EXCEPT ![k] = Tail(backlog[k])]
    BY DEF Accept
  <1>2. QueuesHold
    BY DEF RecordsHold
  <1>3. PICK c : c = Head(backlog[k])
    OBVIOUS
  <1>4. backlog[k] \in Seq(Flows)
    BY <1>2 DEF QueuesHold, QueueHolds, PlaceHolds
  <1>5. /\ Len(backlog[k]) \in Nat /\ Len(backlog[k]) > 0 /\ DOMAIN backlog[k] = 1..Len(backlog[k])
        /\ c = backlog[k][1] /\ c \in Flows
        /\ Tail(backlog[k]) \in Seq(Flows)
        /\ DOMAIN Tail(backlog[k]) = 1..(Len(backlog[k]) - 1)
        /\ \A n \in 1..(Len(backlog[k]) - 1) : Tail(backlog[k])[n] = backlog[k][n + 1]
    <2>1. Len(backlog[k]) \in Nat /\ Len(backlog[k]) > 0 /\ DOMAIN backlog[k] = 1..Len(backlog[k])
      BY <1>1, <1>4, LenProperties, EmptySeq
    <2>2. c = backlog[k][1] /\ c \in Flows
      BY <1>1, <1>3, <1>4, HeadTailProperties
    <2>3. /\ Tail(backlog[k]) \in Seq(Flows) /\ Len(Tail(backlog[k])) = Len(backlog[k]) - 1
          /\ \A n \in 1..Len(Tail(backlog[k])) : Tail(backlog[k])[n] = backlog[k][n + 1]
      BY <1>1, <1>4, HeadTailProperties
    <2> QED BY <2>1, <2>2, <2>3, LenProperties
  <1>6. /\ backlog' = [l \in Collectors |-> backlog'[l]] /\ taken' = [l \in Collectors |-> taken'[l]]
        /\ backlog'[k] = Tail(backlog[k]) /\ taken'[k] = <<c>>
        /\ \A l \in Collectors : l # k => backlog'[l] = backlog[l] /\ taken'[l] = taken[l]
    BY <1>1, <1>2, <1>3 DEF QueuesHold, QueueHolds, PlaceHolds
  <1>7. \A m, n \in DOMAIN backlog[k] : m # n => backlog[k][m] # backlog[k][n]
    BY <1>2 DEF QueuesHold, QueueHolds, PlaceHolds
  <1>8. \A d \in Flows : Waiting(d, k)' <=> Waiting(d, k) /\ d # c
    <2>1. ASSUME NEW d \in Flows, Waiting(d, k)' PROVE Waiting(d, k) /\ d # c
      <3>1. PICK n \in 1..(Len(backlog[k]) - 1) : backlog[k][n + 1] = d
        BY <1>5, <1>6, <2>1 DEF Waiting
      <3>2. n + 1 \in DOMAIN backlog[k] /\ 1 \in DOMAIN backlog[k] /\ n + 1 # 1
        BY <1>5
      <3> QED BY <1>5, <1>7, <3>1, <3>2 DEF Waiting
    <2>2. ASSUME NEW d \in Flows, Waiting(d, k), d # c PROVE Waiting(d, k)'
      <3>1. PICK n \in DOMAIN backlog[k] : backlog[k][n] = d
        BY <2>2 DEF Waiting
      <3>2. n # 1
        BY <1>5, <2>2, <3>1
      <3>3. n - 1 \in 1..(Len(backlog[k]) - 1) /\ (n - 1) + 1 = n
        BY <1>5, <3>2
      <3>4. Tail(backlog[k])[n - 1] = d
        BY <1>5, <3>1, <3>3
      <3> QED BY <1>5, <1>6, <3>3, <3>4 DEF Waiting
    <2> QED BY <2>1, <2>2
  <1>9. \A d \in Flows, l \in Collectors : l # k => (Waiting(d, l)' <=> Waiting(d, l))
    BY <1>6 DEF Waiting
  <1>10. Waiting(c, k)
    BY <1>5 DEF Waiting
  <1>11. \A l \in Collectors : QueueHolds(l)'
    <2>1. \A m, n \in DOMAIN Tail(backlog[k]) : m # n => Tail(backlog[k])[m] # Tail(backlog[k])[n]
      <3>1. ASSUME NEW m \in 1..(Len(backlog[k]) - 1), NEW n \in 1..(Len(backlog[k]) - 1), m # n
            PROVE  Tail(backlog[k])[m] # Tail(backlog[k])[n]
        <4>1. m + 1 \in DOMAIN backlog[k] /\ n + 1 \in DOMAIN backlog[k] /\ m + 1 # n + 1
          BY <1>5, <3>1
        <4> QED BY <1>5, <1>7, <4>1
      <3> QED BY <1>5, <3>1
    <2>2. ASSUME NEW l \in Collectors, l # k PROVE QueueHolds(l)'
      BY <1>2, <1>6, <2>2 DEF QueuesHold, QueueHolds
    <2>3. QueueHolds(k)'
      BY <1>5, <1>6, <2>1 DEF QueueHolds
    <2> QED BY <2>2, <2>3
  <1>12. \A d \in Flows, l \in Collectors :
           /\ Waiting(d, l) => flow[d].at = "queued"
           /\ taken[l] = <<d>> => flow[d].at \in {"queued", "recorded"}
           /\ \A j \in Collectors :
                /\ Waiting(d, l) => taken[j] # <<d>> /\ (Waiting(d, j) => l = j)
                /\ taken[l] = <<d>> /\ taken[j] = <<d>> => l = j
    BY <1>2 DEF QueuesHold, QueueHolds, PlaceHolds
  <1>13. \A d \in Flows, l \in Collectors :
           /\ Waiting(d, l)' => Waiting(d, l) /\ ~(d = c /\ l = k)
           /\ taken'[l] = <<d>> <=> IF l = k THEN d = c ELSE taken[l] = <<d>>
    BY <1>6, <1>8, <1>9
  <1>14. \A d \in Flows, l \in Collectors :
           /\ Waiting(d, l)' => flow[d].at = "queued"
           /\ taken'[l] = <<d>> => flow[d].at \in {"queued", "recorded"}
           /\ \A j \in Collectors :
                /\ Waiting(d, l)' => taken'[j] # <<d>> /\ (Waiting(d, j)' => l = j)
                /\ taken'[l] = <<d>> /\ taken'[j] = <<d>> => l = j
    BY <1>10, <1>12, <1>13
  <1>15. QueuesHold'
    <2>1. \A d \in Flows, l \in Collectors : PlaceHolds(d, l)'
      BY <1>1, <1>14 DEF PlaceHolds
    <2> QED BY <1>6, <1>11, <2>1 DEF QueuesHold
  <1>16. \A d \in Flows : RecordHolds(d)'
    BY <1>1 DEF RecordsHold, RecordHolds, facts_of, permitted
  <1> QED BY <1>1, <1>15, <1>16 DEF RecordsHold, LogIsList

LEMMA CollectRecords ==
  ASSUME FlowsHold, RecordsHold, NEW k \in Collectors, Collect(k)
  PROVE  RecordsHold'
  <1>1. PICK c \in Flows : taken[k] = <<c>>
    BY DEF RecordsHold, QueuesHold, QueueHolds, Collect
  <1>2. /\ flow[c].at = "queued" /\ Go(c, "recorded") /\ UNCHANGED collector_vars
        /\ \E known, payload : emit(fact_for_destination(c, known, payload))
    BY <1>1 DEF Collect, at
  <1>3. PICK f : f.by = c /\ emit(f)
    <2>1. PICK known, payload : emit(fact_for_destination(c, known, payload))
      BY <1>2
    <2>2. fact_for_destination(c, known, payload).by = c
      BY DEF fact_for_destination, Fact
    <2> QED BY <2>1, <2>2
  <1>4. /\ flow'[c].at = "recorded" /\ \A d \in Flows : d # c => flow'[d] = flow[d]
        /\ permitted(c)' = permitted(c)
    BY <1>2, GoIs DEF FlowsHold
  <1>5. ~permitted(c)
    BY <1>2 DEF FlowsHold, StageHolds, Unanswered, permitted
  <1>6. \A l \in Collectors : ~Waiting(c, l)
    BY <1>1 DEF RecordsHold, QueuesHold, PlaceHolds
  <1> QED BY <1>2, <1>3, <1>4, <1>5, <1>6, EmitKeeps DEF Recorded

LEMMA CloseRecords ==
  ASSUME FlowsHold, RecordsHold, NEW k \in Collectors, CloseCollected(k)
  PROVE  RecordsHold'
  <1>1. PICK c \in Flows : taken[k] = <<c>>
    BY DEF RecordsHold, QueuesHold, QueueHolds, CloseCollected
  <1>2. /\ flow[c].at # "queued" /\ Go(c, "refused") /\ UNCHANGED <<backlog, log>>
        /\ taken' = [taken EXCEPT ![k] = <<>>]
    BY <1>1 DEF CloseCollected, at
  <1>3. QueuesHold
    BY DEF RecordsHold
  <1>4. \A d \in Flows, l \in Collectors : PlaceHolds(d, l)
    BY <1>3 DEF QueuesHold
  <1>5. flow[c].at = "recorded"
    BY <1>1, <1>2, <1>4 DEF PlaceHolds
  <1>6. /\ flow'[c].at = "refused" /\ \A d \in Flows : d # c => flow'[d] = flow[d]
        /\ permitted(c)' = permitted(c)
    BY <1>2, GoIs DEF FlowsHold
  <1>7. /\ taken' = [l \in Collectors |-> taken'[l]] /\ taken'[k] = <<>>
        /\ \A l \in Collectors : l # k => taken'[l] = taken[l]
    BY <1>2, <1>3 DEF QueuesHold
  <1>8. \A d : facts_of(d)' = facts_of(d)
    BY <1>2 DEF facts_of
  <1>9. RecordHolds(c)'
    BY <1>2, <1>5, <1>6, <1>8 DEF RecordsHold, RecordHolds, Recorded
  <1>10. ASSUME NEW d \in Flows, d # c PROVE RecordHolds(d)'
    <2>1. RecordHolds(d) /\ flow'[d] = flow[d]
      BY <1>6, <1>10 DEF RecordsHold
    <2>2. permitted(d)' = permitted(d)
      BY <2>1 DEF permitted
    <2> QED BY <1>2, <1>8, <2>1, <2>2 DEF RecordHolds
  <1>11. \A d, l : Waiting(d, l)' = Waiting(d, l)
    BY <1>2 DEF Waiting
  <1>12. \A l \in Collectors : ~Waiting(c, l) /\ taken'[l] # <<c>>
    BY <1>1, <1>4, <1>5, <1>7 DEF PlaceHolds
  <1>13. \A d \in Flows, l \in Collectors : taken'[l] = <<d>> => taken[l] = <<d>>
    BY <1>7
  <1>14. ASSUME NEW d \in Flows, NEW l \in Collectors PROVE PlaceHolds(d, l)'
    <2>1. PlaceHolds(d, l)
      BY <1>4
    <2>2. CASE d = c
      BY <1>11, <1>12, <2>2 DEF PlaceHolds
    <2>3. CASE d # c
      <3>1. flow'[d] = flow[d]
        BY <1>6, <2>3
      <3> QED BY <1>11, <1>13, <2>1, <3>1 DEF PlaceHolds
    <2> QED BY <2>2, <2>3
  <1>15. ASSUME NEW l \in Collectors PROVE QueueHolds(l)'
    <2>1. QueueHolds(l)
      BY <1>3 DEF QueuesHold
    <2>2. CASE l = k
      BY <1>2, <1>7, <2>1, <2>2 DEF QueueHolds
    <2>3. CASE l # k
      BY <1>2, <1>7, <2>1, <2>3 DEF QueueHolds
    <2> QED BY <2>2, <2>3
  <1>16. QueuesHold'
    BY <1>2, <1>3, <1>7, <1>14, <1>15 DEF QueuesHold
  <1> QED BY <1>2, <1>9, <1>10, <1>16 DEF RecordsHold, LogIsList

(* The gateway's other steps have no fact. *)
LEMMA QuietRecords ==
  ASSUME FlowsHold, RecordsHold, NEW c \in Flows,
         \/ UnknownMethod(c) \/ Hangup(c) \/ Answer(c) \/ Unreachable(c) \/ Idle(c)
         \/ Dialled(c) \/ DialFails(c)
         \/ \E e \in Ends : Receive(c, e) \/ SendOn(c, e) \/ SendFails(c, e) \/ Sends(c, e) \/ Closes(c, e)
  PROVE  RecordsHold'
  <1>0. /\ UNCHANGED log /\ UNCHANGED collector_vars /\ FlowRecord(flow[c])
        /\ flow = [d \in Flows |-> flow[d]] /\ Shape
    BY DEF UnknownMethod, Hangup, Answer, Unreachable, Idle, Dialled, DialFails, Receive, SendOn,
           SendFails, Sends, Closes, FlowsHold, Shape
  <1>1. ASSUME flow[c].at \in {"gateway", "dial", "relay"},
               NEW place \in {"unsupported", "left", "unreachable", "ended"}, Go(c, place)
        PROVE  RecordsHold'
    BY <1>0, <1>1, GoIs, QuietKeeps DEF Recorded
  <1>2. CASE UnknownMethod(c) \/ Hangup(c) \/ Unreachable(c) \/ Idle(c)
    BY <1>1, <1>2 DEF UnknownMethod, Hangup, Unreachable, Idle, at
  <1>3. CASE Answer(c)
    <2>1. /\ flow[c].at = "recorded" /\ Go(c, "refused") /\ \A k \in Collectors : taken[k] # <<c>>
      BY <1>3 DEF Answer, at
    <2>2. ~permitted(c)
      BY <2>1 DEF RecordsHold, RecordHolds, Recorded
    <2> QED BY <1>0, <2>1, <2>2, GoIs, QuietKeeps
  <1>4. CASE Dialled(c)
    <2>1. PICK upstream : upstream = next_address(c)
      OBVIOUS
    <2>2. flow[c].at = "dial" /\ flow' = [flow EXCEPT ![c].at = "relay", ![c].upstream = upstream]
      BY <1>4, <2>1 DEF Dialled, at
    <2>3. flow'[c].at = "relay" /\ \A d \in Flows : d # c => flow'[d] = flow[d]
      BY <1>0, <2>2 DEF FlowRecord
    <2> QED BY <1>0, <2>2, <2>3, QuietKeeps DEF Recorded
  <1>5. CASE DialFails(c)
    <2>1. PICK left : left = flow[c].left \ {Min(flow[c].left)}
      OBVIOUS
    <2>2. flow[c].at = "dial" /\ flow' = [flow EXCEPT ![c].left = left]
      BY <1>5, <2>1 DEF DialFails, at
    <2>3. flow'[c].at = "dial" /\ \A d \in Flows : d # c => flow'[d] = flow[d]
      BY <1>0, <2>2 DEF FlowRecord
    <2> QED BY <1>0, <2>2, <2>3, QuietKeeps DEF Recorded
  <1>6. CASE \E e \in Ends : Receive(c, e) \/ SendOn(c, e) \/ SendFails(c, e) \/ Sends(c, e) \/ Closes(c, e)
    <2>1. flow[c].at = "relay" /\ (Go(c, "ended") \/ UNCHANGED flow)
      BY <1>6 DEF Receive, SendOn, SendFails, Sends, Closes, at
    <2>2. CASE UNCHANGED flow
      BY <1>0, <2>1, <2>2, QuietKeeps DEF Recorded
    <2> QED BY <1>1, <2>1, <2>2
  <1> QED BY <1>2, <1>3, <1>4, <1>5, <1>6

LEMMA RecordsInit == Init => RecordsHold
  <1> SUFFICES ASSUME Init PROVE RecordsHold
    OBVIOUS
  <1>1. /\ flow = [c \in Flows |-> NewFlow] /\ log = <<>>
        /\ backlog = [k \in Collectors |-> <<>>] /\ taken = [k \in Collectors |-> <<>>]
    BY DEF Init
  <1>2. LogIsList
    BY <1>1 DEF LogIsList
  <1>3. \A c \in Flows : RecordHolds(c)
    BY <1>1 DEF RecordHolds, Recorded, NewFlow, facts_of
  <1>4. QueuesHold
    <2>1. \A c \in Flows, k \in Collectors : ~Waiting(c, k) /\ taken[k] # <<c>>
      BY <1>1 DEF Waiting
    <2>2. \A k \in Collectors : QueueHolds(k)
      BY <1>1 DEF QueueHolds
    <2> QED BY <1>1, <2>1, <2>2 DEF QueuesHold, PlaceHolds
  <1> QED BY <1>2, <1>3, <1>4 DEF RecordsHold

LEMMA RecordsStep == FlowsHold /\ RecordsHold /\ [Next]_vars => RecordsHold'
  <1> SUFFICES ASSUME FlowsHold, RecordsHold, [Next]_vars PROVE RecordsHold'
    OBVIOUS
  <1>1. CASE \E c \in Flows : Open(c)
    BY <1>1, OpenRecords
  <1>2. CASE \E c \in Flows : Handle(c)
    BY <1>2, GatewayRecords, QuietRecords DEF Handle
  <1>3. CASE \E c \in Flows, e \in Ends : Sends(c, e) \/ Closes(c, e)
    BY <1>3, QuietRecords
  <1>4. CASE \E k \in Collectors : Collector(k)
    BY <1>4, AcceptRecords, CollectRecords, CloseRecords DEF Collector
  <1>5. CASE UNCHANGED vars
    <2>1. UNCHANGED <<flow, log, backlog, taken>>
      BY <1>5 DEF vars
    <2>2. \A c \in Flows : RecordHolds(c)'
      BY <2>1 DEF RecordsHold, RecordHolds, facts_of, permitted
    <2>3. \A c, k : Waiting(c, k)' = Waiting(c, k)
      BY <2>1 DEF Waiting
    <2>4. \A k \in Collectors : QueueHolds(k)'
      BY <2>1 DEF RecordsHold, QueuesHold, QueueHolds
    <2>5. \A c \in Flows, k \in Collectors : PlaceHolds(c, k)'
      BY <2>1, <2>3 DEF RecordsHold, QueuesHold, PlaceHolds
    <2>6. QueuesHold'
      BY <2>1, <2>4, <2>5 DEF RecordsHold, QueuesHold
    <2> QED BY <2>1, <2>2, <2>6 DEF RecordsHold, LogIsList
  <1> QED BY <1>1, <1>2, <1>3, <1>4, <1>5 DEF Next

(* A refusal is on record before the agent can notice it, once, and a flow *)
(* that was carried never is: each refusal of the gateway emits its fact   *)
(* first, and a collector closes what it took after its fact.              *)
THEOREM EgressRefusalsAreOnRecord == Spec => []RefusalsAreOnRecord
  <1>1. RecordsHold => RefusalsAreOnRecord
    <2> SUFFICES ASSUME RecordsHold, NEW c \in Flows
                 PROVE  /\ at(c, "refused") => Cardinality(facts_of(c)) = 1 /\ ~permitted(c)
                        /\ flow[c].at \in {"relay", "ended", "unreachable"} => facts_of(c) = {}
      BY DEF RefusalsAreOnRecord
    <2>1. RecordHolds(c)
      BY DEF RecordsHold
    <2>2. \A n : Cardinality({n}) = 1
      BY FS_Singleton
    <2> QED BY <2>1, <2>2 DEF RecordHolds, Recorded, at
  <1>2. Spec => []RecordsHold
    BY RecordsInit, RecordsStep, FlowsAlwaysHold, PTL DEF Spec
  <1> QED BY <1>1, <1>2, PTL


-----------------------------------------------------------------------------
(* The tunnel: what one end sent is with the other, or in the gateway, in  *)
(* the order it was sent in.                                               *)
Chunks == Seq({"hello"} \cup (Ends \X Nat))

Tunnels == [sent : [Ends -> Chunks], inbox : [Ends -> Chunks], holds : [Ends -> Chunks],
            got : [Ends -> Chunks], closed : [Ends -> BOOLEAN]]

HelloRead == [NoTunnel EXCEPT !.sent = [e \in Ends |-> IF e = "client" THEN <<"hello">> ELSE <<>>]]

Piped(t)   == \A e \in Ends : IsPrefix(t.got[Other(e)], t.sent[e])
Pumping(t) == \A e \in Ends : t.sent[e] = t.got[Other(e)] \o (t.holds[e] \o t.inbox[e])

Early == {"none", "gateway", "hello"}

TunnelHolds(c) ==
  /\ Piped(tunnel[c])
  /\ flow[c].at \in Early => tunnel[c] = NoTunnel
  /\ flow[c].at \in {"resolve", "dial"} => tunnel[c] = HelloRead
  /\ flow[c].at = "relay" => Pumping(tunnel[c])

TunnelsHold == tunnel \in [Flows -> Tunnels] /\ \A c \in Flows : TunnelHolds(c)

(* What a sequence starts with is a prefix of it. *)
LEMMA FrontIsPrefix ==
  ASSUME NEW S, NEW s \in Seq(S), NEW r \in Seq(S)
  PROVE  IsPrefix(s, s \o r)
  <1>1. Len(s) \in Nat /\ Len(r) \in Nat /\ Len(s \o r) = Len(s) + Len(r)
    BY ConcatProperties, LenProperties
  <1>2. CASE Len(s) = 0
    <2>1. SubSeq(s, 1, Len(s)) = <<>> /\ SubSeq(s \o r, 1, Len(s)) = <<>>
      BY <1>2, SubSeqEmpty
    <2> QED BY <1>1, <2>1 DEF IsPrefix
  <1>3. CASE Len(s) # 0
    <2>1. 1 \in 1..Len(s) /\ Len(s) \in 1..Len(s)
      BY <1>1, <1>3
    <2>2. SubSeq(s \o r, 1, Len(s)) = SubSeq(s, 1, Len(s))
      BY <2>1, SubSeqOfConcat1
    <2> QED BY <1>1, <2>2 DEF IsPrefix
  <1> QED BY <1>2, <1>3

LEMMA PumpingIsPiped ==
  ASSUME NEW t \in Tunnels, Pumping(t)
  PROVE  Piped(t)
  <1> SUFFICES ASSUME NEW e \in Ends PROVE IsPrefix(t.got[Other(e)], t.sent[e])
    BY DEF Piped
  <1>1. /\ t.got[Other(e)] \in Chunks /\ t.holds[e] \in Chunks /\ t.inbox[e] \in Chunks
    BY DEF Tunnels, Ends, Other
  <1>2. t.holds[e] \o t.inbox[e] \in Chunks
    BY <1>1, ConcatProperties DEF Chunks
  <1> QED BY <1>1, <1>2, FrontIsPrefix DEF Pumping, Chunks

(* A step leaves the tunnels alone, and no flow is sooner than it was. *)
LEMMA TunnelsLeftAlone ==
  ASSUME TunnelsHold, UNCHANGED tunnel,
         \A d \in Flows : \/ flow'[d].at = flow[d].at
                          \/ flow'[d].at \in Early /\ flow[d].at \in Early
                          \/ flow'[d].at = "dial" /\ flow[d].at = "resolve"
                          \/ flow'[d].at \notin Early \cup {"resolve", "dial", "relay"}
  PROVE  TunnelsHold'
  <1>1. ASSUME NEW d \in Flows PROVE TunnelHolds(d)'
    <2>1. TunnelHolds(d) /\ tunnel'[d] = tunnel[d]
      BY DEF TunnelsHold
    <2> QED BY <2>1 DEF TunnelHolds, Early
  <1> QED BY <1>1 DEF TunnelsHold

(* A step is about the tunnel of one flow. *)
LEMMA TunnelMoves ==
  ASSUME TunnelsHold, NEW c \in Flows, NEW t \in Tunnels, tunnel' = [tunnel EXCEPT ![c] = t],
         \A d \in Flows : d # c => flow'[d] = flow[d],
         \/ flow'[c].at = "resolve" /\ t = HelloRead /\ Piped(t)
         \/ flow'[c].at = "relay" /\ Pumping(t)
         \/ flow'[c].at = "ended" /\ Piped(t)
  PROVE  TunnelsHold'
  <1>1. tunnel' \in [Flows -> Tunnels] /\ tunnel'[c] = t /\ \A d \in Flows : d # c => tunnel'[d] = tunnel[d]
    BY DEF TunnelsHold
  <1>2. Piped(t)
    BY PumpingIsPiped
  <1>3. TunnelHolds(c)'
    BY <1>1, <1>2 DEF TunnelHolds, Early
  <1>4. ASSUME NEW d \in Flows, d # c PROVE TunnelHolds(d)'
    BY <1>1, <1>4 DEF TunnelsHold, TunnelHolds
  <1> QED BY <1>1, <1>3, <1>4 DEF TunnelsHold

LEMMA TunnelShapes ==
  /\ NoTunnel \in Tunnels /\ Piped(NoTunnel)
  /\ HelloRead \in Tunnels /\ Piped(HelloRead)
  /\ <<"hello">> \in Chunks /\ <<>> \in Chunks
  <1>1. <<"hello">> \in Chunks /\ <<>> \in Chunks
    BY DEF Chunks
  <1>2. NoTunnel \in Tunnels /\ HelloRead \in Tunnels
    BY <1>1 DEF NoTunnel, HelloRead, Tunnels, Ends
  <1>3. \A s \in Chunks : IsPrefix(<<>>, s)
    <2> SUFFICES ASSUME NEW s \in Chunks PROVE IsPrefix(<<>>, s)
      OBVIOUS
    <2>1. <<>> \o s = s
      BY ConcatEmptySeq DEF Chunks
    <2>2. IsPrefix(<<>>, <<>> \o s)
      BY <1>1, FrontIsPrefix DEF Chunks
    <2> QED BY <2>1, <2>2
  <1>4. \A e \in Ends : /\ NoTunnel.got[Other(e)] = <<>> /\ HelloRead.got[Other(e)] = <<>>
                        /\ NoTunnel.sent[e] \in Chunks /\ HelloRead.sent[e] \in Chunks
    BY <1>1 DEF NoTunnel, HelloRead, Ends, Other
  <1> QED BY <1>1, <1>2, <1>3, <1>4 DEF Piped

LEMMA HelloTunnel ==
  ASSUME FlowsHold, TunnelsHold, NEW c \in Flows, ReadHello(c)
  PROVE  TunnelsHold'
  <1>1. flow[c].at = "hello" /\ tunnel[c] = NoTunnel
    BY DEF ReadHello, at, TunnelsHold, TunnelHolds, Early
  <1>2. PICK name \in Names :
             \/ /\ flow' = [flow EXCEPT ![c].at = "resolve", ![c].sni = Canonical[name]]
                /\ tunnel' = [tunnel EXCEPT ![c].sent.client = <<"hello">>]
             \/ /\ flow' = [flow EXCEPT ![c].at = "recorded", ![c].sni = Canonical[name]]
                /\ UNCHANGED tunnel
    BY DEF ReadHello
  <1>3. PICK sni : sni = Canonical[name]
    OBVIOUS
  <1>4. ASSUME NEW place, flow' = [flow EXCEPT ![c].at = place, ![c].sni = sni]
        PROVE  flow'[c].at = place /\ \A d \in Flows : d # c => flow'[d] = flow[d]
    BY <1>4 DEF FlowsHold, Shape, FlowRecord
  <1>5. CASE /\ flow' = [flow EXCEPT ![c].at = "resolve", ![c].sni = sni]
             /\ tunnel' = [tunnel EXCEPT ![c].sent.client = <<"hello">>]
    <2>1. flow'[c].at = "resolve" /\ \A d \in Flows : d # c => flow'[d] = flow[d]
      BY <1>4, <1>5
    <2>2. [tunnel[c] EXCEPT !.sent.client = <<"hello">>] = HelloRead
      BY <1>1 DEF HelloRead, NoTunnel, Ends
    <2>3. tunnel' = [tunnel EXCEPT ![c] = HelloRead]
      BY <1>5, <2>2
    <2> QED BY <2>1, <2>3, TunnelMoves, TunnelShapes
  <1>6. CASE flow' = [flow EXCEPT ![c].at = "recorded", ![c].sni = sni] /\ UNCHANGED tunnel
    <2>1. flow'[c].at = "recorded" /\ \A d \in Flows : d # c => flow'[d] = flow[d]
      BY <1>4, <1>6
    <2> QED BY <1>6, <2>1, TunnelsLeftAlone DEF Early
  <1> QED BY <1>2, <1>3, <1>5, <1>6

LEMMA DialledTunnel ==
  ASSUME FlowsHold, TunnelsHold, NEW c \in Flows, Dialled(c)
  PROVE  TunnelsHold'
  <1>1. flow[c].at = "dial" /\ tunnel[c] = HelloRead
    BY DEF Dialled, at, TunnelsHold, TunnelHolds
  <1>2. PICK upstream : upstream = next_address(c)
    OBVIOUS
  <1>3. flow' = [flow EXCEPT ![c].at = "relay", ![c].upstream = upstream]
    BY <1>2 DEF Dialled
  <1>4. flow'[c].at = "relay" /\ \A d \in Flows : d # c => flow'[d] = flow[d]
    BY <1>3 DEF FlowsHold, Shape, FlowRecord
  <1>5. PICK t : t = [HelloRead EXCEPT !.got.upstream = <<"hello">>]
    OBVIOUS
  <1>6. tunnel' = [tunnel EXCEPT ![c] = t]
    BY <1>1, <1>5 DEF Dialled
  <1>7. /\ t.sent = [e \in Ends |-> IF e = "client" THEN <<"hello">> ELSE <<>>]
        /\ t.got  = [e \in Ends |-> IF e = "upstream" THEN <<"hello">> ELSE <<>>]
        /\ t.inbox = [e \in Ends |-> <<>>] /\ t.holds = [e \in Ends |-> <<>>]
        /\ t.closed = [e \in Ends |-> FALSE]
        /\ t = [sent |-> t.sent, inbox |-> t.inbox, holds |-> t.holds, got |-> t.got, closed |-> t.closed]
    BY <1>5 DEF HelloRead, NoTunnel, Ends
  <1>8. t \in Tunnels
    <2>1. t.sent \in [Ends -> Chunks] /\ t.got \in [Ends -> Chunks] /\ t.inbox \in [Ends -> Chunks]
          /\ t.holds \in [Ends -> Chunks] /\ t.closed \in [Ends -> BOOLEAN]
      BY <1>7, TunnelShapes
    <2> QED BY <1>7, <2>1 DEF Tunnels
  <1>9. Pumping(t)
    <2>1. \A s \in Chunks : s \o (<<>> \o <<>>) = s
      BY TunnelShapes, ConcatEmptySeq DEF Chunks
    <2>2. \A e \in Ends : t.got[Other(e)] = t.sent[e] /\ t.holds[e] = <<>> /\ t.inbox[e] = <<>>
      BY <1>7 DEF Ends, Other
    <2>3. \A e \in Ends : t.sent[e] \in Chunks
      BY <1>7, TunnelShapes
    <2> QED BY <2>1, <2>2, <2>3 DEF Pumping
  <1> QED BY <1>4, <1>6, <1>8, <1>9, TunnelMoves

(* The parts of a tunnel with one of them changed. *)
LEMMA TunnelParts ==
  ASSUME NEW t \in Tunnels, NEW e \in Ends, NEW s \in Chunks
  PROVE  /\ t.sent[e] \in Chunks /\ t.inbox[e] \in Chunks /\ t.holds[e] \in Chunks
         /\ t.got[e] \in Chunks /\ t.got[Other(e)] \in Chunks
         /\ Other(e) \in Ends /\ Other(e) # e /\ \A x \in Ends : Other(x) = Other(e) => x = e
  BY DEF Tunnels, Ends, Other

LEMMA ClosesTunnel ==
  ASSUME FlowsHold, TunnelsHold, NEW c \in Flows, NEW e \in Ends, Closes(c, e)
  PROVE  TunnelsHold'
  <1>1. /\ flow[c].at = "relay" /\ UNCHANGED flow /\ tunnel[c] \in Tunnels /\ Pumping(tunnel[c])
        /\ tunnel' = [tunnel EXCEPT ![c].closed[e] = TRUE]
    BY DEF Closes, at, TunnelsHold, TunnelHolds
  <1>2. PICK t : t = [tunnel[c] EXCEPT !.closed[e] = TRUE]
    OBVIOUS
  <1>3. tunnel' = [tunnel EXCEPT ![c] = t]
    BY <1>1, <1>2
  <1>4. /\ t \in Tunnels /\ t.sent = tunnel[c].sent /\ t.inbox = tunnel[c].inbox
        /\ t.holds = tunnel[c].holds /\ t.got = tunnel[c].got
    BY <1>1, <1>2 DEF Tunnels
  <1>5. Pumping(t)
    BY <1>1, <1>4 DEF Pumping
  <1> QED BY <1>1, <1>3, <1>4, <1>5, TunnelMoves

LEMMA SendsTunnel ==
  ASSUME FlowsHold, TunnelsHold, NEW c \in Flows, NEW e \in Ends, Sends(c, e)
  PROVE  TunnelsHold'
  <1>1. flow[c].at = "relay" /\ UNCHANGED flow /\ tunnel[c] \in Tunnels /\ Pumping(tunnel[c])
    BY DEF Sends, at, TunnelsHold, TunnelHolds
  <1>2. PICK chunk : chunk = <<e, Len(tunnel[c].sent[e])>>
    OBVIOUS
  <1>3. tunnel' = [tunnel EXCEPT ![c].sent[e] = Append(@, chunk), ![c].inbox[e] = Append(@, chunk)]
    BY <1>2 DEF Sends
  <1>4. PICK sent, inbox : sent = Append(tunnel[c].sent[e], chunk) /\ inbox = Append(tunnel[c].inbox[e], chunk)
    OBVIOUS
  <1>5. PICK t : t = [tunnel[c] EXCEPT !.sent[e] = sent, !.inbox[e] = inbox]
    OBVIOUS
  <1>6. tunnel' = [tunnel EXCEPT ![c] = t]
    BY <1>1, <1>3, <1>4, <1>5 DEF Tunnels
  <1>7. /\ tunnel[c].sent[e] \in Chunks /\ tunnel[c].inbox[e] \in Chunks /\ tunnel[c].holds[e] \in Chunks
        /\ tunnel[c].got[Other(e)] \in Chunks
    BY <1>1, TunnelParts, TunnelShapes
  <1>8. chunk \in {"hello"} \cup (Ends \X Nat)
    BY <1>2, <1>7, LenProperties DEF Chunks
  <1>9. sent \in Chunks /\ inbox \in Chunks
    BY <1>4, <1>7, <1>8, AppendProperties DEF Chunks
  <1>10. /\ t \in Tunnels /\ t.sent[e] = sent /\ t.inbox[e] = inbox
         /\ t.holds = tunnel[c].holds /\ t.got = tunnel[c].got
         /\ \A x \in Ends : x # e => t.sent[x] = tunnel[c].sent[x] /\ t.inbox[x] = tunnel[c].inbox[x]
    BY <1>1, <1>5, <1>9 DEF Tunnels
  <1>11. sent = tunnel[c].got[Other(e)] \o (tunnel[c].holds[e] \o inbox)
    <2> DEFINE C == {"hello"} \cup (Ends \X Nat)
               one == <<chunk>>
               got == tunnel[c].got[Other(e)]
               holds == tunnel[c].holds[e]
               box == tunnel[c].inbox[e]
    <2>1. /\ got \in Seq(C) /\ holds \in Seq(C) /\ box \in Seq(C) /\ tunnel[c].sent[e] \in Seq(C)
          /\ chunk \in C /\ one \in Seq(C)
      BY <1>7, <1>8 DEF Chunks
    <2>2. sent = tunnel[c].sent[e] \o one /\ inbox = box \o one
      BY <1>4, <2>1, AppendIsConcat
    <2>3. tunnel[c].sent[e] = got \o (holds \o box)
      BY <1>1 DEF Pumping
    <2> HIDE DEF C, one, got, holds, box
    <2>4. holds \o box \in Seq(C)
      BY <2>1, ConcatProperties
    <2>5. (got \o (holds \o box)) \o one = got \o ((holds \o box) \o one)
      BY <2>1, <2>4, ConcatAssociative
    <2>6. (holds \o box) \o one = holds \o (box \o one)
      BY <2>1, ConcatAssociative
    <2>7. sent = got \o (holds \o inbox)
      BY <2>2, <2>3, <2>5, <2>6
    <2> QED BY <2>7 DEF got, holds
  <1>12. Pumping(t)
    BY <1>1, <1>10, <1>11 DEF Pumping
  <1> QED BY <1>1, <1>6, <1>10, <1>12, TunnelMoves

LEMMA ReceiveTunnel ==
  ASSUME FlowsHold, TunnelsHold, NEW c \in Flows, NEW e \in Ends, Receive(c, e)
  PROVE  TunnelsHold'
  <1>1. flow[c].at = "relay" /\ tunnel[c] \in Tunnels /\ Pumping(tunnel[c]) /\ tunnel[c].holds[e] = <<>>
    BY DEF Receive, at, holding, TunnelsHold, TunnelHolds
  <1>2. CASE Go(c, "ended") /\ UNCHANGED tunnel
    <2>1. flow'[c].at = "ended" /\ \A d \in Flows : d # c => flow'[d] = flow[d]
      BY <1>2, GoIs DEF FlowsHold
    <2> QED BY <1>2, <2>1, TunnelsLeftAlone DEF Early
  <1>3. CASE /\ tunnel' = [tunnel EXCEPT ![c].holds[e] = tunnel[c].inbox[e], ![c].inbox[e] = <<>>]
             /\ UNCHANGED flow
    <2>1. PICK inbox : inbox = tunnel[c].inbox[e]
      OBVIOUS
    <2>2. PICK t : t = [tunnel[c] EXCEPT !.holds[e] = inbox, !.inbox[e] = <<>>]
      OBVIOUS
    <2>3. tunnel' = [tunnel EXCEPT ![c] = t]
      BY <1>1, <1>3, <2>1, <2>2 DEF Tunnels
    <2>4. inbox \in Chunks /\ <<>> \in Chunks
      BY <1>1, <2>1, TunnelParts, TunnelShapes
    <2>5. /\ t \in Tunnels /\ t.holds[e] = inbox /\ t.inbox[e] = <<>>
          /\ t.sent = tunnel[c].sent /\ t.got = tunnel[c].got
          /\ \A x \in Ends : x # e => t.holds[x] = tunnel[c].holds[x] /\ t.inbox[x] = tunnel[c].inbox[x]
      BY <1>1, <2>2, <2>4 DEF Tunnels
    <2>6. inbox \o <<>> = <<>> \o inbox
      BY <2>4, ConcatEmptySeq DEF Chunks
    <2>7. Pumping(t)
      BY <1>1, <2>1, <2>5, <2>6 DEF Pumping
    <2> QED BY <1>1, <1>3, <2>3, <2>5, <2>7, TunnelMoves
  <1> QED BY <1>2, <1>3 DEF Receive

LEMMA ChunksAssociate ==
  ASSUME NEW s \in Chunks, NEW r \in Chunks, NEW u \in Chunks
  PROVE  (s \o r) \o u = s \o (r \o u)
  BY ConcatAssociative DEF Chunks

LEMMA SendOnTunnel ==
  ASSUME FlowsHold, TunnelsHold, NEW c \in Flows, NEW e \in Ends, SendOn(c, e)
  PROVE  TunnelsHold'
  <1>1. flow[c].at = "relay" /\ UNCHANGED flow /\ tunnel[c] \in Tunnels /\ Pumping(tunnel[c])
    BY DEF SendOn, at, TunnelsHold, TunnelHolds
  <1>2. PICK got : got = tunnel[c].got[Other(e)] \o tunnel[c].holds[e]
    OBVIOUS
  <1>3. PICK t : t = [tunnel[c] EXCEPT !.got[Other(e)] = got, !.holds[e] = <<>>]
    OBVIOUS
  <1>4. tunnel' = [tunnel EXCEPT ![c] = t]
    BY <1>1, <1>2, <1>3 DEF SendOn, Tunnels
  <1>5. /\ tunnel[c].got[Other(e)] \in Chunks /\ tunnel[c].holds[e] \in Chunks /\ tunnel[c].inbox[e] \in Chunks
        /\ <<>> \in Chunks /\ Other(e) \in Ends /\ \A x \in Ends : Other(x) = Other(e) => x = e
    BY <1>1, TunnelParts, TunnelShapes
  <1>6. got \in Chunks
    BY <1>2, <1>5, ConcatProperties DEF Chunks
  <1>7. /\ t \in Tunnels /\ t.got[Other(e)] = got /\ t.holds[e] = <<>>
        /\ t.sent = tunnel[c].sent /\ t.inbox = tunnel[c].inbox
        /\ \A x \in Ends : x # e => t.holds[x] = tunnel[c].holds[x]
        /\ \A x \in Ends : x # Other(e) => t.got[x] = tunnel[c].got[x]
    BY <1>1, <1>3, <1>5, <1>6 DEF Tunnels
  <1>8. tunnel[c].sent[e] = got \o (<<>> \o tunnel[c].inbox[e])
    <2>1. <<>> \o tunnel[c].inbox[e] = tunnel[c].inbox[e]
      BY <1>5, ConcatEmptySeq DEF Chunks
    <2>2. got \o tunnel[c].inbox[e]
            = tunnel[c].got[Other(e)] \o (tunnel[c].holds[e] \o tunnel[c].inbox[e])
      <3>1. PICK a \in Chunks : a = tunnel[c].got[Other(e)]
        BY <1>5
      <3>2. PICK h \in Chunks : h = tunnel[c].holds[e]
        BY <1>5
      <3>3. PICK b \in Chunks : b = tunnel[c].inbox[e]
        BY <1>5
      <3>4. (a \o h) \o b = a \o (h \o b)
        BY ChunksAssociate
      <3> QED BY <1>2, <3>1, <3>2, <3>3, <3>4
    <2> QED BY <1>1, <2>1, <2>2 DEF Pumping
  <1>9. ASSUME NEW x \in Ends, x # e
        PROVE  t.sent[x] = t.got[Other(x)] \o (t.holds[x] \o t.inbox[x])
    <2>1. Other(x) \in Ends /\ Other(x) # Other(e)
      BY <1>5, <1>9 DEF Other, Ends
    <2> QED BY <1>1, <1>7, <1>9, <2>1 DEF Pumping
  <1>10. Pumping(t)
    BY <1>7, <1>8, <1>9 DEF Pumping
  <1> QED BY <1>1, <1>4, <1>7, <1>10, TunnelMoves

(* What was sent on of a chunk that was cut short. *)
LEMMA CutIsPrefix ==
  ASSUME NEW got \in Chunks, NEW front \in Chunks, NEW rest \in Chunks, NEW box \in Chunks
  PROVE  IsPrefix(got \o front, got \o ((front \o rest) \o box))
  <1>1. PICK r \in Chunks : r = rest \o box
    BY ConcatProperties DEF Chunks
  <1>2. (front \o rest) \o box = front \o r
    <2>1. (front \o rest) \o box = front \o (rest \o box)
      BY ChunksAssociate
    <2> QED BY <1>1, <2>1
  <1>3. (got \o front) \o r = got \o (front \o r)
    BY ChunksAssociate
  <1>4. got \o front \in Chunks
    BY ConcatProperties DEF Chunks
  <1> QED BY <1>2, <1>3, <1>4, FrontIsPrefix DEF Chunks

LEMMA SendFailsTunnel ==
  ASSUME FlowsHold, TunnelsHold, NEW c \in Flows, NEW e \in Ends, SendFails(c, e)
  PROVE  TunnelsHold'
  <1>1. /\ flow[c].at = "relay" /\ tunnel[c] \in Tunnels /\ Pumping(tunnel[c]) /\ Piped(tunnel[c])
        /\ Go(c, "ended")
    BY DEF SendFails, at, TunnelsHold, TunnelHolds
  <1>2. flow'[c].at = "ended" /\ \A d \in Flows : d # c => flow'[d] = flow[d]
    BY <1>1, GoIs DEF FlowsHold
  <1>3. PICK n \in 0..(Len(tunnel[c].holds[e]) - 1) :
          tunnel' = [tunnel EXCEPT ![c].got[Other(e)] = @ \o SubSeq(tunnel[c].holds[e], 1, n), ![c].holds[e] = <<>>]
    BY DEF SendFails
  <1>4. PICK front, rest : /\ front = SubSeq(tunnel[c].holds[e], 1, n)
                           /\ rest = SubSeq(tunnel[c].holds[e], n + 1, Len(tunnel[c].holds[e]))
    OBVIOUS
  <1>5. PICK got : got = tunnel[c].got[Other(e)] \o front
    OBVIOUS
  <1>6. PICK t : t = [tunnel[c] EXCEPT !.got[Other(e)] = got, !.holds[e] = <<>>]
    OBVIOUS
  <1>7. tunnel' = [tunnel EXCEPT ![c] = t]
    BY <1>1, <1>3, <1>4, <1>5, <1>6 DEF Tunnels
  <1>8. /\ tunnel[c].got[Other(e)] \in Chunks /\ tunnel[c].holds[e] \in Chunks /\ tunnel[c].inbox[e] \in Chunks
        /\ <<>> \in Chunks /\ Other(e) \in Ends /\ \A x \in Ends : Other(x) = Other(e) => x = e
    BY <1>1, TunnelParts, TunnelShapes
  <1>9. front \in Chunks /\ rest \in Chunks /\ tunnel[c].holds[e] = front \o rest
    <2> DEFINE C == {"hello"} \cup (Ends \X Nat)
               s == tunnel[c].holds[e]
    <2>1. /\ s \in Seq(C) /\ Len(s) \in Nat /\ DOMAIN s = 1..Len(s) /\ \A i \in 1..Len(s) : s[i] \in C
      BY <1>8, LenProperties, ElementOfSeq DEF Chunks
    <2>2. n \in Int /\ n >= 0 /\ n <= Len(s)
      BY <1>3, <2>1
    <2>3. front = SubSeq(s, 1, n) /\ rest = SubSeq(s, n + 1, Len(s))
      BY <1>4
    <2> HIDE DEF s, C
    <2>4. front \in Seq(C)
      <3>1. \A i \in 1..n : s[i] \in C
        BY <2>1, <2>2
      <3> QED BY <2>2, <2>3, <3>1, SubSeqProperties
    <2>5. rest \in Seq(C)
      <3>1. \A i \in (n + 1)..Len(s) : s[i] \in C
        BY <2>1, <2>2
      <3>2. n + 1 \in Int /\ Len(s) \in Int
        BY <2>1, <2>2
      <3> QED BY <2>3, <3>1, <3>2, SubSeqProperties
    <2>6. SubSeq(s, 1, n) \o SubSeq(s, n + 1, Len(s)) = SubSeq(s, 1, Len(s))
      <3>1. 1 \in 1..(Len(s) + 1) /\ n \in (1 - 1)..Len(s) /\ Len(s) \in n..Len(s)
        BY <2>1, <2>2
      <3> QED BY <2>1, <3>1, ConcatAdjacentSubSeq
    <2>7. SubSeq(s, 1, Len(s)) = s
      BY <2>1, SubSeqFull
    <2> QED BY <2>3, <2>4, <2>5, <2>6, <2>7 DEF s, C, Chunks
  <1>10. got \in Chunks
    BY <1>5, <1>8, <1>9, ConcatProperties DEF Chunks
  <1>11. /\ t \in Tunnels /\ t.got[Other(e)] = got /\ t.sent = tunnel[c].sent
         /\ \A x \in Ends : x # Other(e) => t.got[x] = tunnel[c].got[x]
    BY <1>1, <1>6, <1>8, <1>10 DEF Tunnels
  <1>12. IsPrefix(got, tunnel[c].sent[e])
    <2>1. tunnel[c].sent[e] = tunnel[c].got[Other(e)] \o ((front \o rest) \o tunnel[c].inbox[e])
      BY <1>1, <1>9 DEF Pumping
    <2> QED BY <1>5, <1>8, <1>9, <2>1, CutIsPrefix
  <1>13. ASSUME NEW x \in Ends, x # e PROVE IsPrefix(t.got[Other(x)], t.sent[x])
    <2>1. Other(x) \in Ends /\ Other(x) # Other(e)
      BY <1>8, <1>13 DEF Other, Ends
    <2> QED BY <1>1, <1>11, <1>13, <2>1 DEF Piped
  <1>14. Piped(t)
    BY <1>11, <1>12, <1>13 DEF Piped
  <1> QED BY <1>2, <1>7, <1>11, <1>14, TunnelMoves

(* The other steps leave the tunnels alone. *)
LEMMA OtherTunnels ==
  ASSUME FlowsHold, TunnelsHold, NEW c \in Flows,
         \/ Open(c) \/ Connect(c) \/ Resolve(c) \/ DialFails(c)
  PROVE  TunnelsHold'
  <1>1. /\ UNCHANGED tunnel /\ FlowRecord(flow[c]) /\ flow = [d \in Flows |-> flow[d]]
    BY DEF Open, Connect, Resolve, DialFails, FlowsHold, Shape
  <1>2. ASSUME NEW was \in Early, flow[c].at = was, NEW place, place \notin {"resolve", "dial", "relay"},
               flow'[c].at = place, \A d \in Flows : d # c => flow'[d] = flow[d]
        PROVE  TunnelsHold'
    BY <1>1, <1>2, TunnelsLeftAlone DEF Early
  <1>3. CASE Open(c)
    <2>1. PICK p \in Packets, place \in {"gateway", "agent", "rejected", "outside", "queued"} :
            flow' = [flow EXCEPT ![c].packet = p, ![c].at = place]
      BY <1>3 DEF Open
    <2>2. flow'[c].at = place /\ \A d \in Flows : d # c => flow'[d] = flow[d]
      BY <1>1, <2>1 DEF FlowRecord
    <2>3. flow[c].at = "none" /\ "none" \in Early
      BY <1>3 DEF Open, at, Early
    <2> QED BY <1>2, <2>2, <2>3
  <1>4. CASE Connect(c)
    <2>1. PICK name \in Names, port \in Ports, place \in {"hello", "recorded"} :
            flow' = [flow EXCEPT ![c].at = place, ![c].name = name, ![c].port = port]
      BY <1>4 DEF Connect
    <2>2. flow'[c].at = place /\ \A d \in Flows : d # c => flow'[d] = flow[d]
      BY <1>1, <2>1 DEF FlowRecord
    <2>3. flow[c].at = "gateway" /\ "gateway" \in Early
      BY <1>4 DEF Connect, at, Early
    <2> QED BY <1>2, <2>2, <2>3
  <1>5. CASE Resolve(c)
    <2>1. PICK answers \in Answers :
            \/ flow' = [flow EXCEPT ![c].at = "dial", ![c].answers = answers, ![c].left = distinct(answers)]
            \/ flow' = [flow EXCEPT ![c].at = "recorded", ![c].answers = answers]
      BY <1>5 DEF Resolve
    <2>2. PICK left : left = distinct(answers)
      OBVIOUS
    <2>3. CASE flow' = [flow EXCEPT ![c].at = "dial", ![c].answers = answers, ![c].left = left]
      <3>1. flow'[c].at = "dial" /\ \A d \in Flows : d # c => flow'[d] = flow[d]
        BY <1>1, <2>3 DEF FlowRecord
      <3>2. flow[c].at = "resolve"
        BY <1>5 DEF Resolve, at
      <3> QED BY <1>1, <3>1, <3>2, TunnelsLeftAlone
    <2>4. CASE flow' = [flow EXCEPT ![c].at = "recorded", ![c].answers = answers]
      <3>1. flow'[c].at = "recorded" /\ \A d \in Flows : d # c => flow'[d] = flow[d]
        BY <1>1, <2>4 DEF FlowRecord
      <3> QED BY <1>1, <3>1, TunnelsLeftAlone DEF Early
    <2> QED BY <2>1, <2>2, <2>3, <2>4
  <1>6. CASE DialFails(c)
    <2>1. PICK left : left = flow[c].left \ {Min(flow[c].left)}
      OBVIOUS
    <2>2. flow' = [flow EXCEPT ![c].left = left]
      BY <1>6, <2>1 DEF DialFails
    <2>3. \A d \in Flows : flow'[d].at = flow[d].at
      BY <1>1, <2>2 DEF FlowRecord, FlowsHold, Shape
    <2> QED BY <1>1, <2>3, TunnelsLeftAlone
  <1> QED BY <1>3, <1>4, <1>5, <1>6

LEMMA OverTunnels ==
  ASSUME FlowsHold, TunnelsHold, UNCHANGED tunnel, NEW c, NEW place \in Over, Go(c, place)
  PROVE  TunnelsHold'
  <1>1. \A d \in Flows : d # c => flow'[d] = flow[d]
    BY DEF Go, FlowsHold, Shape
  <1>2. c \in Flows => flow'[c].at = place
    BY GoIs DEF FlowsHold
  <1>3. place \notin Early \cup {"resolve", "dial", "relay"}
    BY DEF Over, Early
  <1> QED BY <1>1, <1>2, <1>3, TunnelsLeftAlone

LEMMA TunnelsInit == Init => TunnelsHold
  <1> SUFFICES ASSUME Init PROVE TunnelsHold
    OBVIOUS
  <1>1. flow = [c \in Flows |-> NewFlow] /\ tunnel = [c \in Flows |-> NoTunnel] /\ NewFlow.at = "none"
    BY DEF Init, NewFlow
  <1>2. \A c \in Flows : TunnelHolds(c)
    BY <1>1, TunnelShapes DEF TunnelHolds
  <1> QED BY <1>1, <1>2, TunnelShapes DEF TunnelsHold

LEMMA TunnelsStep == FlowsHold /\ TunnelsHold /\ [Next]_vars => TunnelsHold'
  <1> SUFFICES ASSUME FlowsHold, TunnelsHold, [Next]_vars PROVE TunnelsHold'
    OBVIOUS
  <1>1. CASE \E c \in Flows : Open(c)
    BY <1>1, OtherTunnels
  <1>2. CASE \E c \in Flows : Handle(c)
    <2> PICK c \in Flows : Handle(c)
      BY <1>2
    <2>1. CASE Connect(c) \/ Resolve(c) \/ DialFails(c)
      BY <2>1, OtherTunnels
    <2>2. CASE ReadHello(c) \/ Dialled(c)
      BY <2>2, HelloTunnel, DialledTunnel
    <2>3. CASE DenyNonConnect(c) \/ UnknownMethod(c) \/ Hangup(c) \/ Answer(c) \/ Unreachable(c) \/ Idle(c)
      <3>1. UNCHANGED tunnel /\ \E place \in Over : Go(c, place)
        BY <2>3 DEF DenyNonConnect, UnknownMethod, Hangup, Answer, Unreachable, Idle, Refuse, Over
      <3> QED BY <3>1, OverTunnels
    <2>4. CASE \E e \in Ends : Receive(c, e) \/ SendOn(c, e) \/ SendFails(c, e)
      BY <2>4, ReceiveTunnel, SendOnTunnel, SendFailsTunnel
    <2> QED BY <2>1, <2>2, <2>3, <2>4 DEF Handle
  <1>3. CASE \E c \in Flows, e \in Ends : Sends(c, e) \/ Closes(c, e)
    BY <1>3, SendsTunnel, ClosesTunnel
  <1>4. CASE \E k \in Collectors : Collector(k)
    <2> PICK k \in Collectors : Collector(k)
      BY <1>4
    <2>1. CASE Accept(k)
      BY <2>1, TunnelsLeftAlone DEF Accept
    <2>2. CASE Collect(k) \/ CloseCollected(k)
      <3>1. UNCHANGED tunnel /\ \E c : \E place \in Over : Go(c, place)
        BY <2>2 DEF Collect, CloseCollected, Over
      <3> QED BY <3>1, OverTunnels
    <2> QED BY <2>1, <2>2 DEF Collector
  <1>5. CASE UNCHANGED vars
    BY <1>5, TunnelsLeftAlone DEF vars
  <1> QED BY <1>1, <1>2, <1>3, <1>4, <1>5 DEF Next

(* Each end gets a prefix of what the other sent, the ClientHello first:   *)
(* what the gateway has taken and not sent on comes before what it has not *)
(* taken yet, and it is lost only when the tunnel ends.                    *)
THEOREM EgressTunnelsArePipes == Spec => []TunnelIsAPipe
  <1>1. TunnelsHold => TunnelIsAPipe
    BY DEF TunnelsHold, TunnelHolds, Piped, TunnelIsAPipe
  <1>2. Spec => []TunnelsHold
    BY TunnelsInit, TunnelsStep, FlowsAlwaysHold, PTL DEF Spec
  <1> QED BY <1>1, <1>2, PTL
=============================================================================
