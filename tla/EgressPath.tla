----------------------------- MODULE EgressPath -----------------------------
(***************************************************************************)
(* What becomes of the flows an agent opens: the kernel's rules send each  *)
(* to the gateway (gateway_server.py), to a collector of the guard         *)
(* (block_collector.py), or nowhere.  The gateway has a thread per         *)
(* connection; each collector is one thread.  A refused flow leaves a      *)
(* block fact in a log before the agent can notice the refusal; an allowed *)
(* tunnel is a pipe to an address that was vetted.                         *)
(***************************************************************************)
EXTENDS Firewall

CONSTANTS
  Flows,          \* identities of the flows
  Packets,        \* what may be opened: [uid, proto, dst, dport, out, state]
  Tables,         \* rules the kernel may hold
  Canonical,      \* names as written -> hosts; a name that is none -> NoHost
  NoHost,
  Domains,        \* the allow list, hosts
  Ports,          \* ports of CONNECT authorities
  Answers,        \* sequences of addresses the resolver may return, <<>> if it fails
  Public,         \* addresses that are public
  Payloads,       \* of datagrams and of TCP DNS: names, or NoHost if unreadable
  MaxTokens       \* chunks each end of a tunnel sends

(* The agent's packets that open a flow; rules and answers are lists.      *)
ASSUME EgressAssumption ==
  /\ \A p \in Packets : p = [uid |-> AgentUid, proto |-> p.proto, dst |-> p.dst, dport |-> p.dport,
                             out |-> p.out, state |-> "new"]
  /\ \A t \in Tables : t.nat \in Seq(ToSet(t.nat)) /\ t.filter \in Seq(ToSet(t.filter))
  /\ \A a \in Answers : a \in Seq(ToSet(a))

Names == DOMAIN Canonical
Nowhere == "nowhere"
Ends == {"client", "upstream"}
Other(e) == IF e = "client" THEN "upstream" ELSE "client"

VARIABLES
  tables,      \* the rules
  flow,        \* flow -> record of what it is and how far it got
  tunnel,      \* flow -> the bytes of its tunnel
  backlog,     \* queues of the collectors
  taken,       \* collector -> the flow its thread holds, if any
  log          \* block facts, in order; `by` is not in the log, only compared
vars == <<tables, flow, tunnel, backlog, taken, log>>

NoPacket == [uid |-> Nowhere, proto |-> Nowhere, dst |-> Nowhere, dport |-> 0, out |-> Nowhere, state |-> Nowhere]
(* `left` are the places of the addresses not dialled yet. *)
NewFlow == [at |-> "none", packet |-> NoPacket, method |-> "none", name |-> NoHost, port |-> 0, sni |-> NoHost,
            answers |-> <<>>, left |-> {}, upstream |-> Nowhere]
NoTunnel == [sent   |-> [e \in Ends |-> <<>>],   \* chunks an end has sent
             inbox  |-> [e \in Ends |-> <<>>],   \* of these, what the gateway has not received
             holds  |-> [e \in Ends |-> <<>>],   \* received, to be sent on
             got    |-> [e \in Ends |-> <<>>],   \* what an end has been sent
             closed |-> [e \in Ends |-> FALSE]]
Collectors == {"tcp", "udp"}

Init ==
  /\ tables \in {t \in Tables : check_commands(t)}
  /\ flow = [c \in Flows |-> NewFlow]
  /\ tunnel = [c \in Flows |-> NoTunnel]
  /\ backlog = [k \in Collectors |-> <<>>] /\ taken = [k \in Collectors |-> <<>>]
  /\ log = <<>>

at(c, place) == flow[c].at = place
Go(c, place) == flow' = [flow EXCEPT ![c].at = place]
Fact(c, witness, destination_, port, protocol) ==
  [by |-> c, witness |-> witness, destination |-> destination_, port |-> port, protocol |-> protocol]
emit(fact) == log' = Append(log, fact)
collector_vars == <<backlog, taken>>

-----------------------------------------------------------------------------
(* The agent opens a flow, and the kernel decides. *)
Open(c) ==
  /\ at(c, "none")
  /\ \E p \in Packets, out \in {"lo", "eth"} :
       LET to == destination(tables, p, out)
           k  == IF to = "tcp collector" THEN "tcp" ELSE "udp"
       IN /\ flow' = [flow EXCEPT ![c].packet = p, ![c].at = IF to \in {"gateway", "agent", "rejected", "outside"}
                                                            THEN to ELSE "queued"]
          /\ backlog' = IF to \in {"tcp collector", "udp collector"}
                        THEN [backlog EXCEPT ![k] = Append(@, c)] ELSE backlog
  /\ UNCHANGED <<tables, tunnel, taken, log>>

(* What a collector makes of it: the question of a DNS message if there is *)
(* a readable one, else the payload or the address; the original           *)
(* destination of a TCP flow may not be readable.                          *)
fact_for_destination(c, known, payload) ==
  LET p == flow[c].packet
      named == payload # <<>> /\ payload[1] # NoHost
  IN CASE p.proto = "udp" /\ named  -> Fact(c, "kernel_redirect", <<"dns", payload[1]>>, 0, "dns")
       [] p.proto = "udp" /\ ~named -> Fact(c, "kernel_redirect", <<"opaque", payload>>, 0, "udp")
       [] p.proto = "tcp" /\ ~known -> Fact(c, "kernel_redirect", <<"ipv4", "peer">>, 0, "tcp")
       [] p.proto = "tcp" /\ known /\ p.dport = 53 ->
            Fact(c, "kernel_redirect", IF named THEN <<"dns", payload[1]>> ELSE <<"dns-server", p.dst>>, 0, "dns")
       [] OTHER -> Fact(c, "kernel_redirect", <<"ipv4", p.dst>>, p.dport, "tcp")

Accept(k) ==
  /\ taken[k] = <<>> /\ backlog[k] # <<>>
  /\ taken' = [taken EXCEPT ![k] = <<Head(backlog[k])>>]
  /\ backlog' = [backlog EXCEPT ![k] = Tail(@)]
  /\ UNCHANGED <<tables, flow, tunnel, log>>

(* A TCP connection is held open while its payload is looked at, a         *)
(* datagram is not.                                                        *)
Collect_closes_first(k) ==
  /\ taken[k] # <<>> /\ at(taken[k][1], "queued")
  /\ Go(taken[k][1], "refused")
  /\ UNCHANGED <<tables, tunnel, collector_vars, log>>
Collect(k) ==
  /\ taken[k] # <<>> /\ at(taken[k][1], "queued")
  /\ \E known \in (IF k = "tcp" THEN BOOLEAN ELSE {TRUE}) :
     \E payload \in {<<x>> : x \in Payloads} \cup (IF k = "tcp" THEN {<<>>} ELSE {}) :
       emit(fact_for_destination(taken[k][1], known, payload))
  /\ Go(taken[k][1], "recorded")
  /\ UNCHANGED <<tables, tunnel, collector_vars>>
CloseCollected(k) ==
  /\ taken[k] # <<>> /\ ~at(taken[k][1], "queued")
  /\ Go(taken[k][1], "refused")
  /\ taken' = [taken EXCEPT ![k] = <<>>]
  /\ UNCHANGED <<tables, tunnel, backlog, log>>

-----------------------------------------------------------------------------
(* A connection to the gateway: the request.                               *)

allows(name, port) == port = 443 /\ Canonical[name] \in Domains
Refuse(c, fact) == emit(fact) /\ Go(c, "recorded") /\ UNCHANGED <<tables, tunnel, collector_vars>>

(* Any method but CONNECT that the handler knows; another one is answered  *)
(* by the library, without a fact.                                         *)
DenyNonConnect(c) ==
  /\ at(c, "gateway")
  /\ Refuse(c, Fact(c, "proxy_connect", <<"opaque", "request">>, 0, "other"))
UnknownMethod(c) ==
  /\ at(c, "gateway") /\ Go(c, "unsupported")
  /\ UNCHANGED <<tables, tunnel, collector_vars, log>>
Hangup(c) ==
  /\ at(c, "gateway") /\ Go(c, "left")
  /\ UNCHANGED <<tables, tunnel, collector_vars, log>>

decide_connect(c, name, port) ==
  IF Canonical[name] = NoHost THEN Fact(c, "proxy_connect", <<"opaque", name>>, 0, "other")
  ELSE Fact(c, "proxy_connect", <<"domain", Canonical[name]>>, port, IF port = 443 THEN "https" ELSE "tcp")
Connect(c) ==
  /\ at(c, "gateway")
  /\ \E name \in Names, port \in Ports :
       IF allows(name, port)
       THEN /\ flow' = [flow EXCEPT ![c].at = "hello", ![c].name = name, ![c].port = port]
            /\ UNCHANGED log
       ELSE /\ emit(decide_connect(c, name, port))
            /\ flow' = [flow EXCEPT ![c].at = "recorded", ![c].name = name, ![c].port = port]
  /\ UNCHANGED <<tables, tunnel, collector_vars>>
(* 403, or the connection is closed. *)
Answer(c) ==
  /\ at(c, "recorded") /\ \A k \in Collectors : taken[k] # <<c>>
  /\ Go(c, "refused")
  /\ UNCHANGED <<tables, tunnel, collector_vars, log>>

(* After 200: a whole ClientHello and nothing else, in time, with the very *)
(* name; what cannot be read is refused too.                               *)
same_sni_or_allowed(c, name) == Canonical[name] \in Domains
same_sni(c, name) == Canonical[name] = Canonical[flow[c].name]
ReadHello(c) ==
  /\ at(c, "hello")
  /\ \E name \in Names :
       LET sni == Canonical[name]
       IN IF sni # NoHost /\ same_sni(c, name)
          THEN /\ flow' = [flow EXCEPT ![c].at = "resolve", ![c].sni = sni] /\ UNCHANGED log
               /\ tunnel' = [tunnel EXCEPT ![c].sent.client = <<"hello">>]
          ELSE /\ emit(IF sni = NoHost THEN Fact(c, "proxy_sni", <<"opaque", flow[c].name>>, flow[c].port, "https")
                       ELSE Fact(c, "proxy_sni", <<"domain", sni>>, flow[c].port, "https"))
               /\ flow' = [flow EXCEPT ![c].at = "recorded", ![c].sni = sni] /\ UNCHANGED tunnel
  /\ UNCHANGED <<tables, collector_vars>>

(* One resolution; one address that is not public refuses them all; an     *)
(* address that comes twice is tried once.                                 *)
vetted_first(answers) == answers # <<>> /\ answers[1] \in Public
vetted(answers) == answers # <<>> /\ ToSet(answers) \subseteq Public
distinct(answers) == {k \in DOMAIN answers : \A j \in 1..(k - 1) : answers[j] # answers[k]}
Resolve(c) ==
  /\ at(c, "resolve")
  /\ \E answers \in Answers :
       IF vetted(answers)
       THEN /\ flow' = [flow EXCEPT ![c].at = "dial", ![c].answers = answers, ![c].left = distinct(answers)]
            /\ UNCHANGED log
       ELSE /\ emit(Fact(c, "proxy_resolution", <<"domain", flow[c].sni>>, flow[c].port, "https"))
            /\ flow' = [flow EXCEPT ![c].at = "recorded", ![c].answers = answers]
  /\ UNCHANGED <<tables, tunnel, collector_vars>>

(* The addresses in turn; the first that answers gets the hello. *)
next_address(c) == flow[c].answers[Min(flow[c].left)]
Dialled_without_the_hello(c) ==
  /\ at(c, "dial") /\ flow[c].left # {}
  /\ flow' = [flow EXCEPT ![c].at = "relay", ![c].upstream = next_address(c)]
  /\ UNCHANGED <<tables, tunnel, collector_vars, log>>
Dialled(c) ==
  /\ at(c, "dial") /\ flow[c].left # {}
  /\ flow' = [flow EXCEPT ![c].at = "relay", ![c].upstream = next_address(c)]
  /\ tunnel' = [tunnel EXCEPT ![c].got.upstream = <<"hello">>]
  /\ UNCHANGED <<tables, collector_vars, log>>
DialFails(c) ==
  /\ at(c, "dial") /\ flow[c].left # {}
  /\ flow' = [flow EXCEPT ![c].left = @ \ {Min(@)}]
  /\ UNCHANGED <<tables, tunnel, collector_vars, log>>
Unreachable(c) ==
  /\ at(c, "dial") /\ flow[c].left = {} /\ Go(c, "unreachable")
  /\ UNCHANGED <<tables, tunnel, collector_vars, log>>

-----------------------------------------------------------------------------
(* The relay: one thread takes what one end sent and sends it to the other,*)
(* blocking; silence, a close or an error of either end closes both.       *)

holding(c) == {e \in Ends : tunnel[c].holds[e] # <<>>}
ready(c, e) == tunnel[c].inbox[e] # <<>> \/ tunnel[c].closed[e]
Sends(c, e) ==
  /\ at(c, "relay") /\ ~tunnel[c].closed[e]
  /\ Len(SelectSeq(tunnel[c].sent[e], LAMBDA x : x # "hello")) < MaxTokens
  /\ LET chunk == <<e, Len(tunnel[c].sent[e])>>
     IN tunnel' = [tunnel EXCEPT ![c].sent[e] = Append(@, chunk), ![c].inbox[e] = Append(@, chunk)]
  /\ UNCHANGED <<tables, flow, collector_vars, log>>
Closes(c, e) ==
  /\ at(c, "relay") /\ ~tunnel[c].closed[e]
  /\ tunnel' = [tunnel EXCEPT ![c].closed[e] = TRUE]
  /\ UNCHANGED <<tables, flow, collector_vars, log>>

Receive(c, e) ==
  /\ at(c, "relay") /\ holding(c) = {} /\ ready(c, e)
  /\ IF tunnel[c].inbox[e] = <<>>
     THEN Go(c, "ended") /\ UNCHANGED tunnel
     ELSE /\ tunnel' = [tunnel EXCEPT ![c].holds[e] = tunnel[c].inbox[e], ![c].inbox[e] = <<>>]
          /\ UNCHANGED flow
  /\ UNCHANGED <<tables, collector_vars, log>>
(* sendall may be cut short by an error. *)
SendOn(c, e) ==
  /\ at(c, "relay") /\ e \in holding(c)
  /\ tunnel' = [tunnel EXCEPT ![c].got[Other(e)] = @ \o tunnel[c].holds[e], ![c].holds[e] = <<>>]
  /\ UNCHANGED <<tables, flow, collector_vars, log>>
SendFails(c, e) ==
  /\ at(c, "relay") /\ e \in holding(c)
  /\ \E n \in 0..(Len(tunnel[c].holds[e]) - 1) :
       tunnel' = [tunnel EXCEPT ![c].got[Other(e)] = @ \o SubSeq(tunnel[c].holds[e], 1, n), ![c].holds[e] = <<>>]
  /\ Go(c, "ended")
  /\ UNCHANGED <<tables, collector_vars, log>>
Idle_only_when_both_sent(c) ==
  /\ at(c, "relay") /\ holding(c) = {} /\ \A e \in Ends : ~ready(c, e) /\ tunnel[c].got[e] # <<>>
  /\ Go(c, "ended")
  /\ UNCHANGED <<tables, tunnel, collector_vars, log>>
Idle(c) ==
  /\ at(c, "relay") /\ holding(c) = {} /\ \A e \in Ends : ~ready(c, e)
  /\ Go(c, "ended")
  /\ UNCHANGED <<tables, tunnel, collector_vars, log>>

-----------------------------------------------------------------------------
Handle(c) ==
  \/ Connect(c) \/ DenyNonConnect(c) \/ UnknownMethod(c) \/ Hangup(c) \/ Answer(c) \/ ReadHello(c) \/ Resolve(c)
  \/ Dialled(c) \/ DialFails(c) \/ Unreachable(c) \/ Idle(c)
  \/ \E e \in Ends : Receive(c, e) \/ SendOn(c, e) \/ SendFails(c, e)
Collector(k) == Accept(k) \/ Collect(k) \/ CloseCollected(k)
Next ==
  \/ \E c \in Flows : Open(c) \/ Handle(c) \/ \E e \in Ends : Sends(c, e) \/ Closes(c, e)
  \/ \E k \in Collectors : Collector(k)
(* The threads run; what they wait for is bounded by a timeout (hello,     *)
(* dial, silence) or by what answers them (the resolver, a peer that reads).*)
Fairness == (\A c \in Flows : WF_vars(~at(c, "gateway") /\ Handle(c))) /\ \A k \in Collectors : WF_vars(Collector(k))
Spec == Init /\ [][Next]_vars /\ Fairness

-----------------------------------------------------------------------------

(* What the documents allow an agent to reach. *)
permitted(c) ==
  /\ flow[c].packet.dst = GatewayIp /\ flow[c].packet.dport = GatewayPort
  /\ flow[c].name \in Names /\ Canonical[flow[c].name] \in Domains /\ flow[c].port = 443
  /\ flow[c].sni = Canonical[flow[c].name]
  /\ flow[c].answers # <<>> /\ ToSet(flow[c].answers) \subseteq Public
facts_of(c) == {k \in DOMAIN log : log[k].by = c}

(* A refusal the agent can notice is on record, once; what was carried, or *)
(* could not be reached, is not recorded as a refusal.                     *)
RefusalsAreOnRecord ==
  \A c \in Flows :
    /\ at(c, "refused") => Cardinality(facts_of(c)) = 1 /\ ~permitted(c)
    /\ flow[c].at \in {"relay", "ended", "unreachable"} => facts_of(c) = {}

(* The gateway is connected only to addresses the one resolution gave for  *)
(* an allowed name, all of them public, and only for permitted flows.      *)
UpstreamsAreVetted ==
  \A c \in Flows : flow[c].upstream # Nowhere =>
    permitted(c) /\ flow[c].upstream \in ToSet(flow[c].answers) \cap Public

(* No flow gets out of the sandbox but through the gateway, whatever the   *)
(* order of the rules (which a check cannot see), and there only vetted.   *)
NothingLeavesUnvetted == UpstreamsAreVetted /\ \A c \in Flows : ~at(c, "outside")

(* A tunnel is a pipe: each end gets a prefix of what the other sent, from *)
(* the ClientHello on.                                                     *)
TunnelIsAPipe ==
  \A c \in Flows, e \in Ends : IsPrefix(tunnel[c].got[Other(e)], tunnel[c].sent[e])

(* Once its request is read, or a collector has it, a flow ends. *)
Underway == {"queued", "recorded", "hello", "resolve", "dial", "relay"}
FlowsEnd == \A c \in Flows : flow[c].at \in Underway ~> flow[c].at \notin Underway
=============================================================================
