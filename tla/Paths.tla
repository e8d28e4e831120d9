-------------------------------- MODULE Paths --------------------------------
(***************************************************************************)
(* How a packet reaches a peer: directly, at an endpoint that disco pings  *)
(* and pongs find and confirm, or over the DERP relay (tailscale.cpp).     *)
(*                                                                         *)
(* The node keeps two endpoints of a peer.  The one in node_config_ comes  *)
(* with the map, is corrected by every ping and pong that the peer sends,  *)
(* and is where disco pings go.  The one in peer_sessions_ is where the    *)
(* packets of WireGuard go, once it is confirmed.                          *)
(*                                                                         *)
(* An address stands for an IP address and a port.  Peers move, packets    *)
(* are late or lost, the relay comes and goes.  A ping reaches the peer    *)
(* where it is when the ping is sent; its pong may take any time.          *)
(***************************************************************************)
EXTENDS Naturals, FiniteSets, SequencesExt

CONSTANTS
  PeerOrder,          \* the peers, in the order of the map
  Reachable,          \* the peers that UDP can reach at some address
  Addresses,          \* where peers can be
  Lan,                \* addresses with no router in between
  Nowhere,            \* no endpoint
  FakeAddress,        \* what disco over the relay has for a source
  PreferDirect,       \* prefer_direct_udp_
  IcmpSocket,         \* whether setup_icmp_socket_ got its raw socket
  RoundsPerDiscovery, \* rounds of pings between two NAT discoveries
  MaxFaults           \* bound: moves, new maps, pings over the relay

Peers == Range(PeerOrder)

ASSUME PeersAssumption == IsInjective(PeerOrder) /\ Reachable \subseteq Peers
ASSUME AddressAssumption ==
  /\ Lan \subseteq Addresses
  /\ {Nowhere, FakeAddress} \cap Addresses = {} /\ Nowhere # FakeAddress
ASSUME BoundsAssumption ==
  /\ {PreferDirect, IcmpSocket} \subseteq BOOLEAN
  /\ RoundsPerDiscovery \in Nat \ {0, 1} /\ MaxFaults \in Nat

VARIABLES
  config,  \* endpoint and port of each peer in node_config_
  session, \* endpoint, port and direct_path_confirmed in peer_sessions_
  lastRx,  \* g_last_rx_endpoint and g_last_rx_port
  nat,     \* nat_discovery_state_: while active, the peer and the endpoint probed
  round,   \* rounds of pings since the last discovery
  relay,   \* "waiting" for direct paths, then the state of the DERP client
  where,   \* where each peer is
  heard,   \* the peers that got a pong where they are, and keep to that path
  net,     \* UDP packets on their way to this node
  faults

node == <<config, session, lastRx, nat, round>>
vars == <<node, relay, where, heard, net, faults>>

(* A DERP client is "down" when DISCONNECTED.                              *)
RelayStates == {"waiting", "down", "handshake", "ready", "stuck"}

Endpoints == Addresses \cup {FakeAddress, Nowhere}
Packets == [type : {"ping", "pong", "wireguard"}, peer : Reachable, from : Addresses]
NotActive == [active |-> FALSE]
Unconfirmed(a) == [endpoint |-> a, confirmed |-> FALSE]
Confirmed(a) == [endpoint |-> a, confirmed |-> TRUE]
-----------------------------------------------------------------------------
(* handle_fetching_map_state_: the sessions are made anew from the map.    *)
SessionsOf(map) == [p \in Peers |-> Unconfirmed(map[p])]

Maps == [Peers -> Addresses \cup {Nowhere}]

(* The control server knows where a peer is, or nothing.                   *)
Known(w) == {[p \in Peers |-> IF p \in S THEN w[p] ELSE Nowhere] : S \in SUBSET Peers}

Init ==
  /\ lastRx = Nowhere
  /\ nat = NotActive
  /\ round = 0
  /\ relay = IF PreferDirect THEN "waiting" ELSE "down"
  /\ where \in {w \in Maps : /\ \A p \in Peers : w[p] # Nowhere => p \in Reachable
                             /\ \A p, q \in Peers : w[p] = w[q] => p = q \/ w[p] = Nowhere}
  /\ config \in Known(where) /\ session = SessionsOf(config)
  /\ heard = {} /\ net = {} /\ faults = 0

Fault == faults < MaxFaults /\ faults' = faults + 1
-----------------------------------------------------------------------------
(* The send callback of the device manager.                                *)
HasDirect(p) ==
  PreferDirect /\ session[p].confirmed /\ session[p].endpoint # Nowhere

HasRoute(p) == HasDirect(p) \/ relay = "ready"

(* A handshake response takes the source of the last UDP packet for the    *)
(* source of the initiation.                                               *)
(* (Mutant: although no packet has come by UDP.)                           *)
Responded_Always(p, rx) ==
  IF session[p].endpoint # rx THEN Confirmed(rx) ELSE session[p]

Responded(p, rx) ==
  IF rx # Nowhere /\ session[p].endpoint # rx THEN Confirmed(rx) ELSE session[p]

(* send_disco_ping_: what a ping to an endpoint brings back.               *)
Pinged(p, a) ==
  {m \in Packets : m.type = "pong" /\ m.peer = p /\ m.from = a /\ where[p] = a}

(* send_disco_pong_: a peer that gets the pong knows a path.               *)
Ponged(p, a) == {q \in {p} : where[q] = a}
-----------------------------------------------------------------------------
(* route_incoming_packet_: first of all, note where the packet is from.    *)
Incoming(m, type) ==
  /\ m \in net /\ m.type = type
  /\ net' = net \ {m}
  /\ lastRx' = m.from

(* handle_disco_packet_, a ping: its source becomes the peer's endpoint    *)
(* and gets a pong, which may be lost.                                     *)
HandlePing(m, lost) ==
  /\ Incoming(m, "ping")
  /\ config' = [config EXCEPT ![m.peer] = m.from]
  /\ heard' = IF lost THEN heard ELSE heard \cup Ponged(m.peer, m.from)
  /\ UNCHANGED <<session, nat, round, relay, where, faults>>

(* The session after a pong.  (Mutant: a confirmed one is left as it is.)  *)
Reached_Once(p, a) == IF session[p].confirmed THEN session[p] ELSE Confirmed(a)

Reached(p, a) == Confirmed(a)

(* handle_disco_pong_: nobody asks which ping it answers.                  *)
HandlePong(m) ==
  /\ Incoming(m, "pong")
  /\ config' = [config EXCEPT ![m.peer] = m.from]
  /\ session' = [session EXCEPT ![m.peer] = Reached(m.peer, m.from)]
  /\ UNCHANGED <<nat, round, relay, where, heard, faults>>

(* receive_wg_packet: an initiation of an active peer is answered.         *)
AnswerOverUdp(m) ==
  /\ Incoming(m, "wireguard")
  /\ session' = [session EXCEPT ![m.peer] = Responded(m.peer, m.from)]
  /\ UNCHANGED <<config, nat, round, relay, where, heard, faults>>

(* Data, or something the device manager refuses: the recovery of stale    *)
(* connections compares addresses with addresses and ports, and finds none.*)
TakeWireguard(m) ==
  /\ Incoming(m, "wireguard")
  /\ UNCHANGED <<config, session, nat, round, relay, where, heard, faults>>
-----------------------------------------------------------------------------
(* handle_derp_packet_.  An initiation over the relay is answered along    *)
(* the route there is after Responded, whatever lastRx belongs to.         *)
AnswerOverRelay(p) ==
  /\ relay = "ready" /\ p \notin heard
  /\ session' = [session EXCEPT ![p] = Responded(p, lastRx)]
  /\ UNCHANGED <<config, lastRx, nat, round, relay, where, heard, net, faults>>

(* A ping over the relay has a source made of the peer's key.  A pong over *)
(* the relay would be taken as well, but answers no ping of this node: its *)
(* pings go by UDP, and a pong goes the way of its ping.                   *)
PingOverRelay(p) ==
  /\ relay = "ready" /\ Fault
  /\ config' = [config EXCEPT ![p] = FakeAddress]
  /\ UNCHANGED <<session, lastRx, nat, round, relay, where, heard, net>>

(* CALL_ME_MAYBE: pings to every endpoint that the peer names.             *)
CallMeMaybe(p) ==
  /\ relay = "ready" /\ p \notin heard
  /\ net' = net \cup UNION {Pinged(p, a) : a \in {where[p]}}
  /\ UNCHANGED <<node, relay, where, heard, faults>>
-----------------------------------------------------------------------------
(* handle_connected_state_, the round of pings: once in a while the first  *)
(* peer with an endpoint has its NAT port discovered instead, and while    *)
(* that goes on there are no pings.                                        *)
Eligible == {p \in Peers : config[p] # Nowhere}
FirstEligible ==
  {PeerOrder[i] : i \in {j \in DOMAIN PeerOrder :
     PeerOrder[j] \in Eligible /\ \A k \in 1 .. j - 1 : PeerOrder[k] \notin Eligible}}
Due == round = 0 /\ Eligible # {}
NextRound == IF Eligible = {} THEN round ELSE (round + 1) % RoundsPerDiscovery

(* discover_nat_port_for_peer_.                                            *)
Discovery(p) == [active |-> TRUE, peer |-> p, endpoint |-> config[p]]

(* Probes every 200 ms, rounds every ten seconds: a router has answered.   *)
Probed == nat.active => nat.endpoint \in Lan

DiscoverNatPort ==
  /\ Probed /\ Due
  /\ \E p \in FirstEligible : nat' = IF IcmpSocket THEN Discovery(p) ELSE nat
  /\ round' = NextRound
  /\ UNCHANGED <<config, session, lastRx, relay, where, heard, net, faults>>

PingPeers ==
  /\ Probed /\ ~Due
  /\ round' = NextRound
  /\ net' = IF nat.active THEN net
            ELSE net \cup UNION {Pinged(p, config[p]) : p \in Eligible}
  /\ UNCHANGED <<config, session, lastRx, nat, relay, where, heard, faults>>

(* process_packet_queue_: the router behind which the peer is has answered *)
(* a probe; the ping goes where the probe went.                            *)
IcmpTimeExceeded ==
  /\ nat.active /\ nat.endpoint \notin Lan
  /\ nat' = NotActive
  /\ net' = net \cup Pinged(nat.peer, nat.endpoint)
  /\ UNCHANGED <<config, session, lastRx, round, relay, where, heard, faults>>
-----------------------------------------------------------------------------
(* handle_connected_state_, the relay: not in the first 30 s and not while *)
(* every peer has a direct path.                                           *)
(* (Mutant: any peer that has one is enough.)                              *)
SkipDerp_Any ==
  PreferDirect /\ (relay = "waiting" \/ \E p \in Peers : session[p].confirmed)

SkipDerp ==
  PreferDirect /\ (relay = "waiting" \/ \A p \in Peers : session[p].confirmed)

RelayTo(from, to) ==
  /\ relay = from /\ relay' = to
  /\ UNCHANGED <<node, where, heard, net, faults>>

WaitOver == RelayTo("waiting", "down")

(* Only a client that is DISCONNECTED is connected.                        *)
ConnectDerp == ~SkipDerp /\ RelayTo("down", "handshake")

(* process(), whether the relay is skipped or not.  A client in ERROR, or  *)
(* whose handshake waits for what will not come, stays: nothing but        *)
(* process() disconnects it, and only when it is closed or READY.          *)
DerpReady == RelayTo("handshake", "ready")
DerpBreaks == RelayTo("handshake", "down") \/ RelayTo("ready", "down")
DerpSticks == RelayTo("handshake", "stuck")

(* A new map, after the control plane has connected again.                 *)
Rebuild ==
  /\ Fault
  /\ config' \in Known(where)
  /\ session' = SessionsOf(config')
  /\ UNCHANGED <<lastRx, nat, round, relay, where, heard, net>>
-----------------------------------------------------------------------------
(* Peers and the network.                                                  *)
Send(type, p) == net' = net \cup {[type |-> type, peer |-> p, from |-> where[p]]}

PeerPings(p) ==
  /\ where[p] # Nowhere /\ Send("ping", p)
  /\ UNCHANGED <<node, relay, where, heard, faults>>

PeerSends(p) ==
  /\ p \in heard /\ Send("wireguard", p)
  /\ UNCHANGED <<node, relay, where, heard, faults>>

PeerMoves(p) ==
  /\ Fault
  /\ \E a \in Addresses : /\ \A q \in Peers : where[q] # a
                          /\ where' = [where EXCEPT ![p] = a]
  /\ heard' = heard \ {p}
  /\ UNCHANGED <<node, relay, net>>

Lose(m) ==
  /\ net' = net \ {m}
  /\ UNCHANGED <<node, relay, where, heard, faults>>
-----------------------------------------------------------------------------
Next ==
  \/ \E m \in net :
       \/ \E lost \in BOOLEAN : HandlePing(m, lost)
       \/ HandlePong(m) \/ AnswerOverUdp(m) \/ TakeWireguard(m)
       \/ Lose(m)
  \/ \E p \in Peers : AnswerOverRelay(p) \/ PingOverRelay(p)
  \/ \E p \in Reachable : CallMeMaybe(p) \/ PeerPings(p) \/ PeerSends(p) \/ PeerMoves(p)
  \/ DiscoverNatPort \/ PingPeers \/ IcmpTimeExceeded
  \/ WaitOver \/ ConnectDerp \/ DerpReady \/ DerpBreaks \/ DerpSticks
  \/ Rebuild

Spec == Init /\ [][Next]_vars

(* The timers of the node run; a peer pings as long as it may; a packet    *)
(* that is sent again and again gets through.  A client that is down and   *)
(* needed connects, and of handshakes that end again and again not all are *)
(* broken off: RelayRecovers of DerpClient.  That none gets stuck is not   *)
(* assumed.                                                                *)
Fairness ==
  /\ WF_vars(DiscoverNatPort) /\ WF_vars(PingPeers) /\ WF_vars(IcmpTimeExceeded)
  /\ WF_vars(WaitOver) /\ WF_vars(ConnectDerp) /\ SF_vars(DerpReady)
  /\ \A p \in Reachable : WF_vars(PeerPings(p))
  /\ \A p \in Reachable, a \in Addresses :
       /\ SF_vars(HandlePing([type |-> "ping", peer |-> p, from |-> a], FALSE))
       /\ SF_vars(HandlePong([type |-> "pong", peer |-> p, from |-> a]))

FairSpec == Spec /\ Fairness
-----------------------------------------------------------------------------
(* Types; and a confirmed session has an endpoint, which the send callback *)
(* relies on for peers whose relay is skipped.                             *)
TypeOK ==
  /\ config \in [Peers -> Endpoints]
  /\ session \in [Peers -> [endpoint : Addresses \cup {Nowhere}, confirmed : BOOLEAN]]
  /\ \A p \in Peers : session[p].confirmed => session[p].endpoint # Nowhere
  /\ lastRx \in Addresses \cup {Nowhere}
  /\ nat \in [active : {TRUE}, peer : Peers, endpoint : Endpoints \ {Nowhere}] \cup {NotActive}
  /\ round \in 0 .. RoundsPerDiscovery - 1
  /\ relay \in RelayStates
  /\ where \in Maps /\ heard \subseteq Reachable
  /\ net \subseteq Packets
  /\ faults \in 0 .. MaxFaults

(* A path is confirmed via a disco pong, or by the source of an initiation *)
(* just processed, as the comments of the send callback have it: whenever  *)
(* a session gets a confirmed endpoint, a packet of that peer has come     *)
(* from there.                                                             *)
ConfirmedByPeer ==
  [][\A p \in Peers : session'[p] # session[p] /\ session'[p].confirmed =>
       \E m \in net \ net' : m.peer = p /\ m.from = session'[p].endpoint]_vars

(* However often the relay breaks, whichever peers are direct, there is a  *)
(* route to every peer again and again: skipping the relay never leaves    *)
(* one without (handle_connected_state_ and the send callback).  The       *)
(* exception is a DERP client that gets stuck, which only a restart of the *)
(* device connects again (derp_client.cpp:542 and 559, Stuck of DerpClient *)
(* before READY).                                                          *)
RouteReturns == [](relay # "stuck") => \A p \in Peers : []<>HasRoute(p)

(* Discovery has no router to hear from: it never ends by itself.          *)
Stuck == nat.active /\ nat.endpoint \in Lan

(* A peer that stays at an address is in the end sent its packets there    *)
(* and nowhere else, through moves, late pongs of the old address, new     *)
(* maps and handshakes over the relay, if discovery does not get stuck     *)
(* (disco in handle_disco_packet_, handle_disco_pong_, send callback).     *)
PathSettles ==
  \A p \in Reachable, a \in Addresses :
    PreferDirect /\ <>[](where[p] = a) /\ <>[]~Stuck => <>[](session[p] = Confirmed(a))
=============================================================================
