----------------------------- MODULE Paths_proofs -----------------------------
(***************************************************************************)
(* Paths for any peers, addresses and faults: the types, and with them the *)
(* fact that a confirmed session has an endpoint, so that a peer for whose *)
(* sake the relay is skipped can be reached.                               *)
(***************************************************************************)
EXTENDS Paths, TLAPS

(* A peer that got a pong is somewhere.                                    *)
HeardIsSomewhere == \A p \in heard : where[p] \in Addresses

PathInv == TypeOK /\ HeardIsSomewhere
-----------------------------------------------------------------------------
(* What the control server knows has the type of a map.                    *)
LEMMA KnownType ==
  ASSUME NEW w \in Maps, NEW map \in Known(w)
  PROVE  map \in Maps
BY DEF Known, Maps

LEMMA SessionsType ==
  ASSUME NEW map \in Maps
  PROVE  /\ SessionsOf(map) \in
              [Peers -> [endpoint : Addresses \cup {Nowhere}, confirmed : BOOLEAN]]
         /\ \A p \in Peers : ~SessionsOf(map)[p].confirmed
BY DEF SessionsOf, Unconfirmed, Maps

(* The shortcut for handshake responses leaves a session that is right.    *)
LEMMA RespondedType ==
  ASSUME TypeOK, NEW p \in Peers, NEW rx \in Addresses \cup {Nowhere},
         session' = [session EXCEPT ![p] = Responded(p, rx)]
  PROVE  /\ session' \in
              [Peers -> [endpoint : Addresses \cup {Nowhere}, confirmed : BOOLEAN]]
         /\ \A q \in Peers : session'[q].confirmed => session'[q].endpoint # Nowhere
BY DEF TypeOK, Responded, Confirmed

(* Only pongs come back for a ping, and only to nodes.                     *)
LEMMA PingedType ==
  ASSUME NEW p, NEW a PROVE Pinged(p, a) \subseteq Packets
BY DEF Pinged

LEMMA InitPathInv == Init => PathInv
<1> SUFFICES ASSUME Init PROVE PathInv
  OBVIOUS
<1> USE AddressAssumption, PeersAssumption, BoundsAssumption
<1>1. where \in Maps /\ config \in Maps
  BY KnownType DEF Init
<1>2. /\ session \in
           [Peers -> [endpoint : Addresses \cup {Nowhere}, confirmed : BOOLEAN]]
      /\ \A p \in Peers : session[p].confirmed => session[p].endpoint # Nowhere
  BY <1>1, SessionsType DEF Init
<1>3. config \in [Peers -> Endpoints]
  BY <1>1 DEF Maps, Endpoints
<1>4. round \in 0 .. RoundsPerDiscovery - 1 /\ faults \in 0 .. MaxFaults
  BY DEF Init
<1>5. relay \in RelayStates
  BY DEF Init, RelayStates
<1>6. lastRx \in Addresses \cup {Nowhere} /\ heard = {} /\ net = {} /\ nat = NotActive
  BY DEF Init
<1> QED BY <1>1, <1>2, <1>3, <1>4, <1>5, <1>6 DEF PathInv, TypeOK, HeardIsSomewhere

LEMMA FirstIsEligible == FirstEligible \subseteq Eligible
BY DEF FirstEligible

(* Packets that come in from the peers.                                    *)
LEMMA IncomingStep ==
  ASSUME PathInv, NEW m \in net,
         \/ \E lost \in BOOLEAN : HandlePing(m, lost)
         \/ HandlePong(m) \/ AnswerOverUdp(m) \/ TakeWireguard(m) \/ Lose(m)
  PROVE  PathInv'
<1> USE AddressAssumption, PeersAssumption DEF PathInv, TypeOK, HeardIsSomewhere
<1>1. m.peer \in Peers /\ m.peer \in Reachable /\ m.from \in Addresses
  BY DEF Packets
<1>2. ASSUME NEW lost \in BOOLEAN, HandlePing(m, lost) PROVE PathInv'
  <2>1. config' \in [Peers -> Endpoints]
    BY <1>1, <1>2 DEF HandlePing, Endpoints
  <2>2. heard' \subseteq heard \cup Ponged(m.peer, m.from)
    BY <1>2 DEF HandlePing
  <2>3. heard' \subseteq Reachable /\ \A p \in heard' : where[p] \in Addresses
    BY <1>1, <2>2 DEF Ponged
  <2>4. net' \subseteq Packets /\ lastRx' \in Addresses \cup {Nowhere}
    BY <1>1, <1>2 DEF HandlePing, Incoming
  <2> QED BY <1>2, <2>1, <2>3, <2>4 DEF HandlePing
<1>3. CASE HandlePong(m)
  <2>1. config' \in [Peers -> Endpoints]
    BY <1>1, <1>3 DEF HandlePong, Endpoints
  <2>2. session' = [session EXCEPT ![m.peer] = Confirmed(m.from)]
    BY <1>3 DEF HandlePong, Reached
  <2>3. /\ session' \in
             [Peers -> [endpoint : Addresses \cup {Nowhere}, confirmed : BOOLEAN]]
        /\ \A p \in Peers : session'[p].confirmed => session'[p].endpoint # Nowhere
    BY <1>1, <2>2 DEF Confirmed
  <2>4. net' \subseteq Packets /\ lastRx' \in Addresses \cup {Nowhere}
    BY <1>1, <1>3 DEF HandlePong, Incoming
  <2> QED BY <1>3, <2>1, <2>3, <2>4 DEF HandlePong
<1>4. CASE AnswerOverUdp(m)
  <2>1. /\ session' \in
             [Peers -> [endpoint : Addresses \cup {Nowhere}, confirmed : BOOLEAN]]
        /\ \A p \in Peers : session'[p].confirmed => session'[p].endpoint # Nowhere
    BY <1>1, <1>4, RespondedType DEF AnswerOverUdp
  <2>2. net' \subseteq Packets /\ lastRx' \in Addresses \cup {Nowhere}
    BY <1>1, <1>4 DEF AnswerOverUdp, Incoming
  <2> QED BY <1>4, <2>1, <2>2 DEF AnswerOverUdp
<1>5. CASE TakeWireguard(m)
  <2>1. net' \subseteq Packets /\ lastRx' \in Addresses \cup {Nowhere}
    BY <1>1, <1>5 DEF TakeWireguard, Incoming
  <2> QED BY <1>5, <2>1 DEF TakeWireguard
<1>6. CASE Lose(m)
  BY <1>6 DEF Lose, node
<1> QED BY <1>2, <1>3, <1>4, <1>5, <1>6

(* What comes over the relay.                                              *)
LEMMA RelayStep ==
  ASSUME PathInv, NEW p \in Peers,
         AnswerOverRelay(p) \/ PingOverRelay(p) \/ (p \in Reachable /\ CallMeMaybe(p))
  PROVE  PathInv'
<1> USE AddressAssumption, BoundsAssumption DEF PathInv, TypeOK, HeardIsSomewhere
<1>1. CASE AnswerOverRelay(p)
  <2>1. /\ session' \in
             [Peers -> [endpoint : Addresses \cup {Nowhere}, confirmed : BOOLEAN]]
        /\ \A q \in Peers : session'[q].confirmed => session'[q].endpoint # Nowhere
    BY <1>1, RespondedType DEF AnswerOverRelay
  <2> QED BY <1>1, <2>1 DEF AnswerOverRelay
<1>2. CASE PingOverRelay(p)
  <2>1. config' \in [Peers -> Endpoints]
    BY <1>2 DEF PingOverRelay, Endpoints
  <2>2. faults' \in 0 .. MaxFaults
    BY <1>2 DEF PingOverRelay, Fault
  <2> QED BY <1>2, <2>1, <2>2 DEF PingOverRelay
<1>3. CASE CallMeMaybe(p)
  <2>1. net' \subseteq Packets
    BY <1>3, PingedType DEF CallMeMaybe
  <2> QED BY <1>3, <2>1 DEF CallMeMaybe, node
<1> QED BY <1>1, <1>2, <1>3

(* The timers of the node.                                                 *)
LEMMA TimerStep ==
  ASSUME PathInv, DiscoverNatPort \/ PingPeers \/ IcmpTimeExceeded
  PROVE  PathInv'
<1> USE BoundsAssumption DEF PathInv, TypeOK, HeardIsSomewhere
<1>1. NextRound \in 0 .. RoundsPerDiscovery - 1
  BY DEF NextRound
<1>2. CASE DiscoverNatPort
  <2>1. PICK p \in FirstEligible : nat' = IF IcmpSocket THEN Discovery(p) ELSE nat
    BY <1>2 DEF DiscoverNatPort
  <2>2. p \in Peers /\ config[p] \in Endpoints \ {Nowhere}
    BY FirstIsEligible DEF Eligible
  <2>3. Discovery(p) \in
          [active : {TRUE}, peer : Peers, endpoint : Endpoints \ {Nowhere}]
    BY <2>2 DEF Discovery
  <2> QED BY <1>1, <1>2, <2>1, <2>3 DEF DiscoverNatPort
<1>3. CASE PingPeers
  <2>1. net' \subseteq Packets
    BY <1>3, PingedType DEF PingPeers
  <2> QED BY <1>1, <1>3, <2>1 DEF PingPeers
<1>4. CASE IcmpTimeExceeded
  <2>1. net' \subseteq Packets
    BY <1>4, PingedType DEF IcmpTimeExceeded
  <2> QED BY <1>4, <2>1 DEF IcmpTimeExceeded
<1> QED BY <1>2, <1>3, <1>4

(* The relay's own life, and a new map.                                    *)
LEMMA LinkStep ==
  ASSUME PathInv,
         \/ WaitOver \/ ConnectDerp \/ DerpReady \/ DerpBreaks \/ DerpSticks
         \/ Rebuild
  PROVE  PathInv'
<1> USE BoundsAssumption DEF PathInv, TypeOK, HeardIsSomewhere
<1>1. CASE WaitOver \/ ConnectDerp \/ DerpReady \/ DerpBreaks \/ DerpSticks
  BY <1>1 DEF WaitOver, ConnectDerp, DerpReady, DerpBreaks, DerpSticks, RelayTo,
    RelayStates, node
<1>2. CASE Rebuild
  <2>1. config' \in Maps /\ session' = SessionsOf(config')
    BY <1>2, KnownType DEF Rebuild
  <2>2. config' \in [Peers -> Endpoints]
    BY <2>1 DEF Maps, Endpoints
  <2>3. /\ session' \in
             [Peers -> [endpoint : Addresses \cup {Nowhere}, confirmed : BOOLEAN]]
        /\ \A p \in Peers : session'[p].confirmed => session'[p].endpoint # Nowhere
    BY <2>1, SessionsType
  <2>4. faults' \in 0 .. MaxFaults
    BY <1>2 DEF Rebuild, Fault
  <2> QED BY <1>2, <2>2, <2>3, <2>4 DEF Rebuild
<1> QED BY <1>1, <1>2

(* The peers.                                                              *)
LEMMA PeerStep ==
  ASSUME PathInv, NEW p \in Reachable, PeerPings(p) \/ PeerSends(p) \/ PeerMoves(p)
  PROVE  PathInv'
<1> USE PeersAssumption, BoundsAssumption DEF PathInv, TypeOK, HeardIsSomewhere
<1>1. ASSUME NEW type \in {"ping", "wireguard"}, Send(type, p), where[p] \in Addresses
      PROVE  net' \subseteq Packets
  <2>1. [type |-> type, peer |-> p, from |-> where[p]] \in Packets
    BY <1>1 DEF Packets
  <2> QED BY <1>1, <2>1 DEF Send
<1>2. where[p] \in Addresses \cup {Nowhere}
  BY DEF Maps
<1>3. CASE PeerPings(p)
  <2>1. net' \subseteq Packets
    BY <1>1, <1>2, <1>3 DEF PeerPings
  <2> QED BY <1>3, <2>1 DEF PeerPings, node
<1>4. CASE PeerSends(p)
  <2>1. net' \subseteq Packets
    BY <1>1, <1>4 DEF PeerSends
  <2> QED BY <1>4, <2>1 DEF PeerSends, node
<1>5. CASE PeerMoves(p)
  <2>1. PICK a \in Addresses : where' = [where EXCEPT ![p] = a]
    BY <1>5 DEF PeerMoves
  <2>2. where' \in Maps /\ \A q \in heard' : where'[q] \in Addresses
    BY <1>5, <2>1 DEF PeerMoves, Maps
  <2>3. faults' \in 0 .. MaxFaults
    BY <1>5 DEF PeerMoves, Fault
  <2> QED BY <1>5, <2>2, <2>3 DEF PeerMoves, node
<1> QED BY <1>3, <1>4, <1>5

LEMMA PathInvStep == ASSUME PathInv, [Next]_vars PROVE PathInv'
<1>1. CASE UNCHANGED vars
  BY <1>1 DEF PathInv, TypeOK, HeardIsSomewhere, vars, node
<1>2. CASE Next
  BY <1>2, IncomingStep, RelayStep, TimerStep, LinkStep, PeerStep, PeersAssumption
  DEF Next
<1> QED BY <1>1, <1>2

(* The variables keep their types, and no session is ever confirmed        *)
(* without an endpoint: the send callback, which then leaves the relay     *)
(* aside, has an address to send to (tailscale.cpp:602).                   *)
THEOREM TypeCorrect == Spec => []TypeOK
<1>1. Init => PathInv
  BY InitPathInv
<1>2. PathInv /\ [Next]_vars => PathInv'
  BY PathInvStep
<1>3. PathInv => TypeOK
  BY DEF PathInv
<1> QED BY <1>1, <1>2, <1>3, PTL DEF Spec

(* Whenever the relay is skipped for good, and not just in the first 30 s, *)
(* every peer has a direct path (handle_connected_state_ and the send      *)
(* callback agree on what that is).                                        *)
SkippedIsDirect ==
  SkipDerp /\ relay # "waiting" => \A p \in Peers : HasDirect(p)

THEOREM NobodyWithoutRoute == Spec => []SkippedIsDirect
<1>1. TypeOK => SkippedIsDirect
  BY DEF TypeOK, SkippedIsDirect, SkipDerp, HasDirect
<1> QED BY <1>1, TypeCorrect, PTL
=============================================================================
