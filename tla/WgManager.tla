------------------------------ MODULE WgManager ------------------------------
(***************************************************************************)
(* WireGuardDeviceManager and the peer switching above it.                 *)
(*                                                                         *)
(* The component knows many peers but has WireGuard sessions with at most  *)
(* MaxActive of them (one in this build).  A packet that comes over the    *)
(* DERP relay from a peer without a session makes it active and evicts the *)
(* least recently used one; a packet that comes over UDP does not.  The    *)
(* manager answers initiations, matches responses against the peers that   *)
(* are not yet established and finds the peer of a data packet through     *)
(* receiver_to_peer_, a map from the indices this side chose.              *)
(*                                                                         *)
(* The WireGuard library is modelled by what it keeps per peer: the index  *)
(* of a pending initiation, the current keypair (named by the indices of   *)
(* its two ends) and the newest initiation it has answered.  The other     *)
(* nodes run the same protocol; they rekey, restart and confirm a          *)
(* responder's keypair on the first data packet, as WireGuard does.        *)
(* Indices are drawn at random from 2^32; here each one is new.            *)
(***************************************************************************)
EXTENDS Integers, Sequences, FiniteSets, Functions

CONSTANTS
  Peers,      \* the peers of the network map
  PeerOrder,  \* the place of each in peer_sessions_
  MaxActive,  \* MAX_ACTIVE_WIREGUARD_PEERS
  MaxIds,     \* bound: handshake indices drawn by both sides
  MaxFaults,  \* bound: losses, duplicates, restarts and early rekeys
  Punctual,   \* timers fire only after the messages of the last round died
  None        \* no peer, no session

ASSUME PeersAssumption ==
  /\ IsFiniteSet(Peers)
  /\ PeerOrder \in [Peers -> 1 .. Cardinality(Peers)]
  /\ IsInjective(PeerOrder)
ASSUME CountsAssumption ==
  /\ MaxActive \in Nat \ {0}
  /\ MaxIds \in Nat
  /\ MaxFaults \in Nat
  /\ Punctual \in BOOLEAN

VARIABLES
  ctx,            \* peers_: the session of each active peer, or None
  receiverToPeer, \* receiver_to_peer_
  usage,          \* the place of each by last_wg_activity, longest idle first
  remote,         \* the state of each peer's own WireGuard
  net,            \* the packets under way
  minted,         \* the peer for whose handshake each index was drawn
  faults          \* how many faults have happened

nodeVars == <<ctx, receiverToPeer, usage>>
vars == <<nodeVars, remote, net, minted, faults>>

Ids == 1 .. MaxIds
Keypairs == [local : 0 .. MaxIds, remote : 0 .. MaxIds]
NoKeypair == [local |-> 0, remote |-> 0]
Mirror(k) == [local |-> k.remote, remote |-> k.local]

Sessions == [receiverIndex : 0 .. MaxIds, established : BOOLEAN,
             pending : 0 .. MaxIds, curr : Keypairs, seen : 0 .. MaxIds]
NewSession == [receiverIndex |-> 0, established |-> FALSE, pending |-> 0,
               curr |-> NoKeypair, seen |-> 0]

ASSUME NamesAssumption == None \notin Peers \cup Sessions

Remotes == [pending : 0 .. MaxIds, next : Keypairs, curr : Keypairs,
            seen : 0 .. MaxIds]
Restarted == [pending |-> 0, next |-> NoKeypair, curr |-> NoKeypair,
              seen |-> 0]

(* A packet and the end that sent it: "in" comes from the peer.            *)
Init1(p, dir, s)    == [type |-> "init", peer |-> p, dir |-> dir,
                        sender |-> s, receiver |-> 0]
Resp(p, dir, s, r)  == [type |-> "resp", peer |-> p, dir |-> dir,
                        sender |-> s, receiver |-> r]
Data(p, dir, k)     == [type |-> "data", peer |-> p, dir |-> dir,
                        sender |-> k.local, receiver |-> k.remote]
Packets == [type : {"init", "resp", "data"}, peer : Peers,
            dir : {"in", "out"}, sender : Ids, receiver : 0 .. MaxIds]

Active == {p \in Peers : ctx[p] # None}
Established(p) == ctx[p] # None /\ ctx[p].established

(* Both ends hold the same keypair and would accept each other's data.     *)
Agreed(p) == Established(p) /\ remote[p].curr = Mirror(ctx[p].curr)
-----------------------------------------------------------------------------
(* activate_peer_wireguard_: who must leave for p, and what is left of     *)
(* peers_ and receiver_to_peer_.                                           *)
(* (Mutant: the comparison of last_wg_activity the wrong way round.)       *)
LeastRecentlyUsed_Most(S) ==
  CHOOSE q \in S : \A r \in S : usage[r] <= usage[q]

LeastRecentlyUsed(S) == CHOOSE q \in S : \A r \in S : usage[q] <= usage[r]

(* Mutant: one session too many fits.                                      *)
Evicted_OneMore(p) ==
  IF p \in Active \/ Cardinality(Active) <= MaxActive THEN {}
  ELSE {LeastRecentlyUsed(Active)}

Evicted(p) ==
  IF p \in Active \/ Cardinality(Active) < MaxActive THEN {}
  ELSE {LeastRecentlyUsed(Active)}

Activated(p) ==
  [q \in Peers |-> IF q \in Evicted(p) THEN None
                   ELSE IF q = p /\ ctx[p] = None THEN NewSession
                   ELSE ctx[q]]

WithoutIndexOf(S) ==
  [i \in Ids |-> IF \E q \in S : ctx[q].receiverIndex = i THEN None
                 ELSE receiverToPeer[i]]

(* The activity that packets sent or decrypted for S record, one peer      *)
(* after the other as they stand in peer_sessions_.                        *)
NotAfter(q, p, S) ==
  IF q \in S /\ p \in S THEN PeerOrder[q] <= PeerOrder[p]
  ELSE p \in S \/ (q \notin S /\ usage[q] <= usage[p])

(* (Mutant: the peers behind p do not move up.)                            *)
Touched_Shared(S) ==
  [p \in Peers |-> IF p \in S THEN Cardinality(Peers) ELSE usage[p]]

Touched(S) ==
  [p \in Peers |-> Cardinality({q \in Peers : NotAfter(q, p, S)})]

(* initialising the sessions from the map: a new manager, and the first    *)
(* peers are active.                                                       *)
FirstActive ==
  [p \in Peers |-> IF PeerOrder[p] <= MaxActive THEN NewSession ELSE None]

Init ==
  /\ ctx = FirstActive
  /\ receiverToPeer = [i \in Ids |-> None]
  /\ usage = PeerOrder
  /\ remote = [p \in Peers |-> Restarted]
  /\ net = {} /\ minted = <<>> /\ faults = 0
-----------------------------------------------------------------------------
Fault == faults < MaxFaults /\ faults' = faults + 1

CanMint(n) == Len(minted) + n <= MaxIds

(* The packet m is taken from the network, or a copy of it stays there.    *)
Taken(m) ==
  \/ net' = net \ {m} /\ UNCHANGED faults
  \/ UNCHANGED net /\ Fault
TakenWith(m, S) ==
  \/ net' = (net \ {m}) \cup S /\ UNCHANGED faults
  \/ net' = net \cup S /\ Fault

Lose ==
  /\ Fault
  /\ \E m \in net : net' = net \ {m}
  /\ UNCHANGED <<nodeVars, remote, minted>>

(* A control-plane reconnection fetches the map again: every session and   *)
(* the manager are made anew.                                              *)
Rebuild ==
  /\ Fault
  /\ ctx' = FirstActive
  /\ receiverToPeer' = [i \in Ids |-> None]
  /\ usage' = PeerOrder
  /\ UNCHANGED <<remote, net, minted>>

(* Nothing of a handshake begun in this direction is still under way: the  *)
(* timers (a minute here, five seconds there) outlast a round trip.        *)
Quiet(dir) ==
  Punctual =>
    \A m \in net : /\ m.type = "init" => m.dir # dir
                   /\ m.type = "resp" => m.dir = dir

(* The maintenance of handle_connected_state_, once a minute while there   *)
(* is a route: keepalives to the established peers, initiations to the     *)
(* other active ones.                                                      *)
Maintain ==
  LET waiting == {p \in Active : ~Established(p)}
      done    == Active \ waiting
  IN  /\ Active # {}
      /\ Quiet("out")
      /\ CanMint(Cardinality(waiting))
      /\ \E order \in [1 .. Cardinality(waiting) -> waiting] :
           LET id(p) == Len(minted) + CHOOSE i \in DOMAIN order : order[i] = p
           IN  /\ \A i, j \in DOMAIN order :
                    i < j => PeerOrder[order[i]] < PeerOrder[order[j]]
               /\ minted' = minted \o order
               /\ ctx' = [p \in Peers |->
                            IF p \in waiting
                            THEN [ctx[p] EXCEPT !.pending = id(p)]
                            ELSE ctx[p]]
               /\ net' = net \cup {Init1(p, "out", id(p)) : p \in waiting}
                             \cup {Data(p, "out", ctx[p].curr) : p \in done}
      /\ usage' = Touched(Active)
      /\ UNCHANGED <<receiverToPeer, remote, faults>>

(* Without a route to the relay or a confirmed path it does nothing.       *)
MaintainNoRoute == UNCHANGED vars

(* send_ip_packet for a packet of the virtual interface.                   *)
SendIpPacket(p) ==
  /\ Established(p)
  /\ ctx[p].curr # NoKeypair
  /\ net' = net \cup {Data(p, "out", ctx[p].curr)}
  /\ usage' = Touched({p})
  /\ UNCHANGED <<ctx, receiverToPeer, remote, minted, faults>>
-----------------------------------------------------------------------------
(* receive_wg_packet.  Over DERP the sender is made active first.          *)
Incoming(type) == {m \in net : m.type = type /\ m.dir = "in"}
Ways == {"derp", "udp"}

SessionsFor(m, way)  == IF way = "derp" THEN Activated(m.peer) ELSE ctx
IndicesFor(m, way) ==
  IF way = "derp" THEN WithoutIndexOf(Evicted(m.peer)) ELSE receiverToPeer

(* The packet is refused; a peer it made active stays so.                  *)
Refused(m, way) ==
  /\ ctx' = SessionsFor(m, way)
  /\ receiverToPeer' = IndicesFor(m, way)
  /\ Taken(m)
  /\ UNCHANGED <<usage, remote, minted>>

(* handle_handshake_initiation_: the library knows the peer and has not    *)
(* answered a newer initiation of it.  The response goes out, the keypair  *)
(* is current at once and a keepalive follows.                             *)
(* (Mutant: a peer with a session is not answered any more.)               *)
Answerable_OnlyNew(m, way) ==
  LET c == SessionsFor(m, way)[m.peer]
  IN  c # None /\ ~c.established /\ m.sender > c.seen

Answerable(m, way) ==
  LET c == SessionsFor(m, way)[m.peer] IN c # None /\ m.sender > c.seen

ReceiveInitiation(m, way) ==
  LET p == m.peer
      j == Len(minted) + 1
      k == [local |-> j, remote |-> m.sender]
  IN  /\ Answerable(m, way)
      /\ CanMint(1)
      /\ minted' = Append(minted, p)
      /\ ctx' = [SessionsFor(m, way) EXCEPT ![p] =
                   [receiverIndex |-> j, established |-> TRUE, pending |-> 0,
                    curr |-> k, seen |-> m.sender]]
      /\ receiverToPeer' = [IndicesFor(m, way) EXCEPT ![j] = p]
      /\ TakenWith(m, {Resp(p, "out", j, m.sender), Data(p, "out", k)})
      /\ usage' = Touched({p})
      /\ UNCHANGED remote

RefuseInitiation(m, way) == ~Answerable(m, way) /\ Refused(m, way)

(* handle_handshake_response_: the first peer that is not established and  *)
(* whose pending initiation the response answers.                          *)
(* (Mutant: any peer that is not established takes the response.)          *)
Answered_Any(m, way) ==
  {p \in Peers : LET c == SessionsFor(m, way)[p]
                 IN  c # None /\ ~c.established}

Answered(m, way) ==
  {p \in Peers : LET c == SessionsFor(m, way)[p]
                 IN  c # None /\ ~c.established /\ c.pending = m.receiver}

(* Mutant: the index of the other end is mapped.                           *)
ReceiveResponse_TheirIndex(m, way) ==
  LET k == [local |-> m.receiver, remote |-> m.sender]
  IN  \E p \in Answered(m, way) :
        /\ ctx' = [SessionsFor(m, way) EXCEPT
                     ![p].receiverIndex = m.sender, ![p].established = TRUE,
                     ![p].pending = 0, ![p].curr = k]
        /\ receiverToPeer' = [IndicesFor(m, way) EXCEPT ![m.sender] = p]
        /\ TakenWith(m, {Data(p, "out", k)})
        /\ usage' = Touched({p})
        /\ UNCHANGED <<remote, minted>>

ReceiveResponse(m, way) ==
  LET k == [local |-> m.receiver, remote |-> m.sender]
  IN  \E p \in Answered(m, way) :
        /\ ctx' = [SessionsFor(m, way) EXCEPT
                     ![p].receiverIndex = m.receiver, ![p].established = TRUE,
                     ![p].pending = 0, ![p].curr = k]
        /\ receiverToPeer' = [IndicesFor(m, way) EXCEPT ![m.receiver] = p]
        /\ TakenWith(m, {Data(p, "out", k)})
        /\ usage' = Touched({p})
        /\ UNCHANGED <<remote, minted>>

RefuseResponse(m, way) == Answered(m, way) = {} /\ Refused(m, way)

(* handle_transport_data_: by index to a peer, whose current keypair must  *)
(* have that index and decrypt the packet.                                 *)
DecryptedFor(m, way) ==
  {p \in Peers : LET c == SessionsFor(m, way)[p]
                 IN  /\ IndicesFor(m, way)[m.receiver] = p
                     /\ c # None
                     /\ c.curr = [local |-> m.receiver, remote |-> m.sender]}

ReceiveData(m, way) ==
  \E p \in DecryptedFor(m, way) :
    /\ ctx' = SessionsFor(m, way)
    /\ receiverToPeer' = IndicesFor(m, way)
    /\ Taken(m)
    /\ usage' = Touched({p})
    /\ UNCHANGED <<remote, minted>>

RefuseData(m, way) == DecryptedFor(m, way) = {} /\ Refused(m, way)

Receive(type) ==
  \E m \in Incoming(type), way \in Ways :
    \/ /\ type = "init"
       /\ ReceiveInitiation(m, way) \/ RefuseInitiation(m, way)
    \/ /\ type = "resp"
       /\ ReceiveResponse(m, way) \/ RefuseResponse(m, way)
    \/ /\ type = "data"
       /\ ReceiveData(m, way) \/ RefuseData(m, way)
-----------------------------------------------------------------------------
(* The other nodes.                                                        *)
PeerInitiates(p) ==
  LET i == Len(minted) + 1
  IN  /\ Quiet("in")
      /\ CanMint(1)
      /\ minted' = Append(minted, p)
      /\ remote' = [remote EXCEPT ![p].pending = i]
      /\ net' = net \cup {Init1(p, "in", i)}
      /\ IF Punctual /\ Agreed(p) THEN Fault ELSE UNCHANGED faults
      /\ UNCHANGED nodeVars

PeerAnswers(m) ==
  LET p == m.peer
      j == Len(minted) + 1
  IN  /\ m.sender > remote[p].seen
      /\ CanMint(1)
      /\ minted' = Append(minted, p)
      /\ remote' = [remote EXCEPT ![p].pending = 0, ![p].seen = m.sender,
                      ![p].next = [local |-> j, remote |-> m.sender]]
      /\ TakenWith(m, {Resp(p, "in", j, m.sender)})
      /\ UNCHANGED nodeVars

PeerIsAnswered(m) ==
  LET p == m.peer
      k == [local |-> m.receiver, remote |-> m.sender]
  IN  /\ m.receiver = remote[p].pending
      /\ remote' = [remote EXCEPT ![p].pending = 0, ![p].curr = k,
                      ![p].next = NoKeypair]
      /\ TakenWith(m, {Data(p, "in", k)})
      /\ UNCHANGED <<nodeVars, minted>>

PeerDecrypts(m) ==
  LET p == m.peer
  IN  /\ remote[p].next = [local |-> m.receiver, remote |-> m.sender]
      /\ remote' = [remote EXCEPT ![p].curr = remote[p].next,
                      ![p].next = NoKeypair]
      /\ Taken(m)
      /\ UNCHANGED <<nodeVars, minted>>

PeerIgnores(m) ==
  LET p == m.peer
  IN  /\ CASE m.type = "init" -> m.sender <= remote[p].seen
           [] m.type = "resp" -> m.receiver # remote[p].pending
           [] m.type = "data" -> remote[p].next #
                                   [local |-> m.receiver, remote |-> m.sender]
      /\ net' = net \ {m}
      /\ UNCHANGED <<nodeVars, remote, minted, faults>>

PeerSends(p) ==
  /\ remote[p].curr # NoKeypair
  /\ net' = net \cup {Data(p, "in", remote[p].curr)}
  /\ UNCHANGED <<nodeVars, remote, minted, faults>>

PeerRestarts(p) ==
  /\ Fault
  /\ remote' = [remote EXCEPT ![p] = Restarted]
  /\ UNCHANGED <<nodeVars, net, minted>>

PeerReceives(type) ==
  \E m \in {x \in net : x.type = type /\ x.dir = "out"} :
    \/ type = "init" /\ PeerAnswers(m)
    \/ type = "resp" /\ PeerIsAnswered(m)
    \/ type = "data" /\ PeerDecrypts(m)
    \/ PeerIgnores(m)

Types == {"init", "resp", "data"}

Next ==
  \/ Lose \/ Rebuild \/ Maintain \/ MaintainNoRoute
  \/ \E type \in Types : Receive(type) \/ PeerReceives(type)
  \/ \E p \in Peers : \/ SendIpPacket(p) \/ PeerInitiates(p)
                      \/ PeerSends(p) \/ PeerRestarts(p)

Spec == Init /\ [][Next]_vars

(* The maintenance timer fires again and again, packets that are not lost  *)
(* are delivered, and a peer with traffic for this node and no session     *)
(* keeps initiating.                                                       *)
FairSpec ==
  /\ Spec
  /\ WF_vars(Maintain)
  /\ \A type \in Types : WF_vars(Receive(type)) /\ WF_vars(PeerReceives(type))
  /\ \A p \in Peers : WF_vars(~Agreed(p) /\ PeerInitiates(p))
-----------------------------------------------------------------------------
TypeOK ==
  /\ ctx \in [Peers -> Sessions \cup {None}]
  /\ receiverToPeer \in [Ids -> Peers \cup {None}]
  /\ usage \in [Peers -> 1 .. Cardinality(Peers)] /\ IsInjective(usage)
  /\ remote \in [Peers -> Remotes]
  /\ net \subseteq Packets
  /\ minted \in Seq(Peers) /\ Len(minted) <= MaxIds
  /\ faults \in 0 .. MaxFaults

(* Activating a peer never asks the device for more sessions than it has:  *)
(* activate_peer_wireguard_ evicts before it adds.                         *)
ActiveFits == Cardinality(Active) <= MaxActive

(* Data for the current session of an active peer reaches that peer,       *)
(* whatever was evicted, rekeyed or made anew before: the index this side  *)
(* gave its peer is mapped, and to no other.                               *)
SessionRoutable ==
  \A p \in Peers :
    Established(p) =>
      /\ ctx[p].curr # NoKeypair
      /\ ctx[p].receiverIndex = ctx[p].curr.local
      /\ receiverToPeer[ctx[p].curr.local] = p

(* A session key is shared with its own peer only: no response or late     *)
(* packet of another handshake ends up in it, and indices left behind in   *)
(* receiver_to_peer_ never lead to another peer.                           *)
KeysAreOwn ==
  /\ \A p \in Peers : Established(p) =>
       minted[ctx[p].curr.local] = p /\ minted[ctx[p].curr.remote] = p
  /\ \A i \in Ids : receiverToPeer[i] # None =>
       i <= Len(minted) /\ receiverToPeer[i] = minted[i]

(* A peer leaves the manager only to make room, and then every peer that   *)
(* stays has been used since ("Find the least recently used active         *)
(* WireGuard peer (for eviction)", line 3666).                             *)
EvictsLongestIdle ==
  [][\A q \in Active \ Active' :
       \/ Rebuild
       \/ /\ Cardinality(Active) = MaxActive
          /\ \A p \in Active \cap Active' : usage[q] < usage[p]]_vars

(* An active peer gets a working session: crossed initiations, losses and  *)
(* restarts are overcome as long as the peer keeps asking.                 *)
ActiveHasSession ==
  \A p \in Peers : p \in Active ~> (Agreed(p) \/ p \notin Active)
=============================================================================
