--------------------------- MODULE WgManager_proofs ---------------------------
(***************************************************************************)
(* Proofs about the WireGuard device manager, for every set of peers,      *)
(* every number of sessions and every bound: the sessions fit the device   *)
(* (ActiveFits), data reaches the peer of its session (SessionRoutable),   *)
(* keys are never shared (KeysAreOwn) and eviction takes the longest idle  *)
(* peer (EvictsLongestIdle).                                               *)
(***************************************************************************)
EXTENDS WgManager, FiniteSetTheorems, SequenceTheorems, WellFoundedInduction,
        TLAPS

-----------------------------------------------------------------------------
(* The order by last activity.                                             *)

(* A set of naturals has a least element.                                  *)
LEMMA LeastNatural ==
  ASSUME NEW T, T \subseteq Nat, T # {}
  PROVE  \E x \in T : \A y \in T : x <= y
<1> DEFINE R == {ss \in Nat \X Nat : ss[1] < ss[2]}
<1>1. IsWellFoundedOn(R, Nat)
  BY NatLessThanWellFounded DEF OpToRel
<1>2. PICK x \in T : \A y \in T : ~ (<<y, x>> \in R)
  BY <1>1, WFMin
<1>3. ASSUME NEW y \in T, y < x PROVE FALSE
  <2>1. <<y, x>> \in Nat \X Nat /\ <<y, x>>[1] = y /\ <<y, x>>[2] = x
    OBVIOUS
  <2>2. <<y, x>> \in R
    BY <1>3, <2>1
  <2>3. QED
    BY <1>2, <2>2
<1>4. x \in Nat /\ \A y \in T : y \in Nat /\ ~(y < x)
  BY <1>3
<1>5. QED
  BY <1>4

UsageFits(places) ==
  places \in [Peers -> 1 .. Cardinality(Peers)] /\ IsInjective(places)

(* The peer that LeastRecentlyUsed chooses is there and is the only one    *)
(* that has been idle for so long.                                         *)
LEMMA LeastRecentlyUsedIsLeast ==
  ASSUME UsageFits(usage), NEW S \in SUBSET Peers, S # {}
  PROVE  /\ LeastRecentlyUsed(S) \in S
         /\ \A r \in S \ {LeastRecentlyUsed(S)} :
              usage[LeastRecentlyUsed(S)] < usage[r]
<1>1. \A q \in Peers : usage[q] \in Nat
  BY FS_CardinalityType, PeersAssumption DEF UsageFits
<1>2. PICK x \in {usage[q] : q \in S} : \A y \in {usage[q] : q \in S} : x <= y
  <2> DEFINE T == {usage[q] : q \in S}
  <2>1. T \subseteq Nat /\ T # {}
    BY <1>1
  <2>2. QED
    BY <2>1, LeastNatural
<1>3. \E q \in S : \A r \in S : usage[q] <= usage[r]
  BY <1>2
<1>4. /\ LeastRecentlyUsed(S) \in S
      /\ \A r \in S : usage[LeastRecentlyUsed(S)] <= usage[r]
  BY <1>3 DEF LeastRecentlyUsed
<1>5. \A r \in S \ {LeastRecentlyUsed(S)} : usage[r] # usage[LeastRecentlyUsed(S)]
  BY <1>4 DEF UsageFits, IsInjective
<1>6. QED
  BY <1>1, <1>4, <1>5

(* Recording activity keeps every peer in a place of its own.              *)
LEMMA TouchedFits ==
  ASSUME UsageFits(usage), NEW S \in SUBSET Peers
  PROVE  UsageFits(Touched(S))
<1> DEFINE Upto(p) == {q \in Peers : NotAfter(q, p, S)}
<1>1. /\ \A q \in Peers : usage[q] \in Nat /\ PeerOrder[q] \in Nat
      /\ \A q, p \in Peers : q # p => /\ usage[q] # usage[p]
                                     /\ PeerOrder[q] # PeerOrder[p]
  BY FS_CardinalityType, PeersAssumption DEF UsageFits, IsInjective
<1>2. ASSUME NEW p \in Peers
      PROVE  /\ p \in Upto(p) /\ Upto(p) \in SUBSET Peers
             /\ Cardinality(Upto(p)) \in 1 .. Cardinality(Peers)
  <2>1. p \in Upto(p) /\ Upto(p) \in SUBSET Peers
    BY <1>1 DEF NotAfter
  <2>2. /\ IsFiniteSet(Upto(p)) /\ Cardinality(Upto(p)) <= Cardinality(Peers)
    BY <2>1, FS_Subset, PeersAssumption
  <2>3. Cardinality(Upto(p)) \in Nat /\ Cardinality(Upto(p)) # 0
    BY <2>1, <2>2, FS_CardinalityType, FS_EmptySet
  <2>4. Cardinality(Peers) \in Nat
    BY FS_CardinalityType, PeersAssumption
  <2>5. QED
    BY <2>1, <2>2, <2>3, <2>4
<1>3. ASSUME NEW p \in Peers, NEW r \in Peers, NotAfter(p, r, S)
      PROVE  Upto(p) \subseteq Upto(r)
  BY <1>1, <1>3 DEF NotAfter
<1>4. ASSUME NEW p \in Peers, NEW r \in Peers
      PROVE  /\ NotAfter(p, r, S) \/ NotAfter(r, p, S)
             /\ NotAfter(p, r, S) /\ NotAfter(r, p, S) => p = r
  BY <1>1 DEF NotAfter
<1>5. ASSUME NEW p \in Peers, NEW r \in Peers, NotAfter(p, r, S),
             Cardinality(Upto(p)) = Cardinality(Upto(r))
      PROVE  p = r
  <2>1. IsFiniteSet(Upto(r))
    BY <1>2, FS_Subset, PeersAssumption
  <2>2. Upto(p) = Upto(r)
    BY <1>3, <1>5, <2>1, FS_Subset
  <2>3. r \in Upto(p)
    BY <1>2, <2>2
  <2>4. QED
    BY <1>4, <1>5, <2>3
<1>6. Touched(S) = [p \in Peers |-> Cardinality(Upto(p))]
  BY DEF Touched
<1>7. Touched(S) \in [Peers -> 1 .. Cardinality(Peers)]
  BY <1>2, <1>6
<1>8. \A p, r \in Peers : Touched(S)[p] = Touched(S)[r] => p = r
  BY <1>4, <1>5, <1>6
<1>9. QED
  BY <1>7, <1>8 DEF UsageFits, IsInjective
-----------------------------------------------------------------------------
(* Whose index it is, and the keys, sessions and packets made of indices   *)
(* that were drawn for one peer.                                           *)
Owned(mint, i, p)  == i \in DOMAIN mint /\ mint[i] = p
OwnKey(mint, k, p) == Owned(mint, k.local, p) /\ Owned(mint, k.remote, p)

SessionFits(c, p, index, mint) ==
  /\ c \in Sessions
  /\ c.pending # 0 => Owned(mint, c.pending, p)
  /\ c.established => /\ OwnKey(mint, c.curr, p)
                      /\ c.receiverIndex = c.curr.local
                      /\ index[c.curr.local] = p
  /\ ~c.established => c.receiverIndex = 0

NodeFits(c, index, mint) ==
  /\ c \in [Peers -> Sessions \cup {None}]
  /\ index \in [Ids -> Peers \cup {None}]
  /\ Cardinality({p \in Peers : c[p] # None}) <= MaxActive
  /\ \A p \in Peers : c[p] # None => SessionFits(c[p], p, index, mint)
  /\ \A i \in Ids : index[i] # None => Owned(mint, i, index[i])

RemoteFits(r, mint) ==
  /\ r \in [Peers -> Remotes]
  /\ \A p \in Peers :
       /\ r[p].pending # 0 => Owned(mint, r[p].pending, p)
       /\ r[p].next # NoKeypair => OwnKey(mint, r[p].next, p)
       /\ r[p].curr # NoKeypair => OwnKey(mint, r[p].curr, p)

PacketFits(m, mint) ==
  /\ m \in Packets
  /\ Owned(mint, m.sender, m.peer)
  /\ m.type # "init" => Owned(mint, m.receiver, m.peer)

MintFits(mint) == mint \in Seq(Peers) /\ Len(mint) <= MaxIds

(* The inductive invariant.                                                *)
WgInv ==
  /\ NodeFits(ctx, receiverToPeer, minted)
  /\ UsageFits(usage)
  /\ RemoteFits(remote, minted)
  /\ \A m \in net : PacketFits(m, minted)
  /\ MintFits(minted)
  /\ faults \in 0 .. MaxFaults

LEMMA WgInvMeans ==
  WgInv => TypeOK /\ ActiveFits /\ SessionRoutable /\ KeysAreOwn
<1> SUFFICES ASSUME WgInv
             PROVE  TypeOK /\ ActiveFits /\ SessionRoutable /\ KeysAreOwn
  OBVIOUS
<1> USE DEF WgInv
<1>1. /\ Len(minted) \in Nat /\ DOMAIN minted = 1 .. Len(minted)
      /\ Len(minted) <= MaxIds /\ MaxIds \in Nat
  BY CountsAssumption DEF MintFits
<1>2. TypeOK
  BY DEF TypeOK, NodeFits, UsageFits, RemoteFits, PacketFits, MintFits
<1>3. ActiveFits
  BY DEF ActiveFits, Active, NodeFits
<1>4. SessionRoutable
  BY <1>1 DEF SessionRoutable, Established, NodeFits, SessionFits, OwnKey,
              Owned, NoKeypair
<1>5. KeysAreOwn
  BY <1>1 DEF KeysAreOwn, Established, NodeFits, SessionFits, OwnKey, Owned
<1>6. QED
  BY <1>2, <1>3, <1>4, <1>5
-----------------------------------------------------------------------------
(* New indices take nothing away from the old ones.                        *)
Grown(old, new) ==
  /\ MintFits(new)
  /\ \A i, p : Owned(old, i, p) => Owned(new, i, p)

LEMMA SameMint == MintFits(minted) => Grown(minted, minted)
BY DEF Grown

LEMMA FitsGrown ==
  ASSUME NEW old, NEW new, Grown(old, new)
  PROVE  /\ \A c, p, index :
              SessionFits(c, p, index, old) => SessionFits(c, p, index, new)
         /\ \A c, index : NodeFits(c, index, old) => NodeFits(c, index, new)
         /\ \A r : RemoteFits(r, old) => RemoteFits(r, new)
         /\ \A m : PacketFits(m, old) => PacketFits(m, new)
<1> USE DEF Grown, OwnKey
<1>1. ASSUME NEW c, NEW p, NEW index, SessionFits(c, p, index, old)
      PROVE  SessionFits(c, p, index, new)
  BY <1>1 DEF SessionFits
<1>2. ASSUME NEW c, NEW index, NodeFits(c, index, old)
      PROVE  NodeFits(c, index, new)
  BY <1>1, <1>2 DEF NodeFits
<1>3. ASSUME NEW r, RemoteFits(r, old) PROVE RemoteFits(r, new)
  BY <1>3 DEF RemoteFits
<1>4. ASSUME NEW m, PacketFits(m, old) PROVE PacketFits(m, new)
  BY <1>4 DEF PacketFits
<1>5. QED
  BY <1>1, <1>2, <1>3, <1>4

(* Drawing one index for p.                                                *)
LEMMA MintOne ==
  ASSUME WgInv, NEW p \in Peers, CanMint(1), minted' = Append(minted, p)
  PROVE  /\ Len(minted) + 1 \in Ids
         /\ Owned(minted', Len(minted) + 1, p)
         /\ Grown(minted, minted')
         /\ \A i, q : Owned(minted, i, q) => i # Len(minted) + 1
<1>1. /\ Len(minted) \in Nat /\ DOMAIN minted = 1 .. Len(minted)
      /\ Len(minted) + 1 <= MaxIds /\ MaxIds \in Nat
      /\ minted \in Seq(Peers)
  BY CountsAssumption DEF WgInv, MintFits, CanMint
<1>2. /\ minted' \in Seq(Peers) /\ Len(minted') = Len(minted) + 1
      /\ DOMAIN minted' = 1 .. Len(minted) + 1
      /\ minted'[Len(minted) + 1] = p
      /\ \A i \in 1 .. Len(minted) : minted'[i] = minted[i]
  BY <1>1, AppendProperties
<1>3. QED
  BY <1>1, <1>2 DEF Grown, MintFits, Owned, Ids

(* The indices of a session, a key or a packet are numbers of Ids.         *)
LEMMA OwnedIsId ==
  ASSUME WgInv, NEW i, NEW p, Owned(minted, i, p)
  PROVE  i \in Ids /\ i # 0 /\ i \in 0 .. MaxIds
<1>1. /\ Len(minted) \in Nat /\ DOMAIN minted = 1 .. Len(minted)
      /\ Len(minted) <= MaxIds /\ MaxIds \in Nat
  BY CountsAssumption DEF WgInv, MintFits
<1>2. QED
  BY <1>1 DEF Owned, Ids

LEMMA NewSessionFits ==
  ASSUME NEW p \in Peers, NEW index, NEW mint
  PROVE  SessionFits(NewSession, p, index, mint) /\ NewSession # None
<1>1. NewSession \in Sessions
  BY CountsAssumption DEF NewSession, Sessions, Keypairs, NoKeypair
<1>2. QED
  BY <1>1, NamesAssumption DEF SessionFits, NewSession
-----------------------------------------------------------------------------
(* The first sessions fit.                                                 *)
LEMMA FirstActiveFits ==
  ASSUME NEW mint
  PROVE  NodeFits(FirstActive, [i \in Ids |-> None], mint)
<1> DEFINE S == {p \in Peers : PeerOrder[p] <= MaxActive}
           c == FirstActive
<1>1. /\ c \in [Peers -> Sessions \cup {None}]
      /\ \A p \in Peers : c[p] # None <=> p \in S
      /\ \A p \in Peers : c[p] # None =>
           SessionFits(c[p], p, [i \in Ids |-> None], mint)
  BY NewSessionFits DEF FirstActive, SessionFits
<1>2. Cardinality(S) <= MaxActive
  <2>1. [p \in S |-> PeerOrder[p]] \in Injection(S, 1 .. MaxActive)
    BY FS_CardinalityType, PeersAssumption, CountsAssumption
       DEF Injection, IsInjective
  <2>2. IsFiniteSet(1 .. MaxActive) /\ Cardinality(1 .. MaxActive) = MaxActive
    BY FS_Interval, CountsAssumption
  <2>3. QED
    BY <2>1, <2>2, FS_Injection
<1>3. {p \in Peers : c[p] # None} = S
  BY <1>1
<1>4. QED
  BY <1>1, <1>2, <1>3 DEF NodeFits

LEMMA WgInvInit == Init => WgInv
<1> SUFFICES ASSUME Init PROVE WgInv
  OBVIOUS
<1>1. NodeFits(ctx, receiverToPeer, minted)
  BY FirstActiveFits DEF Init
<1>2. UsageFits(usage)
  BY PeersAssumption DEF Init, UsageFits
<1>3. RemoteFits(remote, minted)
  BY CountsAssumption DEF Init, RemoteFits, Restarted, Remotes, Keypairs, NoKeypair
<1>4. MintFits(minted)
  BY CountsAssumption DEF Init, MintFits
<1>5. QED
  BY <1>1, <1>2, <1>3, <1>4, CountsAssumption DEF Init, WgInv
-----------------------------------------------------------------------------
(* activate_peer_wireguard_ for the peer of a packet: whoever had to leave *)
(* was the longest idle of a full house, and what remains fits.            *)
LEMMA EvictedIsLeast ==
  ASSUME WgInv, NEW p \in Peers
  PROVE  /\ Evicted(p) \in SUBSET Active /\ p \notin Evicted(p)
         /\ Evicted(p) = {} => p \in Active \/ Cardinality(Active) < MaxActive
         /\ \A q \in Evicted(p) :
              /\ Evicted(p) = {q} /\ p \notin Active
              /\ Cardinality(Active) = MaxActive
              /\ \A r \in Active \ {q} : usage[q] < usage[r]
<1>1. /\ IsFiniteSet(Active) /\ Active \in SUBSET Peers
      /\ Cardinality(Active) \in Nat /\ Cardinality(Active) <= MaxActive
      /\ MaxActive \in Nat \ {0}
  BY FS_Subset, FS_CardinalityType, PeersAssumption, CountsAssumption
     DEF Active, WgInv, NodeFits
<1>2. CASE p \in Active \/ Cardinality(Active) < MaxActive
  BY <1>1, <1>2 DEF Evicted
<1>3. CASE p \notin Active /\ Cardinality(Active) = MaxActive
  <2>1. Active # {}
    BY <1>1, <1>3, FS_EmptySet
  <2>2. Evicted(p) = {LeastRecentlyUsed(Active)}
    BY <1>1, <1>3 DEF Evicted
  <2>3. QED
    BY <1>1, <1>3, <2>1, <2>2, LeastRecentlyUsedIsLeast DEF WgInv
<1>4. QED
  BY <1>1, <1>2, <1>3

LEMMA ActivatedFits ==
  ASSUME WgInv, NEW p \in Peers
  PROVE  NodeFits(Activated(p), WithoutIndexOf(Evicted(p)), minted)
<1> DEFINE c == Activated(p)
           index == WithoutIndexOf(Evicted(p))
<1>1. /\ ctx \in [Peers -> Sessions \cup {None}]
      /\ receiverToPeer \in [Ids -> Peers \cup {None}]
      /\ Cardinality(Active) <= MaxActive
      /\ \A q \in Peers :
           ctx[q] # None => SessionFits(ctx[q], q, receiverToPeer, minted)
      /\ \A i \in Ids :
           receiverToPeer[i] # None => Owned(minted, i, receiverToPeer[i])
  BY DEF WgInv, NodeFits, Active
<1>2. /\ c \in [Peers -> Sessions \cup {None}]
      /\ index \in [Ids -> Peers \cup {None}]
      /\ \A i \in Ids : index[i] # None => index[i] = receiverToPeer[i]
      /\ \A q \in Peers : \/ c[q] = None
                          \/ c[q] = NewSession
                          \/ c[q] = ctx[q] /\ q \notin Evicted(p)
  BY <1>1, NewSessionFits DEF Activated, WithoutIndexOf, SessionFits
<1>3. Cardinality({q \in Peers : c[q] # None}) <= MaxActive
  <2>1. {q \in Peers : c[q] # None} = (Active \ Evicted(p)) \cup {p}
    BY NewSessionFits, EvictedIsLeast DEF Activated, Active
  <2>2. /\ IsFiniteSet(Active) /\ Cardinality(Active) \in Nat
        /\ MaxActive \in Nat
    BY FS_Subset, FS_CardinalityType, PeersAssumption, CountsAssumption
       DEF Active
  <2>3. CASE Evicted(p) = {}
    <3>1. p \in Active \/ Cardinality(Active) < MaxActive
      BY <2>3, EvictedIsLeast
    <3>2. Cardinality(Active \cup {p}) =
            IF p \in Active THEN Cardinality(Active) ELSE Cardinality(Active) + 1
      BY <2>2, FS_AddElement
    <3>3. {q \in Peers : c[q] # None} = Active \cup {p}
      BY <2>1, <2>3
    <3>4. Cardinality(Active) <= MaxActive
      BY <1>1
    <3>5. QED
      BY <2>2, <3>1, <3>2, <3>3, <3>4
  <2>4. ASSUME NEW q \in Evicted(p)
        PROVE  Cardinality({x \in Peers : c[x] # None}) <= MaxActive
    <3>1. q \in Active /\ Evicted(p) = {q} /\ p \notin Active
      BY EvictedIsLeast
    <3>2. /\ IsFiniteSet(Active \ {q})
          /\ Cardinality(Active \ {q}) = Cardinality(Active) - 1
      BY <2>2, <3>1, FS_RemoveElement
    <3>3. Cardinality((Active \ {q}) \cup {p}) = Cardinality(Active \ {q}) + 1
      <4>1. p \notin Active \ {q}
        BY <3>1
      <4>2. QED
        BY <3>2, <4>1, FS_AddElement
    <3>4. QED
      BY <1>1, <2>1, <2>2, <3>1, <3>2, <3>3
  <2>5. QED
    BY <2>3, <2>4
<1>4. ASSUME NEW q \in Peers, c[q] # None
      PROVE  SessionFits(c[q], q, index, minted)
  <2>1. CASE c[q] = NewSession
    BY <2>1, NewSessionFits
  <2>2. CASE c[q] = ctx[q] /\ q \notin Evicted(p)
    <3>1. SessionFits(ctx[q], q, receiverToPeer, minted)
      BY <1>1, <1>4, <2>2
    <3>2. ASSUME ctx[q].established PROVE index[ctx[q].curr.local] = q
      <4> DEFINE i == ctx[q].curr.local
      <4>1. Owned(minted, i, q) /\ i \in Ids /\ i # 0 /\ receiverToPeer[i] = q
        BY <3>1, <3>2, OwnedIsId DEF SessionFits, OwnKey
      <4>2. ASSUME NEW r \in Evicted(p), ctx[r].receiverIndex = i PROVE FALSE
        <5>1. r \in Peers /\ ctx[r] # None /\ r # q
          BY <2>2, EvictedIsLeast DEF Active
        <5>2. SessionFits(ctx[r], r, receiverToPeer, minted)
          BY <1>1, <5>1
        <5>3. QED
          BY <4>1, <4>2, <5>1, <5>2 DEF SessionFits, OwnKey, Owned
      <4>3. QED
        BY <4>1, <4>2 DEF WithoutIndexOf
    <3>3. QED
      BY <2>2, <3>1, <3>2 DEF SessionFits
  <2>3. QED
    BY <1>2, <1>4, <2>1, <2>2
<1>5. QED
  BY <1>1, <1>2, <1>3, <1>4 DEF NodeFits

(* The same, for a packet by either way.                                   *)
LEMMA ArrivalFits ==
  ASSUME WgInv, NEW m \in net, NEW way \in Ways
  PROVE  NodeFits(SessionsFor(m, way), IndicesFor(m, way), minted)
<1>1. m.peer \in Peers
  BY DEF WgInv, PacketFits, Packets
<1>2. QED
  BY <1>1, ActivatedFits DEF SessionsFor, IndicesFor, WgInv
-----------------------------------------------------------------------------
(* The network after a packet was taken and others were sent.              *)
LEMMA NetFits ==
  ASSUME WgInv, Grown(minted, minted'), NEW m, NEW S, TakenWith(m, S),
         \A x \in S : PacketFits(x, minted')
  PROVE  /\ \A x \in net' : PacketFits(x, minted')
         /\ faults' \in 0 .. MaxFaults
<1>1. net' \subseteq net \cup S
  BY DEF TakenWith
<1>2. faults' \in 0 .. MaxFaults
  BY CountsAssumption DEF TakenWith, Fault, WgInv
<1>3. \A x \in net : PacketFits(x, minted')
  BY FitsGrown DEF WgInv
<1>4. QED
  BY <1>1, <1>2, <1>3

LEMMA NetStillFits ==
  ASSUME WgInv, Grown(minted, minted'), NEW m, Taken(m)
  PROVE  /\ \A x \in net' : PacketFits(x, minted')
         /\ faults' \in 0 .. MaxFaults
BY FitsGrown, CountsAssumption DEF Taken, Fault, WgInv

(* What a packet that fits says.                                           *)
LEMMA PacketParts ==
  ASSUME WgInv, NEW m \in net
  PROVE  /\ m.peer \in Peers /\ Owned(minted, m.sender, m.peer)
         /\ m.sender \in Ids /\ m.sender # 0 /\ m.sender \in 0 .. MaxIds
         /\ m.type # "init" => /\ Owned(minted, m.receiver, m.peer)
                               /\ m.receiver \in Ids /\ m.receiver # 0
                               /\ m.receiver \in 0 .. MaxIds
BY OwnedIsId DEF WgInv, PacketFits, Packets

LEMMA DataFits ==
  ASSUME NEW p \in Peers, NEW dir \in {"in", "out"}, NEW k \in Keypairs,
         NEW mint, MintFits(mint), OwnKey(mint, k, p)
  PROVE  PacketFits(Data(p, dir, k), mint)
<1>1. /\ Len(mint) \in Nat /\ DOMAIN mint = 1 .. Len(mint)
      /\ Len(mint) <= MaxIds /\ MaxIds \in Nat
  BY CountsAssumption DEF MintFits
<1>2. k.local \in Ids /\ k.remote \in 0 .. MaxIds
  BY <1>1 DEF OwnKey, Owned, Ids
<1>3. QED
  BY <1>2 DEF PacketFits, Data, Packets, OwnKey

LEMMA RefusedKeeps ==
  ASSUME WgInv, NEW m \in net, NEW way \in Ways, Refused(m, way)
  PROVE  WgInv'
<1>1. NodeFits(ctx', receiverToPeer', minted')
  BY ArrivalFits DEF Refused
<1>2. Grown(minted, minted')
  BY SameMint DEF Refused, WgInv
<1>3. (\A x \in net' : PacketFits(x, minted')) /\ faults' \in 0 .. MaxFaults
  BY <1>2, NetStillFits DEF Refused
<1>4. QED
  BY <1>1, <1>3 DEF Refused, WgInv

LEMMA ReceiveInitiationKeeps ==
  ASSUME WgInv, NEW m \in net, NEW way \in Ways, ReceiveInitiation(m, way)
  PROVE  WgInv' /\ \A q \in Peers : ctx'[q] = None => SessionsFor(m, way)[q] = None
<1> DEFINE p == m.peer
           j == Len(minted) + 1
           k == [local |-> j, remote |-> m.sender]
           c == [receiverIndex |-> j, established |-> TRUE, pending |-> 0,
                 curr |-> k, seen |-> m.sender]
           C == SessionsFor(m, way)
           X == IndicesFor(m, way)
<1>1. /\ C[p] # None /\ CanMint(1) /\ minted' = Append(minted, p)
      /\ ctx' = [C EXCEPT ![p] = c]
      /\ receiverToPeer' = [X EXCEPT ![j] = p]
      /\ TakenWith(m, {Resp(p, "out", j, m.sender), Data(p, "out", k)})
      /\ usage' = Touched({p}) /\ UNCHANGED remote
  BY DEF ReceiveInitiation, Answerable
<1>2. /\ p \in Peers /\ Owned(minted, m.sender, p)
      /\ m.sender \in Ids /\ m.sender \in 0 .. MaxIds
  BY PacketParts
<1>3. /\ j \in Ids /\ Owned(minted', j, p) /\ Grown(minted, minted')
      /\ \A i, q : Owned(minted, i, q) => i # j
  BY <1>1, <1>2, MintOne
<1>4. j \in 0 .. MaxIds /\ j # 0 /\ k \in Keypairs /\ c \in Sessions
  BY <1>2, <1>3, CountsAssumption DEF Ids, Keypairs, Sessions
<1>5. OwnKey(minted', k, p)
  BY <1>2, <1>3 DEF OwnKey, Grown
<1>6. NodeFits(C, X, minted)
  BY ArrivalFits
<1>7. NodeFits(ctx', receiverToPeer', minted')
  <2>1. /\ ctx' \in [Peers -> Sessions \cup {None}]
        /\ receiverToPeer' \in [Ids -> Peers \cup {None}]
    BY <1>1, <1>2, <1>3, <1>4, <1>6 DEF NodeFits
  <2>2. {q \in Peers : ctx'[q] # None} = {q \in Peers : C[q] # None}
    BY <1>1, <1>4, <1>6, NamesAssumption DEF NodeFits
  <2>3. ASSUME NEW q \in Peers, ctx'[q] # None
        PROVE  SessionFits(ctx'[q], q, receiverToPeer', minted')
    <3>1. CASE q = p
      <4>1. ctx'[q] = c /\ receiverToPeer'[j] = p
        BY <1>1, <1>2, <1>3, <1>6, <3>1 DEF NodeFits
      <4>2. QED
        BY <1>4, <1>5, <3>1, <4>1 DEF SessionFits
    <3>2. CASE q # p
      <4>1. ctx'[q] = C[q] /\ SessionFits(C[q], q, X, minted)
        BY <1>1, <1>6, <2>3, <3>2 DEF NodeFits
      <4>2. C[q].established => receiverToPeer'[C[q].curr.local] = q
        <5>1. C[q].established => /\ C[q].curr.local # j
                                  /\ C[q].curr.local \in Ids
                                  /\ X[C[q].curr.local] = q
          BY <1>3, <4>1, OwnedIsId DEF SessionFits, OwnKey
        <5>2. QED
          BY <1>1, <1>6, <5>1 DEF NodeFits
      <4>3. SessionFits(C[q], q, receiverToPeer', minted)
        BY <4>1, <4>2 DEF SessionFits
      <4>4. QED
        BY <1>3, <4>1, <4>3, FitsGrown
    <3>3. QED
      BY <3>1, <3>2
  <2>4. ASSUME NEW i \in Ids, receiverToPeer'[i] # None
        PROVE  Owned(minted', i, receiverToPeer'[i])
    <3>1. CASE i = j
      BY <1>1, <1>3, <1>6, <3>1 DEF NodeFits
    <3>2. CASE i # j
      BY <1>1, <1>3, <1>6, <2>4, <3>2 DEF NodeFits, Grown
    <3>3. QED
      BY <3>1, <3>2
  <2>5. QED
    BY <1>6, <2>1, <2>2, <2>3, <2>4 DEF NodeFits
<1>8. (\A x \in net' : PacketFits(x, minted')) /\ faults' \in 0 .. MaxFaults
  <2>1. PacketFits(Data(p, "out", k), minted')
    BY <1>2, <1>3, <1>4, <1>5, DataFits DEF Grown
  <2>2. PacketFits(Resp(p, "out", j, m.sender), minted')
    BY <1>2, <1>3 DEF PacketFits, Resp, Packets, Grown
  <2>3. QED
    BY <1>1, <1>3, <2>1, <2>2, NetFits
<1>9. UsageFits(usage') /\ RemoteFits(remote', minted') /\ MintFits(minted')
  <2>1. UsageFits(usage')
    BY <1>1, <1>2, TouchedFits DEF WgInv
  <2>2. RemoteFits(remote', minted')
    BY <1>1, <1>3, FitsGrown DEF WgInv
  <2>3. QED
    BY <1>3, <2>1, <2>2 DEF Grown
<1>10. \A q \in Peers : ctx'[q] = None => C[q] = None
  BY <1>1, <1>4, <1>6, NamesAssumption DEF NodeFits
<1>11. QED
  BY <1>7, <1>8, <1>9, <1>10 DEF WgInv

LEMMA ReceiveResponseKeeps ==
  ASSUME WgInv, NEW m \in net, m.type = "resp", NEW way \in Ways,
         ReceiveResponse(m, way)
  PROVE  WgInv' /\ \A q \in Peers : ctx'[q] = None => SessionsFor(m, way)[q] = None
<1> DEFINE k == [local |-> m.receiver, remote |-> m.sender]
           C == SessionsFor(m, way)
           X == IndicesFor(m, way)
<1>1. PICK p \in Answered(m, way) :
        /\ ctx' = [C EXCEPT
                     ![p].receiverIndex = m.receiver, ![p].established = TRUE,
                     ![p].pending = 0, ![p].curr = k]
        /\ receiverToPeer' = [X EXCEPT ![m.receiver] = p]
        /\ TakenWith(m, {Data(p, "out", k)})
        /\ usage' = Touched({p})
        /\ UNCHANGED <<remote, minted>>
  BY DEF ReceiveResponse
<1>2. /\ m.peer \in Peers /\ Owned(minted, m.sender, m.peer)
      /\ m.sender \in 0 .. MaxIds
      /\ Owned(minted, m.receiver, m.peer) /\ m.receiver \in Ids
      /\ m.receiver # 0 /\ m.receiver \in 0 .. MaxIds
  BY PacketParts
<1>3. NodeFits(C, X, minted)
  BY ArrivalFits
<1>4. p \in Peers /\ C[p] # None /\ C[p].pending = m.receiver
  BY DEF Answered
<1>5. p = m.peer
  BY <1>2, <1>3, <1>4 DEF NodeFits, SessionFits, Owned
<1>6. k \in Keypairs /\ OwnKey(minted, k, p)
  BY <1>2, <1>5 DEF Keypairs, OwnKey
<1>7. /\ ctx'[p] \in Sessions /\ ctx'[p].receiverIndex = m.receiver
      /\ ctx'[p].established = TRUE /\ ctx'[p].pending = 0 /\ ctx'[p].curr = k
      /\ \A q \in Peers \ {p} : ctx'[q] = C[q]
      /\ DOMAIN ctx' = Peers
  <2>1. C[p] \in Sessions /\ DOMAIN C = Peers
    BY <1>3, <1>4 DEF NodeFits
  <2>2. ctx'[p] = [C[p] EXCEPT !.receiverIndex = m.receiver,
                     !.established = TRUE, !.pending = 0, !.curr = k]
    BY <1>1, <1>4, <2>1
  <2>3. ctx'[p] = [receiverIndex |-> m.receiver, established |-> TRUE,
                   pending |-> 0, curr |-> k, seen |-> C[p].seen]
    BY <2>1, <2>2 DEF Sessions
  <2>4. ctx'[p] \in Sessions
    BY <1>2, <1>6, <2>1, <2>3, CountsAssumption DEF Sessions
  <2>5. QED
    BY <1>1, <2>1, <2>3, <2>4
<1>8. NodeFits(ctx', receiverToPeer', minted')
  <2>1. /\ ctx' \in [Peers -> Sessions \cup {None}]
        /\ receiverToPeer' \in [Ids -> Peers \cup {None}]
    BY <1>1, <1>2, <1>3, <1>4, <1>7 DEF NodeFits
  <2>2. {q \in Peers : ctx'[q] # None} = {q \in Peers : C[q] # None}
    BY <1>4, <1>7, NamesAssumption
  <2>3. ASSUME NEW q \in Peers, ctx'[q] # None
        PROVE  SessionFits(ctx'[q], q, receiverToPeer', minted)
    <3>1. CASE q = p
      <4>1. receiverToPeer'[m.receiver] = p
        BY <1>1, <1>2, <1>3 DEF NodeFits
      <4>2. QED
        BY <1>6, <1>7, <3>1, <4>1 DEF SessionFits
    <3>2. CASE q # p
      <4>1. ctx'[q] = C[q] /\ SessionFits(C[q], q, X, minted)
        BY <1>3, <1>7, <2>3, <3>2 DEF NodeFits
      <4>2. C[q].established => receiverToPeer'[C[q].curr.local] = q
        <5>1. C[q].established => /\ C[q].curr.local # m.receiver
                                  /\ C[q].curr.local \in Ids
                                  /\ X[C[q].curr.local] = q
          BY <1>2, <1>5, <3>2, <4>1, OwnedIsId DEF SessionFits, OwnKey, Owned
        <5>2. QED
          BY <1>1, <1>3, <5>1 DEF NodeFits
      <4>3. QED
        BY <4>1, <4>2 DEF SessionFits
    <3>3. QED
      BY <3>1, <3>2
  <2>4. \A i \in Ids : receiverToPeer'[i] # None =>
                        Owned(minted, i, receiverToPeer'[i])
    BY <1>1, <1>2, <1>3, <1>5 DEF NodeFits
  <2>5. QED
    BY <1>1, <1>3, <2>1, <2>2, <2>3, <2>4 DEF NodeFits
<1>9. Grown(minted, minted')
  BY <1>1, SameMint DEF WgInv
<1>10. (\A x \in net' : PacketFits(x, minted')) /\ faults' \in 0 .. MaxFaults
  <2>1. PacketFits(Data(p, "out", k), minted')
    BY <1>1, <1>4, <1>6, DataFits DEF WgInv
  <2>2. QED
    BY <1>1, <1>9, <2>1, NetFits
<1>11. UsageFits(usage')
  BY <1>1, <1>4, TouchedFits DEF WgInv
<1>12. \A q \in Peers : ctx'[q] = None => C[q] = None
  BY <1>4, <1>7, NamesAssumption
<1>13. QED
  BY <1>1, <1>8, <1>10, <1>11, <1>12 DEF WgInv

LEMMA ReceiveDataKeeps ==
  ASSUME WgInv, NEW m \in net, NEW way \in Ways, ReceiveData(m, way)
  PROVE  WgInv'
<1>1. PICK p \in DecryptedFor(m, way) :
        /\ ctx' = SessionsFor(m, way)
        /\ receiverToPeer' = IndicesFor(m, way)
        /\ Taken(m)
        /\ usage' = Touched({p})
        /\ UNCHANGED <<remote, minted>>
  BY DEF ReceiveData
<1>2. NodeFits(ctx', receiverToPeer', minted')
  BY <1>1, ArrivalFits
<1>3. Grown(minted, minted')
  BY <1>1, SameMint DEF WgInv
<1>4. (\A x \in net' : PacketFits(x, minted')) /\ faults' \in 0 .. MaxFaults
  BY <1>1, <1>3, NetStillFits
<1>5. UsageFits(usage')
  BY <1>1, TouchedFits DEF DecryptedFor, WgInv
<1>6. QED
  BY <1>1, <1>2, <1>4, <1>5 DEF WgInv

LEMMA ReceiveKeeps ==
  ASSUME WgInv, NEW type \in Types, Receive(type)
  PROVE  WgInv'
<1>1. PICK m \in Incoming(type), way \in Ways :
        \/ /\ type = "init"
           /\ ReceiveInitiation(m, way) \/ RefuseInitiation(m, way)
        \/ /\ type = "resp"
           /\ ReceiveResponse(m, way) \/ RefuseResponse(m, way)
        \/ /\ type = "data"
           /\ ReceiveData(m, way) \/ RefuseData(m, way)
  BY DEF Receive
<1>2. m \in net /\ m.type = type
  BY DEF Incoming
<1>3. QED
  BY <1>1, <1>2, RefusedKeeps, ReceiveInitiationKeeps, ReceiveResponseKeeps,
     ReceiveDataKeeps DEF RefuseInitiation, RefuseResponse, RefuseData
-----------------------------------------------------------------------------
(* The timer: every waiting peer gets an index of its own.                 *)
LEMMA OrderReachesAll ==
  ASSUME NEW S \in SUBSET Peers,
         NEW order \in [1 .. Cardinality(S) -> S],
         \A i, j \in DOMAIN order :
           i < j => PeerOrder[order[i]] < PeerOrder[order[j]]
  PROVE  /\ \A p \in S : \E i \in 1 .. Cardinality(S) : order[i] = p
         /\ order \in Seq(Peers) /\ Len(order) = Cardinality(S)
         /\ Cardinality(S) \in Nat
<1>1. IsFiniteSet(S) /\ Cardinality(S) \in Nat
  BY FS_Subset, FS_CardinalityType, PeersAssumption
<1>2. \A q \in Peers : PeerOrder[q] \in Nat
  BY FS_CardinalityType, PeersAssumption
<1>3. order \in Injection(1 .. Cardinality(S), S)
  <2>1. ASSUME NEW i \in DOMAIN order, NEW j \in DOMAIN order, order[i] = order[j]
        PROVE  i = j
    <3>1. i \in Nat /\ j \in Nat /\ order[i] \in Peers
      BY <1>1
    <3>2. ~(i < j) /\ ~(j < i)
      BY <1>2, <2>1, <3>1
    <3>3. QED
      BY <3>1, <3>2
  <2>2. QED
    BY <2>1 DEF Injection, IsInjective
<1>4. /\ IsFiniteSet(1 .. Cardinality(S))
      /\ Cardinality(1 .. Cardinality(S)) = Cardinality(S)
  BY <1>1, FS_Interval
<1>5. order \in Surjection(1 .. Cardinality(S), S)
  BY <1>1, <1>3, <1>4, FS_Injection
<1>6. QED
  BY <1>1, <1>5 DEF Surjection

LEMMA MaintainKeeps ==
  ASSUME WgInv, Maintain
  PROVE  WgInv' /\ \A q \in Peers : ctx'[q] = None => ctx[q] = None
<1> DEFINE waiting == {p \in Active : ~Established(p)}
           n == Cardinality(waiting)
<1>1. /\ CanMint(n) /\ usage' = Touched(Active)
      /\ UNCHANGED <<receiverToPeer, remote, faults>>
  BY DEF Maintain
<1>2. PICK order \in [1 .. n -> waiting] :
        LET id(p) == Len(minted) + CHOOSE i \in DOMAIN order : order[i] = p
        IN  /\ \A i, j \in DOMAIN order :
                 i < j => PeerOrder[order[i]] < PeerOrder[order[j]]
            /\ minted' = minted \o order
            /\ ctx' = [p \in Peers |-> IF p \in waiting
                                       THEN [ctx[p] EXCEPT !.pending = id(p)]
                                       ELSE ctx[p]]
            /\ net' = net \cup {Init1(p, "out", id(p)) : p \in waiting}
                          \cup {Data(p, "out", ctx[p].curr) :
                                  p \in Active \ waiting}
  BY DEF Maintain
<1> DEFINE at(p) == CHOOSE i \in DOMAIN order : order[i] = p
           id(p) == Len(minted) + at(p)
<1>3. waiting \in SUBSET Peers
  BY DEF Active
<1>4. /\ \A p \in waiting : \E i \in 1 .. n : order[i] = p
      /\ order \in Seq(Peers) /\ Len(order) = n /\ n \in Nat
  BY <1>2, <1>3, OrderReachesAll
<1> HIDE DEF n
<1>5. /\ Len(minted) \in Nat /\ DOMAIN minted = 1 .. Len(minted)
      /\ minted \in Seq(Peers) /\ MaxIds \in Nat /\ Len(minted) + n <= MaxIds
  BY <1>1, CountsAssumption DEF CanMint, WgInv, MintFits
<1>6. /\ minted' \in Seq(Peers) /\ Len(minted') = Len(minted) + n
      /\ DOMAIN minted' = 1 .. Len(minted) + n
      /\ \A i \in 1 .. Len(minted) : minted'[i] = minted[i]
      /\ \A i \in 1 .. n : minted'[Len(minted) + i] = order[i]
  <2>1. minted' = minted \o order
    BY <1>2
  <2>2. /\ minted' \in Seq(Peers) /\ Len(minted') = Len(minted) + n
        /\ \A i \in 1 .. Len(minted) + n :
             minted'[i] = IF i <= Len(minted) THEN minted[i]
                          ELSE order[i - Len(minted)]
    <3>1. minted \in Seq(Peers) /\ order \in Seq(Peers) /\ Len(order) = n
      BY <1>4, <1>5
    <3>2. QED
      BY <2>1, <3>1, ConcatProperties
  <2>3. DOMAIN minted' = 1 .. Len(minted) + n
    BY <2>2
  <2>4. \A i \in 1 .. Len(minted) : minted'[i] = minted[i]
    BY <1>4, <1>5, <2>2
  <2>5. ASSUME NEW i \in 1 .. n PROVE minted'[Len(minted) + i] = order[i]
    <3>1. Len(minted) + i \in 1 .. Len(minted) + n /\ ~(Len(minted) + i <= Len(minted))
          /\ (Len(minted) + i) - Len(minted) = i
      BY <1>4, <1>5
    <3>2. QED
      BY <2>2, <3>1
  <2>6. QED
    BY <2>2, <2>3, <2>4, <2>5
<1>7. Grown(minted, minted')
  BY <1>4, <1>5, <1>6 DEF Grown, MintFits, Owned
<1>8. \A p \in waiting : /\ Owned(minted', id(p), p)
                         /\ id(p) \in Ids /\ id(p) \in 0 .. MaxIds /\ id(p) # 0
  <2> SUFFICES ASSUME NEW p \in waiting
               PROVE  /\ Owned(minted', id(p), p)
                      /\ id(p) \in Ids /\ id(p) \in 0 .. MaxIds /\ id(p) # 0
    OBVIOUS
  <2>1. at(p) \in 1 .. n /\ order[at(p)] = p
    BY <1>2, <1>4
  <2> HIDE DEF at
  <2>2. QED
    BY <1>4, <1>5, <1>6, <2>1 DEF Owned, Ids
<1>9. /\ ctx' = [p \in Peers |-> IF p \in waiting
                                THEN [ctx[p] EXCEPT !.pending = id(p)]
                                ELSE ctx[p]]
      /\ net' = net \cup {Init1(p, "out", id(p)) : p \in waiting}
                    \cup {Data(p, "out", ctx[p].curr) : p \in Active \ waiting}
  BY <1>2
<1> HIDE DEF id
<1>10. NodeFits(ctx', receiverToPeer', minted')
  <2>1. NodeFits(ctx, receiverToPeer, minted)
    BY DEF WgInv
  <2>2. ASSUME NEW p \in waiting
        PROVE  /\ ctx'[p] # None /\ ctx[p] # None
               /\ SessionFits(ctx'[p], p, receiverToPeer', minted')
    <3>1. /\ p \in Peers /\ ctx[p] # None /\ ~ctx[p].established
          /\ SessionFits(ctx[p], p, receiverToPeer, minted)
      BY <2>1 DEF Active, Established, NodeFits
    <3>2. /\ ctx'[p] = [ctx[p] EXCEPT !.pending = id(p)]
          /\ ctx[p] \in Sessions
      BY <1>9, <3>1 DEF SessionFits
    <3>3. /\ ctx'[p] \in Sessions /\ ctx'[p].pending = id(p)
          /\ ctx'[p].established = ctx[p].established
          /\ ctx'[p].receiverIndex = ctx[p].receiverIndex
      BY <1>8, <3>2 DEF Sessions
    <3>4. SessionFits(ctx'[p], p, receiverToPeer', minted')
      BY <1>8, <3>1, <3>3 DEF SessionFits
    <3>5. QED
      BY <3>1, <3>3, <3>4, NamesAssumption
  <2>3. \A p \in Peers \ waiting : ctx'[p] = ctx[p]
    BY <1>9
  <2>4. ctx' \in [Peers -> Sessions \cup {None}]
    BY <1>9, <2>1, <2>2, <2>3 DEF NodeFits, SessionFits
  <2>5. {p \in Peers : ctx'[p] # None} = {p \in Peers : ctx[p] # None}
    BY <2>2, <2>3
  <2>6. \A p \in Peers :
          ctx'[p] # None => SessionFits(ctx'[p], p, receiverToPeer', minted')
    BY <1>1, <1>7, <2>1, <2>2, <2>3, FitsGrown DEF NodeFits
  <2>7. QED
    BY <1>1, <1>7, <2>1, <2>4, <2>5, <2>6 DEF NodeFits, Grown
<1>11. \A m \in net' : PacketFits(m, minted')
  <2>1. \A m \in net : PacketFits(m, minted')
    BY <1>7, FitsGrown DEF WgInv
  <2>2. ASSUME NEW p \in waiting
        PROVE  PacketFits(Init1(p, "out", id(p)), minted')
    BY <1>3, <1>5, <1>8 DEF PacketFits, Init1, Packets
  <2>3. ASSUME NEW p \in Active \ waiting
        PROVE  PacketFits(Data(p, "out", ctx[p].curr), minted')
    <3>1. /\ p \in Peers /\ ctx[p] # None /\ ctx[p].established
          /\ SessionFits(ctx[p], p, receiverToPeer, minted)
      BY DEF Active, Established, WgInv, NodeFits
    <3>2. ctx[p].curr \in Keypairs /\ OwnKey(minted', ctx[p].curr, p)
      BY <1>7, <3>1 DEF SessionFits, Sessions, OwnKey, Grown
    <3>3. QED
      BY <1>7, <3>1, <3>2, DataFits DEF Grown
  <2>4. QED
    BY <1>9, <2>1, <2>2, <2>3
<1>12. UsageFits(usage')
  BY <1>1, TouchedFits DEF WgInv, Active
<1>13. RemoteFits(remote', minted')
  BY <1>1, <1>7, FitsGrown DEF WgInv
<1>14. \A q \in Peers : ctx'[q] = None => ctx[q] = None
  <2>1. ASSUME NEW p \in waiting PROVE ctx'[p] # None
    <3>1. ctx[p] \in Sessions /\ p \in Peers
      BY DEF Active, WgInv, NodeFits, SessionFits
    <3>2. ctx'[p] = [ctx[p] EXCEPT !.pending = id(p)]
      BY <1>9, <3>1
    <3>3. ctx'[p] \in Sessions
      BY <1>8, <3>1, <3>2 DEF Sessions
    <3>4. QED
      BY <3>3, NamesAssumption
  <2>2. QED
    BY <1>9, <2>1
<1>15. QED
  BY <1>1, <1>7, <1>10, <1>11, <1>12, <1>13, <1>14 DEF WgInv, Grown
-----------------------------------------------------------------------------
(* The other nodes' steps leave this one alone.                            *)
LEMMA RemoteStep ==
  ASSUME WgInv, UNCHANGED nodeVars, Grown(minted, minted'),
         RemoteFits(remote', minted'),
         \A m \in net' : PacketFits(m, minted'),
         faults' \in 0 .. MaxFaults
  PROVE  WgInv'
BY FitsGrown DEF WgInv, nodeVars, Grown

LEMMA RemoteKeeps ==
  ASSUME WgInv, NEW p \in Peers, NEW r \in Remotes, Grown(minted, minted'),
         remote' = [remote EXCEPT ![p] = r],
         r.pending # 0 => Owned(minted', r.pending, p),
         r.next # NoKeypair => OwnKey(minted', r.next, p),
         r.curr # NoKeypair => OwnKey(minted', r.curr, p)
  PROVE  RemoteFits(remote', minted')
<1>1. RemoteFits(remote, minted')
  BY FitsGrown DEF WgInv
<1>2. QED
  BY <1>1 DEF RemoteFits

LEMMA PeerInitiatesKeeps ==
  ASSUME WgInv, NEW p \in Peers, PeerInitiates(p)
  PROVE  WgInv'
<1> DEFINE i == Len(minted) + 1
<1>1. /\ CanMint(1) /\ minted' = Append(minted, p)
      /\ remote' = [remote EXCEPT ![p].pending = i]
      /\ net' = net \cup {Init1(p, "in", i)}
      /\ Fault \/ UNCHANGED faults
      /\ UNCHANGED nodeVars
  BY DEF PeerInitiates
<1>2. /\ i \in Ids /\ Owned(minted', i, p) /\ Grown(minted, minted')
  BY <1>1, MintOne
<1>3. RemoteFits(remote', minted')
  <2> DEFINE r == [remote[p] EXCEPT !.pending = i]
  <2>1. remote[p] \in Remotes /\ remote' = [remote EXCEPT ![p] = r]
    BY <1>1 DEF WgInv, RemoteFits
  <2>2. /\ r \in Remotes /\ r.pending = i /\ r.next = remote[p].next
        /\ r.curr = remote[p].curr
    BY <1>2, <2>1, CountsAssumption DEF Remotes, Ids
  <2> HIDE DEF r
  <2>3. QED
    BY <1>2, <2>1, <2>2, RemoteKeeps DEF WgInv, RemoteFits, OwnKey, Grown
<1>4. \A m \in net' : PacketFits(m, minted')
  <2>1. PacketFits(Init1(p, "in", i), minted')
    BY <1>2, CountsAssumption DEF PacketFits, Init1, Packets
  <2>2. QED
    BY <1>1, <1>2, <2>1, FitsGrown DEF WgInv
<1>5. faults' \in 0 .. MaxFaults
  BY <1>1, CountsAssumption DEF Fault, WgInv
<1>6. QED
  BY <1>1, <1>2, <1>3, <1>4, <1>5, RemoteStep

LEMMA PeerAnswersKeeps ==
  ASSUME WgInv, NEW m \in net, PeerAnswers(m)
  PROVE  WgInv'
<1> DEFINE p == m.peer
           j == Len(minted) + 1
           k == [local |-> j, remote |-> m.sender]
<1>1. /\ CanMint(1) /\ minted' = Append(minted, p)
      /\ remote' = [remote EXCEPT ![p].pending = 0, ![p].seen = m.sender,
                      ![p].next = k]
      /\ TakenWith(m, {Resp(p, "in", j, m.sender)})
      /\ UNCHANGED nodeVars
  BY DEF PeerAnswers
<1>2. /\ p \in Peers /\ Owned(minted, m.sender, p)
      /\ m.sender \in Ids /\ m.sender \in 0 .. MaxIds
  BY PacketParts
<1>3. /\ j \in Ids /\ Owned(minted', j, p) /\ Grown(minted, minted')
  BY <1>1, <1>2, MintOne
<1>4. k \in Keypairs /\ OwnKey(minted', k, p)
  BY <1>2, <1>3, CountsAssumption DEF Keypairs, Ids, OwnKey, Grown
<1>5. RemoteFits(remote', minted')
  <2> DEFINE r == [pending |-> 0, next |-> k, curr |-> remote[p].curr,
                   seen |-> m.sender]
  <2>1. remote[p] \in Remotes
    BY <1>2 DEF WgInv, RemoteFits
  <2>2. remote' = [remote EXCEPT ![p] = r]
    <3>1. remote' = [remote EXCEPT ![p] =
                      [remote[p] EXCEPT !.pending = 0, !.seen = m.sender, !.next = k]]
      BY <1>1, <1>2 DEF WgInv, RemoteFits
    <3>2. remote'[p] = [remote[p] EXCEPT !.pending = 0, !.seen = m.sender, !.next = k]
      BY <1>2, <3>1 DEF WgInv, RemoteFits
    <3>3. remote'[p] = r
      BY <2>1, <3>2 DEF Remotes
    <3>4. QED
      BY <3>1, <3>2, <3>3
  <2>3. r \in Remotes
    BY <1>2, <1>4, <2>1, CountsAssumption DEF Remotes
  <2>4. remote[p].curr # NoKeypair => OwnKey(minted', remote[p].curr, p)
    BY <1>2, <1>3 DEF WgInv, RemoteFits, OwnKey, Grown
  <2>5. QED
    BY <1>2, <1>3, <1>4, <2>2, <2>3, <2>4, RemoteKeeps
<1>6. (\A x \in net' : PacketFits(x, minted')) /\ faults' \in 0 .. MaxFaults
  <2>1. PacketFits(Resp(p, "in", j, m.sender), minted')
    BY <1>2, <1>3 DEF PacketFits, Resp, Packets, Grown
  <2>2. QED
    BY <1>1, <1>3, <2>1, NetFits
<1>7. QED
  BY <1>1, <1>3, <1>5, <1>6, RemoteStep

LEMMA PeerIsAnsweredKeeps ==
  ASSUME WgInv, NEW m \in net, m.type = "resp", PeerIsAnswered(m)
  PROVE  WgInv'
<1> DEFINE p == m.peer
           k == [local |-> m.receiver, remote |-> m.sender]
<1>1. /\ remote' = [remote EXCEPT ![p].pending = 0, ![p].curr = k,
                      ![p].next = NoKeypair]
      /\ TakenWith(m, {Data(p, "in", k)})
      /\ UNCHANGED <<nodeVars, minted>>
  BY DEF PeerIsAnswered
<1>2. /\ p \in Peers /\ k \in Keypairs /\ OwnKey(minted, k, p)
  BY PacketParts DEF Keypairs, OwnKey
<1>3. Grown(minted, minted')
  BY <1>1, SameMint DEF WgInv
<1>4. RemoteFits(remote', minted')
  <2> DEFINE r == [pending |-> 0, next |-> NoKeypair, curr |-> k,
                   seen |-> remote[p].seen]
  <2>1. remote[p] \in Remotes
    BY <1>2 DEF WgInv, RemoteFits
  <2>2. remote' = [remote EXCEPT ![p] = r]
    <3>1. remote' = [remote EXCEPT ![p] =
                      [remote[p] EXCEPT !.pending = 0, !.curr = k,
                             !.next = NoKeypair]]
      BY <1>1, <1>2 DEF WgInv, RemoteFits
    <3>2. remote'[p] = [remote[p] EXCEPT !.pending = 0, !.curr = k,
                      !.next = NoKeypair]
      BY <1>2, <3>1 DEF WgInv, RemoteFits
    <3>3. remote'[p] = r
      BY <2>1, <3>2 DEF Remotes
    <3>4. QED
      BY <3>1, <3>2, <3>3
  <2>3. r \in Remotes
    BY <1>2, <2>1, CountsAssumption DEF Remotes, Keypairs, NoKeypair
  <2>4. QED
    BY <1>1, <1>2, <1>3, <2>2, <2>3, RemoteKeeps
<1>5. (\A x \in net' : PacketFits(x, minted')) /\ faults' \in 0 .. MaxFaults
  <2>1. PacketFits(Data(p, "in", k), minted')
    BY <1>1, <1>2, DataFits DEF WgInv
  <2>2. QED
    BY <1>1, <1>3, <2>1, NetFits
<1>6. QED
  BY <1>1, <1>3, <1>4, <1>5, RemoteStep

LEMMA PeerDecryptsKeeps ==
  ASSUME WgInv, NEW m \in net, m.type = "data", PeerDecrypts(m)
  PROVE  WgInv'
<1> DEFINE p == m.peer
           k == [local |-> m.receiver, remote |-> m.sender]
<1>1. /\ remote[p].next = k
      /\ remote' = [remote EXCEPT ![p].curr = remote[p].next,
                      ![p].next = NoKeypair]
      /\ Taken(m)
      /\ UNCHANGED <<nodeVars, minted>>
  BY DEF PeerDecrypts
<1>2. /\ p \in Peers /\ k \in Keypairs /\ OwnKey(minted, k, p)
  BY PacketParts DEF Keypairs, OwnKey
<1>3. Grown(minted, minted')
  BY <1>1, SameMint DEF WgInv
<1>4. RemoteFits(remote', minted')
  <2> DEFINE r == [pending |-> remote[p].pending, next |-> NoKeypair,
                   curr |-> k, seen |-> remote[p].seen]
  <2>1. remote[p] \in Remotes
    BY <1>2 DEF WgInv, RemoteFits
  <2>2. remote' = [remote EXCEPT ![p] = r]
    <3>1. remote' = [remote EXCEPT ![p] =
                      [remote[p] EXCEPT !.curr = k, !.next = NoKeypair]]
      BY <1>1, <1>2 DEF WgInv, RemoteFits
    <3>2. remote'[p] = [remote[p] EXCEPT !.curr = k, !.next = NoKeypair]
      BY <1>2, <3>1 DEF WgInv, RemoteFits
    <3>3. remote'[p] = r
      BY <2>1, <3>2 DEF Remotes
    <3>4. QED
      BY <3>1, <3>2, <3>3
  <2>3. r \in Remotes
    BY <1>2, <2>1, CountsAssumption DEF Remotes, Keypairs, NoKeypair
  <2>4. remote[p].pending # 0 => Owned(minted, remote[p].pending, p)
    BY <1>2 DEF WgInv, RemoteFits
  <2>5. QED
    BY <1>1, <1>2, <1>3, <2>2, <2>3, <2>4, RemoteKeeps
<1>5. (\A x \in net' : PacketFits(x, minted')) /\ faults' \in 0 .. MaxFaults
  BY <1>1, <1>3, NetStillFits
<1>6. QED
  BY <1>1, <1>3, <1>4, <1>5, RemoteStep

LEMMA PeerSendsKeeps ==
  ASSUME WgInv, NEW p \in Peers, PeerSends(p)
  PROVE  WgInv'
<1>1. remote[p].curr \in Keypairs /\ OwnKey(minted, remote[p].curr, p)
  BY DEF PeerSends, WgInv, RemoteFits, Remotes
<1>2. PacketFits(Data(p, "in", remote[p].curr), minted)
  BY <1>1, DataFits DEF WgInv
<1>3. QED
  BY <1>2 DEF PeerSends, WgInv, nodeVars

LEMMA PeerRestartsKeeps ==
  ASSUME WgInv, NEW p \in Peers, PeerRestarts(p)
  PROVE  WgInv'
<1>1. Restarted \in Remotes
  BY CountsAssumption DEF Restarted, Remotes, Keypairs, NoKeypair
<1>2. Grown(minted, minted')
  BY SameMint DEF PeerRestarts, WgInv
<1>3. RemoteFits(remote', minted')
  BY <1>1, <1>2, RemoteKeeps DEF PeerRestarts, Restarted
<1>4. faults' \in 0 .. MaxFaults
  BY CountsAssumption DEF PeerRestarts, Fault, WgInv
<1>5. QED
  BY <1>2, <1>3, <1>4, RemoteStep DEF PeerRestarts, WgInv
-----------------------------------------------------------------------------
LEMMA WgInvNext == WgInv /\ [Next]_vars => WgInv'
<1> SUFFICES ASSUME WgInv, [Next]_vars PROVE WgInv'
  OBVIOUS
<1>1. CASE Lose
  BY <1>1, CountsAssumption DEF Lose, Fault, WgInv, nodeVars
<1>2. CASE Rebuild
  <2>1. NodeFits(ctx', receiverToPeer', minted')
    BY <1>2, FirstActiveFits DEF Rebuild
  <2>2. UsageFits(usage')
    BY <1>2, PeersAssumption DEF Rebuild, UsageFits
  <2>3. QED
    BY <1>2, <2>1, <2>2, CountsAssumption DEF Rebuild, Fault, WgInv
<1>3. CASE Maintain
  BY <1>3, MaintainKeeps
<1>4. ASSUME NEW p \in Peers, SendIpPacket(p) PROVE WgInv'
  <2>1. ctx[p].curr \in Keypairs /\ OwnKey(minted, ctx[p].curr, p)
    BY <1>4 DEF SendIpPacket, Established, WgInv, NodeFits, SessionFits, Sessions
  <2>2. PacketFits(Data(p, "out", ctx[p].curr), minted)
    BY <2>1, DataFits DEF WgInv
  <2>3. UsageFits(usage')
    BY <1>4, TouchedFits DEF SendIpPacket, WgInv
  <2>4. QED
    BY <1>4, <2>2, <2>3 DEF SendIpPacket, WgInv
<1>5. ASSUME NEW type \in Types, Receive(type) PROVE WgInv'
  BY <1>5, ReceiveKeeps
<1>6. ASSUME NEW type \in Types, PeerReceives(type) PROVE WgInv'
  <2>1. PICK m \in {x \in net : x.type = type /\ x.dir = "out"} :
          \/ type = "init" /\ PeerAnswers(m)
          \/ type = "resp" /\ PeerIsAnswered(m)
          \/ type = "data" /\ PeerDecrypts(m)
          \/ PeerIgnores(m)
    BY <1>6 DEF PeerReceives
  <2>2. CASE PeerIgnores(m)
    BY <2>2 DEF PeerIgnores, WgInv, nodeVars
  <2>3. QED
    BY <2>1, <2>2, PeerAnswersKeeps, PeerIsAnsweredKeeps, PeerDecryptsKeeps
<1>7. ASSUME NEW p \in Peers,
             PeerInitiates(p) \/ PeerSends(p) \/ PeerRestarts(p)
      PROVE  WgInv'
  BY <1>7, PeerInitiatesKeeps, PeerSendsKeeps, PeerRestartsKeeps
<1>8. CASE UNCHANGED vars
  BY <1>8 DEF vars, nodeVars, WgInv
<1>9. QED
  BY <1>1, <1>2, <1>3, <1>4, <1>5, <1>6, <1>7, <1>8 DEF Next, MaintainNoRoute

LEMMA WgInvHolds == Spec => []WgInv
BY WgInvInit, WgInvNext, PTL DEF Spec

(* Every variable keeps its type: what packets and sessions name exists.   *)
THEOREM TypeCorrect == Spec => []TypeOK
BY WgInvHolds, WgInvMeans, PTL

(* However peers are activated, by whichever packets, the device is never  *)
(* asked for one session too many.                                         *)
THEOREM SessionsFit == Spec => []ActiveFits
BY WgInvHolds, WgInvMeans, PTL

(* Through evictions, rekeys in both roles and rebuilds, the index a peer  *)
(* was given leads to the session it was given for.                        *)
THEOREM DataReachesItsSession == Spec => []SessionRoutable
BY WgInvHolds, WgInvMeans, PTL

(* No loss, duplicate, crossing or restart makes two peers share a key.    *)
THEOREM KeysAreNeverShared == Spec => []KeysAreOwn
BY WgInvHolds, WgInvMeans, PTL

(* Whatever step a peer leaves by, it was the longest idle of a full house.*)
THEOREM EvictionTakesLongestIdle == Spec => EvictsLongestIdle
<1> DEFINE Fair ==
      \A q \in Active \ Active' :
        \/ Rebuild
        \/ /\ Cardinality(Active) = MaxActive
           /\ \A p \in Active \cap Active' : usage[q] < usage[p]
<1>1. WgInv /\ [Next]_vars => [Fair]_vars
  <2> SUFFICES ASSUME WgInv, Next, ~Rebuild, NEW q \in Active \ Active'
               PROVE  /\ Cardinality(Active) = MaxActive
                      /\ \A p \in Active \cap Active' : usage[q] < usage[p]
    OBVIOUS
  <2>1. ctx \in [Peers -> Sessions \cup {None}] /\ q \in Peers
        /\ ctx[q] # None /\ ctx'[q] = None
    BY DEF WgInv, NodeFits, Active
  <2>2. ASSUME NEW p \in Peers, q \in Evicted(p)
        PROVE  /\ Cardinality(Active) = MaxActive
               /\ \A r \in Active \cap Active' : usage[q] < usage[r]
    BY <2>2, EvictedIsLeast
  <2>3. ASSUME NEW m \in net, NEW way \in Ways,
               SessionsFor(m, way)[q] = None
        PROVE  m.peer \in Peers /\ q \in Evicted(m.peer)
    BY <2>1, <2>3, PacketParts DEF SessionsFor, Activated
  <2>4. ASSUME NEW type \in Types, Receive(type)
        PROVE  \E m \in net, way \in Ways : SessionsFor(m, way)[q] = None
    <3>1. PICK m \in net, way \in Ways :
            \/ ReceiveInitiation(m, way) \/ Refused(m, way)
            \/ m.type = "resp" /\ ReceiveResponse(m, way)
            \/ ReceiveData(m, way)
      BY <2>4 DEF Receive, Incoming, RefuseInitiation, RefuseResponse, RefuseData
    <3>2. CASE Refused(m, way) \/ ReceiveData(m, way)
      BY <2>1, <3>2 DEF Refused, ReceiveData
    <3>3. QED
      BY <2>1, <3>1, <3>2, ReceiveInitiationKeeps, ReceiveResponseKeeps
  <2>5. CASE Maintain
    BY <2>1, <2>5, MaintainKeeps
  <2>6. CASE UNCHANGED ctx
    BY <2>1, <2>6
  <2>7. QED
    BY <2>2, <2>3, <2>4, <2>5, <2>6
       DEF Next, MaintainNoRoute, Lose, SendIpPacket, PeerReceives,
           PeerInitiates, PeerAnswers, PeerIsAnswered, PeerDecrypts,
           PeerIgnores, PeerSends, PeerRestarts, nodeVars, vars
<1>2. QED
  BY <1>1, WgInvHolds, PTL DEF Spec, EvictsLongestIdle
=============================================================================
