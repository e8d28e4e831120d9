-------------------------- MODULE DerpClient_proofs --------------------------
(***************************************************************************)
(* Proofs about the relay connection, for every number of packets, every   *)
(* idle limit and every clock: a reader finds a header unless something    *)
(* was cut short (OnBoundary), packets are handed over whole, once and in  *)
(* order (PacketsWhole) and, until the clock wraps, no backoff is longer   *)
(* than 30 s (BackoffEnds).                                                *)
(***************************************************************************)
EXTENDS DerpClient, SequenceTheorems, TLAPS

(* A piece of a frame; the first two are its header.                       *)
Pieces == [kind : Kinds, id : 1 .. MaxPackets, at : 1 .. 4]

LEMMA BoundsAre ==
  /\ MaxPackets \in Nat /\ MaxPackets > 0
  /\ IdleLimit \in Nat /\ Wrap \in Nat /\ Wrap > 8
BY DerpAssumption

LEMMA IdIsNat ==
  ASSUME NEW w \in Seq(Pieces), NEW i \in 1 .. Len(w)
  PROVE  w[i].id \in Nat
<1>1. w[i] \in Pieces
  OBVIOUS
<1>2. QED
  BY <1>1, BoundsAre DEF Pieces

(* What is left of the wire without its first n pieces.                    *)
LEMMA Dropped ==
  ASSUME NEW w \in Seq(Pieces), NEW n \in 0 .. Len(w), NEW v,
         v = SubSeq(w, n + 1, Len(w))
  PROVE  /\ v \in Seq(Pieces) /\ Len(v) = Len(w) - n
         /\ \A i \in 1 .. Len(v) : v[i] = w[i + n]
OBVIOUS

LEMMA TailDropped ==
  ASSUME NEW w \in Seq(Pieces), w # <<>>
  PROVE  1 \in 0 .. Len(w) /\ Tail(w) = SubSeq(w, 2, Len(w))
OBVIOUS

LEMMA TailIs ==
  ASSUME NEW w \in Seq(Pieces), w # <<>>, NEW v, v = Tail(w)
  PROVE  /\ v \in Seq(Pieces) /\ Len(v) = Len(w) - 1
         /\ \A i \in 1 .. Len(v) : v[i] = w[i + 1]
OBVIOUS

(* The first n pieces of the wire.                                         *)
LEMMA Taken ==
  ASSUME NEW w \in Seq(Pieces), NEW n \in 0 .. Len(w), NEW v,
         v = SubSeq(w, 1, n)
  PROVE  /\ v \in Seq(Pieces) /\ Len(v) = n
         /\ \A i \in 1 .. n : v[i] = w[i]
OBVIOUS

LEMMA PayloadFits ==
  ASSUME NEW kind \in Kinds
  PROVE  PayloadPieces(kind) \in 0 .. 2
BY DEF PayloadPieces

(* v is the wire w with a frame behind it.                                 *)
Extends(v, w, kind, id) ==
  /\ v \in Seq(Pieces) /\ Len(v) = Len(w) + 2 + PayloadPieces(kind)
  /\ \A i \in 1 .. Len(w) : v[i] = w[i]
  /\ \A i \in Len(w) + 1 .. Len(v) :
       v[i].kind = kind /\ v[i].id = id /\ v[i].at = i - Len(w)

LEMMA Sent ==
  ASSUME NEW w \in Seq(Pieces), NEW kind \in Kinds, NEW id \in 1 .. MaxPackets,
         NEW v, v = w \o Frame(kind, id)
  PROVE  Extends(v, w, kind, id)
<1>1. PayloadPieces(kind) \in 0 .. 2
  BY PayloadFits
<1> DEFINE f == Frame(kind, id)
<1>2. f \in Seq(Pieces) /\ Len(f) = 2 + PayloadPieces(kind)
  <2>1. f = [i \in 1 .. 2 + PayloadPieces(kind) |->
               [kind |-> kind, id |-> id, at |-> i]]
    BY DEF Frame
  <2>2. \A i \in 1 .. 2 + PayloadPieces(kind) :
          [kind |-> kind, id |-> id, at |-> i] \in Pieces
    BY <1>1 DEF Pieces
  <2>3. f \in [1 .. 2 + PayloadPieces(kind) -> Pieces]
    BY <2>1, <2>2
  <2>4. PICK k \in Nat : k = 2 + PayloadPieces(kind)
    BY <1>1
  <2>5. f \in [1 .. k -> Pieces]
    BY <2>3, <2>4
  <2> HIDE DEF f
  <2>6. f \in Seq(Pieces) /\ Len(f) = k
    BY <2>4, <2>5
  <2>7. QED
    BY <2>4, <2>6
<1>3. \A i \in 1 .. Len(f) : f[i] = [kind |-> kind, id |-> id, at |-> i]
  BY <1>1, <1>2 DEF Frame
<1> HIDE DEF f
<1>4. v = w \o f
  BY DEF f
<1>5. /\ v \in Seq(Pieces) /\ Len(v) = Len(w) + Len(f)
      /\ \A i \in 1 .. Len(v) :
           v[i] = IF i <= Len(w) THEN w[i] ELSE f[i - Len(w)]
  BY <1>2, <1>4, ConcatProperties
<1>6. ASSUME NEW i \in Len(w) + 1 .. Len(v)
      PROVE  v[i].kind = kind /\ v[i].id = id /\ v[i].at = i - Len(w)
  <2>1. i - Len(w) \in 1 .. Len(f) /\ ~ i <= Len(w) /\ i \in 1 .. Len(v)
    BY <1>2, <1>5
  <2>2. v[i] = f[i - Len(w)]
    BY <1>5, <2>1
  <2>3. f[i - Len(w)] = [kind |-> kind, id |-> id, at |-> i - Len(w)]
    BY <1>3, <2>1
  <2>4. QED
    BY <2>2, <2>3
<1>7. \A i \in 1 .. Len(w) : i \in 1 .. Len(v) /\ i <= Len(w)
  BY <1>2, <1>5
<1>8. QED
  BY <1>1, <1>2, <1>5, <1>6, <1>7 DEF Extends

(* The smaller of two numbers.                                             *)
LEMMA MinOfTwo ==
  ASSUME NEW a \in Int, NEW b \in Int
  PROVE  Min({a, b}) \in {a, b} /\ Min({a, b}) <= a /\ Min({a, b}) <= b
<1>1. \E x \in {a, b} : \A y \in {a, b} : x <= y
  OBVIOUS
<1>2. QED
  BY <1>1 DEF Min

LEMMA BackoffBounded ==
  ASSUME NEW n \in 1 .. 4
  PROVE  Backoff(n) \in 1 .. 6
<1>1. Min({n, 4}) \in 1 .. 4
  BY MinOfTwo
<1>2. Doublings[Min({n, 4})] \in {1, 2, 4, 8}
  BY <1>1 DEF Doublings
<1>3. PICK d \in {1, 2, 4, 8} : d = Doublings[Min({n, 4})]
  BY <1>2
<1>4. Min({d, 6}) \in {d, 6} /\ Min({d, 6}) <= 6
  BY MinOfTwo
<1>5. QED
  BY <1>3, <1>4 DEF Backoff

(* Where the clock is after some ticks.                                    *)
LEMMA ClockWraps ==
  ASSUME NEW t \in 0 .. Wrap - 1, NEW d \in 0 .. 6
  PROVE  /\ (t + d) % Wrap \in 0 .. Wrap - 1
         /\ (t + d) % Wrap <= t + d
         /\ t + d < Wrap => (t + d) % Wrap = t + d
<1>1. Wrap \in Nat /\ Wrap > 8
  BY DerpAssumption
<1>2. QED
  BY <1>1

-----------------------------------------------------------------------------
(* Types, and the clock.                                                   *)

WireTypes ==
  /\ reading \in [kind : Kinds \cup {"none"}, id : 0 .. MaxPackets, left : 0 .. 2]
  /\ wire \in Seq(Pieces)
  /\ sent \in 0 .. MaxPackets /\ handed \in 0 .. MaxPackets

ClockTypes ==
  /\ idle \in 0 .. IdleLimit + 1
  /\ now \in 0 .. Wrap - 1 /\ until \in 0 .. Wrap - 1
  /\ failures \in 0 .. 4

FlagTypes == calm \in BOOLEAN /\ wrapped \in BOOLEAN /\ cut \in BOOLEAN

LinkTypes ==
  /\ state \in States
  /\ conn \in {"none", "up", "dead", "closed", "reset"}
  /\ server \in {"none", "new", "greeted", "known", "ready"}

LEMMA TypesAre == TypeOK <=> WireTypes /\ ClockTypes /\ LinkTypes /\ FlagTypes
BY DEF TypeOK, WireTypes, ClockTypes, LinkTypes, FlagTypes, Pieces

LEMMA TypesInit == Init => WireTypes /\ ClockTypes /\ LinkTypes /\ FlagTypes
<1>1. Init => WireTypes
  BY BoundsAre DEF Init, WireTypes, Nothing
<1>2. Init => ClockTypes
  BY BoundsAre DEF Init, ClockTypes
<1>3. Init => LinkTypes
  BY DEF Init, LinkTypes, States
<1>4. Init => FlagTypes
  BY Zenon DEF Init, FlagTypes
<1>5. QED
  BY <1>1, <1>2, <1>3, <1>4

LEMMA FlagStep ==
  ASSUME FlagTypes, [Next]_vars
  PROVE  FlagTypes'
BY ZenonT(60)
   DEF FlagTypes, Next, vars, history, Connect, ConnectFails, Restart, Process,
       Disconnect, Offline, ReadHeader, ReadGarbage, HeaderRead, ReadClosed,
       ReadPayload, PayloadFails, SendClientInfo, SendClientInfoFails,
       IdleTimeout, PartialHeader, SendPacket, ServerGreets, ServerAnswers,
       ServerForwards, ServerNotes, ServerSends, ConnectionEnds, TcpGivesUp,
       Broken, TickDisconnected, TickReady, CalmsDown

(* The deadline of a disconnected client lies at most the longest backoff  *)
(* ahead of its clock.                                                     *)
LEMMA ClockStep ==
  ASSUME ClockTypes, BackoffEnds, state \in States, [Next]_vars
  PROVE  ClockTypes' /\ BackoffEnds'
<1> USE DEF ClockTypes, BackoffEnds, Offline, retries, history, link, vars
<1>a. IdleLimit \in Nat /\ Wrap \in Nat /\ Wrap > 8
  BY BoundsAre
<1>1. CASE Connect
  BY <1>a, <1>1 DEF Connect
<1>2. CASE ConnectFails
  <2>1. failures' \in 1 .. 4
    <3>1. PICK k \in Int : k = failures + 1 /\ k \in 1 .. 5
      OBVIOUS
    <3>2. Min({k, 4}) \in {k, 4} /\ Min({k, 4}) <= 4
      BY MinOfTwo
    <3>3. QED
      BY <1>2, <3>1, <3>2 DEF ConnectFails
  <2>2. PICK d \in 0 .. 6 : until' = (now + d) % Wrap
    BY <1>2, <2>1, BackoffBounded DEF ConnectFails
  <2>3. until' \in 0 .. Wrap - 1 /\ until' <= now + d
    BY <2>2, ClockWraps
  <2>4. QED
    BY <1>2, <1>a, <2>1, <2>3 DEF ConnectFails
<1>3. CASE Restart
  BY <1>a, <1>3 DEF Restart
<1>4. CASE Disconnect
  BY <1>a, <1>4 DEF Disconnect
<1>5. CASE ReadHeader \/ ReadGarbage
  BY <1>a, <1>5 DEF ReadHeader, ReadGarbage, HeaderRead, Activity, Reads
<1>6. CASE PartialHeader \/ ReadPayload \/ PayloadFails \/ SendClientInfo
           \/ SendClientInfoFails
  BY <1>6 DEF PartialHeader, ReadPayload, PayloadFails, SendClientInfo,
              SendClientInfoFails
<1>7. CASE SendPacket
  BY <1>a, <1>7 DEF SendPacket, Activity
<1>8. CASE ServerGreets \/ ServerAnswers \/ ServerForwards \/ ServerNotes
  BY <1>8 DEF ServerGreets, ServerAnswers, ServerForwards, ServerNotes,
              ServerSends
<1>9. CASE ConnectionEnds \/ TcpGivesUp
  BY <1>9 DEF ConnectionEnds, TcpGivesUp, Broken
<1>10. CASE TickDisconnected
  <2>1. now' \in 0 .. Wrap - 1 /\ (now' = now + 1 \/ now' = 0)
    <3>1. /\ now' = (now + 1) % Wrap
          /\ now + 1 = Wrap \/ now + 1 < Wrap
      BY <1>10, <1>a DEF TickDisconnected
    <3>2. CASE now + 1 < Wrap
      BY <3>1, <3>2, ClockWraps
    <3>3. CASE now + 1 = Wrap
      BY <3>1, <3>3, <1>a
    <3>4. QED
      BY <3>1, <3>2, <3>3
  <2>2. ~ wrapped' => ~ wrapped /\ now' # 0
    BY <1>10, Zenon DEF TickDisconnected
  <2>3. state = "DISCONNECTED" /\ UNCHANGED <<idle, until, failures>>
    BY <1>10 DEF TickDisconnected
  <2>4. ClockTypes'
    BY <2>1, <2>3
  <2>5. ASSUME ~ wrapped' PROVE until' - now' <= 6
    <3>1. until - now <= 6 /\ now' = now + 1
      BY <2>1, <2>2, <2>3, <2>5
    <3>2. QED
      BY <1>a, <2>3, <3>1
  <2>6. QED
    BY <2>4, <2>5
<1>11. CASE TickReady
  <2>1. idle' = Min({idle + 1, IdleLimit + 1})
    BY <1>11 DEF TickReady
  <2>2. idle' \in 0 .. IdleLimit + 1
    <3>1. PICK k \in Int, l \in Int : k = idle + 1 /\ l = IdleLimit + 1
      BY <1>a
    <3>2. Min({k, l}) \in {k, l} /\ Min({k, l}) <= l
      BY MinOfTwo
    <3>3. QED
      BY <1>a, <2>1, <3>1, <3>2
  <2>3. QED
    BY <1>11, <2>2 DEF TickReady
<1>12. CASE CalmsDown
  BY <1>12 DEF CalmsDown
<1>13. CASE UNCHANGED vars
  BY <1>13
<1>14. QED
  BY <1>1, <1>2, <1>3, <1>4, <1>5, <1>6, <1>7, <1>8, <1>9, <1>10, <1>11,
     <1>12, <1>13 DEF Next, Process, ReadClosed, IdleTimeout

-----------------------------------------------------------------------------
(* The wire as whole frames.                                               *)

(* The last piece of a frame.                                              *)
Ends(x) == x.at = 2 + PayloadPieces(x.kind)

Follows(x, y) ==
  IF Ends(x) THEN y.at = 1
  ELSE y.kind = x.kind /\ y.id = x.id /\ y.at = x.at + 1

Framed(w) ==
  /\ \A i \in 1 .. Len(w) : w[i].at <= 2 + PayloadPieces(w[i].kind)
  /\ \A i \in 1 .. Len(w) - 1 : Follows(w[i], w[i + 1])

IsPacket(x) == x.kind = "RECV_PACKET"
Before(x, y) == x.id < y.id \/ (x.id = y.id /\ x.at < y.at)

(* The packets are numbered as they were forwarded.                        *)
Ordered(w) ==
  \A i, j \in 1 .. Len(w) :
    i < j /\ IsPacket(w[i]) /\ IsPacket(w[j]) => Before(w[i], w[j])

LEMMA DroppedKeeps ==
  ASSUME NEW w \in Seq(Pieces), NEW n \in 0 .. Len(w), NEW v,
         v = SubSeq(w, n + 1, Len(w)), Framed(w), Ordered(w)
  PROVE  Framed(v) /\ Ordered(v)
<1>1. /\ Len(v) = Len(w) - n /\ \A i \in 1 .. Len(v) : v[i] = w[i + n]
      /\ Len(w) \in Nat /\ n \in Nat
  BY Dropped
<1>2. \A i \in 1 .. Len(v) : i + n \in 1 .. Len(w)
  BY <1>1
<1>3. ASSUME NEW i \in 1 .. Len(v) - 1 PROVE Follows(v[i], v[i + 1])
  <2>1. i + n \in 1 .. Len(w) - 1 /\ i \in 1 .. Len(v) /\ i + 1 \in 1 .. Len(v)
    BY <1>1
  <2>2. v[i] = w[i + n] /\ v[i + 1] = w[(i + n) + 1]
    BY <1>1, <2>1
  <2>3. QED
    BY <2>1, <2>2 DEF Framed
<1>4. Framed(v)
  BY <1>1, <1>2, <1>3 DEF Framed
<1>5. ASSUME NEW i \in 1 .. Len(v), NEW j \in 1 .. Len(v), i < j,
             IsPacket(v[i]), IsPacket(v[j])
      PROVE  Before(v[i], v[j])
  <2>1. /\ i + n \in 1 .. Len(w) /\ j + n \in 1 .. Len(w) /\ i + n < j + n
        /\ v[i] = w[i + n] /\ v[j] = w[j + n]
    BY <1>1, <1>2, <1>5
  <2>2. QED
    BY <1>5, <2>1 DEF Ordered
<1>6. QED
  BY <1>4, <1>5 DEF Ordered

LEMMA TakenKeeps ==
  ASSUME NEW w \in Seq(Pieces), NEW n \in 0 .. Len(w), NEW v,
         v = SubSeq(w, 1, n), Framed(w), Ordered(w)
  PROVE  Framed(v) /\ Ordered(v)
<1>1. /\ Len(v) = n /\ \A i \in 1 .. n : v[i] = w[i]
      /\ Len(w) \in Nat /\ n \in Nat
  BY Taken
<1>2. \A i \in 1 .. n : i \in 1 .. Len(w)
  BY <1>1
<1>3. ASSUME NEW i \in 1 .. n - 1 PROVE Follows(v[i], v[i + 1])
  <2>1. i \in 1 .. Len(w) - 1 /\ i \in 1 .. n /\ i + 1 \in 1 .. n
    BY <1>1
  <2>2. v[i] = w[i] /\ v[i + 1] = w[i + 1]
    BY <1>1, <2>1
  <2>3. QED
    BY <2>1, <2>2 DEF Framed
<1>4. QED
  BY <1>1, <1>2, <1>3 DEF Framed, Ordered

(* A frame may follow a wire that does not stop within one.                *)
LEMMA SentKeeps ==
  ASSUME NEW w \in Seq(Pieces), NEW kind \in Kinds, NEW id \in 1 .. MaxPackets,
         NEW v, v = w \o Frame(kind, id),
         Framed(w), Ordered(w), w # <<>> => Ends(w[Len(w)]),
         kind = "RECV_PACKET" =>
           \A i \in 1 .. Len(w) : IsPacket(w[i]) => w[i].id < id
  PROVE  Framed(v) /\ Ordered(v) /\ Ends(v[Len(v)])
<1> DEFINE p == PayloadPieces(kind)
           l == Len(w)
<1>1. p \in 0 .. 2 /\ l \in Nat
  BY PayloadFits
<1>2. /\ Len(v) = l + 2 + p
      /\ \A i \in 1 .. l : v[i] = w[i]
      /\ \A i \in l + 1 .. Len(v) :
           v[i].kind = kind /\ v[i].id = id /\ v[i].at = i - l
  <2>1. Extends(v, w, kind, id)
    BY Sent
  <2>2. QED
    BY <2>1 DEF Extends
<1>3. \A i \in 1 .. l : w[i].id \in Nat
  BY IdIsNat
<1> HIDE DEF p, l
<1>4. \A i \in 1 .. Len(v) : i \in 1 .. l \/ i \in l + 1 .. Len(v)
  BY <1>1, <1>2
<1>5. \A i \in 1 .. Len(v) : v[i].at <= 2 + PayloadPieces(v[i].kind)
  <2>1. \A i \in 1 .. l : v[i].at <= 2 + PayloadPieces(v[i].kind)
    BY <1>2 DEF Framed, l
  <2>2. \A i \in l + 1 .. Len(v) : v[i].at <= 2 + PayloadPieces(v[i].kind)
    <3>1. ASSUME NEW i \in l + 1 .. Len(v) PROVE v[i].at <= 2 + PayloadPieces(v[i].kind)
      <4>1. v[i].kind = kind /\ v[i].at = i - l
        BY <1>2
      <4>2. i - l <= 2 + p
        BY <1>1, <1>2
      <4>3. QED
        BY <4>1, <4>2 DEF p
    <3>2. QED
      BY <3>1
  <2>3. QED
    BY <1>4, <2>1, <2>2
<1>6. ASSUME NEW i \in 1 .. Len(v) - 1 PROVE Follows(v[i], v[i + 1])
  <2>1. i \in Nat /\ (i <= l - 1 \/ i = l \/ i > l)
    BY <1>1, <1>2
  <2>2. CASE i <= l - 1
    <3>1. i \in 1 .. l - 1 /\ v[i] = w[i] /\ v[i + 1] = w[i + 1]
      BY <1>1, <1>2, <2>1, <2>2
    <3>2. QED
      BY <3>1 DEF Framed, l
  <2>3. CASE i = l
    <3>1. w # <<>> /\ v[i] = w[l] /\ i + 1 \in l + 1 .. Len(v)
      BY <1>1, <1>2, <2>3 DEF l
    <3>2. v[i + 1].at = 1 /\ Ends(v[i])
      BY <1>1, <1>2, <2>3, <3>1 DEF l
    <3>3. QED
      BY <3>2 DEF Follows
  <2>4. CASE i > l
    <3>1. i \in l + 1 .. Len(v) /\ i + 1 \in l + 1 .. Len(v) /\ i < l + 2 + p
      BY <1>1, <1>2, <2>1, <2>4
    <3>2. /\ v[i].kind = kind /\ v[i].id = id /\ v[i].at = i - l
          /\ v[i + 1].kind = kind /\ v[i + 1].id = id
          /\ v[i + 1].at = (i + 1) - l
      BY <1>2, <3>1
    <3>3. v[i + 1].at = v[i].at + 1 /\ v[i].at # 2 + p
      <4>1. i \in Nat /\ l \in Nat /\ p \in Nat /\ i < l + 2 + p
        BY <1>1, <2>1, <3>1
      <4>2. (i + 1) - l = (i - l) + 1 /\ i - l # 2 + p
        BY <4>1
      <4>3. QED
        BY <3>2, <4>2
    <3>4. QED
      BY <3>2, <3>3 DEF Follows, Ends, p
  <2>5. QED
    BY <2>1, <2>2, <2>3, <2>4
<1>7. Framed(v)
  BY <1>5, <1>6 DEF Framed
<1>8. ASSUME NEW i \in 1 .. Len(v), NEW j \in 1 .. Len(v), i < j,
             IsPacket(v[i]), IsPacket(v[j])
      PROVE  Before(v[i], v[j])
  <2>1. CASE j \in 1 .. l
    <3>1. i \in 1 .. l /\ v[i] = w[i] /\ v[j] = w[j]
      BY <1>1, <1>2, <1>8, <2>1
    <3>2. QED
      BY <1>8, <2>1, <3>1 DEF Ordered, l
  <2>2. CASE j \in l + 1 .. Len(v) /\ i \in 1 .. l
    BY <1>2, <1>3, <1>8, <2>2 DEF Before, IsPacket, l
  <2>3. CASE j \in l + 1 .. Len(v) /\ i \in l + 1 .. Len(v)
    BY <1>1, <1>2, <1>8, <2>3 DEF Before
  <2>4. QED
    BY <1>4, <2>1, <2>2, <2>3
<1>9. Ends(v[Len(v)])
  <2>1. Len(v) \in l + 1 .. Len(v) /\ Len(v) - l = 2 + p
    BY <1>1, <1>2
  <2>2. QED
    BY <1>2, <2>1 DEF Ends, p
<1>10. QED
  BY <1>7, <1>8, <1>9 DEF Ordered

-----------------------------------------------------------------------------
(* The inductive invariant.                                                *)

(* The packets that are on their way, read or handed over were forwarded.  *)
Numbered ==
  /\ handed <= sent
  /\ IsPacket(reading) => reading.id <= sent
  /\ \A i \in 1 .. Len(wire) : IsPacket(wire[i]) => wire[i].id <= sent

Disconnected ==
  state = "DISCONNECTED" =>
    wire = <<>> /\ conn = "none" /\ server = "none" /\ ~ Busy

(* A handler that waits for a payload waits for some of it.                *)
Loading == Busy => reading.left \in 1 .. 2

(* x is what a handler waits for that reads the payload of frame.          *)
Continues(x, frame) ==
  /\ x.kind = frame.kind /\ x.id = frame.id
  /\ x.at + frame.left = 3 + PayloadPieces(frame.kind)

(* The client is where a frame begins or, when busy, within the frame that *)
(* it reads; a server that is heard goes on with a new frame.              *)
Aligned ==
  /\ Busy => /\ reading.kind \in Kinds
             /\ reading.left \in 1 .. PayloadPieces(reading.kind)
  /\ wire # <<>> => IF Busy THEN Continues(wire[1], reading) ELSE wire[1].at = 1
  /\ conn = "up" => IF wire = <<>> THEN ~ Busy ELSE Ends(wire[Len(wire)])

Unheard ==
  /\ IsPacket(reading) => handed < reading.id
  /\ \A i \in 1 .. Len(wire) : IsPacket(wire[i]) => handed < wire[i].id

(* A frame that a handshake does not expect would stay on the wire: none   *)
(* comes, as the server does not answer before it is asked.                *)
Awaited ==
  /\ state = "WAIT_SERVER_KEY" =>
       /\ server \in {"new", "greeted"}
       /\ server = "new" => wire = <<>> /\ ~ Busy
       /\ Busy => reading.kind = "SERVER_KEY" /\ reading.id # 0
       /\ \A i \in 1 .. Len(wire) : /\ wire[i].kind = "SERVER_KEY"
                                    /\ i > 1 \/ Busy => wire[i].at # 1
  /\ state = "SEND_CLIENT_INFO" => wire = <<>> /\ server = "greeted" /\ ~ Busy
  /\ state = "WAIT_SERVER_INFO" =>
       /\ Busy => reading.kind = "SERVER_INFO"
       /\ ~ Busy /\ wire # <<>> => wire[1].kind = "SERVER_INFO"
       /\ conn = "up" => \/ server = "known" /\ wire = <<>> /\ ~ Busy
                         \/ server = "ready" /\ (Busy \/ wire # <<>>)

OnFrames == Framed(wire) /\ Ordered(wire) /\ Aligned /\ Unheard /\ Awaited

RelayInv ==
  /\ WireTypes /\ LinkTypes
  /\ Numbered /\ Disconnected /\ Loading
  /\ ~ cut => OnFrames

LEMMA RelayInvInit == Init => RelayInv
<1> SUFFICES ASSUME Init PROVE RelayInv
  OBVIOUS
<1>1. WireTypes /\ LinkTypes
  BY TypesInit
<1>2. wire = <<>> /\ Len(wire) = 0 /\ ~ Busy /\ reading.kind = "none"
  BY DEF Init, Busy, Nothing
<1>3. Numbered /\ Disconnected /\ Loading
  BY <1>2 DEF Init, Numbered, Disconnected, Loading, IsPacket
<1>4. OnFrames
  BY <1>2 DEF Init, OnFrames, Framed, Ordered, Aligned, Unheard, Awaited, IsPacket
<1>5. QED
  BY <1>1, <1>3, <1>4 DEF RelayInv

(* Steps that do not touch the connection.                                 *)
LEMMA UntouchedKeeps ==
  ASSUME RelayInv,
         UNCHANGED <<state, reading, conn, wire, server, sent, handed, cut>>
  PROVE  RelayInv'
BY DEF RelayInv, WireTypes, LinkTypes, Numbered, Disconnected, Loading,
       OnFrames, Framed, Ordered, Aligned, Unheard, Awaited, Busy, Continues,
       Ends, Follows, Before, IsPacket

(* disconnect() leaves nothing of the connection.                          *)
LEMMA OfflineKeeps ==
  ASSUME RelayInv, Offline, UNCHANGED <<sent, handed>>
  PROVE  RelayInv'
<1>1. WireTypes'
  BY BoundsAre DEF RelayInv, WireTypes, Offline, Nothing
<1>2. LinkTypes'
  BY DEF RelayInv, LinkTypes, Offline, States
<1>3. /\ wire' = <<>> /\ Len(wire') = 0 /\ ~ Busy' /\ reading'.kind = "none"
      /\ conn' = "none" /\ server' = "none" /\ state' = "DISCONNECTED"
  BY DEF Offline, Busy, Nothing
<1>4. Numbered' /\ Disconnected' /\ Loading'
  BY <1>3 DEF RelayInv, Numbered, Disconnected, Loading, IsPacket
<1>5. OnFrames'
  BY <1>3 DEF OnFrames, Framed, Ordered, Aligned, Unheard, Awaited, IsPacket
<1>6. QED
  BY <1>1, <1>2, <1>4, <1>5 DEF RelayInv

(* Steps of the client that read nothing.                                  *)
LEMMA ConnectKeeps ==
  ASSUME RelayInv, Connect
  PROVE  RelayInv'
<1>1. WireTypes' /\ LinkTypes'
  BY DEF RelayInv, WireTypes, LinkTypes, Connect, history, States
<1>2. /\ wire = <<>> /\ wire' = wire /\ reading' = reading /\ ~ Busy
      /\ state' = "WAIT_SERVER_KEY" /\ conn' = "up" /\ server' = "new"
      /\ sent' = sent /\ handed' = handed
  BY DEF RelayInv, Disconnected, Connect, MayConnect, history
<1>3. Len(wire) = 0 /\ ~ Busy' /\ reading.kind = "none"
  BY <1>2 DEF Busy, Nothing
<1>4. Numbered' /\ Disconnected' /\ Loading'
  BY <1>2, <1>3 DEF RelayInv, Numbered, Disconnected, Loading
<1>5. OnFrames'
  BY <1>2, <1>3 DEF OnFrames, Framed, Ordered, Aligned, Unheard, Awaited, IsPacket
<1>6. QED
  BY <1>1, <1>4, <1>5 DEF RelayInv

LEMMA SendClientInfoKeeps ==
  ASSUME RelayInv, SendClientInfo \/ SendClientInfoFails
  PROVE  RelayInv'
<1>1. WireTypes' /\ LinkTypes'
  BY DEF RelayInv, WireTypes, LinkTypes, SendClientInfo, SendClientInfoFails,
         history, link, States
<1>2. /\ UNCHANGED <<wire, reading, conn, sent, handed, cut>>
      /\ state = "SEND_CLIENT_INFO"
      /\ \/ state' = "WAIT_SERVER_INFO" /\ (conn = "up" => server' = "known")
         \/ state' = "ERROR"
  BY DEF SendClientInfo, SendClientInfoFails, history, link
<1>3. Numbered' /\ Disconnected' /\ Loading' /\ Busy' = Busy
  BY <1>2 DEF RelayInv, Numbered, Disconnected, Loading, Busy
<1>4. ASSUME ~ cut PROVE OnFrames'
  <2>1. wire = <<>> /\ ~ Busy /\ ~ Busy'
    BY <1>2, <1>3, <1>4 DEF RelayInv, OnFrames, Awaited, Busy
  <2>2. Aligned' /\ Awaited'
    BY <1>2, <2>1 DEF Aligned, Awaited
  <2>3. QED
    BY <1>2, <1>4, <2>2 DEF RelayInv, OnFrames, Framed, Ordered, Unheard
<1>5. QED
  BY <1>1, <1>2, <1>3, <1>4 DEF RelayInv

-----------------------------------------------------------------------------
(* Steps that read.                                                        *)

LEMMA DroppedNumbered ==
  ASSUME RelayInv, NEW n \in 0 .. Len(wire),
         wire' = SubSeq(wire, n + 1, Len(wire)), sent' = sent
  PROVE  /\ wire' \in Seq(Pieces)
         /\ \A i \in 1 .. Len(wire') :
              IsPacket(wire'[i]) => wire'[i].id <= sent'
<1>1. wire \in Seq(Pieces) /\ Len(wire) \in Nat /\ n \in Nat
  BY DEF RelayInv, WireTypes
<1>2. /\ wire' \in Seq(Pieces) /\ Len(wire') = Len(wire) - n
      /\ \A i \in 1 .. Len(wire') : wire'[i] = wire[i + n]
  BY <1>1, Dropped
<1>3. \A i \in 1 .. Len(wire') : i + n \in 1 .. Len(wire)
  BY <1>1, <1>2
<1>4. QED
  BY <1>2, <1>3 DEF RelayInv, Numbered

(* Off the boundaries anything may be found; the history and the types     *)
(* hold.                                                                   *)
LEMMA GarbageKeeps ==
  ASSUME RelayInv, ReadGarbage \/ PartialHeader \/ PayloadFails
  PROVE  RelayInv'
<1> DEFINE Result ==
             \/ reading' = Nothing
             \/ /\ reading'.id = 0 /\ reading'.left \in 1 .. 2
                /\ reading' \in [kind : Kinds \cup {"none"},
                                 id : 0 .. MaxPackets, left : 0 .. 2]
<1>1. /\ state' \in States /\ state' # "DISCONNECTED" /\ conn' = conn
      /\ UNCHANGED <<server, sent, handed>>
      /\ wire' = wire \/ (wire # <<>> /\ wire' = Tail(wire))
      /\ reading' = reading \/ Result
  <2>1. CASE ReadGarbage
    <3>1. PICK kind \in Kinds, left \in 0 .. 2 : HeaderRead(kind, 0, left)
      BY <2>1 DEF ReadGarbage
    <3>2. Result
      <4>1. CASE left = 0
        BY <3>1, <4>1 DEF HeaderRead
      <4>2. CASE left > 0
        BY <3>1, <4>2, BoundsAre DEF HeaderRead
      <4>3. QED
        BY <4>1, <4>2
    <3>3. QED
      BY <2>1, <3>1, <3>2
         DEF ReadGarbage, HeaderRead, Reads, RelayInv, LinkTypes, States
  <2>2. CASE PartialHeader
    BY <2>2 DEF PartialHeader, Reads, RelayInv, LinkTypes, States
  <2>3. CASE PayloadFails
    BY <2>3 DEF PayloadFails, RelayInv, LinkTypes, Disconnected, link, States
  <2>4. QED
    BY <2>1, <2>2, <2>3
<1>2. cut'
  <2>1. CASE ReadGarbage
    <3>1. cut
      BY <2>1 DEF ReadGarbage, Reads, RelayInv, OnFrames, Aligned
    <3>2. PICK kind \in Kinds : cut' = (cut \/ kind = "large")
      BY <2>1, Zenon DEF ReadGarbage, HeaderRead
    <3>3. QED
      BY <3>1, <3>2, Zenon
  <2>2. QED
    BY <2>1, Zenon DEF PartialHeader, PayloadFails
<1>3. /\ wire' \in Seq(Pieces)
      /\ \A i \in 1 .. Len(wire') : IsPacket(wire'[i]) => wire'[i].id <= sent'
  <2>1. CASE wire' = wire
    BY <1>1, <2>1 DEF RelayInv, WireTypes, Numbered
  <2>2. CASE wire # <<>> /\ wire' = Tail(wire)
    <3>1. 1 \in 0 .. Len(wire) /\ wire' = SubSeq(wire, 1 + 1, Len(wire))
      BY <2>2, TailDropped DEF RelayInv, WireTypes
    <3>2. QED
      BY <1>1, <3>1, DroppedNumbered
  <2>3. QED
    BY <1>1, <2>1, <2>2
<1>4. /\ reading' \in [kind : Kinds \cup {"none"}, id : 0 .. MaxPackets, left : 0 .. 2]
      /\ IsPacket(reading') => reading'.id <= sent
      /\ reading' # Nothing => reading'.left \in 1 .. 2
  <2>1. CASE reading' = reading
    BY <2>1 DEF RelayInv, WireTypes, Numbered, Loading, Busy
  <2>2. CASE reading' = Nothing
    BY <2>2, BoundsAre DEF Nothing, IsPacket
  <2>3. CASE reading' # Nothing /\ Result
    BY <2>3 DEF IsPacket, RelayInv, WireTypes
  <2>4. QED
    BY <1>1, <2>1, <2>2, <2>3
<1>5. WireTypes' /\ LinkTypes'
  BY <1>1, <1>3, <1>4 DEF RelayInv, WireTypes, LinkTypes
<1>6. Numbered' /\ Disconnected' /\ Loading'
  BY <1>1, <1>3, <1>4 DEF RelayInv, Numbered, Disconnected, Loading, Busy
<1>7. QED
  BY <1>2, <1>5, <1>6 DEF RelayInv

(* A header that is found where one begins.                                *)
LEMMA HeaderKeeps ==
  ASSUME RelayInv, ReadHeader
  PROVE  RelayInv'
<1> DEFINE kind == wire[1].kind
           id == wire[1].id
           p == PayloadPieces(wire[1].kind)
<1>1. /\ wire \in Seq(Pieces) /\ Len(wire) \in Nat /\ Len(wire) >= 2
      /\ 2 \in 0 .. Len(wire) /\ wire' = SubSeq(wire, 2 + 1, Len(wire))
      /\ ~ Busy /\ wire[1].at = 1 /\ wire # <<>>
      /\ state \in {"WAIT_SERVER_KEY", "WAIT_SERVER_INFO", "READY"}
      /\ UNCHANGED <<conn, server, sent, handed>>
  BY DEF RelayInv, WireTypes, ReadHeader, HeaderRead, Reads
<1>2. /\ wire[1] \in Pieces /\ wire[2] \in Pieces
      /\ kind \in Kinds /\ id \in 1 .. MaxPackets /\ p \in 0 .. 2
  <2>1. wire[1] \in Pieces /\ wire[2] \in Pieces
    BY <1>1
  <2>2. kind \in Kinds /\ id \in 1 .. MaxPackets
    BY <2>1 DEF Pieces
  <2>3. QED
    BY <2>1, <2>2, PayloadFits
<1>3. /\ reading' = IF Consumes(kind) /\ p > 0
                    THEN [kind |-> kind, id |-> id, left |-> p] ELSE Nothing
      /\ state' = IF state = "WAIT_SERVER_INFO" /\ kind = "SERVER_INFO" /\ p = 0
                  THEN "READY" ELSE state
  BY DEF ReadHeader, HeaderRead
<1>4. ~ cut' => ~ cut /\ kind # "large"
  BY Zenon DEF ReadHeader, HeaderRead
<1>5. /\ wire' \in Seq(Pieces) /\ Len(wire') = Len(wire) - 2
      /\ \A i \in 1 .. Len(wire') : wire'[i] = wire[i + 2]
  <2>1. /\ wire \in Seq(Pieces) /\ 2 \in 0 .. Len(wire)
        /\ wire' = SubSeq(wire, 2 + 1, Len(wire))
    BY <1>1
  <2>2. PICK n \in 0 .. Len(wire) : n = 2
    BY <2>1
  <2>3. wire' = SubSeq(wire, n + 1, Len(wire))
    BY <2>1, <2>2
  <2>4. /\ wire' \in Seq(Pieces) /\ Len(wire') = Len(wire) - n
        /\ \A i \in 1 .. Len(wire') : wire'[i] = wire[i + n]
    <3>1. wire \in Seq(Pieces)
      BY <2>1
    <3>2. QED
      BY <2>3, <3>1, Dropped
  <2>5. QED
    BY <2>2, <2>4
<1>6. \A i \in 1 .. Len(wire') : IsPacket(wire'[i]) => wire'[i].id <= sent'
  BY <1>1, DroppedNumbered
<1>7. IsPacket(wire[1]) => id <= sent
  BY <1>1 DEF RelayInv, Numbered
<1> HIDE DEF kind, id, p
<1>8. CASE Consumes(kind) /\ p > 0
  <2>1. /\ reading' = [kind |-> kind, id |-> id, left |-> p] /\ Busy'
        /\ reading'.kind = kind /\ reading'.id = id /\ reading'.left = p
    BY <1>2, <1>3, <1>8 DEF Busy, Nothing, Kinds
  <2>2. WireTypes' /\ LinkTypes' /\ Numbered' /\ Disconnected' /\ Loading'
    <3>1. reading' \in [kind : Kinds \cup {"none"}, id : 0 .. MaxPackets,
                        left : 0 .. 2]
      BY <1>2, <2>1
    <3>2. WireTypes' /\ LinkTypes'
      BY <1>1, <1>3, <1>5, <3>1 DEF RelayInv, WireTypes, LinkTypes, States
    <3>3. IsPacket(reading') => reading'.id <= sent'
      BY <1>1, <1>7, <2>1 DEF IsPacket, kind
    <3>4. QED
      BY <1>1, <1>2, <1>3, <1>6, <1>8, <2>1, <3>2, <3>3
         DEF RelayInv, Numbered, Disconnected, Loading
  <2>3. ASSUME ~ cut' PROVE OnFrames'
    <3>1. Framed(wire) /\ Ordered(wire) /\ Aligned /\ Unheard /\ Awaited
      BY <1>4, <2>3 DEF RelayInv, OnFrames
    <3>2. Framed(wire') /\ Ordered(wire')
      BY <1>1, <3>1, DroppedKeeps
    <3>3. wire[2].kind = kind /\ wire[2].id = id /\ wire[2].at = 2
      BY <1>1, <1>2, <3>1 DEF Framed, Follows, Ends, kind, id, p
    <3>4. ASSUME wire' # <<>> PROVE Continues(wire'[1], reading')
      <4>1. wire'[1] = wire[3] /\ 2 \in 1 .. Len(wire) - 1
        BY <1>1, <1>5, <3>4
      <4>2. Follows(wire[2], wire[3]) /\ ~ Ends(wire[2])
        <5>1. Follows(wire[2], wire[2 + 1])
          BY <3>1, <4>1 DEF Framed
        <5>2. QED
          BY <1>2, <1>8, <3>3, <5>1 DEF Ends, p, kind
      <4>3. wire'[1].kind = kind /\ wire'[1].id = id /\ wire'[1].at = 3
        BY <3>3, <4>1, <4>2 DEF Follows
      <4>4. QED
        BY <1>2, <2>1, <4>3 DEF Continues, p, kind
    <3>5. ASSUME conn' = "up" PROVE wire' # <<>> /\ Ends(wire'[Len(wire')])
      <4>1. Ends(wire[Len(wire)])
        BY <1>1, <3>1, <3>5 DEF Aligned
      <4>2. Len(wire) # 2
        BY <1>2, <1>8, <3>3, <4>1 DEF Ends, p, kind
      <4>3. Len(wire') \in 1 .. Len(wire') /\ Len(wire') + 2 = Len(wire)
        BY <1>1, <1>5, <4>2
      <4>4. QED
        BY <1>5, <4>1, <4>3
    <3>6. Aligned'
      BY <1>2, <1>8, <2>1, <3>4, <3>5 DEF Aligned, p, kind
    <3>7. Unheard'
      <4>1. \A i \in 1 .. Len(wire') : i + 2 \in 1 .. Len(wire)
        BY <1>1, <1>5
      <4>2. IsPacket(reading') => handed < reading'.id
        <5>1. 1 \in 1 .. Len(wire)
          BY <1>1
        <5>2. QED
          BY <1>1, <2>1, <3>1, <5>1 DEF Unheard, IsPacket, kind, id
      <4>3. QED
        BY <1>1, <1>5, <3>1, <4>1, <4>2 DEF Unheard
    <3>8. Awaited'
      <4>1. CASE state = "WAIT_SERVER_KEY"
        <5>1. state' = "WAIT_SERVER_KEY" /\ kind = "SERVER_KEY"
          BY <1>3, <1>8, <4>1 DEF Consumes
        <5>2. server' \in {"new", "greeted"} /\ server' # "new"
          BY <1>1, <3>1, <4>1 DEF Awaited
        <5>3. \A i \in 1 .. Len(wire') :
                wire'[i].kind = "SERVER_KEY" /\ wire'[i].at # 1
          <6>1. \A i \in 1 .. Len(wire') : i + 2 \in 1 .. Len(wire) /\ i + 2 > 1
            BY <1>1, <1>5
          <6>2. QED
            BY <1>5, <3>1, <4>1, <6>1 DEF Awaited
        <5>4. QED
          BY <1>2, <2>1, <5>1, <5>2, <5>3 DEF Awaited
      <4>2. CASE state = "WAIT_SERVER_INFO"
        <5>1. state' = "WAIT_SERVER_INFO" /\ kind = "SERVER_INFO"
          BY <1>3, <1>8, <4>2 DEF Consumes
        <5>2. conn' = "up" => server' = "ready"
          BY <1>1, <3>1, <4>2 DEF Awaited
        <5>3. QED
          BY <2>1, <5>1, <5>2 DEF Awaited
      <4>3. CASE state = "READY"
        BY <1>3, <4>3 DEF Awaited
      <4>4. QED
        BY <1>1, <4>1, <4>2, <4>3
    <3>9. QED
      BY <3>2, <3>6, <3>7, <3>8 DEF OnFrames
  <2>4. QED
    BY <2>2, <2>3 DEF RelayInv
<1>9. CASE ~ (Consumes(kind) /\ p > 0)
  <2>1. reading' = Nothing /\ ~ Busy' /\ reading'.kind = "none"
    BY <1>3, <1>9 DEF Busy, Nothing
  <2>2. WireTypes' /\ LinkTypes' /\ Numbered' /\ Disconnected' /\ Loading'
    <3>1. reading' \in [kind : Kinds \cup {"none"}, id : 0 .. MaxPackets,
                        left : 0 .. 2]
      BY <2>1, BoundsAre DEF Nothing
    <3>2. WireTypes' /\ LinkTypes'
      BY <1>1, <1>3, <1>5, <3>1 DEF RelayInv, WireTypes, LinkTypes, States
    <3>3. QED
      BY <1>1, <1>3, <1>6, <2>1, <3>2
         DEF RelayInv, Numbered, Disconnected, Loading, IsPacket
  <2>3. ASSUME ~ cut' PROVE OnFrames'
    <3>1. Framed(wire) /\ Ordered(wire) /\ Aligned /\ Unheard /\ Awaited
      BY <1>4, <2>3 DEF RelayInv, OnFrames
    <3>2. Framed(wire') /\ Ordered(wire')
      BY <1>1, <3>1, DroppedKeeps
    <3>3. state = "READY" /\ state' = "READY" /\ p = 0
      <4>1. state = "WAIT_SERVER_KEY" => kind = "SERVER_KEY"
        BY <1>1, <3>1 DEF Awaited, kind
      <4>2. state = "WAIT_SERVER_INFO" => kind = "SERVER_INFO"
        BY <1>1, <3>1 DEF Awaited, kind
      <4>3. Consumes(kind) \/ (state = "READY" /\ kind = "bare")
        BY <1>1, <1>4, <2>3, <4>1, <4>2 DEF Consumes
      <4>4. kind \in {"SERVER_KEY", "SERVER_INFO"} => p = 1
        BY DEF p, kind, PayloadPieces
      <4>5. kind = "bare" => p = 0
        BY DEF p, kind, PayloadPieces
      <4>6. QED
        BY <1>1, <1>2, <1>3, <1>9, <4>1, <4>2, <4>3, <4>4, <4>5
    <3>4. wire[2].kind = kind /\ wire[2].at = 2 /\ Ends(wire[2])
      BY <1>1, <1>2, <3>1, <3>3 DEF Framed, Follows, Ends, kind, p
    <3>5. ASSUME wire' # <<>> PROVE wire'[1].at = 1
      <4>1. wire'[1] = wire[3] /\ 2 \in 1 .. Len(wire) - 1
        BY <1>1, <1>5, <3>5
      <4>2. QED
        BY <3>1, <3>4, <4>1 DEF Framed, Follows
    <3>6. ASSUME conn' = "up", wire' # <<>> PROVE Ends(wire'[Len(wire')])
      <4>1. Ends(wire[Len(wire)])
        BY <1>1, <3>1, <3>6 DEF Aligned
      <4>2. Len(wire') \in 1 .. Len(wire') /\ Len(wire') + 2 = Len(wire)
        BY <1>1, <1>5, <3>6
      <4>3. QED
        BY <1>5, <4>1, <4>2
    <3>7. Aligned'
      BY <2>1, <3>5, <3>6 DEF Aligned
    <3>8. Unheard'
      <4>1. \A i \in 1 .. Len(wire') : i + 2 \in 1 .. Len(wire)
        BY <1>1, <1>5
      <4>2. QED
        BY <1>1, <1>5, <2>1, <3>1, <4>1 DEF Unheard, IsPacket
    <3>9. QED
      BY <3>2, <3>3, <3>7, <3>8 DEF OnFrames, Awaited
  <2>4. QED
    BY <2>2, <2>3 DEF RelayInv
<1>10. QED
  BY <1>8, <1>9

(* The loop that reads a payload; and a packet that is handed over on a    *)
(* stream that was not cut is a later one than the last.                   *)
LEMMA PayloadKeeps ==
  ASSUME RelayInv, ReadPayload
  PROVE  RelayInv' /\ (~ cut => handed' = handed \/ handed' > handed)
<1> DEFINE done == reading.left = 1
<1>1. /\ wire \in Seq(Pieces) /\ Len(wire) \in Nat /\ Len(wire) >= 1
      /\ 1 \in 0 .. Len(wire) /\ 1 \in 1 .. Len(wire)
      /\ wire' = SubSeq(wire, 1 + 1, Len(wire))
      /\ Busy /\ wire # <<>> /\ state # "DISCONNECTED"
      /\ UNCHANGED <<conn, server, sent, cut>>
  BY TailDropped
     DEF RelayInv, WireTypes, Disconnected, ReadPayload
<1>2. /\ reading' = IF done THEN Nothing
                    ELSE [reading EXCEPT !.left = reading.left - 1]
      /\ state' = CASE done /\ state = "WAIT_SERVER_KEY" /\ reading.id # 0 -> "SEND_CLIENT_INFO"
                    [] done /\ state = "WAIT_SERVER_INFO" -> "READY"
                    [] OTHER -> state
      /\ handed' = IF done /\ state = "READY" /\ IsPacket(reading)
                   THEN reading.id ELSE handed
  BY DEF ReadPayload, IsPacket
<1>3. /\ wire' \in Seq(Pieces) /\ Len(wire') = Len(wire) - 1
      /\ \A i \in 1 .. Len(wire') : wire'[i] = wire[i + 1]
  <2>1. wire \in Seq(Pieces) /\ wire # <<>> /\ wire' = Tail(wire)
    BY <1>1 DEF ReadPayload
  <2>2. QED
    BY <2>1, TailIs
<1>4. /\ reading.left \in 1 .. 2 /\ reading.id \in 0 .. MaxPackets
      /\ reading.kind \in Kinds \cup {"none"}
  BY <1>1 DEF RelayInv, WireTypes, Loading
<1>5. \/ done /\ reading' = Nothing /\ ~ Busy' /\ reading'.kind = "none"
      \/ /\ reading.left = 2 /\ ~ done /\ Busy'
         /\ reading'.kind = reading.kind /\ reading'.id = reading.id
         /\ reading'.left = 1
         /\ reading' \in [kind : Kinds \cup {"none"}, id : 0 .. MaxPackets,
                          left : 0 .. 2]
  <2>1. CASE done
    BY <1>2, <2>1 DEF Busy, Nothing
  <2>2. CASE reading.left = 2
    <3>1. reading \in [kind : Kinds \cup {"none"}, id : 0 .. MaxPackets,
                       left : 0 .. 2]
      BY DEF RelayInv, WireTypes
    <3>2. reading' = [reading EXCEPT !.left = 1]
      BY <1>2, <2>2
    <3>3. QED
      BY <2>2, <3>1, <3>2 DEF Busy, Nothing
  <2>3. QED
    BY <1>4, <2>1, <2>2
<1> HIDE DEF done
<1>6. \A i \in 1 .. Len(wire') : i + 1 \in 1 .. Len(wire)
  BY <1>1, <1>3
<1>7. /\ state' \in States /\ state' # "DISCONNECTED"
      /\ state' = state \/ state' \in {"SEND_CLIENT_INFO", "READY"}
  BY <1>1, <1>2 DEF RelayInv, LinkTypes, States
<1>8. handed' \in 0 .. MaxPackets /\ handed' <= sent
  BY <1>2, <1>4 DEF RelayInv, WireTypes, Numbered
<1>9. WireTypes' /\ LinkTypes' /\ Numbered' /\ Disconnected' /\ Loading'
  <2>1. reading' \in [kind : Kinds \cup {"none"}, id : 0 .. MaxPackets, left : 0 .. 2]
    BY <1>5, BoundsAre DEF Nothing
  <2>2. WireTypes' /\ LinkTypes'
    BY <1>1, <1>3, <1>7, <1>8, <2>1 DEF RelayInv, WireTypes, LinkTypes
  <2>3. \A i \in 1 .. Len(wire') : IsPacket(wire'[i]) => wire'[i].id <= sent'
    BY <1>1, DroppedNumbered
  <2>4. IsPacket(reading') => reading'.id <= sent
    BY <1>5 DEF RelayInv, Numbered, IsPacket
  <2>5. QED
    BY <1>1, <1>5, <1>7, <1>8, <2>2, <2>3, <2>4
       DEF Numbered, Disconnected, Loading
<1>10. ASSUME ~ cut
       PROVE  OnFrames' /\ (handed' = handed \/ handed' > handed)
  <2>1. Framed(wire) /\ Ordered(wire) /\ Aligned /\ Unheard /\ Awaited
    BY <1>10 DEF RelayInv, OnFrames
  <2>2. Framed(wire') /\ Ordered(wire')
    BY <1>1, <2>1, DroppedKeeps
  <2>3. /\ Continues(wire[1], reading) /\ reading.kind \in Kinds
        /\ wire[1] \in Pieces /\ PayloadPieces(reading.kind) \in 0 .. 2
    BY <1>1, <2>1, PayloadFits DEF Aligned
  <2>4. wire[1].at \in 1 .. 4 /\ (Ends(wire[1]) <=> done)
    BY <1>4, <2>3 DEF Continues, Ends, Pieces, done
  <2>5. ASSUME wire' # <<>>
        PROVE  IF done THEN wire'[1].at = 1 ELSE Continues(wire'[1], reading')
    <3>1. wire'[1] = wire[2] /\ 1 \in 1 .. Len(wire) - 1
      BY <1>1, <1>3, <2>5
    <3>2. Follows(wire[1], wire[1 + 1])
      BY <2>1, <3>1 DEF Framed
    <3>3. IF done THEN wire'[1].at = 1
          ELSE /\ wire'[1].kind = wire[1].kind /\ wire'[1].id = wire[1].id
               /\ wire'[1].at = wire[1].at + 1
      BY <2>4, <3>1, <3>2 DEF Follows
    <3>4. QED
      BY <1>5, <2>3, <2>4, <3>3 DEF Continues
  <2>6. ASSUME conn' = "up"
        PROVE  IF wire' = <<>> THEN done ELSE Ends(wire'[Len(wire')])
    <3>1. Ends(wire[Len(wire)])
      BY <1>1, <2>1, <2>6 DEF Aligned
    <3>2. CASE wire' = <<>>
      <4>1. Len(wire) = 1
        <5>1. Len(wire') = 0
          BY <3>2
        <5>2. QED
          BY <1>1, <1>3, <5>1
      <4>2. QED
        BY <2>4, <3>1, <3>2, <4>1
    <3>3. CASE wire' # <<>>
      <4>1. Len(wire') \in 1 .. Len(wire') /\ Len(wire') + 1 = Len(wire)
        BY <1>1, <1>3, <3>3
      <4>2. QED
        BY <1>3, <3>1, <3>3, <4>1
    <3>4. QED
      BY <3>2, <3>3
  <2>7. Aligned'
    <3>1. Busy' => /\ reading'.kind \in Kinds
                   /\ reading'.left \in 1 .. PayloadPieces(reading'.kind)
      BY <1>1, <1>5, <2>1, <2>3 DEF Aligned
    <3>2. QED
      BY <1>5, <2>5, <2>6, <3>1 DEF Aligned
  <2>8. ASSUME handed' # handed
        PROVE  /\ handed' > handed /\ done
               /\ \A i \in 1 .. Len(wire') :
                    IsPacket(wire'[i]) => handed' < wire'[i].id
    <3>1. done /\ IsPacket(reading) /\ handed' = reading.id
      BY <1>2, <2>8
    <3>2. /\ IsPacket(wire[1]) /\ wire[1].id = handed' /\ wire[1].at = 4
      BY <2>3, <2>4, <3>1 DEF Continues, Ends, IsPacket, PayloadPieces
    <3>3. ASSUME NEW i \in 1 .. Len(wire'), IsPacket(wire'[i])
          PROVE  handed' < wire'[i].id
      <4>1. /\ i + 1 \in 1 .. Len(wire) /\ 1 < i + 1 /\ wire'[i] = wire[i + 1]
        BY <1>1, <1>3, <1>6
      <4>2. Before(wire[1], wire[i + 1]) /\ wire[i + 1] \in Pieces
        BY <1>1, <2>1, <3>2, <3>3, <4>1 DEF Ordered
      <4>3. QED
        BY <3>2, <4>1, <4>2 DEF Before, Pieces
    <3>4. handed' > handed
      BY <1>4, <2>1, <3>1, <1>8 DEF Unheard, RelayInv, WireTypes
    <3>5. QED
      BY <3>1, <3>3, <3>4
  <2>9. Unheard'
    <3>1. CASE handed' = handed
      BY <1>3, <1>5, <1>6, <2>1, <3>1 DEF Unheard, IsPacket
    <3>2. CASE handed' # handed
      BY <1>5, <2>8, <3>2 DEF Unheard, IsPacket, done
    <3>3. QED
      BY <3>1, <3>2
  <2>10. Awaited'
    <3>1. CASE state = "WAIT_SERVER_KEY"
      <4>1. reading.kind = "SERVER_KEY" /\ reading.id # 0 /\ server = "greeted"
        BY <1>1, <2>1, <3>1 DEF Awaited
      <4>2. \A i \in 1 .. Len(wire') :
              wire'[i].kind = "SERVER_KEY" /\ wire'[i].at # 1
        BY <1>1, <1>3, <1>6, <2>1, <3>1 DEF Awaited
      <4>3. CASE done
        <5>1. state' = "SEND_CLIENT_INFO" /\ ~ Busy'
          BY <1>2, <1>5, <3>1, <4>1, <4>3 DEF done
        <5>2. ASSUME wire' # <<>> PROVE FALSE
          <6>1. 1 \in 1 .. Len(wire')
            BY <1>1, <1>3, <5>2
          <6>2. QED
            BY <2>5, <4>2, <4>3, <5>2, <6>1
        <5>3. QED
          BY <1>1, <4>1, <5>1, <5>2 DEF Awaited
      <4>4. CASE ~ done
        BY <1>1, <1>2, <1>5, <3>1, <4>1, <4>2, <4>4 DEF Awaited, done
      <4>5. QED
        BY <4>3, <4>4
    <3>2. CASE state = "WAIT_SERVER_INFO"
      <4>1. reading.kind = "SERVER_INFO" /\ (conn = "up" => server = "ready")
        BY <1>1, <2>1, <3>2 DEF Awaited
      <4>2. QED
        BY <1>1, <1>2, <1>5, <3>2, <4>1 DEF Awaited, done
    <3>3. CASE state \notin {"WAIT_SERVER_KEY", "WAIT_SERVER_INFO"}
      <4>1. state # "SEND_CLIENT_INFO"
        BY <1>1, <2>1 DEF Awaited
      <4>2. state' = state
        BY <1>2, <3>3
      <4>3. QED
        BY <3>3, <4>1, <4>2 DEF Awaited
    <3>4. QED
      BY <3>1, <3>2, <3>3
  <2>11. QED
    BY <2>2, <2>7, <2>8, <2>9, <2>10 DEF OnFrames
<1>11. cut' = cut
  BY <1>1
<1>12. QED
  BY <1>9, <1>10, <1>11 DEF RelayInv

-----------------------------------------------------------------------------
(* Steps of the server and of the network.                                 *)

LEMMA SendKeeps ==
  ASSUME RelayInv, NEW kind \in Kinds, NEW id \in 1 .. MaxPackets,
         ServerSends(kind, id),
         sent' \in 0 .. MaxPackets, sent' >= sent,
         kind = "RECV_PACKET" => sent < id /\ id <= sent',
         \/ server = "new" /\ server' = "greeted" /\ kind = "SERVER_KEY"
         \/ server = "known" /\ server' = "ready" /\ kind = "SERVER_INFO"
         \/ server = "ready" /\ server' = "ready"
  PROVE  RelayInv'
<1>1. /\ conn = "up" /\ wire' = wire \o Frame(kind, id)
      /\ UNCHANGED <<state, reading, conn, handed, cut>>
  BY DEF ServerSends
<1>2. /\ wire \in Seq(Pieces) /\ Len(wire) \in Nat /\ state # "DISCONNECTED"
      /\ sent \in Nat /\ sent' \in Nat /\ handed \in Nat /\ Busy' = Busy
  BY <1>1, BoundsAre DEF RelayInv, WireTypes, Disconnected, Busy
<1>3. Extends(wire', wire, kind, id) /\ PayloadPieces(kind) \in 0 .. 2
  BY <1>1, <1>2, Sent, PayloadFits
<1>4. /\ wire' \in Seq(Pieces) /\ Len(wire') \in Nat /\ Len(wire') >= Len(wire) + 2
      /\ wire' # <<>>
      /\ \A i \in 1 .. Len(wire) : wire'[i] = wire[i]
      /\ \A i \in Len(wire) + 1 .. Len(wire') :
           wire'[i].kind = kind /\ wire'[i].id = id /\ wire'[i].at = i - Len(wire)
      /\ \A i \in 1 .. Len(wire') :
           i \in 1 .. Len(wire) \/ i \in Len(wire) + 1 .. Len(wire')
  <2>1. Len(wire') = Len(wire) + 2 + PayloadPieces(kind) /\ wire' \in Seq(Pieces)
    BY <1>3 DEF Extends
  <2>2. Len(wire') \in Nat /\ Len(wire') >= Len(wire) + 2
    BY <1>2, <1>3, <2>1
  <2>3. wire' # <<>>
    BY <1>2, <2>2
  <2>4. QED
    BY <1>2, <1>3, <2>1, <2>2, <2>3 DEF Extends
<1>5. WireTypes' /\ LinkTypes' /\ Disconnected' /\ Loading'
  BY <1>1, <1>2, <1>4
     DEF RelayInv, WireTypes, LinkTypes, Disconnected, Loading
<1>6. Numbered'
  <2>1. ASSUME NEW i \in 1 .. Len(wire'), IsPacket(wire'[i])
        PROVE  wire'[i].id <= sent'
    <3>1. CASE i \in 1 .. Len(wire)
      <4>1. wire[i].id \in Nat
        BY <1>2, <3>1, IdIsNat
      <4>2. wire[i].id <= sent
        BY <1>4, <2>1, <3>1 DEF RelayInv, Numbered
      <4>3. QED
        BY <1>2, <1>4, <3>1, <4>1, <4>2
    <3>2. CASE i \in Len(wire) + 1 .. Len(wire')
      BY <1>4, <2>1, <3>2 DEF IsPacket
    <3>3. QED
      BY <1>4, <3>1, <3>2
  <2>2. IsPacket(reading') => reading'.id <= sent'
    <3>1. reading.id \in Nat
      BY BoundsAre DEF RelayInv, WireTypes
    <3>2. QED
      BY <1>1, <1>2, <3>1 DEF RelayInv, Numbered
  <2>3. handed' <= sent'
    BY <1>1, <1>2 DEF RelayInv, Numbered
  <2>4. QED
    BY <2>1, <2>2, <2>3 DEF Numbered
<1>7. ASSUME ~ cut PROVE OnFrames'
  <2>1. Framed(wire) /\ Ordered(wire) /\ Aligned /\ Unheard /\ Awaited
    BY <1>7 DEF RelayInv, OnFrames
  <2>2. Framed(wire') /\ Ordered(wire') /\ Ends(wire'[Len(wire')])
    <3>1. wire # <<>> => Ends(wire[Len(wire)])
      BY <1>1, <2>1 DEF Aligned
    <3>2. ASSUME kind = "RECV_PACKET", NEW i \in 1 .. Len(wire), IsPacket(wire[i])
          PROVE  wire[i].id < id
      <4>1. wire[i].id \in Nat
        BY <1>2, IdIsNat
      <4>2. wire[i].id <= sent /\ sent < id
        BY <3>2 DEF RelayInv, Numbered
      <4>3. QED
        BY <1>2, <4>1, <4>2
    <3>3. QED
      BY <1>1, <1>2, <2>1, <3>1, <3>2, SentKeeps
  <2>3. /\ wire # <<>> => wire'[1] = wire[1]
        /\ wire = <<>> => wire'[1].kind = kind /\ wire'[1].at = 1
    <3>1. CASE wire # <<>>
      <4>1. 1 \in 1 .. Len(wire)
        BY <1>2, <3>1
      <4>2. QED
        BY <1>4, <3>1, <4>1
    <3>2. CASE wire = <<>>
      <4>1. Len(wire) = 0
        BY <3>2
      <4>2. 1 \in Len(wire) + 1 .. Len(wire') /\ 1 - Len(wire) = 1
        BY <1>4, <4>1
      <4>3. QED
        BY <1>4, <3>2, <4>2
    <3>3. QED
      BY <3>1, <3>2
  <2>4. wire = <<>> => ~ Busy
    BY <1>1, <2>1 DEF Aligned
  <2>5. Aligned'
    <3>1. IF Busy THEN Continues(wire'[1], reading) ELSE wire'[1].at = 1
      BY <2>1, <2>3, <2>4 DEF Aligned
    <3>2. QED
      BY <1>1, <1>2, <1>4, <2>1, <2>2, <3>1 DEF Aligned
  <2>6. Unheard'
    <3>1. ASSUME NEW i \in 1 .. Len(wire'), IsPacket(wire'[i])
          PROVE  handed < wire'[i].id
      <4>1. CASE i \in 1 .. Len(wire)
        BY <1>4, <2>1, <3>1, <4>1 DEF Unheard
      <4>2. CASE i \in Len(wire) + 1 .. Len(wire')
        <5>1. wire'[i].id = id /\ kind = "RECV_PACKET"
          BY <1>4, <3>1, <4>2 DEF IsPacket
        <5>2. handed <= sent /\ sent < id
          BY <5>1 DEF RelayInv, Numbered
        <5>3. QED
          BY <1>2, <5>1, <5>2
      <4>3. QED
        BY <1>4, <4>1, <4>2
    <3>2. QED
      BY <1>1, <2>1, <3>1 DEF Unheard
  <2>7. Awaited'
    <3>1. CASE state = "WAIT_SERVER_KEY"
      <4>1. server = "new" /\ server' = "greeted" /\ kind = "SERVER_KEY"
        BY <2>1, <3>1 DEF Awaited
      <4>2. wire = <<>> /\ ~ Busy /\ Len(wire) = 0
        BY <2>1, <3>1, <4>1 DEF Awaited
      <4>3. ASSUME NEW i \in 1 .. Len(wire')
            PROVE  wire'[i].kind = "SERVER_KEY" /\ (i > 1 => wire'[i].at # 1)
        <5>1. i \in Len(wire) + 1 .. Len(wire') /\ i - Len(wire) = i
          BY <1>4, <4>2
        <5>2. QED
          BY <1>4, <4>1, <5>1
      <4>4. QED
        BY <1>1, <1>2, <3>1, <4>1, <4>2, <4>3 DEF Awaited
    <3>2. CASE state = "WAIT_SERVER_INFO"
      <4>1. \/ /\ server = "known" /\ server' = "ready" /\ kind = "SERVER_INFO"
               /\ wire = <<>> /\ ~ Busy
            \/ server = "ready" /\ server' = "ready" /\ (Busy \/ wire # <<>>)
        BY <1>1, <2>1, <3>2 DEF Awaited
      <4>2. ~ Busy => wire'[1].kind = "SERVER_INFO"
        BY <2>1, <2>3, <3>2, <4>1 DEF Awaited
      <4>3. QED
        BY <1>1, <1>2, <1>4, <2>1, <3>2, <4>1, <4>2 DEF Awaited
    <3>3. CASE state \notin {"WAIT_SERVER_KEY", "WAIT_SERVER_INFO"}
      <4>1. state # "SEND_CLIENT_INFO"
        BY <2>1 DEF Awaited
      <4>2. QED
        BY <1>1, <3>3, <4>1 DEF Awaited
    <3>4. QED
      BY <3>1, <3>2, <3>3
  <2>8. QED
    BY <2>2, <2>5, <2>6, <2>7 DEF OnFrames
<1>8. QED
  BY <1>1, <1>5, <1>6, <1>7 DEF RelayInv

LEMMA ServerKeeps ==
  ASSUME RelayInv, ServerGreets \/ ServerAnswers \/ ServerForwards \/ ServerNotes
  PROVE  RelayInv'
<1>1. MaxPackets \in Nat /\ 1 \in 1 .. MaxPackets /\ sent \in 0 .. MaxPackets
  BY BoundsAre DEF RelayInv, WireTypes
<1>2. /\ "SERVER_KEY" \in Kinds /\ "SERVER_INFO" \in Kinds /\ "RECV_PACKET" \in Kinds
      /\ {"bare", "other", "large"} \subseteq Kinds
  BY DEF Kinds
<1>3. CASE ServerGreets
  BY <1>1, <1>2, <1>3, SendKeeps DEF ServerGreets
<1>4. CASE ServerAnswers
  BY <1>1, <1>2, <1>4, SendKeeps DEF ServerAnswers
<1>5. CASE ServerForwards
  <2>1. /\ sent' = sent + 1 /\ sent' \in 1 .. MaxPackets
        /\ ServerSends("RECV_PACKET", sent')
        /\ server = "ready" /\ server' = server
    BY <1>1, <1>5 DEF ServerForwards
  <2>2. PICK id \in 1 .. MaxPackets : id = sent'
    BY <2>1
  <2>3. ServerSends("RECV_PACKET", id) /\ sent' = id
    BY <2>1, <2>2
  <2>4. sent' \in 0 .. MaxPackets /\ sent' >= sent /\ sent < id /\ id <= sent'
    BY <1>1, <2>1, <2>2
  <2>5. QED
    BY <1>2, <2>1, <2>3, <2>4, SendKeeps
<1>6. CASE ServerNotes
  <2>1. PICK kind \in {"bare", "other", "large"} : ServerSends(kind, 1)
    BY <1>6 DEF ServerNotes
  <2>2. kind # "RECV_PACKET" /\ server = "ready" /\ UNCHANGED <<server, sent>>
    BY <1>6 DEF ServerNotes
  <2>3. QED
    BY <1>1, <1>2, <2>1, <2>2, SendKeeps
<1>7. QED
  BY <1>3, <1>4, <1>5, <1>6

LEMMA BrokenKeeps ==
  ASSUME RelayInv, NEW how \in {"dead", "closed", "reset"},
         NEW n \in 0 .. Len(wire), Broken(how, n), state # "DISCONNECTED"
  PROVE  RelayInv'
<1>1. /\ wire \in Seq(Pieces) /\ Len(wire) \in Nat /\ n \in Nat
      /\ wire' = SubSeq(wire, 1, n) /\ conn' = how /\ conn' # "up"
      /\ UNCHANGED <<state, reading, server, sent, handed, cut>>
      /\ Busy' = Busy
  BY DEF RelayInv, WireTypes, Broken, history, Busy
<1>2. /\ wire' \in Seq(Pieces) /\ Len(wire') = n
      /\ \A i \in 1 .. n : wire'[i] = wire[i] /\ i \in 1 .. Len(wire)
  BY <1>1, Taken
<1>3. WireTypes' /\ LinkTypes' /\ Numbered' /\ Disconnected' /\ Loading'
  BY <1>1, <1>2
     DEF RelayInv, WireTypes, LinkTypes, Numbered, Disconnected, Loading
<1>4. ASSUME ~ cut PROVE OnFrames'
  <2>1. Framed(wire) /\ Ordered(wire) /\ Aligned /\ Unheard /\ Awaited
    BY <1>4 DEF RelayInv, OnFrames
  <2>2. Framed(wire') /\ Ordered(wire')
    BY <1>1, <2>1, TakenKeeps
  <2>3. wire' # <<>> => wire # <<>> /\ wire'[1] = wire[1]
    <3>1. ASSUME wire' # <<>> PROVE 1 \in 1 .. n
      BY <1>1, <1>2, <3>1
    <3>2. QED
      BY <1>2, <3>1
  <2>4. wire = <<>> => wire' = <<>>
    BY <2>3
  <2>5. Aligned' /\ Unheard'
    BY <1>1, <1>2, <2>1, <2>3 DEF Aligned, Unheard
  <2>6. Awaited'
    BY <1>1, <1>2, <2>1, <2>3, <2>4 DEF Awaited
  <2>7. QED
    BY <2>2, <2>5, <2>6 DEF OnFrames
<1>5. QED
  BY <1>1, <1>3, <1>4 DEF RelayInv

LEMMA NetworkKeeps ==
  ASSUME RelayInv, ConnectionEnds \/ TcpGivesUp
  PROVE  RelayInv'
<1>1. wire \in Seq(Pieces) /\ 0 \in 0 .. Len(wire) /\ Len(wire) \in 0 .. Len(wire)
  BY DEF RelayInv, WireTypes
<1>2. state # "DISCONNECTED"
  BY DEF RelayInv, Disconnected, ConnectionEnds, TcpGivesUp
<1>3. CASE ConnectionEnds
  BY <1>1, <1>2, <1>3, BrokenKeeps DEF ConnectionEnds
<1>4. CASE TcpGivesUp
  BY <1>1, <1>2, <1>4, BrokenKeeps DEF TcpGivesUp
<1>5. QED
  BY <1>3, <1>4

-----------------------------------------------------------------------------
(* The theorems.                                                           *)

(* Every step keeps the invariant, and hands over nothing but the next     *)
(* packets on a stream that was not cut.                                   *)
LEMMA RelayStep ==
  ASSUME RelayInv, [Next]_vars
  PROVE  RelayInv' /\ (handed' # handed => cut \/ handed' > handed)
<1> USE DEF link, retries, history
<1>1. CASE Connect
  BY <1>1, ConnectKeeps DEF Connect
<1>2. CASE ConnectFails
  BY <1>2, UntouchedKeeps DEF ConnectFails
<1>3. CASE Restart
  BY <1>3, OfflineKeeps DEF Restart
<1>4. CASE ReadClosed \/ IdleTimeout
  BY <1>4, OfflineKeeps DEF ReadClosed, IdleTimeout, Disconnect
<1>5. CASE ReadHeader
  BY <1>5, HeaderKeeps DEF ReadHeader, HeaderRead
<1>6. CASE ReadGarbage \/ PartialHeader \/ PayloadFails
  BY <1>6, GarbageKeeps DEF ReadGarbage, HeaderRead, PartialHeader, PayloadFails
<1>7. CASE ReadPayload
  BY <1>7, PayloadKeeps
<1>8. CASE SendClientInfo \/ SendClientInfoFails
  BY <1>8, SendClientInfoKeeps DEF SendClientInfo, SendClientInfoFails
<1>9. CASE SendPacket \/ TickReady
  BY <1>9, UntouchedKeeps DEF SendPacket, TickReady
<1>10. CASE ServerGreets \/ ServerAnswers \/ ServerForwards \/ ServerNotes
  BY <1>10, ServerKeeps
     DEF ServerGreets, ServerAnswers, ServerForwards, ServerNotes, ServerSends
<1>11. CASE ConnectionEnds \/ TcpGivesUp
  BY <1>11, NetworkKeeps DEF ConnectionEnds, TcpGivesUp, Broken
<1>12. CASE TickDisconnected \/ CalmsDown
  BY <1>12, UntouchedKeeps DEF TickDisconnected, CalmsDown
<1>13. CASE UNCHANGED vars
  BY <1>13, UntouchedKeeps DEF vars
<1>14. QED
  BY <1>1, <1>2, <1>3, <1>4, <1>5, <1>6, <1>7, <1>8, <1>9, <1>10, <1>11,
     <1>12, <1>13 DEF Next, Process

DerpInv == RelayInv /\ ClockTypes /\ FlagTypes /\ BackoffEnds

LEMMA DerpInvHolds == Spec => []DerpInv
<1>1. Init => DerpInv
  <2>1. Init => BackoffEnds
    BY DEF Init, BackoffEnds
  <2>2. QED
    BY <2>1, RelayInvInit, TypesInit DEF DerpInv
<1>2. DerpInv /\ [Next]_vars => DerpInv'
  <2>1. DerpInv => state \in States
    BY DEF DerpInv, RelayInv, LinkTypes
  <2>2. QED
    BY <2>1, RelayStep, ClockStep, FlagStep DEF DerpInv
<1>3. QED
  BY <1>1, <1>2, PTL DEF Spec

(* Every variable keeps to its type.                                       *)
THEOREM TypeCorrect == Spec => []TypeOK
<1>1. DerpInv => TypeOK
  BY TypesAre DEF DerpInv, RelayInv
<1>2. QED
  BY <1>1, DerpInvHolds, PTL

(* However the server's frames, the reads and the ends of connections      *)
(* interleave, a header is read where a frame begins, until something was  *)
(* cut short; then nothing but a new connection brings the client back.    *)
THEOREM HeadersOnBoundary == Spec => []OnBoundary
<1>1. DerpInv => OnBoundary
  BY DEF DerpInv, RelayInv, OnFrames, Aligned, OnBoundary
<1>2. QED
  BY <1>1, DerpInvHolds, PTL

(* The callback gets each packet at most once and in order, over all       *)
(* connections, as long as nothing was cut short.                          *)
THEOREM PacketsHandedOverWhole == Spec => PacketsWhole
<1>1. DerpInv /\ [Next]_vars => [handed' # handed => cut \/ handed' > handed]_vars
  BY RelayStep DEF DerpInv
<1>2. QED
  BY <1>1, DerpInvHolds, PTL DEF Spec, PacketsWhole

(* No sequence of failures, successes and restarts makes a disconnected    *)
(* client wait longer than the longest backoff, until the clock wraps.     *)
THEOREM BackoffIsBounded == Spec => []BackoffEnds
<1>1. DerpInv => BackoffEnds
  BY DEF DerpInv
<1>2. QED
  BY <1>1, DerpInvHolds, PTL
=============================================================================
