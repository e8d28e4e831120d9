------------------------- MODULE Http2Session_proofs -------------------------
(***************************************************************************)
(* Proofs about the HTTP/2 session, for every number of messages, every    *)
(* window and every buffer: the buffer begins with a header unless it was  *)
(* cleared (HeaderFirst), messages come once and in order (InOrderOnce),   *)
(* and only those in two frames cause a loss (LostOnlyAfterSplit).         *)
(*                                                                         *)
(* The buffer and the wire are one stream: reading only moves the border   *)
(* between them or drops what the stream begins with.                      *)
(***************************************************************************)
EXTENDS Http2Session, FiniteSetTheorems, SequenceTheorems, TLAPS

Unread == recv \o wire

(* v is the stream s without its first k pieces.                           *)
Suffix(v, s, k) ==
  /\ v \in Seq(Pieces) /\ k \in 0 .. Len(s) /\ Len(v) = Len(s) - k
  /\ \A i \in 1 .. Len(v) : v[i] = s[i + k] /\ i + k \in 1 .. Len(s)

(* v is the stream s followed by the pieces t.                             *)
Joined(v, s, t) ==
  /\ v \in Seq(Pieces) /\ Len(v) = Len(s) + Len(t)
  /\ \A i \in 1 .. Len(s) : v[i] = s[i] /\ i \in 1 .. Len(v)
  /\ \A i \in 1 .. Len(t) : v[Len(s) + i] = t[i] /\ Len(s) + i \in 1 .. Len(v)
  /\ \A i \in 1 .. Len(v) : i \in 1 .. Len(s) \/ i - Len(s) \in 1 .. Len(t)

LEMMA JoinedIs ==
  ASSUME NEW s \in Seq(Pieces), NEW t \in Seq(Pieces), NEW v, v = s \o t
  PROVE  Joined(v, s, t)
<1>1. /\ v \in Seq(Pieces) /\ Len(v) = Len(s) + Len(t)
      /\ \A i \in 1 .. Len(v) :
           v[i] = IF i <= Len(s) THEN s[i] ELSE t[i - Len(s)]
  BY ConcatProperties
<1>2. Len(s) \in Nat /\ Len(t) \in Nat
  OBVIOUS
<1>3. ASSUME NEW i \in 1 .. Len(s) PROVE v[i] = s[i] /\ i \in 1 .. Len(v)
  BY <1>1, <1>2
<1>4. ASSUME NEW i \in 1 .. Len(t)
      PROVE  v[Len(s) + i] = t[i] /\ Len(s) + i \in 1 .. Len(v)
  <2>1. /\ Len(s) + i \in 1 .. Len(v) /\ ~ (Len(s) + i <= Len(s))
        /\ (Len(s) + i) - Len(s) = i
    BY <1>1, <1>2
  <2>2. QED
    BY <1>1, <2>1
<1>5. \A i \in 1 .. Len(v) : i \in 1 .. Len(s) \/ i - Len(s) \in 1 .. Len(t)
  BY <1>1, <1>2
<1>6. QED
  BY <1>1, <1>3, <1>4, <1>5 DEF Joined

(* Dropping pieces of the buffer drops them from the stream.               *)
LEMMA DropIsSuffix ==
  ASSUME NEW r \in Seq(Pieces), NEW w \in Seq(Pieces), NEW k \in 0 .. Len(r),
         NEW q, q = SubSeq(r, k + 1, Len(r))
  PROVE  q \in Seq(Pieces) /\ Suffix(q \o w, r \o w, k)
<1>1. /\ q \in Seq(Pieces) /\ Len(q) = Len(r) - k
      /\ \A i \in 1 .. Len(q) : q[i] = r[i + k]
      /\ Len(r) \in Nat /\ Len(w) \in Nat /\ k \in Nat
  OBVIOUS
<1> DEFINE s == r \o w
           v == q \o w
<1>2. Joined(s, r, w) /\ Joined(v, q, w)
  BY <1>1, JoinedIs
<1> HIDE DEF s, v
<1>3. /\ v \in Seq(Pieces) /\ k \in 0 .. Len(s) /\ Len(v) = Len(s) - k
      /\ Len(s) = Len(r) + Len(w) /\ Len(v) = (Len(r) - k) + Len(w)
  BY <1>1, <1>2 DEF Joined
<1>4. ASSUME NEW i \in 1 .. Len(v) PROVE v[i] = s[i + k] /\ i + k \in 1 .. Len(s)
  <2>1. i + k \in 1 .. Len(s) /\ i \in Nat
    BY <1>1, <1>3
  <2>2. CASE i <= Len(r) - k
    <3>1. i \in 1 .. Len(q) /\ i + k \in 1 .. Len(r)
      BY <1>1, <2>1, <2>2
    <3>2. QED
      BY <1>1, <1>2, <2>1, <3>1 DEF Joined
  <2>3. CASE i > Len(r) - k
    <3>1. PICK j \in 1 .. Len(w) : i = Len(q) + j /\ i + k = Len(r) + j
      <4>1. i - (Len(r) - k) \in 1 .. Len(w)
        BY <1>1, <1>3, <2>1, <2>3
      <4>2. PICK j \in 1 .. Len(w) : j = i - (Len(r) - k)
        BY <4>1
      <4>3. i + k = Len(r) + j
        BY <1>1, <2>1, <4>2
      <4>4. i = (Len(r) - k) + j
        BY <1>1, <2>1, <4>2
      <4>5. QED
        BY <1>1, <4>3, <4>4
    <3>2. QED
      BY <1>2, <2>1, <3>1 DEF Joined
  <2>4. QED
    BY <1>1, <2>1, <2>2, <2>3
<1>5. QED
  BY <1>1, <1>3, <1>4 DEF Suffix, s, v

(* Moving pieces from the wire to the buffer leaves the stream as it is.   *)
LEMMA PullIsJoin ==
  ASSUME NEW r \in Seq(Pieces), NEW w \in Seq(Pieces), NEW n \in 1 .. Len(w)
  PROVE  /\ r \o SubSeq(w, 1, n) \in Seq(Pieces)
         /\ SubSeq(w, n + 1, Len(w)) \in Seq(Pieces)
         /\ (r \o SubSeq(w, 1, n)) \o SubSeq(w, n + 1, Len(w)) = r \o w
<1> DEFINE a == SubSeq(w, 1, n)
           b == SubSeq(w, n + 1, Len(w))
           ra == r \o a
           v == ra \o b
           s == r \o w
<1>1. /\ a \in Seq(Pieces) /\ Len(a) = n /\ \A i \in 1 .. n : a[i] = w[i]
      /\ b \in Seq(Pieces) /\ Len(b) = Len(w) - n
      /\ \A i \in 1 .. Len(b) : b[i] = w[i + n]
      /\ Len(r) \in Nat /\ Len(w) \in Nat /\ n \in Nat
  OBVIOUS
<1> HIDE DEF a, b
<1>2. Joined(ra, r, a)
  BY <1>1, JoinedIs
<1>3. ra \in Seq(Pieces)
  BY <1>2 DEF Joined
<1> HIDE DEF ra
<1>4. Joined(v, ra, b) /\ Joined(s, r, w)
  BY <1>1, <1>3, JoinedIs
<1> HIDE DEF v, s
<1>5. /\ Len(ra) = Len(r) + n /\ Len(v) = Len(s) /\ Len(s) = Len(r) + Len(w)
      /\ v \in Seq(Pieces) /\ s \in Seq(Pieces)
  BY <1>1, <1>2, <1>4 DEF Joined
<1>6. ASSUME NEW i \in 1 .. Len(v) PROVE v[i] = s[i]
  <2>1. i \in Nat /\ i >= 1 /\ i <= Len(r) + Len(w)
    BY <1>1, <1>5
  <2>2. CASE i <= Len(r)
    <3>1. i \in 1 .. Len(r) /\ i \in 1 .. Len(ra)
      BY <1>1, <1>5, <2>1, <2>2
    <3>2. QED
      BY <1>2, <1>4, <3>1 DEF Joined
  <2>3. CASE i > Len(r) /\ i <= Len(r) + n
    <3>1. PICK j \in 1 .. n : i = Len(r) + j /\ j \in 1 .. Len(w)
      <4>1. i - Len(r) \in 1 .. n /\ i = Len(r) + (i - Len(r)) /\ i - Len(r) \in 1 .. Len(w)
        BY <1>1, <2>1, <2>3
      <4>2. QED
        BY <4>1
    <3>2. i \in 1 .. Len(ra)
      BY <1>1, <1>5, <2>1, <2>3
    <3>3. v[i] = ra[i] /\ ra[i] = a[j] /\ s[i] = w[j]
      BY <1>1, <1>2, <1>4, <3>1, <3>2 DEF Joined
    <3>4. QED
      BY <1>1, <3>1, <3>3
  <2>4. CASE i > Len(r) + n
    <3>1. PICK j \in 1 .. Len(b) : /\ i = Len(ra) + j /\ i = Len(r) + (j + n)
                                   /\ j + n \in 1 .. Len(w)
      <4>1. i - (Len(r) + n) \in 1 .. Len(b)
        BY <1>1, <2>1, <2>4
      <4>2. PICK j \in 1 .. Len(b) : j = i - (Len(r) + n)
        BY <4>1
      <4>3. i = Len(ra) + j /\ i = Len(r) + (j + n) /\ j + n \in 1 .. Len(w)
        BY <1>1, <1>5, <2>1, <2>4, <4>2
      <4>4. QED
        BY <4>3
    <3>2. v[i] = b[j] /\ s[i] = w[j + n]
      BY <1>4, <3>1 DEF Joined
    <3>3. QED
      BY <1>1, <3>1, <3>2
  <2>5. QED
    BY <1>1, <2>1, <2>2, <2>3, <2>4
<1>7. v = s
  BY <1>5, <1>6, SeqEqual
<1>8. QED
  BY <1>1, <1>3, <1>7 DEF ra, a, b, v, s

-----------------------------------------------------------------------------
(* What the stream is made of.                                             *)

Whole(x)  == x.half \in {0, 2}
IsData(x) == x.type = "DATA" /\ x.half = 1
Opens(x)  == IsData(x) /\ x.msg # 0

LEMMA PieceIs ==
  ASSUME NEW x \in Pieces
  PROVE  /\ x.half \in {0, 1, 2} /\ (x.type = "DATA" <=> x.half # 0)
         /\ x.type = "DATA" =>
              /\ x.msg \in 0 .. MaxMessages /\ x.part \in 0 .. 2
              /\ x.stream \in {1, 3} /\ x.last \in BOOLEAN /\ x.end \in BOOLEAN
BY DEF Pieces

(* Whole frames, but for the beginning.                                    *)
Framed(s) ==
  /\ \A i \in 1 .. Len(s) - 1 : s[i].half = 1 <=> s[i + 1].half = 2
  /\ s # <<>> => Whole(s[Len(s)])

Precedes(x, y) == x.msg < y.msg \/ (x.msg = y.msg /\ x.part < y.part /\ ~ x.last)

(* The server sends one message after the other.                           *)
InOrder(s) ==
  \A i, j \in 1 .. Len(s) :
    i < j /\ Opens(s[i]) /\ Opens(s[j]) => Precedes(s[i], s[j])

(* The frames with a payload.                                              *)
Opened(s) ==
  {p \in (0 .. MaxMessages) \X (0 .. 2) :
     \E i \in 1 .. Len(s) : Opens(s[i]) /\ p = <<s[i].msg, s[i].part>>}

LEMMA OpenedFinite ==
  ASSUME NEW s
  PROVE  IsFiniteSet(Opened(s)) /\ Cardinality(Opened(s)) \in Nat
<1>1. MaxMessages \in Int /\ 0 \in Int /\ 2 \in Int
  BY Http2Assumption
<1>2. IsFiniteSet(0 .. MaxMessages) /\ IsFiniteSet(0 .. 2)
  BY <1>1, FS_Interval, Zenon
<1>3. IsFiniteSet((0 .. MaxMessages) \X (0 .. 2))
  BY <1>2, FS_Product
<1>4. Opened(s) \subseteq (0 .. MaxMessages) \X (0 .. 2)
  BY DEF Opened
<1>5. QED
  BY <1>3, <1>4, FS_Subset, FS_CardinalityType

LEMMA SuffixKeeps ==
  ASSUME NEW s \in Seq(Pieces), NEW k, NEW v, Suffix(v, s, k),
         Framed(s), InOrder(s)
  PROVE  Framed(v) /\ InOrder(v)
<1>1. /\ v \in Seq(Pieces) /\ k \in Nat /\ Len(s) \in Nat /\ Len(v) = Len(s) - k
      /\ \A i \in 1 .. Len(v) : v[i] = s[i + k] /\ i + k \in 1 .. Len(s)
      /\ Len(v) \in Nat
  BY DEF Suffix
<1>2. ASSUME NEW i \in 1 .. Len(v) - 1 PROVE v[i].half = 1 <=> v[i + 1].half = 2
  <2>1. i + k \in 1 .. Len(s) - 1 /\ i \in 1 .. Len(v) /\ i + 1 \in 1 .. Len(v)
    BY <1>1
  <2>2. v[i] = s[i + k] /\ v[i + 1] = s[(i + k) + 1]
    BY <1>1, <2>1
  <2>3. QED
    BY <2>1, <2>2 DEF Framed
<1>3. ASSUME v # <<>> PROVE Whole(v[Len(v)])
  <2>1. Len(v) \in 1 .. Len(v) /\ Len(v) + k = Len(s) /\ s # <<>>
    BY <1>1, <1>3
  <2>2. QED
    BY <1>1, <2>1 DEF Framed
<1>4. ASSUME NEW i \in 1 .. Len(v), NEW j \in 1 .. Len(v), i < j,
             Opens(v[i]), Opens(v[j])
      PROVE  Precedes(v[i], v[j])
  <2>1. /\ i + k \in 1 .. Len(s) /\ j + k \in 1 .. Len(s) /\ i + k < j + k
        /\ v[i] = s[i + k] /\ v[j] = s[j + k]
    BY <1>1, <1>4
  <2>2. QED
    BY <1>4, <2>1 DEF InOrder
<1>5. QED
  BY <1>2, <1>3, <1>4 DEF Framed, InOrder

(* Fewer frames are unread.                                                *)
LEMMA SuffixOpens ==
  ASSUME NEW s \in Seq(Pieces), NEW k, NEW v, Suffix(v, s, k)
  PROVE  Opened(v) \subseteq Opened(s)
<1>1. ASSUME NEW p \in Opened(v) PROVE p \in Opened(s)
  <2>1. PICK i \in 1 .. Len(v) : Opens(v[i]) /\ p = <<v[i].msg, v[i].part>>
    BY <1>1 DEF Opened
  <2>2. v[i] = s[i + k] /\ i + k \in 1 .. Len(s)
    BY <2>1 DEF Suffix
  <2>3. QED
    BY <1>1, <2>1, <2>2 DEF Opened
<1>2. QED
  BY <1>1

(* The frame that is taken is the next one of the stream, and another one  *)
(* begins behind it.                                                       *)
Taken(k) ==
  /\ k = (IF Frame.type = "DATA" THEN 2 ELSE 1)
  /\ recv' \in Seq(Pieces) /\ Suffix(Unread', Unread, k)
  /\ Unread' # <<>> => Unread'[1].half # 2

LEMMA FrameIsNext ==
  ASSUME recv \in Seq(Pieces), wire \in Seq(Pieces), FrameReady
  PROVE  /\ Unread \in Seq(Pieces) /\ Unread # <<>> /\ 1 \in 1 .. Len(Unread)
         /\ Unread[1] = Frame /\ Frame \in Pieces /\ Frame.half # 2
         /\ Frame.type = "DATA" => Frame.half = 1 /\ Len(recv) >= 2
         /\ Frame.type # "DATA" => Frame.half = 0
<1>1. /\ Len(recv) \in Nat /\ recv # <<>> /\ 1 \in 1 .. Len(recv)
      /\ recv[1] \in Pieces
      /\ recv[1].half = 0 \/ (recv[1].half = 1 /\ Len(recv) >= 2)
  BY DEF FrameReady
<1>2. Joined(Unread, recv, wire)
  BY JoinedIs DEF Unread
<1>3. Unread \in Seq(Pieces) /\ Unread[1] = recv[1] /\ 1 \in 1 .. Len(Unread)
  BY <1>1, <1>2 DEF Joined
<1>4. recv[1].type = "DATA" <=> recv[1].half # 0
  BY <1>1, PieceIs
<1>5. QED
  BY <1>1, <1>3, <1>4 DEF Frame

LEMMA TakeFrame ==
  ASSUME recv \in Seq(Pieces), wire \in Seq(Pieces), FrameReady,
         recv' = Erased(Frame), wire' = wire, Framed(Unread)
  PROVE  \E k \in 1 .. 2 : Taken(k)
<1> DEFINE k == IF Frame.type = "DATA" THEN 2 ELSE 1
<1>1. /\ Unread \in Seq(Pieces) /\ Unread # <<>> /\ 1 \in 1 .. Len(Unread)
      /\ Unread[1] = Frame /\ Frame \in Pieces
      /\ Frame.type = "DATA" => Frame.half = 1 /\ Len(recv) >= 2
      /\ Frame.type # "DATA" => Frame.half = 0
  BY FrameIsNext
<1>2. k \in 1 .. 2 /\ k \in 0 .. Len(recv) /\ recv' = SubSeq(recv, k + 1, Len(recv))
  BY <1>1 DEF Erased, FrameReady
<1>3. recv' \in Seq(Pieces) /\ Suffix(recv' \o wire, recv \o wire, k)
  BY <1>2, DropIsSuffix
<1>4. Suffix(Unread', Unread, k)
  BY <1>3 DEF Unread
<1>5. ASSUME Unread' # <<>> PROVE Unread'[1].half # 2
  <2>1. /\ Unread' \in Seq(Pieces) /\ Len(Unread') = Len(Unread) - k
        /\ \A i \in 1 .. Len(Unread') : Unread'[i] = Unread[i + k]
    BY <1>4 DEF Suffix
  <2>2. 1 \in 1 .. Len(Unread') /\ Len(Unread) \in Nat
    BY <1>1, <1>5, <2>1
  <2>3. Unread'[1] = Unread[1 + k] /\ k \in 1 .. Len(Unread) - 1
    BY <1>2, <2>1, <2>2
  <2>4. CASE Frame.type # "DATA"
    <3>1. k = 1 /\ Unread[1].half = 0 /\ 1 \in 1 .. Len(Unread) - 1
      BY <1>1, <2>3, <2>4
    <3>2. Unread[1 + 1].half # 2
      BY <3>1 DEF Framed
    <3>3. QED
      BY <2>3, <3>1, <3>2
  <2>5. CASE Frame.type = "DATA"
    <3>1. /\ k = 2 /\ Unread[1].half = 1
          /\ 1 \in 1 .. Len(Unread) - 1 /\ 2 \in 1 .. Len(Unread) - 1
      BY <1>1, <2>2, <2>3, <2>5
    <3>2. Unread[1 + 1].half = 2
      BY <3>1 DEF Framed
    <3>3. Unread[2 + 1].half # 2
      BY <3>1, <3>2 DEF Framed
    <3>4. QED
      BY <2>3, <3>1, <3>3
  <2>6. QED
    BY <2>4, <2>5
<1>6. QED
  BY <1>2, <1>3, <1>4, <1>5 DEF Taken

-----------------------------------------------------------------------------
(* The inductive invariant.                                                *)

StreamTypes == recv \in Seq(Pieces) /\ wire \in Seq(Pieces) /\ json \in Seq(Pieces)

FlagTypes == exchanged \in BOOLEAN /\ pulled \in BOOLEAN /\ cleared \in BOOLEAN

ServerTypes ==
  /\ server \in [stream : {0, 1, 3}, open : BOOLEAN, due : BOOLEAN,
                 msg : 0 .. MaxMessages, sent : {0, 1}]
  /\ requested \subseteq {1, 3} /\ window \in Nat
  /\ server.open => server.stream # 0

HistoryTypes ==
  /\ delivered \in Seq(1 .. MaxMessages)
  /\ consumed \subseteq 0 .. MaxMessages /\ split \subseteq 1 .. MaxMessages

HeaderNext == Unread # <<>> /\ Unread[1].half = 2 => cleared

(* A frame that is unread is later than what was returned or consumed; and *)
(* the server, within a message, has sent only its first frame.            *)
Fine(x) ==
  IF x.msg = 0 THEN x.part = 0 /\ ~ x.last /\ x.end
  ELSE /\ x.part \in {1, 2} /\ x.msg <= server.msg
       /\ x.part = 2 \/ ~ x.last => x.msg \in split
       /\ \A i \in 1 .. Len(delivered) : delivered[i] < x.msg
       /\ \A m \in consumed : m <= x.msg
       /\ server.open /\ server.sent = 1 =>
            x.msg < server.msg \/ (x.part = 1 /\ ~ x.last)

AllFine == \A i \in 1 .. Len(Unread) : IsData(Unread[i]) => Fine(Unread[i])

(* What was returned or consumed was sent.                                 *)
Heard ==
  /\ \A i \in 1 .. Len(delivered) : delivered[i] <= server.msg
  /\ \A m \in consumed : m <= server.msg
  /\ server.open /\ server.sent = 1 =>
       /\ server.msg \in split
       /\ \A i \in 1 .. Len(delivered) : delivered[i] < server.msg

(* What a read has in its JSON buffer began with a message in two frames   *)
(* that is not returned yet.                                               *)
JsonBegun ==
  phase \in {"post1", "post3", "reading"} /\ json # <<>> =>
    /\ json[1].msg \in split /\ json[1].msg <= server.msg
    /\ \A i \in 1 .. Len(delivered) : delivered[i] < json[1].msg
    /\ \A i \in 1 .. Len(Unread) :
         Opens(Unread[i]) => json[1].msg <= Unread[i].msg

(* Each frame with a payload that is unread holds a part of the window.    *)
WindowHeld == window + Cardinality(Opened(Unread)) <= Window

HttpInv ==
  /\ StreamTypes /\ ServerTypes /\ HistoryTypes /\ phase \in Phases
  /\ Framed(Unread) /\ InOrder(Unread) /\ HeaderNext /\ AllFine
  /\ Heard /\ JsonBegun /\ WindowHeld
  /\ InOrderOnce /\ LostOnlyAfterSplit

LEMMA HttpInvInit == Init => HttpInv
<1> SUFFICES ASSUME Init PROVE HttpInv
  OBVIOUS
<1>1. MaxMessages \in Nat /\ Window \in Nat
  BY Http2Assumption
<1> DEFINE x == Control("SETTINGS")
<1>2. x \in Pieces /\ x.half = 0 /\ x.type # "DATA"
  BY DEF Control, Pieces
<1>3. recv = <<>> /\ wire = <<x>> /\ recv \in Seq(Pieces) /\ wire \in Seq(Pieces)
  BY <1>2 DEF Init
<1>4. Unread \in Seq(Pieces) /\ Len(Unread) = 1 /\ Unread[1] = x
  <2>1. Joined(Unread, recv, wire)
    BY <1>3, JoinedIs DEF Unread
  <2>2. Len(recv) = 0 /\ Len(wire) = 1 /\ wire[1] = x
    BY <1>3
  <2>3. 1 \in 1 .. Len(wire) /\ Len(recv) + 1 = 1
    BY <2>2
  <2>4. QED
    BY <2>1, <2>2, <2>3 DEF Joined
<1> HIDE DEF x
<1>5. \A i \in 1 .. Len(Unread) : Unread[i] = x
  BY <1>4
<1>6. StreamTypes /\ ServerTypes /\ HistoryTypes /\ phase \in Phases
  BY <1>1, <1>3
     DEF Init, StreamTypes, ServerTypes, HistoryTypes, Phases
<1>7. Framed(Unread) /\ InOrder(Unread) /\ HeaderNext /\ AllFine
  BY <1>2, <1>4, <1>5
     DEF Framed, InOrder, HeaderNext, AllFine, Whole, Opens, IsData
<1>8. Opened(Unread) = {}
  BY <1>2, <1>5 DEF Opened, Opens, IsData
<1>9. WindowHeld
  BY <1>1, <1>8, FS_EmptySet DEF WindowHeld, Init
<1>10. delivered = <<>> /\ Len(delivered) = 0 /\ consumed = {} /\ json = <<>>
       /\ server.open = FALSE
  BY DEF Init
<1>11. Heard /\ JsonBegun /\ InOrderOnce /\ LostOnlyAfterSplit
  BY <1>10 DEF Heard, JsonBegun, InOrderOnce, LostOnlyAfterSplit
<1>12. QED
  BY <1>6, <1>7, <1>9, <1>11 DEF HttpInv

(* The stream loses nothing but its beginning.                             *)
Advances ==
  /\ recv' \in Seq(Pieces) /\ wire' \in Seq(Pieces) /\ HeaderNext'
  /\ \E k \in 0 .. Len(Unread) : Suffix(Unread', Unread, k)

(* Steps that add nothing to the stream and return nothing.                *)
LEMMA QuietKeeps ==
  ASSUME HttpInv, Advances, phase' \in Phases, requested' \subseteq {1, 3},
         UNCHANGED <<server, delivered, consumed, split, window>>,
         \/ json' = json /\ phase' = phase
         \/ json' = json /\ phase' \notin {"post1", "post3", "reading"}
         \/ json' = <<>>
  PROVE  HttpInv'
<1>0. PICK k \in 0 .. Len(Unread) : Suffix(Unread', Unread, k)
  BY DEF Advances
<1>1. /\ Unread \in Seq(Pieces) /\ Framed(Unread) /\ InOrder(Unread)
      /\ json \in Seq(Pieces)
  <2>1. Joined(Unread, recv, wire)
    BY JoinedIs DEF HttpInv, StreamTypes, Unread
  <2>2. QED
    BY <2>1 DEF HttpInv, StreamTypes, Joined
<1>2. Framed(Unread') /\ InOrder(Unread')
  BY <1>0, <1>1, SuffixKeeps
<1>3. StreamTypes' /\ ServerTypes' /\ HistoryTypes'
  <2>1. json' \in Seq(Pieces)
    <3>1. json' = json \/ json' = <<>>
      OBVIOUS
    <3>2. <<>> \in Seq(Pieces)
      OBVIOUS
    <3>3. QED
      BY <1>1, <3>1, <3>2
  <2>2. StreamTypes' /\ ServerTypes'
    BY <2>1 DEF HttpInv, StreamTypes, ServerTypes, Advances
  <2>3. QED
    BY <2>2 DEF HttpInv, HistoryTypes
<1>4. \A i \in 1 .. Len(Unread') :
        Unread'[i] = Unread[i + k] /\ i + k \in 1 .. Len(Unread)
  BY <1>0 DEF Suffix
<1>5. AllFine'
  BY <1>4 DEF HttpInv, AllFine, Fine
<1>6. Heard'
  BY DEF HttpInv, Heard
<1>7. JsonBegun'
  <2>1. CASE json' = json /\ phase' = phase
    BY <1>4, <2>1 DEF HttpInv, JsonBegun
  <2>2. CASE json' = <<>> \/ phase' \notin {"post1", "post3", "reading"}
    BY <2>2 DEF JsonBegun
  <2>3. QED
    BY <2>1, <2>2
<1>8. WindowHeld'
  <2>1. Opened(Unread') \subseteq Opened(Unread)
    BY <1>0, <1>1, SuffixOpens
  <2>2. /\ Cardinality(Opened(Unread')) <= Cardinality(Opened(Unread))
        /\ Cardinality(Opened(Unread')) \in Nat /\ Cardinality(Opened(Unread)) \in Nat
    BY <2>1, OpenedFinite, FS_Subset
  <2>3. QED
    BY <2>2, Http2Assumption DEF HttpInv, WindowHeld, ServerTypes
<1>9. InOrderOnce' /\ LostOnlyAfterSplit'
  BY DEF HttpInv, InOrderOnce, LostOnlyAfterSplit
<1>10. QED
  BY <1>2, <1>3, <1>5, <1>6, <1>7, <1>8, <1>9 DEF HttpInv, Advances

-----------------------------------------------------------------------------
(* Each step.                                                              *)

LEMMA UnreadIs ==
  ASSUME HttpInv
  PROVE  /\ Unread \in Seq(Pieces) /\ Len(Unread) \in Nat
         /\ recv \in Seq(Pieces) /\ wire \in Seq(Pieces)
         /\ recv # <<>> => Unread # <<>> /\ Unread[1] = recv[1]
<1>1. Joined(Unread, recv, wire)
  BY JoinedIs DEF HttpInv, StreamTypes, Unread
<1>2. recv \in Seq(Pieces) /\ wire \in Seq(Pieces)
  BY DEF HttpInv, StreamTypes
<1>3. ASSUME recv # <<>> PROVE Unread # <<>> /\ Unread[1] = recv[1]
  <2>1. 1 \in 1 .. Len(recv)
    BY <1>2, <1>3
  <2>2. Unread[1] = recv[1] /\ 1 \in 1 .. Len(Unread)
    BY <1>1, <2>1 DEF Joined
  <2>3. QED
    BY <2>2
<1>4. Unread \in Seq(Pieces) /\ Len(Unread) \in Nat
  BY <1>1 DEF Joined
<1>5. QED
  BY <1>2, <1>3, <1>4

LEMMA StayAdvances ==
  ASSUME HttpInv, UNCHANGED <<recv, wire, cleared>>
  PROVE  Advances
<1>1. Unread' = Unread
  BY DEF Unread
<1>2. Suffix(Unread', Unread, 0) /\ 0 \in 0 .. Len(Unread)
  BY <1>1, UnreadIs DEF Suffix
<1>3. HeaderNext'
  BY <1>1 DEF HttpInv, HeaderNext
<1>4. QED
  BY <1>2, <1>3, UnreadIs DEF Advances

LEMMA TakeAdvances ==
  ASSUME HttpInv, FrameReady, recv' = Erased(Frame), wire' = wire
  PROVE  Advances
<1>1. PICK k \in 1 .. 2 : Taken(k)
  BY TakeFrame DEF HttpInv, StreamTypes
<1>2. k \in 0 .. Len(Unread) /\ Suffix(Unread', Unread, k) /\ recv' \in Seq(Pieces)
  BY <1>1 DEF Taken, Suffix
<1>3. HeaderNext'
  BY <1>1 DEF Taken, HeaderNext
<1>4. QED
  BY <1>2, <1>3, UnreadIs DEF Advances

LEMMA PullAdvances ==
  ASSUME HttpInv, Pull
  PROVE  Advances
<1> DEFINE over == ~ pulled /\ Len(recv) > BufferLimit
           kept == IF over THEN <<>> ELSE recv
<1>1. PICK n \in 1 .. Len(wire) :
        /\ recv' = kept \o SubSeq(wire, 1, n)
        /\ wire' = SubSeq(wire, n + 1, Len(wire))
  BY DEF Pull
<1>2. (cleared => cleared') /\ (over => cleared')
  BY Zenon DEF Pull
<1>3. kept \in Seq(Pieces)
  BY UnreadIs
<1> HIDE DEF over
<1>4. /\ recv' \in Seq(Pieces) /\ wire' \in Seq(Pieces)
      /\ Unread' = kept \o wire
  <2> HIDE DEF kept
  <2>1. wire \in Seq(Pieces)
    BY UnreadIs
  <2>2. QED
    BY <1>1, <1>3, <2>1, PullIsJoin DEF Unread
<1>5. CASE over
  <2>1. Unread' = wire
    <3>1. kept = <<>>
      BY <1>5
    <3>2. <<>> \o wire = wire
      BY UnreadIs, ConcatEmptySeq
    <3>3. QED
      BY <1>4, <3>1, <3>2
  <2>2. Suffix(wire, Unread, Len(recv)) /\ Len(recv) \in 0 .. Len(Unread)
    <3>1. Joined(Unread, recv, wire) /\ Len(recv) \in Nat /\ Len(wire) \in Nat
      <4>1. recv \in Seq(Pieces) /\ wire \in Seq(Pieces)
        BY UnreadIs
      <4>2. Joined(Unread, recv, wire)
        BY <4>1, JoinedIs DEF Unread
      <4>3. QED
        BY <4>1, <4>2
    <3>2. ASSUME NEW i \in 1 .. Len(wire)
          PROVE  wire[i] = Unread[i + Len(recv)] /\ i + Len(recv) \in 1 .. Len(Unread)
      <4>1. i + Len(recv) = Len(recv) + i
        BY <3>1
      <4>2. QED
        BY <3>1, <4>1 DEF Joined
    <3>3. Len(Unread) = Len(recv) + Len(wire)
      BY <3>1 DEF Joined
    <3>4. QED
      BY <3>1, <3>2, <3>3, UnreadIs DEF Suffix
  <2>3. HeaderNext'
    BY <1>2, <1>5 DEF HeaderNext
  <2>4. QED
    BY <1>4, <2>1, <2>2, <2>3 DEF Advances
<1>6. CASE ~ over
  <2>1. Unread' = Unread
    BY <1>4, <1>6 DEF Unread
  <2>2. Suffix(Unread', Unread, 0) /\ 0 \in 0 .. Len(Unread)
    BY <2>1, UnreadIs DEF Suffix
  <2>3. HeaderNext'
    BY <1>2, <2>1 DEF HttpInv, HeaderNext
  <2>4. QED
    BY <1>4, <2>2, <2>3 DEF Advances
<1>7. QED
  BY <1>5, <1>6

LEMMA ControlKeeps ==
  ASSUME HttpInv, ControlFrame \/ NoControlFrame
  PROVE  HttpInv'
<1>1. Advances
  <2>1. CASE recv' = recv
    BY <2>1, StayAdvances DEF ControlFrame, NoControlFrame, Post, history
  <2>2. CASE FrameReady /\ recv' = Erased(Frame)
    BY <2>2, TakeAdvances DEF ControlFrame, NoControlFrame, Post
  <2>3. QED
    BY <2>1, <2>2 DEF ControlFrame, NoControlFrame
<1>2. /\ json' = <<>> /\ phase' \in Phases /\ requested' \subseteq {1, 3}
      /\ UNCHANGED <<server, delivered, consumed, split, window>>
  <2>1. Post
    BY DEF ControlFrame, NoControlFrame
  <2>2. requested \subseteq {1, 3} /\ Stream \in {1, 3}
    BY DEF HttpInv, ServerTypes, Stream
  <2>3. QED
    BY <2>1, <2>2 DEF Post, history, Phases
<1>3. QED
  BY <1>1, <1>2, QuietKeeps

(* Frames that are skipped, and reads and posts that end without one.      *)
LEMMA SkipKeeps ==
  ASSUME HttpInv,
         Pull \/ OtherFrame \/ PostFails \/ NoBody \/ StrangeData \/ StopReading
              \/ StartReading
  PROVE  HttpInv'
<1>1. Advances
  <2>1. CASE Pull
    BY <2>1, PullAdvances
  <2>2. CASE UNCHANGED <<recv, wire, cleared>>
    BY <2>2, StayAdvances
  <2>3. CASE FrameReady /\ recv' = Erased(Frame) /\ wire' = wire
    BY <2>3, TakeAdvances
  <2>4. QED
    BY <2>1, <2>2, <2>3
       DEF OtherFrame, PostFails, NoBody, StrangeData, StopReading, StartReading,
           Take, history
<1>2. UNCHANGED <<server, requested, delivered, consumed, split, window>>
  BY DEF Pull, OtherFrame, PostFails, NoBody, StrangeData, StopReading,
         StartReading, history
<1>3. requested' \subseteq {1, 3} /\ phase \in Phases
  BY <1>2 DEF HttpInv, ServerTypes
<1>4. /\ phase' \in Phases
      /\ \/ json' = json /\ phase' = phase
         \/ json' = json /\ phase' \notin {"post1", "post3", "reading"}
         \/ json' = <<>>
  BY <1>3 DEF Pull, OtherFrame, PostFails, NoBody, StrangeData, StopReading,
         StartReading, Answered, Phases
<1>5. QED
  BY <1>1, <1>2, <1>3, <1>4, QuietKeeps

(* A DATA frame is put in the JSON buffer, and a message may be complete.  *)
LEMMA DataKeeps ==
  ASSUME HttpInv, PostData \/ ReadData
  PROVE  HttpInv'
<1> DEFINE m == Frame.msg
           complete == CompleteJson(json')
<1>1. /\ FrameReady /\ recv' = Erased(Frame) /\ wire' = wire
      /\ Frame.type = "DATA" /\ json' = Append(json, Frame)
      /\ consumed' = consumed \cup {m}
      /\ delivered' = IF complete THEN Append(delivered, m) ELSE delivered
      /\ UNCHANGED <<server, requested, split, cleared>>
      /\ phase \in {"post1", "post3", "reading"}
  BY DEF PostData, ReadData, Take, Buffered
<1>2. /\ Unread \in Seq(Pieces) /\ Len(Unread) \in Nat /\ 1 \in 1 .. Len(Unread)
      /\ Unread[1] = Frame /\ Frame \in Pieces /\ IsData(Frame)
  BY <1>1, UnreadIs, FrameIsNext DEF IsData
<1>3. /\ m \in 0 .. MaxMessages /\ Frame.part \in 0 .. 2 /\ MaxMessages \in Nat
      /\ MaxMessages > 0
  BY <1>2, PieceIs, Http2Assumption DEF IsData
<1>4. Fine(Frame)
  BY <1>2 DEF HttpInv, AllFine
<1>5. /\ recv' \in Seq(Pieces) /\ Suffix(Unread', Unread, 2)
      /\ Unread' # <<>> => Unread'[1].half # 2
  <2>1. PICK k \in 1 .. 2 : Taken(k)
    BY <1>1, TakeFrame DEF HttpInv, StreamTypes
  <2>2. k = 2
    BY <1>1, <2>1 DEF Taken
  <2>3. QED
    BY <2>1, <2>2 DEF Taken
<1>6. \A i \in 1 .. Len(Unread') :
        /\ i + 2 \in 1 .. Len(Unread) /\ 1 < i + 2
        /\ Unread'[i] = Unread[i + 2] /\ Unread'[i] \in Pieces
  BY <1>2, <1>5 DEF Suffix
<1>7. ASSUME NEW i \in 1 .. Len(Unread'), Opens(Unread'[i])
      PROVE  /\ Unread'[i].msg \in Nat /\ m <= Unread'[i].msg
             /\ Frame.last => m < Unread'[i].msg
             /\ m # 0 => Precedes(Frame, Unread'[i])
  <2>1. Unread'[i].msg \in Nat
    BY <1>3, <1>6, <1>7, PieceIs DEF Opens, IsData
  <2>2. CASE m = 0
    BY <1>4, <1>7, <2>1, <2>2 DEF Fine, Opens
  <2>3. CASE m # 0
    <3>1. Opens(Unread[1]) /\ Opens(Unread[i + 2])
      BY <1>2, <1>6, <1>7, <2>3 DEF Opens
    <3>2. Precedes(Unread[1], Unread[i + 2])
      BY <1>2, <1>6, <3>1 DEF HttpInv, InOrder
    <3>3. QED
      BY <1>2, <1>3, <1>6, <2>1, <3>2 DEF Precedes
  <2>4. QED
    BY <2>2, <2>3
<1>8. /\ delivered \in Seq(1 .. MaxMessages) /\ Len(delivered) \in Nat
      /\ consumed \subseteq 0 .. MaxMessages /\ split \subseteq 1 .. MaxMessages
      /\ json \in Seq(Pieces) /\ Len(json) \in Nat
      /\ server.msg \in 0 .. MaxMessages
  BY DEF HttpInv, HistoryTypes, StreamTypes, ServerTypes
<1>9. /\ json' \in Seq(Pieces) /\ Len(json') = Len(json) + 1
      /\ json'[Len(json')] = Frame
      /\ json = <<>> => json'[1] = Frame /\ Len(json') = 1
      /\ json # <<>> => json'[1] = json[1]
  <2>1. /\ json' \in Seq(Pieces) /\ Len(json') = Len(json) + 1
        /\ json'[Len(json) + 1] = Frame
        /\ \A i \in 1 .. Len(json) : json'[i] = json[i]
    BY <1>1, <1>2, <1>8, AppendProperties
  <2>2. CASE json = <<>>
    BY <2>1, <2>2
  <2>3. CASE json # <<>>
    <3>1. 1 \in 1 .. Len(json)
      BY <1>8, <2>3
    <3>2. QED
      BY <2>1, <2>3, <3>1
  <2>4. QED
    BY <2>1, <2>2, <2>3
<1>10. complete => Frame.last /\ m # 0
  BY <1>4, <1>9 DEF CompleteJson, Fine
<1>11. json = <<>> /\ m # 0 /\ ~ complete => m \in split
  <2>1. ASSUME json = <<>>, m # 0, Frame.part = 1, Frame.last PROVE complete
    <3>1. Len(json') = 1 /\ json'[1] = Frame /\ DOMAIN json' = 1 .. 1
      BY <1>9, <2>1
    <3>2. QED
      BY <2>1, <3>1 DEF CompleteJson
  <2>2. QED
    BY <1>4, <2>1 DEF Fine
<1>12. \A i \in 1 .. Len(delivered) :
         /\ delivered[i] \in 1 .. MaxMessages
         /\ m # 0 => delivered[i] < m
  <2>1. ASSUME NEW i \in 1 .. Len(delivered) PROVE delivered[i] \in 1 .. MaxMessages
    <3>1. delivered \in Seq(1 .. MaxMessages)
      BY <1>8
    <3>2. QED
      BY <3>1, ElementOfSeq
  <2>2. m # 0 => \A i \in 1 .. Len(delivered) : delivered[i] < m
    BY <1>4 DEF Fine
  <2>3. QED
    BY <2>1, <2>2
<1>13. \A i \in 1 .. Len(delivered) :
         i \in 1 .. Len(delivered') /\ delivered'[i] = delivered[i]
  BY <1>1, <1>3, <1>8
<1>14. ASSUME NEW i \in 1 .. Len(delivered')
       PROVE  \/ i \in 1 .. Len(delivered) /\ delivered'[i] = delivered[i]
              \/ complete /\ i = Len(delivered) + 1 /\ delivered'[i] = m
  BY <1>1, <1>3, <1>8
<1>15. complete => /\ Len(delivered) + 1 \in 1 .. Len(delivered')
                   /\ delivered'[Len(delivered) + 1] = m
  BY <1>1, <1>3, <1>8
<1> HIDE DEF m, complete
<1>16. StreamTypes' /\ HistoryTypes'
  <2>1. delivered' \in Seq(1 .. MaxMessages)
    <3>1. CASE complete
      <4>1. m \in 1 .. MaxMessages
        BY <1>3, <1>10, <3>1
      <4>2. delivered' = Append(delivered, m)
        BY <1>1, <3>1
      <4>3. QED
        BY <1>8, <4>1, <4>2, AppendProperties
    <3>2. CASE ~ complete
      BY <1>1, <1>8, <3>2
    <3>3. QED
      BY <3>1, <3>2
  <2>2. consumed' \subseteq 0 .. MaxMessages /\ split' = split
    BY <1>1, <1>3, <1>8
  <2>3. wire' \in Seq(Pieces)
    BY <1>1 DEF HttpInv, StreamTypes
  <2>4. QED
    BY <1>5, <1>8, <1>9, <2>1, <2>2, <2>3 DEF StreamTypes, HistoryTypes
<1>17. Framed(Unread') /\ InOrder(Unread')
  BY <1>2, <1>5, SuffixKeeps DEF HttpInv
<1>18. HeaderNext'
  BY <1>5 DEF HeaderNext
<1>19. AllFine'
  <2>1. ASSUME NEW i \in 1 .. Len(Unread'), IsData(Unread'[i]), Unread'[i].msg # 0
        PROVE  /\ \A j \in 1 .. Len(delivered') : delivered'[j] < Unread'[i].msg
               /\ \A c \in consumed' : c <= Unread'[i].msg
    <3>1. Fine(Unread'[i])
      BY <1>6, <2>1 DEF HttpInv, AllFine
    <3>2. /\ Unread'[i].msg \in Nat /\ m <= Unread'[i].msg
          /\ Frame.last => m < Unread'[i].msg
      BY <1>7, <2>1 DEF Opens
    <3>3. \A j \in 1 .. Len(delivered') : delivered'[j] < Unread'[i].msg
      BY <1>10, <1>14, <2>1, <3>1, <3>2 DEF Fine
    <3>4. \A c \in consumed' : c <= Unread'[i].msg
      BY <1>1, <2>1, <3>1, <3>2 DEF Fine
    <3>5. QED
      BY <3>3, <3>4
  <2>2. ASSUME NEW i \in 1 .. Len(Unread'), IsData(Unread'[i])
        PROVE  Fine(Unread'[i])
    BY <1>6, <2>2 DEF HttpInv, AllFine
  <2>3. UNCHANGED <<server, split>>
    BY <1>1
  <2>4. QED
    BY <2>1, <2>2, <2>3 DEF AllFine, Fine
<1>20. Heard'
  <2>1. m <= server.msg
    BY <1>3, <1>4, <1>8 DEF Fine, m
  <2>2. complete /\ server.open /\ server.sent = 1 => m < server.msg
    BY <1>4, <1>10 DEF Fine, m
  <2>3. \A i \in 1 .. Len(delivered') : delivered'[i] <= server.msg
    BY <1>14, <2>1 DEF HttpInv, Heard
  <2>4. server.open /\ server.sent = 1 =>
          \A i \in 1 .. Len(delivered') : delivered'[i] < server.msg
    BY <1>14, <2>2 DEF HttpInv, Heard
  <2>5. \A c \in consumed' : c <= server.msg
    BY <1>1, <2>1 DEF HttpInv, Heard
  <2>6. QED
    BY <1>1, <2>3, <2>4, <2>5 DEF HttpInv, Heard
<1>21. ASSUME phase' \in {"post1", "post3", "reading"}
       PROVE  ~ complete /\ ~ Frame.end /\ phase' = phase
  BY <1>1, <1>21 DEF PostData, ReadData, Answered, complete
<1>22. JsonBegun'
  <2> SUFFICES ASSUME phase' \in {"post1", "post3", "reading"}
               PROVE  /\ json'[1].msg \in split /\ json'[1].msg <= server.msg
                      /\ \A i \in 1 .. Len(delivered) : delivered[i] < json'[1].msg
                      /\ \A i \in 1 .. Len(Unread') :
                           Opens(Unread'[i]) => json'[1].msg <= Unread'[i].msg
    BY <1>1, <1>21 DEF JsonBegun
  <2>1. CASE json = <<>>
    <3>1. json'[1].msg = m /\ m # 0 /\ m \in split
      BY <1>4, <1>9, <1>11, <1>21, <2>1 DEF Fine, m
    <3>2. m <= server.msg
      BY <1>4, <3>1 DEF Fine, m
    <3>3. QED
      BY <1>7, <1>12, <3>1, <3>2
  <2>2. CASE json # <<>>
    BY <1>1, <1>6, <1>9, <2>2 DEF HttpInv, JsonBegun
  <2>3. QED
    BY <2>1, <2>2
<1>23. WindowHeld' /\ ServerTypes'
  <2>1. window \in Nat /\ window' = IF m # 0 /\ phase # "reading" THEN window + 1 ELSE window
    BY <1>1 DEF PostData, ReadData, HttpInv, ServerTypes, m
  <2>2. Opened(Unread') \subseteq Opened(Unread)
    BY <1>2, <1>5, SuffixOpens
  <2>3. /\ IsFiniteSet(Opened(Unread)) /\ Cardinality(Opened(Unread)) \in Nat
        /\ IsFiniteSet(Opened(Unread')) /\ Cardinality(Opened(Unread')) \in Nat
    BY OpenedFinite
  <2>4. window + Cardinality(Opened(Unread)) <= Window /\ Window \in Nat
    BY Http2Assumption DEF HttpInv, WindowHeld
  <2>5. CASE m = 0
    <3>1. Cardinality(Opened(Unread')) <= Cardinality(Opened(Unread))
      BY <2>2, <2>3, FS_Subset
    <3>2. QED
      BY <1>1, <2>1, <2>3, <2>4, <2>5, <3>1 DEF HttpInv, WindowHeld, ServerTypes
  <2>6. CASE m # 0
    <3> DEFINE p == <<m, Frame.part>>
    <3>1. p \in Opened(Unread)
      BY <1>2, <1>3, <2>6 DEF Opened, Opens, m
    <3>2. p \notin Opened(Unread')
      <4>1. ASSUME p \in Opened(Unread') PROVE FALSE
        <5>1. PICK i \in 1 .. Len(Unread') :
                Opens(Unread'[i]) /\ p = <<Unread'[i].msg, Unread'[i].part>>
          BY <4>1 DEF Opened
        <5>2. Unread'[i].msg = m /\ Unread'[i].part = Frame.part
          BY <5>1
        <5>3. Precedes(Frame, Unread'[i])
          BY <1>7, <2>6, <5>1
        <5>4. QED
          BY <1>3, <5>2, <5>3 DEF Precedes, m
      <4>2. QED
        BY <4>1
    <3> HIDE DEF p
    <3>3. /\ Cardinality(Opened(Unread) \ {p}) = Cardinality(Opened(Unread)) - 1
          /\ IsFiniteSet(Opened(Unread) \ {p})
      BY <2>3, <3>1, FS_RemoveElement
    <3>4. Opened(Unread') \subseteq Opened(Unread) \ {p}
      BY <2>2, <3>2
    <3>5. Cardinality(Opened(Unread')) <= Cardinality(Opened(Unread)) - 1
      BY <3>3, <3>4, FS_Subset
    <3>6. QED
      BY <1>1, <2>1, <2>3, <2>4, <3>5 DEF HttpInv, WindowHeld, ServerTypes
  <2>7. QED
    BY <2>5, <2>6
<1>24. InOrderOnce'
  <2>1. ASSUME NEW i \in 1 .. Len(delivered'), NEW j \in 1 .. Len(delivered'), i < j
        PROVE  delivered'[i] < delivered'[j]
    <3>1. i \in 1 .. Len(delivered) /\ delivered'[i] = delivered[i]
      BY <1>8, <1>14, <2>1
    <3>2. CASE j \in 1 .. Len(delivered) /\ delivered'[j] = delivered[j]
      BY <1>8, <2>1, <3>1, <3>2 DEF HttpInv, InOrderOnce
    <3>3. CASE complete /\ delivered'[j] = m
      BY <1>10, <1>12, <3>1, <3>3
    <3>4. QED
      BY <1>14, <3>2, <3>3
  <2>2. DOMAIN delivered' = 1 .. Len(delivered')
    BY <1>16 DEF HistoryTypes
  <2>3. QED
    BY <2>1, <2>2 DEF InOrderOnce
<1>25. LostOnlyAfterSplit'
  <2>1. /\ DOMAIN delivered' = 1 .. Len(delivered')
        /\ DOMAIN delivered = 1 .. Len(delivered)
    BY <1>8, <1>16 DEF HistoryTypes
  <2>2. ASSUME NEW c \in consumed' \ {0}
        PROVE  \/ \E i \in 1 .. Len(delivered') : delivered'[i] = c
               \/ \E k \in split :
                    k <= c /\ \A i \in 1 .. Len(delivered') : delivered'[i] \notin k .. c
    <3>1. CASE complete /\ c = m
      BY <1>15, <3>1
    <3>2. CASE ~ complete /\ c = m
      <4>1. m # 0 /\ delivered' = delivered
        BY <1>1, <2>2, <3>2
      <4>2. PICK k \in split : /\ k <= m
                               /\ \A i \in 1 .. Len(delivered) : delivered[i] < k
        <5>1. CASE json = <<>>
          BY <1>3, <1>8, <1>11, <1>12, <3>2, <4>1, <5>1
        <5>2. CASE json # <<>>
          <6>1. Opens(Unread[1])
            BY <1>2, <4>1 DEF Opens, m
          <6>2. QED
            BY <1>1, <1>2, <5>2, <6>1 DEF HttpInv, JsonBegun, m
        <5>3. QED
          BY <5>1, <5>2
      <4>3. k \in Nat /\ \A i \in 1 .. Len(delivered) : delivered[i] \notin k .. m
        BY <1>3, <1>8, <1>12, <4>2
      <4>4. QED
        BY <3>2, <4>1, <4>2, <4>3
    <3>3. CASE c \in consumed /\ c # m
      <4>1. c \in Nat /\ c # 0 /\ (complete => c < m)
        BY <1>3, <1>4, <1>8, <1>10, <2>2, <3>3 DEF Fine, m
      <4>2. CASE \E i \in 1 .. Len(delivered) : delivered[i] = c
        BY <1>13, <4>2
      <4>3. CASE \E k \in split :
                   k <= c /\ \A i \in 1 .. Len(delivered) : delivered[i] \notin k .. c
        <5>1. PICK k \in split :
                k <= c /\ \A i \in 1 .. Len(delivered) : delivered[i] \notin k .. c
          BY <4>3
        <5>2. \A i \in 1 .. Len(delivered') : delivered'[i] \notin k .. c
          BY <1>3, <1>8, <1>14, <4>1, <5>1
        <5>3. QED
          BY <5>1, <5>2
      <4>4. QED
        BY <2>1, <2>2, <3>3, <4>2, <4>3 DEF HttpInv, LostOnlyAfterSplit
    <3>4. QED
      BY <1>1, <2>2, <3>1, <3>2, <3>3
  <2>3. QED
    BY <1>1, <2>1, <2>2 DEF LostOnlyAfterSplit
<1>26. phase' \in Phases
  BY <1>1 DEF PostData, ReadData, Answered, Phases
<1>27. QED
  BY <1>16, <1>17, <1>18, <1>19, <1>20, <1>22, <1>23, <1>24, <1>25, <1>26
     DEF HttpInv

(* The server sends whole frames.                                          *)
Frames(t) == t \in Seq(Pieces) /\ t # <<>> /\ Framed(t) /\ t[1].half # 2

LEMMA SendJoins ==
  ASSUME HttpInv, NEW t \in Seq(Pieces), Sends(t)
  PROVE  Joined(Unread', Unread, t) /\ wire' \in Seq(Pieces)
<1>1. recv \in Seq(Pieces) /\ wire \in Seq(Pieces) /\ Unread \in Seq(Pieces)
  BY UnreadIs
<1>2. Unread' = recv \o (wire \o t) /\ wire' = wire \o t
  BY DEF Sends, Unread
<1>3. recv \o (wire \o t) = Unread \o t
  BY <1>1, ConcatAssociative DEF Unread
<1>4. wire \o t \in Seq(Pieces)
  BY <1>1, ConcatProperties
<1>5. QED
  BY <1>1, <1>2, <1>3, <1>4, JoinedIs

LEMMA JoinKeepsFrames ==
  ASSUME NEW s \in Seq(Pieces), NEW t, NEW v, Frames(t), Joined(v, s, t), Framed(s)
  PROVE  Framed(v) /\ v # <<>> /\ v[1] = (IF s = <<>> THEN t[1] ELSE s[1])
<1>1. /\ t \in Seq(Pieces) /\ Len(t) \in Nat /\ Len(s) \in Nat /\ Len(t) >= 1
      /\ v \in Seq(Pieces) /\ Len(v) = Len(s) + Len(t)
      /\ 1 \in 1 .. Len(t) /\ Len(t) \in 1 .. Len(t)
  BY DEF Frames, Joined
<1>2. ASSUME NEW i \in 1 .. Len(v) - 1 PROVE v[i].half = 1 <=> v[i + 1].half = 2
  <2>1. CASE i < Len(s)
    <3>1. i \in 1 .. Len(s) /\ i + 1 \in 1 .. Len(s) /\ i \in 1 .. Len(s) - 1
      BY <1>1, <2>1
    <3>2. v[i] = s[i] /\ v[i + 1] = s[i + 1]
      BY <3>1 DEF Joined
    <3>3. QED
      BY <3>1, <3>2 DEF Framed
  <2>2. CASE i = Len(s)
    <3>1. i \in 1 .. Len(s) /\ s # <<>>
      BY <1>1, <2>2
    <3>2. v[i] = s[Len(s)] /\ v[i + 1] = t[1]
      BY <1>1, <2>2, <3>1 DEF Joined
    <3>3. QED
      BY <3>1, <3>2 DEF Framed, Frames, Whole
  <2>3. CASE i > Len(s)
    <3>1. i - Len(s) \in 1 .. Len(t) - 1
      BY <1>1, <2>3
    <3>2. PICK j \in 1 .. Len(t) - 1 : j = i - Len(s)
      BY <3>1
    <3>3. /\ j \in 1 .. Len(t) /\ j + 1 \in 1 .. Len(t)
          /\ i = Len(s) + j /\ i + 1 = Len(s) + (j + 1)
      BY <1>1, <3>2
    <3>4. v[i] = t[j] /\ v[i + 1] = t[j + 1]
      BY <3>3 DEF Joined
    <3>5. QED
      BY <3>4 DEF Framed, Frames
  <2>4. QED
    BY <1>1, <2>1, <2>2, <2>3
<1>3. v # <<>> /\ Whole(v[Len(v)])
  <2>1. v[Len(s) + Len(t)] = t[Len(t)]
    BY <1>1 DEF Joined
  <2>2. QED
    BY <1>1, <2>1 DEF Framed, Frames
<1>4. v[1] = (IF s = <<>> THEN t[1] ELSE s[1])
  <2>1. CASE s = <<>>
    <3>1. Len(s) + 1 = 1
      BY <2>1
    <3>2. QED
      BY <1>1, <2>1, <3>1 DEF Joined
  <2>2. CASE s # <<>>
    <3>1. 1 \in 1 .. Len(s)
      BY <1>1, <2>2
    <3>2. QED
      BY <2>2, <3>1 DEF Joined
  <2>3. QED
    BY <2>1, <2>2
<1>5. QED
  BY <1>2, <1>3, <1>4 DEF Framed

(* What is in the longer stream was there or was sent.                     *)
LEMMA JoinIsEither ==
  ASSUME NEW s \in Seq(Pieces), NEW t, NEW v, Joined(v, s, t), NEW i \in 1 .. Len(v)
  PROVE  \/ i \in 1 .. Len(s) /\ v[i] = s[i]
         \/ \E j \in 1 .. Len(t) : i = Len(s) + j /\ v[i] = t[j]
<1>1. CASE i \in 1 .. Len(s)
  BY <1>1 DEF Joined
<1>2. CASE i - Len(s) \in 1 .. Len(t)
  <2>1. PICK j \in 1 .. Len(t) : j = i - Len(s)
    BY <1>2
  <2>2. i = Len(s) + j
    BY <2>1
  <2>3. QED
    BY <2>1, <2>2 DEF Joined
<1>3. QED
  BY <1>1, <1>2 DEF Joined

LEMMA JoinOpens ==
  ASSUME NEW s \in Seq(Pieces), NEW t, NEW v, Joined(v, s, t)
  PROVE  Opened(v) \subseteq Opened(s) \cup Opened(t)
<1>1. ASSUME NEW p \in Opened(v) PROVE p \in Opened(s) \cup Opened(t)
  <2>1. PICK i \in 1 .. Len(v) : Opens(v[i]) /\ p = <<v[i].msg, v[i].part>>
    BY <1>1 DEF Opened
  <2>2. CASE i \in 1 .. Len(s) /\ v[i] = s[i]
    BY <1>1, <2>1, <2>2 DEF Opened
  <2>3. CASE \E j \in 1 .. Len(t) : i = Len(s) + j /\ v[i] = t[j]
    BY <1>1, <2>1, <2>3 DEF Opened
  <2>4. QED
    BY <2>2, <2>3, JoinIsEither
<1>2. QED
  BY <1>1

(* What a send says of the stream, the flags and the histories.            *)
LEMMA SendKeepsFrames ==
  ASSUME HttpInv, NEW t, Frames(t), Sends(t)
  PROVE  /\ StreamTypes' /\ Framed(Unread') /\ HeaderNext' /\ phase' \in Phases
         /\ InOrderOnce' /\ Joined(Unread', Unread, t)
<1>1. t \in Seq(Pieces)
  BY DEF Frames
<1>2. Joined(Unread', Unread, t) /\ wire' \in Seq(Pieces)
  BY <1>1, SendJoins
<1>3. UNCHANGED <<phase, exchanged, pulled, recv, json, requested, delivered,
                  consumed, cleared>>
  BY DEF Sends
<1>4. /\ Framed(Unread')
      /\ Unread'[1] = (IF Unread = <<>> THEN t[1] ELSE Unread[1])
  BY <1>2, UnreadIs, JoinKeepsFrames DEF HttpInv
<1>5. HeaderNext'
  BY <1>3, <1>4 DEF HeaderNext, Frames, HttpInv
<1>6. StreamTypes' /\ phase' \in Phases /\ InOrderOnce'
  BY <1>2, <1>3 DEF StreamTypes, HttpInv, InOrderOnce
<1>7. QED
  BY <1>2, <1>4, <1>5, <1>6

(* A frame without a payload.                                              *)
LEMMA PlainKeeps ==
  ASSUME HttpInv, NEW t, Frames(t), Sends(t),
         UNCHANGED <<window, split>>, ServerTypes',
         server'.msg = server.msg,
         server'.open /\ server'.sent = 1 => server.open /\ server.sent = 1,
         \A i \in 1 .. Len(t) : IsData(t[i]) =>
           t[i].msg = 0 /\ t[i].part = 0 /\ t[i].last = FALSE /\ t[i].end = TRUE
  PROVE  HttpInv'
<1>1. /\ StreamTypes' /\ Framed(Unread') /\ HeaderNext' /\ phase' \in Phases
      /\ InOrderOnce' /\ Joined(Unread', Unread, t)
  BY SendKeepsFrames
<1>2. UNCHANGED <<phase, json, delivered, consumed, window, split>>
  BY DEF Sends
<1>3. Unread \in Seq(Pieces)
  BY UnreadIs
<1>4. ASSUME NEW i \in 1 .. Len(Unread'), Opens(Unread'[i])
      PROVE  i \in 1 .. Len(Unread) /\ Unread'[i] = Unread[i]
  BY <1>1, <1>3, <1>4, JoinIsEither DEF Opens
<1>5. InOrder(Unread')
  BY <1>4 DEF InOrder, HttpInv
<1>6. AllFine'
  <2>1. ASSUME NEW i \in 1 .. Len(Unread'), IsData(Unread'[i]), Unread'[i].msg = 0
        PROVE  Unread'[i].part = 0 /\ ~ Unread'[i].last /\ Unread'[i].end
    <3>1. CASE i \in 1 .. Len(Unread) /\ Unread'[i] = Unread[i]
      BY <2>1, <3>1 DEF HttpInv, AllFine, Fine
    <3>2. CASE \E j \in 1 .. Len(t) : Unread'[i] = t[j]
      BY <2>1, <3>2
    <3>3. QED
      BY <1>1, <1>3, <3>1, <3>2, JoinIsEither
  <2>2. ASSUME NEW i \in 1 .. Len(Unread'), IsData(Unread'[i]), Unread'[i].msg # 0
        PROVE  Fine(Unread'[i])
    BY <1>4, <2>2 DEF HttpInv, AllFine, Opens
  <2>3. QED
    BY <1>2, <2>1, <2>2 DEF AllFine, Fine
<1>7. Heard' /\ LostOnlyAfterSplit' /\ HistoryTypes'
  BY <1>2 DEF HttpInv, Heard, LostOnlyAfterSplit, HistoryTypes
<1>8. JsonBegun'
  BY <1>2, <1>4 DEF HttpInv, JsonBegun
<1>9. WindowHeld'
  <2>1. Opened(t) = {}
    BY DEF Opened, Opens
  <2>2. Opened(Unread') \subseteq Opened(Unread)
    BY <1>1, <1>3, <2>1, JoinOpens
  <2>3. /\ Cardinality(Opened(Unread')) <= Cardinality(Opened(Unread))
        /\ Cardinality(Opened(Unread')) \in Nat /\ Cardinality(Opened(Unread)) \in Nat
    BY <2>2, OpenedFinite, FS_Subset
  <2>4. QED
    BY <1>2, <2>3, Http2Assumption DEF HttpInv, WindowHeld, ServerTypes
<1>10. QED
  BY <1>1, <1>5, <1>6, <1>7, <1>8, <1>9 DEF HttpInv

LEMMA ControlSendKeeps ==
  ASSUME HttpInv, SendControl
  PROVE  HttpInv'
<1>1. PICK type \in {"OTHER", "GOAWAY"} :
        Sends(<<Control(type)>>) /\ UNCHANGED <<server, window, split>>
  BY DEF SendControl
<1> DEFINE x == Control(type)
           t == <<x>>
<1>2. x \in Pieces /\ x.half = 0 /\ x.type # "DATA"
  BY DEF Control, Pieces
<1> HIDE DEF x
<1>3. t \in Seq(Pieces) /\ Len(t) = 1 /\ t[1] = x /\ t # <<>>
  BY <1>2
<1> HIDE DEF t
<1>4. Frames(t) /\ \A i \in 1 .. Len(t) : ~ IsData(t[i])
  BY <1>2, <1>3 DEF Frames, Framed, Whole, IsData
<1>5. Sends(t) /\ requested' = requested
  BY <1>1 DEF t, x, Sends
<1>6. ServerTypes'
  BY <1>1, <1>5 DEF HttpInv, ServerTypes
<1>7. QED
  BY <1>1, <1>4, <1>5, <1>6, PlainKeeps

LEMMA HeadersKeep ==
  ASSUME HttpInv, SendHeaders
  PROVE  HttpInv'
<1>1. PICK s \in requested, end \in BOOLEAN :
        /\ Sends(<<Headers(s, end)>>)
        /\ server' = [server EXCEPT !.stream = s, !.open = ~ end, !.sent = 0]
        /\ UNCHANGED <<window, split>>
  BY DEF SendHeaders
<1> DEFINE x == Headers(s, end)
           t == <<x>>
<1>2. s \in {1, 3}
  BY DEF HttpInv, ServerTypes
<1>3. x \in Pieces /\ x.half = 0 /\ x.type # "DATA"
  BY <1>2 DEF Headers, Pieces
<1> HIDE DEF x
<1>4. t \in Seq(Pieces) /\ Len(t) = 1 /\ t[1] = x /\ t # <<>>
  BY <1>3
<1> HIDE DEF t
<1>5. Frames(t) /\ \A i \in 1 .. Len(t) : ~ IsData(t[i])
  BY <1>3, <1>4 DEF Frames, Framed, Whole, IsData
<1>6. Sends(t) /\ requested' = requested
  BY <1>1 DEF t, x, Sends
<1>7. /\ server'.msg = server.msg /\ server'.sent = 0 /\ server'.stream = s
      /\ server' \in [stream : {0, 1, 3}, open : BOOLEAN, due : BOOLEAN,
                      msg : 0 .. MaxMessages, sent : {0, 1}]
  <2>1. server \in [stream : {0, 1, 3}, open : BOOLEAN, due : BOOLEAN,
                    msg : 0 .. MaxMessages, sent : {0, 1}]
    BY DEF HttpInv, ServerTypes
  <2>2. (~ end) \in BOOLEAN
    OBVIOUS
  <2>3. QED
    BY <1>1, <1>2, <2>1, <2>2
<1>8. ServerTypes'
  BY <1>1, <1>2, <1>6, <1>7 DEF HttpInv, ServerTypes
<1>9. server'.open /\ server'.sent = 1 => server.open /\ server.sent = 1
  BY <1>7
<1>10. QED
  BY <1>1, <1>5, <1>6, <1>7, <1>8, <1>9, PlainKeeps

(* The two pieces of a DATA frame.                                         *)
DataFrame(t, m, part, last, end) ==
  /\ Frames(t) /\ Len(t) = 2
  /\ \A i \in 1 .. Len(t) : IsData(t[i]) => i = 1
  /\ t[1].msg = m /\ t[1].part = part /\ t[1].last = last /\ t[1].end = end

LEMMA DataIs ==
  ASSUME NEW s \in {1, 3}, NEW m \in 0 .. MaxMessages, NEW part \in 0 .. 2,
         NEW last \in BOOLEAN, NEW end \in BOOLEAN,
         NEW t, t = Data(s, m, part, last, end)
  PROVE  DataFrame(t, m, part, last, end)
<1> DEFINE x(i) == [type |-> "DATA", stream |-> s, half |-> i,
                    msg |-> m, part |-> part, last |-> last, end |-> end]
<1>1. t = [i \in 1 .. 2 |-> x(i)]
  BY DEF Data
<1>2. x(1) \in Pieces /\ x(2) \in Pieces
  BY DEF Pieces
<1>3. /\ x(1).half = 1 /\ x(2).half = 2 /\ x(1).msg = m /\ x(1).part = part
      /\ x(1).last = last /\ x(1).end = end
  OBVIOUS
<1> HIDE DEF x
<1>4. \A i \in 1 .. 2 : x(i) \in Pieces
  BY <1>2
<1>5. t \in Seq(Pieces) /\ Len(t) = 2 /\ t[1] = x(1) /\ t[2] = x(2)
  BY <1>1, <1>4
<1>6. \A i \in 1 .. Len(t) : i = 1 \/ i = 2
  BY <1>5
<1>7. Frames(t) /\ \A i \in 1 .. Len(t) : IsData(t[i]) => i = 1
  BY <1>3, <1>5, <1>6 DEF Frames, Framed, Whole, IsData
<1>8. QED
  BY <1>3, <1>5, <1>7 DEF DataFrame

LEMMA EndKeeps ==
  ASSUME HttpInv, SendEnd
  PROVE  HttpInv'
<1> DEFINE t == Data(1, 0, 0, FALSE, TRUE)
<1>1. /\ Sends(t) /\ UNCHANGED <<window, split>> /\ requested' = requested
      /\ server' = [server EXCEPT !.due = FALSE]
  BY DEF SendEnd, Sends
<1>2. /\ 1 \in {1, 3} /\ 0 \in 0 .. MaxMessages /\ 0 \in 0 .. 2
      /\ FALSE \in BOOLEAN /\ TRUE \in BOOLEAN
  BY Http2Assumption
<1>3. /\ Frames(t) /\ Len(t) = 2
      /\ \A i \in 1 .. Len(t) : IsData(t[i]) => i = 1
      /\ t[1].msg = 0 /\ t[1].part = 0 /\ t[1].last = FALSE /\ t[1].end = TRUE
  <2>1. DataFrame(t, 0, 0, FALSE, TRUE)
    BY <1>2, DataIs, Zenon
  <2>2. QED
    BY <2>1 DEF DataFrame
<1> HIDE DEF t
<1>4. ServerTypes' /\ server'.msg = server.msg
      /\ server'.open = server.open /\ server'.sent = server.sent
  BY <1>1 DEF HttpInv, ServerTypes
<1>5. QED
  BY <1>1, <1>3, <1>4, PlainKeeps

(* The next frame of a message, or the first of the next message: it takes *)
(* a part of the window, and it is later than everything before it.        *)
LEMMA DataSendKeeps ==
  ASSUME HttpInv, SendData
  PROVE  HttpInv'
<1> DEFINE msg == IF server.sent = 0 THEN server.msg + 1 ELSE server.msg
           part == server.sent + 1
<1>1. PICK last \in BOOLEAN, end \in BOOLEAN :
        /\ msg <= MaxMessages
        /\ server.sent = 1 => last \/ end
        /\ Sends(Data(server.stream, msg, part, last, end))
        /\ server' = [server EXCEPT
                        !.open = ~ (end \/ (last /\ server.stream = 1)), !.msg = msg,
                        !.due = @ \/ ((end \/ (last /\ server.stream = 1)) /\ ~ end),
                        !.sent = IF last THEN 0 ELSE 1]
        /\ split' = IF last THEN split ELSE split \cup {msg}
  BY DEF SendData
<1>2. server.open /\ window > 0 /\ window' = window - 1
  BY DEF SendData
<1>3. /\ server \in [stream : {0, 1, 3}, open : BOOLEAN, due : BOOLEAN,
                     msg : 0 .. MaxMessages, sent : {0, 1}]
      /\ server.stream \in {1, 3} /\ server.msg \in Nat /\ server.sent \in {0, 1}
      /\ MaxMessages \in Nat /\ window \in Nat /\ Window \in Nat
      /\ split \subseteq 1 .. MaxMessages
  BY <1>2, Http2Assumption DEF HttpInv, ServerTypes, HistoryTypes
<1>4. /\ msg \in 0 .. MaxMessages /\ part \in 0 .. 2 /\ server.msg <= msg
      /\ server.sent = 0 => server.msg < msg /\ part = 1
      /\ server.sent = 1 => server.msg = msg /\ part = 2
      /\ part \in {1, 2}
  BY <1>1, <1>3
<1> DEFINE t == Data(server.stream, msg, part, last, end)
<1>5. DataFrame(t, msg, part, last, end)
  BY <1>3, <1>4, DataIs
<1>6. Sends(t)
  BY <1>1
<1> HIDE DEF t
<1>7. /\ StreamTypes' /\ Framed(Unread') /\ HeaderNext' /\ phase' \in Phases
      /\ InOrderOnce' /\ Joined(Unread', Unread, t)
  BY <1>5, <1>6, SendKeepsFrames DEF DataFrame
<1>8. UNCHANGED <<phase, json, requested, delivered, consumed>>
  BY <1>6 DEF Sends
<1>9. server'.msg = msg /\ server'.sent = (IF last THEN 0 ELSE 1)
  BY <1>1, <1>3
<1>10. server'.open = ~ (end \/ (last /\ server.stream = 1))
  BY <1>1, <1>3, Zenon
<1>11. server'.open /\ server'.sent = 1 => ~ last /\ server.sent = 0
  <2>1. server'.sent = 1 => ~ last
    BY <1>9
  <2>2. server'.open => ~ end
    BY <1>10
  <2>3. QED
    BY <1>1, <1>3, <2>1, <2>2
<1>12. split \subseteq split' /\ (~ last => msg \in split')
  BY <1>1
<1>13. msg # 0
  <2>1. server.sent = 1 => server.msg \in split
    BY <1>2 DEF HttpInv, Heard
  <2>2. QED
    BY <1>3, <1>4, <2>1
<1>14. part = 2 \/ ~ last => msg \in split'
  <2>1. part = 2 => server.sent = 1 /\ server.msg = msg
    BY <1>4, <1>3
  <2>2. server.sent = 1 => server.msg \in split
    BY <1>2 DEF HttpInv, Heard
  <2>3. QED
    BY <1>12, <2>1, <2>2
<1>15. \A i \in 1 .. Len(delivered) : delivered[i] < msg
  <2>1. ASSUME NEW i \in 1 .. Len(delivered) PROVE delivered[i] < msg
    <3>1. delivered[i] \in 1 .. MaxMessages
      BY ElementOfSeq DEF HttpInv, HistoryTypes
    <3>2. /\ delivered[i] <= server.msg
          /\ server.sent = 1 => delivered[i] < server.msg
      BY <1>2 DEF HttpInv, Heard
    <3>3. QED
      BY <1>3, <1>4, <3>1, <3>2
  <2>2. QED
    BY <2>1
<1>16. \A c \in consumed : c <= msg
  <2>1. \A c \in consumed : c <= server.msg /\ c \in Nat
    BY <1>3 DEF HttpInv, Heard, HistoryTypes
  <2>2. QED
    BY <1>3, <1>4, <2>1
<1>17. ASSUME NEW i \in 1 .. Len(Unread), Opens(Unread[i])
       PROVE  /\ Unread[i].msg \in Nat /\ Unread[i].msg <= server.msg
              /\ server.sent = 1 =>
                   Unread[i].msg < server.msg \/ (Unread[i].part = 1 /\ ~ Unread[i].last)
  <2>1. Unread[i] \in Pieces /\ Fine(Unread[i])
    BY <1>17, UnreadIs, ElementOfSeq DEF HttpInv, AllFine, Opens
  <2>2. QED
    BY <1>2, <1>3, <1>17, <2>1, PieceIs DEF Fine, Opens, IsData
<1>18. ASSUME NEW i \in 1 .. Len(Unread'), IsData(Unread'[i])
       PROVE  \/ i \in 1 .. Len(Unread) /\ Unread'[i] = Unread[i]
              \/ i = Len(Unread) + 1 /\ Unread'[i] = t[1]
  <2>1. CASE i \in 1 .. Len(Unread) /\ Unread'[i] = Unread[i]
    BY <2>1
  <2>2. CASE \E j \in 1 .. Len(t) : i = Len(Unread) + j /\ Unread'[i] = t[j]
    <3>1. PICK j \in 1 .. Len(t) : i = Len(Unread) + j /\ Unread'[i] = t[j]
      BY <2>2
    <3>2. j = 1
      BY <1>5, <1>18, <3>1 DEF DataFrame
    <3>3. QED
      BY <3>1, <3>2
  <2>3. Unread \in Seq(Pieces) /\ Joined(Unread', Unread, t)
    BY <1>7, UnreadIs
  <2>4. \/ i \in 1 .. Len(Unread) /\ Unread'[i] = Unread[i]
        \/ \E j \in 1 .. Len(t) : i = Len(Unread) + j /\ Unread'[i] = t[j]
    <3>1. PICK v : v = Unread'
      OBVIOUS
    <3>2. Joined(v, Unread, t) /\ i \in 1 .. Len(v)
      BY <2>3, <3>1
    <3>3. \/ i \in 1 .. Len(Unread) /\ v[i] = Unread[i]
          \/ \E j \in 1 .. Len(t) : i = Len(Unread) + j /\ v[i] = t[j]
      BY <2>3, <3>2, JoinIsEither
    <3>4. QED
      BY <3>1, <3>3
  <2>5. QED
    BY <2>1, <2>2, <2>4
<1> HIDE DEF msg, part
<1>19. ServerTypes' /\ HistoryTypes'
  <2>1. server' \in [stream : {0, 1, 3}, open : BOOLEAN, due : BOOLEAN,
                     msg : 0 .. MaxMessages, sent : {0, 1}]
    BY <1>1, <1>3, <1>4
  <2>2. server'.stream = server.stream
    BY <1>1, <1>3
  <2>3. window' \in Nat
    BY <1>2, <1>3
  <2>4. ServerTypes'
    BY <1>3, <1>8, <2>1, <2>2, <2>3 DEF HttpInv, ServerTypes
  <2>5. split' \subseteq 1 .. MaxMessages
    BY <1>1, <1>3, <1>4, <1>13
  <2>6. QED
    BY <1>8, <2>4, <2>5 DEF HttpInv, HistoryTypes
<1>20. InOrder(Unread')
  <2>1. ASSUME NEW i \in 1 .. Len(Unread'), NEW j \in 1 .. Len(Unread'), i < j,
               Opens(Unread'[i]), Opens(Unread'[j])
        PROVE  Precedes(Unread'[i], Unread'[j])
    <3>1. i \in 1 .. Len(Unread) /\ Unread'[i] = Unread[i]
      BY <1>7, <1>18, <2>1, UnreadIs DEF Opens, Joined, DataFrame
    <3>2. CASE j \in 1 .. Len(Unread) /\ Unread'[j] = Unread[j]
      BY <2>1, <3>1, <3>2 DEF HttpInv, InOrder
    <3>3. CASE Unread'[j] = t[1]
      <4>1. t[1].msg = msg /\ t[1].part = part
        BY <1>5 DEF DataFrame
      <4>2. /\ Unread[i].msg \in Nat /\ Unread[i].msg <= server.msg
            /\ server.sent = 1 =>
                 Unread[i].msg < server.msg \/ (Unread[i].part = 1 /\ ~ Unread[i].last)
        BY <1>17, <2>1, <3>1
      <4>3. \/ Unread[i].msg < msg
            \/ Unread[i].msg = msg /\ Unread[i].part < part /\ ~ Unread[i].last
        BY <1>3, <1>4, <4>2
      <4>4. QED
        BY <3>1, <3>3, <4>1, <4>3 DEF Precedes
    <3>4. QED
      BY <1>18, <2>1, <3>2, <3>3 DEF Opens
  <2>2. QED
    BY <2>1 DEF InOrder
<1>21. AllFine'
  <2>1. ASSUME NEW i \in 1 .. Len(Unread'), IsData(Unread'[i]), Unread'[i].msg = 0
        PROVE  Unread'[i].part = 0 /\ ~ Unread'[i].last /\ Unread'[i].end
    BY <1>5, <1>13, <1>18, <2>1 DEF HttpInv, AllFine, Fine, DataFrame
  <2>2. ASSUME NEW i \in 1 .. Len(Unread'), IsData(Unread'[i]), Unread'[i].msg # 0
        PROVE  /\ Unread'[i].part \in {1, 2} /\ Unread'[i].msg <= msg
               /\ Unread'[i].part = 2 \/ ~ Unread'[i].last => Unread'[i].msg \in split'
               /\ \A j \in 1 .. Len(delivered) : delivered[j] < Unread'[i].msg
               /\ \A c \in consumed : c <= Unread'[i].msg
               /\ server'.open /\ server'.sent = 1 =>
                    Unread'[i].msg < msg \/ (Unread'[i].part = 1 /\ ~ Unread'[i].last)
    <3>1. CASE i \in 1 .. Len(Unread) /\ Unread'[i] = Unread[i]
      <4>1. Fine(Unread[i]) /\ Unread[i].msg # 0
        BY <2>2, <3>1 DEF HttpInv, AllFine
      <4>2. Unread[i].msg \in Nat /\ Unread[i].msg <= server.msg
        BY <1>17, <2>2, <3>1 DEF Opens
      <4>3. /\ Unread[i].msg <= msg
            /\ server'.open /\ server'.sent = 1 => Unread[i].msg < msg
        BY <1>3, <1>4, <1>11, <4>2
      <4>4. QED
        BY <1>12, <3>1, <4>1, <4>3 DEF Fine
    <3>2. CASE Unread'[i] = t[1]
      <4>1. t[1].msg = msg /\ t[1].part = part /\ t[1].last = last
        BY <1>5 DEF DataFrame
      <4>2. server'.open /\ server'.sent = 1 => part = 1 /\ ~ last
        BY <1>4, <1>11
      <4>3. msg <= msg
        BY <1>4
      <4>4. QED
        BY <1>4, <1>14, <1>15, <1>16, <3>2, <4>1, <4>2, <4>3
    <3>3. QED
      BY <1>18, <2>2, <3>1, <3>2
  <2>3. QED
    BY <1>8, <1>9, <2>1, <2>2 DEF AllFine, Fine
<1>22. Heard'
  <2>1. \A i \in 1 .. Len(delivered) : delivered[i] <= msg
    <3>1. ASSUME NEW i \in 1 .. Len(delivered) PROVE delivered[i] <= msg
      <4>1. delivered[i] \in 1 .. MaxMessages
        BY ElementOfSeq DEF HttpInv, HistoryTypes
      <4>2. QED
        BY <1>3, <1>4, <1>15, <4>1
    <3>2. QED
      BY <3>1
  <2>2. server'.open /\ server'.sent = 1 => msg \in split'
    BY <1>11, <1>12
  <2>3. QED
    BY <1>8, <1>9, <1>15, <1>16, <2>1, <2>2 DEF Heard
<1>23. JsonBegun'
  <2> SUFFICES ASSUME phase \in {"post1", "post3", "reading"}, json # <<>>
               PROVE  /\ json[1].msg \in split' /\ json[1].msg <= msg
                      /\ \A i \in 1 .. Len(delivered) : delivered[i] < json[1].msg
                      /\ \A i \in 1 .. Len(Unread') :
                           Opens(Unread'[i]) => json[1].msg <= Unread'[i].msg
    BY <1>8, <1>9 DEF JsonBegun
  <2>1. /\ json[1].msg \in split /\ json[1].msg <= server.msg
        /\ \A i \in 1 .. Len(delivered) : delivered[i] < json[1].msg
        /\ \A i \in 1 .. Len(Unread) : Opens(Unread[i]) => json[1].msg <= Unread[i].msg
    BY DEF HttpInv, JsonBegun
  <2>2. json[1].msg <= msg
    <3>0. \A k \in split : k \in Nat
      BY <1>3
    <3>1. json[1].msg \in Nat /\ json[1].msg <= server.msg
      BY <2>1, <3>0
    <3>2. msg \in Nat /\ server.msg \in Nat /\ server.msg <= msg
      BY <1>3, <1>4
    <3>3. QED
      BY <3>1, <3>2
  <2>3. ASSUME NEW i \in 1 .. Len(Unread'), Opens(Unread'[i])
        PROVE  json[1].msg <= Unread'[i].msg
    BY <1>5, <1>18, <2>1, <2>2, <2>3 DEF Opens, DataFrame
  <2>4. QED
    BY <1>12, <2>1, <2>2, <2>3
<1>24. WindowHeld'
  <2> DEFINE p == <<msg, part>>
  <2>1. Opened(Unread') \subseteq Opened(Unread) \cup {p}
    <3>1. ASSUME NEW q \in Opened(Unread') PROVE q \in Opened(Unread) \cup {p}
      <4>1. PICK i \in 1 .. Len(Unread') :
              Opens(Unread'[i]) /\ q = <<Unread'[i].msg, Unread'[i].part>>
        BY <3>1 DEF Opened
      <4>2. CASE i \in 1 .. Len(Unread) /\ Unread'[i] = Unread[i]
        BY <3>1, <4>1, <4>2 DEF Opened
      <4>3. CASE Unread'[i] = t[1]
        BY <1>5, <4>1, <4>3 DEF DataFrame
      <4>4. QED
        BY <1>18, <4>1, <4>2, <4>3 DEF Opens
    <3>2. QED
      BY <3>1
  <2> HIDE DEF p
  <2>2. /\ IsFiniteSet(Opened(Unread)) /\ Cardinality(Opened(Unread)) \in Nat
        /\ Cardinality(Opened(Unread')) \in Nat
    BY OpenedFinite
  <2>3. /\ IsFiniteSet(Opened(Unread) \cup {p})
        /\ \/ Cardinality(Opened(Unread) \cup {p}) = Cardinality(Opened(Unread))
           \/ Cardinality(Opened(Unread) \cup {p}) = Cardinality(Opened(Unread)) + 1
    BY <2>2, FS_AddElement
  <2>4. Cardinality(Opened(Unread')) <= Cardinality(Opened(Unread) \cup {p})
    BY <2>1, <2>3, FS_Subset
  <2>5. window + Cardinality(Opened(Unread)) <= Window
    BY DEF HttpInv, WindowHeld
  <2>6. QED
    BY <1>2, <1>3, <2>2, <2>3, <2>4, <2>5 DEF WindowHeld
<1>25. LostOnlyAfterSplit'
  BY <1>8, <1>12 DEF HttpInv, LostOnlyAfterSplit
<1>26. QED
  BY <1>7, <1>19, <1>20, <1>21, <1>22, <1>23, <1>24, <1>25 DEF HttpInv

LEMMA HttpInvNext == HttpInv /\ [Next]_vars => HttpInv'
<1> SUFFICES ASSUME HttpInv, [Next]_vars PROVE HttpInv'
  OBVIOUS
<1>1. CASE Pull \/ OtherFrame \/ PostFails \/ NoBody \/ StrangeData \/ StopReading
             \/ StartReading
  BY <1>1, SkipKeeps
<1>2. CASE ControlFrame \/ NoControlFrame
  BY <1>2, ControlKeeps
<1>3. CASE PostData \/ ReadData
  BY <1>3, DataKeeps
<1>4. CASE SendControl
  BY <1>4, ControlSendKeeps
<1>5. CASE SendHeaders
  BY <1>5, HeadersKeep
<1>6. CASE SendData
  BY <1>6, DataSendKeeps
<1>7. CASE SendEnd
  BY <1>7, EndKeeps
<1>8. CASE UNCHANGED vars
  <2>1. UNCHANGED <<phase, json, server, requested, window, delivered, consumed, split,
                    recv, wire, cleared>>
    BY <1>8 DEF vars, history
  <2>2. Advances
    BY <2>1, StayAdvances
  <2>3. phase' \in Phases /\ requested' \subseteq {1, 3}
    BY <2>1 DEF HttpInv, ServerTypes
  <2>4. QED
    BY <2>1, <2>2, <2>3, QuietKeeps
<1>9. QED
  BY <1>1, <1>2, <1>3, <1>4, <1>5, <1>6, <1>7, <1>8 DEF Next

LEMMA HttpInvAlways == Spec => []HttpInv
<1>1. QED
  BY HttpInvInit, HttpInvNext, PTL DEF Spec

(* The flags are Boolean, whatever the step.                               *)
LEMMA FlagsNext == FlagTypes /\ [Next]_vars => FlagTypes'
<1> SUFFICES ASSUME FlagTypes, [Next]_vars PROVE FlagTypes'
  OBVIOUS
<1>1. exchanged' \in BOOLEAN
  <2>1. CASE ControlFrame
    BY <2>1 DEF ControlFrame
  <2>2. CASE exchanged' = exchanged
    BY <2>2, Zenon DEF FlagTypes
  <2>3. QED
    BY <2>1, <2>2, Zenon
       DEF Next, vars, Pull, NoControlFrame, OtherFrame, PostFails, NoBody, PostData,
           Buffered, StartReading, StrangeData, ReadData, StopReading, SendControl,
           SendHeaders, SendData, SendEnd, Sends
<1>2. pulled' \in BOOLEAN
  <2>1. CASE Pull
    BY <2>1 DEF Pull
  <2>2. CASE pulled' = pulled \/ pulled' = FALSE
    BY <2>2, Zenon DEF FlagTypes
  <2>3. QED
    BY <2>1, <2>2, Zenon
       DEF Next, vars, ControlFrame, NoControlFrame, OtherFrame, PostFails, NoBody,
           PostData, Take, StartReading, StrangeData, ReadData, StopReading,
           SendControl, SendHeaders, SendData, SendEnd, Sends
<1>3. cleared' \in BOOLEAN
  <2>1. CASE Pull
    BY <2>1, Zenon DEF Pull
  <2>2. CASE cleared' = cleared
    BY <2>2, Zenon DEF FlagTypes
  <2>3. QED
    BY <2>1, <2>2, Zenon
       DEF Next, vars, history, ControlFrame, NoControlFrame, Post, OtherFrame,
           PostFails, NoBody, PostData, Buffered, StartReading, StrangeData, ReadData,
           StopReading, SendControl, SendHeaders, SendData, SendEnd, Sends
<1>4. QED
  BY <1>1, <1>2, <1>3 DEF FlagTypes

(* Every variable keeps its type, and the window never exceeds its size,   *)
(* although post_json gives back what it reads (http2_session.cpp:413).    *)
THEOREM TypeCorrect == Spec => []TypeOK
<1>1. Init => FlagTypes
  BY DEF Init, FlagTypes
<1>2. HttpInv /\ FlagTypes => TypeOK
  <2> SUFFICES ASSUME HttpInv, FlagTypes PROVE TypeOK
    OBVIOUS
  <2>1. window \in 0 .. Window
    <3>1. Cardinality(Opened(Unread)) \in Nat
      BY OpenedFinite
    <3>2. window \in Nat /\ Window \in Nat /\ window + Cardinality(Opened(Unread)) <= Window
      BY Http2Assumption DEF HttpInv, ServerTypes, WindowHeld
    <3>3. QED
      BY <3>1, <3>2
  <2>2. {exchanged, pulled, cleared} \subseteq BOOLEAN
    BY Zenon DEF FlagTypes
  <2>3. {recv, json, wire} \subseteq Seq(Pieces)
    BY Zenon DEF HttpInv, StreamTypes
  <2>4. QED
    BY <2>1, <2>2, <2>3 DEF HttpInv, ServerTypes, HistoryTypes, TypeOK
<1>3. QED
  BY <1>1, <1>2, FlagsNext, HttpInvAlways, PTL DEF Spec

(* Through every timeout, aborted post and dropped frame the buffer begins *)
(* with the header of a frame, unless read_frame_ has cleared it           *)
(* (http2_session.cpp:612).                                                *)
THEOREM BufferBeginsWithHeader == Spec => []HeaderFirst
<1>1. HttpInv => HeaderFirst
  BY UnreadIs DEF HttpInv, HeaderNext, HeaderFirst
<1>2. QED
  BY <1>1, HttpInvAlways, PTL

(* The component gets no message twice, and none before an earlier one.    *)
THEOREM MessagesInOrder == Spec => []InOrderOnce
<1>1. HttpInv => InOrderOnce
  BY DEF HttpInv
<1>2. QED
  BY <1>1, HttpInvAlways, PTL

(* A message that was read and never returned was sent in two frames, or   *)
(* follows such a one (http2_session.cpp:960): whole frames are not lost.  *)
THEOREM OnlySplitMessagesAreLost == Spec => []LostOnlyAfterSplit
<1>1. HttpInv => LostOnlyAfterSplit
  BY DEF HttpInv
<1>2. QED
  BY <1>1, HttpInvAlways, PTL
=============================================================================
