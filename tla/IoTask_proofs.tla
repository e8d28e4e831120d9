---------------------------- MODULE IoTask_proofs ----------------------------
(***************************************************************************)
(* Proofs about the IO task, for every pool, every set of incarnations and *)
(* every bound: no buffer is lost or shared (OneOwner), no queue refuses   *)
(* one (QueuesNeverRefuse), packets are routed once (RoutedOnce) and, if   *)
(* no stop times out, in order (RoutedInOrder), the control connection is  *)
(* not forgotten (TcpNotForgotten), and the pool implements BufferPool.    *)
(***************************************************************************)
EXTENDS IoTask, BoundedQueue_proofs, SequenceTheorems

(* The inductive invariant: OneOwner, with the types it needs, and who     *)
(* holds a buffer at which place.                                          *)
PoolTypes ==
  /\ free \in Seq(Buffers) /\ ready \in Seq(Buffers)
  /\ held \in [Tasks -> Buffers \cup {None}]
  /\ mainHeld \in Buffers \cup {None}
  /\ pc \in [Tasks -> TaskStates]

Holding ==
  /\ \A t \in Tasks : (held[t] # None) <=> (pc[t] \in {"receive", "push"})
  /\ (mainHeld # None) <=> (main = "route")

PoolInv == PoolTypes /\ Holding /\ OneOwner

USE DEF PoolInv, PoolTypes, Holding

(* The queues as the lemmas want them.                                     *)
LEMMA PoolSendMissing ==
  ASSUME NEW q \in Seq(Buffers), IsInjective(q),
         NEW b \in Buffers, b \notin Range(q)
  PROVE  /\ Send(q, PoolSize, b) \in Seq(Buffers)
         /\ IsInjective(Send(q, PoolSize, b))
         /\ Range(Send(q, PoolSize, b)) = Range(q) \cup {b}
         /\ ~Full(q, PoolSize)
BY SendMissing, RoomForMissing, PoolAssumption

(* No queue refuses a buffer.                                              *)
LEMMA PoolInvRoom == PoolInv => QueuesNeverRefuse
<1> SUFFICES ASSUME PoolInv PROVE QueuesNeverRefuse
  OBVIOUS
<1>1. ASSUME NEW t \in Tasks, held[t] # None
      PROVE  ~Full(ready, PoolSize) /\ ~Full(free, PoolSize)
  BY <1>1, PoolSendMissing DEF OneOwner
<1>2. ASSUME mainHeld # None
      PROVE  ~Full(free, PoolSize)
  BY <1>2, PoolSendMissing DEF OneOwner
<1>3. QED
  BY <1>1, <1>2 DEF QueuesNeverRefuse

LEMMA PoolInvInit == Init => PoolInv
<1> SUFFICES ASSUME Init PROVE PoolInv
  OBVIOUS
<1>1. free \in Seq(Buffers) /\ IsInjective(free)
  <2>1. Cardinality(Buffers) \in Nat
    BY FS_CardinalityType, PoolAssumption
  <2>2. QED
    BY <2>1 DEF Init
<1>2. ready \in Seq(Buffers) /\ IsInjective(ready) /\ Range(ready) = {}
  BY DEF Init, IsInjective, Range
<1>3. held = [t \in Tasks |-> None] /\ mainHeld = None
  BY DEF Init
<1>4. PoolTypes /\ Holding
  BY <1>1, <1>2 DEF Init, TaskStates
<1>5. Range(free) = Buffers
  <2>1. Len(free) = Cardinality(Buffers)
    BY FS_CardinalityType, PoolAssumption DEF Init
  <2>2. QED
    BY <1>1, <2>1, FullHasAll, PoolAssumption
<1>6. OneOwner
  BY <1>1, <1>2, <1>3, <1>5, NamesAssumption DEF OneOwner
<1>7. QED
  BY <1>4, <1>6

(* A step that moves no buffer and keeps every holder where it holds.      *)
LEMMA PoolUntouched ==
  ASSUME PoolInv,
         UNCHANGED <<free, ready, held, mainHeld>>,
         pc' \in [Tasks -> TaskStates],
         \A t \in Tasks : (pc'[t] \in {"receive", "push"})
                            <=> (pc[t] \in {"receive", "push"}),
         (main' = "route") <=> (main = "route")
  PROVE  PoolInv'
BY DEF OneOwner

(* One step per action that moves a buffer; the others leave the pool be.  *)
LEMMA PoolInvNext == PoolInv /\ [Next]_vars => PoolInv'
<1> SUFFICES ASSUME PoolInv, [Next]_vars PROVE PoolInv'
  OBVIOUS
<1>1. ASSUME NEW t \in Tasks, TakeBuffer(t) PROVE PoolInv'
  <2>1. /\ Head(free) \in Buffers /\ Head(free) \in Range(free)
        /\ free' \in Seq(Buffers) /\ IsInjective(free')
        /\ Range(free') = Range(free) \ {Head(free)}
    BY <1>1, HeadAndTail DEF TakeBuffer, OneOwner
  <2>2. /\ held' = [held EXCEPT ![t] = Head(free)]
        /\ pc' = [pc EXCEPT ![t] = "receive"] /\ pc[t] = "drain"
        /\ UNCHANGED <<ready, mainHeld, main>>
    BY <1>1 DEF TakeBuffer, Goto, mainVars
  <2>3. PoolTypes' /\ Holding'
    BY <2>1, <2>2, NamesAssumption DEF TaskStates
  <2>4. OneOwner'
    BY <2>1, <2>2, NamesAssumption DEF OneOwner
  <2>5. QED
    BY <2>3, <2>4
<1>2. ASSUME NEW t \in Tasks, Receive(t) PROVE PoolInv'
  BY <1>2, PoolUntouched DEF Receive, Goto, mainVars, TaskStates
<1>3. ASSUME NEW t \in Tasks, NothingReceived(t) PROVE PoolInv'
  <2>1. held[t] \in Buffers /\ held[t] \notin Range(free)
    BY <1>3 DEF NothingReceived, OneOwner
  <2>2. /\ free' \in Seq(Buffers) /\ IsInjective(free')
        /\ Range(free') = Range(free) \cup {held[t]}
    BY <1>3, <2>1, PoolSendMissing DEF NothingReceived, OneOwner
  <2>3. /\ held' = [held EXCEPT ![t] = None]
        /\ pc' = [pc EXCEPT ![t] = "top"]
        /\ UNCHANGED <<ready, mainHeld, main>>
    BY <1>3 DEF NothingReceived, Goto, mainVars
  <2>4. PoolTypes' /\ Holding'
    BY <2>2, <2>3 DEF TaskStates
  <2>5. OneOwner'
    BY <2>1, <2>2, <2>3, NamesAssumption DEF OneOwner
  <2>6. QED
    BY <2>4, <2>5
<1>4. ASSUME NEW t \in Tasks, Push(t) PROVE PoolInv'
  <2>1. held[t] \in Buffers /\ held[t] \notin Range(ready)
    BY <1>4 DEF Push, OneOwner
  <2>2. /\ ready' \in Seq(Buffers) /\ IsInjective(ready')
        /\ Range(ready') = Range(ready) \cup {held[t]}
        /\ free' = free
    BY <1>4, <2>1, PoolSendMissing DEF Push, OneOwner
  <2>3. /\ held' = [held EXCEPT ![t] = None]
        /\ pc' = [pc EXCEPT ![t] = "drain"]
        /\ UNCHANGED <<mainHeld, main>>
    BY <1>4 DEF Push, Goto, mainVars
  <2>4. PoolTypes' /\ Holding'
    BY <2>2, <2>3 DEF TaskStates
  <2>5. OneOwner'
    BY <2>1, <2>2, <2>3, NamesAssumption DEF OneOwner
  <2>6. QED
    BY <2>4, <2>5
<1>5. ASSUME CollectPacket PROVE PoolInv'
  <2>1. /\ Head(ready) \in Buffers /\ Head(ready) \in Range(ready)
        /\ ready' \in Seq(Buffers) /\ IsInjective(ready')
        /\ Range(ready') = Range(ready) \ {Head(ready)}
    BY <1>5, HeadAndTail DEF CollectPacket, OneOwner
  <2>2. /\ mainHeld = None
        /\ mainHeld' = Head(ready) /\ main' = "route"
        /\ UNCHANGED <<free, held, pc>>
    BY <1>5 DEF CollectPacket, taskVars
  <2>3. PoolTypes' /\ Holding'
    BY <2>1, <2>2, NamesAssumption
  <2>4. OneOwner'
    BY <2>1, <2>2, NamesAssumption DEF OneOwner
  <2>5. QED
    BY <2>3, <2>4
<1>6. ASSUME RoutePacket PROVE PoolInv'
  <2>1. mainHeld \in Buffers /\ mainHeld \notin Range(free)
    BY <1>6 DEF RoutePacket, OneOwner
  <2>2. /\ free' \in Seq(Buffers) /\ IsInjective(free')
        /\ Range(free') = Range(free) \cup {mainHeld}
    BY <1>6, <2>1, PoolSendMissing DEF RoutePacket, OneOwner
  <2>3. /\ mainHeld' = None /\ main' = "packets"
        /\ UNCHANGED <<ready, held, pc>>
    BY <1>6 DEF RoutePacket, taskVars
  <2>4. PoolTypes' /\ Holding'
    BY <2>2, <2>3
  <2>5. OneOwner'
    BY <2>1, <2>2, <2>3, NamesAssumption DEF OneOwner
  <2>6. QED
    BY <2>4, <2>5
<1>7. ASSUME NEW t \in Tasks,
             LoopTop(t) \/ SignalTcp(t) \/ UdpReadable(t) \/ SelectTimeout(t)
               \/ StopDraining(t) \/ PoolExhausted(t)
      PROVE  PoolInv'
  BY <1>7, PoolUntouched
     DEF LoopTop, SignalTcp, UdpReadable, SelectTimeout, StopDraining,
         PoolExhausted, Goto, poolVars, mainVars, TaskStates
<1>8. ASSUME UdpArrives \/ TcpArrives \/ UNCHANGED vars PROVE PoolInv'
  BY <1>8, PoolUntouched
     DEF UdpArrives, TcpArrives, vars, poolVars, taskVars, mainVars
<1>9. ASSUME \/ PacketsDone \/ HandlerDone \/ StartReadTcp \/ ReadTcp
             \/ NatPmpRead \/ StunBegin \/ TaskStopped \/ AskSent
             \/ AnswerReadable
      PROVE  PoolInv'
  BY <1>9, PoolUntouched
     DEF PacketsDone, HandlerDone, StartReadTcp, ReadTcp, NatPmpRead,
         StunBegin, TaskStopped, AskSent, AnswerReadable,
         poolVars, taskVars
<1>10. ASSUME AskFails \/ NoAnswer \/ Answer PROVE PoolInv'
  <2>1. /\ UNCHANGED poolVars
        /\ main # "route" /\ main' # "route"
        /\ StartTask \/ UNCHANGED pc
    BY <1>10 DEF AskFails, NoAnswer, Answer, StunReturn, FallBack
  <2>2. /\ pc' \in [Tasks -> TaskStates]
        /\ \A t \in Tasks : (pc'[t] \in {"receive", "push"})
                              <=> (pc[t] \in {"receive", "push"})
    BY <2>1 DEF StartTask, Goto, TaskStates
  <2>3. QED
    BY <2>1, <2>2, PoolUntouched DEF poolVars
<1>11. QED
  BY <1>1, <1>2, <1>3, <1>4, <1>5, <1>6, <1>7, <1>8, <1>9, <1>10
     DEF Next, TaskStep, MainStep, StunStep

(* No buffer is ever lost, doubled or held by two threads.                 *)
THEOREM PoolHasOneOwner == Spec => []OneOwner
<1>1. PoolInv => OneOwner
  OBVIOUS
<1>2. QED
  BY <1>1, PoolInvInit, PoolInvNext, PTL DEF Spec

(* The pushes of the IO task and the returns of buffers never fail, so the *)
(* ignored results of xQueueSend (lines 2708, 2723 and 2790) lose nothing. *)
THEOREM PoolQueuesNeverRefuse == Spec => []QueuesNeverRefuse
BY PoolInvRoom, PoolInvInit, PoolInvNext, PTL DEF Spec
-----------------------------------------------------------------------------
(* The other variables have their types: what they need to know about the  *)
(* pool is that a task receives into a buffer it holds and the main loop   *)
(* routes from one.                                                        *)
LEMMA TypeOKInit == Init => TypeOK
<1> SUFFICES ASSUME Init PROVE TypeOK
  OBVIOUS
<1>1. PoolInv
  BY PoolInvInit
<1>2. udp \in Seq(Packets) /\ routed \in Seq(Packets \cup {0})
  BY DEF Init
<1>3. running \in BOOLEAN
  BY Zenon DEF Init
<1>4. /\ arrived \in 0 .. MaxPackets /\ count \in 0 .. MaxPerLoop
  BY BoundsAssumption DEF Init
<1>5. QED
  BY <1>1, <1>2, <1>3, <1>4 DEF Init, TypeOK, MainStates, Servers

LEMMA TypeOKNext == PoolInv /\ PoolInv' /\ TypeOK /\ [Next]_vars => TypeOK'
<1> SUFFICES ASSUME PoolInv, PoolInv', TypeOK, [Next]_vars PROVE TypeOK'
  OBVIOUS
<1> DEFINE Waiting == udp \in Seq(Packets) /\ arrived \in 0 .. MaxPackets
           Carried == /\ content \in [Buffers -> Packets \cup {0}]
                      /\ routed \in Seq(Packets \cup {0})
           Flags   == /\ running \in BOOLEAN /\ handle \in Tasks \cup {None}
                      /\ watch \in [Tasks -> BOOLEAN]
                      /\ tcp \in BOOLEAN /\ available \in BOOLEAN
                      /\ monitor \in BOOLEAN
           Place   == /\ restart \in BOOLEAN /\ server \in Servers
                      /\ main \in MainStates /\ count \in 0 .. MaxPerLoop
<1>1. Waiting /\ Carried /\ Flags /\ Place
  BY DEF TypeOK
<1>2. udp # <<>> => Tail(udp) \in Seq(Packets) /\ Head(udp) \in Packets
  BY <1>1
<1>3. Waiting'
  <2>1. CASE UdpArrives
    <3>1. arrived' \in Packets /\ arrived' \in 0 .. MaxPackets
      BY <1>1, <2>1, BoundsAssumption DEF UdpArrives, Packets
    <3>2. QED
      BY <1>1, <2>1, <3>1 DEF UdpArrives
  <2>2. CASE UNCHANGED udp /\ UNCHANGED arrived
    BY <1>1, <2>2
  <2>3. CASE udp # <<>> /\ udp' = Tail(udp) /\ UNCHANGED arrived
    BY <1>1, <1>2, <2>3
  <2>4. QED
    BY <2>1, <2>2, <2>3
       DEF Next, TaskStep, MainStep, StunStep, vars, netVars, TcpArrives,
           LoopTop, SignalTcp, UdpReadable, SelectTimeout, StopDraining,
           TakeBuffer, PoolExhausted, Receive, NothingReceived, Push,
           CollectPacket, RoutePacket, PacketsDone, HandlerDone,
           StartReadTcp, ReadTcp, NatPmpRead, StunBegin, TaskStopped,
           AskFails, AskSent, NoAnswer, AnswerReadable, Answer
<1>4. Carried'
  <2>1. ASSUME NEW t \in Tasks, Receive(t) PROVE Carried'
    BY <1>1, <1>2, <2>1 DEF Receive
  <2>2. CASE RoutePacket
    <3>1. content[mainHeld] \in Packets \cup {0}
      BY <1>1, <2>2 DEF RoutePacket
    <3>2. QED
      BY <1>1, <2>2, <3>1 DEF RoutePacket
  <2>3. CASE UNCHANGED <<content, routed>>
    BY <1>1, <2>3
  <2>4. QED
    BY <2>1, <2>2, <2>3
       DEF Next, TaskStep, MainStep, StunStep, vars, netVars, poolVars,
           UdpArrives, TcpArrives,
           LoopTop, SignalTcp, UdpReadable, SelectTimeout, StopDraining,
           TakeBuffer, PoolExhausted, NothingReceived, Push,
           CollectPacket, PacketsDone, HandlerDone,
           StartReadTcp, ReadTcp, NatPmpRead, StunBegin, TaskStopped,
           AskFails, AskSent, NoAnswer, AnswerReadable, Answer
<1>5. Flags'
  <2>1. ASSUME NEW t \in Tasks, TaskStep(t) PROVE Flags'
    BY <1>1, <2>1
       DEF TaskStep, LoopTop, SignalTcp, UdpReadable, SelectTimeout,
           StopDraining, TakeBuffer, PoolExhausted, Receive, NothingReceived,
           Push, tcpVars
  <2>2. CASE AskFails \/ NoAnswer \/ Answer
    BY <1>1, <2>2 DEF AskFails, NoAnswer, Answer, StunReturn, FallBack,
                      StartTask, tcpVars
  <2>3. CASE \/ CollectPacket \/ RoutePacket \/ PacketsDone \/ HandlerDone
             \/ StartReadTcp \/ ReadTcp \/ NatPmpRead \/ StunBegin
             \/ TaskStopped \/ AskSent \/ AnswerReadable
    BY <1>1, <2>3
       DEF CollectPacket, RoutePacket, PacketsDone, HandlerDone,
           StartReadTcp, ReadTcp, NatPmpRead, StunBegin, TaskStopped,
           AskSent, AnswerReadable, taskVars, tcpVars
  <2>4. CASE UdpArrives \/ TcpArrives \/ UNCHANGED vars
    BY <1>1, <2>4 DEF UdpArrives, TcpArrives, vars, taskVars, tcpVars
  <2>5. QED
    BY <2>1, <2>2, <2>3, <2>4 DEF Next, MainStep, StunStep
<1>6. Place'
  <2>1. ASSUME NEW t \in Tasks, TaskStep(t) PROVE Place'
    BY <1>1, <2>1
       DEF TaskStep, LoopTop, SignalTcp, UdpReadable, SelectTimeout,
           StopDraining, TakeBuffer, PoolExhausted, Receive, NothingReceived,
           Push, mainVars, stunVars
  <2>2. CASE AskFails \/ NoAnswer \/ Answer
    BY <1>1, <2>2 DEF AskFails, NoAnswer, Answer, StunReturn, FallBack,
                      MainStates, Servers
  <2>3. CASE CollectPacket \/ PacketsDone
    BY <1>1, <2>3, BoundsAssumption
       DEF CollectPacket, PacketsDone, stunVars, MainStates
  <2>4. CASE StunBegin
    <3>1. restart' \in BOOLEAN
      BY <1>1, <2>4, Zenon DEF StunBegin
    <3>2. QED
      BY <1>1, <2>4, <3>1 DEF StunBegin, MainStates, Servers
  <2>5. CASE \/ RoutePacket \/ HandlerDone \/ StartReadTcp \/ ReadTcp
             \/ NatPmpRead \/ TaskStopped \/ AskSent \/ AnswerReadable
    BY <1>1, <2>5
       DEF RoutePacket, HandlerDone, StartReadTcp, ReadTcp, NatPmpRead,
           TaskStopped, AskSent, AnswerReadable, stunVars, MainStates
  <2>6. CASE UdpArrives \/ TcpArrives \/ UNCHANGED vars
    BY <1>1, <2>6 DEF UdpArrives, TcpArrives, vars, stunVars, mainVars
  <2>7. QED
    BY <2>1, <2>2, <2>3, <2>4, <2>5, <2>6 DEF Next, MainStep, StunStep
<1>7. QED
  BY <1>3, <1>4, <1>5, <1>6 DEF TypeOK

(* Every variable of the two threads keeps its type.                       *)
THEOREM TypeCorrect == Spec => []TypeOK
BY TypeOKInit, TypeOKNext, PoolInvInit, PoolInvNext, PTL DEF Spec
-----------------------------------------------------------------------------
(* The IO task stops watching the control connection only after it raised  *)
(* the flag, and the main loop clears the flag only on its way to letting  *)
(* the task watch again, with no path that leaves in between.              *)
THEOREM ControlNeverForgotten == Spec => []TcpNotForgotten
<1>1. Init => TcpNotForgotten
  BY DEF Init, TcpNotForgotten
<1>2. TcpNotForgotten /\ [Next]_vars => TcpNotForgotten'
  <2> SUFFICES ASSUME TcpNotForgotten, [Next]_vars PROVE TcpNotForgotten'
    OBVIOUS
  <2> USE DEF TcpNotForgotten
  <2>1. ASSUME NEW t \in Tasks, TaskStep(t) PROVE TcpNotForgotten'
    BY <2>1 DEF TaskStep, LoopTop, SignalTcp, UdpReadable, SelectTimeout,
                StopDraining, TakeBuffer, PoolExhausted, Receive,
                NothingReceived, Push, tcpVars, mainVars
  <2>2. CASE StartReadTcp \/ ReadTcp
    BY <2>2 DEF StartReadTcp, ReadTcp
  <2>3. CASE \/ CollectPacket \/ RoutePacket \/ PacketsDone \/ HandlerDone
             \/ NatPmpRead \/ StunBegin \/ StunStep
    BY <2>3 DEF CollectPacket, RoutePacket, PacketsDone, HandlerDone,
                NatPmpRead, StunBegin, StunStep, TaskStopped, AskFails,
                AskSent, NoAnswer, AnswerReadable, Answer, tcpVars
  <2>4. CASE UdpArrives \/ TcpArrives \/ UNCHANGED vars
    BY <2>4 DEF UdpArrives, TcpArrives, vars, tcpVars, mainVars
  <2>5. QED
    BY <2>1, <2>2, <2>3, <2>4 DEF Next, MainStep
<1>3. QED
  BY <1>1, <1>2, PTL DEF Spec
-----------------------------------------------------------------------------
(* The packets on their way: each is in the socket, in one filled buffer   *)
(* or routed, and no two of these hold the same one.                       *)
Filled(b) ==
  \/ b \in Range(ready) \/ b = mainHeld
  \/ \E t \in Tasks : pc[t] = "push" /\ held[t] = b

Arrivals == 1 .. arrived

PacketInv ==
  /\ IsInjective(udp) /\ Range(udp) \subseteq Arrivals
  /\ IsInjective(routed) /\ Range(routed) \subseteq Arrivals \ Range(udp)
  /\ \A b \in Buffers :
       Filled(b) => content[b] \in Arrivals \ (Range(udp) \cup Range(routed))
  /\ \A b, c \in Buffers :
       Filled(b) /\ Filled(c) /\ content[b] = content[c] => b = c

(* A reader of the socket takes the first packet, or there is none.        *)
TakesFirst == udp # <<>> /\ udp' = Tail(udp)

LEMMA SocketHeadAndTail ==
  ASSUME TypeOK, IsInjective(udp), udp # <<>>
  PROVE  /\ Head(udp) \in Range(udp) /\ IsInjective(Tail(udp))
         /\ Range(Tail(udp)) = Range(udp) \ {Head(udp)}
BY HeadAndTail DEF TypeOK

(* Steps that fill no buffer and route nothing keep it.                    *)
LEMMA PacketsKept ==
  ASSUME TypeOK, PacketInv,
         UNCHANGED <<content, routed, arrived>>,
         UNCHANGED udp \/ TakesFirst,
         \A b \in Buffers : Filled(b)' => Filled(b)
  PROVE  PacketInv'
<1>1. IsInjective(udp') /\ Range(udp') \subseteq Range(udp)
  BY SocketHeadAndTail DEF PacketInv, TakesFirst
<1>2. QED
  BY <1>1 DEF PacketInv, Arrivals

LEMMA PacketInvNext ==
  PoolInv /\ PoolInv' /\ TypeOK /\ PacketInv /\ [Next]_vars => PacketInv'
<1> SUFFICES ASSUME PoolInv, PoolInv', TypeOK, PacketInv, [Next]_vars
             PROVE  PacketInv'
  OBVIOUS
<1>1. CASE UdpArrives
  <2>1. /\ arrived \in Nat /\ arrived' = arrived + 1
        /\ Arrivals' = Arrivals \cup {arrived'} /\ arrived' \notin Arrivals
        /\ arrived' \in Packets
    BY <1>1, BoundsAssumption DEF UdpArrives, TypeOK, Arrivals, Packets
  <2>2. arrived' \notin Range(udp)
    BY <2>1 DEF PacketInv
  <2>3. IsInjective(udp') /\ Range(udp') = Range(udp) \cup {arrived'}
    BY <1>1, <2>1, <2>2, AppendMissing DEF UdpArrives, TypeOK, PacketInv
  <2>4. \A b \in Buffers : Filled(b)' <=> Filled(b)
    BY <1>1 DEF UdpArrives, Filled, poolVars, taskVars
  <2>5. UNCHANGED <<content, routed>>
    BY <1>1 DEF UdpArrives, poolVars
  <2>6. QED
    BY <2>1, <2>3, <2>4, <2>5 DEF PacketInv
<1>2. ASSUME NEW t \in Tasks, Receive(t) PROVE PacketInv'
  <2> DEFINE b0 == held[t]
  <2>1. /\ b0 \in Buffers /\ ~Filled(b0)
    BY <1>2 DEF Receive, OneOwner, Filled
  <2>2. /\ udp # <<>> /\ udp' = Tail(udp)
        /\ content' = [content EXCEPT ![b0] = Head(udp)]
        /\ UNCHANGED <<routed, arrived>>
    BY <1>2 DEF Receive
  <2>3. /\ Head(udp) \in Range(udp) /\ IsInjective(udp')
        /\ Range(udp') = Range(udp) \ {Head(udp)}
    BY <2>2, SocketHeadAndTail DEF PacketInv
  <2>4. \A b \in Buffers : Filled(b)' => Filled(b) \/ b = b0
    BY <1>2 DEF Receive, Goto, Filled
  <2>5. /\ content'[b0] = Head(udp)
        /\ \A b \in Buffers : b # b0 => content'[b] = content[b]
    BY <2>1, <2>2 DEF TypeOK
  <2>6. \A b \in Buffers : Filled(b)' =>
          content'[b] \in Arrivals' \ (Range(udp') \cup Range(routed'))
    BY <2>2, <2>3, <2>4, <2>5 DEF PacketInv, Arrivals
  <2>7. \A b, c \in Buffers :
          Filled(b)' /\ Filled(c)' /\ content'[b] = content'[c] => b = c
    BY <2>3, <2>4, <2>5 DEF PacketInv
  <2>8. QED
    BY <2>2, <2>3, <2>6, <2>7 DEF PacketInv, Arrivals
<1>3. CASE RoutePacket
  <2>1. /\ mainHeld \in Buffers /\ Filled(mainHeld)
        /\ routed' = Append(routed, content[mainHeld])
        /\ UNCHANGED <<udp, arrived, content>>
    BY <1>3 DEF RoutePacket, Filled
  <2>2. content[mainHeld] \in Arrivals \ (Range(udp) \cup Range(routed))
    BY <2>1 DEF PacketInv
  <2>3. /\ IsInjective(routed')
        /\ Range(routed') = Range(routed) \cup {content[mainHeld]}
    <3>1. content[mainHeld] \in Packets \cup {0}
      BY <2>1 DEF TypeOK
    <3>2. QED
      BY <2>1, <2>2, <3>1, AppendMissing DEF TypeOK, PacketInv
  <2>4. \A b \in Buffers : Filled(b)' => Filled(b) /\ b # mainHeld
    BY <1>3, NamesAssumption DEF RoutePacket, Filled, OneOwner, taskVars
  <2>5. QED
    BY <2>1, <2>2, <2>3, <2>4 DEF PacketInv, Arrivals
<1>4. ASSUME NEW t \in Tasks, Push(t) PROVE PacketInv'
  <2>1. held[t] \in Buffers /\ held[t] \notin Range(ready)
    BY <1>4 DEF Push, OneOwner
  <2>2. Range(ready') = Range(ready) \cup {held[t]}
    BY <1>4, <2>1, PoolSendMissing DEF Push, OneOwner
  <2>3. \A b \in Buffers : Filled(b)' => Filled(b)
    BY <1>4, <2>2 DEF Push, Goto, Filled
  <2>4. QED
    BY <1>4, <2>3, PacketsKept DEF Push, netVars
<1>5. CASE CollectPacket
  <2>1. /\ Head(ready) \in Range(ready)
        /\ Range(ready') = Range(ready) \ {Head(ready)}
    BY <1>5, HeadAndTail DEF CollectPacket, OneOwner
  <2>2. \A b \in Buffers : Filled(b)' => Filled(b)
    BY <1>5, <2>1 DEF CollectPacket, Filled, taskVars
  <2>3. QED
    BY <1>5, <2>2, PacketsKept DEF CollectPacket, netVars
<1>6. ASSUME NEW t \in Tasks,
             \/ LoopTop(t) \/ SignalTcp(t) \/ UdpReadable(t)
             \/ SelectTimeout(t) \/ StopDraining(t) \/ TakeBuffer(t)
             \/ PoolExhausted(t) \/ NothingReceived(t)
      PROVE  PacketInv'
  <2>1. \A b \in Buffers : Filled(b)' => Filled(b)
    <3>1. /\ UNCHANGED <<ready, mainHeld>>
          /\ \A u \in Tasks :
               pc'[u] = "push" => pc[u] = "push" /\ held'[u] = held[u]
      BY <1>6 DEF LoopTop, SignalTcp, UdpReadable, SelectTimeout,
                  StopDraining, TakeBuffer, PoolExhausted, NothingReceived,
                  Goto, poolVars
    <3>2. QED
      BY <3>1 DEF Filled
  <2>2. UNCHANGED <<content, routed, arrived>> /\ (UNCHANGED udp \/ TakesFirst)
    BY <1>6 DEF LoopTop, SignalTcp, UdpReadable, SelectTimeout, StopDraining,
                TakeBuffer, PoolExhausted, NothingReceived, TakesFirst,
                poolVars, netVars
  <2>3. QED
    BY <2>1, <2>2, PacketsKept
<1>7. CASE \/ TcpArrives \/ UNCHANGED vars \/ PacketsDone \/ HandlerDone
           \/ StartReadTcp \/ ReadTcp \/ NatPmpRead \/ StunBegin
           \/ StunStep
  <2>1. /\ UNCHANGED poolVars /\ UNCHANGED <<routed, arrived>>
        /\ UNCHANGED udp \/ TakesFirst
        /\ UNCHANGED pc \/ StartTask
    BY <1>7 DEF TcpArrives, vars, PacketsDone, HandlerDone, StartReadTcp,
                ReadTcp, NatPmpRead, StunBegin, StunStep, TaskStopped,
                AskFails, AskSent, NoAnswer, AnswerReadable, Answer,
                StunReturn, FallBack, TakesFirst, netVars, taskVars
  <2>2. \A t \in Tasks : pc'[t] = "push" => pc[t] = "push"
    BY <2>1 DEF StartTask, Goto
  <2>3. \A b \in Buffers : Filled(b)' => Filled(b)
    BY <2>1, <2>2 DEF Filled, poolVars
  <2>4. QED
    BY <2>1, <2>3, PacketsKept DEF poolVars
<1>8. QED
  BY <1>1, <1>2, <1>3, <1>4, <1>5, <1>6, <1>7 DEF Next, TaskStep, MainStep

(* Zero-copy is safe for every pool, although tasks that were stopped too  *)
(* late keep receiving next to their successors: the buffer a packet is    *)
(* routed from was filled for this packet and not refilled since.          *)
THEOREM EveryPacketRoutedOnce == Spec => []RoutedOnce
<1>1. Init => PacketInv
  BY NamesAssumption, PoolInvInit
     DEF Init, PacketInv, Filled, Arrivals, IsInjective, Range
<1>2. TypeOK /\ PacketInv => RoutedOnce
  BY DEF TypeOK, PacketInv, RoutedOnce, Arrivals, Range
<1>3. QED
  BY <1>1, <1>2, PacketInvNext, TypeOKInit, TypeOKNext, PoolInvInit,
     PoolInvNext, PTL DEF Spec
-----------------------------------------------------------------------------
(* The order of the packets, when stop_io_task_ waits for as long as the   *)
(* task needs: then at most one task lives.                                *)
Increasing(q) == \A i, j \in DOMAIN q : i < j => q[i] < q[j]
Before(A, B)  == \A a \in A, b \in B : a < b

OneLive   == \A t \in Tasks : t # handle => pc[t] = "none"
ByContent == [i \in DOMAIN ready |-> content[ready[i]]]
InMain    == {content[b] : b \in {mainHeld} \ {None}}
Pushing   == {content[held[t]] : t \in {u \in Tasks : pc[u] = "push"}}

(* The pipeline is ordered from the routed packets back to the socket.     *)
OrderInv ==
  /\ Increasing(routed) /\ Increasing(ByContent) /\ Increasing(udp)
  /\ Before(Range(routed),
            InMain \cup Range(ByContent) \cup Pushing \cup Range(udp))
  /\ Before(InMain, Range(ByContent) \cup Pushing \cup Range(udp))
  /\ Before(Range(ByContent), Pushing \cup Range(udp))
  /\ Before(Pushing, Range(udp))

LEMMA IncreasingTail ==
  ASSUME NEW q \in Seq(Nat), Increasing(q), q # <<>>
  PROVE  /\ Increasing(Tail(q)) /\ Head(q) \in Range(q)
         /\ Range(Tail(q)) \subseteq Range(q)
         /\ Before({Head(q)}, Range(Tail(q)))
<1> DEFINE r == Tail(q)
<1>1. /\ Len(q) \in Nat \ {0} /\ DOMAIN q = 1 .. Len(q)
      /\ Head(q) = q[1] /\ DOMAIN r = 1 .. Len(q) - 1
      /\ \A i \in 1 .. Len(q) - 1 : r[i] = q[i + 1]
  OBVIOUS
<1> HIDE DEF r
<1>2. \A i \in DOMAIN r : r[i] = q[i + 1] /\ i + 1 \in DOMAIN q /\ 1 < i + 1
  BY <1>1
<1>3. Increasing(r)
  <2>1. ASSUME NEW i \in DOMAIN r, NEW j \in DOMAIN r, i < j PROVE r[i] < r[j]
    <3>1. i + 1 < j + 1
      BY <1>1, <2>1
    <3>2. QED
      BY <1>2, <3>1 DEF Increasing
  <2>2. QED
    BY <2>1 DEF Increasing
<1>4. 1 \in DOMAIN q /\ Head(q) \in Range(q)
  BY <1>1 DEF Range
<1>5. Range(r) \subseteq Range(q)
  BY <1>2 DEF Range
<1>6. \A i \in DOMAIN r : q[1] < r[i]
  BY <1>2, <1>4 DEF Increasing
<1>7. Before({Head(q)}, Range(r))
  BY <1>1, <1>6 DEF Before, Range
<1>8. QED
  BY <1>3, <1>4, <1>5, <1>7 DEF r

LEMMA IncreasingAppend ==
  ASSUME NEW q \in Seq(Nat), Increasing(q), NEW x \in Nat,
         Before(Range(q), {x})
  PROVE  /\ Increasing(Append(q, x))
         /\ Range(Append(q, x)) = Range(q) \cup {x}
<1>1. /\ Len(q) \in Nat /\ DOMAIN q = 1 .. Len(q)
      /\ DOMAIN Append(q, x) = 1 .. Len(q) + 1
      /\ Append(q, x)[Len(q) + 1] = x
      /\ \A i \in 1 .. Len(q) : Append(q, x)[i] = q[i]
  OBVIOUS
<1>2. QED
  BY <1>1 DEF Increasing, Before, Range

LEMMA OneLiveNext ==
  ASSUME StopMayTimeOut = FALSE
  PROVE  PoolInv /\ OneLive /\ [Next]_vars => OneLive'
<1> SUFFICES ASSUME PoolInv, OneLive, [Next]_vars PROVE OneLive'
  OBVIOUS
<1>1. ASSUME NEW t \in Tasks, TaskStep(t) PROVE OneLive'
  <2>1. /\ pc[t] # "none" /\ UNCHANGED handle
        /\ \A u \in Tasks \ {t} : pc'[u] = pc[u]
    BY <1>1 DEF TaskStep, LoopTop, SignalTcp, UdpReadable, SelectTimeout,
                StopDraining, TakeBuffer, PoolExhausted, Receive,
                NothingReceived, Push, Goto
  <2>2. QED
    BY <2>1 DEF OneLive
<1>2. CASE TaskStopped
  BY <1>2 DEF TaskStopped, OneLive
<1>3. CASE AskFails \/ NoAnswer \/ Answer
  <2>1. StartTask \/ UNCHANGED <<handle, pc>>
    BY <1>3 DEF AskFails, NoAnswer, Answer, StunReturn, FallBack
  <2>2. CASE UNCHANGED <<handle, pc>>
    BY <2>2 DEF OneLive
  <2>3. ASSUME handle = None, NEW t \in Tasks, handle' = t, Goto(t, "top")
        PROVE  OneLive'
    BY <2>3, NamesAssumption DEF Goto, OneLive
  <2>4. QED
    BY <2>1, <2>2, <2>3 DEF StartTask
<1>4. CASE UNCHANGED <<handle, pc>>
  BY <1>4 DEF OneLive
<1>5. QED
  BY <1>1, <1>2, <1>3, <1>4
     DEF Next, MainStep, StunStep, UdpArrives, TcpArrives, CollectPacket,
         RoutePacket, PacketsDone, HandlerDone, StartReadTcp, ReadTcp,
         NatPmpRead, StunBegin, AskSent, AnswerReadable, vars, taskVars

(* Everything on its way is a number.                                      *)
LEMMA StagesTypes ==
  ASSUME PoolInv, TypeOK, PacketInv
  PROVE  /\ arrived \in Nat
         /\ routed \in Seq(Nat) /\ udp \in Seq(Nat) /\ ByContent \in Seq(Nat)
         /\ content \in [Buffers -> Nat]
         /\ Range(routed) \cup Range(udp) \cup Range(ByContent) \cup InMain
              \cup Pushing \subseteq Arrivals
<1>1. /\ arrived \in Nat /\ udp \in Seq(Nat) /\ routed \in Seq(Nat)
      /\ content \in [Buffers -> Nat]
  BY BoundsAssumption DEF TypeOK, Packets
<1>2. /\ Len(ready) \in Nat /\ DOMAIN ready = 1 .. Len(ready)
      /\ \A i \in DOMAIN ready : ready[i] \in Buffers
  OBVIOUS
<1>3. ByContent \in Seq(Nat)
  BY <1>1, <1>2 DEF ByContent
<1>4. Range(ByContent) \subseteq Arrivals
  <2>1. \A i \in DOMAIN ready : Filled(ready[i])
    BY DEF Filled, Range
  <2>2. QED
    BY <1>2, <2>1 DEF PacketInv, ByContent, Range
<1>5. InMain \subseteq Arrivals
  BY DEF InMain, PacketInv, Filled
<1>6. Pushing \subseteq Arrivals
  BY DEF Pushing, PacketInv, Filled
<1>7. QED
  BY <1>1, <1>3, <1>4, <1>5, <1>6 DEF PacketInv

(* Steps that move no packet forward, but may drop the first of the socket.*)
LEMMA OrderKept ==
  ASSUME PoolInv, TypeOK, PacketInv, OrderInv,
         UNCHANGED <<routed, InMain, ByContent>>,
         Pushing' \subseteq Pushing,
         UNCHANGED udp \/ TakesFirst
  PROVE  OrderInv'
<1>1. Increasing(udp') /\ Range(udp') \subseteq Range(udp)
  BY StagesTypes, IncreasingTail DEF OrderInv, TakesFirst
<1>2. QED
  BY <1>1 DEF OrderInv, Before

LEMMA OrderInvNext ==
  ASSUME StopMayTimeOut = FALSE
  PROVE  /\ PoolInv /\ PoolInv' /\ TypeOK /\ PacketInv /\ OneLive /\ OrderInv
         /\ [Next]_vars
         => OrderInv'
<1> SUFFICES ASSUME PoolInv, PoolInv', TypeOK, PacketInv, OneLive, OrderInv,
                    [Next]_vars
             PROVE  OrderInv'
  OBVIOUS
<1>0. /\ arrived \in Nat
      /\ routed \in Seq(Nat) /\ udp \in Seq(Nat) /\ ByContent \in Seq(Nat)
      /\ content \in [Buffers -> Nat]
      /\ Range(routed) \cup Range(udp) \cup Range(ByContent) \cup InMain
           \cup Pushing \subseteq Arrivals
  BY StagesTypes
<1>1. CASE UdpArrives
  <2>1. /\ arrived' \in Nat /\ Before(Arrivals, {arrived'})
        /\ udp' = Append(udp, arrived')
    BY <1>0, <1>1 DEF UdpArrives, Arrivals, Before
  <2>2. /\ Increasing(udp') /\ Range(udp') = Range(udp) \cup {arrived'}
    BY <1>0, <2>1, IncreasingAppend DEF OrderInv, Before
  <2>3. UNCHANGED <<routed, InMain, ByContent, Pushing>>
    BY <1>1 DEF UdpArrives, InMain, ByContent, Pushing, poolVars, taskVars
  <2>4. QED
    BY <1>0, <2>1, <2>2, <2>3 DEF OrderInv, Before
<1>2. ASSUME NEW t \in Tasks, Receive(t) PROVE OrderInv'
  <2>1. /\ held[t] \in Buffers /\ ~Filled(held[t])
    BY <1>2 DEF Receive, OneOwner, Filled
  <2>2. /\ udp # <<>> /\ udp' = Tail(udp)
        /\ content' = [content EXCEPT ![held[t]] = Head(udp)]
        /\ UNCHANGED <<routed, ready, held, mainHeld>>
    BY <1>2 DEF Receive
  <2>3. /\ Increasing(udp') /\ Range(udp') \subseteq Range(udp)
        /\ Head(udp) \in Range(udp) /\ Before({Head(udp)}, Range(udp'))
    BY <1>0, <2>2, IncreasingTail DEF OrderInv
  <2>4. \A b \in Buffers : Filled(b) => content'[b] = content[b]
    BY <1>0, <2>1, <2>2
  <2>5. UNCHANGED <<ByContent, InMain>>
    <3>1. \A i \in DOMAIN ready : ready[i] \in Buffers /\ Filled(ready[i])
      BY DEF Filled, Range
    <3>2. QED
      BY <2>2, <2>4, <3>1 DEF ByContent, InMain, Filled
  <2>6. Pushing' \subseteq {Head(udp)}
    <3>1. \A u \in Tasks : pc'[u] = "push" => u = t
      BY <1>2 DEF Receive, Goto, OneLive
    <3>2. QED
      BY <1>0, <2>1, <2>2, <3>1 DEF Pushing
  <2>7. QED
    BY <2>2, <2>3, <2>5, <2>6 DEF OrderInv, Before
<1>3. ASSUME NEW t \in Tasks, Push(t) PROVE OrderInv'
  <2> DEFINE x == content[held[t]]
  <2>1. /\ held[t] \in Buffers /\ held[t] \notin Range(ready)
        /\ x \in Pushing /\ x \in Nat
    BY <1>0, <1>3 DEF Push, OneOwner, Pushing
  <2>2. /\ ready' = Append(ready, held[t])
        /\ UNCHANGED <<content, udp, routed, mainHeld>>
    BY <1>3, <2>1, PoolSendMissing DEF Push, Send, OneOwner, netVars
  <2>3. ByContent' = Append(ByContent, x)
    BY <1>0, <2>1, <2>2 DEF ByContent
  <2>4. /\ Increasing(ByContent')
        /\ Range(ByContent') = Range(ByContent) \cup {x}
    BY <1>0, <2>1, <2>3, IncreasingAppend DEF OrderInv, Before
  <2>5. Pushing' = {} /\ UNCHANGED InMain
    BY <1>3, <2>2 DEF Push, Goto, OneLive, Pushing, InMain
  <2>6. QED
    BY <2>1, <2>2, <2>4, <2>5 DEF OrderInv, Before
<1>4. CASE CollectPacket
  <2>1. /\ ready # <<>> /\ ready' = Tail(ready) /\ mainHeld' = Head(ready)
        /\ UNCHANGED <<content, udp, routed, held, pc>>
    BY <1>4 DEF CollectPacket, netVars, taskVars
  <2>2. /\ ByContent # <<>> /\ ByContent' = Tail(ByContent)
        /\ Head(ByContent) = content[Head(ready)]
    <3>1. /\ Len(ready) \in Nat \ {0} /\ DOMAIN ready = 1 .. Len(ready)
          /\ Head(ready) = ready[1] /\ DOMAIN ready' = 1 .. Len(ready) - 1
          /\ \A i \in 1 .. Len(ready) - 1 : ready'[i] = ready[i + 1]
      BY <2>1
    <3>2. /\ Len(ByContent) = Len(ready) 
          /\ Head(ByContent) = content[Head(ready)]
          /\ DOMAIN Tail(ByContent) = 1 .. Len(ready) - 1
          /\ \A i \in 1 .. Len(ready) - 1 :
               Tail(ByContent)[i] = ByContent[i + 1]
      BY <1>0, <3>1 DEF ByContent
    <3>3. /\ ByContent' \in [1 .. Len(ready) - 1 -> Nat]
          /\ \A i \in 1 .. Len(ready) - 1 :
               ByContent'[i] = content[ready[i + 1]]
      BY <1>0, <2>1, <3>1 DEF ByContent
    <3>4. ByContent # <<>>
      BY <3>1, <3>2
    <3>5. /\ Tail(ByContent) \in Seq(Nat) /\ ByContent' \in Seq(Nat)
          /\ Len(Tail(ByContent)) = Len(ready) - 1
          /\ Len(ByContent') = Len(ready) - 1
          /\ \A i \in 1 .. Len(ready) - 1 : ByContent'[i] = Tail(ByContent)[i]
      BY <1>0, <3>1, <3>2, <3>3, <3>4 DEF ByContent
    <3>6. ByContent' = Tail(ByContent)
      BY <3>5, SeqEqual
    <3>7. QED
      BY <3>2, <3>4, <3>6
  <2>3. /\ Increasing(ByContent') /\ Range(ByContent') \subseteq Range(ByContent)
        /\ Head(ByContent) \in Range(ByContent)
        /\ Before({Head(ByContent)}, Range(ByContent'))
    BY <1>0, <2>2, IncreasingTail DEF OrderInv
  <2>4. InMain' \subseteq {Head(ByContent)} /\ UNCHANGED Pushing
    BY <2>1, <2>2 DEF InMain, Pushing
  <2>5. QED
    BY <2>1, <2>3, <2>4 DEF OrderInv, Before
<1>5. CASE RoutePacket
  <2>1. /\ mainHeld \in Buffers /\ content[mainHeld] \in InMain
        /\ content[mainHeld] \in Nat
        /\ routed' = Append(routed, content[mainHeld]) /\ mainHeld' = None
        /\ UNCHANGED <<content, udp, ready, held, pc>>
    BY <1>0, <1>5, NamesAssumption DEF RoutePacket, InMain, taskVars
  <2>2. /\ Increasing(routed')
        /\ Range(routed') = Range(routed) \cup {content[mainHeld]}
    BY <1>0, <2>1, IncreasingAppend DEF OrderInv, Before
  <2>3. InMain' = {} /\ UNCHANGED <<ByContent, Pushing>>
    BY <2>1 DEF InMain, ByContent, Pushing
  <2>4. QED
    BY <2>1, <2>2, <2>3 DEF OrderInv, Before
<1>6. ASSUME NEW t \in Tasks,
             \/ LoopTop(t) \/ SignalTcp(t) \/ UdpReadable(t)
             \/ SelectTimeout(t) \/ StopDraining(t) \/ TakeBuffer(t)
             \/ PoolExhausted(t) \/ NothingReceived(t)
      PROVE  OrderInv'
  <2>1. /\ UNCHANGED <<content, ready, mainHeld>>
        /\ \A u \in Tasks :
             pc'[u] = "push" => pc[u] = "push" /\ held'[u] = held[u]
    BY <1>6 DEF LoopTop, SignalTcp, UdpReadable, SelectTimeout,
                StopDraining, TakeBuffer, PoolExhausted, NothingReceived,
                Goto, poolVars
  <2>2. Pushing' \subseteq Pushing /\ UNCHANGED <<InMain, ByContent>>
    BY <2>1 DEF Pushing, InMain, ByContent
  <2>3. UNCHANGED routed /\ (UNCHANGED udp \/ TakesFirst)
    BY <1>6 DEF LoopTop, SignalTcp, UdpReadable, SelectTimeout, StopDraining,
                TakeBuffer, PoolExhausted, NothingReceived, TakesFirst,
                netVars
  <2>4. QED
    BY <2>2, <2>3, OrderKept
<1>7. CASE \/ TcpArrives \/ UNCHANGED vars \/ PacketsDone \/ HandlerDone
           \/ StartReadTcp \/ ReadTcp \/ NatPmpRead \/ StunBegin
           \/ StunStep
  <2>1. /\ UNCHANGED poolVars /\ UNCHANGED routed
        /\ UNCHANGED udp \/ TakesFirst
        /\ UNCHANGED pc \/ StartTask
    BY <1>7 DEF TcpArrives, vars, PacketsDone, HandlerDone, StartReadTcp,
                ReadTcp, NatPmpRead, StunBegin, StunStep, TaskStopped,
                AskFails, AskSent, NoAnswer, AnswerReadable, Answer,
                StunReturn, FallBack, TakesFirst, netVars, taskVars
  <2>2. \A t \in Tasks : pc'[t] = "push" => pc[t] = "push"
    BY <2>1 DEF StartTask, Goto
  <2>3. Pushing' \subseteq Pushing /\ UNCHANGED <<InMain, ByContent>>
    BY <2>1, <2>2 DEF Pushing, InMain, ByContent, poolVars
  <2>4. QED
    BY <2>1, <2>3, OrderKept
<1>8. QED
  BY <1>1, <1>2, <1>3, <1>4, <1>5, <1>6, <1>7 DEF Next, TaskStep, MainStep

(* The packets are routed in the order they arrived, through every STUN    *)
(* query, as long as no late task outlives its successor's start.          *)
THEOREM RoutedAsArrived ==
  ASSUME StopMayTimeOut = FALSE
  PROVE  Spec => []RoutedInOrder
<1>1. Init => OneLive /\ PacketInv /\ OrderInv
  BY NamesAssumption, PoolInvInit
     DEF Init, OneLive, OrderInv, PacketInv, Filled, Arrivals, IsInjective,
         Increasing, Before, ByContent, InMain, Pushing, Range
<1>2. OrderInv => RoutedInOrder
  BY DEF OrderInv, Increasing, RoutedInOrder
<1>3. PoolInv /\ OneLive /\ [Next]_vars => OneLive'
  BY OneLiveNext
<1>4. /\ PoolInv /\ PoolInv' /\ TypeOK /\ PacketInv /\ OneLive /\ OrderInv
      /\ [Next]_vars
      => OrderInv'
  BY OrderInvNext
<1>5. QED
  BY <1>1, <1>2, <1>3, <1>4, PacketInvNext, TypeOKInit, TypeOKNext,
     PoolInvInit, PoolInvNext, PTL DEF Spec
-----------------------------------------------------------------------------
(* The pool implements BufferPool.  Its owner function is computed from    *)
(* where a buffer is; OneOwner makes that place the only one.              *)
Owner == [b \in Buffers |-> OwnerOf(b)]

OwnerIsPlace ==
  \A b \in Buffers :
    /\ Owner[b] = "free" <=> b \in Range(free)
    /\ Owner[b] = "ready" <=> b \in Range(ready)
    /\ Owner[b] = "main" <=> b = mainHeld
    /\ \A t \in Tasks : Owner[b] = t <=> held[t] = b
    /\ Owner[b] \in {"free", "ready", "main"} \cup Tasks

LEMMA PlaceOfOwner == PoolInv => OwnerIsPlace
<1> SUFFICES ASSUME PoolInv, NEW b \in Buffers
             PROVE  /\ OwnerOf(b) = "free" <=> b \in Range(free)
                    /\ OwnerOf(b) = "ready" <=> b \in Range(ready)
                    /\ OwnerOf(b) = "main" <=> b = mainHeld
                    /\ \A t \in Tasks : OwnerOf(b) = t <=> held[t] = b
                    /\ OwnerOf(b) \in {"free", "ready", "main"} \cup Tasks
  BY DEF OwnerIsPlace, Owner
<1>1. /\ "free" \notin Tasks /\ "ready" \notin Tasks /\ "main" \notin Tasks
      /\ "free" # "ready" /\ "free" # "main" /\ "ready" # "main"
      /\ None # b
  BY NamesAssumption
<1>2. CASE b \in Range(free)
  BY <1>1, <1>2 DEF OneOwner, OwnerOf
<1>3. CASE b \in Range(ready)
  BY <1>1, <1>3 DEF OneOwner, OwnerOf
<1>4. CASE b = mainHeld
  BY <1>1, <1>4 DEF OneOwner, OwnerOf
<1>5. ASSUME NEW t \in Tasks, held[t] = b
      PROVE  /\ OwnerOf(b) = t
             /\ b \notin Range(free) \cup Range(ready) /\ b # mainHeld
             /\ \A u \in Tasks : held[u] = b => u = t
  <2>1. /\ b \notin Range(free) /\ b \notin Range(ready) /\ b # mainHeld
        /\ \A u \in Tasks : held[u] = b => u = t
    BY <1>1, <1>5 DEF OneOwner
  <2>2. (CHOOSE u \in Tasks : held[u] = b) = t
    BY <1>5, <2>1
  <2>3. QED
    BY <1>5, <2>1, <2>2 DEF OwnerOf
<1>6. CASE \E t \in Tasks : held[t] = b
  BY <1>1, <1>5, <1>6
<1>7. QED
  BY <1>2, <1>3, <1>4, <1>6 DEF OneOwner

(* One function differs from another in the place of b only.               *)
LEMMA OwnerMoves ==
  ASSUME NEW b \in Buffers, NEW to,
         Owner'[b] = to,
         \A c \in Buffers \ {b} : Owner'[c] = Owner[c]
  PROVE  Owner' = [Owner EXCEPT ![b] = to]
BY DEF Owner

(* A buffer that stays where it is keeps its owner.                        *)
LEMMA OwnerStays ==
  ASSUME OwnerIsPlace, OwnerIsPlace', NEW c \in Buffers,
         c \in Range(free') <=> c \in Range(free),
         c \in Range(ready') <=> c \in Range(ready),
         c = mainHeld' <=> c = mainHeld,
         \A t \in Tasks : held'[t] = c <=> held[t] = c
  PROVE  Owner'[c] = Owner[c]
BY DEF OwnerIsPlace

(* Every step of the task and of the main loop hands over one buffer along *)
(* the cycle of BufferPool, or none.                                       *)
LEMMA PoolStep ==
  PoolInv /\ PoolInv' /\ [Next]_vars => [Pool!Next]_Owner
<1> SUFFICES ASSUME PoolInv, PoolInv', [Next]_vars PROVE [Pool!Next]_Owner
  OBVIOUS
<1> USE DEF Pool!Take, Pool!GiveBack, Pool!Publish, Pool!Collect,
            Pool!Pass, Pool!EmptyHanded
<1>1. OwnerIsPlace /\ OwnerIsPlace'
  <2>1. OwnerIsPlace
    BY PlaceOfOwner
  <2>2. OwnerIsPlace'
    BY PlaceOfOwner, PTL
  <2>3. QED
    BY <2>1, <2>2
<1>2. ASSUME NEW t \in Tasks, TakeBuffer(t) PROVE Pool!Next
  <2> DEFINE b == Head(free)
  <2>1. /\ b \in Buffers /\ b \in Range(free)
        /\ Range(free') = Range(free) \ {b}
    BY <1>2, HeadAndTail DEF TakeBuffer, OneOwner
  <2>2. /\ held[t] = None /\ held' = [held EXCEPT ![t] = b]
        /\ UNCHANGED <<ready, mainHeld>>
    BY <1>2 DEF TakeBuffer
  <2>3. Owner[b] = "free" /\ Owner'[b] = t
    BY <1>1, <2>1, <2>2 DEF OwnerIsPlace
  <2>4. \A c \in Buffers : Owner[c] # t
    BY <1>1, <2>2, NamesAssumption DEF OwnerIsPlace
  <2>5. \A c \in Buffers \ {b} : Owner'[c] = Owner[c]
    BY <1>1, <2>1, <2>2, NamesAssumption, OwnerStays
  <2>6. Pool!Take(b, t)
    BY <2>1, <2>3, <2>4, <2>5, OwnerMoves DEF Owner
  <2>7. QED
    BY <2>1, <2>6 DEF Pool!Next
<1>3. ASSUME NEW t \in Tasks, NothingReceived(t) PROVE Pool!Next
  <2> DEFINE b == held[t]
  <2>1. b \in Buffers /\ b \notin Range(free)
    BY <1>3 DEF NothingReceived, OneOwner
  <2>2. /\ Range(free') = Range(free) \cup {b}
        /\ held' = [held EXCEPT ![t] = None]
        /\ UNCHANGED <<ready, mainHeld>>
    BY <1>3, <2>1, PoolSendMissing DEF NothingReceived, OneOwner
  <2>3. Owner[b] = t /\ Owner'[b] = "free"
    BY <1>1, <2>1, <2>2 DEF OwnerIsPlace
  <2>4. \A c \in Buffers \ {b} : Owner'[c] = Owner[c]
    BY <1>1, <2>1, <2>2, NamesAssumption, OwnerStays
  <2>5. Pool!GiveBack(b, t)
    BY <2>1, <2>3, <2>4, OwnerMoves DEF Owner
  <2>6. QED
    BY <2>1, <2>5 DEF Pool!Next
<1>4. ASSUME NEW t \in Tasks, Push(t) PROVE Pool!Next
  <2> DEFINE b == held[t]
  <2>1. b \in Buffers /\ b \notin Range(ready)
    BY <1>4 DEF Push, OneOwner
  <2>2. /\ Range(ready') = Range(ready) \cup {b}
        /\ held' = [held EXCEPT ![t] = None]
        /\ UNCHANGED <<free, mainHeld>>
    BY <1>4, <2>1, PoolSendMissing DEF Push, OneOwner
  <2>3. Owner[b] = t /\ Owner'[b] = "ready"
    BY <1>1, <2>1, <2>2 DEF OwnerIsPlace
  <2>4. \A c \in Buffers \ {b} : Owner'[c] = Owner[c]
    BY <1>1, <2>1, <2>2, NamesAssumption, OwnerStays
  <2>5. Pool!Publish(b, t)
    BY <2>1, <2>3, <2>4, OwnerMoves DEF Owner
  <2>6. QED
    BY <2>1, <2>5 DEF Pool!Next
<1>5. ASSUME CollectPacket PROVE Pool!Next
  <2> DEFINE b == Head(ready)
  <2>1. /\ b \in Buffers /\ b \in Range(ready)
        /\ Range(ready') = Range(ready) \ {b}
    BY <1>5, HeadAndTail DEF CollectPacket, OneOwner
  <2>2. /\ mainHeld = None /\ mainHeld' = b
        /\ UNCHANGED <<free, held>>
    BY <1>5 DEF CollectPacket
  <2>3. Owner[b] = "ready" /\ Owner'[b] = "main"
    BY <1>1, <2>1, <2>2 DEF OwnerIsPlace
  <2>4. \A c \in Buffers : Owner[c] # "main"
    BY <1>1, <2>2, NamesAssumption DEF OwnerIsPlace
  <2>5. \A c \in Buffers \ {b} : Owner'[c] = Owner[c]
    BY <1>1, <2>1, <2>2, NamesAssumption, OwnerStays
  <2>6. Pool!Collect(b, "main")
    BY <2>1, <2>3, <2>4, <2>5, OwnerMoves DEF Owner
  <2>7. QED
    BY <2>1, <2>6 DEF Pool!Next
<1>6. ASSUME RoutePacket PROVE Pool!Next
  <2> DEFINE b == mainHeld
  <2>1. b \in Buffers /\ b \notin Range(free)
    BY <1>6 DEF RoutePacket, OneOwner
  <2>2. /\ Range(free') = Range(free) \cup {b}
        /\ mainHeld' = None
        /\ UNCHANGED <<ready, held>>
    BY <1>6, <2>1, PoolSendMissing DEF RoutePacket, OneOwner
  <2>3. Owner[b] = "main" /\ Owner'[b] = "free"
    BY <1>1, <2>1, <2>2 DEF OwnerIsPlace
  <2>4. \A c \in Buffers \ {b} : Owner'[c] = Owner[c]
    BY <1>1, <2>1, <2>2, NamesAssumption, OwnerStays
  <2>5. Pool!GiveBack(b, "main")
    BY <2>1, <2>3, <2>4, OwnerMoves DEF Owner
  <2>6. QED
    BY <2>1, <2>5 DEF Pool!Next
<1>7. CASE UNCHANGED <<free, ready, held, mainHeld>>
  BY <1>7 DEF Owner, OwnerOf
<1>8. QED
  BY <1>2, <1>3, <1>4, <1>5, <1>6, <1>7
     DEF Next, TaskStep, MainStep, StunStep, vars, poolVars, UdpArrives,
         TcpArrives, LoopTop, SignalTcp, UdpReadable, SelectTimeout,
         StopDraining, PoolExhausted, Receive, PacketsDone, HandlerDone,
         StartReadTcp, ReadTcp, NatPmpRead, StunBegin, TaskStopped, AskFails,
         AskSent, NoAnswer, AnswerReadable, Answer

(* The two queues, the tasks and the main loop implement the abstract pool *)
(* of buffers, each with one owner that changes only along the cycle.      *)
THEOREM ImplementsBufferPool == Spec => PoolSpec
<1>1. Init => Pool!Init
  <2> SUFFICES ASSUME Init, NEW b \in Buffers PROVE OwnerOf(b) = "free"
    BY DEF Pool!Init
  <2>1. Range(free) = Buffers
    <3>1. Len(free) = Cardinality(Buffers) /\ free \in Seq(Buffers)
      BY FS_CardinalityType, PoolAssumption DEF Init
    <3>2. QED
      BY <3>1, FullHasAll, PoolAssumption DEF Init
  <2>2. QED
    BY <2>1 DEF OwnerOf
<1>2. QED
  BY <1>1, PoolStep, PoolInvInit, PoolInvNext, PTL
     DEF Spec, PoolSpec, Pool!Spec, Owner
=============================================================================
