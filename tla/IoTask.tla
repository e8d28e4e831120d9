------------------------------- MODULE IoTask -------------------------------
(***************************************************************************)
(* The IO task of the Tailscale component and the packet pool it shares    *)
(* with the main loop (tailscale.cpp, "Zero-Copy IO").                     *)
(*                                                                         *)
(* The IO task blocks in select() on the UDP sockets and on the TCP socket *)
(* of the control plane.  It moves UDP packets through a pool of buffers:  *)
(* it takes a buffer from free_buffer_queue_, receives into it and pushes  *)
(* it to ready_packet_queue_; the main loop routes the packet and returns  *)
(* the buffer.  For TCP it only raises control_plane_data_available_ and   *)
(* stops watching (monitor_tcp_) until the main loop has read.             *)
(*                                                                         *)
(* A STUN query reads the same UDP socket, so it stops the task and starts *)
(* a new one afterwards.  stop_io_task_ waits one second for the old task  *)
(* and then forgets it; since both share io_task_running_, a task that is  *)
(* late sees the flag its successor set and lives on.  Tasks is the set of *)
(* task incarnations that may exist at once.                               *)
(*                                                                         *)
(* The two sockets the task drains in turn are one queue, udp.  The steps  *)
(* of the tasks and of the main loop interleave freely, except that the    *)
(* two flag writes of SignalTcp are one step: the task is pinned to the    *)
(* core of the main loop and has the higher priority (line 2566), so the   *)
(* main loop does not run between them.                                    *)
(***************************************************************************)
EXTENDS BoundedQueue

CONSTANTS
  Buffers,        \* the packet buffers that could be allocated
  PoolSize,       \* PACKET_POOL_SIZE, the capacity of both queues
  Tasks,          \* the task incarnations
  MaxPerLoop,     \* MAX_PACKETS_PER_LOOP
  MaxPackets,     \* bound: packets the network delivers
  StopMayTimeOut, \* whether stop_io_task_ may give up on a late task
  CreateMayFail,  \* whether xTaskCreatePinnedToCore may fail
  None            \* no buffer, no task

ASSUME PoolAssumption ==
  /\ IsFiniteSet(Buffers)
  /\ PoolSize \in Nat
  /\ Cardinality(Buffers) <= PoolSize
ASSUME BoundsAssumption ==
  /\ MaxPerLoop \in Nat \ {0}
  /\ MaxPackets \in Nat
  /\ StopMayTimeOut \in BOOLEAN
  /\ CreateMayFail \in BOOLEAN
ASSUME NamesAssumption ==
  /\ None \notin Buffers \cup Tasks
  /\ {"free", "ready", "main"} \cap Tasks = {}

VARIABLES
  free,      \* free_buffer_queue_
  ready,     \* ready_packet_queue_
  content,   \* the packet in each buffer, 0 if it was never filled
  udp,       \* packets waiting in the UDP socket
  arrived,   \* how many packets the network has delivered to the socket
  routed,    \* the packets handed to route_incoming_packet_, in order
  running,   \* io_task_running_
  handle,    \* io_task_handle_
  pc,        \* where each task is
  held,      \* the buffer each task holds
  watch,     \* whether the task's select() includes the TCP socket
  tcp,       \* whether the TCP socket has unread data
  available, \* control_plane_data_available_
  monitor,   \* monitor_tcp_
  main,      \* where the main loop is
  mainHeld,  \* the buffer process_packet_queue_ holds
  count,     \* processed_count
  restart,   \* task_was_running of perform_stun_query_
  server     \* the STUN server asked: "derp", "google", or the fallback

poolVars == <<free, ready, content, held, mainHeld>>
netVars  == <<udp, arrived, routed>>
taskVars == <<running, handle, pc, watch>>
tcpVars  == <<tcp, available, monitor>>
stunVars == <<restart, server>>
mainVars == <<main, count>>
vars == <<poolVars, netVars, taskVars, tcpVars, stunVars, mainVars>>

TaskStates == {"none", "top", "select", "drain", "receive", "push"}
MainStates == {"packets", "route", "handler", "readTcp",
               "stopTask", "ask", "await", "answer"}
Servers    == {"derp", "google", "fallback"}

-----------------------------------------------------------------------------
(* setup_unified_socket_ has filled free_buffer_queue_ with the buffers it *)
(* could allocate and start_io_task_ has created the task, or failed to.   *)
Init ==
  /\ free \in {s \in [1 .. Cardinality(Buffers) -> Buffers] : IsInjective(s)}
  /\ ready = <<>>
  /\ content = [b \in Buffers |-> 0]
  /\ udp = <<>> /\ arrived = 0 /\ routed = <<>>
  /\ handle \in Tasks \cup {None}
  /\ handle = None => CreateMayFail
  /\ running = (handle # None)
  /\ pc = [t \in Tasks |-> IF t = handle THEN "top" ELSE "none"]
  /\ held = [t \in Tasks |-> None]
  /\ watch = [t \in Tasks |-> FALSE]
  /\ tcp = FALSE /\ available = FALSE /\ monitor = TRUE
  /\ main = "packets" /\ mainHeld = None /\ count = 0
  /\ restart = FALSE /\ server = "google"
-----------------------------------------------------------------------------
(* The network.                                                            *)
UdpArrives ==
  /\ arrived < MaxPackets
  /\ arrived' = arrived + 1
  /\ udp' = Append(udp, arrived')
  /\ UNCHANGED <<poolVars, routed, taskVars, tcpVars, stunVars, mainVars>>

TcpArrives ==
  /\ tcp' = TRUE
  /\ UNCHANGED <<poolVars, netVars, taskVars, available, monitor, stunVars,
                 mainVars>>
-----------------------------------------------------------------------------
(* The IO task, io_task_func_.                                             *)
Goto(t, l) == pc' = [pc EXCEPT ![t] = l]

(* The outer loop: build readfds and block in select(), or leave.          *)
LoopTop(t) ==
  /\ pc[t] = "top"
  /\ Goto(t, IF running THEN "select" ELSE "none")
  /\ watch' = [watch EXCEPT ![t] = running /\ monitor]
  /\ UNCHANGED <<poolVars, netVars, running, handle, tcpVars, stunVars,
                 mainVars>>

(* Mutant: the task stops watching without raising the flag.               *)
SignalTcp_NoFlag(t) ==
  /\ pc[t] = "select"
  /\ watch[t] /\ tcp
  /\ monitor' = FALSE
  /\ Goto(t, IF udp # <<>> THEN "drain" ELSE "top")
  /\ UNCHANGED <<poolVars, netVars, running, handle, watch, tcp, available,
                 stunVars, mainVars>>

(* select() returns with the UDP socket, the TCP socket or both.           *)
SignalTcp(t) ==
  /\ pc[t] = "select"
  /\ watch[t] /\ tcp
  /\ available' = TRUE
  /\ monitor' = FALSE
  /\ Goto(t, IF udp # <<>> THEN "drain" ELSE "top")
  /\ UNCHANGED <<poolVars, netVars, running, handle, watch, tcp, stunVars,
                 mainVars>>

UdpReadable(t) ==
  /\ pc[t] = "select"
  /\ ~(watch[t] /\ tcp)
  /\ udp # <<>>
  /\ Goto(t, "drain")
  /\ UNCHANGED <<poolVars, netVars, running, handle, watch, tcpVars,
                 stunVars, mainVars>>

SelectTimeout(t) ==
  /\ pc[t] = "select"
  /\ ~(watch[t] /\ tcp)
  /\ udp = <<>>
  /\ Goto(t, "top")
  /\ UNCHANGED <<poolVars, netVars, running, handle, watch, tcpVars,
                 stunVars, mainVars>>

(* The inner loop, once per packet while the task should run.              *)
StopDraining(t) ==
  /\ pc[t] = "drain"
  /\ ~running
  /\ Goto(t, "top")
  /\ UNCHANGED <<poolVars, netVars, running, handle, watch, tcpVars,
                 stunVars, mainVars>>

TakeBuffer(t) ==
  /\ pc[t] = "drain"
  /\ running
  /\ free # <<>>
  /\ held' = [held EXCEPT ![t] = Head(free)]
  /\ free' = Tail(free)
  /\ Goto(t, "receive")
  /\ UNCHANGED <<ready, content, mainHeld, netVars, running, handle, watch,
                 tcpVars, stunVars, mainVars>>

(* No buffer left: one packet is read into a dummy and dropped.            *)
PoolExhausted(t) ==
  /\ pc[t] = "drain"
  /\ running
  /\ free = <<>>
  /\ udp' = IF udp = <<>> THEN udp ELSE Tail(udp)
  /\ Goto(t, "top")
  /\ UNCHANGED <<poolVars, arrived, routed, running, handle, watch, tcpVars,
                 stunVars, mainVars>>

Receive(t) ==
  /\ pc[t] = "receive"
  /\ udp # <<>>
  /\ content' = [content EXCEPT ![held[t]] = Head(udp)]
  /\ udp' = Tail(udp)
  /\ Goto(t, "push")
  /\ UNCHANGED <<free, ready, held, mainHeld, arrived, routed, running,
                 handle, watch, tcpVars, stunVars, mainVars>>

(* Mutants: the buffer is returned but kept, or let go but not returned.   *)
NothingReceived_Kept(t) ==
  /\ pc[t] = "receive"
  /\ udp = <<>>
  /\ free' = Send(free, PoolSize, held[t])
  /\ Goto(t, "top")
  /\ UNCHANGED <<ready, content, held, mainHeld, netVars, running, handle,
                 watch, tcpVars, stunVars, mainVars>>

NothingReceived_Leak(t) ==
  /\ pc[t] = "receive"
  /\ udp = <<>>
  /\ held' = [held EXCEPT ![t] = None]
  /\ Goto(t, "top")
  /\ UNCHANGED <<free, ready, content, mainHeld, netVars, running, handle,
                 watch, tcpVars, stunVars, mainVars>>

NothingReceived(t) ==
  /\ pc[t] = "receive"
  /\ udp = <<>>
  /\ free' = Send(free, PoolSize, held[t])
  /\ held' = [held EXCEPT ![t] = None]
  /\ Goto(t, "top")
  /\ UNCHANGED <<ready, content, mainHeld, netVars, running, handle, watch,
                 tcpVars, stunVars, mainVars>>

(* Mutant: the newest packet goes to the front of the queue.               *)
Push_Front(t) ==
  /\ pc[t] = "push"
  /\ ready' = <<held[t]>> \o ready
  /\ held' = [held EXCEPT ![t] = None]
  /\ Goto(t, "drain")
  /\ UNCHANGED <<free, content, mainHeld, netVars, running, handle, watch,
                 tcpVars, stunVars, mainVars>>

Push(t) ==
  /\ pc[t] = "push"
  /\ ready' = Send(ready, PoolSize, held[t])
  /\ free' = IF Full(ready, PoolSize) THEN Send(free, PoolSize, held[t])
                                     ELSE free
  /\ held' = [held EXCEPT ![t] = None]
  /\ Goto(t, "drain")
  /\ UNCHANGED <<content, mainHeld, netVars, running, handle, watch, tcpVars,
                 stunVars, mainVars>>

TaskStep(t) ==
  \/ LoopTop(t) \/ SignalTcp(t) \/ UdpReadable(t) \/ SelectTimeout(t)
  \/ StopDraining(t) \/ TakeBuffer(t) \/ PoolExhausted(t)
  \/ Receive(t) \/ NothingReceived(t) \/ Push(t)
-----------------------------------------------------------------------------
(* The main loop: process_packet_queue_, then the state handler.           *)
(* Mutants: one packet too many, the packet is left in the queue, or its   *)
(* buffer is given back before it is routed.                               *)
CollectPacket_OneMore ==
  /\ main = "packets"
  /\ count <= MaxPerLoop
  /\ ready # <<>>
  /\ mainHeld' = Head(ready)
  /\ ready' = Tail(ready)
  /\ count' = count + 1
  /\ main' = "route"
  /\ UNCHANGED <<free, content, held, netVars, taskVars, tcpVars, stunVars>>

CollectPacket_Peek ==
  /\ main = "packets"
  /\ count < MaxPerLoop
  /\ ready # <<>>
  /\ mainHeld' = Head(ready)
  /\ count' = count + 1
  /\ main' = "route"
  /\ UNCHANGED <<free, ready, content, held, netVars, taskVars, tcpVars,
                 stunVars>>

CollectPacket_Early ==
  /\ main = "packets"
  /\ count < MaxPerLoop
  /\ ready # <<>>
  /\ mainHeld' = Head(ready)
  /\ ready' = Tail(ready)
  /\ free' = Send(free, PoolSize, Head(ready))
  /\ count' = count + 1
  /\ main' = "route"
  /\ UNCHANGED <<content, held, netVars, taskVars, tcpVars, stunVars>>

CollectPacket ==
  /\ main = "packets"
  /\ count < MaxPerLoop
  /\ ready # <<>>
  /\ mainHeld' = Head(ready)
  /\ ready' = Tail(ready)
  /\ count' = count + 1
  /\ main' = "route"
  /\ UNCHANGED <<free, content, held, netVars, taskVars, tcpVars, stunVars>>

RoutePacket ==
  /\ main = "route"
  /\ routed' = Append(routed, content[mainHeld])
  /\ free' = Send(free, PoolSize, mainHeld)
  /\ mainHeld' = None
  /\ main' = "packets"
  /\ UNCHANGED <<ready, content, held, udp, arrived, taskVars, tcpVars,
                 stunVars, count>>

(* Mutant: the budget of the loop is never renewed.                        *)
PacketsDone_NoReset ==
  /\ main = "packets"
  /\ count = MaxPerLoop \/ ready = <<>>
  /\ main' = "handler"
  /\ UNCHANGED <<poolVars, netVars, taskVars, tcpVars, stunVars, count>>

PacketsDone ==
  /\ main = "packets"
  /\ count = MaxPerLoop \/ ready = <<>>
  /\ count' = 0
  /\ main' = "handler"
  /\ UNCHANGED <<poolVars, netVars, taskVars, tcpVars, stunVars>>

(* The state handler has nothing more to do for these sockets.             *)
HandlerDone ==
  /\ main = "handler"
  /\ main' = "packets"
  /\ UNCHANGED <<poolVars, netVars, taskVars, tcpVars, stunVars, count>>

(* check_server_keepalive_ once the transport is ready: clear the flag,    *)
(* read, and only then let the task watch the socket again.                *)
StartReadTcp ==
  /\ main = "handler"
  /\ available
  /\ available' = FALSE
  /\ main' = "readTcp"
  /\ UNCHANGED <<poolVars, netVars, taskVars, tcp, monitor, stunVars, count>>

(* Mutant: the task is not told to watch the socket again.                 *)
ReadTcp_Unwatched ==
  /\ main = "readTcp"
  /\ tcp' \in {FALSE, tcp}
  /\ main' = "packets"
  /\ UNCHANGED <<poolVars, netVars, taskVars, available, monitor, stunVars,
                 count>>

ReadTcp ==
  /\ main = "readTcp"
  /\ tcp' \in {FALSE, tcp}
  /\ monitor' = TRUE
  /\ main' = "packets"
  /\ UNCHANGED <<poolVars, netVars, taskVars, available, stunVars, count>>

(* check_natpmp_response_ receives from the UDP socket while the task runs *)
(* and keeps what it gets.                                                 *)
NatPmpRead ==
  /\ main = "handler"
  /\ udp # <<>>
  /\ udp' = Tail(udp)
  /\ main' = "packets"
  /\ UNCHANGED <<poolVars, arrived, routed, taskVars, tcpVars, stunVars,
                 count>>
-----------------------------------------------------------------------------
(* start_io_task_: xTaskCreate succeeds with a fresh task or fails.        *)
StartTask ==
  IF handle # None
  THEN UNCHANGED <<running, handle, pc>>
  ELSE \/ \E t \in Tasks :
            /\ pc[t] = "none"
            /\ running' = TRUE
            /\ handle' = t
            /\ Goto(t, "top")
       \/ CreateMayFail /\ running' = FALSE /\ UNCHANGED <<handle, pc>>

(* perform_stun_query_.  stop_io_task_ clears the flag and waits.          *)
StunBegin ==
  /\ main = "handler"
  /\ restart' = running
  /\ server' \in {"derp", "google"}
  /\ main' = IF running /\ handle # None THEN "stopTask" ELSE "ask"
  /\ running' = (running /\ handle = None)
  /\ UNCHANGED <<poolVars, netVars, handle, pc, watch, tcpVars, count>>

TaskStopped ==
  /\ main = "stopTask"
  /\ pc[handle] = "none" \/ StopMayTimeOut
  /\ handle' = None
  /\ main' = "ask"
  /\ UNCHANGED <<poolVars, netVars, running, pc, watch, tcpVars, stunVars,
                 count>>

(* The query returns, with or without having started the task again.       *)
StunReturn(startsTask) ==
  /\ main' = "packets"
  /\ IF startsTask THEN StartTask ELSE UNCHANGED <<running, handle, pc>>
  /\ UNCHANGED <<restart, server>>

(* The query goes on with stun.l.google.com after the DERP server failed.  *)
FallBack ==
  /\ server = "derp"
  /\ server' = "fallback"
  /\ main' = "ask"
  /\ UNCHANGED <<running, handle, pc, restart>>

(* Resolving the name or sending the request fails.  Only the fallback     *)
(* request's error paths start the task again.                             *)
AskFails ==
  /\ main = "ask"
  /\ StunReturn(restart /\ server = "fallback")
  /\ UNCHANGED <<poolVars, netVars, watch, tcpVars, count>>

AskSent ==
  /\ main = "ask"
  /\ main' = "await"
  /\ UNCHANGED <<poolVars, netVars, taskVars, tcpVars, stunVars, count>>

NoAnswer ==
  /\ main = "await"
  /\ FallBack \/ (server # "derp" /\ StunReturn(restart))
  /\ UNCHANGED <<poolVars, netVars, watch, tcpVars, count>>

AnswerReadable ==
  /\ main = "await"
  /\ udp # <<>>
  /\ main' = "answer"
  /\ UNCHANGED <<poolVars, netVars, taskVars, tcpVars, stunVars, count>>

(* recvfrom takes whatever packet is first: a binding response, something  *)
(* too short to be one (or nothing, if another reader was faster), or any  *)
(* other packet.                                                           *)
Answer ==
  /\ main = "answer"
  /\ udp' = IF udp = <<>> THEN udp ELSE Tail(udp)
  /\ \/ StunReturn(restart)
     \/ udp # <<>> /\ FallBack
     \/ udp # <<>> /\ server # "derp" /\ StunReturn(FALSE)
  /\ UNCHANGED <<poolVars, arrived, routed, watch, tcpVars, count>>

StunStep ==
  \/ TaskStopped \/ AskFails \/ AskSent \/ NoAnswer \/ AnswerReadable
  \/ Answer

MainStep ==
  \/ CollectPacket \/ RoutePacket \/ PacketsDone \/ HandlerDone
  \/ StartReadTcp \/ ReadTcp \/ NatPmpRead \/ StunBegin \/ StunStep

Next ==
  \/ UdpArrives \/ TcpArrives
  \/ \E t \in Tasks : TaskStep(t)
  \/ MainStep

(* The scheduler runs the main loop and every task that can run.  The main *)
(* loop calls process_packet_queue_ and the handler again and again, but   *)
(* nothing makes the handler choose to read TCP or to query STUN.          *)
Fairness ==
  /\ WF_vars(CollectPacket) /\ WF_vars(RoutePacket) /\ WF_vars(PacketsDone)
  /\ WF_vars(main = "handler" /\ MainStep)
  /\ WF_vars(StunStep)
  /\ WF_vars(ReadTcp)
  /\ \A t \in Tasks : WF_vars(TaskStep(t))

Spec == Init /\ [][Next]_vars
FairSpec == Spec /\ Fairness
-----------------------------------------------------------------------------
Packets == 1 .. MaxPackets

TypeOK ==
  /\ free \in Seq(Buffers) /\ ready \in Seq(Buffers)
  /\ content \in [Buffers -> Packets \cup {0}]
  /\ held \in [Tasks -> Buffers \cup {None}]
  /\ mainHeld \in Buffers \cup {None}
  /\ udp \in Seq(Packets) /\ arrived \in 0 .. MaxPackets
  /\ routed \in Seq(Packets \cup {0})
  /\ running \in BOOLEAN
  /\ handle \in Tasks \cup {None}
  /\ pc \in [Tasks -> TaskStates]
  /\ watch \in [Tasks -> BOOLEAN]
  /\ tcp \in BOOLEAN /\ available \in BOOLEAN /\ monitor \in BOOLEAN
  /\ restart \in BOOLEAN /\ server \in Servers
  /\ main \in MainStates /\ count \in 0 .. MaxPerLoop

(* Who has a buffer, for BufferPool.                                       *)
OwnerOf(b) ==
  IF b \in Range(free) THEN "free"
  ELSE IF b \in Range(ready) THEN "ready"
  ELSE IF b = mainHeld THEN "main"
  ELSE IF \E t \in Tasks : held[t] = b THEN CHOOSE t \in Tasks : held[t] = b
  ELSE None

Pool == INSTANCE BufferPool WITH
          Producers <- Tasks,
          Consumers <- {"main"},
          owner     <- [b \in Buffers |-> OwnerOf(b)]

(* The owner of every buffer moves as BufferPool says, although tasks are  *)
(* stopped, forgotten and replaced while they hold one.                    *)
PoolSpec == Pool!Spec

(* No buffer is lost or in two places: each is in free_buffer_queue_, in   *)
(* ready_packet_queue_ or in the hands of one task or of the main loop.    *)
OneOwner ==
  /\ IsInjective(free) /\ IsInjective(ready)
  /\ \A b \in Buffers :
       /\ ~(b \in Range(free) /\ b \in Range(ready))
       /\ (\E t \in Tasks : held[t] = b) \/ b = mainHeld
            => b \notin Range(free) \cup Range(ready)
  /\ \A t \in Tasks :
       held[t] # None => /\ held[t] # mainHeld
                         /\ \A u \in Tasks \ {t} : held[u] # held[t]
  /\ \A b \in Buffers : \/ b \in Range(free) \cup Range(ready)
                       \/ b = mainHeld \/ \E t \in Tasks : held[t] = b

(* "Should not happen if queues are sized same as pool" (line 2722): the   *)
(* push of a filled buffer never finds ready_packet_queue_ full, nor the   *)
(* return of a buffer free_buffer_queue_, where the buffer would be lost.  *)
QueuesNeverRefuse ==
  /\ \A t \in Tasks : pc[t] = "push" => ~Full(ready, PoolSize)
  /\ (\E t \in Tasks : held[t] # None) \/ mainHeld # None
       => ~Full(free, PoolSize)

(* Zero-copy is safe: the main loop routes no packet twice and no buffer   *)
(* that was never filled, so no task refills a buffer it still reads.      *)
RoutedOnce ==
  /\ IsInjective(routed)
  /\ \A i \in DOMAIN routed : routed[i] \in 1 .. arrived

(* With one task at a time, packets are routed in the order they arrived.  *)
RoutedInOrder ==
  \A i, j \in DOMAIN routed : i < j => routed[i] < routed[j]

(* The task that stopped watching the control connection has left a flag   *)
(* for the main loop, and the main loop that cleared the flag will let it  *)
(* watch again: the TCP socket is never forgotten by both.                 *)
TcpNotForgotten == monitor \/ available \/ main = "readTcp"

(* A packet pushed to ready_packet_queue_ is routed, whatever happens to   *)
(* the IO task and through every STUN query.                               *)
Queued(p) == \E b \in Range(ready) : content[b] = p
QueuedIsRouted == \A p \in Packets : Queued(p) ~> (p \in Range(routed))

(* Unread control-plane data raises the flag, unless the task is stopped.  *)
TcpIsSignalled == tcp ~> (available \/ ~tcp \/ ~running)

(* perform_stun_query_ leaves the IO task running if it found it running:  *)
(* "The task will be recreated with the same queues by start_io_task_()"   *)
(* (line 2601) and "Restart task even on error" (line 4223).               *)
StunReturns == main \in {"ask", "await", "answer"} /\ main' = "packets"
StunRestartsTask == [][StunReturns /\ restart => running']_vars
=============================================================================
