----------------------------- MODULE DerpClient -----------------------------
(***************************************************************************)
(* The relay connection: DerpClient (derp_client.cpp) and the part of      *)
(* handle_connected_state_ (tailscale.cpp) that connects it again.         *)
(*                                                                         *)
(* The server greets with its key, the client sends its client info, the   *)
(* server answers with its info, and from then on it forwards packets.     *)
(* The socket does not block.  A header is read in one attempt, which may  *)
(* return fewer bytes; a payload is read in a loop of at most five         *)
(* seconds, in which the main loop does nothing else.  So a frame is some  *)
(* pieces: two of the header, then its payload.  A payload read as a       *)
(* header gives any frame.                                                 *)
(*                                                                         *)
(* The URL is always https, so the branch of connect for plain TCP is not  *)
(* modelled; nor is a frame of which only a part could be sent.  A tick of *)
(* the clock is five seconds.  From some moment on the network may be      *)
(* calm: no more faults.                                                   *)
(***************************************************************************)
EXTENDS Integers, Sequences, FiniteSetsExt

CONSTANTS
  MaxPackets,  \* bound: packets the server forwards
  MaxWire,     \* bound: pieces on their way
  IdleLimit,   \* IDLE_TIMEOUT_MS, in ticks
  Wrap         \* where the 32-bit clock of millis() wraps, in ticks

ASSUME DerpAssumption ==
  /\ {MaxPackets, MaxWire, IdleLimit} \subseteq Nat \ {0}
  /\ Wrap \in Nat /\ Wrap > 8

VARIABLES
  state,    \* state_, as it is between two calls
  reading,  \* the frame whose payload is being read
  conn,     \* the TCP connection as the network has it
  wire,     \* the pieces sent by the server and not yet read
  server,   \* how far the server is with this connection
  idle,     \* ticks since last_activity_, counted when READY
  now,      \* millis(), looked at when DISCONNECTED
  until,    \* derp_backoff_until
  failures, \* derp_consecutive_failures, no further than it matters
  calm,     \* there will be no more faults
  sent,     \* history: packets the server has forwarded
  handed,   \* history: the packet last given to the callback, 0 for garbage
  cut,      \* history: why the client may be off the frame boundaries
  wrapped   \* history: the clock has wrapped since until was set

link    == <<conn, wire, server>>
retries == <<now, until, failures>>
history == <<sent, handed, cut, wrapped>>
vars == <<state, reading, link, idle, retries, calm, history>>

States == {"DISCONNECTED", "WAIT_SERVER_KEY", "SEND_CLIENT_INFO",
           "WAIT_SERVER_INFO", "READY", "ERROR"}
Handshake == {"WAIT_SERVER_KEY", "SEND_CLIENT_INFO", "WAIT_SERVER_INFO"}

(* "bare" is a frame without payload; "large" one with a payload that its  *)
(* handler leaves unread, as too long or not as long as it should be;      *)
(* "other" any frame that is read and forgotten.                           *)
Kinds == {"SERVER_KEY", "SERVER_INFO", "RECV_PACKET", "bare", "large", "other"}
PayloadPieces(kind) ==
  CASE kind = "bare" -> 0 [] kind = "RECV_PACKET" -> 2 [] OTHER -> 1

Frame(kind, id) ==
  [i \in 1 .. 2 + PayloadPieces(kind) |-> [kind |-> kind, id |-> id, at |-> i]]

Nothing == [kind |-> "none", id |-> 0, left |-> 0]
Busy == reading # Nothing

(* The process() call that reads a header, and its result.                 *)
Reads == ~Busy /\ \/ state \in {"WAIT_SERVER_KEY", "WAIT_SERVER_INFO"}
                  \/ state = "READY" /\ idle <= IdleLimit

(* Mutant: the handler of PEER_PRESENT does not read its payload.          *)
Consumes_NotOther(kind) ==
  CASE state = "WAIT_SERVER_KEY"  -> kind = "SERVER_KEY"
    [] state = "WAIT_SERVER_INFO" -> kind = "SERVER_INFO"
    [] OTHER -> kind \notin {"bare", "large", "other"}

(* The handler reads the payload of a frame it expects and can hold.       *)
Consumes(kind) ==
  CASE state = "WAIT_SERVER_KEY"  -> kind = "SERVER_KEY"
    [] state = "WAIT_SERVER_INFO" -> kind = "SERVER_INFO"
    [] OTHER -> kind \notin {"bare", "large"}

(* 1U shifted by 0, 1, 2 and 3.                                            *)
Doublings == <<1, 2, 4, 8>>

(* Mutant: the shift is bounded, the backoff is not.                       *)
Backoff_Uncapped(n) == Doublings[Min({n, 4})]

(* 5 s, 10 s, 20 s, then 30 s.                                             *)
Backoff(n) == Min({Doublings[Min({n, 4})], 6})
-----------------------------------------------------------------------------
Init ==
  /\ state = "DISCONNECTED" /\ reading = Nothing
  /\ conn = "none" /\ wire = <<>> /\ server = "none"
  /\ idle = 0 /\ now = 0 /\ until = 0 /\ failures = 0
  /\ calm = FALSE
  /\ sent = 0 /\ handed = 0 /\ cut = FALSE /\ wrapped = FALSE

Offline ==
  /\ state' = "DISCONNECTED"
  /\ conn' = "none" /\ wire' = <<>> /\ server' = "none"
  /\ reading' = Nothing /\ idle' = 0 /\ cut' = FALSE

(* disconnect(), at any time after the client has connected.               *)
Disconnect ==
  /\ Offline
  /\ \/ now' \in until .. Wrap - 1 /\ UNCHANGED wrapped
     \/ now' \in 0 .. Wrap - 1 /\ wrapped' = TRUE
  /\ UNCHANGED <<until, failures, calm, sent, handed>>

(* handle_connected_state_ looks for a client that is disconnected and     *)
(* compares the clock with the end of the backoff.                         *)
MayConnect == state = "DISCONNECTED" /\ now >= until

(* TCP, TLS and the HTTP upgrade succeed.                                  *)
Connect ==
  /\ MayConnect
  /\ state' = "WAIT_SERVER_KEY"
  /\ conn' = "up" /\ server' = "new"
  /\ failures' = 0 /\ now' = 0
  /\ UNCHANGED <<reading, wire, idle, until, calm, history>>

(* One of them fails.                                                      *)
ConnectFails ==
  /\ MayConnect /\ ~calm
  /\ failures' = Min({failures + 1, 4})
  /\ until' = (now + Backoff(failures')) % Wrap
  /\ wrapped' = FALSE
  /\ UNCHANGED <<state, reading, link, idle, now, calm, sent, handed, cut>>

(* The device restarts: power is lost, or the TLS handshake failed for     *)
(* want of memory MAX_OOM_RECOVERY_ATTEMPTS times.                         *)
Restart ==
  /\ ~calm
  /\ Offline
  /\ now' = 0 /\ until' = 0 /\ failures' = 0 /\ wrapped' = FALSE
  /\ UNCHANGED <<calm, sent, handed>>
-----------------------------------------------------------------------------
Activity == idle' = 0

(* Mutant: a handler waits for a payload of length 0.                      *)
HeaderRead_WaitsForNone(kind, id, left) ==
  /\ reading' = IF Consumes(kind)
                THEN [kind |-> kind, id |-> id, left |-> left] ELSE Nothing
  /\ cut' = (cut \/ kind = "large")
  /\ Activity
  /\ UNCHANGED <<state, conn, server, retries, calm, sent, handed, wrapped>>

(* A header is read whole; a payload the handler does not read stays, and  *)
(* the server's info need not have one that can be read.                   *)
HeaderRead(kind, id, left) ==
  /\ reading' = IF Consumes(kind) /\ left > 0
                THEN [kind |-> kind, id |-> id, left |-> left] ELSE Nothing
  /\ state' = IF state = "WAIT_SERVER_INFO" /\ kind = "SERVER_INFO" /\ left = 0
              THEN "READY" ELSE state
  /\ cut' = (cut \/ kind = "large")
  /\ Activity
  /\ UNCHANGED <<conn, server, retries, calm, sent, handed, wrapped>>

ReadHeader ==
  /\ Reads /\ Len(wire) >= 2 /\ wire[1].at = 1
  /\ wire' = SubSeq(wire, 3, Len(wire))
  /\ HeaderRead(wire[1].kind, wire[1].id, PayloadPieces(wire[1].kind))

(* Off the frame boundary any header is found, and some bytes are gone; no *)
(* piece left is a length of 0 or one that the handler does not read.      *)
ReadGarbage ==
  /\ Reads /\ wire # <<>> /\ wire[1].at # 1
  /\ wire' = Tail(wire)
  /\ \E kind \in Kinds, left \in 0 .. 2 : HeaderRead(kind, 0, left)

(* sock_read_ returns fewer than five bytes, and they are dropped.         *)
PartialHeader ==
  /\ Reads /\ wire # <<>> /\ ~calm
  /\ wire' = Tail(wire)
  /\ cut' = TRUE
  /\ UNCHANGED <<state, reading, conn, server, idle, retries, calm, sent, handed, wrapped>>

(* The server has closed the connection and everything has been read.      *)
ReadClosed ==
  /\ Reads /\ wire = <<>> /\ conn = "closed"
  /\ Disconnect

(* More of the payload arrives; with the last piece the handler is done.   *)
ReadPayload ==
  /\ Busy /\ wire # <<>>
  /\ wire' = Tail(wire)
  /\ LET done == reading.left = 1
     IN  /\ reading' = IF done THEN Nothing ELSE [reading EXCEPT !.left = @ - 1]
         /\ state' = CASE done /\ state = "WAIT_SERVER_KEY" /\ reading.id # 0 -> "SEND_CLIENT_INFO"
                       [] done /\ state = "WAIT_SERVER_INFO" -> "READY"
                       [] OTHER -> state
         /\ handed' = IF done /\ state = "READY" /\ reading.kind = "RECV_PACKET"
                      THEN reading.id ELSE handed
  /\ UNCHANGED <<conn, server, idle, retries, calm, sent, cut, wrapped>>

(* Mutant: the packet is handed over although its end is missing.          *)
PayloadFails_HandsOver ==
  /\ Busy /\ (wire = <<>> \/ ~calm)
  /\ reading' = Nothing
  /\ handed' = IF state = "READY" /\ reading.kind = "RECV_PACKET" THEN 0 ELSE handed
  /\ cut' = TRUE
  /\ UNCHANGED <<state, link, idle, retries, calm, sent, wrapped>>

(* Timeout, or an error of the socket: the frame is given up half-read.    *)
PayloadFails ==
  /\ Busy /\ (wire = <<>> \/ ~calm)
  /\ reading' = Nothing
  /\ cut' = TRUE
  /\ UNCHANGED <<state, link, idle, retries, calm, sent, handed, wrapped>>

SendClientInfo ==
  /\ state = "SEND_CLIENT_INFO" /\ conn # "reset"
  /\ state' = "WAIT_SERVER_INFO"
  /\ server' = IF conn = "up" THEN "known" ELSE server
  /\ UNCHANGED <<reading, conn, wire, idle, retries, calm, history>>

(* The client stays in ERROR: connect works only from DISCONNECTED, and    *)
(* nothing calls disconnect.                                               *)
SendClientInfoFails ==
  /\ state = "SEND_CLIENT_INFO" /\ (conn = "reset" \/ ~calm)
  /\ state' = "ERROR"
  /\ UNCHANGED <<reading, link, idle, retries, calm, history>>

(* Nothing was read or sent for too long.                                  *)
IdleTimeout ==
  /\ state = "READY" /\ ~Busy /\ idle > IdleLimit
  /\ Disconnect

(* Mutant: a packet counts as activity before it is sent.                  *)
CanSend_Always == TRUE

(* TCP takes what is sent as long as it has not given the connection up.   *)
CanSend == conn # "reset"

(* send_packet; what it could not send is no activity.  The keepalive of   *)
(* process() never is.                                                     *)
SendPacket ==
  /\ state = "READY" /\ ~Busy /\ CanSend
  /\ Activity
  /\ UNCHANGED <<state, reading, link, retries, calm, history>>
-----------------------------------------------------------------------------
(* The server.                                                             *)
ServerSends(kind, id) ==
  /\ conn = "up"
  /\ wire' = wire \o Frame(kind, id)
  /\ Len(wire') <= MaxWire
  /\ UNCHANGED <<state, reading, conn, idle, retries, calm, handed, cut, wrapped>>

ServerGreets ==
  /\ server = "new" /\ server' = "greeted"
  /\ ServerSends("SERVER_KEY", 1)
  /\ UNCHANGED sent

ServerAnswers ==
  /\ server = "known" /\ server' = "ready"
  /\ ServerSends("SERVER_INFO", 1)
  /\ UNCHANGED sent

ServerForwards ==
  /\ server = "ready" /\ sent < MaxPackets
  /\ sent' = sent + 1
  /\ ServerSends("RECV_PACKET", sent')
  /\ UNCHANGED server

ServerNotes ==
  /\ server = "ready"
  /\ \E kind \in {"bare", "other", "large"} :
       (kind = "large" => ~calm) /\ ServerSends(kind, 1)
  /\ UNCHANGED <<server, sent>>

(* The network.  A connection dies without a trace, and what is on its way *)
(* is lost; it is closed or reset by the other end.                        *)
Broken(how, arrived) ==
  /\ conn' = how /\ wire' = SubSeq(wire, 1, arrived)
  /\ UNCHANGED <<state, reading, server, idle, retries, calm, history>>

ConnectionEnds ==
  /\ conn = "up" /\ ~calm
  /\ \/ \E n \in 0 .. Len(wire) : Broken("dead", n)
     \/ Broken("closed", Len(wire)) \/ Broken("reset", 0)

(* TCP gives up what is not acknowledged, and process() sends a keepalive  *)
(* every minute when READY.                                                *)
TcpGivesUp == conn = "dead" /\ state = "READY" /\ Broken("reset", 0)

(* A tick is many turns of the main loop.                                  *)
TickDisconnected ==
  /\ state = "DISCONNECTED" /\ ~(calm /\ MayConnect)
  /\ now' = (now + 1) % Wrap
  /\ wrapped' = (wrapped \/ now' = 0)
  /\ UNCHANGED <<state, reading, link, idle, until, failures, calm, sent, handed, cut>>

TickReady ==
  /\ state = "READY"
  /\ idle' = Min({idle + 1, IdleLimit + 1})
  /\ UNCHANGED <<state, reading, link, retries, calm, history>>

CalmsDown ==
  /\ ~calm /\ calm' = TRUE
  /\ UNCHANGED <<state, reading, link, idle, retries, history>>
-----------------------------------------------------------------------------
Process ==
  \/ ReadHeader \/ ReadGarbage \/ ReadClosed \/ ReadPayload \/ PayloadFails
  \/ SendClientInfo \/ SendClientInfoFails \/ IdleTimeout

Next ==
  \/ Connect \/ ConnectFails \/ Restart
  \/ Process \/ PartialHeader \/ SendPacket
  \/ ServerGreets \/ ServerAnswers \/ ServerForwards \/ ServerNotes
  \/ ConnectionEnds \/ TcpGivesUp
  \/ TickDisconnected \/ TickReady \/ CalmsDown

Spec == Init /\ [][Next]_vars

(* The main loop calls process() in every turn and, in calm, finds the     *)
(* component connected and in need of the relay; the server does its part  *)
(* of the handshake; time goes on.  Nothing is assumed of packets.         *)
FairSpec ==
  /\ Spec
  /\ WF_vars(Process) /\ WF_vars(calm /\ Connect)
  /\ WF_vars(ServerGreets) /\ WF_vars(ServerAnswers)
  /\ WF_vars(TcpGivesUp) /\ WF_vars(TickDisconnected) /\ WF_vars(TickReady)
-----------------------------------------------------------------------------
TypeOK ==
  /\ state \in States
  /\ reading \in [kind : Kinds \cup {"none"}, id : 0 .. MaxPackets, left : 0 .. 2]
  /\ conn \in {"none", "up", "dead", "closed", "reset"}
  /\ wire \in Seq([kind : Kinds, id : 1 .. MaxPackets, at : 1 .. 4])
  /\ server \in {"none", "new", "greeted", "known", "ready"}
  /\ idle \in 0 .. IdleLimit + 1 /\ {now, until} \subseteq 0 .. Wrap - 1
  /\ failures \in 0 .. 4
  /\ {sent, handed} \subseteq 0 .. MaxPackets
  /\ {calm, cut, wrapped} \subseteq BOOLEAN

(* Whoever reads a header finds one, through every handler and every end   *)
(* of a connection, unless a header came in pieces, a payload did not      *)
(* arrive in time or a frame was larger than its handler takes             *)
(* (derp_client.cpp:703, 742 and 753).                                     *)
OnBoundary == ~Busy /\ wire # <<>> => wire[1].at = 1 \/ cut

(* The callback gets whole packets, each once and in the order the server  *)
(* forwarded them, as long as the stream is on its boundaries.             *)
PacketsWhole == [][handed' # handed => cut \/ handed' > handed]_vars

(* "Exponential backoff: 5s, 10s, 20s, 30s max" (tailscale.cpp:1009): a    *)
(* client that is disconnected waits no longer for its next attempt, until *)
(* the clock wraps.  Then the time a failure left behind lies ahead again. *)
BackoffEnds == state = "DISCONNECTED" /\ ~wrapped => until - now <= 6

(* The states that nothing ends: ERROR, a handshake on a connection that   *)
(* died, and a connection that works but is off its frame boundaries.      *)
Stuck ==
  \/ state = "ERROR"
  \/ state \in Handshake /\ conn \in {"dead", "reset"}
  \/ conn = "up" /\ cut

(* Once there are no more faults, the relay works again, whatever state    *)
(* the client was left in, unless it is stuck.                             *)
RelayRecovers == calm /\ ~Stuck ~> state = "READY" /\ conn = "up" /\ ~cut
=============================================================================
