---------------------------- MODULE Http2Session ----------------------------
(***************************************************************************)
(* One HTTP/2 session with the control server (http2_session.cpp, driven   *)
(* by ts2021_transport.cpp): SETTINGS, the registration on stream 1, the   *)
(* map on stream 3, which stays open, and the messages read from it when   *)
(* the IO task has signalled data.                                         *)
(*                                                                         *)
(* The server's frames travel in Noise records that need not end where a   *)
(* frame ends: a DATA frame has two pieces, any other one, and a record is *)
(* any number of pieces.  read_frame_ takes a record from the wire before  *)
(* it looks at its buffer, so reading a frame is several steps.            *)
(***************************************************************************)
EXTENDS Integers, Sequences, SequencesExt

CONSTANTS
  MaxMessages, \* bound: messages the server sends
  MaxWire,     \* bound: pieces on their way
  Window,      \* DATA frames the server may send before a WINDOW_UPDATE
  BufferLimit  \* MAX_FRAME_SIZE * 2, in pieces

ASSUME Http2Assumption ==
  {MaxMessages, MaxWire, Window, BufferLimit} \subseteq Nat \ {0}

VARIABLES
  phase,     \* what the client does with the frames it reads
  exchanged, \* settings_exchanged_
  pulled,    \* read_frame_ has taken its record
  recv,      \* recv_buffer_, in pieces
  json,      \* filtered_json_buffer_: the DATA frames in it
  wire,      \* the pieces on their way
  server,    \* the server: its stream, its last message, the frames of it sent
  requested, \* the streams the client has posted on
  window,    \* DATA frames the server may still send
  delivered, \* history: the messages returned whole to the component
  consumed,  \* history: the messages of which a frame was put in json
  split,     \* history: the messages sent in two frames
  cleared    \* history: read_frame_ has cleared a buffer that was too large

history == <<delivered, consumed, split, cleared>>
vars == <<phase, exchanged, pulled, recv, json, wire, server, requested, window, history>>

(* "control1" and "control3" are process_control_frames before a post,     *)
(* "post1" and "post3" post_json, "reading" read_next_message.             *)
Phases == {"control1", "post1", "control3", "post3", "idle", "reading", "failed"}

(* The stream posted on, or persistent_stream_id_.                         *)
Stream == IF phase \in {"control1", "post1"} THEN 1 ELSE 3

Control(type)   == [type |-> type, stream |-> 0, half |-> 0]
Headers(s, end) == [type |-> "HEADERS", stream |-> s, half |-> 0, end |-> end]

(* A DATA frame with the first or second part of a message, the last one   *)
(* or not, with END_STREAM or not.                                         *)
Data(s, msg, part, last, end) ==
  [i \in 1 .. 2 |-> [type |-> "DATA", stream |-> s, half |-> i,
                     msg |-> msg, part |-> part, last |-> last, end |-> end]]

(* A whole frame is at the head of the buffer.  What follows the header of *)
(* a DATA frame is JSON; read as a header it is a frame too large.         *)
FrameReady ==
  /\ pulled /\ recv # <<>>
  /\ recv[1].half = 0 \/ (recv[1].half = 1 /\ Len(recv) >= 2)
Frame == recv[1]

(* Mutant: the payload of a DATA frame stays in the buffer.                *)
Erased_HeaderOnly(frame) == Tail(recv)

(* Mutant: the caller forgets to erase a DATA frame.                       *)
Erased_NotData(frame) == IF frame.type = "DATA" THEN recv ELSE Tail(recv)

(* The frame leaves the buffer: read_frame_ erases it, or its caller if it *)
(* is DATA.                                                                *)
Erased(frame) == SubSeq(recv, IF frame.type = "DATA" THEN 3 ELSE 2, Len(recv))

(* has_complete_json_: the braces close where the first one opened.        *)
CompleteJson(frames) ==
  /\ frames[1].part = 1 /\ frames[Len(frames)].last
  /\ \A i \in DOMAIN frames : frames[i].msg = frames[1].msg
-----------------------------------------------------------------------------
Init ==
  /\ phase = "control1" /\ exchanged = FALSE /\ pulled = FALSE
  /\ recv = <<>> /\ json = <<>> /\ wire = <<Control("SETTINGS")>>
  /\ server = [stream |-> 0, open |-> FALSE, due |-> FALSE, msg |-> 0, sent |-> 0]
  /\ requested = {} /\ window = Window
  /\ delivered = <<>> /\ consumed = {} /\ split = {} /\ cleared = FALSE

(* pull_bytes_, once in every read_frame_ and then until the frame at the  *)
(* head is whole.  A read that begins with too much in the buffer throws   *)
(* it away.                                                                *)
Pull ==
  /\ phase \notin {"idle", "failed"} /\ ~FrameReady
  /\ LET over == ~pulled /\ Len(recv) > BufferLimit
         kept == IF over THEN <<>> ELSE recv
     IN  \E n \in 1 .. Len(wire) :
           /\ recv' = kept \o SubSeq(wire, 1, n)
           /\ wire' = SubSeq(wire, n + 1, Len(wire))
           /\ pulled' = (recv'[1].half # 2)
           /\ cleared' = (cleared \/ over)
  /\ UNCHANGED <<phase, exchanged, json, server, requested, window, delivered, consumed, split>>

(* A frame is taken from the buffer.                                       *)
Take == FrameReady /\ recv' = Erased(Frame) /\ pulled' = FALSE

(* http2_post_json goes on to post_json: HEADERS and DATA with END_STREAM. *)
Post ==
  /\ phase' = IF Stream = 1 THEN "post1" ELSE "post3"
  /\ requested' = requested \cup {Stream}
  /\ json' = <<>>
  /\ UNCHANGED <<server, wire, window, history>>

(* process_control_frames reads one frame, unless there have been SETTINGS.*)
(* The request is posted whatever it finds.  A DATA frame stays in the     *)
(* buffer.                                                                 *)
ControlFrame ==
  /\ phase \in {"control1", "control3"} /\ ~exchanged /\ FrameReady
  /\ exchanged' = (Frame.type = "SETTINGS")
  /\ recv' = IF Frame.type = "DATA" THEN recv ELSE Erased(Frame)
  /\ pulled' = FALSE
  /\ Post

NoControlFrame ==
  /\ phase \in {"control1", "control3"}
  /\ exchanged \/ ~FrameReady
  /\ pulled' = FALSE
  /\ Post
  /\ UNCHANGED <<exchanged, recv>>

(* A frame that the read goes on after: SETTINGS, their ACK, PING,         *)
(* WINDOW_UPDATE, RST_STREAM; HEADERS that do not end the posted stream; a *)
(* HEADERS of any stream in read_next_message.                             *)
OtherFrame ==
  /\ phase \in {"post1", "post3", "reading"} /\ Take
  /\ \/ Frame.type \in {"SETTINGS", "OTHER"}
     \/ Frame.type = "HEADERS" /\ (phase = "reading" \/ (Frame.stream = Stream /\ ~Frame.end))
  /\ UNCHANGED <<phase, exchanged, json, wire, server, requested, window, history>>

(* Timeout, GOAWAY, or a frame of another stream than the one posted on,   *)
(* which is taken if it is not DATA.  A session is given up when its       *)
(* registration or its first map fails.                                    *)
PostFails ==
  /\ phase \in {"post1", "post3"}
  /\ \/ ~FrameReady /\ UNCHANGED recv
     \/ FrameReady /\ Frame.type = "GOAWAY" /\ recv' = Erased(Frame)
     \/ FrameReady /\ Frame.stream \notin {0, Stream}
        /\ recv' = IF Frame.type = "DATA" THEN recv ELSE Erased(Frame)
  /\ phase' = "failed"
  /\ UNCHANGED <<exchanged, pulled, json, wire, server, requested, window, history>>

(* What follows a response.  The body of the registration is not looked    *)
(* at; an empty or truncated map fails.                                    *)
Answered(whole) ==
  phase' = CASE phase = "post1" -> "control3"
             [] phase = "post3" /\ whole -> "idle"
             [] OTHER -> "failed"

(* HEADERS with END_STREAM: a response without a body.                     *)
NoBody ==
  /\ phase \in {"post1", "post3"} /\ Take
  /\ Frame.type = "HEADERS" /\ Frame.stream = Stream /\ Frame.end
  /\ Answered(FALSE)
  /\ UNCHANGED <<exchanged, json, wire, server, requested, window, history>>

(* DATA of the stream that is read goes to json; a complete one is returned.*)
Buffered ==
  /\ Frame.type = "DATA" /\ Frame.stream = Stream
  /\ json' = Append(json, Frame)
  /\ consumed' = consumed \cup {Frame.msg}
  /\ delivered' = IF CompleteJson(json') THEN Append(delivered, Frame.msg) ELSE delivered
  /\ UNCHANGED <<exchanged, wire, server, requested, split, cleared>>

(* In post_json the window that a payload took is given back at once, and  *)
(* the response ends with the JSON or with END_STREAM.                     *)
PostData ==
  /\ phase \in {"post1", "post3"} /\ Take /\ Buffered
  /\ window' = IF Frame.msg = 0 THEN window ELSE window + 1
  /\ IF CompleteJson(json') \/ Frame.end
       THEN Answered(CompleteJson(json'))
       ELSE UNCHANGED phase
-----------------------------------------------------------------------------
(* Mutant: the message read before is still in the JSON buffer.            *)
StartReading_KeepsJson ==
  /\ phase = "idle" /\ wire # <<>>
  /\ phase' = "reading" /\ pulled' = FALSE
  /\ UNCHANGED <<exchanged, recv, json, wire, server, requested, window, history>>

(* check_server_keepalive_ after the IO task has found the socket readable.*)
StartReading ==
  /\ phase = "idle" /\ wire # <<>>
  /\ phase' = "reading" /\ pulled' = FALSE /\ json' = <<>>
  /\ UNCHANGED <<exchanged, recv, wire, server, requested, window, history>>

(* DATA of another stream is dropped.                                      *)
StrangeData ==
  /\ phase = "reading" /\ Take
  /\ Frame.type = "DATA" /\ Frame.stream # Stream
  /\ UNCHANGED <<phase, exchanged, json, wire, server, requested, window, history>>

(* Mutant: the return with a complete message leaves the frame behind.     *)
ReadData_ReturnsEarly ==
  /\ phase = "reading" /\ FrameReady /\ pulled' = FALSE /\ Buffered
  /\ phase' = IF CompleteJson(json') \/ Frame.end THEN "idle" ELSE phase
  /\ recv' = IF CompleteJson(json') THEN recv ELSE Erased(Frame)
  /\ UNCHANGED window

(* DATA of the open stream.  No window is given back.                      *)
ReadData ==
  /\ phase = "reading" /\ Take /\ Buffered
  /\ phase' = IF CompleteJson(json') \/ Frame.end THEN "idle" ELSE phase
  /\ UNCHANGED window

(* GOAWAY, or the few milliseconds are over, within a frame or between two.*)
StopReading ==
  /\ phase = "reading"
  /\ \/ Take /\ Frame.type = "GOAWAY"
     \/ ~FrameReady /\ pulled' = FALSE /\ UNCHANGED recv
  /\ phase' = "idle"
  /\ UNCHANGED <<exchanged, json, wire, server, requested, window, history>>
-----------------------------------------------------------------------------
Sends(pieces) ==
  /\ wire' = wire \o pieces
  /\ Len(wire') <= MaxWire
  /\ UNCHANGED <<phase, exchanged, pulled, recv, json, requested, delivered, consumed, cleared>>

(* A frame of stream 0: SETTINGS, an ACK, PING; or GOAWAY.  Bound: one is   *)
(* on its way or in the buffer.                                            *)
SendControl ==
  \E type \in {"OTHER", "GOAWAY"} :
    /\ \A i \in DOMAIN (recv \o wire) : (recv \o wire)[i].stream # 0
    /\ Sends(<<Control(type)>>)
    /\ UNCHANGED <<server, window, split>>

(* The response to a request begins, and may be without a body.            *)
SendHeaders ==
  \E s \in requested, end \in BOOLEAN :
    /\ server.stream < s
    /\ Sends(<<Headers(s, end)>>)
    /\ server' = [server EXCEPT !.stream = s, !.open = ~end, !.sent = 0]
    /\ UNCHANGED <<window, split>>

(* A message in one DATA frame or two, or cut off by END_STREAM.  Stream 1 *)
(* has one message, and ends with it or with an empty frame after it.      *)
SendData ==
  /\ server.open /\ window > 0
  /\ window' = window - 1
  /\ \E last, end \in BOOLEAN :
       LET msg == IF server.sent = 0 THEN server.msg + 1 ELSE server.msg
           closes == end \/ (last /\ server.stream = 1)
       IN  /\ msg <= MaxMessages
           /\ server.sent = 1 => last \/ end
           /\ Sends(Data(server.stream, msg, server.sent + 1, last, end))
           /\ server' = [server EXCEPT !.open = ~closes, !.msg = msg,
                                       !.due = @ \/ (closes /\ ~end),
                                       !.sent = IF last THEN 0 ELSE 1]
           /\ split' = IF last THEN split ELSE split \cup {msg}

SendEnd ==
  /\ server.due
  /\ server' = [server EXCEPT !.due = FALSE]
  /\ Sends(Data(1, 0, 0, FALSE, TRUE))
  /\ UNCHANGED <<window, split>>
-----------------------------------------------------------------------------
Next ==
  \/ Pull \/ ControlFrame \/ NoControlFrame \/ OtherFrame \/ PostFails \/ NoBody \/ PostData
  \/ StartReading \/ StrangeData \/ ReadData \/ StopReading
  \/ SendControl \/ SendHeaders \/ SendData \/ SendEnd

Spec == Init /\ [][Next]_vars
-----------------------------------------------------------------------------
Pieces == [type : {"SETTINGS", "OTHER", "GOAWAY"}, stream : {0}, half : {0}]
     \cup [type : {"HEADERS"}, stream : {1, 3}, half : {0}, end : BOOLEAN]
     \cup [type : {"DATA"}, stream : {1, 3}, half : {1, 2}, msg : 0 .. MaxMessages,
           part : 0 .. 2, last : BOOLEAN, end : BOOLEAN]

(* Types: pieces are on the wire and in the buffer, frames in json.        *)
TypeOK ==
  /\ phase \in Phases /\ {exchanged, pulled, cleared} \subseteq BOOLEAN
  /\ {recv, json, wire} \subseteq Seq(Pieces)
  /\ server \in [stream : {0, 1, 3}, open : BOOLEAN, due : BOOLEAN,
                 msg : 0 .. MaxMessages, sent : {0, 1}]
  /\ requested \subseteq {1, 3} /\ window \in 0 .. Window
  /\ delivered \in Seq(1 .. MaxMessages)
  /\ consumed \subseteq 0 .. MaxMessages /\ split \subseteq 1 .. MaxMessages

(* The buffer begins with the header of a frame, through every timeout,    *)
(* aborted post and dropped frame, as long as read_frame_ has not thrown   *)
(* away a buffer that grew too large (http2_session.cpp:612).              *)
HeaderFirst == recv # <<>> /\ recv[1].half = 2 => cleared

(* No message is returned to the component twice, or before an earlier     *)
(* one, although posts and reads share one buffer.                         *)
InOrderOnce ==
  \A i, j \in DOMAIN delivered : i < j => delivered[i] < delivered[j]

(* A message of which a frame has been read has been returned, unless it   *)
(* is one of two frames or follows such a one that was not returned either:*)
(* read_next_message is cut short within it, and what the next call        *)
(* appends to its second half is lost with it (http2_session.cpp:960).     *)
LostOnlyAfterSplit ==
  \A m \in consumed \ {0} :
    \/ \E i \in DOMAIN delivered : delivered[i] = m
    \/ \E k \in split :
         k <= m /\ \A i \in DOMAIN delivered : delivered[i] \notin k .. m

(* "without it, server stops after ~65KB" (http2_session.cpp:413): when    *)
(* the client has read all DATA, the server may send more.                 *)
WindowReturned ==
  window = 0 => \E i \in DOMAIN (recv \o wire) : (recv \o wire)[i].type = "DATA"
=============================================================================
