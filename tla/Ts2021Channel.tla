---------------------------- MODULE Ts2021Channel -----------------------------
(***************************************************************************)
(* The secured channel to the control server: the Noise handshake and the  *)
(* records after it (noise_session.cpp, ts2021_transport.cpp) in WebSocket *)
(* frames on a non-blocking TLS socket (ts2021_upgrade.cpp).               *)
(*                                                                         *)
(* TLS does not promise that what is written or read ends where a frame    *)
(* ends: a frame is two pieces, and a call moves any number of them.  The  *)
(* server runs the same library as responder.                              *)
(***************************************************************************)
EXTENDS NoiseHandshake, FiniteSets, Functions

CONSTANTS
  MaxConnections, \* bound: handshakes begun
  MaxUp, MaxDown, \* bounds: records sent in each direction of a connection
  MaxServerKeys   \* bound: static keys the server ever has

ASSUME ChannelAssumption ==
  {MaxConnections, MaxUp, MaxDown, MaxServerKeys} \subseteq Nat \ {0}

VARIABLES
  stage,      \* the transport's stage_
  hs,         \* the handshake state of NoiseSession, or NoHandshake
  send, recv, \* its two ciphers, or NoCipher
  tls,        \* tls_ is there
  upgraded,   \* upgrade_complete_
  recvBuffer, \* recv_buffer_
  pending,    \* pieces of a write that failed, still with TLS
  up, down,   \* the pieces on their way
  server,     \* the server's side of this connection
  serverKey,  \* the server's static key of today
  sent, got,  \* history: the records of this connection, by direction
  connection, \* history: the number of this connection
  spent       \* history: the keys and nonces this end has encrypted with

client == <<stage, hs, send, recv, tls, upgraded, recvBuffer, pending>>
history == <<sent, got, connection, spent>>
vars == <<client, up, down, server, serverKey, history>>

Directions == {"up", "down"}
Stages == {"kIdle", "kClientInit", "kAwaitingServerResponse", "kTransportReady", "kFailed"}

NoHandshake == [role |-> "NONE"]
NoCipher == InitKey(NoKey)
Machine == [owner |-> "client", kind |-> "static", id |-> 0]
StaticKey(id) == [owner |-> "server", kind |-> "static", id |-> id]
Ephemeral(owner) == [owner |-> owner, kind |-> "ephemeral", id |-> connection]
NobodyThere == [stage |-> "absent", hs |-> NoHandshake, send |-> NoCipher, recv |-> NoCipher]
-----------------------------------------------------------------------------
(* What travels in a frame.                                                *)
Message(type, body) == [type |-> type, body |-> body]
Garbage == Message("other", <<>>)

Request(body) == <<[part |-> 0, msg |-> Message("initiation", body)]>>

(* The answer to the upgrade, in one piece or two.  Read as a frame, the   *)
(* second is no message.                                                   *)
Header(pieces) ==
  SubSeq(<<[part |-> 0, msg |-> Message("101", <<>>)], [part |-> 1, msg |-> Garbage]>>, 1, pieces)

(* encode_websocket_frame.                                                 *)
Frame(msg) == <<[part |-> 1, msg |-> msg], [part |-> 2, msg |-> msg]>>

(* decode_websocket_frame: what is at the head of the buffer is taken for  *)
(* a header, and what follows it for its payload.                          *)
FrameReady(buffer) == Len(buffer) >= 2
Decoded(buffer) == IF SubSeq(buffer, 1, 2) = Frame(buffer[1].msg) THEN buffer[1].msg ELSE Garbage
Consumed(buffer) == SubSeq(buffer, 3, Len(buffer))
-----------------------------------------------------------------------------
Init ==
  /\ stage = "kIdle" /\ hs = NoHandshake /\ send = NoCipher /\ recv = NoCipher
  /\ tls = FALSE /\ upgraded = FALSE /\ recvBuffer = <<>> /\ pending = <<>>
  /\ up = <<>> /\ down = <<>> /\ server = NobodyThere /\ serverKey = StaticKey(1)
  /\ sent = [d \in Directions |-> <<>>] /\ got = [d \in Directions |-> <<>>]
  /\ connection = 0 /\ spent = <<>>

(* handle_initializing_state_: a new handshake, a new transport and a new  *)
(* channel, whatever the old ones were doing.                              *)
InitializeIk ==
  /\ connection < MaxConnections
  /\ hs' = NewHandshake("INITIATOR") /\ send' = NoCipher /\ recv' = NoCipher
  /\ stage' = "kIdle"
  /\ tls' = FALSE /\ upgraded' = FALSE /\ recvBuffer' = <<>> /\ pending' = <<>>
  /\ up' = <<>> /\ down' = <<>> /\ server' = NobodyThere
  /\ sent' = [d \in Directions |-> <<>>] /\ got' = [d \in Directions |-> <<>>]
  /\ connection' = connection + 1
  /\ UNCHANGED <<serverKey, spent>>

(* The session is reset before the new handshake is made, and the transport*)
(* keeps pointing at it.                                                   *)
InitializeIkFails ==
  /\ hs # NoHandshake
  /\ hs' = NoHandshake /\ send' = NoCipher /\ recv' = NoCipher
  /\ UNCHANGED <<stage, tls, upgraded, recvBuffer, pending, up, down, server, serverKey, history>>

(* The server's key is fetched over HTTPS, as it is today.                 *)
FetchedControlKey == serverKey

(* set_local_static and set_remote_static.                                 *)
WithStaticKeys(handshake) == [handshake EXCEPT !.s = Machine, !.rs = FetchedControlKey]

(* ensure_ts2021_ready_ sets both static keys and begins.                  *)
BeginHandshake ==
  /\ stage = "kIdle" /\ hs # NoHandshake
  /\ hs' = WithStaticKeys(hs)
  /\ stage' = "kClientInit"
  /\ UNCHANGED <<send, recv, tls, upgraded, recvBuffer, pending, up, down, server, serverKey, history>>
-----------------------------------------------------------------------------
(* build_handshake_message, as far as the handshake: its new state, the    *)
(* message and the error.                                                  *)
BuildHandshakeMessage ==
  LET started == IF hs.action = "NONE" THEN Start(hs) ELSE [hs |-> hs, err |-> "NONE"]
  IN  IF Fails(started.err)
        THEN [hs |-> started.hs, out |-> <<>>, err |-> started.err]
        ELSE WriteMessage(started.hs, Ephemeral("client"))

(* The message is the ephemeral key, and two texts encrypted with the keys *)
(* of es and ss.                                                           *)
SpentBy(message) == [i \in 1 .. 2 |-> <<message[i + 1].key, message[i + 1].n>>]

(* The first message goes out in the request for the upgrade.              *)
Connect ==
  /\ stage = "kClientInit" /\ hs # NoHandshake
  /\ LET built == BuildHandshakeMessage
     IN  /\ ~Fails(built.err)
         /\ hs' = built.hs /\ stage' = "kAwaitingServerResponse"
         /\ tls' = TRUE /\ up' = Request(built.out)
         /\ spent' = spent \o SpentBy(built.out)
  /\ UNCHANGED <<send, recv, upgraded, recvBuffer, pending, down, server, serverKey, sent, got, connection>>

(* The message cannot be built, or no connection is made.                  *)
ConnectFails ==
  /\ stage = "kClientInit"
  /\ hs' = IF hs = NoHandshake THEN hs ELSE BuildHandshakeMessage.hs
  /\ stage' = "kFailed"
  /\ UNCHANGED <<send, recv, tls, upgraded, recvBuffer, pending, up, down, server, serverKey, history>>

(* The channel is closed, and what is on its way is lost.                  *)
Close ==
  /\ tls' = FALSE /\ upgraded' = FALSE /\ recvBuffer' = <<>>
  /\ pending' = <<>> /\ up' = <<>> /\ down' = <<>>
  /\ server' = [server EXCEPT !.stage = "gone"]

(* perform_http_upgrade_ reads once, and keeps what came with the header.  *)
UpgradeAnswered ==
  /\ tls /\ ~upgraded
  /\ \E n \in 1 .. Len(down) :
       /\ down[1].msg.type = "101"
       /\ recvBuffer' = SubSeq(down, 2, n)
       /\ down' = SubSeq(down, n + 1, Len(down))
  /\ upgraded' = TRUE
  /\ UNCHANGED <<stage, hs, send, recv, tls, pending, up, server, serverKey, history>>

(* No answer in time, or another one than 101.                             *)
UpgradeFails ==
  /\ tls /\ ~upgraded
  /\ stage' = "kFailed" /\ Close
  /\ UNCHANGED <<hs, send, recv, serverKey, history>>
-----------------------------------------------------------------------------
(* Mutant: a read that times out starts the next one with an empty buffer. *)
Pull_Restarts ==
  /\ tls /\ upgraded /\ ~FrameReady(recvBuffer)
  /\ \E n \in 1 .. Len(down) :
       /\ recvBuffer' = SubSeq(down, 1, n)
       /\ down' = SubSeq(down, n + 1, Len(down))
  /\ UNCHANGED <<stage, hs, send, recv, tls, upgraded, pending, up, server, serverKey, history>>

(* read_raw reads until there is a frame.  A read that times out leaves in *)
(* the buffer what it has, and the next one goes on.                       *)
Pull ==
  /\ tls /\ upgraded /\ ~FrameReady(recvBuffer)
  /\ \E n \in 1 .. Len(down) :
       /\ recvBuffer' = recvBuffer \o SubSeq(down, 1, n)
       /\ down' = SubSeq(down, n + 1, Len(down))
  /\ UNCHANGED <<stage, hs, send, recv, tls, upgraded, pending, up, server, serverKey, history>>

(* A frame is taken.                                                       *)
Take ==
  /\ tls /\ upgraded /\ FrameReady(recvBuffer)
  /\ recvBuffer' = Consumed(recvBuffer)
  /\ UNCHANGED <<tls, upgraded, pending, up, down, server, serverKey, sent, connection, spent>>

(* A close frame is an empty payload: the read fails, the transport not.   *)
TakeClose ==
  /\ Take /\ Decoded(recvBuffer).type = "close"
  /\ UNCHANGED <<stage, hs, send, recv, got>>

Accepted == ReadMessage(hs, Decoded(recvBuffer).body)
Acceptable ==
  /\ hs # NoHandshake
  /\ Decoded(recvBuffer).type = "response" /\ ~Fails(Accepted.err)

(* accept_handshake_message and split_transport.                           *)
AcceptHandshakeMessage ==
  /\ stage = "kAwaitingServerResponse" /\ Take /\ Acceptable
  /\ LET keys == SplitKeys(Accepted.hs)
     IN  hs' = keys.hs /\ send' = keys.send /\ recv' = keys.recv
  /\ stage' = "kTransportReady"
  /\ UNCHANGED got

(* An error message, a strange one, one that does not open; or the six     *)
(* rounds are over.                                                        *)
HandshakeFails ==
  /\ stage = "kAwaitingServerResponse" /\ upgraded
  /\ \/ /\ FrameReady(recvBuffer)
        /\ Decoded(recvBuffer).type # "close" /\ ~Acceptable
        /\ hs' = IF hs # NoHandshake /\ Decoded(recvBuffer).type = "response"
                   THEN Accepted.hs ELSE hs
        /\ stage' = "kFailed"
     \/ ~FrameReady(recvBuffer) /\ UNCHANGED <<stage, hs>>
  /\ Close
  /\ UNCHANGED <<send, recv, serverKey, history>>
-----------------------------------------------------------------------------
(* write_raw of a frame.  The rest of a write that failed goes out first,  *)
(* and TLS may take that for the whole of the new one.                     *)
Written(frame) ==
  /\ \E swallowed \in (IF pending = <<>> THEN {FALSE} ELSE BOOLEAN) :
       up' = IF server.stage = "gone" THEN up
             ELSE up \o pending \o (IF swallowed THEN <<>> ELSE frame)
  /\ pending' = <<>>

(* The socket takes no more within the frame, or it is closed.             *)
WriteFails(frame) ==
  LET pieces == pending \o frame
  IN  \E n \in 0 .. Len(pieces) - 1 :
        /\ up' = IF server.stage = "gone" THEN up ELSE up \o SubSeq(pieces, 1, n)
        /\ pending' = SubSeq(pieces, n + 1, Len(pieces))

Encrypted == EncryptWithAd(send, <<>>, Len(sent["up"]) + 1)

(* Mutant: the nonce is used again when the record could not be sent.      *)
SendPlaintext_NonceTakenBack ==
  /\ stage = "kTransportReady" /\ Len(sent["up"]) < MaxUp /\ tls
  /\ send # NoCipher /\ ~Fails(Encrypted.err)
  /\ sent' = [sent EXCEPT !["up"] = Append(@, Len(@) + 1)]
  /\ spent' = Append(spent, <<send.key, send.n>>)
  /\ LET frame == Frame(Message("record", Encrypted.text))
     IN  \/ Written(frame) /\ send' = Encrypted.cipher
         \/ WriteFails(frame) /\ UNCHANGED send
  /\ UNCHANGED <<stage, hs, recv, tls, upgraded, recvBuffer, down, server, serverKey, got, connection>>

(* send_plaintext.  When the write fails the nonce has been used, and the  *)
(* transport stays ready.                                                  *)
SendPlaintext ==
  /\ stage = "kTransportReady" /\ Len(sent["up"]) < MaxUp /\ tls
  /\ send # NoCipher /\ ~Fails(Encrypted.err)
  /\ send' = Encrypted.cipher
  /\ sent' = [sent EXCEPT !["up"] = Append(@, Len(@) + 1)]
  /\ spent' = Append(spent, <<send.key, send.n>>)
  /\ LET frame == Frame(Message("record", Encrypted.text))
     IN  Written(frame) \/ WriteFails(frame)
  /\ UNCHANGED <<stage, hs, recv, tls, upgraded, recvBuffer, down, server, serverKey, got, connection>>

(* encrypt_payload fails: the session was reset, or the nonces have run    *)
(* out.                                                                    *)
EncryptFails ==
  /\ stage = "kTransportReady"
  /\ send = NoCipher \/ Fails(Encrypted.err)
  /\ stage' = "kFailed"
  /\ UNCHANGED <<hs, send, recv, tls, upgraded, recvBuffer, pending, up, down, server, serverKey, history>>

Decrypted == DecryptWithAd(recv, <<>>, Decoded(recvBuffer).body)
Readable ==
  /\ recv # NoCipher
  /\ Decoded(recvBuffer).type = "record" /\ ~Fails(Decrypted.err)

(* receive_plaintext and decrypt_payload.                                  *)
ReceivePlaintext ==
  /\ stage = "kTransportReady" /\ Take /\ Readable
  /\ recv' = Decrypted.cipher
  /\ got' = [got EXCEPT !["down"] = Append(@, Decrypted.plain)]
  /\ UNCHANGED <<stage, hs, send>>

(* What is no record, or does not open, ends the transport.                *)
ReceiveFails ==
  /\ stage = "kTransportReady" /\ Take
  /\ Decoded(recvBuffer).type # "close" /\ ~Readable
  /\ stage' = "kFailed"
  /\ UNCHANGED <<hs, send, recv, got>>

(* HTTP/2 does not start or the registration fails.                        *)
SessionFails ==
  /\ stage = "kTransportReady"
  /\ stage' = "kFailed" /\ Close
  /\ UNCHANGED <<hs, send, recv, serverKey, history>>
-----------------------------------------------------------------------------
(* The server answers the request, with an error if the first message does *)
(* not open with the key it has now.                                       *)
ServerAnswers ==
  /\ server.stage = "absent" /\ up # <<>>
  /\ LET started == Start([NewHandshake("RESPONDER") EXCEPT !.s = serverKey])
         read == ReadMessage(started.hs, up[1].msg.body)
         written == WriteMessage(read.hs, Ephemeral("server"))
         keys == SplitKeys(written.hs)
         answer == IF Fails(read.err) THEN Message("error", <<>>)
                   ELSE Message("response", written.out)
     IN  /\ \E pieces \in 1 .. 2 : down' = Header(pieces) \o Frame(answer)
         /\ server' = IF Fails(read.err) THEN [server EXCEPT !.stage = "gone"]
                      ELSE [stage |-> "ready", hs |-> keys.hs,
                            send |-> keys.send, recv |-> keys.recv]
  /\ up' = Tail(up)
  /\ UNCHANGED <<client, serverKey, history>>

ServerSends ==
  /\ server.stage = "ready" /\ Len(sent["down"]) < MaxDown
  /\ LET r == EncryptWithAd(server.send, <<>>, Len(sent["down"]) + 1)
     IN  /\ ~Fails(r.err)
         /\ server' = [server EXCEPT !.send = r.cipher]
         /\ down' = down \o Frame(Message("record", r.text))
  /\ sent' = [sent EXCEPT !["down"] = Append(@, Len(@) + 1)]
  /\ UNCHANGED <<client, up, serverKey, got, connection, spent>>

(* A record that does not open makes the server close the connection.      *)
ServerReads ==
  /\ server.stage = "ready" /\ FrameReady(up)
  /\ LET msg == Decoded(up)
         r == DecryptWithAd(server.recv, <<>>, msg.body)
     IN  IF msg.type = "record" /\ ~Fails(r.err)
           THEN /\ server' = [server EXCEPT !.recv = r.cipher]
                /\ got' = [got EXCEPT !["up"] = Append(@, r.plain)]
           ELSE /\ server' = [server EXCEPT !.stage = "gone"]
                /\ UNCHANGED got
  /\ up' = Consumed(up)
  /\ UNCHANGED <<client, down, serverKey, sent, connection, spent>>

(* The server says goodbye, or the connection breaks and the last pieces   *)
(* are lost.                                                               *)
ServerLeaves ==
  /\ server.stage \notin {"gone"} /\ tls
  /\ server' = [server EXCEPT !.stage = "gone"]
  /\ up' = <<>>
  /\ \/ server.stage = "ready" /\ down' = down \o Frame(Message("close", <<>>))
     \/ \E n \in 0 .. Len(down) : down' = SubSeq(down, 1, n)
  /\ UNCHANGED <<client, serverKey, history>>

(* The server gets a new static key, between a node's asking for it and    *)
(* its handshake.                                                          *)
ServerKeyChanges ==
  /\ serverKey.id < MaxServerKeys
  /\ serverKey' = StaticKey(serverKey.id + 1)
  /\ UNCHANGED <<client, up, down, server, history>>
-----------------------------------------------------------------------------
Next ==
  \/ InitializeIk \/ InitializeIkFails \/ BeginHandshake
  \/ Connect \/ ConnectFails \/ UpgradeAnswered \/ UpgradeFails
  \/ Pull \/ TakeClose \/ AcceptHandshakeMessage \/ HandshakeFails
  \/ SendPlaintext \/ EncryptFails \/ ReceivePlaintext \/ ReceiveFails \/ SessionFails
  \/ ServerAnswers \/ ServerSends \/ ServerReads \/ ServerLeaves \/ ServerKeyChanges

Spec == Init /\ [][Next]_vars
-----------------------------------------------------------------------------
(* The types of the variables.                                             *)
TypeOK ==
  /\ stage \in Stages /\ {tls, upgraded} \subseteq BOOLEAN
  /\ hs = NoHandshake \/ hs.role = "INITIATOR"
  /\ \A c \in {send, recv, server.send, server.recv} : c.n \in 0 .. NonceLimit
  /\ \A p \in {recvBuffer, pending, up, down} :
       \A i \in DOMAIN p : p[i].part \in 0 .. 2
  /\ server.stage \in {"absent", "ready", "gone"}
  /\ serverKey \in {StaticKey(k) : k \in 1 .. MaxServerKeys}
  /\ {sent, got} \subseteq [Directions -> Seq(Nat \ {0})]
  /\ connection \in 0 .. MaxConnections

(* Each end takes for true what the other has sent, in order and nothing   *)
(* left out, on every connection: through torn writes that TLS completes   *)
(* late or never, timeouts within a frame, keys that have changed and ends *)
(* that leave.                                                             *)
Pipe == INSTANCE RecordPipe
ImplementsPipe == Pipe!Spec

(* No key encrypts twice with one nonce: neither the keys of one connection*)
(* after a write that failed, nor those of a handshake begun anew, nor when*)
(* the nonces run out.                                                     *)
NonceOnce == IsInjective(spent)

(* Where this end holds transport keys, the server holds the same ones     *)
(* crosswise, both have hashed the same handshake, and each knows the      *)
(* other's static key.                                                     *)
Agreement ==
  send # NoCipher =>
    /\ send.key = server.recv.key /\ recv.key = server.send.key
    /\ send.key # recv.key
    /\ hs.h = server.hs.h /\ hs.rs = server.hs.s /\ hs.s = server.hs.rs

(* While both ends are there, every record the server has sent has been    *)
(* received or is on its way in whole: timeouts within a frame and frames  *)
(* that come with the header of the upgrade lose nothing.                  *)
NothingLost ==
  /\ upgraded /\ server.stage = "ready"
  /\ stage \in {"kAwaitingServerResponse", "kTransportReady"} /\ hs # NoHandshake
  => LET response == IF stage = "kAwaitingServerResponse" THEN 1 ELSE 0
         missing == Len(sent["down"]) - Len(got["down"])
         arriving == recvBuffer \o down
     IN  Cardinality({i \in DOMAIN arriving : arriving[i].msg # Garbage})
           = 2 * (missing + response)
=============================================================================
