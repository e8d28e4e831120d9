# Verification of the Tailscale component

This directory holds a TLA+ development for the ESPHome component in
`src/components/tailscale`: a Tailscale node on an ESP32. It has the
specifications, the TLC configurations that check small instances of them, and
proofs for TLAPS. `PROJECT.json` relates each definition to the lines it models,
each run to its properties and each hazard to the properties that cover it.

Contents: [the system](#the-system), [the modules](#the-modules),
[the runs](#the-runs), [findings](#findings),
[fairness](#fairness-and-why-the-code-justifies-it), [proofs](#proofs),
[what is not modelled](#what-is-not-modelled), [plan](#plan).

## The system

Two threads run the code. The **main loop** of ESPHome calls
`TailscaleComponent::loop` and `update`, which route received packets, drive the
DERP client, and call the handler of the current state; a handler blocks until
it is done. The **IO task** waits in `select()` and only moves packets and
raises a flag. lwIP's own thread calls into the virtual interface when it has a
packet to transm. Everything else is sequential, and what makes it hard is
what lies between two calls: connections that die, messages that come in pieces
or late, a flash store written item by item, and objects that are torn down and
rebuilt while others still point to them.

| component | state | operations | interacts with | hard | correct when |
|---|---|---|---|---|---|
| IO task and packet pool (`tailscale.cpp` 2493–2782) | two FreeRTOS queues of buffers, `io_task_running_`, `io_task_handle_`, `monitor_tcp_`, `control_plane_data_available_` | the task's loop, `process_packet_queue_`, start, stop, the STUN query that stops and restarts it, NAT-PMP reads | main loop (queues, flags), UDP sockets, control connection | two threads without locks, a stop that gives up on a late task | a buffer has one owner; packets are routed once; neither side forgets the control connection |
| WireGuard device manager (`wireguard_device_manager.cpp`) and peer switching (`tailscale.cpp` 3550–3710, 4902–5160) | the active sessions, `receiver_to_peer_`, `last_wg_activity` | receive an initiation, response or data packet; initiate; send; activate and evict; rebuild | relay and UDP paths, WireGuard library, other nodes | crossed handshakes, late packets of evicted sessions, restarts of the peer | sessions fit, indices lead to the right peer, an active peer gets a working session |
| Control plane (`tailscale.cpp` handlers, `ts2021_transport.cpp`, `ts2021_upgrade.cpp`, `noise_session.cpp`) | `state_`, the Noise session, the transport and its stage, the channel, two watchdogs | one handler per state, `check_server_keepalive_` | control server, IO task's flag, DERP client (its key) | objects rebuilt at every failure, bare pointers, watchdogs on static variables | no dangling channel, a ready transport is watched, every failure leads back to CONNECTED |
| Key store (`tailscale.cpp` 1320–1440, 2330–2440) | three key pairs in memory and in NVS | load, generate, save | control plane | six writes without a transaction, power loss between them, a read that fails taken for an empty store | the keys loaded belong together; the relay knows the key in use |
| HTTP/2 session (`http2_session.cpp`) | `recv_buffer_`, the long-lived stream | SETTINGS, post, read a message | Noise records, control server | frames and records do not line up, timeouts within a message, a window | the buffer is on frame boundaries, messages come once and in order |
| DERP client (`derp_client.cpp`) and its reconnection (`tailscale.cpp` 973–1017) | `state_`, the socket, `last_activity_`, the backoff | connect, process, send_packet, disconnect | relay server, packet handler | a socket that does not block, errors half-way through a frame, a clock that wraps | packets whole and in order; the relay comes back |
| Secured channel (`noise_session.cpp`, `ts2021_transport.cpp`, `ts2021_upgrade.cpp`, and the Noise library in `noise/`) | the handshake state and two ciphers, the transport's stage, TLS, `recv_buffer_` | upgrade, handshake messages, encrypt and write, read and decrypt | control plane, HTTP/2 session, control server | reads and writes that stop within a frame, a session reset under the transport, keys that change | no nonce twice, both ends share their keys, what is read is what was sent, in order and whole |
| Packets over the relay (`handle_derp_packet_`, `process_buffered_wg_packets_`) | packets kept while there is no manager | route, answer ICMP and TCP | manager, Mini-TCP, relay | order of kept packets, peer switch in mid-packet | each packet to its peer's session |
| Endpoint discovery and direct paths (disco in `tailscale.cpp` 3109–3425, NAT ports 2735–2960, the send callback 555–650, the choice of relay 939–1017) | an endpoint per peer in `node_config_`, another with `direct_path_confirmed` in `peer_sessions_`, `nat_discovery_state_`, `g_last_rx_endpoint` | ping, pong, call me maybe, NAT discovery, choosing a path | UDP socket, relay, manager | late or unsolicited answers, two copies of an endpoint, the relay skipped | a confirmed path is one that the peer has answered on; there is a route; a peer that stays is reached directly |
| The node's own endpoints (STUN, NAT-PMP, 3695–3750, 4054–4540) | `discovered_endpoint_`, `discovered_endpoints_` | queries, answers | UDP socket, map request | answers that come to the wrong reader | what is announced is where the node can be reached |
| Mini-TCP, echo and HTTP service | four connections | segments in, segments out | relay packets | clients that vanish, sequence numbers | a slot is freed, a stream has no holes |
| Virtual interface (`tailscale_netif.cpp`) | transmit pool of four buffers | transmit (lwIP thread), drain (main loop) | lwIP, manager | two threads | as the packet pool |
| Map parser, payload builders, LED, crypto helpers, scripts | none that outlives a call | functions | — | — | tests of their own suit them better |

The interactions in one line: the IO task hands UDP packets to the main loop
through the pool and signals control-plane data; the control plane builds the
peer table and starts the manager and the DERP client; the manager sends through
UDP or the DERP client and receives from both; the DERP client, once created,
survives every reconnection of the control plane.

## The modules

| module | lines of code it models | in short |
|---|---|---|
| `BoundedQueue` | FreeRTOS queues as used here | `Send` refuses when full |
| `BufferPool` | the promise of a pool (abstract) | each buffer has one owner and moves free → producer → ready → consumer → free |
| `IoTask` | the IO task, the packet queue, STUN and NAT-PMP reads | implements `BufferPool` |
| `WgManager` | the device manager and the peer switch | other nodes run the same protocol |
| `KeyStore` | generate, load and save keys | used by `ControlPlane` |
| `ControlPlane` | the state machine, its objects and watchdogs | EXTENDS `KeyStore` |
| `Http2Session` | one HTTP/2 session over Noise records | |
| `DerpClient` | the relay connection and its backoff | |
| `NoiseHandshake` | the Noise library, as `Noise_IK_25519_ChaChaPoly_BLAKE2s` runs it | symbolic algorithms |
| `RecordPipe` | the promise of a secured connection (abstract) | records come out as they went in, or not at all |
| `Ts2021Channel` | the session, the transport and the upgrade channel | EXTENDS `NoiseHandshake`, implements `RecordPipe` |
| `Paths` | endpoints, disco, NAT discovery, direct path or relay | |
| `MC…` | — | the instance for TLC |
| `…_proofs` | — | theorems for TLAPS |

Operators named `X_Something` just before an operator `X` are mutants: plausible
bugs in the code `X` models. With the mutant in place of the operator TLC finds the property violated
that `PROJECT.json` pairs with it; no specification uses them.

**`IoTask`.** One action per step after which the other thread may run: the top
of the loop, the return of `select()`, taking a buffer, receiving into it,
pushing it; on the other side collecting, routing, returning a buffer, reading
the control connection, and the STUN query from the stop of the task to each of
its returns. `Tasks` is the set of incarnations that may exist at once, since
`stop_io_task_` waits one second and then forgets a task that shares
`io_task_running_` with its successor. The two UDP sockets are one queue. The
two flag writes of `SignalTcp` are one step, because the task is pinned to the
main loop's core with a higher priority. `PoolSpec` is `BufferPool` with the
owner of each buffer computed from queues and hands.

**`WgManager`.** `ctx` is `peers_`, `receiverToPeer` the index map, `usage` the
order of `last_wg_activity` as the place of each peer in it (the highest was
active last), and `PeerOrder` the place of each peer in `peer_sessions_`. A packet names its ends' indices, and a keypair is
the pair of them: whoever has the pair can decrypt. Every incoming packet may
come over the relay, which activates its sender, or over UDP, which does not.
`Rebuild` is a new map after a reconnection. The library is modelled by what the
manager sees of it (pending index, current keypair, newest initiation answered),
without cookies or the expiry of keys. Indices are random 32-bit numbers in the code and
always new here.

**`KeyStore` and `ControlPlane`.** An item of the store is the number of the
generation that wrote it. `load_keys_from_nvs_` returns false for a missing item
and for any `nvs_open` or `nvs_get_*` that fails (`NotLoaded`), after it has
assigned the members before that item (`Loaded`), and `generate_node_keys_` then
saves a new identity over whatever is stored, a complete one included: at setup,
and again when the server has refused the loaded keys (`Rejected`). Power may be
lost in either save (`BootTorn`, `RejectedTorn`). `saveFaults`, `readFaults` and
`tornOver` remember which of these have happened. The state machine's handlers are one action for each
way they end; `wire` is the transport's bare pointer to the channel and can be
`"gone"`; `channel = "dead"` is a connection that broke without our end
noticing. Clocks are counted where a watchdog reads them, some 30 s a tick.
`calm` says that no more faults happen and is chosen at any moment.

**`Http2Session`.** The server's frames are pieces (two for DATA: header with
first bytes, and rest), and a record is any number of pieces, so a record may
end within a frame. `read_frame_` is `Pull` (it takes a record before it looks
at the buffer) and one action for what the caller does with the frame. Only a
payload takes from the window and is given back: the empty frame that ends the
registration's stream does neither. The histories `delivered`, `consumed`, `split` and `cleared` are read by the
properties and by no guard.

**`DerpClient`.** A frame on the wire is two pieces of header and up to two of payload. `Consumes`
says which payloads the handlers read; what they leave is read as the next
header (`ReadGarbage`), and `cut` remembers a cause the code has for it. A tick
is five seconds, the unit of the backoff. `now` matters only while disconnected, so it is
set to 0 on connecting and to any value it may have reached on disconnecting.
A failing read of a reset connection does nothing, as in the code.

**`NoiseHandshake` and `Ts2021Channel`.** A Diffie-Hellman result is the set of
its two key pairs, a key or a hash the sequence of what went into it, and a
ciphertext a record of key, nonce, associated data and plaintext that opens only
with the same three. The handshake functions are translated token by token from
the library, with its error codes, and both ends run them. A WebSocket frame is
two pieces, and a call of TLS moves any number of pieces: `Pull` stops anywhere,
`WriteFails` leaves a rest in `pending`. That rest stays with mbedTLS, which
finishes it before the next write and may then report it as the new one
(`swallowed` in `Written`). `InitializeIkFails` resets the session while the
transport keeps pointing at it. There is no liveness here: a frame that was read
together with the previous one waits in the buffer until the socket is readable
again, so what is received last may stay unread for as long as the server is
silent.

**`Paths`.** `config` and `session` are the two copies of a peer's endpoint:
pings and pongs of the peer write the first, pongs and the shortcut for
handshake responses the second. An address is an IP address with a port. A ping
goes to where the peer is when it is sent; the pong is a packet on the way to
this node and takes any time. `Responded` is the shortcut: the source of the
last UDP packet becomes the confirmed endpoint of whichever peer is answered.
`heard` holds the peers that got a pong at their address and send over UDP from
then on. `relay` is what `DerpClient` does, seen from here: only a client that is
DISCONNECTED (`"down"`) is connected, a handshake ends in READY, back in
DISCONNECTED or in a state that nothing ends (`"stuck"`: ERROR, or waiting for
what will not come). A READY client counts as a route, as in the send callback,
whatever has become of its connection.

## The runs

All constants below are bounds of the instance; the modules leave them open.

| run | instance | states | shows |
|---|---|---|---|
| `IoTaskSafety` | 2 buffers, 2 task incarnations, 3 packets, stops that time out, creation that fails; symmetric in buffers and tasks | 1,603,728 | the pool's ownership (`OneOwner`, `PoolSpec`), queues that never refuse, packets routed at most once, the control connection never forgotten — with a forgotten task alive beside its successor |
| `IoTaskLive` | 1 task at a time, 2 packets, one routed per loop, fairness | 17,014 | queued packets are routed, in order; unread control data is signalled |
| `IoTaskStun` | 2 tasks, stops in time | violation | `StunRestartsTask` is false |
| `WgSafety` | 3 peers, room for 2, 5 indices, 1 fault | 711,811 | sessions fit, current indices are mapped, keys are shared with their own peer only, the longest idle peer is evicted |
| `WgLive` | 1 peer, 12 indices, 1 fault, timers slower than a round trip | 62,783 | an active peer gets a session both ends agree on |
| `Control` | 3 key pairs, 3 identities, torn saves, a save whose writes fail, a complete store that is not read, revocation, silence 4, not ready 1, direct 10 ticks | 1,003,570 | pointers, watchdogs, fresh handshakes, whole keys, the relay's key, and `Recovers` |
| `Http2` | 4 messages of one or two frames, 4 pieces on the wire, a buffer that overflows at 4 | 1,113,640 | frame boundaries, order, and which messages are lost |
| `Http2Window` | window of 2 frames | violation | `WindowReturned` is false |
| `Derp` | 2 packets, 5 pieces on the wire, idle limit 1, clock of 9 ticks | 1,114,236 | frame boundaries, whole packets, bounded backoff, `RelayRecovers` |
| `Channel` | 2 handshakes, nonces for 3 records, 4 records up and 2 down, 2 server keys | 204,830 | `NonceOnce`, `Agreement`, `NothingLost`, and the channel implements `RecordPipe` |
| `Paths` | 2 peers, one on UDP at a home or a LAN address and one behind the relay, 1 fault, a NAT discovery every second round, a relay handshake that may get stuck, fairness | 133,202 | there is a route again and again unless the relay's client is stuck, and a peer that stays is reached directly in the end |
| `PathUnproven` | the same without faults or fairness | violation | `ConfirmedByPeer` is false |

Each bound and why it is enough:

- *Two buffers and two tasks.* Ownership goes wrong between two owners; a third
  task needs a second time-out and shares the same flag. Three packets let a
  buffer be used again after both have been. Constants of any size are covered
  by the proof. In `IoTaskLive` one packet per loop makes the budget bind.
- *Three peers, room for two* make the eviction a choice (the build has room for
  one; the code is written for `MAX_ACTIVE_WIREGUARD_PEERS`). Five indices allow
  two full handshakes and a third half one, so an old index can be met after a
  rekey. With twelve indices in `WgLive` no behaviour gets stuck for want of
  indices before it agrees: what needs new ones is limited by the one fault.
  The bound on messages is the set `net` itself.
- *Three identities, all six items*: a torn save may end between any two items,
  a save may lose any of its writes, a complete store may fail to be read once, at
  setup or after a rejection, and another generation may follow; the last
  identity is kept for a save that works. A mixture of two identities takes two
  generations, one failing read and one power loss; a stale key at the relay one
  failing read. The ticks only have to keep the order of
  the watchdogs' limits (30 s, silence, 300 s).
- *Four messages, each in one or two frames*: the registration's response, the
  first map and one or two updates; the loss in the middle of a message needs
  one and what it drags along a second. The limit of four pieces makes the
  buffer overflow within these.
- *Two handshakes, three nonces, four records*: the second handshake meets what
  the first left behind, with the same server key or another; the fourth record
  finds no nonce (the library's limit is 2^64 - 1). Three records on one
  connection let a torn write be followed by one that completes it and one that
  comes after.
- *Two peers, two addresses, one fault*: one peer can be direct while the other
  never is, and the first can move, be named anew by a map, or be given a made-up
  address by a ping over the relay.
  A discovery every second round instead of every sixth only makes it more frequent.
- *Five pieces on the wire* hold a packet frame and the start of the next. A
  clock of nine ticks is longer than the longest backoff (six), so a deadline
  can lie before the wrap, behind it or be left over from before.

`CHECK_DEADLOCK FALSE` is set in `Http2`, `Http2Window`, `Derp`, `Channel`,
`Paths` and `PathUnproven`: a session whose server says nothing more, a client in
a state nothing ends, a channel that has used up its bounds do stop, and so may
the paths of a node without peers to ping.

## Findings

Each is a run that TLC ends with a counterexample, and a line of the repository
that says otherwise.

1. **A STUN query can leave the IO task stopped** (`IoTaskStun`,
   `tailscale.cpp:4109`). Of its error paths only some start the task again; a
   name that does not resolve leaves the node without its receiving task. Line
   4223: "Restart task even on error".
2. **The map stream's window is never given back** (`Http2Window`,
   `http2_session.cpp:1077`). `post_json` sends WINDOW_UPDATE because "without
   it, server stops after ~65KB"; `read_next_message` sends none.
3. **A path is confirmed that nobody answered on** (`PathUnproven`,
   `tailscale.cpp:584`, "We implicitly trust the source of a handshake initiation
   we just processed"). The source is that of the last UDP packet of any kind,
   and the initiation may have come over the relay: the address of one peer
   becomes the confirmed endpoint of another. `PathSettles` holds all the same,
   since the pongs of a peer that UDP reaches put its endpoint right; the packets
   for one that UDP does not reach go astray for as long as the session lives.

Disagreements met while modelling that no run is spent on, since the model has
the code's behaviour and a property names it:

- UDP contact does not switch peers (`tailscale.h:350`: "One active peer, replace
  on contact from new peer"). Only `ReceiveInitiation` over the relay activates
  its sender; over UDP the initiation is refused.
- Keys the server rejects come back (`tailscale.cpp:1888`: "Generate brand new
  keys (this will overwrite NVS)"). `Rejected` loads the stored keys again if they
  can be read, and `Recovers` excepts such a node (`Hopeless`).
- Failed saves can leave an identity of two (`tailscale.cpp:1427`: "will generate
  new keys on next boot"). Writes after a failed one go on, and what two saves
  leave out can differ; `KeysWhole` excepts a store with failed saves, and
  without the exception TLC finds one failed save, and power lost in the next.
- The first NAT discovery towards a peer on the same LAN never ends, and no disco
  ping is sent after it (`tailscale.cpp:1175`: "Skip regular disco ping - will be
  sent after NAT discovery"). A TTL of one is enough to reach such a peer, so no
  router answers. `PathSettles` excepts it (`Stuck` of `Paths`).

Exceptions that passing properties state, each a weakness of its own:
`Hopeless` in `Recovers` (keys the server will not take), `Stuck` in
`RelayRecovers` and its part before READY in `RouteReturns` (ERROR, a handshake on a connection that died, a working
connection off its frame boundaries: nothing ends these), `wrapped` in
`BackoffEnds` (after the 32-bit clock wraps, the deadline of the last failure
may hold a disconnected client back for up to 49.7 days), `split` in
`LostOnlyAfterSplit`, `cleared` in `HeaderFirst`, `saveFaults` (above) and `tornOver` in `KeysWhole`,
`readFaults` in `DerpIdentity`, and `Stuck` in `PathSettles` (above). The two of
the key store come from a read that fails (`tailscale.cpp:2268`), which is taken
for a store without keys: power lost while the complete store is overwritten leaves items of
two identities in it, and the next start loads them; and after a rejection the
node registers with new keys, while the DERP client keeps the one the server
refused until the device restarts. Without either exception TLC finds the case.

Seen in code that is not modelled: the STUN responder (3460–3590) writes the
XOR-mapped address in the wrong byte order; `check_natpmp_response_` (4483) reads
the shared UDP socket and drops whatever it finds there, while the IO task may
take the answer it waits for; `derp_fallback_enabled` is never set and
`direct_path_confirmed` never cleared in a session.

## Fairness, and why the code justifies it

- `IoTask`: weak fairness of each task step and of the main loop's steps, since
  FreeRTOS runs both and `select()` has a timeout. Nothing makes the handler
  choose to read TCP or to query STUN.
- `WgManager`: the maintenance timer fires, packets that are not lost are
  delivered, and a peer without an agreed session and with traffic for us keeps
  initiating, as WireGuard does. Without the last one an established node whose peer has
  restarted waits for the peer for ever (`handshake_established` is never cleared).
- `ControlPlane`: handlers are called again and again and time goes on. Nothing
  is assumed of messages; calm is required by the property, not by fairness.
- `DerpClient`: `process()` runs in every loop; the connection attempt is fair
  only in calm (where it finds the control plane connected and the relay
  needed); the server does its part of a handshake; TCP gives up unacknowledged
  data when the client sends keepalives, that is in READY only. A tick stands for many turns of
  the loop, so in calm a client that may connect does so before the next one.

- `Paths`: the timers of pings, discovery, the relay's first 30 s and the
  connection attempt fire; a peer that has an address keeps sending pings, as
  disco does; a ping or pong that is on its way again and again is handled again and
  again (strong fairness: the network does not lose every one). A client that is
  DISCONNECTED and needed connects in the end, and if handshakes end again and
  again some end in READY, which `RelayRecovers` of `DerpClient` shows for a
  calm network. Nothing makes a handshake end: one that gets stuck stays so
  (`DerpSticks`), and `RouteReturns` excepts it. `Probed` says that between two rounds of pings, ten seconds apart,
  a router that can answer a probe has answered one of fifty.

## Proofs

`tlapm` checks every theorem and lemma of the eight proof modules to the leaves,
from the named assumptions on the constants and nothing else. Each safety theorem
follows one argument: an inductive invariant that TLC has checked on the run's
instance, a lemma per action (or per group of actions that disturb the same
part), and a temporal step that combines them.

**`BoundedQueue_proofs`** — lemmas for queues whose elements are distinct members
of a finite set no larger than the capacity: an element that is missing finds
room (`RoomForMissing`), sending it keeps the elements distinct and adds it
(`SendMissing`), taking the head removes exactly it (`HeadAndTail`), and a queue
as long as the set has all of it (`FullHasAll`). They rest on the library's
theorems on cardinality.

**`IoTask_proofs`** — for any number of buffers and tasks, from `PoolAssumption`
(there are at most `PoolSize` buffers), `BoundsAssumption` and `NamesAssumption`:

- `TypeCorrect`: `Spec => []TypeOK`.
- `PoolHasOneOwner`: `Spec => []OneOwner`; no buffer is lost or in two places.
- `PoolQueuesNeverRefuse`: `Spec => []QueuesNeverRefuse`, the code's "Should not
  happen" at line 2722.
- `ImplementsBufferPool`: `Spec => PoolSpec`, the refinement: every step of either
  thread is a step of `BufferPool` for one buffer, or leaves all owners alone.
- `EveryPacketRoutedOnce`: `Spec => []RoutedOnce`, with late tasks and all.
- `RoutedAsArrived`: `Spec => []RoutedInOrder`, on the assumption that
  `StopMayTimeOut = FALSE`. With a task that is late the property is false (TLC
  shows it): two tasks may push in another order than they received.
- `ControlNeverForgotten`: `Spec => []TcpNotForgotten`. It is inductive as it is.

`OneOwner` is not inductive: a task at `push` must hold a buffer, one at the top of
its loop none, or the next step loses one. `PoolInv` adds the types of the pool's variables and `Holding`,
which ties `held` to `pc` and `mainHeld` to `main`. Only the steps that move a
buffer need an argument; the rest is `PoolUntouched`. That no queue refuses
follows from ownership: a buffer in someone's hands is in neither queue, and a
queue with a missing buffer has room. `RoutedOnce` needs `PacketInv`: what is
in a filled buffer, on the socket or routed are different packets. `RoutedInOrder`
needs `OrderInv`, that the pipeline from the routed packets back to the socket is
ordered place by place, and `OneLive`, that no task lives but the
one `io_task_handle_` names.

**`WgManager_proofs`** — for any set of peers, room, indices and faults:

- `TypeCorrect`, and `SessionsFit`: `Spec => []ActiveFits`.
- `DataReachesItsSession`: `Spec => []SessionRoutable`, and `KeysAreNeverShared`:
  `Spec => []KeysAreOwn`.
- `EvictionTakesLongestIdle`: `Spec => EvictsLongestIdle`, an action property. That
  there is a longest idle peer at all rests on `usage` being injective, which
  `Touched` keeps.

`WgInv` ties each place a keypair can be (a session, a pending handshake, a
packet under way, the state of another node) to `minted`, the history of who drew
which index: without what is said of packets and of the other nodes nothing is
known of a session that a response completes.

**`Http2Session_proofs`** — for any number of messages, any window and buffer:

- `TypeCorrect`: `Spec => []TypeOK`; that the window never exceeds its size is part
  of it, and needs that every unread payload holds a part of it (`WindowHeld`).
- `BufferBeginsWithHeader`: `Spec => []HeaderFirst`; `MessagesInOrder`:
  `Spec => []InOrderOnce`; `OnlySplitMessagesAreLost`: `Spec => []LostOnlyAfterSplit`.

`HttpInv` looks at the buffer and the wire as one stream (`Unread`). Reading moves the
border between them, or drops what the stream begins with (`Suffix`), and the server adds whole
frames at its end (`Joined`). What is unread is framed, in order and later than what
was returned, and the JSON buffer of a read begins with a message in two frames
(`JsonBegun`), which is what `LostOnlyAfterSplit` rests on. The attempt to prove
`WindowHeld` showed that the model had given the window back for the empty last
frame, for which the code does not (`if (payload_size > 0)`, line 413); the model follows the code now.

**`DerpClient_proofs`** — for any number of packets, idle limit and clock:

- `TypeCorrect`; `HeadersOnBoundary`: `Spec => []OnBoundary`;
  `PacketsHandedOverWhole`: `Spec => PacketsWhole`, an action property;
  `BackoffIsBounded`: `Spec => []BackoffEnds`.

`RelayInv` says what is on the wire while nothing was cut: frames, of which the first
may be half read (`Aligned` ties `reading` to the pieces that are left), with packets in
the order in which they were sent, none of them handed over before (`Unheard`).

**`ControlPlane_proofs`** — for any limits and number of identities:

- `TypeCorrect`: `Spec => []TypeOK`, in four parts because of the size of `Next`.
- `NoDanglingChannel`, `ReadyAlwaysWatched`, `RegisteringAlwaysFresh`,
  `TimerAlwaysCurrent`: one inductive invariant, `LinkInv`, the four together with
  `FetchingIsReady` (in FETCHING_MAP the transport is ready and everything under
  it exists). `ReadyIsWatched` is not inductive without it: `FetchMap` goes to
  CONNECTED with the objects it finds.
- `RelayKnowsOurKey`: `Spec => []DerpIdentity`. It needs `KeyInv`: keys marked as
  loaded are those in the store (`KeysAreStored`), so a rejection, which
  generates again only for such keys, loads the same ones or fails to read them
  (`GeneratedAgain`), and then the key the relay knows is one the server has
  refused; and without power there is neither a DERP client nor a key
  (`OffIsBlank`), so a boot may mint a new one.
- `StoredIdentityIsWhole`: `Spec => []KeysWhole`. A store whose last item is there
  holds one identity unless a write of a save failed or a save over a complete
  store was cut short (`StoreIsWhole`), since the last item is written last: power
  may be lost during any save.

**`Paths_proofs`** — for any peers, addresses and number of faults:

- `TypeCorrect`: `Spec => []TypeOK`, which says more than types: a confirmed
  session has an endpoint. It needs `HeardIsSomewhere` (a peer that got a pong has
  an address), or a packet of a peer that is nowhere would come in.
- `NobodyWithoutRoute`: `Spec => []SkippedIsDirect`. The test by which the relay is
  skipped and the one by which the send callback takes the direct path differ;
  with a confirmed session's endpoint the first implies the second for every peer.

**`Ts2021Channel_proofs`** — for any number of connections, records, server keys
and nonces (`NonceAssumption`: there is at least one):

- `TypeCorrect`: `Spec => []TypeOK`, with the nonces within their limit.
- `NonceUsedOnce`: `Spec => []NonceOnce`. A write that fails within a frame has used its
  nonce, and no later record, handshake or connection takes it again.
- `EndsAgree`: `Spec => []Agreement`, that both ends hold each other's keys.
- `RecordsArriveWhole`: `Spec => []NothingLost`.
- `ChannelIsPipe`: `Spec => ImplementsPipe`, the refinement of `RecordPipe`: a step
  sends, delivers the next record in one direction, starts over or stutters.

The handshake is evaluated symbolically first: what IK makes of one server key and
one connection is written out (`Waiting`, `ClientDone`, `ServerDone`, the two
messages), lemmas show that the library's functions compute it, and nothing after
them looks into those functions. Here the symbols of the model matter: `SecretsDiffer`
and `KeysDiffer` rest on a Diffie-Hellman result being the set of its two keys, and
on a new ephemeral key for each connection. `ChannelInv` has seven parts. `ServerShape` and `ClientShape`
say which of those handshake states each end may be in, with ciphers that count the records
sent and got; `Order` what cannot be there yet; `Records` that records are
numbered; `Traffic` which pieces may be on the wire or held back by TLS, all of this
connection. With `Traffic`, a record that opens is the next one, since
its nonce is the receiver's count: that is the refinement. `Spendings` says that the
keys used so far are those of this connection and earlier ones, and that the sending
key's nonces are all below the count. `WholeStream` describes the buffer and the
wire as one stream while both ends are there: the rest of the header, then whole frames,
the response first and each record after it. `Agreement` and `NothingLost` are
read off these; neither is inductive without them.

Only model-checked: everything about time to come, since liveness under fairness is
beyond the prover (`QueuedIsRouted`, `TcpIsSignalled`, `ActiveHasSession`,
`Recovers`, `RelayRecovers`, `RouteReturns`, `PathSettles`).

## What is not modelled

- *In modelled components.* The second UDP socket apart from the first; WireGuard cookies
  and key expiry; `last_wg_activity` as a clock that wraps; the bytes of HTTP/2 headers and the connection-level
  window; MessagePack; the DERP client's plain-TCP branch (the URL is always
  https), frames sent in part, and HTTP response headers longer than 508 bytes,
  of which the rest would be read as a frame. NVS initialisation, retries and
  the restart for want of memory are nondeterministic choices.
- *In the channel*: the algorithms themselves, names of protocols, pre-shared keys and
  the other patterns of the library; URLs, base64 and certificates; a frame in more than
  two pieces; frames over the 8 KB buffer, which are never consumed
  (`ts2021_upgrade.cpp:204`) and end with the silence watchdog.
- *In the paths*: pongs over the relay, which `handle_derp_packet_` (5046) would take
  like pings: the node's pings go by UDP, and a pong goes the way of its ping;
  a restart of the device; the node's own endpoints, that is what STUN and NAT-PMP find and
  the map request announces; `derp_fallback_enabled`, which nothing sets; a
  `sendto` that fails; the recovery of stale connections, which compares an address
  with an address and port (3065) and so never does anything.
- *Components of the plan below*: the packets kept before the first map, ICMP and
  TCP without WireGuard, Mini-TCP and its services, the virtual interface.
- *Left out for good*: the map response parser and the payload builders (no
  state between calls; strings), the LED, the crypto helpers, the Noise library beyond
  what the handshake runs through, the single-peer session nothing creates any
  more, scripts and configuration.

## Plan

Done: `IoTask` with `BufferPool`, `WgManager`, `KeyStore` and `ControlPlane`,
`Http2Session`, `DerpClient`, `NoiseHandshake` and `Ts2021Channel` with
`RecordPipe`, `Paths`. What is left, most important first:

1. `NetifTx`: the transmit pool between the lwIP thread and the main loop
   (`tailscale_netif.cpp` 83–192, 594–617; `tailscale.cpp` 5637–5665), a second
   implementation of `BufferPool` with four buffers.
2. `RelayPackets`: the packets kept while there is no manager, on `DerpClient`'s
   callback and `WgManager`'s activation.
3. The node's own endpoints in `Paths`: STUN and NAT-PMP answers and who reads them.
4. `IoTask` and `ControlPlane` composed over the shared channel, where the task
   may ask a destroyed object for its socket.
5. `MiniTcp` with the echo and HTTP services: an abstract byte stream, and the
   four slots implementing it.

Proofs: every safety property of a passing run is a theorem. What each new module of
this list promises is proved with it, `NetifTx` first, as a second refinement of
`BufferPool`. Liveness stays with TLC.
