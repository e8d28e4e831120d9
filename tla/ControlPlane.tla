---------------------------- MODULE ControlPlane ----------------------------
(***************************************************************************)
(* The life of the connection to the control server: the state machine of  *)
(* TailscaleComponent (tailscale.cpp), with the objects it builds and tears *)
(* down: NoiseSession, Ts2021Transport, Ts2021Upgrade.                     *)
(*                                                                         *)
(* One handler of the main loop runs at a time and blocks until it is      *)
(* done, so a handler is one action with one alternative for each way it   *)
(* can end.  What can happen at any moment is outside the program: power   *)
(* is lost, the connection breaks, the server revokes the node's key.      *)
(* From some moment on the environment may be calm: no more faults.        *)
(***************************************************************************)
EXTENDS KeyStore

CONSTANTS
  SilenceLimit,  \* SERVER_KEEPALIVE_WATCHDOG_MS, in ticks
  NotReadyLimit, \* the 30 s of the transport watchdog, in ticks
  DirectLimit,   \* its 300 s while some peer has a direct path, in ticks
  MayRevoke      \* whether the server may revoke node keys

ASSUME ControlAssumption ==
  /\ SilenceLimit \in Nat /\ NotReadyLimit \in Nat /\ DirectLimit \in Nat
  /\ NotReadyLimit <= DirectLimit
  /\ MayRevoke \in BOOLEAN

VARIABLES
  state,    \* state_, or "off" without power
  noise,    \* noise_session_: no object, no handshake state, a new one, a used one
  stage,    \* the transport's stage_
  wire,     \* its upgrade_, a bare pointer: to nothing, to upgrade_channel_, dangling
  http2,    \* its http2_session_ exists
  channel,  \* upgrade_channel_: no object, closed, open, open but the peer is gone
  silent,   \* ticks since last_server_message_time_, Off when that is 0
  notReady, \* ticks since transport_not_ready_since, Off when that is 0
  direct,   \* some peer has direct_path_confirmed
  derpKey,  \* the node key the DERP client was given, 0 for none
  revoked,  \* the node keys the server no longer accepts
  calm      \* there will be no more faults

transport == <<stage, wire, http2>>
link == <<noise, transport, channel>>
timers == <<silent, notReady>>
env == <<revoked, calm>>
vars == <<state, link, timers, direct, derpKey, env, keyVars>>

Off == -1
States == {"off", "INITIALIZING", "REGISTERING", "FETCHING_MAP", "CONNECTED", "ERROR"}
Stages == {"kIdle", "kAwaitingServerResponse", "kTransportReady", "kFailed"}

Ready == stage = "kTransportReady"
-----------------------------------------------------------------------------
Init ==
  /\ state = "off" /\ noise = "null"
  /\ stage = "kIdle" /\ wire = "none" /\ http2 = FALSE /\ channel = "null"
  /\ silent = Off /\ notReady = Off
  /\ direct = FALSE /\ derpKey = 0 /\ revoked = {} /\ calm = FALSE
  /\ nvs = NoKeys /\ keys = NoKeys
  /\ fromNvs = FALSE /\ minted = 0
  /\ saveFaults = 0 /\ readFaults = 0 /\ tornOver = FALSE

(* Where a pointer to the channel points once the channel is destroyed.    *)
Destroyed(pointer) == IF pointer = "current" THEN "gone" ELSE pointer

(* Mutant: reset leaves the pointer to the channel.                        *)
ResetWire_Kept == wire

(* Ts2021Transport::reset forgets the channel,                             *)
ResetWire == "none"

(* Mutant: the channel is closed and kept.                                 *)
TearDown_CloseOnly ==
  /\ stage' = "kIdle" /\ http2' = FALSE /\ wire' = ResetWire
  /\ channel' = "closed"
  /\ silent' = Off

(* which both watchdogs then close and destroy.                            *)
TearDown ==
  /\ stage' = "kIdle" /\ http2' = FALSE /\ wire' = Destroyed(ResetWire)
  /\ channel' = "null"
  /\ silent' = Off
-----------------------------------------------------------------------------
(* Power comes back, nvs_flash_init fails: setup ends without a session.   *)
NvsInitFails ==
  /\ state = "off" /\ ~calm
  /\ state' = "ERROR"
  /\ UNCHANGED <<link, timers, direct, derpKey, env, keyVars>>

(* Power comes back and setup runs; the flash may have had to be erased.   *)
Boot ==
  /\ state = "off"
  /\ \E store \in {nvs, NoKeys}, ok \in BOOLEAN :
       /\ GenerateNodeKeys(store, NoKeys, ok)
       /\ store # nvs => Spare
       /\ store # nvs \/ ~ok \/ readFaults' # readFaults => ~calm
       /\ state' = IF ok THEN "INITIALIZING" ELSE "ERROR"
  /\ noise' = "empty"
  /\ UNCHANGED <<transport, channel, timers, direct, derpKey, env>>

(* The memory is lost.                                                     *)
Reset ==
  /\ state' = "off" /\ noise' = "null"
  /\ stage' = "kIdle" /\ wire' = "none" /\ http2' = FALSE /\ channel' = "null"
  /\ silent' = Off /\ notReady' = Off
  /\ direct' = FALSE /\ derpKey' = 0
  /\ UNCHANGED env

(* Power comes back, and is lost again while setup saves new keys.         *)
BootTorn ==
  /\ state = "off" /\ ~calm
  /\ \E store \in {nvs, NoKeys} : TornSave(store)
  /\ Reset

Restart ==
  /\ Reset
  /\ keys' = NoKeys /\ fromNvs' = FALSE
  /\ UNCHANGED <<nvs, minted, saveFaults, readFaults, tornOver>>
-----------------------------------------------------------------------------
(* handle_initializing_state_ uses noise_session_ without looking whether  *)
(* there is one: after NvsInitFails that is a crash.                       *)
InitializeCrashes ==
  /\ state = "INITIALIZING" /\ noise = "null"
  /\ Restart

InitializeFails ==
  /\ state = "INITIALIZING" /\ noise # "null" /\ ~calm
  /\ noise' = "empty"
  /\ state' = "ERROR"
  /\ UNCHANGED <<transport, channel, timers, direct, derpKey, env, keyVars>>

(* A new handshake, a new transport, then a new channel.                   *)
Initialize ==
  /\ state = "INITIALIZING" /\ noise # "null"
  /\ noise' = "fresh"
  /\ stage' = "kIdle" /\ wire' = "none" /\ http2' = FALSE
  /\ channel' = "closed"
  /\ state' = "REGISTERING"
  /\ UNCHANGED <<timers, direct, derpKey, env, keyVars>>
-----------------------------------------------------------------------------
(* perform_registration_ fails and leaves the objects like this.           *)
RegistrationFails(noise1, stage1, wire1, http21, channel1) ==
  /\ state = "REGISTERING"
  /\ state' = "ERROR"
  /\ noise' = noise1 /\ stage' = stage1 /\ wire' = wire1
  /\ http2' = http21 /\ channel' = channel1
  /\ UNCHANGED <<timers, direct, derpKey, env>>

(* The handshake is sent when the keys fit and it is a new one.            *)
CanHandshake ==
  /\ channel # "null" /\ stage = "kIdle"
  /\ MachinePairMatches /\ noise = "fresh"

(* ensure_ts2021_ready_ gives up before it touches the transport: objects  *)
(* are missing, the machine keys are refused or the server's key cannot be *)
(* fetched.                                                                *)
NothingStarted ==
  /\ CanHandshake => ~calm
  /\ RegistrationFails(noise, stage, wire, http2, channel)
  /\ UNCHANGED keyVars

(* It cannot build the first message, or cannot connect.                   *)
NotConnected ==
  /\ CanHandshake /\ ~calm
  /\ RegistrationFails("used", "kFailed", wire, FALSE, "closed")
  /\ UNCHANGED keyVars

(* The server does not answer in six rounds, answers wrongly, or HTTP/2    *)
(* does not start on the connection.                                       *)
HandshakeFails ==
  /\ CanHandshake /\ ~calm
  /\ \E stage1 \in {"kAwaitingServerResponse", "kFailed"} :
       RegistrationFails("used", stage1, "current", FALSE, "closed")
  /\ UNCHANGED keyVars

(* The registration request cannot be posted.                              *)
PostFails ==
  /\ CanHandshake /\ ~calm /\ Complete(keys)
  /\ RegistrationFails("used", "kFailed", "current", TRUE, "closed")
  /\ UNCHANGED keyVars

(* The request cannot be built, as node or disco keys are missing, or the  *)
(* server refuses a key that is not from the store.                        *)
Refused ==
  /\ CanHandshake
  /\ Complete(keys) => keys[NodePublic] \in revoked /\ ~fromNvs
  /\ RegistrationFails("used", "kTransportReady", "current", TRUE, "live")
  /\ UNCHANGED keyVars

StoredKeysRefused ==
  /\ state = "REGISTERING" /\ CanHandshake
  /\ Complete(keys) /\ keys[NodePublic] \in revoked /\ fromNvs

(* The server refuses the stored keys: generate_node_keys_ runs again, and *)
(* loads them again unless the store cannot be read this time.             *)
Rejected ==
  /\ StoredKeysRefused
  /\ \E ok \in BOOLEAN :
       /\ GenerateNodeKeys(nvs, keys, ok)
       /\ ~ok \/ readFaults' # readFaults => ~calm
  /\ RegistrationFails("used", "kFailed", "current", TRUE, "closed")

(* Power is lost while it saves new keys.                                  *)
RejectedTorn ==
  /\ StoredKeysRefused /\ ~calm
  /\ TornSave(nvs)
  /\ Reset

Register ==
  /\ state = "REGISTERING"
  /\ CanHandshake
  /\ Complete(keys) /\ keys[NodePublic] \notin revoked
  /\ noise' = "used" /\ stage' = "kTransportReady" /\ wire' = "current"
  /\ http2' = TRUE /\ channel' = "live"
  /\ state' = "FETCHING_MAP"
  /\ UNCHANGED <<timers, direct, derpKey, env, keyVars>>

HandleRegistering ==
  \/ NothingStarted \/ NotConnected \/ HandshakeFails \/ PostFails
  \/ Refused \/ Rejected \/ RejectedTorn \/ Register
-----------------------------------------------------------------------------
(* fetch_map_response_ fails.                                              *)
FetchFails ==
  /\ state = "FETCHING_MAP"
  /\ channel # "live" \/ ~calm
  /\ state' = "ERROR"
  /\ UNCHANGED <<link, timers, direct, derpKey, env, keyVars>>

(* Mutant: the silence watchdog is not armed.                              *)
FetchMap_Unarmed ==
  /\ state = "FETCHING_MAP" /\ Ready /\ channel = "live"
  /\ derpKey' = IF derpKey = 0 THEN keys[NodePublic] ELSE derpKey
  /\ direct' \in {FALSE, direct}
  /\ state' = "CONNECTED"
  /\ UNCHANGED <<link, timers, env, keyVars>>

(* The map arrives on a stream that stays open, and the silence watchdog   *)
(* starts.  The DERP client gets the node's key with the first map only.   *)
(* The sessions are built anew, without direct paths, unless the map has   *)
(* no peers.                                                               *)
FetchMap ==
  /\ state = "FETCHING_MAP" /\ Ready /\ channel = "live"
  /\ silent' = 0
  /\ derpKey' = IF derpKey = 0 THEN keys[NodePublic] ELSE derpKey
  /\ direct' \in {FALSE, direct}
  /\ state' = "CONNECTED"
  /\ UNCHANGED <<link, notReady, env, keyVars>>
-----------------------------------------------------------------------------
Here == state = "CONNECTED" /\ UNCHANGED <<direct, derpKey, env, keyVars>>

(* check_server_keepalive_ finds the transport not ready for the first     *)
(* time.                                                                   *)
WatchdogStarts ==
  /\ Here /\ ~Ready /\ notReady = Off
  /\ notReady' = 0
  /\ UNCHANGED <<state, link, silent>>

(* Mutant: the timer keeps running when the watchdog has fired.            *)
WatchdogExpires_TimerKept ==
  /\ Here /\ ~Ready
  /\ notReady >= (IF direct THEN DirectLimit ELSE NotReadyLimit)
  /\ TearDown
  /\ state' = "REGISTERING"
  /\ UNCHANGED <<noise, notReady>>

(* The transport was not ready for too long, longer with a direct path.    *)
WatchdogExpires ==
  /\ Here /\ ~Ready
  /\ notReady >= (IF direct THEN DirectLimit ELSE NotReadyLimit)
  /\ TearDown
  /\ notReady' = Off
  /\ state' = "REGISTERING"
  /\ UNCHANGED noise

(* Mutant: only a connection known to be alive is given up.                *)
SilenceExpires_OnlyLive ==
  /\ Here /\ Ready /\ silent > SilenceLimit /\ channel = "live"
  /\ TearDown
  /\ UNCHANGED <<state, noise, notReady>>

(* Nothing came from the server for too long.                              *)
SilenceExpires ==
  /\ Here /\ Ready /\ silent > SilenceLimit
  /\ TearDown
  /\ UNCHANGED <<state, noise, notReady>>

(* A message is read from the stream.                                      *)
ReadMessage ==
  /\ Here /\ Ready /\ silent <= SilenceLimit /\ channel = "live"
  /\ silent' = 0
  /\ UNCHANGED <<state, link, notReady>>

(* A record that cannot be decrypted, a keepalive that cannot be encrypted.*)
TransportFails ==
  /\ Here /\ Ready /\ silent <= SilenceLimit /\ ~calm
  /\ stage' = "kFailed"
  /\ UNCHANGED <<state, noise, wire, http2, channel, timers>>

(* handle_error_state_, when RETRY_DELAY_MS have passed.                   *)
Retry ==
  /\ state = "ERROR"
  /\ state' = "INITIALIZING"
  /\ UNCHANGED <<link, timers, direct, derpKey, env, keyVars>>
-----------------------------------------------------------------------------
PowerLoss == state # "off" /\ ~calm /\ Restart

(* Our end of the connection does not notice.                              *)
ConnectionBreaks ==
  /\ channel = "live" /\ ~calm
  /\ channel' = "dead"
  /\ UNCHANGED <<state, noise, transport, timers, direct, derpKey, env, keyVars>>

Revoke ==
  /\ MayRevoke /\ ~calm
  /\ \E key \in 1 .. minted : revoked' = revoked \cup {key}
  /\ UNCHANGED <<state, link, timers, direct, derpKey, calm, keyVars>>

DirectPathConfirmed ==
  /\ state = "CONNECTED"
  /\ direct' = TRUE
  /\ UNCHANGED <<state, link, timers, derpKey, env, keyVars>>

(* Mutant: the clock of the silence watchdog is never stopped.             *)
Tick_Unbounded ==
  /\ state = "CONNECTED"
  /\ silent' = silent + 1
  /\ notReady' = IF notReady \in 0 .. DirectLimit - 1 THEN notReady + 1 ELSE notReady
  /\ UNCHANGED <<state, link, direct, derpKey, env, keyVars>>

(* Ticks are counted where a watchdog looks at them, and no further than   *)
(* it looks.                                                               *)
Tick ==
  /\ state = "CONNECTED"
  /\ silent' = IF silent \in 0 .. SilenceLimit THEN silent + 1 ELSE silent
  /\ notReady' = IF notReady \in 0 .. DirectLimit - 1 THEN notReady + 1 ELSE notReady
  /\ UNCHANGED <<state, link, direct, derpKey, env, keyVars>>

CalmsDown ==
  /\ ~calm
  /\ calm' = TRUE
  /\ UNCHANGED <<state, link, timers, direct, derpKey, revoked, keyVars>>
-----------------------------------------------------------------------------
Setup == NvsInitFails \/ Boot \/ BootTorn
HandleInitializing == InitializeCrashes \/ InitializeFails \/ Initialize
HandleFetchingMap == FetchFails \/ FetchMap
CheckServerKeepalive ==
  WatchdogStarts \/ WatchdogExpires \/ SilenceExpires
Environment ==
  \/ PowerLoss \/ ConnectionBreaks \/ Revoke
  \/ DirectPathConfirmed \/ CalmsDown

Next ==
  \/ Setup \/ HandleInitializing \/ HandleRegistering \/ HandleFetchingMap
  \/ CheckServerKeepalive \/ ReadMessage \/ TransportFails \/ Retry
  \/ Environment \/ Tick

Spec == Init /\ [][Next]_vars

(* The main loop keeps running and time goes on.  Nothing is assumed of    *)
(* messages or faults.                                                     *)
Fairness ==
  /\ WF_vars(Setup) /\ WF_vars(HandleInitializing)
  /\ WF_vars(HandleRegistering) /\ WF_vars(HandleFetchingMap)
  /\ WF_vars(CheckServerKeepalive) /\ WF_vars(Retry) /\ WF_vars(Tick)

FairSpec == Spec /\ Fairness
-----------------------------------------------------------------------------
(* The types of the variables.                                             *)
TypeOK ==
  /\ KeyStoreTypeOK
  /\ state \in States /\ stage \in Stages
  /\ noise \in {"null", "empty", "fresh", "used"}
  /\ wire \in {"none", "current", "gone"} /\ http2 \in BOOLEAN
  /\ channel \in {"null", "closed", "live", "dead"}
  /\ silent \in Off .. SilenceLimit + 1 /\ notReady \in Off .. DirectLimit
  /\ direct \in BOOLEAN /\ calm \in BOOLEAN
  /\ derpKey \in 0 .. MaxKeys /\ revoked \subseteq 0 .. MaxKeys

(* The transport never holds a pointer to a channel that was destroyed:    *)
(* every path that destroys upgrade_channel_ resets the transport first.   *)
ChannelOutlivesTransport == wire # "gone"

(* A transport that is ready while CONNECTED is watched: it has all it     *)
(* needs to be read from, and the silence watchdog is armed, so that a     *)
(* connection that broke without a trace is found.                         *)
ReadyIsWatched ==
  state = "CONNECTED" /\ Ready =>
    /\ silent # Off
    /\ http2 /\ wire = "current" /\ channel \in {"live", "dead"}

(* The handshake state of a finished handshake is never used for the next: *)
(* REGISTERING finds new objects, or none and goes back for them.          *)
RegisteringIsFresh ==
  state = "REGISTERING" /\ channel # "null" =>
    noise = "fresh" /\ stage = "kIdle" /\ wire = "none"

(* The timer of the transport watchdog runs only while the transport is    *)
(* not ready.  check_server_keepalive_ clears a second static variable of  *)
(* the same name where it means to clear this one.                         *)
TimerIsCurrent == notReady # Off => state = "CONNECTED" /\ ~Ready

(* The keys taken from the store belong to one identity, wherever power    *)
(* was lost during the saves.  The exceptions: some write of a save failed *)
(* (save_keys_to_nvs_ goes on after it), or a complete store could not be  *)
(* read and power was lost while new keys were written over it.  A failing *)
(* read alone, at setup or after a rejection, makes no mixture.            *)
KeysWhole == fromNvs => Whole(keys) \/ saveFaults > 0 \/ tornOver

(* The relay knows this node by the key it has now: the DERP client is     *)
(* given the key once and survives every reconnection.  The exception: the *)
(* server refused that key and the store it was loaded from could not be   *)
(* read again, so that perform_registration_ replaced it in memory.        *)
DerpIdentity ==
  derpKey # 0 =>
    \/ derpKey = keys[NodePublic]
    \/ derpKey \in revoked /\ readFaults > 0 /\ ~fromNvs

(* An identity the server accepts.                                         *)
Sound(items) == Complete(items) /\ Whole(items) /\ items[NodePublic] \notin revoked

(* Nothing but a hand on the device helps: the keys in memory, or those    *)
(* the next start would load, are unusable.                                *)
Hopeless ==
  \/ noise # "null" /\ ~Sound(keys)
  \/ Complete(nvs) /\ ~Sound(nvs)

(* Once there are no more faults, a node that is not hopeless gets to      *)
(* CONNECTED with a live connection, whatever state it was left in.        *)
Recovers ==
  calm /\ ~Hopeless ~> state = "CONNECTED" /\ Ready /\ channel = "live"
=============================================================================
