------------------------- MODULE ControlPlane_proofs -------------------------
(***************************************************************************)
(* ControlPlane for any number of key pairs and identities, any limits of  *)
(* the watchdogs and any faults: the objects behind the connection stay    *)
(* consistent.  The DERP client holds the node's key, unless the server    *)
(* refused that key and the store could not be read again.  Keys loaded    *)
(* from the store are of one identity, however often power is lost during  *)
(* a save, unless a write failed or the save was over a complete store.    *)
(***************************************************************************)
EXTENDS ControlPlane, TLAPS

(* Where the state machine has a connection, it is complete.               *)
FetchingIsReady ==
  state = "FETCHING_MAP" =>
    /\ Ready /\ http2 /\ wire = "current" /\ channel \in {"live", "dead"}

LinkInv ==
  /\ ChannelOutlivesTransport
  /\ RegisteringIsFresh
  /\ FetchingIsReady
  /\ ReadyIsWatched
  /\ TimerIsCurrent

(* Keys from the store are those of the store, and without power there are *)
(* none in memory.                                                         *)
KeysAreStored == fromNvs => Complete(nvs) /\ keys = nvs
OffIsBlank    == state = "off" => derpKey = 0 /\ ~fromNvs

KeyInv == KeysAreStored /\ OffIsBlank /\ DerpIdentity

(* The last item is written last, if no write fails: a save that power cut *)
(* short is found out, unless the last item was there before it.           *)
StoreIsWhole ==
  nvs[2 * NumPairs] = 0 \/ Whole(nvs) \/ saveFaults > 0 \/ tornOver
-----------------------------------------------------------------------------
LEMMA ItemsExist ==
  /\ NumPairs \in Nat /\ 1 \in Items /\ NodePublic \in Items
  /\ 2 * NumPairs \in Items /\ \A i \in Items : i \in 1 .. 2 * NumPairs
BY KeyStoreAssumption DEF Items, NodePublic

LEMMA NoKeysType == NoKeys \in [Items -> 0 .. MaxKeys]
BY KeyStoreAssumption DEF NoKeys

LEMMA NotLoadedType ==
  ASSUME KeyStoreTypeOK, NEW store, NotLoaded(store)
  PROVE  readFaults' \in 0 .. MaxReadFaults
BY KeyStoreAssumption DEF KeyStoreTypeOK, NotLoaded

(* What a key generation leaves is of the right type.                      *)
LEMMA GenerateNodeKeysType ==
  ASSUME KeyStoreTypeOK,
         NEW store \in [Items -> 0 .. MaxKeys], NEW old \in [Items -> 0 .. MaxKeys],
         NEW ok \in BOOLEAN, GenerateNodeKeys(store, old, ok)
  PROVE  KeyStoreTypeOK'
<1> USE KeyStoreAssumption DEF KeyStoreTypeOK
<1>1. tornOver' \in BOOLEAN
  BY Zenon DEF GenerateNodeKeys
<1>2. CASE ok /\ UNCHANGED minted
  <2>1. keys' = store /\ nvs' = store /\ fromNvs' = TRUE /\ UNCHANGED <<saveFaults, readFaults>>
    BY <1>2 DEF GenerateNodeKeys
  <2> QED BY <1>1, <1>2, <2>1
<1>3. CASE ok /\ minted' # minted
  <2>1. minted + 1 \in 0 .. MaxKeys /\ minted' = minted + 1 /\ fromNvs' = FALSE
    BY <1>3 DEF GenerateNodeKeys
  <2>2. keys' \in [Items -> 0 .. MaxKeys]
    BY <1>3, <2>1 DEF GenerateNodeKeys, Generated
  <2>3. PICK written \in SUBSET Items :
          /\ nvs' = Saved(store, written)
          /\ saveFaults' = saveFaults + (IF written = Items THEN 0 ELSE 1)
    BY <1>3 DEF GenerateNodeKeys
  <2>4. nvs' \in [Items -> 0 .. MaxKeys]
    BY <2>1, <2>3 DEF Saved
  <2>5. saveFaults' \in 0 .. MaxSaveFaults
    BY <1>3, <2>3 DEF GenerateNodeKeys
  <2>6. readFaults' \in 0 .. MaxReadFaults
    BY <1>3, NotLoadedType DEF GenerateNodeKeys
  <2> QED BY <1>1, <2>1, <2>2, <2>4, <2>5, <2>6
<1>4. CASE ~ok
  <2>1. minted + 1 \in 0 .. MaxKeys /\ minted' = minted + 1 /\ fromNvs' = FALSE
    BY <1>4 DEF GenerateNodeKeys, Spare
  <2>2. PICK read \in 0 .. 2 * NumPairs - 1, n \in 0 .. NumPairs - 1 :
          keys' = Generated(Loaded(store, old, read), n)
    BY <1>4 DEF GenerateNodeKeys
  <2>3. Loaded(store, old, read) \in [Items -> 0 .. MaxKeys]
    BY DEF Loaded
  <2>4. keys' \in [Items -> 0 .. MaxKeys]
    BY <2>1, <2>2, <2>3 DEF Generated
  <2>5. readFaults' \in 0 .. MaxReadFaults
    BY <1>4, NotLoadedType DEF GenerateNodeKeys
  <2>6. nvs' = store /\ saveFaults' = saveFaults
    BY <1>4 DEF GenerateNodeKeys
  <2> QED BY <1>1, <2>1, <2>4, <2>5, <2>6
<1> QED BY <1>2, <1>3, <1>4

(* And what a save that power cut short leaves.                            *)
LEMMA TornSaveType ==
  ASSUME KeyStoreTypeOK, NEW store \in [Items -> 0 .. MaxKeys], TornSave(store)
  PROVE  KeyStoreTypeOK'
<1> USE KeyStoreAssumption DEF KeyStoreTypeOK
<1>1. nvs' \in [Items -> 0 .. MaxKeys]
  BY DEF TornSave, Spare, Saved
<1>2. keys' \in [Items -> 0 .. MaxKeys] /\ fromNvs' = FALSE
  BY NoKeysType DEF TornSave
<1>3. minted' \in 0 .. MaxKeys /\ saveFaults' = saveFaults
  BY DEF TornSave, Spare
<1>4. readFaults' \in 0 .. MaxReadFaults
  BY NotLoadedType DEF TornSave
<1>5. tornOver' \in BOOLEAN
  BY Zenon DEF TornSave, Complete
<1> QED BY <1>1, <1>2, <1>3, <1>4, <1>5

-----------------------------------------------------------------------------
(* TypeOK in four parts: booleans, sets of names and numbers each have the *)
(* prover that is good at them.                                            *)
Flags   == http2 \in BOOLEAN /\ direct \in BOOLEAN /\ calm \in BOOLEAN
Places  == /\ state \in States /\ stage \in Stages
           /\ noise \in {"null", "empty", "fresh", "used"}
           /\ wire \in {"none", "current", "gone"}
           /\ channel \in {"null", "closed", "live", "dead"}
Numbers == /\ silent \in Off .. SilenceLimit + 1 /\ notReady \in Off .. DirectLimit
           /\ derpKey \in 0 .. MaxKeys /\ revoked \subseteq 0 .. MaxKeys

LEMMA TypeParts == TypeOK <=> KeyStoreTypeOK /\ Flags /\ Places /\ Numbers
BY Zenon DEF TypeOK, Flags, Places, Numbers

LEMMA FlagsStep ==
  ASSUME Flags, [Next]_vars PROVE Flags'
<1> USE DEF Flags, link, transport, timers, env, keyVars
<1>1. CASE Setup
  BY <1>1 DEF Setup, NvsInitFails, Boot, BootTorn, Reset
<1>2. CASE Restart
  BY <1>2 DEF Restart, Reset
<1>3. CASE InitializeFails \/ Initialize
  BY <1>3 DEF InitializeFails, Initialize
<1>4. CASE HandleRegistering
  BY <1>4 DEF HandleRegistering, NothingStarted, NotConnected, HandshakeFails,
    PostFails, Refused, Rejected, RejectedTorn, Register, RegistrationFails,
    Reset
<1>5. CASE HandleFetchingMap \/ Retry
  BY <1>5 DEF HandleFetchingMap, FetchMap, FetchFails, Retry
<1>6. CASE CheckServerKeepalive \/ ReadMessage \/ TransportFails
  BY <1>6 DEF CheckServerKeepalive, WatchdogStarts, WatchdogExpires, SilenceExpires,
    TearDown, ReadMessage, TransportFails, Here, Destroyed, ResetWire
<1>7. CASE ConnectionBreaks \/ Revoke \/ DirectPathConfirmed \/ CalmsDown \/ Tick
  BY <1>7 DEF ConnectionBreaks, Revoke, DirectPathConfirmed, CalmsDown, Tick
<1>8. CASE UNCHANGED vars
  BY <1>8 DEF vars
<1> QED BY <1>1, <1>2, <1>3, <1>4, <1>5, <1>6, <1>7, <1>8
  DEF Next, Environment, HandleInitializing, InitializeCrashes, PowerLoss

LEMMA PlacesStep ==
  ASSUME Places, [Next]_vars PROVE Places'
<1> USE DEF Places, States, Stages, link, transport, timers, env, keyVars
<1>1. CASE Setup
  BY <1>1 DEF Setup, NvsInitFails, Boot, BootTorn, Reset
<1>2. CASE Restart
  BY <1>2 DEF Restart, Reset
<1>3. CASE InitializeFails \/ Initialize
  BY <1>3 DEF InitializeFails, Initialize
<1>4. CASE HandleRegistering
  BY <1>4 DEF HandleRegistering, NothingStarted, NotConnected, HandshakeFails,
    PostFails, Refused, Rejected, RejectedTorn, Register, RegistrationFails,
    Reset
<1>5. CASE HandleFetchingMap \/ Retry
  BY <1>5 DEF HandleFetchingMap, FetchMap, FetchFails, Retry
<1>6. CASE CheckServerKeepalive \/ ReadMessage \/ TransportFails
  BY <1>6 DEF CheckServerKeepalive, WatchdogStarts, WatchdogExpires, SilenceExpires,
    TearDown, ReadMessage, TransportFails, Here, Destroyed, ResetWire
<1>7. CASE ConnectionBreaks \/ Revoke \/ DirectPathConfirmed \/ CalmsDown \/ Tick
  BY <1>7 DEF ConnectionBreaks, Revoke, DirectPathConfirmed, CalmsDown, Tick
<1>8. CASE UNCHANGED vars
  BY <1>8 DEF vars
<1> QED BY <1>1, <1>2, <1>3, <1>4, <1>5, <1>6, <1>7, <1>8
  DEF Next, Environment, HandleInitializing, InitializeCrashes, PowerLoss

LEMMA NumbersStep ==
  ASSUME KeyStoreTypeOK, Numbers, [Next]_vars PROVE Numbers'
<1> USE KeyStoreAssumption, ControlAssumption
    DEF Numbers, Off, link, transport, timers, env, keyVars
<1>1. CASE NvsInitFails \/ Boot
  <2>1. UNCHANGED <<silent, notReady, derpKey, revoked>>
    BY <1>1 DEF NvsInitFails, Boot
  <2> QED BY <2>1
<1>2. CASE Reset
  BY <1>2 DEF Reset
<1>3. CASE InitializeFails \/ Initialize
  BY <1>3 DEF InitializeFails, Initialize
<1>4. CASE HandleRegistering /\ ~RejectedTorn
  <2>1. UNCHANGED <<silent, notReady, derpKey, revoked>>
    BY <1>4 DEF HandleRegistering, NothingStarted, NotConnected, HandshakeFails,
      PostFails, Refused, Rejected, Register, RegistrationFails
  <2> QED BY <2>1
<1>5. CASE FetchMap
  <2>1. keys[NodePublic] \in 0 .. MaxKeys
    BY ItemsExist DEF KeyStoreTypeOK
  <2> QED BY <1>5, <2>1 DEF FetchMap
<1>6. CASE FetchFails \/ Retry
  BY <1>6 DEF FetchFails, Retry
<1>7. CASE CheckServerKeepalive \/ ReadMessage \/ TransportFails
  <2>1. CASE WatchdogStarts
    BY <2>1 DEF WatchdogStarts, Here
  <2>2. CASE WatchdogExpires
    BY <2>2 DEF WatchdogExpires, TearDown, Here
  <2>3. CASE SilenceExpires
    BY <2>3 DEF SilenceExpires, TearDown, Here
  <2>4. CASE ReadMessage
    BY <2>4 DEF ReadMessage, Here
  <2>5. CASE TransportFails
    BY <2>5 DEF TransportFails, Here
  <2> QED BY <1>7, <2>1, <2>2, <2>3, <2>4, <2>5 DEF CheckServerKeepalive
<1>8. CASE ConnectionBreaks \/ DirectPathConfirmed \/ CalmsDown
  BY <1>8 DEF ConnectionBreaks, DirectPathConfirmed, CalmsDown
<1>9. CASE Revoke
  BY <1>9 DEF Revoke, KeyStoreTypeOK
<1>10. CASE Tick
  BY <1>10 DEF Tick
<1>11. CASE UNCHANGED vars
  BY <1>11 DEF vars
<1> QED
  BY <1>1, <1>2, <1>3, <1>4, <1>5, <1>6, <1>7, <1>8, <1>9, <1>10, <1>11
  DEF Next, Environment, Setup, BootTorn, RejectedTorn, Restart, HandleFetchingMap,
    HandleInitializing, InitializeCrashes, PowerLoss

(* A step leaves the keys alone unless it is one of five.                  *)
LEMMA KeyVarsChange ==
  ASSUME [Next]_vars
  PROVE  \/ Boot \/ BootTorn \/ Restart \/ Rejected \/ RejectedTorn
         \/ UNCHANGED keyVars
BY DEF Next, vars, keyVars, Setup, NvsInitFails, HandleInitializing, InitializeCrashes,
  InitializeFails, Initialize, HandleRegistering, NothingStarted, NotConnected,
  HandshakeFails, PostFails, Refused, Register, HandleFetchingMap, FetchFails,
  FetchMap, CheckServerKeepalive, WatchdogStarts, WatchdogExpires, SilenceExpires,
  ReadMessage, TransportFails, Here, Retry, Environment, PowerLoss,
  ConnectionBreaks, Revoke, DirectPathConfirmed, CalmsDown, Tick

LEMMA KeyStoreStep ==
  ASSUME KeyStoreTypeOK, [Next]_vars PROVE KeyStoreTypeOK'
<1>1. CASE Boot
  <2>1. PICK store \in {nvs, NoKeys}, ok \in BOOLEAN : GenerateNodeKeys(store, NoKeys, ok)
    BY <1>1 DEF Boot
  <2> QED BY <2>1, NoKeysType, GenerateNodeKeysType DEF KeyStoreTypeOK
<1>2. CASE BootTorn
  BY <1>2, NoKeysType, TornSaveType DEF BootTorn, KeyStoreTypeOK
<1>3. CASE Restart
  BY <1>3, NoKeysType DEF Restart, KeyStoreTypeOK
<1>4. CASE Rejected
  BY <1>4, GenerateNodeKeysType DEF Rejected, KeyStoreTypeOK
<1>5. CASE RejectedTorn
  BY <1>5, TornSaveType DEF RejectedTorn, KeyStoreTypeOK
<1>6. CASE UNCHANGED keyVars
  BY <1>6 DEF KeyStoreTypeOK, keyVars
<1> QED BY <1>1, <1>2, <1>3, <1>4, <1>5, <1>6, KeyVarsChange

(* TLC checks TypeOK in the run Control.  The variables keep their types.  *)
THEOREM TypeCorrect == Spec => []TypeOK
<1>1. Init => TypeOK
  <2> SUFFICES ASSUME Init PROVE KeyStoreTypeOK /\ Flags /\ Places /\ Numbers
    BY TypeParts
  <2>1. KeyStoreTypeOK
    <3>1. {nvs, keys} \subseteq [Items -> 0 .. MaxKeys]
      BY NoKeysType DEF Init
    <3>2. /\ minted \in 0 .. MaxKeys
          /\ saveFaults \in 0 .. MaxSaveFaults /\ readFaults \in 0 .. MaxReadFaults
      BY KeyStoreAssumption DEF Init
    <3> QED BY <3>1, <3>2 DEF Init, KeyStoreTypeOK
  <2>2. Flags
    BY DEF Init, Flags
  <2>3. Places
    BY DEF Init, Places, States, Stages
  <2>4. Numbers
    BY KeyStoreAssumption, ControlAssumption DEF Init, Numbers, Off
  <2> QED BY <2>1, <2>2, <2>3, <2>4
<1>2. TypeOK /\ [Next]_vars => TypeOK'
  <2> SUFFICES ASSUME TypeOK, [Next]_vars
               PROVE  KeyStoreTypeOK' /\ Flags' /\ Places' /\ Numbers'
    BY DEF TypeOK, Flags, Places, Numbers
  <2> QED BY TypeParts, KeyStoreStep, FlagsStep, PlacesStep, NumbersStep
<1> QED BY <1>1, <1>2, PTL DEF Spec
-----------------------------------------------------------------------------
LEMMA LinkInvStep ==
  ASSUME TypeOK, LinkInv, [Next]_vars PROVE LinkInv'
<1> USE ControlAssumption
    DEF LinkInv, ChannelOutlivesTransport, RegisteringIsFresh, FetchingIsReady,
      ReadyIsWatched, TimerIsCurrent, Ready, Off, link, transport, timers, env
<1>1. CASE Setup
  BY <1>1 DEF Setup, NvsInitFails, Boot, BootTorn, Reset
<1>2. CASE Restart
  BY <1>2 DEF Restart, Reset
<1>3. CASE InitializeFails \/ Initialize
  BY <1>3 DEF InitializeFails, Initialize
<1>4. CASE HandleRegistering
  BY <1>4 DEF HandleRegistering, NothingStarted, NotConnected, HandshakeFails,
    PostFails, Refused, Rejected, RejectedTorn, Register, RegistrationFails,
    Reset
<1>5. CASE HandleFetchingMap \/ Retry
  <2>1. CASE FetchMap
    <3>1. Ready /\ http2 /\ wire = "current" /\ channel = "live" /\ notReady = Off
      BY <2>1 DEF FetchMap
    <3>2. state' = "CONNECTED" /\ silent' = 0 /\ UNCHANGED <<link, notReady>>
      BY <2>1 DEF FetchMap
    <3> QED BY <3>1, <3>2
  <2>2. CASE FetchFails
    BY <2>2 DEF FetchFails
  <2>3. CASE Retry
    BY <2>3 DEF Retry
  <2> QED BY <1>5, <2>1, <2>2, <2>3 DEF HandleFetchingMap
<1>6. CASE CheckServerKeepalive \/ ReadMessage \/ TransportFails
  <2>1. CASE WatchdogStarts
    BY <2>1 DEF WatchdogStarts, Here
  <2>2. CASE WatchdogExpires
    BY <2>2 DEF WatchdogExpires, TearDown, Destroyed, ResetWire, Here
  <2>3. CASE SilenceExpires
    BY <2>3 DEF SilenceExpires, TearDown, Destroyed, ResetWire, Here
  <2>4. CASE ReadMessage
    BY <2>4 DEF ReadMessage, Here
  <2>5. CASE TransportFails
    BY <2>5 DEF TransportFails, Here
  <2> QED BY <1>6, <2>1, <2>2, <2>3, <2>4, <2>5 DEF CheckServerKeepalive
<1>7. CASE ConnectionBreaks \/ Revoke \/ DirectPathConfirmed \/ CalmsDown
  BY <1>7 DEF ConnectionBreaks, Revoke, DirectPathConfirmed, CalmsDown
<1>8. CASE Tick
  BY <1>8 DEF Tick, TypeOK
<1>9. CASE UNCHANGED vars
  BY <1>9 DEF vars
<1> QED BY <1>1, <1>2, <1>3, <1>4, <1>5, <1>6, <1>7, <1>8, <1>9
  DEF Next, Environment, HandleInitializing, InitializeCrashes, PowerLoss

(* The objects behind a connection fit each other in every state: LinkInv  *)
(* is inductive.                                                           *)
THEOREM LinkIsConsistent == Spec => []LinkInv
<1>1. Init => LinkInv
  BY DEF Init, LinkInv, ChannelOutlivesTransport, RegisteringIsFresh, FetchingIsReady,
    ReadyIsWatched, TimerIsCurrent
<1>2. TypeOK /\ LinkInv /\ [Next]_vars => LinkInv'
  BY LinkInvStep
<1> QED BY <1>1, <1>2, TypeCorrect, PTL DEF Spec

(* No use of a destroyed channel, whatever fails and in whatever order     *)
(* (ts2021_transport.cpp keeps a bare pointer to it).                      *)
THEOREM NoDanglingChannel == Spec => []ChannelOutlivesTransport
<1>1. LinkInv => ChannelOutlivesTransport
  BY DEF LinkInv
<1> QED BY <1>1, LinkIsConsistent, PTL

(* A connection that broke without a trace is always watched.              *)
THEOREM ReadyAlwaysWatched == Spec => []ReadyIsWatched
<1>1. LinkInv => ReadyIsWatched
  BY DEF LinkInv
<1> QED BY <1>1, LinkIsConsistent, PTL

(* A finished handshake is never started again.                            *)
THEOREM RegisteringAlwaysFresh == Spec => []RegisteringIsFresh
<1>1. LinkInv => RegisteringIsFresh
  BY DEF LinkInv
<1> QED BY <1>1, LinkIsConsistent, PTL

(* The second static variable of check_server_keepalive_ does no harm.     *)
THEOREM TimerAlwaysCurrent == Spec => []TimerIsCurrent
<1>1. LinkInv => TimerIsCurrent
  BY DEF LinkInv
<1> QED BY <1>1, LinkIsConsistent, PTL
-----------------------------------------------------------------------------
(* The DERP client is given its key by FetchMap only; power comes back by  *)
(* setup only.                                                             *)
LEMMA DerpKeyChange ==
  ASSUME [Next]_vars
  PROVE  \/ Boot \/ BootTorn \/ Restart \/ RejectedTorn
         \/ /\ state' = "off" => state = "off"
            /\ revoked \subseteq revoked'
            /\ \/ UNCHANGED derpKey
               \/ /\ derpKey = 0 /\ derpKey' = keys[NodePublic]
                  /\ state' = "CONNECTED"
BY DEF Next, vars, env, Setup, NvsInitFails, HandleInitializing, InitializeCrashes,
  InitializeFails, Initialize, HandleRegistering, NothingStarted, NotConnected,
  HandshakeFails, PostFails, Refused, Rejected, Register, RegistrationFails,
  HandleFetchingMap, FetchFails, FetchMap, CheckServerKeepalive, WatchdogStarts,
  WatchdogExpires, SilenceExpires, ReadMessage, TransportFails, Here, Retry,
  Environment, PowerLoss, ConnectionBreaks, Revoke, DirectPathConfirmed,
  CalmsDown, Tick

(* Generating keys when some were loaded before, as Rejected does: the     *)
(* same ones are loaded again, or the store could not be read.             *)
LEMMA GeneratedAgain ==
  ASSUME KeyStoreTypeOK, KeysAreStored, fromNvs,
         NEW ok \in BOOLEAN, GenerateNodeKeys(nvs, keys, ok)
  PROVE  \/ UNCHANGED <<keys, nvs, readFaults>> /\ fromNvs'
         \/ readFaults' > 0 /\ ~fromNvs'
<1>1. Complete(nvs) /\ keys = nvs
  BY DEF KeysAreStored
<1>2. NotLoaded(nvs) => readFaults' > 0
  BY <1>1, KeyStoreAssumption DEF NotLoaded, KeyStoreTypeOK
<1> QED BY <1>1, <1>2 DEF GenerateNodeKeys

LEMMA KeyInvStep ==
  ASSUME KeyStoreTypeOK, KeyInv, [Next]_vars PROVE KeyInv'
<1> USE DEF KeyInv, KeysAreStored, OffIsBlank, DerpIdentity
<1>1. CASE Boot
  <2>1. derpKey = 0 /\ derpKey' = 0 /\ state' # "off"
    BY <1>1 DEF Boot
  <2>2. fromNvs' => Complete(nvs') /\ keys' = nvs'
    BY <1>1 DEF Boot, GenerateNodeKeys, Complete
  <2> QED BY <2>1, <2>2 DEF Complete
<1>2. CASE BootTorn \/ RejectedTorn
  BY <1>2 DEF BootTorn, RejectedTorn, TornSave, Reset
<1>3. CASE Restart
  BY <1>3 DEF Restart, Reset
<1>4. CASE Rejected
  <2>1. fromNvs /\ keys[NodePublic] \in revoked /\ UNCHANGED <<derpKey, revoked>>
    BY <1>4 DEF Rejected, StoredKeysRefused, RegistrationFails, env
  <2>2. Complete(nvs) /\ keys = nvs /\ (derpKey # 0 => derpKey \in revoked)
    BY <2>1
  <2>3. \/ UNCHANGED <<keys, nvs, readFaults>> /\ fromNvs'
        \/ readFaults' > 0 /\ ~fromNvs'
    BY <1>4, <2>1, GeneratedAgain DEF Rejected
  <2>4. state' # "off"
    BY <1>4 DEF Rejected, RegistrationFails
  <2>5. CASE UNCHANGED <<keys, nvs, readFaults>> /\ fromNvs'
    BY <2>1, <2>2, <2>4, <2>5 DEF Complete
  <2>6. CASE readFaults' > 0 /\ ~fromNvs'
    BY <2>1, <2>2, <2>4, <2>6
  <2> QED BY <2>3, <2>5, <2>6
<1>5. CASE ~Boot /\ ~BootTorn /\ ~RejectedTorn /\ ~Restart /\ ~Rejected
  <2>1. UNCHANGED <<nvs, keys, fromNvs, readFaults>>
    BY <1>5, KeyVarsChange DEF keyVars
  <2>2. /\ state' = "off" => state = "off"
        /\ revoked \subseteq revoked'
        /\ \/ UNCHANGED derpKey
           \/ derpKey = 0 /\ derpKey' = keys[NodePublic] /\ state' = "CONNECTED"
    BY <1>5, DerpKeyChange
  <2> QED BY <2>1, <2>2 DEF Complete
<1> QED BY <1>1, <1>2, <1>3, <1>4, <1>5

(* The relay and the node agree on the node's key, through every failure,  *)
(* reconnection and rejection, with one exception: the server refused the  *)
(* key the relay knows, and reading the store failed when it was to be     *)
(* loaded again.  Only then is a loaded key replaced while the node runs,  *)
(* and the keys in memory are none of the store's.                         *)
THEOREM RelayKnowsOurKey == Spec => []DerpIdentity
<1>1. Init => KeyInv
  BY DEF Init, KeyInv, KeysAreStored, OffIsBlank, DerpIdentity
<1>2. TypeOK /\ KeyInv /\ [Next]_vars => KeyInv'
  BY KeyInvStep DEF TypeOK
<1>3. KeyInv => DerpIdentity
  BY DEF KeyInv
<1> QED BY <1>1, <1>2, <1>3, TypeCorrect, PTL DEF Spec
-----------------------------------------------------------------------------
(* A save over a store that was not loaded.                                *)
LEMMA GenerateStep ==
  ASSUME KeyStoreTypeOK, StoreIsWhole, NEW store \in {nvs, NoKeys}, NEW old,
         NEW ok \in BOOLEAN, GenerateNodeKeys(store, old, ok)
  PROVE  StoreIsWhole' /\ KeysWhole'
<1> USE ItemsExist, KeyStoreAssumption DEF StoreIsWhole, KeysWhole, KeyStoreTypeOK
<1>1. store[2 * NumPairs] = 0 \/ Whole(store) \/ saveFaults > 0 \/ tornOver
  BY DEF NoKeys, Whole
<1>2. tornOver' = tornOver
  BY DEF GenerateNodeKeys
<1>3. CASE fromNvs'
  <2>1. Complete(store) /\ keys' = store /\ nvs' = store /\ saveFaults' = saveFaults
    BY <1>3 DEF GenerateNodeKeys
  <2>2. Whole(store) \/ saveFaults > 0 \/ tornOver
    BY <1>1, <2>1 DEF Complete
  <2> QED BY <1>2, <2>1, <2>2 DEF Whole
<1>4. CASE ~fromNvs' /\ ok
  <2>1. PICK written \in SUBSET Items :
          /\ nvs' = Saved(store, written)
          /\ saveFaults' = saveFaults + (IF written = Items THEN 0 ELSE 1)
    BY <1>4 DEF GenerateNodeKeys
  <2>2. CASE written = Items
    BY <1>4, <2>1, <2>2 DEF Saved, Whole
  <2>3. CASE written # Items
    BY <1>4, <2>1, <2>3
  <2> QED BY <2>2, <2>3
<1>5. CASE ~fromNvs' /\ ~ok
  <2>1. nvs' = store /\ saveFaults' = saveFaults
    BY <1>5 DEF GenerateNodeKeys
  <2> QED BY <1>1, <1>2, <1>5, <2>1 DEF Whole
<1> QED BY <1>3, <1>4, <1>5

(* A save cut short: over a complete store it is remembered, over any      *)
(* other the last item is missing before and after.                        *)
LEMMA TornStep ==
  ASSUME KeyStoreTypeOK, StoreIsWhole, NEW store \in {nvs, NoKeys}, TornSave(store)
  PROVE  StoreIsWhole' /\ KeysWhole'
<1> USE ItemsExist, KeyStoreAssumption DEF StoreIsWhole, KeysWhole, KeyStoreTypeOK
<1>1. ~fromNvs' /\ saveFaults' = saveFaults /\ tornOver' = (tornOver \/ Complete(store))
  BY DEF TornSave
<1>2. CASE Complete(store) \/ tornOver \/ saveFaults > 0
  BY <1>1, <1>2
<1>3. CASE ~(Complete(store) \/ tornOver \/ saveFaults > 0)
  <2>1. store[2 * NumPairs] = 0
    BY <1>3 DEF Complete, Whole, NoKeys
  <2>2. PICK n \in Items : nvs' = Saved(store, 1 .. n - 1)
    BY DEF TornSave
  <2>3. nvs'[2 * NumPairs] = 0
    BY <2>1, <2>2 DEF Saved
  <2> QED BY <1>1, <2>3
<1> QED BY <1>2, <1>3

LEMMA StoreStep ==
  ASSUME KeyStoreTypeOK, StoreIsWhole, KeysWhole, [Next]_vars
  PROVE  StoreIsWhole' /\ KeysWhole'
<1>1. CASE Boot
  BY <1>1, GenerateStep DEF Boot
<1>2. CASE BootTorn
  BY <1>2, TornStep DEF BootTorn
<1>3. CASE Restart
  BY <1>3 DEF Restart, Whole, StoreIsWhole, KeysWhole
<1>4. CASE Rejected
  BY <1>4, GenerateStep DEF Rejected
<1>5. CASE RejectedTorn
  BY <1>5, TornStep DEF RejectedTorn
<1>6. CASE UNCHANGED keyVars
  BY <1>6 DEF keyVars, Whole, StoreIsWhole, KeysWhole
<1> QED BY <1>1, <1>2, <1>3, <1>4, <1>5, <1>6, KeyVarsChange

(* The keys loaded from the store belong together, wherever power is lost  *)
(* and whatever cannot be read, with two exceptions: a write of some save  *)
(* failed, or power was lost while new keys were written over a complete   *)
(* store that could not be read.                                           *)
THEOREM StoredIdentityIsWhole == Spec => []KeysWhole
<1>1. Init => StoreIsWhole /\ KeysWhole
  BY ItemsExist DEF Init, StoreIsWhole, KeysWhole, NoKeys
<1>2. TypeOK /\ StoreIsWhole /\ KeysWhole /\ [Next]_vars => StoreIsWhole' /\ KeysWhole'
  BY StoreStep DEF TypeOK
<1> QED BY <1>1, <1>2, TypeCorrect, PTL DEF Spec
=============================================================================
