------------------------------ MODULE KeyStore ------------------------------
(***************************************************************************)
(* The node's identity: three Curve25519 key pairs (machine, node, disco)  *)
(* in memory and in the flash store NVS: generate_node_keys_,              *)
(* load_keys_from_nvs_ and save_keys_to_nvs_ of tailscale.cpp.             *)
(*                                                                         *)
(* The store holds six items, two for each pair, written one after the     *)
(* other with no transaction around them.  Item 2p - 1 is the private and  *)
(* item 2p the public key of pair p.  An item is the number of the         *)
(* generation it belongs to, 0 when it is missing.                         *)
(***************************************************************************)
EXTENDS Integers, FiniteSets

CONSTANTS
  NumPairs,      \* key pairs: machine, node and disco are 1, 2 and 3
  MaxKeys,       \* bound: identities generated
  MaxSaveFaults, \* bound: saves in which some nvs_set_* call fails
  MaxReadFaults, \* bound: loads of a complete store in which nvs_open or some nvs_get_* call fails
  MayTear        \* whether power may be lost during a save

ASSUME KeyStoreAssumption ==
  /\ NumPairs \in Nat /\ NumPairs >= 2
  /\ MaxKeys \in Nat \ {0}
  /\ MaxSaveFaults \in Nat /\ MaxReadFaults \in Nat
  /\ MayTear \in BOOLEAN

VARIABLES
  nvs,       \* the items in flash
  keys,      \* the items in memory
  fromNvs,   \* keys_loaded_from_nvs_
  minted,    \* the identities generated so far
  saveFaults,\* the saves that failed so far
  readFaults,\* the loads of a complete store that failed so far
  tornOver   \* power was lost in a save over a complete store

keyVars == <<nvs, keys, fromNvs, minted, saveFaults, readFaults, tornOver>>

Items      == 1 .. 2 * NumPairs
NoKeys     == [i \in Items |-> 0]
NodePublic == 4

(* The last identity within the bound is kept for a generation that works. *)
Spare == minted + 1 < MaxKeys

Complete(items) == \A i \in Items : items[i] # 0
Whole(items)    == \A i, j \in Items : items[i] = items[j]

(* set_local_static refuses a private and a public key that do not match.  *)
MachinePairMatches == keys[1] # 0 /\ keys[1] = keys[2]

(* load_keys_from_nvs_ assigns one member after the other and stops at the *)
(* first item it does not find, or cannot read: the one after the n-th.    *)
Loaded(store, old, n) ==
  [i \in Items |-> IF i <= n /\ \A j \in 1 .. i : store[j] # 0
                   THEN store[i] ELSE old[i]]

(* It returns false, be it for want of an item or for a read that fails.   *)
NotLoaded(store) ==
  \/ ~Complete(store) /\ UNCHANGED readFaults
  \/ /\ Complete(store)
     /\ Spare /\ readFaults < MaxReadFaults
     /\ readFaults' = readFaults + 1

(* The first n pairs are generated anew.                                   *)
Generated(old, n) ==
  [i \in Items |-> IF i <= 2 * n THEN minted + 1 ELSE old[i]]

(* Mutant: a save keeps the items the store already has.                   *)
Saved_OnlyMissing(store, written) ==
  [i \in Items |-> IF i \in written /\ store[i] = 0 THEN minted + 1 ELSE store[i]]

(* The items in flash after those of written have been overwritten.        *)
Saved(store, written) ==
  [i \in Items |-> IF i \in written THEN minted + 1 ELSE store[i]]

(* Mutant: with keys in memory, new ones are generated whatever is stored. *)
GenerateNodeKeys_Replacing(store, old, ok) ==
  LET load == Complete(store) /\ (old = NoKeys \/ ~Spare) IN
  /\ ok
  /\ load \/ minted < MaxKeys
  /\ minted' = IF load THEN minted ELSE minted + 1
  /\ keys' = IF load THEN store ELSE Generated(old, NumPairs)
  /\ nvs' = IF load THEN store ELSE Saved(store, Items)
  /\ fromNvs' = load
  /\ UNCHANGED <<saveFaults, readFaults, tornOver>>

(* generate_node_keys_: use the stored identity if it can be loaded, else  *)
(* generate one and save it over whatever is stored.  A write that fails   *)
(* does not stop the others, and a save that fails is only logged.         *)
GenerateNodeKeys(store, old, ok) ==
  /\ UNCHANGED tornOver
  /\ \/ /\ Complete(store) /\ ok
        /\ keys' = store
        /\ fromNvs' = TRUE
        /\ nvs' = store
        /\ UNCHANGED <<minted, saveFaults, readFaults>>
     \/ /\ ok /\ minted < MaxKeys /\ NotLoaded(store)
        /\ minted' = minted + 1
        /\ fromNvs' = FALSE
        /\ keys' = Generated(old, NumPairs)
        /\ \E written \in SUBSET Items :
             /\ nvs' = Saved(store, written)
             /\ saveFaults' = saveFaults + (IF written = Items THEN 0 ELSE 1)
        /\ saveFaults' <= MaxSaveFaults /\ (saveFaults' # saveFaults => Spare)
     \/ /\ ~ok /\ Spare /\ NotLoaded(store)
        /\ minted' = minted + 1
        /\ fromNvs' = FALSE
        /\ \E read \in 0 .. 2 * NumPairs - 1, n \in 0 .. NumPairs - 1 :
             keys' = Generated(Loaded(store, old, read), n)
        /\ nvs' = store
        /\ UNCHANGED saveFaults

(* Power is lost while save_keys_to_nvs_ writes new keys over a store that *)
(* was not loaded: the items written so far stay.                          *)
TornSave(store) ==
  /\ MayTear /\ Spare /\ NotLoaded(store)
  /\ \E n \in Items : nvs' = Saved(store, 1 .. n - 1)
  /\ minted' = minted + 1
  /\ tornOver' = (tornOver \/ Complete(store))
  /\ keys' = NoKeys /\ fromNvs' = FALSE
  /\ UNCHANGED saveFaults

KeyStoreTypeOK ==
  /\ {nvs, keys} \subseteq [Items -> 0 .. MaxKeys]
  /\ fromNvs \in BOOLEAN
  /\ minted \in 0 .. MaxKeys
  /\ saveFaults \in 0 .. MaxSaveFaults /\ readFaults \in 0 .. MaxReadFaults
  /\ tornOver \in BOOLEAN
=============================================================================
