----------------------------- MODULE BufferPool -----------------------------
(***************************************************************************)
(* What a pool of pre-allocated packet buffers promises, whatever the      *)
(* queues behind it look like: every buffer has exactly one owner, and it  *)
(* changes hands only along the cycle                                      *)
(*                                                                         *)
(*     free -> producer -> (free | ready) -> consumer -> free.             *)
(*                                                                         *)
(* A producer or consumer holds at most one buffer at a time.  The packet  *)
(* pool between the IO task and the main loop implements this (IoTask).    *)
(***************************************************************************)
CONSTANTS
  Buffers,    \* the buffers of the pool
  Producers,  \* the threads that fill buffers
  Consumers   \* the threads that empty them

VARIABLE owner  \* who has each buffer

Owners == {"free", "ready"} \cup Producers \cup Consumers

TypeOK == owner \in [Buffers -> Owners]

Init == owner = [b \in Buffers |-> "free"]

Pass(b, from, to) ==
  /\ owner[b] = from
  /\ owner' = [owner EXCEPT ![b] = to]

EmptyHanded(p) == \A b \in Buffers : owner[b] # p

Take(b, p)     == EmptyHanded(p) /\ Pass(b, "free", p)
GiveBack(b, p) == Pass(b, p, "free")
Publish(b, p)  == Pass(b, p, "ready")
Collect(b, c)  == EmptyHanded(c) /\ Pass(b, "ready", c)

Next ==
  \E b \in Buffers :
    \/ \E p \in Producers : Take(b, p) \/ GiveBack(b, p) \/ Publish(b, p)
    \/ \E c \in Consumers : Collect(b, c) \/ GiveBack(b, c)

Spec == Init /\ [][Next]_owner
=============================================================================
