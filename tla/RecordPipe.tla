------------------------------ MODULE RecordPipe ------------------------------
(***************************************************************************)
(* What a secured connection promises: each end reads the other end's      *)
(* records in the order they were sent, each once, none left out, none     *)
(* made up.  It may stop anywhere, and a new connection starts over.       *)
(***************************************************************************)
EXTENDS Naturals, Sequences

CONSTANT Directions

VARIABLES
  sent, \* the records sent on this connection, by direction
  got   \* the records the other end has taken for true

Empty == [d \in Directions |-> <<>>]

Init == sent = Empty /\ got = Empty

Send(d) ==
  /\ sent' = [sent EXCEPT ![d] = Append(@, Len(@) + 1)]
  /\ UNCHANGED got

Deliver(d) ==
  /\ Len(got[d]) < Len(sent[d])
  /\ got' = [got EXCEPT ![d] = Append(@, sent[d][Len(@) + 1])]
  /\ UNCHANGED sent

StartOver == sent' = Empty /\ got' = Empty

Next == StartOver \/ \E d \in Directions : Send(d) \/ Deliver(d)

Spec == Init /\ [][Next]_<<sent, got>>
=============================================================================
