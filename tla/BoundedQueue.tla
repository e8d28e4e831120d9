---------------------------- MODULE BoundedQueue ----------------------------
(***************************************************************************)
(* A FreeRTOS queue of pointers as the component uses it: xQueueCreate     *)
(* gives it a capacity, xQueueSend with no wait refuses an element when    *)
(* the queue is full, and the callers rarely look at the result.           *)
(***************************************************************************)
EXTENDS Integers, Sequences, FiniteSets, Functions

Full(queue, capacity) == Len(queue) >= capacity

Send(queue, capacity, x) ==
  IF Full(queue, capacity) THEN queue ELSE Append(queue, x)
=============================================================================
