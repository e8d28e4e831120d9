------------------------------ MODULE MCIoTask ------------------------------
(* Model-checking instance of IoTask: buffers and tasks are interchangeable *)
(* in the safety run.                                                       *)
EXTENDS IoTask, TLC

Symmetry == Permutations(Buffers) \cup Permutations(Tasks)
=============================================================================
