------------------------------ MODULE MCSocket ------------------------------
(* Instances of Socket for TLC. *)
EXTENDS Socket, TLC

Symmetry == Permutations(Conns) \cup Permutations(Reads) \cup Permutations(Writes)

(* No step depends on what an answer was, only on whether one was given. *)
Given == [r \in Requests |-> IF answers[r] \in Status THEN "given" ELSE answers[r]]
Observed == <<transportVars, state, connectQ, readQ, writeQ, pc, depth, Given>>
=============================================================================
