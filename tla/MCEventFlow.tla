------------------------------ MODULE MCEventFlow ------------------------------
(* TLC instances of EventFlow. *)
EXTENDS EventFlow, TLC

Symmetry == Permutations(Hosts)
=============================================================================
