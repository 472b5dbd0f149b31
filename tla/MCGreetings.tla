------------------------------ MODULE MCGreetings ------------------------------
(* TLC instances of Greetings. *)
EXTENDS Greetings, TLC

Symmetry == Permutations(Humans) \cup Permutations(Requests)
=============================================================================
