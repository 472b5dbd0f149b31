--------------------------- MODULE MCStatefulCache ---------------------------
(* TLC instance of StatefulCache. *)
EXTENDS StatefulCache, TLC

Symmetry == Permutations(Callers)
=============================================================================
