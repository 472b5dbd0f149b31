------------------------------ MODULE MCSolution ------------------------------
(* TLC instances of Solution: every solution of a bounded length. *)
EXTENDS Solution

CONSTANT MaxLen   \* bound: length of a solution

AllPrograms ==
  UNION {{p \in [1 .. n -> {"step", "catch"}] : p[1] = "step"} : n \in 1 .. MaxLen}
=============================================================================
