----------------------------- MODULE MCMqConnect -----------------------------
(* TLC instance of MqConnect: a process that hosts Human. *)
EXTENDS MqConnect

CONSTANTS Human, Robot, add, count

\* One method of its own, one of Robot.
Methods == <<add>>
MethodModels == [o \in {add, count} |-> IF o = count THEN Robot ELSE Human]
=============================================================================
