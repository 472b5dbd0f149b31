------------------------------ MODULE RemoteCall ------------------------------
(***************************************************************************)
(* What a remote call promises its caller: abstract specification of the   *)
(* request and reply over RabbitMQ in ioMiddleware/mq.js.                  *)
(*                                                                         *)
(* A call may be executed any number of times.  Its callback is resumed    *)
(* with an Error or with the outcome of one of those executions: with at   *)
(* most one outcome, and at most twice in all.                             *)
(***************************************************************************)
EXTENDS Naturals, Sequences

CONSTANTS
  Calls,   \* calls made, each with a callback
  Codes,   \* what an execution may end with
  Error    \* what a callback is resumed with when the call failed

VARIABLES
  outcomes,   \* outcomes[e]: what the executions of e ended with so far
  told        \* told[e]: what the callback of e was resumed with, in order

vars == <<outcomes, told>>

Init ==
  /\ outcomes = [e \in Calls |-> {}]
  /\ told = [e \in Calls |-> <<>>]

Execute(e, code) ==
  /\ outcomes' = [outcomes EXCEPT ![e] = @ \cup {code}]
  /\ UNCHANGED told

\* The first outcome that the caller is told, perhaps after one Error.
Reply(e, code) ==
  /\ code \in outcomes[e]
  /\ told[e] \in {<<>>, <<Error>>}
  /\ told' = [told EXCEPT ![e] = Append(@, code)]
  /\ UNCHANGED outcomes

\* Some calls end with an Error, perhaps after they ended with something else.
Fail(S) ==
  /\ \A e \in S : Len(told[e]) <= 1
  /\ told' = [e \in Calls |-> IF e \in S THEN Append(told[e], Error) ELSE told[e]]
  /\ UNCHANGED outcomes

Next ==
  \/ \E e \in Calls : \E code \in Codes : Execute(e, code) \/ Reply(e, code)
  \/ \E S \in SUBSET Calls : Fail(S)

Spec == Init /\ [][Next]_vars
=============================================================================
