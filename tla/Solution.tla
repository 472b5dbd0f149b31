------------------------------- MODULE Solution -------------------------------
(***************************************************************************)
(* The runner of solutions in conventions/core.js.  A solution is a        *)
(* sequence of steps and catches.  Each is invoked with a closure, next,   *)
(* which invokes the next step or, given an Error, the next catch; when    *)
(* there is none, the callback of the whole solution is called.            *)
(*                                                                         *)
(* An invoked function may call its next before it returns, so that what   *)
(* follows runs inside it; or later, from the event loop; or throw, which  *)
(* calls its next with the Error; or do more than one of these.            *)
(***************************************************************************)
EXTENDS Naturals, Sequences, FiniteSets

CONSTANTS
  Programs,   \* solutions, each a sequence of "step" and "catch"
  Errors,     \* what may be thrown or passed to next
  None,       \* no Error
  MaxReuses   \* bound: calls of a next that was called before

\* What Solution, Step and Catch build: the first function is a step.
Solutions == {p \in Seq({"step", "catch"}) : Len(p) > 0 /\ p[1] = "step"}

ASSUME SolutionAssumption ==
  /\ Programs \subseteq Solutions
  /\ None \notin Errors
  /\ MaxReuses \in Nat

VARIABLES
  type,    \* type of each function of the solution: "step" or "catch"
  invs,    \* invocations so far, in order
  uses,    \* uses[i]: calls of the next of invocation i
  stack,   \* invocations that have not returned, innermost last
  done,    \* calls of the callback
  reuses   \* calls of a next that was called before

vars == <<type, invs, uses, stack, done, reuses>>

\* index: of the function; error: what it was given.
Invocations == [index : Nat \ {0}, error : Errors \cup {None}]

\* from: index of the function whose next called back.
Callbacks == [from : Nat \ {0}, error : Errors \cup {None}]

TypeOK ==
  /\ type \in Programs
  /\ invs \in Seq(Invocations)
  /\ \A i \in 1 .. Len(invs) : invs[i].index <= Len(type)
  /\ uses \in Seq(0 .. MaxReuses + 1) /\ Len(uses) = Len(invs)
  /\ stack \in Seq(1 .. Len(invs))
  /\ done \in Seq(Callbacks)
  /\ reuses \in 0 .. MaxReuses

Init ==
  /\ type \in Programs
  /\ invs = <<[index |-> 1, error |-> None]>>
  /\ uses = <<0>>
  /\ stack = <<1>>
  /\ done = <<>>
  /\ reuses = 0

-----------------------------------------------------------------------------
Wanted(error) == IF error = None THEN "step" ELSE "catch"

\* Mutant: the last function is never reached.
MutantCandidates(index, error) == {k \in index + 1 .. Len(type) - 1 : type[k] = Wanted(error)}

\* The functions after index that take what next was given.
Candidates(index, error) == {k \in index + 1 .. Len(type) : type[k] = Wanted(error)}

First(S) == CHOOSE k \in S : \A m \in S : k <= m

\* Mutant: an Error that nothing catches is dropped.
MutantCallBack(i, error) ==
  done' = IF error = None THEN Append(done, [from |-> invs[i].index, error |-> error]) ELSE done

CallBack(i, error) == done' = Append(done, [from |-> invs[i].index, error |-> error])

\* The next of invocation i is called, under the functions of below.
Use(i, error, below) ==
  LET found == Candidates(invs[i].index, error)
      used == [uses EXCEPT ![i] = @ + 1]
  IN
  /\ IF uses[i] = 0 THEN UNCHANGED reuses
                    ELSE reuses < MaxReuses /\ reuses' = reuses + 1
  /\ IF found = {}
     THEN /\ CallBack(i, error)
          /\ uses' = used
          /\ stack' = below
          /\ UNCHANGED invs
     ELSE /\ invs' = Append(invs, [index |-> First(found), error |-> error])
          /\ uses' = Append(used, 0)
          /\ stack' = Append(below, Len(invs) + 1)
          /\ UNCHANGED done
  /\ UNCHANGED type

Top == stack[Len(stack)]
Below == SubSeq(stack, 1, Len(stack) - 1)

\* The running function calls its next.
CallNext(error) == stack # <<>> /\ Use(Top, error, stack)

\* Mutant: the Error thrown replaces the one the catch was given.
MutantHanded(i, error) == error

\* What next is given when invocation i throws.
Handed(i, error) == IF invs[i].error = None THEN error ELSE invs[i].error

Throw(error) == stack # <<>> /\ Use(Top, Handed(Top, error), Below)

Return == stack # <<>> /\ stack' = Below /\ UNCHANGED <<type, invs, uses, done, reuses>>

\* A function that has returned calls its next, from a turn of its own.
CallLater(i, error) == stack = <<>> /\ Use(i, error, <<>>)

Later == \E i \in 1 .. Len(invs), error \in Errors \cup {None} : CallLater(i, error)

Next ==
  \/ \E error \in Errors \cup {None} : CallNext(error)
  \/ \E error \in Errors : Throw(error)
  \/ Return
  \/ Later

Spec == Init /\ [][Next]_vars

\* Functions return, and each calls its next in the end.
FairSpec == Spec /\ WF_vars(Return) /\ WF_vars(Later)

-----------------------------------------------------------------------------
(* Properties.                                                             *)

Unused == {i \in 1 .. Len(uses) : uses[i] = 0}

\* Each call of a next leads to one more invocation or one call of the
\* callback: nothing is lost or repeated but by a function that uses its next
\* never or again (core.js:92 and 96 are the two ends of every call).
Conserved == Len(done) + Cardinality(Unused) = 1 + reuses

\* The callback is called only past the end: with an Error when no catch
\* follows the function that failed, without one when no step follows.
CalledBackAtEnd ==
  \A n \in 1 .. Len(done) :
    \A k \in done[n].from + 1 .. Len(type) : type[k] # Wanted(done[n].error)

\* A catch that fails does not hide the Error it was given: what it throws is
\* dropped for that Error (core.js:96).
FirstErrorKept ==
  [][\A error \in Errors : Throw(error) /\ invs[Top].error # None =>
       \/ done' = Append(done, [from |-> invs[Top].index, error |-> invs[Top].error])
       \/ Len(invs') > Len(invs) /\ invs'[Len(invs')].error = invs[Top].error]_vars

\* A solution whose functions all use their next ends.
EventuallyCalledBack == <>(done # <<>>)
=============================================================================
