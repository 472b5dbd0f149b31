---------------------------- MODULE StatefulCache ----------------------------
(***************************************************************************)
(* One key of the cache in conventions/statefulCache.js, together with the *)
(* callers that share it: the retrying _connect functions of               *)
(* ioMiddleware/mongo.js, cron.js and mq.js.                               *)
(*                                                                         *)
(* The cell of the key is null, an array of waiting callbacks, or the      *)
(* established resource.  A caller that finds it null opens the resource   *)
(* and waits; one that finds an array only waits; one that finds the       *)
(* resource resumes its continuation at once.  When the opener answers,    *)
(* process.nextTick stores the outcome and resumes every callback of the   *)
(* array.  An array and the resource opened for it share one id.           *)
(*                                                                         *)
(* JavaScript runs a turn to its end, so each action below is one turn.    *)
(***************************************************************************)
EXTENDS Naturals, FiniteSets

CONSTANTS
  Callers,     \* continuations waiting for the resource
  MaxFaults    \* bound: failed attempts and losses of a resource

ASSUME CacheAssumption == MaxFaults \in Nat

VARIABLES
  cell,       \* cache[key]
  opened,     \* number of arrays created so far: the ids in use are 1 .. opened
  opens,      \* opens[i]: how often the opener was invoked for array i
  waiters,    \* waiters[i]: the callbacks in array i
  resource,   \* resource[i]: state of the attempt for array i
  listeners,  \* listeners[i]: callers whose _retry listens to 'close' of i
  st,         \* st[c]: where caller c is
  resumes,    \* resumes[c]: how often the continuation of c was resumed
  faults      \* faults so far

vars == <<cell, opened, opens, waiters, resource, listeners, st, resumes, faults>>

Ids == 1 .. MaxFaults + 1

Null == [kind |-> "null", id |-> 0]
Waiting(i) == [kind |-> "waiting", id |-> i]
Ready(i) == [kind |-> "ready", id |-> i]
Cells == {Null} \cup {Waiting(i) : i \in Ids} \cup {Ready(i) : i \in Ids}

\* "opened" and "refused": the opener has called back and the tick is queued.
\* "closed": closed without an error; "dead": after one, or never there.
Resources == {"none", "opening", "opened", "refused", "live", "errored", "closed", "dead"}
Pending == {"opening", "opened", "refused"}

TypeOK ==
  /\ cell \in Cells
  /\ opened \in 0 .. MaxFaults + 1
  /\ opens \in [Ids -> Nat]
  /\ waiters \in [Ids -> SUBSET Callers]
  /\ resource \in [Ids -> Resources]
  /\ listeners \in [Ids -> SUBSET Callers]
  /\ st \in [Callers -> {"idle", "waiting", "delay", "resumed"}]
  /\ resumes \in [Callers -> Nat]
  /\ faults \in 0 .. MaxFaults

Init ==
  /\ cell = Null
  /\ opened = 0
  /\ opens = [i \in Ids |-> 0]
  /\ waiters = [i \in Ids |-> {}]
  /\ resource = [i \in Ids |-> "none"]
  /\ listeners = [i \in Ids |-> {}]
  /\ st = [c \in Callers |-> "idle"]
  /\ resumes = [c \in Callers |-> 0]
  /\ faults = 0

-----------------------------------------------------------------------------
(* The cache.                                                              *)

\* Mutant: the setter goes to every caller that does not find the resource.
MutantIsSetter(i) == TRUE

\* The setter is handed out with an empty array only: the first to see it.
IsSetter(i) == waiters[i] = {}

\* Mutant: hasListeners is not looked at.
MutantAttach(i, c) == listeners' = [listeners EXCEPT ![i] = @ \cup {c}]

\* One listener per resource: the guard on hasListeners.
Attach(i, c) == listeners' = [listeners EXCEPT ![i] = IF @ = {} THEN {c} ELSE @]

\* The value an answered attempt leaves in the cell: the resource, or
\* undefined, which the next reader treats as null.
StoredOutcome(i) == IF resource[i] = "opened" THEN Ready(i) ELSE Null

\* Mutant: an error is logged and the callbacks are not run.
MutantResumed(i) == IF resource[i] = "opened" THEN waiters[i] ELSE {}

\* The callbacks that the tick of array i invokes.
Resumed(i) == waiters[i]

\* Mutant: no deleter at all.
MutantDeletedState == cell

\* What the 'error' handler leaves in the cell.
DeletedState == Null

\* getStatefulCache finds null or an array: c waits, and opens the resource if
\* it is the first.
AwaitState(c) ==
  /\ cell.kind # "ready"
  /\ LET i == IF cell.kind = "null" THEN opened + 1 ELSE cell.id IN
     /\ i \in Ids
     /\ cell' = Waiting(i)
     /\ opened' = IF cell.kind = "null" THEN i ELSE opened
     /\ IF IsSetter(i)
        THEN /\ opens' = [opens EXCEPT ![i] = @ + 1]
             /\ resource' = [resource EXCEPT ![i] = "opening"]
        ELSE UNCHANGED <<opens, resource>>
     /\ waiters' = [waiters EXCEPT ![i] = @ \cup {c}]
  /\ st' = [st EXCEPT ![c] = "waiting"]
  /\ UNCHANGED <<listeners, resumes, faults>>

\* getStatefulCache finds the resource: c uses it and resumes.
UseState(c) ==
  /\ cell.kind = "ready"
  /\ Attach(cell.id, c)
  /\ st' = [st EXCEPT ![c] = "resumed"]
  /\ resumes' = [resumes EXCEPT ![c] = @ + 1]
  /\ UNCHANGED <<cell, opened, opens, waiters, resource, faults>>

-----------------------------------------------------------------------------
(* The callers.                                                            *)

\* A first call of _connect.
Call(c) == st[c] = "idle" /\ (AwaitState(c) \/ UseState(c))

\* The setTimeout of a caller that was resumed with an error.
Timeout(c) == st[c] = "delay" /\ (AwaitState(c) \/ UseState(c))

-----------------------------------------------------------------------------
(* The opener and the resource: MongoClient.connect or amq.connect.        *)

\* The opener calls back, which queues the tick.
OpenSucceeds(i) ==
  /\ resource[i] = "opening"
  /\ resource' = [resource EXCEPT ![i] = "opened"]
  /\ UNCHANGED <<cell, opened, opens, waiters, listeners, st, resumes, faults>>

OpenFails(i) ==
  /\ resource[i] = "opening"
  /\ faults < MaxFaults
  /\ resource' = [resource EXCEPT ![i] = "refused"]
  /\ faults' = faults + 1
  /\ UNCHANGED <<cell, opened, opens, waiters, listeners, st, resumes>>

\* The queued tick after a success: store the resource and resume the
\* callbacks, the first of which adds the listeners.
TickReady(i) ==
  /\ resource[i] = "opened"
  /\ cell' = StoredOutcome(i)
  /\ resource' = [resource EXCEPT ![i] = "live"]
  /\ \E c \in waiters[i] : Attach(i, c)
  /\ st' = [c \in Callers |-> IF c \in Resumed(i) THEN "resumed" ELSE st[c]]
  /\ resumes' = [c \in Callers |-> resumes[c] + IF c \in Resumed(i) THEN 1 ELSE 0]
  /\ waiters' = [waiters EXCEPT ![i] = {}]
  /\ UNCHANGED <<opened, opens, faults>>

\* The queued tick after a failure: every callback gets the error, and delays.
TickRefused(i) ==
  /\ resource[i] = "refused"
  /\ cell' = StoredOutcome(i)
  /\ resource' = [resource EXCEPT ![i] = "dead"]
  /\ st' = [c \in Callers |-> IF c \in Resumed(i) THEN "delay" ELSE st[c]]
  /\ waiters' = [waiters EXCEPT ![i] = {}]
  /\ UNCHANGED <<opened, opens, listeners, resumes, faults>>

\* 'error' of an established resource runs the deleter.
ErrorEvent(i) ==
  /\ resource[i] = "live"
  /\ faults < MaxFaults
  /\ cell' = DeletedState
  /\ resource' = [resource EXCEPT ![i] = "errored"]
  /\ faults' = faults + 1
  /\ UNCHANGED <<opened, opens, waiters, listeners, st, resumes>>

\* 'close' runs the _retry of the caller that listens, which passes through
\* _connect again at once or, when 'close' carries an error, after the delay.
\* Both are the caller in "delay": Timeout may follow at once.
Retry(i, end) ==
  /\ resource' = [resource EXCEPT ![i] = end]
  /\ st' = [c \in Callers |-> IF c \in listeners[i] THEN "delay" ELSE st[c]]
  /\ UNCHANGED <<cell, opened, opens, waiters, listeners, resumes>>

CloseAfterError(i) == resource[i] = "errored" /\ Retry(i, "dead") /\ UNCHANGED faults

\* A connection may close without an error.
CloseAlone(i) ==
  /\ resource[i] = "live"
  /\ faults < MaxFaults
  /\ faults' = faults + 1
  /\ Retry(i, "closed")

-----------------------------------------------------------------------------
Next ==
  \/ \E c \in Callers : Call(c) \/ Timeout(c)
  \/ \E i \in Ids :
       \/ OpenSucceeds(i) \/ OpenFails(i)
       \/ TickReady(i) \/ TickRefused(i)
       \/ ErrorEvent(i) \/ CloseAfterError(i) \/ CloseAlone(i)

Spec == Init /\ [][Next]_vars

\* Timers fire, ticks run, an opener answers and a resource that failed closes.
\* Nothing obliges a caller to call, or anything to fail.
Fairness ==
  /\ \A c \in Callers : WF_vars(Timeout(c))
  /\ \A i \in Ids :
       /\ WF_vars(OpenSucceeds(i) \/ OpenFails(i))
       /\ WF_vars(TickReady(i) \/ TickRefused(i))
       /\ WF_vars(CloseAfterError(i))

FairSpec == Spec /\ Fairness

-----------------------------------------------------------------------------
(* Properties.                                                             *)

Closed == {i \in Ids : resource[i] \in {"closed", "dead"} /\ listeners[i] # {}}

Active(i) == resource[i] \in Pending \cup {"live"}

\* At most one attempt or resource exists at a time, and none was opened twice:
\* callers that race for the resource share the one that the first opened
\* (statefulCache.js:15 hands the setter to the first caller only).
SingleFlight ==
  /\ \A i, j \in Ids : Active(i) /\ Active(j) => i = j
  /\ \A i \in Ids : opens[i] <= 1

\* A waiting caller is in the array that the cell holds, whose attempt is still
\* to answer: no interleaving of attempts, ticks and errors drops a callback
\* (statefulCache.js:10 runs every one of them).
NoLostCaller ==
  \A c \in Callers : st[c] = "waiting" =>
    /\ cell.kind = "waiting"
    /\ c \in waiters[cell.id]
    /\ resource[cell.id] \in Pending

\* A continuation runs again only when a resource closed whose 'close' it
\* listened to, once for each such resource, and a resource that closes replays
\* at most one: all other callers run once (mongo.js:214 and mq.js:251 attach
\* the _retry of the first caller only).
ReplayedOnlyByClose ==
  /\ \A c \in Callers : resumes[c] <= 1 + Cardinality({i \in Closed : c \in listeners[i]})
  /\ Cardinality({c \in Callers : resumes[c] > 1}) <= Cardinality(Closed)

\* Whoever is resumed gets a resource in one of these states.
ResumedWith(states) ==
  \A c \in Callers : resumes'[c] # resumes[c] =>
    cell'.kind = "ready" /\ resource'[cell'.id] \in states

\* Whoever is resumed gets a resource that is established
\* (mq.js:245, "retrieve established connection, or await establishment").
ResumedWithEstablished == [][ResumedWith({"live"})]_vars

\* Nobody is resumed with a resource that has emitted 'error', before or after
\* it closes: what is not established is one that closed without an error, for
\* which no deleter runs (mq.js:251 deletes on 'error' only).
ResumedUnlessErrored == [][ResumedWith({"live", "closed"})]_vars
=============================================================================
