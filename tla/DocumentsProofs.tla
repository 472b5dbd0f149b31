--------------------------- MODULE DocumentsProofs ---------------------------
(***************************************************************************)
(* Proofs about StatefulCache, for any set of callers and number of        *)
(* faults, and about Documents, for any callers, operations and faults:    *)
(* what is proved about the cache holds of the callers that execute        *)
(* operations, and every execution is one answer to come.                  *)
(***************************************************************************)
EXTENDS Documents, FiniteSetTheorems, TLAPS

-----------------------------------------------------------------------------
(* The cache.                                                              *)

\* Ids not handed out yet are untouched, and no opener was invoked twice.
FreshIds ==
  /\ \A i \in Ids : i > opened => opens[i] = 0 /\ resource[i] = "none"
  /\ \A i \in Ids : opens[i] <= 1

\* The cell and the attempts agree: the one pending attempt is that of the
\* array in the cell, and a live resource is in the cell.
CellAgrees ==
  /\ cell.kind = "waiting" => resource[cell.id] \in Pending /\ waiters[cell.id] # {}
  /\ \A i \in Ids : resource[i] \in Pending => cell = Waiting(i)
  /\ \A i \in Ids : resource[i] = "live" => cell = Ready(i)
  /\ cell.kind = "ready" => resource[cell.id] \in {"live", "closed"}
  /\ cell.kind # "null" => cell.id \in 1 .. opened

\* A caller waits iff it is in the array of the cell.
WaitersAgree ==
  /\ \A i \in Ids : waiters[i] # {} => cell = Waiting(i)
  /\ \A c \in Callers : st[c] = "waiting" => cell.kind = "waiting" /\ c \in waiters[cell.id]
  /\ \A i \in Ids : \A c \in waiters[i] : st[c] = "waiting"

Open(i) == resource[i] \in {"live", "errored"}
Ended == {"closed", "dead"}

\* Who listens to a resource that has not closed yet was resumed with it and
\* listens to no other such resource.
ListenersAgree ==
  /\ \A i \in Ids : listeners[i] # {} => Open(i) \/ resource[i] \in Ended
  /\ \A i \in Ids : Open(i) => \A c \in listeners[i] : st[c] = "resumed"
  /\ \A i, j \in Ids : Open(i) /\ Open(j) /\ listeners[i] \cap listeners[j] # {} => i = j

IInv == TypeOK /\ FreshIds /\ CellAgrees /\ WaitersAgree /\ ListenersAgree


LEMMA InitIInv == Init => IInv
BY CacheAssumption
DEF Init, IInv, TypeOK, FreshIds, CellAgrees, WaitersAgree, ListenersAgree, Open, Ended,
    Cells, Null, Waiting, Ready, Ids, Resources, Pending

\* The cells are told apart by their kind and their id.
LEMMA CellShapes ==
  /\ Null.kind = "null"
  /\ \A i : Waiting(i).kind = "waiting" /\ Waiting(i).id = i
  /\ \A i : Ready(i).kind = "ready" /\ Ready(i).id = i
  /\ \A x \in Cells : \/ x = Null
                      \/ \E i \in Ids : x = Waiting(i) \/ x = Ready(i)
  /\ Null \in Cells
  /\ \A i \in Ids : Waiting(i) \in Cells /\ Ready(i) \in Cells
<1>1. \A x \in Cells : x = Null \/ \E i \in Ids : x = Waiting(i) \/ x = Ready(i)
  BY DEF Cells
<1>2. Null \in Cells /\ \A i \in Ids : Waiting(i) \in Cells /\ Ready(i) \in Cells
  BY DEF Cells
<1>3. /\ Null.kind = "null"
      /\ \A i : Waiting(i).kind = "waiting" /\ Waiting(i).id = i
      /\ \A i : Ready(i).kind = "ready" /\ Ready(i).id = i
  BY DEF Null, Waiting, Ready
<1> QED BY <1>1, <1>2, <1>3

\* A listener of a resource that is still open is resumed: a caller that is not
\* may be added as the listener of one.
LEMMA AttachListeners ==
  ASSUME IInv, NEW i \in Ids, NEW c \in Callers, st[c] # "resumed", Attach(i, c),
         st' \in [Callers -> {"idle", "waiting", "delay", "resumed"}], st'[c] = "resumed",
         \A d \in Callers : st[d] = "resumed" => st'[d] = "resumed",
         resource[i] \notin Ended, resource' = [resource EXCEPT ![i] = "live"]
  PROVE  ListenersAgree' /\ listeners' \in [Ids -> SUBSET Callers]
<1>1. listeners \in [Ids -> SUBSET Callers] /\ resource \in [Ids -> Resources]
  BY DEF IInv, TypeOK
<1>2. listeners' \in [Ids -> SUBSET Callers]
  BY <1>1 DEF Attach
<1>3. /\ \A j \in Ids \ {i} : listeners'[j] = listeners[j] /\ resource'[j] = resource[j]
      /\ listeners'[i] = IF listeners[i] = {} THEN {c} ELSE listeners[i]
      /\ resource'[i] = "live"
  BY <1>1 DEF Attach
<1>4. \A j \in Ids : Open(j) => c \notin listeners[j]
  BY DEF IInv, ListenersAgree
<1>5. listeners[i] # {} => Open(i) \/ resource[i] \in Ended
  BY DEF IInv, ListenersAgree
<1> QED
  BY <1>1, <1>2, <1>3, <1>4, <1>5 DEF IInv, ListenersAgree, Open, Ended

\* A pass of _connect keeps the invariant: it waits for the resource ...
LEMMA AwaitIInv ==
  ASSUME IInv, NEW c \in Callers, st[c] \in {"idle", "delay"}, AwaitState(c)
  PROVE  IInv'
<1> DEFINE i == IF cell.kind = "null" THEN opened + 1 ELSE cell.id
<1> USE CacheAssumption, CellShapes
<1>1. /\ i \in Ids
      /\ cell' = Waiting(i)
      /\ opened' = IF cell.kind = "null" THEN i ELSE opened
      /\ waiters' = [waiters EXCEPT ![i] = @ \cup {c}]
      /\ st' = [st EXCEPT ![c] = "waiting"]
      /\ UNCHANGED <<listeners, resumes, faults>>
  BY DEF AwaitState
<1>2. cell = Null \/ \E k \in Ids : cell = Waiting(k)
  BY DEF AwaitState, IInv, TypeOK
<1>3. \A k \in Ids : Open(k) => c \notin listeners[k]
  BY DEF IInv, ListenersAgree
<1>4. CASE cell = Null
  <2>1. i = opened + 1 /\ opened' = i /\ i \in Nat
    BY <1>1, <1>4 DEF Ids, IInv, TypeOK
  <2>2. waiters[i] = {} /\ opens[i] = 0 /\ resource[i] = "none"
    BY <1>1, <1>4, <2>1 DEF IInv, TypeOK, FreshIds, WaitersAgree
  <2>3. /\ opens' = [opens EXCEPT ![i] = @ + 1]
        /\ resource' = [resource EXCEPT ![i] = "opening"]
    BY <1>4, <2>1, <2>2 DEF AwaitState, IsSetter
  <2>4. TypeOK'
    BY <1>1, <2>1, <2>3 DEF IInv, TypeOK, Resources, Ids
  <2>5. FreshIds'
    BY <1>1, <2>1, <2>2, <2>3 DEF IInv, TypeOK, FreshIds, Ids
  <2>6. CellAgrees'
    <3>1. resource'[i] = "opening" /\ \A k \in Ids \ {i} : resource'[k] = resource[k]
      BY <1>1, <2>3 DEF IInv, TypeOK
    <3>2. \A k \in Ids : resource[k] \notin Pending \cup {"live"}
      BY <1>4 DEF IInv, CellAgrees
    <3>3. waiters'[i] # {}
      BY <1>1 DEF IInv, TypeOK
    <3>4. i \in 1 .. opened'
      BY <1>1, <2>1 DEF Ids
    <3> QED BY <1>1, <3>1, <3>2, <3>3, <3>4 DEF CellAgrees, Pending
  <2>7. WaitersAgree'
    BY <1>1, <1>4, <2>2 DEF IInv, TypeOK, WaitersAgree
  <2>8. ListenersAgree'
    BY <1>1, <1>3, <2>2, <2>3 DEF IInv, TypeOK, ListenersAgree, Open, Ended
  <2> QED BY <2>4, <2>5, <2>6, <2>7, <2>8 DEF IInv
<1>5. ASSUME NEW k \in Ids, cell = Waiting(k) PROVE IInv'
  <2>1. i = k /\ waiters[i] # {}
    BY <1>5 DEF IInv, CellAgrees
  <2>2. UNCHANGED <<opens, resource, opened, cell>>
    BY <1>1, <1>5, <2>1 DEF AwaitState, IsSetter
  <2>3. TypeOK' /\ FreshIds'
    BY <1>1, <2>2 DEF IInv, TypeOK, FreshIds
  <2>4. CellAgrees'
    BY <1>1, <1>5, <2>1, <2>2 DEF IInv, TypeOK, CellAgrees
  <2>5. WaitersAgree'
    BY <1>1, <1>5, <2>1, <2>2 DEF IInv, TypeOK, WaitersAgree
  <2>6. ListenersAgree'
    BY <1>1, <1>3, <2>2 DEF IInv, TypeOK, ListenersAgree, Open, Ended
  <2> QED BY <2>3, <2>4, <2>5, <2>6 DEF IInv
<1> QED BY <1>2, <1>4, <1>5

\* ... or uses it.
LEMMA UseIInv ==
  ASSUME IInv, NEW c \in Callers, st[c] \in {"idle", "delay"}, UseState(c)
  PROVE  IInv'
<1> USE CacheAssumption, CellShapes
<1>1. PICK i \in Ids : cell = Ready(i)
  BY DEF UseState, IInv, TypeOK
<1>2. /\ cell.id = i /\ Attach(i, c)
      /\ st' = [st EXCEPT ![c] = "resumed"]
      /\ resumes' = [resumes EXCEPT ![c] = @ + 1]
      /\ UNCHANGED <<cell, opened, opens, waiters, resource, faults>>
  BY <1>1 DEF UseState
<1>3. TypeOK'
  BY <1>2 DEF Attach, IInv, TypeOK
<1>4. FreshIds' /\ CellAgrees'
  BY <1>2 DEF IInv, FreshIds, CellAgrees
<1>5. WaitersAgree'
  BY <1>1, <1>2 DEF IInv, TypeOK, WaitersAgree
<1>6. resource[i] \in {"live", "closed"}
  BY <1>1 DEF IInv, CellAgrees
<1>7. ListenersAgree'
  <2>1. \A k \in Ids : Open(k) => c \notin listeners[k]
    BY DEF IInv, ListenersAgree
  <2>2. /\ \A k \in Ids \ {i} : listeners'[k] = listeners[k]
        /\ listeners'[i] = IF listeners[i] = {} THEN {c} ELSE listeners[i]
    BY <1>2 DEF Attach, IInv, TypeOK
  <2>3. \A k \in Ids : Open(k)' <=> Open(k)
    BY <1>2 DEF Open, Ended
  <2>4. \A d \in Callers : st'[d] = IF d = c THEN "resumed" ELSE st[d]
    BY <1>2 DEF IInv, TypeOK
  <2>5. listeners \in [Ids -> SUBSET Callers]
    BY DEF IInv, TypeOK
  <2>6. \A k \in Ids : listeners'[k] # {} => Open(k)' \/ resource'[k] \in Ended
    BY <1>2, <1>6, <2>2 DEF IInv, ListenersAgree, Open, Ended
  <2>7. \A k \in Ids : Open(k)' => \A d \in listeners'[k] : st'[d] = "resumed"
    BY <2>2, <2>3, <2>4, <2>5 DEF IInv, ListenersAgree
  <2>8. ASSUME NEW j \in Ids, NEW k \in Ids, Open(j)', Open(k)',
               listeners'[j] \cap listeners'[k] # {}
        PROVE  j = k
    BY <2>1, <2>2, <2>3, <2>8 DEF IInv, ListenersAgree
  <2> QED BY <2>6, <2>7, <2>8 DEF ListenersAgree
<1> QED BY <1>3, <1>4, <1>5, <1>7 DEF IInv

\* The opener, the ticks and the events of the resource keep the invariant.
LEMMA OpenIInv ==
  ASSUME IInv, NEW i \in Ids, OpenSucceeds(i) \/ OpenFails(i)
  PROVE  IInv'
<1> USE CacheAssumption, CellShapes
<1>1. cell = Waiting(i)
  BY DEF IInv, CellAgrees, OpenSucceeds, OpenFails, Pending
<1>2. /\ resource[i] = "opening"
      /\ resource'[i] \in {"opened", "refused"}
      /\ \A k \in Ids \ {i} : resource'[k] = resource[k]
      /\ UNCHANGED <<cell, opened, opens, waiters, listeners, st, resumes>>
  BY DEF OpenSucceeds, OpenFails, IInv, TypeOK
<1>3. TypeOK'
  BY DEF OpenSucceeds, OpenFails, IInv, TypeOK, Resources
<1>4. FreshIds'
  BY <1>2 DEF IInv, FreshIds
<1>5. CellAgrees'
  BY <1>1, <1>2 DEF IInv, CellAgrees, Pending
<1>6. WaitersAgree'
  BY <1>1, <1>2 DEF IInv, WaitersAgree
<1>7. ListenersAgree'
  BY <1>2 DEF IInv, ListenersAgree, Open, Ended
<1> QED BY <1>3, <1>4, <1>5, <1>6, <1>7 DEF IInv

LEMMA TickReadyIInv ==
  ASSUME IInv, NEW i \in Ids, TickReady(i)
  PROVE  IInv'
<1> USE CacheAssumption, CellShapes
<1>1. cell = Waiting(i) /\ resource[i] = "opened" /\ i \in 1 .. opened
  BY DEF IInv, CellAgrees, TickReady, Pending
<1>2. /\ cell' = Ready(i)
      /\ resource' = [resource EXCEPT ![i] = "live"]
      /\ st' = [c \in Callers |-> IF c \in waiters[i] THEN "resumed" ELSE st[c]]
      /\ waiters' = [waiters EXCEPT ![i] = {}]
      /\ UNCHANGED <<opened, opens, faults>>
  BY <1>1 DEF TickReady, StoredOutcome, Resumed
<1>3. PICK c \in waiters[i] : Attach(i, c)
  BY DEF TickReady
<1>4. /\ resource'[i] = "live"
      /\ \A k \in Ids \ {i} : resource'[k] = resource[k] /\ waiters'[k] = waiters[k]
      /\ waiters'[i] = {}
  BY <1>2 DEF IInv, TypeOK
<1>5. /\ c \in Callers /\ st[c] = "waiting" /\ st'[c] = "resumed"
      /\ st' \in [Callers -> {"idle", "waiting", "delay", "resumed"}]
      /\ \A d \in Callers : st[d] = "resumed" => st'[d] = "resumed"
  BY <1>2, <1>3 DEF IInv, TypeOK, WaitersAgree
<1>6. ListenersAgree' /\ listeners' \in [Ids -> SUBSET Callers]
  BY <1>1, <1>2, <1>3, <1>5, AttachListeners DEF Ended
<1>7. resumes' \in [Callers -> Nat]
  BY DEF TickReady, IInv, TypeOK
<1>8. TypeOK'
  BY <1>2, <1>5, <1>6, <1>7 DEF IInv, TypeOK, Resources
<1>9. FreshIds'
  BY <1>1, <1>2, <1>4 DEF IInv, TypeOK, FreshIds, Ids
<1>10. CellAgrees'
  BY <1>1, <1>2, <1>4 DEF IInv, CellAgrees, Pending
<1>11. WaitersAgree'
  BY <1>1, <1>2, <1>4 DEF IInv, WaitersAgree
<1> QED BY <1>6, <1>8, <1>9, <1>10, <1>11 DEF IInv

LEMMA TickRefusedIInv ==
  ASSUME IInv, NEW i \in Ids, TickRefused(i)
  PROVE  IInv'
<1> USE CacheAssumption, CellShapes
<1>1. cell = Waiting(i) /\ resource[i] = "refused" /\ i \in 1 .. opened
  BY DEF IInv, CellAgrees, TickRefused, Pending
<1>2. /\ cell' = Null
      /\ resource' = [resource EXCEPT ![i] = "dead"]
      /\ st' = [c \in Callers |-> IF c \in waiters[i] THEN "delay" ELSE st[c]]
      /\ waiters' = [waiters EXCEPT ![i] = {}]
      /\ UNCHANGED <<opened, opens, listeners, resumes, faults>>
  BY <1>1 DEF TickRefused, StoredOutcome, Resumed
<1>3. /\ resource'[i] = "dead"
      /\ \A k \in Ids \ {i} : resource'[k] = resource[k] /\ waiters'[k] = waiters[k]
      /\ waiters'[i] = {}
  BY <1>2 DEF IInv, TypeOK
<1>4. \A c \in Callers : st[c] = "resumed" => st'[c] = "resumed"
  BY <1>2 DEF IInv, WaitersAgree
<1>5. TypeOK'
  BY <1>2 DEF IInv, TypeOK, Resources
<1>6. FreshIds'
  BY <1>1, <1>2, <1>3 DEF IInv, TypeOK, FreshIds, Ids
<1>7. CellAgrees'
  BY <1>1, <1>2, <1>3 DEF IInv, CellAgrees, Pending
<1>8. WaitersAgree'
  BY <1>1, <1>2, <1>3 DEF IInv, WaitersAgree
<1>9. ListenersAgree'
  <2>1. \A k \in Ids : Open(k)' => Open(k)
    BY <1>3 DEF Open, Ended
  <2>2. \A k \in Ids : listeners'[k] # {} => Open(k)' \/ resource'[k] \in Ended
    BY <1>2, <1>3 DEF IInv, ListenersAgree, Open, Ended
  <2>3. \A k \in Ids : Open(k)' => \A c \in listeners'[k] : st'[c] = "resumed"
    BY <1>2, <1>4, <2>1 DEF IInv, TypeOK, ListenersAgree
  <2> QED BY <1>2, <2>1, <2>2, <2>3 DEF IInv, ListenersAgree
<1> QED BY <1>5, <1>6, <1>7, <1>8, <1>9 DEF IInv

LEMMA ErrorIInv ==
  ASSUME IInv, NEW i \in Ids, ErrorEvent(i)
  PROVE  IInv'
<1> USE CacheAssumption, CellShapes
<1>1. cell = Ready(i) /\ cell' = Null /\ resource[i] = "live"
  BY DEF ErrorEvent, DeletedState, IInv, CellAgrees
<1>2. /\ resource'[i] = "errored"
      /\ \A k \in Ids \ {i} : resource'[k] = resource[k]
      /\ UNCHANGED <<opened, opens, waiters, listeners, st, resumes>>
  BY DEF ErrorEvent, IInv, TypeOK
<1>3. TypeOK'
  BY <1>1 DEF ErrorEvent, IInv, TypeOK, Resources
<1>4. FreshIds'
  BY <1>1, <1>2 DEF IInv, FreshIds
<1>5. CellAgrees' /\ WaitersAgree'
  BY <1>1, <1>2 DEF IInv, CellAgrees, WaitersAgree, Pending
<1>6. ListenersAgree'
  BY <1>1, <1>2 DEF IInv, ListenersAgree, Open, Ended
<1> QED BY <1>3, <1>4, <1>5, <1>6 DEF IInv

LEMMA CloseIInv ==
  ASSUME IInv, NEW i \in Ids, CloseAfterError(i) \/ CloseAlone(i)
  PROVE  IInv'
<1> USE CacheAssumption, CellShapes
<1>1. /\ Open(i)
      /\ resource[i] = "live" => cell = Ready(i)
  BY DEF CloseAfterError, CloseAlone, Open, IInv, CellAgrees
<1>2. /\ resource'[i] \in Ended
      /\ resource[i] = "live" => resource'[i] = "closed"
      /\ \A k \in Ids \ {i} : resource'[k] = resource[k]
      /\ st' = [c \in Callers |-> IF c \in listeners[i] THEN "delay" ELSE st[c]]
      /\ UNCHANGED <<cell, opened, opens, waiters, listeners, resumes>>
  BY DEF CloseAfterError, CloseAlone, Retry, IInv, TypeOK, Ended
<1>3. TypeOK'
  BY DEF CloseAfterError, CloseAlone, Retry, IInv, TypeOK, Resources
<1>4. FreshIds'
  BY <1>1, <1>2 DEF IInv, FreshIds, Open, Ended
<1>5. CellAgrees'
  <2>1. cell = Null \/ cell.id \in Ids
    BY DEF IInv, TypeOK
  <2>2. resource[i] \notin Pending
    BY <1>1 DEF Open, Pending
  <2> QED BY <1>1, <1>2, <2>1, <2>2 DEF IInv, CellAgrees, Pending, Open, Ended
<1>6. \A c \in listeners[i] : c \in Callers /\ st[c] = "resumed"
  BY <1>1 DEF IInv, TypeOK, ListenersAgree
<1>7. WaitersAgree'
  BY <1>2, <1>6 DEF IInv, TypeOK, WaitersAgree
<1>8. ListenersAgree'
  <2>1. \A k \in Ids : Open(k)' => k # i /\ Open(k)
    BY <1>2 DEF Open, Ended
  <2>2. \A k \in Ids : Open(k)' => listeners[k] \cap listeners[i] = {}
    BY <1>1, <2>1 DEF IInv, ListenersAgree
  <2>3. \A k \in Ids : listeners'[k] # {} => Open(k)' \/ resource'[k] \in Ended
    BY <1>2 DEF IInv, ListenersAgree, Open, Ended
  <2>4. \A k \in Ids : Open(k)' => \A c \in listeners'[k] : st'[c] = "resumed"
    BY <1>2, <2>1, <2>2 DEF IInv, TypeOK, ListenersAgree
  <2> QED BY <1>2, <2>1, <2>3, <2>4 DEF IInv, ListenersAgree
<1> QED BY <1>3, <1>4, <1>5, <1>7, <1>8 DEF IInv

LEMMA StutterIInv == IInv /\ UNCHANGED vars => IInv'
BY DEF vars, IInv, TypeOK, FreshIds, CellAgrees, WaitersAgree, ListenersAgree, Open, Ended

LEMMA NextIInv == IInv /\ [Next]_vars => IInv'
<1> SUFFICES ASSUME IInv, [Next]_vars PROVE IInv'
  OBVIOUS
<1>1. ASSUME NEW c \in Callers, Call(c) \/ Timeout(c) PROVE IInv'
  BY <1>1, AwaitIInv, UseIInv DEF Call, Timeout
<1>2. ASSUME NEW i \in Ids, OpenSucceeds(i) \/ OpenFails(i) PROVE IInv'
  BY <1>2, OpenIInv
<1>3. ASSUME NEW i \in Ids, TickReady(i) \/ TickRefused(i) PROVE IInv'
  BY <1>3, TickReadyIInv, TickRefusedIInv
<1>4. ASSUME NEW i \in Ids, ErrorEvent(i) \/ CloseAfterError(i) \/ CloseAlone(i) PROVE IInv'
  BY <1>4, ErrorIInv, CloseIInv
<1>5. CASE UNCHANGED vars
  BY <1>5, StutterIInv
<1> QED BY <1>1, <1>2, <1>3, <1>4, <1>5 DEF Next

\* The inductive invariant holds in every reachable state.
THEOREM Invariance == Spec => []IInv
<1>1. Init => IInv
  BY InitIInv
<1>2. IInv /\ [Next]_vars => IInv'
  BY NextIInv
<1> QED BY <1>1, <1>2, PTL DEF Spec

\* Every variable keeps its type.
THEOREM TypeCorrect == Spec => []TypeOK
<1>1. IInv => TypeOK
  BY DEF IInv
<1> QED BY <1>1, Invariance, PTL

\* Callers share one attempt or resource, and none is opened twice, for any
\* number of callers and faults.
THEOREM SharedResource == Spec => []SingleFlight
<1>1. IInv => SingleFlight
  BY CellShapes DEF IInv, FreshIds, CellAgrees, SingleFlight, Active
<1> QED BY <1>1, Invariance, PTL

\* No callback is dropped: who waits is in the array whose attempt is to answer.
THEOREM CallersKept == Spec => []NoLostCaller
<1>1. IInv => NoLostCaller
  BY DEF IInv, CellAgrees, WaitersAgree, NoLostCaller
<1> QED BY <1>1, Invariance, PTL

\* For any number of callers and faults, a caller is resumed with a resource
\* that is live or that closed without an error.
THEOREM ResumedUnlessFailed == Spec => ResumedUnlessErrored
<1> DEFINE A == ResumedWith({"live", "closed"})
<1>1. IInv /\ IInv' /\ [Next]_vars => [A]_vars
  <2> SUFFICES ASSUME IInv, IInv', [Next]_vars, ~UNCHANGED vars PROVE A
    OBVIOUS
  <2>1. cell'.kind = "ready" => resource'[cell'.id] \in {"live", "closed"}
    BY DEF IInv, CellAgrees
  <2>2. ASSUME NEW c \in Callers, Call(c) \/ Timeout(c) PROVE A
    BY <2>1, <2>2 DEF Call, Timeout, AwaitState, UseState, ResumedWith
  <2>3. ASSUME NEW i \in Ids, TickReady(i) PROVE A
    <3>1. cell' = Ready(i)
      BY <2>3 DEF TickReady, StoredOutcome
    <3> QED BY <2>1, <3>1, CellShapes DEF ResumedWith
  <2>4. ASSUME NEW i \in Ids,
               OpenSucceeds(i) \/ OpenFails(i) \/ TickRefused(i) \/ ErrorEvent(i)
                 \/ CloseAfterError(i) \/ CloseAlone(i)
        PROVE  A
    BY <2>4 DEF OpenSucceeds, OpenFails, TickRefused, ErrorEvent, CloseAfterError,
                CloseAlone, Retry, ResumedWith
  <2> QED BY <2>2, <2>3, <2>4 DEF Next
<1> QED BY <1>1, Invariance, PTL DEF Spec, ResumedUnlessErrored

-----------------------------------------------------------------------------
(* How often a continuation is resumed.                                    *)

\* The closed resources whose 'close' c listened to.
ClosedFor(c) == {i \in Closed : c \in listeners[i]}

\* A resource has one listener, and each resumption after the first was paid for
\* by a close.
Paid ==
  /\ \A i \in Ids : \A c, d \in listeners[i] : c = d
  /\ \A c \in Callers :
       resumes[c] <= Cardinality(ClosedFor(c)) + IF st[c] = "resumed" THEN 1 ELSE 0

LEMMA ClosedFinite ==
  /\ IsFiniteSet(Closed)
  /\ \A c : IsFiniteSet(ClosedFor(c)) /\ Cardinality(ClosedFor(c)) \in Nat
<1>1. IsFiniteSet(Ids)
  BY FS_Interval, CacheAssumption DEF Ids
<1>2. IsFiniteSet(Closed)
  BY <1>1, FS_Subset DEF Closed
<1>3. \A c : IsFiniteSet(ClosedFor(c))
  BY <1>2, FS_Subset DEF ClosedFor
<1> QED BY <1>2, <1>3, FS_CardinalityType

\* A closed resource stays closed, and its listener stays.
LEMMA ClosedStays ==
  ASSUME IInv, Next
  PROVE  /\ \A i \in Ids : resource[i] \in Ended => resource'[i] \in Ended
         /\ \A i \in Ids : listeners[i] \subseteq listeners'[i]
<1> USE CacheAssumption, CellShapes DEF Ended
<1> USE DEF IInv, TypeOK
<1>1. ASSUME NEW c \in Callers, AwaitState(c)
      PROVE  \A i \in Ids : resource[i] \in Ended => resource'[i] \in Ended
  <2> DEFINE i == IF cell.kind = "null" THEN opened + 1 ELSE cell.id
  <2>1. i \in Ids /\ resource' = (IF IsSetter(i) THEN [resource EXCEPT ![i] = "opening"] ELSE resource)
    BY <1>1 DEF AwaitState
  <2>2. CASE cell.kind = "null"
    <3>1. resource[i] = "none"
      BY <2>1, <2>2 DEF FreshIds, Ids
    <3> QED BY <2>1, <3>1
  <2>3. CASE cell.kind # "null"
    <3>1. waiters[i] # {}
      BY <1>1, <2>3 DEF AwaitState, CellAgrees, Cells
    <3> QED BY <2>1, <3>1 DEF IsSetter
  <2> QED BY <2>2, <2>3
<1>2. ASSUME NEW c \in Callers, Call(c) \/ Timeout(c)
      PROVE  /\ \A i \in Ids : resource[i] \in Ended => resource'[i] \in Ended
             /\ \A i \in Ids : listeners[i] \subseteq listeners'[i]
  <2>1. CASE AwaitState(c)
    BY <1>1, <2>1 DEF AwaitState
  <2>2. CASE UseState(c)
    BY <2>2 DEF UseState, Attach
  <2> QED BY <1>2, <2>1, <2>2 DEF Call, Timeout
<1>3. ASSUME NEW i \in Ids,
             OpenSucceeds(i) \/ OpenFails(i) \/ TickReady(i) \/ TickRefused(i) \/ ErrorEvent(i)
               \/ CloseAfterError(i) \/ CloseAlone(i)
      PROVE  /\ \A j \in Ids : resource[j] \in Ended => resource'[j] \in Ended
             /\ \A j \in Ids : listeners[j] \subseteq listeners'[j]
  BY <1>3 DEF OpenSucceeds, OpenFails, TickReady, TickRefused, ErrorEvent, CloseAfterError,
              CloseAlone, Retry, Attach
<1> QED BY <1>2, <1>3 DEF Next

\* What was paid stays paid.
LEMMA ClosedForGrows ==
  ASSUME IInv, IInv', Next, NEW c \in Callers
  PROVE  /\ ClosedFor(c) \subseteq ClosedFor(c)'
         /\ Cardinality(ClosedFor(c)) <= Cardinality(ClosedFor(c)')
         /\ Cardinality(ClosedFor(c)') \in Nat /\ IsFiniteSet(ClosedFor(c)')
<1>1. ClosedFor(c) \subseteq ClosedFor(c)'
  BY ClosedStays DEF ClosedFor, Closed, Ended
<1>2. IsFiniteSet(ClosedFor(c)') /\ Cardinality(ClosedFor(c)') \in Nat
  <2>1. IsFiniteSet(Ids) /\ ClosedFor(c)' \subseteq Ids
    BY FS_Interval, CacheAssumption DEF Ids, ClosedFor, Closed
  <2> QED BY <2>1, FS_Subset, FS_CardinalityType
<1> QED BY <1>1, <1>2, FS_Subset

LEMMA PaidStep ==
  ASSUME IInv, IInv', Next, Paid
  PROVE  Paid'
<1> USE CacheAssumption
<1> DEFINE Bound(c) == Cardinality(ClosedFor(c)) + IF st[c] = "resumed" THEN 1 ELSE 0
<1>1. /\ listeners \in [Ids -> SUBSET Callers] /\ resource \in [Ids -> Resources]
      /\ st \in [Callers -> {"idle", "waiting", "delay", "resumed"}]
      /\ resumes \in [Callers -> Nat]
  BY DEF IInv, TypeOK
<1>2. \A c \in Callers : Cardinality(ClosedFor(c)) \in Nat /\ Cardinality(ClosedFor(c)') \in Nat
                          /\ Cardinality(ClosedFor(c)) <= Cardinality(ClosedFor(c)')
  BY ClosedFinite, ClosedForGrows
<1>3. \A c \in Callers : resumes[c] <= Bound(c)
  BY DEF Paid
<1>4. \A i \in Ids : \A c, d \in listeners[i] : c = d
  BY DEF Paid
<1> HIDE DEF Bound
<1>5. ASSUME NEW c \in Callers, Call(c) \/ Timeout(c) PROVE Paid'
  <2>1. st[c] # "resumed"
    BY <1>5 DEF Call, Timeout
  <2>2. CASE AwaitState(c)
    <3>1. listeners' = listeners /\ resumes' = resumes /\ st' = [st EXCEPT ![c] = "waiting"]
      BY <2>2 DEF AwaitState
    <3>2. \A d \in Callers : resumes'[d] <= Bound(d)'
      BY <1>1, <1>2, <1>3, <2>1, <3>1 DEF Bound
    <3> QED BY <1>4, <3>1, <3>2 DEF Paid, Bound
  <2>3. CASE UseState(c)
    <3>1. /\ Attach(cell.id, c)
          /\ resumes' = [resumes EXCEPT ![c] = @ + 1] /\ st' = [st EXCEPT ![c] = "resumed"]
      BY <2>3 DEF UseState
    <3>2. \A d \in Callers : resumes'[d] <= Bound(d)'
      BY <1>1, <1>2, <1>3, <2>1, <3>1 DEF Bound
    <3>3. \A i \in Ids : \A d, e \in listeners'[i] : d = e
      BY <1>1, <1>4, <3>1 DEF Attach
    <3> QED BY <3>2, <3>3 DEF Paid, Bound
  <2> QED BY <1>5, <2>2, <2>3 DEF Call, Timeout
<1>6. ASSUME NEW i \in Ids, TickReady(i) PROVE Paid'
  <2>1. \A c \in waiters[i] : st[c] = "waiting"
    BY DEF IInv, WaitersAgree
  <2>2. /\ \E c \in waiters[i] : Attach(i, c)
        /\ st' = [c \in Callers |-> IF c \in waiters[i] THEN "resumed" ELSE st[c]]
        /\ resumes' = [c \in Callers |-> resumes[c] + IF c \in waiters[i] THEN 1 ELSE 0]
    BY <1>6 DEF TickReady, Resumed
  <2>3. \A d \in Callers : resumes'[d] <= Bound(d)'
    BY <1>1, <1>2, <1>3, <2>1, <2>2 DEF Bound
  <2>4. \A j \in Ids : \A d, e \in listeners'[j] : d = e
    BY <1>1, <1>4, <2>2 DEF Attach
  <2> QED BY <2>3, <2>4 DEF Paid, Bound
<1>7. ASSUME NEW i \in Ids, OpenSucceeds(i) \/ OpenFails(i) \/ TickRefused(i) \/ ErrorEvent(i)
      PROVE  Paid'
  <2>1. \A c \in waiters[i] : st[c] = "waiting"
    BY DEF IInv, WaitersAgree
  <2>2. /\ listeners' = listeners /\ resumes' = resumes
        /\ \A c \in Callers : st'[c] = "resumed" <=> st[c] = "resumed"
    BY <1>1, <1>7, <2>1 DEF OpenSucceeds, OpenFails, TickRefused, ErrorEvent, Resumed
  <2>3. \A d \in Callers : resumes'[d] <= Bound(d)'
    BY <1>1, <1>2, <1>3, <2>2 DEF Bound
  <2> QED BY <1>4, <2>2, <2>3 DEF Paid, Bound
<1>8. ASSUME NEW i \in Ids, CloseAfterError(i) \/ CloseAlone(i) PROVE Paid'
  <2>1. /\ resource[i] \notin Ended /\ resource'[i] \in Ended
        /\ listeners' = listeners /\ resumes' = resumes
        /\ st' = [c \in Callers |-> IF c \in listeners[i] THEN "delay" ELSE st[c]]
    BY <1>1, <1>8 DEF CloseAfterError, CloseAlone, Retry, Ended
  <2>2. ASSUME NEW c \in listeners[i]
        PROVE  Cardinality(ClosedFor(c)') >= Cardinality(ClosedFor(c)) + 1
    <3>1. c \in Callers
      BY <1>1
    <3>2. i \notin ClosedFor(c) /\ ClosedFor(c) \cup {i} \subseteq ClosedFor(c)'
      BY <2>1, <3>1, ClosedForGrows DEF ClosedFor, Closed, Ended
    <3>3. /\ IsFiniteSet(ClosedFor(c) \cup {i})
          /\ Cardinality(ClosedFor(c) \cup {i}) = Cardinality(ClosedFor(c)) + 1
      BY <3>2, ClosedFinite, FS_AddElement
    <3> QED BY <3>1, <3>2, <3>3, ClosedForGrows, FS_Subset
  <2>3. \A d \in Callers : resumes'[d] <= Bound(d)'
    BY <1>1, <1>2, <1>3, <2>1, <2>2 DEF Bound
  <2> QED BY <1>4, <2>1, <2>3 DEF Paid, Bound
<1> QED BY <1>5, <1>6, <1>7, <1>8 DEF Next

\* Every resumption after the first was paid for by a close, in every reachable
\* state.
THEOREM PaidInvariance == Spec => []Paid
<1>1. Init => Paid
  BY ClosedFinite DEF Init, Paid
<1>2. IInv /\ IInv' /\ [Next]_vars /\ Paid => Paid'
  <2>1. IInv /\ IInv' /\ Next /\ Paid => Paid'
    BY PaidStep
  <2>2. UNCHANGED vars /\ Paid => Paid'
    BY DEF vars, Paid, ClosedFor, Closed
  <2> QED BY <2>1, <2>2
<1> QED BY <1>1, <1>2, Invariance, PTL DEF Spec

\* For any number of callers and faults, a continuation runs again only when a
\* resource closed whose 'close' it listened to (mongo.js:214 and mq.js:251).
THEOREM ReplayedByClose == Spec => []ReplayedOnlyByClose
<1>1. ASSUME TypeOK, Paid PROVE ReplayedOnlyByClose
  <2> DEFINE Again == {c \in Callers : resumes[c] > 1}
             f == [c \in Again |-> CHOOSE i \in Ids : i \in ClosedFor(c)]
  <2>1. \A c \in Callers : resumes[c] \in Nat /\ Cardinality(ClosedFor(c)) \in Nat
    BY <1>1, ClosedFinite DEF TypeOK
  <2>2. \A c \in Callers : resumes[c] <= 1 + Cardinality(ClosedFor(c))
    BY <1>1, <2>1 DEF Paid
  <2>3. ASSUME NEW c \in Again PROVE f[c] \in Closed /\ c \in listeners[f[c]]
    <3>1. Cardinality(ClosedFor(c)) # 0
      BY <2>1, <2>2
    <3>2. \E i \in Ids : i \in ClosedFor(c)
      BY <3>1, ClosedFinite, FS_EmptySet DEF ClosedFor, Closed
    <3> QED BY <3>2 DEF ClosedFor
  <2>4. \A c, d \in Again : f[c] = f[d] => c = d
    <3>1. SUFFICES ASSUME NEW c \in Again, NEW d \in Again, f[c] = f[d] PROVE c = d
      OBVIOUS
    <3>2. f[c] \in Ids /\ c \in listeners[f[c]] /\ d \in listeners[f[c]]
      BY <2>3, <3>1 DEF Closed
    <3> HIDE DEF f
    <3> QED BY <1>1, <3>2 DEF Paid
  <2>5. f \in [Again -> Closed]
    BY <2>3
  <2>6. f \in Injection(Again, Closed)
    <3> HIDE DEF f
    <3> QED BY <2>4, <2>5 DEF Injection, IsInjective
  <2>7. Cardinality(Again) <= Cardinality(Closed)
    <3> HIDE DEF f, Again
    <3> QED BY <2>6, ClosedFinite, FS_Injection
  <2> QED BY <2>2, <2>7 DEF ReplayedOnlyByClose, ClosedFor
<1> QED BY <1>1, TypeCorrect, PaidInvariance, PTL

-----------------------------------------------------------------------------
(* The operations are callers of the cache.                               *)

\* A step of the operations is a step of the cache, or leaves it alone.
LEMMA DocStepIsCacheStep == [DocNext]_docVars => [Next]_vars
BY DEF DocNext, docVars, CacheStep, Find, Execute, ExecuteFails, Tell

\* The operations use the cache as StatefulCache says: all that is proved of it
\* holds of the callers that execute operations (mongo.js:201).
THEOREM ImplementsCache == DocSpec => Spec
<1>1. DocInit => Init
  BY DEF DocInit
<1> QED BY <1>1, DocStepIsCacheStep, PTL DEF DocSpec, Spec

\* No caller of an operation is dropped while it waits for the client
\* (statefulCache.js:10).
THEOREM DocCallersKept == DocSpec => []NoLostCaller
BY ImplementsCache, CallersKept, PTL

\* Operations share one client (statefulCache.js:15).
THEOREM DocSharedResource == DocSpec => []SingleFlight
BY ImplementsCache, SharedResource, PTL

\* An operation is executed once more only for a client that closed (mongo.js:214).
THEOREM DocReplayedByClose == DocSpec => []ReplayedOnlyByClose
BY ImplementsCache, ReplayedByClose, PTL

-----------------------------------------------------------------------------
(* Types.                                                                  *)

\* A step of the cache leaves a caller alone, or resumes it once.
LEMMA ResumesOnce ==
  ASSUME IInv, IInv', Next
  PROVE  \A c \in Callers :
           resumes'[c] = resumes[c] \/ (resumes'[c] = resumes[c] + 1 /\ cell'.id \in Ids)
<1>1. resumes \in [Callers -> Nat] /\ cell' \in Cells
  BY DEF IInv, TypeOK
<1>2. cell'.kind = "ready" => cell'.id \in Ids
  BY <1>1, CellShapes DEF Cells
<1>3. ASSUME NEW d \in Callers, Call(d) \/ Timeout(d)
      PROVE  \A c \in Callers :
               resumes'[c] = resumes[c] \/ (resumes'[c] = resumes[c] + 1 /\ cell'.id \in Ids)
  <2>1. CASE AwaitState(d)
    BY <2>1 DEF AwaitState
  <2>2. CASE UseState(d)
    BY <1>1, <1>2, <2>2 DEF UseState
  <2> QED BY <1>3, <2>1, <2>2 DEF Call, Timeout
<1>4. ASSUME NEW i \in Ids, TickReady(i)
      PROVE  \A c \in Callers :
               resumes'[c] = resumes[c] \/ (resumes'[c] = resumes[c] + 1 /\ cell'.id \in Ids)
  <2>1. cell' = Ready(i)
    BY <1>4 DEF TickReady, StoredOutcome
  <2>2. cell'.id \in Ids
    BY <2>1, CellShapes
  <2> QED BY <1>1, <1>4, <2>2 DEF TickReady
<1>5. ASSUME NEW i \in Ids,
             OpenSucceeds(i) \/ OpenFails(i) \/ TickRefused(i) \/ ErrorEvent(i)
               \/ CloseAfterError(i) \/ CloseAlone(i)
      PROVE  resumes' = resumes
  BY <1>5 DEF OpenSucceeds, OpenFails, TickRefused, ErrorEvent, CloseAfterError, CloseAlone, Retry
<1> QED BY <1>3, <1>4, <1>5 DEF Next

\* What an operation leaves are documents.
LEMMA RemainsType ==
  ASSUME DocTypeOK, NEW x \in running, NEW D \in Remains(x)
  PROVE  D \subseteq Docs
<1> DEFINE o == op[x.caller]
<1>1. x.caller \in Callers /\ x.turn \in Nat
  BY DEF DocTypeOK, Executions
<1>2. o \in Operations
  BY <1>1, DocumentsAssumption DEF DocTypeOK
<1>3. o.name \in Names /\ o.to \in Names /\ o.id \in GivenIds \cup {None}
  BY <1>2 DEF Operations
<1>4. NewId(x) \in DocIds
  BY <1>1, <1>3 DEF NewId, DocIds
<1>5. \A d \in Docs : [d EXCEPT !.name = o.name] \in Docs /\ [d EXCEPT !.name = o.to] \in Docs
  BY <1>3 DEF Docs
<1>6. [id |-> NewId(x), name |-> o.name] \in Docs
  BY <1>3, <1>4 DEF Docs
<1>7. docs \subseteq Docs /\ Matching(o) \subseteq docs
  BY DEF DocTypeOK, Matching
<1>8. ASSUME NEW Old, NEW d \in Docs PROVE Written(Old, d) \subseteq Docs
  BY <1>7 DEF Written
<1>9. ASSUME D \in Inserted(x) PROVE D \subseteq Docs
  <2>1. \/ D = Written({}, [id |-> NewId(x), name |-> o.name])
        \/ \E d \in Matching(o) : D = Written({d}, [d EXCEPT !.name = o.name])
    BY <1>9 DEF Inserted
  <2>2. ASSUME NEW d \in Matching(o) PROVE Written({d}, [d EXCEPT !.name = o.name]) \subseteq Docs
    <3>1. [d EXCEPT !.name = o.name] \in Docs
      BY <1>5, <1>7
    <3> QED BY <1>8, <3>1
  <2>3. Written({}, [id |-> NewId(x), name |-> o.name]) \subseteq Docs
    BY <1>6, <1>8
  <2> QED BY <2>1, <2>2, <2>3
<1>10. ASSUME D \in Updated(o) PROVE D \subseteq Docs
  <2>1. D = docs \/ \E d \in Matching(o) : D = Written({d}, [d EXCEPT !.name = o.to])
    BY <1>10 DEF Updated
  <2>2. ASSUME NEW d \in Matching(o) PROVE Written({d}, [d EXCEPT !.name = o.to]) \subseteq Docs
    <3>1. [d EXCEPT !.name = o.to] \in Docs
      BY <1>5, <1>7
    <3> QED BY <1>8, <3>1
  <2> QED BY <1>7, <2>1, <2>2
<1>11. ASSUME D \in Removed(o) PROVE D \subseteq Docs
  BY <1>7, <1>11 DEF Removed
<1> HIDE DEF o
<1>12. \/ D \in Inserted(x) \/ D \in Updated(op[x.caller]) \/ D \in Removed(op[x.caller])
       \/ D = docs
  BY DEF Remains
<1> QED BY <1>7, <1>9, <1>10, <1>11, <1>12 DEF o

LEMMA DocTypeStep ==
  ASSUME IInv, IInv', DocTypeOK, DocNext
  PROVE  DocTypeOK'
<1>1. CASE CacheStep
  <2> DEFINE Started == {c \in Callers : resumes'[c] # resumes[c]}
             New(c) == [caller |-> c, turn |-> resumes'[c], client |-> cell'.id, sees |-> "unknown"]
  <2>1. ASSUME NEW c \in Started PROVE New(c) \in Executions
    <3>1. cell'.id \in Ids /\ resumes'[c] \in Nat \ {0}
      BY <1>1, ResumesOnce DEF CacheStep, IInv, TypeOK
    <3> QED BY <3>1 DEF Executions
  <2>2. running' = running \cup {New(c) : c \in Started} /\ UNCHANGED <<op, database, told>>
    BY <1>1 DEF CacheStep
  <2>3. running' \subseteq Executions
    BY <2>1, <2>2 DEF DocTypeOK
  <2> QED BY <2>2, <2>3 DEF DocTypeOK, database
<1>2. ASSUME NEW x \in running, Find(x) PROVE DocTypeOK'
  <2>1. \A s \in {"some", "none"} : [x EXCEPT !.sees = s] \in Executions
    BY DEF DocTypeOK, Executions
  <2> QED BY <1>2, <2>1 DEF Find, DocTypeOK, database
<1>3. ASSUME NEW x \in running, Apply(x)
      PROVE  docs' \subseteq Docs /\ indexed' \in BOOLEAN /\ created' \subseteq DocIds
  <2>1. docs' \subseteq Docs
    BY <1>3, RemainsType DEF Apply
  <2>2. indexed' \in BOOLEAN
    BY <1>3 DEF Apply, Indexed, DocTypeOK
  <2>3. created' \subseteq DocIds
    BY <1>3, <2>1 DEF Apply, Docs, DocTypeOK
  <2> QED BY <2>1, <2>2, <2>3
<1>4. ASSUME NEW x \in running, Tell(x)
      PROVE  op' \in Programs /\ running' \subseteq Executions /\ told' \in [Callers -> Nat]
  <2>1. x.caller \in Callers
    BY DEF DocTypeOK, Executions
  <2> QED BY <1>4, <2>1 DEF Tell, DocTypeOK
<1>5. ASSUME NEW x \in running, Execute(x) \/ ExecuteFails(x) PROVE DocTypeOK'
  <2>1. Tell(x) /\ (Apply(x) \/ UNCHANGED database)
    BY <1>5 DEF Execute, ExecuteFails
  <2> QED BY <1>3, <1>4, <2>1 DEF DocTypeOK, database
<1> QED BY <1>1, <1>2, <1>5 DEF DocNext

\* Documents, executions and answers keep their types, for any operations.
THEOREM DocTypeCorrect == DocSpec => []DocTypeOK
<1>1. DocInit => DocTypeOK
  <2>1. ASSUME DocInit PROVE indexed \in BOOLEAN
    BY <2>1, Zenon DEF DocInit
  <2>2. ASSUME DocInit PROVE told \in [Callers -> Nat]
    BY <2>2 DEF DocInit
  <2> QED BY <2>1, <2>2, Zenon DEF DocInit, DocTypeOK
<1>2. IInv /\ IInv' /\ DocTypeOK /\ [DocNext]_docVars => DocTypeOK'
  <2>1. UNCHANGED docVars /\ DocTypeOK => DocTypeOK'
    BY DEF docVars, database, DocTypeOK
  <2> QED BY <2>1, DocTypeStep
<1> QED BY <1>1, <1>2, ImplementsCache, Invariance, PTL DEF DocSpec

-----------------------------------------------------------------------------
(* How many documents there are.                                           *)

Inserters == {c \in Callers : op[c].kind = "insert"}
Inserting == {x \in running : x.caller \in Inserters}
Owed == {c \in Inserters : st[c] \in {"waiting", "delay"}}
Asked == {c \in Inserters : st[c] # "idle"}
Resuming == {c \in Inserters : resumes'[c] # resumes[c]}

\* Every document, every insert in progress and every caller that waits for one is
\* paid for, by a call or by the close of a client.
Budget ==
  /\ IsFiniteSet(Asked) /\ IsFiniteSet(Inserting) /\ IsFiniteSet(created)
  /\ \A d \in docs : d.id \in created
  /\ Cardinality(created) + Cardinality(Inserting) + Cardinality(Owed)
       <= Cardinality(Asked) + Cardinality(Closed)

LEMMA OwedAsked ==
  ASSUME IsFiniteSet(Asked)
  PROVE  IsFiniteSet(Owed) /\ Cardinality(Owed) \in Nat /\ Cardinality(Asked) \in Nat
<1>1. Owed \subseteq Asked
  BY DEF Owed, Asked
<1> QED BY <1>1, FS_Subset, FS_CardinalityType

\* A step of the cache spends what it resumes: it was owed, or is new, or is
\* paid for by a client that closes.
CacheSpends ==
  /\ IsFiniteSet(Resuming) /\ IsFiniteSet(Asked')
  /\ Cardinality(Resuming) + Cardinality(Owed') + Cardinality(Asked) + Cardinality(Closed)
       <= Cardinality(Owed) + Cardinality(Asked') + Cardinality(Closed')

LEMMA ClosedCardinal ==
  ASSUME IInv, IInv', Next
  PROVE  /\ Closed \subseteq Closed' /\ IsFiniteSet(Closed')
         /\ Cardinality(Closed) \in Nat /\ Cardinality(Closed') \in Nat
         /\ Cardinality(Closed) <= Cardinality(Closed')
<1>1. Closed \subseteq Closed'
  BY ClosedStays DEF Closed, Ended
<1>2. IsFiniteSet(Closed')
  <2>1. IsFiniteSet(Ids) /\ Closed' \subseteq Ids
    BY FS_Interval, CacheAssumption DEF Ids, Closed
  <2> QED BY <2>1, FS_Subset
<1> QED BY <1>1, <1>2, ClosedFinite, FS_Subset, FS_CardinalityType

LEMMA CacheStepSpends ==
  ASSUME IInv, IInv', Paid, Next, UNCHANGED op, IsFiniteSet(Asked)
  PROVE  CacheSpends
<1>1. /\ st \in [Callers -> {"idle", "waiting", "delay", "resumed"}]
      /\ resumes \in [Callers -> Nat] /\ listeners \in [Ids -> SUBSET Callers]
  BY DEF IInv, TypeOK
<1>2. Inserters' = Inserters /\ Inserters \subseteq Callers
  BY DEF Inserters
<1>3. /\ IsFiniteSet(Owed) /\ Cardinality(Owed) \in Nat /\ Cardinality(Asked) \in Nat
      /\ Cardinality(Closed) \in Nat /\ Cardinality(Closed') \in Nat
      /\ Cardinality(Closed) <= Cardinality(Closed')
  BY OwedAsked, ClosedCardinal
<1>4. IsFiniteSet({}) /\ Cardinality({}) = 0
  BY FS_EmptySet
<1>5. ASSUME Resuming = {}, Owed' = Owed, Asked' = Asked PROVE CacheSpends
  BY <1>3, <1>4, <1>5 DEF CacheSpends
<1>6. ASSUME NEW c \in Callers, Call(c) \/ Timeout(c) PROVE CacheSpends
  <2>1. CASE c \notin Inserters
    <3>1. \A d \in Inserters : st'[d] = st[d] /\ resumes'[d] = resumes[d]
      BY <1>1, <1>2, <1>6, <2>1 DEF Call, Timeout, AwaitState, UseState
    <3>2. Resuming = {} /\ Owed' = Owed /\ Asked' = Asked
      BY <1>2, <3>1 DEF Resuming, Owed, Asked
    <3> QED BY <1>5, <3>2
  <2>2. CASE c \in Inserters /\ AwaitState(c)
    <3>1. resumes' = resumes /\ st' = [st EXCEPT ![c] = "waiting"]
      BY <2>2 DEF AwaitState
    <3>2. Resuming = {} /\ Owed' = Owed \cup {c} /\ Asked' = Asked \cup {c}
      BY <1>1, <1>2, <2>2, <3>1 DEF Resuming, Owed, Asked
    <3>3. c \in Asked => c \in Owed
      BY <1>6 DEF Call, Timeout, Asked, Owed
    <3>4. /\ IsFiniteSet(Asked \cup {c})
          /\ Cardinality(Asked \cup {c}) = IF c \in Asked THEN Cardinality(Asked) ELSE Cardinality(Asked) + 1
          /\ Cardinality(Owed \cup {c}) = IF c \in Owed THEN Cardinality(Owed) ELSE Cardinality(Owed) + 1
      BY <1>3, FS_AddElement
    <3> QED BY <1>3, <1>4, <3>2, <3>3, <3>4 DEF CacheSpends
  <2>3. CASE c \in Inserters /\ UseState(c)
    <3>1. /\ resumes' = [resumes EXCEPT ![c] = @ + 1] /\ st' = [st EXCEPT ![c] = "resumed"]
          /\ resumes[c] \in Nat
      BY <1>1, <2>3 DEF UseState
    <3>2. Resuming = {c} /\ Owed' = Owed \ {c} /\ Asked' = Asked \cup {c}
      BY <1>1, <1>2, <2>3, <3>1 DEF Resuming, Owed, Asked
    <3>3. c \in Asked => c \in Owed
      BY <1>6 DEF Call, Timeout, Asked, Owed
    <3>4. /\ IsFiniteSet(Asked \cup {c})
          /\ Cardinality(Asked \cup {c}) = IF c \in Asked THEN Cardinality(Asked) ELSE Cardinality(Asked) + 1
          /\ Cardinality(Owed \ {c}) = IF c \in Owed THEN Cardinality(Owed) - 1 ELSE Cardinality(Owed)
          /\ IsFiniteSet({c}) /\ Cardinality({c}) = 1
      BY <1>3, FS_AddElement, FS_RemoveElement, FS_Singleton
    <3>5. c \in Owed => c \in Asked
      BY DEF Owed, Asked
    <3> QED BY <1>3, <3>2, <3>3, <3>4, <3>5 DEF CacheSpends
  <2> QED BY <1>6, <2>1, <2>2, <2>3 DEF Call, Timeout
<1>7. ASSUME NEW i \in Ids, TickReady(i) PROVE CacheSpends
  <2>1. \A c \in waiters[i] : st[c] = "waiting"
    BY DEF IInv, WaitersAgree
  <2>2. /\ st' = [c \in Callers |-> IF c \in waiters[i] THEN "resumed" ELSE st[c]]
        /\ resumes' = [c \in Callers |-> resumes[c] + IF c \in waiters[i] THEN 1 ELSE 0]
    BY <1>7 DEF TickReady, Resumed
  <2>3. Resuming = Inserters \cap waiters[i] /\ Resuming \subseteq Owed
    BY <1>1, <1>2, <2>1, <2>2 DEF Resuming, Owed
  <2>4. Owed' = Owed \ Resuming /\ Asked' = Asked
    BY <1>1, <1>2, <2>1, <2>2, <2>3 DEF Owed, Asked
  <2>5. IsFiniteSet(Resuming) /\ Cardinality(Resuming) \in Nat
        /\ Cardinality(Owed \ Resuming) = Cardinality(Owed) - Cardinality(Resuming)
    <3>1. Owed \cap Resuming = Resuming
      BY <2>3
    <3>2. IsFiniteSet(Resuming)
      BY <1>3, <2>3, FS_Subset
    <3> QED BY <1>3, <3>1, <3>2, FS_Difference, FS_CardinalityType
  <2> QED BY <1>3, <2>4, <2>5 DEF CacheSpends
<1>8. ASSUME NEW i \in Ids, OpenSucceeds(i) \/ OpenFails(i) \/ TickRefused(i) \/ ErrorEvent(i)
      PROVE  CacheSpends
  <2>1. \A c \in waiters[i] : st[c] = "waiting"
    BY DEF IInv, WaitersAgree
  <2>2. resumes' = resumes
        /\ \A c \in Callers : st'[c] = st[c] \/ (st[c] = "waiting" /\ st'[c] = "delay")
    BY <1>1, <1>8, <2>1 DEF OpenSucceeds, OpenFails, TickRefused, ErrorEvent, Resumed
  <2>3. Resuming = {} /\ Owed' = Owed /\ Asked' = Asked
    BY <1>2, <2>2 DEF Resuming, Owed, Asked
  <2> QED BY <1>5, <2>3
<1>9. ASSUME NEW i \in Ids, CloseAfterError(i) \/ CloseAlone(i) PROVE CacheSpends
  <2>1. /\ resource[i] \notin Ended /\ resource'[i] \in Ended
        /\ listeners' = listeners /\ resumes' = resumes
        /\ st' = [c \in Callers |-> IF c \in listeners[i] THEN "delay" ELSE st[c]]
    BY <1>9 DEF CloseAfterError, CloseAlone, Retry, Ended, IInv, TypeOK
  <2>2. ASSUME listeners[i] = {} PROVE CacheSpends
    <3>1. Resuming = {} /\ Owed' = Owed /\ Asked' = Asked
      BY <1>1, <1>2, <2>1, <2>2 DEF Resuming, Owed, Asked
    <3> QED BY <1>5, <3>1
  <2>3. ASSUME NEW c \in listeners[i] PROVE CacheSpends
    <3>1. listeners[i] = {c} /\ c \in Callers /\ st[c] = "resumed"
      BY <1>1, <1>9, <2>1 DEF Paid, IInv, ListenersAgree, Open, CloseAfterError, CloseAlone
    <3>2. Resuming = {} /\ Owed' \subseteq Owed \cup {c} /\ Asked' = Asked
      BY <1>1, <1>2, <2>1, <3>1 DEF Resuming, Owed, Asked
    <3>3. i \notin Closed /\ Closed \cup {i} \subseteq Closed'
      BY <2>1, <3>1, ClosedCardinal DEF Closed, Ended
    <3>4. Cardinality(Closed) + 1 <= Cardinality(Closed')
      <4>1. Cardinality(Closed \cup {i}) = Cardinality(Closed) + 1
        BY <3>3, ClosedFinite, FS_AddElement
      <4> QED BY <3>3, <4>1, ClosedCardinal, FS_Subset
    <3>5. Cardinality(Owed') <= Cardinality(Owed) + 1 /\ Cardinality(Owed') \in Nat
      <4>1. IsFiniteSet(Owed \cup {c}) /\ Cardinality(Owed \cup {c}) <= Cardinality(Owed) + 1
            /\ Cardinality(Owed \cup {c}) \in Nat
        <5>1. IsFiniteSet(Owed \cup {c})
              /\ Cardinality(Owed \cup {c}) = IF c \in Owed THEN Cardinality(Owed) ELSE Cardinality(Owed) + 1
          BY <1>3, FS_AddElement
        <5> QED BY <1>3, <5>1
      <4>2. IsFiniteSet(Owed') /\ Cardinality(Owed') <= Cardinality(Owed \cup {c})
        BY <3>2, <4>1, FS_Subset
      <4> QED BY <1>3, <4>1, <4>2, FS_CardinalityType
    <3> QED BY <1>3, <1>4, <3>2, <3>4, <3>5 DEF CacheSpends
  <2> QED BY <2>2, <2>3
<1> QED BY <1>6, <1>7, <1>8, <1>9 DEF Next

\* An operation adds one identifier at most, and one of an insert only.
LEMMA ApplyAdds ==
  ASSUME DocTypeOK, \A d \in docs : d.id \in created, NEW x \in running, Apply(x)
  PROVE  /\ \A d \in docs' : d.id \in created'
         /\ x \notin Inserting => created' = created
         /\ \E new : created' \in {created, created \cup {new}}
<1> DEFINE o == op[x.caller]
<1>1. docs' \in Remains(x) /\ created' = created \cup {d.id : d \in docs'}
  BY DEF Apply
<1>2. \A d \in docs : [d EXCEPT !.name = o.name].id = d.id /\ [d EXCEPT !.name = o.to].id = d.id
  BY DEF DocTypeOK, Docs
<1>3. Matching(o) \subseteq docs
  BY DEF Matching
<1>4. ASSUME NEW Old \in SUBSET docs, NEW d, docs' = Written(Old, d)
      PROVE  \A e \in docs' : e.id \in created \cup {d.id}
  BY <1>4 DEF Written
<1>5. ASSUME \A d \in docs' : d.id \in created PROVE created' = created
  BY <1>1, <1>5
<1>6. ASSUME docs' \in Updated(o) \/ docs' \in Removed(o) \/ docs' = docs
      PROVE  created' = created
  <2>1. CASE docs' \in Removed(o) \/ docs' = docs
    BY <1>3, <1>5, <2>1 DEF Removed
  <2>2. CASE docs' \in Updated(o)
    <3>1. docs' = docs \/ \E d \in Matching(o) : docs' = Written({d}, [d EXCEPT !.name = o.to])
      BY <2>2 DEF Updated
    <3>2. ASSUME NEW d \in Matching(o), docs' = Written({d}, [d EXCEPT !.name = o.to])
          PROVE  \A e \in docs' : e.id \in created
      <4>1. {d} \in SUBSET docs /\ [d EXCEPT !.name = o.to].id \in created
        BY <1>2, <1>3
      <4> QED BY <1>4, <3>2, <4>1
    <3> QED BY <1>5, <3>1, <3>2
  <2> QED BY <1>6, <2>1, <2>2
<1>7. ASSUME docs' \in Inserted(x)
      PROVE  \A d \in docs' : d.id \in created \cup {NewId(x)}
  <2>1. \/ docs' = Written({}, [id |-> NewId(x), name |-> o.name])
        \/ \E d \in Matching(o) : docs' = Written({d}, [d EXCEPT !.name = o.name])
    BY <1>7 DEF Inserted
  <2>2. ASSUME NEW d \in Matching(o), docs' = Written({d}, [d EXCEPT !.name = o.name])
        PROVE  \A e \in docs' : e.id \in created
    <3>1. {d} \in SUBSET docs /\ [d EXCEPT !.name = o.name].id \in created
      BY <1>2, <1>3
    <3> QED BY <1>4, <2>2, <3>1
  <2>3. ASSUME docs' = Written({}, [id |-> NewId(x), name |-> o.name])
        PROVE  \A e \in docs' : e.id \in created \cup {NewId(x)}
    <3>1. {} \in SUBSET docs
      OBVIOUS
    <3> QED BY <1>4, <2>3, <3>1
  <2> QED BY <2>1, <2>2, <2>3
<1>8. \A d \in docs' : d.id \in created'
  BY <1>1
<1>9. created' = created \/ (x \in Inserting /\ created' \in {created, created \cup {NewId(x)}})
  <2>1. x.caller \in Callers
    BY DEF DocTypeOK, Executions
  <2>2. CASE o.kind = "insert"
    <3>1. x \in Inserting
      BY <2>1, <2>2 DEF Inserting, Inserters
    <3>2. docs' \in Inserted(x)
      BY <1>1, <2>2 DEF Remains
    <3> QED BY <1>1, <1>7, <3>1, <3>2
  <2>3. CASE o.kind # "insert"
    <3>1. docs' \in Updated(o) \/ docs' \in Removed(o) \/ docs' = docs
      BY <1>1, <2>3 DEF Remains
    <3> QED BY <1>6, <3>1
  <2> QED BY <2>2, <2>3
<1> QED BY <1>8, <1>9

\* A step of the cache starts one execution for each caller it resumes.
LEMMA StartsResumed ==
  ASSUME DocTypeOK, CacheStep, IsFiniteSet(Resuming), IsFiniteSet(Inserting)
  PROVE  /\ IsFiniteSet(Inserting')
         /\ Cardinality(Inserting') <= Cardinality(Inserting) + Cardinality(Resuming)
<1> DEFINE New(c) == [caller |-> c, turn |-> resumes'[c], client |-> cell'.id, sees |-> "unknown"]
           Fresh == {New(c) : c \in Resuming}
<1>1. /\ running' = running \cup {New(c) : c \in {d \in Callers : resumes'[d] # resumes[d]}}
      /\ op' = op
  BY DEF CacheStep
<1>2. Inserters' = Inserters
  BY <1>1 DEF Inserters
<1>3. \A c : New(c).caller = c
  OBVIOUS
<1>4. Inserting' = Inserting \cup Fresh
  <2>1. Resuming = {c \in {d \in Callers : resumes'[d] # resumes[d]} : c \in Inserters}
    BY DEF Resuming, Inserters
  <2> HIDE DEF New
  <2> QED BY <1>1, <1>2, <1>3, <2>1 DEF Inserting
<1>5. IsFiniteSet(Fresh) /\ Cardinality(Fresh) <= Cardinality(Resuming)
  <2> DEFINE f == [c \in Resuming |-> New(c)]
  <2>1. f \in Surjection(Resuming, Fresh)
    BY DEF Surjection
  <2> QED BY <2>1, FS_Surjection DEF ExistsSurjection
<1> HIDE DEF Fresh
<1>6. /\ IsFiniteSet(Inserting \cup Fresh)
      /\ Cardinality(Inserting \cup Fresh)
           = Cardinality(Inserting) + Cardinality(Fresh) - Cardinality(Inserting \cap Fresh)
  BY <1>5, FS_Union
<1>7. /\ Cardinality(Inserting) \in Nat /\ Cardinality(Fresh) \in Nat /\ Cardinality(Resuming) \in Nat
      /\ Cardinality(Inserting \cap Fresh) \in Nat
  BY <1>5, FS_Subset, FS_CardinalityType
<1> QED BY <1>4, <1>5, <1>6, <1>7

\* Every step keeps the budget.
LEMMA BudgetStep ==
  ASSUME IInv, IInv', Paid, DocTypeOK, DocTypeOK', Budget, [DocNext]_docVars
  PROVE  Budget'
<1>1. /\ Cardinality(created) \in Nat /\ Cardinality(Inserting) \in Nat
      /\ IsFiniteSet(Owed) /\ Cardinality(Owed) \in Nat /\ Cardinality(Asked) \in Nat
      /\ Cardinality(Closed) \in Nat
  BY OwedAsked, ClosedFinite, FS_CardinalityType DEF Budget
<1>2. CASE UNCHANGED docVars
  BY <1>2 DEF docVars, vars, database, Budget, Inserting, Inserters, Owed, Asked, Closed
<1>3. CASE CacheStep
  <2>1. Next /\ op' = op /\ docs' = docs /\ created' = created
    BY <1>3 DEF CacheStep, database
  <2>2. CacheSpends
    BY <2>1, CacheStepSpends DEF Budget
  <2>3. IsFiniteSet(Inserting') /\ Cardinality(Inserting') <= Cardinality(Inserting) + Cardinality(Resuming)
    BY <1>3, <2>2, StartsResumed DEF Budget, CacheSpends
  <2>4. Inserters' = Inserters
    BY <2>1 DEF Inserters
  <2>5. /\ IsFiniteSet(Asked') /\ Cardinality(Asked') \in Nat
        /\ Cardinality(Owed') \in Nat /\ Cardinality(Resuming) \in Nat
        /\ Cardinality(Inserting') \in Nat /\ Cardinality(Closed') \in Nat
    <3>1. Owed' \subseteq Asked'
      BY DEF Owed, Asked
    <3> QED BY <2>1, <2>2, <2>3, <3>1, ClosedCardinal, FS_Subset, FS_CardinalityType DEF CacheSpends
  <2>6. Cardinality(created) + Cardinality(Inserting') + Cardinality(Owed')
          <= Cardinality(Asked') + Cardinality(Closed')
    BY <1>1, <2>2, <2>3, <2>5 DEF Budget, CacheSpends
  <2> QED BY <2>1, <2>3, <2>5, <2>6 DEF Budget
<1>4. ASSUME NEW x \in running, Find(x) PROVE Budget'
  <2>1. UNCHANGED <<vars, op, database>>
    BY <1>4 DEF Find
  <2>2. Inserters' = Inserters /\ Owed' = Owed /\ Asked' = Asked /\ Closed' = Closed
        /\ created' = created /\ docs' = docs
    BY <2>1 DEF Inserters, Owed, Asked, Closed, vars, database
  <2>3. x \in Inserting
    <3>1. x.caller \in Callers /\ op[x.caller].kind = "insert"
      BY <1>4 DEF Find, Upserts, DocTypeOK, Executions
    <3> QED BY <3>1 DEF Inserting, Inserters
  <2>4. PICK y : running' = (running \ {x}) \cup {y}
    BY <1>4 DEF Find
  <2>5. Inserting' \subseteq (Inserting \ {x}) \cup {y}
    BY <2>2, <2>4 DEF Inserting
  <2>6. /\ IsFiniteSet((Inserting \ {x}) \cup {y})
        /\ Cardinality((Inserting \ {x}) \cup {y}) <= Cardinality(Inserting)
        /\ Cardinality((Inserting \ {x}) \cup {y}) \in Nat
    <3>1. IsFiniteSet(Inserting \ {x}) /\ Cardinality(Inserting \ {x}) = Cardinality(Inserting) - 1
      BY <2>3, FS_RemoveElement DEF Budget
    <3>2. /\ IsFiniteSet((Inserting \ {x}) \cup {y})
          /\ Cardinality((Inserting \ {x}) \cup {y}) =
               IF y \in Inserting \ {x} THEN Cardinality(Inserting \ {x}) ELSE Cardinality(Inserting \ {x}) + 1
      BY <3>1, FS_AddElement
    <3>3. Cardinality(Inserting \ {x}) \in Nat
      BY <3>1, FS_CardinalityType
    <3> QED BY <1>1, <3>1, <3>2, <3>3
  <2>7. IsFiniteSet(Inserting') /\ Cardinality(Inserting') <= Cardinality(Inserting)
        /\ Cardinality(Inserting') \in Nat
    <3>1. IsFiniteSet(Inserting') /\ Cardinality(Inserting') <= Cardinality((Inserting \ {x}) \cup {y})
      BY <2>5, <2>6, FS_Subset
    <3> QED BY <1>1, <2>6, <3>1, FS_CardinalityType
  <2> QED BY <1>1, <2>2, <2>7 DEF Budget
<1>5. ASSUME NEW x \in running, Tell(x), Apply(x) \/ UNCHANGED database PROVE Budget'
  <2>1. UNCHANGED <<vars, op>> /\ running' = running \ {x}
    BY <1>5 DEF Tell
  <2>2. Inserters' = Inserters /\ Owed' = Owed /\ Asked' = Asked /\ Closed' = Closed
    BY <2>1 DEF Inserters, Owed, Asked, Closed, vars
  <2>3. Inserting' = Inserting \ {x}
    BY <2>1, <2>2 DEF Inserting
  <2>4. /\ \A d \in docs' : d.id \in created'
        /\ x \notin Inserting => created' = created
        /\ \E new : created' \in {created, created \cup {new}}
    <3>1. CASE Apply(x)
      BY <3>1, ApplyAdds DEF Budget
    <3>2. CASE UNCHANGED database
      BY <3>2 DEF database, Budget
    <3> QED BY <1>5, <3>1, <3>2
  <2>5. /\ IsFiniteSet(Inserting')
        /\ Cardinality(Inserting') = IF x \in Inserting THEN Cardinality(Inserting) - 1 ELSE Cardinality(Inserting)
        /\ Cardinality(Inserting') \in Nat
    <3>1. /\ IsFiniteSet(Inserting \ {x})
          /\ Cardinality(Inserting \ {x}) =
               IF x \in Inserting THEN Cardinality(Inserting) - 1 ELSE Cardinality(Inserting)
      BY FS_RemoveElement DEF Budget
    <3> QED BY <2>3, <3>1, FS_CardinalityType
  <2>6. /\ IsFiniteSet(created') /\ Cardinality(created') \in Nat
        /\ Cardinality(created') <= Cardinality(created) + (IF x \in Inserting THEN 1 ELSE 0)
    <3>1. CASE created' = created
      BY <1>1, <3>1 DEF Budget
    <3>2. CASE x \in Inserting /\ \E new : created' = created \cup {new}
      <4>1. PICK new : created' = created \cup {new}
        BY <3>2
      <4>2. /\ IsFiniteSet(created \cup {new})
            /\ Cardinality(created \cup {new}) =
                 IF new \in created THEN Cardinality(created) ELSE Cardinality(created) + 1
        BY FS_AddElement DEF Budget
      <4> QED BY <1>1, <3>2, <4>1, <4>2
    <3> QED BY <2>4, <3>1, <3>2
  <2> QED BY <1>1, <2>2, <2>4, <2>5, <2>6 DEF Budget
<1>6. ASSUME NEW x \in running, Execute(x) \/ ExecuteFails(x) PROVE Budget'
  BY <1>5, <1>6 DEF Execute, ExecuteFails
<1> QED BY <1>2, <1>3, <1>4, <1>6 DEF DocNext

\* Every document, every insert in progress and every caller that waits for its
\* insert is paid for, by the call that asked or by a client that closed.
THEOREM BudgetInvariance == DocSpec => []Budget
<1>1. DocInit => Budget
  <2>1. ASSUME DocInit
        PROVE  Owed = {} /\ Asked = {} /\ Inserting = {} /\ Closed = {} /\ created = {} /\ docs = {}
    BY <2>1 DEF DocInit, Init, Owed, Asked, Inserting, Inserters, Closed
  <2> QED BY <2>1, FS_EmptySet DEF Budget
<1>2. IInv /\ IInv' /\ Paid /\ DocTypeOK /\ DocTypeOK' /\ Budget /\ [DocNext]_docVars => Budget'
  BY BudgetStep
<1> QED BY <1>1, <1>2, ImplementsCache, Invariance, PaidInvariance, DocTypeCorrect, PTL DEF DocSpec

\* However often clients are lost, the documents that were ever created are no more
\* than the inserts asked for and the clients that closed (mongo.js:214).
THEOREM CreatedWithinBudget == DocSpec => []CreatedByInserts
<1>1. Budget => CreatedByInserts
  <2>1. Asked = {c \in Called : op[c].kind = "insert"}
    BY DEF Asked, Inserters, Called
  <2>2. ASSUME Budget PROVE CreatedByInserts
    <3>1. /\ Cardinality(created) \in Nat /\ Cardinality(Inserting) \in Nat
          /\ Cardinality(Owed) \in Nat /\ Cardinality(Asked) \in Nat
      BY <2>2, OwedAsked, FS_CardinalityType DEF Budget
    <3>2. Cardinality(Closed) \in Nat
      BY ClosedFinite, FS_CardinalityType
    <3>3. Cardinality(created) <= Cardinality(Asked) + Cardinality(Closed)
      BY <2>2, <3>1, <3>2 DEF Budget
    <3> QED BY <2>1, <3>3 DEF CreatedByInserts
  <2> QED BY <2>2
<1> QED BY <1>1, BudgetInvariance, PTL
=============================================================================
