------------------------------ MODULE Documents ------------------------------
(***************************************************************************)
(* The database operations of ioMiddleware/mongo.js on one collection, as  *)
(* the callers of the StatefulCache that holds the client.                 *)
(*                                                                         *)
(* Whenever the cache resumes a caller, its operation is executed on the   *)
(* client it was given, and its callback is told the answer.  The 'close'  *)
(* of a client resumes the caller that listens to it once more, however    *)
(* long ago its operation was answered.                                    *)
(*                                                                         *)
(* The server executes one operation after the other, except that an       *)
(* upsert looks for a document first and writes later.                     *)
(***************************************************************************)
EXTENDS StatefulCache

CONSTANTS
  Names,      \* what documents are found by
  GivenIds,   \* identifiers that clients give
  Programs,   \* assignments of operations to the callers
  None

Operations ==
  [kind : {"insert", "update", "remove", "find", "count"}, id : {None}, name : Names, to : Names]
    \cup [kind : {"insert"}, id : GivenIds, name : Names, to : Names]
    \cup [kind : {"index"}, id : {None}, name : Names, to : Names]

ASSUME DocumentsAssumption ==
  /\ Programs \subseteq [Callers -> Operations]
  /\ None \notin GivenIds

VARIABLES
  op,        \* op[c]: operation of caller c
  docs,      \* documents of the collection
  indexed,   \* a unique index by name exists
  running,   \* executions of operations in progress
  created,   \* identifiers of the documents created so far
  told       \* told[c]: how often the callback of c was told an answer

database == <<docs, indexed, created>>
docVars == <<vars, op, database, running, told>>

DocIds == GivenIds \cup (Callers \X Nat)
Docs == [id : DocIds, name : Names]
Executions ==
  [caller : Callers, turn : Nat \ {0}, client : Ids, sees : {"unknown", "some", "none"}]

DocTypeOK ==
  /\ op \in Programs
  /\ docs \subseteq Docs
  /\ indexed \in BOOLEAN
  /\ running \subseteq Executions
  /\ created \subseteq DocIds
  /\ told \in [Callers -> Nat]

DocInit ==
  /\ Init
  /\ op \in Programs
  /\ docs = {} /\ indexed = FALSE /\ created = {}
  /\ running = {}
  /\ told = [c \in Callers |-> 0]

-----------------------------------------------------------------------------
(* The callers: _connect and the step after it.                            *)

\* A step of the cache executes the operation of each caller that it resumes.
CacheStep ==
  /\ Next
  /\ running' = running \cup
       {[caller |-> c, turn |-> resumes'[c], client |-> cell'.id, sees |-> "unknown"] :
          c \in {d \in Callers : resumes'[d] # resumes[d]}}
  /\ UNCHANGED <<op, database, told>>

\* An answer or an error: both go to the callback.
Tell(x) ==
  /\ running' = running \ {x}
  /\ told' = [told EXCEPT ![x.caller] = @ + 1]
  /\ UNCHANGED <<vars, op>>

-----------------------------------------------------------------------------
(* What an execution leaves of the documents.                              *)

\* The documents an operation is for: by identifier, or by all that is given.
Matching(o) == {d \in docs : IF o.id = None THEN d.name = o.name ELSE d.id = o.id}

\* The unique index refuses d beside the documents D.
Duplicate(d, D) == indexed /\ \E other \in D : other.name = d.name

\* Replaces the documents Old by d, unless that is a DuplicateKey.
Written(Old, d) ==
  IF Duplicate(d, docs \ Old) THEN docs ELSE (docs \ Old) \cup {d}

\* The identifier that is given, or a new one.
NewId(x) == IF op[x.caller].id = None THEN <<x.caller, x.turn>> ELSE op[x.caller].id

\* insert: what matches by now is set to what is given, if anything was found.
Inserted(x) ==
  LET o == op[x.caller]
      there == IF x.sees = "none" THEN {} ELSE Matching(o)
  IN  IF there = {} THEN {Written({}, [id |-> NewId(x), name |-> o.name])}
      ELSE {Written({d}, [d EXCEPT !.name = o.name]) : d \in there}

\* update: as insert, and without an upsert.
Updated(o) ==
  IF Matching(o) = {} THEN {docs}
  ELSE {Written({d}, [d EXCEPT !.name = o.to]) : d \in Matching(o)}

\* remove: one of the documents goes.
Removed(o) ==
  IF Matching(o) = {} THEN {docs}
  ELSE {docs \ {d} : d \in Matching(o)}

Remains(x) ==
  LET o == op[x.caller] IN
  CASE o.kind = "insert" -> Inserted(x)
    [] o.kind = "update" -> Updated(o)
    [] o.kind = "remove" -> Removed(o)
    [] OTHER             -> {docs}

\* index: refused by the server while there are duplicates.
Indexed(x) ==
  indexed \/ (op[x.caller].kind = "index" /\ \A c, d \in docs : c.name = d.name => c = d)

Apply(x) ==
  /\ docs' \in Remains(x)
  /\ indexed' = Indexed(x)
  /\ created' = created \cup {d.id : d \in docs'}

Upserts(x) == op[x.caller].kind = "insert"

\* An upsert looks for what it is to set.
Find(x) ==
  /\ Upserts(x) /\ x.sees = "unknown"
  /\ running' = (running \ {x}) \cup
       {[x EXCEPT !.sees = IF Matching(op[x.caller]) = {} THEN "none" ELSE "some"]}
  /\ UNCHANGED <<vars, op, database, told>>

Found(x) == Upserts(x) => x.sees # "unknown"

\* The server executes the operation, and the answer arrives.
Execute(x) == Found(x) /\ Apply(x) /\ Tell(x)

\* The client is lost, and the operation with it, executed or not.
ExecuteFails(x) ==
  /\ resource[x.client] # "live"
  /\ UNCHANGED database \/ (Found(x) /\ Apply(x))
  /\ Tell(x)

-----------------------------------------------------------------------------
DocNext ==
  \/ CacheStep
  \/ \E x \in running : Find(x) \/ Execute(x) \/ ExecuteFails(x)

DocSpec == DocInit /\ [][DocNext]_docVars

\* As in StatefulCache, and the server answers or the driver gives up.
DocFairSpec ==
  /\ DocSpec /\ Fairness
  /\ \A c \in Callers :
       WF_docVars(\E x \in running : x.caller = c /\ (Find(x) \/ Execute(x) \/ ExecuteFails(x)))

-----------------------------------------------------------------------------
(* Properties.                                                             *)

Called == {c \in Callers : st[c] # "idle"}

\* However often clients are lost, there are no more documents than inserts, and
\* one for each client that closed: a close executes at most one operation once
\* more (mongo.js:214), and an upsert creates one document at most.
CreatedByInserts ==
  Cardinality(created) <=
    Cardinality({c \in Called : op[c].kind = "insert"}) + Cardinality(Closed)

\* Whoever waits, be it for a retry of what was answered before, is resumed, and
\* then every execution of its operation is answered, whatever attempts fail and
\* clients are lost on the way (mongo.js:206 and 211, statefulCache.js:10).
EventuallyTold ==
  \A c \in Callers :
    st[c] \in {"waiting", "delay"} ~> st[c] = "resumed" /\ told[c] = resumes[c]
=============================================================================
