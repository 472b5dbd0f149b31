--------------------------------- MODULE Scopes ---------------------------------
(***************************************************************************)
(* The conversions of ioModels/Scope.js, between the scope of a solution   *)
(* and the documents and requests that carry it to another process.        *)
(*                                                                         *)
(* A JavaScript object is a function from the keys that are not undefined. *)
(* A string or number is a record of its type and its text, and             *)
(* {...a, ...b} is b @@ a.  A document is a function from the paths that     *)
(* _buildEvent sets, by their last name: "model" is data.transform.human,   *)
(* "context" data.eventContext, "confirm" confirmMessage, "status"         *)
(* eventStatusCode.codeValue.  "query" is the string that qs makes of an    *)
(* object: the same object, all of whose values have become strings.        *)
(***************************************************************************)
EXTENDS Functions

CONSTANT Numerals   \* the texts that JavaScript takes for numbers

\* As in module TLC, whose operators have no definition that a proof can use.
k :> v == [x \in {k} |-> v]
f @@ g == [k \in DOMAIN f \cup DOMAIN g |-> IF k \in DOMAIN f THEN f[k] ELSE g[k]]

Text(t) == [type |-> "string", text |-> t]
IsText(v) == v = Text(v.text)
Number(t) == [type |-> "number", text |-> t]
List(D) == [type |-> "array", text |-> D]   \* of the documents D, in any order

Empty == [k \in {} |-> 0]
Only(o, keys) == RestrictDomain(o, LAMBDA k : k \in keys)
Get(o, k, default) == IF k \in DOMAIN o THEN o[k] ELSE default
Obj(o, k) == Get(o, k, Empty)

-----------------------------------------------------------------------------
(* _noEmptyProps.                                                          *)

\* Keys of an object, and of a string that is empty if the object is.
Nested == {"criteria", "sort", "extra", "model", "context", "output", "confirm"}
Strings == {"query"}

\* Mutant: zero is a value.
MutantTruthy(v) == IF v.type = "array" THEN v.text # {} ELSE v.text # ""

Truthy(v) == IF v.type = "array" THEN v.text # {} ELSE v.text # "" /\ v # Number("0")

\* What is left of an object: the keys whose values are not empty.
Filled(o) == RestrictValues(o, Truthy)

\* Mutant: nothing is pruned.
MutantPruned(o) == o

Pruned(o) ==
  LET inner == [k \in DOMAIN o |-> IF k \in Nested THEN Filled(o[k]) ELSE o[k]]
  IN  RestrictDomain(inner, LAMBDA k :
        IF k \in Nested \cup Strings THEN DOMAIN inner[k] # {} ELSE Truthy(inner[k]))

\* Nothing in it is empty.
IsPruned(o) ==
  \A k \in DOMAIN o :
    IF k \in Nested THEN DOMAIN o[k] # {} /\ \A j \in DOMAIN o[k] : Truthy(o[k][j])
    ELSE k \in Strings \/ Truthy(o[k])

-----------------------------------------------------------------------------
(* Queries.                                                                *)

DbOpKeys == {"skip", "sort", "limit", "project", "criteria", "increment", "uniqueBy"}
DbOp(o) == Only(o, DbOpKeys)
ValidDbOp(o) == \A k \in {"skip", "limit"} \cap DOMAIN o : o[k].type = "number"

AsText(v) == Text(v.text)

\* qs.stringify forgets which values were numbers.
Stringified(dbOp) ==
  [k \in DOMAIN dbOp |->
     IF k \in Nested THEN [j \in DOMAIN dbOp[k] |-> AsText(dbOp[k][j])] ELSE AsText(dbOp[k])]

ODataName == [limit |-> "$top", skip |-> "$skip"]

\* Mutant: the numbers of an OData query are strings.
MutantOData(q) ==
  [k \in {j \in DOMAIN ODataName : ODataName[j] \in DOMAIN q} |-> Text(q[ODataName[k]].text)]

\* createQuery makes numbers of the paging of an OData query.
OData(q) ==
  [k \in {j \in DOMAIN ODataName : ODataName[j] \in DOMAIN q} |-> Number(q[ODataName[k]].text)]

Paging(q) == RestrictDomain(q, LAMBDA k : k \in {"skip", "limit"} /\ q[k].text \in Numerals)

\* Mutant: a query replaces the criteria of the path.
MutantParsedDbOp(q, criteria) ==
  IF DOMAIN q = {} THEN "criteria" :> criteria
  ELSE OData(q) @@ Paging(q) @@ [sort |-> Obj(q, "sort"), criteria |-> Obj(q, "criteria")]

\* What _parseDbOp merges, before DbOp validates it and drops the projection.
ParsedDbOp(q, criteria) ==
  IF DOMAIN q = {} THEN "criteria" :> criteria
  ELSE OData(q) @@ Paging(q) @@ [sort |-> Obj(q, "sort"), criteria |-> Obj(q, "criteria") @@ criteria]

-----------------------------------------------------------------------------
(* Models, Events and EventResults.                                        *)

IdKeys == [Human |-> {"humanId"}, Robot |-> {"robotId"}, Greeting |-> {"greetingId"}]
ModelKeys ==
  [Human |-> {"humanId", "humanName"},
   Robot |-> {"robotId", "robotName"},
   Greeting |-> {"greetingId", "producerId", "receiverId", "producerType", "receiverType"}]

Outputs == {"humans", "robots", "greetings"}

\* Mutant: extra is not a property of an Event.
MutantEvent(e) == Only(e, {"context", "model", "query"})

Event(e) == Only(e, {"extra", "context", "model", "query"})

EventResult(e) == Only(e, {"extra", "statusCode", "confirm", "status", "context", "output"})

\* _buildEvent for Model M.  The schemas keep of the output what is in Outputs.
BuiltEvent(M, scope) ==
  [status |-> Get(scope, "eventStatus", Text("completed")),
   statusCode |-> Get(scope, "statusCode", Number("200")),
   confirm |-> Only(scope, {"userMessage"}),
   query |-> Stringified(DbOp(scope)),
   model |-> Only(scope, ModelKeys[M]),
   context |-> Only(scope, IdKeys[M]),
   extra |-> Obj(scope, "extra"),
   output |-> Only(scope, Outputs)]

UnflattenEvent(M, scope) == Pruned(Event(BuiltEvent(M, scope)))
UnflattenEventResult(M, scope) == Pruned(EventResult(BuiltEvent(M, scope)))

Data == {"context", "model", "query", "output"}

\* {...scope, ...doc}: the data of a document hides all data of the scope.
Over(doc, scope) ==
  doc @@ IF DOMAIN doc \cap Data = {} THEN scope ELSE Only(scope, DOMAIN scope \ Data)

\* Mutant: all properties of the model are criteria.
MutantEventQuery(e) == ParsedDbOp(Obj(e, "query"), Obj(e, "model"))

\* flattenEventObj throws when the query is not a DbOp.
EventQuery(e) == ParsedDbOp(Obj(e, "query"), Obj(e, "context"))

Parsable(e) == ValidDbOp(EventQuery(e))

FlattenEventObj(e) ==
  LET status == IF "status" \in DOMAIN e THEN "eventStatus" :> e.status ELSE Empty
  IN  Pruned(Only(e, {"extra", "statusCode"}) @@ status @@ Obj(e, "confirm") @@ Obj(e, "context")
               @@ DbOp(EventQuery(e)) @@ Obj(e, "model") @@ Obj(e, "output"))

\* A request: the parameters of its path, its query string, the model and the
\* context in its body, and the headers that Extra knows.
RequestQuery(r) == ParsedDbOp(r.string, r.params)

FlattenHttpRequest(r) ==
  Pruned("extra" :> r.extra @@ r.context @@ r.params @@ DbOp(RequestQuery(r)) @@ r.model)
=============================================================================
