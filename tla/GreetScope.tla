------------------------------- MODULE GreetScope -------------------------------
(***************************************************************************)
(* What becomes of the scope of one request to the Human process.  To give *)
(* a greeting it goes through three processes: the Human process parses    *)
(* the request and verifies the producer, the Robot process counts the     *)
(* receiver, the Greeting process inserts the greeting.  To find, insert   *)
(* or remove humans it is executed by the Human process.  Methods says     *)
(* which handler takes each call.  Greetings models the same steps of many *)
(* requests without their data, EventFlow how an Event gets to its host;   *)
(* here the Event and its EventResult are found when they are needed.      *)
(***************************************************************************)
EXTENDS Scopes, Methods

CONSTANTS
  Requests,   \* requests: method, params, string, model, context and extra
  Documents   \* documents of humans and robots that may exist

\* What the routes and the parsers of express, qs and the schemas leave: parameters of
\* the path are texts and not empty, a query string has texts, a body is for a human.
\* Documents were pruned before they were saved.
ASSUME ScopeAssumption ==
  /\ \A r \in Requests :
       /\ r.method \in {"greetHuman", "greetRobot", "find", "insert", "remove"}
       /\ r.method \in {"greetHuman", "greetRobot"} => DOMAIN r.params = {"producerId", "receiverId"}
       /\ r.method \in {"find", "insert", "remove"} => DOMAIN r.params \subseteq {"humanId"}
       /\ \A k \in DOMAIN r.params : IsText(r.params[k]) /\ Truthy(r.params[k])
       /\ \A k \in DOMAIN r.string \ Nested : IsText(r.string[k])
       /\ DOMAIN r.model \subseteq ModelKeys.Human
       /\ \A k \in DOMAIN r.context : r.context[k].type = "string" => IsText(r.context[k])
  /\ \A d \in Documents : IsPruned(d)

VARIABLES
  request,
  docs,     \* the documents that exist
  stage,    \* what is to be done next
  callee,   \* Model whose process is called
  http,     \* scope of the solution that serves the request
  call,     \* scope of the solution that sends the Event
  event,    \* the Event, then its EventResult
  host,     \* scope of the solution that handles the Event
  given,    \* greetings inserted
  served,   \* humans that a request found, inserted or removed
  told      \* the response

vars == <<request, docs, stage, callee, http, call, event, host, given, served, told>>

Stages ==
  {"requested", "find", "insert", "remove", "verifying producer", "verifying receiver", "giving",
   "sent", "received", "executed", "told", "poisoned"}

Greets == request.method \in {"greetHuman", "greetRobot"}
Receiver == IF request.method = "greetRobot" THEN "Robot" ELSE "Human"

\* No scope or document has a property that is empty.
TypeOK ==
  /\ request \in Requests
  /\ stage \in Stages
  /\ callee \in DOMAIN ModelKeys
  /\ \A o \in {http, event, host, told} \cup docs : IsPruned(o)
  /\ \A g \in given : DOMAIN g \subseteq ModelKeys.Greeting

Init ==
  /\ request \in Requests
  /\ docs \in SUBSET Documents
  /\ stage = "requested"
  /\ callee = "Human"
  /\ http = Empty /\ call = Empty /\ event = Empty /\ host = Empty
  /\ given = {} /\ served = {}
  /\ told = Empty

-----------------------------------------------------------------------------
(* The solutions of the Human process.                                     *)

\* Mutant: a message does not change the status.
MutantRefused(scope, code) == "userMessage" :> Text("message") @@ scope

\* The catches of http.js and mq.js: what went wrong becomes part of the scope.
Refused(scope, code) ==
  [userMessage |-> Text("message"),
   statusCode |-> Number(code),
   eventStatus |-> Text(IF code = "400" THEN "completed" ELSE "failed")] @@ scope

Respond(scope) ==
  /\ stage' = "told"
  /\ told' = RestrictDomain(UnflattenEventResult("Human", scope), LAMBDA k : k # "extra")

Unchanged == UNCHANGED <<request, docs, served>>

\* The handler beneath the route goes on: give, or an operation of mongo.
Serving(handler) ==
  IF handler = <<"give">> THEN "verifying producer"
  ELSE CHOOSE op \in {"find", "insert", "remove"} : handler = <<op>>

ParseRequest ==
  /\ stage = "requested"
  /\ IF ValidDbOp(RequestQuery(request))
     THEN /\ stage' = Serving(Beneath("Human", request.method, "http"))
          /\ http' = FlattenHttpRequest(request)
          /\ UNCHANGED told
     ELSE Respond(Refused(Empty, "400")) /\ UNCHANGED http
  /\ Unchanged /\ UNCHANGED <<callee, call, event, host, given>>

\* What give adds to the scope.
GiveScope == [producerType |-> Text("Human"), receiverType |-> Text(Receiver)] @@ http

\* The scope with which verifyIds counts the documents of M with this id.
Counting(M, id) ==
  LET scope == (CHOOSE k \in IdKeys[M] : TRUE) :> id @@ GiveScope
  IN  "criteria" :> Only(scope, IdKeys[M]) @@ scope

\* The documents of M that the criteria of a scope are for.
Selected(M, scope) ==
  {d \in docs : /\ IdKeys[M] \subseteq DOMAIN d
                /\ \A k \in DOMAIN Obj(scope, "criteria") :
                     Get(d, k, Text("")) = scope.criteria[k]}

\* What the paging leaves of them: no limit is zero, and who skips skips all.
Paged(M, scope) ==
  IF Get(scope, "skip", Number("0")).text # "0" THEN {} ELSE Selected(M, scope)

\* countDocuments, by an identifier.
Counted(M, scope) == Number(IF Paged(M, scope) = {} THEN "0" ELSE "1")

\* Mutant: any count will do.
MutantConfirmed(count) == count # Text("none")

Confirmed(count) == count = Number("1")

\* _sendOutboundEvent: what is saved becomes part of the scope as well.
Send(M, scope) ==
  /\ Handler("Event", "Human", "insert") = <<"insert">>
  /\ stage' = "sent"
  /\ callee' = M
  /\ event' = UnflattenEvent(M, scope)
  /\ call' = event' @@ scope
  /\ Unchanged /\ UNCHANGED <<http, host, given, told>>

\* A call of M.m by the Human process, for which the handler may be wrong.
Call(M, m, scope) ==
  IF Handler(M, "Human", m) = <<"send">> THEN Send(M, scope)
  ELSE /\ Respond(Refused(http, "500"))
       /\ Unchanged /\ UNCHANGED <<callee, http, call, event, host, given>>

\* verifyIds: what the process may count itself is counted at once.
Verify(M, id, next) ==
  IF Handler(M, "Human", "count") = <<"count">>
  THEN /\ IF Confirmed(Counted(M, Counting(M, id)))
          THEN stage' = next /\ UNCHANGED told
          ELSE Respond(Refused(http, "400"))
       /\ Unchanged /\ UNCHANGED <<callee, http, call, event, host, given>>
  ELSE Call(M, "count", Counting(M, id))

\* GiveOptions: both ids are there, and are texts.
ValidGive(scope) ==
  \A k \in {"producerId", "receiverId"} : k \in DOMAIN scope /\ scope[k].type = "string"

RefuseGive ==
  /\ stage = "verifying producer" /\ ~ ValidGive(http)
  /\ Respond(Refused(http, "400"))
  /\ Unchanged /\ UNCHANGED <<callee, http, call, event, host, given>>

VerifyProducer ==
  /\ stage = "verifying producer" /\ ValidGive(http)
  /\ Verify("Human", http.producerId, "verifying receiver")

VerifyReceiver ==
  /\ stage = "verifying receiver"
  /\ Verify(Receiver, http.receiverId, "giving")

CallInsert == stage = "giving" /\ Call("Greeting", "insert", GiveScope)

\* The EventResult is found and parsed.
Parsed == FlattenEventObj(Over(event, call))

ReturnCount ==
  /\ stage = "executed" /\ callee = "Robot"
  /\ IF Confirmed(Get(Parsed, "robots", Text("none")))
     THEN stage' = "giving" /\ UNCHANGED told
     ELSE Respond(Refused(http, "400"))
  /\ Unchanged /\ UNCHANGED <<callee, http, call, event, host, given>>

ReturnInsert ==
  /\ stage = "executed" /\ callee = "Greeting"
  /\ Respond(Parsed @@ http)
  /\ Unchanged /\ UNCHANGED <<callee, http, call, event, host, given>>

-----------------------------------------------------------------------------
(* Operations on humans, which the Human process executes.                 *)

\* The operation ends: D is what the collection then holds, H what is told of it.
Serve(D, H) ==
  /\ docs' = D
  /\ served' = H
  /\ Respond("humans" :> List(H) @@ http)
  /\ UNCHANGED <<request, callee, http, call, event, host, given>>

FindHumans == stage = "find" /\ Serve(docs, Paged("Human", http))

\* One of the humans selected.  Without criteria the driver may refuse, or any goes.
RemoveHuman ==
  /\ stage = "remove"
  /\ \/ \E d \in Selected("Human", http) : Serve(docs \ {d}, {d})
     \/ Selected("Human", http) = {} /\ Serve(docs, {})

\* What an insert is for: by the id, or by all that is given.
Given == Only(http, ModelKeys.Human)
SameHuman ==
  LET ids == Only(http, IdKeys.Human)
      criteria == IF ids = Empty THEN Given ELSE ids
  IN  Selected("Human", "criteria" :> criteria)

\* Another human has the name.
Duplicate ==
  \E d \in docs \ SameHuman :
    "humanName" \in DOMAIN Given \cap DOMAIN d /\ d.humanName = Given.humanName

\* An upsert: what is not given is kept, and the id is new if none is given.
InsertHuman ==
  /\ stage = "insert" /\ Given # Empty
  /\ \/ \E d \in SameHuman : Serve((docs \ {d}) \cup {Given @@ d}, {Given @@ d})
     \/ /\ SameHuman = {}
        /\ LET d == Given @@ "humanId" :> Text("new") IN Serve(docs \cup {d}, {d})

\* Where the index is there, a DuplicateKey becomes a Reject; any operation may fail.
OperationFails(code) ==
  /\ stage \in {"find", "insert", "remove"}
  /\ code = "400" => stage = "insert" /\ Duplicate
  /\ Respond(Refused(http, code))
  /\ Unchanged /\ UNCHANGED <<callee, http, call, event, host, given>>

-----------------------------------------------------------------------------
(* The processes that host Robot and Greeting.                             *)

\* An Event that cannot be parsed is returned to the queue, and found again.
ParseEvent ==
  /\ stage = "sent"
  /\ IF Parsable(event)
     THEN stage' = "received" /\ host' = FlattenEventObj(event)
     ELSE stage' = "poisoned" /\ UNCHANGED host
  /\ Unchanged /\ UNCHANGED <<callee, http, call, event, given, told>>

Finish(m, scope) ==
  /\ stage = "received"
  /\ Beneath(callee, m, "mq") = <<m>>
  /\ Handler("EventResult", callee, "insert") = <<"insert">>
  /\ stage' = "executed"
  /\ event' = UnflattenEventResult(callee, scope)
  /\ Unchanged /\ UNCHANGED <<callee, http, call, host, told>>

ExecuteCount ==
  /\ callee = "Robot"
  /\ Finish("count", "robots" :> Counted("Robot", host) @@ host)
  /\ UNCHANGED given

ExecuteInsert ==
  /\ callee = "Greeting"
  /\ LET greeting == Only(host, ModelKeys.Greeting) IN
     /\ given' = given \cup {greeting}
     /\ Finish("insert", "greetings" :> List({greeting}) @@ host)

\* The logic ends with an error, which is a Reject for a duplicate greeting.
ExecuteFails(code) ==
  /\ code = "400" => callee = "Greeting"
  /\ Finish(IF callee = "Robot" THEN "count" ELSE "insert", Refused(host, code))
  /\ UNCHANGED given

-----------------------------------------------------------------------------
Next ==
  \/ ParseRequest \/ RefuseGive \/ VerifyProducer \/ VerifyReceiver \/ CallInsert
  \/ FindHumans \/ RemoveHuman \/ InsertHuman
  \/ ReturnCount \/ ReturnInsert
  \/ ParseEvent \/ ExecuteCount \/ ExecuteInsert \/ (\E code \in {"400", "500"} : ExecuteFails(code) \/ OperationFails(code))

Spec == Init /\ [][Next]_vars

-----------------------------------------------------------------------------
(* Properties.                                                             *)

\* The id that the path names, unless the body's context names another.
Asked(k) == (request.context @@ request.params)[k]

\* What is inherited by each event reaches every process with every call and
\* comes back with every result, whatever is pruned on the way
\* (Extra.js:6, Scope.js:24, 32, 48 and 105).
ExtraInherited ==
  /\ stage \in {"sent", "received", "executed"} => Obj(event, "extra") = Filled(request.extra)
  /\ stage = "received" => Obj(host, "extra") = Filled(request.extra)

\* The only requests whose Event no host can parse, so that it is returned to
\* the queue for ever, are those with an OData limit: it is a number in the
\* process that is asked, and a string in every other (Scope.js:145 and 173).
PoisonOnlyByPaging ==
  stage = "poisoned" =>
    "$top" \in DOMAIN request.string /\ request.string["$top"].text # "0"

\* A receiver is counted by its id alone, whatever the request's own query,
\* which travels in the same scope, asks for (verifyIds.js:30, Scope.js:147).
CountedById ==
  stage = "received" /\ callee = "Robot" =>
    Obj(host, "criteria") = "robotId" :> Asked("receiverId")

\* What is given is what was verified, after two conversions: the greeting is
\* between documents that exist and of the types that the route names
\* (give.js:39 to 53).
GivenAsVerified ==
  \A g \in given :
    /\ ModelKeys.Greeting \ {"greetingId"} \subseteq DOMAIN g
    /\ g.receiverType = Text(Receiver)
    /\ \E d \in docs : Get(d, "humanId", Text("")) = g.producerId
    /\ \E d \in docs :
         Get(d, IF Receiver = "Human" THEN "humanId" ELSE "robotId", Text("")) = g.receiverId

\* Humans are found and removed by the id that the path names, whatever the body
\* has, unless the query names another: its criteria come after those of the path,
\* and when they are pruned the request is for any human (Scope.js:147 and 122).
NamedByPath ==
  served # {} /\ request.method \in {"find", "remove"} /\ "humanId" \in DOMAIN request.params =>
    \/ \A d \in served : d.humanId = request.params.humanId
    \/ "humanId" \in DOMAIN Obj(request.string, "criteria")

Reported ==
  IF Greets THEN "greetings" :> List(given) ELSE "humans" :> List(served)

\* The response has a message iff it does not say 200, and shows exactly the
\* greeting or the humans that the request is about, which are none if it failed:
\* the outcome of the last of three processes replaces those of the calls before
\* (mq.js:198, http.js:109).
AnswerAgrees ==
  stage = "told" =>
    /\ told.statusCode = Number("200") <=> "confirm" \notin DOMAIN told
    /\ Greets => (told.statusCode = Number("200") <=> given # {})
    /\ Obj(told, "output") = Filled(Reported)
    /\ told.statusCode # Number("200") => given = {} /\ served = {}

\* A request is refused only for an id that is not given, for a document that does
\* not exist, for paging that is text, or of its own that the counts of the
\* verification take over, for a name that is taken, or for an execution that was:
\* pruning a count of zero changes no verdict (Scope.js:122).  A request to give
\* fails only where a process that hosts the model failed: no call ends at a handler
\* that its process does not support (mongo.js:58, core.js:224).
RefusedForCause ==
  /\ stage = "told" /\ told.statusCode = Number("400") =>
       \/ Greets /\ \E k \in {"producerId", "receiverId"} : Asked(k).type # "string" \/ ~ Truthy(Asked(k))
       \/ Greets /\ \A d \in docs : Get(d, "humanId", Text("")) # Asked("producerId")
       \/ Greets /\ \A d \in docs :
            Get(d, IF Receiver = "Human" THEN "humanId" ELSE "robotId", Text(""))
              # Asked("receiverId")
       \/ DOMAIN Paging(request.string) # {}
       \/ Greets /\ Get(request.string, "$skip", Text("0")) # Text("0")
       \/ request.method = "insert" /\ Duplicate
       \/ Get(event, "statusCode", Number("200")) # Number("200")
  /\ Greets /\ stage = "told" /\ told.statusCode = Number("500") =>
       Get(event, "statusCode", Number("200")) = Number("500")
=============================================================================
