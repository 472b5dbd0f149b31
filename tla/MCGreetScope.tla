----------------------------- MODULE MCGreetScope -----------------------------
(* TLC instance of GreetScope: two humans, two robots, and requests with and *)
(* without each kind of query.                                              *)
EXTENDS GreetScope, FiniteSets

HumanDocs == {[humanId |-> Text(i), humanName |-> Text(i)] : i \in {"h1", "h2"}}
RobotDocs == {[robotId |-> Text(i), robotName |-> Text(i)] : i \in {"b1", "b2"}}
AllDocuments == HumanDocs \cup RobotDocs
NumeralTexts == {"", "0", "5"}

\* OData is not mixed with other queries.
QueryStrings ==
  {Empty, "sort" :> ("humanName" :> Text("-1")),
   "criteria" :> ("robotName" :> Text("b2")), "criteria" :> ("robotId" :> Text("b2")),
   "criteria" :> ("robotId" :> Text(""))}
  \cup {k :> Text(t) : k \in {"skip", "limit"}, t \in {"", "0", "5", "many"}}
  \cup {k :> Text(t) : k \in {"$skip", "$top"}, t \in {"0", "5"}}

Paths == [greetHuman |-> Text("h2"), greetRobot |-> Text("b1")]
\* A header may be empty.
Extras == {Empty, "sm_transactionid" :> Text("t1") @@ "orgoid" :> Text("")}

Greetings ==
  {[method |-> m, params |-> [producerId |-> Text("h1"), receiverId |-> Paths[m]],
    string |-> q, model |-> o, context |-> c, extra |-> x] :
      m \in {"greetHuman", "greetRobot"}, q \in QueryStrings,
      o \in {Empty, "humanId" :> Text("h2")},
      c \in {Empty, "robotName" :> Text("b2")} \cup {"receiverId" :> Text(t) : t \in {"", "b2"}},
      x \in Extras}

HumanQueries ==
  QueryStrings \cup {"criteria" :> (k :> Text(t)) : k \in {"humanId", "humanName"}, t \in {"", "h2"}}

Lookups ==
  {[method |-> m, params |-> p, string |-> q, model |-> Empty, context |-> c, extra |-> x] :
      m \in {"find", "remove"}, p \in {Empty, "humanId" :> Text("h1")}, q \in HumanQueries,
      c \in {Empty, "humanId" :> Text("h2")}, x \in Extras}

Inserts ==
  {[method |-> "insert", params |-> Empty, string |-> Empty, model |-> i @@ n, context |-> c,
    extra |-> x] :
      i \in {Empty} \cup {"humanId" :> Text(t) : t \in {"h1", "h3"}},
      n \in {Empty} \cup {"humanName" :> Text(t) : t \in {"h2", "h3"}},
      c \in {Empty, "humanId" :> Text("h2")}, x \in Extras}

\* The path of a removal always names a human.
AllRequests ==
  Greetings \cup Inserts
    \cup {r \in Lookups : r.method = "remove" => r.params # Empty}
=============================================================================
