--------------------------- MODULE GreetScopeProofs ---------------------------
(***************************************************************************)
(* Proofs about GreetScope, and about the conversions in Scopes and the    *)
(* handlers in Methods that it rests on, for any requests and documents.   *)
(***************************************************************************)
EXTENDS GreetScope, TLAPS

-----------------------------------------------------------------------------
(* Objects.                                                                *)

\* h has the keys of f and those of g, and f wins where both have a key.
Merges(h, f, g) ==
  /\ DOMAIN h = DOMAIN f \cup DOMAIN g
  /\ \A k \in DOMAIN f : h[k] = f[k]
  /\ \A k \in DOMAIN g \ DOMAIN f : h[k] = g[k]

LEMMA Merged ==
  ASSUME NEW f, NEW g
  PROVE  Merges(f @@ g, f, g)
BY DEF @@, Merges

LEMMA Single ==
  ASSUME NEW k, NEW v
  PROVE  DOMAIN (k :> v) = {k} /\ (k :> v)[k] = v
BY DEF :>

LEMMA OnlyFacts ==
  ASSUME NEW o, NEW keys
  PROVE  /\ DOMAIN Only(o, keys) = DOMAIN o \cap keys
         /\ \A k \in DOMAIN o \cap keys : Only(o, keys)[k] = o[k]
<1>1. Only(o, keys) = [k \in {j \in DOMAIN o : j \in keys} |-> o[k]]
  BY DEF Only, RestrictDomain, Restrict
<1> QED BY <1>1

LEMMA DbOpOfQuery ==
  ASSUME NEW q, DOMAIN q \subseteq {"limit", "skip", "sort", "criteria"}
  PROVE  DOMAIN DbOp(q) = DOMAIN q /\ \A k \in DOMAIN DbOp(q) : DbOp(q)[k] = q[k]
<1>1. /\ DOMAIN Only(q, DbOpKeys) = DOMAIN q \cap DbOpKeys
      /\ \A k \in DOMAIN q \cap DbOpKeys : Only(q, DbOpKeys)[k] = q[k]
  BY OnlyFacts
<1>2. DOMAIN q \cap DbOpKeys = DOMAIN q
  BY DEF DbOpKeys
<1> QED BY <1>1, <1>2 DEF DbOp

LEMMA FilledFacts ==
  ASSUME NEW o
  PROVE  /\ DOMAIN Filled(o) = {k \in DOMAIN o : Truthy(o[k])}
         /\ \A k \in DOMAIN Filled(o) : Filled(o)[k] = o[k]
         /\ Filled(o) = [k \in DOMAIN Filled(o) |-> o[k]]
         /\ Filled(Filled(o)) = Filled(o)
         /\ DOMAIN Filled(o) = {} => Filled(o) = Empty
<1>1. Filled(o) = [k \in {j \in DOMAIN o : Truthy(o[j])} |-> o[k]]
  BY DEF Filled, RestrictValues, Restrict
<1>2. Filled(Filled(o)) = [k \in {j \in DOMAIN Filled(o) : Truthy(Filled(o)[j])} |-> Filled(o)[k]]
  BY DEF Filled, RestrictValues, Restrict
<1>3. DOMAIN Filled(o) = {} => Filled(o) = Empty
  BY <1>1 DEF Empty
<1> QED BY <1>1, <1>2, <1>3

LEMMA EmptyFacts == DOMAIN Empty = {} /\ Filled(Empty) = Empty
<1>1. DOMAIN Empty = {}
  BY DEF Empty
<1> QED BY <1>1, FilledFacts

LEMMA FilledOnly ==
  \A o, keys :
    /\ \A k : k \in DOMAIN Filled(Only(o, keys)) <=> k \in DOMAIN o /\ k \in keys /\ Truthy(o[k])
    /\ \A k \in DOMAIN Filled(Only(o, keys)) : Filled(Only(o, keys))[k] = o[k]
<1> TAKE o, keys
<1> DEFINE p == Only(o, keys)
<1>1. DOMAIN p = DOMAIN o \cap keys /\ \A k \in DOMAIN p : p[k] = o[k]
  BY OnlyFacts
<1> HIDE DEF p
<1>2. /\ DOMAIN Filled(p) = {k \in DOMAIN p : Truthy(p[k])}
      /\ \A k \in DOMAIN Filled(p) : Filled(p)[k] = p[k]
  BY FilledFacts
<1>3. \A k : k \in DOMAIN Filled(p) <=> k \in DOMAIN o /\ k \in keys /\ Truthy(o[k])
  BY <1>1, <1>2
<1>4. \A k \in DOMAIN Filled(p) : Filled(p)[k] = o[k]
  BY <1>1, <1>2
<1> QED BY <1>3, <1>4 DEF p

\* Two objects are the same if they have the same keys and values.
LEMMA SameObject ==
  ASSUME NEW f, NEW g, f = [k \in DOMAIN f |-> f[k]], g = [k \in DOMAIN g |-> g[k]],
         DOMAIN f = DOMAIN g, \A k \in DOMAIN f : f[k] = g[k]
  PROVE  f = g
OBVIOUS

LEMMA PrunedIs ==
  ASSUME NEW o
  PROVE  /\ DOMAIN Pruned(o) = {k \in DOMAIN o :
              IF k \in Nested THEN DOMAIN Filled(o[k]) # {}
              ELSE IF k \in Strings THEN DOMAIN o[k] # {} ELSE Truthy(o[k])}
         /\ \A k \in DOMAIN Pruned(o) : Pruned(o)[k] = IF k \in Nested THEN Filled(o[k]) ELSE o[k]
<1> DEFINE inner == [k \in DOMAIN o |-> IF k \in Nested THEN Filled(o[k]) ELSE o[k]]
           full(k) == IF k \in Nested \cup Strings THEN DOMAIN inner[k] # {} ELSE Truthy(inner[k])
<1>1. Pruned(o) = [k \in {j \in DOMAIN inner : full(j)} |-> inner[k]]
  BY DEF Pruned, RestrictDomain, Restrict
<1>2. Nested \cap Strings = {}
  BY DEF Nested, Strings
<1> QED BY <1>1, <1>2

\* What pruning leaves of a key that is nested, and of one that is not.
LEMMA PrunedFacts ==
  ASSUME NEW o
  PROVE  /\ \A k \in Nested : Obj(Pruned(o), k) = Filled(Obj(o, k))
         /\ \A k \in Nested : k \in DOMAIN Pruned(o) <=> DOMAIN Filled(Obj(o, k)) # {}
         /\ \A k : k \in DOMAIN Pruned(o) /\ k \notin Nested => Pruned(o)[k] = o[k]
         /\ \A k : k \notin Nested \cup Strings =>
              (k \in DOMAIN Pruned(o) <=> k \in DOMAIN o /\ Truthy(o[k]))
         /\ DOMAIN Pruned(o) \subseteq DOMAIN o
<1>1. ASSUME NEW k \in Nested
      PROVE  /\ Obj(Pruned(o), k) = Filled(Obj(o, k))
             /\ k \in DOMAIN Pruned(o) <=> DOMAIN Filled(Obj(o, k)) # {}
  <2>1. CASE k \in DOMAIN Pruned(o)
    BY <1>1, <2>1, PrunedIs DEF Obj, Get
  <2>2. CASE k \in DOMAIN o /\ k \notin DOMAIN Pruned(o)
    <3>1. DOMAIN Filled(o[k]) = {}
      BY <1>1, <2>2, PrunedIs
    <3> QED BY <2>2, <3>1, FilledFacts DEF Obj, Get
  <2>3. CASE k \notin DOMAIN o
    <3>1. k \notin DOMAIN Pruned(o)
      BY <2>3, PrunedIs
    <3> QED BY <2>3, <3>1, EmptyFacts DEF Obj, Get
  <2> QED BY <2>1, <2>2, <2>3
<1> QED BY <1>1, PrunedIs

\* What is pruned has nothing that is empty, and pruning it again changes nothing.
THEOREM PrunedTwice ==
  ASSUME NEW o
  PROVE  IsPruned(Pruned(o)) /\ Pruned(Pruned(o)) = Pruned(o)
<1>1. IsPruned(Pruned(o))
  <2> SUFFICES ASSUME NEW k \in DOMAIN Pruned(o)
               PROVE  IF k \in Nested
                      THEN DOMAIN Pruned(o)[k] # {}
                           /\ \A j \in DOMAIN Pruned(o)[k] : Truthy(Pruned(o)[k][j])
                      ELSE k \in Strings \/ Truthy(Pruned(o)[k])
    BY DEF IsPruned
  <2>1. CASE k \in Nested
    <3>1. Pruned(o)[k] = Filled(o[k]) /\ DOMAIN Filled(o[k]) # {}
      BY <2>1, PrunedIs
    <3> QED BY <2>1, <3>1, FilledFacts
  <2>2. CASE k \notin Nested
    BY <2>2, PrunedIs
  <2> QED BY <2>1, <2>2
<1> DEFINE p == Pruned(o)
<1>2. DOMAIN p = {k \in DOMAIN o :
                   IF k \in Nested THEN DOMAIN Filled(o[k]) # {}
                   ELSE IF k \in Strings THEN DOMAIN o[k] # {} ELSE Truthy(o[k])}
  BY PrunedIs
<1>3. \A k \in DOMAIN p : p[k] = IF k \in Nested THEN Filled(o[k]) ELSE o[k]
  BY PrunedIs
<1>4. \A q : Pruned(q) = [k \in DOMAIN Pruned(q) |-> Pruned(q)[k]]
  BY DEF Pruned, RestrictDomain, Restrict
<1>5. p = [k \in DOMAIN p |-> p[k]]
  BY <1>4
<1> HIDE DEF p
<1>6. \A k \in DOMAIN p : k \in Nested => Filled(p[k]) = p[k]
  BY <1>3, FilledFacts
<1>7. DOMAIN Pruned(p) = DOMAIN p
  <2>1. \A k \in DOMAIN p : IF k \in Nested THEN DOMAIN Filled(p[k]) # {}
                            ELSE IF k \in Strings THEN DOMAIN p[k] # {} ELSE Truthy(p[k])
    BY <1>2, <1>3, <1>6
  <2> QED BY <2>1, PrunedIs
<1>8. \A k \in DOMAIN p : Pruned(p)[k] = p[k]
  BY <1>6, <1>7, PrunedIs
<1>9. Pruned(p) = p
  BY <1>4, <1>5, <1>7, <1>8, SameObject
<1> QED BY <1>1, <1>9 DEF p

-----------------------------------------------------------------------------
(* Handlers.                                                               *)

LEMMA ComposedOfNone ==
  ASSUME NEW M, NEW process, NEW logic
  PROVE  Composed(M, process, <<>>, logic) = <<logic>>
<1> DEFINE s == <<>>
           G(f) == [k \in 1 .. Len(s) + 1 |-> IF k > Len(s) THEN <<logic>>
                                               ELSE Middleware(M, process, s[k], f[k + 1])]
           w == [k \in 1 .. Len(s) + 1 |-> <<logic>>]
           from == CHOOSE f : f = G(f)
<1>1. Len(s) = 0
  OBVIOUS
<1>2. Composed(M, process, s, logic) = from[1]
  BY DEF Composed
<1> HIDE DEF s
<1>3. w = G(w)
  <2>1. \A k \in 1 .. Len(s) + 1 : w[k] = G(w)[k]
    BY <1>1
  <2> QED BY <2>1
<1>4. from = G(from)
  <2> HIDE DEF w, G
  <2> QED BY <1>3
<1> HIDE DEF from
<1>5. from[1] = <<logic>>
  BY <1>1, <1>4
<1> QED BY <1>2, <1>5 DEF s

LEMMA ComposedOfTwo ==
  ASSUME NEW M, NEW process, NEW a, NEW b, NEW logic
  PROVE  Composed(M, process, <<a, b>>, logic)
           = Middleware(M, process, a, Middleware(M, process, b, <<logic>>))
<1> DEFINE mid == Middleware(M, process, b, <<logic>>)
           top == Middleware(M, process, a, mid)
           s == <<a, b>>
           G(f) == [k \in 1 .. Len(s) + 1 |-> IF k > Len(s) THEN <<logic>>
                                               ELSE Middleware(M, process, s[k], f[k + 1])]
           w == [k \in 1 .. Len(s) + 1 |-> IF k = 1 THEN top ELSE IF k = 2 THEN mid ELSE <<logic>>]
           from == CHOOSE f : f = G(f)
<1>1. Len(s) = 2 /\ s[1] = a /\ s[2] = b
  OBVIOUS
<1>2. Composed(M, process, s, logic) = from[1]
  BY DEF Composed
<1> HIDE DEF s
<1>3. w = G(w)
  <2>1. \A k \in 1 .. Len(s) + 1 : w[k] = G(w)[k]
    <3>1. w[1] = top /\ w[2] = mid /\ w[3] = <<logic>>
      BY <1>1
    <3> HIDE DEF w, mid, top
    <3>2. /\ G(w)[1] = Middleware(M, process, a, mid)
          /\ G(w)[2] = Middleware(M, process, b, <<logic>>)
          /\ G(w)[3] = <<logic>>
      BY <1>1, <3>1
    <3> QED BY <1>1, <3>1, <3>2 DEF mid, top
  <2> QED BY <2>1
<1>4. from = G(from)
  <2> HIDE DEF w, G
  <2> QED BY <1>3
<1> HIDE DEF from
<1>5. from[3] = <<logic>>
  BY <1>1, <1>4
<1>6. from[2] = mid
  BY <1>1, <1>4, <1>5
<1>7. from[1] = top
  BY <1>1, <1>4, <1>6
<1> QED BY <1>2, <1>7 DEF s

\* mongo in the process that hosts the model, beneath mq, and mq elsewhere.
LEMMA MqAndMongo ==
  ASSUME NEW M \in {"Human", "Robot", "Greeting"}, NEW process, NEW op \in {"count", "find", "insert", "remove"},
         NEW logic
  PROVE  Composed(M, process, <<"mq", op>>, logic)
           = IF process = M THEN <<op>> ELSE <<"send">>
<1> DEFINE below == Middleware(M, process, op, <<logic>>)
<1>1. Composed(M, process, <<"mq", op>>, logic) = Middleware(M, process, "mq", below)
  BY ComposedOfTwo
<1>2. process = M => below = <<op>>
  BY DEF Middleware, Mongo
<1> HIDE DEF below
<1>3. Middleware(M, process, "mq", below) = IF process = M THEN below ELSE <<"send">>
  BY DEF Middleware, Mq
<1> QED BY <1>1, <1>2, <1>3

\* What the Human process runs for the calls of a solution: it counts humans itself,
\* and sends what is for another model.
LEMMA HandlersOfCalls ==
  /\ Handler("Human", "Human", "count") = <<"count">>
  /\ Handler("Robot", "Human", "count") = <<"send">>
  /\ Handler("Greeting", "Human", "insert") = <<"send">>
<1>1. \A M \in {"Human", "Robot"} : Methods[M]["count"] = Stack(<<"mq", "count">>)
  BY DEF Methods, IoModels, ThingMethods
<1>2. Methods["Greeting"]["insert"] = Stack(<<"mq", "insert">>)
  BY DEF Methods, IoModels, GreetingMethods
<1>3. \A s : Stack(s).io = s /\ Stack(s).logic = "default"
  BY DEF Stack, Method
<1>4. Handler("Human", "Human", "count") = <<"count">>
  BY <1>1, <1>3, MqAndMongo DEF Handler
<1>5. Handler("Robot", "Human", "count") = <<"send">>
  BY <1>1, <1>3, MqAndMongo DEF Handler
<1>6. Handler("Greeting", "Human", "insert") = <<"send">>
  BY <1>2, <1>3, MqAndMongo DEF Handler
<1> QED BY <1>4, <1>5, <1>6

\* What a route of the Human process goes on with.
LEMMA ServingOfRoutes ==
  ASSUME NEW m \in {"greetHuman", "greetRobot", "find", "insert", "remove"}
  PROVE  Serving(Beneath("Human", m, "http"))
           = IF m \in {"greetHuman", "greetRobot"} THEN "verifying producer" ELSE m
<1> DEFINE stack == Methods["Human"][m].io
           first == CHOOSE k \in DOMAIN stack : stack[k] = "http"
<1>1. CASE m \in {"greetHuman", "greetRobot"}
  <2>1. stack = <<"http">> /\ Methods["Human"][m].logic = "give"
    BY <1>1 DEF Methods, IoModels, ThingMethods, Method
  <2>2. first = 1 /\ Len(stack) = 1
    BY <2>1
  <2>3. SubSeq(stack, 1 + first, Len(stack)) = <<>>
    BY <2>1, <2>2
  <2>4. Beneath("Human", m, "http") = <<"give">>
    <3>1. Beneath("Human", m, "http") = Composed("Human", "Human", <<>>, "give")
      BY <2>1, <2>3 DEF Beneath
    <3>2. Composed("Human", "Human", <<>>, "give") = <<"give">>
      BY ComposedOfNone
    <3> QED BY <3>1, <3>2
  <2> QED BY <1>1, <2>4 DEF Serving
<1>2. CASE m \in {"find", "insert", "remove"}
  <2>1. stack = <<"http", "mq", m>> /\ Methods["Human"][m].logic = "default"
    BY <1>2 DEF Methods, IoModels, ThingMethods, Stack, Method
  <2>2. first = 1 /\ Len(stack) = 3
    BY <2>1
  <2>3. SubSeq(stack, 1 + first, Len(stack)) = <<"mq", m>>
    <3> DEFINE t == SubSeq(<<"http", "mq", m>>, 2, 3)
    <3>1. t = <<"mq", m>>
      <4>1. /\ t \in Seq({"http", "mq", m}) /\ Len(t) = 2
            /\ t[1] = "mq" /\ t[2] = m
        OBVIOUS
      <4> HIDE DEF t
      <4> QED BY <4>1
    <3> QED BY <2>1, <2>2, <3>1
  <2>4. Beneath("Human", m, "http") = <<m>>
    <3>1. Beneath("Human", m, "http") = Composed("Human", "Human", <<"mq", m>>, "default")
      BY <2>1, <2>3 DEF Beneath
    <3>2. m \in {"count", "find", "insert", "remove"}
      BY <1>2
    <3>3. Composed("Human", "Human", <<"mq", m>>, "default") = <<m>>
      BY <3>2, MqAndMongo
    <3> QED BY <3>1, <3>3
  <2>5. \A op : <<m>> = <<op>> <=> m = op
    OBVIOUS
  <2>6. Serving(<<m>>) = CHOOSE op \in {"find", "insert", "remove"} : <<m>> = <<op>>
    BY <1>2, <2>5 DEF Serving
  <2>7. Serving(<<m>>) \in {"find", "insert", "remove"} /\ <<m>> = <<Serving(<<m>>)>>
    BY <1>2, <2>6
  <2> QED BY <1>2, <2>4, <2>5, <2>7
<1> QED BY <1>1, <1>2

-----------------------------------------------------------------------------
(* Queries, and the scope of a request.                                    *)

LEMMA PagingFacts ==
  ASSUME NEW q
  PROVE  /\ DOMAIN Paging(q) = {k \in DOMAIN q : k \in {"skip", "limit"} /\ q[k].text \in Numerals}
         /\ \A k \in DOMAIN Paging(q) : Paging(q)[k] = q[k]
<1>1. Paging(q) = [k \in {j \in DOMAIN q : j \in {"skip", "limit"} /\ q[j].text \in Numerals} |-> q[k]]
  BY DEF Paging, RestrictDomain, Restrict
<1> QED BY <1>1

LEMMA NamesOfOData == /\ DOMAIN ODataName = {"limit", "skip"}
                      /\ ODataName["limit"] = "$top" /\ ODataName["skip"] = "$skip"
BY DEF ODataName

LEMMA ODataFacts ==
  ASSUME NEW q
  PROVE  /\ DOMAIN OData(q) = {k \in {"limit", "skip"} : ODataName[k] \in DOMAIN q}
         /\ \A k \in DOMAIN OData(q) : OData(q)[k] = Number(q[ODataName[k]].text)
BY NamesOfOData DEF OData

\* The DbOp of a query: its paging, its sort, and its criteria before those given.
LEMMA QueryFacts ==
  ASSUME NEW q, NEW criteria
  PROVE  LET p == ParsedDbOp(q, criteria) IN
         /\ DOMAIN p \subseteq {"limit", "skip", "sort", "criteria"}
         /\ "criteria" \in DOMAIN p
         /\ p.criteria = IF DOMAIN q = {} THEN criteria ELSE Obj(q, "criteria") @@ criteria
         /\ \A k \in {"limit", "skip"} :
              /\ k \in DOMAIN p <=> ODataName[k] \in DOMAIN q \/ k \in DOMAIN Paging(q)
              /\ ODataName[k] \in DOMAIN q => p[k] = Number(q[ODataName[k]].text)
              /\ ODataName[k] \notin DOMAIN q /\ k \in DOMAIN p => p[k] = q[k]
<1> DEFINE p == ParsedDbOp(q, criteria)
<1>1. CASE DOMAIN q = {}
  <2>1. p = "criteria" :> criteria
    BY <1>1 DEF ParsedDbOp
  <2>2. DOMAIN p = {"criteria"} /\ p["criteria"] = criteria
    BY <2>1, Single
  <2> QED BY <1>1, <2>2, PagingFacts
<1>2. CASE DOMAIN q # {}
  <2> DEFINE odata == OData(q)
             paging == Paging(q)
             numbers == odata @@ paging
             rest == [sort |-> Obj(q, "sort"), criteria |-> Obj(q, "criteria") @@ criteria]
  <2>1. p = numbers @@ rest
    BY <1>2 DEF ParsedDbOp
  <2>2. DOMAIN rest = {"sort", "criteria"} /\ rest["criteria"] = Obj(q, "criteria") @@ criteria
    OBVIOUS
  <2>3. /\ DOMAIN odata = {k \in {"limit", "skip"} : ODataName[k] \in DOMAIN q}
        /\ \A k \in DOMAIN odata : odata[k] = Number(q[ODataName[k]].text)
    BY ODataFacts
  <2>4. DOMAIN paging \subseteq {"limit", "skip"} /\ \A k \in DOMAIN paging : paging[k] = q[k]
    BY PagingFacts
  <2> HIDE DEF p, odata, paging, rest
  <2>5. /\ DOMAIN numbers = DOMAIN odata \cup DOMAIN paging
        /\ \A k \in DOMAIN odata : numbers[k] = odata[k]
        /\ \A k \in DOMAIN paging \ DOMAIN odata : numbers[k] = paging[k]
    <3>1. Merges(numbers, odata, paging)
      BY Merged
    <3> QED BY <3>1 DEF Merges
  <2> HIDE DEF numbers
  <2>6. /\ DOMAIN p = DOMAIN numbers \cup DOMAIN rest
        /\ \A k \in DOMAIN numbers : p[k] = numbers[k]
        /\ \A k \in DOMAIN rest \ DOMAIN numbers : p[k] = rest[k]
    <3>1. /\ DOMAIN (numbers @@ rest) = DOMAIN numbers \cup DOMAIN rest
          /\ \A k \in DOMAIN numbers : (numbers @@ rest)[k] = numbers[k]
          /\ \A k \in DOMAIN rest \ DOMAIN numbers : (numbers @@ rest)[k] = rest[k]
      <4>1. Merges(numbers @@ rest, numbers, rest)
        BY Merged
      <4> QED BY <4>1 DEF Merges
    <3> QED BY <2>1, <3>1
  <2>7. DOMAIN numbers \subseteq {"limit", "skip"}
    BY <2>3, <2>4, <2>5
  <2>8. p["criteria"] = Obj(q, "criteria") @@ criteria
    BY <2>2, <2>6, <2>7
  <2>9. ASSUME NEW k \in {"limit", "skip"}
        PROVE  /\ k \in DOMAIN p <=> ODataName[k] \in DOMAIN q \/ k \in DOMAIN paging
               /\ ODataName[k] \in DOMAIN q => p[k] = Number(q[ODataName[k]].text)
               /\ ODataName[k] \notin DOMAIN q /\ k \in DOMAIN p => p[k] = q[k]
    <3>1. k \notin DOMAIN rest
      BY <2>2
    <3>2. k \in DOMAIN odata <=> ODataName[k] \in DOMAIN q
      BY <2>3
    <3> QED BY <2>3, <2>4, <2>5, <2>6, <3>1, <3>2
  <2> QED BY <1>2, <2>2, <2>6, <2>7, <2>8, <2>9 DEF p, paging
<1> QED BY <1>1, <1>2

\* A query that is no DbOp has paging that is not OData's.
LEMMA InvalidOnlyByPaging ==
  ASSUME NEW q, NEW criteria, ~ ValidDbOp(ParsedDbOp(q, criteria))
  PROVE  \E k \in {"limit", "skip"} :
           k \in DOMAIN Paging(q) /\ k \in DOMAIN ParsedDbOp(q, criteria)
<1> DEFINE p == ParsedDbOp(q, criteria)
<1>1. PICK k \in {"skip", "limit"} \cap DOMAIN p : p[k].type # "number"
  BY DEF ValidDbOp
<1>2. /\ k \in DOMAIN p <=> ODataName[k] \in DOMAIN q \/ k \in DOMAIN Paging(q)
      /\ ODataName[k] \in DOMAIN q => p[k] = Number(q[ODataName[k]].text)
  BY QueryFacts
<1> HIDE DEF p
<1>3. ODataName[k] \notin DOMAIN q
  BY <1>1, <1>2 DEF Number
<1> QED BY <1>1, <1>2, <1>3 DEF p

\* The properties of a scope that mean something to the conversions.
Reserved ==
  DbOpKeys \cup Nested \cup Strings \cup Outputs \cup {"statusCode", "status", "eventStatus", "userMessage"}

\* The contexts of the requests have none of them: they are for ids and names.
PlainContexts == \A r \in Requests : DOMAIN r.context \cap Reserved = {}

\* What FlattenHttpRequest merges.
Five(a, b, c, d, e) == a @@ b @@ c @@ d @@ e

LEMMA MergedFive ==
  \A a, b, c, d, e :
    LET m == Five(a, b, c, d, e) IN
    /\ \A k : k \in DOMAIN m
              <=> \/ k \in DOMAIN a \/ k \in DOMAIN b \/ k \in DOMAIN c \/ k \in DOMAIN d
                 \/ k \in DOMAIN e
    /\ \A k : k \in DOMAIN a => m[k] = a[k]
    /\ \A k : k \in DOMAIN b /\ k \notin DOMAIN a => m[k] = b[k]
    /\ \A k : k \in DOMAIN c /\ k \notin DOMAIN a /\ k \notin DOMAIN b => m[k] = c[k]
    /\ \A k : k \in DOMAIN d /\ k \notin DOMAIN a /\ k \notin DOMAIN b /\ k \notin DOMAIN c
             => m[k] = d[k]
    /\ \A k : k \in DOMAIN e /\ k \notin DOMAIN a \cup DOMAIN b \cup DOMAIN c \cup DOMAIN d
             => m[k] = e[k]
<1> TAKE a, b, c, d, e
<1> DEFINE ab == a @@ b
           abc == ab @@ c
           abcd == abc @@ d
<1>1. /\ DOMAIN ab = DOMAIN a \cup DOMAIN b
      /\ \A k \in DOMAIN a : ab[k] = a[k]
      /\ \A k \in DOMAIN b \ DOMAIN a : ab[k] = b[k]
  <2>1. Merges(ab, a, b)
    BY Merged
  <2> QED BY <2>1 DEF Merges
<1> HIDE DEF ab
<1>2. /\ DOMAIN abc = DOMAIN ab \cup DOMAIN c
      /\ \A k \in DOMAIN ab : abc[k] = ab[k]
      /\ \A k \in DOMAIN c \ DOMAIN ab : abc[k] = c[k]
  <2>1. Merges(abc, ab, c)
    BY Merged
  <2> QED BY <2>1 DEF Merges
<1> HIDE DEF abc
<1>3. /\ DOMAIN abcd = DOMAIN abc \cup DOMAIN d
      /\ \A k \in DOMAIN abc : abcd[k] = abc[k]
      /\ \A k \in DOMAIN d \ DOMAIN abc : abcd[k] = d[k]
  <2>1. Merges(abcd, abc, d)
    BY Merged
  <2> QED BY <2>1 DEF Merges
<1> HIDE DEF abcd
<1>4. /\ DOMAIN (abcd @@ e) = DOMAIN abcd \cup DOMAIN e
      /\ \A k \in DOMAIN abcd : (abcd @@ e)[k] = abcd[k]
      /\ \A k \in DOMAIN e \ DOMAIN abcd : (abcd @@ e)[k] = e[k]
  <2>1. Merges(abcd @@ e, abcd, e)
    BY Merged
  <2> QED BY <2>1 DEF Merges
<1> DEFINE m == Five(a, b, c, d, e)
<1>5. m = abcd @@ e
  BY DEF Five, abcd, abc, ab
<1> HIDE DEF m
<1>6. /\ \A k : k \in DOMAIN m
                <=> \/ k \in DOMAIN a \/ k \in DOMAIN b \/ k \in DOMAIN c \/ k \in DOMAIN d
                   \/ k \in DOMAIN e
      /\ \A k : k \in DOMAIN a => m[k] = a[k]
      /\ \A k : k \in DOMAIN b /\ k \notin DOMAIN a => m[k] = b[k]
      /\ \A k : k \in DOMAIN c /\ k \notin DOMAIN a /\ k \notin DOMAIN b => m[k] = c[k]
      /\ \A k : k \in DOMAIN d /\ k \notin DOMAIN a /\ k \notin DOMAIN b /\ k \notin DOMAIN c
               => m[k] = d[k]
      /\ \A k : k \in DOMAIN e /\ k \notin DOMAIN a \cup DOMAIN b \cup DOMAIN c \cup DOMAIN d
               => m[k] = e[k]
  BY <1>1, <1>2, <1>3, <1>4, <1>5
<1> QED BY <1>6 DEF m

\* Where the scope of a request has its properties from.
LEMMA ScopeOfRequest ==
  ASSUME NEW r \in Requests
  PROVE  LET H == FlattenHttpRequest(r)
             q == RequestQuery(r) IN
         /\ DOMAIN H \subseteq {"extra"} \cup DOMAIN r.context \cup DOMAIN r.params
                                 \cup {"limit", "skip", "sort", "criteria"} \cup ModelKeys.Human
         /\ Obj(H, "extra") = Filled(r.extra)
         /\ \A k \in {"producerId", "receiverId"} \cap DOMAIN r.params :
              /\ k \in DOMAIN H <=> Truthy((r.context @@ r.params)[k])
              /\ k \in DOMAIN H => H[k] = (r.context @@ r.params)[k]
              /\ k \in DOMAIN H /\ H[k].type = "string" => IsText(H[k])
         /\ DOMAIN r.context \cap Reserved = {} =>
              /\ Obj(H, "criteria") = Filled(q.criteria)
              /\ \A k \in {"limit", "skip"} :
                   /\ k \in DOMAIN H <=> k \in DOMAIN q /\ Truthy(q[k])
                   /\ k \in DOMAIN H => H[k] = q[k]
<1> DEFINE H == FlattenHttpRequest(r)
           q == RequestQuery(r)
           x == "extra" :> r.extra
           op == DbOp(q)
           raw == x @@ r.context @@ r.params @@ op @@ r.model
<1>1. H = Pruned(raw)
  BY DEF FlattenHttpRequest
<1>2. DOMAIN x = {"extra"} /\ x["extra"] = r.extra
  BY Single
<1>3. /\ DOMAIN q \subseteq {"limit", "skip", "sort", "criteria"}
      /\ "criteria" \in DOMAIN q
  BY QueryFacts DEF RequestQuery
<1>4. DOMAIN op = DOMAIN q /\ \A k \in DOMAIN op : op[k] = q[k]
  BY <1>3, DbOpOfQuery
<1>5. /\ DOMAIN r.params \subseteq {"producerId", "receiverId", "humanId"}
      /\ \A k \in DOMAIN r.params : IsText(r.params[k]) /\ Truthy(r.params[k])
      /\ DOMAIN r.model \subseteq ModelKeys.Human
      /\ \A k \in DOMAIN r.context : r.context[k].type = "string" => IsText(r.context[k])
  BY ScopeAssumption
<1>6. /\ DOMAIN (r.context @@ r.params) = DOMAIN r.context \cup DOMAIN r.params
      /\ \A k \in DOMAIN r.context : (r.context @@ r.params)[k] = r.context[k]
      /\ \A k \in DOMAIN r.params \ DOMAIN r.context : (r.context @@ r.params)[k] = r.params[k]
  <2>1. Merges(r.context @@ r.params, r.context, r.params)
    BY Merged
  <2> QED BY <2>1 DEF Merges
<1> HIDE DEF x, op
<1>7. /\ \A k : k \in DOMAIN raw
                <=> \/ k \in DOMAIN x \/ k \in DOMAIN r.context \/ k \in DOMAIN r.params
                   \/ k \in DOMAIN op \/ k \in DOMAIN r.model
      /\ \A k : k \in DOMAIN x => raw[k] = x[k]
      /\ \A k : k \in DOMAIN r.context /\ k \notin DOMAIN x => raw[k] = r.context[k]
      /\ \A k : k \in DOMAIN r.params /\ k \notin DOMAIN x /\ k \notin DOMAIN r.context
               => raw[k] = r.params[k]
      /\ \A k : /\ k \in DOMAIN op /\ k \notin DOMAIN x
                /\ k \notin DOMAIN r.context /\ k \notin DOMAIN r.params
               => raw[k] = op[k]
  <2>1. raw = Five(x, r.context, r.params, op, r.model)
    BY DEF Five
  <2> HIDE DEF raw
  <2>2. \A k : k \in DOMAIN raw
               <=> \/ k \in DOMAIN x \/ k \in DOMAIN r.context \/ k \in DOMAIN r.params
                  \/ k \in DOMAIN op \/ k \in DOMAIN r.model
    BY <2>1, MergedFive
  <2>3. \A k : k \in DOMAIN x => raw[k] = x[k]
    BY <2>1, MergedFive
  <2>4. \A k : k \in DOMAIN r.context /\ k \notin DOMAIN x => raw[k] = r.context[k]
    BY <2>1, MergedFive
  <2>5. \A k : k \in DOMAIN r.params /\ k \notin DOMAIN x /\ k \notin DOMAIN r.context
              => raw[k] = r.params[k]
    BY <2>1, MergedFive
  <2>6. \A k : /\ k \in DOMAIN op /\ k \notin DOMAIN x
               /\ k \notin DOMAIN r.context /\ k \notin DOMAIN r.params
              => raw[k] = op[k]
    BY <2>1, MergedFive
  <2> QED BY <2>2, <2>3, <2>4, <2>5, <2>6
<1> HIDE DEF H, q, raw
<1>8. ModelKeys.Human = {"humanId", "humanName"}
  BY DEF ModelKeys
<1>9. DOMAIN H \subseteq DOMAIN raw
  BY <1>1, PrunedFacts
<1>10. Obj(H, "extra") = Filled(r.extra)
  <2>1. "extra" \in DOMAIN raw /\ raw["extra"] = r.extra
    BY <1>2, <1>7
  <2>2. "extra" \in Nested
    BY DEF Nested
  <2> QED BY <1>1, <2>1, <2>2, PrunedFacts DEF Obj, Get
<1>11. ASSUME NEW k \in {"producerId", "receiverId"} \cap DOMAIN r.params
       PROVE  /\ k \in DOMAIN H <=> Truthy((r.context @@ r.params)[k])
              /\ k \in DOMAIN H => H[k] = (r.context @@ r.params)[k]
              /\ k \in DOMAIN H /\ H[k].type = "string" => IsText(H[k])
  <2>1. k \in DOMAIN raw /\ raw[k] = (r.context @@ r.params)[k]
    BY <1>2, <1>6, <1>7
  <2>2. k \notin Nested \cup Strings
    BY DEF Nested, Strings
  <2>3. /\ k \in DOMAIN H <=> Truthy(raw[k])
        /\ k \in DOMAIN H => H[k] = raw[k]
    BY <1>1, <2>1, <2>2, PrunedFacts
  <2>4. raw[k].type = "string" => IsText(raw[k])
    BY <1>5, <1>6, <2>1
  <2> QED BY <2>1, <2>3, <2>4
<1>12. ASSUME DOMAIN r.context \cap Reserved = {}
       PROVE  /\ Obj(H, "criteria") = Filled(q.criteria)
              /\ \A k \in {"limit", "skip"} :
                   /\ k \in DOMAIN H <=> k \in DOMAIN q /\ Truthy(q[k])
                   /\ k \in DOMAIN H => H[k] = q[k]
  <2>1. ASSUME NEW k \in {"limit", "skip", "criteria"}
        PROVE  /\ k \in DOMAIN raw <=> k \in DOMAIN q
               /\ k \in DOMAIN raw => raw[k] = q[k]
    <3>1. k \notin DOMAIN x \cup DOMAIN r.context \cup DOMAIN r.params \cup DOMAIN r.model
      BY <1>2, <1>5, <1>8, <1>12 DEF Reserved, DbOpKeys
    <3> QED BY <1>4, <1>7, <3>1
  <2>2. Obj(H, "criteria") = Filled(q.criteria)
    <3>1. "criteria" \in DOMAIN raw /\ raw["criteria"] = q["criteria"]
      BY <1>3, <2>1
    <3>2. "criteria" \in Nested
      BY DEF Nested
    <3> QED BY <1>1, <3>1, <3>2, PrunedFacts DEF Obj, Get
  <2>3. ASSUME NEW k \in {"limit", "skip"}
        PROVE  /\ k \in DOMAIN H <=> k \in DOMAIN q /\ Truthy(q[k])
               /\ k \in DOMAIN H => H[k] = q[k]
    <3>1. k \notin Nested \cup Strings
      BY DEF Nested, Strings
    <3> QED BY <1>1, <2>1, <3>1, PrunedFacts
  <2> QED BY <2>2, <2>3
<1>13. DOMAIN H \subseteq {"extra"} \cup DOMAIN r.context \cup DOMAIN r.params
                            \cup {"limit", "skip", "sort", "criteria"} \cup ModelKeys.Human
  BY <1>2, <1>3, <1>4, <1>5, <1>7, <1>9
<1> QED BY <1>10, <1>11, <1>12, <1>13 DEF H, q

\* Of the properties that mean something, the scope of a request has only those.
LEMMA KeysOfRequest ==
  ASSUME NEW r \in Requests, DOMAIN r.context \cap Reserved = {}
  PROVE  DOMAIN FlattenHttpRequest(r) \cap Reserved
           \subseteq {"extra", "limit", "skip", "sort", "criteria"}
<1>1. DOMAIN r.params \subseteq {"producerId", "receiverId", "humanId"}
  BY ScopeAssumption
<1>2. {"producerId", "receiverId", "humanId", "humanName"} \cap Reserved = {}
  BY DEF Reserved, DbOpKeys, Nested, Strings, Outputs
<1>3. ModelKeys.Human = {"humanId", "humanName"}
  BY DEF ModelKeys
<1> QED BY <1>1, <1>2, <1>3, ScopeOfRequest

\* The paging in the scope of a request that is valid is the paging of OData.
LEMMA PagingOfRequest ==
  ASSUME NEW r \in Requests, DOMAIN r.context \cap Reserved = {}, ValidDbOp(RequestQuery(r)),
         NEW k \in {"limit", "skip"}, k \in DOMAIN FlattenHttpRequest(r)
  PROVE  /\ ODataName[k] \in DOMAIN r.string
         /\ r.string[ODataName[k]].text # "0" /\ r.string[ODataName[k]] # Text("0")
         /\ FlattenHttpRequest(r)[k] = Number(r.string[ODataName[k]].text)
<1> DEFINE q == RequestQuery(r)
<1>1. k \in DOMAIN q /\ Truthy(q[k]) /\ FlattenHttpRequest(r)[k] = q[k]
  BY ScopeOfRequest
<1>2. /\ k \in DOMAIN q <=> ODataName[k] \in DOMAIN r.string \/ k \in DOMAIN Paging(r.string)
      /\ ODataName[k] \in DOMAIN r.string => q[k] = Number(r.string[ODataName[k]].text)
      /\ ODataName[k] \notin DOMAIN r.string /\ k \in DOMAIN q => q[k] = r.string[k]
  BY QueryFacts DEF RequestQuery
<1>3. q[k].type = "number"
  BY <1>1 DEF ValidDbOp
<1> HIDE DEF q
<1>4. ODataName[k] \in DOMAIN r.string
  <2> SUFFICES ASSUME ODataName[k] \notin DOMAIN r.string PROVE FALSE
    OBVIOUS
  <2>1. k \in DOMAIN r.string /\ q[k] = r.string[k]
    BY <1>1, <1>2, PagingFacts
  <2>2. IsText(r.string[k])
    BY <2>1, ScopeAssumption DEF Nested
  <2> QED BY <1>3, <2>1, <2>2 DEF IsText, Text
<1>5. q[k] = Number(r.string[ODataName[k]].text)
  BY <1>2, <1>4
<1>6. r.string[ODataName[k]].text # "0"
  <2>1. Truthy(q[k]) => q[k] # Number("0")
    BY <1>3 DEF Truthy
  <2> QED BY <1>1, <1>5, <2>1
<1>7. r.string[ODataName[k]] # Text("0")
  BY <1>6 DEF Text
<1> QED BY <1>1, <1>4, <1>5, <1>6, <1>7

-----------------------------------------------------------------------------
(* Events and EventResults.                                                *)

\* What FlattenEventObj merges.
Seven(a, b, c, d, e, f, g) == a @@ b @@ c @@ d @@ e @@ f @@ g

LEMMA MergedSeven ==
  \A a, b, c, d, e, f, g :
    LET m == Seven(a, b, c, d, e, f, g) IN
    /\ \A k : k \in DOMAIN m
              <=> \/ k \in DOMAIN a \/ k \in DOMAIN b \/ k \in DOMAIN c \/ k \in DOMAIN d
                 \/ k \in DOMAIN e \/ k \in DOMAIN f \/ k \in DOMAIN g
    /\ \A k : k \in DOMAIN a => m[k] = a[k]
    /\ \A k : k \in DOMAIN c /\ k \notin DOMAIN a \cup DOMAIN b => m[k] = c[k]
    /\ \A k : k \in DOMAIN e /\ k \notin DOMAIN a \cup DOMAIN b \cup DOMAIN c \cup DOMAIN d
             => m[k] = e[k]
    /\ \A k : /\ k \in DOMAIN f
              /\ k \notin DOMAIN a \cup DOMAIN b \cup DOMAIN c \cup DOMAIN d \cup DOMAIN e
             => m[k] = f[k]
    /\ \A k : /\ k \in DOMAIN g
              /\ k \notin DOMAIN a \cup DOMAIN b \cup DOMAIN c \cup DOMAIN d \cup DOMAIN e \cup DOMAIN f
             => m[k] = g[k]
<1> TAKE a, b, c, d, e, f, g
<1> DEFINE five == Five(a, b, c, d, e)
           six == five @@ f
           m == six @@ g
<1>1. /\ \A k : k \in DOMAIN five
                <=> \/ k \in DOMAIN a \/ k \in DOMAIN b \/ k \in DOMAIN c \/ k \in DOMAIN d
                   \/ k \in DOMAIN e
      /\ \A k : k \in DOMAIN a => five[k] = a[k]
      /\ \A k : k \in DOMAIN c /\ k \notin DOMAIN a /\ k \notin DOMAIN b => five[k] = c[k]
  BY MergedFive
<1>2. \A k : k \in DOMAIN e /\ k \notin DOMAIN a \cup DOMAIN b \cup DOMAIN c \cup DOMAIN d
             => five[k] = e[k]
  BY MergedFive
<1> HIDE DEF five
<1>3. /\ DOMAIN six = DOMAIN five \cup DOMAIN f
      /\ \A k \in DOMAIN five : six[k] = five[k]
      /\ \A k \in DOMAIN f \ DOMAIN five : six[k] = f[k]
  <2>1. Merges(six, five, f)
    BY Merged
  <2> QED BY <2>1 DEF Merges
<1> HIDE DEF six
<1>4. /\ DOMAIN m = DOMAIN six \cup DOMAIN g
      /\ \A k \in DOMAIN six : m[k] = six[k]
      /\ \A k \in DOMAIN g \ DOMAIN six : m[k] = g[k]
  <2>1. Merges(m, six, g)
    BY Merged
  <2> QED BY <2>1 DEF Merges
<1>5. Seven(a, b, c, d, e, f, g) = m
  BY DEF Seven, Five, five, six
<1> HIDE DEF m
<1>6. \A k : k \in DOMAIN m
              <=> \/ k \in DOMAIN a \/ k \in DOMAIN b \/ k \in DOMAIN c \/ k \in DOMAIN d
                 \/ k \in DOMAIN e \/ k \in DOMAIN f \/ k \in DOMAIN g
  BY <1>1, <1>3, <1>4
<1>7. \A k : k \in DOMAIN a => m[k] = a[k]
  BY <1>1, <1>3, <1>4
<1>8. \A k : k \in DOMAIN c /\ k \notin DOMAIN a \cup DOMAIN b => m[k] = c[k]
  BY <1>1, <1>3, <1>4
<1>9. \A k : k \in DOMAIN e /\ k \notin DOMAIN a \cup DOMAIN b \cup DOMAIN c \cup DOMAIN d
             => m[k] = e[k]
  BY <1>1, <1>2, <1>3, <1>4
<1>10. \A k : /\ k \in DOMAIN f
              /\ k \notin DOMAIN a \cup DOMAIN b \cup DOMAIN c \cup DOMAIN d \cup DOMAIN e
             => m[k] = f[k]
  BY <1>1, <1>3, <1>4
<1>11. \A k : /\ k \in DOMAIN g
              /\ k \notin DOMAIN a \cup DOMAIN b \cup DOMAIN c \cup DOMAIN d \cup DOMAIN e \cup DOMAIN f
             => m[k] = g[k]
  BY <1>1, <1>3, <1>4
<1> QED BY <1>5, <1>6, <1>7, <1>8, <1>9, <1>10, <1>11

LEMMA KeysOfModels ==
  ASSUME NEW M \in DOMAIN ModelKeys
  PROVE  /\ M \in {"Human", "Robot", "Greeting"}
         /\ IdKeys[M] \subseteq ModelKeys[M]
         /\ ModelKeys[M] \cap (Reserved \cup {"extra", "limit", "skip", "sort", "criteria"}) = {}
         /\ IdKeys[M] = CASE M = "Human" -> {"humanId"} [] M = "Robot" -> {"robotId"}
                          [] OTHER -> {"greetingId"}
<1>1. M \in {"Human", "Robot", "Greeting"}
  BY DEF ModelKeys
<1>2. /\ ModelKeys["Human"] = {"humanId", "humanName"}
      /\ ModelKeys["Robot"] = {"robotId", "robotName"}
      /\ ModelKeys["Greeting"] = {"greetingId", "producerId", "receiverId", "producerType", "receiverType"}
  BY DEF ModelKeys
<1>3. /\ IdKeys["Human"] = {"humanId"}
      /\ IdKeys["Robot"] = {"robotId"}
      /\ IdKeys["Greeting"] = {"greetingId"}
  BY DEF IdKeys
<1> DEFINE names == {"humanId", "humanName", "robotId", "robotName", "greetingId", "producerId",
                     "receiverId", "producerType", "receiverType"}
<1>4. names \cap (Reserved \cup {"extra", "limit", "skip", "sort", "criteria"}) = {}
  BY DEF Reserved, DbOpKeys, Nested, Strings, Outputs
<1>5. ModelKeys[M] \subseteq names
  BY <1>1, <1>2
<1> HIDE DEF names
<1> QED BY <1>1, <1>2, <1>3, <1>4, <1>5

\* An Event or an EventResult for Model M, perhaps over the scope that sent it.
IsDocOf(M, e) ==
  /\ DOMAIN Obj(e, "confirm") \subseteq {"userMessage"}
  /\ DOMAIN Obj(e, "context") \subseteq IdKeys[M]
  /\ DOMAIN Obj(e, "model") \subseteq ModelKeys[M]
  /\ DOMAIN Obj(e, "output") \subseteq Outputs

\* The scope that a document makes.
LEMMA ScopeOfDoc ==
  ASSUME NEW M \in DOMAIN ModelKeys, NEW e, IsDocOf(M, e)
  PROVE  LET s == FlattenEventObj(e)
             q == EventQuery(e) IN
         /\ Obj(s, "extra") = Filled(Obj(e, "extra"))
         /\ Obj(s, "criteria") = Filled(q.criteria)
         /\ \A k \in {"limit", "skip"} :
              /\ k \in DOMAIN s <=> k \in DOMAIN q /\ Truthy(q[k])
              /\ k \in DOMAIN s => s[k] = q[k]
         /\ \A k \in ModelKeys[M] \ IdKeys[M] :
              /\ k \in DOMAIN s <=> k \in DOMAIN Obj(e, "model") /\ Truthy(Obj(e, "model")[k])
              /\ k \in DOMAIN s => s[k] = Obj(e, "model")[k]
         /\ \A k \in Outputs :
              /\ k \in DOMAIN s <=> k \in DOMAIN Obj(e, "output") /\ Truthy(Obj(e, "output")[k])
              /\ k \in DOMAIN s => s[k] = Obj(e, "output")[k]
         /\ "userMessage" \in DOMAIN s
              <=> /\ "userMessage" \in DOMAIN Obj(e, "confirm")
                  /\ Truthy(Obj(e, "confirm")["userMessage"])
         /\ "statusCode" \in DOMAIN s <=> "statusCode" \in DOMAIN e /\ Truthy(e["statusCode"])
         /\ "statusCode" \in DOMAIN s => s["statusCode"] = e["statusCode"]
<1> DEFINE s == FlattenEventObj(e)
           q == EventQuery(e)
           top == Only(e, {"extra", "statusCode"})
           status == IF "status" \in DOMAIN e THEN "eventStatus" :> e.status ELSE Empty
           confirm == Obj(e, "confirm")
           context == Obj(e, "context")
           op == DbOp(q)
           model == Obj(e, "model")
           output == Obj(e, "output")
           raw == Seven(top, status, confirm, context, op, model, output)
           keys == ModelKeys[M]
<1>1. s = Pruned(raw)
  BY DEF FlattenEventObj, Seven
<1>2. /\ DOMAIN top = DOMAIN e \cap {"extra", "statusCode"}
      /\ \A k \in DOMAIN top : top[k] = e[k]
  BY OnlyFacts
<1>3. DOMAIN status \subseteq {"eventStatus"}
  BY Single, EmptyFacts
<1>4. /\ DOMAIN confirm \subseteq {"userMessage"}
      /\ DOMAIN context \subseteq IdKeys[M]
      /\ DOMAIN model \subseteq keys
      /\ DOMAIN output \subseteq Outputs
  BY DEF IsDocOf
<1>5. DOMAIN q \subseteq {"limit", "skip", "sort", "criteria"} /\ "criteria" \in DOMAIN q
  BY QueryFacts DEF EventQuery
<1>6. DOMAIN op = DOMAIN q /\ \A k \in DOMAIN op : op[k] = q[k]
  BY <1>5, DbOpOfQuery
<1>7. IdKeys[M] \subseteq keys /\ keys \cap (Reserved \cup {"extra", "limit", "skip", "sort", "criteria"}) = {}
  BY KeysOfModels
<1> HIDE DEF q, top, status, confirm, context, op, model, output, keys
<1>8. \A k : k \in DOMAIN raw
              <=> \/ k \in DOMAIN top \/ k \in DOMAIN status \/ k \in DOMAIN confirm
                 \/ k \in DOMAIN context \/ k \in DOMAIN op \/ k \in DOMAIN model
                 \/ k \in DOMAIN output
  BY MergedSeven
<1>9. \A k : k \in DOMAIN top => raw[k] = top[k]
  BY MergedSeven
<1>10. \A k : k \in DOMAIN confirm /\ k \notin DOMAIN top \cup DOMAIN status => raw[k] = confirm[k]
  BY MergedSeven
<1>11. \A k : /\ k \in DOMAIN op
              /\ k \notin DOMAIN top \cup DOMAIN status \cup DOMAIN confirm \cup DOMAIN context
             => raw[k] = op[k]
  BY MergedSeven
<1>12. \A k : /\ k \in DOMAIN model
              /\ k \notin DOMAIN top \cup DOMAIN status \cup DOMAIN confirm \cup DOMAIN context
                           \cup DOMAIN op
             => raw[k] = model[k]
  BY MergedSeven
<1>13. \A k : /\ k \in DOMAIN output
              /\ k \notin DOMAIN top \cup DOMAIN status \cup DOMAIN confirm \cup DOMAIN context
                           \cup DOMAIN op \cup DOMAIN model
             => raw[k] = output[k]
  BY MergedSeven
<1> HIDE DEF s, raw
<1>14. /\ Outputs \subseteq Reserved /\ {"userMessage", "statusCode", "eventStatus"} \subseteq Reserved
       /\ Outputs \cap {"extra", "statusCode", "eventStatus", "userMessage", "limit", "skip",
                        "sort", "criteria"} = {}
       /\ (Outputs \cup keys \cup {"userMessage", "statusCode", "limit", "skip"})
            \cap (Nested \cup Strings) = {}
  <2>1. /\ Outputs \subseteq Reserved /\ {"userMessage", "statusCode", "eventStatus"} \subseteq Reserved
        /\ Nested \cup Strings \subseteq Reserved
    BY DEF Reserved
  <2>2. (Outputs \cup {"userMessage", "statusCode", "limit", "skip"}) \cap (Nested \cup Strings) = {}
    BY DEF Outputs, Nested, Strings
  <2>3. Outputs \cap {"extra", "statusCode", "eventStatus", "userMessage", "limit", "skip",
                      "sort", "criteria"} = {}
    BY DEF Outputs
  <2> QED BY <1>7, <2>1, <2>2, <2>3
<1>15. "extra" \in Nested /\ "criteria" \in Nested
  BY DEF Nested
<1>16. \A k \in DOMAIN s : k \in Nested \/ s[k] = raw[k]
  BY <1>1, PrunedFacts
<1>17. \A k : k \notin Nested \cup Strings => (k \in DOMAIN s <=> k \in DOMAIN raw /\ Truthy(raw[k]))
  BY <1>1, PrunedFacts
<1>18. \A k \in Nested : Obj(s, k) = Filled(Obj(raw, k))
  BY <1>1, PrunedFacts
<1>19. Obj(s, "extra") = Filled(Obj(e, "extra"))
  <2>1. "extra" \in DOMAIN raw <=> "extra" \in DOMAIN e
    BY <1>2, <1>3, <1>4, <1>5, <1>6, <1>7, <1>8, <1>14
  <2>2. "extra" \in DOMAIN e => raw["extra"] = e["extra"]
    BY <1>2, <1>9
  <2> QED BY <1>15, <1>18, <2>1, <2>2 DEF Obj, Get
<1>20. ASSUME NEW k \in {"limit", "skip", "criteria"}
       PROVE  /\ k \in DOMAIN raw <=> k \in DOMAIN q
              /\ k \in DOMAIN q => raw[k] = q[k]
  <2>1. k \notin DOMAIN top \cup DOMAIN status \cup DOMAIN confirm \cup DOMAIN context \cup DOMAIN model
    BY <1>2, <1>3, <1>4, <1>7
  <2>2. k \notin DOMAIN output
    BY <1>4, <1>14
  <2> QED BY <1>6, <1>8, <1>11, <2>1, <2>2
<1>21. Obj(s, "criteria") = Filled(q.criteria)
  <2>1. "criteria" \in DOMAIN raw /\ raw["criteria"] = q["criteria"]
    BY <1>5, <1>20
  <2> QED BY <1>15, <1>18, <2>1 DEF Obj, Get
<1>22. ASSUME NEW k \in {"limit", "skip"}
       PROVE  /\ k \in DOMAIN s <=> k \in DOMAIN q /\ Truthy(q[k])
              /\ k \in DOMAIN s => s[k] = q[k]
  BY <1>14, <1>16, <1>17, <1>20
<1>23. ASSUME NEW k \in keys \ IdKeys[M]
       PROVE  /\ k \in DOMAIN s <=> k \in DOMAIN model /\ Truthy(model[k])
              /\ k \in DOMAIN s => s[k] = model[k]
  <2>1. k \notin DOMAIN top \cup DOMAIN status \cup DOMAIN confirm \cup DOMAIN context \cup DOMAIN op
    BY <1>2, <1>3, <1>4, <1>5, <1>6, <1>7, <1>14
  <2>2. k \notin DOMAIN output
    BY <1>4, <1>7, <1>14
  <2>3. /\ k \in DOMAIN raw <=> k \in DOMAIN model
        /\ k \in DOMAIN model => raw[k] = model[k]
    BY <1>8, <1>12, <2>1, <2>2
  <2> QED BY <1>14, <1>16, <1>17, <2>3
<1>24. ASSUME NEW k \in Outputs
       PROVE  /\ k \in DOMAIN s <=> k \in DOMAIN output /\ Truthy(output[k])
              /\ k \in DOMAIN s => s[k] = output[k]
  <2>1. k \notin DOMAIN top \cup DOMAIN status \cup DOMAIN confirm \cup DOMAIN context \cup DOMAIN op
               \cup DOMAIN model
    <3>1. k \notin {"extra", "statusCode", "eventStatus", "userMessage", "limit", "skip", "sort",
                    "criteria"} /\ k \notin keys
      BY <1>7, <1>14
    <3> QED BY <1>2, <1>3, <1>4, <1>5, <1>6, <1>7, <3>1
  <2>2. /\ k \in DOMAIN raw <=> k \in DOMAIN output
        /\ k \in DOMAIN output => raw[k] = output[k]
    BY <1>8, <1>13, <2>1
  <2> QED BY <1>14, <1>16, <1>17, <2>2
<1>25. "userMessage" \in DOMAIN s
         <=> "userMessage" \in DOMAIN confirm /\ Truthy(confirm["userMessage"])
  <2>1. "userMessage" \notin DOMAIN top \cup DOMAIN status \cup DOMAIN context \cup DOMAIN op
                               \cup DOMAIN model \cup DOMAIN output
    BY <1>2, <1>3, <1>4, <1>5, <1>6, <1>7, <1>14
  <2>2. /\ "userMessage" \in DOMAIN raw <=> "userMessage" \in DOMAIN confirm
        /\ "userMessage" \in DOMAIN confirm => raw["userMessage"] = confirm["userMessage"]
    BY <1>8, <1>10, <2>1
  <2> QED BY <1>14, <1>17, <2>2
<1>26. /\ "statusCode" \in DOMAIN s <=> "statusCode" \in DOMAIN e /\ Truthy(e["statusCode"])
       /\ "statusCode" \in DOMAIN s => s["statusCode"] = e["statusCode"]
  <2>1. "statusCode" \notin DOMAIN status \cup DOMAIN confirm \cup DOMAIN context \cup DOMAIN op
                              \cup DOMAIN model \cup DOMAIN output
    BY <1>3, <1>4, <1>5, <1>6, <1>7, <1>14
  <2>2. /\ "statusCode" \in DOMAIN raw <=> "statusCode" \in DOMAIN e
        /\ "statusCode" \in DOMAIN e => raw["statusCode"] = e["statusCode"]
    BY <1>2, <1>8, <1>9, <2>1
  <2> QED BY <1>14, <1>16, <1>17, <2>2
<1> QED BY <1>19, <1>21, <1>22, <1>23, <1>24, <1>25, <1>26 DEF s, q, keys, confirm, model, output

\* The object after its travel in a query string.
Texts(o) == [j \in DOMAIN o |-> AsText(o[j])]

LEMMA DbOpFacts ==
  ASSUME NEW scope
  PROVE  /\ DOMAIN Stringified(DbOp(scope)) = DOMAIN scope \cap DbOpKeys
         /\ \A k \in DOMAIN scope \cap DbOpKeys :
              Stringified(DbOp(scope))[k]
                = IF k \in Nested THEN [j \in DOMAIN scope[k] |-> AsText(scope[k][j])]
                  ELSE AsText(scope[k])
<1>1. DOMAIN DbOp(scope) = DOMAIN scope \cap DbOpKeys /\ \A k \in DOMAIN DbOp(scope) : DbOp(scope)[k] = scope[k]
  BY OnlyFacts DEF DbOp
<1> QED BY <1>1 DEF Stringified

\* The Event of a scope.
LEMMA EventOfScope ==
  ASSUME NEW M, NEW scope
  PROVE  LET e == UnflattenEvent(M, scope) IN
         /\ DOMAIN e \subseteq {"extra", "context", "model", "query"}
         /\ Obj(e, "extra") = Filled(Obj(scope, "extra"))
         /\ Obj(e, "context") = Filled(Only(scope, IdKeys[M]))
         /\ Obj(e, "model") = Filled(Only(scope, ModelKeys[M]))
         /\ DOMAIN Obj(e, "query") = DOMAIN scope \cap DbOpKeys
         /\ "criteria" \in DOMAIN scope => Obj(e, "query")["criteria"] = Texts(scope["criteria"])
<1> DEFINE built == BuiltEvent(M, scope)
           kept == Event(built)
           e == UnflattenEvent(M, scope)
           query == Stringified(DbOp(scope))
<1>1. e = Pruned(kept)
  BY DEF UnflattenEvent
<1>2. /\ DOMAIN built = {"status", "statusCode", "confirm", "query", "model", "context", "extra", "output"}
      /\ built["extra"] = Obj(scope, "extra")
      /\ built["context"] = Only(scope, IdKeys[M])
      /\ built["model"] = Only(scope, ModelKeys[M])
      /\ built["query"] = query
  BY DEF BuiltEvent
<1>3. DOMAIN query = DOMAIN scope \cap DbOpKeys
  BY DbOpFacts
<1> HIDE DEF built, query
<1>4. /\ DOMAIN kept = {"extra", "context", "model", "query"}
      /\ \A k \in DOMAIN kept : kept[k] = built[k]
  <2> DEFINE parts == {"extra", "context", "model", "query"}
  <2>1. kept = Only(built, parts)
    BY DEF Event
  <2>2. DOMAIN built \cap parts = parts
    BY <1>2
  <2> HIDE DEF parts, kept
  <2>3. DOMAIN kept = parts /\ \A k \in parts : kept[k] = built[k]
    BY <2>1, <2>2, OnlyFacts
  <2> QED BY <2>3 DEF parts
<1> HIDE DEF kept, e
<1>5. DOMAIN e \subseteq {"extra", "context", "model", "query"}
  BY <1>1, <1>4, PrunedFacts
<1>6. \A k \in {"extra", "context", "model"} : Obj(e, k) = Filled(built[k])
  BY <1>1, <1>4, PrunedFacts DEF Nested, Obj, Get
<1>7. "query" \notin Nested /\ "query" \in Strings
  BY DEF Nested, Strings
<1>8. /\ "query" \in DOMAIN e <=> DOMAIN query # {}
      /\ "query" \in DOMAIN e => e["query"] = query
  <2>1. "query" \in DOMAIN kept /\ kept["query"] = query
    BY <1>2, <1>4
  <2>2. "query" \in DOMAIN e <=> DOMAIN kept["query"] # {}
    BY <1>1, <1>7, <2>1, PrunedIs
  <2>3. "query" \in DOMAIN e => e["query"] = kept["query"]
    BY <1>1, <1>7, PrunedIs
  <2> QED BY <2>1, <2>2, <2>3
<1>9. DOMAIN Obj(e, "query") = DOMAIN query
  <2>1. CASE "query" \in DOMAIN e
    BY <1>8, <2>1 DEF Obj, Get
  <2>2. CASE "query" \notin DOMAIN e
    BY <1>8, <2>2, EmptyFacts DEF Obj, Get
  <2> QED BY <2>1, <2>2
<1>10. \A k \in DOMAIN query : Obj(e, "query")[k] = query[k]
  BY <1>8 DEF Obj, Get
<1>11. "criteria" \in DOMAIN scope =>
         /\ "criteria" \in DOMAIN query
         /\ query["criteria"] = Texts(scope["criteria"])
  BY DbOpFacts DEF query, DbOpKeys, Nested, Texts
<1> QED BY <1>2, <1>3, <1>5, <1>6, <1>9, <1>10, <1>11 DEF e

\* The EventResult of a scope.
LEMMA ResultOfScope ==
  ASSUME NEW M, NEW scope, Truthy(Get(scope, "statusCode", Number("200")))
  PROVE  LET e == UnflattenEventResult(M, scope) IN
         /\ DOMAIN e \subseteq {"extra", "statusCode", "confirm", "status", "context", "output"}
         /\ Obj(e, "extra") = Filled(Obj(scope, "extra"))
         /\ Obj(e, "confirm") = Filled(Only(scope, {"userMessage"}))
         /\ "confirm" \in DOMAIN e
              <=> "userMessage" \in DOMAIN scope /\ Truthy(scope["userMessage"])
         /\ Obj(e, "context") = Filled(Only(scope, IdKeys[M]))
         /\ Obj(e, "output") = Filled(Only(scope, Outputs))
         /\ "statusCode" \in DOMAIN e /\ e["statusCode"] = Get(scope, "statusCode", Number("200"))
<1> DEFINE built == BuiltEvent(M, scope)
           kept == EventResult(built)
           e == UnflattenEventResult(M, scope)
           code == Get(scope, "statusCode", Number("200"))
<1>1. e = Pruned(kept)
  BY DEF UnflattenEventResult
<1>2. /\ DOMAIN built = {"status", "statusCode", "confirm", "query", "model", "context", "extra", "output"}
      /\ built["extra"] = Obj(scope, "extra")
      /\ built["context"] = Only(scope, IdKeys[M])
      /\ built["confirm"] = Only(scope, {"userMessage"})
      /\ built["output"] = Only(scope, Outputs)
      /\ built["statusCode"] = code
  BY DEF BuiltEvent
<1> HIDE DEF built
<1>3. /\ DOMAIN kept = {"extra", "statusCode", "confirm", "status", "context", "output"}
      /\ \A k \in DOMAIN kept : kept[k] = built[k]
  <2>1. /\ DOMAIN kept = DOMAIN built \cap {"extra", "statusCode", "confirm", "status", "context", "output"}
        /\ \A k \in DOMAIN kept : kept[k] = built[k]
    BY OnlyFacts DEF EventResult
  <2> HIDE DEF kept
  <2>2. {"extra", "statusCode", "confirm", "status", "context", "output"} \subseteq DOMAIN built
    BY <1>2
  <2> QED BY <2>1, <2>2
<1> HIDE DEF kept, e
<1>4. DOMAIN e \subseteq {"extra", "statusCode", "confirm", "status", "context", "output"}
  BY <1>1, <1>3, PrunedFacts
<1>5. {"extra", "confirm", "context", "output"} \subseteq Nested
  BY DEF Nested
<1>6. \A k \in {"extra", "confirm", "context", "output"} : Obj(e, k) = Filled(built[k])
  BY <1>1, <1>3, <1>5, PrunedFacts DEF Obj, Get
<1>7. "statusCode" \in DOMAIN e /\ e["statusCode"] = code
  <2>1. "statusCode" \notin Nested \cup Strings
    BY DEF Nested, Strings
  <2>2. "statusCode" \in DOMAIN kept /\ kept["statusCode"] = code
    BY <1>2, <1>3
  <2> QED BY <1>1, <2>1, <2>2, PrunedFacts
<1>8. "confirm" \in DOMAIN e <=> "userMessage" \in DOMAIN scope /\ Truthy(scope["userMessage"])
  <2> DEFINE message == Only(scope, {"userMessage"})
  <2>1. /\ DOMAIN message = DOMAIN scope \cap {"userMessage"}
        /\ \A k \in DOMAIN message : message[k] = scope[k]
    BY OnlyFacts
  <2>2. "confirm" \in DOMAIN kept /\ kept["confirm"] = message
    BY <1>2, <1>3
  <2> HIDE DEF message
  <2>3. "confirm" \in DOMAIN e <=> DOMAIN Filled(message) # {}
    BY <1>1, <1>5, <2>2, PrunedIs
  <2>4. DOMAIN Filled(message) = {k \in DOMAIN message : Truthy(message[k])}
    BY FilledFacts
  <2> QED BY <2>1, <2>3, <2>4
<1> QED BY <1>2, <1>4, <1>6, <1>7, <1>8 DEF e

\* What the host makes of the Event of a scope: it has what the scope has inherited,
\* its own kind of model, and no outcome.
LEMMA HostOfEvent ==
  ASSUME NEW M \in DOMAIN ModelKeys, NEW scope
  PROVE  LET h == FlattenEventObj(UnflattenEvent(M, scope)) IN
         /\ Obj(h, "extra") = Filled(Obj(scope, "extra"))
         /\ \A k \in {"limit", "skip"} : k \in DOMAIN h => k \in DOMAIN scope
         /\ \A k \in ModelKeys[M] \ IdKeys[M] :
              /\ k \in DOMAIN h <=> k \in DOMAIN scope /\ Truthy(scope[k])
              /\ k \in DOMAIN h => h[k] = scope[k]
         /\ DOMAIN h \cap (Outputs \cup {"userMessage", "statusCode"}) = {}
<1> DEFINE e == UnflattenEvent(M, scope)
           q == EventQuery(e)
           h == FlattenEventObj(e)
           own == Only(scope, ModelKeys[M])
<1>1. /\ DOMAIN e \subseteq {"extra", "context", "model", "query"}
      /\ Obj(e, "extra") = Filled(Obj(scope, "extra"))
      /\ Obj(e, "context") = Filled(Only(scope, IdKeys[M]))
      /\ Obj(e, "model") = Filled(own)
      /\ DOMAIN Obj(e, "query") = DOMAIN scope \cap DbOpKeys
  BY EventOfScope
<1>2. DOMAIN own = DOMAIN scope \cap ModelKeys[M] /\ \A k \in DOMAIN own : own[k] = scope[k]
  BY OnlyFacts
<1>3. /\ \A k \in DOMAIN Filled(own) : Filled(own)[k] = own[k]
      /\ DOMAIN Filled(own) = {k \in DOMAIN own : Truthy(own[k])}
  BY FilledFacts
<1>4. Obj(e, "confirm") = Empty /\ Obj(e, "output") = Empty
  BY <1>1 DEF Obj, Get
<1>5. DOMAIN Filled(Only(scope, IdKeys[M])) \subseteq IdKeys[M]
  BY FilledOnly
<1> HIDE DEF e, own
<1>6. IsDocOf(M, e)
  BY <1>1, <1>2, <1>3, <1>4, <1>5, EmptyFacts DEF IsDocOf
<1>7. \A k \in {"limit", "skip"} : k \in DOMAIN q => k \in DOMAIN scope
  <2> SUFFICES ASSUME NEW k \in {"limit", "skip"}, k \in DOMAIN q PROVE k \in DOMAIN scope
    OBVIOUS
  <2>1. ODataName[k] \in DOMAIN Obj(e, "query") \/ k \in DOMAIN Paging(Obj(e, "query"))
    BY QueryFacts DEF EventQuery
  <2>2. ODataName[k] \notin DbOpKeys
    BY NamesOfOData DEF DbOpKeys
  <2> QED BY <1>1, <2>1, <2>2, PagingFacts
<1>8. /\ Obj(h, "extra") = Filled(Obj(e, "extra"))
      /\ \A k \in {"limit", "skip"} : k \in DOMAIN h => k \in DOMAIN q
      /\ \A k \in ModelKeys[M] \ IdKeys[M] :
           /\ k \in DOMAIN h <=> k \in DOMAIN Obj(e, "model") /\ Truthy(Obj(e, "model")[k])
           /\ k \in DOMAIN h => h[k] = Obj(e, "model")[k]
      /\ \A k \in Outputs : k \in DOMAIN h => k \in DOMAIN Obj(e, "output")
      /\ "userMessage" \in DOMAIN h => "userMessage" \in DOMAIN Obj(e, "confirm")
      /\ "statusCode" \in DOMAIN h => "statusCode" \in DOMAIN e
  BY <1>6, ScopeOfDoc
<1> HIDE DEF h, q
<1>9. Obj(h, "extra") = Filled(Obj(scope, "extra"))
  BY <1>1, <1>8, FilledFacts
<1>10. DOMAIN h \cap (Outputs \cup {"userMessage", "statusCode"}) = {}
  BY <1>1, <1>4, <1>8, EmptyFacts
<1>11. \A k \in ModelKeys[M] \ IdKeys[M] :
         /\ k \in DOMAIN h <=> k \in DOMAIN scope /\ Truthy(scope[k])
         /\ k \in DOMAIN h => h[k] = scope[k]
  BY <1>1, <1>2, <1>3, <1>8
<1> QED BY <1>7, <1>8, <1>9, <1>10, <1>11 DEF h, e

\* An Event that its host cannot parse is of a scope with paging.
THEOREM UnparsableByPaging ==
  ASSUME NEW M, NEW scope, ~ Parsable(UnflattenEvent(M, scope))
  PROVE  \E k \in {"limit", "skip"} : k \in DOMAIN scope
<1> DEFINE e == UnflattenEvent(M, scope)
<1>1. PICK k \in {"limit", "skip"} : k \in DOMAIN Paging(Obj(e, "query"))
  BY InvalidOnlyByPaging DEF Parsable, EventQuery
<1>2. DOMAIN Obj(e, "query") = DOMAIN scope \cap DbOpKeys
  BY EventOfScope
<1> QED BY <1>1, <1>2, PagingFacts

\* The criteria of a scope for one text under the identifier of the model arrive.
LEMMA CriteriaOfEvent ==
  ASSUME NEW M \in DOMAIN ModelKeys, NEW scope, NEW k, NEW id, IdKeys[M] = {k}, IsText(id), Truthy(id),
         {k, "criteria"} \subseteq DOMAIN scope, scope[k] = id, scope.criteria = k :> id
  PROVE  Obj(FlattenEventObj(UnflattenEvent(M, scope)), "criteria") = k :> id
<1> DEFINE e == UnflattenEvent(M, scope)
           q == Obj(e, "query")
           context == Obj(e, "context")
           ids == Filled(Only(scope, {k}))
           own == Filled(Only(scope, ModelKeys[M]))
           criteria == EventQuery(e).criteria
<1>1. /\ DOMAIN e \subseteq {"extra", "context", "model", "query"}
      /\ context = Filled(Only(scope, IdKeys[M]))
      /\ Obj(e, "model") = own
      /\ DOMAIN q = DOMAIN scope \cap DbOpKeys
      /\ "criteria" \in DOMAIN scope => q["criteria"] = Texts(scope["criteria"])
  BY EventOfScope
<1>2. "criteria" \in DOMAIN q
  BY <1>1 DEF DbOpKeys
<1>3. Obj(q, "criteria") = k :> id
  <2> DEFINE c == scope["criteria"]
  <2>1. AsText(id) = id
    BY DEF AsText, IsText
  <2>2. DOMAIN c = {k} /\ c[k] = id
    <3>1. DOMAIN (k :> id) = {k} /\ (k :> id)[k] = id
      BY Single
    <3> QED BY <3>1
  <2>4. q["criteria"] = [j \in DOMAIN c |-> AsText(c[j])]
    BY <1>1 DEF Texts
  <2> HIDE DEF c, q
  <2>5. q["criteria"] = [j \in {k} |-> id]
    BY <2>1, <2>2, <2>4
  <2> QED BY <1>2, <2>5 DEF Obj, Get, :>
<1>4. DOMAIN ids = {k} /\ ids[k] = id
  <2>1. /\ \A j : j \in DOMAIN ids <=> j \in DOMAIN scope /\ j \in {k} /\ Truthy(scope[j])
        /\ \A j \in DOMAIN ids : ids[j] = scope[j]
    BY FilledOnly
  <2> HIDE DEF ids
  <2> QED BY <2>1
<1>5. DOMAIN own \subseteq ModelKeys[M]
  BY FilledOnly
<1>6. context = ids
  BY <1>1
<1> HIDE DEF e, q, ids, own
<1>7. IsDocOf(M, e)
  <2>1. DOMAIN Obj(e, "confirm") = {} /\ DOMAIN Obj(e, "output") = {}
    BY <1>1, EmptyFacts DEF Obj, Get
  <2>2. DOMAIN context \subseteq IdKeys[M]
    BY <1>4, <1>6
  <2> QED BY <1>1, <1>5, <2>1, <2>2 DEF IsDocOf
<1>8. criteria = (k :> id) @@ context
  BY <1>2, <1>3, QueryFacts DEF EventQuery, q
<1>9. DOMAIN criteria = {k} /\ criteria[k] = id
  <2> DEFINE one == k :> id
  <2>1. DOMAIN one = {k} /\ one[k] = id
    BY Single
  <2>2. criteria = one @@ context
    BY <1>8
  <2>3. DOMAIN context = {k}
    BY <1>4, <1>6
  <2> HIDE DEF one, context, criteria
  <2>4. /\ DOMAIN (one @@ context) = DOMAIN one \cup DOMAIN context
        /\ \A j \in DOMAIN one : (one @@ context)[j] = one[j]
        /\ \A j \in DOMAIN context \ DOMAIN one : (one @@ context)[j] = context[j]
    <3>1. Merges(one @@ context, one, context)
      BY Merged
    <3> QED BY <3>1 DEF Merges
  <2> QED BY <2>1, <2>2, <2>3, <2>4
<1> HIDE DEF criteria
<1>10. /\ DOMAIN Filled(criteria) = {j \in DOMAIN criteria : Truthy(criteria[j])}
       /\ Filled(criteria) = [j \in DOMAIN Filled(criteria) |-> criteria[j]]
  BY FilledFacts
<1>11. Filled(criteria) = k :> id
  <2>1. DOMAIN Filled(criteria) = {k}
    BY <1>9, <1>10
  <2>2. Filled(criteria) = [j \in {k} |-> criteria[j]]
    BY <1>10, <2>1
  <2> QED BY <1>9, <2>2 DEF :>
<1>12. Obj(FlattenEventObj(e), "criteria") = Filled(criteria)
  BY <1>7, ScopeOfDoc DEF criteria
<1> QED BY <1>11, <1>12 DEF e

\* What the process that called makes of the EventResult: the outcome is that of the
\* host, whatever the scope that sent the Event has.
THEOREM OutcomeOfResult ==
  ASSUME NEW M \in DOMAIN ModelKeys, NEW sent, NEW done,
         DOMAIN sent \cap {"context", "model", "query", "output", "confirm"} = {},
         Truthy(Get(done, "statusCode", Number("200")))
  PROVE  LET p == FlattenEventObj(Over(UnflattenEventResult(M, done), UnflattenEvent(M, sent) @@ sent)) IN
         /\ "statusCode" \in DOMAIN p /\ p["statusCode"] = Get(done, "statusCode", Number("200"))
         /\ "userMessage" \in DOMAIN p
              <=> "userMessage" \in DOMAIN done /\ Truthy(done["userMessage"])
         /\ \A k \in Outputs :
              /\ k \in DOMAIN p <=> k \in DOMAIN done /\ Truthy(done[k])
              /\ k \in DOMAIN p => p[k] = done[k]
<1> DEFINE result == UnflattenEventResult(M, done)
           e == UnflattenEvent(M, sent)
           call_ == e @@ sent
           rest == IF DOMAIN result \cap Data = {} THEN call_ ELSE Only(call_, DOMAIN call_ \ Data)
           d == Over(result, call_)
           p == FlattenEventObj(d)
           message == Only(done, {"userMessage"})
           output == Only(done, Outputs)
           code == Get(done, "statusCode", Number("200"))
<1>1. /\ DOMAIN result \subseteq {"extra", "statusCode", "confirm", "status", "context", "output"}
      /\ Obj(result, "confirm") = Filled(message)
      /\ Obj(result, "context") = Filled(Only(done, IdKeys[M]))
      /\ Obj(result, "output") = Filled(output)
      /\ "statusCode" \in DOMAIN result /\ result["statusCode"] = code
  BY ResultOfScope
<1>2. /\ DOMAIN e \subseteq {"extra", "context", "model", "query"}
      /\ Obj(e, "context") = Filled(Only(sent, IdKeys[M]))
      /\ Obj(e, "model") = Filled(Only(sent, ModelKeys[M]))
  BY EventOfScope
<1>3. \A o, keys : DOMAIN Filled(Only(o, keys)) \subseteq keys
  BY FilledOnly
<1>4. /\ DOMAIN message = DOMAIN done \cap {"userMessage"}
      /\ \A k \in DOMAIN message : message[k] = done[k]
      /\ DOMAIN output = DOMAIN done \cap Outputs
      /\ \A k \in DOMAIN output : output[k] = done[k]
  <2>1. /\ DOMAIN message = DOMAIN done \cap {"userMessage"}
        /\ \A k \in DOMAIN message : message[k] = done[k]
    BY OnlyFacts
  <2>2. /\ DOMAIN output = DOMAIN done \cap Outputs
        /\ \A k \in DOMAIN output : output[k] = done[k]
    BY OnlyFacts
  <2> QED BY <2>1, <2>2
<1>5. d = result @@ rest
  BY DEF Over
<1> HIDE DEF result, e, d, p, message, output
<1>6. /\ DOMAIN call_ = DOMAIN e \cup DOMAIN sent
      /\ \A k \in DOMAIN e : call_[k] = e[k]
      /\ \A k \in DOMAIN sent \ DOMAIN e : call_[k] = sent[k]
  <2>1. Merges(call_, e, sent)
    BY Merged
  <2> QED BY <2>1 DEF Merges
<1> HIDE DEF call_
<1>7. /\ DOMAIN rest \subseteq DOMAIN call_
      /\ \A k \in DOMAIN rest : rest[k] = call_[k]
  <2> DEFINE few == Only(call_, DOMAIN call_ \ Data)
  <2>1. /\ DOMAIN few = DOMAIN call_ \cap (DOMAIN call_ \ Data)
        /\ \A k \in DOMAIN few : few[k] = call_[k]
    BY OnlyFacts
  <2> HIDE DEF few
  <2>2. rest = call_ \/ rest = few
    BY DEF few
  <2> HIDE DEF rest
  <2> QED BY <2>1, <2>2
<1> HIDE DEF rest
<1>8. /\ DOMAIN d = DOMAIN result \cup DOMAIN rest
      /\ \A k \in DOMAIN result : d[k] = result[k]
      /\ \A k \in DOMAIN rest \ DOMAIN result : d[k] = rest[k]
  <2>1. /\ DOMAIN (result @@ rest) = DOMAIN result \cup DOMAIN rest
        /\ \A k \in DOMAIN result : (result @@ rest)[k] = result[k]
        /\ \A k \in DOMAIN rest \ DOMAIN result : (result @@ rest)[k] = rest[k]
    <3>1. Merges(result @@ rest, result, rest)
      BY Merged
    <3> QED BY <3>1 DEF Merges
  <2> QED BY <1>5, <2>1
<1>9. Obj(d, "confirm") = Obj(result, "confirm") /\ Obj(d, "output") = Obj(result, "output")
  <2>1. "confirm" \notin DOMAIN rest /\ "output" \notin DOMAIN rest
    BY <1>2, <1>6, <1>7
  <2> QED BY <1>8, <2>1 DEF Obj, Get
<1>10. \A k \in {"context", "model"} : Obj(d, k) \in {Obj(result, k), Obj(e, k), Empty}
  <2> SUFFICES ASSUME NEW k \in {"context", "model"}
               PROVE  Obj(d, k) \in {Obj(result, k), Obj(e, k), Empty}
    OBVIOUS
  <2>1. CASE k \in DOMAIN result
    BY <1>8, <2>1 DEF Obj, Get
  <2>2. CASE k \notin DOMAIN result /\ k \in DOMAIN rest
    <3>1. k \in DOMAIN e /\ d[k] = e[k]
      BY <1>6, <1>7, <1>8, <2>2
    <3> QED BY <1>8, <2>2, <3>1 DEF Obj, Get
  <2>3. CASE k \notin DOMAIN result /\ k \notin DOMAIN rest
    BY <1>8, <2>3 DEF Obj, Get
  <2> QED BY <2>1, <2>2, <2>3
<1>11. IsDocOf(M, d)
  <2>1. DOMAIN Obj(d, "confirm") \subseteq {"userMessage"} /\ DOMAIN Obj(d, "output") \subseteq Outputs
    <3>1. DOMAIN Filled(message) \subseteq DOMAIN message /\ DOMAIN Filled(output) \subseteq DOMAIN output
      BY FilledFacts
    <3> QED BY <1>1, <1>4, <1>9, <3>1
  <2>2. DOMAIN Obj(d, "context") \subseteq IdKeys[M]
    BY <1>1, <1>2, <1>3, <1>10, EmptyFacts
  <2>3. Obj(result, "model") = Empty
    BY <1>1 DEF Obj, Get
  <2>4. DOMAIN Obj(d, "model") \subseteq ModelKeys[M]
    BY <1>2, <1>3, <1>10, <2>3, EmptyFacts
  <2> QED BY <2>1, <2>2, <2>4 DEF IsDocOf
<1>12. /\ "statusCode" \in DOMAIN d /\ d["statusCode"] = code
  BY <1>1, <1>8
<1>13. /\ \A k \in Outputs :
            /\ k \in DOMAIN p <=> k \in DOMAIN Obj(d, "output") /\ Truthy(Obj(d, "output")[k])
            /\ k \in DOMAIN p => p[k] = Obj(d, "output")[k]
       /\ "userMessage" \in DOMAIN p
            <=> /\ "userMessage" \in DOMAIN Obj(d, "confirm")
                /\ Truthy(Obj(d, "confirm")["userMessage"])
       /\ "statusCode" \in DOMAIN p <=> "statusCode" \in DOMAIN d /\ Truthy(d["statusCode"])
       /\ "statusCode" \in DOMAIN p => p["statusCode"] = d["statusCode"]
  BY <1>11, ScopeOfDoc DEF p
<1>14. \A o : /\ DOMAIN Filled(o) = {k \in DOMAIN o : Truthy(o[k])}
              /\ \A k \in DOMAIN Filled(o) : Filled(o)[k] = o[k]
  BY FilledFacts
<1>15. "statusCode" \in DOMAIN p /\ p["statusCode"] = code
  BY <1>12, <1>13
<1>16. "userMessage" \in DOMAIN p <=> "userMessage" \in DOMAIN done /\ Truthy(done["userMessage"])
  <2>1. Obj(d, "confirm") = Filled(message)
    BY <1>1, <1>9
  <2>2. /\ DOMAIN Filled(message) = {k \in DOMAIN message : Truthy(message[k])}
        /\ \A k \in DOMAIN Filled(message) : Filled(message)[k] = message[k]
    BY <1>14
  <2>3. "userMessage" \in DOMAIN p
          <=> "userMessage" \in DOMAIN message /\ Truthy(message["userMessage"])
    BY <1>13, <2>1, <2>2
  <2> QED BY <1>4, <2>3
<1>17. ASSUME NEW k \in Outputs
       PROVE  /\ k \in DOMAIN p <=> k \in DOMAIN done /\ Truthy(done[k])
              /\ k \in DOMAIN p => p[k] = done[k]
  <2>1. /\ k \in DOMAIN p <=> k \in DOMAIN Filled(output) /\ Truthy(Filled(output)[k])
        /\ k \in DOMAIN p => p[k] = Filled(output)[k]
    BY <1>1, <1>9, <1>13
  <2>2. /\ k \in DOMAIN Filled(output) <=> k \in DOMAIN output /\ Truthy(output[k])
        /\ k \in DOMAIN Filled(output) => Filled(output)[k] = output[k]
    BY <1>14
  <2> QED BY <1>4, <2>1, <2>2
<1> QED BY <1>15, <1>16, <1>17 DEF p, d, result, call_, e

-----------------------------------------------------------------------------
(* No scope or document has a property that is empty.                      *)

LEMMA PrunedObjects ==
  /\ IsPruned(Empty)
  /\ \A o, keys : IsPruned(o) => IsPruned(Only(o, keys))
  /\ \A f, g : IsPruned(f) /\ IsPruned(g) => IsPruned(f @@ g)
  /\ IsPruned("humanId" :> Text("new"))
  /\ \A o : IsPruned(Pruned(o))
<1>1. IsPruned(Empty)
  BY EmptyFacts DEF IsPruned
<1>2. ASSUME NEW o, NEW keys, IsPruned(o)
      PROVE  IsPruned(Only(o, keys))
  <2> DEFINE p == Only(o, keys)
  <2>1. DOMAIN p = DOMAIN o \cap keys /\ \A k \in DOMAIN o \cap keys : p[k] = o[k]
    BY OnlyFacts
  <2> HIDE DEF p
  <2>2. IsPruned(p)
    BY <1>2, <2>1 DEF IsPruned
  <2> QED BY <2>2 DEF p
<1>3. ASSUME NEW f, NEW g, IsPruned(f), IsPruned(g)
      PROVE  IsPruned(f @@ g)
  <2> DEFINE p == f @@ g
  <2>1. /\ DOMAIN p = DOMAIN f \cup DOMAIN g
        /\ \A k \in DOMAIN f : p[k] = f[k]
        /\ \A k \in DOMAIN g \ DOMAIN f : p[k] = g[k]
    <3>1. Merges(p, f, g)
      BY Merged
    <3> QED BY <3>1 DEF Merges
  <2> HIDE DEF p
  <2>2. IsPruned(p)
    BY <1>3, <2>1 DEF IsPruned
  <2> QED BY <2>2 DEF p
<1>4. IsPruned("humanId" :> Text("new"))
  <2> DEFINE p == "humanId" :> Text("new")
  <2>1. DOMAIN p = {"humanId"} /\ p["humanId"] = Text("new")
    BY Single
  <2>2. Truthy(Text("new")) /\ "humanId" \notin Nested
    BY DEF Truthy, Text, Number, Nested
  <2> HIDE DEF p
  <2>3. IsPruned(p)
    BY <2>1, <2>2 DEF IsPruned
  <2> QED BY <2>3 DEF p
<1> QED BY <1>1, <1>2, <1>3, <1>4, PrunedTwice

LEMMA PrunedResponse ==
  ASSUME NEW scope, Respond(scope)
  PROVE  stage' = "told" /\ IsPruned(told')
<1> DEFINE e == UnflattenEventResult("Human", scope)
<1>1. IsPruned(e)
  BY PrunedObjects DEF UnflattenEventResult
<1>2. told' = [k \in {j \in DOMAIN e : j # "extra"} |-> e[k]]
  BY DEF Respond, RestrictDomain, Restrict
<1> HIDE DEF e
<1>3. DOMAIN told' \subseteq DOMAIN e /\ \A k \in DOMAIN told' : told'[k] = e[k]
  BY <1>2
<1>4. IsPruned(told')
  BY <1>1, <1>3 DEF IsPruned
<1> QED BY <1>4 DEF Respond

-----------------------------------------------------------------------------
(* The actions, with the handlers that their calls get.                    *)

\* The Human process counts: the outcome is there at once.
CountedHere(M, id, next) ==
  /\ IF Confirmed(Counted(M, Counting(M, id)))
     THEN stage' = next /\ UNCHANGED told
     ELSE Respond(Refused(http, "400"))
  /\ Unchanged /\ UNCHANGED <<callee, http, call, event, host, given>>

LEMMA VerifySteps ==
  /\ VerifyProducer => /\ stage = "verifying producer" /\ ValidGive(http)
                       /\ CountedHere("Human", http.producerId, "verifying receiver")
  /\ VerifyReceiver => /\ stage = "verifying receiver"
                       /\ \/ Receiver = "Human" /\ CountedHere("Human", http.receiverId, "giving")
                          \/ Receiver = "Robot" /\ Send("Robot", Counting("Robot", http.receiverId))
  /\ CallInsert => stage = "giving" /\ Send("Greeting", GiveScope)
<1>1. <<"send">> # <<"count">>
  <2>1. <<"send">>[1] # <<"count">>[1]
    OBVIOUS
  <2> QED BY <2>1
<1>2. ASSUME NEW id, NEW next, Verify("Human", id, next)
      PROVE  CountedHere("Human", id, next)
  BY <1>2, HandlersOfCalls DEF Verify, CountedHere
<1>3. ASSUME NEW id, NEW next, Verify("Robot", id, next)
      PROVE  Send("Robot", Counting("Robot", id))
  BY <1>1, <1>3, HandlersOfCalls DEF Verify, Call
<1>4. CallInsert => stage = "giving" /\ Send("Greeting", GiveScope)
  BY HandlersOfCalls DEF CallInsert, Call
<1>5. Receiver \in {"Human", "Robot"}
  BY DEF Receiver
<1>6. VerifyProducer => /\ stage = "verifying producer" /\ ValidGive(http)
                        /\ CountedHere("Human", http.producerId, "verifying receiver")
  BY <1>2 DEF VerifyProducer
<1>7. VerifyReceiver => /\ stage = "verifying receiver"
                        /\ \/ Receiver = "Human" /\ CountedHere("Human", http.receiverId, "giving")
                           \/ /\ Receiver = "Robot"
                              /\ Send("Robot", Counting("Robot", http.receiverId))
  BY <1>2, <1>3, <1>5 DEF VerifyReceiver
<1> QED BY <1>4, <1>6, <1>7

LEMMA ParseSteps ==
  ASSUME request \in Requests, ParseRequest
  PROVE  /\ stage = "requested"
         /\ \/ /\ ValidDbOp(RequestQuery(request))
               /\ stage' = IF Greets THEN "verifying producer" ELSE request.method
               /\ http' = FlattenHttpRequest(request) /\ UNCHANGED told
            \/ ~ ValidDbOp(RequestQuery(request)) /\ Respond(Refused(Empty, "400")) /\ UNCHANGED http
         /\ Unchanged /\ UNCHANGED <<callee, call, event, host, given>>
<1>1. request.method \in {"greetHuman", "greetRobot", "find", "insert", "remove"}
  BY ScopeAssumption
<1>2. Serving(Beneath("Human", request.method, "http"))
        = IF Greets THEN "verifying producer" ELSE request.method
  BY <1>1, ServingOfRoutes DEF Greets
<1> QED BY <1>2 DEF ParseRequest

\* TypeOK: no step makes a scope or a document with an empty property.
THEOREM TypeCorrect == Spec => []TypeOK
<1>1. Init => TypeOK
  <2> SUFFICES ASSUME Init PROVE TypeOK
    OBVIOUS
  <2>1. IsPruned(Empty)
    BY PrunedObjects
  <2>2. \A d \in docs : IsPruned(d)
    BY ScopeAssumption DEF Init
  <2>3. \A o \in {http, event, host, told} \cup docs : IsPruned(o)
    BY <2>1, <2>2 DEF Init
  <2>4. callee \in DOMAIN ModelKeys
    BY DEF Init, ModelKeys
  <2> QED BY <2>3, <2>4 DEF Init, TypeOK, Stages
<1>2. TypeOK /\ [Next]_vars => TypeOK'
  <2> SUFFICES ASSUME TypeOK, [Next]_vars PROVE TypeOK'
    OBVIOUS
  <2>1. /\ request \in Requests /\ stage \in Stages /\ callee \in DOMAIN ModelKeys
        /\ IsPruned(http) /\ IsPruned(event) /\ IsPruned(host) /\ IsPruned(told)
        /\ \A d \in docs : IsPruned(d)
        /\ \A g \in given : DOMAIN g \subseteq ModelKeys.Greeting
    BY DEF TypeOK
  <2>2. \A o : IsPruned(Pruned(o))
    BY PrunedObjects
  <2> DEFINE Docs == \A d \in docs : IsPruned(d)
             Objects == /\ IsPruned(http) /\ IsPruned(event) /\ IsPruned(host) /\ IsPruned(told)
                        /\ \A d \in docs : IsPruned(d)
  <2>3. SUFFICES /\ request' \in Requests /\ stage' \in Stages /\ callee' \in DOMAIN ModelKeys
                 /\ IsPruned(http') /\ IsPruned(event') /\ IsPruned(host') /\ IsPruned(told')
                 /\ \A d \in docs' : IsPruned(d)
                 /\ \A g \in given' : DOMAIN g \subseteq ModelKeys.Greeting
    BY DEF TypeOK
  <2>4. {"Human", "Robot", "Greeting"} \subseteq DOMAIN ModelKeys
    BY DEF ModelKeys
  <2>5. \A M, scope : Send(M, scope) => IsPruned(event') /\ stage' \in Stages /\ callee' = M
    BY <2>2 DEF Send, UnflattenEvent, Stages
  <2>6. \A M, scope : IsPruned(UnflattenEventResult(M, scope))
    BY <2>2 DEF UnflattenEventResult
  <2>7. \A scope : Respond(scope) => stage' \in Stages /\ IsPruned(told')
    BY PrunedResponse DEF Stages
  <2>8. \A M, id, next :
          /\ CountedHere(M, id, next) /\ next \in Stages
          => /\ stage' \in Stages /\ IsPruned(told')
             /\ UNCHANGED <<request, docs, callee, http, event, host, given>>
    BY <2>1, <2>7 DEF CountedHere, Unchanged
  <2>9. CASE ParseRequest
    <3>1. stage' \in Stages /\ IsPruned(told') /\ IsPruned(http')
      <4>1. request.method \in {"find", "insert", "remove"} \/ Greets
        BY <2>1, ScopeAssumption DEF Greets
      <4>2. IsPruned(FlattenHttpRequest(request))
        BY <2>2 DEF FlattenHttpRequest
      <4> QED BY <2>1, <2>7, <2>9, <4>1, <4>2, ParseSteps DEF Stages
    <3> QED BY <2>1, <2>9, <3>1, ParseSteps DEF Unchanged
  <2>10. CASE RefuseGive
    BY <2>1, <2>7, <2>10 DEF RefuseGive, Unchanged
  <2>11. CASE VerifyProducer
    BY <2>1, <2>8, <2>11, VerifySteps DEF Stages
  <2>12. CASE VerifyReceiver
    <3>1. CASE CountedHere("Human", http.receiverId, "giving")
      BY <2>1, <2>8, <3>1 DEF Stages
    <3>2. CASE Send("Robot", Counting("Robot", http.receiverId))
      <4>1. stage' \in Stages /\ IsPruned(event') /\ callee' \in DOMAIN ModelKeys
        BY <2>4, <2>5, <3>2
      <4> QED BY <2>1, <3>2, <4>1 DEF Send, Unchanged
    <3> QED BY <2>12, <3>1, <3>2, VerifySteps
  <2>13. CASE CallInsert
    <3>1. Send("Greeting", GiveScope)
      BY <2>13, VerifySteps
    <3>2. stage' \in Stages /\ IsPruned(event') /\ callee' \in DOMAIN ModelKeys
      BY <2>4, <2>5, <3>1
    <3> QED BY <2>1, <3>1, <3>2 DEF Send, Unchanged
  <2>14. ASSUME NEW D, NEW H, Serve(D, H), \A d \in D : IsPruned(d)
         PROVE  /\ stage' \in Stages /\ IsPruned(told') /\ \A d \in docs' : IsPruned(d)
                /\ UNCHANGED <<request, callee, http, event, host, given>>
    <3>1. stage' \in Stages /\ IsPruned(told') /\ docs' = D
      BY <2>7, <2>14 DEF Serve
    <3> QED BY <2>14, <3>1 DEF Serve
  <2>15. CASE FindHumans
    BY <2>1, <2>14, <2>15 DEF FindHumans
  <2>16. CASE RemoveHuman
    <3>1. \E D, H : Serve(D, H) /\ D \subseteq docs
      BY <2>16 DEF RemoveHuman
    <3> QED BY <2>1, <2>14, <3>1
  <2>17. CASE InsertHuman
    <3>1. IsPruned(Given)
      BY <2>1, PrunedObjects DEF Given
    <3>2. ASSUME NEW d \in SameHuman
          PROVE  \A c \in (docs \ {d}) \cup {Given @@ d} : IsPruned(c)
      <4>1. d \in docs
        BY <3>2 DEF SameHuman, Selected
      <4>2. IsPruned(Given @@ d)
        BY <2>1, <3>1, <4>1, PrunedObjects
      <4> QED BY <2>1, <4>2
    <3>3. \A c \in docs \cup {Given @@ "humanId" :> Text("new")} : IsPruned(c)
      <4>1. IsPruned(Given @@ "humanId" :> Text("new"))
        BY <3>1, PrunedObjects
      <4> QED BY <2>1, <4>1
    <3>4. \E D, H : Serve(D, H) /\ \A d \in D : IsPruned(d)
      BY <2>17, <3>2, <3>3 DEF InsertHuman
    <3> QED BY <2>1, <2>14, <3>4
  <2>18. CASE \E code \in {"400", "500"} : OperationFails(code)
    <3>1. PICK code \in {"400", "500"} : OperationFails(code)
      BY <2>18
    <3> QED BY <2>1, <2>7, <3>1 DEF OperationFails, Unchanged
  <2>19. CASE ReturnCount
    BY <2>1, <2>7, <2>19 DEF ReturnCount, Unchanged, Stages
  <2>20. CASE ReturnInsert
    BY <2>1, <2>7, <2>20 DEF ReturnInsert, Unchanged
  <2>21. CASE ParseEvent
    <3>1. IsPruned(host') /\ stage' \in Stages
      BY <2>1, <2>2, <2>21 DEF ParseEvent, FlattenEventObj, Stages
    <3> QED BY <2>1, <2>21, <3>1 DEF ParseEvent, Unchanged
  <2>22. \A m, scope : Finish(m, scope) =>
           /\ stage' \in Stages /\ IsPruned(event')
           /\ UNCHANGED <<request, docs, callee, http, host, told>>
    BY <2>6 DEF Finish, Unchanged, Stages
  <2>23. CASE ExecuteCount
    <3>1. Finish("count", "robots" :> Counted("Robot", host) @@ host) /\ UNCHANGED given
      BY <2>23 DEF ExecuteCount
    <3> QED BY <2>1, <2>22, <3>1
  <2>24. CASE ExecuteInsert
    <3> DEFINE g == Only(host, ModelKeys.Greeting)
    <3>1. Finish("insert", "greetings" :> List({g}) @@ host) /\ given' = given \cup {g}
      BY <2>24 DEF ExecuteInsert
    <3>2. DOMAIN g \subseteq ModelKeys.Greeting
      <4>1. DOMAIN g = DOMAIN host \cap ModelKeys.Greeting
        BY OnlyFacts
      <4> QED BY <4>1
    <3> HIDE DEF g
    <3> QED BY <2>1, <2>22, <3>1, <3>2
  <2>25. CASE \E code \in {"400", "500"} : ExecuteFails(code)
    <3>1. PICK code \in {"400", "500"} : ExecuteFails(code)
      BY <2>25
    <3>2. Finish(IF callee = "Robot" THEN "count" ELSE "insert", Refused(host, code)) /\ UNCHANGED given
      BY <3>1 DEF ExecuteFails
    <3> QED BY <2>1, <2>22, <3>2
  <2>26. CASE UNCHANGED vars
    BY <2>1, <2>26 DEF vars
  <2> QED
    BY <2>3, <2>9, <2>10, <2>11, <2>12, <2>13, <2>15, <2>16, <2>17, <2>18, <2>19, <2>20, <2>21,
       <2>23, <2>24, <2>25, <2>26 DEF Next
<1> QED BY <1>1, <1>2, PTL DEF Spec

-----------------------------------------------------------------------------
(* The inductive invariant.                                                *)

Serves == {"find", "insert", "remove"}
Calls == {"sent", "received", "executed", "poisoned"}

\* The scope of the solution that sends the Event.
CalledScope == IF callee = "Robot" THEN Counting("Robot", http.receiverId) ELSE GiveScope

\* How the call ended: with an error, with a count, or with a greeting.
Outcome ==
  \/ \E code \in {"400", "500"} :
       event = UnflattenEventResult(callee, Refused(host, code)) /\ given = {}
  \/ /\ callee = "Robot" /\ given = {}
     /\ event = UnflattenEventResult("Robot", "robots" :> Counted("Robot", host) @@ host)
  \/ /\ callee = "Greeting"
     /\ \E g \in given :
          /\ given = {g}
          /\ event = UnflattenEventResult("Greeting", "greetings" :> List({g}) @@ host)

\* Where the scopes and the documents of each stage come from.
Flow ==
  /\ request \in Requests
  /\ stage \notin {"requested", "told"} =>
       http = FlattenHttpRequest(request) /\ ValidDbOp(RequestQuery(request))
  /\ stage \in Serves => stage = request.method
  /\ stage \in Stages \ (Serves \cup {"requested", "told"}) => Greets
  /\ stage \in {"verifying receiver", "giving"} \cup Calls => ValidGive(http)
  /\ stage \in Calls =>
       /\ callee \in {"Robot", "Greeting"} /\ (callee = "Robot" => Receiver = "Robot")
       /\ call = UnflattenEvent(callee, CalledScope) @@ CalledScope
  /\ stage \in {"sent", "received", "poisoned"} => event = UnflattenEvent(callee, CalledScope)
  /\ stage \in {"received", "executed"} =>
       host = FlattenEventObj(UnflattenEvent(callee, CalledScope))
  /\ stage = "poisoned" => ~ Parsable(event)
  /\ stage # "told" => served = {}
  /\ stage \notin {"executed", "told"} => given = {}
  /\ stage = "executed" => Outcome

\* The identifier of the documents of a model.
IdName(M) == IF M = "Human" THEN "humanId" ELSE "robotId"

Exists(M, id) == \E d \in docs : Get(d, IdName(M), Text("")) = id

\* What the verifications have established.
Verified ==
  /\ stage \in {"verifying receiver", "giving"} \cup Calls =>
       "skip" \notin DOMAIN http /\ Exists("Human", http.producerId)
  /\ stage = "giving" \/ (stage \in Calls /\ callee = "Greeting") =>
       Exists(Receiver, http.receiverId)

LEMMA SameScopes ==
  ASSUME UNCHANGED <<request, http>>
  PROVE  /\ Greets' = Greets /\ Receiver' = Receiver /\ GiveScope' = GiveScope
         /\ callee' = callee => CalledScope' = CalledScope
         /\ callee' = "Robot" => CalledScope' = Counting("Robot", http.receiverId)
         /\ callee' = "Greeting" => CalledScope' = GiveScope
<1>1. Greets' = Greets /\ Receiver' = Receiver
  BY DEF Greets, Receiver
<1>2. GiveScope' = GiveScope
  BY <1>1 DEF GiveScope
<1>3. callee' = "Robot" => CalledScope' = Counting("Robot", http.receiverId)
  BY <1>2 DEF CalledScope, Counting
<1>4. callee' = callee => CalledScope' = CalledScope
  BY <1>2 DEF CalledScope, Counting
<1>5. callee' = "Greeting" => CalledScope' = GiveScope
  BY <1>2 DEF CalledScope
<1> QED BY <1>1, <1>2, <1>3, <1>4, <1>5

\* Once the request is answered nothing is to be done.
LEMMA ToldIsFlow ==
  ASSUME request' \in Requests, stage' = "told"
  PROVE  Flow'
BY DEF Flow, Serves, Calls, Stages

LEMMA FlowSteps ==
  ASSUME Flow, [Next]_vars
  PROVE  Flow'
<1>1. ASSUME NEW scope, Respond(scope), UNCHANGED request
      PROVE  Flow'
  BY <1>1, ToldIsFlow DEF Flow, Respond
<1>2. \A M, id, next :
        CountedHere(M, id, next) /\ stage' # "told" =>
          stage' = next /\ UNCHANGED <<request, docs, callee, http, call, event, host, given, served>>
  BY DEF CountedHere, Respond, Unchanged
<1>3. \A M, scope : Send(M, scope) =>
        /\ stage' = "sent" /\ callee' = M
        /\ event' = UnflattenEvent(M, scope) /\ call' = UnflattenEvent(M, scope) @@ scope
        /\ UNCHANGED <<request, docs, http, host, given, served>>
  BY DEF Send, Unchanged
<1>4. CASE ParseRequest
  <2>1. CASE Respond(Refused(Empty, "400"))
    BY <1>1, <1>4, <2>1, ParseSteps DEF Flow, Unchanged
  <2>2. CASE /\ ValidDbOp(RequestQuery(request))
             /\ stage' = IF Greets THEN "verifying producer" ELSE request.method
             /\ http' = FlattenHttpRequest(request) /\ UNCHANGED told
    <3>1. Greets \/ request.method \in Serves
      BY ScopeAssumption DEF Greets, Serves, Flow
    <3>2. stage = "requested" /\ UNCHANGED <<request, docs, served, callee, call, event, host, given>>
      BY <1>4, ParseSteps DEF Unchanged, Flow
    <3>3. Greets' = Greets
      BY <3>2 DEF Greets
    <3> QED BY <2>2, <3>1, <3>2, <3>3 DEF Flow, Serves, Calls, Stages, Greets
  <2> QED BY <1>4, <2>1, <2>2, ParseSteps DEF Flow
<1>5. CASE RefuseGive
  BY <1>1, <1>5 DEF RefuseGive, Unchanged
<1>6. CASE VerifyProducer
  <2>1. CASE stage' = "told"
    BY <1>6, <2>1, ToldIsFlow, VerifySteps DEF Flow, CountedHere, Unchanged
  <2>2. CASE stage' # "told"
    <3>1. /\ stage = "verifying producer" /\ stage' = "verifying receiver" /\ ValidGive(http)
          /\ UNCHANGED <<request, docs, callee, http, call, event, host, given, served>>
      BY <1>2, <1>6, <2>2, VerifySteps
    <3>2. Greets' = Greets
      BY <3>1 DEF Greets
    <3> QED BY <3>1, <3>2 DEF Flow, Serves, Calls, Stages, ValidGive
  <2> QED BY <2>1, <2>2
<1>7. CASE VerifyReceiver
  <2>1. CASE Receiver = "Human" /\ CountedHere("Human", http.receiverId, "giving")
    <3>1. CASE stage' = "told"
      BY <2>1, <3>1, ToldIsFlow DEF Flow, CountedHere, Unchanged
    <3>2. CASE stage' # "told"
      <4>1. /\ stage = "verifying receiver" /\ stage' = "giving"
            /\ UNCHANGED <<request, docs, callee, http, call, event, host, given, served>>
        BY <1>2, <1>7, <2>1, <3>2, VerifySteps
      <4>2. Greets' = Greets
        BY <4>1 DEF Greets
      <4> QED BY <4>1, <4>2 DEF Flow, Serves, Calls, Stages, ValidGive
    <3> QED BY <3>1, <3>2
  <2>2. CASE Receiver = "Robot" /\ Send("Robot", Counting("Robot", http.receiverId))
    <3>1. /\ stage = "verifying receiver" /\ stage' = "sent" /\ callee' = "Robot"
          /\ event' = UnflattenEvent("Robot", Counting("Robot", http.receiverId))
          /\ call' = event' @@ Counting("Robot", http.receiverId)
          /\ UNCHANGED <<request, docs, http, host, given, served>>
      BY <1>3, <1>7, <2>2, VerifySteps
    <3>2. Greets' = Greets /\ Receiver' = Receiver /\ CalledScope' = Counting("Robot", http.receiverId)
      BY <3>1, SameScopes
    <3> QED BY <2>2, <3>1, <3>2 DEF Flow, Serves, Calls, Stages, ValidGive
  <2> QED BY <1>7, <2>1, <2>2, VerifySteps
<1>8. CASE CallInsert
  <2>1. /\ stage = "giving" /\ stage' = "sent" /\ callee' = "Greeting"
        /\ event' = UnflattenEvent("Greeting", GiveScope) /\ call' = event' @@ GiveScope
        /\ UNCHANGED <<request, docs, http, host, given, served>>
    BY <1>3, <1>8, VerifySteps
  <2>2. Greets' = Greets /\ Receiver' = Receiver /\ CalledScope' = GiveScope
    BY <2>1, SameScopes
  <2> QED BY <2>1, <2>2 DEF Flow, Serves, Calls, Stages, ValidGive
<1>9. CASE \E D, H : Serve(D, H)
  <2>1. PICK D, H : Serve(D, H)
    BY <1>9
  <2> QED BY <1>1, <2>1 DEF Serve
<1>10. CASE \E code \in {"400", "500"} : OperationFails(code)
  <2>1. PICK code \in {"400", "500"} : OperationFails(code)
    BY <1>10
  <2> QED BY <1>1, <2>1 DEF OperationFails, Unchanged
<1>11. CASE ReturnCount
  <2>1. CASE stage' = "told"
    BY <1>11, <2>1, ToldIsFlow DEF Flow, ReturnCount, Unchanged
  <2>2. CASE stage' # "told"
    <3>1. /\ stage = "executed" /\ callee = "Robot" /\ stage' = "giving"
          /\ UNCHANGED <<request, docs, callee, http, call, event, host, given, served>>
      BY <1>11, <2>2 DEF ReturnCount, Respond, Unchanged
    <3>2. given = {}
      BY <3>1 DEF Flow, Outcome
    <3>3. Greets' = Greets
      BY <3>1 DEF Greets
    <3> QED BY <3>1, <3>2, <3>3 DEF Flow, Serves, Calls, Stages, ValidGive
  <2> QED BY <2>1, <2>2
<1>12. CASE ReturnInsert
  BY <1>1, <1>12 DEF ReturnInsert, Unchanged
<1>13. CASE ParseEvent
  <2>1. /\ stage = "sent"
        /\ \/ /\ Parsable(event) /\ stage' = "received" /\ host' = FlattenEventObj(event)
           \/ ~ Parsable(event) /\ stage' = "poisoned"
        /\ UNCHANGED <<request, docs, callee, http, call, event, given, served>>
    BY <1>13 DEF ParseEvent, Unchanged
  <2>2. Greets' = Greets /\ Receiver' = Receiver /\ CalledScope' = CalledScope
    BY <2>1, SameScopes
  <2> QED BY <2>1, <2>2 DEF Flow, Serves, Calls, Stages, ValidGive
<1>14. ASSUME NEW m, NEW scope, Finish(m, scope), Outcome'
       PROVE  Flow'
  <2>1. /\ stage = "received" /\ stage' = "executed"
        /\ UNCHANGED <<request, docs, callee, http, call, host, served>>
    BY <1>14 DEF Finish, Unchanged
  <2>2. Greets' = Greets /\ Receiver' = Receiver /\ CalledScope' = CalledScope
    BY <2>1, SameScopes
  <2> QED BY <1>14, <2>1, <2>2 DEF Flow, Serves, Calls, Stages, ValidGive
<1>15. CASE ExecuteCount
  <2> DEFINE scope == "robots" :> Counted("Robot", host) @@ host
  <2>1. callee = "Robot" /\ Finish("count", scope) /\ UNCHANGED given
    BY <1>15 DEF ExecuteCount
  <2>2. stage = "received" /\ given = {}
    BY <2>1 DEF Finish, Flow
  <2>3. scope' = scope
    BY <2>1 DEF Finish, Unchanged, Counted, Paged, Selected
  <2> HIDE DEF scope
  <2>4. event' = UnflattenEventResult("Robot", scope) /\ callee' = "Robot" /\ given' = {}
    BY <2>1, <2>2 DEF Finish
  <2>5. Outcome'
    BY <2>3, <2>4 DEF Outcome, scope
  <2> QED BY <1>14, <2>1, <2>5
<1>16. CASE ExecuteInsert
  <2> DEFINE g == Only(host, ModelKeys.Greeting)
  <2>1. /\ callee = "Greeting" /\ given' = given \cup {g}
        /\ Finish("insert", "greetings" :> List({g}) @@ host)
    BY <1>16 DEF ExecuteInsert
  <2> HIDE DEF g
  <2>2. given' = {g} /\ g \in given'
    BY <2>1 DEF Finish, Flow
  <2>3. /\ event' = UnflattenEventResult("Greeting", "greetings" :> List({g}) @@ host)
        /\ callee' = "Greeting" /\ host' = host
    BY <2>1 DEF Finish
  <2>4. Outcome'
    BY <2>2, <2>3 DEF Outcome
  <2> QED BY <1>14, <2>1, <2>4
<1>17. CASE \E code \in {"400", "500"} : ExecuteFails(code)
  <2>1. PICK code \in {"400", "500"} : ExecuteFails(code)
    BY <1>17
  <2> DEFINE m == IF callee = "Robot" THEN "count" ELSE "insert"
  <2>2. Finish(m, Refused(host, code)) /\ UNCHANGED given
    BY <2>1 DEF ExecuteFails
  <2>3. given = {}
    BY <2>2 DEF Finish, Flow
  <2>4. event' = UnflattenEventResult(callee', Refused(host', code)) /\ given' = {}
    BY <2>2, <2>3 DEF Finish
  <2>5. Outcome'
    BY <2>4 DEF Outcome, Refused
  <2> QED BY <1>14, <2>2, <2>5
<1>18. CASE UNCHANGED vars
  <2>1. UNCHANGED <<request, docs, stage, callee, http, call, event, host, given, served>>
    BY <1>18 DEF vars
  <2>2. Greets' = Greets /\ Receiver' = Receiver /\ CalledScope' = CalledScope
    BY <2>1, SameScopes
  <2>3. Outcome' <=> Outcome
    BY <2>1 DEF Outcome, Counted, Paged, Selected, Refused
  <2> QED BY <2>1, <2>2, <2>3 DEF Flow, ValidGive, Serves, Calls, Stages
<1> QED
  <2>1. FindHumans \/ RemoveHuman \/ InsertHuman => \E D, H : Serve(D, H)
    BY DEF FindHumans, RemoveHuman, InsertHuman
  <2> QED BY <1>4, <1>5, <1>6, <1>7, <1>8, <1>9, <1>10, <1>11, <1>12, <1>13, <1>15, <1>16, <1>17,
             <1>18, <2>1 DEF Next

\* The scopes, the Event and its outcome are in every reachable state what the stage says,
\* whatever the contexts of the requests have.
THEOREM FlowInvariant == Spec => []Flow
<1>1. Init => Flow
  BY DEF Init, Flow, Serves, Calls, Stages
<1>2. Flow /\ [Next]_vars => Flow'
  BY FlowSteps
<1> QED BY <1>1, <1>2, PTL DEF Spec

-----------------------------------------------------------------------------
(* Counting by an identifier.                                              *)

LEMMA GiveScopeFacts ==
  /\ DOMAIN GiveScope = {"producerType", "receiverType"} \cup DOMAIN http
  /\ GiveScope["producerType"] = Text("Human") /\ GiveScope["receiverType"] = Text(Receiver)
  /\ \A j \in DOMAIN http \ {"producerType", "receiverType"} : GiveScope[j] = http[j]
<1> DEFINE types == [producerType |-> Text("Human"), receiverType |-> Text(Receiver)]
<1>1. /\ DOMAIN types = {"producerType", "receiverType"}
      /\ types["producerType"] = Text("Human") /\ types["receiverType"] = Text(Receiver)
  OBVIOUS
<1>2. GiveScope = types @@ http
  BY DEF GiveScope
<1> HIDE DEF types
<1>3. /\ DOMAIN (types @@ http) = DOMAIN types \cup DOMAIN http
      /\ \A j \in DOMAIN types : (types @@ http)[j] = types[j]
      /\ \A j \in DOMAIN http \ DOMAIN types : (types @@ http)[j] = http[j]
  <2>1. Merges(types @@ http, types, http)
    BY Merged
  <2> QED BY <2>1 DEF Merges
<1> QED BY <1>1, <1>2, <1>3

LEMMA IdKeysFacts ==
  \A M \in {"Human", "Robot"} :
    IdKeys[M] = {IdName(M)} /\ IdName(M) \notin {"criteria", "skip", "limit"}
BY DEF IdKeys, IdName

LEMMA CountingFacts ==
  ASSUME NEW M \in {"Human", "Robot"}, NEW id
  PROVE  /\ DOMAIN Counting(M, id) = {IdName(M), "criteria"} \cup DOMAIN GiveScope
         /\ Counting(M, id)["criteria"] = IdName(M) :> id
         /\ Counting(M, id)[IdName(M)] = id
         /\ \A j \in DOMAIN GiveScope \ {IdName(M), "criteria"} : Counting(M, id)[j] = GiveScope[j]
<1> DEFINE k == IdName(M)
<1>0. IdKeys[M] = {k} /\ k # "criteria"
  BY IdKeysFacts
<1> HIDE DEF k
<1> DEFINE one == k :> id
           scope == one @@ GiveScope
           ids == Only(scope, IdKeys[M])
           criteria == "criteria" :> ids
           c == Counting(M, id)
<1>1. c = criteria @@ scope
  <2>1. (CHOOSE j \in IdKeys[M] : TRUE) = k
    BY <1>0
  <2> QED BY <2>1 DEF Counting
<1>2. DOMAIN one = {k} /\ one[k] = id
  BY Single
<1>3. DOMAIN criteria = {"criteria"} /\ criteria["criteria"] = ids
  BY Single
<1>4. ids = [j \in {i \in DOMAIN scope : i \in IdKeys[M]} |-> scope[j]]
  BY DEF Only, RestrictDomain, Restrict
<1> HIDE DEF one, criteria, c, ids
<1>5. /\ DOMAIN (one @@ GiveScope) = DOMAIN one \cup DOMAIN GiveScope
      /\ \A j \in DOMAIN one : (one @@ GiveScope)[j] = one[j]
      /\ \A j \in DOMAIN GiveScope \ DOMAIN one : (one @@ GiveScope)[j] = GiveScope[j]
  <2>1. Merges(one @@ GiveScope, one, GiveScope)
    BY Merged
  <2> QED BY <2>1 DEF Merges
<1>6. /\ DOMAIN scope = DOMAIN one \cup DOMAIN GiveScope
      /\ \A j \in DOMAIN one : scope[j] = one[j]
      /\ \A j \in DOMAIN GiveScope \ DOMAIN one : scope[j] = GiveScope[j]
  BY <1>5
<1> HIDE DEF scope
<1>7. /\ DOMAIN (criteria @@ scope) = DOMAIN criteria \cup DOMAIN scope
      /\ \A j \in DOMAIN criteria : (criteria @@ scope)[j] = criteria[j]
      /\ \A j \in DOMAIN scope \ DOMAIN criteria : (criteria @@ scope)[j] = scope[j]
  <2>1. Merges(criteria @@ scope, criteria, scope)
    BY Merged
  <2> QED BY <2>1 DEF Merges
<1>8. ids = k :> id
  <2>1. {i \in DOMAIN scope : i \in IdKeys[M]} = {k} /\ scope[k] = id
    BY <1>0, <1>2, <1>6
  <2>2. ids = [j \in {k} |-> scope[j]]
    BY <1>4, <2>1
  <2> QED BY <2>1, <2>2 DEF :>
<1>9. c["criteria"] = k :> id
  BY <1>1, <1>3, <1>7, <1>8
<1>10. DOMAIN c = {k, "criteria"} \cup DOMAIN GiveScope
  BY <1>0, <1>1, <1>2, <1>3, <1>6, <1>7
<1>11. c[k] = id
  BY <1>0, <1>1, <1>2, <1>3, <1>6, <1>7
<1>12. \A j \in DOMAIN GiveScope \ {k, "criteria"} : c[j] = GiveScope[j]
  BY <1>0, <1>1, <1>2, <1>3, <1>6, <1>7
<1> QED BY <1>9, <1>10, <1>11, <1>12 DEF c, k

\* A count by an identifier is one iff the document is there and nothing is skipped.
LEMMA CountedIs ==
  ASSUME NEW M \in {"Human", "Robot"}, NEW id, Truthy(id), IsText(id),
         NEW scope, "criteria" \in DOMAIN scope, scope["criteria"] = IdName(M) :> id
  PROVE  /\ Counted(M, scope) \in {Number("0"), Number("1")}
         /\ Confirmed(Counted(M, scope))
              <=> Get(scope, "skip", Number("0")).text = "0" /\ Exists(M, id)
<1> DEFINE k == IdName(M)
<1>0. IdKeys[M] = {k}
  BY IdKeysFacts
<1>1. Number("0") # Number("1")
  BY DEF Number
<1>2. DOMAIN Obj(scope, "criteria") = {k}
  <2>1. Obj(scope, "criteria") = k :> id
    BY DEF Obj, Get
  <2> QED BY <2>1, Single
<1>3. scope.criteria[k] = id
  BY Single
<1>4. Selected(M, scope) = {d \in docs : k \in DOMAIN d /\ Get(d, k, Text("")) = id}
  BY <1>0, <1>2, <1>3 DEF Selected
<1>5. id # Text("")
  <2>1. Text("").text = "" /\ Text("").type = "string"
    BY DEF Text
  <2>2. ~ Truthy(Text(""))
    BY <2>1 DEF Truthy
  <2> QED BY <2>2
<1>6. \A d \in docs : Get(d, k, Text("")) = id => k \in DOMAIN d
  BY <1>5 DEF Get
<1>7. Confirmed(Counted(M, scope)) <=> Paged(M, scope) # {}
  BY <1>1 DEF Confirmed, Counted
<1>8. Paged(M, scope) # {} <=> /\ Get(scope, "skip", Number("0")).text = "0"
                               /\ \E d \in docs : Get(d, k, Text("")) = id
  BY <1>4, <1>6 DEF Paged
<1> QED BY <1>7, <1>8 DEF Counted, Exists

\* The ids that give is called with are the texts that the request asks for.
LEMMA IdsOfRequest ==
  ASSUME Flow, Greets, http = FlattenHttpRequest(request), ValidGive(http),
         NEW k \in {"producerId", "receiverId"}
  PROVE  k \in DOMAIN http /\ http[k] = Asked(k) /\ IsText(http[k]) /\ Truthy(http[k])
<1>1. request \in Requests
  BY DEF Flow
<1>2. k \in DOMAIN request.params
  BY <1>1, ScopeAssumption DEF Greets
<1>3. k \in DOMAIN http /\ http[k].type = "string"
  BY DEF ValidGive
<1> QED BY <1>1, <1>2, <1>3, ScopeOfRequest DEF Asked

\* The verdict of a count in the Human process itself.
LEMMA VerdictHere ==
  ASSUME Flow, Greets, http = FlattenHttpRequest(request), ValidGive(http),
         NEW key \in {"producerId", "receiverId"}
  PROVE  Confirmed(Counted("Human", Counting("Human", http[key])))
           <=> /\ Get(http, "skip", Number("0")).text = "0"
               /\ Exists("Human", http[key])
<1> DEFINE id == http[key]
           c == Counting("Human", id)
<1>1. IsText(id) /\ Truthy(id)
  BY IdsOfRequest
<1>2. /\ DOMAIN c = {IdName("Human"), "criteria"} \cup DOMAIN GiveScope
      /\ c["criteria"] = IdName("Human") :> id
      /\ c[IdName("Human")] = id
      /\ \A j \in DOMAIN GiveScope \ {IdName("Human"), "criteria"} : c[j] = GiveScope[j]
  BY CountingFacts
<1> HIDE DEF id, c
<1>3. Confirmed(Counted("Human", c))
        <=> Get(c, "skip", Number("0")).text = "0" /\ Exists("Human", id)
  BY <1>1, <1>2, CountedIs
<1>4. Get(c, "skip", Number("0")) = Get(http, "skip", Number("0"))
  BY <1>2, IdKeysFacts, GiveScopeFacts DEF Get
<1> QED BY <1>3, <1>4 DEF id, c

-----------------------------------------------------------------------------
(* What the host is asked, and what comes back.                            *)

LEMMA KeysOfHttp ==
  ASSUME PlainContexts, Flow, stage \notin {"requested", "told"}
  PROVE  DOMAIN http \cap Reserved \subseteq {"extra", "limit", "skip", "sort", "criteria"}
<1>1. request \in Requests /\ http = FlattenHttpRequest(request)
  BY DEF Flow
<1>2. DOMAIN request.context \cap Reserved = {}
  BY <1>1 DEF PlainContexts
<1> QED BY <1>1, <1>2, KeysOfRequest

LEMMA KeysOfCalled ==
  /\ DOMAIN CalledScope \subseteq {"robotId", "criteria", "producerType", "receiverType"} \cup DOMAIN http
  /\ \A k \in {"limit", "skip"} : k \in DOMAIN CalledScope => k \in DOMAIN http
  /\ Obj(CalledScope, "extra") = Obj(http, "extra")
<1>1. /\ DOMAIN GiveScope = {"producerType", "receiverType"} \cup DOMAIN http
      /\ \A j \in DOMAIN http \ {"producerType", "receiverType"} : GiveScope[j] = http[j]
  BY GiveScopeFacts
<1> DEFINE c == Counting("Robot", http.receiverId)
<1>2. /\ DOMAIN c = {IdName("Robot"), "criteria"} \cup DOMAIN GiveScope
      /\ c["criteria"] = IdName("Robot") :> http.receiverId
      /\ c[IdName("Robot")] = http.receiverId
      /\ \A j \in DOMAIN GiveScope \ {IdName("Robot"), "criteria"} : c[j] = GiveScope[j]
  BY CountingFacts
<1>3. IdName("Robot") = "robotId"
  BY DEF IdName
<1> HIDE DEF c
<1>4. /\ "extra" \in DOMAIN c <=> "extra" \in DOMAIN http
      /\ "extra" \in DOMAIN http => c["extra"] = http["extra"]
      /\ "extra" \in DOMAIN GiveScope <=> "extra" \in DOMAIN http
      /\ "extra" \in DOMAIN http => GiveScope["extra"] = http["extra"]
  BY <1>1, <1>2, <1>3
<1>5. CASE callee = "Robot"
  <2>1. CalledScope = c
    BY <1>5 DEF CalledScope, c
  <2> QED BY <1>1, <1>2, <1>3, <1>4, <2>1 DEF Obj, Get
<1>6. CASE callee # "Robot"
  <2>1. CalledScope = GiveScope
    BY <1>6 DEF CalledScope
  <2> QED BY <1>1, <1>4, <2>1 DEF Obj, Get
<1> QED BY <1>5, <1>6

\* The host of robots is asked to count the receiver, by its identifier alone.
LEMMA CriteriaOfHost ==
  ASSUME Flow, stage \in {"received", "executed"}, callee = "Robot"
  PROVE  Obj(host, "criteria") = "robotId" :> http.receiverId
<1> DEFINE id == http.receiverId
           c == Counting("Robot", id)
<1>1. /\ Greets /\ http = FlattenHttpRequest(request) /\ ValidGive(http)
      /\ host = FlattenEventObj(UnflattenEvent("Robot", CalledScope))
  BY DEF Flow, Serves, Calls, Stages
<1>2. IsText(id) /\ Truthy(id)
  BY <1>1, IdsOfRequest
<1>3. CalledScope = c
  BY DEF CalledScope
<1>4. IdName("Robot") = "robotId"
  BY DEF IdName
<1>5. /\ DOMAIN c = {IdName("Robot"), "criteria"} \cup DOMAIN GiveScope
      /\ c["criteria"] = IdName("Robot") :> id
      /\ c[IdName("Robot")] = id
      /\ \A j \in DOMAIN GiveScope \ {IdName("Robot"), "criteria"} : c[j] = GiveScope[j]
  BY CountingFacts
<1> HIDE DEF id, c
<1>6. {"robotId", "criteria"} \subseteq DOMAIN c /\ c["robotId"] = id /\ c.criteria = "robotId" :> id
  BY <1>4, <1>5
<1>7. "Robot" \in DOMAIN ModelKeys /\ IdKeys["Robot"] = {"robotId"}
  BY <1>4, IdKeysFacts DEF ModelKeys
<1>8. Obj(FlattenEventObj(UnflattenEvent("Robot", c)), "criteria") = "robotId" :> id
  BY <1>2, <1>6, <1>7, CriteriaOfEvent
<1> QED BY <1>1, <1>3, <1>8 DEF id

\* The host has nothing but what the Event of the call has.
LEMMA HostOfCall ==
  ASSUME Flow, stage \in {"received", "executed"}
  PROVE  /\ Obj(host, "extra") = Filled(request.extra)
         /\ \A k \in {"limit", "skip"} : k \in DOMAIN host => k \in DOMAIN http
         /\ DOMAIN host \cap (Outputs \cup {"userMessage", "statusCode"}) = {}
         /\ callee = "Greeting" =>
              \A k \in ModelKeys["Greeting"] \ {"greetingId"} :
                /\ k \in DOMAIN host <=> k \in DOMAIN GiveScope /\ Truthy(GiveScope[k])
                /\ k \in DOMAIN host => host[k] = GiveScope[k]
<1>1. /\ request \in Requests /\ http = FlattenHttpRequest(request)
      /\ callee \in {"Robot", "Greeting"}
      /\ host = FlattenEventObj(UnflattenEvent(callee, CalledScope))
  BY DEF Flow, Serves, Calls
<1>2. callee \in DOMAIN ModelKeys
  BY <1>1 DEF ModelKeys
<1>3. /\ Obj(host, "extra") = Filled(Obj(CalledScope, "extra"))
      /\ \A k \in {"limit", "skip"} : k \in DOMAIN host => k \in DOMAIN CalledScope
      /\ \A k \in ModelKeys[callee] \ IdKeys[callee] :
           /\ k \in DOMAIN host <=> k \in DOMAIN CalledScope /\ Truthy(CalledScope[k])
           /\ k \in DOMAIN host => host[k] = CalledScope[k]
      /\ DOMAIN host \cap (Outputs \cup {"userMessage", "statusCode"}) = {}
  BY <1>1, <1>2, HostOfEvent
<1>4. Filled(Obj(http, "extra")) = Filled(request.extra)
  <2>1. Obj(http, "extra") = Filled(request.extra)
    BY <1>1, ScopeOfRequest
  <2> QED BY <2>1, FilledFacts
<1>5. callee = "Greeting" => CalledScope = GiveScope /\ IdKeys[callee] = {"greetingId"}
  BY DEF CalledScope, IdKeys
<1> QED BY <1>3, <1>4, <1>5, KeysOfCalled

LEMMA RefusedFacts ==
  ASSUME NEW scope, NEW code
  PROVE  /\ DOMAIN Refused(scope, code) = {"userMessage", "statusCode", "eventStatus"} \cup DOMAIN scope
         /\ Refused(scope, code)["userMessage"] = Text("message")
         /\ Refused(scope, code)["statusCode"] = Number(code)
         /\ \A k \in DOMAIN scope \ {"userMessage", "statusCode", "eventStatus"} :
              Refused(scope, code)[k] = scope[k]
<1> DEFINE new == [userMessage |-> Text("message"), statusCode |-> Number(code),
                   eventStatus |-> Text(IF code = "400" THEN "completed" ELSE "failed")]
<1>1. /\ DOMAIN new = {"userMessage", "statusCode", "eventStatus"}
      /\ new["userMessage"] = Text("message") /\ new["statusCode"] = Number(code)
  OBVIOUS
<1>2. Refused(scope, code) = new @@ scope
  BY DEF Refused
<1> HIDE DEF new
<1>3. /\ DOMAIN (new @@ scope) = DOMAIN new \cup DOMAIN scope
      /\ \A k \in DOMAIN new : (new @@ scope)[k] = new[k]
      /\ \A k \in DOMAIN scope \ DOMAIN new : (new @@ scope)[k] = scope[k]
  <2>1. Merges(new @@ scope, new, scope)
    BY Merged
  <2> QED BY <2>1 DEF Merges
<1> QED BY <1>1, <1>2, <1>3

LEMMA TruthyFacts ==
  /\ \A t : Truthy(Text(t)) <=> t # ""
  /\ \A t : Truthy(Number(t)) <=> t # "" /\ t # "0"
  /\ \A D : Truthy(List(D)) <=> D # {}
  /\ \A t, u : Text(t) # Number(u)
  /\ \A t, u : Number(t) = Number(u) <=> t = u
<1>1. \A t, u : Number(t) = Number(u) <=> t = u
  BY DEF Number
<1>2. \A t, u : Text(t) # Number(u)
  BY DEF Text, Number
<1>3. \A t : Truthy(Text(t)) <=> t # ""
  BY <1>2 DEF Truthy, Text
<1>4. \A t : Truthy(Number(t)) <=> t # "" /\ t # "0"
  <2> TAKE t
  <2>1. Number(t).type = "number" /\ Number(t).text = t
    BY DEF Number
  <2> QED BY <1>1, <2>1 DEF Truthy
<1>5. \A D : Truthy(List(D)) <=> D # {}
  BY DEF Truthy, List
<1> QED BY <1>1, <1>2, <1>3, <1>4, <1>5

\* The outcome that the caller finds is the outcome that the host ended with.
LEMMA OutcomeArrives ==
  ASSUME PlainContexts, Flow, stage = "executed", NEW done, event = UnflattenEventResult(callee, done),
         Truthy(Get(done, "statusCode", Number("200")))
  PROVE  /\ "statusCode" \in DOMAIN event /\ event["statusCode"] = Get(done, "statusCode", Number("200"))
         /\ "statusCode" \in DOMAIN Parsed /\ Parsed["statusCode"] = event["statusCode"]
         /\ "userMessage" \in DOMAIN Parsed
              <=> "userMessage" \in DOMAIN done /\ Truthy(done["userMessage"])
         /\ \A k \in Outputs :
              /\ k \in DOMAIN Parsed <=> k \in DOMAIN done /\ Truthy(done[k])
              /\ k \in DOMAIN Parsed => Parsed[k] = done[k]
<1>1. callee \in {"Robot", "Greeting"} /\ call = UnflattenEvent(callee, CalledScope) @@ CalledScope
  BY DEF Flow, Calls
<1>2. callee \in DOMAIN ModelKeys
  BY <1>1 DEF ModelKeys
<1>3. DOMAIN CalledScope \cap {"context", "model", "query", "output", "confirm"} = {}
  <2>1. DOMAIN http \cap {"context", "model", "query", "output", "confirm"} = {}
    BY KeysOfHttp DEF Reserved, Nested, Strings
  <2> QED BY <2>1, KeysOfCalled
<1>4. Parsed = FlattenEventObj(Over(UnflattenEventResult(callee, done),
                                    UnflattenEvent(callee, CalledScope) @@ CalledScope))
  BY <1>1 DEF Parsed
<1>5. "statusCode" \in DOMAIN event /\ event["statusCode"] = Get(done, "statusCode", Number("200"))
  BY ResultOfScope
<1>6. /\ "statusCode" \in DOMAIN Parsed /\ Parsed["statusCode"] = Get(done, "statusCode", Number("200"))
      /\ "userMessage" \in DOMAIN Parsed
           <=> "userMessage" \in DOMAIN done /\ Truthy(done["userMessage"])
      /\ \A k \in Outputs :
           /\ k \in DOMAIN Parsed <=> k \in DOMAIN done /\ Truthy(done[k])
           /\ k \in DOMAIN Parsed => Parsed[k] = done[k]
  BY <1>2, <1>3, <1>4, OutcomeOfResult
<1> QED BY <1>5, <1>6

\* How the call ended, as the caller finds it.
Failed ==
  /\ \E code \in {"400", "500"} : event["statusCode"] = Number(code)
  /\ given = {}
  /\ "userMessage" \in DOMAIN Parsed /\ DOMAIN Parsed \cap Outputs = {}

CountedRobots ==
  /\ callee = "Robot" /\ given = {} /\ event["statusCode"] = Number("200")
  /\ "robots" \in DOMAIN Parsed <=> Counted("Robot", host) = Number("1")
  /\ "robots" \in DOMAIN Parsed => Parsed["robots"] = Counted("Robot", host)

InsertedGreeting ==
  /\ callee = "Greeting" /\ event["statusCode"] = Number("200")
  /\ \E g : given = {g} /\ Parsed["greetings"] = List({g})
  /\ "userMessage" \notin DOMAIN Parsed /\ DOMAIN Parsed \cap Outputs = {"greetings"}

LEMMA CallEnds ==
  ASSUME PlainContexts, Flow, stage = "executed"
  PROVE  /\ "statusCode" \in DOMAIN event
         /\ "statusCode" \in DOMAIN Parsed /\ Parsed["statusCode"] = event["statusCode"]
         /\ Failed \/ CountedRobots \/ InsertedGreeting
<1>1. DOMAIN host \cap (Outputs \cup {"userMessage", "statusCode"}) = {}
  BY HostOfCall
<1>2. Outcome
  BY DEF Flow
<1>3. {"userMessage", "statusCode", "eventStatus"} \cap Outputs = {}
  BY DEF Outputs
<1>4. ASSUME NEW code \in {"400", "500"}, event = UnflattenEventResult(callee, Refused(host, code)),
             given = {}
      PROVE  /\ "statusCode" \in DOMAIN event
             /\ "statusCode" \in DOMAIN Parsed /\ Parsed["statusCode"] = event["statusCode"]
             /\ Failed
  <2> DEFINE done == Refused(host, code)
  <2>1. /\ DOMAIN done = {"userMessage", "statusCode", "eventStatus"} \cup DOMAIN host
        /\ done["userMessage"] = Text("message")
        /\ done["statusCode"] = Number(code)
    BY RefusedFacts
  <2>2. event = UnflattenEventResult(callee, done)
    BY <1>4
  <2> HIDE DEF done
  <2>3. Get(done, "statusCode", Number("200")) = Number(code)
    BY <2>1 DEF Get
  <2>4. Truthy(Number(code)) /\ Truthy(Text("message"))
    BY TruthyFacts
  <2>5. /\ "statusCode" \in DOMAIN event /\ event["statusCode"] = Number(code)
        /\ "statusCode" \in DOMAIN Parsed /\ Parsed["statusCode"] = event["statusCode"]
        /\ "userMessage" \in DOMAIN Parsed
             <=> "userMessage" \in DOMAIN done /\ Truthy(done["userMessage"])
        /\ \A k \in Outputs : k \in DOMAIN Parsed => k \in DOMAIN done
    BY <2>2, <2>3, <2>4, OutcomeArrives
  <2>6. "userMessage" \in DOMAIN Parsed /\ DOMAIN Parsed \cap Outputs = {}
    BY <1>1, <1>3, <2>1, <2>4, <2>5
  <2> QED BY <1>4, <2>5, <2>6 DEF Failed
<1>5. ASSUME NEW k \in Outputs, NEW v, event = UnflattenEventResult(callee, k :> v @@ host)
      PROVE  /\ "statusCode" \in DOMAIN event /\ event["statusCode"] = Number("200")
             /\ "statusCode" \in DOMAIN Parsed /\ Parsed["statusCode"] = event["statusCode"]
             /\ "userMessage" \notin DOMAIN Parsed
             /\ k \in DOMAIN Parsed <=> Truthy(v)
             /\ k \in DOMAIN Parsed => Parsed[k] = v
             /\ DOMAIN Parsed \cap Outputs \subseteq {k}
  <2> DEFINE one == k :> v
             done == one @@ host
  <2>1. DOMAIN one = {k} /\ one[k] = v
    BY Single
  <2>2. event = UnflattenEventResult(callee, done)
    BY <1>5
  <2> HIDE DEF one
  <2>3. /\ DOMAIN (one @@ host) = DOMAIN one \cup DOMAIN host
        /\ \A j \in DOMAIN one : (one @@ host)[j] = one[j]
        /\ \A j \in DOMAIN host \ DOMAIN one : (one @@ host)[j] = host[j]
    <3>1. Merges(one @@ host, one, host)
      BY Merged
    <3> QED BY <3>1 DEF Merges
  <2>4. DOMAIN done = {k} \cup DOMAIN host /\ done[k] = v
    BY <2>1, <2>3
  <2> HIDE DEF done
  <2>5. "statusCode" \notin DOMAIN done /\ "userMessage" \notin DOMAIN done
    BY <1>1, <1>3, <2>4
  <2>6. Get(done, "statusCode", Number("200")) = Number("200") /\ Truthy(Number("200"))
    BY <2>5, TruthyFacts DEF Get
  <2>7. /\ "statusCode" \in DOMAIN event /\ event["statusCode"] = Number("200")
        /\ "statusCode" \in DOMAIN Parsed /\ Parsed["statusCode"] = event["statusCode"]
        /\ "userMessage" \in DOMAIN Parsed
             <=> "userMessage" \in DOMAIN done /\ Truthy(done["userMessage"])
        /\ \A j \in Outputs :
             /\ j \in DOMAIN Parsed <=> j \in DOMAIN done /\ Truthy(done[j])
             /\ j \in DOMAIN Parsed => Parsed[j] = done[j]
    BY <2>2, <2>6, OutcomeArrives
  <2> QED BY <1>1, <2>4, <2>5, <2>7
<1>6. CASE /\ callee = "Robot" /\ given = {}
           /\ event = UnflattenEventResult("Robot", "robots" :> Counted("Robot", host) @@ host)
  <2>1. "robots" \in Outputs
    BY DEF Outputs
  <2>2. Truthy(Counted("Robot", host)) <=> Counted("Robot", host) = Number("1")
    BY TruthyFacts DEF Counted
  <2>3. /\ "statusCode" \in DOMAIN event /\ event["statusCode"] = Number("200")
        /\ "statusCode" \in DOMAIN Parsed /\ Parsed["statusCode"] = event["statusCode"]
        /\ "userMessage" \notin DOMAIN Parsed
        /\ "robots" \in DOMAIN Parsed <=> Truthy(Counted("Robot", host))
        /\ "robots" \in DOMAIN Parsed => Parsed["robots"] = Counted("Robot", host)
        /\ DOMAIN Parsed \cap Outputs \subseteq {"robots"}
    BY <1>5, <1>6, <2>1
  <2> QED BY <1>6, <2>2, <2>3 DEF CountedRobots
<1>7. CASE /\ callee = "Greeting"
           /\ \E g \in given :
                /\ given = {g}
                /\ event = UnflattenEventResult("Greeting", "greetings" :> List({g}) @@ host)
  <2>1. PICK g \in given : /\ given = {g}
                           /\ event = UnflattenEventResult(callee, "greetings" :> List({g}) @@ host)
    BY <1>7
  <2>2. "greetings" \in Outputs
    BY DEF Outputs
  <2>3. Truthy(List({g}))
    BY TruthyFacts
  <2>4. /\ "statusCode" \in DOMAIN event /\ event["statusCode"] = Number("200")
        /\ "statusCode" \in DOMAIN Parsed /\ Parsed["statusCode"] = event["statusCode"]
        /\ "userMessage" \notin DOMAIN Parsed
        /\ "greetings" \in DOMAIN Parsed <=> Truthy(List({g}))
        /\ "greetings" \in DOMAIN Parsed => Parsed["greetings"] = List({g})
        /\ DOMAIN Parsed \cap Outputs \subseteq {"greetings"}
    BY <1>5, <2>1, <2>2
  <2> QED BY <1>7, <2>1, <2>2, <2>3, <2>4 DEF InsertedGreeting
<1> QED BY <1>2, <1>4, <1>6, <1>7 DEF Outcome

\* What the count of the receiver says, after it has travelled.
LEMMA VerdictOfHost ==
  ASSUME PlainContexts, Flow, Verified, stage = "executed", callee = "Robot"
  PROVE  \/ Failed /\ ~ Confirmed(Get(Parsed, "robots", Text("none")))
         \/ /\ event["statusCode"] = Number("200") /\ given = {}
            /\ Confirmed(Get(Parsed, "robots", Text("none"))) <=> Exists("Robot", http.receiverId)
<1> DEFINE id == http.receiverId
<1>1. /\ Greets /\ http = FlattenHttpRequest(request) /\ ValidGive(http)
      /\ "skip" \notin DOMAIN http
  BY DEF Flow, Verified, Serves, Calls, Stages
<1>2. IsText(id) /\ Truthy(id)
  BY <1>1, IdsOfRequest
<1>3. Obj(host, "criteria") = "robotId" :> id
  BY CriteriaOfHost
<1>4. "criteria" \in DOMAIN host /\ host["criteria"] = IdName("Robot") :> id
  <2>1. DOMAIN Empty # DOMAIN ("robotId" :> id)
    BY EmptyFacts, Single
  <2>2. Empty # ("robotId" :> id)
    BY <2>1
  <2> QED BY <1>3, <2>2 DEF Obj, Get, IdName
<1>5. "skip" \notin DOMAIN host
  BY <1>1, HostOfCall
<1>6. Get(host, "skip", Number("0")).text = "0"
  BY <1>5 DEF Get, Number
<1> HIDE DEF id
<1>7. Confirmed(Counted("Robot", host)) <=> Exists("Robot", id)
  BY <1>2, <1>4, <1>6, CountedIs
<1>8. ~ Confirmed(Text("none"))
  BY TruthyFacts DEF Confirmed
<1>9. CASE Failed
  <2>1. "robots" \notin DOMAIN Parsed
    BY <1>9 DEF Failed, Outputs
  <2> QED BY <1>8, <1>9, <2>1 DEF Get
<1>10. CASE CountedRobots
  BY <1>7, <1>8, <1>10 DEF CountedRobots, Get, Confirmed, id
<1>11. CASE InsertedGreeting
  BY <1>11 DEF InsertedGreeting
<1> QED BY <1>9, <1>10, <1>11, CallEnds

-----------------------------------------------------------------------------
(* What follows from the stage.                                            *)

LEMMA NothingSkipped ==
  ASSUME PlainContexts, Flow, stage \notin {"requested", "told"}, "skip" \in DOMAIN http
  PROVE  /\ http["skip"].text # "0"
         /\ Get(request.string, "$skip", Text("0")) # Text("0")
<1>1. /\ request \in Requests /\ http = FlattenHttpRequest(request)
      /\ ValidDbOp(RequestQuery(request))
  BY DEF Flow
<1>2. DOMAIN request.context \cap Reserved = {}
  BY <1>1 DEF PlainContexts
<1>3. ODataName["skip"] = "$skip"
  BY NamesOfOData
<1>4. /\ ODataName["skip"] \in DOMAIN request.string
      /\ request.string[ODataName["skip"]].text # "0"
      /\ request.string[ODataName["skip"]] # Text("0")
      /\ http["skip"] = Number(request.string[ODataName["skip"]].text)
  BY <1>1, <1>2, PagingOfRequest
<1>5. http["skip"].text # "0"
  BY <1>4 DEF Number
<1> QED BY <1>3, <1>4, <1>5 DEF Get

LEMMA VerifiedSteps ==
  ASSUME PlainContexts, Flow, Verified, [Next]_vars
  PROVE  Verified'
<1> USE DEF Calls
<1>1. CASE stage' \notin {"verifying receiver", "giving"} \cup Calls
  BY <1>1 DEF Verified
<1>2. ASSUME stage \in {"verifying receiver", "giving"} \cup Calls,
             UNCHANGED <<request, docs, http>>,
             stage' = "giving" \/ (stage' \in Calls /\ callee' = "Greeting")
               => stage = "giving" \/ (stage \in Calls /\ callee = "Greeting")
                  \/ Exists(Receiver, http.receiverId)
      PROVE  Verified'
  <2>1. Receiver' = Receiver
    BY <1>2 DEF Receiver
  <2>2. "skip" \notin DOMAIN http' /\ Exists("Human", http.producerId)'
    BY <1>2 DEF Verified, Exists
  <2>3. stage' = "giving" \/ (stage' \in Calls /\ callee' = "Greeting") =>
          Exists(Receiver, http.receiverId)
    BY <1>2 DEF Verified
  <2>4. Exists(Receiver, http.receiverId) => Exists(Receiver, http.receiverId)'
    BY <1>2, <2>1 DEF Exists
  <2> QED BY <2>2, <2>3, <2>4 DEF Verified
<1>3. ASSUME NEW scope, Respond(scope)
      PROVE  Verified'
  BY <1>1, <1>3 DEF Respond
<1>4. CASE ParseRequest
  <2>1. request.method \notin {"verifying receiver", "giving", "sent", "received", "executed", "poisoned"}
    BY ScopeAssumption DEF Flow
  <2>2. stage' \notin {"verifying receiver", "giving"} \cup Calls
    BY <1>4, <2>1, ParseSteps DEF Flow, Respond
  <2> QED BY <1>1, <2>2
<1>5. CASE RefuseGive
  BY <1>3, <1>5 DEF RefuseGive
<1>6. CASE VerifyProducer
  <2>1. /\ stage = "verifying producer" /\ ValidGive(http)
        /\ CountedHere("Human", http.producerId, "verifying receiver")
    BY <1>6, VerifySteps
  <2>2. Greets /\ http = FlattenHttpRequest(request)
    BY <2>1 DEF Flow, Serves, Stages
  <2>3. CASE Confirmed(Counted("Human", Counting("Human", http.producerId)))
    <3>1. /\ Get(http, "skip", Number("0")).text = "0"
          /\ Exists("Human", http.producerId)
      BY <2>1, <2>2, <2>3, VerdictHere
    <3>2. "skip" \notin DOMAIN http
      BY <2>1, <3>1, NothingSkipped DEF Get
    <3>3. stage' = "verifying receiver" /\ UNCHANGED <<docs, http>>
      BY <2>1, <2>3 DEF CountedHere, Unchanged
    <3>4. Exists("Human", http.producerId)'
      BY <3>1, <3>3 DEF Exists
    <3> QED BY <3>2, <3>3, <3>4 DEF Verified
  <2>4. CASE ~ Confirmed(Counted("Human", Counting("Human", http.producerId)))
    BY <1>3, <2>1, <2>4 DEF CountedHere
  <2> QED BY <2>3, <2>4
<1>7. CASE VerifyReceiver
  <2>1. CASE Receiver = "Human" /\ CountedHere("Human", http.receiverId, "giving")
    <3>1. stage = "verifying receiver"
      BY <1>7, VerifySteps
    <3>2. Greets /\ http = FlattenHttpRequest(request) /\ ValidGive(http)
      BY <3>1 DEF Flow, Serves, Stages
    <3>3. CASE Confirmed(Counted("Human", Counting("Human", http.receiverId)))
      <4>1. Exists(Receiver, http.receiverId)
        BY <2>1, <3>2, <3>3, VerdictHere
      <4>2. UNCHANGED <<request, docs, http>>
        BY <2>1 DEF CountedHere, Unchanged
      <4> QED BY <1>2, <3>1, <4>1, <4>2
    <3>4. CASE ~ Confirmed(Counted("Human", Counting("Human", http.receiverId)))
      BY <1>3, <2>1, <3>4 DEF CountedHere
    <3> QED BY <3>3, <3>4
  <2>2. CASE Send("Robot", Counting("Robot", http.receiverId))
    <3>1. /\ stage = "verifying receiver" /\ stage' = "sent" /\ callee' = "Robot"
          /\ UNCHANGED <<request, docs, http>>
      BY <1>7, <2>2, VerifySteps DEF Send, Unchanged
    <3> QED BY <1>2, <3>1
  <2> QED BY <1>7, <2>1, <2>2, VerifySteps
<1>8. CASE CallInsert
  <2>1. stage = "giving" /\ UNCHANGED <<request, docs, http>>
    BY <1>8, VerifySteps DEF Send, Unchanged
  <2> QED BY <1>2, <2>1
<1>9. CASE FindHumans \/ RemoveHuman \/ InsertHuman
  BY <1>3, <1>9 DEF FindHumans, RemoveHuman, InsertHuman, Serve
<1>10. CASE \E code \in {"400", "500"} : OperationFails(code)
  BY <1>3, <1>10 DEF OperationFails
<1>11. CASE ReturnCount
  <2>1. stage = "executed" /\ callee = "Robot"
    BY <1>11 DEF ReturnCount
  <2>2. CASE Confirmed(Get(Parsed, "robots", Text("none")))
    <3>1. Exists("Robot", http.receiverId)
      BY <2>1, <2>2, VerdictOfHost
    <3>2. Receiver = "Robot"
      BY <2>1 DEF Flow
    <3>3. UNCHANGED <<request, docs, http>>
      BY <1>11 DEF ReturnCount, Unchanged
    <3> QED BY <1>2, <2>1, <3>1, <3>2, <3>3
  <2>3. CASE ~ Confirmed(Get(Parsed, "robots", Text("none")))
    BY <1>3, <1>11, <2>3 DEF ReturnCount
  <2> QED BY <2>2, <2>3
<1>12. CASE ReturnInsert
  BY <1>3, <1>12 DEF ReturnInsert
<1>13. CASE ParseEvent
  <2>1. /\ stage = "sent" /\ stage' \in Calls /\ UNCHANGED <<request, docs, http, callee>>
    BY <1>13 DEF ParseEvent, Unchanged
  <2> QED BY <1>2, <2>1
<1>14. ASSUME NEW m, NEW scope, Finish(m, scope)
       PROVE  Verified'
  <2>1. /\ stage = "received" /\ stage' \in Calls /\ UNCHANGED <<request, docs, http, callee>>
    BY <1>14 DEF Finish, Unchanged
  <2> QED BY <1>2, <2>1
<1>15. CASE ExecuteCount \/ ExecuteInsert \/ \E code \in {"400", "500"} : ExecuteFails(code)
  BY <1>14, <1>15 DEF ExecuteCount, ExecuteInsert, ExecuteFails
<1>16. CASE UNCHANGED vars
  <2>1. UNCHANGED <<request, docs, http, callee, stage>>
    BY <1>16 DEF vars
  <2> QED BY <1>1, <1>2, <2>1
<1> QED
  BY <1>4, <1>5, <1>6, <1>7, <1>8, <1>9, <1>10, <1>11, <1>12, <1>13, <1>15, <1>16 DEF Next

\* A call to give goes on only between documents that exist, of requests whose contexts
\* are plain: others may set the paging of the counts.
THEOREM VerifiedInvariant == ASSUME PlainContexts PROVE Spec => [](Flow /\ Verified)
<1>1. Init => Flow /\ Verified
  BY DEF Init, Flow, Verified, Serves, Calls, Stages
<1>2. Flow /\ Verified /\ [Next]_vars => (Flow /\ Verified)'
  BY FlowSteps, VerifiedSteps
<1> QED BY <1>1, <1>2, PTL DEF Spec

\* ExtraInherited, whatever the contexts of the requests have.
THEOREM ExtraReaches == Spec => []ExtraInherited
<1>1. Flow => ExtraInherited
  <2> SUFFICES ASSUME Flow, stage \in {"sent", "received", "executed"}
               PROVE  /\ Obj(event, "extra") = Filled(request.extra)
                      /\ stage = "received" => Obj(host, "extra") = Filled(request.extra)
    BY DEF ExtraInherited
  <2>1. Filled(Obj(CalledScope, "extra")) = Filled(request.extra)
    <3>1. request \in Requests /\ http = FlattenHttpRequest(request)
      BY DEF Flow
    <3>2. Obj(http, "extra") = Filled(request.extra)
      BY <3>1, ScopeOfRequest
    <3> QED BY <3>2, KeysOfCalled, FilledFacts
  <2>2. stage # "sent" => Obj(host, "extra") = Filled(request.extra)
    BY HostOfCall
  <2>3. CASE stage # "executed"
    <3>1. event = UnflattenEvent(callee, CalledScope)
      BY <2>3 DEF Flow
    <3>2. Obj(event, "extra") = Filled(Obj(CalledScope, "extra"))
      BY <3>1, EventOfScope
    <3> QED BY <2>1, <2>2, <3>2
  <2>4. ASSUME stage = "executed", NEW done, event = UnflattenEventResult(callee, done),
               Truthy(Get(done, "statusCode", Number("200"))), Obj(done, "extra") = Obj(host, "extra")
        PROVE  Obj(event, "extra") = Filled(request.extra)
    <3>1. Obj(event, "extra") = Filled(Obj(done, "extra"))
      BY <2>4, ResultOfScope
    <3> QED BY <2>2, <2>4, <3>1, FilledFacts
  <2>5. CASE stage = "executed"
    <3>1. DOMAIN host \cap (Outputs \cup {"userMessage", "statusCode"}) = {}
      BY <2>5, HostOfCall
    <3>2. ASSUME NEW code \in {"400", "500"}, event = UnflattenEventResult(callee, Refused(host, code))
          PROVE  Obj(event, "extra") = Filled(request.extra)
      <4> DEFINE done == Refused(host, code)
      <4>1. /\ DOMAIN done = {"userMessage", "statusCode", "eventStatus"} \cup DOMAIN host
            /\ done["statusCode"] = Number(code)
            /\ \A k \in DOMAIN host \ {"userMessage", "statusCode", "eventStatus"} : done[k] = host[k]
        BY RefusedFacts
      <4>2. event = UnflattenEventResult(callee, done)
        BY <3>2
      <4> HIDE DEF done
      <4>3. Truthy(Get(done, "statusCode", Number("200")))
        <5>1. Get(done, "statusCode", Number("200")) = Number(code)
          BY <4>1 DEF Get
        <5>2. Truthy(Number(code))
          BY TruthyFacts
        <5> QED BY <5>1, <5>2
      <4>4. Obj(done, "extra") = Obj(host, "extra")
        BY <4>1 DEF Obj, Get
      <4> QED BY <2>4, <2>5, <4>2, <4>3, <4>4
    <3>3. ASSUME NEW k \in Outputs, NEW v, event = UnflattenEventResult(callee, k :> v @@ host)
          PROVE  Obj(event, "extra") = Filled(request.extra)
      <4> DEFINE one == k :> v
                 done == one @@ host
      <4>1. DOMAIN one = {k} /\ k \notin {"extra", "statusCode"}
        BY Single DEF Outputs
      <4>2. event = UnflattenEventResult(callee, done)
        BY <3>3
      <4> HIDE DEF one
      <4>3. /\ DOMAIN (one @@ host) = DOMAIN one \cup DOMAIN host
            /\ \A j \in DOMAIN one : (one @@ host)[j] = one[j]
            /\ \A j \in DOMAIN host \ DOMAIN one : (one @@ host)[j] = host[j]
        <5>1. Merges(one @@ host, one, host)
          BY Merged
        <5> QED BY <5>1 DEF Merges
      <4>4. /\ DOMAIN done = {k} \cup DOMAIN host
            /\ \A j \in DOMAIN host \ {k} : done[j] = host[j]
        BY <4>1, <4>3
      <4> HIDE DEF done
      <4>5. Truthy(Get(done, "statusCode", Number("200")))
        <5>1. "statusCode" \notin DOMAIN done
          BY <3>1, <4>1, <4>4
        <5>2. Get(done, "statusCode", Number("200")) = Number("200")
          BY <5>1 DEF Get
        <5>3. Truthy(Number("200"))
          BY TruthyFacts
        <5> QED BY <5>2, <5>3
      <4>6. Obj(done, "extra") = Obj(host, "extra")
        BY <4>1, <4>4 DEF Obj, Get
      <4> QED BY <2>4, <2>5, <4>2, <4>5, <4>6
    <3>4. {"robots", "greetings"} \subseteq Outputs
      BY DEF Outputs
    <3>5. Outcome
      BY <2>5 DEF Flow
    <3>6. \/ \E code \in {"400", "500"} : event = UnflattenEventResult(callee, Refused(host, code))
          \/ \E k \in Outputs : \E v : event = UnflattenEventResult(callee, k :> v @@ host)
      BY <3>4, <3>5 DEF Outcome
    <3> QED BY <2>5, <3>2, <3>3, <3>6
  <2> QED BY <2>2, <2>3, <2>5
<1> QED BY <1>1, FlowInvariant, PTL

\* PoisonOnlyByPaging, of requests whose contexts are plain.
THEOREM PoisonedByPaging == ASSUME PlainContexts PROVE Spec => []PoisonOnlyByPaging
<1>1. Flow /\ Verified => PoisonOnlyByPaging
  <2> SUFFICES ASSUME Flow, Verified, stage = "poisoned"
               PROVE  "$top" \in DOMAIN request.string /\ request.string["$top"].text # "0"
    BY DEF PoisonOnlyByPaging
  <2>1. /\ request \in Requests /\ http = FlattenHttpRequest(request)
        /\ ValidDbOp(RequestQuery(request)) /\ "skip" \notin DOMAIN http
        /\ ~ Parsable(UnflattenEvent(callee, CalledScope))
    BY DEF Flow, Verified, Calls
  <2>2. PICK k \in {"limit", "skip"} : k \in DOMAIN CalledScope
    BY <2>1, UnparsableByPaging
  <2>3. "limit" \in DOMAIN http
    BY <2>1, <2>2, KeysOfCalled
  <2>4. DOMAIN request.context \cap Reserved = {}
    BY <2>1 DEF PlainContexts
  <2>5. /\ ODataName["limit"] \in DOMAIN request.string
        /\ request.string[ODataName["limit"]].text # "0"
    BY <2>1, <2>3, <2>4, PagingOfRequest
  <2> QED BY <2>5, NamesOfOData
<1> QED BY <1>1, VerifiedInvariant, PTL

\* CountedById, whatever the contexts of the requests have.
THEOREM ReceiverCountedById == Spec => []CountedById
<1>1. Flow => CountedById
  <2> SUFFICES ASSUME Flow, stage = "received", callee = "Robot"
               PROVE  Obj(host, "criteria") = "robotId" :> Asked("receiverId")
    BY DEF CountedById
  <2>1. Greets /\ http = FlattenHttpRequest(request) /\ ValidGive(http)
    BY DEF Flow, Serves, Calls, Stages
  <2>2. http["receiverId"] = Asked("receiverId")
    BY <2>1, IdsOfRequest
  <2> QED BY <2>2, CriteriaOfHost
<1> QED BY <1>1, FlowInvariant, PTL

-----------------------------------------------------------------------------
(* What is given is what was verified.                                     *)

LEMMA GivenSteps ==
  ASSUME Flow, Verified, GivenAsVerified, [Next]_vars
  PROVE  GivenAsVerified'
<1>1. ASSUME given' = {}
      PROVE  GivenAsVerified'
  BY <1>1 DEF GivenAsVerified
<1>2. ASSUME UNCHANGED <<request, docs, given>>
      PROVE  GivenAsVerified'
  <2>1. Receiver' = Receiver
    BY <1>2 DEF Receiver
  <2> QED BY <1>2, <2>1 DEF GivenAsVerified
<1>3. CASE ParseRequest
  BY <1>2, <1>3 DEF ParseRequest, Unchanged
<1>4. CASE RefuseGive
  BY <1>2, <1>4 DEF RefuseGive, Unchanged
<1>5. CASE VerifyProducer
  BY <1>2, <1>5, VerifySteps DEF CountedHere, Unchanged
<1>6. CASE VerifyReceiver
  BY <1>2, <1>6, VerifySteps DEF CountedHere, Send, Unchanged
<1>7. CASE CallInsert
  BY <1>2, <1>7, VerifySteps DEF Send, Unchanged
<1>8. CASE FindHumans \/ RemoveHuman \/ InsertHuman
  <2>1. stage \in {"find", "remove", "insert"} /\ UNCHANGED given
    BY <1>8 DEF FindHumans, RemoveHuman, InsertHuman, Serve
  <2> QED BY <1>1, <2>1 DEF Flow
<1>9. CASE \E code \in {"400", "500"} : OperationFails(code)
  BY <1>2, <1>9 DEF OperationFails, Unchanged
<1>10. CASE ReturnCount
  BY <1>2, <1>10 DEF ReturnCount, Unchanged
<1>11. CASE ReturnInsert
  BY <1>2, <1>11 DEF ReturnInsert, Unchanged
<1>12. CASE ParseEvent
  BY <1>2, <1>12 DEF ParseEvent, Unchanged
<1>13. CASE ExecuteCount
  BY <1>2, <1>13 DEF ExecuteCount, Finish, Unchanged
<1>14. CASE \E code \in {"400", "500"} : ExecuteFails(code)
  BY <1>2, <1>14 DEF ExecuteFails, Finish, Unchanged
<1>15. CASE ExecuteInsert
  <2> DEFINE g == Only(host, ModelKeys.Greeting)
             K == ModelKeys["Greeting"] \ {"greetingId"}
  <2>1. /\ stage = "received" /\ callee = "Greeting" /\ given' = given \cup {g}
        /\ UNCHANGED <<request, docs>>
    BY <1>15 DEF ExecuteInsert, Finish, Unchanged
  <2>2. /\ given = {} /\ Greets /\ http = FlattenHttpRequest(request) /\ ValidGive(http)
        /\ Exists("Human", http.producerId) /\ Exists(Receiver, http.receiverId)
    BY <2>1 DEF Flow, Verified, Serves, Calls, Stages
  <2>3. K = {"producerId", "receiverId", "producerType", "receiverType"} /\ K \subseteq ModelKeys.Greeting
    BY DEF ModelKeys
  <2>4. \A k \in {"producerId", "receiverId"} :
          k \in DOMAIN GiveScope /\ GiveScope[k] = http[k] /\ Truthy(GiveScope[k])
    BY <2>2, IdsOfRequest, GiveScopeFacts
  <2>5. \A k \in {"producerType", "receiverType"} : k \in DOMAIN GiveScope /\ Truthy(GiveScope[k])
    <3>1. Receiver \in {"Human", "Robot"}
      BY DEF Receiver
    <3>2. Truthy(Text("Human")) /\ Truthy(Text(Receiver))
      BY <3>1, TruthyFacts
    <3> QED BY <3>2, GiveScopeFacts
  <2>6. \A k \in K : k \in DOMAIN host /\ host[k] = GiveScope[k]
    BY <2>1, <2>3, <2>4, <2>5, HostOfCall
  <2>7. /\ DOMAIN g = DOMAIN host \cap ModelKeys.Greeting
        /\ \A k \in DOMAIN host \cap ModelKeys.Greeting : g[k] = host[k]
    BY OnlyFacts
  <2> HIDE DEF g, K
  <2>8. K \subseteq DOMAIN g /\ \A k \in K : g[k] = GiveScope[k]
    BY <2>3, <2>6, <2>7
  <2>9. /\ g["receiverType"] = Text(Receiver)
        /\ g["producerId"] = http["producerId"] /\ g["receiverId"] = http["receiverId"]
    BY <2>3, <2>4, <2>8, GiveScopeFacts
  <2>10. /\ \E d \in docs : Get(d, "humanId", Text("")) = g.producerId
         /\ \E d \in docs :
              Get(d, IF Receiver = "Human" THEN "humanId" ELSE "robotId", Text("")) = g.receiverId
    BY <2>2, <2>9 DEF Exists, IdName
  <2>11. Receiver' = Receiver
    BY <2>1 DEF Receiver
  <2>12. given' = {g}
    BY <2>1, <2>2
  <2> QED BY <2>1, <2>8, <2>9, <2>10, <2>11, <2>12 DEF GivenAsVerified, K
<1>16. CASE UNCHANGED vars
  BY <1>2, <1>16 DEF vars
<1> QED
  BY <1>3, <1>4, <1>5, <1>6, <1>7, <1>8, <1>9, <1>10, <1>11, <1>12, <1>13, <1>14, <1>15, <1>16 DEF Next

\* GivenAsVerified, of requests whose contexts are plain.
THEOREM GivenIsVerified == ASSUME PlainContexts PROVE Spec => []GivenAsVerified
<1>1. Init => GivenAsVerified
  BY DEF Init, GivenAsVerified
<1>2. Flow /\ Verified /\ GivenAsVerified /\ [Next]_vars => GivenAsVerified'
  BY GivenSteps
<1> QED BY <1>1, <1>2, VerifiedInvariant, PTL DEF Spec

-----------------------------------------------------------------------------
(* What the request is told.                                               *)

\* Once it is told, nothing happens.
LEMMA ToldIsLast ==
  ASSUME stage = "told", [Next]_vars
  PROVE  UNCHANGED vars
<1>1. ~ VerifyProducer /\ ~ VerifyReceiver /\ ~ CallInsert
  BY VerifySteps
<1>2. ~ ParseRequest /\ ~ RefuseGive /\ ~ ReturnCount /\ ~ ReturnInsert /\ ~ ParseEvent
  BY DEF ParseRequest, RefuseGive, ReturnCount, ReturnInsert, ParseEvent
<1>3. ~ FindHumans /\ ~ RemoveHuman /\ ~ InsertHuman
  BY DEF FindHumans, RemoveHuman, InsertHuman
<1>4. \A code : ~ OperationFails(code)
  BY DEF OperationFails
<1>5. \A m, scope : ~ Finish(m, scope)
  BY DEF Finish
<1>6. ~ ExecuteCount /\ ~ ExecuteInsert /\ \A code : ~ ExecuteFails(code)
  BY <1>5 DEF ExecuteCount, ExecuteInsert, ExecuteFails
<1> QED BY <1>1, <1>2, <1>3, <1>4, <1>6 DEF Next

\* The response of a scope.
LEMMA ResponseFacts ==
  ASSUME NEW scope, Respond(scope), Truthy(Get(scope, "statusCode", Number("200")))
  PROVE  /\ told'["statusCode"] = Get(scope, "statusCode", Number("200"))
         /\ "confirm" \in DOMAIN told'
              <=> "userMessage" \in DOMAIN scope /\ Truthy(scope["userMessage"])
         /\ Obj(told', "output") = Filled(Only(scope, Outputs))
<1> DEFINE e == UnflattenEventResult("Human", scope)
<1>1. /\ "confirm" \in DOMAIN e
           <=> "userMessage" \in DOMAIN scope /\ Truthy(scope["userMessage"])
      /\ Obj(e, "output") = Filled(Only(scope, Outputs))
      /\ "statusCode" \in DOMAIN e /\ e["statusCode"] = Get(scope, "statusCode", Number("200"))
  BY ResultOfScope
<1>2. told' = RestrictDomain(e, LAMBDA k : k # "extra")
  BY DEF Respond
<1> HIDE DEF e
<1>3. told' = [k \in {j \in DOMAIN e : j # "extra"} |-> e[k]]
  BY <1>2 DEF RestrictDomain, Restrict
<1>4. /\ "confirm" \in DOMAIN told' <=> "confirm" \in DOMAIN e
      /\ "statusCode" \in DOMAIN e => told'["statusCode"] = e["statusCode"]
      /\ Obj(told', "output") = Obj(e, "output")
  BY <1>3 DEF Obj, Get
<1> QED BY <1>1, <1>4

\* The output of a scope that has none, and of one that has the documents D.
LEMMA OutputFacts ==
  ASSUME NEW scope
  PROVE  /\ DOMAIN scope \cap Outputs = {} => Filled(Only(scope, Outputs)) = Empty
         /\ \A k \in Outputs : \A D : DOMAIN scope \cap Outputs = {k} /\ scope[k] = List(D)
              => Filled(Only(scope, Outputs)) = Filled(k :> List(D))
<1> DEFINE out == Only(scope, Outputs)
<1>1. /\ DOMAIN out = DOMAIN scope \cap Outputs
      /\ \A k \in DOMAIN scope \cap Outputs : out[k] = scope[k]
  BY OnlyFacts
<1> HIDE DEF out
<1>2. /\ DOMAIN Filled(out) = {k \in DOMAIN out : Truthy(out[k])}
      /\ \A k \in DOMAIN Filled(out) : Filled(out)[k] = out[k]
      /\ Filled(out) = [k \in DOMAIN Filled(out) |-> out[k]]
      /\ Filled(Filled(out)) = Filled(out)
      /\ DOMAIN Filled(out) = {} => Filled(out) = Empty
  BY FilledFacts
<1>3. ASSUME DOMAIN scope \cap Outputs = {}
      PROVE  Filled(out) = Empty
  BY <1>1, <1>2, <1>3
<1>4. ASSUME NEW k \in Outputs, NEW D, DOMAIN scope \cap Outputs = {k}, scope[k] = List(D)
      PROVE  Filled(out) = Filled(k :> List(D))
  <2> DEFINE one == k :> List(D)
  <2>1. DOMAIN one = {k} /\ one[k] = List(D)
    BY Single
  <2> HIDE DEF one
  <2>2. /\ DOMAIN Filled(one) = {j \in DOMAIN one : Truthy(one[j])}
        /\ \A j \in DOMAIN Filled(one) : Filled(one)[j] = one[j]
        /\ Filled(one) = [j \in DOMAIN Filled(one) |-> one[j]]
        /\ Filled(Filled(one)) = Filled(one)
        /\ DOMAIN Filled(one) = {} => Filled(one) = Empty
    BY FilledFacts
  <2>3. DOMAIN out = DOMAIN one /\ \A j \in DOMAIN one : out[j] = one[j]
    BY <1>1, <1>4, <2>1
  <2>4. DOMAIN Filled(out) = DOMAIN Filled(one)
    BY <1>2, <2>2, <2>3
  <2>5. Filled(out) = Filled(one)
    BY <1>2, <2>2, <2>3, <2>4
  <2> QED BY <2>5 DEF one
<1> QED BY <1>3, <1>4 DEF out

LEMMA NothingReported ==
  \A k \in Outputs : Filled(k :> List({})) = Empty
<1> TAKE k \in Outputs
<1> DEFINE one == k :> List({})
<1>1. DOMAIN one = {k} /\ one[k] = List({}) /\ ~ Truthy(List({}))
  BY Single, TruthyFacts
<1> HIDE DEF one
<1>2. /\ DOMAIN Filled(one) = {j \in DOMAIN one : Truthy(one[j])}
      /\ \A j \in DOMAIN Filled(one) : Filled(one)[j] = one[j]
      /\ Filled(one) = [j \in DOMAIN Filled(one) |-> one[j]]
      /\ Filled(Filled(one)) = Filled(one)
      /\ DOMAIN Filled(one) = {} => Filled(one) = Empty
  BY FilledFacts
<1>3. DOMAIN Filled(one) = {}
  BY <1>1, <1>2
<1> QED BY <1>2, <1>3 DEF one

\* What is told of a refusal.
LEMMA AnswerOfRefusal ==
  ASSUME NEW scope, NEW code \in {"400", "500"}, Respond(Refused(scope, code)),
         DOMAIN scope \cap Outputs = {}, given' = {}, served' = {}
  PROVE  AnswerAgrees' /\ told'["statusCode"] = Number(code)
<1> DEFINE done == Refused(scope, code)
<1>1. /\ DOMAIN done = {"userMessage", "statusCode", "eventStatus"} \cup DOMAIN scope
      /\ done["userMessage"] = Text("message")
      /\ done["statusCode"] = Number(code)
  BY RefusedFacts
<1>2. Respond(done)
  OBVIOUS
<1> HIDE DEF done
<1>3. Get(done, "statusCode", Number("200")) = Number(code)
  BY <1>1 DEF Get
<1>4. Truthy(Number(code)) /\ Truthy(Text("message")) /\ Number(code) # Number("200")
  BY TruthyFacts
<1>5. /\ told'["statusCode"] = Number(code)
      /\ "confirm" \in DOMAIN told'
      /\ Obj(told', "output") = Filled(Only(done, Outputs))
  BY <1>1, <1>2, <1>3, <1>4, ResponseFacts
<1>6. DOMAIN done \cap Outputs = {}
  BY <1>1 DEF Outputs
<1>7. Obj(told', "output") = Empty
  BY <1>5, <1>6, OutputFacts
<1>8. Filled(Reported') = Empty
  BY NothingReported DEF Reported, Outputs
<1> QED BY <1>4, <1>5, <1>7, <1>8 DEF AnswerAgrees

\* What is told of a success: the documents D.
LEMMA AnswerOfSuccess ==
  ASSUME NEW scope, NEW k \in Outputs, NEW D, Respond(scope), DOMAIN scope \cap Outputs = {k}, scope[k] = List(D),
         Get(scope, "statusCode", Number("200")) = Number("200"), "userMessage" \notin DOMAIN scope
  PROVE  /\ told'["statusCode"] = Number("200") /\ "confirm" \notin DOMAIN told'
         /\ Obj(told', "output") = Filled(k :> List(D))
<1>1. Truthy(Number("200"))
  BY TruthyFacts
<1>2. Truthy(Get(scope, "statusCode", Number("200")))
  BY <1>1
<1> QED BY <1>2, ResponseFacts, OutputFacts

\* What is told of the humans that a request is for.
LEMMA AnswerOfServe ==
  ASSUME PlainContexts, Flow, stage \in {"find", "remove", "insert"}, NEW D, NEW H, Serve(D, H)
  PROVE  /\ told'["statusCode"] = Number("200") /\ "confirm" \notin DOMAIN told'
         /\ Obj(told', "output") = Filled("humans" :> List(H))
<1> DEFINE one == "humans" :> List(H)
           scope == one @@ http
<1>1. DOMAIN one = {"humans"} /\ one["humans"] = List(H)
  BY Single
<1>2. Respond(scope)
  BY DEF Serve
<1> HIDE DEF one
<1>3. /\ DOMAIN (one @@ http) = DOMAIN one \cup DOMAIN http
      /\ \A j \in DOMAIN one : (one @@ http)[j] = one[j]
      /\ \A j \in DOMAIN http \ DOMAIN one : (one @@ http)[j] = http[j]
  <2>1. Merges(one @@ http, one, http)
    BY Merged
  <2> QED BY <2>1 DEF Merges
<1>4. DOMAIN http \cap (Outputs \cup {"userMessage", "statusCode"}) = {}
  BY KeysOfHttp DEF Reserved, Outputs
<1>5. "humans" \in Outputs /\ Outputs \cap {"userMessage", "statusCode"} = {}
  BY DEF Outputs
<1>6. /\ DOMAIN scope \cap Outputs = {"humans"} /\ scope["humans"] = List(H)
      /\ "statusCode" \notin DOMAIN scope /\ "userMessage" \notin DOMAIN scope
  BY <1>1, <1>3, <1>4, <1>5
<1> HIDE DEF scope
<1>7. Get(scope, "statusCode", Number("200")) = Number("200")
  BY <1>6 DEF Get
<1> QED BY <1>2, <1>5, <1>6, <1>7, AnswerOfSuccess

\* A request that is answered before a greeting is inserted or humans are served.
LEMMA EarlyAnswer ==
  ASSUME PlainContexts, Flow, stage \notin {"requested", "told"}, given = {}, UNCHANGED <<given, served>>,
         NEW code \in {"400", "500"}, Respond(Refused(http, code))
  PROVE  AnswerAgrees' /\ told'["statusCode"] = Number(code)
<1>1. DOMAIN http \cap Outputs = {}
  BY KeysOfHttp DEF Reserved, Outputs
<1>2. served' = {}
  BY DEF Flow
<1> QED BY <1>1, <1>2, AnswerOfRefusal

LEMMA AnswerSteps ==
  ASSUME PlainContexts, Flow, AnswerAgrees, [Next]_vars
  PROVE  AnswerAgrees'
<1>1. ASSUME stage' # "told"
      PROVE  AnswerAgrees'
  BY <1>1 DEF AnswerAgrees
<1>2. CASE UNCHANGED vars
  BY <1>2 DEF vars, AnswerAgrees, Reported, Greets
<1>3. CASE stage = "told"
  BY <1>2, <1>3, ToldIsLast
<1>4. CASE stage # "told" /\ ParseRequest
  <2>1. stage = "requested" /\ given = {} /\ served = {}
    BY <1>4 DEF ParseRequest, Flow
  <2>2. request \in Requests
    BY DEF Flow
  <2>3. \/ stage' = IF Greets THEN "verifying producer" ELSE request.method
        \/ Respond(Refused(Empty, "400")) /\ UNCHANGED <<given, served>>
    BY <1>4, <2>2, ParseSteps DEF Unchanged
  <2>4. CASE Respond(Refused(Empty, "400")) /\ UNCHANGED <<given, served>>
    BY <2>1, <2>4, EmptyFacts, AnswerOfRefusal
  <2>5. CASE stage' = IF Greets THEN "verifying producer" ELSE request.method
    <3>1. request.method \in {"greetHuman", "greetRobot", "find", "insert", "remove"}
      BY <2>2, ScopeAssumption
    <3> QED BY <1>1, <2>5, <3>1
  <2> QED BY <2>3, <2>4, <2>5
<1>5. CASE RefuseGive
  BY <1>5, EarlyAnswer DEF RefuseGive, Unchanged, Flow
<1>6. CASE VerifyProducer
  <2>1. /\ stage = "verifying producer" /\ given = {} /\ UNCHANGED <<given, served>>
        /\ stage' = "verifying receiver" \/ Respond(Refused(http, "400"))
    BY <1>6, VerifySteps DEF CountedHere, Unchanged, Flow
  <2> QED BY <1>1, <2>1, EarlyAnswer
<1>7. CASE VerifyReceiver
  <2>1. /\ stage = "verifying receiver" /\ given = {} /\ UNCHANGED <<given, served>>
        /\ stage' \in {"giving", "sent"} \/ Respond(Refused(http, "400"))
    BY <1>7, VerifySteps DEF CountedHere, Send, Unchanged, Flow
  <2> QED BY <1>1, <2>1, EarlyAnswer
<1>8. CASE CallInsert
  BY <1>1, <1>8, VerifySteps DEF Send
<1>9. CASE FindHumans \/ RemoveHuman \/ InsertHuman
  <2>0. stage \in {"find", "remove", "insert"} /\ \E D, H : Serve(D, H)
    BY <1>9 DEF FindHumans, RemoveHuman, InsertHuman
  <2>1. PICK D, H : /\ stage \in {"find", "remove", "insert"}
                    /\ Serve(D, H)
    BY <2>0
  <2>2. ~ Greets /\ given = {}
    BY <2>1 DEF Flow, Serves, Greets
  <2>3. served' = H /\ given' = {} /\ ~ Greets'
    BY <2>1, <2>2 DEF Serve, Greets
  <2>4. Reported' = "humans" :> List(H)
    BY <2>3 DEF Reported
  <2> QED BY <2>1, <2>3, <2>4, AnswerOfServe DEF AnswerAgrees
<1>10. CASE \E code \in {"400", "500"} : OperationFails(code)
  <2>1. PICK code \in {"400", "500"} : OperationFails(code)
    BY <1>10
  <2>2. /\ stage \in {"find", "insert", "remove"} /\ given = {} /\ UNCHANGED <<given, served>>
        /\ Respond(Refused(http, code))
    BY <2>1 DEF OperationFails, Unchanged, Flow
  <2> QED BY <2>2, EarlyAnswer
<1>11. CASE ReturnCount
  <2>1. /\ stage = "executed" /\ callee = "Robot" /\ UNCHANGED <<given, served>>
        /\ stage' = "giving" \/ Respond(Refused(http, "400"))
    BY <1>11 DEF ReturnCount, Unchanged
  <2>2. given = {}
    BY <2>1, CallEnds DEF Failed, CountedRobots, InsertedGreeting
  <2> QED BY <1>1, <2>1, <2>2, EarlyAnswer
<1>12. CASE ReturnInsert
  <2> DEFINE scope == Parsed @@ http
  <2>1. /\ stage = "executed" /\ callee = "Greeting" /\ UNCHANGED <<request, given, served>>
        /\ Respond(scope)
    BY <1>12 DEF ReturnInsert, Unchanged
  <2>2. Greets /\ served = {} /\ Greets'
    BY <2>1 DEF Flow, Serves, Stages, Greets
  <2>3. DOMAIN http \cap (Outputs \cup {"userMessage", "statusCode"}) = {}
    BY <2>1, KeysOfHttp DEF Reserved, Outputs
  <2>4. /\ DOMAIN (Parsed @@ http) = DOMAIN Parsed \cup DOMAIN http
        /\ \A j \in DOMAIN Parsed : (Parsed @@ http)[j] = Parsed[j]
        /\ \A j \in DOMAIN http \ DOMAIN Parsed : (Parsed @@ http)[j] = http[j]
    <3>1. Merges(Parsed @@ http, Parsed, http)
      BY Merged
    <3> QED BY <3>1 DEF Merges
  <2>5. /\ "statusCode" \in DOMAIN Parsed /\ Parsed["statusCode"] = event["statusCode"]
        /\ Failed \/ InsertedGreeting
    BY <2>1, CallEnds DEF CountedRobots
  <2>6. Get(scope, "statusCode", Number("200")) = event["statusCode"]
    BY <2>4, <2>5 DEF Get
  <2>7. /\ "userMessage" \in DOMAIN scope <=> "userMessage" \in DOMAIN Parsed
        /\ "userMessage" \in DOMAIN Parsed => scope["userMessage"] = Parsed["userMessage"]
        /\ DOMAIN scope \cap Outputs = DOMAIN Parsed \cap Outputs
        /\ \A k \in DOMAIN Parsed : scope[k] = Parsed[k]
    BY <2>3, <2>4
  <2> HIDE DEF scope
  <2>8. CASE Failed
    <3>1. PICK code \in {"400", "500"} : event["statusCode"] = Number(code)
      BY <2>8 DEF Failed
    <3>2. Truthy(Number(code)) /\ Number(code) # Number("200")
      BY TruthyFacts
    <3>3. /\ given = {} /\ "userMessage" \in DOMAIN Parsed /\ DOMAIN Parsed \cap Outputs = {}
      BY <2>8 DEF Failed
    <3>4. Truthy(Parsed["userMessage"])
      <4>1. IsPruned(Parsed)
        BY PrunedObjects DEF Parsed, FlattenEventObj
      <4> QED BY <3>3, <4>1 DEF IsPruned, Nested, Strings
    <3>5. /\ told'["statusCode"] = Number(code) /\ "confirm" \in DOMAIN told'
          /\ Obj(told', "output") = Filled(Only(scope, Outputs))
      BY <2>1, <2>6, <2>7, <3>1, <3>2, <3>3, <3>4, ResponseFacts
    <3>6. Obj(told', "output") = Empty
      BY <2>7, <3>3, <3>5, OutputFacts
    <3>7. given' = {} /\ served' = {}
      BY <2>1, <2>2, <3>3
    <3>8. Filled(Reported') = Empty
      BY <3>7, NothingReported DEF Reported, Outputs
    <3> QED BY <3>2, <3>5, <3>6, <3>7, <3>8 DEF AnswerAgrees
  <2>9. CASE InsertedGreeting
    <3>1. PICK g : given = {g} /\ Parsed["greetings"] = List({g})
      BY <2>9 DEF InsertedGreeting
    <3>2. /\ event["statusCode"] = Number("200") /\ "userMessage" \notin DOMAIN Parsed
          /\ DOMAIN Parsed \cap Outputs = {"greetings"}
      BY <2>9 DEF InsertedGreeting
    <3>3. "greetings" \in Outputs /\ "greetings" \in DOMAIN Parsed
      BY <3>2
    <3>4. /\ told'["statusCode"] = Number("200") /\ "confirm" \notin DOMAIN told'
          /\ Obj(told', "output") = Filled("greetings" :> List({g}))
      BY <2>1, <2>6, <2>7, <3>1, <3>2, <3>3, AnswerOfSuccess
    <3>5. Reported' = "greetings" :> List({g}) /\ given' # {}
      BY <2>1, <2>2, <3>1 DEF Reported
    <3> QED BY <2>2, <3>4, <3>5 DEF AnswerAgrees
  <2> QED BY <2>5, <2>8, <2>9
<1>13. CASE ParseEvent
  BY <1>1, <1>13 DEF ParseEvent
<1>14. CASE ExecuteCount \/ ExecuteInsert \/ \E code \in {"400", "500"} : ExecuteFails(code)
  BY <1>1, <1>14 DEF ExecuteCount, ExecuteInsert, ExecuteFails, Finish
<1> QED
  BY <1>2, <1>3, <1>4, <1>5, <1>6, <1>7, <1>8, <1>9, <1>10, <1>11, <1>12, <1>13, <1>14 DEF Next

\* AnswerAgrees, of requests whose contexts are plain.
THEOREM AnswersAgree == ASSUME PlainContexts PROVE Spec => []AnswerAgrees
<1>1. Init => AnswerAgrees
  BY DEF Init, AnswerAgrees
<1>2. Flow /\ AnswerAgrees /\ [Next]_vars => AnswerAgrees'
  BY AnswerSteps
<1> QED BY <1>1, <1>2, FlowInvariant, PTL DEF Spec

-----------------------------------------------------------------------------
(* Why a request is refused.                                               *)

\* The causes that RefusedForCause names.
Cause ==
  \/ Greets /\ \E k \in {"producerId", "receiverId"} : Asked(k).type # "string" \/ ~ Truthy(Asked(k))
  \/ Greets /\ \A d \in docs : Get(d, "humanId", Text("")) # Asked("producerId")
  \/ Greets /\ \A d \in docs :
       Get(d, IF Receiver = "Human" THEN "humanId" ELSE "robotId", Text("")) # Asked("receiverId")
  \/ DOMAIN Paging(request.string) # {}
  \/ Greets /\ Get(request.string, "$skip", Text("0")) # Text("0")
  \/ request.method = "insert" /\ Duplicate
  \/ Get(event, "statusCode", Number("200")) # Number("200")

LEMMA CauseIs ==
  RefusedForCause <=>
    /\ stage = "told" /\ told.statusCode = Number("400") => Cause
    /\ Greets /\ stage = "told" /\ told.statusCode = Number("500") =>
         Get(event, "statusCode", Number("200")) = Number("500")
BY DEF RefusedForCause, Cause

LEMMA CauseStays ==
  ASSUME Cause, UNCHANGED <<request, docs, event, http>>
  PROVE  Cause'
<1>1. Duplicate' = Duplicate
  BY DEF Duplicate, SameHuman, Given, Selected
<1>2. Greets' = Greets /\ Receiver' = Receiver
  BY DEF Greets, Receiver
<1> QED BY <1>1, <1>2 DEF Cause, Asked

\* A step that refuses for a cause.
LEMMA RefusedStep ==
  ASSUME Cause, UNCHANGED <<request, docs, event, http>>, told'["statusCode"] = Number("400")
  PROVE  RefusedForCause'
<1>1. Cause'
  BY CauseStays
<1>2. Number("400") # Number("500")
  BY TruthyFacts
<1>3. (RefusedForCause <=>
        /\ stage = "told" /\ told.statusCode = Number("400") => Cause
        /\ Greets /\ stage = "told" /\ told.statusCode = Number("500") =>
             Get(event, "statusCode", Number("200")) = Number("500"))'
  BY CauseIs, PTL
<1> QED BY <1>1, <1>2, <1>3

\* A count of an id that is refused has a cause.
LEMMA CauseOfVerdict ==
  ASSUME PlainContexts, Flow, stage \in {"verifying producer", "verifying receiver"}, ValidGive(http),
         NEW key \in {"producerId", "receiverId"}, key = "receiverId" => Receiver = "Human",
         ~ Confirmed(Counted("Human", Counting("Human", http[key])))
  PROVE  Cause
<1>1. Greets /\ http = FlattenHttpRequest(request)
  BY DEF Flow, Serves, Stages
<1>2. \/ Get(http, "skip", Number("0")).text # "0"
      \/ ~ Exists("Human", http[key])
  BY <1>1, VerdictHere
<1>3. CASE Get(http, "skip", Number("0")).text # "0"
  <2>1. Number("0").text = "0"
    BY DEF Number
  <2>2. "skip" \in DOMAIN http
    BY <1>3, <2>1 DEF Get
  <2> QED BY <1>1, <2>2, NothingSkipped DEF Cause
<1>4. CASE ~ Exists("Human", http[key])
  <2>1. http[key] = Asked(key)
    BY <1>1, IdsOfRequest
  <2> QED BY <1>1, <1>4, <2>1 DEF Exists, IdName, Cause
<1> QED BY <1>2, <1>3, <1>4

\* The outcome of the insert is that of the request.
LEMMA CodeOfInsert ==
  ASSUME PlainContexts, Flow, ReturnInsert
  PROVE  "statusCode" \in DOMAIN event /\ told'["statusCode"] = event["statusCode"]
<1> DEFINE scope == Parsed @@ http
<1>1. stage = "executed" /\ Respond(scope)
  BY DEF ReturnInsert
<1>2. /\ "statusCode" \in DOMAIN event
      /\ "statusCode" \in DOMAIN Parsed /\ Parsed["statusCode"] = event["statusCode"]
      /\ Failed \/ CountedRobots \/ InsertedGreeting
  BY <1>1, CallEnds
<1>3. \E code \in {"200", "400", "500"} : event["statusCode"] = Number(code)
  BY <1>2 DEF Failed, CountedRobots, InsertedGreeting
<1>4. Truthy(event["statusCode"])
  BY <1>3, TruthyFacts
<1>5. /\ DOMAIN (Parsed @@ http) = DOMAIN Parsed \cup DOMAIN http
      /\ \A j \in DOMAIN Parsed : (Parsed @@ http)[j] = Parsed[j]
      /\ \A j \in DOMAIN http \ DOMAIN Parsed : (Parsed @@ http)[j] = http[j]
  <2>1. Merges(Parsed @@ http, Parsed, http)
    BY Merged
  <2> QED BY <2>1 DEF Merges
<1>6. Get(scope, "statusCode", Number("200")) = event["statusCode"]
  <2>1. "statusCode" \in DOMAIN scope /\ scope["statusCode"] = event["statusCode"]
    BY <1>2, <1>5
  <2> HIDE DEF scope
  <2> QED BY <2>1 DEF Get
<1> HIDE DEF scope
<1> QED BY <1>1, <1>2, <1>4, <1>6, ResponseFacts

LEMMA CauseSteps ==
  ASSUME PlainContexts, Flow, Verified, RefusedForCause, [Next]_vars
  PROVE  RefusedForCause'
<1>1. ASSUME stage' # "told"
      PROVE  RefusedForCause'
  BY <1>1 DEF RefusedForCause
<1>2. CASE stage = "told"
  <2>1. UNCHANGED <<request, docs, event, http, stage, told>>
    BY <1>2, ToldIsLast DEF vars
  <2>2. Greets' = Greets
    BY <2>1 DEF Greets
  <2>3. (RefusedForCause <=>
          /\ stage = "told" /\ told.statusCode = Number("400") => Cause
          /\ Greets /\ stage = "told" /\ told.statusCode = Number("500") =>
               Get(event, "statusCode", Number("200")) = Number("500"))'
    BY CauseIs, PTL
  <2> QED BY <2>1, <2>2, <2>3, CauseIs, CauseStays
<1>3. CASE ParseRequest
  <2>1. request \in Requests /\ stage = "requested" /\ given = {} /\ served = {}
    BY <1>3 DEF ParseRequest, Flow
  <2>2. CASE ValidDbOp(RequestQuery(request))
    <3>1. stage' = IF Greets THEN "verifying producer" ELSE request.method
      BY <1>3, <2>1, <2>2, ParseSteps
    <3>2. request.method \in {"greetHuman", "greetRobot", "find", "insert", "remove"}
      BY <2>1, ScopeAssumption
    <3> QED BY <1>1, <3>1, <3>2
  <2>3. CASE ~ ValidDbOp(RequestQuery(request))
    <3>1. /\ Respond(Refused(Empty, "400"))
          /\ UNCHANGED <<request, docs, event, http, given, served>>
      BY <1>3, <2>1, <2>3, ParseSteps DEF Unchanged
    <3>2. told'["statusCode"] = Number("400")
      BY <2>1, <3>1, EmptyFacts, AnswerOfRefusal
    <3>3. \E k \in {"limit", "skip"} : k \in DOMAIN Paging(request.string)
      BY <2>3, InvalidOnlyByPaging DEF RequestQuery
    <3>4. Cause
      BY <3>3 DEF Cause
    <3> QED BY <3>1, <3>2, <3>4, RefusedStep
  <2> QED BY <2>2, <2>3
<1>4. CASE RefuseGive
  <2>1. /\ stage = "verifying producer" /\ ~ ValidGive(http) /\ given = {}
        /\ Respond(Refused(http, "400")) /\ UNCHANGED <<request, docs, event, http, given, served>>
    BY <1>4 DEF RefuseGive, Unchanged, Flow
  <2>2. told'["statusCode"] = Number("400")
    BY <2>1, EarlyAnswer
  <2>3. request \in Requests /\ Greets /\ http = FlattenHttpRequest(request)
    BY <2>1 DEF Flow, Serves, Stages
  <2>4. DOMAIN request.params = {"producerId", "receiverId"}
    BY <2>3, ScopeAssumption DEF Greets
  <2>5. PICK k \in {"producerId", "receiverId"} : k \notin DOMAIN http \/ http[k].type # "string"
    BY <2>1 DEF ValidGive
  <2>6. /\ k \in DOMAIN http <=> Truthy(Asked(k))
        /\ k \in DOMAIN http => http[k] = Asked(k)
    BY <2>3, <2>4, ScopeOfRequest DEF Asked
  <2>7. Cause
    BY <2>3, <2>5, <2>6 DEF Cause
  <2> QED BY <2>1, <2>2, <2>7, RefusedStep
<1>5. CASE VerifyProducer
  <2>1. /\ stage = "verifying producer" /\ ValidGive(http) /\ given = {}
        /\ \/ stage' = "verifying receiver"
           \/ /\ ~ Confirmed(Counted("Human", Counting("Human", http["producerId"])))
              /\ Respond(Refused(http, "400"))
        /\ UNCHANGED <<request, docs, event, http, given, served>>
    BY <1>5, VerifySteps DEF CountedHere, Unchanged, Flow
  <2>2. CASE /\ ~ Confirmed(Counted("Human", Counting("Human", http["producerId"])))
             /\ Respond(Refused(http, "400"))
    <3>1. told'["statusCode"] = Number("400")
      BY <2>1, <2>2, EarlyAnswer
    <3>2. Cause
      BY <2>1, <2>2, CauseOfVerdict
    <3> QED BY <2>1, <3>1, <3>2, RefusedStep
  <2> QED BY <1>1, <2>1, <2>2
<1>6. CASE VerifyReceiver
  <2>1. stage = "verifying receiver"
    BY <1>6, VerifySteps
  <2>2. ValidGive(http) /\ given = {}
    BY <2>1 DEF Flow
  <2>3. \/ stage' \in {"giving", "sent"}
        \/ /\ Receiver = "Human"
           /\ ~ Confirmed(Counted("Human", Counting("Human", http["receiverId"])))
           /\ Respond(Refused(http, "400"))
           /\ UNCHANGED <<request, docs, event, http, given, served>>
    BY <1>6, VerifySteps DEF CountedHere, Send, Unchanged
  <2>4. CASE /\ Receiver = "Human"
             /\ ~ Confirmed(Counted("Human", Counting("Human", http["receiverId"])))
             /\ Respond(Refused(http, "400"))
             /\ UNCHANGED <<request, docs, event, http, given, served>>
    <3>1. told'["statusCode"] = Number("400")
      BY <2>1, <2>2, <2>4, EarlyAnswer
    <3>2. Cause
      BY <2>1, <2>2, <2>4, CauseOfVerdict
    <3> QED BY <2>4, <3>1, <3>2, RefusedStep
  <2> QED BY <1>1, <2>3, <2>4
<1>7. CASE CallInsert
  BY <1>1, <1>7, VerifySteps DEF Send
<1>8. CASE FindHumans \/ RemoveHuman \/ InsertHuman
  <2>1. stage \in {"find", "remove", "insert"} /\ \E D, H : Serve(D, H)
    BY <1>8 DEF FindHumans, RemoveHuman, InsertHuman
  <2>2. told'["statusCode"] = Number("200")
    BY <2>1, AnswerOfServe
  <2>3. Number("200") # Number("400") /\ Number("200") # Number("500")
    BY TruthyFacts
  <2> QED BY <2>2, <2>3 DEF RefusedForCause
<1>9. CASE \E code \in {"400", "500"} : OperationFails(code)
  <2>1. PICK code \in {"400", "500"} : OperationFails(code)
    BY <1>9
  <2>2. /\ stage \in {"find", "insert", "remove"} /\ stage = request.method /\ given = {}
        /\ code = "400" => stage = "insert" /\ Duplicate
        /\ Respond(Refused(http, code))
        /\ UNCHANGED <<request, docs, event, http, given, served>>
    BY <2>1 DEF OperationFails, Unchanged, Flow, Serves
  <2>3. told'["statusCode"] = Number(code)
    BY <2>2, EarlyAnswer
  <2>4. CASE code = "400"
    <3>1. Cause
      BY <2>2, <2>4 DEF Cause
    <3> QED BY <2>2, <2>3, <2>4, <3>1, RefusedStep
  <2>5. CASE code = "500"
    <3>1. ~ Greets'
      BY <2>2 DEF Greets
    <3>2. Number("500") # Number("400")
      BY TruthyFacts
    <3> QED BY <2>3, <2>5, <3>1, <3>2 DEF RefusedForCause
  <2> QED BY <2>4, <2>5
<1>10. CASE ReturnCount
  <2>1. /\ stage = "executed" /\ callee = "Robot"
        /\ UNCHANGED <<request, docs, event, http, given, served>>
        /\ \/ stage' = "giving"
           \/ /\ ~ Confirmed(Get(Parsed, "robots", Text("none")))
              /\ Respond(Refused(http, "400"))
    BY <1>10 DEF ReturnCount, Unchanged
  <2>2. CASE /\ ~ Confirmed(Get(Parsed, "robots", Text("none")))
             /\ Respond(Refused(http, "400"))
    <3>1. given = {} /\ "statusCode" \in DOMAIN event
      BY <2>1, CallEnds DEF Failed, CountedRobots, InsertedGreeting
    <3>2. told'["statusCode"] = Number("400")
      BY <2>1, <2>2, <3>1, EarlyAnswer
    <3>3. Greets /\ Receiver = "Robot" /\ http = FlattenHttpRequest(request) /\ ValidGive(http)
      BY <2>1 DEF Flow, Serves, Calls, Stages
    <3>4. Failed \/ ~ Exists("Robot", http["receiverId"])
      BY <2>1, <2>2, VerdictOfHost
    <3>5. CASE Failed
      <4>1. PICK code \in {"400", "500"} : event["statusCode"] = Number(code)
        BY <3>5 DEF Failed
      <4>2. Number(code) # Number("200")
        BY TruthyFacts
      <4>3. Get(event, "statusCode", Number("200")) # Number("200")
        BY <3>1, <4>1, <4>2 DEF Get
      <4>4. Cause
        BY <4>3 DEF Cause
      <4> QED BY <2>1, <3>2, <4>4, RefusedStep
    <3>6. CASE ~ Exists("Robot", http["receiverId"])
      <4>1. http["receiverId"] = Asked("receiverId")
        BY <3>3, IdsOfRequest
      <4>2. Cause
        BY <3>3, <3>6, <4>1 DEF Exists, IdName, Cause
      <4> QED BY <2>1, <3>2, <4>2, RefusedStep
    <3> QED BY <3>4, <3>5, <3>6
  <2> QED BY <1>1, <2>1, <2>2
<1>11. CASE ReturnInsert
  <2>1. /\ stage = "executed" /\ callee = "Greeting" /\ UNCHANGED <<request, docs, event, http>>
    BY <1>11 DEF ReturnInsert, Unchanged
  <2>2. "statusCode" \in DOMAIN event /\ told'["statusCode"] = event["statusCode"]
    BY <1>11, CodeOfInsert
  <2>3. Get(event, "statusCode", Number("200")) = told'["statusCode"]
    BY <2>2 DEF Get
  <2>4. CASE told'["statusCode"] = Number("400")
    <3>1. Number("400") # Number("200")
      BY TruthyFacts
    <3>2. Cause
      BY <2>3, <2>4, <3>1 DEF Cause
    <3> QED BY <2>1, <2>4, <3>2, RefusedStep
  <2>5. CASE told'["statusCode"] # Number("400")
    BY <2>1, <2>3, <2>5 DEF RefusedForCause
  <2> QED BY <2>4, <2>5
<1>12. CASE ParseEvent
  BY <1>1, <1>12 DEF ParseEvent
<1>13. CASE ExecuteCount \/ ExecuteInsert \/ \E code \in {"400", "500"} : ExecuteFails(code)
  BY <1>1, <1>13 DEF ExecuteCount, ExecuteInsert, ExecuteFails, Finish
<1>14. CASE UNCHANGED vars
  BY <1>1, <1>2, <1>14 DEF vars
<1> QED
  BY <1>3, <1>4, <1>5, <1>6, <1>7, <1>8, <1>9, <1>10, <1>11, <1>12, <1>13, <1>14 DEF Next

\* RefusedForCause, of requests whose contexts are plain.
THEOREM RefusalsHaveCause == ASSUME PlainContexts PROVE Spec => []RefusedForCause
<1>1. Init => RefusedForCause
  BY DEF Init, RefusedForCause
<1>2. Flow /\ Verified /\ RefusedForCause /\ [Next]_vars => RefusedForCause'
  BY CauseSteps
<1> QED BY <1>1, <1>2, VerifiedInvariant, PTL DEF Spec

-----------------------------------------------------------------------------
(* Which humans a request is for.                                          *)

LEMMA SelectedByPath ==
  ASSUME NEW r \in Requests, DOMAIN r.context \cap Reserved = {}, "humanId" \in DOMAIN r.params,
         "humanId" \notin DOMAIN Obj(r.string, "criteria"),
         NEW d \in Selected("Human", FlattenHttpRequest(r))
  PROVE  d["humanId"] = r.params["humanId"]
<1> DEFINE H == FlattenHttpRequest(r)
           q == RequestQuery(r)
           criteria == q.criteria
<1>1. Obj(H, "criteria") = Filled(criteria)
  BY ScopeOfRequest
<1>2. criteria = IF DOMAIN r.string = {} THEN r.params ELSE Obj(r.string, "criteria") @@ r.params
  <2> DEFINE p == ParsedDbOp(r.string, r.params)
  <2>1. p.criteria = IF DOMAIN r.string = {} THEN r.params
                     ELSE Obj(r.string, "criteria") @@ r.params
    BY QueryFacts
  <2> QED BY <2>1 DEF RequestQuery
<1> HIDE DEF H, criteria
<1>3. "humanId" \in DOMAIN criteria /\ criteria["humanId"] = r.params["humanId"]
  <2> DEFINE own == Obj(r.string, "criteria")
             path == r.params
  <2>1. "humanId" \notin DOMAIN own /\ "humanId" \in DOMAIN path
    OBVIOUS
  <2>2. criteria = path \/ criteria = own @@ path
    BY <1>2
  <2> HIDE DEF own, path
  <2>3. /\ DOMAIN (own @@ path) = DOMAIN own \cup DOMAIN path
        /\ \A k \in DOMAIN own : (own @@ path)[k] = own[k]
        /\ \A k \in DOMAIN path \ DOMAIN own : (own @@ path)[k] = path[k]
    <3>1. Merges(own @@ path, own, path)
      BY Merged
    <3> QED BY <3>1 DEF Merges
  <2>4. "humanId" \in DOMAIN criteria /\ criteria["humanId"] = path["humanId"]
    BY <2>1, <2>2, <2>3
  <2> QED BY <2>4 DEF path
<1>4. Truthy(r.params["humanId"])
  BY ScopeAssumption
<1>5. /\ DOMAIN Filled(criteria) = {k \in DOMAIN criteria : Truthy(criteria[k])}
      /\ \A k \in DOMAIN Filled(criteria) : Filled(criteria)[k] = criteria[k]
      /\ Filled(criteria) = [k \in DOMAIN Filled(criteria) |-> criteria[k]]
      /\ Filled(Filled(criteria)) = Filled(criteria)
      /\ DOMAIN Filled(criteria) = {} => Filled(criteria) = Empty
  BY FilledFacts
<1>6. "humanId" \in DOMAIN Obj(H, "criteria") /\ Obj(H, "criteria")["humanId"] = r.params["humanId"]
  BY <1>1, <1>3, <1>4, <1>5
<1>7. H.criteria = Obj(H, "criteria")
  BY <1>6, EmptyFacts DEF Obj, Get
<1>8. "humanId" \in DOMAIN d
  BY DEF Selected, IdKeys
<1>9. Get(d, "humanId", Text("")) = H.criteria["humanId"]
  BY <1>6 DEF Selected, H
<1> QED BY <1>6, <1>7, <1>8, <1>9 DEF Get

LEMMA NamedSteps ==
  ASSUME PlainContexts, Flow, NamedByPath, [Next]_vars
  PROVE  NamedByPath'
<1>1. ASSUME UNCHANGED <<request, served>>
      PROVE  NamedByPath'
  BY <1>1 DEF NamedByPath
<1>2. ASSUME NEW D, NEW H, stage \in {"find", "remove"}, Serve(D, H), H \subseteq Selected("Human", http)
      PROVE  NamedByPath'
  <2>1. /\ request \in Requests /\ http = FlattenHttpRequest(request)
        /\ UNCHANGED request /\ served' = H
    BY <1>2 DEF Serve, Flow
  <2>2. DOMAIN request.context \cap Reserved = {}
    BY <2>1 DEF PlainContexts
  <2>3. CASE "humanId" \in DOMAIN request.params /\ "humanId" \notin DOMAIN Obj(request.string, "criteria")
    BY <1>2, <2>1, <2>2, <2>3, SelectedByPath DEF NamedByPath
  <2>4. CASE "humanId" \notin DOMAIN request.params \/ "humanId" \in DOMAIN Obj(request.string, "criteria")
    BY <2>1, <2>4 DEF NamedByPath
  <2> QED BY <2>3, <2>4
<1>3. CASE ParseRequest
  BY <1>1, <1>3 DEF ParseRequest, Unchanged
<1>4. CASE RefuseGive
  BY <1>1, <1>4 DEF RefuseGive, Unchanged
<1>5. CASE VerifyProducer
  BY <1>1, <1>5, VerifySteps DEF CountedHere, Unchanged
<1>6. CASE VerifyReceiver
  BY <1>1, <1>6, VerifySteps DEF CountedHere, Send, Unchanged
<1>7. CASE CallInsert
  BY <1>1, <1>7, VerifySteps DEF Send, Unchanged
<1>8. CASE FindHumans
  BY <1>2, <1>8 DEF FindHumans, Paged
<1>9. CASE RemoveHuman
  <2>1. CASE \E d \in Selected("Human", http) : Serve(docs \ {d}, {d})
    BY <1>2, <1>9, <2>1 DEF RemoveHuman
  <2>2. CASE Serve(docs, {})
    BY <1>2, <1>9, <2>2 DEF RemoveHuman
  <2> QED BY <1>9, <2>1, <2>2 DEF RemoveHuman
<1>10. CASE InsertHuman
  <2>1. request.method = "insert" /\ UNCHANGED request
    BY <1>10 DEF InsertHuman, Serve, Flow, Serves
  <2> QED BY <2>1 DEF NamedByPath
<1>11. CASE \E code \in {"400", "500"} : OperationFails(code)
  BY <1>1, <1>11 DEF OperationFails, Unchanged
<1>12. CASE ReturnCount
  BY <1>1, <1>12 DEF ReturnCount, Unchanged
<1>13. CASE ReturnInsert
  BY <1>1, <1>13 DEF ReturnInsert, Unchanged
<1>14. CASE ParseEvent
  BY <1>1, <1>14 DEF ParseEvent, Unchanged
<1>15. CASE ExecuteCount \/ ExecuteInsert \/ \E code \in {"400", "500"} : ExecuteFails(code)
  BY <1>1, <1>15 DEF ExecuteCount, ExecuteInsert, ExecuteFails, Finish, Unchanged
<1>16. CASE UNCHANGED vars
  BY <1>1, <1>16 DEF vars
<1> QED
  BY <1>3, <1>4, <1>5, <1>6, <1>7, <1>8, <1>9, <1>10, <1>11, <1>12, <1>13, <1>14, <1>15, <1>16 DEF Next

\* NamedByPath, of requests whose contexts are plain.
THEOREM ServedAreNamed == ASSUME PlainContexts PROVE Spec => []NamedByPath
<1>1. Init => NamedByPath
  BY DEF Init, NamedByPath
<1>2. Flow /\ NamedByPath /\ [Next]_vars => NamedByPath'
  BY NamedSteps
<1> QED BY <1>1, <1>2, FlowInvariant, PTL DEF Spec
=============================================================================
