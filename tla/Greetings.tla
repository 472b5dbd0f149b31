------------------------------- MODULE Greetings -------------------------------
(***************************************************************************)
(* Greetings between Humans and Robots: the requests greetHuman and        *)
(* greetRobot, which logicalHandlers/give.js serves, against the removals  *)
(* and inserts of the documents they are about.                            *)
(*                                                                         *)
(* The process that takes a request hosts the model of the producer.  It   *)
(* counts the producer in its own collection, the receiver in its own or   *)
(* by a remote call of count, and gives the greeting by a remote call of   *)
(* Greeting.insert.  The remote calls keep the promise of RemoteCall,      *)
(* which EventFlow is proved to keep: they may be executed again, answer   *)
(* late, and answer after they failed.  A restart of the process is a      *)
(* request that takes no further step.                                     *)
(***************************************************************************)
EXTENDS Naturals, FiniteSets, Sequences

CONSTANTS
  Humans,     \* humanIds
  Robots,     \* robotIds
  Requests,   \* HTTP requests, each one call of greetHuman or greetRobot
  MaxRuns,    \* bound: executions of Greeting.insert
  MaxRemovals \* bound: documents removed

OK == 200
Rejected == 400
Failed == 500
Error == 0      \* a callback was given an Error
Codes == {OK, Rejected, Failed}

ASSUME GreetingsAssumption ==
  /\ MaxRuns \in Nat /\ MaxRemovals \in Nat
  /\ Humans \cap Robots = {}

VARIABLES
  docs,        \* ids of the Human and Robot documents
  greetings,   \* Greeting documents
  removals,    \* documents removed so far
  indexed,     \* TRUE iff the collection has its unique index
  stage,       \* stage[r]: where the solution of request r is
  producer,    \* producer[r]: producerId of the request
  receiver,    \* receiver[r]: receiverId of the request
  response,    \* response[r]: status code the client got, 0 if none
  counted,     \* counted[r]: what executions of the remote count ended with
  toldCount,   \* toldCount[r]: what its callback was given
  inserted,    \* inserted[r]: what executions of Greeting.insert ended with
  toldInsert,  \* toldInsert[r]: what its callback was given
  begun,       \* executions of Greeting.insert, numbered in the order they began
  upserting,   \* executions that found no greeting and are about to insert one
  \* history
  seen,        \* seen[r]: documents that existed at some time since r was posted
  given        \* executions that inserted a greeting

request == <<stage, producer, receiver, response>>
counting == <<counted, toldCount>>
inserting == <<inserted, toldInsert, begun, upserting>>
vars == <<docs, greetings, removals, indexed, request, counting, inserting, seen, given>>

Things == Humans \cup Robots
Stages == {"new", "producer", "receiver", "refused", "inserting", "answered"}
Runs == Requests \X (1 .. MaxRuns)
Greetings == [id : Runs, producer : Things, receiver : Things]
Answers == {s \in Seq(Codes \cup {Error}) : Len(s) <= 2}

TypeOK ==
  /\ docs \subseteq Things
  /\ greetings \subseteq Greetings
  /\ removals \in 0 .. MaxRemovals
  /\ indexed \in BOOLEAN
  /\ stage \in [Requests -> Stages]
  /\ producer \in [Requests -> Things]
  /\ receiver \in [Requests -> Things]
  /\ response \in [Requests -> Codes \cup {0}]
  /\ counted \in [Requests -> SUBSET Codes]
  /\ toldCount \in [Requests -> Answers]
  /\ inserted \in [Requests -> SUBSET Codes]
  /\ toldInsert \in [Requests -> Answers]
  /\ begun \subseteq Runs
  /\ upserting \subseteq Runs
  /\ seen \in [Requests -> SUBSET Things]
  /\ given \subseteq Runs

\* The remote calls: count of the model of the receiver, and Greeting.insert.
Count == INSTANCE RemoteCall WITH
  Calls <- Requests, outcomes <- counted, told <- toldCount
Insert == INSTANCE RemoteCall WITH
  Calls <- Requests, outcomes <- inserted, told <- toldInsert

Init ==
  /\ docs = {} /\ greetings = {} /\ removals = 0 /\ indexed = FALSE
  /\ stage = [r \in Requests |-> "new"]
  /\ producer \in [Requests -> Things]
  /\ receiver \in [Requests -> Things]
  /\ response = [r \in Requests |-> 0]
  /\ Count!Init /\ Insert!Init
  /\ begun = {}
  /\ upserting = {}
  /\ seen = [r \in Requests |-> {}]
  /\ given = {}

-----------------------------------------------------------------------------
(* The documents the greetings are about.                                  *)

\* Human.insert or Robot.insert.
AddThing(t) ==
  /\ t \notin docs
  /\ docs' = docs \cup {t}
  /\ seen' = [r \in Requests |-> IF stage[r] = "new" THEN {} ELSE seen[r] \cup {t}]
  /\ UNCHANGED <<greetings, removals, indexed, request, counting, inserting, given>>

Remove == removals < MaxRemovals /\ removals' = removals + 1

\* Human.remove or Robot.remove: nothing but the document goes.
RemoveThing(t) ==
  /\ t \in docs
  /\ Remove
  /\ docs' = docs \ {t}
  /\ UNCHANGED <<greetings, indexed, request, counting, inserting, seen, given>>

\* Greeting.remove, by greetingId.
RemoveGreeting(g) ==
  /\ Remove
  /\ greetings' = greetings \ {g}
  /\ UNCHANGED <<docs, indexed, request, counting, inserting, seen, given>>

-----------------------------------------------------------------------------
(* A request: give.                                                        *)

\* Only the first response reaches the client: res.json throws after that.
Respond(r, code) == response' = [response EXCEPT ![r] = IF @ = 0 THEN code ELSE @]

Enter(r, s) == stage' = [stage EXCEPT ![r] = s]

\* greetHuman is sent to a host of Human and counts there; so does greetRobot
\* of a Robot.
Local(r) == {producer[r], receiver[r]} \subseteq Humans \/ {producer[r], receiver[r]} \subseteq Robots

\* Mutant: whatever the count, next is called without an Error.
MutantVerdict(t) == OK

\* What verifyIds makes of the count of the documents with an id.
Verdict(t) == IF t \in docs THEN OK ELSE Rejected

Post(r) ==
  /\ stage[r] = "new"
  /\ Enter(r, "producer")
  /\ seen' = [seen EXCEPT ![r] = docs]
  /\ UNCHANGED <<docs, greetings, removals, indexed, producer, receiver, response, counting, inserting, given>>

\* Mutant: a Reject is answered, and the next step runs all the same.
MutantProceed(r, code, s) ==
  /\ Enter(r, s)
  /\ IF code = OK THEN UNCHANGED response ELSE Respond(r, code)

\* The step after a verification runs, or its Reject is answered.
Proceed(r, code, s) ==
  IF code = OK THEN Enter(r, s) /\ UNCHANGED response
               ELSE Enter(r, "refused") /\ Respond(r, code)

VerifyProducer(r) ==
  /\ stage[r] = "producer"
  /\ Proceed(r, Verdict(producer[r]), "receiver")
  /\ UNCHANGED <<docs, greetings, removals, indexed, producer, receiver, counting, inserting, seen, given>>

VerifyReceiver(r) ==
  /\ stage[r] = "receiver"
  /\ Local(r)
  /\ Proceed(r, Verdict(receiver[r]), "inserting")
  /\ UNCHANGED <<docs, greetings, removals, indexed, producer, receiver, counting, inserting, seen, given>>

\* The database fails during a count of the process itself.
VerifyFails(r) ==
  /\ stage[r] = "producer" \/ (stage[r] = "receiver" /\ Local(r))
  /\ Proceed(r, Failed, "refused")
  /\ UNCHANGED <<docs, greetings, removals, indexed, producer, receiver, counting, inserting, seen, given>>

-----------------------------------------------------------------------------
(* The remote count of the receiver.                                       *)

Counting(r) == stage[r] = "receiver" /\ ~ Local(r)

\* A host of the model of the receiver counts.  Executions after the answer
\* change nothing and are left out.
ExecuteCount(r) ==
  /\ Counting(r)
  /\ Count!Execute(r, Verdict(receiver[r]))
  /\ UNCHANGED <<docs, greetings, removals, indexed, request, inserting, seen, given>>

ReplyCount(r, code) ==
  /\ Counting(r)
  /\ Count!Reply(r, code)
  /\ Proceed(r, code, "inserting")
  /\ UNCHANGED <<docs, greetings, removals, indexed, producer, receiver, inserting, seen, given>>

\* The call fails, and the client is told.  The result handler stays, so that a
\* late reply may still resume the solution.
FailCount(r) ==
  /\ Counting(r)
  /\ Count!Fail({r})
  /\ Respond(r, Failed)
  /\ UNCHANGED <<docs, greetings, removals, indexed, stage, producer, receiver, inserting, seen, given>>

-----------------------------------------------------------------------------
(* The host of Greeting: insert, an upsert by all four properties.         *)

\* Mutant: the upsert looks for the producerId only.
MutantMatches(g, r) == g.producer = producer[r]

Matches(g, r) == g.producer = producer[r] /\ g.receiver = receiver[r]

\* Mutant: uniqueBy is greetingId.
MutantConflict(g1, g2) == g1.id = g2.id

\* What the index is unique by.
Conflict(g1, g2) == g1.producer = g2.producer /\ g1.receiver = g2.receiver

\* The cron job of ensureIndex, which fails if the documents already conflict,
\* and runs again when the host restarts.
EnsureIndex ==
  /\ ~ indexed
  /\ \A g1, g2 \in greetings : Conflict(g1, g2) => g1 = g2
  /\ indexed' = TRUE
  /\ UNCHANGED <<docs, greetings, removals, request, counting, inserting, seen, given>>

Run(r) == <<r, Cardinality(begun) + 1>>

\* An execution looks for the greeting: it finds one and ends, or is to insert it.
FindGreeting(r) ==
  /\ stage[r] \in {"inserting", "answered"}
  /\ Cardinality(begun) < MaxRuns
  /\ begun' = begun \cup {Run(r)}
  /\ IF \E g \in greetings : Matches(g, r)
     THEN Insert!Execute(r, OK) /\ UNCHANGED upserting
     ELSE upserting' = upserting \cup {Run(r)} /\ UNCHANGED <<inserted, toldInsert>>
  /\ UNCHANGED <<docs, greetings, removals, indexed, request, counting, seen, given>>

New(x) == [id |-> x, producer |-> producer[x[1]], receiver |-> receiver[x[1]]]

\* The greeting is inserted, even if the database fails to say so.
InsertGreeting(x) ==
  /\ ~ (indexed /\ \E g \in greetings : Conflict(g, New(x)))
  /\ greetings' = greetings \cup {New(x)}
  /\ given' = given \cup {x}
  /\ upserting' = upserting \ {x}
  /\ \E code \in {OK, Failed} : Insert!Execute(x[1], code)
  /\ UNCHANGED <<docs, removals, indexed, request, counting, begun, seen>>

\* DuplicateKey becomes a Reject.
RejectDuplicate(x) ==
  /\ indexed /\ \E g \in greetings : Conflict(g, New(x))
  /\ upserting' = upserting \ {x}
  /\ Insert!Execute(x[1], Rejected)
  /\ UNCHANGED <<docs, greetings, removals, indexed, request, counting, begun, seen, given>>

InsertFails(x) ==
  /\ upserting' = upserting \ {x}
  /\ Insert!Execute(x[1], Failed)
  /\ UNCHANGED <<docs, greetings, removals, indexed, request, counting, begun, seen, given>>

\* The code of the result is the code of the response.
ReplyInsert(r, code) ==
  /\ stage[r] = "inserting"
  /\ Insert!Reply(r, code)
  /\ Enter(r, "answered")
  /\ Respond(r, code)
  /\ UNCHANGED <<docs, greetings, removals, indexed, producer, receiver, counting, begun, upserting, seen, given>>

FailInsert(r) ==
  /\ stage[r] = "inserting"
  /\ Insert!Fail({r})
  /\ Respond(r, Failed)
  /\ UNCHANGED <<docs, greetings, removals, indexed, stage, producer, receiver, counting, begun, upserting,
                 seen, given>>

-----------------------------------------------------------------------------
Give(r) ==
  \/ Post(r) \/ VerifyProducer(r) \/ VerifyReceiver(r) \/ VerifyFails(r)
  \/ ExecuteCount(r) \/ FailCount(r)
  \/ FindGreeting(r) \/ FailInsert(r)
  \/ \E code \in Codes : ReplyCount(r, code) \/ ReplyInsert(r, code)

Upsert(x) == InsertGreeting(x) \/ RejectDuplicate(x) \/ InsertFails(x)

Next ==
  \/ \E t \in Things : AddThing(t) \/ RemoveThing(t)
  \/ \E g \in greetings : RemoveGreeting(g)
  \/ EnsureIndex
  \/ \E r \in Requests : Give(r)
  \/ \E x \in upserting : Upsert(x)

Spec == Init /\ [][Next]_vars

-----------------------------------------------------------------------------
(* Properties.                                                             *)

\* Once the index is there, no interleaving of gives, reruns and removals
\* leaves two greetings of one producer and receiver (Greeting.js:57).
UniqueOnceIndexed ==
  indexed => \A g1, g2 \in greetings :
    g1.producer = g2.producer /\ g1.receiver = g2.receiver => g1 = g2

\* A greeting is given only between things that both existed at some time while
\* its request was served, however late or often the count was answered
\* (give.js:42 and 46 verify them).
GivenOnlyVerified ==
  \A x \in given : {producer[x[1]], receiver[x[1]]} \subseteq seen[x[1]]

\* A client that is told 400 did not give a greeting, unless its insert was
\* executed twice: then the second may be the duplicate of the first.
RefusedGivesNothing ==
  \A x \in given : response[x[1]] = Rejected => \E y \in begun \ {x} : y[1] = x[1]

\* A client that is told 200 has its greeting: somebody gave it, at one time.
AnsweredGiven ==
  \A r \in Requests : response[r] = OK =>
    \E x \in given : producer[x[1]] = producer[r] /\ receiver[x[1]] = receiver[r]

\* No two greetings have one producer and receiver, from the first request on
\* (Greeting.js:24, "Minimum properties required to uniquely identify a Greeting").
UniqueGreetings ==
  \A g1, g2 \in greetings :
    g1.producer = g2.producer /\ g1.receiver = g2.receiver => g1 = g2
=============================================================================
