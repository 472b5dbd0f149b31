# A verification of robot-cocktail-party in TLA+

robot-cocktail-party is a small set of microservices in JavaScript.  Humans and
robots can be inserted and removed, and can greet each other.  One process hosts
one model (`Human`, `Robot` or `Greeting`); the processes share a MongoDB
database and call each other over RabbitMQ.  This directory holds models of the
parts of the program where order and failure matter, the TLC runs that check
them and the proofs that TLAPS checks.

Contents: [the system](#the-system), [the modules](#the-modules),
[the runs](#the-runs), [fairness](#fairness), [the proofs](#the-proofs),
[disagreements](#where-the-code-disagrees-with-itself),
[what is left out](#what-is-not-modelled), [the plan](#the-plan).

## The system

### Components

| component | state it keeps | operations | hard because |
|---|---|---|---|
| stateful cache (`conventions/statefulCache.js`) and the `_connect` functions that use it (`mongo.js`, `cron.js`, `mq.js`) | `cache[key]`: null, an array of callbacks, or the resource | `getStatefulCache`, the setter, the tick, the deleter, `_retry` on 'error', 'close' and timeouts | callers race for one resource; attempts fail; a resource is lost while others wait or use it |
| remote call (`ioMiddleware/mq.js`) | `resultHandlers`, the `Event`, `EventResult` and `EventNotification` documents, the queues of the broker, unacknowledged deliveries | `_sendOutboundEvent`, `_onInbound`, `_onInboundEvent`, ack and nack | at-least-once delivery, crashes of either side, channels that close under a handler, steps that fail one by one |
| broker connection (`_connect` and `_getConnectionOpts` of `mq.js`) | the keys of the cache from the connection to the listeners of three exchanges; `connectionHandlers` | `_connect`, walked again after every answer, refusal and loss | keys that depend on each other and are rebuilt by whoever comes first |
| solution runner (`conventions/core.js`) | which function runs, in closures | `Solution`, `Step`, `Catch`, `next` | functions may call `next` at once, later, twice, never, or throw after they did |
| giving greetings (`logicalHandlers/give.js`, `verifyIds.js`, `logicalModels/*.js`, `http.js`) | the `Human`, `Robot` and `Greeting` documents; the request being served | `greetHuman`, `greetRobot`, `insert`, `remove`, `count`, `ensureIndex` | verify, then act, across processes; the insert may be repeated, late, or refused |
| MongoDB operations (`ioMiddleware/mongo.js`) | documents and indexes | `index`, `find`, `insert` (an upsert), `update`, `remove`, `count` | upserts race; applied operations whose answer is lost |
| cron jobs (`ioMiddleware/cron.js`) | jobs kept by Agenda | `_connect`, defining and saving a job | run after the process began to serve |
| notifications (`mq.js` 66-93) | the bound queue of a subscriber; unacknowledged `EventNotification`s | `_awaitInboundNotif`, `_onInboundNotif` | sent for every outcome, never acknowledged, dropped before the first start |
| scopes (`ioModels/Scope.js`) | the scope of each solution | flatten, unflatten, parse, stringify, prune | conversions that are not inverse to each other |
| method composition (`core.js` 205-226) | `stack` of a method | `Method`, `stackIoMiddleware`, `setLogicalHandler` | order of middleware decides who calls whom |

### How they interact

A request comes in over HTTP (`http.js`), becomes a scope and is validated, and
is then either executed by the process or sent to a host of the method's model.
To send it, `mq.js` saves an `Event`, takes the connection out of the cache
(opening it if nobody has), leaves a callback in `resultHandlers` and publishes
the `eventId`.  The host looks the `Event` up, runs the method's logic, saves
and sends an `EventResult`, saves and broadcasts an `EventNotification`, and
acknowledges the delivery last.  The caller looks the `EventResult` up and goes
on with its solution.  `give` uses this twice: to count the receiver, if it is of
the other model, and to insert the greeting.  Everything above runs in
solutions: lists of steps and catches that call a `next`.

### What makes the components correct

* Cache: one attempt at a time; nobody who waits is forgotten; a continuation
  is run again only for a reason; what is handed out is alive.
* Remote call: an event that left the queue was handled to its end; a callback
  gets one answer, except where the code says otherwise; the logic runs again
  only for a reason; every call is answered unless a listed reason prevents it.
* Broker connection: no call is forgotten when a connection is lost, none is sent
  before its result can come in, and the process consumes its own events.
* Notifications: an event that left its queue told its subscriber, only of what
  ran, and again only for a reason.
* Database operations: each is answered, and leaves more documents than it
  inserts only for a reason.
* Methods: a call ends in the process that can execute it.
* Scopes: what a call asks for arrives, what it answers comes back, and what one
  hop prunes or turns into strings changes no verdict.
* Runner: no call of a `next` is lost or multiplied; the callback comes at the
  end; the first error wins.
* Greetings: one greeting for each pair; a greeting only between things that
  existed; what the client is told agrees with what was done.

The places where this is hard to test are listed, with the properties that
watch each, under `hazards` in `PROJECT.json`.

## The modules

Every action is one turn of the JavaScript event loop of one process: from the
callback that starts it to the next asynchronous call.  Two turns of one process
never overlap, and those of different processes interleave freely.

### StatefulCache

One key of the cache with the callers that share it.  `cell` is `cache[key]`;
an array of callbacks and the resource opened for it have one id, `waiters[i]`
is the content of the array, `listeners[i]` who listens to 'close' of the
resource.  `AwaitState` and `UseState` are the two outcomes of
`getStatefulCache`; `OpenSucceeds`/`OpenFails` the opener's callback, which
queues the tick; `TickReady`/`TickRefused` the tick, which stores the outcome and
runs all callbacks in one turn; `ErrorEvent` the deleter; `CloseAfterError` and
`CloseAlone` the 'close' handlers, which run the first caller's `_retry`.
`_retry` after a delay and at once are one action: a timer may be due at once.

### Documents

The database operations of `mongo.js` on one collection, by the callers of the
`StatefulCache` that holds the client, which this module extends.  `CacheStep` is a step
of the cache, and starts an execution for each caller that it resumes: that is
`next({collection})` of `_connect` with the step after it.  `Execute` is the answer
of the server, `ExecuteFails` the loss of the client before it, with the operation applied
or not.  `Find` and `Apply` are the two halves of an upsert, between which another
may write.  `Inserted`, `Updated`, `Removed` and `Indexed` are what the operations
leave of `docs`; `created` is the history of the documents that ever were, `told` how
often a callback got an answer.

A document has an id and one name, which stands for all that a unique index or a
query may ask for.  find and count leave the documents alone; what they answer is
in `GreetScope`.

### RemoteCall

The abstract specification of a call: an execution may happen any number of
times, the callback gets the outcome of one of them at most, an `Error` at most
twice, and no more than two answers in all.

### EventFlow

The detailed specification of the same, from the method call to the answer, and
`RemoteCall` is its `Promise`.  The process that calls has a `stage` for each
event and `resultHandlers`; a host has `handlers`, each at the step named by its
`pc`, on the channel number `chan` that it was delivered on.  The broker has
`ready`, `unacked` and `acked`.  Delivery tags start again with each channel, and
`Tagged` is what a tag names now, which is how the code acknowledges.  Each
database call and each publish has an action for success and one for failure; a
write that fails may have been applied.  `HostCrash` and `CallerCrash` lose the
memory of a process and nothing else.

Taken for granted: a channel's close carries an error (the other case is the
finding of `StatefulCache`); a host consumes the queue of its own model (`MqConnect`
shows when); results are acknowledged when they are received; each event is
published once, by one process; an `Event` document that cannot be parsed
(`flattenEventObj`) is a member of `Unparseable`.

### NotifFlow

Extends `EventFlow` by the queue of a model with a `notifName` and the process that
hosts it.  The events are removals, `RemoveOverHttp` the same over HTTP, which ends
at the handler of mongo and tells nobody.  `Broadcast` is `SendNotif` of the flow with
what the exchange makes of it (`Arrive`): once `Listen` has bound the queue, it
keeps the notification; before, it drops it (`unheard`).  `Receive` starts the
solution, which looks the `Event` up, and `ParseNotif` ends it: `eventNotifications`
is undefined, the step of `mq.js` 75 throws, and no catch follows.  So `AfterError`
leaves the delivery where it is, and the three steps after it, among them the
acknowledgement, are never reached.  `LoseSubscriber` is a lost channel or a restart,
after which the broker delivers everything again.

### Greetings

`greetHuman` and `greetRobot` from the HTTP request to its response, over the
documents they are about.  `stage[r]` is the step of `give` that the request is
in.  The two remote calls are *instances of `RemoteCall`*, so that this module
uses exactly what `EventFlow` is proved to provide: executions may be
repeated, answers late.  `Verdict` is what `verifyIds` makes of a count,
`Proceed` the `next` after it, `FindGreeting`, `InsertGreeting` and
`RejectDuplicate` the upsert as two turns of the database with and without the
unique index, `EnsureIndex` the cron job.  `seen[r]` and `given` are history:
what existed while the request was served, and which executions inserted.

A restart of the process that serves a request is a request that takes no more
steps.  Executions of the remote `count` after its answer change nothing and are
left out.  Removing a human or a robot leaves its greetings, as the code does.

### MqConnect

`_connect` of `mq.js` in one process.  A call of it *walks* along `Path[o]`, the
keys of its options `o`: the connection and, for each of the three exchanges,
channel, exchange, queue, route and listener.  It stops at the first key whose
`cell` is not "ready"; the first walk to stop there asks for it (`Await`), and
`Answer` resumes all walks in its array, in their order, in one turn (`running`).
A walk with an error sets the timer of two seconds (`delays`).  `closer[k]` is the
walk whose `_retry` listens to 'close' of a resource, and `handlers` are
`connectionHandlers`, which the first walk to reach the end of its path runs.
`consumes[x]` is the model whose queue the listener of exchange `x` consumes.

How amqplib answers and fails is external: a channel answers in the order in
which it is asked, a lost channel emits 'error' and 'close' without an error, a
lost connection 'error', the 'close' of each channel and 'close' with the error.
An 'error' that nobody listens to would end the process and is left out, and so
are closes without an error, which `StatefulCache` has.  Each method of
`Outbound` is called once.

### Scopes and GreetScope

`Scopes` are the conversions of `Scope.js` as operators.  A JavaScript object is
a function from its keys, `{...a, ...b}` is `b @@ a`, a schema that removes what
it does not name is `Only`, and a string or number is its type with its text, so
that `Stringified` forgets that a limit was a number and `Pruned` removes 0 and
the empty string.  `GreetScope` follows the scope of one request to the Human
process.  `greetHuman` and `greetRobot` take it through the Human, Robot and Greeting
processes: `http`, `call` and `host` are the scopes of `_awaitInboundRequests`,
`_sendOutboundEvent` and `_onInboundEvent`, `event` is the document between them.
`Over` is the `{...scope, ...doc}` with which a found document hides what the scope
had.  find, insert and remove are executed by the process itself: `FindHumans`,
`InsertHuman` and `RemoveHuman`, with `Selected` for the documents that the criteria of
the scope are for and `served` for those the request was about.

`give` validates its options before it verifies anything, so that a request whose ids are
missing or are not texts is refused (`ValidGive`, `RefuseGive`).  Which handler takes a call is not written into `GreetScope`: `Serving`, `Call`,
`Verify` and `Finish` ask `Methods`.

Left out: names and ids of events, which `EventFlow` has; OData filters and their
regular expressions; values that contain the separators of a query string, which
`encode: false` leaves in it.

### Methods

Pure operators: the methods of the models as stacks of middleware over a logical
handler, and `Composed`, the reduction with which `Method` of `core.js` composes them in a
process.  `Http`, `Cron`, `Mq` and `Mongo` are the functions that the files of ioMiddleware
export: what each makes of the handler beneath it, in the process of the model and in others.
`Handler` is what takes a call, `Beneath` what takes a request or an Event.

### Solution

The runner of `core.js`, with a stack of the synchronous calls: `Use` is a call of the
`next` of an invocation, which invokes the next function that takes what it was
given or calls the callback.  `CallNext` is that call by the running function,
`CallLater` from a turn of its own, `Throw` what the runner does with an
exception, `Return` the end of a function.  `reuses` counts the calls of a `next`
that was called before.  A callback that throws is a throw of the function that
called it.

### MC modules and proofs

The modules `MC...` add what TLC needs: the symmetry of callers, events or requests,
the methods of a process, the programs of callers, the requests and documents, and all
solutions up to a length.  `MCStatefulCache` is the cache alone, for the run that
violates its comment; `MCDocuments` is the cache with its operations.
`DocumentsProofs`, `EventFlowProofs`, `NotifFlowProofs`, `GreetingsProofs`,
`SolutionProofs`, `MqConnectProofs` and `GreetScopeProofs` extend the modules they name
with theorems, the first with those of `StatefulCache` too, and the last with lemmas about
`Scopes` and `Methods`; `EventFlowFaultProofs` adds to `EventFlowProofs` those that count
faults.

## The runs

| run | instance | shows |
|---|---|---|
| `cache` | 3 callers with an insert, a removal and an insert, or an insert by id, an update and an index; 2 faults, fairness | single flight; no lost caller; replays only by a close; nobody resumed with a client that failed; documents created only by inserts and closes; every operation answered |
| `cache_stale` (violated) | 2 callers, 1 fault | a resource that closed without an error is handed out |
| `flow_crash` | 2 events, one of which cannot be parsed, 2 hosts, 1 crash, 1 error | acked events are done; parked deliveries, second answers and reruns each have their cause |
| `flow_call` | 1 event with two outcomes, 1 crash, 1 close, 1 error, fairness | the call keeps `RemoteCall`; mixed results only by reruns; answered without being executed only if a channel closed; events are answered |
| `notif` | 1 removal, 1 host, 2 faults of the caller, the host and the subscriber, fairness | an acked event was heard, again only by reruns, only if it ran; a removal is heard in the end |
| `flow_tags` (violated) | 2 events, 1 host, 1 close | a tag of an old channel acks another event |
| `mqconnect` | 1 method of its own, 1 of another model, 2 refusals or losses, fairness | no call is forgotten; opened resources are listened to; calls are sent when their results can come in; own events are consumed until the first fault; every call is sent |
| `mqconnect_own` (violated) | the same | after a refusal the process consumes the events of another model |
| `greetings` | 2 requests, 1 human, 1 robot, 2 inserts, 1 removal | one greeting each once indexed; only verified ones; answers agree with what was done |
| `greetings_index` (violated) | 2 requests, no removal | two greetings of one pair before the index exists |
| `greet_scope` | every request to give with one query, with and without a context, model and extra; every request to find, insert or remove humans, likewise; every set of 2 humans and 2 robots | `extra` reaches all; an event cannot be parsed only for an OData limit; what is counted is what is given; humans are found and removed by the id of the path; answers agree with what was done; refusals and failures have their cause |
| `solution` | all solutions of 1 to 4 functions, 2 errors, 1 reuse | calls conserved; the callback at the end; the first error kept; the callback called in the end |

The type invariants of `StatefulCache`, `Documents`, `EventFlow`, `NotifFlow`,
`Greetings` and `Solution` are proved, and so is `NotifKept`; the runs do not check
them again.  `GreetScope!TypeOK` says more than types, and its run checks it.

### Bounds, and why they are enough

* `Documents`: `MaxFaults` 2 with three callers, for a failed attempt or a loss while
  one caller uses the client and others wait, and a second fault in the recovery; what
  is safe is proved for any number.  The programs of the callers are chosen: two
  inserts without an id, which a replay can double, race with a removal; an insert by id
  races with an update that moves it and an index that refuses duplicates.
* `MaxCrashes`, `MaxCloses`, `MaxErrors` 1 each: enough for a crash of one side
  while the other recovers from an error; with a close, `MaxChannels` 3 leaves a
  host a channel after each loss and `MaxTag` admits every redelivery that these
  allow.  `flow_crash` has two hosts, so that a delivery of one may go on at the other, an
  event that cannot be parsed beside one that can, and no close: with two events and a close, `flow_tags`
  shows what happens, and a nack with an old tag hands out another event's
  delivery while its logic runs, so `RerunOnlyAfterClose` and `AckedIsDone` are
  properties of channels that close with their process.
* `NotifFlow`: one event, and 2 faults of the caller, the host and the subscriber
  together: each process fails alone, twice, or with another.
* `MaxRuns` 2 executions of inserts in all: two requests that race, or one that
  is repeated.  `MaxRemovals` 1: one removal anywhere, of a thing or a greeting.
* `MqConnect`: `MaxFaults` 2, a loss in the recovery from a loss, or two that hit
  different walks; one own and one outbound method are the two walks that differ
  in the queue they consume, and further methods add routes of the same kinds.
* `GreetScope`: one query a request, because the conversions treat keys one by
  one; each with texts that are numbers, zero, empty and none.  Requests to find, insert
  and remove humans likewise, with queries that name the id of the path again.  Ids in the
  instance are of documents that exist or not, and of both types; a header and the
  receiver's id in the context may be empty.  The contexts have ids and names only, as
  `PlainContexts` of the proofs asks.
* `MaxReuses` 1 and four functions: steps and catches before and after each
  other in every order, and a `next` called twice at every place.

`CHECK_DEADLOCK FALSE` where bounds or completed work let the instance stop.
The cache can stop when nobody calls; the flow when all is answered or faults have
parked it; the greetings when all are given; the runner when all functions returned.

## Fairness

* `StatefulCache!Fairness`: timers fire, queued ticks run and openers call
  back, which Node.js and the drivers provide; a resource that emitted 'error'
  closes.  No caller has to call; nothing has to fail.
* `Documents!DocFairSpec`: that of the cache, and the server answers each caller or the
  driver gives up with a client that is lost.
* `EventFlow!Fairness`: the broker delivers, database calls and confirms answer
  (with success or failure), and a channel that closed is opened again, by the
  `_retry` of mq.js or the restart of the process.  All are weak.  Calls and
  faults are not fair.  The handlers of one event at one host are fair together.
* `NotifFlow!NotifFairSpec`: that of the flow, and the subscriber connects again,
  receives what is in its queue and ends its lookups.
* `MqConnect!FairSpec`: turns end, timers fire and the broker answers what it was
  asked.  Calls and faults are not fair.
* `Solution!FairSpec`: functions return, and an invocation that has not used
  its `next` is used in the end.  That is what the conventions of core.js ask for;
  the handler that nacks is a function that does not, so
  `EventuallyCalledBack` is about the others.

## The proofs

All theorems hold for every value of the constants that their named assumptions
(`CacheAssumption`, `DocumentsAssumption`, `FlowAssumption`, `NotifAssumption`,
`GreetingsAssumption`, `SolutionAssumption`, `ConnectAssumption`, `ScopeAssumption`) admit:
these only type the constants and say that bounds are naturals, `ConnectAssumption` that
methods are listed in a sequence and that calls are finitely many.  `ScopeAssumption` is what
routes, parsers and schemas leave of a request (parameters of the path are texts and not
empty, a query string has texts, a body is for a human) and of documents that were saved
(they are pruned).  Nothing is assumed of the collections, the queries or the headers.

`AckedIsDone`, `RerunOnlyAfterClose`, `ParkedByErrors`, `AckedIsHeard` and
`HeardAgainOnlyByRerun` rest on `OwnsAgree`, which is not true once a channel closed without
its process: then a handler may acknowledge or return the delivery of another event, so
that with two events the first two fail (`flow_tags` shows it of `AckedIsDone`).  What is
proved of the five is that they hold until then, `Spec => [](closes = 0 => ...)`, whatever the
bounds and the other faults are (the theorems named `...UntilClose`).  `ClosesCounted` is
the lemma beneath: where nothing has been counted after a step, no channel closed in it.
That they always hold where `MaxCloses = 0`, as the run `flow_crash` checks the first three,
is a corollary of each.

Each proof
module defines an inductive invariant `IInv` and proves `Init => IInv` and
`IInv /\ [Next]_vars => IInv'`; TLC agreed with each part first.

* `DocumentsProofs`, of the cache: types, `SingleFlight`, `NoLostCaller`,
  `ResumedUnlessErrored` and `ReplayedOnlyByClose`.  Single
  flight alone is not inductive: `CellAgrees` adds that a pending attempt is that of the
  array in the cell, and `WaitersAgree` that who waits is in that array.  `Paid` counts for the last: each time that a caller is
  resumed or may still be is its first call or a closed client that it listened to,
  and a client has one listener.
* `DocumentsProofs`, of the operations: every step of `Documents` is one of the cache or leaves it alone
  (`ImplementsCache`), so that the theorems of the cache hold; types; and
  `CreatedByInserts`.  `Budget` is its invariant: documents ever created, inserts in
  progress and callers who wait for one are together no more than the inserts asked
  for and the clients that closed.  `CacheStepSpends` says that the cache pays for
  whom it resumes, `ApplyAdds` that an operation adds one document at most.
* `EventFlowProofs`: types; that every behaviour is one of `RemoteCall`
  (`KeepsPromise`: the mapping is the identity on `outcomes` and `told`, and
  the history `outcomes` of the flow is what makes it so); `ExecutedUnlessClosed`, from
  `RanAgree`, by which a handler past the logic of its event has an execution
  behind it; and `AckedIsDone` until a channel closes without its process
  (`AckedDoneUntilClose`, from `OwnsAgree`: every handler is at the delivery it was given).  `ToldAgrees` bounds what may still be told by the stage:
  one answer from a result and one from a confirm.
* `EventFlowFaultProofs`: what happens more than once, or is left undone, has as many
  causes.  `OneCopy` says that the broker has one copy of an event and so at most one
  handler works at it; with it `ExecsPaid` bounds the executions of an event, done and
  still to come, by one and the channels that closed (`RerunPaidUntilClose`), and `ParkedPaid`
  the deliveries left behind by the errors (`ParkedByErrorsUntilClose`); both hold until a
  channel closes without its process.  Two theorems hold under
  any faults, closes among them: `AnsweredTwicePaid`, from `RoutedAgree` (handlers and
  results are of events that the broker got, so a confirm of theirs fails only by an
  error) and the set `Twice` of events told twice or about to be; and `MixedResultPaid`,
  from `Single`: as long as no channel closed, an event has one outcome and none before
  its logic.
* `NotifFlowProofs`: the flow with its subscriber implements `EventFlow` and so
  `RemoteCall`; types; no notification that reached the subscriber is let go
  (`NeverLetGo`, `NotifKept`); what it hears ran (`HeardIsExecuted`); and `AckedIsHeard`
  until a channel of a host closes without its process, from `HeardAgree`: a handler that has
  broadcast has a notification at the subscriber or found no queue bound; and
  `HeardAgainOnlyByRerun` until then, from `HeardPaid`: notifications sent and
  still to be sent are paid for as the executions are.
* `GreetingsProofs`: types and all four invariants.  `Verified` carries what a count saw
  over the removals and late answers in between; `Ordered` says that an execution
  inserts once; `Answered` and `Refused` relate outcomes to executions, the
  second by an execution that ended without inserting, which the numbers of
  `Numbered` keep apart.
* `SolutionProofs`: types, `Conserved`, `CalledBackAtEnd` and the action property
  `FirstErrorKept` for every set of solutions, of any length.  That `First` returns a member of its set is proved
  from the well-foundedness of `<` on the naturals.
* `MqConnectProofs`: types, `CallsKeepWalking`, `WatchedOrWalking` and
  `SentWhenAnswerable`.  `AskedAgree` says that what the broker was asked for is a key
  whose callers wait, so that an answer or a fault resumes them; `RpcsAgree` keeps what a
  channel was asked apart; `ResultsAgree` says that a listener to results that is ready
  consumes the queue of its own process.  `ResourcesFacts` says that every walk passes
  every resource, so that one that arrives has watched them all, and `RejectedFacts` that
  who waits for a key that is lost is given a timer.
  `OwnEventsUntilLoss` is proved of a process that has a method without a notifName, as
  every model has (`OwnEventsFirst`).  Let m be that method.  `Untroubled(m)`, which holds
  as long as nothing was refused or lost, says that no call overtakes m: `Leads`, its walk
  comes before those of calls in a turn, or waits where all that it passed is ready
  (`Settled`); `KeysAhead`, where a call asks for another queue or route than m, m's was
  asked for first on the same channel, which answers in order (`InLine` says that what is
  asked for is in that line); and `WaitsAhead`, m comes before every call in the callbacks
  of the keys that it passes.  So the first to await the listener is never a call.
  `PathBase` gives the path of any options by position, and `Follows` is the step that
  uses all three: where a call stops, m has been.  The assumption is needed: with
  `Notified = {add}` in `MCMqConnect.cfg` the one method of the process still awaits its
  listener for notifications while a call passes it, and TLC finds the property violated.
* `GreetScopeProofs`: all eight invariants of `GreetScope`, for any requests and any
  collection.  First come lemmas about the operators, each in terms of keys and values:
  what `@@`, `Filled` and `Pruned` leave (`PrunedTwice`: pruning twice is pruning once),
  what a request, an Event and an EventResult make of a scope (`ScopeOfRequest`,
  `EventOfScope`, `ResultOfScope`, `ScopeOfDoc`), which handlers the composition gives
  (`HandlersOfCalls`, `ServingOfRoutes`).  From these follow the round trips: what arrives
  at a host (`HostOfEvent`, `CriteriaOfEvent`), what comes back (`OutcomeOfResult`), and that
  only paging makes an Event that cannot be parsed (`UnparsableByPaging`).  The inductive
  invariant is `Flow /\ Verified`.  `Flow` says where the scopes of each stage come from:
  `http` from the request, `call`, `event` and `host` from `http`, and the EventResult from
  one of three outcomes.  None of the properties is inductive without it, because each is
  about the last of several conversions.  `Verified` carries what a count said over the calls
  that follow: the document exists, and nothing is skipped.  `TypeOK`, `ExtraInherited` and
  `CountedById` hold of every request.  The others are proved under `PlainContexts`: the
  contexts of requests have only keys that mean nothing to the conversions, such as ids and
  names.  It is not an assumption of the module, because the schema admits any object
  (Event.js:24): a client that puts `skip` or `statusCode` into its context has them in the
  scope of its request, and what is then said of paging and outcomes is not true.

Only model-checked: everything that needs fairness (`EventuallyTold`,
`EventuallyAnswered`, `EventuallyHeard`, `EventuallySent`, `EventuallyCalledBack`), which
is out of this prover's reach, as are ENABLED and induction over data.  Every other
property of a run that passes is a theorem.

## Where the code disagrees with itself

The runs marked "violated" each check what a comment or document of the
repository says.  `PROJECT.json` quotes it under `findings`: a closed connection
stays in the cache (`cache_stale`); a handler that outlives its channel acks or
nacks another delivery (`flow_tags`); after a refused connection a process may
consume the events of another model, and ack them as bad (`mqconnect_own`);
greetings can be duplicated before the index exists (`greetings_index`).

Others that the properties name: an OData limit in a request to give a greeting
makes an event that returns to its queue for ever (`PoisonOnlyByPaging` says that
nothing else does); `$skip` makes the verification of the ids count nothing
(`RefusedForCause`); a request to find or remove a human is for another one, or for
any, when its query names the `humanId` again, and for any when the id is one that is
pruned (`NamedByPath`); and the notifications of removals are never acknowledged, so
that they all come back when the subscriber restarts (`NotifKept`).

## What is not modelled

* The schemas of `Extra` and `MqMsg` and of the options of handlers, and the
  compilation of schemas by ajv.
* The steps of a notification after the one that throws, which nothing reaches, and with
  them `execDbOp.js` and `execDbOpByLookup.js`: no model loads the first, and
  `Greeting.js` names the second `execOpByLookup`, a file that does not exist.
* The routes of robots and greetings over HTTP, which are those of humans with another
  schema.
* OData filters and what they match.
* That `cron.js` and `mongo.js` name the connection of one database by one key: the
  cache then shares a connection between them as it does between the callers of one.
* Agenda, MongoDB and RabbitMQ themselves: modelled from how the code uses them.
* The browser's side of http.js, the templates (`+pattern.*`) and the start scripts.
* Logging.

## The plan

Done, in this order: `StatefulCache`, `RemoteCall`, `EventFlow`, `Greetings`,
`Solution`, their proofs, `MqConnect`, `Scopes` and `GreetScope`, `NotifFlow`,
`Documents`, `Methods`, and the proofs of `NotifFlow`, `Documents`, `MqConnect` and
`GreetScope`, `OwnEventsUntilLoss` the last.

Next: the routes of robots and greetings in `GreetScope`, with what a human's request
does not have (greetings are found by the ids of two things), and the theorems of
`GreetScopeProofs` for them.
