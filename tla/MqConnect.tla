------------------------------- MODULE MqConnect -------------------------------
(***************************************************************************)
(* _connect of ioMiddleware/mq.js in one process: how the methods that     *)
(* await events and the calls of other models' methods share a connection, *)
(* and what becomes of it when it is lost.                                 *)
(*                                                                         *)
(* Each call of _connect walks along the keys of its options, from the     *)
(* connection to the listener for events.  It stops at the first that is   *)
(* not ready, asks for it if nobody has, waits, and starts again when it   *)
(* is resumed.  The methods that the process hosts begin to walk when it   *)
(* starts; a call of a method that it does not host begins one of its own. *)
(*                                                                         *)
(* A turn of the process is the walks in running, one after the other.     *)
(* What a resource emits when it is lost, and in which order, is what      *)
(* amqplib does.  Resources close with an 'error' (see StatefulCache).     *)
(***************************************************************************)
EXTENDS Naturals, FiniteSets, SequencesExt

CONSTANTS
  Models,
  Own,         \* the model that the process hosts
  Inbound,     \* options of the methods of Own, in the order of their definition
  Outbound,    \* options of methods of other models, each called at most once
  ModelOf,     \* ModelOf[o]: Model of options o, whose other part is eventName
  Notified,    \* options with a notifName
  None,
  MaxFaults    \* bound: refused connections and losses

Exchanges == <<"event_results", "event_notifications", "events">>
Options == ToSet(Inbound) \cup Outbound

ASSUME ConnectAssumption ==
  /\ Own \in Models
  /\ Inbound \in Seq(Options) /\ IsFiniteSet(Outbound) /\ Options # {}
  /\ ModelOf \in [Options -> Models]
  /\ \A o \in Outbound : ModelOf[o] # Own
  /\ \A n \in 1 .. Len(Inbound) : ModelOf[Inbound[n]] = Own
  /\ None \notin Options \cup Models
  /\ MaxFaults \in Nat

VARIABLES
  cell,      \* cell[k]: "null", "asked" or "ready"
  waiting,   \* waiting[k]: options in the array of callbacks of k, in order
  rpcs,      \* rpcs[x]: what the channel of exchange x was asked for, in order
  closer,    \* closer[k]: options of the _retry that listens to 'close' of k
  consumes,  \* consumes[x]: model whose queue the listener of x consumes
  running,   \* options of the walks left to do in this turn
  delays,    \* delays[o]: timers set to walk again with options o
  called,    \* methods called so far
  handlers,  \* connectionHandlers, by the options of the calls
  faults

links == <<cell, waiting, rpcs, closer, consumes>>
vars == <<links, running, delays, called, handlers, faults>>

-----------------------------------------------------------------------------
(* The keys of the caches, in the order in which a walk passes them.       *)

Conn == <<"conn", None, None>>
Channel(x) == <<"ch", x, None>>
Listener(x) == <<"listener", x, None>>

\* Mutant: the queue is named by the event.
MutantQueue(x, o) == IF x = "event_results" THEN Own ELSE o

\* The process has one queue for results; the others are the model's.
Queue(x, o) == IF x = "event_results" THEN Own ELSE ModelOf[o]

\* Results are routed by the queue, events by their name.
Topic(x, o) == IF x = "event_results" THEN None ELSE o

Routed(x, o) == x = "event_notifications" => o \in Notified

\* What a walk with options o passes at exchange x.
Stops(x, o) ==
  <<Channel(x), <<"ex", x, None>>, <<"q", x, Queue(x, o)>>>> \o
  IF Routed(x, o) THEN <<<<"route", x, Topic(x, o)>>, Listener(x)>> ELSE <<>>

Path ==
  [o \in Options |->
     <<Conn>> \o Stops(Exchanges[1], o) \o Stops(Exchanges[2], o) \o Stops(Exchanges[3], o)]

Keys == UNION {ToSet(Path[o]) : o \in Options}
Resources == {k \in Keys : k[1] \in {"conn", "ch"}}
KeysOf(x) == {k \in Keys : k[2] = x}

TypeOK ==
  /\ cell \in [Keys -> {"null", "asked", "ready"}]
  /\ waiting \in [Keys -> Seq(Options)]
  /\ rpcs \in [ToSet(Exchanges) -> Seq(Keys)]
  /\ closer \in [Resources -> Options \cup {None}]
  /\ consumes \in [ToSet(Exchanges) -> Models \cup {None}]
  /\ running \in Seq(Options)
  /\ delays \in [Options -> Nat]
  /\ called \subseteq Outbound
  /\ handlers \subseteq called
  /\ faults \in 0 .. MaxFaults

\* The modules are loaded: every method of the model awaits its events.
Init ==
  /\ cell = [k \in Keys |-> "null"]
  /\ waiting = [k \in Keys |-> <<>>]
  /\ rpcs = [x \in ToSet(Exchanges) |-> <<>>]
  /\ closer = [k \in Resources |-> None]
  /\ consumes = [x \in ToSet(Exchanges) |-> None]
  /\ running = Inbound
  /\ delays = [o \in Options |-> 0]
  /\ called = {}
  /\ handlers = {}
  /\ faults = 0

-----------------------------------------------------------------------------
(* A walk: one call of _connect without an error.                          *)

\* Where on its path a walk with options o stops.
Stop(o) ==
  CHOOSE n \in 1 .. Len(Path[o]) + 1 :
    /\ n <= Len(Path[o]) => cell[Path[o][n]] # "ready"
    /\ \A m \in 1 .. n - 1 : cell[Path[o][m]] = "ready"

Passed(o) == {Path[o][n] : n \in 1 .. Stop(o) - 1}

\* Mutant: only the connection is listened to.
MutantListen(o) ==
  closer' = [k \in Resources |-> IF k = Conn /\ k \in Passed(o) /\ closer[k] = None
                                 THEN o ELSE closer[k]]

\* A walk listens to what it passes, unless another one does.
Listen(o) ==
  closer' = [k \in Resources |-> IF k \in Passed(o) /\ closer[k] = None THEN o ELSE closer[k]]

\* Mutant: a callback is kept only if the state was asked for before.
MutantJoin(k, o) ==
  waiting' = [waiting EXCEPT ![k] = IF cell[k] = "asked" THEN Append(@, o) ELSE @]

\* Mutant: the last callback is the first to be resumed.
MutantJoinFirst(k, o) == waiting' = [waiting EXCEPT ![k] = <<o>> \o @]

Join(k, o) == waiting' = [waiting EXCEPT ![k] = Append(@, o)]

\* The walk stops at k; the first to stop there asks for it.  A channel answers
\* what it is asked for one after the other.
Await(k, o) ==
  /\ Join(k, o)
  /\ cell' = [cell EXCEPT ![k] = "asked"]
  /\ rpcs' = IF cell[k] = "null" /\ k \notin Resources
             THEN [rpcs EXCEPT ![k[2]] = Append(@, k)] ELSE rpcs
  /\ UNCHANGED <<consumes, handlers>>

\* Mutant: connectionHandlers are run at the end of the first of the options.
MutantArrived(o) == Stop(o) > 1 + Len(Stops(Exchanges[1], o))

Arrived(o) == Stop(o) > Len(Path[o])

\* The first walk of the turn.  One that arrives runs the connectionHandlers.
Walk ==
  /\ running # <<>>
  /\ running' = Tail(running)
  /\ LET o == Head(running) IN
     /\ Listen(o)
     /\ IF Arrived(o)
        THEN handlers' = {} /\ UNCHANGED <<cell, waiting, rpcs, consumes>>
        ELSE Await(Path[o][Stop(o)], o)
  /\ UNCHANGED <<delays, called, faults>>

-----------------------------------------------------------------------------
(* What starts a turn.                                                     *)

\* A method of another model is called.
Call(o) ==
  /\ running = <<>>
  /\ o \in Outbound \ called
  /\ called' = called \cup {o}
  /\ handlers' = handlers \cup {o}
  /\ running' = <<o>>
  /\ UNCHANGED <<links, delays, faults>>

Timer(o) ==
  /\ running = <<>>
  /\ delays[o] > 0
  /\ delays' = [delays EXCEPT ![o] = @ - 1]
  /\ running' = <<o>>
  /\ UNCHANGED <<links, called, handlers, faults>>

\* What the channels are to answer next.
Heads == {Head(rpcs[x]) : x \in {y \in ToSet(Exchanges) : rpcs[y] # <<>>}}

\* What was asked for is there, and everybody who waits walks again.
Answer(k) ==
  /\ running = <<>>
  /\ cell[k] = "asked" /\ k \in Resources \cup Heads
  /\ cell' = [cell EXCEPT ![k] = "ready"]
  /\ waiting' = [waiting EXCEPT ![k] = <<>>]
  /\ running' = waiting[k]
  /\ rpcs' = IF k \in Resources THEN rpcs ELSE [rpcs EXCEPT ![k[2]] = Tail(@)]
  /\ consumes' = IF k[1] = "listener"
                 THEN [consumes EXCEPT ![k[2]] = Queue(k[2], Head(waiting[k]))] ELSE consumes
  /\ UNCHANGED <<closer, delays, called, handlers, faults>>

Fault == running = <<>> /\ faults < MaxFaults /\ faults' = faults + 1

\* Mutant: an error resumes the first callback of each array only.
MutantRejected(K, o) == Cardinality({k \in K : waiting[k] # <<>> /\ Head(waiting[k]) = o})

\* How often o waits for one of the keys of K.
Rejected(K, o) ==
  Cardinality(UNION {{k} \X {n \in 1 .. Len(waiting[k]) : waiting[k][n] = o} : k \in K})

\* The keys of K are gone: who waits for them is given the error, and walks
\* again after the delay.  So does the options of late.
Drop(K, late) ==
  /\ cell' = [k \in Keys |-> IF k \in K THEN "null" ELSE cell[k]]
  /\ waiting' = [k \in Keys |-> IF k \in K THEN <<>> ELSE waiting[k]]
  /\ closer' = [k \in Resources |-> IF k \in K THEN None ELSE closer[k]]
  /\ delays' = [o \in Options |-> delays[o] + Rejected(K, o) + IF o = late THEN 1 ELSE 0]

\* amq.connect fails.
Refuse ==
  /\ Fault
  /\ cell[Conn] = "asked"
  /\ Drop({Conn}, None)
  /\ UNCHANGED <<rpcs, consumes, running, called, handlers>>

\* A channel emits 'error' and 'close', which starts a walk at once.
LoseChannel(x) ==
  /\ Fault
  /\ cell[Channel(x)] = "ready" /\ closer[Channel(x)] # None
  /\ Drop(KeysOf(x), None)
  /\ rpcs' = [rpcs EXCEPT ![x] = <<>>]
  /\ consumes' = [consumes EXCEPT ![x] = None]
  /\ running' = <<closer[Channel(x)]>>
  /\ UNCHANGED <<called, handlers>>

\* The walk that the 'close' of a channel starts, if one listens to it.
Restarted(x) == IF closer[Channel(x)] = None THEN <<>> ELSE <<closer[Channel(x)]>>

\* The connection emits 'error', each channel 'close', which starts a walk at
\* once, and the connection 'close' with the error, which starts one later.
LoseConnection ==
  /\ Fault
  /\ cell[Conn] = "ready" /\ closer[Conn] # None
  /\ Drop(Keys, closer[Conn])
  /\ rpcs' = [x \in ToSet(Exchanges) |-> <<>>]
  /\ consumes' = [x \in ToSet(Exchanges) |-> None]
  /\ running' = Restarted(Exchanges[1]) \o Restarted(Exchanges[2]) \o Restarted(Exchanges[3])
  /\ UNCHANGED <<called, handlers>>

-----------------------------------------------------------------------------
Next ==
  \/ Walk
  \/ \E o \in Options : Call(o) \/ Timer(o)
  \/ \E k \in Keys : Answer(k)
  \/ Refuse \/ LoseConnection
  \/ \E x \in ToSet(Exchanges) : LoseChannel(x)

Spec == Init /\ [][Next]_vars

\* Turns end, timers fire, and the broker answers.
Fairness ==
  /\ WF_vars(Walk)
  /\ WF_vars(\E o \in Options : Timer(o))
  /\ WF_vars(\E k \in Keys : Answer(k))

FairSpec == Spec /\ Fairness

-----------------------------------------------------------------------------
(* Properties.                                                             *)

Walking(o) ==
  \/ o \in ToSet(running)
  \/ delays[o] > 0
  \/ \E k \in Keys : cell[k] = "asked" /\ o \in ToSet(waiting[k])

\* A call that awaits the connection has a walk under way, whatever was lost
\* since it began: no loss forgets it (statefulCache.js:10, mq.js:243).
CallsKeepWalking == \A o \in handlers : Walking(o)

\* A resource that is there without anybody listening to its 'close' is about
\* to be passed by a walk (mq.js:250 and 259 listen only when a walk gets there).
WatchedOrWalking ==
  \A k \in Resources : cell[k] = "ready" /\ closer[k] = None => \E o \in Options : Walking(o)

\* A call goes out only when its result can come in: the connection stands, the
\* queue of results is consumed and the channel for events is open
\* (mq.js:294 runs connectionHandlers at the end of the last of the options).
SentWhenAnswerable ==
  [][handlers' # {} \/ handlers = {} \/
     /\ consumes["event_results"] = Own
     /\ \A k \in {Conn, Channel("event_results"), Channel("events")} :
          cell[k] = "ready" /\ closer'[k] # None]_vars

\* Until an attempt fails or something is lost, a process consumes the events of its own model,
\* whatever calls arrive while it connects (mq.js:287 listens once an exchange), if it has a
\* method without a notifName, as every model has.
OwnEventsUntilLoss == faults = 0 => consumes["events"] \in {None, Own}

\* A process awaits the events of its own model
\* (mq.js:102, "await inbound MQ Events for ${eventName}").
OwnEvents == consumes["events"] \in {None, Own}

\* Every call gets through in the end, and the process listens again.
EventuallySent ==
  /\ \A o \in Outbound : o \in handlers ~> o \notin handlers
  /\ []<>(consumes["events"] # None)
=============================================================================
