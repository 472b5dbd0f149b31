------------------------------ MODULE NotifFlow ------------------------------
(***************************************************************************)
(* What becomes of the EventNotifications of EventFlow: the queue of a     *)
(* model with a notifName, and _onInboundNotif of ioMiddleware/mq.js in    *)
(* the process that hosts it.  The events are removals, which a client may *)
(* also ask of the host over HTTP; Greeting.js subscribes to them.         *)
(*                                                                         *)
(* The solution of a notification looks the Event up and reads             *)
(* eventNotifications of a scope that Event.find filled with events.  That *)
(* throws, meets no catch, and leaves the delivery unacknowledged: no step *)
(* after it ever runs.                                                     *)
(***************************************************************************)
EXTENDS EventFlow

CONSTANT MaxFaults   \* bound: faults of all processes together

ASSUME NotifAssumption == MaxFaults \in Nat

VARIABLES
  routed,      \* the queue of the subscriber is bound to the name of the events
  listening,   \* the subscriber has a channel that consumes the queue
  notifQueue,  \* notifQueue[e]: notifications of e in the queue
  notifHeld,   \* notifHeld[e]: those delivered on the channel and not acknowledged
  lookups,     \* lookups[e]: solutions that look up the Event of a notification of e
  subFaults,   \* restarts and lost channels of the subscriber
  removedBy,   \* removedBy[e]: how the document that e removes went
  unheard      \* events with a notification that no queue was bound for

subscriber == <<routed, listening, notifQueue, notifHeld, lookups, subFaults>>
notifVars == <<vars, subscriber, removedBy, unheard>>

NotifTypeOK ==
  /\ routed \in BOOLEAN /\ listening \in BOOLEAN
  /\ notifQueue \in [Events -> Nat]
  /\ notifHeld \in [Events -> Nat]
  /\ lookups \in [Events -> Nat]
  /\ subFaults \in 0 .. MaxFaults
  /\ removedBy \in [Events -> {"nobody", "http", "event"}]
  /\ unheard \subseteq Events

NotifInit ==
  /\ Init
  /\ routed = FALSE /\ listening = FALSE
  /\ notifQueue = [e \in Events |-> 0]
  /\ notifHeld = [e \in Events |-> 0]
  /\ lookups = [e \in Events |-> 0]
  /\ subFaults = 0
  /\ removedBy = [e \in Events |-> "nobody"]
  /\ unheard = {}

-----------------------------------------------------------------------------
(* The host of the events.                                                 *)

Removed(e, by) == removedBy' = [removedBy EXCEPT ![e] = IF @ = "nobody" THEN by ELSE @]

\* Mutant: mq takes the call at the host too, as it does elsewhere.
MutantRemoveOverHttp(e) ==
  /\ Removed(e, "http")
  /\ IF routed THEN notifQueue' = [notifQueue EXCEPT ![e] = @ + 1] /\ UNCHANGED unheard
               ELSE unheard' = unheard \cup {e} /\ UNCHANGED notifQueue
  /\ UNCHANGED <<vars, routed, listening, notifHeld, lookups, subFaults>>

\* A request over HTTP: at the host the handler beneath http is that of mongo,
\* so that the document goes and nobody is told.
RemoveOverHttp(e) ==
  /\ removedBy[e] = "nobody"
  /\ Removed(e, "http")
  /\ UNCHANGED <<vars, subscriber, unheard>>

\* Mutant: only the status of a success is broadcast.
MutantArrive(hd) ==
  /\ notifQueue' = [notifQueue EXCEPT ![hd.event] = @ + IF hd.code = OK THEN 1 ELSE 0]
  /\ UNCHANGED <<routed, listening, notifHeld, lookups, subFaults, unheard>>

\* Mutant: the queue goes with the channel that consumes it.
MutantArriveListening(hd) ==
  /\ notifQueue' = [notifQueue EXCEPT ![hd.event] = @ + IF listening THEN 1 ELSE 0]
  /\ unheard' = IF routed THEN unheard ELSE unheard \cup {hd.event}
  /\ UNCHANGED <<routed, listening, notifHeld, lookups, subFaults>>

\* The exchange routes the notification, whatever the logic ended with, to the
\* queue that is bound for it, or drops it.
Arrive(hd) ==
  /\ IF routed THEN notifQueue' = [notifQueue EXCEPT ![hd.event] = @ + 1] /\ UNCHANGED unheard
               ELSE unheard' = unheard \cup {hd.event} /\ UNCHANGED notifQueue
  /\ UNCHANGED <<routed, listening, notifHeld, lookups, subFaults>>

Broadcast(hd) ==
  /\ \/ SendNotif(hd) /\ Arrive(hd)
     \/ SendNotifFails(hd) /\ hd.code \in broadcast'[hd.event] /\ Arrive(hd)
     \/ SendNotifFails(hd) /\ broadcast' = broadcast /\ UNCHANGED <<subscriber, unheard>>
  /\ UNCHANGED removedBy

\* The logic of the event removes the document, if it is there.
Executes(hd) ==
  /\ \E code \in Codes : ExecuteLogic(hd, code) /\ IF code = OK THEN Removed(hd.event, "event")
                                                               ELSE UNCHANGED removedBy
  /\ UNCHANGED <<subscriber, unheard>>

FlowStep ==
  \/ CallerNext /\ UNCHANGED <<subscriber, removedBy, unheard>>
  \/ ChannelNext /\ UNCHANGED <<subscriber, removedBy, unheard>>
  \/ \E hd \in handlers :
       \/ Broadcast(hd) \/ Executes(hd)
       \/ /\ hd.pc \notin {"broadcasting", "executing"}
          /\ HandlerStep(hd)
          /\ UNCHANGED <<subscriber, removedBy, unheard>>

-----------------------------------------------------------------------------
(* The process that subscribes.                                            *)

\* _connect gets to the listener for notifications; the binding is kept by the
\* broker from then on.
Listen ==
  /\ ~ listening
  /\ routed' = TRUE /\ listening' = TRUE
  /\ UNCHANGED <<vars, notifQueue, notifHeld, lookups, subFaults, removedBy, unheard>>

\* A notification reaches _onInbound, and the lookup of its Event starts.
Receive(e) ==
  /\ listening
  /\ notifQueue[e] > 0
  /\ notifQueue' = [notifQueue EXCEPT ![e] = @ - 1]
  /\ notifHeld' = [notifHeld EXCEPT ![e] = @ + 1]
  /\ lookups' = [lookups EXCEPT ![e] = @ + 1]
  /\ UNCHANGED <<vars, routed, listening, subFaults, removedBy, unheard>>

\* Mutant: a catch acknowledges what it cannot parse, as _onInbound does.
MutantAfterError(e) == [notifHeld EXCEPT ![e] = @ - 1]

\* What the subscriber holds after the solution of a notification has failed.
AfterError(e) == notifHeld

\* The lookup ends, with documents or an error, and so does the solution.
ParseNotif(e) ==
  /\ lookups[e] > 0
  /\ lookups' = [lookups EXCEPT ![e] = @ - 1]
  /\ notifHeld' = AfterError(e)
  /\ UNCHANGED <<vars, routed, listening, notifQueue, subFaults, removedBy, unheard>>

Returned(e) == notifQueue[e] + notifHeld[e]

\* The channel is lost, or the process with it; the broker takes back what it held.
LoseSubscriber(lost) ==
  /\ listening
  /\ subFaults' = subFaults + 1
  /\ listening' = FALSE
  /\ notifQueue' = [e \in Events |-> Returned(e)]
  /\ notifHeld' = [e \in Events |-> 0]
  /\ lookups' = IF lost = "process" THEN [e \in Events |-> 0] ELSE lookups
  /\ UNCHANGED <<vars, routed, removedBy, unheard>>

-----------------------------------------------------------------------------
NotifNext ==
  /\ \/ FlowStep
     \/ Listen
     \/ \E e \in Events : RemoveOverHttp(e) \/ Receive(e) \/ ParseNotif(e)
     \/ \E lost \in {"channel", "process"} : LoseSubscriber(lost)
  /\ crashes' + closes' + errors' + subFaults' <= MaxFaults

NotifSpec == NotifInit /\ [][NotifNext]_notifVars

\* As in EventFlow, and the subscriber keeps at it.
NotifFairSpec ==
  /\ NotifSpec /\ Fairness
  /\ WF_notifVars(Listen)
  /\ \A e \in Events : WF_notifVars(Receive(e)) /\ WF_notifVars(ParseNotif(e))

-----------------------------------------------------------------------------
(* Properties.                                                             *)

Messages(e) == notifQueue[e] + notifHeld[e]

\* An event leaves the queue of its host only with a notification in that of the
\* subscriber, success or not, unless none was bound when it was sent
\* (mq.js:151-163 acks last; mq.js:75 keeps what it fails to parse).  Like AckedIsDone,
\* with several events it is for channels that close only with their process.
AckedIsHeard == \A e \in acked : Messages(e) > 0 \/ e \in unheard

\* The subscriber is told again only after a channel of the host closed, once
\* for each such channel, however often it restarts itself.
HeardAgainOnlyByRerun == \A e \in Events : Messages(e) <= 1 + Cardinality(ClosedChannels)

\* A notification tells of an event whose logic ran, and never of a removal over
\* HTTP, unless a channel of the host closed during a lookup (mq.js:119 and 128).
HeardOfEventsOnly == \A e \in Events : Messages(e) > 0 => execs[e] > 0 \/ ClosedChannels # {}

\* No notification is let go again: those that fail are kept and come back with
\* every restart of the subscriber (mq.js:75 fails without a catch).
NotifKept == [][\A e \in Events : Messages(e)' >= Messages(e)]_notifVars

\* A removal by event reaches a subscriber that was there before it, whatever
\* crashes, unless a failure parks the event.
EventuallyHeard ==
  \A e \in Events :
    routed /\ removedBy[e] = "event" ~>
      Messages(e) > 0 \/ e \in unheard \/ \E d \in Parked : d.event = e
=============================================================================
