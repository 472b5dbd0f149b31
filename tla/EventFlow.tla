------------------------------- MODULE EventFlow -------------------------------
(***************************************************************************)
(* The life of an Event in ioMiddleware/mq.js: a process that calls a      *)
(* method of another model saves an Event and publishes it; a host of that *)
(* model looks it up, executes the logic, saves and publishes an           *)
(* EventResult and an EventNotification, and acks the Event; the caller    *)
(* looks the EventResult up and resumes.                                   *)
(*                                                                         *)
(* Every action is one turn of a process, from the callback that starts it *)
(* to the next database call or publish.  The broker requeues what a       *)
(* channel held when it closes.  Delivery tags count from 1 on each        *)
(* channel, and a handler acks on the channel its process has now.         *)
(***************************************************************************)
EXTENDS Naturals, FiniteSets, Sequences

CONSTANTS
  Events,         \* events, each identified by its eventId
  Hosts,          \* processes that host the model the events are for
  Unparseable,    \* events whose saved form flattenEventObj rejects
  Codes,          \* what the logic may end with
  MaxCrashes,     \* bound: crashes of processes
  MaxCloses,      \* bound: closes of a channel that no process asked for
  MaxErrors,      \* bound: database calls and publishes that fail
  MaxChannels,    \* bound: channels a host opens one after the other
  MaxTag          \* bound: deliveries on one channel

OK == 200
Rejected == 400
Failed == 500
Error == 0        \* a callback was given an Error

ASSUME FlowAssumption ==
  /\ Unparseable \subseteq Events
  /\ Codes \subseteq {OK, Rejected, Failed}
  /\ MaxCrashes \in Nat /\ MaxCloses \in Nat /\ MaxErrors \in Nat
  /\ MaxChannels \in Nat \ {0} /\ MaxTag \in Nat \ {0}

VARIABLES
  \* the process that calls
  stage,           \* stage[e]: where the outbound solution of e is
  resultHandlers,  \* resultHandlers: events that await their result
  unconfirmed,     \* events published and not confirmed by the broker
  told,            \* told[e]: what the callback of e was given, in order
  \* the database
  saved,           \* Event documents
  results,         \* results[e]: code and message of the EventResult document
  notifs,          \* EventNotification documents
  \* the broker
  ready,           \* events in the queue
  unacked,         \* deliveries not acknowledged
  acked,           \* events removed from the queue
  resultMsgs,      \* resultMsgs[e]: results of e in the queue of the caller
  broadcast,       \* broadcast[e]: codes that notifications of e were sent with
  \* the hosts
  open,            \* hosts whose channel for events is open
  chan,            \* chan[h]: how many such channels h opened before
  lastTag,         \* lastTag[h]: last delivery tag of that channel
  handlers,        \* inbound solutions in progress
  \* history
  outcomes,        \* outcomes[e]: what the inbound solutions of e ended with
  answered,        \* events whose result was sent
  execs,           \* execs[e]: how often the logic of e was executed
  crashes, closes, errors

calling == <<stage, resultHandlers, unconfirmed, told>>
documents == <<saved, results, notifs>>
queue == <<ready, unacked, acked>>
channels == <<open, chan, lastTag>>
sent == <<resultMsgs, broadcast, answered>>
ran == <<outcomes, execs>>
faults == <<crashes, closes, errors>>
vars == <<calling, documents, queue, channels, sent, ran, faults, handlers>>

AllCodes == {OK, Rejected, Failed}
Tags == 1 .. MaxTag
Stages == {"idle", "saving", "connecting", "sent", "finding", "done", "gone"}
Pcs == {"finding", "executing", "saving", "sending", "savingNotif", "broadcasting", "acking"}
Deliveries == [host : Hosts, tag : Tags, event : Events]
Handlers == [host : Hosts, chan : 0 .. MaxChannels, tag : Tags, event : Events,
             pc : Pcs, code : AllCodes \cup {0}]
Results == [code : AllCodes \cup {0}, message : AllCodes \cup {0}]

TypeOK ==
  /\ stage \in [Events -> Stages]
  /\ resultHandlers \subseteq Events
  /\ unconfirmed \subseteq Events
  /\ told \in [Events -> Seq(AllCodes \cup {Error})]
  /\ saved \subseteq Events
  /\ results \in [Events -> Results]
  /\ notifs \subseteq Events
  /\ ready \subseteq Events
  /\ unacked \subseteq Deliveries
  /\ acked \subseteq Events
  /\ resultMsgs \in [Events -> Nat]
  /\ broadcast \in [Events -> SUBSET AllCodes]
  /\ open \subseteq Hosts
  /\ chan \in [Hosts -> 0 .. MaxChannels]
  /\ lastTag \in [Hosts -> 0 .. MaxTag]
  /\ handlers \subseteq Handlers
  /\ outcomes \in [Events -> SUBSET AllCodes]
  /\ answered \subseteq Events
  /\ execs \in [Events -> Nat]
  /\ crashes \in 0 .. MaxCrashes /\ closes \in 0 .. MaxCloses /\ errors \in 0 .. MaxErrors

Init ==
  /\ stage = [e \in Events |-> "idle"]
  /\ resultHandlers = {} /\ unconfirmed = {}
  /\ told = [e \in Events |-> <<>>]
  /\ saved = {} /\ notifs = {}
  /\ results = [e \in Events |-> [code |-> 0, message |-> 0]]
  /\ ready = {} /\ unacked = {} /\ acked = {}
  /\ resultMsgs = [e \in Events |-> 0]
  /\ broadcast = [e \in Events |-> {}]
  /\ open = Hosts
  /\ chan = [h \in Hosts |-> 0]
  /\ lastTag = [h \in Hosts |-> 0]
  /\ handlers = {}
  /\ outcomes = [e \in Events |-> {}]
  /\ answered = {}
  /\ execs = [e \in Events |-> 0]
  /\ crashes = 0 /\ closes = 0 /\ errors = 0

-----------------------------------------------------------------------------
(* The process that calls: _sendOutboundEvent.                             *)

Tell(e, what) == told' = [told EXCEPT ![e] = Append(@, what)]

Fault == errors < MaxErrors /\ errors' = errors + 1 /\ UNCHANGED <<crashes, closes>>

\* A method is called: the Event is formatted and its insert starts.
Call(e) ==
  /\ stage[e] = "idle"
  /\ stage' = [stage EXCEPT ![e] = "saving"]
  /\ UNCHANGED <<resultHandlers, unconfirmed, told, documents, queue, channels, sent, ran,
                 faults, handlers>>

\* The Event is saved; its next step joins connectionHandlers.
SaveEvent(e) ==
  /\ stage[e] = "saving"
  /\ stage' = [stage EXCEPT ![e] = "connecting"]
  /\ saved' = saved \cup {e}
  /\ UNCHANGED <<resultHandlers, unconfirmed, told, results, notifs, queue, channels, sent,
                 ran, faults, handlers>>

\* The insert fails, applied or not: no catch, so the callback gets the Error.
SaveEventFails(e) ==
  /\ stage[e] = "saving"
  /\ stage' = [stage EXCEPT ![e] = "done"]
  /\ saved' \in {saved, saved \cup {e}}
  /\ Tell(e, Error)
  /\ Fault
  /\ UNCHANGED <<resultHandlers, unconfirmed, results, notifs, queue, channels, sent, ran,
                 handlers>>

Connecting == {e \in Events : stage[e] = "connecting"}

\* _connect completes and runs every connection handler: each registers its
\* result handler and publishes.
Publish(S) ==
  /\ stage' = [e \in Events |-> IF e \in Connecting THEN "sent" ELSE stage[e]]
  /\ resultHandlers' = resultHandlers \cup Connecting
  /\ unconfirmed' = unconfirmed \cup Connecting
  /\ ready' = ready \cup S
  /\ UNCHANGED <<told, documents, unacked, acked, channels, sent, ran, handlers>>

SendEvents == Connecting # {} /\ Publish(Connecting) /\ UNCHANGED faults

\* The channel fails meanwhile, and some of the events never reach the broker.
\* A publish that throws is one whose confirm fails at once.
SendEventsFails == Fault /\ \E S \in SUBSET Connecting : S # Connecting /\ Publish(S)

Routed == ready \cup acked \cup {d.event : d \in unacked}

Confirm(e) ==
  /\ e \in unconfirmed \cap Routed
  /\ unconfirmed' = unconfirmed \ {e}
  /\ UNCHANGED <<stage, resultHandlers, told, documents, queue, channels, sent, ran, faults,
                 handlers>>

\* The confirm of the publish fails and resumes the step after the send, which
\* is no catch.  The result handler stays.
ConfirmFails(e) ==
  /\ e \in unconfirmed
  /\ unconfirmed' = unconfirmed \ {e}
  /\ Tell(e, Error)
  /\ IF e \in Routed THEN Fault ELSE UNCHANGED faults
  /\ UNCHANGED <<stage, resultHandlers, documents, queue, channels, sent, ran, handlers>>

\* Mutant: the handler is kept after use.
MutantRemaining(e) == resultHandlers

\* The result handlers left after the one of e is taken.
Remaining(e) == resultHandlers \ {e}

\* A result message reaches _onInbound.  Without a handler it is a "bad msg",
\* acknowledged and forgotten; otherwise the EventResult is looked up.
ReceiveResult(e) ==
  /\ resultMsgs[e] > 0
  /\ resultMsgs' = [resultMsgs EXCEPT ![e] = @ - 1]
  /\ IF e \in resultHandlers
     THEN /\ resultHandlers' = Remaining(e)
          /\ stage' = [stage EXCEPT ![e] = "finding"]
     ELSE UNCHANGED <<resultHandlers, stage>>
  /\ UNCHANGED <<unconfirmed, told, documents, queue, channels, broadcast, answered, ran,
                 faults, handlers>>

\* The EventResult is found, and its code goes to the callback; or it is not.
FindResult(e) ==
  /\ stage[e] = "finding"
  /\ stage' = [stage EXCEPT ![e] = "done"]
  /\ Tell(e, IF results[e].code = 0 THEN Error ELSE results[e].code)
  /\ UNCHANGED <<resultHandlers, unconfirmed, documents, queue, channels, sent, ran, faults,
                 handlers>>

FindResultFails(e) ==
  /\ stage[e] = "finding"
  /\ stage' = [stage EXCEPT ![e] = "done"]
  /\ Tell(e, Error)
  /\ Fault
  /\ UNCHANGED <<resultHandlers, unconfirmed, documents, queue, channels, sent, ran, handlers>>

Crash == crashes < MaxCrashes /\ crashes' = crashes + 1 /\ UNCHANGED <<closes, errors>>

\* The calling process restarts with its memory lost and its queue kept.
CallerCrash ==
  /\ Crash
  /\ stage' = [e \in Events |-> IF stage[e] \in {"idle", "done"} THEN stage[e] ELSE "gone"]
  /\ resultHandlers' = {}
  /\ unconfirmed' = {}
  /\ UNCHANGED <<told, documents, queue, channels, sent, ran, handlers>>

-----------------------------------------------------------------------------
(* The broker and the channel of a host.                                   *)

HeldBy(h) == {d \in unacked : d.host = h}

\* Mutant: allUpTo is set, and the tag stands for every delivery up to it.
MutantTagged(h, t) == {d \in unacked : d.host = h /\ d.tag <= t}

\* The delivery that a tag names on the channel of h: one at most.
Tagged(h, t) == {d \in unacked : d.host = h /\ d.tag = t}

Requeue(D) ==
  /\ unacked' = unacked \ D
  /\ ready' = ready \cup {d.event : d \in D}
  /\ UNCHANGED acked

\* The channel of h closes, and the broker takes back what it held.
Close(h) == open' = open \ {h} /\ Requeue(HeldBy(h)) /\ UNCHANGED <<chan, lastTag>>

ChannelCloses(h) ==
  /\ h \in open
  /\ closes < MaxCloses
  /\ closes' = closes + 1
  /\ Close(h)
  /\ UNCHANGED <<calling, documents, sent, ran, crashes, errors, handlers>>

\* Mutant: nobody listens to 'close'.
MutantReopen(h) == FALSE /\ UNCHANGED vars

\* The _retry of the channel, or a restart: tags start again.
Reopen(h) ==
  /\ h \notin open
  /\ chan[h] < MaxChannels
  /\ open' = open \cup {h}
  /\ chan' = [chan EXCEPT ![h] = @ + 1]
  /\ lastTag' = [lastTag EXCEPT ![h] = 0]
  /\ UNCHANGED <<calling, documents, queue, sent, ran, faults, handlers>>

HostCrash(h) ==
  /\ Crash
  /\ Close(h)
  /\ handlers' = {hd \in handlers : hd.host # h}
  /\ UNCHANGED <<calling, documents, sent, ran>>

-----------------------------------------------------------------------------
(* A host: _onInboundEvent.                                                *)

Move(hd, pc, code) == handlers' = (handlers \ {hd}) \cup {[hd EXCEPT !.pc = pc, !.code = code]}
Leave(hd) == handlers' = handlers \ {hd}

NewTag(h) == lastTag[h] + 1

\* A message reaches _onInbound, and the lookup of its Event starts.
Deliver(h, e) ==
  /\ h \in open
  /\ e \in ready
  /\ lastTag[h] < MaxTag
  /\ ready' = ready \ {e}
  /\ unacked' = unacked \cup {[host |-> h, tag |-> NewTag(h), event |-> e]}
  /\ lastTag' = [lastTag EXCEPT ![h] = @ + 1]
  /\ handlers' = handlers \cup {[host |-> h, chan |-> chan[h], tag |-> NewTag(h), event |-> e,
                                 pc |-> "finding", code |-> 0]}
  /\ UNCHANGED <<calling, documents, acked, open, chan, sent, ran, faults>>

\* Mutant: the catch that nacks calls next as well.
MutantNack(hd) ==
  /\ hd.host \in open
  /\ Requeue(Tagged(hd.host, hd.tag)) /\ UNCHANGED channels
  /\ Move(hd, "saving", Failed)
  /\ outcomes' = [outcomes EXCEPT ![hd.event] = @ \cup {Failed}]

\* nackEvent: the current channel of the host returns the tag of the delivery.
\* A tag unknown to it closes the channel.
Nack(hd) ==
  /\ hd.host \in open
  /\ LET D == Tagged(hd.host, hd.tag) IN
       IF D # {} THEN Requeue(D) /\ UNCHANGED channels ELSE Close(hd.host)
  /\ Leave(hd)
  /\ UNCHANGED outcomes

\* Mutant: the first catch is left out.
MutantNackThrows(hd) ==
  /\ Move(hd, "saving", Failed)
  /\ outcomes' = [outcomes EXCEPT ![hd.event] = @ \cup {Failed}]
  /\ UNCHANGED <<queue, channels>>

\* nackEvent throws on a closed channel, and so does the catch that calls it
\* again: the second catch ends the Event as failed.
NackThrows(hd) ==
  /\ hd.host \notin open
  /\ Move(hd, "saving", Failed)
  /\ outcomes' = [outcomes EXCEPT ![hd.event] = @ \cup {Failed}]
  /\ UNCHANGED <<queue, channels>>

\* The Event is found and parsed, and its logic starts.
FindEvent(hd) ==
  /\ hd.pc = "finding"
  /\ hd.event \in saved \ Unparseable
  /\ Move(hd, "executing", 0)
  /\ UNCHANGED <<calling, documents, queue, channels, sent, ran, faults>>

\* It is not found, or not parsed, or the database fails.
FindEventFails(hd) ==
  /\ hd.pc = "finding"
  /\ IF hd.event \in saved \ Unparseable THEN Fault ELSE UNCHANGED faults
  /\ Nack(hd) \/ NackThrows(hd)
  /\ UNCHANGED <<calling, documents, sent, execs>>

\* The logic ends; a Reject becomes 400 and any other Error 500.
ExecuteLogic(hd, code) ==
  /\ hd.pc = "executing"
  /\ Move(hd, "saving", code)
  /\ outcomes' = [outcomes EXCEPT ![hd.event] = @ \cup {code}]
  /\ execs' = [execs EXCEPT ![hd.event] = @ + 1]
  /\ UNCHANGED <<calling, documents, queue, channels, sent, faults>>

\* Mutant: the status of a failure is left at its default.
MutantUpserted(doc, code) == [code |-> OK, message |-> IF code = OK THEN doc.message ELSE code]

\* The upsert by eventId: a success has no message to replace an older one.
Upserted(doc, code) == [code |-> code, message |-> IF code = OK THEN doc.message ELSE code]

SaveResult(hd) ==
  /\ hd.pc = "saving"
  /\ results' = [results EXCEPT ![hd.event] = Upserted(@, hd.code)]
  /\ Move(hd, "sending", hd.code)
  /\ UNCHANGED <<calling, saved, notifs, queue, channels, sent, ran, faults>>

\* From here on a failure meets no catch: it is logged, and the delivery stays
\* unacknowledged.
SaveResultFails(hd) ==
  /\ hd.pc = "saving"
  /\ results' \in {results, [results EXCEPT ![hd.event] = Upserted(@, hd.code)]}
  /\ Leave(hd)
  /\ Fault
  /\ UNCHANGED <<calling, saved, notifs, queue, channels, sent, ran>>

\* The result goes to the queue named in replyTo.
PublishResult(e) ==
  /\ resultMsgs' = [resultMsgs EXCEPT ![e] = @ + 1]
  /\ answered' = answered \cup {e}
  /\ UNCHANGED broadcast

SendResult(hd) ==
  /\ hd.pc = "sending"
  /\ PublishResult(hd.event)
  /\ Move(hd, "savingNotif", hd.code)
  /\ UNCHANGED <<calling, documents, queue, channels, ran, faults>>

\* A publish of h may fail freely while the connection may be down.
PublishFails(h) == IF h \in open THEN Fault ELSE UNCHANGED faults

SendResultFails(hd) ==
  /\ hd.pc = "sending"
  /\ PublishResult(hd.event) \/ UNCHANGED sent
  /\ Leave(hd)
  /\ PublishFails(hd.host)
  /\ UNCHANGED <<calling, documents, queue, channels, ran>>

\* Mutant: next is not called when the notification is saved.
MutantSaveNotif(hd) ==
  /\ hd.pc = "savingNotif"
  /\ notifs' = notifs \cup {hd.event}
  /\ Leave(hd)
  /\ UNCHANGED <<calling, saved, results, queue, channels, sent, ran, faults>>

SaveNotif(hd) ==
  /\ hd.pc = "savingNotif"
  /\ notifs' = notifs \cup {hd.event}
  /\ Move(hd, "broadcasting", hd.code)
  /\ UNCHANGED <<calling, saved, results, queue, channels, sent, ran, faults>>

SaveNotifFails(hd) ==
  /\ hd.pc = "savingNotif"
  /\ notifs' \in {notifs, notifs \cup {hd.event}}
  /\ Leave(hd)
  /\ Fault
  /\ UNCHANGED <<calling, saved, results, queue, channels, sent, ran>>

PublishNotif(hd) ==
  /\ broadcast' = [broadcast EXCEPT ![hd.event] = @ \cup {hd.code}]
  /\ UNCHANGED <<resultMsgs, answered>>

SendNotif(hd) ==
  /\ hd.pc = "broadcasting"
  /\ PublishNotif(hd)
  /\ Move(hd, "acking", hd.code)
  /\ UNCHANGED <<calling, documents, queue, channels, ran, faults>>

SendNotifFails(hd) ==
  /\ hd.pc = "broadcasting"
  /\ PublishNotif(hd) \/ UNCHANGED sent
  /\ Leave(hd)
  /\ PublishFails(hd.host)
  /\ UNCHANGED <<calling, documents, queue, channels, ran>>

\* ackEvent, on the channel the host has now; it throws on a closed one.
AckEvent(hd) ==
  /\ hd.pc = "acking"
  /\ LET D == Tagged(hd.host, hd.tag) IN
       IF hd.host \notin open THEN UNCHANGED <<queue, channels>>
       ELSE IF D = {} THEN Close(hd.host)
       ELSE /\ unacked' = unacked \ D
            /\ acked' = acked \cup {d.event : d \in D}
            /\ UNCHANGED <<ready, channels>>
  /\ Leave(hd)
  /\ UNCHANGED <<calling, documents, sent, ran, faults>>

-----------------------------------------------------------------------------
CallerNext ==
  \/ \E e \in Events :
       \/ Call(e) \/ SaveEvent(e) \/ SaveEventFails(e)
       \/ Confirm(e) \/ ConfirmFails(e)
       \/ ReceiveResult(e) \/ FindResult(e) \/ FindResultFails(e)
  \/ SendEvents \/ SendEventsFails \/ CallerCrash

ChannelNext ==
  \E h \in Hosts :
    \/ ChannelCloses(h) \/ Reopen(h) \/ HostCrash(h)
    \/ \E e \in Events : Deliver(h, e)

HandlerStep(hd) ==
  \/ FindEvent(hd) \/ FindEventFails(hd)
  \/ \E code \in Codes : ExecuteLogic(hd, code)
  \/ SaveResult(hd) \/ SaveResultFails(hd)
  \/ SendResult(hd) \/ SendResultFails(hd)
  \/ SaveNotif(hd) \/ SaveNotifFails(hd)
  \/ SendNotif(hd) \/ SendNotifFails(hd)
  \/ AckEvent(hd)

Next == CallerNext \/ ChannelNext \/ \E hd \in handlers : HandlerStep(hd)

Spec == Init /\ [][Next]_vars

\* The broker delivers, the database and the confirms answer, and a channel that
\* closed is opened again.  Nothing obliges a method to be called or a fault to
\* happen.  Handlers of one event at one host are not told apart.
Fairness ==
  /\ WF_vars(SendEvents \/ SendEventsFails)
  /\ \A e \in Events :
       /\ WF_vars(SaveEvent(e) \/ SaveEventFails(e))
       /\ WF_vars(Confirm(e) \/ ConfirmFails(e))
       /\ WF_vars(ReceiveResult(e))
       /\ WF_vars(FindResult(e) \/ FindResultFails(e))
       /\ WF_vars(\E h \in Hosts : Deliver(h, e))
  /\ \A h \in Hosts :
       /\ WF_vars(Reopen(h))
       /\ \A e \in Events :
            WF_vars(\E hd \in handlers : hd.host = h /\ hd.event = e /\ HandlerStep(hd))

FairSpec == Spec /\ Fairness

-----------------------------------------------------------------------------
(* Properties.                                                             *)

\* An event leaves the queue only when it was handled to the end: its result
\* was sent, and its notification saved and sent (mq.js:138-163 acks last).
AckedIsDone ==
  \A e \in acked : e \in answered /\ e \in notifs /\ broadcast[e] # {}

\* Deliveries that no handler of the current channel is going to acknowledge.
Parked ==
  {d \in unacked :
     ~ \E hd \in handlers : hd.host = d.host /\ hd.chan = chan[d.host] /\ hd.tag = d.tag}

\* A delivery is left without a handler only by a failure after the logic, one
\* for each (the steps of mq.js:138-163 have no catch).
ParkedByErrors == Cardinality(Parked) <= errors

\* A callback is given two answers only when the confirm of its publish failed
\* (mq.js:189 resumes the step after the send and keeps the result handler).
AnsweredTwiceByErrors ==
  /\ \A e \in Events : Len(told[e]) <= 2
  /\ Cardinality({e \in Events : Len(told[e]) = 2}) <= errors

ClosedChannels ==
  {c \in Hosts \X (0 .. MaxChannels) :
     c[2] < chan[c[1]] \/ (c[2] = chan[c[1]] /\ c[1] \notin open)}

\* The logic of an event runs again only after a channel closed under it, and
\* once for each such channel: a nack comes before the logic, and returns no
\* other delivery than its own (mq.js:111-122).
RerunOnlyAfterClose ==
  \A e \in Events : execs[e] <= 1 + Cardinality(ClosedChannels)

\* A result document that pairs success with the message of a failure comes
\* from a rerun whose upsert left the older message (mongo.js:111-120).
MixedResultOnlyByRerun ==
  \A e \in Events : results[e].code = OK /\ results[e].message # 0 =>
    {OK, results[e].message} \subseteq outcomes[e] /\ ClosedChannels # {}

\* A result is sent for an event whose logic never ran only if a channel closed
\* while its lookup failed (the catch of mq.js:119 falls into that of 128).
ExecutedUnlessClosed ==
  \A e \in answered : execs[e] = 0 => ClosedChannels # {}

\* A published event is answered, unless its caller restarts or a failure parks
\* it: no crash or close of a host loses a call.
EventuallyAnswered ==
  \A e \in Events \ Unparseable :
    stage[e] = "sent" ~>
      told[e] # <<>> \/ stage[e] = "gone" \/ \E d \in Parked : d.event = e

\* What the callers are promised.
Promise == INSTANCE RemoteCall WITH Calls <- Events, Codes <- AllCodes

CallSpec == Promise!Spec
=============================================================================
