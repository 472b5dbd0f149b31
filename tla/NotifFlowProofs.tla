--------------------------- MODULE NotifFlowProofs ---------------------------
(***************************************************************************)
(* Theorems about NotifFlow: it takes no step that EventFlow does not      *)
(* take, so that what is proved of EventFlow holds with a subscriber too;  *)
(* no notification is ever let go; and what is heard, of what and how      *)
(* often.                                                                  *)
(***************************************************************************)
EXTENDS NotifFlow, EventFlowFaultProofs

\* Each step of NotifFlow is one of EventFlow, or leaves its variables alone.
LEMMA NotifStepFlow == NotifNext => [Next]_vars
<1> SUFFICES ASSUME NotifNext PROVE Next \/ UNCHANGED vars
  BY DEF NotifNext
<1>1. CASE FlowStep
  <2>1. ASSUME NEW hd \in handlers, Broadcast(hd) PROVE Next
    BY <2>1 DEF Broadcast, Next, HandlerStep
  <2>2. ASSUME NEW hd \in handlers, Executes(hd) PROVE Next
    BY <2>2 DEF Executes, Next, HandlerStep
  <2> QED BY <1>1, <2>1, <2>2 DEF FlowStep, Next
<1>2. CASE Listen
  BY <1>2 DEF Listen
<1>3. ASSUME NEW e \in Events, RemoveOverHttp(e) \/ Receive(e) \/ ParseNotif(e) PROVE UNCHANGED vars
  BY <1>3 DEF RemoveOverHttp, Receive, ParseNotif
<1>4. ASSUME NEW lost \in {"channel", "process"}, LoseSubscriber(lost) PROVE UNCHANGED vars
  BY <1>4 DEF LoseSubscriber
<1> QED BY <1>1, <1>2, <1>3, <1>4 DEF NotifNext

\* The flow with a subscriber implements the flow without one: mq.js:66-93 does
\* nothing to an event, its result or its caller.
THEOREM ImplementsFlow == NotifSpec => Spec
<1>1. NotifInit => Init
  BY DEF NotifInit
<1>2. [NotifNext]_notifVars => [Next]_vars
  <2>1. UNCHANGED notifVars => UNCHANGED vars
    BY DEF notifVars
  <2> QED BY <2>1, NotifStepFlow
<1> QED BY <1>1, <1>2, PTL DEF NotifSpec, Spec

\* So the caller is promised the same, whatever becomes of the notifications.
THEOREM KeepsPromiseNotified == NotifSpec => CallSpec
BY ImplementsFlow, KeepsPromise, PTL

-----------------------------------------------------------------------------
\* What a step of the flow may do to the subscriber: add to its queue.
Adds ==
  /\ notifQueue' \in [Events -> Nat]
  /\ \A e \in Events : notifQueue'[e] >= notifQueue[e]
  /\ unheard' \subseteq Events
  /\ UNCHANGED <<routed, listening, notifHeld, lookups>>
  /\ subFaults' = subFaults

LEMMA SameAdds == ASSUME NotifTypeOK, UNCHANGED <<subscriber, unheard>> PROVE Adds
BY DEF NotifTypeOK, subscriber, Adds

LEMMA ArriveAdds ==
  ASSUME NotifTypeOK, NEW hd, hd.event \in Events, Arrive(hd)
  PROVE  Adds
<1>1. CASE routed
  BY <1>1 DEF Arrive, NotifTypeOK, Adds
<1>2. CASE ~ routed
  BY <1>2 DEF Arrive, NotifTypeOK, Adds
<1> QED BY <1>1, <1>2

LEMMA RemovedType ==
  ASSUME NotifTypeOK, NEW e \in Events, NEW by \in {"http", "event"}, Removed(e, by)
  PROVE  removedBy' \in [Events -> {"nobody", "http", "event"}]
BY DEF NotifTypeOK, Removed

LEMMA FlowStepAdds ==
  ASSUME NotifTypeOK, TypeOK, FlowStep
  PROVE  Adds /\ removedBy' \in [Events -> {"nobody", "http", "event"}]
<1>1. CASE UNCHANGED <<subscriber, removedBy, unheard>>
  BY <1>1, SameAdds DEF NotifTypeOK
<1>2. ASSUME NEW hd \in handlers, Broadcast(hd)
      PROVE  Adds /\ removedBy' = removedBy
  <2>1. hd.event \in Events
    BY DEF TypeOK, Handlers
  <2>2. Arrive(hd) \/ UNCHANGED <<subscriber, unheard>>
    BY <1>2 DEF Broadcast
  <2> QED BY <1>2, <2>1, <2>2, ArriveAdds, SameAdds DEF Broadcast
<1>3. ASSUME NEW hd \in handlers, Executes(hd)
      PROVE  Adds /\ removedBy' \in [Events -> {"nobody", "http", "event"}]
  <2>1. hd.event \in Events
    BY DEF TypeOK, Handlers
  <2>2. Removed(hd.event, "event") \/ removedBy' = removedBy
    BY <1>3 DEF Executes
  <2>3. UNCHANGED <<subscriber, unheard>>
    BY <1>3 DEF Executes
  <2> QED BY <2>1, <2>2, <2>3, SameAdds, RemovedType DEF NotifTypeOK
<1> QED BY <1>1, <1>2, <1>3 DEF FlowStep, NotifTypeOK

-----------------------------------------------------------------------------
\* One step: the types are kept, and so is every message.
LEMMA NotifStep ==
  ASSUME NotifTypeOK, TypeOK, NotifNext
  PROVE  NotifTypeOK' /\ \A e \in Events : Messages(e)' >= Messages(e)
<1>1. CASE FlowStep
  <2>1. Adds /\ removedBy' \in [Events -> {"nobody", "http", "event"}]
    BY <1>1, FlowStepAdds
  <2> QED BY <2>1 DEF Adds, NotifTypeOK, Messages
<1>2. CASE Listen
  BY <1>2 DEF Listen, NotifTypeOK, Messages
<1>3. ASSUME NEW e \in Events, RemoveOverHttp(e)
      PROVE  NotifTypeOK' /\ \A d \in Events : Messages(d)' >= Messages(d)
  <2>1. removedBy' \in [Events -> {"nobody", "http", "event"}]
    BY <1>3, RemovedType DEF RemoveOverHttp
  <2> QED BY <1>3, <2>1 DEF RemoveOverHttp, subscriber, NotifTypeOK, Messages
<1>4. ASSUME NEW e \in Events, Receive(e)
      PROVE  NotifTypeOK' /\ \A d \in Events : Messages(d)' >= Messages(d)
  BY <1>4 DEF Receive, NotifTypeOK, Messages
<1>5. ASSUME NEW e \in Events, ParseNotif(e)
      PROVE  NotifTypeOK' /\ \A d \in Events : Messages(d)' >= Messages(d)
  BY <1>5 DEF ParseNotif, AfterError, NotifTypeOK, Messages
<1>6. ASSUME NEW lost \in {"channel", "process"}, LoseSubscriber(lost)
      PROVE  NotifTypeOK' /\ \A d \in Events : Messages(d)' >= Messages(d)
  <2>1. subFaults' \in 0 .. MaxFaults
    <3>1. subFaults' \in Nat /\ crashes' + closes' + errors' + subFaults' <= MaxFaults
      BY <1>6 DEF LoseSubscriber, NotifTypeOK, NotifNext
    <3>2. crashes' \in Nat /\ closes' \in Nat /\ errors' \in Nat
      BY <1>6, FlowAssumption DEF LoseSubscriber, TypeOK, vars, faults
    <3> HIDE DEF NotifNext
    <3>3. \A a, b, c, d \in Nat : a + b + c + d <= MaxFaults => d <= MaxFaults
      BY NotifAssumption
    <3>4. subFaults' <= MaxFaults
      BY <3>1, <3>2, <3>3
    <3> QED BY <3>1, <3>4, NotifAssumption
  <2>2. lookups' \in [Events -> Nat]
    BY <1>6 DEF LoseSubscriber, NotifTypeOK
  <2>3. /\ notifQueue' \in [Events -> Nat] /\ notifHeld' \in [Events -> Nat]
        /\ \A d \in Events : notifQueue'[d] = notifQueue[d] + notifHeld[d] /\ notifHeld'[d] = 0
    BY <1>6 DEF LoseSubscriber, Returned, NotifTypeOK
  <2>4. \A d \in Events : Messages(d)' >= Messages(d)
    BY <2>3 DEF Messages, NotifTypeOK
  <2> QED BY <1>6, <2>1, <2>2, <2>3, <2>4 DEF LoseSubscriber, NotifTypeOK
<1> QED BY <1>1, <1>2, <1>3, <1>4, <1>5, <1>6 DEF NotifNext

\* The variables of the subscriber keep their types.
THEOREM NotifTypeCorrect == NotifSpec => []NotifTypeOK
<1>1. NotifInit => NotifTypeOK
  <2> SUFFICES ASSUME NotifInit PROVE NotifTypeOK
    OBVIOUS
  <2>1. routed \in BOOLEAN /\ listening \in BOOLEAN
    BY Zenon DEF NotifInit
  <2>2. subFaults \in 0 .. MaxFaults
    BY NotifAssumption DEF NotifInit
  <2> QED BY <2>1, <2>2 DEF NotifInit, NotifTypeOK
<1>2. NotifTypeOK /\ TypeOK /\ [NotifNext]_notifVars => NotifTypeOK'
  <2>1. ASSUME NotifTypeOK, UNCHANGED notifVars PROVE NotifTypeOK'
    BY <2>1 DEF NotifTypeOK, notifVars, subscriber
  <2> QED BY <2>1, NotifStep
<1>3. NotifSpec => []TypeOK
  BY ImplementsFlow, TypeCorrect, PTL
<1> QED BY <1>1, <1>2, <1>3, PTL DEF NotifSpec

\* No notification that reached the queue is let go again, for any number of
\* events and faults: mq.js:75 never gets to the step of mq.js:90.
THEOREM NeverLetGo == NotifSpec => NotifKept
<1>1. NotifTypeOK /\ TypeOK /\ [NotifNext]_notifVars
        => [\A e \in Events : Messages(e)' >= Messages(e)]_notifVars
  BY NotifStep
<1>2. NotifSpec => []TypeOK
  BY ImplementsFlow, TypeCorrect, PTL
<1> QED BY <1>1, <1>2, NotifTypeCorrect, PTL DEF NotifSpec, NotifKept

-----------------------------------------------------------------------------
\* Where a message comes from: a handler that has run the logic, or was led past
\* it by a closed channel.
LEMMA HeardNext ==
  ASSUME TypeOK, RanAgree, NotifTypeOK, HeardOfEventsOnly, [NotifNext]_notifVars
  PROVE  HeardOfEventsOnly'
<1>1. SUFFICES ASSUME NEW e \in Events,
                      ~ RanUnlessClosed(e)
               PROVE  Messages(e)' = 0 \/ RanUnlessClosed(e)'
  <2>1. [Next]_vars
    BY NotifStepFlow DEF notifVars
  <2>2. \A e \in Events : RanUnlessClosed(e) => RanUnlessClosed(e)'
    BY <2>1, RanGrows
  <2> QED BY <1>1, <2>2 DEF HeardOfEventsOnly, RanUnlessClosed
<1>2. notifQueue[e] = 0 /\ notifHeld[e] = 0
  BY <1>1 DEF HeardOfEventsOnly, RanUnlessClosed, Messages, NotifTypeOK
<1>3. ASSUME notifQueue'[e] = 0, notifHeld'[e] = 0 PROVE Messages(e)' = 0
  BY <1>3 DEF Messages
<1>4. ASSUME UNCHANGED <<notifQueue, notifHeld>> PROVE Messages(e)' = 0
  BY <1>2, <1>3, <1>4
<1>5. CASE FlowStep
  <2>1. ASSUME NEW hd \in handlers, Broadcast(hd) PROVE Messages(e)' = 0
    <3>1. CASE UNCHANGED <<subscriber, unheard>>
      BY <1>4, <3>1 DEF subscriber
    <3>2. CASE Arrive(hd)
      <4>1. hd.pc = "broadcasting"
        BY <2>1 DEF Broadcast, SendNotif, SendNotifFails
      <4>2. hd.event # e
        BY <1>1, <4>1 DEF RanAgree
      <4>3. notifQueue' = notifQueue \/ notifQueue' = [notifQueue EXCEPT ![hd.event] = @ + 1]
        BY <3>2 DEF Arrive
      <4>4. notifQueue'[e] = notifQueue[e] /\ notifHeld' = notifHeld
        BY <3>2, <4>2, <4>3 DEF Arrive, NotifTypeOK
      <4> QED BY <1>2, <1>3, <4>4
    <3> QED BY <2>1, <3>1, <3>2 DEF Broadcast
  <2>2. ASSUME NEW hd \in handlers, Executes(hd) PROVE Messages(e)' = 0
    BY <1>4, <2>2 DEF Executes, subscriber
  <2>3. CASE UNCHANGED <<subscriber, removedBy, unheard>>
    BY <1>4, <2>3 DEF subscriber
  <2> QED BY <1>5, <2>1, <2>2, <2>3 DEF FlowStep
<1>6. CASE Listen
  BY <1>4, <1>6 DEF Listen
<1>7. ASSUME NEW d \in Events, RemoveOverHttp(d) \/ ParseNotif(d) PROVE Messages(e)' = 0
  BY <1>4, <1>7 DEF RemoveOverHttp, ParseNotif, AfterError, subscriber
<1>8. ASSUME NEW d \in Events, Receive(d) PROVE Messages(e)' = 0
  <2>1. d # e
    BY <1>2, <1>8 DEF Receive
  <2>2. notifQueue'[e] = 0 /\ notifHeld'[e] = 0
    BY <1>2, <1>8, <2>1 DEF Receive, NotifTypeOK
  <2> QED BY <1>3, <2>2
<1>9. ASSUME NEW lost \in {"channel", "process"}, LoseSubscriber(lost) PROVE Messages(e)' = 0
  <2>1. notifQueue'[e] = 0 /\ notifHeld'[e] = 0
    BY <1>2, <1>9 DEF LoseSubscriber, Returned
  <2> QED BY <1>3, <2>1
<1>10. CASE UNCHANGED notifVars
  BY <1>4, <1>10 DEF notifVars, subscriber
<1> QED BY <1>5, <1>6, <1>7, <1>8, <1>9, <1>10 DEF NotifNext

\* A notification tells of an event whose logic ran, and never of a removal over
\* HTTP, unless a channel of the host closed, for any number of events.
THEOREM HeardIsExecuted == NotifSpec => []HeardOfEventsOnly
<1>1. NotifInit => HeardOfEventsOnly
  BY DEF NotifInit, HeardOfEventsOnly, Messages
<1>2. TypeOK /\ RanAgree /\ NotifTypeOK /\ HeardOfEventsOnly /\ [NotifNext]_notifVars
        => HeardOfEventsOnly'
  BY HeardNext
<1>3. NotifSpec => [](TypeOK /\ RanAgree)
  BY ImplementsFlow, TypeCorrect, RanInvariance, PTL
<1> QED BY <1>1, <1>2, <1>3, NotifTypeCorrect, PTL DEF NotifSpec

-----------------------------------------------------------------------------
(* What is acknowledged was heard of.                                      *)

Heard(e) == Messages(e) > 0 \/ e \in unheard

\* A handler that is to acknowledge has told the subscriber.
HeardAgree ==
  /\ \A hd \in handlers : hd.pc = "acking" => Heard(hd.event)
  /\ \A e \in acked : Heard(e)

LEMMA HeardGrows ==
  ASSUME TypeOK, NotifTypeOK, [NotifNext]_notifVars
  PROVE  \A e \in Events : Heard(e) => Heard(e)'
<1>1. \A e \in Events : Messages(e)' >= Messages(e)
  <2>1. CASE UNCHANGED notifVars
    BY <2>1 DEF notifVars, subscriber, Messages, NotifTypeOK
  <2> QED BY <2>1, NotifStep
<1>2. unheard \subseteq unheard'
  BY DEF NotifNext, FlowStep, Broadcast, Arrive, Executes, Listen, RemoveOverHttp, Receive,
     ParseNotif, LoseSubscriber, notifVars, subscriber
<1>3. NotifTypeOK'
  <2>1. CASE UNCHANGED notifVars
    BY <2>1 DEF notifVars, subscriber, NotifTypeOK
  <2> QED BY <2>1, NotifStep
<1>4. \A e \in Events : Messages(e) \in Nat /\ Messages(e)' \in Nat
  BY <1>3 DEF NotifTypeOK, Messages
<1> QED BY <1>1, <1>2, <1>4 DEF Heard

\* A notification that arrives is heard, or no queue is bound.
LEMMA ArriveHeard ==
  ASSUME NotifTypeOK, NEW hd, hd.event \in Events, Arrive(hd)
  PROVE  Heard(hd.event)'
<1>1. CASE routed
  <2>1. notifQueue'[hd.event] = notifQueue[hd.event] + 1 /\ notifHeld' = notifHeld
    BY <1>1 DEF Arrive, NotifTypeOK
  <2>2. notifQueue[hd.event] \in Nat /\ notifHeld[hd.event] \in Nat
    BY DEF NotifTypeOK
  <2>3. Messages(hd.event)' > 0
    BY <2>1, <2>2 DEF Messages
  <2> QED BY <2>3 DEF Heard
<1>2. CASE ~ routed
  BY <1>2 DEF Arrive, Heard
<1> QED BY <1>1, <1>2

LEMMA HeardAgreeNext ==
  ASSUME TypeOK, OwnsAgree, NotifTypeOK, HeardAgree, [NotifNext]_notifVars
  PROVE  HeardAgree'
<1> USE Groups, CodeFacts
<1>1. \A e \in Events : Heard(e) => Heard(e)'
  BY HeardGrows
<1>2. /\ handlers \subseteq Handlers /\ acked \subseteq Events
      /\ \A hd \in handlers : hd.event \in Events /\ hd.code \in AllCodes \cup {0}
  BY DEF TypeOK, Handlers
<1>3. ASSUME \A g \in handlers' : g \in handlers \/ g.pc # "acking", acked' = acked
      PROVE  HeardAgree'
  BY <1>1, <1>2, <1>3 DEF HeardAgree
<1>4. ASSUME CallerNext PROVE HeardAgree'
  BY <1>3, <1>4, CallerFrame
<1>5. ASSUME ChannelNext PROVE HeardAgree'
  BY <1>3, <1>5 DEF ChannelNext, ChannelCloses, Reopen, HostCrash, Deliver, Close, Requeue
<1>6. ASSUME NEW hd \in handlers, NEW pc \in Pcs \ {"acking"}, NEW code \in AllCodes \cup {0},
             Move(hd, pc, code), acked' = acked
      PROVE  HeardAgree'
  <2>1. \A g \in handlers' : g \in handlers \/ g.pc = pc
    BY <1>2, <1>6, MoveFacts
  <2> QED BY <1>3, <1>6, <2>1
<1>7. ASSUME NEW hd \in handlers, Leave(hd), acked' = acked PROVE HeardAgree'
  BY <1>3, <1>7 DEF Leave
<1>8. ASSUME NEW hd \in handlers, Broadcast(hd) PROVE HeardAgree'
  <2>1. CASE SendNotif(hd) /\ Arrive(hd)
    <3>1. Heard(hd.event)'
      BY <1>2, <2>1, ArriveHeard
    <3>2. \A g \in handlers' : g \in handlers \/ g.event = hd.event
      <4>1. Move(hd, "acking", hd.code) /\ "acking" \in Pcs
        BY <2>1 DEF SendNotif, Pcs
      <4> QED BY <1>2, <4>1, MoveFacts
    <3>3. acked' = acked
      BY <2>1 DEF SendNotif
    <3> QED BY <1>1, <1>2, <3>1, <3>2, <3>3 DEF HeardAgree
  <2>2. CASE SendNotifFails(hd)
    BY <1>7, <2>2 DEF SendNotifFails
  <2> QED BY <1>8, <2>1, <2>2 DEF Broadcast
<1>9. ASSUME NEW hd \in handlers, NEW code \in Codes, ExecuteLogic(hd, code) PROVE HeardAgree'
  BY <1>6, <1>9 DEF ExecuteLogic, Pcs
<1>10. ASSUME NEW hd \in handlers, AckEvent(hd) PROVE HeardAgree'
  <2>1. hd.host \in open /\ Tagged(hd.host, hd.tag) = {Own(hd)}
    BY OwnedHost
  <2>2. Leave(hd) /\ acked' = acked \cup {hd.event} /\ hd.pc = "acking"
    BY <1>10, <2>1 DEF AckEvent, Own
  <2> QED BY <1>1, <1>2, <2>2 DEF HeardAgree, Leave
<1>11. ASSUME NEW hd \in handlers, FindEventFails(hd) PROVE HeardAgree'
  <2>1. hd.host \in open /\ Tagged(hd.host, hd.tag) = {Own(hd)}
    BY OwnedHost
  <2>2. Leave(hd) /\ acked' = acked
    BY <1>11, <2>1 DEF FindEventFails, Nack, NackThrows, Requeue
  <2> QED BY <1>7, <2>2
<1>12. ASSUME NEW hd \in handlers,
              FindEvent(hd) \/ SaveResult(hd) \/ SendResult(hd) \/ SaveNotif(hd)
       PROVE  HeardAgree'
  BY <1>2, <1>6, <1>12 DEF FindEvent, SaveResult, SendResult, SaveNotif, Pcs
<1>13. ASSUME NEW hd \in handlers, SaveResultFails(hd) \/ SendResultFails(hd) \/ SaveNotifFails(hd)
       PROVE  HeardAgree'
  BY <1>7, <1>13 DEF SaveResultFails, SendResultFails, SaveNotifFails
<1>14. ASSUME FlowStep PROVE HeardAgree'
  <2>1. ASSUME NEW hd \in handlers, hd.pc \notin {"broadcasting", "executing"}, HandlerStep(hd)
        PROVE  HeardAgree'
    BY <1>10, <1>11, <1>12, <1>13, <2>1 DEF HandlerStep, ExecuteLogic, SendNotif, SendNotifFails
  <2>2. ASSUME NEW hd \in handlers, Executes(hd) PROVE HeardAgree'
    BY <1>9, <2>2 DEF Executes
  <2> QED BY <1>4, <1>5, <1>8, <1>14, <2>1, <2>2 DEF FlowStep
<1>15. ASSUME UNCHANGED <<handlers, acked>> PROVE HeardAgree'
  BY <1>3, <1>15
<1>16. ASSUME NotifNext, ~ FlowStep PROVE UNCHANGED <<handlers, acked>>
  BY <1>16 DEF NotifNext, Listen, RemoveOverHttp, Receive, ParseNotif, LoseSubscriber, vars
<1>17. UNCHANGED notifVars => UNCHANGED <<handlers, acked>>
  BY DEF notifVars, vars
<1> QED BY <1>14, <1>15, <1>16, <1>17

\* A turn of the composition is one of the flow, so that its closes are counted too.
LEMMA NotifClosesCounted ==
  ASSUME TypeOK, [NotifNext]_notifVars, closes' = 0
  PROVE  closes = 0 /\ Quiet
<1>1. [Next]_vars
  BY NotifStepFlow DEF notifVars
<1> QED BY <1>1, ClosesCounted

HeardUntilClose == closes = 0 => HeardAgree

\* Until a channel of a host closes without its process, an event leaves the queue of
\* its host only with a notification in that of the subscriber, for any number of
\* events, crashes and failures (mq.js:151-163).
THEOREM AckedHeardUntilClose == NotifSpec => [](closes = 0 => AckedIsHeard)
<1>1. NotifInit => HeardUntilClose
  BY DEF NotifInit, Init, HeardUntilClose, HeardAgree
<1>2. TypeOK /\ OwnsUntilClose /\ NotifTypeOK /\ HeardUntilClose /\ [NotifNext]_notifVars
        => HeardUntilClose'
  BY NotifClosesCounted, HeardAgreeNext DEF OwnsUntilClose, HeardUntilClose
<1>3. NotifSpec => [](TypeOK /\ OwnsUntilClose)
  BY ImplementsFlow, TypeCorrect, OwnsInvariance, PTL
<1>4. HeardUntilClose => (closes = 0 => AckedIsHeard)
  BY DEF HeardUntilClose, HeardAgree, AckedIsHeard, Heard
<1> QED BY <1>1, <1>2, <1>3, <1>4, NotifTypeCorrect, PTL DEF NotifSpec

\* If channels close only with their process, it is always so.
COROLLARY AckedHeard ==
  ASSUME MaxCloses = 0 PROVE NotifSpec => []AckedIsHeard
<1>1. TypeOK /\ (closes = 0 => AckedIsHeard) => AckedIsHeard
  BY NoCloses
<1> QED BY <1>1, AckedHeardUntilClose, ImplementsFlow, TypeCorrect, PTL

-----------------------------------------------------------------------------
(* How often an event is heard of.                                         *)

\* Every notification, there or still to come, is the first or follows the close of
\* a channel of the host.
HeardPaid ==
  \A e \in Events : Messages(e) + Left(e, BeforeAck) <= 1 + Cardinality(ClosedChannels)

\* Only a broadcast adds notifications, and one at most.
LEMMA MessagesStep ==
  ASSUME TypeOK, NotifTypeOK, [NotifNext]_notifVars
  PROVE  \/ \A e \in Events : Messages(e)' = Messages(e)
         \/ \E hd \in handlers :
              /\ Broadcast(hd) /\ Messages(hd.event)' <= Messages(hd.event) + 1
              /\ \A e \in Events \ {hd.event} : Messages(e)' = Messages(e)
<1>1. notifQueue \in [Events -> Nat] /\ notifHeld \in [Events -> Nat]
  BY DEF NotifTypeOK
<1>2. ASSUME UNCHANGED <<notifQueue, notifHeld>> PROVE \A e \in Events : Messages(e)' = Messages(e)
  BY <1>2 DEF Messages
<1>3. ASSUME NEW hd \in handlers, Broadcast(hd)
      PROVE  /\ Messages(hd.event)' <= Messages(hd.event) + 1
             /\ \A e \in Events \ {hd.event} : Messages(e)' = Messages(e)
  <2>1. hd.event \in Events
    BY DEF TypeOK, Handlers
  <2>2. \/ UNCHANGED <<notifQueue, notifHeld>>
        \/ notifQueue' = [notifQueue EXCEPT ![hd.event] = @ + 1] /\ UNCHANGED notifHeld
    BY <1>3 DEF Broadcast, Arrive, subscriber
  <2> QED BY <1>1, <2>1, <2>2 DEF Messages
<1>4. ASSUME NEW d \in Events, Receive(d) PROVE \A e \in Events : Messages(e)' = Messages(e)
  BY <1>1, <1>4 DEF Receive, Messages
<1>5. ASSUME NEW lost \in {"channel", "process"}, LoseSubscriber(lost)
      PROVE  \A e \in Events : Messages(e)' = Messages(e)
  BY <1>1, <1>5 DEF LoseSubscriber, Returned, Messages
<1>6. ASSUME \/ Listen
             \/ \E d \in Events : RemoveOverHttp(d) \/ ParseNotif(d)
             \/ UNCHANGED <<subscriber, unheard>>
             \/ UNCHANGED notifVars
      PROVE  UNCHANGED <<notifQueue, notifHeld>>
  BY <1>6 DEF Listen, RemoveOverHttp, ParseNotif, AfterError, subscriber, notifVars
<1>7. ASSUME FlowStep
      PROVE  UNCHANGED <<subscriber, unheard>> \/ \E hd \in handlers : Broadcast(hd)
  BY <1>7 DEF FlowStep, Executes
<1> QED BY <1>2, <1>3, <1>4, <1>5, <1>6, <1>7 DEF NotifNext

LEMMA HeardPaidNext ==
  ASSUME Quiet, TypeOK, OwnsAgree, ExecsPaid, NotifTypeOK, NotifTypeOK', HeardPaid,
         [NotifNext]_notifVars
  PROVE  HeardPaid'
<1> USE Groups
<1>1. [Next]_vars
  BY NotifStepFlow DEF notifVars
<1>2. /\ Cardinality(ClosedChannels) \in Nat /\ Cardinality(ClosedChannels') \in Nat
      /\ Cardinality(ClosedChannels) <= Cardinality(ClosedChannels')
  BY <1>1, ClosedStep DEF ExecsPaid
<1>3. \A e \in Events : Messages(e) \in Nat /\ Messages(e)' \in Nat
  BY DEF NotifTypeOK, Messages
<1>4. ASSUME NEW e \in Events, Messages(e)' = Messages(e)
      PROVE  Messages(e)' + Left(e, BeforeAck)' <= 1 + Cardinality(ClosedChannels')
  <2>1. Messages(e) \in Nat /\ Messages(e) + Left(e, BeforeAck) <= 1 + Cardinality(ClosedChannels)
    BY <1>3 DEF HeardPaid
  <2>2. CASE Left(e, BeforeAck)' <= Left(e, BeforeAck)
    BY <1>2, <1>4, <2>1, <2>2 DEF Left
  <2>3. CASE ~ (Left(e, BeforeAck)' <= Left(e, BeforeAck))
    <3>1. ~ Awaits(e, BeforeAck) /\ Awaits(e, BeforeAck)'
      BY <2>3 DEF Left
    <3>2. Cardinality(ClosedChannels') = Cardinality(ClosedChannels) + 1
      BY <1>1, <3>1, AwaitsStep DEF ExecsPaid
    <3> QED BY <1>2, <1>4, <2>1, <3>1, <3>2 DEF Left
  <2> QED BY <2>2, <2>3
<1>5. ASSUME NEW hd \in handlers, Broadcast(hd), Messages(hd.event)' <= Messages(hd.event) + 1
      PROVE  Messages(hd.event)' + Left(hd.event, BeforeAck)' <= 1 + Cardinality(ClosedChannels')
  <2>1. hd.event \in Events /\ hd.code \in AllCodes \cup {0}
    BY DEF TypeOK, Handlers
  <2>2. /\ hd.pc = "broadcasting" /\ UNCHANGED <<stage, ready>>
        /\ Move(hd, "acking", hd.code) \/ Leave(hd)
    BY <1>5 DEF Broadcast, SendNotif, SendNotifFails
  <2>3. "broadcasting" \in BeforeAck /\ "acking" \in Pcs \ BeforeAck
    BY DEF BeforeAck, Pcs
  <2>4. Awaits(hd.event, BeforeAck) /\ ~ Awaits(hd.event, BeforeAck)'
    BY <2>1, <2>2, <2>3, HandlerSpends DEF ExecsPaid
  <2>5. Messages(hd.event) + 1 <= 1 + Cardinality(ClosedChannels) /\ Left(hd.event, BeforeAck)' = 0
    BY <2>1, <2>4 DEF HeardPaid, Left
  <2> QED BY <1>2, <1>3, <1>5, <2>1, <2>5
<1> QED BY <1>4, <1>5, MessagesStep DEF HeardPaid

HeardPaidUntilClose == closes = 0 => HeardPaid

\* Until a channel of a host closes without its process, the subscriber is told again
\* only after a process of a host ended, once for each, for any number of events,
\* crashes and errors and of its own restarts (mq.js:151-163).
THEOREM HeardAgainPaidUntilClose == NotifSpec => [](closes = 0 => HeardAgainOnlyByRerun)
<1>1. NotifInit => HeardPaidUntilClose
  <2> SUFFICES ASSUME NotifInit, NEW e \in Events
               PROVE  Messages(e) + Left(e, BeforeAck) <= 1 + Cardinality(ClosedChannels)
    BY DEF HeardPaid, HeardPaidUntilClose
  <2>1. Cardinality(ClosedChannels) = 0
    BY NothingClosed DEF NotifInit
  <2>2. Messages(e) = 0
    BY DEF NotifInit, Messages
  <2> QED BY <2>1, <2>2 DEF Left
<1>2. TypeOK /\ OwnsUntilClose /\ PaidUntilClose /\ NotifTypeOK /\ NotifTypeOK'
        /\ HeardPaidUntilClose /\ [NotifNext]_notifVars => HeardPaidUntilClose'
  BY NotifClosesCounted, HeardPaidNext
  DEF OwnsUntilClose, PaidUntilClose, HeardPaidUntilClose
<1>3. NotifSpec => [](TypeOK /\ OwnsUntilClose /\ PaidUntilClose)
  BY ImplementsFlow, TypeCorrect, OwnsInvariance, ExecsInvariance, PTL
<1>4. NotifTypeOK /\ ExecsPaid /\ HeardPaid => HeardAgainOnlyByRerun
  <2> SUFFICES ASSUME NotifTypeOK, ExecsPaid, HeardPaid, NEW e \in Events
               PROVE  Messages(e) <= 1 + Cardinality(ClosedChannels)
    BY DEF HeardAgainOnlyByRerun
  <2>1. /\ Messages(e) \in Nat /\ Cardinality(ClosedChannels) \in Nat
        /\ Messages(e) + Left(e, BeforeAck) <= 1 + Cardinality(ClosedChannels)
    BY FS_CardinalityType DEF NotifTypeOK, Messages, ExecsPaid, HeardPaid
  <2> QED BY <2>1 DEF Left
<1>5. NotifTypeOK /\ PaidUntilClose /\ HeardPaidUntilClose => (closes = 0 => HeardAgainOnlyByRerun)
  BY <1>4 DEF PaidUntilClose, HeardPaidUntilClose
<1> QED BY <1>1, <1>2, <1>3, <1>5, NotifTypeCorrect, PTL DEF NotifSpec

\* If channels close only with their process, it is always so.
COROLLARY HeardAgainPaid ==
  ASSUME MaxCloses = 0 PROVE NotifSpec => []HeardAgainOnlyByRerun
<1>1. TypeOK /\ (closes = 0 => HeardAgainOnlyByRerun) => HeardAgainOnlyByRerun
  BY NoCloses
<1> QED BY <1>1, HeardAgainPaidUntilClose, ImplementsFlow, TypeCorrect, PTL
=============================================================================
