------------------------- MODULE EventFlowFaultProofs -------------------------
(***************************************************************************)
(* Proofs about EventFlow of the properties that count faults: what        *)
(* happens more than once, or is left undone, has as many causes.          *)
(***************************************************************************)
EXTENDS EventFlowProofs, FiniteSetTheorems

-----------------------------------------------------------------------------
(* How often an event is handled, where channels close only with their     *)
(* process.                                                                *)

Unsent == {"idle", "saving", "connecting"}

\* The broker has one copy of an event, none before it is published.
OneCopy ==
  /\ \A c, d \in unacked : c.event = d.event => c = d
  /\ \A d \in unacked : d.event \notin ready
  /\ \A e \in Events : stage[e] \in Unsent => e \notin ready /\ \A d \in unacked : d.event # e

\* The event may yet pass the steps P: before its publish, from the queue, or by a
\* handler.
Awaits(e, P) ==
  \/ stage[e] \in Unsent
  \/ e \in ready
  \/ \E hd \in handlers : hd.event = e /\ hd.pc \in P

Left(e, P) == IF Awaits(e, P) THEN 1 ELSE 0

BeforeLogic == {"finding", "executing"}
BeforeAck == Pcs \ {"acking"}

\* A handler goes on, ends, or nacks, and only a nack returns anything.
Transits(hd) ==
  \/ \E pc \in Pcs \ {"finding"}, code \in AllCodes \cup {0} :
       /\ Move(hd, pc, code) /\ hd.pc # "acking" /\ (pc = "executing" => hd.pc = "finding")
       /\ UNCHANGED <<ready, unacked>>
  \/ Leave(hd) /\ ready' = ready /\ unacked' \subseteq unacked
  \/ /\ hd.pc = "finding" /\ Leave(hd)
     /\ ready' = ready \cup {hd.event} /\ unacked' = unacked \ {Own(hd)}

LEMMA HandlerTransits ==
  ASSUME TypeOK, OwnsAgree, NEW hd \in handlers, HandlerStep(hd)
  PROVE  Transits(hd) /\ UNCHANGED <<stage, channels>>
<1> USE Groups, CodeFacts
<1>1. hd.code \in AllCodes \cup {0} /\ Codes \subseteq AllCodes
  BY DEF TypeOK, Handlers
<1>2. hd.host \in open /\ Own(hd) \in unacked /\ Tagged(hd.host, hd.tag) = {Own(hd)}
  BY OwnedHost
<1>3. CASE FindEventFails(hd)
  <2>1. Nack(hd) /\ hd.pc = "finding" /\ UNCHANGED stage
    BY <1>2, <1>3 DEF FindEventFails, NackThrows
  <2>2. Leave(hd) /\ ready' = ready \cup {hd.event} /\ unacked' = unacked \ {Own(hd)}
        /\ UNCHANGED channels
    BY <1>2, <2>1 DEF Nack, Requeue, Own
  <2> QED BY <2>1, <2>2 DEF Transits
<1>4. CASE AckEvent(hd)
  BY <1>2, <1>4 DEF AckEvent, Transits
<1>5. CASE \/ FindEvent(hd) \/ SaveResult(hd) \/ SendResult(hd) \/ SaveNotif(hd) \/ SendNotif(hd)
           \/ \E code \in Codes : ExecuteLogic(hd, code)
  <2>1. /\ \E pc \in Pcs \ {"finding"}, code \in AllCodes \cup {0} :
             Move(hd, pc, code) /\ hd.pc # "acking" /\ (pc = "executing" => hd.pc = "finding")
        /\ UNCHANGED <<ready, unacked, stage, channels>>
    BY <1>1, <1>5
    DEF FindEvent, SaveResult, SendResult, SaveNotif, SendNotif, ExecuteLogic, Pcs
  <2> QED BY <2>1 DEF Transits
<1>6. CASE SaveResultFails(hd) \/ SendResultFails(hd) \/ SaveNotifFails(hd) \/ SendNotifFails(hd)
  BY <1>6 DEF SaveResultFails, SendResultFails, SaveNotifFails, SendNotifFails, Transits
<1> QED BY <1>3, <1>4, <1>5, <1>6 DEF HandlerStep

\* What the caller does to the queue: it publishes what it was about to.
LEMMA CallerPublishes ==
  ASSUME TypeOK, CallerNext
  PROVE  /\ \A e \in Events : stage'[e] \in Unsent => stage[e] \in Unsent
         /\ ready \subseteq ready' /\ ready' \subseteq Events
         /\ \A e \in ready' \ ready : stage[e] \in Unsent /\ stage'[e] \notin Unsent
<1> USE Groups
<1>1. stage \in [Events -> Stages] /\ ready \subseteq Events
  BY DEF TypeOK
<1>2. ASSUME NEW e \in Events,
             \/ Call(e) \/ SaveEvent(e) \/ SaveEventFails(e) \/ Confirm(e) \/ ConfirmFails(e)
             \/ FindResult(e) \/ FindResultFails(e)
      PROVE  ready' = ready /\ \A d \in Events : stage'[d] \in Unsent => stage[d] \in Unsent
  BY <1>1, <1>2 DEF Call, SaveEvent, SaveEventFails, Confirm, ConfirmFails, FindResult,
     FindResultFails, Unsent
<1>3. ASSUME NEW e \in Events, ReceiveResult(e)
      PROVE  ready' = ready /\ \A d \in Events : stage'[d] \in Unsent => stage[d] \in Unsent
  <2>1. stage' = stage \/ stage' = [stage EXCEPT ![e] = "finding"]
    BY <1>3 DEF ReceiveResult
  <2> QED BY <1>1, <1>3, <2>1 DEF ReceiveResult, Unsent
<1>4. CASE CallerCrash
  BY <1>1, <1>4 DEF CallerCrash, Unsent
<1>5. ASSUME NEW S \in SUBSET Connecting, Publish(S)
      PROVE  /\ \A e \in Events : stage'[e] \in Unsent => stage[e] \in Unsent
             /\ ready \subseteq ready' /\ ready' \subseteq Events
             /\ \A e \in ready' \ ready : stage[e] \in Unsent /\ stage'[e] \notin Unsent
  BY <1>1, <1>5 DEF Publish, Connecting, Unsent
<1>6. CASE SendEvents \/ SendEventsFails
  BY <1>5, <1>6 DEF SendEvents, SendEventsFails
<1> QED BY <1>1, <1>2, <1>3, <1>4, <1>6 DEF CallerNext

\* A handler is the only one of its event, which is nowhere else.
LEMMA OnlyHandler ==
  ASSUME TypeOK, OwnsAgree, OneCopy, NEW hd \in handlers
  PROVE  /\ hd.event \in Events /\ stage[hd.event] \notin Unsent /\ hd.event \notin ready
         /\ \A g \in handlers : g.event = hd.event => g = hd
<1>1. hd.event \in Events
  BY DEF TypeOK, Handlers
<1>2. \A g \in handlers : Own(g) \in unacked /\ Own(g).event = g.event /\ Own(g).host = g.host
        /\ Own(g).tag = g.tag
  BY DEF OwnsAgree, Own
<1>3. ASSUME NEW g \in handlers, g.event = hd.event PROVE g = hd
  <2>1. Own(g) = Own(hd)
    BY <1>2, <1>3 DEF OneCopy
  <2> QED BY <1>2, <2>1 DEF OwnsAgree
<1> QED BY <1>1, <1>2, <1>3 DEF OneCopy

LEMMA OneCopyNext ==
  ASSUME Quiet, TypeOK, OwnsAgree, OneCopy, [Next]_vars
  PROVE  OneCopy'
<1> USE Groups
<1>1. unacked \subseteq Deliveries /\ ready \subseteq Events /\ \A d \in unacked : d.event \in Events
  BY DEF TypeOK, Deliveries
<1>2. ASSUME unacked' \subseteq unacked, ready' = ready, UNCHANGED stage PROVE OneCopy'
  BY <1>2 DEF OneCopy
<1>3. CASE CallerNext
  BY <1>1, <1>3, CallerFrame, CallerPublishes DEF OneCopy
<1>4. ASSUME NEW h \in Hosts, Reopen(h) PROVE OneCopy'
  BY <1>2, <1>4 DEF Reopen
<1>5. ASSUME NEW h \in Hosts, ChannelCloses(h) PROVE OneCopy'
  BY <1>5 DEF Quiet
<1>6. ASSUME NEW h \in Hosts, HostCrash(h) PROVE OneCopy'
  <2>1. /\ unacked' = unacked \ HeldBy(h) /\ ready' = ready \cup {d.event : d \in HeldBy(h)}
        /\ UNCHANGED stage /\ HeldBy(h) \subseteq unacked
    BY <1>6 DEF HostCrash, Close, Requeue, HeldBy
  <2>2. \A d \in unacked' : d.event \notin ready'
    BY <2>1 DEF OneCopy
  <2> QED BY <2>1, <2>2 DEF OneCopy
<1>7. ASSUME NEW h \in Hosts, NEW e \in Events, Deliver(h, e) PROVE OneCopy'
  <2> DEFINE d == [host |-> h, tag |-> NewTag(h), event |-> e]
  <2>1. /\ unacked' = unacked \cup {d} /\ ready' = ready \ {e} /\ e \in ready
        /\ UNCHANGED stage /\ d.event = e
    BY <1>7 DEF Deliver
  <2> HIDE DEF d
  <2> QED BY <2>1 DEF OneCopy
<1>8. ASSUME NEW hd \in handlers, HandlerStep(hd) PROVE OneCopy'
  <2>1. Transits(hd) /\ UNCHANGED stage
    BY <1>8, HandlerTransits
  <2>2. CASE ready' = ready /\ unacked' \subseteq unacked
    BY <1>2, <2>1, <2>2
  <2>3. CASE ready' = ready \cup {hd.event} /\ unacked' = unacked \ {Own(hd)}
    <3>1. Own(hd) \in unacked /\ Own(hd).event = hd.event /\ stage[hd.event] \notin Unsent
      BY OnlyHandler DEF OwnsAgree, Own
    <3>2. \A d \in unacked' : d.event # hd.event
      BY <2>3, <3>1 DEF OneCopy
    <3> QED BY <2>1, <2>3, <3>1, <3>2 DEF OneCopy
  <2> QED BY <2>1, <2>2, <2>3 DEF Transits
<1>9. CASE UNCHANGED vars
  BY <1>2, <1>9 DEF vars
<1> QED BY <1>3, <1>4, <1>5, <1>6, <1>7, <1>8, <1>9 DEF Next, ChannelNext

\* Channels that closed are finitely many, and a crash of an open host adds one.
LEMMA ClosedStep ==
  ASSUME Quiet, TypeOK, OwnsAgree, IsFiniteSet(ClosedChannels), [Next]_vars
  PROVE  /\ IsFiniteSet(ClosedChannels') /\ Cardinality(ClosedChannels) \in Nat
         /\ Cardinality(ClosedChannels') \in Nat
         /\ Cardinality(ClosedChannels) <= Cardinality(ClosedChannels')
         /\ \A h \in open : HostCrash(h) =>
              Cardinality(ClosedChannels') = Cardinality(ClosedChannels) + 1
<1> USE Groups
<1>1. /\ open \subseteq Hosts /\ chan \in [Hosts -> 0 .. MaxChannels]
      /\ MaxChannels \in Nat
  BY FlowAssumption DEF TypeOK
<1>2. ASSUME UNCHANGED <<open, chan>> PROVE ClosedChannels' = ClosedChannels
  BY <1>2 DEF ClosedChannels
<1>3. ASSUME NEW h \in Hosts, Reopen(h) PROVE ClosedChannels' = ClosedChannels
  <2>1. /\ h \notin open /\ open' = open \cup {h}
        /\ chan'[h] = chan[h] + 1 /\ \A g \in Hosts \ {h} : chan'[g] = chan[g]
    BY <1>1, <1>3 DEF Reopen
  <2>2. ASSUME NEW g \in Hosts, NEW n \in 0 .. MaxChannels
        PROVE  (n < chan'[g] \/ (n = chan'[g] /\ g \notin open')) <=>
                 (n < chan[g] \/ (n = chan[g] /\ g \notin open))
    <3>1. CASE g = h
      <4>1. n \in Nat /\ chan[h] \in Nat
        BY <1>1
      <4> QED BY <2>1, <3>1, <4>1
    <3>2. CASE g # h
      BY <2>1, <3>2
    <3> QED BY <3>1, <3>2
  <2> QED BY <2>2 DEF ClosedChannels
<1>4. ASSUME NEW h \in open, HostCrash(h)
      PROVE  /\ IsFiniteSet(ClosedChannels')
             /\ Cardinality(ClosedChannels') = Cardinality(ClosedChannels) + 1
  <2>1. open' = open \ {h} /\ chan' = chan
    BY <1>4 DEF HostCrash, Close
  <2>2. ClosedChannels' = ClosedChannels \cup {<<h, chan[h]>>}
    BY <1>1, <2>1 DEF ClosedChannels
  <2>3. <<h, chan[h]>> \notin ClosedChannels
    BY <1>1, <1>4 DEF ClosedChannels
  <2> QED BY <2>2, <2>3, FS_AddElement
<1>5. ASSUME NEW h \in Hosts \ open, HostCrash(h) PROVE ClosedChannels' = ClosedChannels
  <2>1. open' = open /\ chan' = chan
    BY <1>5 DEF HostCrash, Close
  <2> QED BY <1>2, <2>1
<1>6. ASSUME NEW h \in Hosts, ChannelCloses(h) \/ \E e \in Events : Deliver(h, e)
      PROVE  ClosedChannels' = ClosedChannels
  <2>1. ~ ChannelCloses(h)
    BY DEF Quiet
  <2> QED BY <1>2, <1>6, <2>1 DEF Deliver
<1>7. ASSUME CallerNext PROVE ClosedChannels' = ClosedChannels
  BY <1>2, <1>7, CallerFrame
<1>8. ASSUME NEW hd \in handlers, HandlerStep(hd) PROVE ClosedChannels' = ClosedChannels
  BY <1>2, <1>8, HandlerTransits
<1>9. ASSUME UNCHANGED vars PROVE ClosedChannels' = ClosedChannels
  BY <1>2, <1>9 DEF vars
<1>10. \/ ClosedChannels' = ClosedChannels
       \/ \E h \in open : HostCrash(h)
  BY <1>3, <1>5, <1>6, <1>7, <1>8, <1>9 DEF Next, ChannelNext
<1>11. Cardinality(ClosedChannels) \in Nat
  BY FS_CardinalityType
<1> QED BY <1>4, <1>10, <1>11, FS_CardinalityType

\* What may yet happen to an event was to happen before, or is paid for by a crash.
LEMMA AwaitsStep ==
  ASSUME Quiet, TypeOK, OwnsAgree, IsFiniteSet(ClosedChannels), [Next]_vars,
         NEW P \in {BeforeLogic, BeforeAck}, NEW e \in Events, Awaits(e, P)'
  PROVE  \/ Awaits(e, P)
         \/ Cardinality(ClosedChannels') = Cardinality(ClosedChannels) + 1
<1> USE Groups
<1>1. /\ "finding" \in P
      /\ \A p, q \in Pcs : q \in P /\ p # "acking" /\ q # "finding"
           /\ (q = "executing" => p = "finding") => p \in P
  BY DEF BeforeLogic, BeforeAck, Pcs
<1>2. stage'[e] \in Unsent \/ e \in ready' \/ \E hd \in handlers' : hd.event = e /\ hd.pc \in P
  BY DEF Awaits
<1>3. ASSUME UNCHANGED stage, ready' \subseteq ready, handlers' \subseteq handlers
      PROVE  Awaits(e, P)
  BY <1>2, <1>3 DEF Awaits
<1>4. ASSUME CallerNext PROVE Awaits(e, P)
  BY <1>2, <1>4, CallerFrame, CallerPublishes DEF Awaits
<1>5. ASSUME NEW h \in Hosts, Reopen(h) PROVE Awaits(e, P)
  BY <1>3, <1>5 DEF Reopen
<1>6. ASSUME NEW h \in Hosts, ChannelCloses(h) PROVE FALSE
  BY <1>6 DEF Quiet
<1>7. ASSUME NEW h \in open, HostCrash(h)
      PROVE  Cardinality(ClosedChannels') = Cardinality(ClosedChannels) + 1
  BY <1>7, ClosedStep
<1>8. ASSUME NEW h \in Hosts \ open, HostCrash(h) PROVE Awaits(e, P)
  <2>1. HeldBy(h) = {}
    BY DEF OwnsAgree, HeldBy
  <2>2. ready' = ready /\ UNCHANGED stage /\ handlers' \subseteq handlers
    BY <1>8, <2>1 DEF HostCrash, Close, Requeue
  <2> QED BY <1>3, <2>2
<1>9. ASSUME NEW h \in Hosts, NEW d \in Events, Deliver(h, d) PROVE Awaits(e, P)
  <2>1. /\ d \in ready /\ ready' \subseteq ready /\ UNCHANGED stage
        /\ \A g \in handlers' : g \in handlers \/ g.event = d
    BY <1>9 DEF Deliver
  <2> QED BY <1>2, <2>1 DEF Awaits
<1>10. ASSUME NEW hd \in handlers, HandlerStep(hd) PROVE Awaits(e, P)
  <2>1. Transits(hd) /\ UNCHANGED stage
    BY <1>10, HandlerTransits
  <2>2. handlers \subseteq Handlers /\ hd.pc \in Pcs
    BY DEF TypeOK, Handlers
  <2>3. ASSUME NEW pc \in Pcs \ {"finding"}, NEW code \in AllCodes \cup {0}, Move(hd, pc, code),
               hd.pc # "acking", pc = "executing" => hd.pc = "finding", ready' = ready
        PROVE  Awaits(e, P)
    <3>1. \A g \in handlers' : g \in handlers \/ (g.event = hd.event /\ g.pc = pc)
      BY <2>2, <2>3, MoveFacts
    <3>2. pc \in P => hd.pc \in P
      BY <1>1, <2>2, <2>3
    <3> QED BY <1>2, <2>1, <2>3, <3>1, <3>2 DEF Awaits
  <2>4. ASSUME Leave(hd), ready' = ready PROVE Awaits(e, P)
    BY <1>3, <2>1, <2>4 DEF Leave
  <2>5. ASSUME hd.pc = "finding", Leave(hd), ready' = ready \cup {hd.event} PROVE Awaits(e, P)
    BY <1>1, <1>2, <2>1, <2>5 DEF Leave, Awaits
  <2> QED BY <2>1, <2>3, <2>4, <2>5 DEF Transits
<1>11. ASSUME UNCHANGED vars PROVE Awaits(e, P)
  BY <1>3, <1>11 DEF vars
<1> QED BY <1>4, <1>5, <1>6, <1>7, <1>8, <1>9, <1>10, <1>11 DEF Next, ChannelNext

\* A handler that leaves the steps P was all that the event awaited.
LEMMA HandlerSpends ==
  ASSUME TypeOK, OwnsAgree, OneCopy, NEW hd \in handlers, NEW P, hd.pc \in P,
         NEW pc \in Pcs \ P, NEW code \in AllCodes \cup {0},
         Move(hd, pc, code) \/ Leave(hd), UNCHANGED <<stage, ready>>
  PROVE  Awaits(hd.event, P) /\ ~ Awaits(hd.event, P)'
<1>1. /\ stage[hd.event] \notin Unsent /\ hd.event \notin ready
      /\ \A g \in handlers : g.event = hd.event => g = hd
  BY OnlyHandler
<1>2. \A g \in handlers' : (g \in handlers /\ g # hd) \/ g.pc \notin P
  <2>1. hd \in Handlers
    BY DEF TypeOK
  <2>2. [hd EXCEPT !.pc = pc, !.code = code].pc \notin P
    BY <2>1 DEF Handlers
  <2>3. handlers' \subseteq (handlers \ {hd}) \cup {[hd EXCEPT !.pc = pc, !.code = code]}
    BY DEF Move, Leave
  <2> QED BY <2>2, <2>3
<1>3. ~ Awaits(hd.event, P)'
  BY <1>1, <1>2 DEF Awaits
<1> QED BY <1>3 DEF Awaits

\* Every execution, done or still to come, is the first or follows the close of a
\* channel.
ExecsPaid ==
  /\ OneCopy /\ IsFiniteSet(ClosedChannels)
  /\ \A e \in Events : execs[e] + Left(e, BeforeLogic) <= 1 + Cardinality(ClosedChannels)

LEMMA ExecsPaidNext ==
  ASSUME Quiet, TypeOK, OwnsAgree, ExecsPaid, [Next]_vars
  PROVE  ExecsPaid'
<1> USE Groups
<1>1. OneCopy' /\ IsFiniteSet(ClosedChannels')
  BY OneCopyNext, ClosedStep DEF ExecsPaid
<1>2. /\ Cardinality(ClosedChannels) \in Nat /\ Cardinality(ClosedChannels') \in Nat
      /\ Cardinality(ClosedChannels) <= Cardinality(ClosedChannels')
  BY ClosedStep DEF ExecsPaid
<1>3. execs \in [Events -> Nat]
  BY DEF TypeOK
<1>4. ASSUME NEW e \in Events, execs'[e] = execs[e]
      PROVE  execs'[e] + Left(e, BeforeLogic)' <= 1 + Cardinality(ClosedChannels')
  <2>1. execs[e] \in Nat /\ execs[e] + Left(e, BeforeLogic) <= 1 + Cardinality(ClosedChannels)
    BY <1>3 DEF ExecsPaid
  <2>2. CASE Left(e, BeforeLogic)' <= Left(e, BeforeLogic)
    BY <1>2, <1>4, <2>1, <2>2 DEF Left
  <2>3. CASE ~ (Left(e, BeforeLogic)' <= Left(e, BeforeLogic))
    <3>1. ~ Awaits(e, BeforeLogic) /\ Awaits(e, BeforeLogic)'
      BY <2>3 DEF Left
    <3>2. Cardinality(ClosedChannels') = Cardinality(ClosedChannels) + 1
      BY <3>1, AwaitsStep DEF ExecsPaid
    <3> QED BY <1>2, <1>4, <2>1, <3>1, <3>2 DEF Left
  <2> QED BY <2>2, <2>3
<1>5. ASSUME NEW hd \in handlers, NEW code \in Codes, ExecuteLogic(hd, code)
      PROVE  \A e \in Events :
               execs'[e] + Left(e, BeforeLogic)' <= 1 + Cardinality(ClosedChannels')
  <2>1. hd.event \in Events /\ code \in AllCodes \cup {0}
    BY CodeFacts DEF TypeOK, Handlers
  <2>2. execs' = [execs EXCEPT ![hd.event] = @ + 1]
    BY <1>5 DEF ExecuteLogic
  <2>3. Awaits(hd.event, BeforeLogic) /\ ~ Awaits(hd.event, BeforeLogic)'
    BY <1>5, <2>1, HandlerSpends DEF ExecuteLogic, ExecsPaid, BeforeLogic, Pcs
  <2>4. execs'[hd.event] + Left(hd.event, BeforeLogic)' <= 1 + Cardinality(ClosedChannels')
    <3>1. execs[hd.event] + 1 <= 1 + Cardinality(ClosedChannels) /\ execs[hd.event] \in Nat
      BY <1>3, <2>1, <2>3 DEF ExecsPaid, Left
    <3>2. execs'[hd.event] = execs[hd.event] + 1 /\ Left(hd.event, BeforeLogic)' = 0
      BY <1>3, <2>1, <2>2, <2>3 DEF Left
    <3> QED BY <1>2, <3>1, <3>2
  <2>5. \A e \in Events \ {hd.event} : execs'[e] = execs[e]
    BY <1>3, <2>2
  <2> QED BY <1>4, <2>4, <2>5
<1>6. execs' = execs \/ \E hd \in handlers, code \in Codes : ExecuteLogic(hd, code)
  <2>1. CASE CallerNext
    BY <2>1, CallerFrame
  <2>2. CASE ChannelNext
    BY <2>2 DEF ChannelNext, ChannelCloses, Reopen, HostCrash, Deliver
  <2>3. ASSUME NEW hd \in handlers, HandlerStep(hd)
        PROVE  execs' = execs \/ \E code \in Codes : ExecuteLogic(hd, code)
    BY <2>3 DEF HandlerStep, FindEvent, FindEventFails, SaveResult, SaveResultFails, SendResult,
       SendResultFails, SaveNotif, SaveNotifFails, SendNotif, SendNotifFails, AckEvent
  <2>4. CASE UNCHANGED vars
    BY <2>4 DEF vars
  <2> QED BY <2>1, <2>2, <2>3, <2>4 DEF Next
<1> QED BY <1>1, <1>4, <1>5, <1>6 DEF ExecsPaid

LEMMA NothingClosed ==
  ASSUME Init
  PROVE  OneCopy /\ ClosedChannels = {} /\ IsFiniteSet(ClosedChannels)
         /\ Cardinality(ClosedChannels) = 0
<1>1. ClosedChannels = {}
  BY DEF Init, ClosedChannels
<1> QED BY <1>1, FS_EmptySet DEF Init, OneCopy

PaidUntilClose == closes = 0 => ExecsPaid

\* Until a channel closes without its process, no logic runs but for a publish or a
\* process that ended.
THEOREM ExecsInvariance == Spec => []PaidUntilClose
<1>1. Init => PaidUntilClose
  BY NothingClosed DEF Init, PaidUntilClose, ExecsPaid, Left
<1>2. TypeOK /\ OwnsUntilClose /\ PaidUntilClose /\ [Next]_vars => PaidUntilClose'
  BY ClosesCounted, ExecsPaidNext DEF OwnsUntilClose, PaidUntilClose
<1> QED BY <1>1, <1>2, TypeCorrect, OwnsInvariance, PTL DEF Spec

\* Until a channel closes without its process, the logic of an event runs again only
\* after a process ended under it, once for each, for any number of hosts, events,
\* crashes and errors (mq.js:111-122).
THEOREM RerunPaidUntilClose == Spec => [](closes = 0 => RerunOnlyAfterClose)
<1>1. TypeOK /\ ExecsPaid => RerunOnlyAfterClose
  <2> SUFFICES ASSUME TypeOK, ExecsPaid, NEW e \in Events
               PROVE  execs[e] <= 1 + Cardinality(ClosedChannels)
    BY DEF RerunOnlyAfterClose
  <2>1. /\ execs[e] \in Nat /\ Cardinality(ClosedChannels) \in Nat
        /\ execs[e] + Left(e, BeforeLogic) <= 1 + Cardinality(ClosedChannels)
    BY FS_CardinalityType DEF TypeOK, ExecsPaid
  <2> QED BY <2>1 DEF Left
<1>2. TypeOK /\ PaidUntilClose => (closes = 0 => RerunOnlyAfterClose)
  BY <1>1 DEF PaidUntilClose
<1> QED BY <1>2, ExecsInvariance, TypeCorrect, PTL

\* If channels close only with their process, it is always so.
COROLLARY RerunPaid ==
  ASSUME MaxCloses = 0 PROVE Spec => []RerunOnlyAfterClose
<1>1. TypeOK /\ (closes = 0 => RerunOnlyAfterClose) => RerunOnlyAfterClose
  BY NoCloses
<1> QED BY <1>1, RerunPaidUntilClose, TypeCorrect, PTL

-----------------------------------------------------------------------------
(* What is left unacknowledged, where channels close only with their       *)
(* process.                                                                *)

\* Errors are only counted up.
LEMMA ErrorsGrow ==
  ASSUME TypeOK, [Next]_vars
  PROVE  errors \in Nat /\ (errors' = errors \/ errors' = errors + 1)
<1> USE Groups
<1>1. errors \in Nat
  BY FlowAssumption DEF TypeOK
<1>2. Fault \/ UNCHANGED errors => errors' = errors \/ errors' = errors + 1
  BY DEF Fault
<1>3. CallerNext => Fault \/ UNCHANGED errors
  BY DEF CallerNext, Call, SaveEvent, SaveEventFails, Confirm, ConfirmFails, ReceiveResult,
     FindResult, FindResultFails, SendEvents, SendEventsFails, CallerCrash, Crash
<1>4. ChannelNext => UNCHANGED errors
  BY DEF ChannelNext, ChannelCloses, Reopen, HostCrash, Crash, Deliver
<1>5. \A hd \in handlers : HandlerStep(hd) => Fault \/ UNCHANGED errors
  BY DEF HandlerStep, FindEvent, FindEventFails, ExecuteLogic, SaveResult, SaveResultFails,
     SendResult, SendResultFails, SaveNotif, SaveNotifFails, SendNotif, SendNotifFails, AckEvent,
     PublishFails
<1>6. UNCHANGED vars => UNCHANGED errors
  BY DEF vars
<1> QED BY <1>1, <1>2, <1>3, <1>4, <1>5, <1>6 DEF Next

\* A handler that ends settles its delivery, unless an error ends it.
LEMMA HandlerEnds ==
  ASSUME TypeOK, OwnsAgree, NEW hd \in handlers, HandlerStep(hd)
  PROVE  \/ \E pc \in Pcs, code \in AllCodes \cup {0} : Move(hd, pc, code) /\ unacked' = unacked
         \/ Leave(hd) /\ unacked' = unacked \ {Own(hd)}
         \/ Leave(hd) /\ unacked' = unacked /\ errors' = errors + 1
<1> USE Groups, CodeFacts
<1>1. hd.code \in AllCodes \cup {0} /\ Codes \subseteq AllCodes
  BY DEF TypeOK, Handlers
<1>2. hd.host \in open /\ Own(hd) \in unacked /\ Tagged(hd.host, hd.tag) = {Own(hd)}
  BY OwnedHost
<1>3. CASE FindEventFails(hd)
  BY <1>2, <1>3 DEF FindEventFails, Nack, NackThrows, Requeue
<1>4. CASE AckEvent(hd)
  BY <1>2, <1>4 DEF AckEvent
<1>5. CASE \/ FindEvent(hd) \/ SaveResult(hd) \/ SendResult(hd) \/ SaveNotif(hd) \/ SendNotif(hd)
           \/ \E code \in Codes : ExecuteLogic(hd, code)
  BY <1>1, <1>5
  DEF FindEvent, SaveResult, SendResult, SaveNotif, SendNotif, ExecuteLogic, Pcs
<1>6. CASE SaveResultFails(hd) \/ SendResultFails(hd) \/ SaveNotifFails(hd) \/ SendNotifFails(hd)
  BY <1>2, <1>6 DEF SaveResultFails, SendResultFails, SaveNotifFails, SendNotifFails,
     PublishFails, Fault
<1> QED BY <1>3, <1>4, <1>5, <1>6 DEF HandlerStep

Acknowledges(hd, d) == hd.host = d.host /\ hd.chan = chan[d.host] /\ hd.tag = d.tag

\* A handler is of the channel that its host has now.
ChannelAgrees == \A hd \in handlers : hd.chan = chan[hd.host]

\* Each delivery that is left behind was left by an error.
ParkedPaid ==
  /\ ChannelAgrees
  /\ IsFiniteSet(Parked) /\ Cardinality(Parked) <= errors

\* No turn leaves more than one delivery behind, and that one by an error.
LEMMA ParkedStep ==
  ASSUME TypeOK, OwnsAgree, Quiet, ChannelAgrees, [Next]_vars
  PROVE  /\ ChannelAgrees'
         /\ \/ Parked' \subseteq Parked
            \/ errors' = errors + 1 /\ \E d : Parked' \subseteq Parked \cup {d}
<1> USE Groups
<1>1. /\ handlers \subseteq Handlers /\ \A hd \in handlers : hd.host \in open /\ Own(hd) \in unacked
      /\ open \subseteq Hosts /\ chan \in [Hosts -> 0 .. MaxChannels]
  BY OwnedHost DEF TypeOK
<1>2. ASSUME UNCHANGED chan, handlers \subseteq handlers', unacked' \subseteq unacked
      PROVE  Parked' \subseteq Parked
  BY <1>2 DEF Parked
<1>3. ASSUME UNCHANGED <<handlers, chan, unacked>> PROVE ChannelAgrees' /\ Parked' \subseteq Parked
  BY <1>2, <1>3 DEF ChannelAgrees
<1>4. ASSUME CallerNext \/ UNCHANGED vars PROVE UNCHANGED <<handlers, chan, unacked>>
  BY <1>4, CallerFrame DEF vars
<1>5. ASSUME NEW h \in Hosts, Reopen(h) PROVE ChannelAgrees' /\ Parked' \subseteq Parked
  <2>1. /\ UNCHANGED <<handlers, unacked>> /\ h \notin open
        /\ \A g \in Hosts \ {h} : chan'[g] = chan[g]
    BY <1>1, <1>5 DEF Reopen
  <2>2. \A d \in unacked : d.host \in Hosts \ {h}
    BY <1>1, <2>1 DEF OwnsAgree
  <2>3. \A hd \in handlers : hd.host \in Hosts \ {h}
    BY <1>1, <2>1
  <2> QED BY <2>1, <2>2, <2>3 DEF ChannelAgrees, Parked
<1>6. ASSUME NEW h \in Hosts, HostCrash(h) PROVE ChannelAgrees' /\ Parked' \subseteq Parked
  <2>1. /\ handlers' = {hd \in handlers : hd.host # h} /\ chan' = chan
        /\ unacked' = unacked \ HeldBy(h)
    BY <1>6 DEF HostCrash, Close, Requeue
  <2>2. \A d \in unacked' : d \in unacked /\ d.host # h
    BY <2>1 DEF HeldBy
  <2> QED BY <2>1, <2>2 DEF ChannelAgrees, Parked
<1>7. ASSUME NEW h \in Hosts, NEW e \in Events, Deliver(h, e)
      PROVE  ChannelAgrees' /\ Parked' \subseteq Parked
  <2> DEFINE d == [host |-> h, tag |-> NewTag(h), event |-> e]
             hd == [host |-> h, chan |-> chan[h], tag |-> NewTag(h), event |-> e,
                    pc |-> "finding", code |-> 0]
  <2>1. /\ unacked' = unacked \cup {d} /\ handlers' = handlers \cup {hd} /\ chan' = chan
        /\ hd.host = d.host /\ hd.tag = d.tag /\ hd.chan = chan[hd.host] /\ d.host = h
    BY <1>7 DEF Deliver
  <2> HIDE DEF d, hd
  <2>2. ChannelAgrees'
    BY <2>1 DEF ChannelAgrees
  <2>3. d \notin Parked'
    BY <2>1 DEF Parked
  <2> QED BY <2>1, <2>2, <2>3 DEF Parked
<1>8. ASSUME NEW hd \in handlers, HandlerStep(hd)
      PROVE  /\ ChannelAgrees'
             /\ \/ Parked' \subseteq Parked
                \/ errors' = errors + 1 /\ \E d : Parked' \subseteq Parked \cup {d}
  <2>1. chan' = chan
    BY <1>8, HandlerTransits
  <2>2. ASSUME NEW pc \in Pcs, NEW code \in AllCodes \cup {0}, Move(hd, pc, code), unacked' = unacked
        PROVE  ChannelAgrees' /\ Parked' \subseteq Parked
    <3> DEFINE m == [hd EXCEPT !.pc = pc, !.code = code]
    <3>1. handlers' = (handlers \ {hd}) \cup {m} /\ m.host = hd.host /\ m.chan = hd.chan /\ m.tag = hd.tag
      BY <1>1, <2>2 DEF Move, Handlers
    <3> HIDE DEF m
    <3>2. ChannelAgrees'
      BY <2>1, <3>1 DEF ChannelAgrees
    <3>3. \A d : (\E g \in handlers : Acknowledges(g, d)) => \E g \in handlers' : Acknowledges(g, d)
      BY <3>1 DEF Acknowledges
    <3> QED BY <2>1, <2>2, <3>2, <3>3 DEF Parked, Acknowledges
  <2>3. ASSUME Leave(hd), unacked' \subseteq unacked
        PROVE  ChannelAgrees' /\ Parked' \subseteq Parked \cup {Own(hd)}
    <3>1. handlers' = handlers \ {hd}
      BY <2>3 DEF Leave
    <3>2. \A d \in unacked : hd.host = d.host /\ hd.tag = d.tag => d = Own(hd)
      BY <1>1 DEF OwnsAgree, Own
    <3> QED BY <2>1, <2>3, <3>1, <3>2 DEF ChannelAgrees, Parked
  <2>4. Parked' \subseteq unacked'
    BY DEF Parked
  <2> QED BY <1>8, <2>2, <2>3, <2>4, HandlerEnds
<1>9. ASSUME NEW h \in Hosts PROVE ~ ChannelCloses(h)
  BY DEF Quiet
<1> QED BY <1>3, <1>4, <1>5, <1>6, <1>7, <1>8, <1>9 DEF Next, ChannelNext

LEMMA ParkedPaidNext ==
  ASSUME TypeOK, OwnsAgree, Quiet, ParkedPaid, [Next]_vars
  PROVE  ParkedPaid'
<1>1. errors \in Nat /\ (errors' = errors \/ errors' = errors + 1)
  BY ErrorsGrow
<1>2. Cardinality(Parked) \in Nat /\ Cardinality(Parked) <= errors /\ IsFiniteSet(Parked)
  BY FS_CardinalityType DEF ParkedPaid
<1>3. /\ ChannelAgrees'
      /\ \/ Parked' \subseteq Parked
         \/ errors' = errors + 1 /\ \E d : Parked' \subseteq Parked \cup {d}
  BY ParkedStep DEF ParkedPaid
<1>4. CASE Parked' \subseteq Parked
  <2>1. IsFiniteSet(Parked') /\ Cardinality(Parked') <= Cardinality(Parked)
        /\ Cardinality(Parked') \in Nat
    BY <1>2, <1>4, FS_Subset, FS_CardinalityType
  <2> QED BY <1>1, <1>2, <1>3, <2>1 DEF ParkedPaid
<1>5. CASE errors' = errors + 1 /\ \E d : Parked' \subseteq Parked \cup {d}
  <2>1. PICK d : Parked' \subseteq Parked \cup {d}
    BY <1>5
  <2>2. IsFiniteSet(Parked \cup {d}) /\ Cardinality(Parked \cup {d}) <= Cardinality(Parked) + 1
        /\ Cardinality(Parked \cup {d}) \in Nat
    <3>1. /\ IsFiniteSet(Parked \cup {d})
          /\ Cardinality(Parked \cup {d}) =
               IF d \in Parked THEN Cardinality(Parked) ELSE Cardinality(Parked) + 1
      BY <1>2, FS_AddElement
    <3> QED BY <1>2, <3>1
  <2>3. IsFiniteSet(Parked') /\ Cardinality(Parked') <= Cardinality(Parked \cup {d})
        /\ Cardinality(Parked') \in Nat
    BY <2>1, <2>2, FS_Subset, FS_CardinalityType
  <2>4. Cardinality(Parked') <= errors'
    BY <1>1, <1>2, <1>5, <2>2, <2>3
  <2> QED BY <1>3, <2>3, <2>4 DEF ParkedPaid
<1> QED BY <1>3, <1>4, <1>5

ParkedUntilClose == closes = 0 => ParkedPaid

\* Until a channel closes without its process, each delivery without a handler was
\* left by an error.
THEOREM ParkedInvariance == Spec => []ParkedUntilClose
<1>1. Init => ParkedPaid
  <2> SUFFICES ASSUME Init PROVE ParkedPaid
    OBVIOUS
  <2>1. Parked = {} /\ ChannelAgrees /\ errors = 0
    BY DEF Init, Parked, ChannelAgrees
  <2> QED BY <2>1, FS_EmptySet DEF ParkedPaid
<1>2. Init => ParkedUntilClose
  BY <1>1 DEF ParkedUntilClose
<1>3. TypeOK /\ OwnsUntilClose /\ ParkedUntilClose /\ [Next]_vars => ParkedUntilClose'
  BY ClosesCounted, ParkedPaidNext DEF OwnsUntilClose, ParkedUntilClose
<1> QED BY <1>2, <1>3, TypeCorrect, OwnsInvariance, PTL DEF Spec

\* Until a channel closes without its process, deliveries are left without a handler by
\* errors after the logic only, one for each, for any number of hosts, events and
\* crashes (mq.js:138-163).
THEOREM ParkedByErrorsUntilClose == Spec => [](closes = 0 => ParkedByErrors)
<1>1. ParkedUntilClose => (closes = 0 => ParkedByErrors)
  BY DEF ParkedUntilClose, ParkedPaid, ParkedByErrors
<1> QED BY <1>1, ParkedInvariance, PTL

\* If channels close only with their process, it is always so.
COROLLARY ParkedByErrorsOnly ==
  ASSUME MaxCloses = 0 PROVE Spec => []ParkedByErrors
<1>1. TypeOK /\ (closes = 0 => ParkedByErrors) => ParkedByErrors
  BY NoCloses
<1> QED BY <1>1, ParkedByErrorsUntilClose, TypeCorrect, PTL

-----------------------------------------------------------------------------
(* What two answers take, under any faults.                                *)

\* An event that the broker has is never lost, and it gets one by a publish.
LEMMA RoutedStep ==
  ASSUME TypeOK, [Next]_vars
  PROVE  /\ Routed \subseteq Routed'
         /\ \A e \in Routed' \ Routed : e \in Events /\ stage[e] \in Unsent
<1> USE Groups
<1>1. CASE CallerNext
  BY <1>1, CallerFrame, CallerPublishes DEF Routed
<1>2. ASSUME NEW D \in SUBSET unacked, Requeue(D) PROVE Routed' = Routed
  BY <1>2 DEF Requeue, Routed
<1>3. ASSUME UNCHANGED <<ready, unacked, acked>> PROVE Routed' = Routed
  BY <1>3 DEF Routed
<1>4. \A h \in Hosts : HeldBy(h) \in SUBSET unacked /\ \A t : Tagged(h, t) \in SUBSET unacked
  BY DEF HeldBy, Tagged
<1>5. ASSUME NEW h \in Hosts, Close(h) PROVE Routed' = Routed
  BY <1>2, <1>4, <1>5 DEF Close
<1>6. ASSUME NEW h \in Hosts, NEW e \in Events, Deliver(h, e) PROVE Routed' = Routed
  <2> DEFINE d == [host |-> h, tag |-> NewTag(h), event |-> e]
  <2>1. /\ unacked' = unacked \cup {d} /\ ready' = ready \ {e} /\ e \in ready
        /\ UNCHANGED acked /\ d.event = e
    BY <1>6 DEF Deliver
  <2> HIDE DEF d
  <2> QED BY <2>1 DEF Routed
<1>7. ASSUME ChannelNext PROVE Routed' = Routed
  BY <1>3, <1>5, <1>6, <1>7 DEF ChannelNext, ChannelCloses, Reopen, HostCrash
<1>8. ASSUME NEW hd \in handlers, HandlerStep(hd) PROVE Routed' = Routed
  <2>1. hd.host \in Hosts
    BY DEF TypeOK, Handlers
  <2>2. ASSUME FindEventFails(hd) PROVE Routed' = Routed
    BY <1>2, <1>3, <1>4, <1>5, <2>1, <2>2 DEF FindEventFails, Nack, NackThrows
  <2>3. ASSUME AckEvent(hd) PROVE Routed' = Routed
    <3>1. ASSUME NEW D \in SUBSET unacked, unacked' = unacked \ D,
                 acked' = acked \cup {d.event : d \in D}, UNCHANGED ready
          PROVE  Routed' = Routed
      BY <3>1 DEF Routed
    <3> QED BY <1>3, <1>4, <1>5, <2>1, <2>3, <3>1 DEF AckEvent
  <2> QED BY <1>3, <1>8, <2>2, <2>3 DEF HandlerStep, FindEvent, ExecuteLogic, SaveResult,
          SaveResultFails, SendResult, SendResultFails, SaveNotif, SaveNotifFails, SendNotif,
          SendNotifFails
<1>9. CASE UNCHANGED vars
  BY <1>3, <1>9 DEF vars
<1> QED BY <1>1, <1>7, <1>8, <1>9 DEF Next

\* Handlers, results and answers are of events that the broker got.
RoutedAgree ==
  /\ \A hd \in handlers : hd.event \in Routed
  /\ \A e \in Events : resultMsgs[e] > 0 \/ stage[e] = "finding" => e \in Routed
  /\ \A e \in unconfirmed : told[e] # <<>> => e \in Routed

LEMMA RoutedHandlers ==
  ASSUME TypeOK, RoutedAgree, ChannelNext \/ \E hd \in handlers : HandlerStep(hd)
  PROVE  /\ \A hd \in handlers' : hd.event \in Routed
         /\ \A e \in Events : resultMsgs'[e] > 0 => e \in Routed
<1> USE Groups, CodeFacts
<1>1. handlers \subseteq Handlers /\ resultMsgs \in [Events -> Nat]
  BY DEF TypeOK
<1>2. ASSUME NEW h \in Hosts, NEW e \in Events, Deliver(h, e)
      PROVE  \A g \in handlers' : g \in handlers \/ g.event \in Routed
  BY <1>2 DEF Deliver, Routed
<1>3. CASE ChannelNext
  BY <1>2, <1>3 DEF ChannelNext, ChannelCloses, Reopen, HostCrash, RoutedAgree, Deliver
<1>4. ASSUME NEW hd \in handlers, HandlerStep(hd)
      PROVE  /\ \A g \in handlers' : g.event \in Routed
             /\ \A e \in Events : resultMsgs'[e] > 0 => e \in Routed
  <2>1. hd.code \in AllCodes \cup {0} /\ Codes \subseteq AllCodes /\ hd.event \in Events
    BY DEF TypeOK, Handlers
  <2>2. \/ Leave(hd)
        \/ \E pc \in Pcs, code \in AllCodes \cup {0} : Move(hd, pc, code)
    BY <1>4, <2>1 DEF HandlerStep, FindEvent, FindEventFails, Nack, NackThrows, ExecuteLogic,
       SaveResult, SaveResultFails, SendResult, SendResultFails, SaveNotif, SaveNotifFails,
       SendNotif, SendNotifFails, AckEvent, Pcs
  <2>3. \A g \in handlers' : g \in handlers \/ g.event = hd.event
    <3>1. ASSUME NEW pc \in Pcs, NEW code \in AllCodes \cup {0}, Move(hd, pc, code)
          PROVE  \A g \in handlers' : g \in handlers \/ g.event = hd.event
      BY <1>1, <3>1, MoveFacts
    <3> QED BY <2>2, <3>1 DEF Leave
  <2>4. resultMsgs' = resultMsgs \/ resultMsgs' = [resultMsgs EXCEPT ![hd.event] = @ + 1]
    BY <1>4 DEF HandlerStep, FindEvent, FindEventFails, ExecuteLogic, SaveResult, SaveResultFails,
       SendResult, SendResultFails, PublishResult, SaveNotif, SaveNotifFails, SendNotif,
       SendNotifFails, PublishNotif, AckEvent
  <2>5. \A e \in Events : resultMsgs'[e] > 0 => resultMsgs[e] > 0 \/ e = hd.event
    BY <1>1, <2>1, <2>4
  <2> QED BY <2>3, <2>5 DEF RoutedAgree
<1> QED BY <1>3, <1>4

LEMMA RoutedCaller ==
  ASSUME TypeOK, ToldAgrees, RoutedAgree, CallerNext
  PROVE  /\ \A e \in Events : resultMsgs'[e] > 0 \/ stage'[e] = "finding" => e \in Routed
         /\ \A e \in unconfirmed' : told'[e] # <<>> => e \in Routed
<1> USE Groups, CodeFacts
<1>1. /\ resultMsgs \in [Events -> Nat] /\ stage \in [Events -> Stages]
      /\ told \in [Events -> Seq(AllCodes \cup {Error})] /\ unconfirmed \subseteq Events
  BY DEF TypeOK
<1>2. ASSUME NEW e \in Events,
             \/ Call(e) \/ SaveEvent(e) \/ Confirm(e)
             \/ stage[e] \in {"saving", "finding"} /\ stage' = [stage EXCEPT ![e] = "done"]
                /\ UNCHANGED <<unconfirmed, resultMsgs>>
                /\ \A d \in Events \ {e} : told'[d] = told[d]
      PROVE  /\ \A d \in Events : resultMsgs'[d] > 0 \/ stage'[d] = "finding" => d \in Routed
             /\ \A d \in unconfirmed' : told'[d] # <<>> => d \in Routed
  BY <1>1, <1>2 DEF Call, SaveEvent, Confirm, RoutedAgree, ToldAgrees
<1>3. ASSUME NEW e \in Events, SaveEventFails(e) \/ FindResult(e) \/ FindResultFails(e)
      PROVE  /\ stage[e] \in {"saving", "finding"} /\ stage' = [stage EXCEPT ![e] = "done"]
             /\ UNCHANGED <<unconfirmed, resultMsgs>>
             /\ \A d \in Events \ {e} : told'[d] = told[d]
  BY <1>1, <1>3 DEF SaveEventFails, FindResult, FindResultFails, Tell
<1>4. ASSUME NEW e \in Events, ConfirmFails(e)
      PROVE  /\ \A d \in Events : resultMsgs'[d] > 0 \/ stage'[d] = "finding" => d \in Routed
             /\ \A d \in unconfirmed' : told'[d] # <<>> => d \in Routed
  <2>1. /\ unconfirmed' = unconfirmed \ {e} /\ UNCHANGED <<stage, resultMsgs>>
        /\ \A d \in Events \ {e} : told'[d] = told[d]
    BY <1>1, <1>4 DEF ConfirmFails, Tell
  <2> QED BY <1>1, <2>1 DEF RoutedAgree
<1>5. ASSUME NEW e \in Events, ReceiveResult(e)
      PROVE  /\ \A d \in Events : resultMsgs'[d] > 0 \/ stage'[d] = "finding" => d \in Routed
             /\ \A d \in unconfirmed' : told'[d] # <<>> => d \in Routed
  <2>1. /\ resultMsgs[e] > 0 /\ resultMsgs' = [resultMsgs EXCEPT ![e] = @ - 1]
        /\ stage' = stage \/ stage' = [stage EXCEPT ![e] = "finding"]
        /\ UNCHANGED <<unconfirmed, told>>
    BY <1>5 DEF ReceiveResult
  <2>2. e \in Routed /\ \A d \in Events : resultMsgs'[d] > 0 => resultMsgs[d] > 0
    BY <1>1, <2>1 DEF RoutedAgree
  <2> QED BY <1>1, <2>1, <2>2 DEF RoutedAgree
<1>6. ASSUME NEW S \in SUBSET Connecting, Publish(S)
      PROVE  /\ \A d \in Events : resultMsgs'[d] > 0 \/ stage'[d] = "finding" => d \in Routed
             /\ \A d \in unconfirmed' : told'[d] # <<>> => d \in Routed
  BY <1>1, <1>6 DEF Publish, Connecting, RoutedAgree, ToldAgrees
<1>7. ASSUME SendEvents \/ SendEventsFails PROVE \E S \in SUBSET Connecting : Publish(S)
  BY <1>7 DEF SendEvents, SendEventsFails
<1>8. ASSUME CallerCrash
      PROVE  /\ \A d \in Events : resultMsgs'[d] > 0 \/ stage'[d] = "finding" => d \in Routed
             /\ \A d \in unconfirmed' : told'[d] # <<>> => d \in Routed
  BY <1>1, <1>8 DEF CallerCrash, RoutedAgree
<1> QED BY <1>2, <1>3, <1>4, <1>5, <1>6, <1>7, <1>8 DEF CallerNext

LEMMA RoutedAgreeNext ==
  ASSUME TypeOK, ToldAgrees, RoutedAgree, [Next]_vars
  PROVE  RoutedAgree'
<1> USE Groups
<1>1. Routed \subseteq Routed'
  BY RoutedStep
<1>2. CASE CallerNext
  BY <1>1, <1>2, RoutedCaller, CallerFrame DEF RoutedAgree
<1>3. CASE ChannelNext \/ \E hd \in handlers : HandlerStep(hd)
  BY <1>1, <1>3, RoutedHandlers, HostFrame DEF RoutedAgree
<1>4. CASE UNCHANGED vars
  BY <1>4 DEF vars, RoutedAgree, Routed
<1> QED BY <1>2, <1>3, <1>4 DEF Next

\* The events told twice, or about to be.
Twice ==
  {e \in Routed : Len(told[e]) = 2 \/ (told[e] = <<Error>> /\ stage[e] \in {"sent", "finding"})}

\* Only a confirm that fails for an event that the broker got makes one more.
LEMMA TwiceStep ==
  ASSUME TypeOK, ToldAgrees, RoutedAgree, [Next]_vars
  PROVE  \/ Twice' \subseteq Twice
         \/ errors' = errors + 1 /\ \E d : Twice' \subseteq Twice \cup {d}
<1> USE Groups, CodeFacts
<1>1. /\ stage \in [Events -> Stages] /\ unconfirmed \subseteq Events
      /\ told \in [Events -> Seq(AllCodes \cup {Error})]
      /\ ready \subseteq Events /\ acked \subseteq Events /\ Routed \subseteq Events
  BY DEF TypeOK, Routed, Deliveries
<1>2. Routed \subseteq Routed' /\ \A e \in Routed' \ Routed : e \in Events /\ stage[e] \in Unsent
  BY RoutedStep
<1>3. \A e \in Events : stage[e] \in Unsent => Len(told[e]) # 2 /\ told[e] # <<Error>>
  <2>1. \A e \in Events : stage[e] \in Unsent => told[e] = <<>>
    BY DEF ToldAgrees, Unsent
  <2>2. ASSUME NEW e \in Events, told[e] = <<>> PROVE Len(told[e]) # 2 /\ told[e] # <<Error>>
    <3>1. Len(told[e]) = 0
      BY <2>2
    <3>2. told[e] # <<Error>>
      BY <2>2
    <3> QED BY <3>1, <3>2
  <2> QED BY <2>1, <2>2
<1>4. ASSUME UNCHANGED told,
             \A e \in Events : stage'[e] \in {"sent", "finding"} =>
               stage[e] \in {"sent", "finding"} \cup Unsent
      PROVE  Twice' \subseteq Twice
  <2>1. \A e \in Twice' : e \in Routed
    BY <1>2, <1>3, <1>4, Zenon DEF Twice
  <2>2. \A e \in Twice' : stage'[e] \in {"sent", "finding"} /\ told[e] = <<Error>> =>
          stage[e] \in {"sent", "finding"}
    BY <1>1, <1>3, <1>4, <2>1
  <2> QED BY <1>4, <2>1, <2>2 DEF Twice
<1>5. ASSUME ChannelNext \/ (\E hd \in handlers : HandlerStep(hd)) \/ UNCHANGED vars
      PROVE  Twice' \subseteq Twice
  <2>1. UNCHANGED <<stage, told>>
    BY <1>5, HostFrame DEF vars
  <2> QED BY <1>4, <2>1
<1>6. ASSUME NEW e \in Events, Call(e) \/ SaveEvent(e) \/ Confirm(e) PROVE Twice' \subseteq Twice
  BY <1>1, <1>4, <1>6 DEF Call, SaveEvent, Confirm
<1>7. ASSUME NEW e \in Events, SaveEventFails(e) \/ FindResult(e) \/ FindResultFails(e)
      PROVE  Twice' \subseteq Twice
  <2>1. PICK what \in AllCodes \cup {Error} : Tell(e, what)
    BY <1>7 DEF SaveEventFails, FindResult, FindResultFails, TypeOK, Results
  <2>2. /\ \A d \in Events \ {e} : told'[d] = told[d] /\ stage'[d] = stage[d]
        /\ Len(told'[e]) = Len(told[e]) + 1 /\ stage'[e] = "done"
        /\ Routed' = Routed
    BY <1>1, <1>7, <2>1, TellFacts, CallerFrame
    DEF SaveEventFails, FindResult, FindResultFails, Routed, CallerNext
  <2>3. e \in Routed /\ Len(told'[e]) = 2 => e \in Twice
    <3>1. told[e] = <<>> \/ (stage[e] = "finding" /\ told[e] = <<Error>>)
      BY <1>7 DEF SaveEventFails, FindResult, FindResultFails, ToldAgrees
    <3>2. told[e] = <<>> => Len(told'[e]) = 1
      BY <2>2
    <3> QED BY <3>1, <3>2 DEF Twice
  <2> QED BY <1>1, <2>2, <2>3 DEF Twice
<1>8. ASSUME NEW e \in Events, ConfirmFails(e)
      PROVE  \/ Twice' \subseteq Twice
             \/ errors' = errors + 1 /\ Twice' \subseteq Twice \cup {e}
  <2>1. /\ \A d \in Events \ {e} : told'[d] = told[d]
        /\ UNCHANGED stage /\ Routed' = Routed
    BY <1>1, <1>8, TellFacts DEF ConfirmFails, Routed
  <2>2. Twice' \subseteq Twice \cup {e}
    BY <1>1, <2>1 DEF Twice
  <2>3. e \in Routed => errors' = errors + 1
    BY <1>8 DEF ConfirmFails, Fault
  <2>4. e \notin Routed => e \notin Twice'
    BY <2>1 DEF Twice
  <2> QED BY <2>2, <2>3, <2>4
<1>9. ASSUME NEW e \in Events, ReceiveResult(e) PROVE Twice' \subseteq Twice
  <2>1. /\ UNCHANGED told
        /\ stage' = stage \/ (stage' = [stage EXCEPT ![e] = "finding"] /\ stage[e] = "sent")
    BY <1>9 DEF ReceiveResult, ToldAgrees
  <2> QED BY <1>1, <1>4, <2>1
<1>10. ASSUME SendEvents \/ SendEventsFails PROVE Twice' \subseteq Twice
  <2>1. /\ UNCHANGED told
        /\ stage' = [e \in Events |-> IF e \in Connecting THEN "sent" ELSE stage[e]]
    BY <1>10 DEF SendEvents, SendEventsFails, Publish
  <2> QED BY <1>1, <1>4, <2>1 DEF Connecting, Unsent
<1>11. ASSUME CallerCrash PROVE Twice' \subseteq Twice
  BY <1>1, <1>4, <1>11 DEF CallerCrash
<1> QED BY <1>5, <1>6, <1>7, <1>8, <1>9, <1>10, <1>11 DEF Next, CallerNext

TwicePaid ==
  /\ RoutedAgree
  /\ \A e \in Events : Len(told[e]) <= 2 /\ (Len(told[e]) = 2 => e \in Routed)
  /\ IsFiniteSet(Twice) /\ Cardinality(Twice) <= errors

LEMMA BriefStep ==
  ASSUME TypeOK, ToldAgrees, RoutedAgree, [Next]_vars,
         \A e \in Events : Len(told[e]) <= 2 /\ (Len(told[e]) = 2 => e \in Routed)
  PROVE  \A e \in Events : Len(told'[e]) <= 2 /\ (Len(told'[e]) = 2 => e \in Routed')
<1> USE Groups, CodeFacts
<1>1. Routed \subseteq Routed'
  BY RoutedStep
<1>2. told \in [Events -> Seq(AllCodes \cup {Error})] /\ unconfirmed \subseteq Events
  BY DEF TypeOK
<1>3. ASSUME UNCHANGED told
      PROVE  \A e \in Events : Len(told'[e]) <= 2 /\ (Len(told'[e]) = 2 => e \in Routed')
  BY <1>1, <1>3
<1>4. ASSUME NEW e \in Events, NEW what \in AllCodes \cup {Error}, Tell(e, what),
             told[e] = <<>> \/ (Len(told[e]) <= 1 /\ e \in Routed)
      PROVE  \A d \in Events : Len(told'[d]) <= 2 /\ (Len(told'[d]) = 2 => d \in Routed')
  <2>1. /\ \A d \in Events \ {e} : told'[d] = told[d]
        /\ Len(told'[e]) = Len(told[e]) + 1 /\ Len(told[e]) \in Nat
    BY <1>2, <1>4, TellFacts, LenProperties
  <2>2. told[e] = <<>> => Len(told[e]) = 0
    OBVIOUS
  <2>3. Len(told'[e]) <= 2 /\ (Len(told'[e]) = 2 => e \in Routed')
    BY <1>1, <1>4, <2>1, <2>2
  <2> QED BY <1>1, <2>1, <2>3
<1>5. ASSUME NEW e \in Events, SaveEventFails(e) \/ FindResult(e) \/ FindResultFails(e)
      PROVE  \A d \in Events : Len(told'[d]) <= 2 /\ (Len(told'[d]) = 2 => d \in Routed')
  <2>1. PICK what \in AllCodes \cup {Error} : Tell(e, what)
    BY <1>5 DEF SaveEventFails, FindResult, FindResultFails, TypeOK, Results
  <2>2. told[e] = <<>> \/ (stage[e] = "finding" /\ told[e] = <<Error>>)
    BY <1>5 DEF SaveEventFails, FindResult, FindResultFails, ToldAgrees
  <2>3. stage[e] = "finding" => e \in Routed
    BY DEF RoutedAgree
  <2>4. told[e] = <<Error>> => Len(told[e]) <= 1
    BY ShortHistory
  <2> QED BY <1>4, <2>1, <2>2, <2>3, <2>4
<1>6. ASSUME NEW e \in Events, ConfirmFails(e)
      PROVE  \A d \in Events : Len(told'[d]) <= 2 /\ (Len(told'[d]) = 2 => d \in Routed')
  <2>1. Tell(e, Error) /\ e \in unconfirmed /\ Error \in AllCodes \cup {Error}
    BY <1>6 DEF ConfirmFails
  <2>2. told[e] = <<>> \/ (Len(told[e]) <= 1 /\ e \in Routed)
    BY <1>2, <2>1 DEF ToldAgrees, RoutedAgree
  <2> QED BY <1>4, <2>1, <2>2
<1>7. ASSUME NEW e \in Events, Call(e) \/ SaveEvent(e) \/ Confirm(e) \/ ReceiveResult(e)
      PROVE  UNCHANGED told
  BY <1>7 DEF Call, SaveEvent, Confirm, ReceiveResult
<1>8. ASSUME SendEvents \/ SendEventsFails \/ CallerCrash PROVE UNCHANGED told
  BY <1>8 DEF SendEvents, SendEventsFails, Publish, CallerCrash
<1>9. ASSUME ChannelNext \/ (\E hd \in handlers : HandlerStep(hd)) \/ UNCHANGED vars
      PROVE  UNCHANGED told
  BY <1>9, HostFrame DEF vars
<1> QED BY <1>3, <1>5, <1>6, <1>7, <1>8, <1>9 DEF Next, CallerNext

LEMMA TwicePaidNext ==
  ASSUME TypeOK, ToldAgrees, TwicePaid, [Next]_vars
  PROVE  TwicePaid'
<1>1. errors \in Nat /\ (errors' = errors \/ errors' = errors + 1)
  BY ErrorsGrow
<1>2. Cardinality(Twice) \in Nat /\ Cardinality(Twice) <= errors /\ IsFiniteSet(Twice)
  BY FS_CardinalityType DEF TwicePaid
<1>3. RoutedAgree'
  BY RoutedAgreeNext DEF TwicePaid
<1>4. \A e \in Events : Len(told'[e]) <= 2 /\ (Len(told'[e]) = 2 => e \in Routed')
  BY BriefStep DEF TwicePaid
<1>5. CASE Twice' \subseteq Twice
  <2>1. IsFiniteSet(Twice') /\ Cardinality(Twice') <= Cardinality(Twice)
        /\ Cardinality(Twice') \in Nat
    BY <1>2, <1>5, FS_Subset, FS_CardinalityType
  <2>2. Cardinality(Twice') <= errors'
    BY <1>1, <1>2, <2>1
  <2> QED BY <1>3, <1>4, <2>1, <2>2 DEF TwicePaid
<1>6. ASSUME errors' = errors + 1, NEW d, Twice' \subseteq Twice \cup {d} PROVE TwicePaid'
  <2>1. /\ IsFiniteSet(Twice \cup {d})
        /\ Cardinality(Twice \cup {d}) =
             IF d \in Twice THEN Cardinality(Twice) ELSE Cardinality(Twice) + 1
    BY <1>2, FS_AddElement
  <2>2. IsFiniteSet(Twice') /\ Cardinality(Twice') <= Cardinality(Twice \cup {d})
        /\ Cardinality(Twice') \in Nat
    BY <1>6, <2>1, FS_Subset, FS_CardinalityType
  <2>3. Cardinality(Twice') <= errors'
    BY <1>1, <1>2, <1>6, <2>1, <2>2
  <2> QED BY <1>3, <1>4, <2>2, <2>3 DEF TwicePaid
<1> QED BY <1>5, <1>6, TwiceStep DEF TwicePaid

THEOREM TwiceInvariance == Spec => []TwicePaid
<1>1. Init => TwicePaid
  <2> SUFFICES ASSUME Init PROVE TwicePaid
    OBVIOUS
  <2>1. Twice = {} /\ errors = 0 /\ RoutedAgree
    BY DEF Init, Twice, Routed, RoutedAgree
  <2>2. \A e \in Events : told[e] = <<>>
    BY DEF Init
  <2>3. Len(<<>>) = 0
    OBVIOUS
  <2>4. \A e \in Events : Len(told[e]) = 0
    BY <2>2, <2>3, Zenon
  <2> QED BY <2>1, <2>4, FS_EmptySet DEF TwicePaid
<1>2. IInv /\ TwicePaid /\ [Next]_vars => TwicePaid'
  BY TwicePaidNext DEF IInv
<1> QED BY <1>1, <1>2, Invariance, PTL DEF Spec

\* No callback is given more than two answers, and two only by an error each, for any
\* number of hosts, events and faults of every kind (mq.js:189).
THEOREM AnsweredTwicePaid == Spec => []AnsweredTwiceByErrors
<1>1. TypeOK /\ TwicePaid => AnsweredTwiceByErrors
  <2> SUFFICES ASSUME TypeOK, TwicePaid PROVE AnsweredTwiceByErrors
    OBVIOUS
  <2> DEFINE Both == {e \in Events : Len(told[e]) = 2}
  <2>1. Both \subseteq Twice
    BY DEF TwicePaid, Twice
  <2>2. /\ IsFiniteSet(Twice) /\ Cardinality(Twice) \in Nat /\ Cardinality(Twice) <= errors
        /\ errors \in Nat
    BY FS_CardinalityType, FlowAssumption DEF TwicePaid, TypeOK
  <2>3. Cardinality(Both) <= Cardinality(Twice) /\ Cardinality(Both) \in Nat
    BY <2>1, <2>2, FS_Subset, FS_CardinalityType
  <2>4. Cardinality(Both) <= errors
    BY <2>2, <2>3
  <2> QED BY <2>4 DEF TwicePaid, AnsweredTwiceByErrors
<1> QED BY <1>1, TwiceInvariance, TypeCorrect, PTL

-----------------------------------------------------------------------------
(* What a mixed result takes, under any faults.                            *)

\* The message of a result is what a failed execution ended with.
MessageAgrees ==
  \A e \in Events : results[e].message \in outcomes[e] \cup {0} /\ results[e].message # OK

\* As long as no channel closed, an event has one outcome, and none before its logic.
Single ==
  \/ ClosedChannels # {}
  \/ /\ OwnsAgree /\ OneCopy
     /\ \A e \in Events : /\ Awaits(e, BeforeLogic) => outcomes[e] = {}
                          /\ \A c, d \in outcomes[e] : c = d

\* Who adds an outcome.
LEMMA OutcomesStep ==
  ASSUME TypeOK, [Next]_vars
  PROVE  \/ outcomes' = outcomes
         \/ \E hd \in handlers :
              \/ \E code \in Codes : ExecuteLogic(hd, code)
              \/ FindEventFails(hd) /\ NackThrows(hd)
<1> USE Groups
<1>1. CASE CallerNext
  BY <1>1, CallerFrame
<1>2. CASE ChannelNext
  BY <1>2 DEF ChannelNext, ChannelCloses, Reopen, HostCrash, Deliver
<1>3. ASSUME NEW hd \in handlers, HandlerStep(hd)
      PROVE  \/ outcomes' = outcomes \/ \E code \in Codes : ExecuteLogic(hd, code)
             \/ FindEventFails(hd) /\ NackThrows(hd)
  BY <1>3 DEF HandlerStep, FindEvent, FindEventFails, Nack, SaveResult, SaveResultFails, SendResult,
     SendResultFails, SaveNotif, SaveNotifFails, SendNotif, SendNotifFails, AckEvent
<1>4. CASE UNCHANGED vars
  BY <1>4 DEF vars
<1> QED BY <1>1, <1>2, <1>3, <1>4 DEF Next

LEMMA MessageNext ==
  ASSUME TypeOK, CodesAgree, MessageAgrees, [Next]_vars
  PROVE  MessageAgrees'
<1> USE Groups, CodeFacts
<1>1. outcomes \in [Events -> SUBSET AllCodes] /\ results \in [Events -> Results]
      /\ \A hd \in handlers : hd.event \in Events
  BY DEF TypeOK, Handlers
<1>2. \A e \in Events : outcomes[e] \subseteq outcomes'[e]
  <2>1. ASSUME NEW hd \in handlers, NEW code, outcomes' = [outcomes EXCEPT ![hd.event] = @ \cup {code}]
        PROVE  \A e \in Events : outcomes[e] \subseteq outcomes'[e]
    BY <1>1, <2>1
  <2> QED BY <2>1, OutcomesStep DEF ExecuteLogic, NackThrows
<1>3. ASSUME UNCHANGED results PROVE MessageAgrees'
  BY <1>2, <1>3 DEF MessageAgrees
<1>4. ASSUME NEW hd \in handlers, hd.pc = "saving",
             results' = [results EXCEPT ![hd.event] = Upserted(@, hd.code)]
      PROVE  MessageAgrees'
  <2>1. hd.code \in outcomes[hd.event]
    BY <1>4 DEF CodesAgree
  <2>2. results'[hd.event].message = IF hd.code = OK THEN results[hd.event].message ELSE hd.code
    BY <1>1, <1>4 DEF Upserted
  <2>3. \A e \in Events \ {hd.event} : results'[e] = results[e]
    BY <1>1, <1>4
  <2> QED BY <1>1, <1>2, <2>1, <2>2, <2>3 DEF MessageAgrees, OK
<1>5. CASE CallerNext \/ ChannelNext \/ UNCHANGED vars
  BY <1>3, <1>5, CallerFrame
  DEF vars, ChannelNext, ChannelCloses, Reopen, HostCrash, Deliver
<1>6. ASSUME NEW hd \in handlers, HandlerStep(hd) PROVE MessageAgrees'
  <2>1. CASE SaveResult(hd) \/ SaveResultFails(hd)
    BY <1>3, <1>4, <2>1 DEF SaveResult, SaveResultFails
  <2>2. CASE ~ (SaveResult(hd) \/ SaveResultFails(hd))
    BY <1>3, <1>6, <2>2 DEF HandlerStep, FindEvent, FindEventFails, ExecuteLogic, SendResult,
       SendResultFails, SaveNotif, SaveNotifFails, SendNotif, SendNotifFails, AckEvent
  <2> QED BY <2>1, <2>2
<1> QED BY <1>5, <1>6 DEF Next

LEMMA SingleNext ==
  ASSUME TypeOK, Single, [Next]_vars
  PROVE  Single'
<1> USE Groups, CodeFacts
<1>1. SUFFICES ASSUME ClosedChannels' = {} PROVE Single'
  BY DEF Single
<1>2. ClosedChannels = {}
  BY <1>1, ClosedGrows
<1>3. /\ OwnsAgree /\ OneCopy
      /\ \A e \in Events : /\ Awaits(e, BeforeLogic) => outcomes[e] = {}
                           /\ \A c, d \in outcomes[e] : c = d
  BY <1>2 DEF Single
<1>4. Quiet
  <2>1. ASSUME NEW h \in Hosts, ChannelCloses(h) PROVE FALSE
    <3>1. h \notin open' /\ chan' = chan /\ chan[h] \in 0 .. MaxChannels
      BY <2>1 DEF ChannelCloses, Close, TypeOK
    <3>2. <<h, chan[h]>> \in ClosedChannels'
      BY <3>1 DEF ClosedChannels
    <3> QED BY <1>1, <3>2
  <2> QED BY <2>1 DEF Quiet
<1>5. OwnsAgree' /\ OneCopy'
  BY <1>3, <1>4, OwnsNext, OneCopyNext
<1>6. ASSUME NEW e \in Events, Awaits(e, BeforeLogic)' PROVE Awaits(e, BeforeLogic)
  <2>1. IsFiniteSet(ClosedChannels) /\ Cardinality(ClosedChannels) = 0
        /\ Cardinality(ClosedChannels') = 0
    BY <1>1, <1>2, FS_EmptySet
  <2>2. \/ Awaits(e, BeforeLogic)
        \/ Cardinality(ClosedChannels') = Cardinality(ClosedChannels) + 1
    BY <1>3, <1>4, <1>6, <2>1, AwaitsStep
  <2> QED BY <2>1, <2>2
<1>7. outcomes' = outcomes \/ \E hd \in handlers, code \in Codes : ExecuteLogic(hd, code)
  <2>1. \A hd \in handlers : ~ NackThrows(hd)
    BY <1>3, OwnedHost DEF NackThrows
  <2> QED BY <2>1, OutcomesStep
<1>8. CASE outcomes' = outcomes
  BY <1>3, <1>5, <1>6, <1>8 DEF Single
<1>9. ASSUME NEW hd \in handlers, NEW code \in Codes, ExecuteLogic(hd, code) PROVE Single'
  <2>1. hd.event \in Events /\ code \in AllCodes \cup {0} /\ outcomes \in [Events -> SUBSET AllCodes]
    BY DEF TypeOK, Handlers
  <2>2. Awaits(hd.event, BeforeLogic) /\ ~ Awaits(hd.event, BeforeLogic)'
    BY <1>3, <1>9, <2>1, HandlerSpends DEF ExecuteLogic, BeforeLogic, Pcs
  <2>3. outcomes'[hd.event] = {code}
    BY <1>3, <1>9, <2>1, <2>2 DEF ExecuteLogic
  <2>4. \A e \in Events \ {hd.event} : outcomes'[e] = outcomes[e]
    BY <1>9, <2>1 DEF ExecuteLogic
  <2>5. ASSUME NEW e \in Events
        PROVE  /\ Awaits(e, BeforeLogic)' => outcomes'[e] = {}
               /\ \A c, d \in outcomes'[e] : c = d
    <3>1. CASE e = hd.event
      BY <2>2, <2>3, <3>1
    <3>2. CASE e # hd.event
      BY <1>3, <1>6, <2>4, <3>2
    <3> QED BY <3>1, <3>2
  <2> QED BY <1>5, <2>5 DEF Single
<1> QED BY <1>7, <1>8, <1>9

THEOREM SingleInvariance == Spec => [](MessageAgrees /\ Single)
<1>1. Init => MessageAgrees /\ Single
  BY NothingClosed DEF Init, MessageAgrees, Single, OwnsAgree, OK
<1>2. IInv /\ (MessageAgrees /\ Single) /\ [Next]_vars => (MessageAgrees /\ Single)'
  BY MessageNext, SingleNext DEF IInv
<1> QED BY <1>1, <1>2, Invariance, PTL DEF Spec

\* A result that pairs success with the message of a failure takes two executions and
\* a channel that closed, for any number of hosts, events and faults of every kind
\* (mongo.js:111-120).
THEOREM MixedResultPaid == Spec => []MixedResultOnlyByRerun
<1>1. IInv /\ MessageAgrees /\ Single => MixedResultOnlyByRerun
  <2> SUFFICES ASSUME CodesAgree, MessageAgrees, Single, NEW e \in Events,
                      results[e].code = OK, results[e].message # 0
               PROVE  {OK, results[e].message} \subseteq outcomes[e] /\ ClosedChannels # {}
    BY DEF IInv, MixedResultOnlyByRerun
  <2>1. OK \in outcomes[e] /\ results[e].message \in outcomes[e] /\ results[e].message # OK
    BY DEF CodesAgree, MessageAgrees, OK
  <2>2. ClosedChannels # {}
    BY <2>1, Zenon DEF Single
  <2> QED BY <2>1, <2>2
<1> QED BY <1>1, SingleInvariance, Invariance, PTL
=============================================================================
