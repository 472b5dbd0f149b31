--------------------------- MODULE EventFlowProofs ---------------------------
(***************************************************************************)
(* Proofs about EventFlow for any sets of events and hosts and any bounds: *)
(* its types, that it keeps what RemoteCall promises, and, where channels  *)
(* close only with their process, that an acked event is done.             *)
(***************************************************************************)
EXTENDS EventFlow, SequenceTheorems, TLAPS

\* A handler past the logic carries an outcome of its event, and a saved result
\* is one.
CodesAgree ==
  /\ \A hd \in handlers : hd.pc \notin {"finding", "executing"} => hd.code \in outcomes[hd.event]
  /\ \A e \in Events : results[e].code \in outcomes[e] \cup {0}

\* What a callback was told, by where its solution is: one answer at most is
\* still to come from a result, and one from a confirm.
ToldAgrees ==
  /\ \A e \in Events : stage[e] \in {"idle", "saving", "connecting"} =>
       told[e] = <<>> /\ e \notin unconfirmed
  /\ \A e \in Events : stage[e] \in {"sent", "finding"} =>
       told[e] = <<>> \/ (told[e] = <<Error>> /\ e \notin unconfirmed)
  /\ \A e \in unconfirmed : Len(told[e]) <= 1
  /\ \A e \in resultHandlers : stage[e] = "sent"

IInv == TypeOK /\ CodesAgree /\ ToldAgrees

-----------------------------------------------------------------------------
(* Lemmas.                                                                 *)

LEMMA CodeFacts ==
  /\ Failed \in AllCodes /\ Codes \subseteq AllCodes
  /\ 0 \notin AllCodes /\ Error = 0
BY FlowAssumption DEF AllCodes, OK, Rejected, Failed, Error

\* What telling does to the history of one callback.
LEMMA TellFacts ==
  ASSUME TypeOK, NEW e \in Events, NEW what \in AllCodes \cup {Error}, Tell(e, what)
  PROVE  /\ told' \in [Events -> Seq(AllCodes \cup {Error})]
         /\ told'[e] = Append(told[e], what)
         /\ Len(told'[e]) = Len(told[e]) + 1
         /\ \A d \in Events \ {e} : told'[d] = told[d]
         /\ told[e] = <<>> => told'[e] = <<what>>
<1>1. told \in [Events -> Seq(AllCodes \cup {Error})]
  BY DEF TypeOK
<1>2. /\ Append(told[e], what) \in Seq(AllCodes \cup {Error})
      /\ Len(Append(told[e], what)) = Len(told[e]) + 1
  BY <1>1, AppendProperties
<1>3. told[e] = <<>> => Append(told[e], what) = <<what>>
  OBVIOUS
<1> QED BY <1>1, <1>2, <1>3 DEF Tell

\* A handler moved on is a handler.
LEMMA MoveFacts ==
  ASSUME handlers \subseteq Handlers, NEW hd \in handlers, NEW pc \in Pcs,
         NEW code \in AllCodes \cup {0}, Move(hd, pc, code)
  PROVE  /\ handlers' \subseteq Handlers
         /\ \A g \in handlers' : \/ g \in handlers
                                 \/ /\ g.host = hd.host /\ g.chan = hd.chan /\ g.tag = hd.tag
                                    /\ g.event = hd.event /\ g.pc = pc /\ g.code = code
<1> DEFINE m == [hd EXCEPT !.pc = pc, !.code = code]
<1>1. hd \in Handlers
  OBVIOUS
<1>2. /\ m \in Handlers
      /\ m.host = hd.host /\ m.chan = hd.chan /\ m.tag = hd.tag
      /\ m.event = hd.event /\ m.pc = pc /\ m.code = code
  BY <1>1 DEF Handlers
<1>3. handlers' = (handlers \ {hd}) \cup {m}
  BY DEF Move
<1> QED BY <1>2, <1>3

LEMMA FaultType ==
  ASSUME TypeOK, Fault
  PROVE  /\ crashes' \in 0 .. MaxCrashes /\ closes' \in 0 .. MaxCloses
         /\ errors' \in 0 .. MaxErrors
BY FlowAssumption DEF Fault, TypeOK

\* The variables a group stands for.
LEMMA Groups ==
  /\ UNCHANGED calling <=> UNCHANGED <<stage, resultHandlers, unconfirmed, told>>
  /\ UNCHANGED documents <=> UNCHANGED <<saved, results, notifs>>
  /\ UNCHANGED queue <=> UNCHANGED <<ready, unacked, acked>>
  /\ UNCHANGED channels <=> UNCHANGED <<open, chan, lastTag>>
  /\ UNCHANGED sent <=> UNCHANGED <<resultMsgs, broadcast, answered>>
  /\ UNCHANGED ran <=> UNCHANGED <<outcomes, execs>>
  /\ UNCHANGED faults <=> UNCHANGED <<crashes, closes, errors>>
BY DEF calling, documents, queue, channels, sent, ran, faults



-----------------------------------------------------------------------------
(* The inductive invariant: the process that calls.                        *)

\* What no turn of the caller touches.
LEMMA CallerFrame ==
  CallerNext => UNCHANGED <<results, notifs, unacked, acked, channels, broadcast, answered, ran,
                            handlers>>
BY Groups
DEF CallerNext, Call, SaveEvent, SaveEventFails, Confirm, ConfirmFails, ReceiveResult,
    FindResult, FindResultFails, SendEvents, SendEventsFails, Publish, CallerCrash

LEMMA CallerTypes == TypeOK /\ CallerNext => TypeOK'
<1> SUFFICES ASSUME TypeOK, CallerNext PROVE TypeOK'
  OBVIOUS
<1> USE Groups, CodeFacts
<1>1. ASSUME stage' \in [Events -> Stages], resultHandlers' \subseteq Events,
             unconfirmed' \subseteq Events, told' \in [Events -> Seq(AllCodes \cup {Error})],
             saved' \subseteq Events, ready' \subseteq Events, resultMsgs' \in [Events -> Nat],
             crashes' \in 0 .. MaxCrashes, closes' \in 0 .. MaxCloses, errors' \in 0 .. MaxErrors
      PROVE  TypeOK'
  BY <1>1, CallerFrame DEF TypeOK
<1>2. ASSUME NEW e \in Events, Call(e) PROVE TypeOK'
  BY <1>1, <1>2 DEF Call, TypeOK, Stages
<1>3. ASSUME NEW e \in Events, SaveEvent(e) PROVE TypeOK'
  BY <1>1, <1>3 DEF SaveEvent, TypeOK, Stages
<1>4. ASSUME NEW e \in Events, SaveEventFails(e) PROVE TypeOK'
  <2>1. stage' \in [Events -> Stages] /\ saved' \subseteq Events
    BY <1>4 DEF SaveEventFails, TypeOK, Stages
  <2> QED BY <1>1, <1>4, <2>1, TellFacts, FaultType DEF SaveEventFails, TypeOK
<1>5. ASSUME NEW e \in Events, Confirm(e) PROVE TypeOK'
  BY <1>1, <1>5 DEF Confirm, TypeOK
<1>6. ASSUME NEW e \in Events, ConfirmFails(e) PROVE TypeOK'
  <2>1. /\ crashes' \in 0 .. MaxCrashes /\ closes' \in 0 .. MaxCloses
        /\ errors' \in 0 .. MaxErrors
    BY <1>6, FaultType DEF ConfirmFails, TypeOK
  <2> QED BY <1>1, <1>6, <2>1, TellFacts DEF ConfirmFails, TypeOK
<1>7. ASSUME NEW e \in Events, ReceiveResult(e) PROVE TypeOK'
  <2>1. stage' \in [Events -> Stages] /\ resultHandlers' \subseteq Events
    BY <1>7 DEF ReceiveResult, Remaining, TypeOK, Stages
  <2>2. resultMsgs' \in [Events -> Nat]
    BY <1>7 DEF ReceiveResult, TypeOK
  <2> QED BY <1>1, <1>7, <2>1, <2>2 DEF ReceiveResult, TypeOK
<1>8. ASSUME NEW e \in Events, FindResult(e) PROVE TypeOK'
  <2>1. (IF results[e].code = 0 THEN Error ELSE results[e].code) \in AllCodes \cup {Error}
    BY DEF TypeOK, Results
  <2>2. stage' \in [Events -> Stages]
    BY <1>8 DEF FindResult, TypeOK, Stages
  <2> QED BY <1>1, <1>8, <2>1, <2>2, TellFacts DEF FindResult, TypeOK
<1>9. ASSUME NEW e \in Events, FindResultFails(e) PROVE TypeOK'
  <2>1. stage' \in [Events -> Stages]
    BY <1>9 DEF FindResultFails, TypeOK, Stages
  <2> QED BY <1>1, <1>9, <2>1, TellFacts, FaultType DEF FindResultFails, TypeOK
<1>10. ASSUME NEW S \in SUBSET Connecting, Publish(S),
              crashes' \in 0 .. MaxCrashes, closes' \in 0 .. MaxCloses, errors' \in 0 .. MaxErrors
       PROVE  TypeOK'
  <2>1. stage' \in [Events -> Stages]
    BY <1>10 DEF Publish, TypeOK, Stages
  <2>2. resultHandlers' \subseteq Events /\ unconfirmed' \subseteq Events /\ ready' \subseteq Events
    BY <1>10 DEF Publish, TypeOK, Connecting
  <2> QED BY <1>1, <1>10, <2>1, <2>2 DEF Publish, TypeOK
<1>11. CASE SendEvents
  BY <1>10, <1>11 DEF SendEvents, TypeOK
<1>12. CASE SendEventsFails
  BY <1>10, <1>12, FaultType DEF SendEventsFails
<1>13. CASE CallerCrash
  <2>1. stage' \in [Events -> Stages]
    BY <1>13 DEF CallerCrash, TypeOK, Stages
  <2> QED BY <1>1, <1>13, <2>1, FlowAssumption DEF CallerCrash, Crash, TypeOK
<1> QED
  BY <1>2, <1>3, <1>4, <1>5, <1>6, <1>7, <1>8, <1>9, <1>11, <1>12, <1>13 DEF CallerNext

LEMMA CallerCodes == CodesAgree /\ CallerNext => CodesAgree'
BY CallerFrame, Groups DEF CodesAgree

LEMMA CallerTold == TypeOK /\ ToldAgrees /\ CallerNext => ToldAgrees'
<1> SUFFICES ASSUME TypeOK, ToldAgrees, CallerNext PROVE ToldAgrees'
  OBVIOUS
<1> USE Groups, CodeFacts
<1>1. /\ stage \in [Events -> Stages] /\ unconfirmed \subseteq Events
      /\ resultHandlers \subseteq Events /\ told \in [Events -> Seq(AllCodes \cup {Error})]
  BY DEF TypeOK
<1>2. ASSUME NEW e \in Events, Call(e) \/ SaveEvent(e) PROVE ToldAgrees'
  BY <1>1, <1>2 DEF Call, SaveEvent, ToldAgrees
<1>3. ASSUME NEW e \in Events, SaveEventFails(e) PROVE ToldAgrees'
  <2>1. /\ \A d \in Events \ {e} : told'[d] = told[d] /\ stage'[d] = stage[d]
        /\ stage'[e] = "done" /\ e \notin unconfirmed /\ e \notin resultHandlers
        /\ UNCHANGED <<unconfirmed, resultHandlers>>
    BY <1>1, <1>3, TellFacts DEF SaveEventFails, ToldAgrees
  <2> QED BY <1>1, <2>1 DEF ToldAgrees
<1>4. ASSUME NEW e \in Events, Confirm(e) PROVE ToldAgrees'
  BY <1>1, <1>4 DEF Confirm, ToldAgrees
<1>5. ASSUME NEW e \in Events, ConfirmFails(e) PROVE ToldAgrees'
  <2>1. /\ \A d \in Events \ {e} : told'[d] = told[d]
        /\ told[e] = <<>> => told'[e] = <<Error>>
        /\ unconfirmed' = unconfirmed \ {e} /\ e \in unconfirmed
        /\ UNCHANGED <<stage, resultHandlers>>
    BY <1>5, TellFacts DEF ConfirmFails
  <2> QED BY <1>1, <2>1 DEF ToldAgrees
<1>6. ASSUME NEW e \in Events, ReceiveResult(e) PROVE ToldAgrees'
  <2>1. CASE e \in resultHandlers
    BY <1>1, <1>6, <2>1 DEF ReceiveResult, Remaining, ToldAgrees
  <2>2. CASE e \notin resultHandlers
    BY <1>6, <2>2 DEF ReceiveResult, ToldAgrees
  <2> QED BY <2>1, <2>2
<1>7. ASSUME NEW e \in Events, FindResult(e) \/ FindResultFails(e) PROVE ToldAgrees'
  <2>1. PICK what \in AllCodes \cup {Error} : Tell(e, what)
    BY <1>7 DEF FindResult, FindResultFails, TypeOK, Results
  <2>2. /\ \A d \in Events \ {e} : told'[d] = told[d] /\ stage'[d] = stage[d]
        /\ stage'[e] = "done" /\ stage[e] = "finding"
        /\ Len(told'[e]) = Len(told[e]) + 1
        /\ UNCHANGED <<unconfirmed, resultHandlers>>
    BY <1>1, <1>7, <2>1, TellFacts DEF FindResult, FindResultFails
  <2>3. e \in unconfirmed => Len(told'[e]) <= 1
    BY <2>2 DEF ToldAgrees
  <2> QED BY <1>1, <2>2, <2>3 DEF ToldAgrees
<1>8. ASSUME NEW S \in SUBSET Connecting, Publish(S) PROVE ToldAgrees'
  <2>1. \A e \in Connecting : told[e] = <<>> /\ stage'[e] = "sent"
    BY <1>8 DEF Publish, ToldAgrees, Connecting
  <2>2. \A e \in Events \ Connecting : stage'[e] = stage[e]
    BY <1>8 DEF Publish
  <2>3. /\ unconfirmed' = unconfirmed \cup Connecting
        /\ resultHandlers' = resultHandlers \cup Connecting
        /\ told' = told
    BY <1>8 DEF Publish
  <2>4. \A e \in Events : stage'[e] \in {"idle", "saving", "connecting"} =>
          told'[e] = <<>> /\ e \notin unconfirmed'
    BY <2>1, <2>2, <2>3 DEF ToldAgrees
  <2>5. \A e \in Events : stage'[e] \in {"sent", "finding"} =>
          told'[e] = <<>> \/ (told'[e] = <<Error>> /\ e \notin unconfirmed')
    BY <2>1, <2>2, <2>3 DEF ToldAgrees
  <2>6. \A e \in unconfirmed' : Len(told'[e]) <= 1
    <3>1. Len(<<>>) = 0
      OBVIOUS
    <3> QED BY <2>1, <2>3, <3>1 DEF ToldAgrees
  <2>7. \A e \in resultHandlers' : stage'[e] = "sent"
    BY <1>1, <2>1, <2>2, <2>3 DEF ToldAgrees
  <2> QED BY <2>4, <2>5, <2>6, <2>7 DEF ToldAgrees
<1>9. CASE CallerCrash
  BY <1>1, <1>9 DEF CallerCrash, ToldAgrees
<1> QED
  BY <1>2, <1>3, <1>4, <1>5, <1>6, <1>7, <1>8, <1>9
  DEF CallerNext, SendEvents, SendEventsFails

-----------------------------------------------------------------------------
(* The inductive invariant: channels and handlers.                         *)

\* What no turn of a host or of the broker touches.
LEMMA HostFrame ==
  ChannelNext \/ (\E hd \in handlers : HandlerStep(hd)) => UNCHANGED <<calling, saved>>
BY Groups
DEF ChannelNext, ChannelCloses, Reopen, HostCrash, Deliver, HandlerStep, FindEvent,
    FindEventFails, ExecuteLogic, SaveResult, SaveResultFails, SendResult, SendResultFails,
    SaveNotif, SaveNotifFails, SendNotif, SendNotifFails, AckEvent

LEMMA HostTold ==
  ToldAgrees /\ (ChannelNext \/ \E hd \in handlers : HandlerStep(hd)) => ToldAgrees'
BY HostFrame, Groups DEF ToldAgrees

\* The queue keeps its type when deliveries are returned or acknowledged.
LEMMA QueueTypes ==
  ASSUME TypeOK, NEW D \in SUBSET unacked
  PROVE  /\ unacked \ D \subseteq Deliveries
         /\ ready \cup {d.event : d \in D} \subseteq Events
         /\ acked \cup {d.event : d \in D} \subseteq Events
BY DEF TypeOK, Deliveries

LEMMA CloseTypes ==
  ASSUME TypeOK, NEW h \in Hosts, Close(h)
  PROVE  /\ open' \subseteq Hosts /\ UNCHANGED <<chan, lastTag, acked>>
         /\ unacked' \subseteq Deliveries /\ ready' \subseteq Events
<1>1. HeldBy(h) \in SUBSET unacked
  BY DEF HeldBy
<1> QED BY <1>1, QueueTypes DEF Close, Requeue, TypeOK

LEMMA ChannelTypes == TypeOK /\ ChannelNext => TypeOK'
<1> SUFFICES ASSUME TypeOK, NEW h \in Hosts,
                    \/ ChannelCloses(h) \/ Reopen(h) \/ HostCrash(h)
                    \/ \E e \in Events : Deliver(h, e)
             PROVE  TypeOK'
  BY DEF ChannelNext
<1> USE Groups, FlowAssumption
<1>1. CASE ChannelCloses(h)
  <2>1. /\ open' \subseteq Hosts /\ UNCHANGED <<chan, lastTag, acked>>
        /\ unacked' \subseteq Deliveries /\ ready' \subseteq Events
    BY <1>1, CloseTypes DEF ChannelCloses
  <2> QED BY <1>1, <2>1 DEF ChannelCloses, TypeOK
<1>2. CASE Reopen(h)
  <2>1. /\ open' \subseteq Hosts
        /\ UNCHANGED <<calling, documents, queue, sent, ran, faults, handlers>>
    BY <1>2 DEF Reopen, TypeOK
  <2>2. chan' \in [Hosts -> 0 .. MaxChannels] /\ lastTag' \in [Hosts -> 0 .. MaxTag]
    BY <1>2 DEF Reopen, TypeOK
  <2> QED BY <2>1, <2>2 DEF TypeOK
<1>3. CASE HostCrash(h)
  <2>1. /\ open' \subseteq Hosts /\ UNCHANGED <<chan, lastTag, acked>>
        /\ unacked' \subseteq Deliveries /\ ready' \subseteq Events
    BY <1>3, CloseTypes DEF HostCrash
  <2> QED BY <1>3, <2>1 DEF HostCrash, Crash, TypeOK
<1>4. ASSUME NEW e \in Events, Deliver(h, e) PROVE TypeOK'
  <2>1. NewTag(h) \in Tags /\ lastTag' \in [Hosts -> 0 .. MaxTag]
    <3>1. lastTag \in [Hosts -> 0 .. MaxTag] /\ lastTag[h] < MaxTag
          /\ lastTag' = [lastTag EXCEPT ![h] = @ + 1]
      BY <1>4 DEF Deliver, TypeOK
    <3> QED BY <3>1 DEF NewTag, Tags
  <2>2. unacked' \subseteq Deliveries
    BY <1>4, <2>1 DEF Deliver, TypeOK, Deliveries
  <2>3. handlers' \subseteq Handlers
    BY <1>4, <2>1 DEF Deliver, TypeOK, Handlers, Pcs
  <2>4. ready' \subseteq Events
    BY <1>4 DEF Deliver, TypeOK
  <2>5. UNCHANGED <<calling, documents, acked, open, chan, sent, ran, faults>>
    BY <1>4 DEF Deliver
  <2> QED BY <2>1, <2>2, <2>3, <2>4, <2>5 DEF TypeOK
<1> QED BY <1>1, <1>2, <1>3, <1>4

LEMMA ChannelCodes == CodesAgree /\ ChannelNext => CodesAgree'
<1> SUFFICES ASSUME CodesAgree, ChannelNext PROVE CodesAgree'
  OBVIOUS
<1>1. UNCHANGED <<outcomes, results>>
  BY Groups DEF ChannelNext, ChannelCloses, Reopen, HostCrash, Deliver
<1>2. \A hd \in handlers' : hd \in handlers \/ hd.pc = "finding"
  BY DEF ChannelNext, ChannelCloses, Reopen, HostCrash, Deliver
<1> QED BY <1>1, <1>2 DEF CodesAgree

\* The turns that only move one handler on or end it, and the fields they may
\* change besides.
LEMMA HandlerTypes ==
  ASSUME TypeOK, CodesAgree, NEW hd \in handlers, HandlerStep(hd)
  PROVE  TypeOK'
<1> USE Groups, CodeFacts
<1>1. /\ hd \in Handlers /\ hd.host \in Hosts /\ hd.event \in Events
      /\ hd.code \in AllCodes \cup {0} /\ handlers \subseteq Handlers
      /\ hd.pc \notin {"finding", "executing"} => hd.code \in AllCodes
  BY DEF TypeOK, Handlers, CodesAgree
<1>2. UNCHANGED <<calling, saved>>
  BY HostFrame
<1>3. ASSUME NEW pc \in Pcs, NEW code \in AllCodes \cup {0}, Move(hd, pc, code) \/ Leave(hd)
      PROVE  handlers' \subseteq Handlers
  BY <1>1, <1>3, MoveFacts DEF Leave
<1>4. ASSUME Leave(hd) PROVE handlers' \subseteq Handlers
  BY <1>1, <1>4 DEF Leave
<1>5. CASE FindEvent(hd)
  BY <1>1, <1>2, <1>3, <1>5 DEF FindEvent, TypeOK, Pcs
<1>6. CASE FindEventFails(hd)
  <2>1. /\ crashes' \in 0 .. MaxCrashes /\ closes' \in 0 .. MaxCloses
        /\ errors' \in 0 .. MaxErrors
    BY <1>6, FaultType DEF FindEventFails, TypeOK
  <2>2. CASE Nack(hd)
    <3>1. Tagged(hd.host, hd.tag) \in SUBSET unacked
      BY DEF Tagged
    <3>2. /\ open' \subseteq Hosts /\ UNCHANGED <<chan, lastTag, acked>>
          /\ unacked' \subseteq Deliveries /\ ready' \subseteq Events
      BY <1>1, <2>2, <3>1, CloseTypes, QueueTypes DEF Nack, Requeue, TypeOK
    <3> QED BY <1>2, <1>4, <1>6, <2>1, <2>2, <3>2 DEF FindEventFails, Nack, TypeOK
  <2>3. CASE NackThrows(hd)
    <3>1. handlers' \subseteq Handlers
      BY <1>3, <2>3 DEF NackThrows, Pcs
    <3>2. outcomes' \in [Events -> SUBSET AllCodes]
      BY <1>1, <2>3 DEF NackThrows, TypeOK
    <3> QED BY <1>2, <1>6, <2>1, <2>3, <3>1, <3>2 DEF FindEventFails, NackThrows, TypeOK
  <2> QED BY <1>6, <2>2, <2>3 DEF FindEventFails
<1>7. ASSUME NEW code \in Codes, ExecuteLogic(hd, code) PROVE TypeOK'
  <2>1. handlers' \subseteq Handlers
    BY <1>3, <1>7 DEF ExecuteLogic, Pcs
  <2>2. outcomes' \in [Events -> SUBSET AllCodes] /\ execs' \in [Events -> Nat]
    BY <1>1, <1>7 DEF ExecuteLogic, TypeOK
  <2>3. UNCHANGED <<documents, queue, channels, sent, faults>>
    BY <1>7 DEF ExecuteLogic
  <2> QED BY <1>2, <2>1, <2>2, <2>3 DEF TypeOK
<1>8. CASE SaveResult(hd) \/ SaveResultFails(hd)
  <2>1. /\ crashes' \in 0 .. MaxCrashes /\ closes' \in 0 .. MaxCloses
        /\ errors' \in 0 .. MaxErrors
    BY <1>8, FaultType DEF SaveResult, SaveResultFails, TypeOK
  <2>2. \A doc \in Results : Upserted(doc, hd.code) \in Results
    BY <1>1 DEF Upserted, Results
  <2>3. results' \in [Events -> Results]
    <3>1. [results EXCEPT ![hd.event] = Upserted(@, hd.code)] \in [Events -> Results]
      BY <1>1, <2>2 DEF TypeOK
    <3> QED BY <1>8, <3>1 DEF SaveResult, SaveResultFails, TypeOK
  <2>4. handlers' \subseteq Handlers
    BY <1>1, <1>3, <1>4, <1>8 DEF SaveResult, SaveResultFails, Pcs
  <2> QED BY <1>2, <1>8, <2>1, <2>3, <2>4 DEF SaveResult, SaveResultFails, TypeOK
<1>9. CASE SendResult(hd) \/ SendResultFails(hd)
  <2>1. /\ crashes' \in 0 .. MaxCrashes /\ closes' \in 0 .. MaxCloses
        /\ errors' \in 0 .. MaxErrors
    BY <1>9, FaultType DEF SendResult, SendResultFails, PublishFails, TypeOK
  <2>2. /\ resultMsgs' \in [Events -> Nat] /\ answered' \subseteq Events
        /\ UNCHANGED broadcast
    <3>1. CASE PublishResult(hd.event)
      BY <1>1, <3>1 DEF PublishResult, TypeOK
    <3>2. CASE UNCHANGED sent
      BY <3>2 DEF TypeOK
    <3> QED BY <1>9, <3>1, <3>2 DEF SendResult, SendResultFails
  <2>3. handlers' \subseteq Handlers
    BY <1>1, <1>3, <1>4, <1>9 DEF SendResult, SendResultFails, Pcs
  <2> QED BY <1>2, <1>9, <2>1, <2>2, <2>3 DEF SendResult, SendResultFails, TypeOK
<1>10. CASE SaveNotif(hd) \/ SaveNotifFails(hd)
  <2>1. /\ crashes' \in 0 .. MaxCrashes /\ closes' \in 0 .. MaxCloses
        /\ errors' \in 0 .. MaxErrors
    BY <1>10, FaultType DEF SaveNotif, SaveNotifFails, TypeOK
  <2>2. notifs' \subseteq Events
    BY <1>1, <1>10 DEF SaveNotif, SaveNotifFails, TypeOK
  <2>3. handlers' \subseteq Handlers
    BY <1>1, <1>3, <1>4, <1>10 DEF SaveNotif, SaveNotifFails, Pcs
  <2> QED BY <1>2, <1>10, <2>1, <2>2, <2>3 DEF SaveNotif, SaveNotifFails, TypeOK
<1>11. CASE SendNotif(hd) \/ SendNotifFails(hd)
  <2>1. /\ crashes' \in 0 .. MaxCrashes /\ closes' \in 0 .. MaxCloses
        /\ errors' \in 0 .. MaxErrors
    BY <1>11, FaultType DEF SendNotif, SendNotifFails, PublishFails, TypeOK
  <2>2. /\ broadcast' \in [Events -> SUBSET AllCodes]
        /\ UNCHANGED <<resultMsgs, answered>>
    <3>1. hd.code \in AllCodes
      BY <1>1, <1>11 DEF SendNotif, SendNotifFails
    <3>2. CASE PublishNotif(hd)
      BY <1>1, <3>1, <3>2 DEF PublishNotif, TypeOK
    <3>3. CASE UNCHANGED sent
      BY <3>3 DEF TypeOK
    <3> QED BY <1>11, <3>2, <3>3 DEF SendNotif, SendNotifFails
  <2>3. handlers' \subseteq Handlers
    BY <1>1, <1>3, <1>4, <1>11 DEF SendNotif, SendNotifFails, Pcs
  <2> QED BY <1>2, <1>11, <2>1, <2>2, <2>3 DEF SendNotif, SendNotifFails, TypeOK
<1>12. CASE AckEvent(hd)
  <2>1. Tagged(hd.host, hd.tag) \in SUBSET unacked
    BY DEF Tagged
  <2>2. /\ open' \subseteq Hosts /\ UNCHANGED <<chan, lastTag>>
        /\ unacked' \subseteq Deliveries /\ ready' \subseteq Events /\ acked' \subseteq Events
    BY <1>1, <1>12, <2>1, CloseTypes, QueueTypes DEF AckEvent, TypeOK
  <2> QED BY <1>2, <1>4, <1>12, <2>2 DEF AckEvent, TypeOK
<1> QED
  BY <1>5, <1>6, <1>7, <1>8, <1>9, <1>10, <1>11, <1>12 DEF HandlerStep

LEMMA HandlerCodes ==
  ASSUME TypeOK, CodesAgree, NEW hd \in handlers, HandlerStep(hd)
  PROVE  CodesAgree'
<1> USE Groups, CodeFacts
<1>1. /\ hd.event \in Events /\ hd.code \in AllCodes \cup {0} /\ handlers \subseteq Handlers
      /\ hd.pc \notin {"finding", "executing"} => hd.code \in outcomes[hd.event]
      /\ outcomes \in [Events -> SUBSET AllCodes] /\ results \in [Events -> Results]
  BY DEF TypeOK, Handlers, CodesAgree
<1>2. \A e \in Events : outcomes[e] \subseteq outcomes'[e]
  BY <1>1 DEF HandlerStep, FindEvent, FindEventFails, Nack, NackThrows, ExecuteLogic,
       SaveResult, SaveResultFails, SendResult, SendResultFails, SaveNotif, SaveNotifFails,
       SendNotif, SendNotifFails, AckEvent
<1>3. \A e \in Events : results'[e].code \in outcomes'[e] \cup {0}
  <2>1. CASE SaveResult(hd) \/ SaveResultFails(hd)
    <3>1. \A doc : Upserted(doc, hd.code).code = hd.code
      BY DEF Upserted
    <3>2. hd.code \in outcomes[hd.event]
      BY <1>1, <2>1 DEF SaveResult, SaveResultFails
    <3> QED BY <1>1, <1>2, <2>1, <3>1, <3>2 DEF SaveResult, SaveResultFails, CodesAgree
  <2>2. CASE ~(SaveResult(hd) \/ SaveResultFails(hd))
    <3>1. UNCHANGED results
      BY <2>2 DEF HandlerStep, FindEvent, FindEventFails, ExecuteLogic, SendResult,
           SendResultFails, SaveNotif, SaveNotifFails, SendNotif, SendNotifFails, AckEvent
    <3> QED BY <1>2, <3>1 DEF CodesAgree
  <2> QED BY <2>1, <2>2
<1>4. ASSUME NEW pc \in Pcs, NEW code \in AllCodes \cup {0}, Move(hd, pc, code),
             pc \in {"finding", "executing"} \/ code \in outcomes'[hd.event]
      PROVE  CodesAgree'
  <2>1. \A g \in handlers' :
          g \in handlers \/ (g.event = hd.event /\ g.pc = pc /\ g.code = code)
    BY <1>1, <1>4, MoveFacts
  <2>2. \A g \in handlers : g.event \in Events
    BY <1>1 DEF Handlers
  <2> QED BY <1>2, <1>3, <1>4, <2>1, <2>2 DEF CodesAgree
<1>5. ASSUME Leave(hd) PROVE CodesAgree'
  <2>1. \A g \in handlers' : g \in handlers /\ g.event \in Events
    BY <1>1, <1>5 DEF Leave, Handlers
  <2> QED BY <1>2, <1>3, <2>1 DEF CodesAgree
<1>6. CASE FindEvent(hd)
  BY <1>4, <1>6 DEF FindEvent, Pcs
<1>7. CASE FindEventFails(hd)
  <2>1. CASE Nack(hd)
    BY <1>5, <2>1 DEF Nack
  <2>2. CASE NackThrows(hd)
    <3>1. Failed \in outcomes'[hd.event] /\ "saving" \in Pcs
      BY <1>1, <2>2 DEF NackThrows, Pcs
    <3> QED BY <1>4, <2>2, <3>1 DEF NackThrows
  <2> QED BY <1>7, <2>1, <2>2 DEF FindEventFails
<1>8. ASSUME NEW code \in Codes, ExecuteLogic(hd, code) PROVE CodesAgree'
  <2>1. code \in outcomes'[hd.event] /\ "saving" \in Pcs
    BY <1>1, <1>8 DEF ExecuteLogic, Pcs
  <2> QED BY <1>4, <1>8, <2>1 DEF ExecuteLogic
<1>9. CASE SaveResult(hd) \/ SendResult(hd) \/ SaveNotif(hd) \/ SendNotif(hd)
  <2>1. hd.code \in outcomes'[hd.event]
    BY <1>1, <1>2, <1>9 DEF SaveResult, SendResult, SaveNotif, SendNotif
  <2> QED BY <1>1, <1>4, <1>9, <2>1 DEF SaveResult, SendResult, SaveNotif, SendNotif, Pcs
<1>10. CASE SaveResultFails(hd) \/ SendResultFails(hd) \/ SaveNotifFails(hd)
              \/ SendNotifFails(hd) \/ AckEvent(hd)
  BY <1>5, <1>10
  DEF SaveResultFails, SendResultFails, SaveNotifFails, SendNotifFails, AckEvent
<1> QED BY <1>6, <1>7, <1>8, <1>9, <1>10 DEF HandlerStep

-----------------------------------------------------------------------------
(* The theorems.                                                           *)

LEMMA InitIInv == Init => IInv
<1> SUFFICES ASSUME Init PROVE IInv
  OBVIOUS
<1>1. TypeOK
  <2>1. \A e \in Events : told[e] \in Seq(AllCodes \cup {Error})
    BY DEF Init
  <2>2. told \in [Events -> Seq(AllCodes \cup {Error})]
    BY <2>1 DEF Init
  <2> QED BY <2>2, FlowAssumption DEF Init, TypeOK, Stages, Results
<1>2. CodesAgree
  BY DEF Init, CodesAgree
<1>3. ToldAgrees
  BY DEF Init, ToldAgrees
<1> QED BY <1>1, <1>2, <1>3 DEF IInv

LEMMA NextIInv == IInv /\ [Next]_vars => IInv'
<1> SUFFICES ASSUME IInv, [Next]_vars PROVE IInv'
  OBVIOUS
<1>1. TypeOK /\ CodesAgree /\ ToldAgrees
  BY DEF IInv
<1>2. CASE CallerNext
  BY <1>1, <1>2, CallerTypes, CallerCodes, CallerTold DEF IInv
<1>3. CASE ChannelNext
  BY <1>1, <1>3, ChannelTypes, ChannelCodes, HostTold DEF IInv
<1>4. ASSUME NEW hd \in handlers, HandlerStep(hd) PROVE IInv'
  BY <1>1, <1>4, HandlerTypes, HandlerCodes, HostTold DEF IInv
<1>5. CASE UNCHANGED vars
  <2>1. UNCHANGED <<calling, documents, queue, channels, sent, ran, faults, handlers>>
    BY <1>5 DEF vars
  <2> QED BY <1>1, <2>1, Groups DEF IInv, TypeOK, CodesAgree, ToldAgrees
<1> QED BY <1>2, <1>3, <1>4, <1>5 DEF Next

\* The inductive invariant holds in every reachable state.
THEOREM Invariance == Spec => []IInv
<1>1. Init => IInv
  BY InitIInv
<1>2. IInv /\ [Next]_vars => IInv'
  BY NextIInv
<1> QED BY <1>1, <1>2, PTL DEF Spec

\* Every variable keeps its type.
THEOREM TypeCorrect == Spec => []TypeOK
<1>1. IInv => TypeOK
  BY DEF IInv
<1> QED BY <1>1, Invariance, PTL

-----------------------------------------------------------------------------
(* What the callers are promised.                                          *)

LEMMA ShortHistory ==
  ASSUME NEW s, s = <<>> \/ s = <<Error>> PROVE Len(s) <= 1
<1> DEFINE n == Len(s)
<1>1. Len(<<>>) = 0 /\ Len(<<Error>>) = 1
  OBVIOUS
<1>2. n = 0 \/ n = 1
  BY <1>1, Zenon
<1> HIDE DEF n
<1>3. n <= 1
  BY <1>2
<1> QED BY <1>3 DEF n

LEMMA PromiseTell ==
  ASSUME IInv, NEW e \in Events, Tell(e, Error), Len(told[e]) <= 1, UNCHANGED outcomes
  PROVE  Promise!Next
<1>1. told \in [Events -> Seq(AllCodes \cup {Error})]
  BY DEF IInv, TypeOK
<1>2. told' = [d \in Events |-> IF d \in {e} THEN Append(told[d], Error) ELSE told[d]]
  BY <1>1 DEF Tell
<1>3. Promise!Fail({e})
  BY <1>2 DEF Promise!Fail
<1>4. {e} \in SUBSET Events
  OBVIOUS
<1> QED BY <1>3, <1>4 DEF Promise!Next

\* Every step of the flow is a step of the promise or leaves it alone.
LEMMA PromiseStep ==
  IInv /\ [Next]_vars => [Promise!Next]_(Promise!vars)
<1> SUFFICES ASSUME IInv, [Next]_vars PROVE Promise!Next \/ UNCHANGED <<outcomes, told>>
  BY DEF Promise!vars
<1> USE Groups, CodeFacts
<1>1. Len(<<>>) = 0 /\ Len(<<Error>>) = 1
  OBVIOUS
<1>2. CASE CallerNext
  <2>1. UNCHANGED outcomes
    BY <1>2, CallerFrame
  <2>2. ASSUME NEW e \in Events, SaveEventFails(e) PROVE Promise!Next
    <3>1. told[e] = <<>> /\ Tell(e, Error)
      BY <2>2 DEF SaveEventFails, IInv, ToldAgrees
    <3> QED BY <1>1, <2>1, <3>1, PromiseTell
  <2>3. ASSUME NEW e \in Events, ConfirmFails(e) PROVE Promise!Next
    <3>1. Len(told[e]) <= 1 /\ Tell(e, Error)
      BY <2>3 DEF ConfirmFails, IInv, ToldAgrees
    <3> QED BY <2>1, <3>1, PromiseTell
  <2>4. ASSUME NEW e \in Events, stage[e] = "finding", Tell(e, Error) PROVE Promise!Next
    <3>1. told[e] = <<>> \/ told[e] = <<Error>>
      BY <2>4 DEF IInv, ToldAgrees
    <3>2. Len(told[e]) <= 1
      BY <3>1, ShortHistory
    <3> QED BY <2>1, <2>4, <3>2, PromiseTell
  <2>5. ASSUME NEW e \in Events, FindResult(e) PROVE Promise!Next
    <3>1. CASE results[e].code = 0
      BY <2>4, <2>5, <3>1 DEF FindResult
    <3>2. CASE results[e].code # 0
      <4>1. results[e].code \in outcomes[e] /\ results[e].code \in AllCodes
        BY <3>2 DEF IInv, TypeOK, CodesAgree, Results
      <4>2. told[e] \in {<<>>, <<Error>>}
        BY <2>5 DEF FindResult, IInv, ToldAgrees
      <4>3. Promise!Reply(e, results[e].code)
        BY <2>1, <2>5, <3>2, <4>1, <4>2 DEF FindResult, Tell, Promise!Reply
      <4> QED BY <4>1, <4>3 DEF Promise!Next
    <3> QED BY <3>1, <3>2
  <2>6. ASSUME NEW e \in Events, FindResultFails(e) PROVE Promise!Next
    BY <2>4, <2>6 DEF FindResultFails
  <2>7. ASSUME NEW e \in Events,
               Call(e) \/ SaveEvent(e) \/ Confirm(e) \/ ReceiveResult(e)
        PROVE  UNCHANGED told
    BY <2>7 DEF Call, SaveEvent, Confirm, ReceiveResult
  <2>8. CASE SendEvents \/ SendEventsFails \/ CallerCrash
    BY <2>1, <2>8 DEF SendEvents, SendEventsFails, Publish, CallerCrash
  <2> QED BY <1>2, <2>1, <2>2, <2>3, <2>5, <2>6, <2>7, <2>8 DEF CallerNext
<1>3. CASE ChannelNext
  BY <1>3, HostFrame DEF ChannelNext, ChannelCloses, Reopen, HostCrash, Deliver
<1>4. ASSUME NEW hd \in handlers, HandlerStep(hd)
      PROVE  Promise!Next \/ UNCHANGED <<outcomes, told>>
  <2>1. UNCHANGED told /\ hd.event \in Events
    BY <1>4, HostFrame DEF IInv, TypeOK, Handlers
  <2>2. ASSUME NEW code \in AllCodes,
               outcomes' = [outcomes EXCEPT ![hd.event] = @ \cup {code}]
        PROVE  Promise!Next
    <3>1. Promise!Execute(hd.event, code)
      BY <2>1, <2>2 DEF Promise!Execute
    <3> QED BY <2>1, <3>1 DEF Promise!Next
  <2>3. ASSUME NEW code \in Codes, ExecuteLogic(hd, code) PROVE Promise!Next
    BY <2>2, <2>3 DEF ExecuteLogic
  <2>4. CASE NackThrows(hd)
    BY <2>2, <2>4 DEF NackThrows
  <2>5. CASE ~NackThrows(hd) /\ ~\E code \in Codes : ExecuteLogic(hd, code)
    BY <1>4, <2>1, <2>5 DEF HandlerStep, FindEvent, FindEventFails, Nack, SaveResult,
       SaveResultFails, SendResult, SendResultFails, SaveNotif, SaveNotifFails, SendNotif,
       SendNotifFails, AckEvent
  <2> QED BY <2>3, <2>4, <2>5
<1>5. CASE UNCHANGED vars
  BY <1>5 DEF vars
<1> QED BY <1>2, <1>3, <1>4, <1>5 DEF Next

\* The flow keeps the promise: no callback is resumed with more than one
\* outcome, none with an outcome that no execution had, none more than twice.
THEOREM KeepsPromise == Spec => CallSpec
<1>1. Init => Promise!Init
  BY DEF Init, Promise!Init
<1>2. IInv /\ [Next]_vars => [Promise!Next]_(Promise!vars)
  BY PromiseStep
<1> QED BY <1>1, <1>2, Invariance, PTL DEF Spec, CallSpec, Promise!Spec

-----------------------------------------------------------------------------
(* Where a channel closes only with its process: an acked event is done.   *)

Own(hd) == [host |-> hd.host, tag |-> hd.tag, event |-> hd.event]

\* Every handler has the delivery it is going to acknowledge, and a tag names
\* one delivery and one handler.
OwnsAgree ==
  /\ \A hd \in handlers : Own(hd) \in unacked
  /\ \A g, hd \in handlers : g.host = hd.host /\ g.tag = hd.tag => g = hd
  /\ \A d \in unacked : d.host \in open /\ d.tag <= lastTag[d.host]
  /\ \A c, d \in unacked : c.host = d.host /\ c.tag = d.tag => c = d

\* How far a handler is tells what was done for its event.
DoneAgree ==
  /\ \A hd \in handlers :
       /\ hd.pc \in {"savingNotif", "broadcasting", "acking"} => hd.event \in answered
       /\ hd.pc \in {"broadcasting", "acking"} => hd.event \in notifs
       /\ hd.pc = "acking" => broadcast[hd.event] # {}
  /\ AckedIsDone

\* No channel closes but with its process.
Quiet == \A h \in Hosts : ~ ChannelCloses(h)

\* The closes are counted up, so where the count is 0 after a step, it was before.
LEMMA ClosesCounted ==
  ASSUME TypeOK, [Next]_vars, closes' = 0
  PROVE  closes = 0 /\ Quiet
<1> USE Groups
<1>1. closes \in Nat
  BY FlowAssumption DEF TypeOK
<1>2. \A h \in Hosts : ChannelCloses(h) => closes' = closes + 1
  BY DEF ChannelCloses
<1>3. CallerNext => closes' = closes
  BY DEF CallerNext, Call, SaveEvent, SaveEventFails, Confirm, ConfirmFails, ReceiveResult,
     FindResult, FindResultFails, SendEvents, SendEventsFails, CallerCrash, Crash, Fault
<1>4. ASSUME NEW h \in Hosts, Reopen(h) \/ HostCrash(h) \/ \E e \in Events : Deliver(h, e)
      PROVE  closes' = closes
  BY <1>4 DEF Reopen, HostCrash, Crash, Deliver
<1>5. \A hd \in handlers : HandlerStep(hd) => closes' = closes
  BY DEF HandlerStep, FindEvent, FindEventFails, ExecuteLogic, SaveResult, SaveResultFails,
     SendResult, SendResultFails, SaveNotif, SaveNotifFails, SendNotif, SendNotifFails, AckEvent,
     PublishFails, Fault
<1>6. UNCHANGED vars => closes' = closes
  BY DEF vars
<1>7. closes' = closes \/ closes' = closes + 1
  BY <1>2, <1>3, <1>4, <1>5, <1>6 DEF Next, ChannelNext
<1>8. closes = 0
  BY <1>1, <1>7
<1> QED BY <1>2, <1>8 DEF Quiet

LEMMA NoCloses == MaxCloses = 0 /\ TypeOK => closes = 0
BY DEF TypeOK

LEMMA OwnedHost ==
  ASSUME TypeOK, OwnsAgree, NEW hd \in handlers
  PROVE  /\ hd.host \in open /\ Own(hd) \in unacked
         /\ Tagged(hd.host, hd.tag) = {Own(hd)}
<1>1. Own(hd) \in unacked /\ Own(hd).host = hd.host /\ Own(hd).tag = hd.tag
  BY DEF OwnsAgree, Own
<1>2. hd.host \in open
  BY <1>1 DEF OwnsAgree
<1>3. \A d \in Tagged(hd.host, hd.tag) : d = Own(hd)
  BY <1>1 DEF OwnsAgree, Tagged
<1> QED BY <1>1, <1>2, <1>3 DEF Tagged

\* A handler that moves on keeps its delivery ...
LEMMA MoveOwns ==
  ASSUME TypeOK, OwnsAgree, NEW hd \in handlers, NEW pc \in Pcs, NEW code \in AllCodes \cup {0},
         Move(hd, pc, code), UNCHANGED <<unacked, open, lastTag>>
  PROVE  OwnsAgree'
<1> DEFINE m == [hd EXCEPT !.pc = pc, !.code = code]
<1>1. handlers' = (handlers \ {hd}) \cup {m} /\ hd \in Handlers
  BY DEF Move, TypeOK
<1>2. m.host = hd.host /\ m.tag = hd.tag /\ m.event = hd.event
  BY <1>1 DEF Handlers
<1>3. \A g \in handlers' : Own(g) \in unacked
  BY <1>1, <1>2 DEF OwnsAgree, Own
<1>4. \A g, k \in handlers' : g.host = k.host /\ g.tag = k.tag => g = k
  <2>1. \A g \in handlers \ {hd} : ~(g.host = m.host /\ g.tag = m.tag)
    BY <1>2 DEF OwnsAgree
  <2> QED BY <1>1, <2>1 DEF OwnsAgree
<1> QED BY <1>3, <1>4 DEF OwnsAgree

\* ... and one that ends without an ack or nack leaves it to nobody.
LEMMA LeaveOwns ==
  ASSUME OwnsAgree, NEW hd \in handlers, Leave(hd), UNCHANGED <<unacked, open, lastTag>>
  PROVE  OwnsAgree'
<1>1. handlers' = handlers \ {hd}
  BY DEF Leave
<1> QED BY <1>1 DEF OwnsAgree, Own

\* An ack or a nack removes the delivery of its handler and no other.
LEMMA SettleOwns ==
  ASSUME TypeOK, OwnsAgree, NEW hd \in handlers, Leave(hd),
         unacked' = unacked \ {Own(hd)}, UNCHANGED <<open, lastTag>>
  PROVE  OwnsAgree'
<1>1. handlers' = handlers \ {hd} /\ handlers \subseteq Handlers
  BY DEF Leave, TypeOK
<1>2. \A g \in handlers' : Own(g) # Own(hd)
  <2>1. \A g \in handlers : Own(g).host = g.host /\ Own(g).tag = g.tag
    BY DEF Own
  <2> QED BY <1>1, <2>1 DEF OwnsAgree
<1>3. \A g \in handlers' : Own(g) \in unacked'
  BY <1>1, <1>2 DEF OwnsAgree
<1> QED BY <1>1, <1>3 DEF OwnsAgree

LEMMA ChannelOwns ==
  ASSUME TypeOK, OwnsAgree, Quiet, ChannelNext
  PROVE  OwnsAgree'
<1> SUFFICES ASSUME NEW h \in Hosts,
                    \/ ChannelCloses(h) \/ Reopen(h) \/ HostCrash(h)
                    \/ \E e \in Events : Deliver(h, e)
             PROVE  OwnsAgree'
  BY DEF ChannelNext
<1> USE Groups
<1>1. ~ChannelCloses(h)
  BY DEF Quiet
<1>2. CASE Reopen(h)
  <2>1. /\ open' = open \cup {h} /\ UNCHANGED <<unacked, handlers>>
        /\ \A g \in Hosts \ {h} : lastTag'[g] = lastTag[g]
    BY <1>2 DEF Reopen, TypeOK
  <2>2. \A d \in unacked : d.host # h /\ d.host \in Hosts
    BY <1>2 DEF Reopen, OwnsAgree, TypeOK, Deliveries
  <2> QED BY <2>1, <2>2 DEF OwnsAgree, Own
<1>3. CASE HostCrash(h)
  <2>1. /\ open' = open \ {h} /\ unacked' = unacked \ HeldBy(h) /\ UNCHANGED lastTag
        /\ handlers' = {hd \in handlers : hd.host # h}
    BY <1>3 DEF HostCrash, Close, Requeue
  <2>2. \A hd \in handlers' : Own(hd) \in unacked'
    BY <2>1 DEF OwnsAgree, Own, HeldBy
  <2>3. \A d \in unacked' : d.host \in open' /\ d.tag <= lastTag'[d.host]
    BY <2>1 DEF OwnsAgree, HeldBy
  <2> QED BY <2>1, <2>2, <2>3 DEF OwnsAgree
<1>4. ASSUME NEW e \in Events, Deliver(h, e) PROVE OwnsAgree'
  <2> DEFINE d == [host |-> h, tag |-> NewTag(h), event |-> e]
             hd == [host |-> h, chan |-> chan[h], tag |-> NewTag(h), event |-> e,
                    pc |-> "finding", code |-> 0]
  <2>1. /\ unacked' = unacked \cup {d} /\ handlers' = handlers \cup {hd}
        /\ h \in open /\ UNCHANGED open
        /\ d.host = h /\ d.tag = NewTag(h) /\ hd.host = h /\ hd.tag = NewTag(h)
        /\ Own(hd) = d
    BY <1>4 DEF Deliver, Own
  <2>2. /\ NewTag(h) = lastTag[h] + 1 /\ lastTag[h] \in Nat
        /\ lastTag'[h] = NewTag(h) /\ \A g \in Hosts \ {h} : lastTag'[g] = lastTag[g]
    BY <1>4 DEF Deliver, NewTag, TypeOK
  <2>3. \A c \in unacked : /\ c.host \in Hosts /\ c.tag \in Nat
                           /\ ~(c.host = h /\ c.tag = NewTag(h))
    <3> SUFFICES ASSUME NEW c \in unacked
                 PROVE  c.host \in Hosts /\ c.tag \in Nat /\ ~(c.host = h /\ c.tag = NewTag(h))
      OBVIOUS
    <3>1. c \in Deliveries
      BY DEF TypeOK
    <3>2. c.host \in Hosts /\ c.tag \in Nat
      BY <3>1 DEF Deliveries, Tags
    <3>3. c.tag <= lastTag[c.host]
      BY DEF OwnsAgree
    <3> QED BY <2>2, <3>2, <3>3
  <2>4. \A g \in handlers : ~(g.host = h /\ g.tag = NewTag(h))
    BY <2>3 DEF OwnsAgree, Own
  <2>5. \A c \in unacked' : c.host \in open' /\ c.tag <= lastTag'[c.host]
    BY <2>1, <2>2, <2>3 DEF OwnsAgree
  <2>6. \A g \in handlers' : Own(g) \in unacked'
    BY <2>1 DEF OwnsAgree
  <2>7. \A g, k \in handlers' : g.host = k.host /\ g.tag = k.tag => g = k
    BY <2>1, <2>4 DEF OwnsAgree
  <2>8. \A b, c \in unacked' : b.host = c.host /\ b.tag = c.tag => b = c
    BY <2>1, <2>3 DEF OwnsAgree
  <2> QED BY <2>5, <2>6, <2>7, <2>8 DEF OwnsAgree
<1> QED BY <1>1, <1>2, <1>3, <1>4

LEMMA HandlerOwns ==
  ASSUME TypeOK, OwnsAgree, NEW hd \in handlers, HandlerStep(hd)
  PROVE  OwnsAgree'
<1> USE Groups, CodeFacts
<1>1. hd.code \in AllCodes \cup {0} /\ Codes \subseteq AllCodes
  BY DEF TypeOK, Handlers
<1>2. /\ hd.host \in open /\ Own(hd) \in unacked
      /\ Tagged(hd.host, hd.tag) = {Own(hd)}
  BY OwnedHost
<1>3. CASE FindEventFails(hd)
  <2>1. Nack(hd)
    BY <1>2, <1>3 DEF FindEventFails, NackThrows
  <2>2. unacked' = unacked \ {Own(hd)} /\ UNCHANGED <<open, lastTag>> /\ Leave(hd)
    BY <1>2, <2>1 DEF Nack, Requeue
  <2> QED BY <2>2, SettleOwns
<1>4. CASE AckEvent(hd)
  <2>1. unacked' = unacked \ {Own(hd)} /\ UNCHANGED <<open, lastTag>> /\ Leave(hd)
    BY <1>2, <1>4 DEF AckEvent
  <2> QED BY <2>1, SettleOwns
<1>5. CASE \/ FindEvent(hd) \/ SaveResult(hd) \/ SendResult(hd) \/ SaveNotif(hd) \/ SendNotif(hd)
           \/ \E code \in Codes : ExecuteLogic(hd, code)
  <2>1. /\ \E pc \in Pcs : \E code \in AllCodes \cup {0} : Move(hd, pc, code)
        /\ UNCHANGED <<unacked, open, lastTag>>
    BY <1>1, <1>5
    DEF FindEvent, SaveResult, SendResult, SaveNotif, SendNotif, ExecuteLogic, Pcs
  <2> QED BY <2>1, MoveOwns
<1>6. CASE SaveResultFails(hd) \/ SendResultFails(hd) \/ SaveNotifFails(hd) \/ SendNotifFails(hd)
  <2>1. Leave(hd) /\ UNCHANGED <<unacked, open, lastTag>>
    BY <1>6 DEF SaveResultFails, SendResultFails, SaveNotifFails, SendNotifFails
  <2> QED BY <2>1, LeaveOwns
<1> QED BY <1>3, <1>4, <1>5, <1>6 DEF HandlerStep

\* What was done stays done.
LEMMA DoneGrows ==
  ASSUME TypeOK, NEW hd \in handlers, HandlerStep(hd)
  PROVE  /\ answered \subseteq answered' /\ notifs \subseteq notifs'
         /\ \A e \in Events : broadcast[e] \subseteq broadcast'[e]
<1> USE Groups
<1>1. broadcast \in [Events -> SUBSET AllCodes]
  BY DEF TypeOK
<1>2. CASE SendNotif(hd) \/ SendNotifFails(hd)
  BY <1>1, <1>2 DEF SendNotif, SendNotifFails, PublishNotif
<1>3. CASE ~(SendNotif(hd) \/ SendNotifFails(hd))
  BY <1>3 DEF HandlerStep, FindEvent, FindEventFails, Nack, NackThrows, ExecuteLogic, SaveResult,
     SaveResultFails, SendResult, SendResultFails, PublishResult, SaveNotif, SaveNotifFails,
     AckEvent
<1> QED BY <1>2, <1>3

LEMMA HandlerDone ==
  ASSUME TypeOK, OwnsAgree, DoneAgree, NEW hd \in handlers, HandlerStep(hd)
  PROVE  DoneAgree'
<1> USE Groups, CodeFacts
<1> DEFINE Done(g, pc) ==
             /\ pc \in {"savingNotif", "broadcasting", "acking"} => g.event \in answered'
             /\ pc \in {"broadcasting", "acking"} => g.event \in notifs'
             /\ pc = "acking" => broadcast'[g.event] # {}
<1>1. /\ handlers \subseteq Handlers /\ hd.code \in AllCodes \cup {0} /\ hd.event \in Events
      /\ acked \subseteq Events /\ \A g \in handlers : g.event \in Events
  BY DEF TypeOK, Handlers
<1>2. \A g \in handlers : Done(g, g.pc)
  BY <1>1, DoneGrows DEF DoneAgree
<1>3. acked' = acked => AckedIsDone'
  BY <1>1, DoneGrows DEF DoneAgree, AckedIsDone
<1>4. ASSUME NEW pc \in Pcs, NEW code \in AllCodes \cup {0}, Move(hd, pc, code), Done(hd, pc),
             acked' = acked
      PROVE  DoneAgree'
  <2>1. \A g \in handlers' : g \in handlers \/ (g.event = hd.event /\ g.pc = pc)
    BY <1>1, <1>4, MoveFacts
  <2>2. \A g \in handlers' : Done(g, g.pc)
    BY <1>2, <1>4, <2>1
  <2> QED BY <1>3, <1>4, <2>2 DEF DoneAgree
<1>5. ASSUME Leave(hd), AckedIsDone' PROVE DoneAgree'
  <2>1. handlers' \subseteq handlers
    BY <1>5 DEF Leave
  <2> QED BY <1>2, <1>5, <2>1 DEF DoneAgree
<1>6. CASE FindEvent(hd)
  BY <1>4, <1>6 DEF FindEvent, Pcs
<1>7. CASE FindEventFails(hd)
  <2>1. hd.host \in open /\ Tagged(hd.host, hd.tag) = {Own(hd)}
    BY OwnedHost
  <2>2. Leave(hd) /\ acked' = acked
    BY <1>7, <2>1 DEF FindEventFails, Nack, NackThrows, Requeue
  <2> QED BY <1>3, <1>5, <2>2
<1>8. ASSUME NEW code \in Codes, ExecuteLogic(hd, code) PROVE DoneAgree'
  BY <1>4, <1>8 DEF ExecuteLogic, Pcs
<1>9. CASE SaveResult(hd)
  BY <1>1, <1>4, <1>9 DEF SaveResult, Pcs
<1>10. CASE SendResult(hd)
  <2>1. hd.event \in answered'
    BY <1>10 DEF SendResult, PublishResult
  <2> QED BY <1>1, <1>4, <1>10, <2>1 DEF SendResult, Pcs
<1>11. CASE SaveNotif(hd)
  <2>1. hd.event \in answered' /\ hd.event \in notifs'
    BY <1>11 DEF SaveNotif, DoneAgree
  <2> QED BY <1>1, <1>4, <1>11, <2>1 DEF SaveNotif, Pcs
<1>12. CASE SendNotif(hd)
  <2>1. hd.event \in answered' /\ hd.event \in notifs'
    BY <1>12 DEF SendNotif, PublishNotif, DoneAgree
  <2>2. broadcast'[hd.event] # {}
    BY <1>1, <1>12 DEF SendNotif, PublishNotif, TypeOK
  <2> QED BY <1>1, <1>4, <1>12, <2>1, <2>2 DEF SendNotif, Pcs
<1>13. CASE SaveResultFails(hd) \/ SendResultFails(hd) \/ SaveNotifFails(hd) \/ SendNotifFails(hd)
  <2>1. Leave(hd) /\ acked' = acked
    BY <1>13 DEF SaveResultFails, SendResultFails, SaveNotifFails, SendNotifFails
  <2> QED BY <1>3, <1>5, <2>1
<1>14. CASE AckEvent(hd)
  <2>1. hd.host \in open /\ Tagged(hd.host, hd.tag) = {Own(hd)}
    BY OwnedHost
  <2>2. Leave(hd) /\ acked' = acked \cup {hd.event}
    BY <1>14, <2>1 DEF AckEvent, Own
  <2>3. Done(hd, "acking")
    BY <1>2, <1>14 DEF AckEvent
  <2>4. AckedIsDone'
    BY <1>1, <2>2, <2>3, DoneGrows DEF DoneAgree, AckedIsDone
  <2> QED BY <1>5, <2>2, <2>4
<1> QED
  BY <1>6, <1>7, <1>8, <1>9, <1>10, <1>11, <1>12, <1>13, <1>14 DEF HandlerStep

LEMMA OwnsNext ==
  ASSUME TypeOK, OwnsAgree, Quiet, [Next]_vars
  PROVE  OwnsAgree'
<1>1. CASE CallerNext
  BY <1>1, CallerFrame, Groups DEF OwnsAgree, Own
<1>2. CASE UNCHANGED vars
  BY <1>2, Groups DEF vars, OwnsAgree, Own
<1> QED BY <1>1, <1>2, ChannelOwns, HandlerOwns DEF Next

LEMMA DoneNext ==
  ASSUME TypeOK, OwnsAgree, DoneAgree, [Next]_vars
  PROVE  DoneAgree'
<1> USE Groups
<1>1. CASE CallerNext
  BY <1>1, CallerFrame DEF DoneAgree, AckedIsDone
<1>2. CASE ChannelNext
  <2>1. \A hd \in handlers' : hd \in handlers \/ hd.pc = "finding"
    BY <1>2 DEF ChannelNext, ChannelCloses, Reopen, HostCrash, Deliver
  <2>2. UNCHANGED <<answered, notifs, broadcast, acked>>
    BY <1>2 DEF ChannelNext, ChannelCloses, Reopen, HostCrash, Deliver, Close, Requeue
  <2> QED BY <2>1, <2>2 DEF DoneAgree, AckedIsDone
<1>3. ASSUME NEW hd \in handlers, HandlerStep(hd) PROVE DoneAgree'
  BY <1>3, HandlerDone
<1>4. CASE UNCHANGED vars
  BY <1>4 DEF vars, DoneAgree, AckedIsDone
<1> QED BY <1>1, <1>2, <1>3, <1>4 DEF Next

\* Until a channel closes without its process.
OwnsUntilClose == closes = 0 => OwnsAgree /\ DoneAgree

\* Until a channel closes without its process, every handler acknowledges its own
\* delivery, whatever crashes and failures there are.
THEOREM OwnsInvariance == Spec => []OwnsUntilClose
<1>1. Init => OwnsUntilClose
  BY DEF Init, OwnsUntilClose, OwnsAgree, DoneAgree, AckedIsDone
<1>2. TypeOK /\ OwnsUntilClose /\ [Next]_vars => OwnsUntilClose'
  BY ClosesCounted, OwnsNext, DoneNext DEF OwnsUntilClose
<1> QED BY <1>1, <1>2, TypeCorrect, PTL DEF Spec

\* So until then an event leaves the queue only when it was handled to the end, for any
\* number of hosts, events, crashes and errors (mq.js:111-163).
THEOREM AckedDoneUntilClose == Spec => [](closes = 0 => AckedIsDone)
<1>1. OwnsUntilClose => (closes = 0 => AckedIsDone)
  BY DEF OwnsUntilClose, DoneAgree
<1> QED BY <1>1, OwnsInvariance, PTL

\* If channels close only with their process, it is always so.
COROLLARY AckedDone ==
  ASSUME MaxCloses = 0 PROVE Spec => []AckedIsDone
<1>1. TypeOK /\ (closes = 0 => AckedIsDone) => AckedIsDone
  BY NoCloses
<1> QED BY <1>1, AckedDoneUntilClose, TypeCorrect, PTL

-----------------------------------------------------------------------------
(* Under any faults: what is answered was executed, or a channel closed.   *)

RanUnlessClosed(e) == execs[e] > 0 \/ ClosedChannels # {}

\* A handler past the logic has run it, or was led there by a closed channel.
RanAgree ==
  /\ \A hd \in handlers : hd.pc \notin {"finding", "executing"} => RanUnlessClosed(hd.event)
  /\ \A e \in answered : RanUnlessClosed(e)

\* A channel that closed stays closed, and a closed host has one.
LEMMA ClosedGrows ==
  ASSUME TypeOK, [Next]_vars
  PROVE  ClosedChannels \subseteq ClosedChannels'
<1> USE Groups
<1>1. SUFFICES ASSUME NEW h \in Hosts, NEW n \in 0 .. MaxChannels,
                      n < chan[h] \/ (n = chan[h] /\ h \notin open)
               PROVE  n < chan'[h] \/ (n = chan'[h] /\ h \notin open')
  BY DEF ClosedChannels
<1>2. chan \in [Hosts -> 0 .. MaxChannels]
  BY DEF TypeOK
<1>3. ASSUME NEW g \in Hosts, Reopen(g) PROVE n < chan'[h] \/ (n = chan'[h] /\ h \notin open')
  <2>1. chan' = [chan EXCEPT ![g] = @ + 1] /\ open' = open \cup {g}
    BY <1>3 DEF Reopen
  <2>2. CASE g = h
    BY <1>1, <1>2, <2>1, <2>2, FlowAssumption
  <2>3. CASE g # h
    BY <1>1, <1>2, <2>1, <2>3
  <2> QED BY <2>2, <2>3
<1>4. ASSUME UNCHANGED chan, open' \subseteq open
      PROVE  n < chan'[h] \/ (n = chan'[h] /\ h \notin open')
  BY <1>1, <1>4
<1>5. CASE CallerNext
  BY <1>4, <1>5, CallerFrame
<1>6. ASSUME NEW g \in Hosts,
             ChannelCloses(g) \/ HostCrash(g) \/ \E e \in Events : Deliver(g, e)
      PROVE  UNCHANGED chan /\ open' \subseteq open
  BY <1>6 DEF ChannelCloses, HostCrash, Close, Deliver
<1>7. ASSUME NEW hd \in handlers, HandlerStep(hd) PROVE UNCHANGED chan /\ open' \subseteq open
  BY <1>7 DEF HandlerStep, FindEvent, FindEventFails, Nack, NackThrows, Close, ExecuteLogic,
     SaveResult, SaveResultFails, SendResult, SendResultFails, SaveNotif, SaveNotifFails,
     SendNotif, SendNotifFails, AckEvent
<1>8. CASE UNCHANGED vars
  BY <1>4, <1>8 DEF vars
<1> QED BY <1>3, <1>4, <1>5, <1>6, <1>7, <1>8 DEF Next, ChannelNext

LEMMA ExecsGrow ==
  ASSUME TypeOK, [Next]_vars, NEW e \in Events
  PROVE  execs'[e] \in Nat /\ execs'[e] >= execs[e]
<1> USE Groups
<1>1. execs \in [Events -> Nat]
  BY DEF TypeOK
<1>2. CASE CallerNext
  BY <1>1, <1>2, CallerFrame
<1>3. CASE ChannelNext
  BY <1>1, <1>3 DEF ChannelNext, ChannelCloses, Reopen, HostCrash, Deliver
<1>4. ASSUME NEW hd \in handlers, HandlerStep(hd)
      PROVE  execs' = execs \/ execs' = [execs EXCEPT ![hd.event] = @ + 1]
  BY <1>4 DEF HandlerStep, FindEvent, FindEventFails, ExecuteLogic, SaveResult,
     SaveResultFails, SendResult, SendResultFails, SaveNotif, SaveNotifFails, SendNotif,
     SendNotifFails, AckEvent
<1>5. CASE UNCHANGED vars
  BY <1>1, <1>5 DEF vars
<1> QED BY <1>1, <1>2, <1>3, <1>4, <1>5 DEF Next

LEMMA RanGrows ==
  ASSUME TypeOK, [Next]_vars
  PROVE  \A e \in Events : RanUnlessClosed(e) => RanUnlessClosed(e)'
<1>1. execs \in [Events -> Nat] /\ \A e \in Events : execs'[e] >= execs[e]
  BY ExecsGrow DEF TypeOK
<1>2. ClosedChannels \subseteq ClosedChannels'
  BY ClosedGrows
<1>3. ClosedChannels # {} => ClosedChannels' # {}
  BY <1>2
<1>4. \A e \in Events : execs[e] > 0 => execs'[e] > 0
  <2> SUFFICES ASSUME NEW e \in Events, execs[e] > 0 PROVE execs'[e] > 0
    OBVIOUS
  <2>1. execs[e] \in Nat /\ execs'[e] \in Nat /\ execs'[e] >= execs[e]
    BY ExecsGrow DEF TypeOK
  <2> QED BY <2>1
<1> QED BY <1>3, <1>4 DEF RanUnlessClosed

LEMMA RanNext ==
  ASSUME TypeOK, RanAgree, [Next]_vars PROVE RanAgree'
<1> USE Groups, CodeFacts
<1>1. \A e \in Events : RanUnlessClosed(e) => RanUnlessClosed(e)'
  BY RanGrows
<1>2. handlers \subseteq Handlers /\ answered \subseteq Events
      /\ \A hd \in handlers : hd.event \in Events /\ hd.code \in AllCodes \cup {0}
  BY DEF TypeOK, Handlers
<1>3. ASSUME \A hd \in handlers' : hd \in handlers \/ hd.pc = "finding", answered' = answered
      PROVE  RanAgree'
  BY <1>1, <1>2, <1>3 DEF RanAgree
<1>4. CASE CallerNext
  BY <1>3, <1>4, CallerFrame
<1>5. CASE ChannelNext
  BY <1>3, <1>5 DEF ChannelNext, ChannelCloses, Reopen, HostCrash, Deliver
<1>6. ASSUME NEW hd \in handlers, HandlerStep(hd) PROVE RanAgree'
  <2>1. ASSUME NEW pc \in Pcs, NEW code \in AllCodes \cup {0}, Move(hd, pc, code),
               answered' \subseteq answered \cup {hd.event},
               \/ pc \in {"finding", "executing"} /\ answered' = answered
               \/ RanUnlessClosed(hd.event)'
        PROVE  RanAgree'
    <3>1. \A g \in handlers' : g \in handlers \/ (g.event = hd.event /\ g.pc = pc)
      BY <1>2, <2>1, MoveFacts
    <3> QED BY <1>1, <1>2, <2>1, <3>1 DEF RanAgree
  <2>2. ASSUME Leave(hd), answered' \subseteq answered \cup {hd.event},
               answered' = answered \/ RanUnlessClosed(hd.event)
        PROVE  RanAgree'
    BY <1>1, <1>2, <2>2 DEF RanAgree, Leave
  <2>3. hd.pc \notin {"finding", "executing"} =>
          RanUnlessClosed(hd.event) /\ RanUnlessClosed(hd.event)'
    BY <1>1, <1>2 DEF RanAgree
  <2>4. CASE FindEvent(hd)
    BY <2>1, <2>4 DEF FindEvent, Pcs
  <2>5. CASE FindEventFails(hd)
    <3>1. CASE Nack(hd)
      BY <2>2, <2>5, <3>1 DEF FindEventFails, Nack
    <3>2. CASE NackThrows(hd)
      <4>1. hd.host \in Hosts /\ chan[hd.host] \in 0 .. MaxChannels
        BY <1>2 DEF TypeOK, Handlers
      <4>2. <<hd.host, chan[hd.host]>> \in ClosedChannels
        BY <3>2, <4>1 DEF NackThrows, ClosedChannels
      <4>3. RanUnlessClosed(hd.event)'
        BY <1>1, <1>2, <4>2 DEF RanUnlessClosed
      <4> QED BY <2>1, <2>5, <3>2, <4>3 DEF FindEventFails, NackThrows, Pcs
    <3> QED BY <2>5, <3>1, <3>2 DEF FindEventFails
  <2>6. ASSUME NEW code \in Codes, ExecuteLogic(hd, code) PROVE RanAgree'
    <3>1. execs'[hd.event] = execs[hd.event] + 1 /\ execs[hd.event] \in Nat
      BY <1>2, <2>6 DEF ExecuteLogic, TypeOK
    <3>2. RanUnlessClosed(hd.event)'
      BY <3>1 DEF RanUnlessClosed
    <3> QED BY <2>1, <2>6, <3>2 DEF ExecuteLogic, Pcs
  <2>7. CASE SaveResult(hd)
    BY <1>2, <2>1, <2>3, <2>7 DEF SaveResult, Pcs
  <2>8. CASE SendResult(hd)
    BY <1>2, <2>1, <2>3, <2>8 DEF SendResult, PublishResult, Pcs
  <2>9. CASE SaveNotif(hd)
    BY <1>2, <2>1, <2>3, <2>9 DEF SaveNotif, Pcs
  <2>10. CASE SendNotif(hd)
    BY <1>2, <2>1, <2>3, <2>10 DEF SendNotif, PublishNotif, Pcs
  <2>11. CASE SaveResultFails(hd) \/ SendResultFails(hd) \/ SaveNotifFails(hd) \/ SendNotifFails(hd)
    BY <2>2, <2>3, <2>11 DEF SaveResultFails, SendResultFails, PublishResult, SaveNotifFails,
       SendNotifFails, PublishNotif
  <2>12. CASE AckEvent(hd)
    BY <2>2, <2>12 DEF AckEvent
  <2> QED BY <1>6, <2>4, <2>5, <2>6, <2>7, <2>8, <2>9, <2>10, <2>11, <2>12 DEF HandlerStep
<1>7. CASE UNCHANGED vars
  BY <1>7 DEF vars, RanAgree, RanUnlessClosed, ClosedChannels
<1> QED BY <1>4, <1>5, <1>6, <1>7 DEF Next

\* What lies past the logic was executed, unless a channel of a host closed.
THEOREM RanInvariance == Spec => []RanAgree
<1>1. Init => RanAgree
  BY DEF Init, RanAgree
<1>2. TypeOK /\ RanAgree /\ [Next]_vars => RanAgree'
  BY RanNext
<1> QED BY <1>1, <1>2, TypeCorrect, PTL DEF Spec

\* A result is sent for an event whose logic never ran only if a channel closed,
\* for any number of hosts, events and faults (mq.js:119 and 128).
THEOREM AnsweredIsExecuted == Spec => []ExecutedUnlessClosed
<1>1. TypeOK /\ RanAgree => ExecutedUnlessClosed
  <2> SUFFICES ASSUME execs \in [Events -> Nat], answered \subseteq Events,
                      \A e \in answered : RanUnlessClosed(e)
               PROVE  \A e \in answered : execs[e] = 0 => ClosedChannels # {}
    BY DEF TypeOK, RanAgree, ExecutedUnlessClosed
  <2>1. \A e \in answered : execs[e] > 0 \/ ClosedChannels # {}
    BY DEF RanUnlessClosed
  <2> HIDE DEF ClosedChannels
  <2> QED BY <2>1
<1> QED BY <1>1, RanInvariance, TypeCorrect, PTL
=============================================================================
