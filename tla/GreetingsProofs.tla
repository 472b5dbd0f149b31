---------------------------- MODULE GreetingsProofs ----------------------------
(***************************************************************************)
(* Proofs about Greetings for every set of Humans, Robots and Requests.    *)
(***************************************************************************)
EXTENDS Greetings, FiniteSetTheorems, SequenceTheorems, TLAPS

\* Stages in which Greeting.insert may be executed for a request.
Sent == {"inserting", "answered"}

\* The executions are numbered: the next one has a number of its own.
Numbered ==
  /\ IsFiniteSet(begun)
  /\ \A x \in begun : x[2] <= Cardinality(begun)

Typed == TypeOK /\ Numbered

\* A verification that passed saw its document.
Verified ==
  \A r \in Requests :
    /\ stage[r] # "new" => docs \subseteq seen[r]
    /\ stage[r] = "new" => counted[r] = {}
    /\ OK \in counted[r] => receiver[r] \in seen[r]
    /\ stage[r] \in Sent \cup {"receiver"} => producer[r] \in seen[r]
    /\ stage[r] \in Sent => receiver[r] \in seen[r]

\* Executions insert once, and only for requests whose greeting was sent.
Ordered ==
  /\ upserting \cup given \subseteq begun
  /\ upserting \cap given = {}
  /\ \A x \in begun : stage[x[1]] \in Sent

\* Where the greetings come from.
Sourced ==
  \A g \in greetings :
    g.id \in given /\ g.producer = producer[g.id[1]] /\ g.receiver = receiver[g.id[1]]

Gave(r) == \E x \in given : producer[x[1]] = producer[r] /\ receiver[x[1]] = receiver[r]

Answered ==
  \A r \in Requests : OK \in inserted[r] \/ response[r] = OK => Gave(r)

\* Who is told 400 after the greeting was sent had an execution that inserted nothing.
Refused ==
  \A r \in Requests :
    /\ Rejected \in inserted[r] => \E y \in begun \ (given \cup upserting) : y[1] = r
    /\ response[r] = Rejected /\ stage[r] # "refused" => Rejected \in inserted[r]

\* The inductive invariant.
IInv == Typed /\ Verified /\ Ordered /\ Sourced /\ Answered /\ Refused /\ UniqueOnceIndexed

USE DEF Enter, Respond, Proceed, Remove

-----------------------------------------------------------------------------
LEMMA EmptyAnswer == <<>> \in Answers
<1>1. <<>> \in Seq(Codes \cup {Error})
  OBVIOUS
<1> QED
  BY <1>1 DEF Answers

LEMMA LongerAnswer ==
  ASSUME NEW s \in Answers, Len(s) <= 1, NEW a \in Codes \cup {Error}
  PROVE  Append(s, a) \in Answers
<1>1. s \in Seq(Codes \cup {Error}) /\ Len(s) \in Nat
  BY DEF Answers
<1>2. Append(s, a) \in Seq(Codes \cup {Error}) /\ Len(Append(s, a)) = Len(s) + 1
  BY <1>1, AppendProperties
<1> QED
  BY <1>1, <1>2 DEF Answers

LEMMA ShortAnswer == \A s \in {<<>>, <<Error>>} : Len(s) <= 1
<1>1. Len(<<>>) <= 1 /\ Len(<<Error>>) <= 1
  OBVIOUS
<1> QED
  BY <1>1

LEMMA InitIInv == Init => IInv
<1> SUFFICES ASSUME Init PROVE IInv
  OBVIOUS
<1> USE DEF Init, Count!Init, Insert!Init
<1>1. TypeOK
  <2>1. docs \subseteq Things /\ greetings \subseteq Greetings /\ indexed \in BOOLEAN
        /\ begun \subseteq Runs /\ upserting \subseteq Runs /\ given \subseteq Runs
    OBVIOUS
  <2>2. removals \in 0 .. MaxRemovals
    BY GreetingsAssumption
  <2>3. /\ stage \in [Requests -> Stages] /\ response \in [Requests -> Codes \cup {0}]
        /\ producer \in [Requests -> Things] /\ receiver \in [Requests -> Things]
        /\ seen \in [Requests -> SUBSET Things]
    BY DEF Stages
  <2>4. counted \in [Requests -> SUBSET Codes] /\ toldCount \in [Requests -> Answers]
    BY EmptyAnswer
  <2>5. inserted \in [Requests -> SUBSET Codes] /\ toldInsert \in [Requests -> Answers]
    BY EmptyAnswer
  <2> QED
    BY <2>1, <2>2, <2>3, <2>4, <2>5 DEF TypeOK
<1>2. Numbered
  BY FS_EmptySet DEF Numbered
<1> QED
  BY <1>1, <1>2
  DEF IInv, Typed, Verified, Ordered, Sourced, Answered, Refused, UniqueOnceIndexed, Sent, OK, Rejected

\* The next number is one that no execution has.
LEMMA NextRun ==
  ASSUME Typed, NEW r \in Requests, Cardinality(begun) < MaxRuns
  PROVE  /\ Run(r) \in Runs /\ Run(r) \notin begun /\ Run(r)[1] = r
         /\ IsFiniteSet(begun \cup {Run(r)})
         /\ Cardinality(begun \cup {Run(r)}) = Cardinality(begun) + 1
         /\ \A x \in begun \cup {Run(r)} : x[2] <= Cardinality(begun) + 1
<1>1. Cardinality(begun) \in Nat /\ IsFiniteSet(begun)
  BY FS_CardinalityType DEF Typed, Numbered
<1>2. Run(r) = <<r, Cardinality(begun) + 1>>
  BY DEF Run
<1>3. Run(r) \in Runs /\ Run(r)[1] = r /\ Run(r)[2] = Cardinality(begun) + 1
  BY <1>1, <1>2, GreetingsAssumption DEF Runs
<1>4. \A x \in begun : x[2] \in Nat /\ x[2] <= Cardinality(begun)
  BY DEF Typed, TypeOK, Numbered, Runs
<1>5. Run(r) \notin begun
  BY <1>1, <1>3, <1>4
<1>6. /\ IsFiniteSet(begun \cup {Run(r)})
      /\ Cardinality(begun \cup {Run(r)}) = Cardinality(begun) + 1
  BY <1>1, <1>5, FS_AddElement
<1>7. \A x \in begun \cup {Run(r)} : x[2] <= Cardinality(begun) + 1
  BY <1>1, <1>3, <1>4
<1> QED
  BY <1>3, <1>5, <1>6, <1>7
-----------------------------------------------------------------------------
(* What each step does to the types.                                       *)

LEMMA NextTyped == IInv /\ [Next]_vars => Typed'
<1> SUFFICES ASSUME IInv, [Next]_vars PROVE Typed'
  OBVIOUS
<1>0. TypeOK /\ Numbered
  BY DEF IInv, Typed
<1> USE <1>0 DEF TypeOK
<1>1. ASSUME NEW t \in Things, AddThing(t) PROVE Typed'
  BY <1>1 DEF AddThing, Typed, Numbered, request, counting, inserting
<1>2. ASSUME NEW t \in Things, RemoveThing(t) PROVE Typed'
  <2>1. removals' \in 0 .. MaxRemovals
    BY <1>2, GreetingsAssumption DEF RemoveThing
  <2> QED
    BY <1>2, <2>1 DEF RemoveThing, Typed, Numbered, request, counting, inserting
<1>3. ASSUME NEW g \in greetings, RemoveGreeting(g) PROVE Typed'
  <2>1. removals' \in 0 .. MaxRemovals
    BY <1>3, GreetingsAssumption DEF RemoveGreeting
  <2> QED
    BY <1>3, <2>1 DEF RemoveGreeting, Typed, Numbered, request, counting, inserting
<1>4. CASE EnsureIndex
  BY <1>4 DEF EnsureIndex, Typed, Numbered, request, counting, inserting
<1>5. ASSUME NEW r \in Requests, Post(r) PROVE Typed'
  BY <1>5 DEF Post, Typed, Numbered, counting, inserting, Stages
<1>6. ASSUME NEW r \in Requests, NEW s \in Stages, NEW code \in Codes, Proceed(r, code, s)
      PROVE  stage' \in [Requests -> Stages] /\ response' \in [Requests -> Codes \cup {0}]
  BY <1>6 DEF Stages
<1>7. ASSUME NEW r \in Requests, VerifyProducer(r) PROVE Typed'
  <2>1. Verdict(producer[r]) \in Codes /\ "receiver" \in Stages
    BY DEF Verdict, Codes, Stages
  <2> QED
    BY <1>7, <1>6, <2>1 DEF VerifyProducer, Typed, Numbered, counting, inserting
<1>8. ASSUME NEW r \in Requests, VerifyReceiver(r) PROVE Typed'
  <2>1. Verdict(receiver[r]) \in Codes /\ "inserting" \in Stages
    BY DEF Verdict, Codes, Stages
  <2> QED
    BY <1>8, <1>6, <2>1 DEF VerifyReceiver, Typed, Numbered, counting, inserting
<1>9. ASSUME NEW r \in Requests, VerifyFails(r) PROVE Typed'
  <2>1. Failed \in Codes /\ "refused" \in Stages
    BY DEF Codes, Stages
  <2> QED
    BY <1>9, <1>6, <2>1 DEF VerifyFails, Typed, Numbered, counting, inserting
<1>10. ASSUME NEW r \in Requests, ExecuteCount(r) PROVE Typed'
  <2>1. Verdict(receiver[r]) \in Codes
    BY DEF Verdict, Codes
  <2> QED
    BY <1>10, <2>1 DEF ExecuteCount, Count!Execute, Typed, Numbered, request, inserting
<1>11. ASSUME NEW r \in Requests, NEW code \in Codes, ReplyCount(r, code) PROVE Typed'
  <2>1. "inserting" \in Stages
    BY DEF Stages
  <2>2. toldCount' \in [Requests -> Answers]
    <3>1. toldCount[r] \in Answers /\ Len(toldCount[r]) <= 1
      BY <1>11, ShortAnswer DEF ReplyCount, Count!Reply
    <3>2. Append(toldCount[r], code) \in Answers
      BY <3>1, LongerAnswer
    <3> QED
      BY <1>11, <3>2 DEF ReplyCount, Count!Reply
  <2> QED
    BY <1>11, <1>6, <2>1, <2>2 DEF ReplyCount, Count!Reply, Typed, Numbered, inserting
<1>12. ASSUME NEW r \in Requests, FailCount(r) PROVE Typed'
  <2>1. toldCount' \in [Requests -> Answers]
    <3>1. Append(toldCount[r], Error) \in Answers
      BY <1>12, LongerAnswer DEF FailCount, Count!Fail
    <3> QED
      BY <1>12, <3>1 DEF FailCount, Count!Fail
  <2>2. response' \in [Requests -> Codes \cup {0}]
    BY <1>12 DEF FailCount, Codes
  <2> QED
    BY <1>12, <2>1, <2>2 DEF FailCount, Count!Fail, Typed, Numbered, inserting
<1>13. ASSUME NEW r \in Requests, FindGreeting(r) PROVE Typed'
  <2>1. begun' \subseteq Runs /\ Numbered' /\ upserting' \subseteq Runs
    <3>1. Cardinality(begun) < MaxRuns /\ begun' = begun \cup {Run(r)}
          /\ upserting' \subseteq upserting \cup {Run(r)}
      BY <1>13 DEF FindGreeting
    <3>2. /\ Run(r) \in Runs
          /\ IsFiniteSet(begun \cup {Run(r)})
          /\ Cardinality(begun \cup {Run(r)}) = Cardinality(begun) + 1
          /\ \A x \in begun \cup {Run(r)} : x[2] <= Cardinality(begun) + 1
      BY <3>1, NextRun DEF Typed
    <3> QED
      BY <3>1, <3>2 DEF Numbered
  <2>2. inserted' \in [Requests -> SUBSET Codes] /\ toldInsert' \in [Requests -> Answers]
    BY <1>13 DEF FindGreeting, Insert!Execute, Codes
  <2> QED
    BY <1>13, <2>1, <2>2 DEF FindGreeting, Typed, request, counting
<1>14. ASSUME NEW r \in Requests, FailInsert(r) PROVE Typed'
  <2>1. toldInsert' \in [Requests -> Answers]
    <3>1. Append(toldInsert[r], Error) \in Answers
      BY <1>14, LongerAnswer DEF FailInsert, Insert!Fail
    <3> QED
      BY <1>14, <3>1 DEF FailInsert, Insert!Fail
  <2>2. response' \in [Requests -> Codes \cup {0}]
    BY <1>14 DEF FailInsert, Codes
  <2> QED
    BY <1>14, <2>1, <2>2 DEF FailInsert, Insert!Fail, Typed, Numbered, counting
<1>15. ASSUME NEW r \in Requests, NEW code \in Codes, ReplyInsert(r, code) PROVE Typed'
  <2>1. toldInsert' \in [Requests -> Answers]
    <3>1. toldInsert[r] \in Answers /\ Len(toldInsert[r]) <= 1
      BY <1>15, ShortAnswer DEF ReplyInsert, Insert!Reply
    <3>2. Append(toldInsert[r], code) \in Answers
      BY <3>1, LongerAnswer
    <3> QED
      BY <1>15, <3>2 DEF ReplyInsert, Insert!Reply
  <2>2. stage' \in [Requests -> Stages] /\ response' \in [Requests -> Codes \cup {0}]
    BY <1>15 DEF ReplyInsert, Stages
  <2> QED
    BY <1>15, <2>1, <2>2 DEF ReplyInsert, Insert!Reply, Typed, Numbered, counting
<1>16. ASSUME NEW x \in upserting, NEW code \in Codes, Insert!Execute(x[1], code)
       PROVE  inserted' \in [Requests -> SUBSET Codes] /\ toldInsert' \in [Requests -> Answers]
  BY <1>16 DEF Insert!Execute
<1>17. ASSUME NEW x \in upserting, InsertGreeting(x) PROVE Typed'
  <2>1. OK \in Codes /\ Failed \in Codes
    BY DEF Codes
  <2>2. greetings' \subseteq Greetings /\ given' \subseteq Runs /\ upserting' \subseteq Runs
    BY <1>17 DEF InsertGreeting, New, Greetings, Runs
  <2> QED
    BY <1>16, <1>17, <2>1, <2>2 DEF InsertGreeting, Typed, Numbered, request, counting
<1>18. ASSUME NEW x \in upserting, RejectDuplicate(x) PROVE Typed'
  <2>1. Rejected \in Codes
    BY DEF Codes
  <2> QED
    BY <1>16, <1>18, <2>1 DEF RejectDuplicate, Typed, Numbered, request, counting
<1>19. ASSUME NEW x \in upserting, InsertFails(x) PROVE Typed'
  <2>1. Failed \in Codes
    BY DEF Codes
  <2> QED
    BY <1>16, <1>19, <2>1 DEF InsertFails, Typed, Numbered, request, counting
<1>20. CASE UNCHANGED vars
  BY <1>20 DEF vars, Typed, Numbered, request, counting, inserting
<1> QED
  BY <1>1, <1>2, <1>3, <1>4, <1>5, <1>7, <1>8, <1>9, <1>10, <1>11, <1>12, <1>13, <1>14, <1>15,
     <1>17, <1>18, <1>19, <1>20 DEF Next, Give, Upsert
-----------------------------------------------------------------------------
(* What each step does to the greetings.                                   *)

\* Steps that execute nothing at the host of Greeting.
Quiet ==
  /\ greetings' \subseteq greetings
  /\ UNCHANGED <<indexed, producer, receiver, inserted, begun, upserting, given>>
  /\ \A r \in Requests :
       /\ stage[r] \in Sent => stage'[r] \in Sent
       /\ stage[r] = "refused" => stage'[r] = "refused"
       /\ \/ response'[r] = response[r]
          \/ response'[r] = Failed
          \/ stage'[r] = "refused" /\ response'[r] \in {Rejected, Failed}

LEMMA QuietStep ==
  ASSUME IInv, Quiet
  PROVE  Ordered' /\ Sourced' /\ Answered' /\ Refused' /\ UniqueOnceIndexed'
<1> USE DEF IInv, Quiet
<1>1. Ordered'
  <2>1. \A x \in begun : x[1] \in Requests
    BY DEF Typed, TypeOK, Runs
  <2> QED
    BY <2>1 DEF Ordered
<1>2. Sourced'
  BY DEF Sourced
<1>3. Answered'
  BY DEF Answered, Gave, OK, Failed, Rejected
<1>4. Refused'
  BY DEF Refused, Failed, Rejected
<1>5. UniqueOnceIndexed'
  BY DEF UniqueOnceIndexed
<1> QED
  BY <1>1, <1>2, <1>3, <1>4, <1>5

\* A step that ends a verification.
LEMMA ProceedStep ==
  ASSUME TypeOK, NEW r \in Requests, NEW s \in Stages, NEW code \in Codes,
         stage[r] \in {"producer", "receiver"}, Proceed(r, code, s)
  PROVE  \A q \in Requests :
           /\ stage[q] \in Sent => stage'[q] \in Sent
           /\ stage[q] = "refused" => stage'[q] = "refused"
           /\ \/ response'[q] = response[q]
              \/ response'[q] = Failed
              \/ stage'[q] = "refused" /\ response'[q] \in {Rejected, Failed}
<1>1. code # OK => code \in {Rejected, Failed}
  BY DEF Codes
<1> QED
  BY <1>1 DEF TypeOK, Sent

LEMMA QuietSteps ==
  ASSUME TypeOK,
         \/ \E t \in Things : AddThing(t) \/ RemoveThing(t)
         \/ \E g \in greetings : RemoveGreeting(g)
         \/ \E r \in Requests :
              \/ Post(r) \/ VerifyProducer(r) \/ VerifyReceiver(r) \/ VerifyFails(r)
              \/ ExecuteCount(r) \/ FailCount(r) \/ FailInsert(r)
              \/ \E code \in Codes : ReplyCount(r, code)
  PROVE  Quiet
<1> USE DEF TypeOK
<1>1. ASSUME NEW t \in Things, AddThing(t) \/ RemoveThing(t) PROVE Quiet
  BY <1>1 DEF AddThing, RemoveThing, Quiet, request, counting, inserting
<1>2. ASSUME NEW g \in greetings, RemoveGreeting(g) PROVE Quiet
  BY <1>2 DEF RemoveGreeting, Quiet, request, counting, inserting
<1>3. ASSUME NEW r \in Requests, Post(r) PROVE Quiet
  BY <1>3 DEF Post, Quiet, Sent, inserting
<1>4. ASSUME NEW r \in Requests, VerifyProducer(r) PROVE Quiet
  <2>1. Verdict(producer[r]) \in Codes /\ "receiver" \in Stages
    BY DEF Verdict, Codes, Stages
  <2> QED
    BY <1>4, <2>1, ProceedStep DEF VerifyProducer, Quiet, inserting
<1>5. ASSUME NEW r \in Requests, VerifyReceiver(r) PROVE Quiet
  <2>1. Verdict(receiver[r]) \in Codes /\ "inserting" \in Stages
    BY DEF Verdict, Codes, Stages
  <2> QED
    BY <1>5, <2>1, ProceedStep DEF VerifyReceiver, Quiet, inserting
<1>6. ASSUME NEW r \in Requests, VerifyFails(r) PROVE Quiet
  <2>1. Failed \in Codes /\ "refused" \in Stages
    BY DEF Codes, Stages
  <2> QED
    BY <1>6, <2>1, ProceedStep DEF VerifyFails, Quiet, inserting
<1>7. ASSUME NEW r \in Requests, ExecuteCount(r) PROVE Quiet
  BY <1>7 DEF ExecuteCount, Quiet, request, inserting
<1>8. ASSUME NEW r \in Requests, FailCount(r) PROVE Quiet
  BY <1>8 DEF FailCount, Quiet, inserting
<1>9. ASSUME NEW r \in Requests, FailInsert(r) PROVE Quiet
  BY <1>9 DEF FailInsert, Insert!Fail, Quiet, counting
<1>10. ASSUME NEW r \in Requests, NEW code \in Codes, ReplyCount(r, code) PROVE Quiet
  <2>1. "inserting" \in Stages
    BY DEF Stages
  <2> QED
    BY <1>10, <2>1, ProceedStep DEF ReplyCount, Counting, Quiet, inserting
<1> QED
  BY <1>1, <1>2, <1>3, <1>4, <1>5, <1>6, <1>7, <1>8, <1>9, <1>10

\* A step that touches neither a document nor the stages keeps what was verified.
LEMMA VerifiedKept ==
  ASSUME Verified, docs' \subseteq docs,
         UNCHANGED <<stage, producer, receiver, seen, counted>>
  PROVE  Verified'
BY DEF Verified

\* So does one that ends a verification of a document that was seen.
LEMMA VerifiedProceed ==
  ASSUME TypeOK, Verified, NEW r \in Requests, NEW s \in Stages, NEW code \in Codes,
         Proceed(r, code, s), stage[r] # "new",
         UNCHANGED <<docs, producer, receiver, seen, counted>>,
         code = OK /\ s \in Sent \cup {"receiver"} => producer[r] \in seen[r],
         code = OK /\ s \in Sent => receiver[r] \in seen[r],
         s # "new"
  PROVE  Verified'
BY DEF TypeOK, Verified, Sent

LEMMA NextVerified == IInv /\ [Next]_vars => Verified'
<1> SUFFICES ASSUME IInv, [Next]_vars PROVE Verified'
  OBVIOUS
<1>0. TypeOK /\ Verified
  BY DEF IInv, Typed
<1>1. ASSUME NEW t \in Things, AddThing(t) PROVE Verified'
  BY <1>0, <1>1 DEF AddThing, Verified, TypeOK, request, counting, Sent
<1>2. ASSUME NEW t \in Things, RemoveThing(t) PROVE Verified'
  BY <1>0, <1>2, VerifiedKept DEF RemoveThing, request, counting
<1>3. ASSUME NEW g \in greetings, RemoveGreeting(g) PROVE Verified'
  BY <1>0, <1>3, VerifiedKept DEF RemoveGreeting, request, counting
<1>4. CASE EnsureIndex
  BY <1>0, <1>4, VerifiedKept DEF EnsureIndex, request, counting
<1>5. ASSUME NEW r \in Requests, Post(r) PROVE Verified'
  BY <1>0, <1>5 DEF Post, Verified, TypeOK, counting, Sent
<1>6. ASSUME NEW r \in Requests, VerifyProducer(r) PROVE Verified'
  <2>1. Verdict(producer[r]) \in Codes /\ "receiver" \in Stages /\ "receiver" \notin Sent
    BY DEF Verdict, Codes, Stages, Sent
  <2>2. Verdict(producer[r]) = OK => producer[r] \in seen[r]
    BY <1>0, <1>6 DEF VerifyProducer, Verdict, Verified, OK, Rejected
  <2> QED
    BY <1>0, <1>6, <2>1, <2>2, VerifiedProceed DEF VerifyProducer, counting
<1>7. ASSUME NEW r \in Requests, VerifyReceiver(r) PROVE Verified'
  <2>1. Verdict(receiver[r]) \in Codes /\ "inserting" \in Stages
    BY DEF Verdict, Codes, Stages
  <2>2. /\ Verdict(receiver[r]) = OK => receiver[r] \in seen[r]
        /\ producer[r] \in seen[r]
    BY <1>0, <1>7 DEF VerifyReceiver, Verdict, Verified, OK, Rejected
  <2> QED
    BY <1>0, <1>7, <2>1, <2>2, VerifiedProceed DEF VerifyReceiver, counting
<1>8. ASSUME NEW r \in Requests, VerifyFails(r) PROVE Verified'
  <2>1. Failed \in Codes /\ "refused" \in Stages /\ Failed # OK
    BY DEF Codes, Stages, Failed, OK
  <2> QED
    BY <1>0, <1>8, <2>1, VerifiedProceed DEF VerifyFails, counting
<1>9. ASSUME NEW r \in Requests, ExecuteCount(r) PROVE Verified'
  <2>1. Verdict(receiver[r]) = OK => receiver[r] \in seen[r]
    BY <1>0, <1>9 DEF ExecuteCount, Counting, Verdict, Verified, OK, Rejected
  <2> QED
    BY <1>0, <1>9, <2>1 DEF ExecuteCount, Counting, Count!Execute, Verified, TypeOK, request, Sent
<1>10. ASSUME NEW r \in Requests, NEW code \in Codes, ReplyCount(r, code) PROVE Verified'
  <2>1. "inserting" \in Stages
    BY DEF Stages
  <2>2. /\ code = OK => receiver[r] \in seen[r]
        /\ producer[r] \in seen[r]
    BY <1>0, <1>10 DEF ReplyCount, Counting, Count!Reply, Verified
  <2> QED
    BY <1>0, <1>10, <2>1, <2>2, VerifiedProceed DEF ReplyCount, Counting, Count!Reply
<1>11. ASSUME NEW r \in Requests, FailCount(r) PROVE Verified'
  BY <1>0, <1>11, VerifiedKept DEF FailCount, Count!Fail
<1>12. ASSUME NEW r \in Requests, FindGreeting(r) \/ FailInsert(r) PROVE Verified'
  BY <1>0, <1>12, VerifiedKept DEF FindGreeting, FailInsert, request, counting
<1>13. ASSUME NEW r \in Requests, NEW code \in Codes, ReplyInsert(r, code) PROVE Verified'
  BY <1>0, <1>13 DEF ReplyInsert, Verified, TypeOK, counting, Sent
<1>14. ASSUME NEW x \in upserting, Upsert(x) PROVE Verified'
  BY <1>0, <1>14, VerifiedKept
  DEF Upsert, InsertGreeting, RejectDuplicate, InsertFails, request, counting
<1>15. CASE UNCHANGED vars
  BY <1>0, <1>15, VerifiedKept DEF vars, request, counting
<1> QED
  BY <1>1, <1>2, <1>3, <1>4, <1>5, <1>6, <1>7, <1>8, <1>9, <1>10, <1>11, <1>12, <1>13, <1>14,
     <1>15 DEF Next, Give
-----------------------------------------------------------------------------
(* The executions of Greeting.insert.                                      *)

LEMMA FindStep ==
  ASSUME IInv, NEW r \in Requests, FindGreeting(r)
  PROVE  Ordered' /\ Sourced' /\ Answered' /\ Refused' /\ UniqueOnceIndexed'
<1> DEFINE x == Run(r)
<1>1. TypeOK /\ Typed /\ Ordered /\ Sourced /\ Answered /\ Refused /\ UniqueOnceIndexed
  BY DEF IInv, Typed
<1>2. x \notin begun /\ x[1] = r
  BY <1>1, NextRun DEF FindGreeting
<1>3. /\ begun' = begun \cup {x} /\ stage[r] \in Sent
      /\ UNCHANGED <<greetings, indexed, stage, producer, receiver, response, given>>
  BY DEF FindGreeting, request, Sent
<1> HIDE DEF x
<1>4. CASE \E g \in greetings : Matches(g, r)
  <2>1. upserting' = upserting /\ inserted' = [inserted EXCEPT ![r] = @ \cup {OK}]
    BY <1>4 DEF FindGreeting, Insert!Execute
  <2>2. Gave(r)
    BY <1>1, <1>4 DEF Sourced, Matches, Gave
  <2>3. Ordered' /\ Sourced' /\ UniqueOnceIndexed'
    BY <1>1, <1>2, <1>3, <2>1 DEF Ordered, Sourced, UniqueOnceIndexed
  <2>4. Answered'
    BY <1>1, <1>3, <2>1, <2>2 DEF Answered, Gave, TypeOK
  <2>5. Refused'
    BY <1>1, <1>2, <1>3, <2>1 DEF Refused, TypeOK, OK, Rejected
  <2> QED
    BY <2>3, <2>4, <2>5
<1>5. CASE ~ \E g \in greetings : Matches(g, r)
  <2>1. upserting' = upserting \cup {x} /\ inserted' = inserted
    BY <1>5 DEF FindGreeting, x
  <2>2. Ordered' /\ Sourced' /\ UniqueOnceIndexed'
    BY <1>1, <1>2, <1>3, <2>1 DEF Ordered, Sourced, UniqueOnceIndexed
  <2>3. Answered' /\ Refused'
    BY <1>1, <1>2, <1>3, <2>1 DEF Answered, Gave, Refused
  <2> QED
    BY <2>2, <2>3
<1> QED
  BY <1>4, <1>5

LEMMA ReplyStep ==
  ASSUME IInv, NEW r \in Requests, NEW code \in Codes, ReplyInsert(r, code)
  PROVE  Ordered' /\ Sourced' /\ Answered' /\ Refused' /\ UniqueOnceIndexed'
<1>1. TypeOK /\ Ordered /\ Sourced /\ Answered /\ Refused /\ UniqueOnceIndexed
  BY DEF IInv, Typed
<1>2. /\ code \in inserted[r]
      /\ stage' = [stage EXCEPT ![r] = "answered"]
      /\ stage[r] = "inserting"
      /\ \A q \in Requests : response'[q] = IF q = r /\ response[q] = 0 THEN code ELSE response[q]
      /\ UNCHANGED <<greetings, indexed, producer, receiver, inserted, begun, upserting, given>>
  BY <1>1 DEF ReplyInsert, Insert!Reply, TypeOK
<1>3. Ordered'
  <2>1. \A x \in begun : x[1] \in Requests /\ stage'[x[1]] \in Sent
    BY <1>1, <1>2 DEF Ordered, TypeOK, Runs, Sent
  <2> QED
    BY <1>1, <1>2, <2>1 DEF Ordered
<1>4. Sourced' /\ UniqueOnceIndexed'
  BY <1>1, <1>2 DEF Sourced, UniqueOnceIndexed
<1>5. Answered'
  BY <1>1, <1>2 DEF Answered, Gave
<1>6. Refused'
  BY <1>1, <1>2 DEF Refused, TypeOK
<1> QED
  BY <1>3, <1>4, <1>5, <1>6

LEMMA UpsertStep ==
  ASSUME IInv, NEW x \in upserting, Upsert(x)
  PROVE  Ordered' /\ Sourced' /\ Answered' /\ Refused' /\ UniqueOnceIndexed'
<1>1. TypeOK /\ Ordered /\ Sourced /\ Answered /\ Refused /\ UniqueOnceIndexed
  BY DEF IInv, Typed
<1>2. x[1] \in Requests /\ x \in begun /\ x \notin given
  BY <1>1 DEF TypeOK, Runs, Ordered
<1>3. /\ upserting' = upserting \ {x}
      /\ UNCHANGED <<indexed, stage, producer, receiver, response, begun>>
  BY DEF Upsert, InsertGreeting, RejectDuplicate, InsertFails, request
<1>4. CASE InsertGreeting(x)
  <2>1. PICK code \in {OK, Failed} : inserted' = [inserted EXCEPT ![x[1]] = @ \cup {code}]
    BY <1>4 DEF InsertGreeting, Insert!Execute
  <2>2. /\ greetings' = greetings \cup {New(x)} /\ given' = given \cup {x}
        /\ ~ (indexed /\ \E g \in greetings : Conflict(g, New(x)))
    BY <1>4 DEF InsertGreeting
  <2>3. New(x).id = x /\ New(x).producer = producer[x[1]] /\ New(x).receiver = receiver[x[1]]
    BY DEF New
  <2>4. Ordered'
    BY <1>1, <1>2, <1>3, <2>2 DEF Ordered
  <2>5. Sourced'
    BY <1>1, <1>3, <2>2, <2>3 DEF Sourced
  <2>6. Answered'
    <3>1. \A r \in Requests : Gave(r) => Gave(r)'
      BY <1>3, <2>2 DEF Gave
    <3>2. Gave(x[1])'
      BY <1>3, <2>2 DEF Gave
    <3> QED
      BY <1>1, <1>2, <1>3, <2>1, <3>1, <3>2 DEF Answered, TypeOK
  <2>7. Refused'
    <3>1. \A r \in Requests : Rejected \in inserted'[r] <=> Rejected \in inserted[r]
      BY <1>1, <2>1 DEF TypeOK, OK, Failed, Rejected
    <3>2. given' \cup upserting' = given \cup upserting
      BY <1>3, <2>2
    <3> QED
      BY <1>1, <1>3, <3>1, <3>2 DEF Refused
  <2>8. UniqueOnceIndexed'
    BY <1>1, <1>3, <2>2, <2>3 DEF UniqueOnceIndexed, Conflict
  <2> QED
    BY <2>4, <2>5, <2>6, <2>7, <2>8
<1>5. CASE RejectDuplicate(x) \/ InsertFails(x)
  <2>1. PICK code \in {Rejected, Failed} : inserted' = [inserted EXCEPT ![x[1]] = @ \cup {code}]
    BY <1>5 DEF RejectDuplicate, InsertFails, Insert!Execute
  <2>2. greetings' = greetings /\ given' = given
    BY <1>5 DEF RejectDuplicate, InsertFails
  <2>3. Ordered' /\ Sourced' /\ UniqueOnceIndexed'
    BY <1>1, <1>3, <2>2 DEF Ordered, Sourced, UniqueOnceIndexed
  <2>4. Answered'
    <3>1. \A r \in Requests : OK \in inserted'[r] <=> OK \in inserted[r]
      BY <1>1, <2>1 DEF TypeOK, OK, Failed, Rejected
    <3> QED
      BY <1>1, <1>3, <2>2, <3>1 DEF Answered, Gave
  <2>5. Refused'
    <3>1. x \in begun \ (given' \cup upserting')
      BY <1>2, <1>3, <2>2
    <3>2. \A r \in Requests : r # x[1] => inserted'[r] = inserted[r]
      BY <1>1, <2>1 DEF TypeOK
    <3>3. \A r \in Requests : Rejected \in inserted[r] => Rejected \in inserted'[r]
      BY <1>1, <2>1 DEF TypeOK
    <3>4. begun \ (given \cup upserting) \subseteq begun' \ (given' \cup upserting')
      BY <1>3, <2>2
    <3> QED
      BY <1>1, <1>3, <3>1, <3>2, <3>3, <3>4 DEF Refused
  <2> QED
    BY <2>3, <2>4, <2>5
<1> QED
  BY <1>4, <1>5 DEF Upsert

-----------------------------------------------------------------------------
LEMMA NextIInv == IInv /\ [Next]_vars => IInv'
<1> SUFFICES ASSUME IInv, [Next]_vars PROVE IInv'
  OBVIOUS
<1>0. TypeOK
  BY DEF IInv, Typed
<1>1. Typed' /\ Verified'
  BY NextTyped, NextVerified
<1>2. CASE Quiet
  BY <1>1, <1>2, QuietStep DEF IInv
<1>3. CASE EnsureIndex
  BY <1>1, <1>3
  DEF EnsureIndex, IInv, Ordered, Sourced, Answered, Gave, Refused, UniqueOnceIndexed, Conflict,
      request, inserting
<1>4. ASSUME NEW r \in Requests, FindGreeting(r) PROVE IInv'
  BY <1>1, <1>4, FindStep DEF IInv
<1>5. ASSUME NEW r \in Requests, NEW code \in Codes, ReplyInsert(r, code) PROVE IInv'
  BY <1>1, <1>5, ReplyStep DEF IInv
<1>6. ASSUME NEW x \in upserting, Upsert(x) PROVE IInv'
  BY <1>1, <1>6, UpsertStep DEF IInv
<1>7. CASE UNCHANGED vars
  BY <1>1, <1>7
  DEF vars, IInv, Ordered, Sourced, Answered, Gave, Refused, UniqueOnceIndexed, request, inserting
<1> QED
  BY <1>0, <1>2, <1>3, <1>4, <1>5, <1>6, <1>7, QuietSteps DEF Next, Give

\* The inductive invariant holds of every behaviour.
THEOREM Invariance == Spec => []IInv
BY InitIInv, NextIInv, PTL DEF Spec

\* Every variable keeps its type, for any requests and things.
THEOREM TypeCorrect == Spec => []TypeOK
<1>1. IInv => TypeOK
  BY DEF IInv, Typed
<1> QED BY <1>1, Invariance, PTL

\* Greetings are given only between documents that the two verifications of
\* give.js:42 and 46 saw, whatever the order of removals and late answers.
THEOREM OnlyVerified == Spec => []GivenOnlyVerified
<1>1. IInv => GivenOnlyVerified
  BY DEF IInv, Typed, TypeOK, Runs, Verified, Ordered, GivenOnlyVerified
<1> QED
  BY <1>1, Invariance, PTL

\* A client that is told 200 has its greeting (Greeting.js:57 and mongo.js:107).
THEOREM Reported == Spec => []AnsweredGiven
<1>1. IInv => AnsweredGiven
  BY DEF IInv, Answered, Gave, AnsweredGiven
<1> QED
  BY <1>1, Invariance, PTL

\* A client that is told 400 gave nothing but by a first of two executions of
\* its insert (mongo.js:119 is where the second is refused).
THEOREM RefusalsExplained == Spec => []RefusedGivesNothing
<1>1. ASSUME IInv, NEW x \in given, response[x[1]] = Rejected
      PROVE  \E y \in begun \ {x} : y[1] = x[1]
  <2>1. x[1] \in Requests /\ stage[x[1]] \in Sent
    BY <1>1 DEF IInv, Typed, TypeOK, Runs, Ordered
  <2>2. Rejected \in inserted[x[1]]
    BY <1>1, <2>1 DEF IInv, Refused, Sent
  <2>3. PICK y \in begun \ (given \cup upserting) : y[1] = x[1]
    BY <1>1, <2>1, <2>2 DEF IInv, Refused
  <2> QED
    BY <1>1, <2>3
<1>2. IInv => RefusedGivesNothing
  BY <1>1 DEF RefusedGivesNothing
<1> QED
  BY <1>2, Invariance, PTL

\* With the index that the cron job of Greeting.js:57 creates, no two greetings
\* have one producer and receiver.
THEOREM UniqueWithIndex == Spec => []UniqueOnceIndexed
<1>1. IInv => UniqueOnceIndexed
  BY DEF IInv
<1> QED
  BY <1>1, Invariance, PTL
=============================================================================
