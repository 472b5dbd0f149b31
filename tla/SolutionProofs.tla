---------------------------- MODULE SolutionProofs ----------------------------
(***************************************************************************)
(* Proofs about Solution for every set of solutions and of Errors.         *)
(***************************************************************************)
EXTENDS Solution, FiniteSetTheorems, SequenceTheorems, WellFoundedInduction, TLAPS

\* No next was used more often than the reuses account for.
UsesCounted == \A i \in 1 .. Len(uses) : uses[i] <= reuses + 1

\* The inductive invariant.
IInv == TypeOK /\ UsesCounted /\ Conserved /\ CalledBackAtEnd

LEMMA FirstIsCandidate ==
  ASSUME NEW S, S \subseteq Nat, S # {}
  PROVE  First(S) \in S
<1> DEFINE R == {p \in Nat \X Nat : p[1] < p[2]}
<1>1. IsWellFoundedOn(R, Nat)
  BY NatLessThanWellFounded DEF OpToRel
<1>2. PICK k \in S : \A m \in S : ~ (<<m, k>> \in R)
  BY <1>1, WFMin
<1>3. ASSUME NEW m \in S PROVE k <= m
  <2>1. k \in Nat /\ m \in Nat
    OBVIOUS
  <2>2. ~ (m < k)
    <3>1. m < k => <<m, k>> \in R
      BY <2>1
    <3> QED
      BY <1>2, <3>1
  <2> QED
    BY <2>1, <2>2
<1> QED
  BY <1>3 DEF First

LEMMA BoundedSeq ==
  ASSUME NEW S, NEW T, NEW s \in Seq(S), \A j \in 1 .. Len(s) : s[j] \in T
  PROVE  s \in Seq(T)
<1>1. Len(s) \in Nat /\ DOMAIN s = 1 .. Len(s) /\ s \in [1 .. Len(s) -> S]
  BY LenProperties
<1>2. s \in [1 .. Len(s) -> T]
  BY <1>1
<1> QED
  BY <1>1, <1>2, SeqDef

LEMMA AppendAt ==
  ASSUME NEW S, NEW s \in Seq(S), NEW e \in S
  PROVE  /\ Append(s, e) \in Seq(S)
         /\ Len(s) \in Nat
         /\ Len(Append(s, e)) = Len(s) + 1
         /\ \A j \in 1 .. Len(s) : Append(s, e)[j] = s[j]
         /\ Append(s, e)[Len(s) + 1] = e
OBVIOUS

LEMMA Increment ==
  ASSUME NEW s \in Seq(Nat), NEW i \in 1 .. Len(s)
  PROVE  LET t == [s EXCEPT ![i] = @ + 1] IN
         /\ t \in Seq(Nat)
         /\ Len(t) = Len(s)
         /\ \A j \in 1 .. Len(s) : t[j] = IF j = i THEN s[j] + 1 ELSE s[j]
<1> DEFINE t == [s EXCEPT ![i] = @ + 1]
<1>1. s[i] + 1 \in Nat
  <2>1. s[i] \in Nat
    BY ElementOfSeq
  <2> QED
    BY <2>1
<1>2. t = [s EXCEPT ![i] = s[i] + 1]
  OBVIOUS
<1>3. t \in Seq(Nat) /\ Len(t) = Len(s)
  BY <1>1, <1>2, ExceptSeq
<1>4. \A j \in 1 .. Len(s) : t[j] = IF j = i THEN s[i] + 1 ELSE s[j]
  BY <1>1, <1>2, ExceptSeq
<1> QED
  BY <1>3, <1>4

LEMMA UnusedIsFinite ==
  ASSUME TypeOK
  PROVE  IsFiniteSet(Unused) /\ Cardinality(Unused) \in Nat
<1>1. Len(uses) \in Nat
  BY DEF TypeOK
<1>2. IsFiniteSet(1 .. Len(uses))
  BY <1>1, FS_Interval
<1>3. Unused \subseteq 1 .. Len(uses)
  BY DEF Unused
<1> QED
  BY <1>2, <1>3, FS_Subset, FS_CardinalityType

\* A use of the next of invocation i preserves the invariant.
LEMMA UseInvariant ==
  ASSUME IInv,
         NEW i \in 1 .. Len(invs), NEW error \in Errors \cup {None},
         NEW below \in Seq(1 .. Len(invs)),
         Use(i, error, below)
  PROVE  IInv'
<1> DEFINE n == Len(invs)
           found == Candidates(invs[i].index, error)
           used == [uses EXCEPT ![i] = @ + 1]
           C == Cardinality(Unused)
<1>0. TypeOK /\ UsesCounted /\ Conserved /\ CalledBackAtEnd
  BY DEF IInv
<1>1. n \in Nat /\ Len(uses) = n /\ uses \in Seq(Nat)
  <2>1. uses \in Seq(0 .. MaxReuses + 1) /\ Len(uses) = n /\ n \in Nat
    BY <1>0 DEF TypeOK
  <2>2. \A j \in 1 .. Len(uses) : uses[j] \in Nat
    BY <2>1, ElementOfSeq, SolutionAssumption
  <2> QED
    BY <2>1, <2>2, BoundedSeq
<1>2. /\ used \in Seq(Nat) /\ Len(used) = n
      /\ \A j \in 1 .. n : used[j] = IF j = i THEN uses[j] + 1 ELSE uses[j]
  BY <1>1, Increment
<1> HIDE DEF used
<1>3. /\ \A j \in 1 .. n : uses[j] \in Nat /\ used[j] \in Nat
      /\ DOMAIN uses = 1 .. n
  BY <1>1, <1>2, ElementOfSeq, LenProperties
<1>4. /\ reuses' = IF uses[i] = 0 THEN reuses ELSE reuses + 1
      /\ reuses \in Nat /\ reuses' \in 0 .. MaxReuses
  <2>1. reuses \in Nat /\ reuses \in 0 .. MaxReuses /\ MaxReuses \in Nat
    BY <1>0, SolutionAssumption DEF TypeOK
  <2> QED
    BY <2>1 DEF Use
<1>5. \A j \in 1 .. n : used[j] <= reuses' + 1
  <2>1. SUFFICES ASSUME NEW j \in 1 .. n PROVE used[j] <= reuses' + 1
    OBVIOUS
  <2>2. uses[j] \in Nat /\ uses[j] <= reuses + 1 /\ reuses' \in Nat
    BY <1>0, <1>1, <1>3, <1>4 DEF UsesCounted
  <2>3. reuses <= reuses'
    BY <1>4
  <2>4. CASE j = i
    BY <1>2, <1>4, <2>2, <2>4
  <2>5. CASE j # i
    BY <1>2, <1>4, <2>2, <2>3, <2>5
  <2> QED
    BY <2>4, <2>5
<1>6. used \in Seq(0 .. MaxReuses + 1)
  <2>1. \A j \in 1 .. Len(used) : used[j] \in 0 .. MaxReuses + 1
    <3>1. SUFFICES ASSUME NEW j \in 1 .. n PROVE used[j] \in 0 .. MaxReuses + 1
      BY <1>2
    <3>2. used[j] \in Nat /\ used[j] <= reuses' + 1
      BY <1>3, <1>5
    <3>3. reuses' \in 0 .. MaxReuses /\ MaxReuses \in Nat
      BY <1>4, SolutionAssumption
    <3> QED
      BY <3>2, <3>3
  <2> QED
    BY <1>2, <2>1, BoundedSeq
<1>7. IsFiniteSet(Unused) /\ C \in Nat
  BY <1>0, UnusedIsFinite
<1>8. /\ IsFiniteSet(Unused \ {i})
      /\ Cardinality(Unused \ {i}) = IF uses[i] = 0 THEN C - 1 ELSE C
  <2>1. i \in Unused <=> uses[i] = 0
    BY <1>1 DEF Unused
  <2> QED
    BY <1>7, <2>1, FS_RemoveElement
<1>9. /\ invs[i].index \in Nat \ {0} /\ invs[i].index <= Len(type)
      /\ Len(type) \in Nat /\ type' = type /\ type \in Programs
  <2>1. invs[i] \in Invocations
    BY <1>0, ElementOfSeq DEF TypeOK
  <2>2. type \in Seq({"step", "catch"})
    BY <1>0, SolutionAssumption DEF TypeOK, Solutions
  <2> QED
    BY <1>0, <2>1, <2>2 DEF TypeOK, Use, Invocations
<1>10. done \in Seq(Callbacks) /\ Len(done) \in Nat
  BY <1>0 DEF TypeOK
<1> HIDE DEF n, found, C
<1>11. CASE found = {}
  <2> DEFINE call == [from |-> invs[i].index, error |-> error]
  <2>1. done' = Append(done, call) /\ uses' = used /\ stack' = below /\ invs' = invs
    BY <1>11 DEF Use, CallBack, found, used
  <2>2. call \in Callbacks
    BY <1>9 DEF Callbacks
  <2> HIDE DEF call
  <2>3. /\ done' \in Seq(Callbacks)
        /\ Len(done') = Len(done) + 1
        /\ \A m \in 1 .. Len(done) : done'[m] = done[m]
        /\ done'[Len(done) + 1] = call
    BY <2>1, <2>2, <1>10, AppendAt
  <2>4. TypeOK'
    <3>1. type' \in Programs /\ reuses' \in 0 .. MaxReuses
      BY <1>4, <1>9
    <3>2. /\ invs' \in Seq(Invocations) /\ Len(invs') = n
          /\ \A j \in 1 .. Len(invs') : invs'[j].index <= Len(type')
      BY <1>0, <1>9, <2>1 DEF TypeOK, n
    <3>3. uses' \in Seq(0 .. MaxReuses + 1) /\ Len(uses') = n
      BY <1>2, <1>6, <2>1
    <3>4. stack' \in Seq(1 .. n)
      BY <2>1 DEF n
    <3> QED BY <2>3, <3>1, <3>2, <3>3, <3>4 DEF TypeOK
  <2>5. UsesCounted'
    BY <1>2, <1>5, <2>1 DEF UsesCounted
  <2>6. Unused' = Unused \ {i}
    <3>1. Unused' = {j \in 1 .. n : used[j] = 0} /\ Unused = {j \in 1 .. n : uses[j] = 0}
      BY <1>1, <1>2, <2>1 DEF Unused
    <3>2. \A j \in 1 .. n : used[j] = 0 <=> uses[j] = 0 /\ j # i
      BY <1>2, <1>3
    <3> QED
      BY <3>1, <3>2
  <2>7. Conserved'
    BY <1>0, <1>4, <1>7, <1>8, <1>10, <2>3, <2>6 DEF Conserved, C
  <2>8. CalledBackAtEnd'
    <3>1. \A k \in invs[i].index + 1 .. Len(type) : type[k] # Wanted(error)
      BY <1>11 DEF Candidates, found
    <3>2. SUFFICES ASSUME NEW m \in 1 .. Len(done')
                   PROVE  \A k \in done'[m].from + 1 .. Len(type') :
                            type'[k] # Wanted(done'[m].error)
      BY DEF CalledBackAtEnd
    <3>3. CASE m \in 1 .. Len(done)
      BY <1>0, <1>9, <2>3, <3>3 DEF CalledBackAtEnd, Wanted
    <3>4. CASE m = Len(done) + 1
      BY <1>9, <2>3, <3>1, <3>4 DEF Wanted, call
    <3> QED
      BY <1>10, <2>3, <3>3, <3>4
  <2> QED
    BY <2>4, <2>5, <2>7, <2>8 DEF IInv
<1>12. CASE found # {}
  <2> DEFINE new == [index |-> First(found), error |-> error]
  <2>1. /\ invs' = Append(invs, new) /\ uses' = Append(used, 0)
        /\ stack' = Append(below, n + 1) /\ done' = done
    BY <1>12 DEF Use, found, used, n
  <2>2. First(found) \in found /\ found \subseteq Nat \ {0}
        /\ \A k \in found : k <= Len(type)
    <3>1. found \subseteq Nat \ {0} /\ \A k \in found : k <= Len(type)
      BY <1>9 DEF Candidates, found
    <3> QED
      BY <3>1, <1>12, FirstIsCandidate
  <2>3. new \in Invocations /\ new.index <= Len(type)
    BY <2>2 DEF Invocations
  <2> HIDE DEF new
  <2>4. /\ invs' \in Seq(Invocations) /\ Len(invs') = n + 1
        /\ \A j \in 1 .. n : invs'[j] = invs[j]
        /\ invs'[n + 1] = new
    <3>1. invs \in Seq(Invocations)
      BY <1>0 DEF TypeOK
    <3> QED
      BY <3>1, <2>1, <2>3, AppendAt DEF n
  <2>5. /\ uses' \in Seq(0 .. MaxReuses + 1) /\ Len(uses') = n + 1
        /\ \A j \in 1 .. n : uses'[j] = used[j]
        /\ uses'[n + 1] = 0
    <3>1. 0 \in 0 .. MaxReuses + 1
      BY SolutionAssumption
    <3>2. /\ Append(used, 0) \in Seq(0 .. MaxReuses + 1)
          /\ Len(Append(used, 0)) = Len(used) + 1
          /\ \A j \in 1 .. Len(used) : Append(used, 0)[j] = used[j]
          /\ Append(used, 0)[Len(used) + 1] = 0
      BY <3>1, <1>6, AppendAt
    <3> QED
      BY <3>2, <2>1, <1>2
  <2>6. stack' \in Seq(1 .. n + 1)
    <3>1. 1 .. n \subseteq 1 .. n + 1 /\ n + 1 \in 1 .. n + 1
      BY <1>1
    <3>2. below \in Seq(1 .. n + 1)
      BY <3>1, SeqMonotonic DEF n
    <3> QED
      BY <3>1, <3>2, <2>1, AppendAt
  <2>7. \A j \in 1 .. n + 1 : j \in 1 .. n \/ j = n + 1
    BY <1>1
  <2>8. TypeOK'
    <3>1. \A j \in 1 .. n : invs'[j].index <= Len(type')
      BY <2>4, <1>0, <1>9 DEF TypeOK, n
    <3>2. invs'[n + 1].index <= Len(type')
      BY <2>3, <2>4, <1>9
    <3>3. \A j \in 1 .. Len(invs') : invs'[j].index <= Len(type')
      BY <2>4, <2>7, <3>1, <3>2
    <3>4. type' \in Programs /\ reuses' \in 0 .. MaxReuses /\ done' \in Seq(Callbacks)
      BY <1>4, <1>9, <1>10, <2>1
    <3>5. stack' \in Seq(1 .. Len(invs')) /\ Len(uses') = Len(invs')
      BY <2>4, <2>5, <2>6
    <3> QED
      BY <2>4, <2>5, <3>3, <3>4, <3>5 DEF TypeOK
  <2>9. UsesCounted'
    <3>1. 0 <= reuses' + 1
      BY <1>4
    <3> QED
      BY <3>1, <1>5, <2>5, <2>7 DEF UsesCounted
  <2>10. Unused' = (Unused \ {i}) \cup {n + 1} /\ n + 1 \notin Unused \ {i}
    <3>1. /\ Unused' = {j \in 1 .. n + 1 : uses'[j] = 0}
          /\ Unused = {j \in 1 .. n : uses[j] = 0}
      BY <1>1, <2>5 DEF Unused
    <3>2. \A j \in 1 .. n : uses'[j] = 0 <=> uses[j] = 0 /\ j # i
      BY <1>2, <1>3, <2>5
    <3>3. 1 .. n + 1 = (1 .. n) \cup {n + 1} /\ n + 1 \notin 1 .. n
      BY <1>1
    <3>4. uses'[n + 1] = 0
      BY <2>5
    <3> QED
      BY <3>1, <3>2, <3>3, <3>4
  <2>11. Cardinality(Unused') = Cardinality(Unused \ {i}) + 1
    BY <2>10, <1>8, FS_AddElement
  <2>12. Conserved'
    BY <1>0, <1>4, <1>7, <1>8, <1>10, <2>1, <2>11 DEF Conserved, C
  <2>13. CalledBackAtEnd'
    BY <1>0, <1>9, <2>1 DEF CalledBackAtEnd, Wanted
  <2> QED
    BY <2>8, <2>9, <2>12, <2>13 DEF IInv
<1> QED
  BY <1>11, <1>12

LEMMA InitIInv == Init => IInv
<1> SUFFICES ASSUME Init PROVE IInv
  OBVIOUS
<1>1. TypeOK
  BY SolutionAssumption DEF Init, TypeOK, Invocations, Solutions
<1>2. Unused = {1}
  BY DEF Init, Unused
<1>3. Conserved
  <2>1. Cardinality(Unused) = 1
    BY <1>2, FS_Singleton
  <2>2. Len(done) = 0 /\ reuses = 0
    BY DEF Init
  <2> QED
    BY <2>1, <2>2 DEF Conserved
<1> QED
  BY <1>1, <1>3 DEF Init, IInv, UsesCounted, CalledBackAtEnd

LEMMA NextIInv == IInv /\ [Next]_vars => IInv'
<1> SUFFICES ASSUME IInv, [Next]_vars PROVE IInv'
  OBVIOUS
<1>1. TypeOK /\ Len(stack) \in Nat /\ stack \in Seq(1 .. Len(invs))
  BY DEF IInv, TypeOK
<1>2. ASSUME stack # <<>>
      PROVE  Top \in 1 .. Len(invs) /\ Below \in Seq(1 .. Len(invs))
  <2>1. Len(stack) \in 1 .. Len(stack)
    BY <1>1, <1>2
  <2> QED
    BY <1>1, <2>1, SubSeqProperties, ElementOfSeq DEF Top, Below
<1>3. ASSUME NEW error \in Errors \cup {None}, CallNext(error) PROVE IInv'
  BY <1>1, <1>2, <1>3, UseInvariant DEF CallNext
<1>4. ASSUME NEW error \in Errors, Throw(error) PROVE IInv'
  <2>1. Handed(Top, error) \in Errors \cup {None}
    <3>1. invs[Top] \in Invocations
      BY <1>1, <1>2, <1>4, ElementOfSeq DEF Throw, TypeOK
    <3> QED
      BY <3>1 DEF Handed, Invocations
  <2> QED
    BY <1>1, <1>2, <1>4, <2>1, UseInvariant DEF Throw
<1>5. CASE Return
  BY <1>1, <1>2, <1>5
  DEF Return, IInv, TypeOK, UsesCounted, Conserved, CalledBackAtEnd, Unused, Wanted
<1>6. ASSUME NEW i \in 1 .. Len(invs), NEW error \in Errors \cup {None}, CallLater(i, error)
      PROVE  IInv'
  <2>1. <<>> \in Seq(1 .. Len(invs))
    OBVIOUS
  <2> QED
    BY <1>6, <2>1, UseInvariant DEF CallLater
<1>7. CASE UNCHANGED vars
  BY <1>7 DEF vars, IInv, TypeOK, UsesCounted, Conserved, CalledBackAtEnd, Unused, Wanted
<1> QED
  BY <1>3, <1>4, <1>5, <1>6, <1>7 DEF Next, Later

THEOREM Invariance == Spec => []IInv
BY InitIInv, NextIInv, PTL DEF Spec

\* Every variable keeps its type, for any set of solutions.
THEOREM TypeCorrect == Spec => []TypeOK
<1>1. IInv => TypeOK
  BY DEF IInv
<1> QED BY <1>1, Invariance, PTL

\* Every call of a next is accounted for: it leads to one more invocation or
\* to one call of the callback (core.js:92 and 96), for every solution.
THEOREM NothingLost == Spec => []Conserved
<1>1. IInv => Conserved
  BY DEF IInv
<1> QED
  BY <1>1, Invariance, PTL

\* The callback is called only when nothing after the last function takes what
\* its next was given (core.js:87 and 92), for every solution.
THEOREM EndsAtEnd == Spec => []CalledBackAtEnd
<1>1. IInv => CalledBackAtEnd
  BY DEF IInv
<1> QED
  BY <1>1, Invariance, PTL

\* A catch that throws passes on the Error it was given, not its own: the
\* function or the callback that follows gets the first (core.js:96), for
\* every solution and every set of Errors.
THEOREM KeepsFirstError == Spec => FirstErrorKept
<1> DEFINE Kept == \A error \in Errors : Throw(error) /\ invs[Top].error # None =>
                     \/ done' = Append(done, [from |-> invs[Top].index, error |-> invs[Top].error])
                     \/ Len(invs') > Len(invs) /\ invs'[Len(invs')].error = invs[Top].error
<1>1. IInv /\ [Next]_vars => [Kept]_vars
  <2> SUFFICES ASSUME IInv,
                      NEW error \in Errors, Throw(error), invs[Top].error # None
               PROVE  \/ done' = Append(done, [from |-> invs[Top].index, error |-> invs[Top].error])
                      \/ Len(invs') > Len(invs) /\ invs'[Len(invs')].error = invs[Top].error
    OBVIOUS
  <2> DEFINE first == invs[Top].error
             found == Candidates(invs[Top].index, first)
             new == [index |-> First(found), error |-> first]
  <2>1. Use(Top, first, Below)
    BY DEF Throw, Handed
  <2>2. CASE found = {}
    BY <2>1, <2>2 DEF Use, CallBack
  <2>3. CASE found # {}
    <3>1. invs' = Append(invs, new)
      BY <2>1, <2>3 DEF Use
    <3>2. invs \in Seq(Invocations)
      BY DEF IInv, TypeOK
    <3>3. Len(invs) \in Nat /\ Len(invs') = Len(invs) + 1 /\ invs'[Len(invs) + 1] = new
      BY <3>1, <3>2
    <3> QED
      BY <3>3
  <2> QED
    BY <2>2, <2>3
<1> QED
  BY <1>1, Invariance, PTL DEF Spec, FirstErrorKept
=============================================================================
