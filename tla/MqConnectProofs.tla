---------------------------- MODULE MqConnectProofs ----------------------------
(***************************************************************************)
(* Proofs about MqConnect for any models, methods and calls: its types,    *)
(* that no loss of a resource forgets a call or leaves one unwatched, and  *)
(* that no call takes the events of the process before something is lost.  *)
(***************************************************************************)
EXTENDS MqConnect, FiniteSetTheorems, SequenceTheorems, WellFoundedInduction, TLAPS

-----------------------------------------------------------------------------
(* Finite sets and sequences.                                              *)

\* The values of a function with a finite domain are finitely many.
LEMMA FiniteValues ==
  ASSUME NEW S, IsFiniteSet(S), NEW f, DOMAIN f = S, f = [x \in S |-> f[x]]
  PROVE  IsFiniteSet({f[x] : x \in S})
<1> DEFINE T == {f[x] : x \in S}
<1>1. f \in Surjection(S, T)
  BY DEF Surjection
<1> QED BY <1>1, FS_Surjection

LEMMA ToSetFinite ==
  ASSUME NEW S, NEW s \in Seq(S)
  PROVE  IsFiniteSet(ToSet(s)) /\ ToSet(s) \subseteq S
<1>1. Len(s) \in Nat /\ s \in [1 .. Len(s) -> S] /\ DOMAIN s = 1 .. Len(s)
  BY LenProperties
<1>2. IsFiniteSet(1 .. Len(s))
  BY <1>1, FS_Interval
<1> QED BY <1>1, <1>2, FiniteValues DEF ToSet

LEMMA ToSetConcat ==
  ASSUME NEW S, NEW s \in Seq(S), NEW t \in Seq(S)
  PROVE  s \o t \in Seq(S) /\ ToSet(s \o t) = ToSet(s) \cup ToSet(t)
<1>1. /\ s \o t \in Seq(S) /\ Len(s \o t) = Len(s) + Len(t)
      /\ \A i \in 1 .. Len(s) + Len(t) : (s \o t)[i] = IF i <= Len(s) THEN s[i] ELSE t[i - Len(s)]
  BY ConcatProperties
<1>2. /\ DOMAIN s = 1 .. Len(s) /\ DOMAIN t = 1 .. Len(t) /\ DOMAIN (s \o t) = 1 .. Len(s) + Len(t)
      /\ Len(s) \in Nat /\ Len(t) \in Nat
  BY <1>1, LenProperties
<1>3. \A i \in DOMAIN (s \o t) : (s \o t)[i] \in ToSet(s) \cup ToSet(t)
  BY <1>1, <1>2 DEF ToSet
<1>4. \A i \in DOMAIN s : s[i] \in ToSet(s \o t)
  BY <1>1, <1>2 DEF ToSet
<1>5. \A i \in DOMAIN t : t[i] \in ToSet(s \o t)
  <2> SUFFICES ASSUME NEW i \in DOMAIN t PROVE t[i] \in ToSet(s \o t)
    OBVIOUS
  <2>1. Len(s) + i \in DOMAIN (s \o t) /\ (s \o t)[Len(s) + i] = t[i]
    BY <1>1, <1>2
  <2> QED BY <2>1 DEF ToSet
<1> QED BY <1>1, <1>3, <1>4, <1>5 DEF ToSet

LEMMA ToSetAppend ==
  ASSUME NEW S, NEW s \in Seq(S), NEW e \in S
  PROVE  Append(s, e) \in Seq(S) /\ Append(s, e) # <<>> /\ ToSet(Append(s, e)) = ToSet(s) \cup {e}
<1>1. /\ Append(s, e) \in Seq(S) /\ Append(s, e) # <<>> /\ Len(Append(s, e)) = Len(s) + 1
      /\ \A i \in 1 .. Len(s) : Append(s, e)[i] = s[i]
      /\ Append(s, e)[Len(s) + 1] = e
  BY AppendProperties
<1>2. /\ DOMAIN s = 1 .. Len(s) /\ DOMAIN Append(s, e) = 1 .. Len(s) + 1 /\ Len(s) \in Nat
  BY <1>1, LenProperties
<1> QED BY <1>1, <1>2 DEF ToSet

LEMMA ToSetHeadTail ==
  ASSUME NEW S, NEW s \in Seq(S), s # <<>>
  PROVE  Head(s) \in S /\ Tail(s) \in Seq(S) /\ ToSet(s) = {Head(s)} \cup ToSet(Tail(s))
<1>1. /\ Head(s) \in S /\ Tail(s) \in Seq(S) /\ Len(Tail(s)) = Len(s) - 1
      /\ \A i \in 1 .. Len(Tail(s)) : Tail(s)[i] = s[i + 1]
  BY HeadTailProperties
<1>2. /\ DOMAIN s = 1 .. Len(s) /\ DOMAIN Tail(s) = 1 .. Len(s) - 1 /\ Len(s) \in Nat \ {0}
      /\ Head(s) = s[1]
  BY <1>1, LenProperties, EmptySeq
<1>3. \A i \in DOMAIN s : i = 1 \/ (i - 1 \in DOMAIN Tail(s) /\ Tail(s)[i - 1] = s[i])
  BY <1>1, <1>2
<1>4. \A i \in DOMAIN Tail(s) : i + 1 \in DOMAIN s /\ Tail(s)[i] = s[i + 1]
  BY <1>1, <1>2
<1>5. \A i \in DOMAIN s : s[i] \in {Head(s)} \cup ToSet(Tail(s))
  BY <1>2, <1>3 DEF ToSet
<1>6. 1 \in DOMAIN s
  BY <1>2
<1>7. Head(s) \in ToSet(s)
  BY <1>2, <1>6 DEF ToSet
<1>8. \A i \in DOMAIN Tail(s) : Tail(s)[i] \in ToSet(s)
  BY <1>4 DEF ToSet
<1> QED BY <1>1, <1>5, <1>7, <1>8 DEF ToSet

-----------------------------------------------------------------------------
(* What a walk passes.                                                     *)

LEMMA WiderSeq ==
  ASSUME NEW S, NEW T, S \subseteq T, NEW s \in Seq(S)
  PROVE  s \in Seq(T)
<1>1. Len(s) \in Nat /\ s \in [1 .. Len(s) -> S]
  BY LenProperties
<1>2. s \in [1 .. Len(s) -> T]
  BY <1>1
<1> QED BY <1>1, <1>2, SeqDef

\* The keys of exchange x that a walk with options o passes.
Parts(x, o) ==
  {Channel(x), <<"ex", x, None>>, <<"q", x, Queue(x, o)>>} \cup
  IF Routed(x, o) THEN {<<"route", x, Topic(x, o)>>, Listener(x)} ELSE {}

LEMMA StopsFacts ==
  ASSUME NEW x, NEW o
  PROVE  Stops(x, o) \in Seq(Parts(x, o)) /\ ToSet(Stops(x, o)) = Parts(x, o)
<1> DEFINE a == Channel(x)
           b == <<"ex", x, None>>
           c == <<"q", x, Queue(x, o)>>
           d == <<"route", x, Topic(x, o)>>
           l == Listener(x)
           S == {a, b, c, d, l}
<1>4. Stops(x, o) = <<a, b, c>> \o (IF Routed(x, o) THEN <<d, l>> ELSE <<>>)
  BY DEF Stops
<1>5. Parts(x, o) = {a, b, c} \cup IF Routed(x, o) THEN {d, l} ELSE {}
  BY DEF Parts
<1> HIDE DEF a, b, c, d, l
<1>2. ToSet(<<a, b, c>>) = {a, b, c}
  BY DEF ToSet
<1>3. ToSet(<<d, l>>) = {d, l}
  BY DEF ToSet
<1>6. CASE Routed(x, o)
  <2>1. Parts(x, o) = {a, b, c, d, l} /\ Stops(x, o) = <<a, b, c>> \o <<d, l>>
    BY <1>4, <1>5, <1>6
  <2>2. <<a, b, c>> \in Seq(Parts(x, o)) /\ <<d, l>> \in Seq(Parts(x, o))
    <3>1. PICK P : P = Parts(x, o)
      OBVIOUS
    <3>2. a \in P /\ b \in P /\ c \in P /\ d \in P /\ l \in P
      BY <2>1, <3>1
    <3>3. <<a, b, c>> \in Seq(P)
      BY <3>2
    <3>4. <<d, l>> \in Seq(P)
      BY <3>2
    <3> QED BY <3>1, <3>3, <3>4
  <2>3. /\ <<a, b, c>> \o <<d, l>> \in Seq(Parts(x, o))
        /\ ToSet(<<a, b, c>> \o <<d, l>>) = ToSet(<<a, b, c>>) \cup ToSet(<<d, l>>)
    <3>1. PICK s, t, P : s = <<a, b, c>> /\ t = <<d, l>> /\ P = Parts(x, o)
      OBVIOUS
    <3>2. s \in Seq(P) /\ t \in Seq(P)
      BY <2>2, <3>1
    <3>3. s \o t \in Seq(P) /\ ToSet(s \o t) = ToSet(s) \cup ToSet(t)
      BY <3>2, ToSetConcat
    <3> QED BY <3>1, <3>3
  <2>4. {a, b, c} \cup {d, l} = {a, b, c, d, l}
    OBVIOUS
  <2> QED BY <1>2, <1>3, <2>1, <2>3, <2>4, Zenon
<1>7. CASE ~ Routed(x, o)
  <2>1. Parts(x, o) = {a, b, c} /\ Stops(x, o) = <<a, b, c>> \o <<>>
    BY <1>4, <1>5, <1>7
  <2>2. <<a, b, c>> \in Seq(Parts(x, o))
    BY <2>1
  <2>3. Stops(x, o) = <<a, b, c>>
    BY <2>1, <2>2, ConcatEmptySeq
  <2> QED BY <1>2, <2>1, <2>2, <2>3
<1> QED BY <1>6, <1>7

PathParts(o) ==
  {Conn} \cup Parts("event_results", o) \cup Parts("event_notifications", o)
         \cup Parts("events", o)

LEMMA PathFacts ==
  ASSUME NEW o \in Options
  PROVE  Path[o] \in Seq(PathParts(o)) /\ ToSet(Path[o]) = PathParts(o)
<1>1. Path[o] = <<Conn>> \o Stops("event_results", o) \o Stops("event_notifications", o)
                         \o Stops("events", o)
  BY DEF Path, Exchanges
<1>2. ASSUME NEW x \in {"event_results", "event_notifications", "events"}
      PROVE  Stops(x, o) \in Seq(PathParts(o)) /\ ToSet(Stops(x, o)) = Parts(x, o)
  <2>1. Parts(x, o) \subseteq PathParts(o)
    BY DEF PathParts
  <2> QED BY <2>1, StopsFacts, WiderSeq
<1>3. <<Conn>> \in Seq(PathParts(o)) /\ ToSet(<<Conn>>) = {Conn}
  <2>1. Conn \in PathParts(o)
    BY DEF PathParts
  <2>2. <<Conn>> \in Seq(PathParts(o))
    BY <2>1
  <2>3. ToSet(<<Conn>>) = {Conn}
    BY DEF ToSet
  <2> QED BY <2>2, <2>3
<1>4. PICK p, s, t, u : /\ p = <<Conn>> /\ s = Stops("event_results", o)
                        /\ t = Stops("event_notifications", o) /\ u = Stops("events", o)
  OBVIOUS
<1>5. /\ p \in Seq(PathParts(o)) /\ ToSet(p) = {Conn}
      /\ s \in Seq(PathParts(o)) /\ ToSet(s) = Parts("event_results", o)
      /\ t \in Seq(PathParts(o)) /\ ToSet(t) = Parts("event_notifications", o)
      /\ u \in Seq(PathParts(o)) /\ ToSet(u) = Parts("events", o)
  BY <1>2, <1>3, <1>4
<1>6. PICK q, r : q = p \o s /\ r = q \o t
  OBVIOUS
<1>7. q \in Seq(PathParts(o)) /\ ToSet(q) = ToSet(p) \cup ToSet(s)
  BY <1>5, <1>6, ToSetConcat
<1>8. r \in Seq(PathParts(o)) /\ ToSet(r) = ToSet(q) \cup ToSet(t)
  <2>1. q \in Seq(PathParts(o)) /\ t \in Seq(PathParts(o)) /\ r = q \o t
    BY <1>5, <1>6, <1>7
  <2> QED BY <2>1, ToSetConcat
<1>9. r \o u \in Seq(PathParts(o)) /\ ToSet(r \o u) = ToSet(r) \cup ToSet(u)
  BY <1>5, <1>8, ToSetConcat
<1>10. Path[o] = r \o u
  BY <1>1, <1>4, <1>6, Zenon
<1>11. ToSet(r \o u) = PathParts(o)
  BY <1>5, <1>7, <1>8, <1>9 DEF PathParts
<1> QED BY <1>9, <1>10, <1>11, Zenon

LEMMA ExchangeNames == ToSet(Exchanges) = {"event_results", "event_notifications", "events"}
BY DEF ToSet, Exchanges

LEMMA KeysFacts ==
  /\ \A o \in Options : ToSet(Path[o]) \subseteq Keys
  /\ \A k \in Keys : \E o \in Options : k \in PathParts(o)
  /\ IsFiniteSet(Keys)
<1>1. \A o \in Options : ToSet(Path[o]) \subseteq Keys
  BY DEF Keys
<1>2. \A k \in Keys : \E o \in Options : k \in PathParts(o)
  BY PathFacts DEF Keys
<1>3. IsFiniteSet(Options)
  BY ConnectAssumption, ToSetFinite, FS_Union DEF Options
<1>4. IsFiniteSet(Keys)
  <2> DEFINE f == [o \in Options |-> ToSet(Path[o])]
  <2>1. IsFiniteSet({f[o] : o \in Options})
    BY <1>3, FiniteValues
  <2>2. \A T \in {f[o] : o \in Options} : IsFiniteSet(T)
    BY PathFacts, ToSetFinite
  <2>3. Keys = UNION {f[o] : o \in Options}
    BY DEF Keys
  <2> QED BY <2>1, <2>2, <2>3, FS_UNION
<1> QED BY <1>1, <1>2, <1>4

\* The connection and the channels, which every walk passes.
LEMMA ResourcesFacts ==
  /\ Resources = {Conn} \cup {Channel(x) : x \in ToSet(Exchanges)}
  /\ \A o \in Options : Resources \subseteq ToSet(Path[o])
  /\ \A o \in Options : Listener("event_results") \in ToSet(Path[o])
  /\ Listener("event_results") \notin Resources
<1> DEFINE R == {Conn} \cup {Channel(x) : x \in ToSet(Exchanges)}
<1>1. \A o \in Options : R \subseteq PathParts(o)
  BY ExchangeNames DEF PathParts, Parts
<1>2. \A o \in Options : R \subseteq Keys
  BY <1>1, KeysFacts, PathFacts
<1>3. R \subseteq Keys
  BY <1>2, ConnectAssumption
<1>4. \A k \in R : k[1] \in {"conn", "ch"}
  BY DEF Conn, Channel
<1>5. ASSUME NEW k \in Keys, k[1] \in {"conn", "ch"} PROVE k \in R
  <2>1. PICK o \in Options : k \in PathParts(o)
    BY KeysFacts
  <2>2. ASSUME NEW x \in ToSet(Exchanges), k \in Parts(x, o) PROVE k \in R
    BY <1>5, <2>2 DEF Parts, Channel, Listener
  <2> QED BY <2>1, <2>2, ExchangeNames DEF PathParts
<1>6. Resources = R
  BY <1>3, <1>4, <1>5 DEF Resources
<1>7. \A o \in Options : Listener("event_results") \in PathParts(o)
  BY DEF PathParts, Parts, Routed
<1>8. Listener("event_results") \notin Resources
  BY DEF Resources, Listener
<1> QED BY <1>1, <1>6, <1>7, <1>8, PathFacts

-----------------------------------------------------------------------------
(* Where a walk stops, and how often one is rejected.                      *)

LEMMA LeastOf ==
  ASSUME NEW S, S \subseteq Nat, S # {}
  PROVE  \E k \in S : \A m \in S : k <= m
<1> DEFINE R == {p \in Nat \X Nat : p[1] < p[2]}
<1>1. IsWellFoundedOn(R, Nat)
  BY NatLessThanWellFounded DEF OpToRel
<1>2. PICK k \in S : \A m \in S : ~ (<<m, k>> \in R)
  BY <1>1, WFMin
<1>3. ASSUME NEW m \in S PROVE k <= m
  <2>1. k \in Nat /\ m \in Nat
    OBVIOUS
  <2>2. m < k => <<m, k>> \in R
    BY <2>1
  <2> QED BY <1>2, <2>1, <2>2
<1> QED BY <1>3

LEMMA StopFacts ==
  ASSUME NEW o \in Options
  PROVE  /\ ~ Arrived(o) => Path[o][Stop(o)] \in Keys /\ cell[Path[o][Stop(o)]] # "ready"
         /\ Arrived(o) => \A k \in ToSet(Path[o]) : cell[k] = "ready" /\ k \in Passed(o)
         /\ Stop(o) \in 1 .. Len(Path[o]) + 1
         /\ \A n \in 1 .. Stop(o) - 1 : cell[Path[o][n]] = "ready"
<1> DEFINE L == Len(Path[o])
           Here(n) == n <= L => cell[Path[o][n]] # "ready"
           Ok(n) == Here(n) /\ \A m \in 1 .. n - 1 : cell[Path[o][m]] = "ready"
<1>1. L \in Nat /\ DOMAIN Path[o] = 1 .. L
  BY PathFacts, LenProperties
<1>2. \E n \in 1 .. L + 1 : Ok(n)
  <2> DEFINE S == {n \in 1 .. L + 1 : Here(n)}
  <2>1. L + 1 \in S /\ S \subseteq Nat
    BY <1>1
  <2>2. PICK n \in S : \A m \in S : n <= m
    BY <2>1, LeastOf
  <2>3. ASSUME NEW m \in 1 .. n - 1 PROVE cell[Path[o][m]] = "ready"
    <3>1. m \in 1 .. L + 1 /\ m <= L /\ ~ (n <= m)
      BY <1>1, <2>2
    <3>2. m \notin S
      BY <2>2, <3>1
    <3> QED BY <3>1, <3>2
  <2> QED BY <2>2, <2>3
<1>3. Stop(o) = CHOOSE n \in 1 .. L + 1 : Ok(n)
  BY DEF Stop
<1>4. Stop(o) \in 1 .. L + 1 /\ Ok(Stop(o))
  BY <1>2, <1>3
<1>5. ASSUME ~ Arrived(o)
      PROVE  Path[o][Stop(o)] \in Keys /\ cell[Path[o][Stop(o)]] # "ready"
  <2>1. Stop(o) \in DOMAIN Path[o] /\ Stop(o) <= L
    BY <1>1, <1>4, <1>5 DEF Arrived
  <2> QED BY <1>4, <2>1, KeysFacts DEF ToSet
<1>6. ASSUME Arrived(o), NEW k \in ToSet(Path[o]) PROVE cell[k] = "ready" /\ k \in Passed(o)
  <2>1. PICK n \in 1 .. L : Path[o][n] = k
    BY <1>1 DEF ToSet
  <2>2. n \in 1 .. Stop(o) - 1
    BY <1>1, <1>4, <1>6 DEF Arrived
  <2> QED BY <1>4, <2>1, <2>2 DEF Passed
<1> QED BY <1>4, <1>5, <1>6

\* Who waits for a key that is gone gets a timer.
LEMMA RejectedFacts ==
  ASSUME TypeOK, NEW K \in SUBSET Keys, NEW o \in Options
  PROVE  /\ Rejected(K, o) \in Nat
         /\ (\E k \in K : o \in ToSet(waiting[k])) => Rejected(K, o) > 0
<1> DEFINE P(k) == {n \in 1 .. Len(waiting[k]) : waiting[k][n] = o}
           g == [k \in K |-> {k} \X P(k)]
           W == UNION {g[k] : k \in K}
<1>1. \A k \in K : waiting[k] \in Seq(Options)
  BY DEF TypeOK
<1>2. IsFiniteSet(K)
  BY KeysFacts, FS_Subset
<1>3. ASSUME NEW k \in K PROVE IsFiniteSet(g[k])
  <2>1. Len(waiting[k]) \in Nat
    BY <1>1, LenProperties
  <2>2. IsFiniteSet(1 .. Len(waiting[k])) /\ P(k) \subseteq 1 .. Len(waiting[k])
    BY <2>1, FS_Interval
  <2> HIDE DEF P
  <2>3. IsFiniteSet(P(k)) /\ IsFiniteSet({k})
    BY <2>2, FS_Subset, FS_Singleton
  <2>4. IsFiniteSet({k} \X P(k))
    BY <2>3, FS_Product
  <2> QED BY <2>4
<1>4. IsFiniteSet({g[k] : k \in K})
  <2>1. DOMAIN g = K /\ g = [k \in K |-> g[k]]
    OBVIOUS
  <2> HIDE DEF g
  <2> QED BY <1>2, <2>1, FiniteValues
<1>5. IsFiniteSet(W)
  BY <1>3, <1>4, FS_UNION
<1>6. Rejected(K, o) = Cardinality(W)
  <2>1. Rejected(K, o) = Cardinality(UNION {{k} \X P(k) : k \in K})
    BY DEF Rejected
  <2>2. \A k \in K : g[k] = {k} \X P(k)
    OBVIOUS
  <2> HIDE DEF g, P
  <2>3. {g[k] : k \in K} = {{k} \X P(k) : k \in K}
    BY <2>2
  <2> QED BY <2>1, <2>3
<1>7. ASSUME NEW k \in K, o \in ToSet(waiting[k]) PROVE W # {}
  <2>1. PICK n \in 1 .. Len(waiting[k]) : waiting[k][n] = o
    BY <1>1, <1>7, LenProperties DEF ToSet
  <2>2. <<k, n>> \in g[k]
    BY <2>1
  <2> QED BY <2>2
<1> HIDE DEF W
<1>8. Cardinality(W) \in Nat /\ (W # {} => Cardinality(W) # 0)
  BY <1>5, FS_CardinalityType, FS_EmptySet
<1> QED BY <1>6, <1>7, <1>8

-----------------------------------------------------------------------------
(* The inductive invariant.                                                *)

\* What is asked for is awaited.
AskedAgree == \A k \in Keys : cell[k] = "asked" => waiting[k] # <<>>

\* A channel was asked for what is its own.
RpcsAgree == \A x \in ToSet(Exchanges) : rpcs[x] \in Seq(KeysOf(x))

\* A listener for results consumes the results of the process.
ResultsAgree ==
  cell[Listener("event_results")] = "ready" => consumes["event_results"] = Own

IInv ==
  TypeOK /\ AskedAgree /\ RpcsAgree /\ ResultsAgree /\ CallsKeepWalking /\ WatchedOrWalking

\* The walk of options o waits at key k.
LEMMA AwaitFacts ==
  ASSUME TypeOK, AskedAgree, RpcsAgree, ResultsAgree, NEW o \in Options, NEW k \in Keys,
         cell[k] # "ready", Await(k, o)
  PROVE  /\ cell' \in [Keys -> {"null", "asked", "ready"}]
         /\ waiting' \in [Keys -> Seq(Options)] /\ rpcs' \in [ToSet(Exchanges) -> Seq(Keys)]
         /\ \A j \in Keys \ {k} : cell'[j] = cell[j] /\ waiting'[j] = waiting[j]
         /\ cell'[k] = "asked" /\ waiting'[k] # <<>>
         /\ ToSet(waiting'[k]) = ToSet(waiting[k]) \cup {o}
         /\ AskedAgree' /\ RpcsAgree' /\ ResultsAgree'
<1>1. /\ cell \in [Keys -> {"null", "asked", "ready"}] /\ waiting \in [Keys -> Seq(Options)]
      /\ rpcs \in [ToSet(Exchanges) -> Seq(Keys)]
  BY DEF TypeOK
<1>2. /\ cell' = [cell EXCEPT ![k] = "asked"]
      /\ waiting' = [waiting EXCEPT ![k] = Append(@, o)]
      /\ consumes' = consumes
      /\ rpcs' = rpcs \/ rpcs' = [rpcs EXCEPT ![k[2]] = Append(@, k)]
  BY DEF Await, Join
<1>3. /\ Append(waiting[k], o) \in Seq(Options) /\ Append(waiting[k], o) # <<>>
      /\ ToSet(Append(waiting[k], o)) = ToSet(waiting[k]) \cup {o}
  BY <1>1, ToSetAppend
<1>4. /\ cell' \in [Keys -> {"null", "asked", "ready"}] /\ waiting' \in [Keys -> Seq(Options)]
      /\ \A j \in Keys \ {k} : cell'[j] = cell[j] /\ waiting'[j] = waiting[j]
      /\ cell'[k] = "asked" /\ waiting'[k] = Append(waiting[k], o)
  BY <1>1, <1>2, <1>3
<1>5. AskedAgree'
  BY <1>3, <1>4 DEF AskedAgree
<1>6. RpcsAgree' /\ rpcs' \in [ToSet(Exchanges) -> Seq(Keys)]
  <2>1. CASE rpcs' = rpcs
    BY <1>1, <2>1 DEF RpcsAgree
  <2>2. CASE rpcs' = [rpcs EXCEPT ![k[2]] = Append(@, k)] /\ k[2] \in ToSet(Exchanges)
    <3>1. k \in KeysOf(k[2])
      BY DEF KeysOf
    <3>2. Append(rpcs[k[2]], k) \in Seq(KeysOf(k[2])) /\ Append(rpcs[k[2]], k) \in Seq(Keys)
      BY <1>1, <2>2, <3>1, ToSetAppend DEF RpcsAgree
    <3>3. /\ rpcs'[k[2]] = Append(rpcs[k[2]], k)
          /\ \A x \in ToSet(Exchanges) \ {k[2]} : rpcs'[x] = rpcs[x]
          /\ rpcs' \in [ToSet(Exchanges) -> Seq(Keys)]
      BY <1>1, <2>2, <3>2
    <3> QED BY <3>2, <3>3 DEF RpcsAgree
  <2>3. CASE rpcs' = [rpcs EXCEPT ![k[2]] = Append(@, k)] /\ k[2] \notin ToSet(Exchanges)
    <3>1. rpcs' = rpcs
      BY <1>1, <2>3
    <3> QED BY <1>1, <3>1 DEF RpcsAgree
  <2> QED BY <1>2, <2>1, <2>2, <2>3
<1>7. ResultsAgree'
  <2>1. Listener("event_results") \in Keys
    BY ConnectAssumption, ResourcesFacts, KeysFacts
  <2> QED BY <1>2, <1>4, <2>1 DEF ResultsAgree
<1> QED BY <1>3, <1>4, <1>5, <1>6, <1>7

\* What a walk that does not arrive does to the rest.
LEMMA ListenFacts ==
  ASSUME TypeOK, NEW o \in Options, Listen(o)
  PROVE  /\ closer' \in [Resources -> Options \cup {None}]
         /\ \A k \in Resources : closer[k] # None => closer'[k] # None
         /\ \A k \in Resources \cap Passed(o) : closer'[k] # None
BY ConnectAssumption DEF TypeOK, Listen

LEMMA WalkInv ==
  ASSUME IInv, Walk
  PROVE  IInv'
<1>0. PICK o : o = Head(running)
  OBVIOUS
<1>1. /\ running \in Seq(Options) /\ running # <<>> /\ running' = Tail(running)
      /\ Listen(o) /\ UNCHANGED <<delays, called, faults>>
  BY <1>0 DEF IInv, TypeOK, Walk
<1>2. o \in Options /\ Tail(running) \in Seq(Options) /\ ToSet(running) = {o} \cup ToSet(Tail(running))
  BY <1>0, <1>1, ToSetHeadTail
<1>3. /\ closer' \in [Resources -> Options \cup {None}]
      /\ \A k \in Resources : closer[k] # None => closer'[k] # None
      /\ \A k \in Resources \cap Passed(o) : closer'[k] # None
  BY <1>1, <1>2, ListenFacts DEF IInv
<1>4. CASE Arrived(o)
  <2>1. handlers' = {} /\ UNCHANGED <<cell, waiting, rpcs, consumes>>
    BY <1>0, <1>4 DEF Walk
  <2>2. TypeOK'
    BY <1>1, <1>2, <1>3, <2>1 DEF IInv, TypeOK
  <2>3. \A k \in Resources : closer'[k] # None
    BY <1>2, <1>3, <1>4, ResourcesFacts, StopFacts
  <2>4. AskedAgree' /\ RpcsAgree' /\ ResultsAgree'
    BY <2>1 DEF IInv, AskedAgree, RpcsAgree, ResultsAgree
  <2> QED BY <2>1, <2>2, <2>3, <2>4 DEF IInv, CallsKeepWalking, WatchedOrWalking
<1>5. CASE ~ Arrived(o)
  <2>0. PICK k : k = Path[o][Stop(o)]
    OBVIOUS
  <2>1. k \in Keys /\ cell[k] # "ready" /\ Await(k, o) /\ UNCHANGED <<consumes, handlers>>
    BY <1>0, <1>2, <1>5, <2>0, StopFacts DEF Walk, Await
  <2>2. /\ cell' \in [Keys -> {"null", "asked", "ready"}]
        /\ waiting' \in [Keys -> Seq(Options)] /\ rpcs' \in [ToSet(Exchanges) -> Seq(Keys)]
        /\ \A j \in Keys \ {k} : cell'[j] = cell[j] /\ waiting'[j] = waiting[j]
        /\ cell'[k] = "asked" /\ waiting'[k] # <<>>
        /\ ToSet(waiting'[k]) = ToSet(waiting[k]) \cup {o}
        /\ AskedAgree' /\ RpcsAgree' /\ ResultsAgree'
    BY <1>2, <2>1, AwaitFacts DEF IInv
  <2>3. TypeOK'
    BY <1>1, <1>2, <1>3, <2>1, <2>2 DEF IInv, TypeOK
  <2>4. \A d \in Options : d = o \/ Walking(d) => Walking(d)'
    BY <1>1, <1>2, <2>1, <2>2 DEF Walking
  <2>5. Walking(o)'
    BY <1>2, <2>4
  <2>6. CallsKeepWalking'
    BY <2>1, <2>4 DEF IInv, CallsKeepWalking, TypeOK, Options
  <2> QED BY <1>2, <2>2, <2>3, <2>5, <2>6 DEF IInv, WatchedOrWalking
<1> QED BY <1>4, <1>5

LEMMA OneWalk ==
  ASSUME NEW o \in Options
  PROVE  <<o>> \in Seq(Options) /\ ToSet(<<o>>) = {o} /\ ToSet(<<>>) = {}
BY DEF ToSet

\* A turn that a call or a timer begins.
LEMMA BeginInv ==
  ASSUME IInv, NEW o \in Options, Call(o) \/ Timer(o)
  PROVE  IInv'
<1>1. /\ running = <<>> /\ running' = <<o>> /\ UNCHANGED <<cell, waiting, rpcs, closer, consumes>>
      /\ UNCHANGED faults
  BY DEF Call, Timer, links
<1>2. ToSet(running) = {} /\ running' \in Seq(Options) /\ ToSet(running') = {o}
  BY <1>1, OneWalk
<1>3. \A d \in Options : delays'[d] >= delays[d] \/ d = o
  BY DEF Call, Timer, IInv, TypeOK
<1>4. \A d \in Options : d = o \/ Walking(d) => Walking(d)'
  <2> SUFFICES ASSUME NEW d \in Options, d = o \/ Walking(d) PROVE Walking(d)'
    OBVIOUS
  <2>1. d # o => delays[d] \in Nat /\ delays'[d] = delays[d]
    BY DEF Call, Timer, IInv, TypeOK
  <2> QED BY <1>1, <1>2, <2>1 DEF Walking
<1>5. handlers' \subseteq handlers \cup {o} /\ handlers \subseteq Options
  BY DEF Call, Timer, IInv, TypeOK, Options
<1>6. CallsKeepWalking'
  BY <1>4, <1>5 DEF IInv, CallsKeepWalking
<1>7. WatchedOrWalking'
  BY <1>1, <1>4 DEF IInv, WatchedOrWalking
<1>8. TypeOK'
  BY <1>1, <1>2 DEF IInv, TypeOK, Call, Timer
<1> QED BY <1>1, <1>6, <1>7, <1>8 DEF IInv, AskedAgree, RpcsAgree, ResultsAgree

LEMMA AnswerInv ==
  ASSUME IInv, NEW k \in Keys, Answer(k)
  PROVE  IInv'
<1>1. /\ running = <<>> /\ ToSet(running) = {} /\ running' = waiting[k] /\ cell[k] = "asked"
      /\ cell' = [cell EXCEPT ![k] = "ready"] /\ waiting' = [waiting EXCEPT ![k] = <<>>]
      /\ UNCHANGED <<closer, delays, called, handlers, faults>>
  BY DEF Answer, ToSet
<1>2. /\ cell \in [Keys -> {"null", "asked", "ready"}] /\ waiting \in [Keys -> Seq(Options)]
      /\ consumes \in [ToSet(Exchanges) -> Models \cup {None}]
      /\ rpcs \in [ToSet(Exchanges) -> Seq(Keys)]
  BY DEF IInv, TypeOK
<1>3. waiting[k] \in Seq(Options) /\ waiting[k] # <<>>
  BY <1>1, <1>2 DEF IInv, AskedAgree
<1>4. Head(waiting[k]) \in Options /\ Head(waiting[k]) \in ToSet(running')
  BY <1>1, <1>3, ToSetHeadTail
<1>5. cell' \in [Keys -> {"null", "asked", "ready"}] /\ waiting' \in [Keys -> Seq(Options)]
  BY <1>1, <1>2
<1>6. /\ consumes' \in [ToSet(Exchanges) -> Models \cup {None}]
      /\ consumes'["event_results"] # consumes["event_results"] =>
           consumes'["event_results"] = Own
      /\ k = Listener("event_results") => consumes'["event_results"] = Own
  <2>1. \A x : Queue(x, Head(waiting[k])) \in Models /\ Queue("event_results", Head(waiting[k])) = Own
    BY <1>4, ConnectAssumption DEF Queue
  <2>2. consumes' = IF k[1] = "listener"
                    THEN [consumes EXCEPT ![k[2]] = Queue(k[2], Head(waiting[k]))] ELSE consumes
    BY DEF Answer
  <2>3. k = Listener("event_results") => k[1] = "listener" /\ k[2] = "event_results"
    BY DEF Listener
  <2>4. "event_results" \in ToSet(Exchanges)
    BY ExchangeNames
  <2> QED BY <1>2, <2>1, <2>2, <2>3, <2>4
<1>7. ResultsAgree'
  <2>1. Listener("event_results") \in Keys
    BY ConnectAssumption, ResourcesFacts, KeysFacts
  <2> QED BY <1>1, <1>2, <1>6, <2>1 DEF IInv, ResultsAgree
<1>8. RpcsAgree' /\ rpcs' \in [ToSet(Exchanges) -> Seq(Keys)]
  <2>1. CASE rpcs' = rpcs
    BY <1>2, <2>1 DEF IInv, RpcsAgree
  <2>2. CASE k \in Heads /\ rpcs' = [rpcs EXCEPT ![k[2]] = Tail(@)]
    <3>1. PICK x \in ToSet(Exchanges) : rpcs[x] # <<>> /\ k = Head(rpcs[x])
      BY <2>2 DEF Heads
    <3>2. k \in KeysOf(x) /\ Tail(rpcs[x]) \in Seq(KeysOf(x)) /\ Tail(rpcs[x]) \in Seq(Keys)
      BY <1>2, <3>1, ToSetHeadTail DEF IInv, RpcsAgree
    <3>3. k[2] = x
      BY <3>2 DEF KeysOf
    <3>4. /\ rpcs'[x] = Tail(rpcs[x])
          /\ \A y \in ToSet(Exchanges) \ {x} : rpcs'[y] = rpcs[y]
          /\ rpcs' \in [ToSet(Exchanges) -> Seq(Keys)]
      BY <1>2, <2>2, <3>2, <3>3
    <3> QED BY <3>2, <3>4 DEF IInv, RpcsAgree
  <2> QED BY <2>1, <2>2 DEF Answer
<1>9. AskedAgree'
  BY <1>1, <1>2 DEF IInv, AskedAgree
<1>10. \A d \in Options : Walking(d) => Walking(d)'
  <2> SUFFICES ASSUME NEW d \in Options, Walking(d) PROVE Walking(d)'
    OBVIOUS
  <2>1. CASE delays[d] > 0
    BY <1>1, <2>1 DEF Walking
  <2>2. ASSUME NEW j \in Keys, cell[j] = "asked", d \in ToSet(waiting[j]) PROVE Walking(d)'
    <3>1. CASE j = k
      BY <1>1, <2>2, <3>1 DEF Walking
    <3>2. CASE j # k
      BY <1>1, <1>2, <2>2, <3>2 DEF Walking
    <3> QED BY <3>1, <3>2
  <2> QED BY <1>1, <2>1, <2>2 DEF Walking
<1>11. CallsKeepWalking'
  BY <1>1, <1>10 DEF IInv, CallsKeepWalking, TypeOK, Options
<1>12. WatchedOrWalking'
  BY <1>4 DEF WatchedOrWalking, Walking
<1>13. TypeOK'
  BY <1>1, <1>3, <1>5, <1>6, <1>8 DEF IInv, TypeOK
<1> QED BY <1>7, <1>8, <1>9, <1>11, <1>12, <1>13 DEF IInv

-----------------------------------------------------------------------------
(* What is lost.                                                           *)

\* Who walks still walks when keys are gone.
LEMMA DropFacts ==
  ASSUME TypeOK, AskedAgree, running = <<>>, NEW K \in SUBSET Keys,
         NEW late, Drop(K, late)
  PROVE  /\ cell' \in [Keys -> {"null", "asked", "ready"}]
         /\ waiting' \in [Keys -> Seq(Options)]
         /\ closer' \in [Resources -> Options \cup {None}]
         /\ delays' \in [Options -> Nat]
         /\ AskedAgree'
         /\ \A k \in Keys : cell'[k] = "ready" => cell[k] = "ready" /\ k \notin K
         /\ \A k \in Resources \ K : closer'[k] = closer[k]
         /\ \A o \in Options : Walking(o) => Walking(o)'
<1>1. /\ cell \in [Keys -> {"null", "asked", "ready"}] /\ waiting \in [Keys -> Seq(Options)]
      /\ closer \in [Resources -> Options \cup {None}] /\ delays \in [Options -> Nat]
  BY DEF TypeOK
<1>2. /\ cell' = [k \in Keys |-> IF k \in K THEN "null" ELSE cell[k]]
      /\ waiting' = [k \in Keys |-> IF k \in K THEN <<>> ELSE waiting[k]]
      /\ closer' = [k \in Resources |-> IF k \in K THEN None ELSE closer[k]]
  BY DEF Drop
<1>3. cell' \in [Keys -> {"null", "asked", "ready"}]
  BY <1>1, <1>2
<1>4. waiting' \in [Keys -> Seq(Options)]
  <2>1. <<>> \in Seq(Options)
    OBVIOUS
  <2> QED BY <1>1, <1>2, <2>1
<1>5. closer' \in [Resources -> Options \cup {None}]
  BY <1>1, <1>2
<1>6. ASSUME NEW o \in Options
      PROVE  /\ delays'[o] \in Nat /\ delays'[o] >= delays[o]
             /\ (\E k \in K : o \in ToSet(waiting[k])) => delays'[o] > 0
  <2>1. delays'[o] = delays[o] + Rejected(K, o) + IF o = late THEN 1 ELSE 0
    BY DEF Drop
  <2>2. /\ Rejected(K, o) \in Nat
        /\ (\E k \in K : o \in ToSet(waiting[k])) => Rejected(K, o) > 0
    BY RejectedFacts
  <2> QED BY <1>1, <2>1, <2>2
<1>7. delays' \in [Options -> Nat]
  <2>1. delays' = [o \in Options |-> delays'[o]]
    BY DEF Drop
  <2> QED BY <1>6, <2>1
<1>8. \A k \in Keys : cell'[k] = "ready" => cell[k] = "ready" /\ k \notin K
  BY <1>2
<1>9. AskedAgree'
  BY <1>2 DEF AskedAgree
<1>10. ASSUME NEW o \in Options, Walking(o) PROVE Walking(o)'
  <2>1. o \notin ToSet(running)
    BY DEF ToSet
  <2>2. CASE delays[o] > 0
    <3>1. delays'[o] > 0
      BY <1>1, <1>6, <2>2
    <3> QED BY <3>1 DEF Walking
  <2>3. ASSUME NEW k \in Keys, cell[k] = "asked", o \in ToSet(waiting[k]) PROVE Walking(o)'
    <3>1. CASE k \in K
      BY <1>6, <2>3, <3>1 DEF Walking
    <3>2. CASE k \notin K
      BY <1>2, <2>3, <3>2 DEF Walking
    <3> QED BY <3>1, <3>2
  <2> QED BY <1>10, <2>1, <2>2, <2>3 DEF Walking
<1> QED BY <1>2, <1>3, <1>4, <1>5, <1>7, <1>8, <1>9, <1>10

LEMMA DroppedInv ==
  ASSUME IInv, Fault, NEW K \in SUBSET Keys, NEW late, Drop(K, late), running' \in Seq(Options),
         rpcs' \in [ToSet(Exchanges) -> Seq(Keys)], RpcsAgree',
         consumes' \in [ToSet(Exchanges) -> Models \cup {None}], ResultsAgree',
         UNCHANGED <<called, handlers>>
  PROVE  IInv'
<1>1. running = <<>> /\ faults' \in 0 .. MaxFaults
  BY ConnectAssumption DEF Fault, IInv, TypeOK
<1>2. /\ cell' \in [Keys -> {"null", "asked", "ready"}]
      /\ waiting' \in [Keys -> Seq(Options)]
      /\ closer' \in [Resources -> Options \cup {None}]
      /\ delays' \in [Options -> Nat]
      /\ AskedAgree'
      /\ \A k \in Keys : cell'[k] = "ready" => cell[k] = "ready" /\ k \notin K
      /\ \A k \in Resources \ K : closer'[k] = closer[k]
      /\ \A o \in Options : Walking(o) => Walking(o)'
  BY <1>1, DropFacts DEF IInv
<1>3. TypeOK'
  BY <1>1, <1>2 DEF IInv, TypeOK
<1>4. CallsKeepWalking'
  BY <1>2 DEF IInv, CallsKeepWalking, TypeOK, Options
<1>5. WatchedOrWalking'
  BY <1>2 DEF IInv, WatchedOrWalking, Resources
<1> QED BY <1>2, <1>3, <1>4, <1>5 DEF IInv

LEMMA LossInv ==
  ASSUME IInv, Refuse \/ LoseConnection \/ \E x \in ToSet(Exchanges) : LoseChannel(x)
  PROVE  IInv'
<1>1. /\ rpcs \in [ToSet(Exchanges) -> Seq(Keys)] /\ running \in Seq(Options)
      /\ consumes \in [ToSet(Exchanges) -> Models \cup {None}]
      /\ closer \in [Resources -> Options \cup {None}]
  BY DEF IInv, TypeOK
<1>2. Conn \in Resources /\ Resources \subseteq Keys /\ Listener("event_results") \in Keys
      /\ \A x \in ToSet(Exchanges) : Channel(x) \in Resources
  BY ConnectAssumption, ResourcesFacts, KeysFacts DEF Resources
<1>3. \A x \in ToSet(Exchanges) : <<>> \in Seq(KeysOf(x)) /\ <<>> \in Seq(Keys)
  OBVIOUS
<1>4. CASE Refuse
  <2>1. /\ Fault /\ Drop({Conn}, None) /\ UNCHANGED <<rpcs, consumes, running, called, handlers>>
        /\ {Conn} \in SUBSET Keys
    BY <1>2, <1>4 DEF Refuse
  <2>2. cell'[Listener("event_results")] = "ready" => cell[Listener("event_results")] = "ready"
    BY <1>2, <2>1 DEF Drop
  <2>3. ResultsAgree' /\ RpcsAgree'
    BY <2>1, <2>2 DEF IInv, ResultsAgree, RpcsAgree
  <2> QED BY <1>1, <2>1, <2>3, DroppedInv
<1>5. ASSUME NEW x \in ToSet(Exchanges), LoseChannel(x) PROVE IInv'
  <2>1. /\ Fault /\ Drop(KeysOf(x), None) /\ UNCHANGED <<called, handlers>>
        /\ rpcs' = [rpcs EXCEPT ![x] = <<>>] /\ consumes' = [consumes EXCEPT ![x] = None]
        /\ running' = <<closer[Channel(x)]>> /\ closer[Channel(x)] # None
        /\ KeysOf(x) \in SUBSET Keys
    BY <1>5 DEF LoseChannel, KeysOf
  <2>2. running' \in Seq(Options)
    BY <1>1, <1>2, <2>1
  <2>3. rpcs' \in [ToSet(Exchanges) -> Seq(Keys)] /\ RpcsAgree'
    BY <1>1, <1>3, <2>1 DEF IInv, RpcsAgree
  <2>4. consumes' \in [ToSet(Exchanges) -> Models \cup {None}]
    BY <1>1, <2>1
  <2>5. ResultsAgree'
    <3>1. CASE x = "event_results"
      <4>1. Listener("event_results") \in KeysOf(x)
        BY <1>2, <3>1 DEF KeysOf, Listener
      <4> QED BY <1>2, <2>1, <4>1 DEF Drop, ResultsAgree
    <3>2. CASE x # "event_results"
      <4>1. cell'[Listener("event_results")] = "ready" => cell[Listener("event_results")] = "ready"
        BY <1>2, <2>1 DEF Drop
      <4>2. consumes'["event_results"] = consumes["event_results"]
        BY <1>1, <2>1, <3>2, ExchangeNames
      <4> QED BY <4>1, <4>2 DEF IInv, ResultsAgree
    <3> QED BY <3>1, <3>2
  <2> QED BY <2>1, <2>2, <2>3, <2>4, <2>5, DroppedInv
<1>6. CASE LoseConnection
  <2>1. /\ Fault /\ Drop(Keys, closer[Conn]) /\ UNCHANGED <<called, handlers>>
        /\ rpcs' = [x \in ToSet(Exchanges) |-> <<>>]
        /\ consumes' = [x \in ToSet(Exchanges) |-> None]
        /\ running' = Restarted("event_results") \o Restarted("event_notifications")
                                                 \o Restarted("events")
    BY <1>6 DEF LoseConnection, Exchanges
  <2>2. \A x \in ToSet(Exchanges) : Restarted(x) \in Seq(Options)
    <3> SUFFICES ASSUME NEW x \in ToSet(Exchanges) PROVE Restarted(x) \in Seq(Options)
      OBVIOUS
    <3>1. closer[Channel(x)] \in Options \cup {None}
      BY <1>1, <1>2
    <3> QED BY <3>1 DEF Restarted
  <2>3. running' \in Seq(Options)
    <3>1. PICK q : q = Restarted("event_results") \o Restarted("event_notifications")
      OBVIOUS
    <3>2. q \in Seq(Options)
      BY <2>2, <3>1, ExchangeNames, ToSetConcat
    <3>3. q \o Restarted("events") \in Seq(Options)
      BY <2>2, <3>2, ExchangeNames, ToSetConcat
    <3> QED BY <2>1, <3>1, <3>3, Zenon
  <2>4. rpcs' \in [ToSet(Exchanges) -> Seq(Keys)] /\ RpcsAgree'
    BY <1>3, <2>1 DEF RpcsAgree
  <2>5. consumes' \in [ToSet(Exchanges) -> Models \cup {None}]
    BY <2>1
  <2>6. ResultsAgree'
    BY <1>2, <2>1 DEF Drop, ResultsAgree
  <2> QED BY <2>1, <2>3, <2>4, <2>5, <2>6, DroppedInv
<1> QED BY <1>4, <1>5, <1>6

-----------------------------------------------------------------------------
(* The theorems.                                                           *)

LEMMA InitIInv == Init => IInv
<1> SUFFICES ASSUME Init PROVE IInv
  OBVIOUS
<1>1. TypeOK
  <2>1. <<>> \in Seq(Options) /\ <<>> \in Seq(Keys)
    OBVIOUS
  <2> QED BY <2>1, ConnectAssumption DEF Init, TypeOK
<1>2. \A x \in ToSet(Exchanges) : <<>> \in Seq(KeysOf(x))
  OBVIOUS
<1>3. RpcsAgree
  BY <1>2 DEF Init, RpcsAgree
<1>4. Listener("event_results") \in Keys
  BY ConnectAssumption, ResourcesFacts, KeysFacts
<1>5. AskedAgree /\ ResultsAgree
  BY <1>4 DEF Init, AskedAgree, ResultsAgree
<1>6. CallsKeepWalking
  BY DEF Init, CallsKeepWalking
<1>7. WatchedOrWalking
  BY DEF Init, WatchedOrWalking, Resources
<1> QED BY <1>1, <1>3, <1>5, <1>6, <1>7 DEF IInv

LEMMA NextIInv == IInv /\ [Next]_vars => IInv'
<1> SUFFICES ASSUME IInv, [Next]_vars PROVE IInv'
  OBVIOUS
<1>1. ASSUME UNCHANGED vars PROVE IInv'
  BY <1>1 DEF vars, links, IInv, TypeOK, AskedAgree, RpcsAgree, ResultsAgree, CallsKeepWalking,
     WatchedOrWalking, Walking
<1> QED BY <1>1, WalkInv, BeginInv, AnswerInv, LossInv DEF Next

\* The inductive invariant holds in every reachable state.
THEOREM Invariance == Spec => []IInv
<1>1. Init => IInv
  BY InitIInv
<1>2. IInv /\ [Next]_vars => IInv'
  BY NextIInv
<1> QED BY <1>1, <1>2, PTL DEF Spec

\* Every variable keeps its type, for any models, methods and faults.
THEOREM TypeCorrect == Spec => []TypeOK
<1>1. IInv => TypeOK
  BY DEF IInv
<1> QED BY <1>1, Invariance, PTL

\* No refusal and no loss of a resource forgets a call that awaits the connection, for
\* any number of calls and faults (statefulCache.js:10, mq.js:243).
THEOREM CallsKept == Spec => []CallsKeepWalking
<1>1. IInv => CallsKeepWalking
  BY DEF IInv
<1> QED BY <1>1, Invariance, PTL

\* No resource is left that nobody listens to or is about to pass (mq.js:250 and 259).
THEOREM ResourcesWatched == Spec => []WatchedOrWalking
<1>1. IInv => WatchedOrWalking
  BY DEF IInv
<1> QED BY <1>1, Invariance, PTL

\* What was passed by a walk that arrives.
LEMMA SentStep ==
  ASSUME IInv, [Next]_vars, handlers' = {}, handlers # {}
  PROVE  /\ consumes["event_results"] = Own
         /\ \A k \in {Conn, Channel("event_results"), Channel("events")} :
              cell[k] = "ready" /\ closer'[k] # None
<1>1. Walk /\ Arrived(Head(running))
  <2>1. ASSUME NEW o \in Options, Call(o) PROVE FALSE
    BY <2>1 DEF Call
  <2>2. ASSUME NEW o \in Options, Timer(o) PROVE FALSE
    BY <2>2 DEF Timer
  <2>3. ASSUME NEW k \in Keys, Answer(k) PROVE FALSE
    BY <2>3 DEF Answer
  <2>4. ASSUME Refuse \/ LoseConnection \/ \E x \in ToSet(Exchanges) : LoseChannel(x) PROVE FALSE
    BY <2>4 DEF Refuse, LoseConnection, LoseChannel
  <2>5. ASSUME UNCHANGED vars PROVE FALSE
    BY <2>5 DEF vars
  <2>6. ASSUME Walk, ~ Arrived(Head(running)) PROVE FALSE
    BY <2>6 DEF Walk, Await
  <2> QED BY <2>1, <2>2, <2>3, <2>4, <2>5, <2>6 DEF Next
<1>2. PICK o : o = Head(running)
  OBVIOUS
<1>3. o \in Options /\ Arrived(o) /\ Listen(o)
  BY <1>1, <1>2, ToSetHeadTail DEF Walk, IInv, TypeOK
<1>4. \A k \in ToSet(Path[o]) : cell[k] = "ready" /\ k \in Passed(o)
  BY <1>3, StopFacts
<1>5. consumes["event_results"] = Own
  BY <1>3, <1>4, ResourcesFacts DEF IInv, ResultsAgree
<1>6. {Conn, Channel("event_results"), Channel("events")} \subseteq Resources
  BY ResourcesFacts, ExchangeNames
<1>7. \A k \in Resources : cell[k] = "ready" /\ closer'[k] # None
  BY <1>3, <1>4, ResourcesFacts, ListenFacts DEF IInv
<1> QED BY <1>5, <1>6, <1>7

\* A call goes out only when its result can come in, for any models, methods and faults
\* (mq.js:294).
THEOREM SentAnswerable == Spec => SentWhenAnswerable
<1> DEFINE Answerable ==
      /\ consumes["event_results"] = Own
      /\ \A k \in {Conn, Channel("event_results"), Channel("events")} :
           cell[k] = "ready" /\ closer'[k] # None
<1>1. IInv /\ [Next]_vars => [handlers' # {} \/ handlers = {} \/ Answerable]_vars
  BY SentStep
<1> QED BY <1>1, Invariance, PTL DEF Spec, SentWhenAnswerable

-----------------------------------------------------------------------------
(* Who is first in a sequence.                                             *)

\* Whatever of b is in s comes after an a.
First(s, a, b) == \A j \in DOMAIN s : s[j] = b => \E i \in DOMAIN s : i <= j /\ s[i] = a

LEMMA FirstHead ==
  ASSUME NEW S, NEW s \in Seq(S), s # <<>>, NEW a, NEW b, First(s, a, b), Head(s) = b
  PROVE  a = b
<1>1. Len(s) \in Nat \ {0} /\ DOMAIN s = 1 .. Len(s) /\ Head(s) = s[1]
  BY LenProperties, EmptySeq
<1>2. PICK i \in DOMAIN s : i <= 1 /\ s[i] = a
  BY <1>1 DEF First
<1> QED BY <1>1, <1>2

LEMMA FirstTail ==
  ASSUME NEW S, NEW s \in Seq(S), s # <<>>, NEW a, NEW b, First(s, a, b), Head(s) # a
  PROVE  First(Tail(s), a, b)
<1>1. /\ Tail(s) \in Seq(S) /\ Len(Tail(s)) = Len(s) - 1
      /\ \A i \in 1 .. Len(Tail(s)) : Tail(s)[i] = s[i + 1]
  BY HeadTailProperties
<1>2. /\ DOMAIN s = 1 .. Len(s) /\ DOMAIN Tail(s) = 1 .. Len(s) - 1 /\ Len(s) \in Nat \ {0}
      /\ s[1] # a
  BY <1>1, LenProperties, EmptySeq
<1>3. ASSUME NEW j \in DOMAIN Tail(s), Tail(s)[j] = b
      PROVE  \E i \in DOMAIN Tail(s) : i <= j /\ Tail(s)[i] = a
  <2>1. j + 1 \in DOMAIN s /\ s[j + 1] = b
    BY <1>1, <1>2, <1>3
  <2>2. PICK i \in DOMAIN s : i <= j + 1 /\ s[i] = a
    BY <2>1 DEF First
  <2>3. i - 1 \in DOMAIN Tail(s) /\ i - 1 <= j /\ Tail(s)[i - 1] = a
    BY <1>1, <1>2, <2>2
  <2> QED BY <2>3
<1> QED BY <1>3 DEF First

LEMMA FirstAppend ==
  ASSUME NEW S, NEW s \in Seq(S), NEW e \in S, NEW a, NEW b, First(s, a, b),
         e = b => a = b \/ a \in ToSet(s)
  PROVE  First(Append(s, e), a, b)
<1>1. /\ Append(s, e) \in Seq(S) /\ Len(Append(s, e)) = Len(s) + 1
      /\ \A i \in 1 .. Len(s) : Append(s, e)[i] = s[i]
      /\ Append(s, e)[Len(s) + 1] = e
  BY AppendProperties
<1>2. /\ DOMAIN s = 1 .. Len(s) /\ DOMAIN Append(s, e) = 1 .. Len(s) + 1 /\ Len(s) \in Nat
  BY <1>1, LenProperties
<1>3. ASSUME NEW j \in DOMAIN Append(s, e), Append(s, e)[j] = b
      PROVE  \E i \in DOMAIN Append(s, e) : i <= j /\ Append(s, e)[i] = a
  <2>1. CASE j \in DOMAIN s
    <3>1. PICK i \in DOMAIN s : i <= j /\ s[i] = a
      BY <1>1, <1>2, <1>3, <2>1 DEF First
    <3> QED BY <1>1, <1>2, <3>1
  <2>2. CASE j = Len(s) + 1
    <3>1. CASE a = b
      BY <1>2, <1>3, <3>1
    <3>2. CASE a \in ToSet(s)
      <4>1. PICK i \in DOMAIN s : s[i] = a
        BY <3>2 DEF ToSet
      <4> QED BY <1>1, <1>2, <2>2, <4>1
    <3> QED BY <1>1, <1>3, <2>2, <3>1, <3>2
  <2> QED BY <1>2, <2>1, <2>2
<1> QED BY <1>3 DEF First

-----------------------------------------------------------------------------
(* What every walk passes, in order.                                       *)

\* The path of options o without the listener for notifications.
Base(o) ==
  <<Conn, Channel("event_results"), <<"ex", "event_results", None>>,
    <<"q", "event_results", Own>>, <<"route", "event_results", None>>,
    Listener("event_results"), Channel("event_notifications"),
    <<"ex", "event_notifications", None>>, <<"q", "event_notifications", ModelOf[o]>>,
    Channel("events"), <<"ex", "events", None>>, <<"q", "events", ModelOf[o]>>,
    <<"route", "events", o>>, Listener("events")>>

\* Where the i-th of them is on the path.
Place(o, i) == IF i <= 9 \/ o \notin Notified THEN i ELSE i + 2

\* What depends on the options, and what does not.
LEMMA BaseNames ==
  ASSUME NEW o
  PROVE  /\ Base(o)[9] = <<"q", "event_notifications", ModelOf[o]>>
         /\ Base(o)[12] = <<"q", "events", ModelOf[o]>>
         /\ Base(o)[13] = <<"route", "events", o>>
BY DEF Base

LEMMA BaseShared ==
  ASSUME NEW o, NEW m, NEW i \in 1 .. 14, Base(o)[i] # Base(m)[i]
  PROVE  i = 9 \/ i = 12 \/ i = 13
BY DEF Base

LEMMA BaseOnce ==
  ASSUME NEW o, NEW m, NEW i \in 1 .. 14, NEW j \in 1 .. 14, Base(o)[i] = Base(m)[j]
  PROVE  i = j
BY DEF Base, Conn, Channel, Listener

LEMMA BaseOwn ==
  ASSUME NEW o, NEW i \in 1 .. 14
  PROVE  /\ Base(o)[i] # Listener("event_notifications")
         /\ \A d : Base(o)[i] # <<"route", "event_notifications", d>>
         /\ Base(o)[14] = Listener("events")
BY DEF Base, Conn, Channel, Listener

\* Two sequences, one after the other.
LEMMA ConcatFacts ==
  ASSUME NEW S, NEW s \in Seq(S), NEW t \in Seq(S)
  PROVE  /\ s \o t \in Seq(S) /\ Len(s \o t) = Len(s) + Len(t)
         /\ \A i \in 1 .. Len(s) : (s \o t)[i] = s[i]
         /\ \A i \in 1 .. Len(t) : (s \o t)[Len(s) + i] = t[i]
<1>1. /\ s \o t \in Seq(S) /\ Len(s \o t) = Len(s) + Len(t)
      /\ \A i \in 1 .. Len(s) + Len(t) : (s \o t)[i] = IF i <= Len(s) THEN s[i] ELSE t[i - Len(s)]
  BY ConcatProperties
<1>2. Len(s) \in Nat /\ Len(t) \in Nat
  BY LenProperties
<1>3. \A i \in 1 .. Len(t) : Len(s) + i \in 1 .. Len(s) + Len(t) /\ ~ (Len(s) + i <= Len(s))
                              /\ Len(s) + i - Len(s) = i
  BY <1>2
<1>4. \A i \in 1 .. Len(s) : i \in 1 .. Len(s) + Len(t)
  BY <1>2
<1> QED BY <1>1, <1>3, <1>4

\* The keys that a walk passes at exchange x, in order.
LEMMA StopsAre ==
  ASSUME NEW x, NEW o
  PROVE  LET s == Stops(x, o) IN
         /\ Len(s) = IF Routed(x, o) THEN 5 ELSE 3
         /\ s[1] = Channel(x) /\ s[2] = <<"ex", x, None>> /\ s[3] = <<"q", x, Queue(x, o)>>
         /\ Routed(x, o) => s[4] = <<"route", x, Topic(x, o)>> /\ s[5] = Listener(x)
<1> DEFINE a == Channel(x)
           b == <<"ex", x, None>>
           c == <<"q", x, Queue(x, o)>>
           d == <<"route", x, Topic(x, o)>>
           l == Listener(x)
           S == {a, b, c, d, l}
<1>1. Stops(x, o) = <<a, b, c>> \o (IF Routed(x, o) THEN <<d, l>> ELSE <<>>)
  BY DEF Stops
<1> HIDE DEF a, b, c, d, l
<1>2. PICK s, t : s = <<a, b, c>> /\ t = IF Routed(x, o) THEN <<d, l>> ELSE <<>>
  OBVIOUS
<1>3. s \in Seq(S) /\ t \in Seq(S) /\ Len(s) = 3 /\ Len(t) = IF Routed(x, o) THEN 2 ELSE 0
  <2>1. s \in Seq(S) /\ Len(s) = 3
    BY <1>2
  <2>2. CASE Routed(x, o)
    <3>1. t = <<d, l>>
      BY <1>2, <2>2
    <3> QED BY <2>1, <2>2, <3>1
  <2>3. CASE ~ Routed(x, o)
    <3>1. t = <<>>
      BY <1>2, <2>3
    <3> QED BY <2>1, <2>3, <3>1
  <2> QED BY <2>2, <2>3
<1> HIDE DEF S
<1>4. PICK w : w = s \o t
  OBVIOUS
<1>5. /\ Len(w) = Len(s) + Len(t)
      /\ \A i \in 1 .. Len(s) : w[i] = s[i]
      /\ \A i \in 1 .. Len(t) : w[Len(s) + i] = t[i]
  <2>1. s \in Seq(S) /\ t \in Seq(S)
    BY <1>3
  <2> QED BY <1>4, <2>1, ConcatFacts
<1>6. Len(w) = (IF Routed(x, o) THEN 5 ELSE 3) /\ w[1] = a /\ w[2] = b /\ w[3] = c
  BY <1>2, <1>3, <1>5
<1>7. ASSUME Routed(x, o) PROVE w[4] = d /\ w[5] = l
  <2>1. t = <<d, l>> /\ Len(s) = 3
    BY <1>2, <1>3, <1>7
  <2> QED BY <1>5, <2>1
<1>8. Stops(x, o) = w
  BY <1>1, <1>2, <1>4
<1> QED BY <1>6, <1>7, <1>8 DEF a, b, c, d, l

LEMMA PathBase ==
  ASSUME NEW o \in Options
  PROVE  /\ Len(Path[o]) = Place(o, 14)
         /\ \A i \in 1 .. 14 : Path[o][Place(o, i)] = Base(o)[i]
         /\ o \in Notified => /\ Path[o][10] = <<"route", "event_notifications", o>>
                               /\ Path[o][11] = Listener("event_notifications")
<1> DEFINE r == "event_results"
           n == "event_notifications"
           e == "events"
           P == PathParts(o)
<1>1. PICK p, s, t, u : p = <<Conn>> /\ s = Stops(r, o) /\ t = Stops(n, o) /\ u = Stops(e, o)
  OBVIOUS
<1>2. p \in Seq(P) /\ s \in Seq(P) /\ t \in Seq(P) /\ u \in Seq(P)
  <2>1. ASSUME NEW x \in {r, n, e} PROVE Stops(x, o) \in Seq(P)
    <3>1. Parts(x, o) \subseteq P
      BY DEF PathParts
    <3> QED BY <3>1, StopsFacts, WiderSeq
  <2>2. Conn \in P
    BY DEF PathParts
  <2> QED BY <1>1, <2>1, <2>2
<1>3. /\ Len(s) = 5 /\ s[1] = Channel(r) /\ s[2] = <<"ex", r, None>> /\ s[3] = <<"q", r, Own>>
      /\ s[4] = <<"route", r, None>> /\ s[5] = Listener(r)
  BY <1>1, StopsAre DEF Routed, Queue, Topic
<1>4. /\ Len(u) = 5 /\ u[1] = Channel(e) /\ u[2] = <<"ex", e, None>>
      /\ u[3] = <<"q", e, ModelOf[o]>> /\ u[4] = <<"route", e, o>> /\ u[5] = Listener(e)
  BY <1>1, StopsAre DEF Routed, Queue, Topic
<1>5. /\ Len(t) = IF o \in Notified THEN 5 ELSE 3
      /\ t[1] = Channel(n) /\ t[2] = <<"ex", n, None>> /\ t[3] = <<"q", n, ModelOf[o]>>
      /\ o \in Notified => t[4] = <<"route", n, o>> /\ t[5] = Listener(n)
  BY <1>1, StopsAre DEF Routed, Queue, Topic
<1>6. Path[o] = p \o s \o t \o u
  BY <1>1 DEF Path, Exchanges
<1>7. PICK q : q = p \o s
  OBVIOUS
<1>8. PICK v : v = q \o t
  OBVIOUS
<1>9. PICK w : w = v \o u
  OBVIOUS
<1>10. Path[o] = w
  BY <1>6, <1>7, <1>8, <1>9
<1>11. /\ q \in Seq(P) /\ Len(q) = Len(p) + Len(s)
       /\ \A i \in 1 .. Len(p) : q[i] = p[i]
       /\ \A i \in 1 .. Len(s) : q[Len(p) + i] = s[i]
  BY <1>2, <1>7, ConcatFacts
<1>12. /\ v \in Seq(P) /\ Len(v) = Len(q) + Len(t)
       /\ \A i \in 1 .. Len(q) : v[i] = q[i]
       /\ \A i \in 1 .. Len(t) : v[Len(q) + i] = t[i]
  <2>1. q \in Seq(P) /\ t \in Seq(P)
    BY <1>2, <1>11
  <2> HIDE DEF P
  <2> QED BY <1>8, <2>1, ConcatFacts
<1>13. /\ w \in Seq(P) /\ Len(w) = Len(v) + Len(u)
       /\ \A i \in 1 .. Len(v) : w[i] = v[i]
       /\ \A i \in 1 .. Len(u) : w[Len(v) + i] = u[i]
  <2>1. v \in Seq(P) /\ u \in Seq(P)
    BY <1>2, <1>12
  <2> HIDE DEF P
  <2> QED BY <1>9, <2>1, ConcatFacts
<1>14. Len(p) = 1 /\ p[1] = Conn /\ Len(s) = 5 /\ Len(u) = 5
  BY <1>1, <1>3, <1>4
<1>15. /\ Len(q) = 6 /\ q[1] = Conn
       /\ \A i \in 1 .. 5 : q[1 + i] = s[i]
  BY <1>11, <1>14
<1>16. /\ Len(v) = 6 + Len(t)
       /\ \A i \in 1 .. 6 : v[i] = q[i]
       /\ \A i \in 1 .. Len(t) : v[6 + i] = t[i]
  BY <1>12, <1>15
<1>17. \A i \in 1 .. 14 :
         Base(o)[i] = IF i = 1 THEN p[1] ELSE IF i <= 6 THEN s[i - 1]
                      ELSE IF i <= 9 THEN t[i - 6] ELSE u[i - 9]
  <2>1. /\ Base(o)[1] = p[1]
        /\ Base(o)[2] = s[1] /\ Base(o)[3] = s[2] /\ Base(o)[4] = s[3]
        /\ Base(o)[5] = s[4] /\ Base(o)[6] = s[5]
        /\ Base(o)[7] = t[1] /\ Base(o)[8] = t[2] /\ Base(o)[9] = t[3]
    BY <1>3, <1>5, <1>14 DEF Base
  <2>2. /\ Base(o)[10] = u[1] /\ Base(o)[11] = u[2] /\ Base(o)[12] = u[3]
        /\ Base(o)[13] = u[4] /\ Base(o)[14] = u[5]
    BY <1>4 DEF Base
  <2> QED BY <2>1, <2>2
<1>18. CASE o \in Notified
  <2>1. Len(t) = 5 /\ t[4] = <<"route", n, o>> /\ t[5] = Listener(n)
    BY <1>5, <1>18
  <2>2. Len(v) = 11 /\ v[10] = t[4] /\ v[11] = t[5]
    BY <1>16, <2>1
  <2>3. Len(w) = 16 /\ w[10] = t[4] /\ w[11] = t[5] /\ \A i \in 1 .. 5 : w[11 + i] = u[i]
    BY <1>13, <1>14, <2>2
  <2>4. ASSUME NEW i \in 1 .. 14 PROVE w[Place(o, i)] = Base(o)[i]
    <3>1. CASE i = 1
      BY <1>13, <1>15, <1>16, <1>17, <2>1, <2>2, <3>1, <1>14 DEF Place
    <3>2. CASE i \in 2 .. 6
      <4>1. Base(o)[i] = s[i - 1] /\ i - 1 \in 1 .. 5 /\ 1 + (i - 1) = i /\ Place(o, i) = i
        BY <1>17, <3>2 DEF Place
      <4>2. w[i] = v[i] /\ v[i] = q[i]
        BY <1>13, <1>16, <2>2, <3>2
      <4> QED BY <1>15, <4>1, <4>2
    <3>3. CASE i \in 7 .. 9
      <4>1. Base(o)[i] = t[i - 6] /\ i - 6 \in 1 .. 5 /\ 6 + (i - 6) = i /\ Place(o, i) = i
        BY <1>17, <3>3 DEF Place
      <4>2. w[i] = v[i]
        BY <1>13, <2>2, <3>3
      <4> QED BY <1>16, <2>1, <4>1, <4>2
    <3>4. CASE i \in 10 .. 14
      <4>1. Base(o)[i] = u[i - 9] /\ i - 9 \in 1 .. 5 /\ 11 + (i - 9) = i + 2 /\ Place(o, i) = i + 2
        BY <1>17, <1>18, <3>4 DEF Place
      <4> QED BY <2>3, <4>1
    <3> QED BY <3>1, <3>2, <3>3, <3>4
  <2>5. Place(o, 14) = 16
    BY <1>18 DEF Place
  <2> QED BY <1>10, <2>1, <2>3, <2>4, <2>5
<1>19. CASE o \notin Notified
  <2>1. Len(t) = 3
    BY <1>5, <1>19
  <2>2. Len(v) = 9
    BY <1>16, <2>1
  <2>3. Len(w) = 14 /\ \A i \in 1 .. 5 : w[9 + i] = u[i]
    BY <1>13, <1>14, <2>2
  <2>4. ASSUME NEW i \in 1 .. 14 PROVE w[i] = Base(o)[i]
    <3>1. CASE i = 1
      BY <1>13, <1>15, <1>16, <1>17, <2>1, <2>2, <3>1, <1>14
    <3>2. CASE i \in 2 .. 6
      <4>1. Base(o)[i] = s[i - 1] /\ i - 1 \in 1 .. 5 /\ 1 + (i - 1) = i
        BY <1>17, <3>2
      <4>2. w[i] = v[i] /\ v[i] = q[i]
        BY <1>13, <1>16, <2>2, <3>2
      <4> QED BY <1>15, <4>1, <4>2
    <3>3. CASE i \in 7 .. 9
      <4>1. Base(o)[i] = t[i - 6] /\ i - 6 \in 1 .. 3 /\ 6 + (i - 6) = i
        BY <1>17, <3>3
      <4>2. w[i] = v[i]
        BY <1>13, <2>2, <3>3
      <4> QED BY <1>16, <2>1, <4>1, <4>2
    <3>4. CASE i \in 10 .. 14
      <4>1. Base(o)[i] = u[i - 9] /\ i - 9 \in 1 .. 5 /\ 9 + (i - 9) = i
        BY <1>17, <3>4
      <4> QED BY <2>3, <4>1
    <3> QED BY <3>1, <3>2, <3>3, <3>4
  <2>5. \A i \in 1 .. 14 : Place(o, i) = i
    BY <1>19 DEF Place
  <2> QED BY <1>10, <1>19, <2>3, <2>4, <2>5
<1> QED BY <1>18, <1>19

\* Where a walk that does not arrive stops: at the i-th of what every walk passes, or
\* at what only the options with a notifName have.
LEMMA StopBase ==
  ASSUME NEW o \in Options, ~ Arrived(o)
  PROVE  \/ \E i \in 1 .. 14 : /\ Path[o][Stop(o)] = Base(o)[i]
                             /\ \A j \in 1 .. i - 1 : cell[Base(o)[j]] = "ready"
         \/ /\ o \in Notified
            /\ \/ Path[o][Stop(o)] = <<"route", "event_notifications", o>>
               \/ Path[o][Stop(o)] = Listener("event_notifications")
<1>1. /\ Stop(o) \in 1 .. Len(Path[o]) + 1
      /\ \A n \in 1 .. Stop(o) - 1 : cell[Path[o][n]] = "ready"
  BY StopFacts
<1>2. Stop(o) \in 1 .. Place(o, 14)
  <2>1. Len(Path[o]) = Place(o, 14) /\ Place(o, 14) \in Nat
    BY PathBase DEF Place
  <2> QED BY <1>1, <2>1 DEF Arrived
<1>3. CASE \E i \in 1 .. 14 : Stop(o) = Place(o, i)
  <2>1. PICK i \in 1 .. 14 : Stop(o) = Place(o, i)
    BY <1>3
  <2>2. Path[o][Stop(o)] = Base(o)[i]
    BY <2>1, PathBase
  <2>3. ASSUME NEW j \in 1 .. i - 1 PROVE cell[Base(o)[j]] = "ready"
    <3>1. j \in 1 .. 14 /\ Place(o, j) \in 1 .. Stop(o) - 1
      BY <2>1 DEF Place
    <3>2. Path[o][Place(o, j)] = Base(o)[j]
      BY <3>1, PathBase
    <3> QED BY <1>1, <3>1, <3>2
  <2> QED BY <2>2, <2>3
<1>4. CASE ~ \E i \in 1 .. 14 : Stop(o) = Place(o, i)
  <2>1. o \in Notified /\ Stop(o) \in 10 .. 11
    <3>1. \A i \in 1 .. 14 : Stop(o) # Place(o, i)
      BY <1>4
    <3>2. CASE o \notin Notified
      BY <1>2, <3>1, <3>2 DEF Place
    <3>3. CASE o \in Notified
      <4>1. Stop(o) \in 1 .. 16
        BY <1>2, <3>3 DEF Place
      <4>2. ~ (Stop(o) <= 9)
        BY <3>1, <4>1 DEF Place
      <4>3. ~ (Stop(o) >= 12)
        <5> SUFFICES ASSUME Stop(o) >= 12 PROVE FALSE
          OBVIOUS
        <5>1. Stop(o) - 2 \in 10 .. 14 /\ Stop(o) = (Stop(o) - 2) + 2
          BY <4>1
        <5>2. Place(o, Stop(o) - 2) = Stop(o)
          BY <3>3, <5>1 DEF Place
        <5> QED BY <3>1, <5>1, <5>2
      <4> QED BY <3>3, <4>1, <4>2, <4>3
    <3> QED BY <3>2, <3>3
  <2>2. /\ Path[o][10] = <<"route", "event_notifications", o>>
        /\ Path[o][11] = Listener("event_notifications")
    BY <2>1, PathBase
  <2>3. Stop(o) = 10 \/ Stop(o) = 11
    BY <2>1
  <2> QED BY <2>1, <2>2, <2>3
<1> QED BY <1>3, <1>4

-----------------------------------------------------------------------------
(* The options of a method of the process are ahead of every call.         *)

\* A key a was asked for before b.
Ahead(a, b) ==
  a = b \/ cell[a] = "ready" \/ (cell[b] # "ready" /\ First(rpcs[b[2]], a, b))

\* The walk of options m, which have no notifName, waits or has arrived.
Settled(m) ==
  \E n \in 1 .. 15 :
    /\ \A i \in 1 .. n - 1 : cell[Base(m)[i]] = "ready"
    /\ n <= 14 => cell[Base(m)[n]] = "asked" /\ m \in ToSet(waiting[Base(m)[n]])

Leads(m) == Settled(m) \/ (m \in ToSet(running) /\ \A o \in Outbound : First(running, m, o))

\* What is asked of a channel is in line.
InLine == \A k \in Keys \ Resources : cell[k] = "asked" => k \in ToSet(rpcs[k[2]])

KeysAhead(m) == \A o \in Outbound, i \in 1 .. 14 : Ahead(Base(m)[i], Base(o)[i])

WaitsAhead(m) == \A o \in Outbound, i \in 1 .. 14 : First(waiting[Base(m)[i]], m, o)

Untroubled(m) ==
  /\ \A o \in Options : delays[o] = 0
  /\ InLine /\ KeysAhead(m) /\ WaitsAhead(m) /\ Leads(m) /\ OwnEvents

LEMMA Hosted ==
  ASSUME NEW m \in ToSet(Inbound)
  PROVE  m \in Options /\ ModelOf[m] = Own /\ \A o \in Outbound : m # o
<1>1. PICK n \in DOMAIN Inbound : m = Inbound[n]
  BY DEF ToSet
<1>2. n \in 1 .. Len(Inbound)
  BY <1>1, ConnectAssumption, LenProperties
<1> QED BY <1>1, <1>2, ConnectAssumption DEF Options

\* What every walk passes are keys; those that differ are asked of the same channel.
LEMMA BaseKeys ==
  ASSUME NEW o \in Options, NEW m \in Options, NEW i \in 1 .. 14
  PROVE  /\ Base(o)[i] \in Keys /\ Base(o)[i][2] = Base(m)[i][2]
         /\ Base(o)[i] # Base(m)[i] =>
              /\ Base(o)[i] \notin Resources /\ Base(m)[i] \notin Resources
              /\ Base(o)[i][2] \in ToSet(Exchanges)
<1>1. Base(o)[i] \in Keys
  <2>1. Path[o][Place(o, i)] = Base(o)[i] /\ Len(Path[o]) = Place(o, 14)
    BY PathBase
  <2>2. Place(o, i) \in 1 .. Place(o, 14)
    BY DEF Place
  <2>3. DOMAIN Path[o] = 1 .. Len(Path[o])
    BY PathFacts, LenProperties
  <2>4. Base(o)[i] \in ToSet(Path[o])
    BY <2>1, <2>2, <2>3 DEF ToSet
  <2> QED BY <2>4, KeysFacts
<1>2. Base(o)[i][2] = Base(m)[i][2]
  <2>1. CASE i = 9 \/ i = 12 \/ i = 13
    BY <2>1, BaseNames
  <2>2. CASE ~ (i = 9 \/ i = 12 \/ i = 13)
    <3>1. Base(o)[i] = Base(m)[i]
      BY <2>2, BaseShared
    <3> QED BY <3>1
  <2> QED BY <2>1, <2>2
<1>3. ASSUME Base(o)[i] # Base(m)[i]
      PROVE  /\ Base(o)[i] \notin Resources /\ Base(m)[i] \notin Resources
             /\ Base(o)[i][2] \in ToSet(Exchanges)
  <2>1. i = 9 \/ i = 12 \/ i = 13
    BY <1>3, BaseShared
  <2>2. \A p \in {o, m} : Base(p)[i][1] \in {"q", "route"}
    BY <2>1, BaseNames
  <2>3. Base(o)[i] \notin Resources /\ Base(m)[i] \notin Resources
    BY <2>2 DEF Resources
  <2>4. Base(o)[i][2] \in ToSet(Exchanges)
    BY <2>1, BaseNames, ExchangeNames
  <2> QED BY <2>3, <2>4
<1> QED BY <1>1, <1>2, <1>3

\* Where a call stops, m was before.
LEMMA Follows ==
  ASSUME NEW m \in Options, Settled(m), KeysAhead(m), NEW o \in Outbound, NEW i \in 1 .. 14,
         \A j \in 1 .. i - 1 : cell[Base(o)[j]] = "ready"
  PROVE  \/ cell[Base(m)[i]] = "ready"
         \/ cell[Base(m)[i]] = "asked" /\ m \in ToSet(waiting[Base(m)[i]])
<1>1. PICK n \in 1 .. 15 :
        /\ \A j \in 1 .. n - 1 : cell[Base(m)[j]] = "ready"
        /\ n <= 14 => cell[Base(m)[n]] = "asked" /\ m \in ToSet(waiting[Base(m)[n]])
  BY DEF Settled
<1>2. CASE n > i
  BY <1>1, <1>2
<1>3. CASE n = i
  BY <1>1, <1>3
<1>4. CASE n < i
  <2>1. n \in 1 .. 14 /\ n \in 1 .. i - 1 /\ n <= 14
    BY <1>4
  <2>2. cell[Base(o)[n]] = "ready" /\ Ahead(Base(m)[n], Base(o)[n])
    BY <2>1 DEF KeysAhead
  <2>3. cell[Base(m)[n]] = "ready"
    BY <2>2 DEF Ahead
  <2> QED BY <1>1, <2>1, <2>3
<1> QED BY <1>2, <1>3, <1>4

\* Who stops where a call differs from m is a call.
LEMMA StopsAsCall ==
  ASSUME NEW m \in ToSet(Inbound), NEW o \in Options, NEW d \in Outbound, NEW i \in 1 .. 14,
         Base(o)[i] = Base(d)[i], Base(d)[i] # Base(m)[i]
  PROVE  o \in Outbound
<1> SUFFICES ASSUME o \in ToSet(Inbound) PROVE FALSE
  BY DEF Options
<1>1. ModelOf[o] = Own /\ ModelOf[m] = Own /\ ModelOf[d] # Own /\ o # d
  BY Hosted, ConnectAssumption
<1>2. i = 9 \/ i = 12 \/ i = 13
  BY BaseShared
<1>3. Base(o)[i] = Base(d)[i]
  OBVIOUS
<1>4. CASE i = 9
  <2>1. <<"q", "event_notifications", ModelOf[o]>> = <<"q", "event_notifications", ModelOf[d]>>
    BY <1>3, <1>4, BaseNames
  <2> QED BY <1>1, <2>1
<1>5. CASE i = 12
  <2>1. <<"q", "events", ModelOf[o]>> = <<"q", "events", ModelOf[d]>>
    BY <1>3, <1>5, BaseNames
  <2> QED BY <1>1, <2>1
<1>6. CASE i = 13
  <2>1. <<"route", "events", o>> = <<"route", "events", d>>
    BY <1>3, <1>6, BaseNames
  <2> QED BY <1>1, <2>1
<1> QED BY <1>2, <1>4, <1>5, <1>6

\* A walk that stops where all pass stops in the same place of each path.
LEMMA StopsAt ==
  ASSUME NEW o \in Options, ~ Arrived(o), NEW d, NEW i \in 1 .. 14,
         Path[o][Stop(o)] = Base(d)[i]
  PROVE  Base(o)[i] = Base(d)[i] /\ \A j \in 1 .. i - 1 : cell[Base(o)[j]] = "ready"
<1>1. PICK n \in 1 .. 14 : /\ Path[o][Stop(o)] = Base(o)[n]
                           /\ \A j \in 1 .. n - 1 : cell[Base(o)[j]] = "ready"
  <2>1. /\ Path[o][Stop(o)] # <<"route", "event_notifications", o>>
        /\ Path[o][Stop(o)] # Listener("event_notifications")
    BY BaseOwn
  <2> QED BY <2>1, StopBase
<1>2. n = i
  <2>1. Base(o)[n] = Base(d)[i]
    BY <1>1
  <2> QED BY <2>1, BaseOnce
<1> QED BY <1>1, <1>2

LEMMA KeysOther == \A k \in Keys \ Resources : k[2] \in ToSet(Exchanges)
<1> SUFFICES ASSUME NEW k \in Keys \ Resources PROVE k[2] \in ToSet(Exchanges)
  OBVIOUS
<1>1. PICK o \in Options : k \in PathParts(o)
  BY KeysFacts
<1>2. k # Conn
  BY ResourcesFacts
<1>3. \A x : k \in Parts(x, o) => k[2] = x
  BY DEF Parts, Channel, Listener
<1> QED BY <1>1, <1>2, <1>3, ExchangeNames DEF PathParts

-----------------------------------------------------------------------------
(* No step lets a call overtake m.                                         *)

LEMMA WalkTurn ==
  ASSUME IInv, NEW m \in ToSet(Inbound), Leads(m), Walk
  PROVE  /\ Head(running) \in Outbound => Settled(m)
         /\ Head(running) # m /\ ~ Settled(m) =>
              m \in ToSet(running') /\ \A o \in Outbound : First(running', m, o)
<1>1. /\ running \in Seq(Options) /\ running # <<>> /\ running' = Tail(running)
      /\ ToSet(running) = {Head(running)} \cup ToSet(Tail(running))
  BY ToSetHeadTail DEF IInv, TypeOK, Walk
<1>2. ASSUME Head(running) \in Outbound, ~ Settled(m) PROVE FALSE
  <2>1. First(running, m, Head(running))
    BY <1>2 DEF Leads
  <2>2. m = Head(running)
    BY <1>1, <2>1, FirstHead
  <2> QED BY <1>2, <2>2, Hosted
<1>3. ASSUME Head(running) # m, ~ Settled(m)
      PROVE  m \in ToSet(running') /\ \A o \in Outbound : First(running', m, o)
  <2>1. m \in ToSet(running) /\ \A o \in Outbound : First(running, m, o)
    BY <1>3 DEF Leads
  <2>2. \A o \in Outbound : First(Tail(running), m, o)
    <3> SUFFICES ASSUME NEW o \in Outbound PROVE First(Tail(running), m, o)
      OBVIOUS
    <3>1. First(running, m, o) /\ Head(running) # m
      BY <1>3, <2>1
    <3> QED BY <1>1, <3>1, FirstTail
  <2> QED BY <1>1, <1>3, <2>1, <2>2
<1> QED BY <1>2, <1>3

LEMMA ArriveUntroubled ==
  ASSUME IInv, NEW m \in ToSet(Inbound) \ Notified, Untroubled(m), Walk, Arrived(Head(running))
  PROVE  Untroubled(m)'
<1>1. UNCHANGED <<cell, waiting, rpcs, consumes, delays>>
  BY DEF Walk
<1>2. Settled(m) => Settled(m)'
  BY <1>1 DEF Settled
<1>3. ASSUME Head(running) = m PROVE Settled(m)'
  <2>1. m \in Options
    BY Hosted
  <2>2. \A i \in 1 .. 14 : Base(m)[i] \in ToSet(Path[m])
    <3>1. DOMAIN Path[m] = 1 .. 14 /\ \A i \in 1 .. 14 : Path[m][i] = Base(m)[i]
      BY <2>1, PathBase, PathFacts, LenProperties DEF Place
    <3> QED BY <3>1 DEF ToSet
  <2>3. \A i \in 1 .. 14 : cell[Base(m)[i]] = "ready"
    BY <1>3, <2>1, <2>2, StopFacts
  <2> QED BY <1>1, <2>3 DEF Settled
<1>4. Leads(m)'
  BY <1>2, <1>3, WalkTurn DEF Untroubled, Leads
<1>5. /\ \A o \in Options : delays'[o] = 0
      /\ InLine' /\ KeysAhead(m)' /\ WaitsAhead(m)' /\ OwnEvents'
  BY <1>1 DEF Untroubled, InLine, KeysAhead, Ahead, WaitsAhead, OwnEvents
<1> QED BY <1>4, <1>5 DEF Untroubled

\* What a channel was asked for once a walk awaits key k.
LEMMA AwaitRpcs ==
  ASSUME IInv, NEW o \in Options, NEW k \in Keys, Await(k, o)
  PROVE  /\ \A x \in ToSet(Exchanges) : rpcs'[x] = rpcs[x] \/
              (k[2] = x /\ cell[k] = "null" /\ k \notin Resources /\ rpcs'[x] = Append(rpcs[x], k))
         /\ cell[k] = "null" /\ k \notin Resources => k \in ToSet(rpcs'[k[2]])
         /\ \A x \in ToSet(Exchanges) : ToSet(rpcs[x]) \subseteq ToSet(rpcs'[x])
<1>1. rpcs \in [ToSet(Exchanges) -> Seq(Keys)]
  BY DEF IInv, TypeOK
<1>2. CASE cell[k] = "null" /\ k \notin Resources
  <2>1. k[2] \in ToSet(Exchanges) /\ rpcs' = [rpcs EXCEPT ![k[2]] = Append(@, k)]
    BY <1>2, KeysOther DEF Await
  <2>2. ToSet(Append(rpcs[k[2]], k)) = ToSet(rpcs[k[2]]) \cup {k}
    BY <1>1, <2>1, ToSetAppend
  <2> QED BY <1>1, <1>2, <2>1, <2>2
<1>3. CASE ~ (cell[k] = "null" /\ k \notin Resources)
  BY <1>3 DEF Await
<1> QED BY <1>2, <1>3

LEMMA AwaitUntroubled ==
  ASSUME IInv, NEW m \in ToSet(Inbound) \ Notified, Untroubled(m), Walk, ~ Arrived(Head(running))
  PROVE  Untroubled(m)'
<1>0. PICK o : o = Head(running)
  OBVIOUS
<1>1. o \in Options /\ m \in Options
  BY <1>0, ToSetHeadTail, Hosted DEF IInv, TypeOK, Walk
<1>2. PICK k : k = Path[o][Stop(o)]
  OBVIOUS
<1>3. k \in Keys /\ cell[k] # "ready" /\ Await(k, o) /\ UNCHANGED <<consumes, delays>>
  BY <1>0, <1>1, <1>2, StopFacts DEF Walk, Await
<1>4. /\ cell \in [Keys -> {"null", "asked", "ready"}] /\ waiting \in [Keys -> Seq(Options)]
      /\ rpcs \in [ToSet(Exchanges) -> Seq(Keys)]
  BY DEF IInv, TypeOK
<1>5. /\ \A j \in Keys \ {k} : cell'[j] = cell[j] /\ waiting'[j] = waiting[j]
      /\ cell'[k] = "asked" /\ waiting'[k] = Append(waiting[k], o)
      /\ ToSet(waiting'[k]) = ToSet(waiting[k]) \cup {o}
  BY <1>1, <1>3, <1>4, ToSetAppend DEF Await, Join
<1>6. \A d \in Options, i \in 1 .. 14 : Base(d)[i] \in Keys
  BY BaseKeys
<1>7. o \in Outbound => Settled(m)
  BY <1>0, WalkTurn DEF Untroubled
<1>8. Leads(m)'
  <2>1. ASSUME o = m PROVE Settled(m)'
    <3>1. PICK i \in 1 .. 14 : k = Base(m)[i] /\ \A j \in 1 .. i - 1 : cell[Base(m)[j]] = "ready"
      BY <1>0, <1>1, <1>2, <2>1, StopBase
    <3>2. \A j \in 1 .. i - 1 : cell'[Base(m)[j]] = "ready"
      <4> SUFFICES ASSUME NEW j \in 1 .. i - 1 PROVE cell'[Base(m)[j]] = "ready"
        OBVIOUS
      <4>1. Base(m)[j] \in Keys /\ cell[Base(m)[j]] = "ready"
        BY <1>1, <1>6, <3>1
      <4> QED BY <1>3, <1>5, <4>1
    <3>3. cell'[Base(m)[i]] = "asked" /\ m \in ToSet(waiting'[Base(m)[i]])
      BY <1>5, <2>1, <3>1
    <3>4. i \in 1 .. 15
      OBVIOUS
    <3> QED BY <3>2, <3>3, <3>4 DEF Settled
  <2>2. ASSUME Settled(m) PROVE Settled(m)'
    <3>1. PICK n \in 1 .. 15 :
            /\ \A i \in 1 .. n - 1 : cell[Base(m)[i]] = "ready"
            /\ n <= 14 => cell[Base(m)[n]] = "asked" /\ m \in ToSet(waiting[Base(m)[n]])
      BY <2>2 DEF Settled
    <3>2. \A i \in 1 .. n - 1 : cell'[Base(m)[i]] = "ready"
      <4> SUFFICES ASSUME NEW i \in 1 .. n - 1 PROVE cell'[Base(m)[i]] = "ready"
        OBVIOUS
      <4>1. i \in 1 .. 14 /\ cell[Base(m)[i]] = "ready"
        BY <3>1
      <4> QED BY <1>1, <1>3, <1>5, <1>6, <4>1
    <3>3. ASSUME n <= 14 PROVE cell'[Base(m)[n]] = "asked" /\ m \in ToSet(waiting'[Base(m)[n]])
      <4>1. Base(m)[n] \in Keys
        BY <1>1, <1>6, <3>3
      <4> QED BY <1>5, <3>1, <3>3, <4>1
    <3> QED BY <3>2, <3>3 DEF Settled
  <2> QED BY <1>0, <2>1, <2>2, WalkTurn DEF Untroubled, Leads
<1>9. InLine'
  <2> SUFFICES ASSUME NEW j \in Keys \ Resources, cell'[j] = "asked" PROVE j \in ToSet(rpcs'[j[2]])
    BY DEF InLine
  <2>1. j[2] \in ToSet(Exchanges)
    BY KeysOther
  <2>2. cell[j] = "asked" => j \in ToSet(rpcs[j[2]])
    BY DEF Untroubled, InLine
  <2>3. cell[j] = "asked" \/ (j = k /\ cell[k] = "null")
    BY <1>3, <1>4, <1>5
  <2>4. CASE cell[j] = "asked"
    <3>1. ToSet(rpcs[j[2]]) \subseteq ToSet(rpcs'[j[2]])
      BY <1>1, <1>3, <2>1, AwaitRpcs
    <3> QED BY <2>2, <2>4, <3>1
  <2>5. CASE j = k /\ cell[k] = "null"
    BY <1>1, <1>3, <2>5, AwaitRpcs
  <2> QED BY <2>3, <2>4, <2>5
<1>10. ASSUME NEW d \in Outbound, NEW i \in 1 .. 14
       PROVE  Ahead(Base(m)[i], Base(d)[i])'
  <2> DEFINE a == Base(m)[i]
             b == Base(d)[i]
  <2>0. d \in Options /\ a \in Keys /\ b \in Keys
    BY <1>1, <1>6 DEF Options
  <2>1. a = b \/ cell[a] = "ready" \/ (cell[b] # "ready" /\ First(rpcs[b[2]], a, b))
    BY DEF Untroubled, KeysAhead, Ahead
  <2>2. CASE cell[a] = "ready"
    <3>1. cell'[a] = "ready"
      BY <1>3, <1>5, <2>0, <2>2
    <3> QED BY <3>1 DEF Ahead
  <2>3. CASE a # b /\ cell[a] # "ready" /\ cell[b] # "ready" /\ First(rpcs[b[2]], a, b)
    <3>1. cell'[b] # "ready"
      BY <1>5, <2>0, <2>3
    <3>2. /\ b[2] \in ToSet(Exchanges) /\ a[2] = b[2] /\ a \notin Resources /\ b \notin Resources
      BY <1>1, <2>0, <2>3, BaseKeys
    <3>3. ASSUME k = b PROVE a \in ToSet(rpcs[b[2]])
      <4>1. Base(o)[i] = Base(d)[i] /\ \A j \in 1 .. i - 1 : cell[Base(o)[j]] = "ready"
        <5>1. ~ Arrived(o) /\ Path[o][Stop(o)] = Base(d)[i]
          BY <1>0, <1>2, <3>3
        <5> QED BY <1>1, <5>1, StopsAt
      <4>2. o \in Outbound
        BY <1>1, <2>3, <4>1, StopsAsCall
      <4>3. cell[a] = "asked"
        <5>1. cell[a] = "ready" \/ cell[a] = "asked"
          BY <1>1, <1>7, <4>1, <4>2, Follows DEF Untroubled
        <5> QED BY <2>3, <5>1
      <4> QED BY <2>0, <3>2, <4>3 DEF Untroubled, InLine
    <3>4. First(rpcs'[b[2]], a, b)
      <4>1. PICK s : s = rpcs[b[2]]
        OBVIOUS
      <4>2. rpcs'[b[2]] = s \/ rpcs'[b[2]] = Append(s, k)
        BY <1>1, <1>3, <3>2, <4>1, AwaitRpcs
      <4>3. s \in Seq(Keys) /\ First(s, a, b) /\ (k = b => a \in ToSet(s))
        BY <1>4, <2>3, <3>2, <3>3, <4>1
      <4> HIDE DEF a, b
      <4>4. First(Append(s, k), a, b)
        BY <1>3, <4>3, FirstAppend
      <4> QED BY <4>2, <4>3, <4>4
    <3> QED BY <3>1, <3>4 DEF Ahead
  <2>4. CASE a = b
    BY <2>4 DEF Ahead
  <2> QED BY <2>1, <2>2, <2>3, <2>4
<1>11. ASSUME NEW d \in Outbound, NEW i \in 1 .. 14
       PROVE  First(waiting'[Base(m)[i]], m, d)
  <2>1. First(waiting[Base(m)[i]], m, d) /\ Base(m)[i] \in Keys
    BY <1>1, <1>6 DEF Untroubled, WaitsAhead
  <2>2. CASE Base(m)[i] # k
    BY <1>5, <2>1, <2>2
  <2>3. CASE Base(m)[i] = k
    <3>1. ASSUME o = d PROVE m \in ToSet(waiting[k])
      <4>1. Base(o)[i] = Base(m)[i] /\ \A j \in 1 .. i - 1 : cell[Base(o)[j]] = "ready"
        BY <1>0, <1>1, <1>2, <2>3, StopsAt
      <4> QED BY <1>1, <1>3, <1>7, <2>3, <3>1, <4>1, Follows DEF Untroubled
    <3>2. waiting[k] \in Seq(Options) /\ First(waiting[k], m, d)
      BY <1>3, <1>4, <2>1, <2>3
    <3>3. First(Append(waiting[k], o), m, d)
      BY <1>1, <3>1, <3>2, FirstAppend
    <3> QED BY <1>5, <2>3, <3>3
  <2> QED BY <2>2, <2>3
<1>12. KeysAhead(m)' /\ WaitsAhead(m)'
  BY <1>10, <1>11 DEF KeysAhead, WaitsAhead
<1>13. (\A d \in Options : delays'[d] = 0) /\ OwnEvents'
  BY <1>3 DEF Untroubled, OwnEvents
<1> QED BY <1>8, <1>9, <1>12, <1>13 DEF Untroubled

\* What a channel was asked for once key k is answered.
LEMMA AnswerRpcs ==
  ASSUME IInv, NEW k \in Keys, Answer(k)
  PROVE  \A x \in ToSet(Exchanges) :
           \/ rpcs'[x] = rpcs[x] /\ (k \in Resources \/ k[2] # x)
           \/ rpcs[x] # <<>> /\ Head(rpcs[x]) = k /\ k[2] = x /\ rpcs'[x] = Tail(rpcs[x])
<1>1. /\ rpcs \in [ToSet(Exchanges) -> Seq(Keys)]
      /\ \A x \in ToSet(Exchanges) : rpcs[x] \in Seq(KeysOf(x))
  BY DEF IInv, TypeOK, RpcsAgree
<1>2. CASE k \in Resources
  BY <1>2 DEF Answer
<1>3. CASE k \notin Resources
  <2>1. PICK x \in ToSet(Exchanges) : rpcs[x] # <<>> /\ k = Head(rpcs[x])
    BY <1>3 DEF Answer, Heads
  <2>2. k \in KeysOf(x)
    BY <1>1, <2>1, ToSetHeadTail
  <2>3. k[2] = x
    BY <2>2 DEF KeysOf
  <2>4. rpcs' = [rpcs EXCEPT ![x] = Tail(@)]
    BY <1>3, <2>3 DEF Answer
  <2> QED BY <1>1, <2>1, <2>3, <2>4
<1> QED BY <1>2, <1>3

LEMMA AnswerUntroubled ==
  ASSUME IInv, NEW m \in ToSet(Inbound) \ Notified, Untroubled(m), NEW k \in Keys, Answer(k)
  PROVE  Untroubled(m)'
<1>1. /\ cell \in [Keys -> {"null", "asked", "ready"}] /\ waiting \in [Keys -> Seq(Options)]
      /\ rpcs \in [ToSet(Exchanges) -> Seq(Keys)]
      /\ consumes \in [ToSet(Exchanges) -> Models \cup {None}]
  BY DEF IInv, TypeOK
<1>2. /\ running = <<>> /\ running' = waiting[k] /\ cell[k] = "asked"
      /\ \A j \in Keys \ {k} : cell'[j] = cell[j] /\ waiting'[j] = waiting[j]
      /\ cell'[k] = "ready" /\ waiting'[k] = <<>> /\ UNCHANGED delays
  BY <1>1 DEF Answer
<1>3. m \in Options /\ \A d \in Options, i \in 1 .. 14 : Base(d)[i] \in Keys
  BY Hosted, BaseKeys
<1>4. Settled(m)
  <2>1. m \notin ToSet(running)
    BY <1>2 DEF ToSet
  <2> QED BY <2>1 DEF Untroubled, Leads
<1>5. Leads(m)'
  <2>1. PICK n \in 1 .. 15 :
          /\ \A i \in 1 .. n - 1 : cell[Base(m)[i]] = "ready"
          /\ n <= 14 => cell[Base(m)[n]] = "asked" /\ m \in ToSet(waiting[Base(m)[n]])
    BY <1>4 DEF Settled
  <2>2. \A i \in 1 .. n - 1 : cell'[Base(m)[i]] = "ready"
    <3> SUFFICES ASSUME NEW i \in 1 .. n - 1 PROVE cell'[Base(m)[i]] = "ready"
      OBVIOUS
    <3>1. i \in 1 .. 14 /\ cell[Base(m)[i]] = "ready"
      BY <2>1
    <3> QED BY <1>2, <1>3, <3>1
  <2>3. CASE n <= 14 /\ Base(m)[n] = k
    <3>1. m \in ToSet(running') /\ \A o \in Outbound : First(running', m, o)
      BY <1>2, <2>1, <2>3 DEF Untroubled, WaitsAhead
    <3> QED BY <3>1 DEF Leads
  <2>4. CASE ~ (n <= 14 /\ Base(m)[n] = k)
    <3>1. ASSUME n <= 14 PROVE cell'[Base(m)[n]] = "asked" /\ m \in ToSet(waiting'[Base(m)[n]])
      <4>1. Base(m)[n] \in Keys \ {k}
        BY <1>3, <2>4, <3>1
      <4> QED BY <1>2, <2>1, <3>1, <4>1
    <3> QED BY <2>2, <3>1 DEF Leads, Settled
  <2> QED BY <2>3, <2>4
<1>6. InLine'
  <2> SUFFICES ASSUME NEW j \in Keys \ Resources, cell'[j] = "asked" PROVE j \in ToSet(rpcs'[j[2]])
    BY DEF InLine
  <2>1. j # k /\ cell[j] = "asked" /\ j[2] \in ToSet(Exchanges)
    BY <1>2, KeysOther
  <2>2. j \in ToSet(rpcs[j[2]]) /\ rpcs[j[2]] \in Seq(Keys)
    BY <1>1, <2>1 DEF Untroubled, InLine
  <2>3. CASE rpcs'[j[2]] = rpcs[j[2]]
    BY <2>2, <2>3
  <2>4. CASE /\ rpcs[j[2]] # <<>> /\ Head(rpcs[j[2]]) = k /\ rpcs'[j[2]] = Tail(rpcs[j[2]])
    <3>1. ToSet(rpcs[j[2]]) = {k} \cup ToSet(Tail(rpcs[j[2]]))
      BY <2>2, <2>4, ToSetHeadTail
    <3> QED BY <2>1, <2>2, <2>4, <3>1
  <2> QED BY <2>1, <2>3, <2>4, AnswerRpcs
<1>7. ASSUME NEW d \in Outbound, NEW i \in 1 .. 14
      PROVE  Ahead(Base(m)[i], Base(d)[i])'
  <2> DEFINE a == Base(m)[i]
             b == Base(d)[i]
  <2>0. d \in Options /\ a \in Keys /\ b \in Keys
    BY <1>3 DEF Options
  <2>1. a = b \/ cell[a] = "ready" \/ (cell[b] # "ready" /\ First(rpcs[b[2]], a, b))
    BY DEF Untroubled, KeysAhead, Ahead
  <2>2. CASE cell[a] = "ready" \/ a = k
    <3>1. cell'[a] = "ready"
      BY <1>2, <2>0, <2>2
    <3> QED BY <3>1 DEF Ahead
  <2>3. CASE a # b /\ a # k /\ cell[b] # "ready" /\ First(rpcs[b[2]], a, b)
    <3>1. b[2] \in ToSet(Exchanges) /\ b \notin Resources
      BY <1>3, <2>0, <2>3, BaseKeys
    <3>2. PICK s : s = rpcs[b[2]]
      OBVIOUS
    <3>3. s \in Seq(Keys) /\ First(s, a, b)
      BY <1>1, <2>3, <3>1, <3>2
    <3>4. \/ rpcs'[b[2]] = s /\ (k \in Resources \/ k[2] # b[2])
          \/ s # <<>> /\ Head(s) = k /\ rpcs'[b[2]] = Tail(s)
      BY <3>1, <3>2, AnswerRpcs
    <3> HIDE DEF a, b
    <3>5. CASE rpcs'[b[2]] = s /\ (k \in Resources \/ k[2] # b[2])
      <4>1. k # b
        BY <3>1, <3>5
      <4>2. cell'[b] # "ready"
        BY <1>2, <2>0, <2>3, <4>1
      <4> QED BY <3>3, <3>5, <4>2 DEF Ahead, a, b
    <3>6. CASE s # <<>> /\ Head(s) = k /\ rpcs'[b[2]] = Tail(s)
      <4>1. k # b
        BY <2>3, <3>3, <3>6, FirstHead
      <4>2. cell'[b] # "ready"
        BY <1>2, <2>0, <2>3, <4>1
      <4>3. First(Tail(s), a, b)
        BY <2>3, <3>3, <3>6, FirstTail
      <4> QED BY <3>6, <4>2, <4>3 DEF Ahead, a, b
    <3> QED BY <3>4, <3>5, <3>6
  <2>4. CASE a = b
    BY <2>4 DEF Ahead
  <2> QED BY <2>1, <2>2, <2>3, <2>4
<1>8. ASSUME NEW d \in Outbound, NEW i \in 1 .. 14
      PROVE  First(waiting'[Base(m)[i]], m, d)
  <2>1. First(waiting[Base(m)[i]], m, d) /\ Base(m)[i] \in Keys
    BY <1>3 DEF Untroubled, WaitsAhead
  <2>2. First(<<>>, m, d)
    BY DEF First
  <2> QED BY <1>2, <2>1, <2>2
<1>9. OwnEvents'
  <2>1. consumes["events"] \in {None, Own} /\ "events" \in ToSet(Exchanges)
    BY ExchangeNames DEF Untroubled, OwnEvents
  <2>2. CASE k[1] = "listener" /\ k[2] = "events"
    <3>1. k = Base(m)[14]
      <4>1. PICK o \in Options : k \in PathParts(o)
        BY KeysFacts
      <4>2. k = Listener("events")
        BY <2>2, <4>1 DEF PathParts, Parts, Conn, Channel, Listener
      <4> QED BY <4>2, BaseOwn
    <3>2. PICK h : h = Head(waiting[k])
      OBVIOUS
    <3>3. waiting[k] \in Seq(Options) /\ waiting[k] # <<>>
      BY <1>1, <1>2 DEF IInv, AskedAgree
    <3>4. h \in Options
      BY <3>2, <3>3, ToSetHeadTail
    <3>5. ASSUME h \in Outbound PROVE FALSE
      <4>1. First(waiting[k], m, h)
        BY <3>1, <3>5 DEF Untroubled, WaitsAhead
      <4>2. m = h
        BY <3>2, <3>3, <4>1, FirstHead
      <4> QED BY <3>5, <4>2, Hosted
    <3>6. ModelOf[h] = Own
      BY <3>4, <3>5, Hosted DEF Options
    <3>7. Queue("events", h) = Own
      BY <3>6 DEF Queue
    <3>8. consumes'["events"] = Queue("events", h)
      BY <1>1, <2>1, <2>2, <3>2 DEF Answer
    <3> QED BY <3>7, <3>8 DEF OwnEvents
  <2>3. CASE ~ (k[1] = "listener" /\ k[2] = "events")
    <3>1. consumes'["events"] = consumes["events"]
      BY <1>1, <2>1, <2>3 DEF Answer
    <3> QED BY <2>1, <3>1 DEF OwnEvents
  <2> QED BY <2>2, <2>3
<1>10. KeysAhead(m)' /\ WaitsAhead(m)'
  BY <1>7, <1>8 DEF KeysAhead, WaitsAhead
<1>11. \A d \in Options : delays'[d] = 0
  BY <1>2 DEF Untroubled
<1> QED BY <1>5, <1>6, <1>9, <1>10, <1>11 DEF Untroubled

LEMMA CallUntroubled ==
  ASSUME IInv, NEW m \in ToSet(Inbound) \ Notified, Untroubled(m), NEW o \in Options, Call(o)
  PROVE  Untroubled(m)'
<1>1. running = <<>> /\ UNCHANGED <<cell, waiting, rpcs, consumes, delays>>
  BY DEF Call, links
<1>2. m \notin ToSet(running)
  BY <1>1 DEF ToSet
<1>3. Settled(m)
  BY <1>2 DEF Untroubled, Leads
<1>4. Settled(m)'
  BY <1>1, <1>3 DEF Settled
<1> QED BY <1>1, <1>4 DEF Untroubled, Leads, InLine, KeysAhead, Ahead, WaitsAhead, OwnEvents

LEMMA InitUntroubled ==
  ASSUME Init, NEW m \in ToSet(Inbound) \ Notified
  PROVE  Untroubled(m)
<1>1. /\ cell = [k \in Keys |-> "null"] /\ waiting = [k \in Keys |-> <<>>]
      /\ rpcs = [x \in ToSet(Exchanges) |-> <<>>] /\ running = Inbound
      /\ consumes = [x \in ToSet(Exchanges) |-> None] /\ delays = [o \in Options |-> 0]
  BY DEF Init
<1>2. m \in Options /\ \A d \in Options, i \in 1 .. 14 : Base(d)[i] \in Keys
  BY Hosted, BaseKeys
<1>3. \A a, b : First(<<>>, a, b)
  BY DEF First
<1>4. ASSUME NEW d \in Outbound, NEW i \in 1 .. 14
      PROVE  Ahead(Base(m)[i], Base(d)[i]) /\ First(waiting[Base(m)[i]], m, d)
  <2>1. d \in Options /\ Base(m)[i] \in Keys /\ Base(d)[i] \in Keys
    BY <1>2 DEF Options
  <2>2. CASE Base(m)[i] = Base(d)[i]
    BY <1>1, <1>3, <2>1, <2>2 DEF Ahead
  <2>3. CASE Base(m)[i] # Base(d)[i]
    <3>1. Base(d)[i][2] \in ToSet(Exchanges)
      BY <1>2, <2>1, <2>3, BaseKeys
    <3> QED BY <1>1, <1>3, <2>1, <3>1 DEF Ahead
  <2> QED BY <2>2, <2>3
<1>5. m \in ToSet(running) /\ \A d \in Outbound : First(running, m, d)
  <2>1. \A d \in Outbound, j \in DOMAIN Inbound : Inbound[j] # d
    <3> SUFFICES ASSUME NEW d \in Outbound, NEW j \in DOMAIN Inbound PROVE Inbound[j] # d
      OBVIOUS
    <3>1. Inbound[j] \in ToSet(Inbound)
      BY DEF ToSet
    <3> QED BY <3>1, Hosted
  <2> QED BY <1>1, <2>1 DEF First
<1>6. InLine
  BY <1>1 DEF InLine
<1>7. OwnEvents
  BY <1>1, ExchangeNames DEF OwnEvents
<1> QED BY <1>1, <1>4, <1>5, <1>6, <1>7 DEF Untroubled, KeysAhead, WaitsAhead, Leads

LEMMA NextUntroubled ==
  ASSUME IInv, NEW m \in ToSet(Inbound) \ Notified, faults = 0 => Untroubled(m), [Next]_vars
  PROVE  (faults = 0 => Untroubled(m))'
<1> SUFFICES ASSUME faults' = 0 PROVE Untroubled(m)'
  OBVIOUS
<1>1. ASSUME Refuse \/ LoseConnection \/ \E x \in ToSet(Exchanges) : LoseChannel(x) PROVE FALSE
  <2>1. faults \in Nat /\ faults' = faults + 1
    BY <1>1, ConnectAssumption DEF Refuse, LoseConnection, LoseChannel, Fault, IInv, TypeOK
  <2> QED BY <2>1
<1>2. ASSUME UNCHANGED vars PROVE Untroubled(m)'
  <2>1. UNCHANGED <<cell, waiting, rpcs, consumes, running, delays, faults>>
    BY <1>2 DEF vars, links
  <2> QED BY <2>1 DEF Untroubled, InLine, KeysAhead, Ahead, WaitsAhead, Leads, Settled, OwnEvents
<1>3. CASE Walk
  <2>1. Untroubled(m)
    BY <1>3 DEF Walk
  <2> QED BY <1>3, <2>1, ArriveUntroubled, AwaitUntroubled
<1>4. ASSUME NEW o \in Options, Call(o) PROVE Untroubled(m)'
  BY <1>4, CallUntroubled DEF Call
<1>5. ASSUME NEW o \in Options, Timer(o) PROVE FALSE
  BY <1>5 DEF Timer, Untroubled
<1>6. ASSUME NEW k \in Keys, Answer(k) PROVE Untroubled(m)'
  BY <1>6, AnswerUntroubled DEF Answer
<1> QED BY <1>1, <1>2, <1>3, <1>4, <1>5, <1>6 DEF Next

\* Until an attempt fails or something is lost, a process consumes the events of its own model,
\* whatever calls arrive while it connects, if one of its methods has no notifName: that
\* method's walk stays ahead of every call's (mq.js:287).
THEOREM OwnEventsFirst ==
  ASSUME ToSet(Inbound) \ Notified # {}
  PROVE  Spec => []OwnEventsUntilLoss
<1>1. PICK m : m \in ToSet(Inbound) \ Notified
  OBVIOUS
<1> DEFINE Leading == faults = 0 => Untroubled(m)
<1>2. Init => Leading
  BY <1>1, InitUntroubled
<1>3. IInv /\ Leading /\ [Next]_vars => Leading'
  BY <1>1, NextUntroubled
<1>4. Leading => OwnEventsUntilLoss
  BY DEF Untroubled, OwnEvents, OwnEventsUntilLoss
<1> HIDE DEF Leading
<1> QED BY <1>2, <1>3, <1>4, Invariance, PTL DEF Spec
=============================================================================
