---------------------------- MODULE StatisticsProofs ---------------------------
(***************************************************************************)
(* Theorems about the two components that compute statistics of readings.  *)
(* ApiZones: for every building, number of requests, life of the cached    *)
(* answer and duration of the queries.  Pipeline: for every set of sensors *)
(* and rooms, length of the windows and threshold of the rules.  Both rest *)
(* on the same lemmas about sums.  In this order: the age of a zone's      *)
(* answer, sums, a zone's figures with a broken sensor, spreads and walks, *)
(* the engine and its flag, the consumer's windows and its alarms.         *)
(***************************************************************************)
EXTENDS ApiZones, Pipeline, FiniteSetTheorems, SequenceTheorems, WellFoundedInduction, TLAPS

Pcs == Steps \cup {"free", "answered"}
Requested == [pc : Pcs, src : Sources, age : Nat, spent : 0..MaxQuery]
CacheType == [src : Sources, age : Nat, left : 0..TTL]

(***************************************************************************)
(* The age of what a request has fetched is spent in the request, and an   *)
(* answer in the cache has paid for the rest of its life in advance: a     *)
(* second of age is a second less to live.                                 *)
(***************************************************************************)
Young(q) ==
    /\ q.pc \in Steps => q.age <= q.spent
    /\ q.pc = "answered" => q.age < TTL + MaxQuery

Paid(c) == c.left > 0 => c.age + c.left <= TTL + MaxQuery

StaleInv == TypeOK /\ Paid(cache) /\ \A r \in Requests : Young(req[r])

LEMMA Numbers == TTL \in Nat /\ TTL >= 1 /\ MaxQuery \in Nat
BY ApiZonesAssumption

LEMMA NoSourceIs == NoSource \in Sources
BY DEF NoSource, Source, Sources

LEMMA StaleInit == Init => StaleInv
<1> SUFFICES ASSUME Init PROVE StaleInv
  OBVIOUS
<1>1. cache \in CacheType /\ cache.left = 0 /\ influx \in Contents
  BY NoSourceIs, Numbers DEF Init, CacheType
<1> DEFINE q == [pc |-> "free", src |-> NoSource, age |-> 0, spent |-> 0]
<1>2. q \in Requested /\ Young(q)
  BY NoSourceIs, Numbers DEF Requested, Pcs, Young, Steps
<1>3. req = [r \in Requests |-> q]
  BY DEF Init
<1> HIDE DEF q
<1>4. req \in [Requests -> Requested] /\ \A r \in Requests : Young(req[r])
  BY <1>2, <1>3
<1> QED BY <1>1, <1>4 DEF StaleInv, TypeOK, Paid, CacheType, Requested, Pcs

(* One request goes on, and perhaps replaces the answer in the cache.      *)
LEMMA RequestStep ==
    ASSUME StaleInv, NEW r \in Requests, NEW q \in Requested, Young(q),
           req' = [req EXCEPT ![r] = q], influx' = influx,
           cache' \in CacheType, Paid(cache')
    PROVE  StaleInv'
<1>1. req \in [Requests -> Requested] /\ \A x \in Requests : Young(req[x])
  BY DEF StaleInv, TypeOK, Requested, Pcs
<1>2. req' \in [Requests -> Requested] /\ \A x \in Requests : Young(req'[x])
  BY <1>1
<1>3. TypeOK'
  BY <1>2 DEF StaleInv, TypeOK, CacheType, Requested, Pcs
<1>4. Paid(cache)' /\ \A x \in Requests : Young(req[x])'
  BY <1>2 DEF Paid, Young
<1> QED BY <1>3, <1>4 DEF StaleInv

LEMMA StaleStep == StaleInv /\ [Next]_vars => StaleInv'
<1> SUFFICES ASSUME StaleInv, [Next]_vars PROVE StaleInv'
  OBVIOUS
<1>0. /\ influx \in Contents /\ cache \in CacheType /\ Paid(cache)
      /\ req \in [Requests -> Requested] /\ \A r \in Requests : Young(req[r])
      /\ TTL \in Nat /\ TTL >= 1 /\ MaxQuery \in Nat
  BY Numbers DEF StaleInv, TypeOK, CacheType, Requested, Pcs
<1>1. ASSUME NEW r \in Requests PROVE Arrive(r) \/ Query(r) => StaleInv'
  <2>0. /\ req[r] \in Requested /\ Young(req[r]) /\ req[r].src \in Sources
        /\ req[r].age \in Nat /\ req[r].spent \in 0..MaxQuery
    BY <1>0 DEF Requested
  <2>1. CASE Arrive(r)
    <3> DEFINE q == [pc |-> "cache", src |-> NoSource, age |-> 0, spent |-> 0]
    <3>1. q \in Requested /\ Young(q)
      BY NoSourceIs, Numbers DEF Requested, Pcs, Young, Steps
    <3> QED BY <2>1, <3>1, <1>0, RequestStep DEF Arrive
  <2>2. CASE Hit(r)
    <3> DEFINE q == [pc |-> "answered", src |-> cache.src, age |-> cache.age, spent |-> 0]
    <3>1. cache.left \in Nat /\ cache.left > 0 /\ cache.age \in Nat /\ cache.src \in Sources
      BY <2>2, <1>0 DEF Hit, CacheType
    <3>2. cache.age + cache.left <= TTL + MaxQuery
      BY <3>1, <1>0 DEF Paid
    <3>3. cache.age < TTL + MaxQuery
      BY <3>1, <3>2, <1>0
    <3>4. q \in Requested
      BY <3>1, <1>0 DEF Requested, Pcs
    <3>5. Young(q)
      BY <3>3 DEF Young, Steps
    <3> QED BY <2>2, <3>4, <3>5, <1>0, RequestStep DEF Hit, Goes
  <2>3. CASE Miss(r)
    <3> DEFINE q == [req[r] EXCEPT !.pc = "latest"]
    <3>1. q \in Requested /\ q.pc = "latest" /\ q.age = req[r].age /\ q.spent = req[r].spent
      BY <2>0 DEF Requested, Pcs, Steps
    <3>2. req[r].pc = "cache"
      BY <2>3 DEF Miss, Goes
    <3>3. Young(q)
      BY <3>1, <3>2, <2>0 DEF Young, Steps
    <3> QED BY <2>3, <3>1, <3>3, <1>0, RequestStep DEF Miss, Goes
  <2>4. CASE Latest(r)
    <3>1. PICK got \in {Nothing, [k \in Readings |-> influx[k]]} :
             Goes(r, "latest", [req[r] EXCEPT !.pc = "anomalies",
                                              !.src.latest = got, !.age = 0])
      BY <2>4 DEF Latest
    <3> DEFINE q == [req[r] EXCEPT !.pc = "anomalies", !.src.latest = got, !.age = 0]
    <3>2. got \in {Nothing} \cup {[k \in Readings |-> c[k]] : c \in Contents}
      BY <3>1, <1>0
    <3>3. [req[r].src EXCEPT !.latest = got] \in Sources
      BY <3>2, <2>0 DEF Sources
    <3>4. q \in Requested /\ q.pc = "anomalies" /\ q.age = 0 /\ q.spent = req[r].spent
      BY <3>3, <2>0 DEF Requested, Pcs, Steps
    <3>5. Young(q)
      BY <3>4, <2>0 DEF Young, Steps
    <3>6. req' = [req EXCEPT ![r] = q] /\ influx' = influx /\ cache' = cache
      BY <3>1, <2>4 DEF Latest, Goes
    <3> QED BY <3>4, <3>5, <3>6, <1>0, RequestStep
  <2>5. CASE Anomalies(r)
    <3>1. PICK got \in {0, influx.anomalies} :
             Goes(r, "anomalies", [req[r] EXCEPT !.pc = "capacities",
                                                 !.src.anomalies = got])
      BY <2>5 DEF Anomalies
    <3> DEFINE q == [req[r] EXCEPT !.pc = "capacities", !.src.anomalies = got]
    <3>2. got \in {0} \cup {c.anomalies : c \in Contents}
      BY <3>1, <1>0
    <3>3. [req[r].src EXCEPT !.anomalies = got] \in Sources
      BY <3>2, <2>0 DEF Sources
    <3>4. /\ q \in Requested /\ q.pc = "capacities"
          /\ q.age = req[r].age /\ q.spent = req[r].spent
      BY <3>3, <2>0 DEF Requested, Pcs, Steps
    <3>5. req[r].pc = "anomalies" /\ req' = [req EXCEPT ![r] = q]
          /\ influx' = influx /\ cache' = cache
      BY <3>1, <2>5 DEF Anomalies, Goes
    <3>6. Young(q)
      BY <3>4, <3>5, <2>0 DEF Young, Steps
    <3> QED BY <3>4, <3>5, <3>6, <1>0, RequestStep
  <2>6. CASE Capacities(r)
    <3>1. PICK got \in {<<>>} \cup Tables :
             Goes(r, "capacities", [req[r] EXCEPT !.pc = "store",
                                                  !.src.capacities = got])
      BY <2>6 DEF Capacities
    <3> DEFINE q == [req[r] EXCEPT !.pc = "store", !.src.capacities = got]
    <3>3. [req[r].src EXCEPT !.capacities = got] \in Sources
      BY <3>1, <2>0 DEF Sources
    <3>4. /\ q \in Requested /\ q.pc = "store"
          /\ q.age = req[r].age /\ q.spent = req[r].spent
      BY <3>3, <2>0 DEF Requested, Pcs, Steps
    <3>5. req[r].pc = "capacities" /\ req' = [req EXCEPT ![r] = q]
          /\ influx' = influx /\ cache' = cache
      BY <3>1, <2>6 DEF Capacities, Goes
    <3>6. Young(q)
      BY <3>4, <3>5, <2>0 DEF Young, Steps
    <3> QED BY <3>4, <3>5, <3>6, <1>0, RequestStep
  <2>7. CASE Store(r)
    <3> DEFINE q == [req[r] EXCEPT !.pc = "answered"]
               c == [src |-> req[r].src, age |-> req[r].age, left |-> TTL]
    <3>1. /\ req[r].pc = "store" /\ req' = [req EXCEPT ![r] = q]
          /\ influx' = influx /\ (cache' = c \/ cache' = cache)
      BY <2>7 DEF Store, Goes
    <3>2. req[r].age <= MaxQuery /\ req[r].age \in Nat
      BY <3>1, <2>0, <1>0 DEF Young, Steps
    <3>3. q \in Requested /\ q.pc = "answered" /\ q.age = req[r].age
      BY <2>0 DEF Requested, Pcs
    <3>4. Young(q)
      BY <3>2, <3>3, <1>0 DEF Young, Steps
    <3>5. c \in CacheType /\ Paid(c)
      BY <3>2, <2>0, <1>0 DEF CacheType, Paid
    <3> QED BY <3>1, <3>3, <3>4, <3>5, <1>0, RequestStep
  <2> QED BY <2>1, <2>2, <2>3, <2>4, <2>5, <2>6, <2>7 DEF Query
<1>2. CASE Write
  BY <1>2 DEF Write, StaleInv, TypeOK, Paid, Young
<1>3. CASE Tick
  <2>1. ASSUME NEW r \in Requests PROVE req'[r] \in Requested /\ Young(req'[r])
    <3>0. /\ req[r] \in Requested /\ Young(req[r]) /\ req[r].age \in Nat
          /\ req[r].spent \in 0..MaxQuery
      BY <1>0 DEF Requested
    <3>1. CASE req[r].pc \notin Steps
      BY <1>3, <3>0, <3>1 DEF Tick
    <3>2. CASE req[r].pc \in Steps
      <4> DEFINE age == IF req[r].pc \in {"cache", "latest"} THEN 0 ELSE req[r].age + 1
      <4>1. /\ req'[r] = [req[r] EXCEPT !.spent = @ + 1, !.age = age]
            /\ req[r].spent < MaxQuery
        BY <1>3, <3>2 DEF Tick
      <4>2. req[r].age <= req[r].spent
        BY <3>0, <3>2 DEF Young
      <4>3. /\ age \in Nat /\ age <= req[r].spent + 1
            /\ req[r].spent + 1 \in 0..MaxQuery
        BY <3>0, <4>1, <4>2, <1>0
      <4> HIDE DEF age
      <4>4. /\ req'[r] \in Requested /\ req'[r].pc = req[r].pc /\ req'[r].age = age
            /\ req'[r].spent = req[r].spent + 1
        BY <4>1, <4>3, <3>0 DEF Requested
      <4> QED BY <4>3, <4>4, <3>2 DEF Young, Steps
    <3> QED BY <3>1, <3>2
  <2>2. cache' \in CacheType /\ Paid(cache')
    <3>0. cache.left \in 0..TTL /\ cache.age \in Nat /\ cache.src \in Sources
      BY <1>0 DEF CacheType
    <3>1. CASE cache.left <= 1
      <4>1. cache' = [src |-> NoSource, age |-> 0, left |-> 0]
        BY <1>3, <3>1 DEF Tick
      <4> QED BY <4>1, NoSourceIs, <1>0 DEF CacheType, Paid
    <3>2. CASE ~(cache.left <= 1)
      <4>1. cache' = [cache EXCEPT !.age = @ + 1, !.left = @ - 1]
        BY <1>3, <3>2 DEF Tick
      <4>2. /\ cache'.age = cache.age + 1 /\ cache'.left = cache.left - 1
            /\ cache.left - 1 \in 0..TTL
            /\ cache.age + cache.left <= TTL + MaxQuery
        BY <4>1, <3>0, <3>2, <1>0 DEF CacheType, Paid
      <4>3. cache' \in CacheType
        <5>1. cache.age + 1 \in Nat /\ cache \in CacheType
          BY <3>0, <1>0
        <5> QED BY <4>1, <4>2, <5>1 DEF CacheType
      <4> QED BY <4>2, <4>3, <3>0, <1>0 DEF Paid
    <3> QED BY <3>1, <3>2
  <2>3. req' \in [Requests -> Requested] /\ influx' = influx
    <3>1. req' = [r \in Requests |-> req'[r]]
      BY <1>3 DEF Tick
    <3> QED BY <1>3, <2>1, <3>1 DEF Tick
  <2>4. TypeOK'
    BY <2>2, <2>3, <1>0 DEF TypeOK, CacheType, Requested, Pcs
  <2>5. Paid(cache)' /\ \A r \in Requests : Young(req[r])'
    BY <2>1, <2>2 DEF Paid, Young
  <2> QED BY <2>4, <2>5 DEF StaleInv
<1>4. CASE UNCHANGED vars
  BY <1>4 DEF vars, StaleInv, TypeOK, Paid, Young
<1> QED BY <1>1, <1>2, <1>3, <1>4 DEF Next

(* Requests, cached answer and contents stay in their types                *)
(* (campus.py 153-296).                                                    *)
THEOREM TypeCorrect == Spec => []TypeOK
<1>1. StaleInv => TypeOK
  BY DEF StaleInv
<1> QED BY <1>1, StaleInit, StaleStep, PTL DEF Spec

(* However many fills of the cache overlap, an answer is never older than  *)
(* the life of a cached one and a request's queries (campus.py 153, 279).  *)
THEOREM StalenessIsBounded == Spec => []StalenessBounded
<1>1. StaleInv => StalenessBounded
  BY DEF StaleInv, StalenessBounded, Answered, Young
<1> QED BY <1>1, StaleInit, StaleStep, PTL DEF Spec

-----------------------------------------------------------------------------
(***************************************************************************)
(* The figures of a zone are sums over its rooms.  The library defines a   *)
(* sum by a recursive function over the subsets of a set; that it exists,  *)
(* does not depend on the order of its terms and is bounded by them is     *)
(* proved by induction, written with sets: the library's own induction     *)
(* theorems take an operator.                                              *)
(***************************************************************************)
(* Induction on natural numbers, for a property given as the set of numbers
   that have it.                                                            *)
LEMMA SetInduction ==
    ASSUME NEW T, 0 \in T, \A n \in Nat : n \in T => n + 1 \in T
    PROVE  \A n \in Nat : n \in T
<1> SUFFICES ASSUME NEW k \in Nat, k \notin T PROVE FALSE
    OBVIOUS
<1> DEFINE Bad == {n \in Nat : n \notin T}
<1>1. Bad \subseteq Nat /\ Bad # {}
    OBVIOUS
<1>2. PICK n \in Bad : \A u \in Bad : ~(<<u, n>> \in OpToRel(<, Nat))
    BY <1>1, WFMin, NatLessThanWellFounded
<1>3. n \in Nat /\ n \notin T /\ n # 0
    BY <1>2
<1>4. n - 1 \in Nat /\ n - 1 < n /\ (n - 1) + 1 = n
    BY <1>3
<1>5. n - 1 \in T
    <2> SUFFICES ASSUME n - 1 \notin T PROVE FALSE
        OBVIOUS
    <2>1. n - 1 \in Bad
        BY <1>4
    <2>2. <<n - 1, n>> \notin OpToRel(<, Nat)
        BY <1>2, <2>1
    <2> QED
        BY <1>3, <1>4, <2>2 DEF OpToRel
<1> QED
    BY <1>3, <1>4, <1>5

(***************************************************************************)
(* SumFunctionOnSet takes one element after the other.                     *)
(***************************************************************************)
Pick(s) == CHOOSE x \in s : TRUE

SumOver(f, S, g) ==
    g = [s \in SUBSET S |-> IF s = {} THEN 0 ELSE f[Pick(s)] + g[s \ {Pick(s)}]]

LEMMA SumIs ==
    ASSUME NEW f, NEW S
    PROVE  SumFunctionOnSet(f, S) = (CHOOSE g : SumOver(f, S, g))[S]
    BY DEF SumFunctionOnSet, FoldFunctionOnSet, MapThenFoldSet, SumOver, Pick

LEMMA PickIn == \A s : s # {} => Pick(s) \in s
    BY DEF Pick

\* The same for the subsets of n elements at most.
Layer(S, n) == {s \in SUBSET S : Cardinality(s) <= n}
SumWithin(f, S, n, g) ==
    g = [s \in Layer(S, n) |-> IF s = {} THEN 0 ELSE f[Pick(s)] + g[s \ {Pick(s)}]]

(* Removing an element from a subset of a finite set.                       *)
LEMMA SubsetCard ==
    ASSUME NEW S, IsFiniteSet(S), NEW s \in SUBSET S
    PROVE  /\ IsFiniteSet(s) /\ Cardinality(s) \in Nat
           /\ Cardinality(s) <= Cardinality(S)
           /\ Cardinality(s) = 0 <=> s = {}
           /\ \A x \in s : /\ s \ {x} \in SUBSET S
                           /\ Cardinality(s \ {x}) = Cardinality(s) - 1
<1>1. IsFiniteSet(s) /\ Cardinality(s) <= Cardinality(S)
    BY FS_Subset
<1>2. Cardinality(s) \in Nat
    BY <1>1, FS_CardinalityType
<1>3. Cardinality(s) = 0 <=> s = {}
    BY <1>1, FS_EmptySet
<1>4. \A x \in s : Cardinality(s \ {x}) = Cardinality(s) - 1
    BY <1>1, FS_RemoveElement
<1> QED
    BY <1>1, <1>2, <1>3, <1>4

(* The recursive function the sum is defined by exists, layer by layer, ...  *)
LEMMA SumExists ==
    ASSUME NEW f, NEW S, IsFiniteSet(S)
    PROVE  \E g : SumOver(f, S, g)
<1> DEFINE T == {n \in Nat : \E g : SumWithin(f, S, n, g)}
<1>1. 0 \in T
    <2> DEFINE g == [s \in Layer(S, 0) |-> 0]
    <2>1. \A s \in Layer(S, 0) : s = {}
        BY SubsetCard DEF Layer
    <2>2. SumWithin(f, S, 0, g)
        BY <2>1 DEF SumWithin
    <2> QED
        BY <2>2
<1>2. ASSUME NEW n \in Nat, n \in T PROVE n + 1 \in T
    <2>1. PICK g : SumWithin(f, S, n, g)
        BY <1>2
    <2> DEFINE h == [s \in Layer(S, n + 1) |->
                       IF s = {} THEN 0 ELSE f[Pick(s)] + g[s \ {Pick(s)}]]
    <2>2. ASSUME NEW s \in Layer(S, n) PROVE s \in Layer(S, n + 1) /\ h[s] = g[s]
        <3>1. s \in Layer(S, n + 1)
            <4>1. Cardinality(s) \in Nat /\ Cardinality(s) <= n /\ s \in SUBSET S
                BY <2>2, SubsetCard DEF Layer
            <4> QED
                BY <4>1 DEF Layer
        <3>2. g[s] = IF s = {} THEN 0 ELSE f[Pick(s)] + g[s \ {Pick(s)}]
            BY <2>1 DEF SumWithin
        <3> QED
            BY <3>1, <3>2
    <2>3. ASSUME NEW s \in Layer(S, n + 1), s # {} PROVE s \ {Pick(s)} \in Layer(S, n)
        <3>1. s \in SUBSET S /\ Cardinality(s) <= n + 1 /\ Pick(s) \in s
            BY <2>3, PickIn DEF Layer
        <3>2. /\ Cardinality(s) \in Nat /\ s \ {Pick(s)} \in SUBSET S
              /\ Cardinality(s \ {Pick(s)}) = Cardinality(s) - 1
            BY <3>1, SubsetCard
        <3> QED
            BY <3>1, <3>2 DEF Layer
    <2>4. h = [s \in Layer(S, n + 1) |->
                 IF s = {} THEN 0 ELSE f[Pick(s)] + h[s \ {Pick(s)}]]
        <3>1. \A s \in Layer(S, n + 1) : s # {} => h[s \ {Pick(s)}] = g[s \ {Pick(s)}]
            BY <2>2, <2>3
        <3> HIDE DEF h
        <3>2. h = [s \in Layer(S, n + 1) |->
                     IF s = {} THEN 0 ELSE f[Pick(s)] + g[s \ {Pick(s)}]]
            BY DEF h
        <3> QED
            BY <3>1, <3>2
    <2>5. SumWithin(f, S, n + 1, h)
        BY <2>4 DEF SumWithin
    <2> QED
        BY <2>5
<1> HIDE DEF T
<1>3. Cardinality(S) \in T
    BY <1>1, <1>2, SetInduction, FS_CardinalityType
<1>4. PICK g : SumWithin(f, S, Cardinality(S), g)
    BY <1>3 DEF T
<1>5. Layer(S, Cardinality(S)) = SUBSET S
    BY SubsetCard DEF Layer
<1> QED
    BY <1>4, <1>5 DEF SumWithin, SumOver

(* ... and is the same on the subsets of a smaller set.                      *)
LEMMA SumUnique ==
    ASSUME NEW f, NEW S, IsFiniteSet(S), NEW R, R \subseteq S,
           NEW g, SumOver(f, S, g), NEW h, SumOver(f, R, h)
    PROVE  h[R] = g[R]
<1> DEFINE T == {n \in Nat : \A s \in SUBSET R : Cardinality(s) = n => h[s] = g[s]}
<1>1. ASSUME NEW s \in SUBSET R
      PROVE  /\ g[s] = IF s = {} THEN 0 ELSE f[Pick(s)] + g[s \ {Pick(s)}]
             /\ h[s] = IF s = {} THEN 0 ELSE f[Pick(s)] + h[s \ {Pick(s)}]
    <2>1. s \in SUBSET S
        OBVIOUS
    <2> QED
        BY <2>1 DEF SumOver
<1>2. IsFiniteSet(R)
    BY FS_Subset
<1>3. 0 \in T
    <2>1. ASSUME NEW s \in SUBSET R, Cardinality(s) = 0 PROVE h[s] = g[s]
        <3>1. s = {}
            BY <1>2, <2>1, SubsetCard
        <3> QED
            BY <1>1, <3>1
    <2> QED
        BY <2>1
<1>4. ASSUME NEW n \in Nat, n \in T PROVE n + 1 \in T
    <2>1. ASSUME NEW s \in SUBSET R, Cardinality(s) = n + 1 PROVE h[s] = g[s]
        <3>1. s # {}
            BY <1>2, <2>1, SubsetCard
        <3>2. /\ s \ {Pick(s)} \in SUBSET R
              /\ Cardinality(s \ {Pick(s)}) = Cardinality(s) - 1
            BY <1>2, <3>1, SubsetCard, PickIn
        <3>3. Cardinality(s \ {Pick(s)}) = n
            BY <2>1, <3>2
        <3>4. h[s \ {Pick(s)}] = g[s \ {Pick(s)}]
            BY <1>4, <3>2, <3>3
        <3> QED
            BY <1>1, <3>1, <3>4
    <2> QED
        BY <2>1
<1> HIDE DEF T
<1>5. Cardinality(R) \in T
    BY <1>2, <1>3, <1>4, SetInduction, FS_CardinalityType
<1> QED
    BY <1>5 DEF T

(* So the sum of a set is one element and the sum of the rest.              *)
LEMMA SumPick ==
    ASSUME NEW f, NEW S, IsFiniteSet(S), S # {}
    PROVE  SumFunctionOnSet(f, S) = f[Pick(S)] + SumFunctionOnSet(f, S \ {Pick(S)})
<1> DEFINE R == S \ {Pick(S)}
           g == CHOOSE g : SumOver(f, S, g)
           h == CHOOSE h : SumOver(f, R, h)
<1>1. IsFiniteSet(R) /\ R \subseteq S
    BY FS_Subset
<1>2. SumOver(f, S, g)
    BY SumExists
<1>3. SumOver(f, R, h)
    BY <1>1, SumExists
<1>4. SumFunctionOnSet(f, S) = g[S] /\ SumFunctionOnSet(f, R) = h[R]
    BY SumIs
<1> HIDE DEF g, h
<1>5. g[S] = f[Pick(S)] + g[R]
    BY <1>2 DEF SumOver
<1>6. h[R] = g[R]
    BY <1>1, <1>2, <1>3, SumUnique
<1> QED
    BY <1>4, <1>5, <1>6

LEMMA SumEmpty ==
    ASSUME NEW f
    PROVE  SumFunctionOnSet(f, {}) = 0
<1>1. IsFiniteSet({})
    BY FS_EmptySet
<1> DEFINE g == CHOOSE g : SumOver(f, {}, g)
<1>2. SumOver(f, {}, g)
    BY <1>1, SumExists
<1>3. SumFunctionOnSet(f, {}) = g[{}]
    BY SumIs
<1> HIDE DEF g
<1> QED
    BY <1>2, <1>3 DEF SumOver

(* Induction on a finite set, for a property given as the set of subsets
   that have it.                                                            *)
LEMMA SubsetInduction ==
    ASSUME NEW S, IsFiniteSet(S), NEW P, {} \in P,
           \A s \in SUBSET S : s # {} /\ (\A x \in s : s \ {x} \in P) => s \in P
    PROVE  \A s \in SUBSET S : s \in P
<1> DEFINE T == {n \in Nat : \A s \in SUBSET S : Cardinality(s) = n => s \in P}
<1>1. 0 \in T
    <2>1. \A s \in SUBSET S : Cardinality(s) = 0 => s = {}
        BY SubsetCard
    <2> QED
        BY <2>1
<1>2. ASSUME NEW n \in Nat, n \in T PROVE n + 1 \in T
    <2>1. ASSUME NEW s \in SUBSET S, Cardinality(s) = n + 1 PROVE s \in P
        <3>1. s # {}
            BY <2>1, SubsetCard
        <3>2. ASSUME NEW x \in s PROVE s \ {x} \in P
            <4>1. s \ {x} \in SUBSET S /\ Cardinality(s \ {x}) = Cardinality(s) - 1
                BY SubsetCard
            <4>2. Cardinality(s \ {x}) = n
                BY <2>1, <4>1
            <4> QED
                BY <1>2, <4>1, <4>2
        <3> QED
            BY <3>1, <3>2
    <2> QED
        BY <2>1
<1> HIDE DEF T
<1>3. \A n \in Nat : n \in T
    BY <1>1, <1>2, SetInduction
<1>4. ASSUME NEW s \in SUBSET S PROVE s \in P
    <2>1. Cardinality(s) \in Nat
        BY SubsetCard
    <2>2. Cardinality(s) \in T
        BY <1>3, <2>1
    <2> QED
        BY <2>2 DEF T
<1> QED
    BY <1>4

LEMMA SumInteger ==
    ASSUME NEW f, NEW S, IsFiniteSet(S), \A y \in S : f[y] \in Int
    PROVE  \A s \in SUBSET S : SumFunctionOnSet(f, s) \in Int
<1> DEFINE P == {s \in SUBSET S : SumFunctionOnSet(f, s) \in Int}
<1>1. {} \in P
    BY SumEmpty
<1>2. ASSUME NEW s \in SUBSET S, s # {}, \A x \in s : s \ {x} \in P PROVE s \in P
    <2>1. IsFiniteSet(s)
        BY FS_Subset
    <2>2. Pick(s) \in s
        BY <1>2, PickIn
    <2>3. SumFunctionOnSet(f, s) = f[Pick(s)] + SumFunctionOnSet(f, s \ {Pick(s)})
        BY <1>2, <2>1, SumPick
    <2>4. f[Pick(s)] \in Int /\ SumFunctionOnSet(f, s \ {Pick(s)}) \in Int
        BY <1>2, <2>2
    <2> QED
        BY <2>3, <2>4
<1> HIDE DEF P
<1>3. \A s \in SUBSET S : s \in P
    BY <1>1, <1>2, SubsetInduction
<1> QED
    BY <1>3 DEF P

(* The element taken out may be any one.                                    *)
LEMMA SumRemove ==
    ASSUME NEW f, NEW S, IsFiniteSet(S), \A y \in S : f[y] \in Int
    PROVE  \A s \in SUBSET S : \A x \in s :
             SumFunctionOnSet(f, s) = f[x] + SumFunctionOnSet(f, s \ {x})
<1> DEFINE P == {s \in SUBSET S : \A x \in s :
                   SumFunctionOnSet(f, s) = f[x] + SumFunctionOnSet(f, s \ {x})}
<1>1. {} \in P
    OBVIOUS
<1>2. ASSUME NEW s \in SUBSET S, s # {}, \A x \in s : s \ {x} \in P PROVE s \in P
    <2> SUFFICES ASSUME NEW x \in s
                 PROVE  SumFunctionOnSet(f, s) = f[x] + SumFunctionOnSet(f, s \ {x})
        OBVIOUS
    <2> DEFINE c == Pick(s)
               rest == (s \ {c}) \ {x}
    <2>1. IsFiniteSet(s) /\ c \in s
        BY <1>2, FS_Subset, PickIn
    <2>2. SumFunctionOnSet(f, s) = f[c] + SumFunctionOnSet(f, s \ {c})
        BY <1>2, <2>1, SumPick
    <2>3. CASE x = c
        BY <2>2, <2>3
    <2>4. CASE x # c
        <3> HIDE DEF c
        <3>1. SumFunctionOnSet(f, s \ {c}) = f[x] + SumFunctionOnSet(f, rest)
            <4>1. x \in s \ {c} /\ s \ {c} \in P
                BY <1>2, <2>1, <2>4
            <4> QED
                BY <4>1
        <3>2. SumFunctionOnSet(f, s \ {x}) = f[c] + SumFunctionOnSet(f, rest)
            <4>1. c \in s \ {x} /\ s \ {x} \in P /\ (s \ {x}) \ {c} = rest
                BY <1>2, <2>1, <2>4
            <4> QED
                BY <4>1
        <3>3. /\ f[x] \in Int /\ f[c] \in Int
              /\ SumFunctionOnSet(f, rest) \in Int
            BY <2>1, SumInteger
        <3> HIDE DEF rest
        <3> QED
            BY <2>2, <3>1, <3>2, <3>3
    <2> QED
        BY <2>3, <2>4
<1> HIDE DEF P
<1>3. \A s \in SUBSET S : s \in P
    BY <1>1, <1>2, SubsetInduction
<1> QED
    BY <1>3 DEF P

(* What is left of a sum when one value changes, its bounds, and a sum of
   part of the terms of another.                                            *)
LEMMA SumSame ==
    ASSUME NEW f, NEW g, NEW S, IsFiniteSet(S), \A y \in S : f[y] = g[y]
    PROVE  SumFunctionOnSet(f, S) = SumFunctionOnSet(g, S)
<1> DEFINE P == {s \in SUBSET S : SumFunctionOnSet(f, s) = SumFunctionOnSet(g, s)}
<1>1. {} \in P
    BY SumEmpty
<1>2. ASSUME NEW s \in SUBSET S, s # {}, \A x \in s : s \ {x} \in P PROVE s \in P
    <2>1. IsFiniteSet(s) /\ Pick(s) \in s
        BY <1>2, FS_Subset, PickIn
    <2>2. /\ SumFunctionOnSet(f, s) = f[Pick(s)] + SumFunctionOnSet(f, s \ {Pick(s)})
          /\ SumFunctionOnSet(g, s) = g[Pick(s)] + SumFunctionOnSet(g, s \ {Pick(s)})
        BY <1>2, <2>1, SumPick
    <2>3. f[Pick(s)] = g[Pick(s)]
        BY <2>1
    <2>4. SumFunctionOnSet(f, s \ {Pick(s)}) = SumFunctionOnSet(g, s \ {Pick(s)})
        BY <1>2, <2>1
    <2> QED
        BY <2>2, <2>3, <2>4
<1> HIDE DEF P
<1>3. \A s \in SUBSET S : s \in P
    BY <1>1, <1>2, SubsetInduction
<1> QED
    BY <1>3 DEF P

LEMMA Distributes ==
    ASSUME NEW n \in Int, NEW a \in Int
    PROVE  n * a = a + (n - 1) * a /\ n * a \in Int /\ (n - 1) * a \in Int
    OBVIOUS

LEMMA SumBounded ==
    ASSUME NEW f, NEW S, IsFiniteSet(S), NEW lo \in Int, NEW hi \in Int,
           \A y \in S : f[y] \in Int /\ lo <= f[y] /\ f[y] <= hi
    PROVE  /\ Cardinality(S) * lo <= SumFunctionOnSet(f, S)
           /\ SumFunctionOnSet(f, S) <= Cardinality(S) * hi
<1> DEFINE P == {s \in SUBSET S : /\ Cardinality(s) * lo <= SumFunctionOnSet(f, s)
                                  /\ SumFunctionOnSet(f, s) <= Cardinality(s) * hi}
<1>1. {} \in P
    BY SumEmpty, FS_EmptySet
<1>2. ASSUME NEW s \in SUBSET S, s # {}, \A x \in s : s \ {x} \in P PROVE s \in P
    <2> DEFINE c == Pick(s)
               n == Cardinality(s)
               k == Cardinality(s \ {c})
               sum == SumFunctionOnSet(f, s)
               rest == SumFunctionOnSet(f, s \ {c})
    <2>1. IsFiniteSet(s) /\ c \in s
        BY <1>2, FS_Subset, PickIn
    <2>2. sum = f[c] + rest
        BY <1>2, <2>1, SumPick
    <2>3. n \in Int /\ k = n - 1
        BY <2>1, SubsetCard
    <2>4. rest \in Int
        BY <2>1, SumInteger
    <2>5. f[c] \in Int /\ lo <= f[c] /\ f[c] <= hi
        BY <2>1
    <2>6. k * lo <= rest /\ rest <= k * hi
        BY <1>2, <2>1
    <2> DEFINE a == f[c]
    <2>7. sum = a + rest /\ a \in Int /\ lo <= a /\ a <= hi
        BY <2>2, <2>5
    <2> HIDE DEF a, c, n, k, sum, rest
    <2>8. n * lo = lo + (n - 1) * lo /\ n * lo \in Int /\ (n - 1) * lo \in Int
        BY <2>3, Distributes
    <2>9. n * hi = hi + (n - 1) * hi /\ n * hi \in Int /\ (n - 1) * hi \in Int
        BY <2>3, Distributes
    <2>10. n * lo <= sum /\ sum <= n * hi
        <3> DEFINE nl == n * lo  nh == n * hi  kl == (n - 1) * lo  kh == (n - 1) * hi
        <3>1. /\ nl = lo + kl /\ nh = hi + kh /\ {nl, nh, kl, kh} \subseteq Int
              /\ kl <= rest /\ rest <= kh
            BY <2>3, <2>6, <2>8, <2>9
        <3> HIDE DEF nl, nh, kl, kh
        <3>2. nl <= sum /\ sum <= nh
            BY <2>4, <2>7, <3>1
        <3> QED
            BY <3>2 DEF nl, nh
    <2> QED
        BY <2>10 DEF n, sum
<1> HIDE DEF P
<1>3. \A s \in SUBSET S : s \in P
    BY <1>1, <1>2, SubsetInduction
<1> QED
    BY <1>3 DEF P

LEMMA SumOfPart ==
    ASSUME NEW f, NEW g, NEW S, IsFiniteSet(S), NEW R, R \subseteq S,
           \A y \in S : g[y] \in Nat, \A y \in R : f[y] \in Int /\ f[y] <= g[y]
    PROVE  SumFunctionOnSet(f, R) <= SumFunctionOnSet(g, S)
<1> DEFINE P == {s \in SUBSET S : SumFunctionOnSet(f, s \cap R) <= SumFunctionOnSet(g, s)}
<1>1. {} \in P
    <2>1. {} \cap R = {}
        OBVIOUS
    <2> QED
        BY <2>1, SumEmpty
<1>2. ASSUME NEW s \in SUBSET S, s # {}, \A x \in s : s \ {x} \in P PROVE s \in P
    <2> DEFINE c == Pick(s)
               sumF == SumFunctionOnSet(f, s \cap R)
               sumG == SumFunctionOnSet(g, s)
               restF == SumFunctionOnSet(f, (s \ {c}) \cap R)
               restG == SumFunctionOnSet(g, s \ {c})
    <2>1. IsFiniteSet(s) /\ IsFiniteSet(R) /\ c \in s
        BY <1>2, FS_Subset, PickIn
    <2>2. sumG = g[c] + restG
        BY <1>2, <2>1, SumPick
    <2>3. c \in R => sumF = f[c] + restF
        <3>1. s \cap R \in SUBSET R /\ (s \ {c}) \cap R = (s \cap R) \ {c}
            OBVIOUS
        <3> QED
            BY <2>1, <3>1, SumRemove
    <2>4. c \notin R => sumF = restF
        <3>1. c \notin R => (s \ {c}) \cap R = s \cap R
            OBVIOUS
        <3> QED
            BY <3>1
    <2>5. restF <= restG
        BY <1>2, <2>1
    <2>6. g[c] \in Nat /\ (c \in R => f[c] \in Int /\ f[c] <= g[c])
        BY <2>1
    <2>7. restF \in Int /\ restG \in Int
        <3>1. restF \in Int
            <4>1. (s \ {c}) \cap R \in SUBSET R
                OBVIOUS
            <4> QED
                BY <2>1, <4>1, SumInteger
        <3>2. restG \in Int
            <4>1. s \ {c} \in SUBSET S /\ \A y \in S : g[y] \in Int
                OBVIOUS
            <4> QED
                BY <4>1, SumInteger
        <3> QED
            BY <3>1, <3>2
    <2> DEFINE a == f[c]
               b == g[c]
    <2>8. /\ b \in Nat /\ (c \in R => a \in Int /\ a <= b)
          /\ sumG = b + restG /\ (c \in R => sumF = a + restF)
        BY <2>2, <2>3, <2>6
    <2> HIDE DEF sumF, sumG, restF, restG, a, b, c
    <2>9. sumF <= sumG
        BY <2>4, <2>5, <2>7, <2>8
    <2> QED
        BY <2>9 DEF sumF, sumG
<1> HIDE DEF P
<1>3. \A s \in SUBSET S : s \in P
    BY <1>1, <1>2, SubsetInduction
<1>4. S \cap R = R
    OBVIOUS
<1> QED
    BY <1>3, <1>4 DEF P

(* Finitely many readings have a highest and a lowest.                      *)
LEMMA Extremes ==
    ASSUME NEW f, NEW S, IsFiniteSet(S), S # {}, \A y \in S : f[y] \in Int
    PROVE  /\ \E z \in S : \A y \in S : f[y] <= f[z]
           /\ \E z \in S : \A y \in S : f[z] <= f[y]
<1> DEFINE P == {s \in SUBSET S : s # {} =>
                   /\ \E z \in s : \A y \in s : f[y] <= f[z]
                   /\ \E z \in s : \A y \in s : f[z] <= f[y]}
<1>1. {} \in P
    OBVIOUS
<1>2. ASSUME NEW s \in SUBSET S, s # {}, \A x \in s : s \ {x} \in P PROVE s \in P
    <2>1. PICK c \in s : TRUE
        BY <1>2
    <2>2. CASE s \ {c} = {}
        <3>1. \A y \in s : y = c
            BY <2>2
        <3> QED
            BY <3>1
    <2>3. CASE s \ {c} # {}
        <3>1. PICK z \in s \ {c} : \A y \in s \ {c} : f[y] <= f[z]
            BY <1>2, <2>1, <2>3
        <3>2. PICK w \in s \ {c} : \A y \in s \ {c} : f[w] <= f[y]
            BY <1>2, <2>1, <2>3
        <3>3. f[c] \in Int /\ f[z] \in Int /\ f[w] \in Int
            OBVIOUS
        <3>4. \E q \in s : \A y \in s : f[y] <= f[q]
            <4>1. CASE f[c] <= f[z]
                <5>1. \A y \in s : f[y] <= f[z]
                    BY <3>1, <4>1
                <5> QED
                    BY <5>1
            <4>2. CASE ~(f[c] <= f[z])
                <5>1. ASSUME NEW y \in s PROVE f[y] <= f[c]
                    <6>1. f[y] \in Int /\ (y # c => f[y] <= f[z])
                        BY <3>1
                    <6> QED
                        BY <3>3, <4>2, <6>1
                <5> QED
                    BY <5>1
            <4> QED
                BY <4>1, <4>2
        <3>5. \E q \in s : \A y \in s : f[q] <= f[y]
            <4>1. CASE f[w] <= f[c]
                <5>1. \A y \in s : f[w] <= f[y]
                    BY <3>2, <4>1
                <5> QED
                    BY <5>1
            <4>2. CASE ~(f[w] <= f[c])
                <5>1. ASSUME NEW y \in s PROVE f[c] <= f[y]
                    <6>1. f[y] \in Int /\ (y # c => f[w] <= f[y])
                        BY <3>2
                    <6> QED
                        BY <3>3, <4>2, <6>1
                <5> QED
                    BY <5>1
            <4> QED
                BY <4>1, <4>2
        <3> QED
            BY <3>4, <3>5
    <2> QED
        BY <2>2, <2>3
<1> HIDE DEF P
<1>3. S \in P
    BY ZenonT(40), <1>1, <1>2, SubsetInduction
<1> QED
    BY <1>3 DEF P

LEMMA MaxMin ==
    ASSUME NEW f, NEW S, IsFiniteSet(S), S # {}, \A y \in S : f[y] \in Int
    PROVE  /\ \E z \in S : Max({f[y] : y \in S}) = f[z] /\ \A y \in S : f[y] <= f[z]
           /\ \E z \in S : Min({f[y] : y \in S}) = f[z] /\ \A y \in S : f[z] <= f[y]
<1> DEFINE V == {f[y] : y \in S}
<1>1. \E v \in V : \A u \in V : v >= u
    <2>1. PICK z \in S : \A y \in S : f[y] <= f[z]
        BY Extremes
    <2>2. \A y \in S : f[z] >= f[y]
        BY <2>1
    <2> QED
        BY <2>2
<1>2. \E v \in V : \A u \in V : v =< u
    BY Extremes
<1>3. Max(V) \in V /\ \A u \in V : Max(V) >= u
    BY <1>1 DEF Max
<1>4. Min(V) \in V /\ \A u \in V : Min(V) =< u
    BY <1>2 DEF Min
<1>5. PICK z \in S : Max(V) = f[z]
    BY <1>3
<1>6. PICK w \in S : Min(V) = f[w]
    BY <1>4
<1>7. \A y \in S : f[y] <= f[z]
    BY <1>3, <1>5
<1>8. \A y \in S : f[w] <= f[y]
    BY <1>4, <1>6
<1> QED
    BY <1>5, <1>6, <1>7, <1>8

LEMMA Multiplies ==
    ASSUME NEW k \in Nat, NEW a \in Int, NEW b \in Int, a <= b
    PROVE  k * a <= k * b /\ k * a \in Int /\ k * b \in Int
    OBVIOUS

(* round(a / k) of what lies between k times two numbers lies between them. *)
LEMMA RoundedBetween ==
    ASSUME NEW k \in Nat, k > 0, NEW a \in Int, NEW lo \in Int, NEW hi \in Int,
           k * lo <= a, a <= k * hi
    PROVE  Rounded(a, k) \in lo .. hi
<1> DEFINE b == 2 * k
           p == 2 * a + k
           q == p \div b
<1>1. b \in Nat /\ b > 0 /\ p \in Int
    OBVIOUS
<1>2. q \in Int /\ b * q <= p /\ p < b * (q + 1)
    <2> HIDE DEF b, p
    <2>1. q \in Int /\ p = b * q + (p % b) /\ p % b \in 0 .. b - 1
        BY <1>1
    <2>2. b * (q + 1) = b * q + b /\ b * q \in Int
        BY <1>1, <2>1
    <2> QED
        BY <1>1, <2>1, <2>2
<1>3. Rounded(a, k) = q
    BY DEF Rounded
<1> HIDE DEF q
<1>4. k * lo \in Int /\ k * hi \in Int /\ b * lo = 2 * (k * lo) /\ b * hi = 2 * (k * hi)
    OBVIOUS
<1>5. b * lo <= p /\ p < b * hi + b /\ b * lo \in Int /\ b * hi \in Int
    BY <1>4
<1>6. b * (hi + 1) = b * hi + b
    BY <1>1
<1> HIDE DEF b, p
<1>7. lo <= q
    <2> SUFFICES ASSUME q + 1 <= lo PROVE FALSE
        BY <1>2
    <2>1. b * (q + 1) <= b * lo /\ b * (q + 1) \in Int
        BY <1>1, <1>2, Multiplies
    <2> QED
        BY <1>1, <1>2, <1>5, <2>1
<1>8. q <= hi
    <2> SUFFICES ASSUME hi + 1 <= q PROVE FALSE
        BY <1>2
    <2>1. b * (hi + 1) <= b * q /\ b * (hi + 1) \in Int /\ b * q \in Int
        BY <1>1, <1>2, Multiplies
    <2> QED
        BY <1>1, <1>2, <1>5, <1>6, <2>1
<1> QED
    BY <1>2, <1>3, <1>7, <1>8

(***************************************************************************)
(* One broken sensor: its reading is x's, spike.                           *)
(***************************************************************************)
LEMMA SpikedSum ==
    ASSUME NEW D, IsFiniteSet(D), NEW f, NEW x \in D, NEW g, \A y \in D : g[y] \in Int,
           \A y \in D \ {x} : g[y] = f[y]
    PROVE  SumFunctionOnSet(g, D) = g[x] + SumFunctionOnSet(f, D \ {x})
<1>1. SumFunctionOnSet(g, D) = g[x] + SumFunctionOnSet(g, D \ {x})
    <2>1. D \in SUBSET D
        OBVIOUS
    <2> QED
        BY <2>1, SumRemove
<1>2. IsFiniteSet(D \ {x})
    BY FS_RemoveElement
<1>3. SumFunctionOnSet(g, D \ {x}) = SumFunctionOnSet(f, D \ {x})
    BY <1>2, SumSame
<1> QED
    BY <1>1, <1>3

(* A sum without one of its terms.                                          *)
LEMMA Removed ==
    ASSUME NEW R, IsFiniteSet(R), NEW f, \A y \in R : f[y] \in Int, NEW z \in R,
           NEW lo \in Int, NEW hi \in Int, \A y \in R : lo <= f[y] /\ f[y] <= hi
    PROVE  LET k == Cardinality(R) - 1
           IN  /\ Cardinality(R \ {z}) = k /\ IsFiniteSet(R \ {z}) /\ k \in Nat
               /\ SumFunctionOnSet(f, R) = f[z] + SumFunctionOnSet(f, R \ {z})
               /\ SumFunctionOnSet(f, R \ {z}) \in Int
               /\ k * lo <= SumFunctionOnSet(f, R \ {z})
               /\ SumFunctionOnSet(f, R \ {z}) <= k * hi
<1>1. IsFiniteSet(R \ {z}) /\ Cardinality(R \ {z}) = Cardinality(R) - 1
    BY FS_RemoveElement
<1>2. Cardinality(R \ {z}) \in Nat
    BY <1>1, FS_CardinalityType
<1>3. SumFunctionOnSet(f, R) = f[z] + SumFunctionOnSet(f, R \ {z})
    BY SumRemove
<1>4. SumFunctionOnSet(f, R \ {z}) \in Int
    <2>1. R \ {z} \in SUBSET R
        OBVIOUS
    <2> QED
        BY <2>1, SumInteger
<1>5. /\ Cardinality(R \ {z}) * lo <= SumFunctionOnSet(f, R \ {z})
      /\ SumFunctionOnSet(f, R \ {z}) <= Cardinality(R \ {z}) * hi
    <2>1. \A y \in R \ {z} : f[y] \in Int /\ lo <= f[y] /\ f[y] <= hi
        OBVIOUS
    <2> QED
        BY <1>1, <2>1, SumBounded
<1> QED
    BY <1>1, <1>2, <1>3, <1>4, <1>5

(* Without the highest and the lowest reading the mean lies between the
   other sensors' readings, whether the spike is one of the two or not.     *)
LEMMA TemperatureContained ==
    ASSUME NEW D, IsFiniteSet(D), Cardinality(D) >= 4, NEW f \in [D -> Int],
           NEW x \in D, NEW spike \in Int
    PROVE  LET others == {f[y] : y \in D \ {x}}
           IN  Temperature([f EXCEPT ![x] = spike]) \in Min(others) .. Max(others)
<1> DEFINE g == [f EXCEPT ![x] = spike]
           R == D \ {x}
           n == Cardinality(D)
           hi == Max({f[y] : y \in R})
           lo == Min({f[y] : y \in R})
           M == Max({g[y] : y \in D})
           m == Min({g[y] : y \in D})
           sum == SumFunctionOnSet(f, R)
           trimmed == spike + sum - M - m
<1>1. n \in Nat /\ IsFiniteSet(R) /\ Cardinality(R) = n - 1 /\ R # {}
    <2>1. n \in Nat /\ IsFiniteSet(R) /\ Cardinality(R) = n - 1
        BY FS_CardinalityType, FS_RemoveElement
    <2> QED
        BY <2>1, FS_EmptySet
<1>2. /\ g \in [D -> Int] /\ g[x] = spike /\ \A y \in R : g[y] = f[y]
      /\ SumFunctionOnSet(g, D) = spike + sum
    <2>1. g \in [D -> Int] /\ g[x] = spike /\ \A y \in D \ {x} : g[y] = f[y]
        OBVIOUS
    <2> HIDE DEF g
    <2>2. \A y \in D : g[y] \in Int
        BY <2>1
    <2>3. SumFunctionOnSet(g, D) = g[x] + SumFunctionOnSet(f, D \ {x})
        BY <2>1, <2>2, SpikedSum
    <2> QED
        BY <2>1, <2>3
<1>3. \A y \in R : f[y] \in Int
    OBVIOUS
<1>4. PICK z \in R : hi = f[z] /\ \A y \in R : f[y] <= f[z]
    BY <1>1, <1>3, MaxMin
<1>5. PICK w \in R : lo = f[w] /\ \A y \in R : f[w] <= f[y]
    BY <1>1, <1>3, MaxMin
<1>6. \A y \in D : g[y] \in Int
    BY <1>2
<1> HIDE DEF g, hi, lo
<1>7. PICK top \in D : M = g[top] /\ \A y \in D : g[y] <= g[top]
    BY <1>6, MaxMin
<1>8. PICK low \in D : m = g[low] /\ \A y \in D : g[low] <= g[y]
    BY <1>6, MaxMin
<1>9. hi \in Int /\ lo \in Int /\ M \in Int /\ m \in Int /\ lo <= hi
    BY <1>3, <1>4, <1>5, <1>6, <1>7, <1>8
<1> HIDE DEF M, m
<1>10. spike <= M /\ hi <= M /\ (M = spike \/ M <= hi)
    <2>1. z \in D /\ g[z] = hi /\ g[z] <= M
        BY <1>2, <1>4, <1>7
    <2>2. g[x] <= M /\ g[x] = spike
        BY <1>2, <1>7
    <2>3. top = x \/ (top \in R /\ M = f[top])
        BY <1>2, <1>7
    <2>4. top \in R => f[top] <= hi
        BY <1>4
    <2> QED
        BY <1>2, <1>7, <2>1, <2>2, <2>3, <2>4
<1>11. m <= spike /\ m <= lo /\ (m = spike \/ lo <= m)
    <2>1. w \in D /\ g[w] = lo /\ m <= g[w]
        BY <1>2, <1>5, <1>8
    <2>2. m <= g[x] /\ g[x] = spike
        BY <1>2, <1>8
    <2>3. low = x \/ (low \in R /\ m = f[low])
        BY <1>2, <1>8
    <2>4. low \in R => lo <= f[low]
        BY <1>5
    <2> QED
        BY <1>2, <1>8, <2>1, <2>2, <2>3, <2>4
<1>12. \A y \in R : lo <= f[y] /\ f[y] <= hi
    BY <1>4, <1>5
<1> DEFINE k == n - 2
           withoutZ == SumFunctionOnSet(f, R \ {z})
           withoutW == SumFunctionOnSet(f, R \ {w})
           without == SumFunctionOnSet(f, (R \ {z}) \ {w})
<1>13. k \in Nat /\ k > 0
    BY <1>1
<1>14. /\ sum = hi + withoutZ /\ withoutZ \in Int /\ k * lo <= withoutZ /\ withoutZ <= k * hi
       /\ Cardinality(R \ {z}) = k /\ IsFiniteSet(R \ {z})
    <2>1. Cardinality(R) - 1 = k
        BY <1>1
    <2> HIDE DEF k, n, R
    <2> QED
        BY <1>1, <1>3, <1>4, <1>9, <1>12, <2>1, Removed
<1>15. sum = lo + withoutW /\ withoutW \in Int /\ k * lo <= withoutW /\ withoutW <= k * hi
    <2>1. Cardinality(R) - 1 = k
        BY <1>1
    <2> HIDE DEF k, n, R
    <2> QED
        BY <1>1, <1>3, <1>5, <1>9, <1>12, <2>1, Removed
<1>16. z # w => /\ withoutZ = lo + without /\ without \in Int
                /\ (k - 1) * lo <= without /\ without <= (k - 1) * hi
    <2> SUFFICES ASSUME z # w
                 PROVE  /\ withoutZ = lo + without /\ without \in Int
                        /\ (k - 1) * lo <= without /\ without <= (k - 1) * hi
        OBVIOUS
    <2> DEFINE Q == R \ {z}
    <2>1. /\ w \in Q /\ IsFiniteSet(Q) /\ Cardinality(Q) = k
          /\ \A y \in Q : f[y] \in Int
          /\ \A y \in Q : lo <= f[y] /\ f[y] <= hi
        BY <1>3, <1>12, <1>14
    <2>2. SumFunctionOnSet(f, Q) = withoutZ /\ SumFunctionOnSet(f, Q \ {w}) = without
        OBVIOUS
    <2>3. f[w] = lo
        BY <1>5
    <2> HIDE DEF k, n, Q, withoutZ, without
    <2> QED
        BY <1>9, <2>1, <2>2, <2>3, Removed
<1> HIDE DEF sum, withoutZ, withoutW, without, k
<1>17. k * lo <= trimmed /\ trimmed <= k * hi /\ trimmed \in Int
    <2> DEFINE kl == k * lo  kh == k * hi  pl == (k - 1) * lo  ph == (k - 1) * hi
    <2>1. kl = lo + pl /\ kh = hi + ph /\ {kl, kh, pl, ph} \subseteq Int
        BY <1>9, <1>13, Distributes
    <2>2. kl <= withoutZ /\ withoutZ <= kh /\ kl <= withoutW /\ withoutW <= kh
        BY <1>14, <1>15
    <2>3. z # w => pl <= without /\ without <= ph
        BY <1>16
    <2>4. sum \in Int
        BY <1>9, <1>14
    <2>5. lo # hi => z # w
        BY <1>4, <1>5
    <2> HIDE DEF kl, kh, pl, ph
    <2>6. CASE spike >= hi
        <3>1. M = spike /\ m = lo
            BY <1>9, <1>10, <1>11, <2>6
        <3> QED
            BY <1>9, <1>15, <2>1, <2>2, <2>4, <3>1 DEF kl, kh
    <2>7. CASE ~(spike >= hi) /\ spike <= lo
        <3>1. M = hi /\ m = spike
            BY <1>9, <1>10, <1>11, <2>7
        <3> QED
            BY <1>9, <1>14, <2>1, <2>2, <2>4, <3>1 DEF kl, kh
    <2>8. CASE ~(spike >= hi) /\ ~(spike <= lo)
        <3>1. M = hi /\ m = lo /\ lo # hi
            BY <1>9, <1>10, <1>11, <2>8
        <3>2. trimmed = spike + without
            BY <1>9, <1>14, <1>16, <2>4, <2>5, <3>1
        <3>3. kl <= trimmed /\ trimmed <= kh /\ trimmed \in Int
            <4> HIDE DEF trimmed
            <4> QED
                BY <1>9, <1>16, <2>1, <2>3, <2>5, <2>8, <3>1, <3>2
        <3> QED
            BY <3>3 DEF kl, kh
    <2> QED
        BY <2>6, <2>7, <2>8
<1>18. Temperature(g) = Rounded(trimmed, k)
    <2>1. DOMAIN g = D /\ Range(g) = {g[y] : y \in D}
        BY <1>2 DEF Range
    <2>2. SumFunction(g) = spike + sum
        BY <1>2, <2>1 DEF SumFunction, sum
    <2>3. ~(n = 0) /\ ~(n < 4)
        BY <1>1
    <2>4. Temperature(g) = Rounded(SumFunction(g) - Max(Range(g)) - Min(Range(g)), n - 2)
        BY <2>1, <2>3 DEF Temperature
    <2>5. Max(Range(g)) = M
        BY <2>1 DEF M
    <2>6. Min(Range(g)) = m
        BY <2>1 DEF m
    <2>7. n - 2 = k
        BY DEF k
    <2> DEFINE all == SumFunction(g)
               highest == Max(Range(g))
               lowest == Min(Range(g))
    <2>8. all - highest - lowest = trimmed
        <3>1. all = spike + sum /\ highest = M /\ lowest = m
            BY <2>2, <2>5, <2>6
        <3>2. sum \in Int /\ M \in Int /\ m \in Int
            BY <1>9, <1>14
        <3> HIDE DEF all, highest, lowest
        <3> QED
            BY <3>1, <3>2
    <2>9. Temperature(g) = Rounded(all - highest - lowest, n - 2)
        BY <2>4
    <2> HIDE DEF all, highest, lowest, n, trimmed
    <2> QED
        BY <2>7, <2>8, <2>9
<1> HIDE DEF trimmed
<1>19. Temperature(g) \in lo .. hi
    BY <1>9, <1>13, <1>17, <1>18, RoundedBetween
<1> QED
    BY <1>19 DEF g, lo, hi

(* The spike is not above the highest reading, which is left out; a spike
   above the others is the reading left out.                                *)
LEMMA WattsContained ==
    ASSUME NEW D, IsFiniteSet(D), Cardinality(D) >= 4, NEW f \in [D -> Int],
           NEW x \in D, NEW spike \in Int
    PROVE  LET g == [f EXCEPT ![x] = spike]
               rest == SumFunctionOnSet(f, D \ {x})
           IN  /\ Watts(g) \in Int /\ rest \in Int /\ Watts(g) <= rest
               /\ (\A y \in D \ {x} : f[y] <= spike) => Watts(g) = rest
<1> DEFINE g == [f EXCEPT ![x] = spike]
           sum == SumFunctionOnSet(f, D \ {x})
           M == Max({g[y] : y \in D})
<1>1. /\ g \in [D -> Int] /\ g[x] = spike
      /\ SumFunctionOnSet(g, D) = spike + sum
    <2>1. g \in [D -> Int] /\ g[x] = spike /\ \A y \in D \ {x} : g[y] = f[y]
        OBVIOUS
    <2> HIDE DEF g
    <2>2. \A y \in D : g[y] \in Int
        BY <2>1
    <2>3. SumFunctionOnSet(g, D) = g[x] + SumFunctionOnSet(f, D \ {x})
        BY <2>1, <2>2, SpikedSum
    <2> QED
        BY <2>1, <2>3
<1>0. \A y \in D \ {x} : g[y] = f[y]
    OBVIOUS
<1> HIDE DEF g
<1>2. M \in Int /\ spike <= M /\ ((\A y \in D \ {x} : f[y] <= spike) => M = spike)
    <2>1. D # {} /\ \A y \in D : g[y] \in Int
        BY <1>1
    <2>2. PICK z \in D : M = g[z] /\ \A y \in D : g[y] <= g[z]
        BY <2>1, MaxMin
    <2>3. z # x => g[z] = f[z]
        BY <1>0, <2>2
    <2> HIDE DEF M
    <2> QED
        BY <1>1, <2>1, <2>2, <2>3
<1>3. sum \in Int
    <2>1. D \ {x} \in SUBSET D /\ \A y \in D : f[y] \in Int
        OBVIOUS
    <2> QED
        BY <2>1, SumInteger
<1>4. Watts(g) = spike + sum - M
    <2>1. DOMAIN g = D /\ Range(g) = {g[y] : y \in D}
        BY <1>1 DEF Range
    <2>2. SumFunction(g) = spike + sum
        BY <1>1, <2>1 DEF SumFunction
    <2>3. Max(Range(g)) = M
        BY <2>1
    <2>4. Watts(g) = SumFunction(g) - Max(Range(g))
        BY <2>1 DEF Watts
    <2> DEFINE all == SumFunction(g)
               highest == Max(Range(g))
    <2>5. Watts(g) = all - highest /\ all = spike + sum /\ highest = M
        BY <2>2, <2>3, <2>4
    <2> HIDE DEF sum, M, all, highest
    <2> QED
        BY <1>2, <1>3, <2>5
<1> DEFINE highest == \A y \in D \ {x} : f[y] <= spike
<1> HIDE DEF sum, M, highest
<1>5. Watts(g) \in Int /\ sum \in Int /\ Watts(g) <= sum /\ (highest => Watts(g) = sum)
    <2>1. highest => M = spike
        BY <1>2 DEF highest
    <2> QED
        BY <1>2, <1>3, <1>4, <2>1
<1> QED
    BY <1>5 DEF g, sum, highest

(* More watts are answered as more, but for a load taken for kilowatts.      *)
LEMMA KilowattsGrow ==
    ASSUME NEW v \in Int, NEW w \in Int, v <= w, Kilowatts(v) > Kilowatts(w)
    PROVE  v <= 500 /\ w > 500
<1>1. CASE w <= 500
    BY <1>1 DEF Kilowatts
<1>2. CASE v > 500
    <2>1. Kilowatts(v) = Rounded(v, 100) /\ Kilowatts(w) = Rounded(w, 100)
        BY <1>2 DEF Kilowatts
    <2>2. Rounded(v, 100) <= Rounded(w, 100)
        BY DEF Rounded
    <2>3. Rounded(v, 100) \in Int /\ Rounded(w, 100) \in Int
        BY DEF Rounded
    <2> QED
        BY <2>1, <2>2, <2>3
<1> QED
    BY <1>1, <1>2

(* What a request holds is what InfluxDB held or nothing; either way its
   readings are numbers, of rooms of the building.                          *)
LEMMA SourceTyped ==
    ASSUME NEW s \in Sources, NEW k \in Readings
    PROVE  /\ DOMAIN s.latest[k] \subseteq Rooms
           /\ s.latest[k] \in [DOMAIN s.latest[k] -> Int]
<1>1. CASE s.latest = Nothing
    <2>1. s.latest[k] = <<>>
        BY <1>1 DEF Nothing, Readings
    <2> QED
        BY <2>1
<1>2. ASSUME NEW c \in Contents, s.latest = [q \in Readings |-> c[q]]
      PROVE  /\ DOMAIN s.latest[k] \subseteq Rooms
             /\ s.latest[k] \in [DOMAIN s.latest[k] -> Int]
    <2>1. s.latest[k] = c[k]
        BY <1>2
    <2> QED
        BY <2>1, ApiZonesAssumption
<1> QED
    BY <1>1, <1>2 DEF Sources

(* The figures answered for a source are those of its readings.             *)
LEMMA FiguresOf ==
    ASSUME NEW s \in Sources, NEW f
    PROVE  /\ ZoneData([s EXCEPT !.latest.temperature = f]).temperatureC = Temperature(f)
           /\ ZoneData([s EXCEPT !.latest.energy = f]).energyKw = Kilowatts(Watts(f))
<1>1. s = [latest |-> s.latest, anomalies |-> s.anomalies, capacities |-> s.capacities]
    BY DEF Sources
<1>2. s.latest = [k \in Readings |-> s.latest[k]]
    BY DEF Sources, Nothing, Readings
<1> DEFINE p == [s EXCEPT !.latest.temperature = f]
           q == [s EXCEPT !.latest.energy = f]
<1>3. p.latest.temperature = f /\ q.latest.energy = f
    BY <1>1, <1>2 DEF Readings
<1> HIDE DEF p, q
<1>4. ZoneData(p).temperatureC = Temperature(f) /\ ZoneData(q).energyKw = Kilowatts(Watts(f))
    BY <1>3 DEF ZoneData
<1> QED
    BY <1>4 DEF p, q

(* Both figures, for whatever a request may hold.                           *)
LEMMA SourceContained ==
    ASSUME NEW s \in Sources, NEW spike \in Int
    PROVE  LET t == s.latest.temperature
               e == s.latest.energy
           IN /\ Cardinality(DOMAIN t) >= 4 => \A x \in DOMAIN t :
                   LET others == {t[y] : y \in DOMAIN t \ {x}}
                       z == ZoneData([s EXCEPT !.latest.temperature = [t EXCEPT ![x] = spike]])
                   IN z.temperatureC \in Min(others)..Max(others)
              /\ Cardinality(DOMAIN e) >= 4 => \A x \in DOMAIN e :
                   LET broken == [e EXCEPT ![x] = spike]
                       z == ZoneData([s EXCEPT !.latest.energy = broken])
                       rest == SumFunctionOnSet(e, DOMAIN e \ {x})
                   IN /\ (\A y \in DOMAIN e \ {x} : e[y] <= spike) => z.energyKw = Kilowatts(rest)
                      /\ z.energyKw > Kilowatts(rest) => Watts(broken) <= 500 /\ rest > 500
<1> DEFINE t == s.latest.temperature
           e == s.latest.energy
<1>1. ASSUME NEW k \in Readings
      PROVE  LET f == s.latest[k]
             IN  f \in [DOMAIN f -> Int] /\ DOMAIN f \subseteq Rooms /\ IsFiniteSet(DOMAIN f)
    <2> DEFINE D == DOMAIN s.latest[k]
    <2>1. s.latest[k] \in [D -> Int] /\ D \subseteq Rooms
        BY SourceTyped
    <2>2. IsFiniteSet(Rooms)
        BY ApiZonesAssumption
    <2> HIDE DEF D
    <2>3. IsFiniteSet(D)
        BY <2>1, <2>2, FS_Subset
    <2> QED
        BY <2>1, <2>3 DEF D
<1>2. /\ t \in [DOMAIN t -> Int] /\ IsFiniteSet(DOMAIN t)
      /\ e \in [DOMAIN e -> Int] /\ IsFiniteSet(DOMAIN e)
    <2>1. {"temperature", "energy"} \subseteq Readings
        BY DEF Readings
    <2> QED
        BY <1>1, <2>1
<1>3. ASSUME Cardinality(DOMAIN t) >= 4, NEW x \in DOMAIN t
      PROVE  LET others == {t[y] : y \in DOMAIN t \ {x}}
                 z == ZoneData([s EXCEPT !.latest.temperature = [t EXCEPT ![x] = spike]])
             IN z.temperatureC \in Min(others)..Max(others)
    <2> DEFINE others == {t[y] : y \in DOMAIN t \ {x}}
               broken == [t EXCEPT ![x] = spike]
    <2>1. Temperature(broken) \in Min(others)..Max(others)
        <3> HIDE DEF t
        <3> QED
            BY <1>2, <1>3, TemperatureContained
    <2>2. ZoneData([s EXCEPT !.latest.temperature = broken]).temperatureC = Temperature(broken)
        <3> HIDE DEF broken
        <3> QED
            BY FiguresOf
    <2> QED
        BY <2>1, <2>2
<1>4. ASSUME Cardinality(DOMAIN e) >= 4, NEW x \in DOMAIN e
      PROVE  LET broken == [e EXCEPT ![x] = spike]
                 z == ZoneData([s EXCEPT !.latest.energy = broken])
                 rest == SumFunctionOnSet(e, DOMAIN e \ {x})
             IN /\ (\A y \in DOMAIN e \ {x} : e[y] <= spike) => z.energyKw = Kilowatts(rest)
                /\ z.energyKw > Kilowatts(rest) => Watts(broken) <= 500 /\ rest > 500
    <2> DEFINE broken == [e EXCEPT ![x] = spike]
               rest == SumFunctionOnSet(e, DOMAIN e \ {x})
               highest == \A y \in DOMAIN e \ {x} : e[y] <= spike
               shown == ZoneData([s EXCEPT !.latest.energy = broken]).energyKw
    <2>1. /\ Watts(broken) \in Int /\ rest \in Int /\ Watts(broken) <= rest
          /\ highest => Watts(broken) = rest
        <3> HIDE DEF e
        <3> QED
            BY <1>2, <1>4, WattsContained
    <2>2. shown = Kilowatts(Watts(broken))
        <3> HIDE DEF broken
        <3> QED
            BY FiguresOf
    <2> HIDE DEF broken, rest, highest, shown
    <2>3. /\ highest => shown = Kilowatts(rest)
          /\ shown > Kilowatts(rest) => Watts(broken) <= 500 /\ rest > 500
        BY <2>1, <2>2, KilowattsGrow
    <2> QED
        BY <2>3 DEF broken, rest, highest, shown
<1> QED
    BY <1>3, <1>4

(* Whatever InfluxDB holds and whatever fails, among four sensors or more one
   broken sensor moves no temperature answered out of the others' range; a
   spike leaves the load answered at the others' sum, and only a low reading
   that has the rest taken for kilowatts raises it above that.              *)
THEOREM SpikesAreContained == Spec => []SpikeIsContained
<1>1. TypeOK => SpikeIsContained
    <2> SUFFICES ASSUME TypeOK, NEW r \in Answered, NEW spike \in Spikes
                 PROVE  req[r].src \in Sources /\ spike \in Int
        BY SourceContained DEF SpikeIsContained
    <2>1. r \in Requests
        BY DEF Answered
    <2>2. req[r].src \in Sources
        BY <2>1 DEF TypeOK
    <2> QED
        BY <2>2, ApiZonesAssumption
<1> QED
    BY <1>1, TypeCorrect, PTL

(***************************************************************************)
(* Sums and spreads of a sequence of readings.                             *)
(***************************************************************************)
(* A sequence's sum and squares as sums over its places.                    *)
LEMMA SequenceSum ==
    ASSUME NEW s \in Seq(Int)
    PROVE  /\ Len(s) \in Nat /\ IsFiniteSet(1..Len(s)) /\ Cardinality(1..Len(s)) = Len(s)
           /\ \A i \in 1..Len(s) : /\ s[i] \in Int /\ Squares(s)[i] = s[i] * s[i]
                                   /\ Squares(s)[i] \in Int
           /\ Sum(s) = SumFunctionOnSet(s, 1..Len(s))
           /\ Sum(Squares(s)) = SumFunctionOnSet(Squares(s), 1..Len(s))
           /\ Sum(s) \in Int /\ Sum(Squares(s)) \in Int
<1>1. Len(s) \in Nat /\ DOMAIN s = 1..Len(s) /\ \A i \in 1..Len(s) : s[i] \in Int
    OBVIOUS
<1>2. IsFiniteSet(1..Len(s)) /\ Cardinality(1..Len(s)) = Len(s)
    <2> DEFINE n == Len(s)
    <2>1. n \in Nat /\ 0 \in Int /\ 1 \in Int /\ n \in Int
        BY <1>1
    <2> HIDE DEF n
    <2>2. IsFiniteSet(1..n) /\ Cardinality(1..n) = IF 1 > n THEN 0 ELSE n - 1 + 1
        BY <2>1, FS_Interval
    <2>3. IsFiniteSet(1..n) /\ Cardinality(1..n) = n
        BY <2>1, <2>2
    <2> QED
        BY <2>3 DEF n
<1>3. DOMAIN Squares(s) = 1..Len(s)
    BY <1>1 DEF Squares
<1>4. ASSUME NEW i \in 1..Len(s)
      PROVE  Squares(s)[i] = s[i] * s[i] /\ Squares(s)[i] \in Int
    <2>1. Squares(s)[i] = s[i] * s[i]
        BY <1>1 DEF Squares
    <2> QED
        BY <1>1, <2>1
<1>5. Sum(s) = SumFunctionOnSet(s, 1..Len(s))
    BY <1>1 DEF Sum, SumFunction
<1>6. Sum(Squares(s)) = SumFunctionOnSet(Squares(s), 1..Len(s))
    BY <1>3 DEF Sum, SumFunction
<1>7. Sum(s) \in Int /\ Sum(Squares(s)) \in Int
    BY <1>1, <1>2, <1>4, <1>5, <1>6, SumInteger
<1> QED
    BY <1>1, <1>2, <1>4, <1>5, <1>6, <1>7

(* Readings between lo and hi have a mean between lo and hi.                *)
LEMMA SumBetween ==
    ASSUME NEW s \in Seq(Int), NEW lo \in Int, NEW hi \in Int,
           \A i \in 1..Len(s) : lo <= s[i] /\ s[i] <= hi
    PROVE  Len(s) * lo <= Sum(s) /\ Sum(s) <= Len(s) * hi
<1>1. \A i \in 1..Len(s) : s[i] \in Int /\ lo <= s[i] /\ s[i] <= hi
    OBVIOUS
<1>2. IsFiniteSet(1..Len(s)) /\ Cardinality(1..Len(s)) = Len(s)
    BY SequenceSum
<1>3. Sum(s) = SumFunctionOnSet(s, 1..Len(s))
    BY SequenceSum
<1>4. /\ Cardinality(1..Len(s)) * lo <= SumFunctionOnSet(s, 1..Len(s))
      /\ SumFunctionOnSet(s, 1..Len(s)) <= Cardinality(1..Len(s)) * hi
    BY <1>1, <1>2, SumBounded
<1> QED
    BY <1>2, <1>3, <1>4

(* (a - lo) * (hi - a) is not negative.                                     *)
LEMMA SquareBelow ==
    ASSUME NEW a \in Int, NEW lo \in Int, NEW hi \in Int, lo <= a, a <= hi
    PROVE  a * a + lo * hi <= (lo + hi) * a
<1> DEFINE x == a - lo
           y == hi - a
<1>1. x \in Nat /\ y \in Nat
    OBVIOUS
<1>2. x * y \in Nat
    <2> HIDE DEF x, y
    <2> QED
        BY <1>1
<1>3. x * y = (lo + hi) * a - a * a - lo * hi
    OBVIOUS
<1> HIDE DEF x, y
<1>4. a * a \in Int /\ lo * hi \in Int /\ (lo + hi) * a \in Int
    OBVIOUS
<1> QED
    BY <1>2, <1>3, <1>4

(* A product spread over a sum.                                             *)
LEMMA Spreads ==
    ASSUME NEW m \in Int, NEW a \in Int, NEW b \in Int
    PROVE  /\ m * (a + b) = m * a + m * b
           /\ m * a \in Int /\ m * b \in Int /\ m * (a + b) \in Int
    OBVIOUS

(* So squares are below a line through the two bounds.                      *)
LEMMA SquaresBelow ==
    ASSUME NEW s \in Seq(Int), NEW lo \in Int, NEW hi \in Int,
           \A i \in 1..Len(s) : lo <= s[i] /\ s[i] <= hi
    PROVE  Sum(Squares(s)) + Len(s) * (lo * hi) <= (lo + hi) * Sum(s)
<1> DEFINE D == 1..Len(s)
           c == lo * hi
           m == lo + hi
           P == {d \in SUBSET D : SumFunctionOnSet(Squares(s), d) + Cardinality(d) * c
                                    <= m * SumFunctionOnSet(s, d)}
<1>1. c \in Int /\ m \in Int
    OBVIOUS
<1>2. IsFiniteSet(D) /\ Cardinality(D) = Len(s)
    BY SequenceSum
<1>3. \A i \in D : s[i] \in Int /\ Squares(s)[i] \in Int
    BY SequenceSum
<1>4. ASSUME NEW i \in D PROVE Squares(s)[i] + c <= m * s[i]
    BY <1>4, SquareBelow, SequenceSum
<1> HIDE DEF c, m, D
<1>5. {} \in P
    <2>1. Cardinality({}) = 0
        BY FS_EmptySet
    <2> QED
        BY <1>1, <2>1, SumEmpty
<1>6. ASSUME NEW d \in SUBSET D, d # {}, \A x \in d : d \ {x} \in P PROVE d \in P
    <2> DEFINE e == Pick(d)
               r == d \ {e}
               k == Cardinality(d)
               j == Cardinality(r)
               Q == SumFunctionOnSet(Squares(s), d)
               R == SumFunctionOnSet(Squares(s), r)
               S == SumFunctionOnSet(s, d)
               T == SumFunctionOnSet(s, r)
               a == s[e]
               q == Squares(s)[e]
    <2>1. IsFiniteSet(d) /\ e \in d /\ e \in D
        BY <1>2, <1>6, FS_Subset, PickIn
    <2>2. k \in Int /\ j = k - 1
        BY <1>2, <2>1, SubsetCard
    <2>3. Q = q + R /\ S = a + T
        BY <1>6, <2>1, SumPick
    <2>4. R \in Int /\ T \in Int
        BY <1>2, <1>3, SumInteger
    <2>5. a \in Int /\ q \in Int /\ q + c <= m * a
        BY <1>3, <1>4, <2>1
    <2>6. R + j * c <= m * T
        BY <1>6, <2>1
    <2> HIDE DEF e, k, j, Q, R, S, T, a, q
    <2>7. m * S = m * a + m * T /\ m * a \in Int /\ m * T \in Int
        BY <1>1, <2>3, <2>4, <2>5, Spreads
    <2>8. k * c = c + (k - 1) * c /\ k * c \in Int /\ (k - 1) * c \in Int
        BY <1>1, <2>2, Distributes
    <2>9. Q + k * c <= m * S
        <3> DEFINE kc == k * c  jc == (k - 1) * c  mS == m * S  ma == m * a  mT == m * T
        <3>1. /\ {kc, jc, ma, mT} \subseteq Int /\ kc = c + jc /\ mS = ma + mT
              /\ q + c <= ma /\ R + jc <= mT
            BY <2>2, <2>5, <2>6, <2>7, <2>8
        <3> HIDE DEF kc, jc, mS, ma, mT
        <3>2. Q + kc <= mS
            BY SMTT(30), <1>1, <2>3, <2>4, <2>5, <3>1
        <3> QED
            BY <3>2 DEF kc, mS
    <2> QED
        BY <2>9 DEF Q, k, S
<1> HIDE DEF P
<1>7. D \in P
    BY <1>2, <1>5, <1>6, SubsetInduction
<1>8. SumFunctionOnSet(Squares(s), D) + Cardinality(D) * c <= m * SumFunctionOnSet(s, D)
    BY <1>7 DEF P
<1>9. Sum(s) = SumFunctionOnSet(s, D) /\ Sum(Squares(s)) = SumFunctionOnSet(Squares(s), D)
    BY SequenceSum DEF D
<1> QED
    BY <1>2, <1>8, <1>9 DEF c, m

(* n times the width squared is four times a spread or more.                *)
LEMMA SpreadBounded ==
    ASSUME NEW s \in Seq(Int), NEW lo \in Int, NEW hi \in Int,
           \A i \in 1..Len(s) : lo <= s[i] /\ s[i] <= hi
    PROVE  /\ Spread(s) \in Int
           /\ 4 * Spread(s) <= (Len(s) * (hi - lo)) * (Len(s) * (hi - lo))
<1> DEFINE n == Len(s)
           S == Sum(s)
           Q == Sum(Squares(s))
           X == Q + n * (lo * hi)
           Y == (lo + hi) * S
           z == n * (lo + hi) - 2 * S
<1>1. n \in Nat /\ S \in Int /\ Q \in Int
    BY SequenceSum
<1>2. X <= Y
    BY SquaresBelow
<1>3. Spread(s) = n * Q - S * S
    BY DEF Spread
<1> HIDE DEF n, S, Q
<1>4. X \in Int /\ Y \in Int
    BY <1>1
<1>5. n * X <= n * Y
    <2> HIDE DEF X, Y
    <2> QED
        BY <1>1, <1>2, <1>4, Multiplies
<1>6. z * z \in Nat
    <2>1. z \in Int
        BY <1>1
    <2> HIDE DEF z
    <2> QED
        BY <2>1
<1>7. n * X = n * Q + n * (n * (lo * hi))
    BY <1>1
<1>8. z * z = (n * (hi - lo)) * (n * (hi - lo))
                - 4 * (n * Y - n * (n * (lo * hi)) - S * S)
    BY <1>1
<1> DEFINE a == n * X  b == n * Y  c == n * (n * (lo * hi))  q == n * Q  ss == S * S
           w == (n * (hi - lo)) * (n * (hi - lo))  zz == z * z
<1>9. {a, b, c, q, ss, w} \subseteq Int
    BY <1>1
<1>10. /\ a <= b /\ a = q + c /\ zz = w - 4 * (b - c - ss) /\ zz \in Nat
       /\ Spread(s) = q - ss
    BY <1>3, <1>5, <1>6, <1>7, <1>8
<1> HIDE DEF a, b, c, q, ss, w, zz
<1>11. q - ss \in Int /\ 4 * (q - ss) <= w
    BY SMTT(30), <1>9, <1>10
<1> QED
    BY <1>10, <1>11 DEF w, n

(* Equal readings have no spread.                                           *)
LEMMA SpreadOfEqual ==
    ASSUME NEW s \in Seq(Int), NEW c \in Int, \A i \in 1..Len(s) : s[i] = c
    PROVE  Spread(s) = 0
<1> DEFINE n == Len(s)
           S == Sum(s)
           Q == Sum(Squares(s))
<1>1. n \in Nat /\ S \in Int /\ Q \in Int
    BY SequenceSum
<1>2. S = n * c
    <2>1. n * c <= S /\ S <= n * c
        <3>1. \A i \in 1..Len(s) : c <= s[i] /\ s[i] <= c
            OBVIOUS
        <3> QED
            BY <3>1, SumBetween
    <2>2. n * c \in Int
        BY <1>1
    <2> HIDE DEF S, n
    <2> QED
        BY <1>1, <2>1, <2>2
<1>3. Q = n * (c * c)
    <2>1. \A i \in 1..n : Squares(s)[i] = c * c
        BY SequenceSum
    <2>2. /\ IsFiniteSet(1..n) /\ Cardinality(1..n) = n
          /\ Q = SumFunctionOnSet(Squares(s), 1..n)
        BY SequenceSum
    <2> DEFINE e == c * c
    <2>3. e \in Int
        OBVIOUS
    <2> HIDE DEF e
    <2>4. \A i \in 1..n : Squares(s)[i] = e
        BY <2>1 DEF e
    <2>5. \A i \in 1..n : Squares(s)[i] \in Int /\ e <= Squares(s)[i] /\ Squares(s)[i] <= e
        BY <2>3, <2>4
    <2> HIDE DEF n, Q
    <2>6. Cardinality(1..n) * e <= SumFunctionOnSet(Squares(s), 1..n)
          /\ SumFunctionOnSet(Squares(s), 1..n) <= Cardinality(1..n) * e
        BY <2>2, <2>3, <2>5, SumBounded
    <2>7. n * e <= Q /\ Q <= n * e /\ n * e \in Int
        BY <1>1, <2>2, <2>3, <2>6
    <2>8. Q = n * e
        BY <1>1, <2>7
    <2> QED
        BY <2>8 DEF e
<1>4. Spread(s) = n * Q - S * S
    BY DEF Spread
<1> HIDE DEF n, S, Q
<1>5. n * (n * (c * c)) = (n * c) * (n * c)
    BY <1>1
<1>6. n * Q = S * S
    BY <1>2, <1>3, <1>5
<1>7. n * Q \in Int
    BY <1>1
<1> QED
    BY <1>4, <1>6, <1>7

(* A standard deviation over t needs two readings more than t apart.        *)
LEMMA Fluctuates ==
    ASSUME NEW s \in Seq(Int), NEW lo \in Int, NEW hi \in Int, NEW t \in Nat,
           Len(s) >= 2, \A i \in 1..Len(s) : lo <= s[i] /\ s[i] <= hi,
           Spread(s) > t * t * Len(s) * (Len(s) - 1)
    PROVE  hi - lo > t
<1> SUFFICES ASSUME ~(hi - lo > t) PROVE FALSE
    OBVIOUS
<1> DEFINE n == Len(s)
           d == hi - lo
           v == Spread(s)
<1>1. n \in Nat /\ n >= 2
    BY SequenceSum
<1>2. d \in Nat /\ d <= t
    <2>1. 1 \in 1..Len(s) /\ s[1] \in Int
        BY <1>1, SequenceSum
    <2>2. lo <= s[1] /\ s[1] <= hi
        BY <2>1
    <2> QED
        BY <2>1, <2>2
<1>3. v \in Int /\ 4 * v <= (n * d) * (n * d)
    BY SpreadBounded
<1>4. v > t * t * n * (n - 1)
    OBVIOUS
<1> HIDE DEF n, d, v
<1> DEFINE x == n * d
           y == n * t
<1>5. x \in Nat /\ y \in Nat /\ x <= y
    BY <1>1, <1>2, Multiplies
<1>6. x * x <= y * y /\ x * x \in Int /\ y * y \in Int
    <2> HIDE DEF x, y
    <2>1. x * x <= x * y /\ x * y \in Int /\ x * x \in Int
        BY <1>5, Multiplies
    <2>2. y * x <= y * y /\ y * x \in Int /\ y * y \in Int
        BY <1>5, Multiplies
    <2>3. x * y = y * x
        BY <1>5
    <2> QED
        BY <2>1, <2>2, <2>3
<1> DEFINE u == t * t * n
<1>7. u \in Nat
    BY <1>1
<1>8. y * y = u * n /\ t * t * n * (n - 1) = u * (n - 1)
    BY <1>1
<1>9. x * x = (n * d) * (n * d)
    OBVIOUS
<1> HIDE DEF u
<1>10. 4 * (u * (n - 1)) = u * n + u * (3 * n - 4) /\ u * n \in Int
       /\ u * (n - 1) \in Int
    BY <1>1, <1>7
<1>11. u * (3 * n - 4) \in Nat
    <2> DEFINE k == 3 * n - 4
    <2>1. k \in Nat
        BY <1>1
    <2> HIDE DEF k
    <2>2. u * k \in Nat
        BY <1>7, <2>1
    <2> QED
        BY <2>2 DEF k
<1> DEFINE a == u * n  b == u * (n - 1)  e == u * (3 * n - 4)
<1>12. /\ 4 * v <= a /\ v > b /\ 4 * b = a + e /\ {a, b} \subseteq Int /\ e \in Nat
    <2>1. 4 * v <= y * y
        <3> DEFINE f == x * x  g == y * y
        <3>1. 4 * v <= f /\ f <= g /\ {f, g} \subseteq Int
            BY <1>3, <1>6, <1>9
        <3> HIDE DEF f, g
        <3>2. 4 * v <= g
            BY <1>3, <3>1
        <3> QED
            BY <3>2 DEF g
    <2> QED
        BY <2>1, <1>4, <1>8, <1>10, <1>11
<1> HIDE DEF a, b, e
<1> QED
    BY <1>3, <1>12

(***************************************************************************)
(* Readings that are at most a stride apart from one to the next.          *)
(***************************************************************************)
Strides(h, d) ==
    \A i \in 1..Len(h) - 1 : 200 * (h[i + 1] - h[i]) <= d /\ 200 * (h[i] - h[i + 1]) <= d

(* m strides apart are readings m places apart.                             *)
LEMMA Apart ==
    ASSUME NEW h \in Seq(Int), NEW d \in Nat, Strides(h, d),
           NEW j \in 1..Len(h)
    PROVE  \A m \in Nat : m < j =>
             200 * (h[j] - h[j - m]) <= m * d /\ 200 * (h[j - m] - h[j]) <= m * d
<1> DEFINE T == {m \in Nat : m < j =>
             200 * (h[j] - h[j - m]) <= m * d /\ 200 * (h[j - m] - h[j]) <= m * d}
<1>1. Len(h) \in Nat /\ j \in Nat /\ j >= 1 /\ j <= Len(h)
      /\ \A i \in 1..Len(h) : h[i] \in Int
    BY SequenceSum
<1>2. 0 \in T
    <2>1. j - 0 = j /\ h[j] \in Int /\ 0 * d = 0
        BY <1>1
    <2> QED
        BY <2>1
<1>3. ASSUME NEW m \in Nat, m \in T PROVE m + 1 \in T
    <2> SUFFICES ASSUME m + 1 < j
                 PROVE  /\ 200 * (h[j] - h[j - (m + 1)]) <= (m + 1) * d
                        /\ 200 * (h[j - (m + 1)] - h[j]) <= (m + 1) * d
        OBVIOUS
    <2> DEFINE i == j - (m + 1)
    <2>1. i \in 1..Len(h) - 1 /\ i + 1 = j - m /\ i + 1 \in 1..Len(h) /\ i \in 1..Len(h)
        BY <1>1
    <2> HIDE DEF i
    <2>2. 200 * (h[i + 1] - h[i]) <= d /\ 200 * (h[i] - h[i + 1]) <= d
        BY <2>1 DEF Strides
    <2>3. m < j
        BY <1>1
    <2>4. 200 * (h[j] - h[i + 1]) <= m * d /\ 200 * (h[i + 1] - h[j]) <= m * d
        BY <1>3, <2>1, <2>3
    <2> DEFINE x == h[i]  y == h[i + 1]  z == h[j]  e == m * d
    <2>5. x \in Int /\ y \in Int /\ z \in Int /\ d \in Int /\ e \in Int
        BY <1>1, <2>1
    <2>6. (m + 1) * d = e + d
        OBVIOUS
    <2>7. /\ 200 * (y - x) <= d /\ 200 * (x - y) <= d
          /\ 200 * (z - y) <= e /\ 200 * (y - z) <= e
        BY <2>2, <2>4
    <2> HIDE DEF x, y, z, e
    <2>8. 200 * (z - x) <= e + d /\ 200 * (x - z) <= e + d
        BY <2>5, <2>7
    <2> QED
        BY <2>6, <2>8 DEF x, z, i
<1> HIDE DEF T
<1>4. \A m \in Nat : m \in T
    BY <1>2, <1>3, SetInduction
<1> QED
    BY <1>4 DEF T

(* A bound on both sides bounds the square.                                 *)
LEMMA SquareBounded ==
    ASSUME NEW a \in Int, NEW b \in Int, a <= b, -a <= b
    PROVE  a * a <= b * b /\ a * a \in Int /\ b * b \in Int
<1> DEFINE x == b - a
           y == b + a
<1>1. x \in Nat /\ y \in Nat
    OBVIOUS
<1>2. x * y \in Nat
    <2> HIDE DEF x, y
    <2> QED
        BY <1>1
<1>3. x * y = b * b - a * a /\ a * a \in Int /\ b * b \in Int
    OBVIOUS
<1> HIDE DEF x, y
<1> QED
    BY <1>2, <1>3

(* A sum from a to b without its first or its last term.                    *)
LEMMA IntervalSum ==
    ASSUME NEW s \in Seq(Int), NEW a \in Int, NEW b \in Int, a <= b, 1 <= a, b <= Len(s)
    PROVE  /\ SumFunctionOnSet(s, a..b) = s[a] + SumFunctionOnSet(s, a + 1..b)
           /\ SumFunctionOnSet(s, a..b) = s[b] + SumFunctionOnSet(s, a..b - 1)
           /\ SumFunctionOnSet(Squares(s), a..b)
                = s[a] * s[a] + SumFunctionOnSet(Squares(s), a + 1..b)
           /\ SumFunctionOnSet(Squares(s), a..b)
                = s[b] * s[b] + SumFunctionOnSet(Squares(s), a..b - 1)
<1> DEFINE n == Len(s)
           D == 1..n
<1>1. /\ n \in Nat /\ IsFiniteSet(D)
      /\ \A i \in D : s[i] \in Int /\ Squares(s)[i] = s[i] * s[i] /\ Squares(s)[i] \in Int
    BY SequenceSum
<1>2. b <= n
    OBVIOUS
<1> HIDE DEF n
<1>3. /\ a..b \in SUBSET D /\ a \in a..b /\ b \in a..b /\ a \in D /\ b \in D
      /\ (a..b) \ {a} = a + 1..b /\ (a..b) \ {b} = a..b - 1
    BY <1>1, <1>2
<1> HIDE DEF D
<1>4. \A x \in a..b : SumFunctionOnSet(s, a..b) = s[x] + SumFunctionOnSet(s, (a..b) \ {x})
    <2>1. \A y \in D : s[y] \in Int
        BY <1>1
    <2>2. \A q \in SUBSET D : \A x \in q :
            SumFunctionOnSet(s, q) = s[x] + SumFunctionOnSet(s, q \ {x})
        BY ZenonT(40), <1>1, <2>1, SumRemove
    <2> QED
        BY <1>3, <2>2
<1>5. \A x \in a..b : SumFunctionOnSet(Squares(s), a..b)
                        = Squares(s)[x] + SumFunctionOnSet(Squares(s), (a..b) \ {x})
    <2>1. \A y \in D : Squares(s)[y] \in Int
        BY <1>1
    <2>2. \A q \in SUBSET D : \A x \in q :
            SumFunctionOnSet(Squares(s), q)
              = Squares(s)[x] + SumFunctionOnSet(Squares(s), q \ {x})
        BY ZenonT(40), <1>1, <2>1, SumRemove
    <2> QED
        BY <1>3, <2>2
<1> QED
    BY <1>1, <1>3, <1>4, <1>5

(* Such sums are integers.                                                  *)
LEMMA IntervalInteger ==
    ASSUME NEW s \in Seq(Int), NEW a \in Int, NEW b \in Int, 1 <= a, b <= Len(s)
    PROVE  /\ SumFunctionOnSet(s, a..b) \in Int
           /\ SumFunctionOnSet(Squares(s), a..b) \in Int
<1> DEFINE n == Len(s)
           D == 1..n
<1>1. /\ n \in Nat /\ IsFiniteSet(D) /\ b <= n
      /\ \A i \in D : s[i] \in Int /\ Squares(s)[i] \in Int
    BY SequenceSum
<1> HIDE DEF n
<1>2. a..b \in SUBSET D
    BY <1>1
<1> HIDE DEF D
<1> QED
    BY <1>1, <1>2, SumInteger

\* The sum of the readings from the a-th to the b-th.
SumFrom(h, a, b) == SumFunctionOnSet(h, a..b)

\* The squared distances of the m readings before the j-th from it.
Away(h, j, m) ==
    SumFrom(Squares(h), j - m, j - 1) - 2 * (h[j] * SumFrom(h, j - m, j - 1))
      + m * (h[j] * h[j])

\* Six times the sum of the first m squares.
Pyramid(m) == m * (m + 1) * (2 * m + 1)

(* The sum of no readings.                                                  *)
LEMMA SumFromEmpty == \A f, a : a \in Int => SumFrom(f, a, a - 1) = 0
<1> SUFFICES ASSUME NEW f, NEW a \in Int PROVE SumFrom(f, a, a - 1) = 0
    OBVIOUS
<1>1. a..a - 1 = {}
    OBVIOUS
<1> QED
    BY <1>1, SumEmpty DEF SumFrom

(* One more square.                                                         *)
LEMMA PyramidStep ==
    ASSUME NEW m \in Nat
    PROVE  /\ Pyramid(m) \in Int /\ Pyramid(m + 1) \in Int
           /\ Pyramid(m + 1) = Pyramid(m) + 6 * ((m + 1) * (m + 1))
    BY DEF Pyramid

(* One more reading's distance.                                             *)
LEMMA AwayStep ==
    ASSUME NEW h \in Seq(Int), NEW j \in 1..Len(h), NEW m \in Nat, m + 1 < j
    PROVE  /\ Away(h, j, m) \in Int
           /\ Away(h, j, m + 1)
                = Away(h, j, m) + (h[j - (m + 1)] - h[j]) * (h[j - (m + 1)] - h[j])
<1> DEFINE i == j - (m + 1)
           x == h[j]
           y == h[i]
           Q == SumFrom(Squares(h), j - m, j - 1)
           S == SumFrom(h, j - m, j - 1)
           R == SumFrom(Squares(h), i, j - 1)
           T == SumFrom(h, i, j - 1)
<1>1. /\ Len(h) \in Nat /\ j \in Int /\ j <= Len(h) /\ i \in Int /\ 1 <= i /\ i <= j - 1
      /\ j - 1 <= Len(h) /\ i + 1 = j - m /\ i \in 1..Len(h) /\ j - 1 \in Int
      /\ 1 <= j - m /\ j - m \in Int
    BY SequenceSum
<1>2. x \in Int /\ y \in Int
    BY <1>1, SequenceSum
<1>3. Q \in Int /\ S \in Int
    BY <1>1, IntervalInteger DEF SumFrom
<1>4. R = y * y + Q /\ T = y + S
    <2> HIDE DEF i
    <2>1. /\ SumFunctionOnSet(h, i..j - 1) = h[i] + SumFunctionOnSet(h, i + 1..j - 1)
          /\ SumFunctionOnSet(Squares(h), i..j - 1)
                = h[i] * h[i] + SumFunctionOnSet(Squares(h), i + 1..j - 1)
        BY <1>1, IntervalSum
    <2> QED
        BY <1>1, <2>1 DEF SumFrom
<1>5. Away(h, j, m) = Q - 2 * (x * S) + m * (x * x)
    BY DEF Away
<1>6. Away(h, j, m + 1) = R - 2 * (x * T) + (m + 1) * (x * x)
    BY DEF Away
<1> HIDE DEF Q, S, R, T, x, y
<1>7. Q - 2 * (x * S) + m * (x * x) \in Int
    BY <1>2, <1>3
<1>8. (y * y + Q) - 2 * (x * (y + S)) + (m + 1) * (x * x)
        = (Q - 2 * (x * S) + m * (x * x)) + (y - x) * (y - x)
    BY <1>2, <1>3
<1>9. Away(h, j, m + 1) = Away(h, j, m) + (y - x) * (y - x)
    BY <1>4, <1>5, <1>6, <1>8
<1> QED
    BY <1>5, <1>7, <1>9 DEF x, y

(* The m readings before one are at most m strides away from it.            *)
LEMMA AwayBounded ==
    ASSUME NEW h \in Seq(Int), NEW d \in Nat, Strides(h, d), NEW j \in 1..Len(h)
    PROVE  \A m \in Nat : m < j => /\ Away(h, j, m) \in Int
                                   /\ 240000 * Away(h, j, m) <= Pyramid(m) * (d * d)
<1> DEFINE T == {m \in Nat : m < j => /\ Away(h, j, m) \in Int
                                      /\ 240000 * Away(h, j, m) <= Pyramid(m) * (d * d)}
<1>1. /\ Len(h) \in Nat /\ j \in Nat /\ j <= Len(h)
      /\ \A i \in 1..Len(h) : h[i] \in Int
    BY SequenceSum
<1>2. 0 \in T
    <2> DEFINE x == h[j]
    <2>1. x \in Int
        BY <1>1
    <2>2. SumFrom(Squares(h), j - 0, j - 1) = 0 /\ SumFrom(h, j - 0, j - 1) = 0
        <3>1. j - 0 = j /\ j \in Int
            BY <1>1
        <3> QED
            BY <3>1, SumFromEmpty
    <2>3. Away(h, j, 0) = 0 - 2 * (x * 0) + 0 * (x * x)
        BY <2>2 DEF Away
    <2> HIDE DEF x
    <2>4. Away(h, j, 0) = 0
        BY <2>1, <2>3
    <2>5. Pyramid(0) * (d * d) = 0
        BY DEF Pyramid
    <2> QED
        BY <2>4, <2>5
<1>3. ASSUME NEW m \in Nat, m \in T PROVE m + 1 \in T
    <2> SUFFICES ASSUME m + 1 < j
                 PROVE  /\ Away(h, j, m + 1) \in Int
                        /\ 240000 * Away(h, j, m + 1) <= Pyramid(m + 1) * (d * d)
        OBVIOUS
    <2> DEFINE a == Away(h, j, m)
               b == h[j - (m + 1)] - h[j]
               p == Pyramid(m)
               e == (m + 1) * d
               w == d * d
    <2>1. j - (m + 1) \in 1..Len(h) /\ m < j
        BY <1>1
    <2>2. b \in Int /\ e \in Int /\ w \in Int /\ p \in Int
        <3>1. h[j] \in Int /\ h[j - (m + 1)] \in Int
            BY <1>1, <2>1
        <3>2. b \in Int
            BY <3>1
        <3>3. e \in Int /\ w \in Int
            OBVIOUS
        <3> QED
            BY <3>2, <3>3, PyramidStep
    <2>3. a \in Int /\ 240000 * a <= p * w
        BY <1>3, <2>1
    <2>4. Away(h, j, m + 1) = a + b * b
        BY AwayStep
    <2>5. 200 * b <= e /\ -(200 * b) <= e
        <3> DEFINE n == m + 1
                   y == h[j - n]
                   x == h[j]
        <3>1. n \in Nat /\ n < j /\ y \in Int /\ x \in Int
            BY <1>1, <2>1
        <3> HIDE DEF n
        <3>2. 200 * (x - y) <= n * d /\ 200 * (y - x) <= n * d
            BY <3>1, Apart
        <3> DEFINE f == n * d
        <3>3. f \in Int
            BY <3>1
        <3>4. 200 * (x - y) <= f /\ 200 * (y - x) <= f
            BY <3>2
        <3> HIDE DEF f, x, y
        <3>5. 200 * (y - x) <= f /\ -(200 * (y - x)) <= f
            BY <3>1, <3>3, <3>4
        <3> QED
            BY <3>5 DEF f, x, y, n
    <2>6. Pyramid(m + 1) * w = p * w + 6 * (e * e)
        <3>1. Pyramid(m + 1) = p + 6 * ((m + 1) * (m + 1))
            BY PyramidStep
        <3>2. (p + 6 * ((m + 1) * (m + 1))) * (d * d)
                = p * (d * d) + 6 * (((m + 1) * d) * ((m + 1) * d))
            <4> HIDE DEF p
            <4> QED
                BY <2>2
        <3> QED
            BY <3>1, <3>2
    <2> HIDE DEF a, b, p, e, w
    <2>7. (200 * b) * (200 * b) <= e * e
        <3> DEFINE c == 200 * b
        <3>1. c \in Int /\ c <= e /\ -c <= e
            BY <2>2, <2>5
        <3> HIDE DEF c
        <3>2. c * c <= e * e
            BY <2>2, <3>1, SquareBounded
        <3> QED
            BY <3>2 DEF c
    <2>8. (200 * b) * (200 * b) = 40000 * (b * b) /\ b * b \in Int /\ e * e \in Int
          /\ p * w \in Int
        BY <2>2
    <2> DEFINE bb == b * b  ee == e * e  pw == p * w
    <2>9. {bb, ee, pw} \subseteq Int /\ 40000 * bb <= ee /\ 240000 * a <= pw
        BY <2>3, <2>7, <2>8
    <2> HIDE DEF bb, ee, pw
    <2>10. a + bb \in Int /\ 240000 * (a + bb) <= pw + 6 * ee
        BY SMTT(30), <2>3, <2>9
    <2> QED
        BY <2>4, <2>6, <2>10 DEF bb, ee, pw, w
<1> HIDE DEF T
<1>4. \A m \in Nat : m \in T
    BY <1>2, <1>3, SetInduction
<1> QED
    BY <1>4 DEF T

\* The spread of the first k readings.
Begun(h, k) == k * SumFrom(Squares(h), 1, k) - SumFrom(h, 1, k) * SumFrom(h, 1, k)

\* k squared times k squared less one.
Quartic(k) == (k * k) * (k * k - 1)

(* What one more reading adds to the bound ...                              *)
LEMMA QuarticStep ==
    ASSUME NEW k \in Nat
    PROVE  /\ Quartic(k) \in Int /\ Quartic(k + 1) \in Int
           /\ Quartic(k + 1) = Quartic(k) + 2 * Pyramid(k)
    BY DEF Quartic, Pyramid

(* ... and to the spread: its distances from those before it.               *)
LEMMA BegunStep ==
    ASSUME NEW h \in Seq(Int), NEW k \in Nat, k + 1 <= Len(h)
    PROVE  /\ Begun(h, k) \in Int
           /\ Begun(h, k + 1) = Begun(h, k) + Away(h, k + 1, k)
<1> DEFINE x == h[k + 1]
           Q == SumFrom(Squares(h), 1, k)
           S == SumFrom(h, 1, k)
           R == SumFrom(Squares(h), 1, k + 1)
           T == SumFrom(h, 1, k + 1)
           j == k + 1
<1>1. Len(h) \in Nat /\ k <= Len(h) /\ k \in Int /\ x \in Int
    BY SequenceSum
<1>2. Q \in Int /\ S \in Int
    BY <1>1, IntervalInteger DEF SumFrom
<1>3. R = x * x + Q /\ T = x + S
    <2>1. j \in Int /\ 1 <= j /\ j <= Len(h) /\ j - 1 = k
        BY <1>1
    <2> HIDE DEF j
    <2>2. /\ SumFunctionOnSet(h, 1..j) = h[j] + SumFunctionOnSet(h, 1..j - 1)
          /\ SumFunctionOnSet(Squares(h), 1..j)
                = h[j] * h[j] + SumFunctionOnSet(Squares(h), 1..j - 1)
        BY <2>1, IntervalSum
    <2> QED
        BY <2>1, <2>2 DEF SumFrom, j
<1>4. Begun(h, k) = k * Q - S * S /\ Begun(h, k + 1) = (k + 1) * R - T * T
    BY DEF Begun
<1>5. Away(h, k + 1, k) = Q - 2 * (x * S) + k * (x * x)
    <2>1. (k + 1) - k = 1 /\ (k + 1) - 1 = k
        OBVIOUS
    <2> QED
        BY <2>1 DEF Away
<1> HIDE DEF x, Q, S, R, T
<1>6. (k + 1) * (x * x + Q) - (x + S) * (x + S)
        = (k * Q - S * S) + (Q - 2 * (x * S) + k * (x * x))
    BY <1>1, <1>2
<1>7. k * Q - S * S \in Int
    BY <1>1, <1>2
<1> QED
    BY <1>3, <1>4, <1>5, <1>6, <1>7

(* So the spread stays below the bound.                                     *)
LEMMA BegunBounded ==
    ASSUME NEW h \in Seq(Int), NEW d \in Nat, Strides(h, d)
    PROVE  \A k \in Nat : k <= Len(h) => /\ Begun(h, k) \in Int
                                         /\ 480000 * Begun(h, k) <= Quartic(k) * (d * d)
<1> DEFINE T == {k \in Nat : k <= Len(h) => /\ Begun(h, k) \in Int
                                            /\ 480000 * Begun(h, k) <= Quartic(k) * (d * d)}
<1>1. Len(h) \in Nat
    BY SequenceSum
<1>2. 0 \in T
    <2>1. SumFrom(Squares(h), 1, 0) = 0 /\ SumFrom(h, 1, 0) = 0
        <3>1. 1 - 1 = 0 /\ 1 \in Int
            OBVIOUS
        <3> QED
            BY <3>1, SumFromEmpty
    <2>2. Begun(h, 0) = 0 /\ Quartic(0) * (d * d) = 0
        BY <2>1 DEF Begun, Quartic
    <2> QED
        BY <2>2
<1>3. ASSUME NEW k \in Nat, k \in T PROVE k + 1 \in T
    <2> SUFFICES ASSUME k + 1 <= Len(h)
                 PROVE  /\ Begun(h, k + 1) \in Int
                        /\ 480000 * Begun(h, k + 1) <= Quartic(k + 1) * (d * d)
        OBVIOUS
    <2> DEFINE v == Begun(h, k)
               a == Away(h, k + 1, k)
               w == d * d
               q == Quartic(k)
               p == Pyramid(k)
    <2>1. v \in Int /\ 480000 * v <= q * w
        BY <1>1, <1>3
    <2>2. a \in Int /\ 240000 * a <= p * w
        <3> DEFINE j == k + 1
        <3>1. j \in 1..Len(h) /\ k < j
            BY <1>1
        <3> HIDE DEF j
        <3>2. Away(h, j, k) \in Int /\ 240000 * Away(h, j, k) <= Pyramid(k) * (d * d)
            BY <3>1, AwayBounded
        <3> QED
            BY <3>2 DEF j
    <2>3. Begun(h, k + 1) = v + a
        BY BegunStep
    <2>4. q \in Int /\ p \in Int /\ w \in Int /\ Quartic(k + 1) = q + 2 * p
        <3>1. w \in Int
            OBVIOUS
        <3>2. q \in Int /\ Quartic(k + 1) = q + 2 * p
            BY QuarticStep
        <3>3. p \in Int
            BY PyramidStep
        <3> QED
            BY <3>1, <3>2, <3>3
    <2> HIDE DEF v, a, w, q, p
    <2>5. (q + 2 * p) * w = q * w + 2 * (p * w) /\ q * w \in Int /\ p * w \in Int
        BY <2>4
    <2> DEFINE qw == q * w  pw == p * w
    <2>6. qw \in Int /\ pw \in Int /\ 480000 * v <= qw /\ 240000 * a <= pw
        BY <2>1, <2>2, <2>5
    <2> HIDE DEF qw, pw
    <2>7. v + a \in Int /\ 480000 * (v + a) <= qw + 2 * pw
        BY <2>1, <2>2, <2>6
    <2> QED
        BY <2>3, <2>4, <2>5, <2>7 DEF qw, pw, w
<1> HIDE DEF T
<1>4. \A k \in Nat : k \in T
    BY <1>2, <1>3, SetInduction
<1> QED
    BY <1>4 DEF T

(* n readings a stride apart have a variance of (n * n - 1) / 12 squared
   strides at most.                                                         *)
LEMMA StridesSpread ==
    ASSUME NEW h \in Seq(Int), NEW d \in Nat, Strides(h, d)
    PROVE  /\ Spread(h) \in Int
           /\ 480000 * Spread(h) <= Quartic(Len(h)) * (d * d)
<1> DEFINE n == Len(h)
<1>1. n \in Nat /\ n <= Len(h)
    BY SequenceSum
<1>2. Spread(h) = Begun(h, n)
    BY SequenceSum DEF Spread, Begun, SumFrom
<1> HIDE DEF n
<1>3. Begun(h, n) \in Int /\ 480000 * Begun(h, n) <= Quartic(n) * (d * d)
    BY <1>1, BegunBounded
<1> QED
    BY <1>2, <1>3 DEF n

\* The most a reading of mode NORMAL is away from the one before it, in 200ths:
\* 6 % of the range and the rounding, in whole units.
Stride(c) == 200 * ((3 * Width(c) + 25) \div 50)

\* What 10000 spreads of a window may come to.
Allowed(c) == 324 * ANOMALY_WINDOW * ANOMALY_WINDOW * Width(c) * Width(c)

(* Six strides in a row stay below the deviation allowed; only of a range of
   9, where a stride is one, that is not true.                              *)
LEMMA StrideIsShort ==
    ASSUME NEW c, Width(c) \in Nat, Width(c) > 0
    PROVE  /\ Stride(c) \in Nat
           /\ Width(c) # 9 => Stride(c) <= 21 * Width(c)
<1> DEFINE w == Width(c)
           q == (3 * w + 25) \div 50
<1>1. w \in Nat /\ w > 0
    OBVIOUS
<1> HIDE DEF w
<1>2. q \in Nat /\ 50 * q <= 3 * w + 25
    BY <1>1
<1>3. Stride(c) = 200 * q
    BY DEF Stride, w
<1> HIDE DEF q
<1>4. w # 9 => 200 * q <= 21 * w
    <2>1. CASE w <= 8
        BY <1>1, <1>2, <2>1
    <2>2. CASE w >= 10
        <3>1. CASE w <= 24
            BY <1>1, <1>2, <2>2, <3>1
        <3>2. CASE w > 24
            BY <1>1, <1>2, <3>2
        <3> QED
            BY <1>1, <3>1, <3>2
    <2> QED
        BY <1>1, <2>1, <2>2
<1>5. 200 * q \in Nat
    BY <1>2
<1> QED
    BY <1>3, <1>4, <1>5 DEF w

(* So the walk is not taken for an oscillation.                              *)
LEMMA WalkIsCalm ==
    ASSUME NEW h \in Seq(Int), NEW c \in Configs, Len(h) = ANOMALY_WINDOW,
           Width(c) \in Nat, Width(c) > 0, Width(c) # 9, Strides(h, Stride(c))
    PROVE  10000 * Spread(h) <= Allowed(c)
<1> DEFINE n == ANOMALY_WINDOW
           w == Width(c)
           d == Stride(c)
           v == Spread(h)
           N == n * n
           W == w * w
           dd == d * d
<1>1. n \in 1..6
    BY PipelineAssumption
<1>2. w \in Nat /\ d \in Nat /\ d <= 21 * w
    BY StrideIsShort
<1>3. v \in Int /\ 480000 * v <= Quartic(n) * dd
    BY <1>2, StridesSpread
<1>4. Quartic(n) = N * (N - 1)
    BY DEF Quartic
<1> HIDE DEF n, w, d, v
<1>5. N \in 1..36
    <2>1. n = 1 \/ n = 2 \/ n = 3 \/ n = 4 \/ n = 5 \/ n = 6
        BY <1>1
    <2>2. CASE n = 1 \/ n = 2 \/ n = 3
        <3>1. N = 1 \/ N = 4 \/ N = 9
            BY <2>2
        <3> HIDE DEF N
        <3> QED
            BY <3>1
    <2>3. CASE n = 4 \/ n = 5 \/ n = 6
        <3>1. N = 16 \/ N = 25 \/ N = 36
            BY <2>3
        <3> HIDE DEF N
        <3> QED
            BY <3>1
    <2> QED
        BY <2>1, <2>2, <2>3
<1>6. W \in Nat /\ dd \in Nat /\ dd <= 441 * W
    <2> DEFINE u == 21 * w
    <2>1. u \in Nat /\ d <= u
        BY <1>2
    <2>2. u * u = 441 * (w * w)
        BY <1>2
    <2> HIDE DEF u
    <2>3. d * d <= d * u /\ d * u <= u * u /\ {d * d, d * u, u * u} \subseteq Int
        BY <1>2, <2>1
    <2>4. d * d <= u * u
        BY <2>3
    <2>5. w * w \in Nat /\ d * d \in Nat
        BY <1>2
    <2> QED
        BY <2>2, <2>4, <2>5
<1>7. 324 * n * n * w * w = 324 * (N * W)
    BY <1>1, <1>2
<1> HIDE DEF N, W, dd
<1> DEFINE x == (N - 1) * dd
           y == 15552 * W
<1>8. x \in Int /\ y \in Int /\ x <= y
    <2>1. (N - 1) * dd <= 35 * dd /\ (N - 1) * dd \in Int
        <3>1. N - 1 \in 0..35
            BY <1>5
        <3> DEFINE m == N - 1
        <3> HIDE DEF m
        <3>2. m * dd <= 35 * dd /\ m * dd \in Int
            <4>1. m \in Nat /\ m <= 35
                BY <1>5 DEF m
            <4>2. dd * m <= dd * 35 /\ dd * m \in Int
                BY <1>6, <4>1, Multiplies
            <4>3. dd * m = m * dd /\ dd * 35 = 35 * dd
                BY <1>6, <4>1
            <4> QED
                BY <4>2, <4>3
        <3> QED
            BY <3>2 DEF m
    <2>2. 35 * dd <= 15435 * W
        BY <1>6
    <2> DEFINE z == (N - 1) * dd
    <2> HIDE DEF z
    <2>3. z \in Int /\ z <= 15552 * W
        BY <1>6, <2>1, <2>2 DEF z
    <2> QED
        BY <1>6, <2>3 DEF z
<1>9. N * (N - 1) * dd = N * x /\ N * y = 48 * (324 * (N * W)) /\ N * W \in Int
    BY <1>5, <1>6
<1> HIDE DEF x, y
<1>10. N * x <= N * y /\ N * x \in Int /\ N * y \in Int
    BY <1>5, <1>8, Multiplies
<1> DEFINE a == N * x  b == N * y  e == N * W
<1>11. /\ a \in Int /\ b \in Int /\ e \in Int /\ a <= b /\ b = 48 * (324 * e)
       /\ 480000 * v <= a
    BY <1>3, <1>4, <1>9, <1>10
<1> HIDE DEF a, b, e
<1>12. 10000 * v <= 324 * e
    BY <1>3, <1>11
<1> QED
    BY <1>7, <1>12 DEF v, e, n, w, Allowed

\* From one reading to any later one of a range of 9: the walk leaves only an
\* end of the range, by one, and stays there.
Inward(c, p, x) ==
    x = p \/ (p = c.min /\ x = c.min + 1) \/ (p = c.max /\ x = c.max - 1)

(* Readings of such a walk are within one of each other.                     *)
LEMMA NarrowIsCalm ==
    ASSUME NEW h \in Seq(Int), NEW c \in Configs, Len(h) = ANOMALY_WINDOW, Width(c) = 9,
           \A j \in 2..Len(h) : Inward(c, h[1], h[j])
    PROVE  10000 * Spread(h) <= Allowed(c)
<1> DEFINE n == ANOMALY_WINDOW
           v == Spread(h)
           f == h[1]
           lo == IF \E j \in 2..Len(h) : h[j] = f - 1 THEN f - 1 ELSE f
           hi == lo + 1
<1>1. n \in 1..6 /\ Len(h) = n
    BY PipelineAssumption
<1>2. f \in Int /\ c.min \in Int /\ c.max \in Int /\ c.max - c.min = 9
      /\ \A j \in 1..n : h[j] \in Int
    BY <1>1, PipelineAssumption, SequenceSum DEF Width
<1>3. \A i \in 1..Len(h) : lo <= h[i] /\ h[i] <= hi
    <2>1. \A j \in 2..n : h[j] = f \/ (f = c.min /\ h[j] = f + 1) \/ (f = c.max /\ h[j] = f - 1)
        BY <1>1 DEF Inward
    <2>2. CASE \E j \in 2..n : h[j] = f - 1
        <3>1. f = c.max /\ f # c.min
            BY <1>2, <2>1, <2>2
        <3>2. lo = f - 1 /\ hi = f
            BY <1>1, <1>2, <2>2
        <3>3. \A j \in 2..n : h[j] = f \/ h[j] = f - 1
            BY <2>1, <3>1
        <3> HIDE DEF f, lo, hi
        <3>4. ASSUME NEW i \in 1..n PROVE lo <= h[i] /\ h[i] <= hi
            <4>1. i = 1 \/ i \in 2..n
                BY <1>1
            <4>2. h[i] = f \/ h[i] = f - 1
                BY <3>3, <4>1 DEF f
            <4> QED
                BY <1>2, <3>2, <4>2
        <3> QED
            BY <1>1, <3>4
    <2>3. CASE ~(\E j \in 2..n : h[j] = f - 1)
        <3>1. lo = f /\ hi = f + 1
            BY <1>1, <2>3
        <3>2. \A j \in 2..n : h[j] = f \/ h[j] = f + 1
            BY <2>1, <2>3
        <3> HIDE DEF f, lo, hi
        <3>3. ASSUME NEW i \in 1..n PROVE lo <= h[i] /\ h[i] <= hi
            <4>1. i = 1 \/ i \in 2..n
                BY <1>1
            <4>2. h[i] = f \/ h[i] = f + 1
                BY <3>2, <4>1 DEF f
            <4> QED
                BY <1>2, <3>1, <4>2
        <3> QED
            BY <1>1, <3>3
    <2> QED
        BY <2>2, <2>3
<1>4. lo \in Int /\ hi \in Int /\ hi - lo = 1
    <2>1. lo = f - 1 \/ lo = f
        OBVIOUS
    <2> HIDE DEF lo, f
    <2> QED
        BY <1>2, <2>1
<1> HIDE DEF lo, hi
<1>5. 4 * v <= n * n /\ v \in Int
    <2>1. 4 * v <= (n * (hi - lo)) * (n * (hi - lo)) /\ v \in Int
        BY <1>1, <1>3, <1>4, SpreadBounded
    <2>2. n * (hi - lo) = n
        BY <1>1, <1>4
    <2> QED
        BY <2>1, <2>2
<1> HIDE DEF n, v
<1>6. n = 1 \/ n = 2 \/ n = 3 \/ n = 4 \/ n = 5 \/ n = 6
    BY <1>1
<1>7. 10000 * v <= 324 * n * n * 9 * 9
    BY <1>4, <1>5, <1>6
<1>8. Allowed(c) = 324 * n * n * 9 * 9
    BY DEF Allowed, n
<1> QED
    BY <1>7, <1>8 DEF v

(***************************************************************************)
(* The engine: what a sensor in mode NORMAL reads.                         *)
(***************************************************************************)
(* Max and Min of two.                                                      *)
LEMMA OfTwo ==
    ASSUME NEW a \in Int, NEW b \in Int
    PROVE  /\ Max({a, b}) = IF a >= b THEN a ELSE b
           /\ Min({a, b}) = IF a <= b THEN a ELSE b
<1>1. \A x \in {a, b} : x \in Int
    OBVIOUS
<1>2. Max({a, b}) \in {a, b} /\ \A y \in {a, b} : Max({a, b}) >= y
    <2>1. \E x \in {a, b} : \A y \in {a, b} : x >= y
        OBVIOUS
    <2> QED
        BY <2>1 DEF Max
<1>3. Min({a, b}) \in {a, b} /\ \A y \in {a, b} : Min({a, b}) <= y
    <2>1. \E x \in {a, b} : \A y \in {a, b} : x <= y
        OBVIOUS
    <2> QED
        BY <2>1 DEF Min
<1> DEFINE u == Max({a, b})
           v == Min({a, b})
<1> HIDE DEF u, v
<1>4. (u = a \/ u = b) /\ u >= a /\ u >= b
    BY <1>2 DEF u
<1>5. (v = a \/ v = b) /\ v <= a /\ v <= b
    BY <1>3 DEF v
<1>6. u = IF a >= b THEN a ELSE b
    BY <1>4
<1>7. v = IF a <= b THEN a ELSE b
    BY <1>5
<1> QED
    BY <1>6, <1>7 DEF u, v

(* What a configuration is: integers and a sequence of them.                *)
LEMMA ConfigFacts ==
    ASSUME NEW c \in Configs
    PROVE  /\ c.min \in Int /\ c.max \in Int /\ c.pattern \in Seq(Int)
           /\ Width(c) \in Int /\ Ends(c) \in Int /\ Magnitude(Width(c)) \in Nat
           /\ Width(c) = c.max - c.min /\ Ends(c) = c.min + c.max
<1> DEFINE lo == c.min
           hi == c.max
           w == hi - lo
<1>1. lo \in Int /\ hi \in Int /\ c.pattern \in Seq(Int)
    BY PipelineAssumption
<1>2. Width(c) = w /\ Ends(c) = lo + hi
    BY DEF Width, Ends
<1> HIDE DEF lo, hi
<1>3. w \in Int /\ lo + hi \in Int
    BY <1>1
<1> HIDE DEF w
<1>4. Magnitude(w) \in Nat
    BY <1>3 DEF Magnitude
<1> QED
    BY <1>1, <1>2, <1>3, <1>4 DEF lo, hi, w

(* Clamping, and no negative occupancy.                                     *)
LEMMA ClampedFacts ==
    ASSUME NEW c \in Configs, NEW v \in Int
    PROVE  /\ Clamped(v, c) \in Int
           /\ c.min < c.max =>
                Clamped(v, c) = IF v < c.min THEN c.min ELSE IF v > c.max THEN c.max ELSE v
<1> DEFINE lo == c.min
           hi == c.max
           u == Max({v, lo})
<1>1. lo \in Int /\ hi \in Int
    BY ConfigFacts
<1>2. Clamped(v, c) = Min({u, hi})
    BY DEF Clamped
<1> HIDE DEF lo, hi
<1>3. u = IF v >= lo THEN v ELSE lo
    BY <1>1, OfTwo
<1>4. u \in Int
    BY <1>1, <1>3
<1> HIDE DEF u
<1>5. Min({u, hi}) = IF u <= hi THEN u ELSE hi
    BY <1>1, <1>4, OfTwo
<1> DEFINE z == Min({u, hi})
<1>6. Clamped(v, c) = z /\ z = IF u <= hi THEN u ELSE hi
    BY <1>2, <1>5
<1> HIDE DEF z
<1>7. z \in Int /\ (lo < hi => z = IF v < lo THEN lo ELSE IF v > hi THEN hi ELSE v)
    BY <1>1, <1>3, <1>4, <1>6
<1> QED
    BY <1>6, <1>7 DEF lo, hi

LEMMA PhysicalFacts ==
    ASSUME NEW s \in Sensors, NEW v \in Int
    PROVE  /\ Physical(s, v) \in Int
           /\ Physical(s, v) = IF Type[s] = "occupancy" /\ v < 0 THEN 0 ELSE v
<1>1. Max({0, v}) = IF 0 >= v THEN 0 ELSE v
    BY OfTwo
<1> DEFINE z == Max({0, v})
<1> HIDE DEF z
<1>2. z = IF v < 0 THEN 0 ELSE v
    BY <1>1 DEF z
<1>3. Physical(s, v) = IF Type[s] = "occupancy" THEN z ELSE v
    BY DEF Physical, z
<1> QED
    BY <1>2, <1>3

\* A reading of a mode that clamps: in the range, or the 0 of an occupancy
\* whose range is below 0.
CalmReading(s, c, x) ==
    \/ c.min <= x /\ x <= c.max /\ (Type[s] = "occupancy" => x >= 0)
    \/ Type[s] = "occupancy" /\ c.max < 0 /\ x = 0

(* Every mode that clamps makes such readings.                              *)
LEMMA CalmTaken ==
    ASSUME NEW s \in Sensors, NEW c \in Configs, c.min < c.max, NEW v \in Int
    PROVE  CalmReading(s, c, Physical(s, Clamped(v, c)))
<1> DEFINE lo == c.min
           hi == c.max
           z == Clamped(v, c)
           x == Physical(s, z)
<1>1. lo \in Int /\ hi \in Int /\ lo < hi
    BY ConfigFacts
<1>2. z \in Int /\ lo <= z /\ z <= hi
    <2>1. z \in Int /\ z = IF v < lo THEN lo ELSE IF v > hi THEN hi ELSE v
        BY <1>1, ClampedFacts
    <2> HIDE DEF lo, hi, z
    <2> QED
        BY <1>1, <2>1
<1> HIDE DEF z
<1>3. x = IF Type[s] = "occupancy" /\ z < 0 THEN 0 ELSE z
    BY <1>2, PhysicalFacts
<1> HIDE DEF x, lo, hi
<1>4. \/ lo <= x /\ x <= hi /\ (Type[s] = "occupancy" => x >= 0)
      \/ Type[s] = "occupancy" /\ hi < 0 /\ x = 0
    <2>1. CASE Type[s] = "occupancy" /\ z < 0
        BY <1>1, <1>2, <1>3, <2>1
    <2>2. CASE ~(Type[s] = "occupancy" /\ z < 0)
        BY <1>1, <1>2, <1>3, <2>2
    <2> QED
        BY <2>1, <2>2
<1> QED
    BY <1>4 DEF CalmReading, lo, hi, x, z

(* The integers near a quotient.                                             *)
LEMMA NearTyped ==
    ASSUME NEW a \in Int, NEW b \in Int, NEW n \in {2, 40, 100}, NEW v \in Near(a, b, n)
    PROVE  v \in Int
<1>1. (b - a) \div n \in Int /\ (a + b) \div n \in Int
    <2>1. b - a \in Int /\ a + b \in Int
        OBVIOUS
    <2>2. \A x \in Int : x \div 2 \in Int /\ x \div 40 \in Int /\ x \div 100 \in Int
        OBVIOUS
    <2> QED
        BY <2>1, <2>2
<1> QED
    BY <1>1 DEF Near

(* Forty times a step of the walk, in terms of the range.                    *)
LEMMA WalkFacts ==
    ASSUME NEW c \in Configs, NEW t \in Int, NEW v \in Walk(t, c)
    PROVE  /\ v \in Int
           /\ Width(c) > 0 =>
                /\ 5 * (40 * v - 19 * t - Ends(c)) <= 7 * Width(c) + 100
                /\ -(5 * (40 * v - 19 * t - Ends(c))) <= 7 * Width(c) + 100
<1> DEFINE w == Width(c)
           e == Ends(c)
           g == Magnitude(w)
           a == 19 * t + e
           b == (7 * g + 100) \div 5
<1>1. w \in Int /\ e \in Int /\ g \in Nat
    BY ConfigFacts
<1>2. w > 0 => g = w
    <2> HIDE DEF w
    <2> QED
        BY <1>1 DEF Magnitude
<1>3. v \in -((b - a) \div 40) .. (a + b) \div 40
    BY DEF Walk, Near
<1> HIDE DEF w, e, g
<1>4. a \in Int /\ b \in Int /\ 5 * b <= 7 * g + 100
    BY <1>1
<1> HIDE DEF b
<1>5. v \in Int /\ 40 * v - a <= b /\ -(40 * v - a) <= b
    <2> HIDE DEF a
    <2>1. (b - a) \div 40 \in Int /\ (a + b) \div 40 \in Int
        BY <1>4
    <2> DEFINE x == (b - a) \div 40
               y == (a + b) \div 40
    <2>2. 40 * x <= b - a /\ 40 * y <= a + b /\ x \in Int /\ y \in Int
        BY <1>4
    <2>3. v \in -x .. y
        BY <1>3
    <2> HIDE DEF x, y
    <2> QED
        BY <1>4, <2>2, <2>3
<1>6. w > 0 => /\ 5 * (40 * v - 19 * t - e) <= 7 * w + 100
               /\ -(5 * (40 * v - 19 * t - e)) <= 7 * w + 100
    BY <1>1, <1>2, <1>4, <1>5
<1> QED
    BY <1>5, <1>6 DEF w, e

(* From such a reading the walk takes a stride at most.                     *)
LEMMA StrideTaken ==
    ASSUME NEW s \in Sensors, NEW c \in Configs, c.min < c.max,
           NEW p \in Int, CalmReading(s, c, p), NEW v \in Walk(2 * p, c)
    PROVE  /\ 200 * (Physical(s, Clamped(v, c)) - p) <= Stride(c)
           /\ 200 * (p - Physical(s, Clamped(v, c))) <= Stride(c)
           /\ Width(c) = 9 => Inward(c, p, Physical(s, Clamped(v, c)))
<1> DEFINE w == Width(c)
           e == Ends(c)
           lo == c.min
           hi == c.max
           k == (3 * w + 25) \div 50
           z == Clamped(v, c)
           x == Physical(s, z)
<1>1. /\ w \in Int /\ e \in Int /\ lo \in Int /\ hi \in Int /\ lo < hi
      /\ w = hi - lo /\ e = lo + hi
    BY ConfigFacts
<1>2. w > 0
    <2> HIDE DEF w, lo, hi
    <2> QED
        BY <1>1
<1>3. /\ v \in Int /\ 5 * (40 * v - 19 * (2 * p) - e) <= 7 * w + 100
      /\ -(5 * (40 * v - 19 * (2 * p) - e)) <= 7 * w + 100
    <2>1. 2 * p \in Int
        OBVIOUS
    <2> QED
        BY <1>2, <2>1, WalkFacts
<1>4. z \in Int /\ z = IF v < lo THEN lo ELSE IF v > hi THEN hi ELSE v
    BY <1>3, ClampedFacts
<1>5. x \in Int /\ x = IF Type[s] = "occupancy" /\ z < 0 THEN 0 ELSE z
    <2> HIDE DEF z
    <2> QED
        BY <1>4, PhysicalFacts
<1>6. \/ lo <= p /\ p <= hi /\ (Type[s] = "occupancy" => p >= 0)
      \/ Type[s] = "occupancy" /\ hi < 0 /\ p = 0
    BY DEF CalmReading
<1>7. Stride(c) = 200 * k
    BY DEF Stride
<1> HIDE DEF w, e, lo, hi, z, x
<1>8. k \in Int /\ k >= 0 /\ 50 * k <= 3 * w + 25 /\ 3 * w + 25 < 50 * k + 50
    BY <1>1, <1>2
<1> HIDE DEF k
<1>9. ASSUME lo <= p, p <= hi, Type[s] = "occupancy" => p >= 0
      PROVE  /\ x - p <= k /\ p - x <= k
             /\ w = 9 => x = p \/ (p = lo /\ x = lo + 1) \/ (p = hi /\ x = hi - 1)
    <2>1. v - p <= k /\ p - v <= k
        BY <1>1, <1>3, <1>8, <1>9
    <2>2. z - p <= k /\ p - z <= k
        BY <1>1, <1>3, <1>4, <1>8, <1>9, <2>1
    <2>3. w = 9 => z = p \/ (p = lo /\ z = lo + 1) \/ (p = hi /\ z = hi - 1)
        <3> SUFFICES ASSUME w = 9 PROVE z = p \/ (p = lo /\ z = lo + 1) \/ (p = hi /\ z = hi - 1)
            OBVIOUS
        <3>1. hi = lo + 9 /\ k = 1
            BY <1>1, <1>8
        <3>2. CASE p = lo
            BY <1>1, <1>3, <1>4, <2>2, <3>1, <3>2
        <3>3. CASE p = hi
            BY <1>1, <1>3, <1>4, <2>2, <3>1, <3>3
        <3>4. CASE p # lo /\ p # hi
            <4>1. v = p
                BY <1>1, <1>3, <1>9, <3>1, <3>4
            <4> QED
                BY <1>1, <1>4, <1>9, <4>1
        <3> QED
            BY <3>2, <3>3, <3>4
    <2>4. CASE x = z
        BY <2>2, <2>3, <2>4
    <2>5. CASE x # z
        <3>1. x = 0 /\ z < 0 /\ p >= 0
            BY <1>5, <1>9, <2>5
        <3>2. w = 9 => x = p
            <4>0. {z, x, lo, hi, p} \subseteq Int
                BY <1>1, <1>4, <1>5
            <4>1. ~(z = p) /\ ~(p = lo /\ z = lo + 1)
                BY <3>1, <4>0
            <4>2. p = hi /\ z = hi - 1 => x = p
                BY <3>1, <4>0
            <4> QED
                BY <2>3, <4>1, <4>2
        <3> QED
            BY <1>4, <1>8, <2>2, <3>1, <3>2
    <2> QED
        BY <2>4, <2>5
<1>10. ASSUME Type[s] = "occupancy", hi < 0, p = 0
      PROVE  x = p
    <2>1. z < 0
        BY <1>1, <1>3, <1>4, <1>10
    <2> QED
        BY <1>5, <1>10, <2>1
<1>11. /\ x - p <= k /\ p - x <= k
       /\ w = 9 => x = p \/ (p = lo /\ x = lo + 1) \/ (p = hi /\ x = hi - 1)
    BY <1>6, <1>8, <1>9, <1>10
<1>12. 200 * (x - p) <= 200 * k /\ 200 * (p - x) <= 200 * k
    BY <1>5, <1>8, <1>11
<1> QED
    BY <1>7, <1>11, <1>12 DEF x, z, w, lo, hi, Inward

\* The last k readings are those of mode NORMAL, a stride apart.
CalmOf(s, h, c, k) ==
    /\ k \in Nat /\ k <= Len(h) /\ k <= ANOMALY_WINDOW
    /\ \A i \in 1..Len(h) : i > Len(h) - k => CalmReading(s, c, h[i])
    /\ \A i \in 1..Len(h) - 1 : i > Len(h) - k =>
         200 * (h[i + 1] - h[i]) <= Stride(c) /\ 200 * (h[i] - h[i + 1]) <= Stride(c)
    /\ Width(c) = 9 => \A j \in 1..Len(h) : \A i \in 1..j - 1 :
         i > Len(h) - k => Inward(c, h[i], h[j])

(* One more of them.                                                        *)
LEMMA CalmGrows ==
    ASSUME NEW s \in Sensors, NEW c \in Configs, NEW h \in Seq(Int), NEW k,
           CalmOf(s, h, c, k), NEW x \in Int, CalmReading(s, c, x),
           k > 0 => /\ 200 * (x - h[Len(h)]) <= Stride(c)
                    /\ 200 * (h[Len(h)] - x) <= Stride(c)
                    /\ Width(c) = 9 => Inward(c, h[Len(h)], x)
    PROVE  CalmOf(s, Append(h, x), c, IF k < ANOMALY_WINDOW THEN k + 1 ELSE k)
<1> DEFINE n == Len(h)
           g == Append(h, x)
           j == IF k < ANOMALY_WINDOW THEN k + 1 ELSE k
           d == Stride(c)
<1>1. /\ n \in Nat /\ Len(g) = n + 1 /\ g[n + 1] = x
      /\ \A i \in 1..n : g[i] = h[i]
    OBVIOUS
<1>2. k \in Nat /\ k <= n /\ k <= ANOMALY_WINDOW /\ ANOMALY_WINDOW \in Nat
      /\ ANOMALY_WINDOW > 0
    BY PipelineAssumption DEF CalmOf
<1>3. j \in Nat /\ j <= n + 1 /\ j <= ANOMALY_WINDOW /\ j <= k + 1
    BY <1>1, <1>2
<1>4. \A i \in 1..n : i > n - k => CalmReading(s, c, h[i])
    BY DEF CalmOf
<1>5. \A i \in 1..n - 1 : i > n - k =>
         200 * (h[i + 1] - h[i]) <= d /\ 200 * (h[i] - h[i + 1]) <= d
    BY DEF CalmOf
<1>6. k > 0 => /\ 200 * (x - h[n]) <= d /\ 200 * (h[n] - x) <= d
               /\ Width(c) = 9 => Inward(c, h[n], x)
    OBVIOUS
<1>14. Width(c) = 9 => \A m \in 1..n : \A i \in 1..m - 1 :
         i > n - k => Inward(c, h[i], h[m])
    BY DEF CalmOf
<1> HIDE DEF n, g, j, d
<1>15. ASSUME Width(c) = 9, NEW m \in 1..n + 1, NEW i \in 1..m - 1, i > n + 1 - j
       PROVE  Inward(c, g[i], g[m])
    <2>1. i \in 1..n /\ i > n - k /\ k > 0 /\ g[i] = h[i]
        BY <1>1, <1>2, <1>3, <1>15
    <2>2. CASE m # n + 1
        <3>1. m \in 1..n /\ g[m] = h[m]
            BY <1>1, <1>15, <2>2
        <3> QED
            BY <1>14, <1>15, <2>1, <3>1
    <2>3. CASE m = n + 1
        <3>1. Inward(c, h[n], x)
            BY <1>6, <1>15, <2>1
        <3>2. i # n => Inward(c, h[i], h[n])
            <4>1. i # n => n \in 1..n /\ i \in 1..n - 1
                BY <1>1, <2>1
            <4> QED
                BY <1>14, <1>15, <2>1, <4>1
        <3>3. c.min \in Int /\ c.max \in Int /\ c.max - c.min = 9
            BY <1>15, ConfigFacts
        <3>4. ASSUME NEW a \in Int, NEW b \in Int, Inward(c, a, b), Inward(c, b, x)
              PROVE  Inward(c, a, x)
            BY <3>3, <3>4 DEF Inward
        <3>5. h[i] \in Int /\ h[n] \in Int
            <4>1. n \in 1..n
                BY <1>1, <2>1
            <4> QED
                BY <2>1, <4>1 DEF n
        <3>6. Inward(c, h[i], x)
            <4>1. CASE i = n
                BY <3>1, <4>1
            <4>2. CASE i # n
                BY <3>1, <3>2, <3>4, <3>5, <4>2
            <4> QED
                BY <4>1, <4>2
        <3> QED
            BY <1>1, <2>1, <2>3, <3>6
    <2> QED
        BY <2>2, <2>3
<1>7. ASSUME NEW i \in 1..n + 1, i > n + 1 - j PROVE CalmReading(s, c, g[i])
    <2>1. CASE i = n + 1
        BY <1>1, <2>1
    <2>2. CASE i # n + 1
        <3>1. i \in 1..n /\ i > n - k
            BY <1>1, <1>2, <1>3, <1>7, <2>2
        <3> QED
            BY <1>1, <1>4, <3>1
    <2> QED
        BY <2>1, <2>2
<1>8. ASSUME NEW i \in 1..n, i > n + 1 - j
      PROVE  200 * (g[i + 1] - g[i]) <= d /\ 200 * (g[i] - g[i + 1]) <= d
    <2>1. CASE i = n
        <3>1. k > 0
            BY <1>1, <1>2, <1>3, <1>8, <2>1
        <3>2. g[i + 1] = x /\ g[i] = h[n]
            BY <1>1, <2>1
        <3> QED
            BY <1>6, <3>1, <3>2
    <2>2. CASE i # n
        <3>1. i \in 1..n - 1 /\ i > n - k /\ i \in 1..n /\ i + 1 \in 1..n
            BY <1>1, <1>2, <1>3, <1>8, <2>2
        <3>2. g[i + 1] = h[i + 1] /\ g[i] = h[i]
            BY <1>1, <3>1
        <3> QED
            BY <1>5, <3>1, <3>2
    <2> QED
        BY <2>1, <2>2
<1> DEFINE l == Len(g)
<1>9. l = n + 1 /\ l - 1 = n /\ l \in Int /\ n \in Int /\ j \in Int
    BY <1>1, <1>3
<1> HIDE DEF l
<1>10. \A i \in 1..l : i > l - j => CalmReading(s, c, g[i])
    BY <1>9, <1>7
<1>11. \A i \in 1..l - 1 : i > l - j =>
         200 * (g[i + 1] - g[i]) <= Stride(c) /\ 200 * (g[i] - g[i + 1]) <= Stride(c)
    BY <1>9, <1>8 DEF d
<1>12. j \in Nat /\ j <= Len(g) /\ j <= ANOMALY_WINDOW
    BY <1>1, <1>3
<1>16. Width(c) = 9 => \A m \in 1..l : \A i \in 1..m - 1 :
         i > l - j => Inward(c, g[i], g[m])
    BY <1>9, <1>15
<1>13. CalmOf(s, g, c, j)
    BY <1>10, <1>11, <1>12, <1>16 DEF CalmOf, l
<1> QED
    BY <1>13 DEF g, j

(* A window full of such readings is no oscillation.                        *)
LEMMA CalmIsSteady ==
    ASSUME NEW s \in Sensors, NEW c \in Configs, NEW h \in Seq(Int), Width(c) > 0,
           CalmOf(s, h, c, ANOMALY_WINDOW)
    PROVE  ~Oscillates(h, c)
<1> DEFINE n == Len(h)
           k == ANOMALY_WINDOW
           a == n - k + 1
           r == SubSeq(h, a, n)
           d == Stride(c)
<1>1. n \in Nat /\ k \in Nat /\ k > 0 /\ k <= n
    BY PipelineAssumption DEF CalmOf
<1>2. r \in Seq(Int) /\ Len(r) = k /\ \A i \in 1..k : r[i] = h[n - k + i]
    <2>1. a \in Int /\ a >= 1 /\ a <= n /\ n - a + 1 = k
        BY <1>1
    <2>2. \A i \in a..n : h[i] \in Int
        BY <2>1
    <2> HIDE DEF n
    <2>3. \A i \in 1..k : a + i - 1 = n - k + i
        BY <1>1
    <2> HIDE DEF a, k
    <2>4. /\ SubSeq(h, a, n) \in Seq(Int)
          /\ Len(SubSeq(h, a, n)) = IF a <= n THEN n - a + 1 ELSE 0
          /\ \A i \in 1..n - a + 1 : SubSeq(h, a, n)[i] = h[a + i - 1]
        BY <1>1, <2>1, <2>2, SubSeqProperties
    <2> QED
        BY <2>1, <2>3, <2>4
<1>3. \A i \in 1..n - 1 : i > n - k =>
         200 * (h[i + 1] - h[i]) <= d /\ 200 * (h[i] - h[i + 1]) <= d
    BY DEF CalmOf
<1>4. Recent(h, ANOMALY_WINDOW) = r
    BY DEF Recent
<1>10. Width(c) = 9 => \A j \in 1..n : \A i \in 1..j - 1 :
         i > n - k => Inward(c, h[i], h[j])
    BY DEF CalmOf
<1>11. Width(c) \in Nat
    BY ConfigFacts
<1> HIDE DEF n, k, r, d, a
<1>5. Strides(r, d)
    <2> SUFFICES ASSUME NEW i \in 1..k - 1
                 PROVE  200 * (r[i + 1] - r[i]) <= d /\ 200 * (r[i] - r[i + 1]) <= d
        BY <1>2 DEF Strides
    <2> DEFINE j == n - k + i
    <2>1. j \in 1..n - 1 /\ j > n - k /\ n - k + (i + 1) = j + 1 /\ i \in 1..k /\ i + 1 \in 1..k
        BY <1>1
    <2>2. r[i] = h[j] /\ r[i + 1] = h[j + 1]
        BY <1>2, <2>1
    <2> HIDE DEF j
    <2> QED
        BY <1>3, <2>1, <2>2
<1> DEFINE v == 10000 * Spread(r)
           w == Allowed(c)
<1>6. v <= w
    <2>1. CASE Width(c) # 9
        BY <1>2, <1>5, <1>11, <2>1, WalkIsCalm DEF d, k
    <2>2. CASE Width(c) = 9
        <3>1. ASSUME NEW j \in 2..k PROVE Inward(c, r[1], r[j])
            <4> DEFINE a1 == n - k + 1
                       b1 == n - k + j
            <4>1. /\ b1 \in 1..n /\ a1 \in 1..b1 - 1 /\ a1 > n - k
                  /\ 1 \in 1..k /\ j \in 1..k
                BY <1>1
            <4>2. r[1] = h[a1] /\ r[j] = h[b1]
                BY <1>2, <4>1
            <4> HIDE DEF a1, b1
            <4> QED
                BY <1>10, <2>2, <4>1, <4>2
        <3>2. Len(r) = ANOMALY_WINDOW /\ r \in Seq(Int)
            BY <1>2 DEF k
        <3>3. \A j \in 2..Len(r) : Inward(c, r[1], r[j])
            BY <1>2, <3>1
        <3> QED
            BY <2>2, <3>2, <3>3, NarrowIsCalm
    <2> QED
        BY <2>1, <2>2
<1>7. v \in Int
    <2>1. d \in Nat
        BY <1>11, StrideIsShort DEF d
    <2>2. Spread(r) \in Int
        BY <1>2, <1>5, <2>1, StridesSpread
    <2> QED
        BY <2>2
<1>8. w \in Int
    <2> DEFINE x == Width(c)
    <2>1. x \in Int /\ ANOMALY_WINDOW \in Int
        BY <1>1, <1>11 DEF k
    <2> HIDE DEF x
    <2>2. 324 * ANOMALY_WINDOW * ANOMALY_WINDOW * x * x \in Int
        BY <2>1
    <2> QED
        BY <2>2 DEF x, Allowed
<1>9. Oscillates(h, c) => v > w
    BY <1>4 DEF Oscillates, Allowed
<1> HIDE DEF v, w
<1> QED
    BY <1>6, <1>7, <1>8, <1>9

(***************************************************************************)
(* Types of the pipeline's state.                                          *)
(***************************************************************************)
ReadingType == [sensor : Sensors, room : RoomIds, type : Types, value : Int, anomaly : BOOLEAN]
Deques(n) == {w \in Seq(Int) : Len(w) <= n}
DetectorType == [temp   : [RoomIds -> Deques(ROLLING_WINDOW)],
                 energy : [RoomIds -> Deques(ROLLING_WINDOW)],
                 osc    : [Sensors -> Deques(OSC_WINDOW)]]

PipelineTypeOK ==
    /\ sensor \in [Sensors -> [mode : Modes, config : Configs]]
    /\ history \in [Sensors -> Seq(Int)]
    /\ next \in [Sensors -> Nat]
    /\ flag \in [Sensors -> BOOLEAN]
    /\ calm \in [Sensors -> Nat]
    /\ log \in Seq(ReadingType)
    /\ position \in 0..Len(log) /\ start \in 0..position
    /\ detector \in DetectorType
    /\ disturbances \in Nat

\* Twice the reading a sensor's walk starts from.
Twice(s) ==
    LET h == history[s]
    IN IF h = <<>> THEN Ends(sensor[s].config) ELSE 2 * h[Len(h)]

(* A sensor's configuration and history.                                    *)
LEMMA TwiceTyped ==
    ASSUME PipelineTypeOK, NEW s \in Sensors
    PROVE  /\ sensor[s].mode \in Modes /\ sensor[s].config \in Configs
           /\ history[s] \in Seq(Int) /\ Twice(s) \in Int
<1>1. sensor[s].mode \in Modes /\ sensor[s].config \in Configs /\ history[s] \in Seq(Int)
    BY DEF PipelineTypeOK
<1>2. CASE history[s] = <<>>
    <2>1. Ends(sensor[s].config) \in Int
        BY <1>1, ConfigFacts
    <2> QED
        BY <1>1, <1>2, <2>1 DEF Twice
<1>3. CASE history[s] # <<>>
    <2> DEFINE h == history[s]
    <2>1. h \in Seq(Int) /\ h # <<>>
        BY <1>1, <1>3
    <2> HIDE DEF h
    <2>2. h[Len(h)] \in Int
        BY <2>1
    <2> DEFINE last == h[Len(h)]
    <2>3. Twice(s) = 2 * last
        BY <1>3 DEF Twice, h
    <2> HIDE DEF last
    <2>4. 2 * last \in Int
        BY <2>2 DEF last
    <2> QED
        BY <1>1, <2>3, <2>4
<1> QED
    BY <1>2, <1>3

(* What the modes make of a configuration are integers.                     *)
LEMMA MadeTyped ==
    ASSUME NEW c \in Configs, NEW i \in Nat
    PROVE  Middles(c) \cup Between(c) \cup Patterned(c, i) \cup Anomalous(c) \subseteq Int
<1> DEFINE w == Width(c)
           e == Ends(c)
           lo == c.min
           hi == c.max
           g == Magnitude(Width(c))
<1>1. /\ w \in Int /\ e \in Int /\ lo \in Int /\ hi \in Int /\ g \in Nat
      /\ c.pattern \in Seq(Int)
    BY ConfigFacts
<1>2. Middles(c) \subseteq Int
    BY <1>1, NearTyped DEF Middles
<1>3. Between(c) \subseteq Int
    BY DEF Between
<1>4. Patterned(c, i) \subseteq Int
    <2> DEFINE p == c.pattern
               q == p[(i % Len(p)) + 1]
    <2>1. CASE p = <<>>
        BY <1>2, <2>1 DEF Patterned
    <2>2. CASE p # <<>>
        <3> DEFINE l == Len(p)
        <3>1. l \in Nat /\ l # 0
            BY <1>1, <2>2, EmptySeq
        <3>2. (i % l) + 1 \in 1..l
            <4> HIDE DEF l
            <4> QED
                BY <3>1
        <3>3. q \in Int
            <4>1. \A m \in 1..Len(p) : p[m] \in Int
                BY <1>1
            <4> QED
                BY <3>2, <4>1
        <3>4. Patterned(c, i) = Near(100 * q, 2 * g + 50, 100)
            BY <2>2 DEF Patterned
        <3> HIDE DEF q, g
        <3>5. 100 * q \in Int /\ 2 * g + 50 \in Int
            BY <1>1, <3>3
        <3> QED
            BY <3>4, <3>5, NearTyped
    <2> QED
        BY <2>1, <2>2
<1>5. Anomalous(c) \subseteq Int
    <2>1. Anomalous(c) =
            Middles(c) \cup {hi + v : v \in {2 * w, 3 * w} \cup Near(-3 * w, 1, 2)}
        BY DEF Anomalous
    <2> HIDE DEF w, hi
    <2>2. {2 * w, 3 * w} \subseteq Int /\ -3 * w \in Int
        BY <1>1
    <2>3. Near(-3 * w, 1, 2) \subseteq Int
        BY <2>2, NearTyped
    <2> QED
        BY <1>1, <1>2, <2>1, <2>2, <2>3
<1> QED
    BY <1>2, <1>3, <1>4, <1>5

(* Every mode makes integers; NORMAL makes a clamped step of the walk.      *)
LEMMA ValuesTyped ==
    ASSUME PipelineTypeOK, NEW s \in Sensors, NEW v \in Values(s)
    PROVE  /\ v \in Int
           /\ sensor[s].mode = "normal" =>
                \E u \in Walk(Twice(s), sensor[s].config) :
                   u \in Int /\ v = Clamped(u, sensor[s].config)
<1> DEFINE c == sensor[s].config
           p == Twice(s)
           i == next[s]
<1>1. c \in Configs /\ sensor[s].mode \in Modes /\ p \in Int /\ i \in Nat
    BY TwiceTyped DEF PipelineTypeOK
<1>2. /\ sensor[s].mode = "normal" => v \in {Clamped(u, c) : u \in Walk(p, c)}
      /\ sensor[s].mode = "random" => v \in {Clamped(u, c) : u \in Between(c)}
      /\ sensor[s].mode = "pattern" => v \in {Clamped(u, c) : u \in Patterned(c, i)}
      /\ sensor[s].mode = "anomaly" => v \in Anomalous(c)
    BY DEF Values, Twice
<1> HIDE DEF c, p, i
<1>3. /\ \A u \in Walk(p, c) : u \in Int
      /\ \A u \in Between(c) \cup Patterned(c, i) \cup Anomalous(c) : u \in Int
      /\ \A u \in Int : Clamped(u, c) \in Int
    <2>1. \A u \in Walk(p, c) : u \in Int
        BY <1>1, WalkFacts
    <2>2. \A u \in Between(c) \cup Patterned(c, i) \cup Anomalous(c) : u \in Int
        BY <1>1, MadeTyped
    <2>3. \A u \in Int : Clamped(u, c) \in Int
        BY <1>1, ClampedFacts
    <2> QED
        BY <2>1, <2>2, <2>3
<1>4. CASE sensor[s].mode = "normal"
    <2>1. PICK u \in Walk(p, c) : v = Clamped(u, c)
        BY <1>2, <1>4
    <2> QED
        BY <1>3, <2>1 DEF c, p
<1>5. CASE sensor[s].mode = "random"
    BY <1>2, <1>3, <1>5
<1>6. CASE sensor[s].mode = "pattern"
    BY <1>2, <1>3, <1>6
<1>7. CASE sensor[s].mode = "anomaly"
    BY <1>2, <1>3, <1>7
<1> QED
    BY <1>1, <1>4, <1>5, <1>6, <1>7 DEF Modes

(***************************************************************************)
(* The detector: the windows are deques.                                   *)
(***************************************************************************)
(* Windows are not empty, the sensors' hold two or more.                    *)
LEMMA Windows ==
    /\ ROLLING_WINDOW \in Nat /\ ROLLING_WINDOW > 0
    /\ OSC_WINDOW \in Nat /\ OSC_WINDOW > 1
    BY DetectorAssumption

\* A push onto a window of at most n: the last reading is the new one, and the
\* one m places before it was m - 1 places before the end.
LEMMA Pushed ==
    ASSUME NEW w \in Seq(Int), NEW v \in Int, NEW n \in Nat, n > 0, Len(w) <= n
    PROVE  /\ Push(w, v, n) \in Seq(Int)
           /\ Len(Push(w, v, n)) = IF Len(w) < n THEN Len(w) + 1 ELSE n
           /\ Push(w, v, n)[Len(Push(w, v, n))] = v
           /\ \A m \in Nat : m > 0 /\ m < Len(Push(w, v, n)) =>
                /\ m - 1 < Len(w)
                /\ Push(w, v, n)[Len(Push(w, v, n)) - m] = w[Len(w) - (m - 1)]
<1> DEFINE l == Len(w)
<1>1. l \in Nat /\ \A i \in 1..l : w[i] \in Int
    OBVIOUS
<1>2. CASE l < n
    <2> DEFINE u == Append(w, v)
    <2>1. Push(w, v, n) = u
        BY <1>2 DEF Push
    <2>2. /\ u \in Seq(Int) /\ Len(u) = l + 1 /\ u[l + 1] = v
          /\ \A i \in 1..l : u[i] = w[i]
        OBVIOUS
    <2> HIDE DEF u, l
    <2>3. ASSUME NEW m \in Nat, m > 0, m < l + 1
          PROVE  m - 1 < l /\ u[(l + 1) - m] = w[l - (m - 1)]
        <3>1. (l + 1) - m \in 1..l /\ l - (m - 1) = (l + 1) - m /\ m - 1 < l
            BY <1>1, <2>3
        <3> QED
            BY <2>2, <3>1
    <2> QED
        BY <1>2, <2>1, <2>2, <2>3 DEF l
<1>3. CASE l = n
    <2> DEFINE a == l - (n - 1) + 1
               r == SubSeq(w, a, l)
               u == Append(r, v)
    <2>1. Push(w, v, n) = u
        BY <1>3 DEF Push, Recent
    <2>2. a = 2 /\ a \in Int /\ l \in Int /\ n \in Int
        BY <1>1, <1>3
    <2>3. \A i \in a..l : w[i] \in Int
        <3> HIDE DEF a, l
        <3> QED
            BY <1>1, <2>2
    <2>4. /\ r \in Seq(Int) /\ Len(r) = IF a <= l THEN l - a + 1 ELSE 0
          /\ \A i \in 1..l - a + 1 : r[i] = w[a + i - 1]
        <3> HIDE DEF a, l
        <3> QED
            BY <2>2, <2>3, SubSeqProperties
    <2> HIDE DEF a, l
    <2>5. r \in Seq(Int) /\ Len(r) = n - 1 /\ \A i \in 1..n - 1 : r[i] = w[i + 1]
        <3>1. Len(r) = n - 1
            BY <1>3, <2>2, <2>4
        <3>2. \A i \in 1..n - 1 : r[i] = w[i + 1]
            <4>1. l - a + 1 = n - 1
                BY <1>3, <2>2
            <4>2. \A i \in 1..n - 1 : a + i - 1 = i + 1
                BY <2>2
            <4> QED
                BY <2>4, <4>1, <4>2
        <3> QED
            BY <2>4, <3>1, <3>2
    <2> HIDE DEF r
    <2>6. /\ u \in Seq(Int) /\ Len(u) = n /\ u[n] = v
          /\ \A i \in 1..n - 1 : u[i] = w[i + 1]
        <3>1. /\ u \in Seq(Int) /\ Len(u) = Len(r) + 1 /\ u[Len(r) + 1] = v
              /\ \A i \in 1..Len(r) : u[i] = r[i]
            BY <2>5, AppendProperties
        <3>2. Len(r) + 1 = n
            BY <2>2, <2>5
        <3> QED
            BY <2>5, <3>1, <3>2
    <2> HIDE DEF u
    <2>7. ASSUME NEW m \in Nat, m > 0, m < n
          PROVE  m - 1 < l /\ u[n - m] = w[l - (m - 1)]
        <3>1. n - m \in 1..n - 1 /\ (n - m) + 1 = l - (m - 1) /\ m - 1 < l
            BY <1>3, <2>2, <2>7
        <3> QED
            BY <2>6, <3>1
    <2> QED
        BY <1>3, <2>1, <2>2, <2>6, <2>7 DEF l
<1>4. l < n \/ l = n
    BY <1>1
<1> QED
    BY <1>2, <1>3, <1>4

(* A window keeps to its length.                                            *)
LEMMA PushTyped ==
    ASSUME NEW n \in Nat, n > 0, NEW w \in Deques(n), NEW v \in Int
    PROVE  Push(w, v, n) \in Deques(n)
<1> DEFINE u == Push(w, v, n)
<1>1. w \in Seq(Int) /\ Len(w) <= n
    BY DEF Deques
<1>2. u \in Seq(Int) /\ Len(u) = IF Len(w) < n THEN Len(w) + 1 ELSE n
    BY <1>1, Pushed
<1>3. Len(u) <= n
    <2> DEFINE l == Len(w)
               k == Len(u)
    <2>1. l \in Nat /\ k \in Nat
        BY <1>1, <1>2
    <2> HIDE DEF l, k
    <2>2. k = IF l < n THEN l + 1 ELSE n
        BY <1>2 DEF k, l
    <2> QED
        BY <2>1, <2>2 DEF k
<1> HIDE DEF u
<1>4. u \in Deques(n)
    BY <1>2, <1>3 DEF Deques
<1> QED
    BY <1>4 DEF u

(* What a reading does to the detector.                                     *)
LEMMA LearntFacts ==
    ASSUME NEW det \in DetectorType, NEW p \in ReadingType
    PROVE  /\ Learnt(det, p).osc
                = [det.osc EXCEPT ![p.sensor] = Push(det.osc[p.sensor], p.value, OSC_WINDOW)]
           /\ Learnt(det, p).temp =
                IF p.type = "temperature" /\ Given(p)
                THEN [det.temp EXCEPT ![p.room] = Push(det.temp[p.room], p.value, ROLLING_WINDOW)]
                ELSE det.temp
           /\ Learnt(det, p).energy =
                IF p.type = "energy" /\ Given(p)
                THEN [det.energy EXCEPT
                        ![p.room] = Push(det.energy[p.room], p.value, ROLLING_WINDOW)]
                ELSE det.energy
           /\ Learnt(det, p) \in DetectorType
<1> DEFINE e == Learnt(det, p)
           o == Push(det.osc[p.sensor], p.value, OSC_WINDOW)
           t == Push(det.temp[p.room], p.value, ROLLING_WINDOW)
           n == Push(det.energy[p.room], p.value, ROLLING_WINDOW)
<1>1. /\ det.temp \in [RoomIds -> Deques(ROLLING_WINDOW)]
      /\ det.energy \in [RoomIds -> Deques(ROLLING_WINDOW)]
      /\ det.osc \in [Sensors -> Deques(OSC_WINDOW)]
    BY DEF DetectorType
<1>2. p.sensor \in Sensors /\ p.room \in RoomIds /\ p.value \in Int
    BY DEF ReadingType
<1>3. o \in Deques(OSC_WINDOW)
    <2>1. det.osc[p.sensor] \in Deques(OSC_WINDOW)
        BY <1>1, <1>2
    <2> QED
        BY <1>2, <2>1, PushTyped, Windows
<1>4. t \in Deques(ROLLING_WINDOW)
    <2>1. det.temp[p.room] \in Deques(ROLLING_WINDOW)
        BY <1>1, <1>2
    <2> QED
        BY <1>2, <2>1, PushTyped, Windows
<1>5. n \in Deques(ROLLING_WINDOW)
    <2>1. det.energy[p.room] \in Deques(ROLLING_WINDOW)
        BY <1>1, <1>2
    <2> QED
        BY <1>2, <2>1, PushTyped, Windows
<1>6. e = [osc    |-> [det.osc EXCEPT ![p.sensor] = o],
           temp   |-> IF p.type = "temperature" /\ Given(p)
                      THEN [det.temp EXCEPT ![p.room] = t] ELSE det.temp,
           energy |-> IF p.type = "energy" /\ Given(p)
                      THEN [det.energy EXCEPT ![p.room] = n] ELSE det.energy]
    BY DEF Learnt, OscillationWindow
<1> HIDE DEF o, t, n, e
<1>7. /\ [det.osc EXCEPT ![p.sensor] = o] \in [Sensors -> Deques(OSC_WINDOW)]
      /\ [det.temp EXCEPT ![p.room] = t] \in [RoomIds -> Deques(ROLLING_WINDOW)]
      /\ [det.energy EXCEPT ![p.room] = n] \in [RoomIds -> Deques(ROLLING_WINDOW)]
    BY <1>1, <1>2, <1>3, <1>4, <1>5
<1>8. e \in DetectorType
    BY <1>1, <1>6, <1>7 DEF DetectorType
<1> QED
    BY <1>6, <1>8 DEF e, o, t, n

(* A new detector's windows are empty.                                      *)
LEMMA NewTyped == NewDetector \in DetectorType
<1>1. \A n \in Nat : <<>> \in Deques(n)
    BY DEF Deques
<1>2. ROLLING_WINDOW \in Nat /\ OSC_WINDOW \in Nat
    BY Windows
<1>3. <<>> \in Deques(ROLLING_WINDOW) /\ <<>> \in Deques(OSC_WINDOW)
    BY <1>1, <1>2
<1> QED
    BY <1>3 DEF NewDetector, DetectorType

(***************************************************************************)
(* Type correctness.                                                       *)
(***************************************************************************)
LEMMA InitTyped == PipelineInit => PipelineTypeOK
<1> SUFFICES ASSUME PipelineInit PROVE PipelineTypeOK
    OBVIOUS
<1>1. sensor \in [Sensors -> [mode : Modes, config : Configs]]
    BY DEF PipelineInit, Modes
<1>2. log \in Seq(ReadingType) /\ position \in 0..Len(log) /\ start \in 0..position
    BY DEF PipelineInit
<1>3. detector \in DetectorType
    BY NewTyped DEF PipelineInit
<1> QED
    BY <1>1, <1>2, <1>3 DEF PipelineInit, PipelineTypeOK

\* What a publication does, in the terms the invariants are stated in.
PublishedAs(s, own, sent) ==
    LET h == Append(history[s], own)
        f == Oscillates(h, sensor[s].config) \/ sensor[s].mode = "anomaly"
    IN /\ history' = [history EXCEPT ![s] = h]
       /\ flag' = [flag EXCEPT ![s] = f]
       /\ log' = Append(log, [sensor |-> s, room |-> Room[s], type |-> Type[s],
                              value |-> sent, anomaly |-> f])

(* Whatever it sends, the engine's own reading is in the history.           *)
LEMMA Published ==
    ASSUME PipelineTypeOK, NEW s \in Sensors, Publish(s)
    PROVE  \E v \in Values(s), sent \in Int :
             /\ v \in Int /\ Physical(s, v) \in Int
             /\ PublishedAs(s, Physical(s, v), sent)
<1>1. PICK v \in Values(s) :
        \E sent \in Sent(s, Physical(s, v)) : PublishedAs(s, Physical(s, v), sent)
    BY DEF Publish, PublishedAs
<1>2. v \in Int
    BY ValuesTyped
<1>3. Physical(s, v) \in Int
    BY <1>2, PhysicalFacts
<1>4. PICK sent \in Sent(s, Physical(s, v)) : PublishedAs(s, Physical(s, v), sent)
    BY <1>1
<1>5. sent \in Int
    BY <1>3, <1>4, PipelineAssumption DEF Sent
<1> QED
    BY <1>2, <1>3, <1>4, <1>5

(* One step after the other keeps the types.                                *)
LEMMA PublishTyped ==
    ASSUME PipelineTypeOK, NEW s \in Sensors, Publish(s)
    PROVE  PipelineTypeOK'
<1>1. PICK v \in Values(s), sent \in Int :
        Physical(s, v) \in Int /\ PublishedAs(s, Physical(s, v), sent)
    BY Published
<1> DEFINE own == Physical(s, v)
           h == Append(history[s], own)
           f == Oscillates(h, sensor[s].config) \/ sensor[s].mode = "anomaly"
           p == [sensor |-> s, room |-> Room[s], type |-> Type[s], value |-> sent, anomaly |-> f]
<1>2. /\ history' = [history EXCEPT ![s] = h] /\ flag' = [flag EXCEPT ![s] = f]
      /\ log' = Append(log, p)
    BY <1>1 DEF PublishedAs
<1>3. history' \in [Sensors -> Seq(Int)]
    <2>1. h \in Seq(Int)
        BY <1>1 DEF PipelineTypeOK
    <2> HIDE DEF h
    <2> QED
        BY <1>2, <2>1 DEF PipelineTypeOK
<1>4. f \in BOOLEAN
    BY DEF Oscillates
<1>5. p \in ReadingType
    <2>1. Room[s] \in RoomIds /\ Type[s] \in Types
        BY PipelineAssumption
    <2> HIDE DEF f
    <2> QED
        BY <1>4, <2>1 DEF ReadingType
<1>6. flag' \in [Sensors -> BOOLEAN]
    <2> HIDE DEF f
    <2> QED
        BY <1>2, <1>4 DEF PipelineTypeOK
<1>7. log' \in Seq(ReadingType) /\ Len(log') = Len(log) + 1
    <2> HIDE DEF p
    <2>1. log \in Seq(ReadingType)
        BY DEF PipelineTypeOK
    <2> QED
        BY <1>2, <1>5, <2>1, AppendProperties
<1>8. position' \in 0..Len(log') /\ start' \in 0..position'
    <2> DEFINE l == Len(log)
               k == Len(log')
    <2>1. l \in Nat /\ position \in 0..l /\ start \in 0..position /\ k = l + 1
        BY <1>7 DEF PipelineTypeOK
    <2>2. position' = position /\ start' = start
        BY DEF Publish, consumer
    <2> HIDE DEF l, k
    <2>3. position' \in 0..k /\ start' \in 0..position'
        BY <2>1, <2>2
    <2> QED
        BY <2>3 DEF k
<1>9. next' \in [Sensors -> Nat]
    <2> DEFINE p1 == sensor[s].config.pattern
               l == Len(p1)
               q == next[s]
    <2>1. p1 \in Seq(Int) /\ q \in Nat
        BY TwiceTyped, ConfigFacts DEF PipelineTypeOK
    <2>2. p1 # <<>> => l \in Nat /\ l # 0
        BY <2>1, EmptySeq
    <2>3. \/ p1 # <<>> /\ next' = [next EXCEPT ![s] = (q + 1) % l]
          \/ next' = next
        BY DEF Publish
    <2> HIDE DEF p1, l, q
    <2>4. p1 # <<>> => (q + 1) % l \in Nat
        BY <2>1, <2>2
    <2> QED
        BY <2>3, <2>4 DEF PipelineTypeOK
<1>10. calm' \in [Sensors -> Nat]
    <2> DEFINE q == calm[s]
    <2>1. q \in Nat
        BY DEF PipelineTypeOK
    <2>2. calm' = [calm EXCEPT ![s] = q + 1] \/ calm' = calm
        BY DEF Publish, q
    <2> HIDE DEF q
    <2>3. q + 1 \in Nat
        BY <2>1
    <2> QED
        BY <2>2, <2>3 DEF PipelineTypeOK
<1>11. UNCHANGED <<sensor, detector, disturbances>>
    BY DEF Publish, consumer
<1> HIDE DEF own, h, f, p
<1> QED
    BY <1>3, <1>6, <1>7, <1>8, <1>9, <1>10, <1>11 DEF PipelineTypeOK

LEMMA ConsumeTyped ==
    ASSUME PipelineTypeOK, Consume
    PROVE  /\ log[position + 1] \in ReadingType /\ position + 1 \in 1..Len(log)
           /\ PipelineTypeOK'
<1> DEFINE l == Len(log)
           p == log[position + 1]
<1>1. l \in Nat /\ position \in 0..l /\ start \in 0..position /\ position < l
    BY DEF PipelineTypeOK, Consume
<1>2. position' = position + 1 /\ start' = start /\ log' = log /\ detector' = Learnt(detector, p)
    BY DEF Consume
<1> HIDE DEF l
<1>3. position + 1 \in 1..l
    BY <1>1
<1>4. p \in ReadingType
    BY <1>3 DEF PipelineTypeOK, l
<1>5. position' \in 0..l /\ start' \in 0..position'
    BY <1>1, <1>2
<1>6. detector' \in DetectorType
    BY <1>2, <1>4, LearntFacts DEF PipelineTypeOK
<1>7. UNCHANGED <<sensor, history, next, flag, calm, disturbances, log>>
    BY DEF Consume, engine
<1> QED
    BY <1>3, <1>4, <1>5, <1>6, <1>7 DEF PipelineTypeOK, l

LEMMA NextTyped == PipelineTypeOK /\ [PipelineNext]_pipelineVars => PipelineTypeOK'
<1> SUFFICES ASSUME PipelineTypeOK, [PipelineNext]_pipelineVars
             PROVE  PipelineTypeOK'
    OBVIOUS
<1>1. ASSUME NEW s \in Sensors, Update(s) PROVE PipelineTypeOK'
    <2>1. PICK m \in Modes, c \in Configs :
            sensor' = [sensor EXCEPT ![s] = [mode |-> m, config |-> c]]
        BY <1>1 DEF Update
    <2>2. sensor' \in [Sensors -> [mode : Modes, config : Configs]]
        BY <2>1 DEF PipelineTypeOK
    <2>3. calm' \in [Sensors -> Nat] /\ disturbances' \in Nat
        BY <1>1 DEF Update, PipelineTypeOK
    <2>4. UNCHANGED <<history, next, flag, log, position, start, detector>>
        BY <1>1 DEF Update, consumer
    <2> QED
        BY <2>2, <2>3, <2>4 DEF PipelineTypeOK
<1>2. ASSUME NEW s \in Sensors, Publish(s) PROVE PipelineTypeOK'
    BY <1>2, PublishTyped
<1>3. CASE Consume
    BY <1>3, ConsumeTyped
<1>4. CASE Restart
    <2>1. detector' \in DetectorType /\ disturbances' \in Nat
        BY <1>4, NewTyped DEF Restart, PipelineTypeOK
    <2>2. start' = position /\ UNCHANGED <<sensor, history, next, flag, calm, log, position>>
        BY <1>4 DEF Restart, engine
    <2>3. position \in Nat
        BY DEF PipelineTypeOK
    <2>4. start' \in 0..position'
        BY <2>2, <2>3
    <2> QED
        BY <2>1, <2>2, <2>4 DEF PipelineTypeOK
<1>5. CASE UNCHANGED pipelineVars
    BY <1>5 DEF pipelineVars, engine, consumer, PipelineTypeOK
<1> QED
    BY <1>1, <1>2, <1>3, <1>4, <1>5 DEF PipelineNext

(* Modes, histories, the topic and the windows stay in their types, a        *)
(* window never above its maxlen (sensor_engine.py 38-43, anomaly.py        *)
(* 106-121).                                                                *)
THEOREM PipelineTypes == PipelineSpec => []PipelineTypeOK
    BY InitTyped, NextTyped, PTL DEF PipelineSpec

(***************************************************************************)
(* The flag of a calm sensor.                                              *)
(***************************************************************************)
Calm(s) ==
    sensor[s].mode = "normal" =>
      /\ Width(sensor[s].config) > 0 =>
           CalmOf(s, history[s], sensor[s].config, calm[s])
      /\ calm[s] = ANOMALY_WINDOW => ~flag[s]
CalmInv == \A s \in Sensors : Calm(s)

(* A changed configuration has no readings of its own.                      *)
LEMMA NoneIsCalm ==
    ASSUME NEW s, NEW c, NEW h \in Seq(Int) PROVE CalmOf(s, h, c, 0)
<1> DEFINE n == Len(h)
<1>1. n \in Nat
    OBVIOUS
<1>2. ANOMALY_WINDOW \in Nat
    BY PipelineAssumption
<1> HIDE DEF n
<1>3. 0 <= n /\ 0 <= ANOMALY_WINDOW
    BY <1>1, <1>2
<1>4. \A i \in 1..n : ~(i > n - 0)
    BY <1>1
<1>5. \A i \in 1..n - 1 : ~(i > n - 0)
    BY <1>1
<1> QED
    BY <1>3, <1>4, <1>5 DEF CalmOf, n

(* The reading the next step is taken from.                                 *)
LEMMA LastIsCalm ==
    ASSUME NEW s, NEW c, NEW h \in Seq(Int), NEW k, CalmOf(s, h, c, k), k > 0
    PROVE  h # <<>> /\ CalmReading(s, c, h[Len(h)])
<1> DEFINE n == Len(h)
<1>1. n \in Nat /\ k \in Nat /\ k <= n
    BY DEF CalmOf
<1>2. \A i \in 1..n : i > n - k => CalmReading(s, c, h[i])
    BY DEF CalmOf
<1>3. h = <<>> => n = 0
    OBVIOUS
<1> HIDE DEF n
<1>4. n \in 1..n /\ n > n - k /\ n # 0
    BY <1>1
<1>5. CalmReading(s, c, h[n])
    BY <1>2, <1>4
<1> QED
    BY <1>3, <1>4, <1>5 DEF n

(* One more reading of a calm sensor, or a reading of another.              *)
LEMMA PublishCalm ==
    ASSUME PipelineTypeOK, CalmInv, NEW s \in Sensors, Publish(s)
    PROVE  CalmInv'
<1>1. PICK v \in Values(s), sent \in Int :
        v \in Int /\ Physical(s, v) \in Int /\ PublishedAs(s, Physical(s, v), sent)
    BY Published
<1> DEFINE own == Physical(s, v)
           h == history[s]
           c == sensor[s].config
           k == calm[s]
           g == Append(h, own)
           f == Oscillates(g, c) \/ sensor[s].mode = "anomaly"
<1>2. history' = [history EXCEPT ![s] = g] /\ flag' = [flag EXCEPT ![s] = f]
    BY <1>1 DEF PublishedAs
<1>3. sensor' = sensor
    BY DEF Publish
<1>4. calm' = IF sensor[s].mode = "normal" /\ k < ANOMALY_WINDOW
              THEN [calm EXCEPT ![s] = k + 1] ELSE calm
    BY DEF Publish
<1>5. /\ h \in Seq(Int) /\ c \in Configs /\ own \in Int
      /\ history \in [Sensors -> Seq(Int)] /\ flag \in [Sensors -> BOOLEAN]
      /\ calm \in [Sensors -> Nat]
    BY <1>1, TwiceTyped DEF PipelineTypeOK
<1>6. ASSUME NEW r \in Sensors, r # s PROVE Calm(r)'
    <2>1. history'[r] = history[r] /\ flag'[r] = flag[r] /\ calm'[r] = calm[r]
        <3> HIDE DEF g, f, k
        <3> QED
            BY <1>2, <1>4, <1>5, <1>6
    <2>2. Calm(r)
        BY DEF CalmInv
    <2> QED
        BY <1>3, <2>1, <2>2 DEF Calm
<1> DEFINE j == IF k < ANOMALY_WINDOW THEN k + 1 ELSE k
<1>10. ASSUME sensor[s].mode = "normal", Width(c) > 0 PROVE CalmOf(s, g, c, j)
    <2>1. CalmOf(s, h, c, k)
        BY <1>10 DEF CalmInv, Calm
    <2>2. PICK u \in Walk(Twice(s), c) : u \in Int /\ v = Clamped(u, c)
        BY <1>10, ValuesTyped
    <2>0. c.min < c.max
        <3> DEFINE lo == c.min  hi == c.max
        <3>1. lo \in Int /\ hi \in Int /\ hi - lo > 0
            BY <1>5, <1>10, ConfigFacts
        <3> HIDE DEF lo, hi
        <3>2. lo < hi
            BY <3>1
        <3> QED
            BY <3>2 DEF lo, hi
    <2>3. CalmReading(s, c, own)
        BY <1>5, <2>0, <2>2, CalmTaken
    <2>4. ASSUME k > 0
          PROVE  /\ 200 * (own - h[Len(h)]) <= Stride(c) /\ 200 * (h[Len(h)] - own) <= Stride(c)
                 /\ Width(c) = 9 => Inward(c, h[Len(h)], own)
        <3> DEFINE p == h[Len(h)]
        <3>1. h # <<>> /\ CalmReading(s, c, p)
            BY <1>5, <2>1, <2>4, LastIsCalm
        <3>2. Twice(s) = 2 * p
            BY <3>1 DEF Twice
        <3>3. p \in Int
            <4> HIDE DEF h
            <4> QED
                BY <1>5, <3>1
        <3> HIDE DEF p
        <3>4. u \in Walk(2 * p, c)
            BY <2>2, <3>2
        <3>5. /\ 200 * (Physical(s, Clamped(u, c)) - p) <= Stride(c)
              /\ 200 * (p - Physical(s, Clamped(u, c))) <= Stride(c)
              /\ Width(c) = 9 => Inward(c, p, Physical(s, Clamped(u, c)))
            <4> HIDE DEF c
            <4> QED
                BY <1>5, <2>0, <3>1, <3>3, <3>4, StrideTaken
        <3> QED
            BY <2>2, <3>5 DEF p
    <2> HIDE DEF own, h, c, k
    <2> QED
        BY <1>5, <2>1, <2>3, <2>4, CalmGrows
<1>7. ASSUME sensor[s].mode = "normal" PROVE Calm(s)'
    <2>6. calm'[s] = j
        <3> HIDE DEF k
        <3>1. CASE k < ANOMALY_WINDOW
            BY <1>4, <1>5, <1>7, <3>1
        <3>2. CASE ~(k < ANOMALY_WINDOW)
            BY <1>4, <3>2 DEF k
        <3> QED
            BY <3>1, <3>2
    <2>7. history'[s] = g /\ flag'[s] = f
        <3> HIDE DEF g, f
        <3> QED
            BY <1>2, <1>5
    <2>8. ASSUME j = ANOMALY_WINDOW PROVE ~f
        <3>1. CASE Width(c) > 0
            <4>1. CalmOf(s, g, c, ANOMALY_WINDOW)
                BY <1>7, <1>10, <2>8, <3>1
            <4>2. g \in Seq(Int)
                <5> HIDE DEF h, own
                <5> QED
                    BY <1>5
            <4>3. ~Oscillates(g, c)
                <5> HIDE DEF g, c
                <5> QED
                    BY <1>5, <3>1, <4>1, <4>2, CalmIsSteady
            <4> QED
                BY <1>7, <4>3
        <3>2. CASE ~(Width(c) > 0)
            BY <1>7, <3>2 DEF Oscillates
        <3> QED
            BY <3>1, <3>2
    <2>9. Width(c) > 0 => CalmOf(s, g, c, j)
        BY <1>7, <1>10
    <2>10. sensor'[s].config = c
        BY <1>3
    <2> HIDE DEF j, g, f, c
    <2> QED
        BY <2>6, <2>7, <2>8, <2>9, <2>10 DEF Calm
<1>8. Calm(s)'
    BY <1>3, <1>7 DEF Calm
<1>9. \A r \in Sensors : Calm(r)'
    BY <1>6, <1>8
<1> QED
    BY <1>9 DEF CalmInv

LEMMA NextCalm == PipelineTypeOK /\ CalmInv /\ [PipelineNext]_pipelineVars => CalmInv'
<1> SUFFICES ASSUME PipelineTypeOK, CalmInv, [PipelineNext]_pipelineVars
             PROVE  CalmInv'
    OBVIOUS
<1>1. ASSUME NEW s \in Sensors, Update(s) PROVE CalmInv'
    <2>1. PICK m \in Modes, c \in Configs :
            sensor' = [sensor EXCEPT ![s] = [mode |-> m, config |-> c]]
        BY <1>1 DEF Update
    <2>2. calm' = [calm EXCEPT ![s] = 0] /\ UNCHANGED <<history, flag>>
        BY <1>1 DEF Update
    <2>3. sensor \in [Sensors -> [mode : Modes, config : Configs]] /\ calm \in [Sensors -> Nat]
          /\ history \in [Sensors -> Seq(Int)]
        BY DEF PipelineTypeOK
    <2>4. ASSUME NEW r \in Sensors, r # s PROVE Calm(r)'
        <3>1. sensor'[r] = sensor[r] /\ calm'[r] = calm[r]
            BY <2>1, <2>2, <2>3, <2>4
        <3>2. Calm(r)
            BY DEF CalmInv
        <3> QED
            BY <2>2, <3>1, <3>2 DEF Calm
    <2>5. Calm(s)'
        <3>1. calm'[s] = 0 /\ sensor'[s].config = c /\ history'[s] \in Seq(Int)
            BY <2>1, <2>2, <2>3
        <3>2. CalmOf(s, history'[s], c, 0)
            BY <3>1, NoneIsCalm
        <3>3. ANOMALY_WINDOW # 0
            BY PipelineAssumption
        <3> QED
            BY <3>1, <3>2, <3>3 DEF Calm
    <2>6. \A r \in Sensors : Calm(r)'
        BY <2>4, <2>5
    <2> QED
        BY <2>6 DEF CalmInv
<1>2. ASSUME NEW s \in Sensors, Publish(s) PROVE CalmInv'
    BY <1>2, PublishCalm
<1>3. CASE Consume \/ Restart \/ UNCHANGED pipelineVars
    <2>1. UNCHANGED <<sensor, history, flag, calm>>
        BY <1>3 DEF Consume, Restart, pipelineVars, engine
    <2> QED
        BY <2>1 DEF CalmInv, Calm
<1> QED
    BY <1>1, <1>2, <1>3 DEF PipelineNext

LEMMA InitCalm == PipelineInit => CalmInv
<1> SUFFICES ASSUME PipelineInit, NEW s \in Sensors PROVE Calm(s)
    BY DEF CalmInv
<1>1. history[s] = <<>> /\ calm[s] = 0
    BY DEF PipelineInit
<1>2. CalmOf(s, history[s], sensor[s].config, 0)
    <2>1. history[s] \in Seq(Int)
        BY <1>1
    <2> QED
        BY <2>1, NoneIsCalm
<1>3. ANOMALY_WINDOW # 0
    BY PipelineAssumption
<1> QED
    BY <1>1, <1>2, <1>3 DEF Calm

(* A sensor in mode NORMAL whose history has a window of its own             *)
(* configuration's readings is not flagged, for every range a client may    *)
(* configure, however often it changed before (sensor_engine.py 123-141).   *)
THEOREM CalmSensors == PipelineSpec => []CalmIsNotFlagged
<1>1. CalmInv => CalmIsNotFlagged
    BY DEF CalmInv, Calm, CalmIsNotFlagged
<1> QED
    BY PipelineTypes, InitCalm, NextCalm, <1>1, PTL DEF PipelineSpec

(***************************************************************************)
(* What a window knows: the latest of the places it was given, in order.   *)
(***************************************************************************)
Newer(Q, i) == Cardinality({j \in Q : j > i})
Remembers(w, Q, n, f) ==
    /\ Len(w) = IF Cardinality(Q) <= n THEN Cardinality(Q) ELSE n
    /\ \A m \in Nat : m < Len(w) =>
         \E i \in Q : f[i] = w[Len(w) - m] /\ Newer(Q, i) = m

(* Nothing, ...                                                             *)
LEMMA RemembersNothing == \A n \in Nat : \A f : Remembers(<<>>, {}, n, f)
<1>1. Cardinality({}) = 0 /\ Len(<<>>) = 0
    BY FS_EmptySet
<1>2. \A n \in Nat : 0 <= n
    OBVIOUS
<1>3. \A m \in Nat : ~(m < 0)
    OBVIOUS
<1> QED
    BY <1>1, <1>2, <1>3 DEF Remembers

(* ... whatever else comes into the topic, ...                              *)
LEMMA RemembersStable ==
    ASSUME NEW w, NEW Q, NEW n, NEW f, NEW g, \A i \in Q : g[i] = f[i], Remembers(w, Q, n, f)
    PROVE  Remembers(w, Q, n, g)
<1>1. /\ Len(w) = IF Cardinality(Q) <= n THEN Cardinality(Q) ELSE n
      /\ \A m \in Nat : m < Len(w) => \E i \in Q : f[i] = w[Len(w) - m] /\ Newer(Q, i) = m
    BY DEF Remembers
<1>2. \A m \in Nat : m < Len(w) => \E i \in Q : g[i] = w[Len(w) - m] /\ Newer(Q, i) = m
    BY <1>1
<1> QED
    BY <1>1, <1>2 DEF Remembers

(* ... and the new place first, the oldest one given up.                    *)
LEMMA RemembersPush ==
    ASSUME NEW Q, IsFiniteSet(Q), NEW t \in Int, \A j \in Q : j \in Int /\ j < t,
           NEW n \in Nat, n > 0, NEW w \in Deques(n), NEW f, f[t] \in Int,
           Remembers(w, Q, n, f)
    PROVE  Remembers(Push(w, f[t], n), Q \cup {t}, n, f)
<1> DEFINE P == Q \cup {t}
           k == Cardinality(Q)
           l == Len(w)
           u == Push(w, f[t], n)
           v == Len(u)
           y == f[t]
<1>1. t \notin Q
    OBVIOUS
<1>2. k \in Nat /\ Cardinality(P) = k + 1
    BY <1>1, FS_CardinalityType, FS_AddElement
<1>3. w \in Seq(Int) /\ l \in Nat /\ l <= n
    BY DEF Deques
<1>4. /\ u \in Seq(Int) /\ v = IF l < n THEN l + 1 ELSE n
      /\ u[v] = f[t]
      /\ \A m \in Nat : m > 0 /\ m < v => m - 1 < l /\ u[v - m] = w[l - (m - 1)]
    <2>1. y \in Int
        OBVIOUS
    <2>2. u = Push(w, y, n)
        OBVIOUS
    <2> HIDE DEF y, u
    <2>3. /\ Push(w, y, n) \in Seq(Int) 
          /\ Len(Push(w, y, n)) = IF Len(w) < n THEN Len(w) + 1 ELSE n
          /\ Push(w, y, n)[Len(Push(w, y, n))] = y
          /\ \A m \in Nat : m > 0 /\ m < Len(Push(w, y, n)) =>
               /\ m - 1 < Len(w)
               /\ Push(w, y, n)[Len(Push(w, y, n)) - m] = w[Len(w) - (m - 1)]
        BY <1>3, <2>1, Pushed
    <2> QED
        BY <2>2, <2>3 DEF y
<1>5. /\ l = IF k <= n THEN k ELSE n
      /\ \A m \in Nat : m < l => \E i \in Q : f[i] = w[l - m] /\ Newer(Q, i) = m
    BY DEF Remembers
<1>6. v \in Nat /\ v > 0
    <2> HIDE DEF v, l
    <2> QED
        BY <1>3, <1>4
<1>7. Newer(P, t) = 0
    <2>1. {j \in P : j > t} = {}
        OBVIOUS
    <2> QED
        BY <2>1, FS_EmptySet DEF Newer
<1>8. ASSUME NEW i \in Q PROVE Newer(P, i) = Newer(Q, i) + 1
    <2> DEFINE S == {j \in Q : j > i}
    <2>1. {j \in P : j > i} = S \cup {t}
        OBVIOUS
    <2>2. IsFiniteSet(S) /\ t \notin S
        BY <1>1, FS_Subset
    <2>3. Cardinality(S \cup {t}) = Cardinality(S) + 1
        BY <2>2, FS_AddElement
    <2> QED
        BY <2>1, <2>3 DEF Newer
<1> HIDE DEF P, k, l, u, v
<1>9. v = IF k + 1 <= n THEN k + 1 ELSE n
    BY <1>2, <1>3, <1>4, <1>5
<1>10. ASSUME NEW m \in Nat, m < v
       PROVE  \E i \in P : f[i] = u[v - m] /\ Newer(P, i) = m
    <2>1. CASE m = 0
        <3>1. v - m = v
            BY <1>6, <2>1
        <3> QED
            BY <1>4, <1>7, <2>1, <3>1 DEF P
    <2>2. CASE m # 0
        <3>1. m > 0 /\ m - 1 \in Nat /\ m - 1 < l /\ u[v - m] = w[l - (m - 1)]
            BY <1>4, <1>10, <2>2
        <3>2. PICK i \in Q : f[i] = w[l - (m - 1)] /\ Newer(Q, i) = m - 1
            BY <1>5, <3>1
        <3>3. Newer(P, i) = m
            BY <1>8, <3>2
        <3> QED
            BY <3>1, <3>2, <3>3 DEF P
    <2> QED
        BY <2>1, <2>2
<1>11. Remembers(u, P, n, f)
    BY <1>2, <1>9, <1>10 DEF Remembers, v
<1> QED
    BY <1>11 DEF u, P

(* What such a window holds is known, and between the extremes of that.     *)
Recalled(Q, n, f) == {f[i] : i \in LastOf(Q, n)}

(* Finitely many integers, with a least and a greatest.                     *)
LEMMA RecalledBounds ==
    ASSUME NEW Q, IsFiniteSet(Q), NEW n, NEW f, \A i \in Q : f[i] \in Int
    PROVE  /\ IsFiniteSet(Recalled(Q, n, f))
           /\ \A x \in Recalled(Q, n, f) :
                /\ x \in Int /\ Min(Recalled(Q, n, f)) \in Int /\ Max(Recalled(Q, n, f)) \in Int
                /\ Min(Recalled(Q, n, f)) <= x /\ x <= Max(Recalled(Q, n, f))
<1> DEFINE L == LastOf(Q, n)
           K == Recalled(Q, n, f)
<1>1. L \subseteq Q /\ IsFiniteSet(L)
    BY FS_Subset DEF LastOf
<1>2. K = {f[y] : y \in L}
    BY DEF Recalled
<1> HIDE DEF K, L
<1>3. IsFiniteSet(K)
    <2> DEFINE g == [i \in L |-> f[i]]
    <2>1. g \in Surjection(L, K)
        BY <1>2 DEF Surjection
    <2> HIDE DEF g
    <2> QED
        BY <1>1, <2>1, FS_Surjection
<1>4. ASSUME NEW x \in K
      PROVE  x \in Int /\ Min(K) \in Int /\ Max(K) \in Int /\ Min(K) <= x /\ x <= Max(K)
    <2>1. L # {} /\ \A y \in L : f[y] \in Int
        BY <1>1, <1>2, <1>4
    <2>2. /\ \E z \in L : Max({f[y] : y \in L}) = f[z] /\ \A y \in L : f[y] <= f[z]
          /\ \E z \in L : Min({f[y] : y \in L}) = f[z] /\ \A y \in L : f[z] <= f[y]
        BY <1>1, <2>1, MaxMin
    <2>3. /\ \E z \in L : Max(K) = f[z] /\ \A y \in L : f[y] <= f[z]
          /\ \E z \in L : Min(K) = f[z] /\ \A y \in L : f[z] <= f[y]
        BY <1>2, <2>2
    <2> QED
        BY <1>2, <2>1, <2>3
<1> QED
    BY <1>3, <1>4 DEF K

(* The k-th of the window has Len(w) - k newer places.                      *)
LEMMA Recalls ==
    ASSUME NEW Q, NEW n \in Nat, NEW w \in Deques(n), NEW f, Remembers(w, Q, n, f)
    PROVE  \A k \in 1..Len(w) : w[k] \in Recalled(Q, n, f)
<1> DEFINE l == Len(w)
<1>1. w \in Seq(Int) /\ l \in Nat /\ l <= n
    BY DEF Deques
<1>2. \A m \in Nat : m < l => \E i \in Q : f[i] = w[l - m] /\ Newer(Q, i) = m
    BY DEF Remembers
<1> HIDE DEF l
<1>3. ASSUME NEW k \in 1..l PROVE w[k] \in Recalled(Q, n, f)
    <2> DEFINE m == l - k
    <2>1. m \in Nat /\ m < l /\ l - m = k /\ m < n
        BY <1>1
    <2> HIDE DEF m
    <2>2. PICK i \in Q : f[i] = w[k] /\ Newer(Q, i) = m
        BY <1>2, <2>1
    <2>3. i \in LastOf(Q, n)
        BY <2>1, <2>2 DEF LastOf, Newer
    <2> QED
        BY <2>2, <2>3 DEF Recalled
<1> QED
    BY <1>3 DEF l

(* Two elements or more.                                                    *)
LEMMA TwoOf ==
    ASSUME NEW S, IsFiniteSet(S)
    PROVE  /\ Cardinality(S) >= 2 => \E a, b \in S : a # b
           /\ \A a, b \in S : a # b => Cardinality(S) >= 2
<1>1. ASSUME Cardinality(S) >= 2 PROVE \E a \in S, b \in S : a # b
    <2>1. S # {}
        BY <1>1, FS_EmptySet
    <2>2. PICK a \in S : TRUE
        BY <2>1
    <2>3. IsFiniteSet(S \ {a}) /\ Cardinality(S \ {a}) = Cardinality(S) - 1
          /\ Cardinality(S) \in Nat
        BY <2>2, FS_RemoveElement, FS_CardinalityType
    <2>4. Cardinality(S \ {a}) # 0
        BY <1>1, <2>3
    <2>5. S \ {a} # {}
        BY <2>4, FS_EmptySet
    <2> QED
        BY <2>5
<1>2. ASSUME NEW a \in S, NEW b \in S, a # b PROVE Cardinality(S) >= 2
    <2>1. {a, b} \in SUBSET S
        OBVIOUS
    <2>2. {a, b} = {a} \cup {b} /\ b \notin {a}
        BY <1>2
    <2>3. IsFiniteSet({a}) /\ Cardinality({a}) = 1
        BY FS_Singleton
    <2>4. IsFiniteSet({a, b}) /\ Cardinality({a, b}) = 2
        BY <2>2, <2>3, FS_AddElement
    <2>5. Cardinality({a, b}) <= Cardinality(S) /\ Cardinality(S) \in Nat
        BY <2>1, FS_Subset, FS_CardinalityType
    <2> QED
        BY <2>4, <2>5
<1> QED
    BY <1>1, <1>2

(* Two that are remembered make a window of two.                            *)
LEMMA TwoRemembered ==
    ASSUME NEW Q, IsFiniteSet(Q), Q \subseteq Int, NEW n \in Nat, n > 0,
           NEW w \in Deques(n), NEW f, Remembers(w, Q, n, f),
           Cardinality(LastOf(Q, n)) >= 2
    PROVE  Len(w) >= 2
<1> DEFINE L == LastOf(Q, n)
<1>1. L \in SUBSET Q /\ IsFiniteSet(L)
    BY FS_Subset DEF LastOf
<1>2. PICK a, b \in L : a # b
    <2> HIDE DEF L
    <2>1. Cardinality(L) >= 2
        BY DEF L
    <2>2. IsFiniteSet(L)
        BY <1>1
    <2>3. ASSUME NEW S, IsFiniteSet(S), Cardinality(S) >= 2 PROVE \E a, b \in S : a # b
        BY <2>3, TwoOf
    <2> QED
        BY <2>1, <2>2, <2>3
<1>3. Cardinality(Q) \in Nat /\ Cardinality(Q) >= 2
    BY <1>1, <1>2, TwoOf, FS_CardinalityType
<1>4. ASSUME NEW i \in L, NEW j \in L, i < j PROVE n >= 2
    <2> DEFINE S == {x \in Q : x > i}
    <2>1. S \in SUBSET Q /\ j \in S
        BY <1>1, <1>4
    <2>2. IsFiniteSet(S) /\ Cardinality(S) \in Nat /\ Cardinality(S) # 0
        BY <2>1, FS_Subset, FS_CardinalityType, FS_EmptySet
    <2>3. Cardinality(S) < n
        BY DEF LastOf
    <2> QED
        BY <2>2, <2>3
<1>5. n >= 2
    <2>1. a \in Int /\ b \in Int
        BY <1>1
    <2>2. a < b \/ b < a
        BY <1>2, <2>1
    <2> QED
        BY <1>4, <2>2
<1>6. Len(w) = IF Cardinality(Q) <= n THEN Cardinality(Q) ELSE n
    BY DEF Remembers
<1> QED
    BY <1>3, <1>5, <1>6

(***************************************************************************)
(* The consumer's windows remember the readings they were given.           *)
(***************************************************************************)
Figures(lg) == [i \in 1..Len(lg) |-> lg[i].value]
SensorPlaces(lg, a, b, s) == {i \in a..b : lg[i].sensor = s}
RoomPlaces(lg, a, b, r, t) ==
    {i \in a..b : lg[i].room = r /\ lg[i].type = t /\ Given(lg[i])}

Remembered(det, lg, a, b) ==
    /\ \A s \in Sensors :
         Remembers(det.osc[s], SensorPlaces(lg, a, b, s), OSC_WINDOW, Figures(lg))
    /\ \A r \in RoomIds :
         /\ Remembers(det.temp[r], RoomPlaces(lg, a, b, r, "temperature"),
                      ROLLING_WINDOW, Figures(lg))
         /\ Remembers(det.energy[r], RoomPlaces(lg, a, b, r, "energy"),
                      ROLLING_WINDOW, Figures(lg))
WindowsKnow == Remembered(detector, log, start + 1, position)

(* Places are finitely many, ...                                            *)
LEMMA PlacesFinite ==
    ASSUME NEW lg, NEW a \in Int, NEW b \in Int
    PROVE  /\ \A s : /\ IsFiniteSet(SensorPlaces(lg, a, b, s))
                     /\ SensorPlaces(lg, a, b, s) \in SUBSET (a..b)
           /\ \A r, t : /\ IsFiniteSet(RoomPlaces(lg, a, b, r, t))
                        /\ RoomPlaces(lg, a, b, r, t) \in SUBSET (a..b)
<1>1. IsFiniteSet(a..b)
    BY FS_Interval
<1>2. \A s : SensorPlaces(lg, a, b, s) \in SUBSET (a..b)
    BY DEF SensorPlaces
<1>3. \A r, t : RoomPlaces(lg, a, b, r, t) \in SUBSET (a..b)
    BY DEF RoomPlaces
<1>4. \A T \in SUBSET (a..b) : IsFiniteSet(T)
    BY <1>1, FS_Subset
<1> QED
    BY <1>2, <1>3, <1>4

(* ... grow by the reading taken, ...                                       *)
LEMMA PlacesGrow ==
    ASSUME NEW lg, NEW a \in Int, NEW b \in Int, a <= b + 1
    PROVE  /\ \A s : SensorPlaces(lg, a, b + 1, s) =
                       IF lg[b + 1].sensor = s THEN SensorPlaces(lg, a, b, s) \cup {b + 1}
                       ELSE SensorPlaces(lg, a, b, s)
           /\ \A r, t : RoomPlaces(lg, a, b + 1, r, t) =
                          IF lg[b + 1].room = r /\ lg[b + 1].type = t /\ Given(lg[b + 1])
                          THEN RoomPlaces(lg, a, b, r, t) \cup {b + 1}
                          ELSE RoomPlaces(lg, a, b, r, t)
<1> DEFINE c == b + 1
           C == a..c
           B == a..b
<1>1. C = B \cup {c}
    OBVIOUS
<1>2. \A s : /\ SensorPlaces(lg, a, c, s) = {i \in C : lg[i].sensor = s}
             /\ SensorPlaces(lg, a, b, s) = {i \in B : lg[i].sensor = s}
    BY DEF SensorPlaces
<1>3. \A r, t :
        /\ RoomPlaces(lg, a, c, r, t)
             = {i \in C : lg[i].room = r /\ lg[i].type = t /\ Given(lg[i])}
        /\ RoomPlaces(lg, a, b, r, t)
             = {i \in B : lg[i].room = r /\ lg[i].type = t /\ Given(lg[i])}
    BY DEF RoomPlaces
<1> HIDE DEF B, C, c
<1>4. ASSUME NEW s
      PROVE  SensorPlaces(lg, a, c, s) =
               IF lg[c].sensor = s THEN SensorPlaces(lg, a, b, s) \cup {c}
               ELSE SensorPlaces(lg, a, b, s)
    BY <1>1, <1>2
<1>5. ASSUME NEW r, NEW t
      PROVE  RoomPlaces(lg, a, c, r, t) =
               IF lg[c].room = r /\ lg[c].type = t /\ Given(lg[c])
               THEN RoomPlaces(lg, a, b, r, t) \cup {c} ELSE RoomPlaces(lg, a, b, r, t)
    <2>1. CASE lg[c].room = r /\ lg[c].type = t /\ Given(lg[c])
        BY <1>1, <1>3, <2>1
    <2>2. CASE ~(lg[c].room = r /\ lg[c].type = t /\ Given(lg[c]))
        <3>1. \A i \in C : lg[i].room = r /\ lg[i].type = t /\ Given(lg[i]) => i \in B
            BY <1>1, <2>2
        <3>2. \A i : i \in RoomPlaces(lg, a, c, r, t) <=> i \in RoomPlaces(lg, a, b, r, t)
            BY <1>1, <1>3, <3>1
        <3>3. RoomPlaces(lg, a, c, r, t) = RoomPlaces(lg, a, b, r, t)
            BY <1>3, <3>2
        <3> QED
            BY <2>2, <3>3
    <2> QED
        BY <2>1, <2>2
<1> QED
    BY <1>4, <1>5 DEF c

(* ... and depend on the readings up to it only.                            *)
LEMMA PlacesSame ==
    ASSUME NEW lg, NEW lh, NEW a \in Int, NEW b \in Int, \A i \in a..b : lh[i] = lg[i]
    PROVE  /\ \A s : SensorPlaces(lh, a, b, s) = SensorPlaces(lg, a, b, s)
           /\ \A r, t : RoomPlaces(lh, a, b, r, t) = RoomPlaces(lg, a, b, r, t)
    BY DEF SensorPlaces, RoomPlaces

(* After a start the windows remember nothing, as there is nothing.         *)
LEMMA NothingRemembered ==
    ASSUME NEW lg, NEW a \in Int PROVE Remembered(NewDetector, lg, a + 1, a)
<1>1. (a + 1)..a = {}
    OBVIOUS
<1> DEFINE b == a + 1
<1>2. b..a = {}
    BY <1>1
<1>3. ASSUME NEW s PROVE SensorPlaces(lg, b, a, s) = {}
    BY <1>2 DEF SensorPlaces
<1>4. ASSUME NEW r, NEW t PROVE RoomPlaces(lg, b, a, r, t) = {}
    BY <1>2 DEF RoomPlaces
<1> HIDE DEF b
<1>5. ROLLING_WINDOW \in Nat /\ OSC_WINDOW \in Nat
    BY Windows
<1>6. ASSUME NEW s \in Sensors
      PROVE  Remembers(NewDetector.osc[s], SensorPlaces(lg, b, a, s), OSC_WINDOW, Figures(lg))
    <2>1. NewDetector.osc[s] = <<>>
        BY DEF NewDetector
    <2> QED
        BY <1>3, <1>5, <2>1, RemembersNothing
<1>7. ASSUME NEW r \in RoomIds
      PROVE  /\ Remembers(NewDetector.temp[r], RoomPlaces(lg, b, a, r, "temperature"),
                          ROLLING_WINDOW, Figures(lg))
             /\ Remembers(NewDetector.energy[r], RoomPlaces(lg, b, a, r, "energy"),
                          ROLLING_WINDOW, Figures(lg))
    <2>1. NewDetector.temp[r] = <<>> /\ NewDetector.energy[r] = <<>>
        BY DEF NewDetector
    <2> QED
        BY <1>4, <1>5, <2>1, RemembersNothing
<1>8. Remembered(NewDetector, lg, b, a)
    BY <1>6, <1>7 DEF Remembered
<1> QED
    BY <1>8 DEF b

(* What comes later does not change what is remembered.                     *)
LEMMA RememberedStable ==
    ASSUME NEW det, NEW lg, NEW lh, NEW a \in Int, NEW b \in Int,
           \A i \in a..b : lh[i] = lg[i] /\ Figures(lh)[i] = Figures(lg)[i],
           Remembered(det, lg, a, b)
    PROVE  Remembered(det, lh, a, b)
<1>1. ASSUME NEW s \in Sensors
      PROVE  Remembers(det.osc[s], SensorPlaces(lh, a, b, s), OSC_WINDOW, Figures(lh))
    <2>1. Remembers(det.osc[s], SensorPlaces(lg, a, b, s), OSC_WINDOW, Figures(lg))
        BY DEF Remembered
    <2>2. SensorPlaces(lh, a, b, s) = SensorPlaces(lg, a, b, s)
        BY PlacesSame
    <2>3. \A i \in SensorPlaces(lg, a, b, s) : Figures(lh)[i] = Figures(lg)[i]
        BY DEF SensorPlaces
    <2> QED
        BY <2>1, <2>2, <2>3, RemembersStable
<1>2. ASSUME NEW r \in RoomIds, NEW w, NEW t,
             Remembers(w, RoomPlaces(lg, a, b, r, t), ROLLING_WINDOW, Figures(lg))
      PROVE  Remembers(w, RoomPlaces(lh, a, b, r, t), ROLLING_WINDOW, Figures(lh))
    <2>1. RoomPlaces(lh, a, b, r, t) = RoomPlaces(lg, a, b, r, t)
        BY PlacesSame
    <2>2. \A i \in RoomPlaces(lg, a, b, r, t) : Figures(lh)[i] = Figures(lg)[i]
        BY DEF RoomPlaces
    <2> QED
        BY <1>2, <2>1, <2>2, RemembersStable
<1> QED
    BY <1>1, <1>2 DEF Remembered

(* A reading is pushed to its own windows, and to no other.                 *)
LEMMA RememberedLearnt ==
    ASSUME NEW det \in DetectorType, NEW lg \in Seq(ReadingType), NEW a \in Int, NEW b \in Nat,
           1 <= a, a <= b + 1, b + 1 <= Len(lg), Remembered(det, lg, a, b)
    PROVE  Remembered(Learnt(det, lg[b + 1]), lg, a, b + 1)
<1> DEFINE c == b + 1
           p == lg[c]
           f == Figures(lg)
           e == Learnt(det, p)
<1>1. c \in 1..Len(lg) /\ c \in Int
    <2> DEFINE l == Len(lg)
    <2>1. l \in Nat /\ b + 1 <= l
        OBVIOUS
    <2> HIDE DEF l
    <2>2. c \in 1..l /\ c \in Int
        BY <2>1
    <2> QED
        BY <2>2 DEF l
<1>2. p \in ReadingType
    <2> HIDE DEF c
    <2> QED
        BY <1>1
<1>3. f[c] = p.value /\ p.value \in Int
    <2> HIDE DEF c
    <2> QED
        BY <1>1, <1>2 DEF Figures, ReadingType
<1>4. /\ det.osc \in [Sensors -> Deques(OSC_WINDOW)]
      /\ det.temp \in [RoomIds -> Deques(ROLLING_WINDOW)]
      /\ det.energy \in [RoomIds -> Deques(ROLLING_WINDOW)]
    BY DEF DetectorType
<1>5. b \in Int /\ \A i \in a..b : i \in Int /\ i < c
    OBVIOUS
<1>6. /\ \A s : SensorPlaces(lg, a, c, s) =
                  IF p.sensor = s THEN SensorPlaces(lg, a, b, s) \cup {c}
                  ELSE SensorPlaces(lg, a, b, s)
      /\ \A r, t : RoomPlaces(lg, a, c, r, t) =
                     IF p.room = r /\ p.type = t /\ Given(p)
                     THEN RoomPlaces(lg, a, b, r, t) \cup {c} ELSE RoomPlaces(lg, a, b, r, t)
    BY <1>5, PlacesGrow
<1>7. /\ e.osc = [det.osc EXCEPT ![p.sensor] = Push(det.osc[p.sensor], p.value, OSC_WINDOW)]
      /\ e.temp = IF p.type = "temperature" /\ Given(p)
                  THEN [det.temp EXCEPT
                          ![p.room] = Push(det.temp[p.room], p.value, ROLLING_WINDOW)]
                  ELSE det.temp
      /\ e.energy = IF p.type = "energy" /\ Given(p)
                    THEN [det.energy EXCEPT
                            ![p.room] = Push(det.energy[p.room], p.value, ROLLING_WINDOW)]
                    ELSE det.energy
    <2> HIDE DEF p
    <2> QED
        BY <1>2, LearntFacts
<1> HIDE DEF e, c, p, f
<1>8. ASSUME NEW Q \in SUBSET (a..b), IsFiniteSet(Q), NEW n \in Nat, n > 0,
             NEW w \in Deques(n), Remembers(w, Q, n, f)
      PROVE  Remembers(Push(w, p.value, n), Q \cup {c}, n, f)
    <2>1. \A j \in Q : j \in Int /\ j < c
        BY <1>5
    <2>2. f[c] \in Int
        BY <1>3
    <2>3. Remembers(Push(w, f[c], n), Q \cup {c}, n, f)
        BY <1>1, <1>8, <2>1, <2>2, RemembersPush
    <2> QED
        BY <1>3, <2>3
<1>9. ASSUME NEW s \in Sensors
      PROVE  Remembers(e.osc[s], SensorPlaces(lg, a, c, s), OSC_WINDOW, f)
    <2> DEFINE Q == SensorPlaces(lg, a, b, s)
    <2>1. Remembers(det.osc[s], Q, OSC_WINDOW, f)
        BY DEF Remembered, f
    <2>2. IsFiniteSet(Q) /\ Q \in SUBSET (a..b)
        BY <1>5, PlacesFinite
    <2> HIDE DEF Q
    <2>3. CASE p.sensor = s
        <3>1. e.osc[s] = Push(det.osc[s], p.value, OSC_WINDOW) /\ det.osc[s] \in Deques(OSC_WINDOW)
            BY <1>4, <1>7, <2>3
        <3>2. SensorPlaces(lg, a, c, s) = Q \cup {c}
            BY <1>6, <2>3 DEF Q
        <3> QED
            BY <1>8, <2>1, <2>2, <3>1, <3>2, Windows
    <2>4. CASE p.sensor # s
        <3>1. e.osc[s] = det.osc[s]
            BY <1>4, <1>7, <2>4
        <3>2. SensorPlaces(lg, a, c, s) = Q
            BY <1>6, <2>4 DEF Q
        <3> QED
            BY <2>1, <3>1, <3>2
    <2> QED
        BY <2>3, <2>4
<1>10. ASSUME NEW r \in RoomIds, NEW t, NEW d \in [RoomIds -> Deques(ROLLING_WINDOW)], NEW g,
              g = (IF p.type = t /\ Given(p)
                   THEN [d EXCEPT ![p.room] = Push(d[p.room], p.value, ROLLING_WINDOW)] ELSE d),
              Remembers(d[r], RoomPlaces(lg, a, b, r, t), ROLLING_WINDOW, f)
       PROVE  Remembers(g[r], RoomPlaces(lg, a, c, r, t), ROLLING_WINDOW, f)
    <2> DEFINE Q == RoomPlaces(lg, a, b, r, t)
    <2>1. Remembers(d[r], Q, ROLLING_WINDOW, f)
        BY <1>10
    <2>2. IsFiniteSet(Q) /\ Q \in SUBSET (a..b)
        BY <1>5, PlacesFinite
    <2> HIDE DEF Q
    <2>3. CASE p.room = r /\ p.type = t /\ Given(p)
        <3>1. g[r] = Push(d[r], p.value, ROLLING_WINDOW) /\ d[r] \in Deques(ROLLING_WINDOW)
            BY <1>10, <2>3
        <3>2. RoomPlaces(lg, a, c, r, t) = Q \cup {c}
            BY <1>6, <2>3 DEF Q
        <3> QED
            BY <1>8, <2>1, <2>2, <3>1, <3>2, Windows
    <2>4. CASE ~(p.room = r /\ p.type = t /\ Given(p))
        <3>1. g[r] = d[r]
            BY <1>10, <2>4
        <3>2. RoomPlaces(lg, a, c, r, t) = Q
            BY <1>6, <2>4 DEF Q
        <3> QED
            BY <2>1, <3>1, <3>2
    <2> QED
        BY <2>3, <2>4
<1>11. ASSUME NEW r \in RoomIds
       PROVE  /\ Remembers(e.temp[r], RoomPlaces(lg, a, c, r, "temperature"), ROLLING_WINDOW, f)
              /\ Remembers(e.energy[r], RoomPlaces(lg, a, c, r, "energy"), ROLLING_WINDOW, f)
    <2>1. /\ Remembers(det.temp[r], RoomPlaces(lg, a, b, r, "temperature"), ROLLING_WINDOW, f)
          /\ Remembers(det.energy[r], RoomPlaces(lg, a, b, r, "energy"), ROLLING_WINDOW, f)
        BY DEF Remembered, f
    <2>2. Remembers(e.temp[r], RoomPlaces(lg, a, c, r, "temperature"), ROLLING_WINDOW, f)
        BY <1>4, <1>7, <1>10, <2>1
    <2>3. Remembers(e.energy[r], RoomPlaces(lg, a, c, r, "energy"), ROLLING_WINDOW, f)
        BY <1>4, <1>7, <1>10, <2>1
    <2> QED
        BY <2>2, <2>3
<1>12. Remembered(e, lg, a, c)
    BY <1>9, <1>11 DEF Remembered, f
<1> QED
    BY <1>12 DEF e, p, c

LEMMA InitKnows == PipelineInit => WindowsKnow
<1> SUFFICES ASSUME PipelineInit PROVE WindowsKnow
    OBVIOUS
<1>1. Remembered(NewDetector, log, 0 + 1, 0)
    BY NothingRemembered
<1>2. detector = NewDetector /\ start = 0 /\ position = 0
    BY DEF PipelineInit
<1> QED
    BY <1>1, <1>2 DEF WindowsKnow

\* A publication leaves the readings before it where they are.
LEMMA PublishAppends ==
    ASSUME PipelineTypeOK, NEW s \in Sensors, Publish(s)
    PROVE  /\ \A i \in 1..position :
                /\ log'[i] = log[i] /\ Figures(log')[i] = Figures(log)[i]
                /\ log[i] \in ReadingType /\ Figures(log)[i] = log[i].value
           /\ UNCHANGED consumer
<1>1. PICK p : log' = Append(log, p)
    BY DEF Publish
<1> DEFINE l == Len(log)
<1>2. log \in Seq(ReadingType) /\ l \in Nat /\ position \in 0..l
    BY DEF PipelineTypeOK
<1>3. Len(log') = l + 1 /\ \A i \in 1..l : log'[i] = log[i]
    BY <1>1, <1>2
<1> HIDE DEF l
<1>4. \A i \in 1..position : i \in 1..l /\ i \in 1..(l + 1)
    BY <1>2
<1>5. \A i \in 1..position : log'[i] = log[i] /\ log[i] \in ReadingType
    BY <1>2, <1>3, <1>4 DEF l
<1>6. /\ Figures(log) = [i \in 1..l |-> log[i].value]
      /\ Figures(log') = [i \in 1..(l + 1) |-> log'[i].value]
    BY <1>3 DEF Figures, l
<1>7. \A i \in 1..position : Figures(log')[i] = Figures(log)[i] /\ Figures(log)[i] = log[i].value
    BY <1>4, <1>5, <1>6
<1> QED
    BY <1>5, <1>7 DEF Publish

LEMMA NextKnows == PipelineTypeOK /\ WindowsKnow /\ [PipelineNext]_pipelineVars => WindowsKnow'
<1> SUFFICES ASSUME PipelineTypeOK, WindowsKnow, [PipelineNext]_pipelineVars
             PROVE  WindowsKnow'
    OBVIOUS
<1> DEFINE a == start + 1
           b == position
<1>1. log \in Seq(ReadingType) /\ position \in Nat /\ start \in Nat /\ start <= position
      /\ a \in Int /\ b \in Int /\ 1 <= a
    <2>1. log \in Seq(ReadingType) /\ position \in Nat
        BY DEF PipelineTypeOK
    <2>2. start \in 0..position
        BY DEF PipelineTypeOK
    <2> QED
        BY <2>1, <2>2
<1>2. ASSUME NEW s \in Sensors, Publish(s) PROVE WindowsKnow'
    <2>1. \A i \in 1..position : log'[i] = log[i] /\ Figures(log')[i] = Figures(log)[i]
        BY <1>2, PublishAppends
    <2>2. \A i \in a..b : log'[i] = log[i] /\ Figures(log')[i] = Figures(log)[i]
        <3>1. \A i \in a..b : i \in 1..position
            BY <1>1
        <3> QED
            BY <2>1, <3>1
    <2>3. UNCHANGED <<detector, start, position>>
        BY <1>2 DEF Publish, consumer
    <2>4. Remembered(detector, log, a, b)
        BY DEF WindowsKnow
    <2> HIDE DEF a, b
    <2>5. Remembered(detector, log', a, b)
        BY <1>1, <2>2, <2>4, RememberedStable
    <2>6. Remembered(detector', log', a, b)
        BY <2>3, <2>5
    <2> QED
        BY <2>3, <2>6 DEF WindowsKnow, a, b
<1>3. CASE Consume
    <2>1. /\ detector' = Learnt(detector, log[position + 1]) /\ position' = position + 1
          /\ start' = start /\ log' = log
        BY <1>3 DEF Consume
    <2>2. position + 1 <= Len(log) /\ a <= b + 1
        <3> DEFINE l == Len(log)
        <3>1. l \in Nat /\ position < l
            BY <1>1, <1>3 DEF Consume
        <3> HIDE DEF l
        <3>2. position + 1 <= l /\ a <= b + 1
            BY <1>1, <3>1
        <3> QED
            BY <3>2 DEF l
    <2>3. Remembered(detector, log, a, b) /\ detector \in DetectorType
        BY DEF WindowsKnow, PipelineTypeOK
    <2>4. Remembered(Learnt(detector, log[b + 1]), log, a, b + 1)
        <3> HIDE DEF a
        <3> QED
            BY <1>1, <2>2, <2>3, RememberedLearnt
    <2> QED
        BY <2>1, <2>4 DEF WindowsKnow
<1>4. CASE Restart
    <2>1. detector' = NewDetector /\ start' = position /\ position' = position /\ log' = log
        BY <1>4 DEF Restart
    <2>2. Remembered(NewDetector, log, position + 1, position)
        BY <1>1, NothingRemembered
    <2> QED
        BY <2>1, <2>2 DEF WindowsKnow
<1>5. CASE (\E s \in Sensors : Update(s)) \/ UNCHANGED pipelineVars
    <2>1. UNCHANGED <<detector, start, position, log>>
        BY <1>5 DEF Update, pipelineVars, consumer
    <2> QED
        BY <2>1 DEF WindowsKnow
<1> QED
    BY <1>2, <1>3, <1>4, <1>5 DEF PipelineNext

(***************************************************************************)
(* What is recorded for a reading.                                         *)
(***************************************************************************)
(* Which rule an alarm is of, and that a spike of energy is not masked.     *)
LEMMA CheckFacts ==
    ASSUME NEW det, NEW p \in ReadingType
    PROVE  /\ "high_frequency_fluctuation" \in Check(det, p) =>
                "high_frequency_fluctuation" \in CheckOscillation(det, p)
           /\ "energy_spike" \in Check(det, p) =>
                p.type = "energy" /\ EnergySpike(det.energy[p.room], p.value)
           /\ "temperature_zscore_spike" \in Check(det, p) =>
                p.type = "temperature" /\ ZScoreSpike(det.temp[p.room], p.value)
           /\ p.type = "energy" /\ Given(p) /\ ~(p.value < 0)
                /\ EnergySpike(det.energy[p.room], p.value) => "energy_spike" \in Check(det, p)
<1>1. p.type \in Types
    BY DEF ReadingType
<1>2. CheckOscillation(det, p) \subseteq {"high_frequency_fluctuation"}
    BY DEF CheckOscillation
<1>3. CheckTemperature(det, p) \subseteq {"temperature_out_of_range", "temperature_zscore_spike"}
      /\ ("temperature_zscore_spike" \in CheckTemperature(det, p) =>
            ZScoreSpike(det.temp[p.room], p.value))
    BY DEF CheckTemperature
<1>4. CheckOccupancy(p) \subseteq {"occupancy_negative", "occupancy_exceeds_capacity"}
    BY DEF CheckOccupancy
<1>5. CheckEnergy(det, p) \subseteq {"energy_negative", "energy_spike"}
      /\ ("energy_spike" \in CheckEnergy(det, p) => EnergySpike(det.energy[p.room], p.value))
      /\ (Given(p) /\ ~(p.value < 0) /\ EnergySpike(det.energy[p.room], p.value) =>
            "energy_spike" \in CheckEnergy(det, p))
    BY DEF CheckEnergy
<1>6. /\ p.type = "temperature" =>
           Check(det, p) = CheckOscillation(det, p) \cup CheckTemperature(det, p)
      /\ p.type = "occupancy" => Check(det, p) = CheckOscillation(det, p) \cup CheckOccupancy(p)
      /\ p.type = "energy" => Check(det, p) = CheckOscillation(det, p) \cup CheckEnergy(det, p)
    BY DEF Check
<1> DEFINE O == CheckOscillation(det, p)
           T == CheckTemperature(det, p)
           Q == CheckOccupancy(p)
           E == CheckEnergy(det, p)
           C == Check(det, p)
           Z == ZScoreSpike(det.temp[p.room], p.value)
           S == EnergySpike(det.energy[p.room], p.value)
           G == Given(p) /\ ~(p.value < 0) /\ S
<1> HIDE DEF O, T, Q, E, C
<1>7. CASE p.type = "temperature"
    BY <1>2, <1>3, <1>6, <1>7 DEF O, T, C
<1>8. CASE p.type = "occupancy"
    BY <1>2, <1>4, <1>6, <1>8 DEF O, Q, C
<1>9. CASE p.type = "energy"
    BY <1>2, <1>5, <1>6, <1>9 DEF O, E, C
<1> QED
    BY <1>1, <1>7, <1>8, <1>9 DEF Types

(* The simulator's flag adds no alarm of theirs.                            *)
LEMMA RecordedFacts ==
    ASSUME NEW p \in ReadingType
    PROVE  /\ "high_frequency_fluctuation" \in Recorded(p) =>
                "high_frequency_fluctuation" \in CheckOscillation(detector, p)
           /\ "energy_spike" \in Recorded(p) =>
                p.type = "energy" /\ EnergySpike(detector.energy[p.room], p.value)
           /\ "temperature_zscore_spike" \in Recorded(p) =>
                p.type = "temperature" /\ ZScoreSpike(detector.temp[p.room], p.value)
           /\ p.type = "energy" /\ Given(p) /\ ~(p.value < 0)
                /\ EnergySpike(detector.energy[p.room], p.value) =>
                "energy_spike" \in Recorded(p)
<1> DEFINE C == Check(detector, p)
<1>1. Recorded(p) = IF p.anomaly /\ C = {} THEN {"simulator_flag"} ELSE C
    BY DEF Recorded
<1>2. \A x : x \in Recorded(p) => x = "simulator_flag" \/ x \in C
    BY <1>1
<1>3. "energy_spike" \in C => "energy_spike" \in Recorded(p)
    BY <1>1
<1> HIDE DEF C
<1>4. /\ "high_frequency_fluctuation" \in Recorded(p) => "high_frequency_fluctuation" \in C
      /\ "energy_spike" \in Recorded(p) => "energy_spike" \in C
      /\ "temperature_zscore_spike" \in Recorded(p) => "temperature_zscore_spike" \in C
    BY <1>2
<1> QED
    BY <1>3, <1>4, CheckFacts DEF C

(* The three rules about what is known.                                     *)
LEMMA FluctuationKnown ==
    ASSUME NEW Q, IsFiniteSet(Q), NEW w \in Deques(OSC_WINDOW), NEW f,
           \A i \in Q : f[i] \in Int, Remembers(w, Q, OSC_WINDOW, f), NEW t \in Nat,
           Len(w) = OSC_WINDOW, Spread(w) > t * t * OSC_WINDOW * (OSC_WINDOW - 1)
    PROVE  /\ Cardinality(Q) >= OSC_WINDOW
           /\ Max(Recalled(Q, OSC_WINDOW, f)) - Min(Recalled(Q, OSC_WINDOW, f)) > t
<1> DEFINE K == Recalled(Q, OSC_WINDOW, f)
           lo == Min(K)
           hi == Max(K)
<1>1. OSC_WINDOW \in Nat /\ OSC_WINDOW > 1
    BY Windows
<1>2. \A k \in 1..Len(w) : w[k] \in K
    BY <1>1, Recalls
<1>3. \A x \in K : lo \in Int /\ hi \in Int /\ lo <= x /\ x <= hi
    BY RecalledBounds
<1>4. w \in Seq(Int)
    BY DEF Deques
<1>5. 1 \in 1..Len(w)
    BY <1>1
<1> HIDE DEF lo, hi, K
<1>6. w[1] \in K
    BY <1>2, <1>5
<1>7. lo \in Int /\ hi \in Int /\ \A k \in 1..Len(w) : lo <= w[k] /\ w[k] <= hi
    BY <1>3, <1>2, <1>6
<1>8. Spread(w) > t * t * Len(w) * (Len(w) - 1) /\ Len(w) >= 2
    BY <1>1
<1>9. hi - lo > t
    BY <1>4, <1>7, <1>8, Fluctuates
<1>10. Len(w) = IF Cardinality(Q) <= OSC_WINDOW THEN Cardinality(Q) ELSE OSC_WINDOW
    BY DEF Remembers
<1>11. Cardinality(Q) >= OSC_WINDOW
    BY <1>1, <1>10, FS_CardinalityType
<1> QED
    BY <1>9, <1>11 DEF lo, hi, K

(* A mean is not below the least and not above the greatest.                *)
LEMMA SpikeKnown ==
    ASSUME NEW Q, IsFiniteSet(Q), Q \subseteq Int, NEW w \in Deques(ROLLING_WINDOW), NEW f,
           \A i \in Q : f[i] \in Int, Remembers(w, Q, ROLLING_WINDOW, f), NEW v \in Int
    PROVE  /\ EnergySpike(w, v) =>
                v > ENERGY_SPIKE_FACTOR * Min(Recalled(Q, ROLLING_WINDOW, f))
           /\ Cardinality(LastOf(Q, ROLLING_WINDOW)) >= 2
                /\ Min(Recalled(Q, ROLLING_WINDOW, f)) > 0
                /\ v > ENERGY_SPIKE_FACTOR * Max(Recalled(Q, ROLLING_WINDOW, f)) =>
                v > 0 /\ EnergySpike(w, v)
<1> DEFINE n == Len(w)
           K == Recalled(Q, ROLLING_WINDOW, f)
           S == Sum(w)
           F == ENERGY_SPIKE_FACTOR
           lo == Min(K)
           hi == Max(K)
<1>1. \A k \in 1..n : w[k] \in K
    BY Windows, Recalls
<1>2. \A x \in K : lo \in Int /\ hi \in Int /\ lo <= x /\ x <= hi
    BY RecalledBounds
<1> HIDE DEF K
<1>3. w \in Seq(Int) /\ n \in Nat /\ S \in Int
    BY SequenceSum DEF Deques
<1>4. F \in Nat
    BY DetectorAssumption
<1>5. ASSUME n >= 2
      PROVE  lo \in Int /\ hi \in Int /\ lo <= hi /\ n * lo <= S /\ S <= n * hi
    <2> HIDE DEF n, lo, hi, S
    <2>1. 1 \in 1..n
        BY <1>3, <1>5
    <2> DEFINE x == w[1]
    <2>2. x \in K
        BY <1>1, <2>1
    <2> HIDE DEF x
    <2>3. lo \in Int /\ hi \in Int /\ lo <= x /\ x <= hi
        BY <1>2, <2>2
    <2>4. \A i \in 1..Len(w) : lo <= w[i] /\ w[i] <= hi
        BY <1>1, <1>2 DEF n
    <2>5. n * lo <= S /\ S <= n * hi
        BY <1>3, <2>3, <2>4, SumBetween DEF n, S
    <2>6. x \in Int
        BY <1>3, <2>1 DEF n, x
    <2>7. lo <= hi
        BY <2>3, <2>6
    <2> QED
        BY <2>3, <2>5, <2>7
<1> DEFINE SpikesNow == n >= 2 /\ S > 0 /\ n * v > F * S
<1>6. EnergySpike(w, v) <=> SpikesNow
    BY DEF EnergySpike
<1>7. ASSUME SpikesNow PROVE v > F * lo
    <2>1. n >= 2 /\ S > 0 /\ n * v > F * S
        BY <1>7
    <2>2. lo \in Int /\ n * lo <= S
        BY <1>5, <2>1
    <2> DEFINE a == n * lo
               b == F * lo
               x == F * S
               y == F * a
               z == n * v
    <2> HIDE DEF n, S, F, lo
    <2>3. a \in Int
        BY <1>3, <2>2
    <2>4. y <= x /\ y \in Int /\ x \in Int
        <3> HIDE DEF a
        <3> QED
            BY <1>3, <1>4, <2>2, <2>3, Multiplies DEF a
    <2>5. y = n * b /\ b \in Int
        BY <1>3, <1>4, <2>2
    <2>6. n * b < n * v
        <3> DEFINE c == n * b
        <3>1. y = c /\ z > x /\ z \in Int
            BY <1>3, <2>1, <2>5
        <3> HIDE DEF c, x, y, z
        <3>2. c < z
            BY <2>4, <3>1
        <3> QED
            BY <3>2 DEF c, z
    <2>7. ASSUME v <= b PROVE FALSE
        <3> HIDE DEF b
        <3>1. n * v <= n * b /\ n * v \in Int /\ n * b \in Int
            BY <1>3, <2>5, <2>7, Multiplies
        <3> QED
            BY <2>6, <3>1
    <2> HIDE DEF b
    <2>8. v > b
        BY <2>5, <2>7
    <2> QED
        BY <2>8 DEF b
<1>8. ASSUME Cardinality(LastOf(Q, ROLLING_WINDOW)) >= 2, lo > 0, v > F * hi
      PROVE  v > 0 /\ SpikesNow
    <2>1. n >= 2
        BY <1>8, Windows, TwoRemembered
    <2>2. lo \in Int /\ hi \in Int /\ lo <= hi /\ n * lo <= S /\ S <= n * hi
        BY <1>5, <2>1
    <2> HIDE DEF n, S, F, lo, hi
    <2> DEFINE b == F * hi
               c == F * S
               d == n * hi
    <2>3. b \in Int /\ b >= 0
        BY <1>4, <1>8, <2>2
    <2>4. v > 0
        <3>1. v > b
            BY <1>8
        <3> HIDE DEF b
        <3> QED
            BY <2>3, <3>1
    <2>5. S > 0
        <3> DEFINE e == n * lo
        <3>1. e \in Int /\ e > 0 /\ e <= S
            BY <1>3, <1>8, <2>1, <2>2
        <3> HIDE DEF e
        <3> QED
            BY <1>3, <3>1
    <2>6. d \in Int /\ S <= d
        BY <1>3, <2>2
    <2>7. c <= F * d /\ c \in Int /\ F * d \in Int
        <3> HIDE DEF d
        <3> QED
            BY <1>3, <1>4, <2>6, Multiplies
    <2>8. F * d = n * b
        BY <1>3, <1>4, <2>2
    <2>9. n * b + n <= n * v
        <3> HIDE DEF b
        <3>1. b + 1 <= v /\ b + 1 \in Int
            BY <1>8, <2>3 DEF b
        <3>2. n * (b + 1) <= n * v
            BY <1>3, <3>1, Multiplies
        <3>3. n * (b + 1) = n * b + n
            BY <1>3, <2>3
        <3> QED
            BY <3>2, <3>3
    <2> DEFINE g == F * d
               h == n * b
               k == n * v
    <2>10. h \in Int /\ k \in Int
        BY <1>3, <2>3
    <2> HIDE DEF b, c, d, g, h, k
    <2>11. k > c
        <3>1. c <= g /\ g = h /\ h + n <= k /\ c \in Int /\ g \in Int
            BY <2>7, <2>8, <2>9 DEF g, h, k
        <3> QED
            BY <1>3, <2>1, <2>10, <3>1
    <2> QED
        BY <2>1, <2>4, <2>5, <2>11 DEF c, k
<1> HIDE DEF SpikesNow
<1> QED
    BY <1>6, <1>7, <1>8 DEF K

(* A window with a spread has two different readings.                       *)
LEMMA ZScoreKnown ==
    ASSUME NEW Q, IsFiniteSet(Q), NEW w \in Deques(ROLLING_WINDOW), NEW f,
           \A i \in Q : f[i] \in Int, Remembers(w, Q, ROLLING_WINDOW, f), NEW v, ZScoreSpike(w, v)
    PROVE  Cardinality(Recalled(Q, ROLLING_WINDOW, f)) >= 2
<1> DEFINE K == Recalled(Q, ROLLING_WINDOW, f)
<1>1. IsFiniteSet(K)
    BY RecalledBounds
<1>2. \A k \in 1..Len(w) : w[k] \in K
    BY Windows, Recalls
<1> HIDE DEF K
<1>3. w \in Seq(Int) /\ Len(w) >= 2 /\ Spread(w) # 0
    BY DEF Deques, ZScoreSpike
<1> DEFINE c == w[1]
<1>4. 1 \in 1..Len(w) /\ c \in Int
    BY <1>3
<1> HIDE DEF c
<1>5. \E i \in 1..Len(w) : w[i] # c
    BY <1>3, <1>4, SpreadOfEqual
<1>6. PICK i \in 1..Len(w) : w[i] # c
    BY <1>5
<1>7. w[i] \in K /\ c \in K
    BY <1>4, <1>2 DEF c
<1> QED
    BY <1>1, <1>6, <1>7, TwoOf DEF K

(***************************************************************************)
(* The alarms.                                                             *)
(***************************************************************************)
\* Places are of readings, and Known is what they are recalled by.
LEMMA EarlierKnown ==
    ASSUME PipelineTypeOK, position > start
    PROVE  /\ OfSensor = SensorPlaces(log, start + 1, position, Taken.sensor)
           /\ Earlier = RoomPlaces(log, start + 1, position - 1, Taken.room, Taken.type)
           /\ Known = Recalled(Earlier, ROLLING_WINDOW, Figures(log))
           /\ {log[i].value : i \in LastOf(OfSensor, OSC_WINDOW)}
                = Recalled(OfSensor, OSC_WINDOW, Figures(log))
<1> DEFINE l == Len(log)
<1>1. l \in Nat /\ position \in 0..l /\ start \in Nat
    <2>1. l \in Nat /\ position \in 0..l
        BY DEF PipelineTypeOK
    <2>2. start \in 0..position
        BY DEF PipelineTypeOK
    <2> QED
        BY <2>1, <2>2
<1>2. Figures(log) = [i \in 1..l |-> log[i].value]
    BY DEF Figures
<1> HIDE DEF l
<1>3. OfSensor \subseteq 1..l /\ Earlier \subseteq 1..l
    BY <1>1 DEF OfSensor, Earlier
<1>4. ASSUME NEW Q \in SUBSET (1..l), NEW n
      PROVE  {log[i].value : i \in LastOf(Q, n)} = Recalled(Q, n, Figures(log))
    <2>1. LastOf(Q, n) \subseteq 1..l
        BY DEF LastOf
    <2>2. \A i \in LastOf(Q, n) : Figures(log)[i] = log[i].value
        BY <1>2, <2>1
    <2> QED
        BY <2>2 DEF Recalled
<1>5. OfSensor = SensorPlaces(log, start + 1, position, Taken.sensor)
    BY DEF OfSensor, SensorPlaces
<1>6. Earlier = RoomPlaces(log, start + 1, position - 1, Taken.room, Taken.type)
    BY DEF Earlier, RoomPlaces
<1> QED
    BY <1>3, <1>4, <1>5, <1>6 DEF Known

\* What the properties say of one reading's alarms.
Caused(alarms, p, Q, E, f) ==
    /\ "high_frequency_fluctuation" \in alarms =>
         /\ Cardinality(Q) >= OSC_WINDOW
         /\ Max(Recalled(Q, OSC_WINDOW, f)) - Min(Recalled(Q, OSC_WINDOW, f))
              > OSCILLATION_FRACTION[p.type]
    /\ "energy_spike" \in alarms =>
         p.value > ENERGY_SPIKE_FACTOR * Min(Recalled(E, ROLLING_WINDOW, f))
    /\ "temperature_zscore_spike" \in alarms =>
         Cardinality(Recalled(E, ROLLING_WINDOW, f)) >= 2
Found(alarms, p, E, f) ==
    /\ p.type = "energy" /\ Cardinality(LastOf(E, ROLLING_WINDOW)) >= 2
    /\ Min(Recalled(E, ROLLING_WINDOW, f)) > 0
    /\ p.value > ENERGY_SPIKE_FACTOR * Max(Recalled(E, ROLLING_WINDOW, f))
    => "energy_spike" \in alarms

\* The properties as statements about the alarms, the reading and its places.
AlarmsRead ==
    position > start =>
      /\ OfSensor = SensorPlaces(log, start + 1, position, Taken.sensor)
      /\ Earlier = RoomPlaces(log, start + 1, position - 1, Taken.room, Taken.type)
      /\ AlarmsHaveCause <=> Caused(raised, Taken, OfSensor, Earlier, Figures(log))
      /\ SpikesAreFound <=> Found(raised, Taken, Earlier, Figures(log))

LEMMA AlarmsKnown == PipelineTypeOK => AlarmsRead
<1> SUFFICES ASSUME PipelineTypeOK, position > start
             PROVE  /\ OfSensor = SensorPlaces(log, start + 1, position, Taken.sensor)
                    /\ Earlier = RoomPlaces(log, start + 1, position - 1, Taken.room, Taken.type)
                    /\ AlarmsHaveCause
                         <=> Caused(raised, Taken, OfSensor, Earlier, Figures(log))
                    /\ SpikesAreFound <=> Found(raised, Taken, Earlier, Figures(log))
    BY DEF AlarmsRead
<1>1. AlarmsHaveCause <=> Caused(raised, Taken, OfSensor, Earlier, Figures(log))
    BY EarlierKnown DEF AlarmsHaveCause, Caused
<1>2. SpikesAreFound <=> Found(raised, Taken, Earlier, Figures(log))
    BY EarlierKnown DEF SpikesAreFound, Found
<1> QED
    BY <1>1, <1>2, EarlierKnown

(* The alarms of the reading that is consumed.                              *)
LEMMA ConsumedCaused ==
    ASSUME PipelineTypeOK, WindowsKnow, Consume, NEW p, p = log[position + 1], NEW Q, NEW E,
           Q = SensorPlaces(log, start + 1, position + 1, p.sensor),
           E = RoomPlaces(log, start + 1, position, p.room, p.type)
    PROVE  /\ Caused(Recorded(p), p, Q, E, Figures(log))
           /\ Found(Recorded(p), p, E, Figures(log))
<1> DEFINE f == Figures(log)
           w == OscillationWindow(detector, p)
           t == OSCILLATION_FRACTION[p.type]
           l == Len(log)
<1>1. p \in ReadingType /\ position + 1 \in 1..l /\ l \in Nat
    BY ConsumeTyped DEF PipelineTypeOK
<1>2. /\ p.sensor \in Sensors /\ p.room \in RoomIds /\ p.type \in Types /\ p.value \in Int
    BY <1>1 DEF ReadingType
<1>3. log \in Seq(ReadingType) /\ position \in Nat /\ start \in Nat /\ start <= position
    <2>1. log \in Seq(ReadingType) /\ position \in Nat
        BY DEF PipelineTypeOK
    <2>2. start \in 0..position
        BY DEF PipelineTypeOK
    <2> QED
        BY <2>1, <2>2
<1>4. \A i \in 1..l : f[i] \in Int
    <2>1. f = [i \in 1..l |-> log[i].value]
        BY DEF Figures
    <2>2. \A i \in 1..l : log[i] \in ReadingType
        BY <1>3
    <2>3. \A x \in ReadingType : x.value \in Int
        BY DEF ReadingType
    <2> HIDE DEF f, l
    <2> QED
        BY <2>1, <2>2, <2>3
<1> DEFINE a == start + 1
           b == position
<1>5. a \in Int /\ b \in Int /\ b + 1 \in Int /\ a <= b + 1 /\ 1 <= a /\ b + 1 <= l
    <2> HIDE DEF l
    <2> QED
        BY <1>1, <1>3
<1>6. /\ Q = SensorPlaces(log, a, b + 1, p.sensor)
      /\ E = RoomPlaces(log, a, b, p.room, p.type)
    OBVIOUS
<1>7. Remembered(Learnt(detector, p), log, a, b + 1) /\ Remembered(detector, log, a, b)
    <2>1. Remembered(detector, log, a, b) /\ detector \in DetectorType
        BY DEF WindowsKnow, PipelineTypeOK
    <2> HIDE DEF a
    <2>2. Remembered(Learnt(detector, log[b + 1]), log, a, b + 1)
        BY <1>3, <1>5, <2>1, RememberedLearnt
    <2> QED
        BY <2>1, <2>2
<1> HIDE DEF a, b, l
<1>8. IsFiniteSet(Q) /\ Q \in SUBSET (a..(b + 1)) /\ IsFiniteSet(E) /\ E \in SUBSET (a..b)
    BY <1>5, <1>6, PlacesFinite
<1>9. Q \subseteq Int /\ E \subseteq Int /\ \A i \in Q \cup E : f[i] \in Int
    <2>1. \A i \in a..(b + 1) : i \in 1..l
        BY <1>1, <1>5
    <2>2. \A i \in a..b : i \in 1..l
        BY <1>1, <1>5
    <2> QED
        BY <1>4, <1>8, <2>1, <2>2
<1>10. Remembers(w, Q, OSC_WINDOW, f) /\ w \in Deques(OSC_WINDOW)
    <2>1. detector \in DetectorType
        BY DEF PipelineTypeOK
    <2>2. Learnt(detector, p).osc
            = [detector.osc EXCEPT ![p.sensor] = Push(detector.osc[p.sensor], p.value, OSC_WINDOW)]
          /\ Learnt(detector, p) \in DetectorType
        BY <1>1, <2>1, LearntFacts
    <2>3. detector.osc \in [Sensors -> Deques(OSC_WINDOW)]
        BY <2>1 DEF DetectorType
    <2>4. Learnt(detector, p).osc[p.sensor] = w
        BY <1>2, <2>2, <2>3 DEF OscillationWindow
    <2>5. Learnt(detector, p).osc[p.sensor] \in Deques(OSC_WINDOW)
        BY <1>2, <2>2 DEF DetectorType
    <2>6. Remembers(Learnt(detector, p).osc[p.sensor], Q, OSC_WINDOW, f)
        BY <1>2, <1>6, <1>7 DEF Remembered
    <2> QED
        BY <2>4, <2>5, <2>6
<1>11. t \in Nat
    BY <1>2, DetectorAssumption
<1>12. /\ detector.temp[p.room] \in Deques(ROLLING_WINDOW)
       /\ detector.energy[p.room] \in Deques(ROLLING_WINDOW)
    BY <1>2 DEF PipelineTypeOK, DetectorType
<1>13. p.type = "temperature" => Remembers(detector.temp[p.room], E, ROLLING_WINDOW, f)
    BY <1>2, <1>6, <1>7 DEF Remembered
<1>14. p.type = "energy" => Remembers(detector.energy[p.room], E, ROLLING_WINDOW, f)
    BY <1>2, <1>6, <1>7 DEF Remembered
<1> DEFINE alarms == Recorded(p)
<1>15. /\ "high_frequency_fluctuation" \in alarms =>
            "high_frequency_fluctuation" \in CheckOscillation(detector, p)
       /\ "energy_spike" \in alarms =>
            p.type = "energy" /\ EnergySpike(detector.energy[p.room], p.value)
       /\ "temperature_zscore_spike" \in alarms =>
            p.type = "temperature" /\ ZScoreSpike(detector.temp[p.room], p.value)
       /\ p.type = "energy" /\ Given(p) /\ ~(p.value < 0)
            /\ EnergySpike(detector.energy[p.room], p.value) => "energy_spike" \in alarms
    BY <1>1, RecordedFacts
<1> HIDE DEF alarms, f
<1>16. ASSUME "high_frequency_fluctuation" \in alarms
       PROVE  /\ Cardinality(Q) >= OSC_WINDOW
              /\ Max(Recalled(Q, OSC_WINDOW, f)) - Min(Recalled(Q, OSC_WINDOW, f)) > t
    <2>1. "high_frequency_fluctuation" \in CheckOscillation(detector, p)
        BY <1>15, <1>16
    <2>2. Len(w) = OSC_WINDOW /\ Spread(w) > t * t * OSC_WINDOW * (OSC_WINDOW - 1)
        BY <2>1 DEF CheckOscillation
    <2>3. \A i \in Q : f[i] \in Int
        BY <1>9
    <2> HIDE DEF w, t
    <2> QED
        BY <1>8, <1>10, <1>11, <2>2, <2>3, FluctuationKnown
<1> DEFINE K == Recalled(E, ROLLING_WINDOW, f)
           v == p.value
<1>17. ASSUME p.type = "energy"
       PROVE  /\ EnergySpike(detector.energy[p.room], v) => v > ENERGY_SPIKE_FACTOR * Min(K)
              /\ Cardinality(LastOf(E, ROLLING_WINDOW)) >= 2 /\ Min(K) > 0
                   /\ v > ENERGY_SPIKE_FACTOR * Max(K) =>
                   v > 0 /\ EnergySpike(detector.energy[p.room], v)
    <2> DEFINE u == detector.energy[p.room]
    <2>1. u \in Deques(ROLLING_WINDOW) /\ Remembers(u, E, ROLLING_WINDOW, f) /\ v \in Int
        BY <1>2, <1>12, <1>14, <1>17
    <2>2. \A i \in E : f[i] \in Int
        BY <1>9
    <2> HIDE DEF u, v
    <2>3. /\ EnergySpike(u, v) => v > ENERGY_SPIKE_FACTOR * Min(K)
          /\ Cardinality(LastOf(E, ROLLING_WINDOW)) >= 2 /\ Min(K) > 0
               /\ v > ENERGY_SPIKE_FACTOR * Max(K) => v > 0 /\ EnergySpike(u, v)
        BY <1>8, <1>9, <2>1, <2>2, SpikeKnown
    <2> QED
        BY <2>3 DEF u
<1>18. ASSUME "temperature_zscore_spike" \in alarms PROVE Cardinality(K) >= 2
    <2> DEFINE u == detector.temp[p.room]
    <2>1. /\ u \in Deques(ROLLING_WINDOW) /\ Remembers(u, E, ROLLING_WINDOW, f)
          /\ ZScoreSpike(u, p.value)
        BY <1>12, <1>13, <1>15, <1>18
    <2>2. \A i \in E : f[i] \in Int
        BY <1>9
    <2> HIDE DEF u
    <2> QED
        BY <1>8, <2>1, <2>2, ZScoreKnown
<1>19. Caused(alarms, p, Q, E, f)
    BY <1>15, <1>16, <1>17, <1>18 DEF Caused
<1>20. Found(alarms, p, E, f)
    <2> SUFFICES ASSUME p.type = "energy", Cardinality(LastOf(E, ROLLING_WINDOW)) >= 2,
                        Min(K) > 0, v > ENERGY_SPIKE_FACTOR * Max(K)
                 PROVE  "energy_spike" \in alarms
        BY DEF Found
    <2>1. v > 0 /\ EnergySpike(detector.energy[p.room], v)
        BY <1>17
    <2>2. Given(p) /\ ~(p.value < 0)
        BY <1>2, <2>1 DEF Given
    <2> QED
        BY <1>15, <2>1, <2>2
<1> QED
    BY <1>19, <1>20 DEF alarms, f

AlarmInv == AlarmsHaveCause /\ SpikesAreFound

LEMMA ConsumeAlarms ==
    ASSUME PipelineTypeOK, WindowsKnow, Consume, PipelineTypeOK'
    PROVE  AlarmInv'
<1> DEFINE p == log[position + 1]
           Q == SensorPlaces(log, start + 1, position + 1, p.sensor)
           E == RoomPlaces(log, start + 1, position, p.room, p.type)
<1>1. /\ Caused(Recorded(p), p, Q, E, Figures(log))
      /\ Found(Recorded(p), p, E, Figures(log))
    BY ConsumedCaused
<1>2. /\ log' = log /\ start' = start /\ position' = position + 1 /\ raised' = Recorded(p)
    BY DEF Consume
<1>3. position \in Nat /\ start \in Int /\ start <= position
    <2>1. position \in Nat
        BY DEF PipelineTypeOK
    <2>2. start \in 0..position
        BY DEF PipelineTypeOK
    <2> QED
        BY <2>1, <2>2
<1>4. position' > start' /\ position' - 1 = position
    BY <1>2, <1>3
<1>5. Taken' = p
    BY <1>2 DEF Taken
<1>6. AlarmsRead'
    BY AlarmsKnown, PTL
<1>7. OfSensor' = Q /\ Earlier' = E
    BY <1>2, <1>4, <1>5, <1>6 DEF AlarmsRead
<1>8. /\ AlarmsHaveCause' <=> Caused(raised, Taken, OfSensor, Earlier, Figures(log))'
      /\ SpikesAreFound' <=> Found(raised, Taken, Earlier, Figures(log))'
    BY <1>4, <1>6 DEF AlarmsRead
<1>9. /\ Caused(raised', Taken', OfSensor', Earlier', Figures(log'))
      /\ Found(raised', Taken', Earlier', Figures(log'))
    BY <1>1, <1>2, <1>5, <1>7
<1> QED
    BY <1>8, <1>9 DEF AlarmInv

\* The reading taken last and those before it stay where they are.
LEMMA PublishAlarms ==
    ASSUME PipelineTypeOK, AlarmInv, NEW s \in Sensors, Publish(s)
    PROVE  AlarmInv'
<1>1. /\ \A i \in 1..position : log'[i] = log[i]
      /\ UNCHANGED <<position, start, raised>>
    BY PublishAppends DEF consumer
<1>2. CASE ~(position > start)
    BY <1>1, <1>2 DEF AlarmInv, AlarmsHaveCause, SpikesAreFound
<1>3. CASE position > start
    <2>1. position \in Nat /\ start \in Nat
        <3>1. position \in Nat
            BY DEF PipelineTypeOK
        <3>2. start \in 0..position
            BY DEF PipelineTypeOK
        <3> QED
            BY <3>1, <3>2
    <2>2. position \in 1..position
        BY <1>3, <2>1
    <2>3. Taken' = Taken
        BY <1>1, <2>2 DEF Taken
    <2>4. \A i \in start + 1..position : i \in 1..position
        BY <2>1
    <2>5. \A i \in start + 1..position - 1 : i \in 1..position
        BY <2>1
    <2>6. OfSensor' = OfSensor
        BY <1>1, <2>3, <2>4 DEF OfSensor
    <2>7. Earlier' = Earlier
        BY <1>1, <2>3, <2>5 DEF Earlier
    <2>8. \A n : LastOf(OfSensor, n) \subseteq OfSensor /\ LastOf(Earlier, n) \subseteq Earlier
        BY DEF LastOf
    <2>9. OfSensor \subseteq 1..position /\ Earlier \subseteq 1..position
        BY <2>4, <2>5 DEF OfSensor, Earlier
    <2>10. Known' = Known
        BY <1>1, <2>7, <2>8, <2>9 DEF Known
    <2>11. {log'[i].value : i \in LastOf(OfSensor, OSC_WINDOW)}
             = {log[i].value : i \in LastOf(OfSensor, OSC_WINDOW)}
        BY <1>1, <2>8, <2>9
    <2>12. AlarmsHaveCause'
        BY <1>1, <2>3, <2>6, <2>10, <2>11 DEF AlarmInv, AlarmsHaveCause
    <2>13. SpikesAreFound'
        BY <1>1, <2>3, <2>7, <2>10 DEF AlarmInv, SpikesAreFound
    <2> QED
        BY <2>12, <2>13 DEF AlarmInv
<1> QED
    BY <1>2, <1>3

LEMMA NextAlarms ==
    PipelineTypeOK /\ PipelineTypeOK' /\ WindowsKnow /\ AlarmInv /\ [PipelineNext]_pipelineVars
      => AlarmInv'
<1> SUFFICES ASSUME PipelineTypeOK, PipelineTypeOK', WindowsKnow, AlarmInv,
                    [PipelineNext]_pipelineVars
             PROVE  AlarmInv'
    OBVIOUS
<1>1. ASSUME NEW s \in Sensors, Publish(s) PROVE AlarmInv'
    BY <1>1, PublishAlarms
<1>2. CASE Consume
    BY <1>2, ConsumeAlarms
<1>3. CASE Restart
    <2>1. position \in Nat /\ start' = position /\ position' = position
        BY <1>3 DEF Restart, PipelineTypeOK
    <2>2. ~(position' > start')
        BY <2>1
    <2> QED
        BY <2>2 DEF AlarmInv, AlarmsHaveCause, SpikesAreFound
<1>4. CASE (\E s \in Sensors : Update(s)) \/ UNCHANGED pipelineVars
    <2>1. UNCHANGED <<log, position, start, raised>>
        BY <1>4 DEF Update, pipelineVars, consumer
    <2> QED
        BY <2>1 DEF AlarmInv, AlarmsHaveCause, SpikesAreFound, Taken, OfSensor, Earlier, Known
<1> QED
    BY <1>1, <1>2, <1>3, <1>4 DEF PipelineNext

LEMMA InitAlarms == PipelineInit => AlarmInv
<1> SUFFICES ASSUME PipelineInit PROVE AlarmInv
    OBVIOUS
<1>1. ~(position > start)
    BY DEF PipelineInit
<1> QED
    BY <1>1 DEF AlarmInv, AlarmsHaveCause, SpikesAreFound

(* The window of a sensor or a room holds the latest of its own readings     *)
(* since the consumer started, in their order and no others (anomaly.py     *)
(* 113-121, 139-150).                                                       *)
THEOREM WindowsRemember == PipelineSpec => []WindowsKnow
    BY PipelineTypes, InitKnows, NextKnows, PTL DEF PipelineSpec

LEMMA AlarmsInvariant == PipelineSpec => []AlarmInv
    BY PipelineTypes, WindowsRemember, InitAlarms, NextAlarms, PTL DEF PipelineSpec

(* Every alarm has its cause in the readings of the sensor or the room it    *)
(* names (anomaly.py 138-254).                                              *)
THEOREM AlarmCauses == PipelineSpec => []AlarmsHaveCause
<1>1. AlarmInv => AlarmsHaveCause
    BY DEF AlarmInv
<1> QED
    BY AlarmsInvariant, <1>1, PTL

(* A reading of energy above three times all the room's window knows is      *)
(* found (anomaly.py 225-254).                                              *)
THEOREM SpikesFound == PipelineSpec => []SpikesAreFound
<1>1. AlarmInv => SpikesAreFound
    BY DEF AlarmInv
<1> QED
    BY AlarmsInvariant, <1>1, PTL
=============================================================================
