--------------------------- MODULE MlConsumerProofs ---------------------------
(* Theorems about MlConsumer, for every set of topics and every bound.      *)
EXTENDS MlConsumer, FiniteSetTheorems, TLAPS

(***************************************************************************)
(* While the anomalies of a message are written there is such a message,   *)
(* and at least one of them is left.  TypeOK needs this to be inductive:   *)
(* EndAnomaly decrements pending without a test.                           *)
(***************************************************************************)
CheckingHasWork ==
    /\ pc = "checking" => pending > 0 /\ cur \in Message
    /\ pc # "checking" => pending = 0

TypeInv == TypeOK /\ CheckingHasWork

LEMMA NextOfMessage ==
    ASSUME NEW t \in Topics, TypeOK
    PROVE  NextOf(t) \in Message
BY DEF NextOf, Message, TypeOK

LEMMA CountNat ==
    ASSUME NEW S, IsFiniteSet(S)
    PROVE  Count(S) \in [Topics -> Nat]
<1>1. ASSUME NEW t \in Topics PROVE Cardinality(Of(t, S)) \in Nat
  <2>1. Of(t, S) \subseteq S
    BY DEF Of
  <2> QED BY <2>1, FS_Subset, FS_CardinalityType
<1> QED BY <1>1 DEF Count

LEMMA PlusNat ==
    ASSUME NEW f \in [Topics -> Nat], NEW g \in [Topics -> Nat]
    PROVE  Plus(f, g) \in [Topics -> Nat]
BY DEF Plus

LEMMA ZeroType == Zero \in [Topics -> Nat]
BY DEF Zero

LEMMA TypeInit == Init => TypeInv
<1> SUFFICES ASSUME Init PROVE TypeInv
  OBVIOUS
<1>1. log \in [Topics -> Seq(Kinds)]
  BY DEF Init
<1>2. IsFiniteSet(batch) /\ IsFiniteSet(swallowed)
  BY FS_EmptySet DEF Init
<1>3. 0 \in DetectedCounts
  BY ConsumerAssumption DEF DetectedCounts
<1> QED
  BY <1>1, <1>2, <1>3, ZeroType
  DEF Init, TypeInv, TypeOK, CheckingHasWork, Stages, Consuming

LEMMA EndLifeType ==
    ASSUME TypeInv, EndLife, position' \in [Topics -> Nat],
           committed' \in [Topics -> Nat], base' \in [Topics -> Nat],
           stored' \subseteq Message, unclean' \in Nat
    PROVE  TypeInv'
<1>1. IsFiniteSet(batch')
  BY FS_EmptySet DEF EndLife
<1>2. 0 \in DetectedCounts
  BY ConsumerAssumption DEF DetectedCounts
<1>3. abends' \in Nat
  BY DEF EndLife, TypeInv, TypeOK
<1> QED
  BY <1>1, <1>2, <1>3, ZeroType
  DEF EndLife, TypeInv, TypeOK, CheckingHasWork, Stages, Consuming

LEMMA StoredType ==
    ASSUME TypeOK, stored' \in MayHaveStored
    PROVE  stored' \subseteq Message
BY DEF MayHaveStored, TypeOK

LEMMA TakeType ==
    ASSUME NEW t \in Topics, TypeOK, Take(t)
    PROVE  /\ log' \in [Topics -> Seq(Kinds)]
           /\ position' \in [Topics -> Nat]
           /\ committed' \in [Topics -> Nat]
           /\ base' \in [Topics -> Nat]
BY DEF Take, TypeOK

LEMMA TypeStep == TypeInv /\ [Next]_vars => TypeInv'
<1> SUFFICES ASSUME TypeInv, [Next]_vars PROVE TypeInv'
  OBVIOUS
<1> USE ConsumerAssumption DEF TypeInv, TypeOK, CheckingHasWork
<1>1. ASSUME NEW t \in Topics, NEW k \in Kinds, Produce(t, k) PROVE TypeInv'
  <2>1. log' \in [Topics -> Seq(Kinds)]
    BY <1>1 DEF Produce
  <2> QED BY <1>1, <2>1 DEF Produce, loop, metrics, sinks, history
<1>2. CASE Signal
  <2>1. /\ signals' = signals + 1 /\ stopEvent' = TRUE
        /\ UNCHANGED <<log, position, committed, base, pc, batch, due, cur, pending,
                       processed, errors, anomalies, stored, rows, reported,
                       swallowed, life, abends, unclean>>
    BY <1>2 DEF Signal, kafka, metrics, sinks
  <2>2. signals' \in Nat /\ stopEvent' \in BOOLEAN
    BY <2>1
  <2>3. TypeOK'
    BY <2>1, <2>2
  <2>4. CheckingHasWork'
    BY <2>1
  <2> QED BY <2>3, <2>4
<1>3. CASE IntervalElapses
  BY <1>3 DEF IntervalElapses, kafka, metrics, sinks, history
<1>4. CASE AutoCommit
  BY <1>4 DEF AutoCommit, loop, metrics, sinks, history
<1>5. CASE Kill
  <2>1. /\ position' \in [Topics -> Nat] /\ committed' \in [Topics -> Nat]
        /\ base' \in [Topics -> Nat] /\ unclean' \in Nat
    BY <1>5 DEF Kill
  <2>2. stored' \subseteq Message
    BY <1>5, StoredType DEF Kill
  <2>3. EndLife
    BY <1>5 DEF Kill
  <2> HIDE DEF TypeInv
  <2> QED BY <2>1, <2>2, <2>3, EndLifeType
<1>6. CASE Start
  <2>1. life' \in Nat
    BY <1>6 DEF Start
  <2>2. pc' \in Stages /\ pc' # "checking" /\ pc # "checking"
    BY <1>6 DEF Start, Stages
  <2>3. UNCHANGED <<kafka, stopEvent, batch, due, cur, pending, metrics, sinks,
                    reported, swallowed, signals, abends, unclean>>
    BY <1>6 DEF Start
  <2> QED BY <2>1, <2>2, <2>3 DEF kafka, metrics, sinks
<1>7. CASE PgReady
  BY <1>7 DEF PgReady, kafka, metrics, sinks, history, Stages
<1>8. CASE PgUnavailable
  BY <1>8, EndLifeType DEF PgUnavailable
<1>9. CASE Connect
  BY <1>9 DEF Connect, kafka, metrics, sinks, history, Stages, Consuming
<1>10. CASE StopBeforeConnect
  BY <1>10 DEF StopBeforeConnect, kafka, metrics, sinks, history, Stages
<1>11. ASSUME NEW t \in Topics, TakeAndStop(t) PROVE TypeInv'
  <2>1. IsFiniteSet(swallowed')
    BY <1>11, FS_AddElement DEF TakeAndStop
  <2>2. swallowed' \subseteq Message \X Nat
    <3>1. NextOf(t) \in Message /\ life \in Nat /\ swallowed \subseteq Message \X Nat
      BY NextOfMessage
    <3> HIDE DEF TypeInv, TypeOK, CheckingHasWork
    <3> QED BY <1>11, <3>1 DEF TakeAndStop
  <2>3. pc' \in Stages /\ pc' # "checking" /\ pc # "checking"
    BY <1>11 DEF TakeAndStop, Take, Stages, Consuming
  <2>4. Take(t)
    BY <1>11 DEF TakeAndStop
  <2>5. UNCHANGED <<stopEvent, batch, due, cur, pending, metrics, sinks,
                    reported, life, signals, abends, unclean>>
    BY <1>11 DEF TakeAndStop
  <2> QED
    BY <2>1, <2>2, <2>3, <2>4, <2>5, TakeType DEF metrics, sinks
<1>12. ASSUME NEW t \in Topics, TakeBad(t) PROVE TypeInv'
  <2>1. errors' \in [Topics -> Nat] /\ reported' \subseteq Message
    <3>1. /\ NextOf(t) \in Message /\ reported \subseteq Message
          /\ errors \in [Topics -> Nat]
      BY NextOfMessage
    <3> HIDE DEF TypeInv, TypeOK, CheckingHasWork
    <3> QED BY <1>12, <3>1 DEF TakeBad
  <2>2. Take(t)
    BY <1>12 DEF TakeBad
  <2>3. UNCHANGED <<loop, processed, anomalies, sinks, swallowed, life, signals,
                    abends, unclean>>
    BY <1>12 DEF TakeBad
  <2> QED BY <2>1, <2>2, <2>3, TakeType DEF loop, sinks
<1>13. ASSUME NEW t \in Topics, TakePoison(t) PROVE TypeInv'
  <2>1. IsFiniteSet(batch')
    BY <1>13, FS_AddElement DEF TakePoison
  <2>2. batch' \subseteq Message
    BY <1>13, NextOfMessage DEF TakePoison
  <2>3. pc' \in Stages /\ pc' # "checking" /\ pc # "checking"
    BY <1>13 DEF TakePoison, Take, Stages
  <2>4. Take(t) /\ UNCHANGED <<stopEvent, due, cur, pending, metrics, sinks, history>>
    BY <1>13 DEF TakePoison
  <2> QED
    BY <2>1, <2>2, <2>3, <2>4, TakeType DEF metrics, sinks, history
<1>14. ASSUME NEW t \in Topics, TakeReading(t) PROVE TypeInv'
  <2>1. IsFiniteSet(batch')
    BY <1>14, FS_AddElement DEF TakeReading
  <2>2. pending' \in DetectedCounts
    <3> HIDE DEF TypeInv, TypeOK, CheckingHasWork
    <3>1. PICK k \in DetectedCounts :
             pending' = IF k = 0 /\ KindOf(NextOf(t)) = "flagged" THEN 1 ELSE k
      BY <1>14 DEF TakeReading
    <3>2. 1 \in DetectedCounts
      BY ConsumerAssumption DEF DetectedCounts
    <3> QED BY <3>1, <3>2
  <2>3. pc' \in Stages /\ (pc' = "checking" <=> pending' # 0)
    BY <1>14 DEF TakeReading, FlushTest, Stages, Consuming
  <2>4. cur' \in Message \cup {<<>>} /\ (pending' # 0 => cur' \in Message)
    BY <1>14, NextOfMessage DEF TakeReading
  <2>5. batch' \subseteq Message
    BY <1>14, NextOfMessage DEF TakeReading
  <2>6. UNCHANGED <<stopEvent, due, metrics, sinks, history>>
    BY <1>14 DEF TakeReading
  <2>7. pending' > 0 <=> pending' # 0
    BY <2>2 DEF DetectedCounts
  <2>8. Take(t)
    BY <1>14 DEF TakeReading
  <2> QED
    BY <2>1, <2>2, <2>3, <2>4, <2>5, <2>6, <2>7, <2>8, TakeType
    DEF metrics, sinks, history
<1>15. ASSUME EndAnomaly, rows' \in {rows, rows \cup {<<cur, life, pending>>}},
              anomalies' \in [Topics -> Nat]
       PROVE  TypeInv'
  <2>1. pending \in DetectedCounts /\ pending > 0 /\ cur \in Message
    BY <1>15 DEF EndAnomaly
  <2>2. pending' \in DetectedCounts /\ pending' = pending - 1
    BY <1>15, <2>1 DEF EndAnomaly, DetectedCounts
  <2>3. pc' \in Stages /\ (pc' = "checking" <=> pending' # 0)
    BY <1>15 DEF EndAnomaly, FlushTest, Stages, Consuming
  <2>4. cur' \in Message \cup {<<>>} /\ (pending' # 0 => cur' \in Message)
    BY <1>15, <2>1 DEF EndAnomaly
  <2>5. rows' \subseteq Message \X Nat \X Nat
    BY <1>15, <2>1 DEF DetectedCounts
  <2>6. pending' > 0 <=> pending' # 0
    BY <2>2 DEF DetectedCounts
  <2> QED
    BY <1>15, <2>2, <2>3, <2>4, <2>5, <2>6
    DEF EndAnomaly, kafka, history
<1>16. CASE WriteAnomaly
  <2>1. cur[1] \in Topics
    BY <1>16 DEF WriteAnomaly, EndAnomaly, Message
  <2>2. anomalies' \in [Topics -> Nat]
    <3>1. anomalies \in [Topics -> Nat]
      OBVIOUS
    <3> HIDE DEF TypeInv, TypeOK, CheckingHasWork
    <3> QED BY <1>16, <2>1, <3>1 DEF WriteAnomaly
  <2>3. EndAnomaly /\ rows' \in {rows, rows \cup {<<cur, life, pending>>}}
    BY <1>16 DEF WriteAnomaly
  <2> QED BY <1>15, <2>2, <2>3
<1>17. CASE AnomalyLost
  BY <1>15, <1>17 DEF AnomalyLost
<1>18. CASE FlushSucceeds
  <2>1. processed' \in [Topics -> Nat]
    BY <1>18, CountNat, PlusNat DEF FlushSucceeds
  <2> QED
    BY <1>18, <2>1, FS_EmptySet
    DEF FlushSucceeds, EndFlush, kafka, Stages, Consuming
<1>19. CASE FlushFails
  <2>1. errors' \in [Topics -> Nat]
    BY <1>19, CountNat, PlusNat DEF FlushFails
  <2> QED
    BY <1>19, <2>1, FS_EmptySet, StoredType
    DEF FlushFails, EndFlush, kafka, Stages, Consuming
<1>20. CASE StopConsumer
  <2>1. /\ position' \in [Topics -> Nat] /\ committed' \in [Topics -> Nat]
        /\ base' \in [Topics -> Nat] /\ unclean' \in Nat
        /\ stored' \subseteq Message
    <3>1. /\ position \in [Topics -> Nat] /\ committed \in [Topics -> Nat]
          /\ unclean \in Nat /\ stored \subseteq Message
      OBVIOUS
    <3> HIDE DEF TypeInv, TypeOK, CheckingHasWork
    <3> QED BY <1>20, <3>1 DEF StopConsumer
  <2>2. EndLife
    BY <1>20 DEF StopConsumer
  <2> HIDE DEF TypeInv
  <2> QED BY <2>1, <2>2, EndLifeType
<1>21. CASE UNCHANGED vars
  BY <1>21 DEF vars, kafka, loop, metrics, sinks, history
<1> QED
  BY <1>1, <1>2, <1>3, <1>4, <1>5, <1>6, <1>7, <1>8, <1>9, <1>10, <1>11, <1>12,
     <1>13, <1>14, <1>16, <1>17, <1>18, <1>19, <1>20, <1>21
  DEF Next, Iterate, Persist, Flush

(* Every variable stays in its type, whatever the topics, the batch size   *)
(* and the number of lives (main.py 86-206).                               *)
THEOREM TypeCorrect == Spec => []TypeOK
<1>1. TypeInv => TypeOK
  BY DEF TypeInv
<1> QED BY <1>1, TypeInit, TypeStep, PTL DEF Spec

-----------------------------------------------------------------------------
(***************************************************************************)
(* LossBounded.  What the group commits is what was handed out, so the     *)
(* invariant has to say that everything this life was handed still has a   *)
(* trace (Traced); then only the end of a life can remove traces, those of *)
(* the batch, which is never larger than BATCH_MAX_SIZE.                   *)
(***************************************************************************)
Traced ==
    \A t \in Topics : \A i \in Nat :
        base[t] < i /\ i <= position[t] => HasTrace(<<t, i>>)

BatchInv ==
    /\ BatchBounded
    /\ pc \in {"down", "init", "connecting"} => batch = {}

LossInv ==
    /\ \A t \in Topics : base[t] <= committed[t] /\ committed[t] <= position[t]
    /\ Traced
    /\ IsFiniteSet(Lost)
    /\ LossBounded

LEMMA AddOne ==
    ASSUME NEW S, IsFiniteSet(S), NEW x
    PROVE  /\ IsFiniteSet(S \cup {x})
           /\ Cardinality(S \cup {x}) \in Nat
           /\ Cardinality(S \cup {x}) <= Cardinality(S) + 1
<1>1. /\ Cardinality(S) \in Nat
      /\ IsFiniteSet(S \cup {x})
      /\ Cardinality(S \cup {x}) =
            IF x \in S THEN Cardinality(S) ELSE Cardinality(S) + 1
  BY FS_AddElement, FS_CardinalityType
<1> QED BY <1>1

(* A step that starts no new message and keeps the batch or empties it     *)
(* keeps its bound.                                                        *)
LEMMA BatchStep == TypeInv /\ BatchInv /\ [Next]_vars => BatchInv'
<1> SUFFICES ASSUME TypeInv, BatchInv, [Next]_vars PROVE BatchInv'
  OBVIOUS
<1> USE DEF BatchInv, BatchBounded
<1>0. /\ Cardinality({}) = 0
      /\ BATCH_MAX_SIZE \in Nat /\ BATCH_MAX_SIZE > 0
      /\ IsFiniteSet(batch) /\ Cardinality(batch) \in Nat
  BY ConsumerAssumption, FS_EmptySet, FS_CardinalityType DEF TypeInv, TypeOK
<1>1. ASSUME NEW t \in Topics, NEW k \in Kinds, Produce(t, k) PROVE BatchInv'
  BY <1>1 DEF Produce, loop
<1>2. CASE Signal
  BY <1>2 DEF Signal
<1>3. CASE IntervalElapses
  BY <1>3 DEF IntervalElapses
<1>4. CASE AutoCommit
  BY <1>4 DEF AutoCommit, loop
<1>5. CASE EndLife
  BY <1>5, <1>0 DEF EndLife
<1>6. CASE Start \/ PgReady \/ Connect \/ StopBeforeConnect
  BY <1>6, <1>0 DEF Start, PgReady, Connect, StopBeforeConnect
<1>7. ASSUME NEW t \in Topics, TakeAndStop(t) PROVE BatchInv'
  BY <1>7 DEF TakeAndStop
<1>8. ASSUME NEW t \in Topics, TakeBad(t) PROVE BatchInv'
  BY <1>8 DEF TakeBad, loop
<1>9. ASSUME NEW t \in Topics, TakePoison(t) PROVE BatchInv'
  <2>1. /\ pc = "waiting" /\ pc' = "stopping"
        /\ batch' = batch \cup {NextOf(t)}
    BY <1>9 DEF TakePoison, Take
  <2>2. Cardinality(batch') <= Cardinality(batch) + 1 /\ Cardinality(batch') \in Nat
    BY <2>1, <1>0, AddOne
  <2> QED BY <2>1, <2>2, <1>0
<1>10. ASSUME NEW t \in Topics, TakeReading(t) PROVE BatchInv'
  <2>1. /\ Cardinality(batch') \in Nat
        /\ Cardinality(batch') <= BATCH_MAX_SIZE
    <3>1. pc = "waiting" /\ batch' = batch \cup {NextOf(t)}
      BY <1>10 DEF TakeReading, Take
    <3>2. Cardinality(batch') <= Cardinality(batch) + 1 /\ Cardinality(batch') \in Nat
      BY <3>1, <1>0, AddOne
    <3> QED BY <3>1, <3>2, <1>0
  <2>2. pc' = "checking" \/ pc' = FlushTest(batch')
    BY <1>10 DEF TakeReading
  <2> QED BY <2>1, <2>2, <1>0 DEF FlushTest
<1>11. CASE WriteAnomaly \/ AnomalyLost
  <2>1. batch' = batch /\ (pc' = "checking" \/ pc' = FlushTest(batch))
    BY <1>11 DEF WriteAnomaly, AnomalyLost, EndAnomaly
  <2> QED BY <2>1, <1>0 DEF FlushTest
<1>12. CASE EndFlush
  BY <1>12, <1>0 DEF EndFlush
<1>13. CASE UNCHANGED vars
  BY <1>13 DEF vars, loop
<1> QED
  BY <1>1, <1>2, <1>3, <1>4, <1>5, <1>6, <1>7, <1>8, <1>9, <1>10, <1>11, <1>12,
     <1>13
  DEF Next, Iterate, Persist, Flush, Kill, PgUnavailable, StopConsumer,
      FlushSucceeds, FlushFails

(* Traces are what Lost counts: if none disappears but those of the set D, *)
(* and only handed-out messages are newly committed, Lost grows by at most *)
(* D.                                                                      *)
LEMMA LostGrowth ==
    ASSUME TypeInv, LossInv, NEW D \in SUBSET Message,
           \A m \in Message : HasTrace(m) => HasTrace(m)' \/ m \in D,
           committed' = committed \/ committed' = position
    PROVE  Lost' \subseteq Lost \cup D
<1> SUFFICES ASSUME NEW m \in Lost', m \notin D PROVE m \in Lost
  OBVIOUS
<1>1. PICK t \in Topics : m \in {t} \X (1..committed'[t])
  BY DEF Lost, CommittedMessages
<1>2. PICK i \in 1..committed'[t] : m = <<t, i>>
  BY <1>1
<1>3. /\ committed[t] \in Nat /\ position[t] \in Nat /\ base[t] \in Nat
      /\ base[t] <= committed[t]
  BY DEF TypeInv, TypeOK, LossInv
<1>4. i \in Nat \ {0} /\ i <= committed'[t]
  BY <1>2, <1>3
<1>5. m \in Message
  BY <1>2, <1>4 DEF Message
<1>6. ~HasTrace(m)
  BY <1>5 DEF Lost
<1>7. i <= committed[t]
  <2> SUFFICES ASSUME committed[t] < i PROVE FALSE
    BY <1>3, <1>4
  <2>1. committed' = position /\ i <= position[t] /\ base[t] < i
    BY <1>3, <1>4
  <2> QED BY <2>1, <1>2, <1>4, <1>6 DEF LossInv, Traced
<1>8. m \in {t} \X (1..committed[t])
  BY <1>2, <1>4, <1>7, <1>3
<1>9. m \in CommittedMessages
  BY <1>8 DEF CommittedMessages
<1> QED BY <1>6, <1>9 DEF Lost

(* A step of a running life: traces are only added, and what is newly      *)
(* handed out gets one.                                                    *)
LEMMA LossKept ==
    ASSUME TypeInv, LossInv,
           \A m \in Message : HasTrace(m) => HasTrace(m)',
           committed' = committed \/ committed' = position,
           base' = base, abends' = abends, position' \in [Topics -> Nat],
           \A t \in Topics :
              \/ position'[t] = position[t]
              \/ /\ position'[t] = position[t] + 1
                 /\ \A m \in Message : m = NextOf(t) => HasTrace(m)'
    PROVE  LossInv'
<1>1. Lost' \subseteq Lost
  <2>1. {} \in SUBSET Message /\ Lost \cup {} = Lost
    OBVIOUS
  <2>2. \A m \in Message : HasTrace(m) => HasTrace(m)' \/ m \in {}
    OBVIOUS
  <2> QED BY <2>1, <2>2, LostGrowth
<1>2. IsFiniteSet(Lost') /\ Cardinality(Lost') <= Cardinality(Lost)
  BY <1>1, FS_Subset DEF LossInv
<1>3. LossBounded'
  <2>1. /\ Cardinality(Lost) \in Nat /\ Cardinality(Lost') \in Nat
        /\ Cardinality(Lost) <= abends * BATCH_MAX_SIZE
    BY <1>2, FS_CardinalityType DEF LossInv, LossBounded
  <2>2. abends * BATCH_MAX_SIZE \in Nat
    BY ConsumerAssumption DEF TypeInv, TypeOK
  <2> QED BY <1>2, <2>1, <2>2 DEF LossBounded
<1>4. \A t \in Topics : base'[t] <= committed'[t] /\ committed'[t] <= position'[t]
  <2> SUFFICES ASSUME NEW t \in Topics
               PROVE  base[t] <= committed'[t] /\ committed'[t] <= position'[t]
    OBVIOUS
  <2>1. /\ base[t] \in Nat /\ committed[t] \in Nat /\ position[t] \in Nat
        /\ base[t] <= committed[t] /\ committed[t] <= position[t]
    BY DEF TypeInv, TypeOK, LossInv
  <2>2. position'[t] = position[t] \/ position'[t] = position[t] + 1
    OBVIOUS
  <2>3. committed'[t] = committed[t] \/ committed'[t] = position[t]
    OBVIOUS
  <2> QED BY <2>1, <2>2, <2>3
<1>5. ASSUME NEW t \in Topics, NEW i \in Nat, base'[t] < i, i <= position'[t]
      PROVE  HasTrace(<<t, i>>)'
  <2>1. position[t] \in Nat /\ base[t] \in Nat
    BY DEF TypeInv, TypeOK
  <2>2. CASE i <= position[t]
    <3>1. HasTrace(<<t, i>>)
      BY <1>5, <2>2 DEF LossInv, Traced
    <3>2. <<t, i>> \in Message
      BY <1>5, <2>1 DEF Message
    <3> QED BY <3>1, <3>2
  <2>3. CASE ~(i <= position[t])
    <3>1. position'[t] # position[t]
      BY <1>5, <2>3
    <3>2. /\ position'[t] = position[t] + 1
          /\ \A m \in Message : m = NextOf(t) => HasTrace(m)'
      BY <3>1
    <3>3. i = position[t] + 1
      BY <1>5, <2>1, <2>3, <3>2
    <3>4. <<t, i>> \in Message /\ <<t, i>> = NextOf(t)
      BY <2>1, <3>3 DEF Message, NextOf
    <3> QED BY <3>2, <3>4
  <2> QED BY <2>2, <2>3
<1>6. Traced'
  BY <1>5 DEF Traced
<1> QED BY <1>2, <1>3, <1>4, <1>6 DEF LossInv

(* The end of a life: what has a trace keeps it unless it is in the batch, *)
(* and a life that ends with a batch is counted.                           *)
LEMMA LossAtEnd ==
    ASSUME TypeInv, LossInv, BatchInv, EndLife,
           stored \subseteq stored',
           committed' = committed \/ committed' = position,
           position' = committed', base' = committed'
    PROVE  LossInv'
<1>1. \A m \in Message : HasTrace(m) => HasTrace(m)' \/ m \in batch
  BY DEF HasTrace, EndLife
<1>2. batch \subseteq Message /\ IsFiniteSet(batch) /\ abends \in Nat
  BY DEF TypeInv, TypeOK
<1>3. committed' \in [Topics -> Nat]
  BY DEF TypeInv, TypeOK
<1>4. Lost' \subseteq Lost \cup batch
  BY <1>1, <1>2, LostGrowth
<1>5. IsFiniteSet(Lost \cup batch)
  BY <1>2, FS_Union DEF LossInv
<1>6. IsFiniteSet(Lost') /\ Cardinality(Lost') <= Cardinality(Lost \cup batch)
  BY <1>4, <1>5, FS_Subset
<1>7. /\ Cardinality(Lost) \in Nat /\ Cardinality(batch) \in Nat
      /\ Cardinality(Lost') \in Nat /\ Cardinality(Lost \cup batch) \in Nat
      /\ BATCH_MAX_SIZE \in Nat
  BY <1>2, <1>5, <1>6, FS_CardinalityType, ConsumerAssumption DEF LossInv
<1>8. Cardinality(Lost \cup batch) <= Cardinality(Lost) + Cardinality(batch)
  <2>1. /\ Cardinality(Lost \cup batch) =
              Cardinality(Lost) + Cardinality(batch) - Cardinality(Lost \cap batch)
        /\ IsFiniteSet(Lost \cap batch)
    BY <1>2, FS_Union, FS_Intersection DEF LossInv
  <2>2. Cardinality(Lost \cap batch) \in Nat
    BY <2>1, FS_CardinalityType
  <2> QED BY <2>1, <2>2, <1>7
<1>9. LossBounded'
  <2>1. Cardinality(Lost) <= abends * BATCH_MAX_SIZE
    BY DEF LossInv, LossBounded
  <2>2. CASE batch = {}
    <3>1. abends' = abends /\ Cardinality(Lost') <= Cardinality(Lost)
      BY <2>2, <1>6 DEF EndLife
    <3>2. abends * BATCH_MAX_SIZE \in Nat
      BY <1>2, <1>7
    <3> QED BY <3>1, <3>2, <2>1, <1>7 DEF LossBounded
  <2>3. CASE batch # {}
    <3>1. abends' = abends + 1 /\ Cardinality(batch) <= BATCH_MAX_SIZE
      BY <2>3 DEF EndLife, BatchInv, BatchBounded
    <3>2. (abends + 1) * BATCH_MAX_SIZE = abends * BATCH_MAX_SIZE + BATCH_MAX_SIZE
      BY <1>2, <1>7
    <3>3. abends * BATCH_MAX_SIZE \in Nat
      BY <1>2, <1>7
    <3>4. Cardinality(Lost') <= abends * BATCH_MAX_SIZE + BATCH_MAX_SIZE
      BY <3>1, <3>3, <2>1, <1>6, <1>7, <1>8
    <3> QED BY <3>1, <3>2, <3>4 DEF LossBounded
  <2> QED BY <2>2, <2>3
<1>10. \A t \in Topics : base'[t] <= committed'[t] /\ committed'[t] <= position'[t]
  BY <1>3
<1>11. Traced'
  <2> SUFFICES ASSUME NEW t \in Topics, NEW i \in Nat,
                      base'[t] < i, i <= position'[t]
               PROVE  FALSE
    BY DEF Traced
  <2>1. base'[t] = position'[t] /\ base'[t] \in Nat
    BY <1>3
  <2> QED BY <2>1
<1> QED BY <1>6, <1>9, <1>10, <1>11 DEF LossInv

LEMMA LossInit == Init => BatchInv /\ LossInv
<1> SUFFICES ASSUME Init PROVE BatchInv /\ LossInv
  OBVIOUS
<1>0. Cardinality({}) = 0 /\ IsFiniteSet({})
  BY FS_EmptySet
<1>1. BatchInv
  BY <1>0, ConsumerAssumption DEF Init, BatchInv, BatchBounded
<1>2. Lost = {}
  <2> SUFFICES ASSUME NEW m \in CommittedMessages PROVE FALSE
    BY DEF Lost
  <2>1. PICK t \in Topics : m \in {t} \X (1..committed[t])
    BY DEF CommittedMessages
  <2> QED BY <2>1 DEF Init, Zero
<1>3. Traced
  BY DEF Init, Zero, Traced
<1>4. LossBounded
  BY <1>0, <1>2, ConsumerAssumption DEF Init, LossBounded
<1> QED BY <1>0, <1>1, <1>2, <1>3, <1>4 DEF Init, Zero, LossInv

(* A step that leaves positions alone and removes no trace.                *)
LEMMA LossQuiet ==
    ASSUME TypeInv, LossInv,
           \A m \in Message : HasTrace(m) => HasTrace(m)',
           committed' = committed \/ committed' = position,
           position' = position, base' = base, abends' = abends
    PROVE  LossInv'
<1>1. position' \in [Topics -> Nat]
  BY DEF TypeInv, TypeOK
<1> QED BY <1>1, LossKept

(* A step that hands out the next message of t, which gets a trace.        *)
LEMMA LossTake ==
    ASSUME TypeInv, LossInv, NEW t \in Topics, Take(t), abends' = abends,
           \A m \in Message : HasTrace(m) => HasTrace(m)',
           \A m \in Message : m = NextOf(t) => HasTrace(m)'
    PROVE  LossInv'
<1>1. /\ position' = [position EXCEPT ![t] = @ + 1]
      /\ position \in [Topics -> Nat]
      /\ committed' = committed /\ base' = base
  BY DEF Take, TypeInv, TypeOK
<1>2. position' \in [Topics -> Nat]
  BY <1>1
<1>3. ASSUME NEW u \in Topics
      PROVE  \/ position'[u] = position[u]
             \/ /\ position'[u] = position[u] + 1
                /\ \A m \in Message : m = NextOf(u) => HasTrace(m)'
  BY <1>1
<1> QED BY <1>1, <1>2, <1>3, LossKept

LEMMA LossStep == TypeInv /\ BatchInv /\ LossInv /\ [Next]_vars => LossInv'
<1> SUFFICES ASSUME TypeInv, BatchInv, LossInv, [Next]_vars PROVE LossInv'
  OBVIOUS
<1>1. ASSUME NEW t \in Topics, NEW k \in Kinds, Produce(t, k) PROVE LossInv'
  BY <1>1, LossQuiet DEF Produce, loop, sinks, history, HasTrace
<1>2. CASE Signal
  BY <1>2, LossQuiet DEF Signal, kafka, sinks, HasTrace
<1>3. CASE IntervalElapses
  BY <1>3, LossQuiet DEF IntervalElapses, kafka, sinks, history, HasTrace
<1>4. CASE AutoCommit
  BY <1>4, LossQuiet DEF AutoCommit, loop, sinks, history, HasTrace
<1>5. CASE Kill
  <2>1. stored \subseteq stored'
    BY <1>5 DEF Kill, MayHaveStored
  <2> QED BY <1>5, <2>1, LossAtEnd DEF Kill
<1>6. CASE Start
  BY <1>6, LossQuiet DEF Start, kafka, sinks, HasTrace
<1>7. CASE PgReady
  BY <1>7, LossQuiet DEF PgReady, kafka, sinks, history, HasTrace
<1>8. CASE PgUnavailable
  <2>1. batch = {}
    BY <1>8 DEF PgUnavailable, BatchInv
  <2>2. UNCHANGED <<position, committed, base, stored, reported, swallowed,
                    batch, abends>>
    BY <1>8, <2>1 DEF PgUnavailable, EndLife
  <2> QED BY <2>2, LossQuiet DEF HasTrace
<1>9. CASE Connect
  BY <1>9, LossQuiet DEF Connect, kafka, sinks, history, HasTrace
<1>10. CASE StopBeforeConnect
  BY <1>10, LossQuiet DEF StopBeforeConnect, kafka, sinks, history, HasTrace
<1>11. ASSUME NEW t \in Topics, TakeAndStop(t) PROVE LossInv'
  <2>1. \A m \in Message : HasTrace(m) => HasTrace(m)'
    BY <1>11 DEF TakeAndStop, sinks, HasTrace
  <2>2. \A m \in Message : m = NextOf(t) => HasTrace(m)'
    <3>1. <<NextOf(t), life>> \in swallowed'
      BY <1>11 DEF TakeAndStop
    <3> SUFFICES ASSUME NEW m \in Message, m = NextOf(t) PROVE HasTrace(m)'
      OBVIOUS
    <3>2. \E s \in swallowed' : s[1] = m
      BY <3>1
    <3> QED BY <3>2 DEF HasTrace
  <2> QED BY <1>11, <2>1, <2>2, LossTake DEF TakeAndStop
<1>12. ASSUME NEW t \in Topics, TakeBad(t) PROVE LossInv'
  <2>1. \A m \in Message : HasTrace(m) => HasTrace(m)'
    BY <1>12 DEF TakeBad, loop, sinks, HasTrace
  <2>2. \A m \in Message : m = NextOf(t) => HasTrace(m)'
    BY <1>12 DEF TakeBad, HasTrace
  <2> QED BY <1>12, <2>1, <2>2, LossTake DEF TakeBad
<1>13. ASSUME NEW t \in Topics, TakePoison(t) \/ TakeReading(t) PROVE LossInv'
  <2>1. /\ Take(t) /\ batch' = batch \cup {NextOf(t)}
        /\ UNCHANGED <<sinks, history>>
    BY <1>13 DEF TakePoison, TakeReading
  <2>2. \A m \in Message : HasTrace(m) => HasTrace(m)'
    BY <2>1 DEF sinks, history, HasTrace
  <2>3. \A m \in Message : m = NextOf(t) => HasTrace(m)'
    BY <2>1 DEF HasTrace
  <2> QED BY <2>1, <2>2, <2>3, LossTake DEF history
<1>14. CASE WriteAnomaly \/ AnomalyLost
  <2>1. UNCHANGED <<position, committed, base, stored, reported, swallowed,
                    batch, abends>>
    BY <1>14 DEF WriteAnomaly, AnomalyLost, EndAnomaly, kafka, history
  <2> QED BY <2>1, LossQuiet DEF HasTrace
<1>15. CASE FlushSucceeds \/ FlushFails
  <2>1. /\ EndFlush
        /\ stored \subseteq stored' /\ reported \subseteq reported'
        /\ batch \subseteq stored' \cup reported'
    BY <1>15 DEF FlushSucceeds, FlushFails, MayHaveStored
  <2>2. \A m \in Message : HasTrace(m) => HasTrace(m)'
    BY <2>1 DEF EndFlush, HasTrace
  <2> QED BY <2>1, <2>2, LossQuiet DEF EndFlush, kafka
<1>16. CASE StopConsumer
  BY <1>16, LossAtEnd DEF StopConsumer
<1>17. CASE UNCHANGED vars
  BY <1>17, LossQuiet DEF vars, kafka, loop, sinks, history, HasTrace
<1> QED
  BY <1>1, <1>2, <1>3, <1>4, <1>5, <1>6, <1>7, <1>8, <1>9, <1>10, <1>11, <1>12,
     <1>13, <1>14, <1>15, <1>16, <1>17
  DEF Next, Iterate, Persist, Flush

(* The batch never outgrows BATCH_MAX_SIZE (main.py 146, 174).             *)
THEOREM BatchIsBounded == Spec => []BatchBounded
<1>1. Init => BatchInv
  BY LossInit
<1>2. BatchInv => BatchBounded
  BY DEF BatchInv
<1> QED BY <1>1, <1>2, TypeInit, TypeStep, BatchStep, PTL DEF Spec

(* Auto-commit runs ahead of the flush, yet the committed messages that    *)
(* left no trace never exceed one batch per life that ended with readings  *)
(* in memory (main.py 99, 131, 177-178).                                   *)
THEOREM LossIsBounded == Spec => []LossBounded
<1>1. LossInv => LossBounded
  BY DEF LossInv
<1> QED
  BY <1>1, TypeInit, TypeStep, BatchStep, LossInit, LossStep, PTL DEF Spec
-----------------------------------------------------------------------------
(***************************************************************************)
(* ReplayBounded.  A message is handed out again only after a life that    *)
(* ended without committing it, so a message not handed out at present has *)
(* rows of at most `unclean' lives, and the one being written has rows of  *)
(* at most that many lives besides this one.                               *)
(***************************************************************************)
LivesOf(m) == {r[2] : r \in {q \in rows : q[1] = m}}

ReplayInv ==
    /\ IsFiniteSet(rows)
    /\ \A m \in Message :
          /\ Cardinality(LivesOf(m)) <= 1 + unclean
          /\ position[m[1]] < m[2] => Cardinality(LivesOf(m)) <= unclean
    /\ pc = "checking" =>
          /\ cur[2] <= position[cur[1]]
          /\ Cardinality(LivesOf(cur) \ {life}) <= unclean

LEMMA LivesFinite ==
    ASSUME IsFiniteSet(rows), NEW m
    PROVE  IsFiniteSet(LivesOf(m)) /\ Cardinality(LivesOf(m)) \in Nat
<1>1. IsFiniteSet({q \in rows : q[1] = m})
  BY FS_Subset
<1>2. IsFiniteSet(LivesOf(m))
  <2> DEFINE S == {q \in rows : q[1] = m}
             f == [r \in S |-> r[2]]
  <2>1. f \in Surjection(S, LivesOf(m))
    BY DEF Surjection, LivesOf
  <2>2. IsFiniteSet(S)
    BY <1>1
  <2> HIDE DEF S, f
  <2> QED BY <2>1, <2>2, FS_Surjection
<1> QED BY <1>2, FS_CardinalityType

LEMMA ReplayInit == Init => ReplayInv
<1> SUFFICES ASSUME Init PROVE ReplayInv
  OBVIOUS
<1>1. \A m \in Message : LivesOf(m) = {}
  BY DEF Init, LivesOf
<1>2. IsFiniteSet(rows) /\ Cardinality({}) = 0
  BY FS_EmptySet DEF Init
<1>3. \A m \in Message : Cardinality(LivesOf(m)) = 0
  BY <1>1, <1>2
<1>4. unclean = 0 /\ pc = "down"
  BY DEF Init
<1> QED BY <1>2, <1>3, <1>4 DEF ReplayInv

(* A step that writes no row and takes no position back.                   *)
LEMMA ReplayQuiet ==
    ASSUME TypeInv, ReplayInv, rows' = rows, unclean' = unclean,
           \A t \in Topics : position'[t] >= position[t],
           position' \in [Topics -> Nat],
           pc' = "checking" => pc = "checking" /\ cur' = cur /\ life' = life
    PROVE  ReplayInv'
<1>1. ASSUME NEW m \in Message
      PROVE  /\ LivesOf(m)' = LivesOf(m)
             /\ position'[m[1]] < m[2] => position[m[1]] < m[2]
  <2>1. m[1] \in Topics /\ m[2] \in Nat
    BY DEF Message
  <2>2. position[m[1]] \in Nat /\ position'[m[1]] \in Nat
    BY <2>1 DEF TypeInv, TypeOK
  <2> QED BY <2>1, <2>2 DEF LivesOf
<1>2. ASSUME pc' = "checking"
      PROVE  /\ cur'[2] <= position'[cur'[1]]
             /\ LivesOf(cur)' \ {life'} = LivesOf(cur) \ {life}
  <2>1. cur \in Message /\ cur' = cur /\ life' = life /\ cur[2] <= position[cur[1]]
    BY <1>2 DEF TypeInv, CheckingHasWork, ReplayInv
  <2>2. cur[1] \in Topics /\ cur[2] \in Nat
    BY <2>1 DEF Message
  <2>3. position[cur[1]] \in Nat /\ position'[cur[1]] \in Nat
    BY <2>2 DEF TypeInv, TypeOK
  <2> QED BY <2>1, <2>2, <2>3 DEF LivesOf
<1> QED BY <1>1, <1>2 DEF ReplayInv

(* The end of a life: it committed its positions or is counted.            *)
LEMMA ReplayAtEnd ==
    ASSUME TypeInv, ReplayInv, EndLife,
           (position' = position /\ unclean' = unclean) \/ unclean' = unclean + 1
    PROVE  ReplayInv'
<1>1. rows' = rows /\ pc' = "down"
  BY DEF EndLife
<1>2. ASSUME NEW m \in Message
      PROVE  /\ Cardinality(LivesOf(m)') <= 1 + unclean'
             /\ position'[m[1]] < m[2] => Cardinality(LivesOf(m)') <= unclean'
  <2>1. LivesOf(m)' = LivesOf(m)
    BY <1>1 DEF LivesOf
  <2>2. /\ Cardinality(LivesOf(m)) <= 1 + unclean
        /\ position[m[1]] < m[2] => Cardinality(LivesOf(m)) <= unclean
        /\ Cardinality(LivesOf(m)) \in Nat
    BY LivesFinite DEF ReplayInv
  <2>3. unclean \in Nat
    BY DEF TypeInv, TypeOK
  <2> QED BY <2>1, <2>2, <2>3
<1> QED BY <1>1, <1>2 DEF ReplayInv

(* A row of cur may be written.                                            *)
LEMMA ReplayWrite ==
    ASSUME TypeInv, ReplayInv, EndAnomaly,
           rows' \in {rows, rows \cup {<<cur, life, pending>>}}
    PROVE  ReplayInv'
<1> SUFFICES ASSUME NEW c, c = cur PROVE ReplayInv'
  OBVIOUS
<1>0. UNCHANGED <<position, unclean, life>> /\ pc = "checking"
  BY DEF EndAnomaly, kafka, history
<1>1. /\ c = cur /\ cur \in Message /\ cur[1] \in Topics /\ cur[2] \in Nat
      /\ cur[2] <= position[cur[1]] /\ position[cur[1]] \in Nat
      /\ Cardinality(LivesOf(c) \ {life}) <= unclean
      /\ unclean \in Nat /\ IsFiniteSet(rows)
  BY <1>0 DEF TypeInv, TypeOK, CheckingHasWork, ReplayInv, Message
<1>2. IsFiniteSet(rows')
  BY <1>1, FS_AddElement
<1>3. LivesOf(c)' \subseteq LivesOf(c) \cup {life}
  <2> SUFFICES ASSUME NEW q \in rows', q[1] = c
               PROVE  q[2] \in LivesOf(c) \cup {life}
    BY DEF LivesOf
  <2>1. CASE q \in rows
    BY <2>1 DEF LivesOf
  <2>2. CASE q = <<cur, life, pending>>
    BY <2>2, <1>1
  <2> QED BY <2>1, <2>2
<1>4. \A m \in Message : m # c => LivesOf(m)' = LivesOf(m)
  BY <1>1 DEF LivesOf
<1>5. LivesOf(c)' \ {life} \subseteq LivesOf(c) \ {life}
  BY <1>3
<1>6. /\ Cardinality(LivesOf(c)' \ {life}) <= unclean
      /\ Cardinality(LivesOf(c)') <= 1 + unclean
  <2>1. IsFiniteSet(LivesOf(c) \ {life})
    BY <1>1, LivesFinite, FS_Difference
  <2>2. /\ IsFiniteSet(LivesOf(c)' \ {life})
        /\ Cardinality(LivesOf(c)' \ {life}) <= Cardinality(LivesOf(c) \ {life})
    BY <1>5, <2>1, FS_Subset
  <2>3. /\ IsFiniteSet((LivesOf(c)' \ {life}) \cup {life})
        /\ Cardinality((LivesOf(c)' \ {life}) \cup {life})
              <= Cardinality(LivesOf(c)' \ {life}) + 1
        /\ Cardinality((LivesOf(c)' \ {life}) \cup {life}) \in Nat
    BY <2>2, AddOne
  <2>4. LivesOf(c)' \subseteq (LivesOf(c)' \ {life}) \cup {life}
    OBVIOUS
  <2>5. /\ IsFiniteSet(LivesOf(c)')
        /\ Cardinality(LivesOf(c)') <=
              Cardinality((LivesOf(c)' \ {life}) \cup {life})
    BY <2>3, <2>4, FS_Subset
  <2>6. /\ Cardinality(LivesOf(c)' \ {life}) \in Nat
        /\ Cardinality(LivesOf(c) \ {life}) \in Nat
        /\ Cardinality(LivesOf(c)') \in Nat
    BY <2>1, <2>2, <2>5, FS_CardinalityType
  <2> QED BY <1>1, <2>2, <2>3, <2>5, <2>6
<1>7. ASSUME NEW m \in Message
      PROVE  /\ Cardinality(LivesOf(m)') <= 1 + unclean'
             /\ position'[m[1]] < m[2] => Cardinality(LivesOf(m)') <= unclean'
  <2>1. CASE m = c
    <3>1. ~(position[cur[1]] < cur[2])
      BY <1>1
    <3> QED BY <2>1, <3>1, <1>0, <1>6
  <2>2. CASE m # c
    BY <2>2, <1>0, <1>4 DEF ReplayInv
  <2> QED BY <2>1, <2>2
<1>8. ASSUME pc' = "checking"
      PROVE  /\ cur'[2] <= position'[cur'[1]]
             /\ Cardinality(LivesOf(c)' \ {life}) <= unclean
             /\ cur' = c
  BY <1>8, <1>0, <1>1, <1>6 DEF EndAnomaly, FlushTest
<1> QED BY <1>0, <1>2, <1>7, <1>8 DEF ReplayInv, LivesOf

LEMMA ReplayStep == TypeInv /\ TypeInv' /\ ReplayInv /\ [Next]_vars => ReplayInv'
<1> SUFFICES ASSUME TypeInv, TypeInv', ReplayInv, [Next]_vars PROVE ReplayInv'
  OBVIOUS
<1>0. /\ position \in [Topics -> Nat] /\ position' \in [Topics -> Nat]
      /\ \A t \in Topics : position[t] \in Nat /\ position[t] >= position[t]
  BY DEF TypeInv, TypeOK
<1>1. ASSUME NEW t \in Topics, NEW k \in Kinds, Produce(t, k) PROVE ReplayInv'
  BY <1>1, <1>0, ReplayQuiet DEF Produce, loop, sinks, history
<1>2. CASE Signal
  BY <1>2, <1>0, ReplayQuiet DEF Signal, kafka, sinks
<1>3. CASE IntervalElapses
  BY <1>3, <1>0, ReplayQuiet DEF IntervalElapses, kafka, sinks, history
<1>4. CASE AutoCommit
  BY <1>4, <1>0, ReplayQuiet DEF AutoCommit, loop, sinks, history
<1>5. CASE Kill
  BY <1>5, ReplayAtEnd DEF Kill
<1>6. CASE Start
  BY <1>6, <1>0, ReplayQuiet DEF Start, kafka, sinks
<1>7. CASE PgReady \/ Connect \/ StopBeforeConnect
  BY <1>7, <1>0, ReplayQuiet
  DEF PgReady, Connect, StopBeforeConnect, kafka, sinks, history
<1>8. CASE PgUnavailable
  BY <1>8, ReplayAtEnd DEF PgUnavailable
<1>9. ASSUME NEW t \in Topics, Take(t)
      PROVE  \A u \in Topics : position'[u] >= position[u]
  BY <1>9, <1>0 DEF Take
<1>10. ASSUME NEW t \in Topics, TakeAndStop(t) PROVE ReplayInv'
  BY <1>10, <1>0, <1>9, ReplayQuiet DEF TakeAndStop, sinks
<1>11. ASSUME NEW t \in Topics, TakeBad(t) PROVE ReplayInv'
  BY <1>11, <1>0, <1>9, ReplayQuiet DEF TakeBad, loop, sinks
<1>12. ASSUME NEW t \in Topics, TakePoison(t) PROVE ReplayInv'
  BY <1>12, <1>0, <1>9, ReplayQuiet DEF TakePoison, sinks, history
<1>13. ASSUME NEW t \in Topics, TakeReading(t) PROVE ReplayInv'
  <2>1. /\ rows' = rows /\ unclean' = unclean /\ life' = life
        /\ Take(t) /\ cur' \in {<<>>, NextOf(t)}
        /\ pc' = "checking" => cur' = NextOf(t)
    BY <1>13 DEF TakeReading, sinks, history, FlushTest
  <2>2. NextOf(t) \in Message /\ NextOf(t)[1] = t /\ NextOf(t)[2] = position[t] + 1
    BY NextOfMessage DEF NextOf, TypeInv
  <2>3. position'[t] = position[t] + 1 /\ \A u \in Topics : position'[u] >= position[u]
    BY <2>1, <1>0, <1>9 DEF Take
  <2>4. ASSUME NEW m \in Message
        PROVE  position'[m[1]] < m[2] => position[m[1]] < m[2]
    <3>1. m[1] \in Topics /\ m[2] \in Nat
      BY DEF Message
    <3> QED BY <3>1, <2>3, <1>0
  <2>5. \A m \in Message : LivesOf(m)' = LivesOf(m)
    BY <2>1 DEF LivesOf
  <2>6. ASSUME pc' = "checking"
        PROVE  /\ cur'[2] <= position'[cur'[1]]
               /\ Cardinality(LivesOf(cur)' \ {life'}) <= unclean'
    <3>1. cur' = NextOf(t) /\ position[t] < NextOf(t)[2]
      BY <2>6, <2>1, <2>2, <1>0
    <3>2. Cardinality(LivesOf(NextOf(t))) <= unclean
      BY <3>1, <2>2 DEF ReplayInv
    <3>3. /\ IsFiniteSet(LivesOf(NextOf(t)))
          /\ Cardinality(LivesOf(NextOf(t))) \in Nat
      BY LivesFinite DEF ReplayInv
    <3>4. /\ Cardinality(LivesOf(NextOf(t)) \ {life})
                <= Cardinality(LivesOf(NextOf(t)))
          /\ Cardinality(LivesOf(NextOf(t)) \ {life}) \in Nat
      <4>1. LivesOf(NextOf(t)) \ {life} \subseteq LivesOf(NextOf(t))
        OBVIOUS
      <4> QED BY <4>1, <3>3, FS_Subset, FS_CardinalityType
    <3>5. unclean \in Nat
      BY DEF TypeInv, TypeOK
    <3>6. LivesOf(cur)' = LivesOf(NextOf(t))
      BY <2>1, <3>1 DEF LivesOf
    <3> QED BY <3>1, <3>2, <3>3, <3>4, <3>5, <3>6, <2>1, <2>2, <2>3, <1>0
  <2> QED BY <2>1, <2>4, <2>5, <2>6 DEF ReplayInv
<1>14. CASE WriteAnomaly \/ AnomalyLost
  BY <1>14, ReplayWrite DEF WriteAnomaly, AnomalyLost
<1>15. CASE FlushSucceeds \/ FlushFails
  BY <1>15, <1>0, ReplayQuiet DEF FlushSucceeds, FlushFails, EndFlush, kafka
<1>16. CASE StopConsumer
  BY <1>16, ReplayAtEnd DEF StopConsumer
<1>17. CASE UNCHANGED vars
  BY <1>17, <1>0, ReplayQuiet DEF vars, kafka, loop, sinks, history
<1> QED
  BY <1>1, <1>2, <1>3, <1>4, <1>5, <1>6, <1>7, <1>8, <1>10, <1>11, <1>12,
     <1>13, <1>14, <1>15, <1>16, <1>17
  DEF Next, Iterate, Persist, Flush

(* A message has anomaly rows of at most one life more than there were     *)
(* lives that ended without committing (main.py 99, 178; pg_writer.py      *)
(* 42-46).                                                                 *)
THEOREM ReplayIsBounded == Spec => []ReplayBounded
<1>1. TypeInv /\ ReplayInv => ReplayBounded
  <2> SUFFICES ASSUME TypeInv, ReplayInv, NEW m \in {r[1] : r \in rows}
               PROVE  Cardinality(LivesOf(m)) <= 1 + unclean
    BY DEF ReplayBounded, LivesOf
  <2>1. m \in Message
    BY DEF TypeInv, TypeOK
  <2> QED BY <2>1 DEF ReplayInv
<1> QED
  BY <1>1, TypeInit, TypeStep, ReplayInit, ReplayStep, PTL DEF Spec
-----------------------------------------------------------------------------
(***************************************************************************)
(* Accounting.  What this life holds and dropped lies at or below its      *)
(* positions, so the next message is neither in the batch nor dropped      *)
(* before; and a life starts with nothing held and nothing counted.        *)
(***************************************************************************)
DroppedOf(t) == {s \in swallowed : s[1][1] = t /\ s[2] = life}

AccountInv ==
    /\ Accounting
    /\ \A m \in batch : m[2] <= position[m[1]]
    /\ \A s \in swallowed :
          /\ s[2] <= life
          /\ pc # "down" /\ s[2] = life => s[1][2] <= position[s[1][1]]
    /\ pc \in {"down", "init", "connecting"} => position = base
    /\ pc = "down" => processed = Zero /\ errors = Zero

LEMMA PartsFinite ==
    ASSUME TypeInv, NEW t \in Topics
    PROVE  /\ IsFiniteSet(Of(t, batch)) /\ Cardinality(Of(t, batch)) \in Nat
           /\ IsFiniteSet(DroppedOf(t)) /\ Cardinality(DroppedOf(t)) \in Nat
<1>1. Of(t, batch) \subseteq batch /\ DroppedOf(t) \subseteq swallowed
  BY DEF Of, DroppedOf
<1>2. IsFiniteSet(batch) /\ IsFiniteSet(swallowed)
  BY DEF TypeInv, TypeOK
<1> QED BY <1>1, <1>2, FS_Subset, FS_CardinalityType

LEMMA AccountInit == Init => AccountInv
BY DEF Init, AccountInv, Accounting

(* A step that takes nothing, drops nothing and counts nothing.            *)
LEMMA AccountQuiet ==
    ASSUME AccountInv,
           UNCHANGED <<position, base, processed, errors, batch, swallowed, life>>,
           pc' = "down" <=> pc = "down",
           pc' \in {"init", "connecting"} => pc \in {"init", "connecting"}
    PROVE  AccountInv'
BY DEF AccountInv, Accounting

LEMMA AccountAtEnd ==
    ASSUME AccountInv, EndLife, position' = base'
    PROVE  AccountInv'
BY DEF AccountInv, Accounting, EndLife

(* A message of t is taken: it is counted as an error, joins the batch, or *)
(* is dropped.                                                             *)
LEMMA AccountTake ==
    ASSUME TypeInv, AccountInv, NEW t \in Topics, Take(t),
           UNCHANGED <<processed, life>>,
           pc' \notin {"down", "init", "connecting"},
           \/ /\ errors' = [errors EXCEPT ![t] = @ + 1]
              /\ UNCHANGED <<batch, swallowed>>
           \/ /\ batch' = batch \cup {NextOf(t)}
              /\ UNCHANGED <<errors, swallowed>>
           \/ /\ swallowed' = swallowed \cup {<<NextOf(t), life>>}
              /\ UNCHANGED <<errors, batch>>
    PROVE  AccountInv'
<1>1. /\ pc = "waiting" /\ position' = [position EXCEPT ![t] = @ + 1]
      /\ position \in [Topics -> Nat] /\ base' = base
      /\ base \in [Topics -> Nat] /\ processed \in [Topics -> Nat]
      /\ errors \in [Topics -> Nat] /\ life \in Nat
      /\ batch \subseteq Message /\ swallowed \subseteq Message \X Nat
  BY DEF Take, TypeInv, TypeOK
<1>2. /\ NextOf(t) \in Message
      /\ NextOf(t)[1] = t /\ NextOf(t)[2] = position[t] + 1
  BY NextOfMessage DEF NextOf, TypeInv
<1>3. \A u \in Topics : position[u] \in Nat /\ position'[u] \in Nat
                        /\ position[u] <= position'[u]
  BY <1>1
<1>4. ASSUME NEW m \in batch' PROVE m[2] <= position'[m[1]]
  <2>1. CASE m \in batch
    <3>1. m[1] \in Topics /\ m[2] \in Nat /\ m[2] <= position[m[1]]
      BY <2>1, <1>1 DEF AccountInv, Message
    <3> QED BY <3>1, <1>3
  <2>2. CASE m = NextOf(t)
    BY <2>2, <1>1, <1>2
  <2> QED BY <2>1, <2>2
<1>5. ASSUME NEW s \in swallowed'
      PROVE  s[2] <= life /\ (s[2] = life => s[1][2] <= position'[s[1][1]])
  <2>1. CASE s \in swallowed
    <3>1. /\ s[1][1] \in Topics /\ s[1][2] \in Nat /\ s[2] <= life
          /\ s[2] = life => s[1][2] <= position[s[1][1]]
      BY <2>1, <1>1 DEF AccountInv, Message
    <3> QED BY <3>1, <1>3
  <2>2. CASE s = <<NextOf(t), life>>
    <3>1. s[2] = life /\ s[1] = NextOf(t)
      BY <2>2
    <3> QED BY <3>1, <1>1, <1>2
  <2> QED BY <2>1, <2>2
<1>6. ASSUME NEW u \in Topics
      PROVE  position'[u] - base'[u] =
                processed'[u] + errors'[u] + Cardinality(Of(u, batch'))
                + Cardinality(DroppedOf(u)')
  <2>0. /\ position[u] - base[u] =
              processed[u] + errors[u] + Cardinality(Of(u, batch))
              + Cardinality(DroppedOf(u))
        /\ position'[u] = IF u = t THEN position[u] + 1 ELSE position[u]
        /\ Cardinality(Of(u, batch)) \in Nat /\ Cardinality(DroppedOf(u)) \in Nat
        /\ {position[u], base[u], processed[u], errors[u]} \subseteq Nat
    BY <1>1, PartsFinite DEF AccountInv, Accounting, DroppedOf
  <2>1. CASE /\ errors' = [errors EXCEPT ![t] = @ + 1]
             /\ UNCHANGED <<batch, swallowed>>
    <3>1. errors'[u] = IF u = t THEN errors[u] + 1 ELSE errors[u]
      BY <2>1, <1>1
    <3>2. Of(u, batch') = Of(u, batch) /\ DroppedOf(u)' = DroppedOf(u)
      BY <2>1 DEF Of, DroppedOf
    <3> QED BY <3>1, <3>2, <2>0, <1>1
  <2>2. CASE /\ batch' = batch \cup {NextOf(t)}
             /\ UNCHANGED <<errors, swallowed>>
    <3>1. Of(u, batch') = IF u = t THEN Of(u, batch) \cup {NextOf(t)} ELSE Of(u, batch)
      BY <2>2, <1>2 DEF Of
    <3>2. NextOf(t) \notin Of(u, batch)
      <4> SUFFICES ASSUME NextOf(t) \in batch PROVE FALSE
        BY DEF Of
      <4>1. position[t] + 1 <= position[t]
        BY <1>2 DEF AccountInv
      <4> QED BY <4>1, <1>3
    <3>3. Cardinality(Of(u, batch) \cup {NextOf(t)}) = Cardinality(Of(u, batch)) + 1
      BY <3>2, PartsFinite, FS_AddElement
    <3>4. DroppedOf(u)' = DroppedOf(u)
      BY <2>2 DEF DroppedOf
    <3> QED BY <3>1, <3>3, <3>4, <2>0, <2>2, <1>1
  <2>3. CASE /\ swallowed' = swallowed \cup {<<NextOf(t), life>>}
             /\ UNCHANGED <<errors, batch>>
    <3>1. DroppedOf(u)' = IF u = t THEN DroppedOf(u) \cup {<<NextOf(t), life>>}
                                   ELSE DroppedOf(u)
      <4>1. <<NextOf(t), life>>[1][1] = t /\ <<NextOf(t), life>>[2] = life
        BY <1>2
      <4> QED BY <4>1, <2>3 DEF DroppedOf
    <3>2. <<NextOf(t), life>> \notin DroppedOf(u)
      <4> SUFFICES ASSUME <<NextOf(t), life>> \in swallowed PROVE FALSE
        BY DEF DroppedOf
      <4>1. <<NextOf(t), life>>[1] = NextOf(t) /\ <<NextOf(t), life>>[2] = life
        OBVIOUS
      <4>2. position[t] + 1 <= position[t]
        BY <4>1, <1>1, <1>2 DEF AccountInv
      <4> QED BY <4>2, <1>3
    <3>3. Cardinality(DroppedOf(u) \cup {<<NextOf(t), life>>}) =
              Cardinality(DroppedOf(u)) + 1
      BY <3>2, PartsFinite, FS_AddElement
    <3>4. Of(u, batch') = Of(u, batch)
      BY <2>3
    <3> QED BY <3>1, <3>3, <3>4, <2>0, <2>3, <1>1
  <2> QED BY <2>1, <2>2, <2>3
<1> QED BY <1>4, <1>5, <1>6 DEF AccountInv, Accounting, DroppedOf

(* The batch is counted as a whole and emptied.                            *)
LEMMA AccountFlush ==
    ASSUME TypeInv, AccountInv, EndFlush,
           \/ processed' = Plus(processed, Count(batch)) /\ UNCHANGED errors
           \/ errors' = Plus(errors, Count(batch)) /\ UNCHANGED processed
    PROVE  AccountInv'
<1>1. /\ UNCHANGED <<position, base, swallowed, life>> /\ batch' = {}
      /\ pc \notin {"down", "init", "connecting"}
      /\ pc' \notin {"down", "init", "connecting"}
  BY DEF EndFlush, kafka
<1>2. ASSUME NEW t \in Topics
      PROVE  position[t] - base[t] =
                processed'[t] + errors'[t] + Cardinality(Of(t, batch'))
                + Cardinality(DroppedOf(t))
  <2>1. Of(t, batch') = {} /\ Cardinality({}) = 0
    BY <1>1, FS_EmptySet DEF Of
  <2>2. /\ position[t] - base[t] =
              processed[t] + errors[t] + Cardinality(Of(t, batch))
              + Cardinality(DroppedOf(t))
        /\ Cardinality(Of(t, batch)) \in Nat /\ Cardinality(DroppedOf(t)) \in Nat
        /\ {processed[t], errors[t]} \subseteq Nat
    BY <1>1, PartsFinite DEF AccountInv, Accounting, DroppedOf, TypeInv, TypeOK
  <2>3. \/ /\ processed'[t] = processed[t] + Cardinality(Of(t, batch))
           /\ errors'[t] = errors[t]
        \/ /\ errors'[t] = errors[t] + Cardinality(Of(t, batch))
           /\ processed'[t] = processed[t]
    BY DEF Plus, Count
  <2> QED BY <2>1, <2>2, <2>3
<1> QED BY <1>1, <1>2 DEF AccountInv, Accounting, DroppedOf

LEMMA AccountStep == TypeInv /\ BatchInv /\ AccountInv /\ [Next]_vars => AccountInv'
<1> SUFFICES ASSUME TypeInv, BatchInv, AccountInv, [Next]_vars PROVE AccountInv'
  OBVIOUS
<1>1. ASSUME NEW t \in Topics, NEW k \in Kinds, Produce(t, k) PROVE AccountInv'
  BY <1>1, AccountQuiet DEF Produce, loop, metrics, history
<1>2. CASE Signal
  BY <1>2, AccountQuiet DEF Signal, kafka, metrics
<1>3. CASE IntervalElapses
  BY <1>3, AccountQuiet DEF IntervalElapses, kafka, metrics, history
<1>4. CASE AutoCommit
  BY <1>4, AccountQuiet DEF AutoCommit, loop, metrics, history
<1>5. CASE Kill \/ StopConsumer
  BY <1>5, AccountAtEnd DEF Kill, StopConsumer
<1>6. CASE Start
  <2>1. /\ pc = "down" /\ pc' = "init" /\ life' = life + 1 /\ life \in Nat
        /\ UNCHANGED <<position, base, batch, processed, errors, swallowed>>
        /\ position = base /\ processed = Zero /\ errors = Zero /\ batch = {}
        /\ base \in [Topics -> Nat]
    BY <1>6 DEF Start, kafka, metrics, AccountInv, BatchInv, TypeInv, TypeOK
  <2>2. \A s \in swallowed : s[2] <= life /\ s[2] \in Nat
    BY DEF AccountInv, TypeInv, TypeOK
  <2>3. \A s \in swallowed : s[2] <= life' /\ s[2] # life'
    BY <2>1, <2>2
  <2>4. ASSUME NEW t \in Topics
        PROVE  /\ Of(t, batch') = {} /\ DroppedOf(t)' = {}
               /\ position'[t] - base'[t] = 0
               /\ processed'[t] = 0 /\ errors'[t] = 0
    BY <2>1, <2>3 DEF Of, DroppedOf, Zero
  <2>5. Accounting'
    <3>1. Cardinality({}) = 0
      BY FS_EmptySet
    <3>2. ASSUME NEW t \in Topics
          PROVE  position'[t] - base'[t] =
                    processed'[t] + errors'[t] + Cardinality(Of(t, batch'))
                    + Cardinality(DroppedOf(t)')
      BY <2>4, <3>1
    <3> QED BY <3>2 DEF Accounting, DroppedOf
  <2> QED BY <2>1, <2>3, <2>5 DEF AccountInv
<1>7. CASE PgReady \/ Connect \/ StopBeforeConnect
  BY <1>7, AccountQuiet
  DEF PgReady, Connect, StopBeforeConnect, kafka, metrics, history
<1>8. CASE PgUnavailable
  BY <1>8, AccountAtEnd DEF PgUnavailable, AccountInv
<1>9. ASSUME NEW t \in Topics, TakeAndStop(t) PROVE AccountInv'
  BY <1>9, AccountTake DEF TakeAndStop, metrics
<1>10. ASSUME NEW t \in Topics, TakeBad(t) PROVE AccountInv'
  BY <1>10, AccountTake DEF TakeBad, Take, loop
<1>11. ASSUME NEW t \in Topics, TakePoison(t) PROVE AccountInv'
  BY <1>11, AccountTake DEF TakePoison, metrics, history
<1>12. ASSUME NEW t \in Topics, TakeReading(t) PROVE AccountInv'
  BY <1>12, AccountTake DEF TakeReading, FlushTest, metrics, history
<1>13. CASE WriteAnomaly \/ AnomalyLost
  BY <1>13, AccountQuiet
  DEF WriteAnomaly, AnomalyLost, EndAnomaly, FlushTest, kafka, history
<1>14. CASE FlushSucceeds \/ FlushFails
  BY <1>14, AccountFlush DEF FlushSucceeds, FlushFails
<1>15. CASE UNCHANGED vars
  BY <1>15, AccountQuiet DEF vars, kafka, loop, metrics, history
<1> QED
  BY <1>1, <1>2, <1>3, <1>4, <1>5, <1>6, <1>7, <1>8, <1>9, <1>10, <1>11, <1>12,
     <1>13, <1>14, <1>15
  DEF Next, Iterate, Persist, Flush

(* Every message a life was handed is accounted for exactly once (main.py  *)
(* 119-175).                                                               *)
THEOREM AccountingHolds == Spec => []Accounting
<1>1. Init => BatchInv
  BY LossInit
<1>2. AccountInv => Accounting
  BY DEF AccountInv
<1> QED
  BY <1>1, <1>2, TypeInit, TypeStep, BatchStep, AccountInit, AccountStep, PTL
  DEF Spec

-----------------------------------------------------------------------------
(***************************************************************************)
(* MlConsumer implements DeliveryLog: its initial state is one of          *)
(* DeliveryLog's, and each of its steps is a step of DeliveryLog or leaves *)
(* what DeliveryLog sees unchanged.  The bound on what is held is the      *)
(* batch bound above.                                                      *)
(***************************************************************************)
Settled  == stored \cup reported \cup {s[1] : s \in swallowed}

LEMMA DeliveryInit == Init => Delivery!Init
BY DEF Init, Zero, Delivery!Init

(* What DeliveryLog sees.                                                  *)
Seen == <<log, position, committed, batch, stored, reported, swallowed, abends>>

LEMMA Stutter ==
    ASSUME UNCHANGED Seen
    PROVE  UNCHANGED Delivery!vars
BY DEF Seen, Delivery!vars

LEMMA FirstOfAdded ==
    ASSUME NEW S, NEW a, NEW b
    PROVE  {s[1] : s \in S \cup {<<a, b>>}} = {s[1] : s \in S} \cup {a}
<1>1. <<a, b>>[1] = a
  OBVIOUS
<1>2. ASSUME NEW s \in S \cup {<<a, b>>}
      PROVE  s[1] \in {r[1] : r \in S} \cup {a}
  BY <1>1
<1>3. ASSUME NEW s \in S
      PROVE  s[1] \in {r[1] : r \in S \cup {<<a, b>>}}
  OBVIOUS
<1>4. a \in {r[1] : r \in S \cup {<<a, b>>}}
  BY <1>1
<1> QED BY <1>2, <1>3, <1>4

LEMMA SameCardinality ==
    ASSUME NEW S
    PROVE  Delivery!Cardinality(S) = Cardinality(S)
BY DEF Delivery!Cardinality, Cardinality, Delivery!IsFiniteSet, IsFiniteSet

(* A message is handed out.                                                *)
LEMMA HandStep ==
    ASSUME TypeInv, BatchInv', NEW t \in Topics, Take(t), abends' = abends,
           \/ batch' = batch \cup {NextOf(t)} /\ Settled' = Settled
           \/ Settled' = Settled \cup {NextOf(t)} /\ batch' = batch
    PROVE  Delivery!Hand(t)
<1>1. /\ log' = log /\ committed' = committed
      /\ position' = [position EXCEPT ![t] = @ + 1]
      /\ position[t] < Len(log[t])
  BY DEF Take
<1>2. <<t, position'[t]>> = NextOf(t)
  BY <1>1 DEF NextOf, TypeInv, TypeOK
<1>3. Delivery!Cardinality(batch') <= BATCH_MAX_SIZE
  BY SameCardinality DEF BatchInv, BatchBounded
<1> QED BY <1>1, <1>2, <1>3 DEF Delivery!Hand, Settled

LEMMA EndStep ==
    ASSUME EndLife, committed' \in {committed, position},
           position' = committed', stored' \in {stored, stored \cup batch}
    PROVE  Delivery!End
<1>1. Settled' \in {Settled, Settled \cup batch}
  BY DEF EndLife, Settled
<1>2. log' = log /\ batch' = {}
      /\ abends' = IF batch = {} THEN abends ELSE abends + 1
  BY DEF EndLife
<1> QED BY <1>1, <1>2 DEF Delivery!End, Settled

LEMMA SettleStep ==
    ASSUME EndFlush, Settled' = Settled \cup batch
    PROVE  Delivery!Settle
BY DEF EndFlush, kafka, Settled, Delivery!Settle

(* Every step of the loop is a step of DeliveryLog or a stutter.           *)
LEMMA DeliveryStep ==
    TypeInv /\ BatchInv /\ BatchInv' /\ [Next]_vars
        => [Delivery!Next]_Delivery!vars
<1> SUFFICES ASSUME TypeInv, BatchInv, BatchInv', [Next]_vars
             PROVE  Delivery!Next \/ UNCHANGED Delivery!vars
  OBVIOUS
<1>1. ASSUME NEW t \in Topics, NEW k \in Kinds, Produce(t, k)
      PROVE  Delivery!Next
  <2>1. /\ log' = [log EXCEPT ![t] = Append(@, k)]
        /\ UNCHANGED <<position, committed, batch, stored, reported, swallowed,
                       abends>>
    BY <1>1 DEF Produce, loop, sinks, history
  <2>2. log \in [Topics -> Seq(Kinds)]
    BY DEF TypeInv, TypeOK
  <2>3. [u \in Topics |-> Len(log'[u])] =
            [[u \in Topics |-> Len(log[u])] EXCEPT ![t] = @ + 1]
    <3>1. log[t] \in Seq(Kinds) /\ Len(Append(log[t], k)) = Len(log[t]) + 1
      BY <2>2
    <3>2. ASSUME NEW u \in Topics
          PROVE  Len(log'[u]) = IF u = t THEN Len(log[u]) + 1 ELSE Len(log[u])
      BY <2>1, <2>2, <3>1
    <3> QED BY <3>2
  <2>4. Delivery!Produce(t)
    BY <2>1, <2>3 DEF Delivery!Produce
  <2> QED BY <2>4 DEF Delivery!Next
<1>2. CASE Signal
  BY <1>2, Stutter DEF Signal, kafka, sinks, Seen
<1>3. CASE IntervalElapses
  BY <1>3, Stutter DEF IntervalElapses, kafka, sinks, history, Seen
<1>4. CASE AutoCommit
  <2>1. Delivery!Commit
    BY <1>4 DEF AutoCommit, loop, sinks, history, Delivery!Commit
  <2> QED BY <2>1 DEF Delivery!Next
<1>5. CASE Kill
  <2>1. Delivery!End
    BY <1>5, EndStep DEF Kill, MayHaveStored
  <2> QED BY <2>1 DEF Delivery!Next
<1>6. CASE Start
  BY <1>6, Stutter DEF Start, kafka, sinks, Seen
<1>7. CASE PgReady
  BY <1>7, Stutter DEF PgReady, kafka, sinks, history, Seen
<1>8. CASE PgUnavailable
  <2>1. batch = {}
    BY <1>8 DEF PgUnavailable, BatchInv
  <2> QED BY <1>8, <2>1, Stutter DEF PgUnavailable, EndLife, Seen
<1>9. CASE Connect \/ StopBeforeConnect
  BY <1>9, Stutter DEF Connect, StopBeforeConnect, kafka, sinks, history, Seen
<1>10. ASSUME NEW t \in Topics, TakeAndStop(t) PROVE Delivery!Next
  <2>1. Settled' = Settled \cup {NextOf(t)}
    <3>1. swallowed' = swallowed \cup {<<NextOf(t), life>>}
          /\ stored' = stored /\ reported' = reported
      BY <1>10 DEF TakeAndStop, sinks
    <3>2. {s[1] : s \in swallowed'} = {s[1] : s \in swallowed} \cup {NextOf(t)}
      BY <3>1, FirstOfAdded
    <3> QED BY <3>1, <3>2 DEF Settled
  <2>2. Delivery!Hand(t)
    BY <1>10, <2>1, HandStep DEF TakeAndStop
  <2> QED BY <2>2 DEF Delivery!Next
<1>11. ASSUME NEW t \in Topics, TakeBad(t) PROVE Delivery!Next
  <2>1. Settled' = Settled \cup {NextOf(t)} /\ batch' = batch
    BY <1>11 DEF TakeBad, sinks, loop, Settled
  <2>2. Delivery!Hand(t)
    BY <1>11, <2>1, HandStep DEF TakeBad
  <2> QED BY <2>2 DEF Delivery!Next
<1>12. ASSUME NEW t \in Topics, TakePoison(t) \/ TakeReading(t)
       PROVE  Delivery!Next
  <2>1. Take(t) /\ batch' = batch \cup {NextOf(t)} /\ UNCHANGED <<sinks, history>>
    BY <1>12 DEF TakePoison, TakeReading
  <2>2. Settled' = Settled /\ abends' = abends
    BY <2>1 DEF sinks, history, Settled
  <2>3. Delivery!Hand(t)
    BY <2>1, <2>2, HandStep
  <2> QED BY <2>3 DEF Delivery!Next
<1>13. CASE WriteAnomaly \/ AnomalyLost
  BY <1>13, Stutter DEF WriteAnomaly, AnomalyLost, EndAnomaly, kafka, history, Seen
<1>14. CASE FlushSucceeds \/ FlushFails
  <2>1. Settled' = Settled \cup batch
    BY <1>14 DEF FlushSucceeds, FlushFails, EndFlush, MayHaveStored, Settled
  <2>2. Delivery!Settle
    BY <1>14, <2>1, SettleStep DEF FlushSucceeds, FlushFails
  <2> QED BY <2>2 DEF Delivery!Next
<1>15. CASE StopConsumer
  <2>1. Delivery!End
    BY <1>15, EndStep DEF StopConsumer
  <2> QED BY <2>1 DEF Delivery!Next
<1>16. CASE UNCHANGED vars
  BY <1>16, Stutter DEF vars, kafka, loop, sinks, history, Seen
<1> QED
  BY <1>1, <1>2, <1>3, <1>4, <1>5, <1>6, <1>7, <1>8, <1>9, <1>10, <1>11, <1>12,
     <1>13, <1>14, <1>15, <1>16
  DEF Next, Iterate, Persist, Flush

(* Whatever its topics, its batch size and its lives, the loop does with   *)
(* the messages only what DeliveryLog allows (main.py 86-178).             *)
THEOREM DeliveryImplemented == Spec => ImplementsDelivery
<1>1. Init => BatchInv
  BY LossInit
<1> QED
  BY <1>1, TypeInit, TypeStep, BatchStep, DeliveryInit, DeliveryStep, PTL
  DEF Spec, ImplementsDelivery, Delivery!Spec
=============================================================================
