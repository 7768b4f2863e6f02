------------------------------ MODULE BridgeProofs -----------------------------
(* Theorems about Bridge, for every number of messages.                     *)
EXTENDS Bridge, FiniteSetTheorems, TLAPS

LEMMA TypeInit == Init => TypeOK
BY BridgeAssumption DEF Init, TypeOK, Messages

LEMMA TypeStep == TypeOK /\ [Next]_vars => TypeOK'
<1> SUFFICES ASSUME TypeOK, [Next]_vars PROVE TypeOK'
  OBVIOUS
<1> USE BridgeAssumption DEF TypeOK
<1>1. ASSUME NEW k \in Kinds, OnMessage(k) PROVE TypeOK'
  <2>1. /\ arrived' = arrived + 1 /\ arrived' \in 0..MaxMessages
        /\ UNCHANGED <<metrics, network, accumulator, pc>>
    BY <1>1 DEF OnMessage
  <2>2. \A m \in 1..arrived' : m # arrived' => m \in Messages
    BY <2>1 DEF Messages
  <2>3. /\ kind' \in [1..arrived' -> Kinds]
        /\ stage' \in [1..arrived' -> Stages]
    <3>1. "scheduled" \in Stages
      BY DEF Stages
    <3> QED BY <1>1, <2>2, <3>1 DEF OnMessage
  <2> QED BY <2>1, <2>3 DEF Messages, metrics
<1>2. ASSUME NEW m \in Messages, NEW s \in Stages, Move(m, s),
             UNCHANGED <<arrived, kind>>
      PROVE  stage' \in [Messages' -> Stages] /\ kind' \in [Messages' -> Kinds]
  BY <1>2 DEF Move, Messages
<1>3. {"sending", "crashed", "buffered", "refused", "delivered", "expired",
       "dropped", "cancelled"} \subseteq Stages
  BY DEF Stages
<1>4. ASSUME NEW m \in Messages, Handle(m) PROVE TypeOK'
  BY <1>4, <1>2, <1>3
  DEF Handle, HandleValid, HandleInvalid, HandleAlien, Starts, metrics
<1>5. ASSUME NEW m \in Messages, Send(m) PROVE TypeOK'
  BY <1>5, <1>2, <1>3 DEF Send, SendReturns, SendRaises
<1>6. ASSUME NEW m \in Messages, NEW s \in {"delivered", "expired"}, Resolve(m, s)
      PROVE  TypeOK'
  BY <1>6, <1>2, <1>3 DEF Resolve, metrics
<1>7. CASE StopRequested \/ NetworkStopped \/ CloseAccumulator
  BY <1>7 DEF StopRequested, NetworkStopped, CloseAccumulator, metrics, Messages
<1>8. CASE Exit
  BY <1>8, <1>3 DEF Exit, CancelTasks, metrics, Messages
<1>9. CASE UNCHANGED vars
  BY <1>9 DEF vars, metrics, Messages
<1> QED BY <1>1, <1>4, <1>5, <1>6, <1>7, <1>8, <1>9 DEF Next

(* Every variable stays in its type (main.py 33-164, metrics.py 6-34).     *)
THEOREM TypeCorrect == Spec => []TypeOK
BY TypeInit, TypeStep, PTL DEF Spec

-----------------------------------------------------------------------------
(***************************************************************************)
(* CountersAccount.  The two sets it counts change by at most one message  *)
(* a step; that no message of an alien payload is ever sent has to be said *)
(* with it, because the code counts any payload that is not valid as one   *)
(* for the DLQ when its send fails.                                        *)
(***************************************************************************)
Uncounted == At("scheduled") \cup At("dropped") \cup At("crashed")
             \cup ValidAt("sending") \cup ValidAt("cancelled")
ForDlq    == UNION {InvalidAt(s) : s \in
                {"sending", "buffered", "delivered", "expired", "cancelled"}}

CountInv ==
    /\ CountersAccount
    /\ \A m \in At("sending") : kind[m] # "alien"

LEMMA SetsAre ==
    /\ \A m : m \in Uncounted <=>
          /\ m \in Messages
          /\ \/ stage[m] \in {"scheduled", "dropped", "crashed"}
             \/ stage[m] \in {"sending", "cancelled"} /\ kind[m] = "valid"
    /\ \A m : m \in ForDlq <=>
          /\ m \in Messages
          /\ stage[m] \in {"sending", "buffered", "delivered", "expired", "cancelled"}
          /\ kind[m] = "invalid"
BY DEF Uncounted, ForDlq, At, ValidAt, InvalidAt

LEMMA SetsFinite ==
    ASSUME TypeOK
    PROVE  /\ IsFiniteSet(Uncounted) /\ Cardinality(Uncounted) \in Nat
           /\ IsFiniteSet(ForDlq) /\ Cardinality(ForDlq) \in Nat
<1>1. IsFiniteSet(Messages)
  BY FS_Interval DEF Messages, TypeOK
<1>2. Uncounted \subseteq Messages /\ ForDlq \subseteq Messages
  BY SetsAre
<1> QED BY <1>1, <1>2, FS_Subset, FS_CardinalityType

LEMMA Plus1 ==
    ASSUME NEW S, IsFiniteSet(S), NEW x, x \notin S
    PROVE  Cardinality(S \cup {x}) = Cardinality(S) + 1
BY FS_AddElement

LEMMA Minus1 ==
    ASSUME NEW S, IsFiniteSet(S), NEW x \in S
    PROVE  Cardinality(S \ {x}) = Cardinality(S) - 1
BY FS_RemoveElement

(* What a step does to the sets when it moves one message.                 *)
LEMMA MoveSets ==
    ASSUME TypeOK, NEW m \in Messages, NEW s \in Stages, Move(m, s),
           UNCHANGED <<arrived, kind>>
    PROVE  /\ Uncounted' =
                 IF \/ s \in {"scheduled", "dropped", "crashed"}
                    \/ s \in {"sending", "cancelled"} /\ kind[m] = "valid"
                 THEN Uncounted \cup {m} ELSE Uncounted \ {m}
           /\ ForDlq' =
                 IF /\ s \in {"sending", "buffered", "delivered", "expired", "cancelled"}
                    /\ kind[m] = "invalid"
                 THEN ForDlq \cup {m} ELSE ForDlq \ {m}
<1>1. /\ Messages' = Messages /\ kind' = kind
      /\ \A n \in Messages : stage'[n] = IF n = m THEN s ELSE stage[n]
  BY DEF Messages, Move, TypeOK
<1>2. /\ \A n : n \in Uncounted' <=>
            /\ n \in Messages'
            /\ \/ stage'[n] \in {"scheduled", "dropped", "crashed"}
               \/ stage'[n] \in {"sending", "cancelled"} /\ kind'[n] = "valid"
      /\ \A n : n \in ForDlq' <=>
            /\ n \in Messages'
            /\ stage'[n] \in {"sending", "buffered", "delivered", "expired", "cancelled"}
            /\ kind'[n] = "invalid"
  BY DEF Uncounted, ForDlq, At, ValidAt, InvalidAt
<1>3. ASSUME NEW n
      PROVE  n \in Uncounted' <=>
                n \in IF \/ s \in {"scheduled", "dropped", "crashed"}
                         \/ s \in {"sending", "cancelled"} /\ kind[m] = "valid"
                      THEN Uncounted \cup {m} ELSE Uncounted \ {m}
  BY <1>1, <1>2, SetsAre
<1>4. ASSUME NEW n
      PROVE  n \in ForDlq' <=>
                n \in IF /\ s \in {"sending", "buffered", "delivered", "expired", "cancelled"}
                         /\ kind[m] = "invalid"
                      THEN ForDlq \cup {m} ELSE ForDlq \ {m}
  BY <1>1, <1>2, SetsAre
<1> QED BY <1>3, <1>4

LEMMA CountStep == TypeOK /\ CountInv /\ [Next]_vars => CountInv'
<1> SUFFICES ASSUME TypeOK, CountInv, [Next]_vars
             PROVE  CountersAccount' /\ \A m \in At("sending")' : kind'[m] # "alien"
  BY DEF CountInv
<1> DEFINE Account == /\ arrived = valid + invalid + kafka_errors + Cardinality(Uncounted)
                      /\ received = valid + invalid
                      /\ invalid = dlq_errors + Cardinality(ForDlq)
<1>1. /\ Account /\ \A m \in At("sending") : kind[m] # "alien"
      /\ {arrived, received, valid, invalid, dlq_errors, kafka_errors} \subseteq Nat
      /\ IsFiniteSet(Uncounted) /\ Cardinality(Uncounted) \in Nat
      /\ IsFiniteSet(ForDlq) /\ Cardinality(ForDlq) \in Nat
  BY SetsFinite DEF CountInv, CountersAccount, Uncounted, ForDlq, TypeOK
<1>2. ASSUME Account' PROVE CountersAccount'
  BY <1>2 DEF CountersAccount, Uncounted, ForDlq
<1>3. ASSUME NEW k \in Kinds, OnMessage(k)
      PROVE  Account' /\ \A m \in At("sending")' : kind'[m] # "alien"
  <2>1. /\ arrived' = arrived + 1 /\ arrived \in Nat
        /\ Messages' = Messages \cup {arrived + 1} /\ arrived + 1 \notin Messages
        /\ UNCHANGED metrics
    <3>1. arrived \in Nat /\ arrived' = arrived + 1 /\ UNCHANGED metrics
      BY <1>3, <1>1 DEF OnMessage
    <3>2. 1..(arrived + 1) = (1..arrived) \cup {arrived + 1}
      BY <3>1
    <3> QED BY <3>1, <3>2 DEF Messages
  <2>2. \A m \in Messages' :
           /\ kind'[m] = IF m = arrived + 1 THEN k ELSE kind[m]
           /\ stage'[m] = IF m = arrived + 1 THEN "scheduled" ELSE stage[m]
    BY <1>3, <2>1 DEF OnMessage, Messages
  <2>3. /\ \A n : n \in Uncounted' <=>
              /\ n \in Messages'
              /\ \/ stage'[n] \in {"scheduled", "dropped", "crashed"}
                 \/ stage'[n] \in {"sending", "cancelled"} /\ kind'[n] = "valid"
        /\ \A n : n \in ForDlq' <=>
              /\ n \in Messages'
              /\ stage'[n] \in {"sending", "buffered", "delivered", "expired", "cancelled"}
              /\ kind'[n] = "invalid"
    BY DEF Uncounted, ForDlq, At, ValidAt, InvalidAt
  <2>4. Uncounted' = Uncounted \cup {arrived + 1} /\ arrived + 1 \notin Uncounted
    <3>1. ASSUME NEW n PROVE n \in Uncounted' <=> n \in Uncounted \cup {arrived + 1}
      BY <2>1, <2>2, <2>3, SetsAre
    <3> QED BY <3>1, <2>1, SetsAre
  <2>5. ForDlq' = ForDlq
    <3>1. ASSUME NEW n PROVE n \in ForDlq' <=> n \in ForDlq
      BY <2>1, <2>2, <2>3, SetsAre
    <3> QED BY <3>1
  <2>6. Cardinality(Uncounted') = Cardinality(Uncounted) + 1
    BY <2>4, <1>1, Plus1
  <2> QED BY <2>1, <2>2, <2>5, <2>6, <1>1 DEF metrics, At
<1>4. ASSUME NEW m \in Messages, NEW s \in Stages, Move(m, s),
             UNCHANGED <<arrived, kind>>,
             s = "sending" => kind[m] # "alien"
      PROVE  \A n \in At("sending")' : kind'[n] # "alien"
  BY <1>4, <1>1 DEF Move, At, Messages, TypeOK
<1>5. {"sending", "crashed", "buffered", "refused", "delivered", "expired"}
         \subseteq Stages
  BY DEF Stages
<1>6. ASSUME NEW m \in Messages, HandleValid(m) \/ HandleAlien(m)
      PROVE  Account' /\ \A n \in At("sending")' : kind'[n] # "alien"
  <2>1. /\ stage[m] = "scheduled" /\ UNCHANGED <<arrived, kind, metrics>>
        /\ \/ kind[m] = "valid" /\ Move(m, "sending")
           \/ kind[m] = "alien" /\ Move(m, "crashed")
    BY <1>6 DEF HandleValid, HandleAlien, Starts, At
  <2>2. m \in Uncounted /\ m \notin ForDlq
    BY <2>1, SetsAre
  <2>3. Uncounted' = Uncounted \cup {m} /\ ForDlq' = ForDlq \ {m}
    BY <2>1, <1>5, MoveSets
  <2>4. Uncounted' = Uncounted /\ ForDlq' = ForDlq
    BY <2>2, <2>3
  <2>5. Account'
    BY <2>1, <2>4, <1>1 DEF metrics
  <2> QED BY <2>1, <2>5, <1>4, <1>5
<1>7. ASSUME NEW m \in Messages, HandleInvalid(m)
      PROVE  Account' /\ \A n \in At("sending")' : kind'[n] # "alien"
  <2>1. /\ stage[m] = "scheduled" /\ kind[m] = "invalid" /\ Move(m, "sending")
        /\ UNCHANGED <<arrived, kind, valid, dlq_errors, kafka_errors>>
        /\ received' = received + 1 /\ invalid' = invalid + 1
    BY <1>7 DEF HandleInvalid, Starts, At
  <2>2. m \in Uncounted /\ m \notin ForDlq
    BY <2>1, SetsAre
  <2>3. Uncounted' = Uncounted \ {m} /\ ForDlq' = ForDlq \cup {m}
    BY <2>1, <1>5, MoveSets
  <2>4. /\ Cardinality(Uncounted') = Cardinality(Uncounted) - 1
        /\ Cardinality(ForDlq') = Cardinality(ForDlq) + 1
    BY <2>2, <2>3, <1>1, Plus1, Minus1
  <2>5. Account'
    BY <2>1, <2>4, <1>1
  <2> QED BY <2>1, <2>5, <1>4, <1>5
<1>8. ASSUME NEW m \in Messages, SendReturns(m)
      PROVE  Account' /\ \A n \in At("sending")' : kind'[n] # "alien"
  <2>1. /\ stage[m] = "sending" /\ Move(m, "buffered")
        /\ UNCHANGED <<arrived, kind, invalid, dlq_errors, kafka_errors>>
        /\ IF kind[m] = "valid"
           THEN received' = received + 1 /\ valid' = valid + 1
           ELSE UNCHANGED <<received, valid>>
    BY <1>8 DEF SendReturns, At
  <2>2. kind[m] \in {"valid", "invalid"}
    BY <2>1, <1>1 DEF TypeOK, Kinds, At
  <2>3. /\ Uncounted' = Uncounted \ {m}
        /\ ForDlq' = IF kind[m] = "invalid" THEN ForDlq \cup {m} ELSE ForDlq \ {m}
    BY <2>1, <1>5, MoveSets
  <2>4. CASE kind[m] = "valid"
    <3>1. m \in Uncounted /\ m \notin ForDlq
      BY <2>1, <2>4, SetsAre
    <3>2. Cardinality(Uncounted') = Cardinality(Uncounted) - 1 /\ ForDlq' = ForDlq
      BY <2>3, <2>4, <3>1, <1>1, Minus1
    <3> QED BY <2>1, <2>4, <3>2, <1>1, <1>4, <1>5
  <2>5. CASE kind[m] = "invalid"
    <3>1. m \notin Uncounted /\ m \in ForDlq
      BY <2>1, <2>5, SetsAre
    <3>2. Uncounted' = Uncounted /\ ForDlq' = ForDlq
      BY <2>3, <2>5, <3>1
    <3> QED BY <2>1, <2>5, <3>2, <1>1, <1>4, <1>5
  <2> QED BY <2>2, <2>4, <2>5
<1>9. ASSUME NEW m \in Messages, SendRaises(m)
      PROVE  Account' /\ \A n \in At("sending")' : kind'[n] # "alien"
  <2>1. /\ stage[m] = "sending" /\ Move(m, "refused")
        /\ UNCHANGED <<arrived, kind, received, valid, invalid>>
        /\ IF kind[m] = "valid"
           THEN kafka_errors' = kafka_errors + 1 /\ UNCHANGED dlq_errors
           ELSE dlq_errors' = dlq_errors + 1 /\ UNCHANGED kafka_errors
    BY <1>9 DEF SendRaises, At
  <2>2. kind[m] \in {"valid", "invalid"}
    BY <2>1, <1>1 DEF TypeOK, Kinds, At
  <2>3. Uncounted' = Uncounted \ {m} /\ ForDlq' = ForDlq \ {m}
    BY <2>1, <1>5, MoveSets
  <2>4. CASE kind[m] = "valid"
    <3>1. m \in Uncounted /\ m \notin ForDlq
      BY <2>1, <2>4, SetsAre
    <3>2. Cardinality(Uncounted') = Cardinality(Uncounted) - 1 /\ ForDlq' = ForDlq
      BY <2>3, <2>4, <3>1, <1>1, Minus1
    <3> QED BY <2>1, <2>4, <3>2, <1>1, <1>4, <1>5
  <2>5. CASE kind[m] = "invalid"
    <3>1. m \notin Uncounted /\ m \in ForDlq
      BY <2>1, <2>5, SetsAre
    <3>2. Cardinality(ForDlq') = Cardinality(ForDlq) - 1 /\ Uncounted' = Uncounted
      BY <2>3, <2>5, <3>1, <1>1, Minus1
    <3> QED BY <2>1, <2>5, <3>2, <1>1, <1>4, <1>5
  <2> QED BY <2>2, <2>4, <2>5
<1>10. ASSUME NEW m \in Messages, NEW s \in {"delivered", "expired"}, Resolve(m, s)
       PROVE  Account' /\ \A n \in At("sending")' : kind'[n] # "alien"
  <2>1. /\ stage[m] = "buffered" /\ Move(m, s) /\ UNCHANGED <<arrived, kind, metrics>>
    BY <1>10 DEF Resolve, At
  <2>2. m \notin Uncounted /\ (m \in ForDlq <=> kind[m] = "invalid")
    BY <2>1, SetsAre
  <2>3. /\ Uncounted' = Uncounted \ {m}
        /\ ForDlq' = IF kind[m] = "invalid" THEN ForDlq \cup {m} ELSE ForDlq \ {m}
    BY <2>1, <1>5, MoveSets
  <2>4. Uncounted' = Uncounted /\ ForDlq' = ForDlq
    BY <2>2, <2>3
  <2> QED BY <2>1, <2>4, <1>1, <1>4, <1>5 DEF metrics
<1>11. CASE StopRequested \/ NetworkStopped \/ CloseAccumulator \/ UNCHANGED vars
  <2>1. UNCHANGED <<arrived, kind, stage, metrics>>
    BY <1>11 DEF StopRequested, NetworkStopped, CloseAccumulator, vars
  <2>2. Uncounted' = Uncounted /\ ForDlq' = ForDlq /\ At("sending")' = At("sending")
    BY <2>1 DEF Uncounted, ForDlq, At, ValidAt, InvalidAt, Messages
  <2> QED BY <2>1, <2>2, <1>1, <1>2 DEF metrics
<1>12. CASE Exit
  <2>1. /\ UNCHANGED <<arrived, kind, metrics>> /\ Messages' = Messages
        /\ \A n \in Messages : stage'[n] = CASE stage[n] = "scheduled" -> "dropped"
                                              [] stage[n] = "sending"   -> "cancelled"
                                              [] OTHER                  -> stage[n]
    BY <1>12 DEF Exit, CancelTasks, Messages
  <2>2. \A n \in Messages : stage[n] = "sending" => kind[n] \in {"valid", "invalid"}
    BY <1>1 DEF At, TypeOK, Kinds
  <2>3. /\ \A n : n \in Uncounted' <=>
              /\ n \in Messages'
              /\ \/ stage'[n] \in {"scheduled", "dropped", "crashed"}
                 \/ stage'[n] \in {"sending", "cancelled"} /\ kind'[n] = "valid"
        /\ \A n : n \in ForDlq' <=>
              /\ n \in Messages'
              /\ stage'[n] \in {"sending", "buffered", "delivered", "expired", "cancelled"}
              /\ kind'[n] = "invalid"
    BY DEF Uncounted, ForDlq, At, ValidAt, InvalidAt
  <2>4. ASSUME NEW n PROVE n \in Uncounted' <=> n \in Uncounted
    BY <2>1, <2>2, <2>3, SetsAre
  <2>5. ASSUME NEW n PROVE n \in ForDlq' <=> n \in ForDlq
    BY <2>1, <2>2, <2>3, SetsAre
  <2>6. Uncounted' = Uncounted /\ ForDlq' = ForDlq
    BY <2>4, <2>5
  <2>7. At("sending")' = {}
    BY <2>1 DEF At
  <2> QED BY <2>1, <2>6, <2>7, <1>1, <1>2 DEF metrics
<1> QED
  BY <1>2, <1>3, <1>6, <1>7, <1>8, <1>9, <1>10, <1>11, <1>12 DEF Next, Handle, Send

LEMMA CountInit == Init => CountInv
<1> SUFFICES ASSUME Init PROVE CountersAccount /\ At("sending") = {}
  BY DEF CountInv
<1>1. Messages = {}
  BY DEF Init, Messages
<1>2. Uncounted = {} /\ ForDlq = {} /\ At("sending") = {}
  BY <1>1, SetsAre DEF At
<1>3. Cardinality(Uncounted) = 0 /\ Cardinality(ForDlq) = 0
  BY <1>2, FS_EmptySet
<1>4. /\ arrived = valid + invalid + kafka_errors + Cardinality(Uncounted)
      /\ received = valid + invalid
      /\ invalid = dlq_errors + Cardinality(ForDlq)
  BY <1>3 DEF Init
<1> QED BY <1>2, <1>4 DEF CountersAccount, Uncounted, ForDlq

(* The counters account for every acknowledged message, to the end of the  *)
(* process (main.py 76-127, 159-164, metrics.py 28-34).                    *)
THEOREM CountersHold == Spec => []CountersAccount
<1>1. CountInv => CountersAccount
  BY DEF CountInv, CountersAccount
<1> QED BY <1>1, TypeInit, TypeStep, CountInit, CountStep, PTL DEF Spec
=============================================================================
