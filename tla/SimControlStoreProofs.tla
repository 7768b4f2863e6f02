-------------------------- MODULE SimControlStoreProofs -------------------------
(* Theorems about SimControlStore, for any sensors, rules and bounds.       *)
EXTENDS SimControlStore, FiniteSetTheorems, SequenceTheorems, TLAPS

(***************************************************************************)
(* An answered deletion is in memory and in sensors.json, or the file is   *)
(* torn and no startup reads it; the one in hand is in memory, and in the  *)
(* snapshot, and in the file once the first of its saves is over.          *)
(***************************************************************************)
Pending == {<<>>, <<"logs">>, <<"rules", "logs">>, Persisted, <<"config">>}

Shape ==
    /\ DOMAIN disk = Files
    /\ DOMAIN req = {"kind", "saves", "snap", "on"}
    /\ req.saves \in Pending
    /\ proc = "down" => req = NoRequest

Gone == deleted \ reseeded   \* the deletions no seed has undone

Lacks(gone, d) == gone \cap DOMAIN d = {}

InMemory   == Lacks(Gone, sensors) /\ Lacks(req.on, sensors)
OnDisk     == disk["sensors"] # Torn => Lacks(Gone, disk["sensors"][1])
InSnapshot ==
    req.saves = Persisted /\ req.snap # <<>> =>
        Lacks(Gone, req.snap[1]) /\ Lacks(req.on, req.snap[1])
Saved ==
    req.saves # Persisted /\ disk["sensors"] # Torn =>
        Lacks(req.on, disk["sensors"][1])

DeletedInv == Shape /\ InMemory /\ OnDisk /\ InSnapshot /\ Saved

LEMMA NoneSaved ==
    /\ DOMAIN NoRequest = {"kind", "saves", "snap", "on"}
    /\ NoRequest.saves = <<>> /\ NoRequest.snap = <<>> /\ NoRequest.on = {}
BY DEF NoRequest

(* The saves of a request, from the first to the last.                     *)
LEMMA Saves ==
    /\ <<>> # Persisted
    /\ \A saves \in Pending :
         saves # <<>> =>
           /\ Head(saves) \in Files
           /\ Head(saves) = "sensors" <=> saves = Persisted
           /\ Tail(saves) \in Pending /\ Tail(saves) # Persisted
<1>1. Len(<<>>) = 0 /\ Len(Persisted) = 3 /\ Head(Persisted) = "sensors"
      /\ Tail(Persisted) = <<"rules", "logs">>
  BY DEF Persisted
<1>2. /\ Head(<<"logs">>) = "logs" /\ Tail(<<"logs">>) = <<>>
      /\ Head(<<"config">>) = "config" /\ Tail(<<"config">>) = <<>>
      /\ Head(<<"rules", "logs">>) = "rules" /\ Tail(<<"rules", "logs">>) = <<"logs">>
  OBVIOUS
<1>3. /\ Len(<<"logs">>) = 1 /\ Len(<<"config">>) = 1 /\ Len(<<"rules", "logs">>) = 2
  OBVIOUS
<1>4. /\ <<>> # Persisted /\ <<"logs">> # Persisted
      /\ <<"config">> # Persisted /\ <<"rules", "logs">> # Persisted
  BY <1>1, <1>3
<1>5. "logs" # "sensors" /\ "config" # "sensors" /\ "rules" # "sensors"
  OBVIOUS
<1>6. ASSUME NEW saves \in Pending, saves # <<>>
      PROVE  /\ Head(saves) \in Files
             /\ Head(saves) = "sensors" <=> saves = Persisted
             /\ Tail(saves) \in Pending /\ Tail(saves) # Persisted
  <2>1. CASE saves = <<"logs">>
    BY <2>1, <1>2, <1>4, <1>5 DEF Files, Pending
  <2>2. CASE saves = <<"rules", "logs">>
    BY <2>2, <1>2, <1>4, <1>5 DEF Files, Pending
  <2>3. CASE saves = Persisted
    BY <2>3, <1>1, <1>4 DEF Files, Pending
  <2>4. CASE saves = <<"config">>
    BY <2>4, <1>2, <1>4, <1>5 DEF Files, Pending
  <2> QED BY <1>6, <2>1, <2>2, <2>3, <2>4 DEF Pending
<1> QED BY <1>4, <1>6

LEMMA DeletedInit == Init => DeletedInv
<1> SUFFICES ASSUME Init PROVE DeletedInv
  OBVIOUS
<1>1. DOMAIN disk = Files /\ req = NoRequest /\ deleted = {}
  BY DEF Init
<1>2. Shape
  BY <1>1, NoneSaved DEF Shape, Pending
<1> QED BY <1>1, <1>2, NoneSaved DEF DeletedInv, InMemory, OnDisk, InSnapshot, Saved, Lacks, Gone

(* A request changes the sensors and forgets no deletion but of the ones   *)
(* it adds; the one it deletes is not among the sensors.                   *)
LEMMA AcceptStep ==
    ASSUME DeletedInv, NEW kind, NEW saves \in Pending, NEW S,
           Accept(kind, saves, S), S # {} => saves = Persisted,
           Gone' \subseteq Gone, Lacks(Gone', sensors'), Lacks(S, sensors')
    PROVE  DeletedInv'
<1>1. /\ req' = [kind |-> kind, saves |-> saves, snap |-> <<>>, on |-> S]
      /\ proc = "up" /\ proc' = proc /\ disk' = disk
  BY DEF Accept
<1>2. Shape'
  BY <1>1 DEF DeletedInv, Shape
<1>3. InMemory' /\ OnDisk' /\ InSnapshot' /\ Saved'
  BY <1>1 DEF DeletedInv, InMemory, OnDisk, InSnapshot, Saved, Lacks
<1> QED BY <1>2, <1>3 DEF DeletedInv

(* The sensors keep their keys.                                            *)
LEMMA SameKeys ==
    ASSUME DeletedInv, DOMAIN sensors' = DOMAIN sensors,
           UNCHANGED <<proc, disk, req, Gone>>
    PROVE  DeletedInv'
BY DEF DeletedInv, Shape, InMemory, OnDisk, InSnapshot, Saved, Lacks

LEMMA RequestsStep == DeletedInv /\ Requests => DeletedInv'
<1> SUFFICES ASSUME DeletedInv, Requests PROVE DeletedInv'
  OBVIOUS
<1>0. Persisted \in Pending /\ <<>> \in Pending /\ <<"config">> \in Pending
      /\ Lacks(Gone, sensors)
  BY DEF Pending, DeletedInv, InMemory
<1>1. ASSUME NEW kind, NEW S, NEW v, AddSensors(kind, S, v) PROVE DeletedInv'
  <2>1. /\ Accept(kind, Persisted, {}) /\ deleted' = deleted \ S /\ reseeded' = reseeded
        /\ DOMAIN sensors' = DOMAIN sensors \cup S
    BY <1>1 DEF AddSensors, Accept
  <2> QED BY <2>1, <1>0, AcceptStep DEF Lacks, Gone
<1>2. ASSUME NEW kind, NEW new, SetSensors(kind, new), DOMAIN new = DOMAIN sensors
      PROVE  DeletedInv'
  <2>1. Accept(kind, Persisted, {}) /\ Gone' = Gone /\ sensors' = new
    BY <1>2 DEF SetSensors, Accept, Gone
  <2> QED BY <2>1, <1>2, <1>0, AcceptStep DEF Lacks
<1>3. ASSUME NEW kind, NEW new, SetRules(kind, new) PROVE DeletedInv'
  <2>1. Accept(kind, Persisted, {}) /\ Gone' = Gone /\ sensors' = sensors
    BY <1>3 DEF SetRules, Accept, Gone
  <2> QED BY <2>1, <1>0, AcceptStep DEF Lacks
<1>4. ASSUME NEW s \in Sensors, DeleteSensor(s) PROVE DeletedInv'
  <2>1. /\ Accept("delete", Persisted, {s}) /\ Gone' = Gone
        /\ DOMAIN sensors' = DOMAIN sensors \ {s}
    BY <1>4 DEF DeleteSensor, Accept, Gone
  <2> QED BY <2>1, <1>0, AcceptStep DEF Lacks
<1>5. ASSUME UpdateRaises PROVE DeletedInv'
  <2>1. /\ Accept("none", <<>>, {}) /\ Gone' = Gone
        /\ DOMAIN sensors' = DOMAIN sensors
    BY <1>5 DEF UpdateRaises, Accept, Gone
  <2> QED BY <2>1, <1>0, AcceptStep DEF Lacks
<1>6. ASSUME UpdateConfig PROVE DeletedInv'
  <2>1. Accept("config", <<"config">>, {}) /\ Gone' = Gone /\ sensors' = sensors
    BY <1>6 DEF UpdateConfig, Accept, Gone, store
  <2> QED BY <2>1, <1>0, AcceptStep DEF Lacks
<1>7. ASSUME NEW s \in Sensors, NEW v \in NewSensors PROVE UpdateSensor(s, v) => DeletedInv'
  BY <1>2 DEF UpdateSensor
<1>8. ASSUME NEW s \in Sensors PROVE ToggleSensor(s) => DeletedInv'
  BY <1>2 DEF ToggleSensor
<1>9. BulkEnable \/ BulkDisable \/ BulkReset => DeletedInv'
  BY <1>2 DEF BulkEnable, BulkDisable, BulkReset
<1>10. SeedSensors \/ (\E s \in Sensors, v \in NewSensors : CreateSensor(s, v)) => DeletedInv'
  BY <1>1 DEF SeedSensors, CreateSensor
<1>11. ASSUME NEW r \in Rules
       PROVE  DeleteRule(r) \/ (\E v \in Rule : CreateRule(r, v) \/ UpdateRule(r, v))
                => DeletedInv'
  BY <1>3 DEF DeleteRule, CreateRule, UpdateRule
<1> QED BY <1>4, <1>5, <1>6, <1>7, <1>8, <1>9, <1>10, <1>11 DEF Requests

LEMMA HandlerStep == DeletedInv /\ Handler => DeletedInv'
<1> SUFFICES ASSUME DeletedInv, Handler PROVE DeletedInv'
  OBVIOUS
<1>0. /\ DOMAIN disk = Files /\ "sensors" \in Files
      /\ DOMAIN req = {"kind", "saves", "snap", "on"} /\ req.saves \in Pending
      /\ proc = "down" => req = NoRequest
      /\ InMemory /\ OnDisk /\ InSnapshot /\ Saved
  BY DEF DeletedInv, Shape, Files
<1>1. CASE OpenFile
  <2>1. /\ req.saves # <<>> /\ UNCHANGED <<proc, sensors, Gone>>
        /\ req' = [req EXCEPT !.snap = <<Content(File, logs')>>]
        /\ disk' = [disk EXCEPT ![File] = Torn]
    BY <1>1 DEF OpenFile, Gone
  <2>2. File \in Files /\ (File = "sensors" <=> req.saves = Persisted)
    BY <2>1, <1>0, Saves DEF File
  <2>3. /\ DOMAIN req' = DOMAIN req /\ req'.saves = req.saves /\ req'.on = req.on
        /\ req'.snap = <<Content(File, logs')>>
    BY <2>1, <1>0
  <2>4. /\ DOMAIN disk' = Files
        /\ disk'["sensors"] = IF File = "sensors" THEN Torn ELSE disk["sensors"]
    BY <2>1, <1>0
  <2>5. Shape'
    BY <2>1, <2>3, <2>4, <1>0, NoneSaved DEF Shape
  <2>6. InSnapshot'
    <3>1. CASE req.saves = Persisted
      <4>1. Content(File, logs') = sensors
        BY <2>2, <3>1 DEF Content
      <4>2. req'.snap[1] = sensors
        BY <4>1, <2>3
      <4> QED BY <4>2, <2>1, <2>3, <1>0 DEF InSnapshot, InMemory
    <3>2. CASE req.saves # Persisted
      BY <2>3, <3>2 DEF InSnapshot
    <3> QED BY <3>1, <3>2
  <2>7. InMemory' /\ OnDisk' /\ Saved'
    BY <2>1, <2>3, <2>4, <1>0 DEF InMemory, OnDisk, Saved
  <2> QED BY <2>5, <2>6, <2>7 DEF DeletedInv
<1>2. CASE DumpFile
  <2>1. /\ req.saves # <<>> /\ req.snap # <<>> /\ UNCHANGED <<proc, sensors, Gone>>
        /\ disk' = [disk EXCEPT ![File] = req.snap]
        /\ req' = [req EXCEPT !.saves = Tail(@), !.snap = <<>>]
    BY <1>2 DEF DumpFile, Gone, store, history
  <2>2. /\ File = "sensors" <=> req.saves = Persisted
        /\ Tail(req.saves) \in Pending /\ Tail(req.saves) # Persisted
    BY <2>1, <1>0, Saves DEF File
  <2>3. /\ DOMAIN req' = DOMAIN req /\ req'.saves = Tail(req.saves) /\ req'.on = req.on
        /\ req'.snap = <<>>
    BY <2>1, <1>0
  <2>4. /\ DOMAIN disk' = Files
        /\ disk'["sensors"] = IF File = "sensors" THEN req.snap ELSE disk["sensors"]
    BY <2>1, <1>0
  <2>5. Shape'
    BY <2>1, <2>2, <2>3, <2>4, <1>0, NoneSaved DEF Shape
  <2>6. OnDisk' /\ Saved'
    <3>1. CASE req.saves = Persisted
      BY <3>1, <2>1, <2>2, <2>3, <2>4, <1>0 DEF OnDisk, Saved, InSnapshot
    <3>2. CASE req.saves # Persisted
      BY <3>2, <2>1, <2>2, <2>3, <2>4, <1>0 DEF OnDisk, Saved
    <3> QED BY <3>1, <3>2
  <2>7. InMemory' /\ InSnapshot'
    BY <2>1, <2>3, <1>0 DEF InMemory, InSnapshot
  <2> QED BY <2>5, <2>6, <2>7 DEF DeletedInv
<1>3. CASE SaveRaises
  <2>1. req' = NoRequest /\ UNCHANGED <<proc, sensors, disk, Gone>>
    BY <1>3 DEF SaveRaises, Gone, history
  <2> QED BY <2>1, <1>0, NoneSaved, Saves
          DEF DeletedInv, Shape, Pending, InMemory, OnDisk, InSnapshot, Saved, Lacks
<1>4. CASE Answer
  <2>1. /\ req' = NoRequest /\ UNCHANGED <<proc, sensors, disk>>
        /\ req.saves = <<>> /\ Gone' = Gone \cup req.on
    BY <1>4 DEF Answer, Gone
  <2>2. disk["sensors"] # Torn => Lacks(req.on, disk["sensors"][1])
    BY <2>1, <1>0, Saves DEF Saved
  <2> QED BY <2>1, <2>2, <1>0, NoneSaved, Saves
          DEF DeletedInv, Shape, Pending, InMemory, OnDisk, InSnapshot, Saved, Lacks
<1> QED BY <1>1, <1>2, <1>3, <1>4 DEF Handler

LEMMA DeletedStep == DeletedInv /\ [Next]_vars => DeletedInv'
<1> SUFFICES ASSUME DeletedInv, [Next]_vars PROVE DeletedInv'
  OBVIOUS
<1>0. /\ DOMAIN disk = Files /\ "sensors" \in Files
      /\ proc = "down" => req = NoRequest
      /\ InMemory /\ OnDisk
  BY DEF DeletedInv, Shape, Files
<1>1. CASE StartupFails
  <2>1. UNCHANGED <<sensors, disk, req, Gone>> /\ proc' = "refused"
    BY <1>1 DEF StartupFails, Gone, store, history
  <2> QED BY <2>1 DEF DeletedInv, Shape, InMemory, OnDisk, InSnapshot, Saved
<1>2. CASE StartsWithSensors
  <2>1. /\ proc = "down" /\ proc' = "up" /\ sensors' = disk["sensors"][1]
        /\ disk["sensors"] # Torn /\ UNCHANGED <<disk, req, Gone>>
    BY <1>2, <1>0 DEF StartsWithSensors, Load, Gone
  <2>2. req = NoRequest
    BY <2>1, <1>0
  <2> QED BY <2>1, <2>2, <1>0, NoneSaved, Saves
          DEF DeletedInv, Shape, InMemory, OnDisk, InSnapshot, Saved, Lacks
<1>3. CASE StartsWithSeed
  <2>1. /\ proc = "down" /\ proc' = "up" /\ sensors' = Seed /\ req' = req
        /\ Gone' = Gone \ Topology
        /\ \/ disk' = [disk EXCEPT !["sensors"] = <<Seed>>]
           \/ disk' \in {disk, [disk EXCEPT !["sensors"] = Torn]}
    BY <1>3 DEF StartsWithSeed, Load, Gone
  <2>2. req = NoRequest /\ DOMAIN Seed = Topology
    BY <2>1, <1>0 DEF Seed
  <2>3. /\ DOMAIN disk' = Files
        /\ disk'["sensors"] \in {<<Seed>>, disk["sensors"], Torn}
    BY <2>1, <1>0
  <2>4. Shape'
    BY <2>1, <2>2, <2>3 DEF DeletedInv, Shape
  <2>5. OnDisk'
    <3>1. CASE disk'["sensors"] = <<Seed>>
      <4>1. disk'["sensors"][1] = Seed
        BY <3>1
      <4> QED BY <4>1, <2>1, <2>2 DEF OnDisk, Lacks
    <3>2. CASE disk'["sensors"] \in {disk["sensors"], Torn}
      BY <3>2, <2>1, <1>0 DEF OnDisk, Lacks
    <3> QED BY <3>1, <3>2, <2>3
  <2>6. InMemory' /\ InSnapshot' /\ Saved'
    BY <2>1, <2>2, NoneSaved DEF InMemory, InSnapshot, Saved, Lacks
  <2> QED BY <2>4, <2>5, <2>6 DEF DeletedInv
<1>4. CASE Dies
  <2>1. sensors' = Empty /\ req' = NoRequest /\ UNCHANGED <<disk, Gone>>
    BY <1>4 DEF Dies, Gone, history
  <2>2. DOMAIN Empty = {}
    BY DEF Empty
  <2> QED BY <2>1, <2>2, <1>0, NoneSaved, Saves
          DEF DeletedInv, Shape, Pending, InMemory, OnDisk, InSnapshot, Saved, Lacks
<1>5. CASE Requests
  BY <1>5, RequestsStep
<1>6. CASE Handler
  BY <1>6, HandlerStep
<1>7. CASE PublishLoop \/ Reconnects
  <2>1. UNCHANGED <<proc, disk, req, Gone>>
    BY <1>7
       DEF PublishLoop, BeginPass, NextSensor, NextRule, RuleReads, RuleWrites, Sends,
           InLoop, Reconnects, Gone, history
  <2>2. DOMAIN sensors' = DOMAIN sensors
    BY <1>7
       DEF PublishLoop, BeginPass, NextSensor, NextRule, RuleReads, RuleWrites, Sends,
           ThreadEnds, Reconnects, store
  <2> QED BY <2>1, <2>2, SameKeys
<1>8. CASE UNCHANGED vars
  BY <1>8, SameKeys DEF vars, store, history, Gone
<1> QED BY <1>1, <1>2, <1>3, <1>4, <1>5, <1>6, <1>7, <1>8 DEF Next

(* Whenever the process dies and whatever save fails, a sensor whose       *)
(* deletion was answered comes back only by a request that adds it or by   *)
(* the seed of a startup that found no sensor (router.py 124-131,          *)
(* persistence.py 36-72, main.py 117-130).                                 *)
THEOREM DeletionIsFinal == Spec => []DeletedStaysDeleted
<1>1. DeletedInv => DeletedStaysDeleted
  BY DEF DeletedInv, InMemory, Lacks, Gone, DeletedStaysDeleted
<1> QED BY <1>1, DeletedInit, DeletedStep, PTL DEF Spec

-----------------------------------------------------------------------------
(***************************************************************************)
(* Types.  What a startup loads is what the files hold, and what the files *)
(* hold is what a handler had taken a snapshot of: so the dictionaries     *)
(* keep their types over a restart because files and snapshots have them.  *)
(***************************************************************************)
FiniteMaps(K, V) == {d \in Stored(K, V) : IsFiniteSet(DOMAIN d)}
Wrapped(S) == {<<c>> : c \in S}

Contents(f) == CASE f = "sensors" -> FiniteMaps(Sensors, Sensor)
                 [] f = "rules"   -> FiniteMaps(Rules, Rule)
                 [] f = "logs"    -> {l \in Seq(1..MaxRequests) : Len(l) <= LogKeep}
                 [] f = "config"  -> 0..MaxRequests

FilesTyped ==
    /\ DOMAIN disk = Files
    /\ \A f \in Files : disk[f] \in {Torn} \cup Wrapped(Contents(f))

RequestTyped ==
    /\ DOMAIN req = {"kind", "saves", "snap", "on"}
    /\ req.saves \in Pending
    /\ req.snap # <<>> => req.saves # <<>> /\ req.snap \in Wrapped(Contents(File))
    /\ req.on \subseteq Sensors
    /\ req.saves # <<>> => n >= 1
    /\ proc # "up" => req = NoRequest

TypeInv ==
    /\ TypeOK
    /\ FilesTyped /\ RequestTyped
    /\ sensors \in FiniteMaps(Sensors, Sensor) /\ rules \in FiniteMaps(Rules, Rule)

LEMMA MapIntro ==
    ASSUME NEW K, NEW V, NEW D, D \subseteq K, IsFiniteSet(D), NEW d \in [D -> V]
    PROVE  d \in FiniteMaps(K, V)
<1>1. DOMAIN d = D /\ D \in SUBSET K
  OBVIOUS
<1>2. [D -> V] \in {[k -> V] : k \in SUBSET K}
  BY <1>1
<1>3. d \in Stored(K, V)
  BY <1>2 DEF Stored
<1> QED BY <1>1, <1>3 DEF FiniteMaps

LEMMA MapElim ==
    ASSUME NEW K, NEW V, NEW d \in FiniteMaps(K, V)
    PROVE  d \in Stored(K, V) /\ DOMAIN d \subseteq K
           /\ IsFiniteSet(DOMAIN d) /\ d \in [DOMAIN d -> V]
BY DEF FiniteMaps, Stored

LEMMA ContentTypes ==
    /\ Contents("sensors") = FiniteMaps(Sensors, Sensor)
    /\ Contents("rules") = FiniteMaps(Rules, Rule)
    /\ Contents("logs") = {l \in Seq(1..MaxRequests) : Len(l) <= LogKeep}
    /\ Contents("config") = 0..MaxRequests
BY DEF Contents

LEMMA UnwrapFirst ==
    ASSUME NEW S, NEW w \in Wrapped(S)
    PROVE  w[1] \in S /\ w = <<w[1]>> /\ w # <<>>
BY DEF Wrapped

LEMMA WrapIt == ASSUME NEW S, NEW c \in S PROVE <<c>> \in Wrapped(S) /\ <<c>> # <<>>
BY DEF Wrapped

LEMMA EmptyMaps ==
    ASSUME NEW K, NEW V PROVE Empty \in FiniteMaps(K, V) /\ DOMAIN Empty = {}
<1>1. Empty \in [{} -> V] /\ DOMAIN Empty = {}
  BY DEF Empty
<1> QED BY <1>1, FS_EmptySet, MapIntro

LEMMA SeedMaps == Seed \in FiniteMaps(Sensors, Sensor) /\ DOMAIN Seed = Topology
<1>1. Fresh \in Sensor
  BY DEF Fresh, Sensor, Modes
<1>2. Seed \in [Topology -> Sensor]
  BY <1>1 DEF Seed
<1> QED BY <1>2, MapIntro, StoreAssumption

(* Sequences of the log.                                                   *)
LEMMA EndOfLog ==
    ASSUME NEW S, NEW s \in Seq(S), NEW m \in 1..Len(s)
    PROVE  SubSeq(s, m, Len(s)) \in Seq(S) /\ Len(SubSeq(s, m, Len(s))) = Len(s) - m + 1
<1>1. Len(s) \in Nat /\ m \in Int /\ m <= Len(s)
  BY LenProperties
<1>2. \A i \in m..Len(s) : s[i] \in S
  BY <1>1, ElementOfSeq
<1> QED BY <1>1, <1>2, SubSeqProperties

LEMMA NewestType ==
    ASSUME NEW l \in Seq(1..MaxRequests)
    PROVE  Newest(l) \in Seq(1..MaxRequests) /\ Len(Newest(l)) <= LogKeep
<1>0. Len(l) \in Nat /\ LogKeep \in Nat /\ LogKeep >= 1
  BY LenProperties, StoreAssumption
<1>1. CASE Len(l) <= LogKeep
  BY <1>1 DEF Newest
<1>2. CASE ~(Len(l) <= LogKeep)
  <2> DEFINE m == Len(l) - LogKeep + 1
  <2>1. m \in 1..Len(l) /\ Len(l) - m + 1 = LogKeep
    BY <1>0, <1>2
  <2>2. Newest(l) = SubSeq(l, m, Len(l))
    BY <1>2 DEF Newest
  <2> HIDE DEF m
  <2>3. /\ SubSeq(l, m, Len(l)) \in Seq(1..MaxRequests)
        /\ Len(SubSeq(l, m, Len(l))) = Len(l) - m + 1
    BY <2>1, EndOfLog
  <2> QED BY <1>0, <2>1, <2>2, <2>3
<1> QED BY <1>1, <1>2

LEMMA AddLogType ==
    ASSUME TypeInv, n >= 1
    PROVE  AddLog \in Seq(1..MaxRequests) /\ Len(AddLog) <= LogCap
<1>0. /\ logs \in Seq(1..MaxRequests) /\ Len(logs) \in Nat /\ Len(logs) <= LogCap
      /\ n \in 1..MaxRequests
      /\ LogCap \in Nat /\ LogTrim \in Nat /\ 1 <= LogTrim /\ LogTrim <= LogCap
  BY LenProperties, StoreAssumption DEF TypeInv, TypeOK
<1> DEFINE l == Append(logs, n)
<1>1. l \in Seq(1..MaxRequests) /\ Len(l) = Len(logs) + 1
  BY <1>0, AppendProperties
<1>2. AddLog = IF Len(l) > LogCap THEN SubSeq(l, LogTrim + 1, Len(l)) ELSE l
  BY DEF AddLog
<1> HIDE DEF l
<1>3. CASE Len(l) > LogCap
  <2>1. LogTrim + 1 \in 1..Len(l) /\ Len(l) - (LogTrim + 1) + 1 <= LogCap
    BY <1>0, <1>1, <1>3
  <2> QED BY <1>1, <1>2, <1>3, <2>1, EndOfLog
<1>4. CASE ~(Len(l) > LogCap)
  BY <1>0, <1>1, <1>2, <1>4
<1> QED BY <1>3, <1>4

LEMMA IteratorTypes ==
    ASSUME NEW K, NEW V, NEW d \in FiniteMaps(K, V)
    PROVE  /\ IteratorOver(d) \in Iterators(K)
           /\ IteratorOver(d).todo = DOMAIN d
           /\ IteratorOver(d).size = Cardinality(DOMAIN d)
           /\ IteratorOver(d).left = Cardinality(DOMAIN d)
<1>1. DOMAIN d \subseteq K /\ Cardinality(DOMAIN d) \in Nat
  BY MapElim, FS_CardinalityType
<1> QED BY <1>1 DEF IteratorOver, Iterators

LEMMA NoIterType == \A K : NoIter \in Iterators(K)
BY DEF NoIter, Iterators

(* The types of the files, of the saves and of the dictionaries are those  *)
(* that TypeOK asks for.                                                   *)
LEMMA PendingType == Pending \subseteq Seq(Files)
<1>1. {"logs", "rules", "sensors", "config"} \subseteq Files
  BY DEF Files
<1> QED BY <1>1 DEF Pending, Persisted

Scalars ==
    /\ proc \in {"up", "down", "refused"}
    /\ logs \in Seq(1..MaxRequests) /\ Len(logs) <= LogCap
    /\ {config, n} \subseteq 0..MaxRequests
    /\ byRule \subseteq Sensors /\ deleted \subseteq Sensors
    /\ reseeded \subseteq Sensors /\ promised \subseteq Parts
    /\ disturbed \in BOOLEAN /\ client \in BOOLEAN

LoopTyped ==
    /\ pub \in {Waiting, [at |-> "dead"], [at |-> "sensors"], [at |-> "send"]}
               \cup [at : {"rules"}, reading : Sensors]
               \cup Switches("checked")
               \cup [at : {"write"}, reading : Sensors, target : Sensors,
                     want : BOOLEAN]
    /\ sit \in Iterators(Sensors) /\ rit \in Iterators(Rules)

Dictionaries ==
    sensors \in FiniteMaps(Sensors, Sensor) /\ rules \in FiniteMaps(Rules, Rule)

LEMMA TypeParts ==
    TypeInv <=> Scalars /\ LoopTyped /\ Dictionaries /\ FilesTyped /\ RequestTyped
<1>1. TypeInv => Scalars /\ LoopTyped /\ Dictionaries /\ FilesTyped /\ RequestTyped
  BY DEF TypeInv, TypeOK, Scalars, LoopTyped, Dictionaries
<1>2. ASSUME Scalars, LoopTyped, Dictionaries, FilesTyped, RequestTyped PROVE TypeInv
  <2>1. sensors \in Stored(Sensors, Sensor) /\ rules \in Stored(Rules, Rule)
    BY <1>2, MapElim DEF Dictionaries
  <2>2. /\ disk["sensors"] # Torn => disk["sensors"][1] \in Stored(Sensors, Sensor)
        /\ disk["rules"] # Torn => disk["rules"][1] \in Stored(Rules, Rule)
        /\ disk["logs"] # Torn => Len(disk["logs"][1]) <= LogKeep
    <3>1. \A f \in Files : disk[f] # Torn => disk[f][1] \in Contents(f)
      BY <1>2, UnwrapFirst DEF FilesTyped
    <3>2. {"sensors", "rules", "logs"} \subseteq Files
      BY DEF Files
    <3> QED BY <3>1, <3>2, ContentTypes, MapElim
  <2>3. req.saves \in Seq(Files) /\ req.on \subseteq Sensors
    BY <1>2, PendingType DEF RequestTyped
  <2> QED BY <1>2, <2>1, <2>2, <2>3
          DEF TypeInv, TypeOK, Scalars, LoopTyped, Dictionaries
<1> QED BY <1>1, <1>2

LEMMA TypeInit == Init => TypeInv
<1> SUFFICES ASSUME Init PROVE TypeInv
  OBVIOUS
<1>1. /\ disk = [f \in Files |-> CASE f = "logs"   -> << <<>> >>
                                   [] f = "config" -> <<0>>
                                   [] OTHER        -> <<Empty>>]
      /\ req = NoRequest
  BY DEF Init
<1>2. /\ DOMAIN disk = Files /\ disk["logs"] = << <<>> >> /\ disk["config"] = <<0>>
      /\ disk["sensors"] = <<Empty>> /\ disk["rules"] = <<Empty>>
  BY <1>1 DEF Files
<1>3. /\ <<>> \in Contents("logs") /\ 0 \in Contents("config")
      /\ Empty \in Contents("sensors") /\ Empty \in Contents("rules")
  <2>1. <<>> \in Seq(1..MaxRequests) /\ Len(<<>>) = 0 /\ LogKeep \in Nat
    BY EmptySeq, StoreAssumption
  <2>2. <<>> \in {l \in Seq(1..MaxRequests) : Len(l) <= LogKeep}
    BY <2>1
  <2>3. 0 \in 0..MaxRequests
    BY StoreAssumption
  <2> QED BY <2>2, <2>3, ContentTypes, EmptyMaps
<1>4. FilesTyped
  BY <1>2, <1>3, WrapIt DEF FilesTyped, Files
<1>5. RequestTyped
  BY <1>1, NoneSaved DEF RequestTyped, Pending
<1>6. Scalars
  <2>1. logs \in Seq(1..MaxRequests) /\ Len(logs) = 0 /\ LogCap \in Nat
    BY EmptySeq, StoreAssumption DEF Init
  <2>2. Len(logs) <= LogCap
    BY <2>1
  <2>3. {config, n} \subseteq 0..MaxRequests
    BY StoreAssumption DEF Init
  <2>4. /\ proc \in {"up", "down", "refused"} /\ {disturbed, client} \subseteq BOOLEAN
        /\ promised \subseteq Parts
        /\ byRule \subseteq Sensors /\ deleted \subseteq Sensors /\ reseeded \subseteq Sensors
    BY DEF Init
  <2> QED BY <2>1, <2>2, <2>3, <2>4 DEF Scalars
<1>7. LoopTyped
  BY NoIterType DEF Init, LoopTyped
<1> QED BY <1>4, <1>5, <1>6, <1>7, EmptyMaps, TypeParts DEF Init, Dictionaries

(* What requests do to a dictionary and to the loop's iterators over it.   *)
LEMMA MapReplace ==
    ASSUME NEW K, NEW V, NEW d \in FiniteMaps(K, V), NEW k, NEW v \in V
    PROVE  [d EXCEPT ![k] = v] \in FiniteMaps(K, V)
<1>1. DOMAIN d \subseteq K /\ IsFiniteSet(DOMAIN d) /\ d \in [DOMAIN d -> V]
  BY MapElim
<1>2. [d EXCEPT ![k] = v] \in [DOMAIN d -> V]
  BY <1>1
<1> QED BY <1>1, <1>2, MapIntro

LEMMA MapRestrict ==
    ASSUME NEW K, NEW V, NEW d \in FiniteMaps(K, V), NEW S
    PROVE  [k \in DOMAIN d \ S |-> d[k]] \in FiniteMaps(K, V)
<1>1. DOMAIN d \subseteq K /\ IsFiniteSet(DOMAIN d) /\ d \in [DOMAIN d -> V]
  BY MapElim
<1>2. IsFiniteSet(DOMAIN d \ S) /\ DOMAIN d \ S \subseteq K
  BY <1>1, FS_Subset
<1>3. [k \in DOMAIN d \ S |-> d[k]] \in [DOMAIN d \ S -> V]
  BY <1>1
<1> QED BY <1>2, <1>3, MapIntro

LEMMA MapExtend ==
    ASSUME NEW K, NEW V, NEW d \in FiniteMaps(K, V), NEW S, S \subseteq K,
           IsFiniteSet(S), NEW e \in [DOMAIN d \cup S -> V]
    PROVE  e \in FiniteMaps(K, V)
<1>1. DOMAIN d \subseteq K /\ IsFiniteSet(DOMAIN d)
  BY MapElim
<1>2. IsFiniteSet(DOMAIN d \cup S) /\ DOMAIN d \cup S \subseteq K
  BY <1>1, FS_Union
<1> QED BY <1>2, MapIntro

LEMMA IteratorSteps ==
    ASSUME NEW K, NEW it \in Iterators(K), NEW active, NEW S, S \subseteq K
    PROVE  /\ Grown(it, active, S) \in Iterators(K)
           /\ Shrunk(it, active, S) \in Iterators(K)
           /\ \A k : it.left # 0 => Rest(it, k) \in Iterators(K)
<1>1. \A T \in SUBSET K : [it EXCEPT !.todo = T] \in Iterators(K)
  BY DEF Iterators
<1>2. it.todo \cup S \in SUBSET K /\ it.todo \ S \in SUBSET K
  BY DEF Iterators
<1>3. Grown(it, active, S) \in Iterators(K) /\ Shrunk(it, active, S) \in Iterators(K)
  BY <1>1, <1>2 DEF Grown, Shrunk
<1>4. ASSUME NEW k, it.left # 0 PROVE Rest(it, k) \in Iterators(K)
  <2>1. it.todo \ {k} \in SUBSET K /\ it.left - 1 \in Nat
    BY <1>4 DEF Iterators
  <2>2. Rest(it, k) = [it EXCEPT !.todo = it.todo \ {k}, !.left = it.left - 1]
    BY DEF Rest
  <2>3. \A T \in SUBSET K, l \in Nat :
           [it EXCEPT !.todo = T, !.left = l] \in Iterators(K)
    BY DEF Iterators
  <2> QED BY <2>1, <2>2, <2>3
<1> QED BY <1>3, <1>4

LEMMA AcceptTyped ==
    ASSUME TypeInv, NEW kind, NEW saves \in Pending, NEW S \in SUBSET Sensors,
           Accept(kind, saves, S), Dictionaries', UNCHANGED <<logs, config>>,
           sit' \in Iterators(Sensors), rit' \in Iterators(Rules),
           deleted' \subseteq Sensors, disturbed' \in BOOLEAN
    PROVE  TypeInv'
<1>0. Scalars /\ LoopTyped /\ FilesTyped /\ RequestTyped
  BY TypeParts
<1>1. /\ req' = [kind |-> kind, saves |-> saves, snap |-> <<>>, on |-> S]
      /\ proc = "up" /\ proc' = proc /\ disk' = disk /\ n' = n + 1 /\ n < MaxRequests
      /\ UNCHANGED <<pub, client, byRule, reseeded>> /\ promised' \subseteq promised
  BY DEF Accept
<1>2. n' \in 0..MaxRequests /\ n' >= 1
  BY <1>0, <1>1, StoreAssumption DEF Scalars
<1>3. Scalars'
  BY <1>0, <1>1, <1>2 DEF Scalars
<1>4. LoopTyped'
  BY <1>0, <1>1 DEF LoopTyped
<1>5. FilesTyped'
  BY <1>0, <1>1 DEF FilesTyped
<1>6. RequestTyped'
  BY <1>1, <1>2 DEF RequestTyped
<1>7. (Scalars /\ LoopTyped /\ Dictionaries /\ FilesTyped /\ RequestTyped)' <=> TypeInv'
  BY TypeParts, PTL
<1> QED BY <1>3, <1>4, <1>5, <1>6, <1>7

LEMMA RequestsTyped == TypeInv /\ Requests => TypeInv'
<1> SUFFICES ASSUME TypeInv, Requests PROVE TypeInv'
  OBVIOUS
<1>0. /\ Persisted \in Pending /\ <<>> \in Pending /\ <<"config">> \in Pending
      /\ {} \in SUBSET Sensors /\ deleted \subseteq Sensors /\ disturbed \in BOOLEAN
      /\ sensors \in FiniteMaps(Sensors, Sensor) /\ rules \in FiniteMaps(Rules, Rule)
      /\ sit \in Iterators(Sensors) /\ rit \in Iterators(Rules)
      /\ sensors \in [DOMAIN sensors -> Sensor] /\ DOMAIN sensors \subseteq Sensors
      /\ IsFiniteSet(DOMAIN sensors)
      /\ rules \in [DOMAIN rules -> Rule] /\ DOMAIN rules \subseteq Rules
  BY MapElim DEF Pending, TypeInv, TypeOK
<1>n. NewSensors \subseteq Sensor
  BY StoreAssumption
<1>f. Fresh \in Sensor
  BY DEF Fresh, Sensor, Modes
<1>1. ASSUME NEW kind, NEW S \in SUBSET Sensors, IsFiniteSet(S), NEW v \in Sensor,
             AddSensors(kind, S, v)
      PROVE  TypeInv'
  <2>1. /\ Accept(kind, Persisted, {}) /\ deleted' = deleted \ S
        /\ UNCHANGED <<rules, logs, config, rit>>
        /\ sit' = Grown(sit, Iterating, S \ DOMAIN sensors)
        /\ sensors' = [s \in DOMAIN sensors \cup S |->
                         IF s \in DOMAIN sensors THEN sensors[s] ELSE v]
    BY <1>1 DEF AddSensors
  <2>2. disturbed' \in BOOLEAN
    BY <1>1 DEF AddSensors
  <2>3. sensors' \in FiniteMaps(Sensors, Sensor)
    <3>1. sensors' \in [DOMAIN sensors \cup S -> Sensor]
      BY <2>1, <1>0, <1>1
    <3> QED BY <3>1, <1>0, <1>1, MapExtend
  <2>4. sit' \in Iterators(Sensors)
    BY <2>1, <1>0, IteratorSteps
  <2> QED BY <2>1, <2>2, <2>3, <2>4, <1>0, AcceptTyped DEF Dictionaries
<1>2. ASSUME NEW kind, NEW new \in FiniteMaps(Sensors, Sensor), SetSensors(kind, new)
      PROVE  TypeInv'
  <2>1. /\ Accept(kind, Persisted, {}) /\ sensors' = new
        /\ UNCHANGED <<rules, logs, config, sit, rit, deleted, disturbed>>
    BY <1>2 DEF SetSensors
  <2> QED BY <2>1, <1>0, AcceptTyped DEF Dictionaries
<1>3. ASSUME NEW kind, NEW new \in FiniteMaps(Rules, Rule), SetRules(kind, new),
             rit' \in Iterators(Rules), disturbed' \in BOOLEAN
      PROVE  TypeInv'
  <2>1. /\ Accept(kind, Persisted, {}) /\ rules' = new
        /\ UNCHANGED <<sensors, logs, config, sit, deleted>>
    BY <1>3 DEF SetRules
  <2> QED BY <2>1, <1>0, <1>3, AcceptTyped DEF Dictionaries
<1>4. ASSUME NEW s \in Sensors, DeleteSensor(s) PROVE TypeInv'
  <2>1. /\ Accept("delete", Persisted, {s}) /\ disturbed' = TRUE
        /\ UNCHANGED <<rules, logs, config, rit, deleted>>
        /\ sit' = Shrunk(sit, Iterating, {s})
        /\ sensors' = [t \in DOMAIN sensors \ {s} |-> sensors[t]]
    BY <1>4 DEF DeleteSensor
  <2>2. sensors' \in FiniteMaps(Sensors, Sensor)
    BY <2>1, <1>0, MapRestrict
  <2>3. sit' \in Iterators(Sensors)
    BY <2>1, <1>0, IteratorSteps
  <2>4. {s} \in SUBSET Sensors /\ rit' \in Iterators(Rules) /\ deleted' \subseteq Sensors
        /\ disturbed' \in BOOLEAN /\ Dictionaries'
    BY <2>1, <2>2, <1>0 DEF Dictionaries
  <2> QED BY <2>1, <2>3, <2>4, <1>0, AcceptTyped
<1>5. CASE UpdateRaises
  <2>1. /\ Accept("none", <<>>, {})
        /\ UNCHANGED <<logs, config, sit, rit, deleted, disturbed>>
    BY <1>5 DEF UpdateRaises
  <2>2. Dictionaries'
    <3>1. ASSUME NEW s \in DOMAIN sensors, NEW v \in Sensor,
                 sensors' = [sensors EXCEPT ![s] = v], rules' = rules
          PROVE  Dictionaries'
      BY <3>1, <1>0, MapReplace DEF Dictionaries
    <3>2. ASSUME NEW r \in DOMAIN rules, NEW e \in BOOLEAN, NEW b \in Bodies,
                 NEW mixed \in {[rules[r].body EXCEPT !.on = b.on],
                                [b EXCEPT !.on = rules[r].body.on]},
                 rules' = [rules EXCEPT ![r] = [enabled |-> e, body |-> mixed]],
                 sensors' = sensors
          PROVE  Dictionaries'
      <4> DEFINE v == [enabled |-> e, body |-> mixed]
      <4>1. v \in Rule
        <5>1. rules[r].body \in Bodies
          BY <1>0 DEF Rule
        <5>2. mixed \in Bodies
          BY <5>1, StoreAssumption
        <5> QED BY <5>2 DEF Rule
      <4>2. rules' = [rules EXCEPT ![r] = v]
        BY <3>2
      <4> HIDE DEF v
      <4>3. [rules EXCEPT ![r] = v] \in FiniteMaps(Rules, Rule)
        BY <4>1, <1>0, MapReplace
      <4> QED BY <3>2, <4>2, <4>3, <1>0 DEF Dictionaries
    <3> QED BY <1>5, <1>n, <3>1, <3>2 DEF UpdateRaises
  <2> QED BY <2>1, <2>2, <1>0, AcceptTyped
<1>6. CASE UpdateConfig
  <2>1. /\ Accept("config", <<"config">>, {})
        /\ UNCHANGED <<sensors, rules, logs, config, sit, rit, deleted, disturbed>>
    BY <1>6 DEF UpdateConfig, store
  <2> QED BY <2>1, <1>0, AcceptTyped DEF Dictionaries
<1>7. ASSUME NEW s \in Sensors, NEW v \in Sensor PROVE UpdateSensor(s, v) => TypeInv'
  BY <1>0, <1>2, MapReplace DEF UpdateSensor
<1>8. ASSUME NEW s \in Sensors, ToggleSensor(s) PROVE TypeInv'
  <2>1. /\ s \in DOMAIN sensors
        /\ SetSensors("toggle",
              [sensors EXCEPT ![s] = [sensors[s] EXCEPT !.enabled = ~sensors[s].enabled]])
    BY <1>8 DEF ToggleSensor
  <2>2. [sensors[s] EXCEPT !.enabled = ~sensors[s].enabled] \in Sensor
    BY <2>1, <1>0 DEF Sensor
  <2> QED BY <2>1, <2>2, <1>0, <1>2, MapReplace
<1>9. CASE BulkEnable \/ BulkDisable \/ BulkReset
  <2>1. ASSUME NEW new \in [DOMAIN sensors -> Sensor], SetSensors("bulk", new)
        PROVE  TypeInv'
    BY <2>1, <1>0, <1>2, MapIntro
  <2>2. \A s \in DOMAIN sensors, e \in BOOLEAN : [sensors[s] EXCEPT !.enabled = e] \in Sensor
    BY <1>0 DEF Sensor
  <2>3. CASE BulkEnable
    <3>1. [s \in DOMAIN sensors |-> [sensors[s] EXCEPT !.enabled = TRUE]]
             \in [DOMAIN sensors -> Sensor]
      BY <2>2
    <3> QED BY <2>1, <2>3, <3>1 DEF BulkEnable
  <2>4. CASE BulkDisable
    <3>1. [s \in DOMAIN sensors |-> [sensors[s] EXCEPT !.enabled = FALSE]]
             \in [DOMAIN sensors -> Sensor]
      BY <2>2
    <3> QED BY <2>1, <2>4, <3>1 DEF BulkDisable
  <2>5. CASE BulkReset
    <3>1. [s \in DOMAIN sensors |-> Fresh] \in [DOMAIN sensors -> Sensor]
      BY <1>f
    <3> QED BY <2>1, <2>5, <3>1 DEF BulkReset
  <2> QED BY <1>9, <2>3, <2>4, <2>5
<1>10. CASE SeedSensors
  <2>1. Topology \in SUBSET Sensors /\ IsFiniteSet(Topology)
    BY StoreAssumption
  <2> QED BY <2>1, <1>f, <1>1, <1>10 DEF SeedSensors
<1>11. ASSUME NEW s \in Sensors, NEW v \in Sensor, CreateSensor(s, v) PROVE TypeInv'
  <2>1. {s} \in SUBSET Sensors /\ IsFiniteSet({s})
    BY FS_Singleton
  <2> QED BY <2>1, <1>1, <1>11 DEF CreateSensor
<1>12. ASSUME NEW r \in Rules, DeleteRule(r) PROVE TypeInv'
  <2>1. /\ SetRules("rule", [q \in DOMAIN rules \ {r} |-> rules[q]])
        /\ rit' = Shrunk(rit, InRules, {r}) /\ disturbed' = TRUE
    BY <1>12 DEF DeleteRule
  <2>2. /\ [q \in DOMAIN rules \ {r} |-> rules[q]] \in FiniteMaps(Rules, Rule)
        /\ rit' \in Iterators(Rules)
    BY <2>1, <1>0, MapRestrict, IteratorSteps
  <2> QED BY <2>1, <2>2, <1>3
<1>13. ASSUME NEW r \in Rules, NEW v \in Rule, CreateRule(r, v) PROVE TypeInv'
  <2> DEFINE new == [q \in DOMAIN rules \cup {r} |-> IF q = r THEN v ELSE rules[q]]
  <2>1. /\ SetRules("rule", new)
        /\ rit' = Grown(rit, InRules, {r}) /\ disturbed' = TRUE
    BY <1>13 DEF CreateRule
  <2>2. new \in [DOMAIN rules \cup {r} -> Rule]
    BY <1>0
  <2> HIDE DEF new
  <2>3. new \in FiniteMaps(Rules, Rule)
    <3>1. {r} \subseteq Rules /\ IsFiniteSet({r})
      BY FS_Singleton
    <3> QED BY <3>1, <2>2, <1>0, MapExtend
  <2>4. rit' \in Iterators(Rules)
    BY <2>1, <1>0, IteratorSteps
  <2> QED BY <2>1, <2>3, <2>4, <1>3
<1>14. ASSUME NEW r \in Rules, NEW v \in Rule, UpdateRule(r, v) PROVE TypeInv'
  BY <1>14, <1>0, <1>3, MapReplace DEF UpdateRule
<1> QED BY <1>n, <1>4, <1>5, <1>6, <1>7, <1>8, <1>9, <1>10, <1>11, <1>12, <1>13, <1>14
        DEF Requests

(* A handler's step on the files; the dictionaries and the loop stay.      *)
LEMMA HandlerTyped == TypeInv /\ Handler => TypeInv'
<1> SUFFICES ASSUME TypeInv, Handler PROVE TypeInv'
  OBVIOUS
<1>0. /\ Scalars /\ LoopTyped /\ Dictionaries /\ FilesTyped /\ RequestTyped
      /\ DOMAIN req = {"kind", "saves", "snap", "on"} /\ req.saves \in Pending
      /\ req.on \subseteq Sensors
      /\ proc # "up" => req = NoRequest
      /\ req.saves # <<>> => n >= 1
      /\ NoRequest.saves = <<>> /\ NoRequest.snap = <<>> /\ NoRequest.on = {}
  BY TypeParts, NoneSaved DEF RequestTyped
<1>1. ASSUME UNCHANGED <<sensors, rules, pub, sit, rit>>, Scalars', FilesTyped', RequestTyped'
      PROVE  TypeInv'
  <2>1. Dictionaries' /\ LoopTyped'
    BY <1>0, <1>1 DEF Dictionaries, LoopTyped
  <2>2. (Scalars /\ LoopTyped /\ Dictionaries /\ FilesTyped /\ RequestTyped)' <=> TypeInv'
    BY TypeParts, PTL
  <2> QED BY <1>1, <2>1, <2>2
<1>2. ASSUME req' = NoRequest PROVE RequestTyped'
  BY <1>2, NoneSaved DEF RequestTyped, Pending
<1>3. CASE OpenFile
  <2>1. /\ req.saves # <<>> /\ req.snap = <<>>
        /\ logs' = IF File = "logs" THEN AddLog ELSE logs
        /\ req' = [req EXCEPT !.snap = <<Content(File, logs')>>]
        /\ disk' = [disk EXCEPT ![File] = Torn]
        /\ byRule' = IF File = "sensors" THEN {} ELSE byRule
        /\ UNCHANGED <<proc, sensors, rules, config, pub, sit, rit, client, n, promised,
                       deleted, reseeded, disturbed>>
    BY <1>3 DEF OpenFile, loop, bounds
  <2>2. File \in Files
    BY <2>1, <1>0, Saves DEF File
  <2>3. logs' \in Seq(1..MaxRequests) /\ Len(logs') <= LogCap
    BY <2>1, <1>0, AddLogType DEF Scalars
  <2>4. Content(File, logs') \in Contents(File)
    <3>1. CASE File = "logs"
      BY <3>1, <2>3, NewestType DEF Content, Contents
    <3>2. CASE File = "sensors"
      BY <3>2, <1>0, ContentTypes DEF Content, Dictionaries
    <3>3. CASE File = "rules"
      BY <3>3, <1>0, ContentTypes DEF Content, Dictionaries
    <3>4. CASE File = "config"
      BY <3>4, <1>0, ContentTypes DEF Content, Scalars
    <3> QED BY <2>2, <3>1, <3>2, <3>3, <3>4 DEF Files
  <2>5. Scalars'
    BY <2>1, <2>3, <1>0 DEF Scalars
  <2>6. FilesTyped'
    BY <2>1, <2>2, <1>0 DEF FilesTyped
  <2>7. RequestTyped'
    <3>1. /\ DOMAIN req' = DOMAIN req /\ req'.saves = req.saves /\ req'.on = req.on
          /\ req'.snap = <<Content(File, logs')>>
      BY <2>1, <1>0
    <3>2. File' = File /\ req'.snap \in Wrapped(Contents(File))
      BY <3>1, <2>4, WrapIt DEF File
    <3>3. proc = "up"
      BY <2>1, <1>0
    <3> QED BY <3>1, <3>2, <3>3, <2>1, <1>0 DEF RequestTyped
  <2> QED BY <2>1, <2>5, <2>6, <2>7, <1>1
<1>4. CASE DumpFile
  <2>1. /\ req.saves # <<>> /\ req.snap # <<>>
        /\ disk' = [disk EXCEPT ![File] = req.snap]
        /\ req' = [req EXCEPT !.saves = Tail(@), !.snap = <<>>]
        /\ UNCHANGED <<proc, sensors, rules, logs, config, pub, sit, rit, client, n,
                       promised, byRule, deleted, reseeded, disturbed>>
    BY <1>4 DEF DumpFile, store, loop, bounds, history
  <2>2. File \in Files /\ req.snap \in Wrapped(Contents(File)) /\ proc = "up"
    BY <2>1, <1>0, Saves DEF File, RequestTyped
  <2>3. FilesTyped'
    BY <2>1, <2>2, <1>0 DEF FilesTyped
  <2>4. /\ DOMAIN req' = DOMAIN req /\ req'.saves = Tail(req.saves) /\ req'.on = req.on
        /\ req'.snap = <<>>
    BY <2>1, <1>0
  <2>5. RequestTyped'
    BY <2>1, <2>2, <2>4, <1>0, Saves DEF RequestTyped
  <2>6. Scalars'
    BY <2>1, <1>0 DEF Scalars
  <2> QED BY <2>1, <2>3, <2>5, <2>6, <1>1
<1>5. CASE SaveRaises
  <2>1. /\ req.saves # <<>> /\ req' = NoRequest
        /\ logs' = IF File = "logs" /\ req.snap = <<>> THEN AddLog ELSE logs
        /\ UNCHANGED <<proc, sensors, rules, config, disk, pub, sit, rit, client, n,
                       promised, byRule, deleted, reseeded, disturbed>>
    BY <1>5 DEF SaveRaises, loop, history
  <2>2. logs' \in Seq(1..MaxRequests) /\ Len(logs') <= LogCap
    BY <2>1, <1>0, AddLogType DEF Scalars
  <2>3. Scalars' /\ FilesTyped'
    BY <2>1, <2>2, <1>0 DEF Scalars, FilesTyped
  <2> QED BY <2>1, <2>3, <1>1, <1>2
<1>6. CASE Answer
  <2>1. /\ req' = NoRequest
        /\ promised' = promised \cup {PartOf(req.kind)}
        /\ config' = IF req.kind = "config" THEN n ELSE config
        /\ deleted' = deleted \cup req.on /\ reseeded' \subseteq reseeded
        /\ UNCHANGED <<proc, sensors, rules, logs, disk, pub, sit, rit, n, byRule>>
        /\ client' \in BOOLEAN /\ disturbed' \in BOOLEAN
    BY <1>6 DEF Answer, bounds
  <2>2. PartOf(req.kind) \in Parts
    BY DEF PartOf, Parts
  <2>3. config' \in 0..MaxRequests
    BY <2>1, <1>0 DEF Scalars
  <2>4. deleted' \subseteq Sensors
    BY <2>1, <1>0 DEF Scalars
  <2>5. promised' \subseteq Parts
    BY <2>1, <2>2, <1>0 DEF Scalars
  <2>6. Scalars'
    BY <2>1, <2>3, <2>4, <2>5, <1>0 DEF Scalars
  <2>7. FilesTyped'
    BY <2>1, <1>0 DEF FilesTyped
  <2> QED BY <2>1, <2>6, <2>7, <1>1, <1>2
<1> QED BY <1>3, <1>4, <1>5, <1>6 DEF Handler

(* The publish loop's step: its place, its iterators, and a sensor's switch. *)
LEMMA LoopStates ==
    ASSUME LoopTyped
    PROVE  /\ pub.at \in {"wait", "dead", "sensors", "send", "rules", "checked", "write"}
           /\ pub.at \in {"rules", "checked", "write"} => pub.reading \in Sensors
           /\ pub.at \in {"checked", "write"} => pub.target \in Sensors
           /\ pub.at = "checked" => pub.enable \in {"on", "off", "flip"}
           /\ pub.at = "write" => pub.want \in BOOLEAN
BY DEF LoopTyped, Waiting, Switches

LEMMA SwitchType ==
    ASSUME TypeInv, NEW s \in DOMAIN sensors, NEW e \in BOOLEAN
    PROVE  /\ [sensors EXCEPT ![s].enabled = e] \in FiniteMaps(Sensors, Sensor)
           /\ [sensors EXCEPT ![s].enabled = e] =
                [sensors EXCEPT ![s] = [sensors[s] EXCEPT !.enabled = e]]
<1> DEFINE v == [sensors[s] EXCEPT !.enabled = e]
<1>1. sensors \in FiniteMaps(Sensors, Sensor) /\ sensors[s] \in Sensor
  BY MapElim DEF TypeInv
<1>2. v \in Sensor
  BY <1>1 DEF Sensor
<1>3. [sensors EXCEPT ![s].enabled = e] = [sensors EXCEPT ![s] = v]
  OBVIOUS
<1> HIDE DEF v
<1>4. [sensors EXCEPT ![s] = v] \in FiniteMaps(Sensors, Sensor)
  BY <1>1, <1>2, MapReplace
<1>5. [sensors EXCEPT ![s].enabled = e] \in FiniteMaps(Sensors, Sensor)
  BY <1>3, <1>4
<1> QED BY <1>3, <1>5 DEF v

LEMMA PublishTyped ==
    ASSUME TypeInv, PublishLoop, rit.todo \subseteq DOMAIN rules PROVE TypeInv'
<1>0. /\ Scalars /\ LoopTyped /\ Dictionaries /\ FilesTyped /\ RequestTyped
      /\ sit \in Iterators(Sensors) /\ rit \in Iterators(Rules)
      /\ sensors \in FiniteMaps(Sensors, Sensor) /\ rules \in FiniteMaps(Rules, Rule)
      /\ sensors \in [DOMAIN sensors -> Sensor] /\ DOMAIN sensors \subseteq Sensors
      /\ IteratorOver(sensors) \in Iterators(Sensors)
      /\ IteratorOver(rules) \in Iterators(Rules)
      /\ NoIter \in Iterators(Sensors) /\ NoIter \in Iterators(Rules)
  BY TypeParts, MapElim, IteratorTypes, NoIterType DEF Dictionaries, LoopTyped
<1>1. UNCHANGED <<proc, rules, logs, config, disk, req, client, n, promised, deleted,
                  reseeded, disturbed>>
  BY DEF PublishLoop, BeginPass, NextSensor, NextRule, RuleReads, RuleWrites, Sends,
         InLoop, bounds
<1>2. ASSUME LoopTyped', sensors' \in FiniteMaps(Sensors, Sensor), byRule' \subseteq Sensors
      PROVE  TypeInv'
  <2>1. Scalars' /\ Dictionaries' /\ FilesTyped' /\ RequestTyped'
    BY <1>0, <1>1, <1>2 DEF Scalars, Dictionaries, FilesTyped, RequestTyped, File
  <2>2. (Scalars /\ LoopTyped /\ Dictionaries /\ FilesTyped /\ RequestTyped)' <=> TypeInv'
    BY TypeParts, PTL
  <2> QED BY <1>2, <2>1, <2>2
<1>3. ASSUME LoopTyped', UNCHANGED <<sensors, byRule>> PROVE TypeInv'
  BY <1>0, <1>2, <1>3 DEF Scalars
<1>4. ASSUME ThreadEnds PROVE TypeInv'
  BY <1>0, <1>3, <1>4 DEF ThreadEnds, LoopTyped
<1>5. CASE BeginPass
  BY <1>0, <1>3, <1>5 DEF BeginPass, LoopTyped
<1>6. CASE NextSensor
  <2>1. CASE pub' = Waiting /\ sit' = NoIter /\ UNCHANGED <<sensors, rit, byRule>>
    BY <2>1, <1>0, <1>3 DEF LoopTyped
  <2>2. ASSUME NEW s \in sit.todo, ~Raises(sit, sensors), sit' = Rest(sit, s),
               UNCHANGED <<sensors, byRule>>,
               IF sensors[s].enabled
               THEN pub' = [at |-> "rules", reading |-> s] /\ rit' = IteratorOver(rules)
               ELSE UNCHANGED <<pub, rit>>
        PROVE  TypeInv'
    <3>1. s \in Sensors /\ sit.left # 0
      BY <2>2, <1>0 DEF Iterators, Raises
    <3>2. sit' \in Iterators(Sensors)
      BY <3>1, <2>2, <1>0, IteratorSteps
    <3> QED BY <3>1, <3>2, <2>2, <1>0, <1>3 DEF LoopTyped
  <2> QED BY <1>4, <1>6, <2>1, <2>2 DEF NextSensor
<1>7. CASE NextRule
  <2>1. CASE /\ pub' = [at |-> "sensors"] \/ pub' = [at |-> "send"]
             /\ rit' = NoIter /\ UNCHANGED <<sensors, sit, byRule>>
    BY <2>1, <1>0, <1>3 DEF LoopTyped
  <2>2. ASSUME NEW r \in rit.todo, ~Raises(rit, rules), rit' = Rest(rit, r),
               UNCHANGED <<sensors, sit, byRule>>, pub.at = "rules",
               \/ UNCHANGED pub
               \/ /\ Applies(r)
                  /\ pub' = [at |-> "checked", reading |-> pub.reading,
                             target |-> rules[r].body.target,
                             enable |-> rules[r].body.enable]
        PROVE  TypeInv'
    <3>1. r \in Rules /\ rit.left # 0
      BY <2>2, <1>0 DEF Iterators, Raises
    <3>2. rit' \in Iterators(Rules)
      BY <3>1, <2>2, <1>0, IteratorSteps
    <3>3. CASE UNCHANGED pub
      BY <3>2, <3>3, <2>2, <1>0, <1>3 DEF LoopTyped
    <3>4. CASE /\ Applies(r)
               /\ pub' = [at |-> "checked", reading |-> pub.reading,
                          target |-> rules[r].body.target,
                          enable |-> rules[r].body.enable]
      <4>1. pub.reading \in Sensors /\ rules[r] \in Rule
        BY <2>2, <1>0, LoopStates, MapElim
      <4>2. rules[r].body.target \in Sensors /\ rules[r].body.enable \in {"on", "off", "flip"}
        BY <4>1, StoreAssumption DEF Rule
      <4>3. pub' \in Switches("checked")
        BY <3>4, <4>1, <4>2 DEF Switches
      <4> QED BY <4>3, <3>2, <2>2, <1>0, <1>3 DEF LoopTyped
    <3> QED BY <2>2, <3>3, <3>4
  <2> QED BY <1>4, <1>7, <2>1, <2>2 DEF NextRule, InLoop
<1>8. CASE RuleReads
  <2>1. pub.at = "checked" /\ pub.reading \in Sensors /\ pub.target \in Sensors
    BY <1>8, <1>0, LoopStates DEF RuleReads, InLoop
  <2>2. CASE pub.enable = "flip" /\ pub.target \notin DOMAIN sensors /\ ThreadEnds
    BY <2>2, <1>4
  <2>3. ASSUME pub.enable = "flip" => pub.target \in DOMAIN sensors,
               pub' = [at |-> "write", reading |-> pub.reading, target |-> pub.target,
                       want |-> IF pub.enable = "flip"
                                THEN ~sensors[pub.target].enabled
                                ELSE pub.enable = "on"],
               UNCHANGED <<sensors, sit, rit, byRule>>
        PROVE  TypeInv'
    <3> DEFINE want == IF pub.enable = "flip" THEN ~sensors[pub.target].enabled
                                              ELSE pub.enable = "on"
    <3>1. want \in BOOLEAN
      OBVIOUS
    <3>2. pub' = [at |-> "write", reading |-> pub.reading, target |-> pub.target,
                  want |-> want]
      BY <2>3
    <3> HIDE DEF want
    <3>3. pub' \in [at : {"write"}, reading : Sensors, target : Sensors, want : BOOLEAN]
      BY <2>1, <3>1, <3>2
    <3> QED BY <3>3, <2>3, <1>0, <1>3 DEF LoopTyped
  <2> QED BY <2>2, <2>3, <1>8 DEF RuleReads
<1>9. CASE RuleWrites
  <2>1. /\ pub.at = "write" /\ pub.reading \in Sensors /\ pub.target \in Sensors
        /\ pub.want \in BOOLEAN
    BY <1>9, <1>0, LoopStates DEF RuleWrites, InLoop
  <2>2. CASE ThreadEnds
    BY <2>2, <1>4
  <2>3. CASE /\ pub.target \in DOMAIN sensors
             /\ sensors' = [sensors EXCEPT ![pub.target].enabled = pub.want]
             /\ byRule' = byRule \cup {pub.target}
             /\ pub' = [at |-> "rules", reading |-> pub.reading]
             /\ UNCHANGED <<sit, rit>>
    <3>1. sensors' \in FiniteMaps(Sensors, Sensor) /\ byRule' \subseteq Sensors
      BY <2>1, <2>3, <1>0, SwitchType DEF Scalars
    <3> QED BY <2>1, <2>3, <3>1, <1>0, <1>2 DEF LoopTyped
  <2> QED BY <2>2, <2>3, <1>9 DEF RuleWrites
<1>10. CASE Sends
  <2>1. CASE pub' = [at |-> "sensors"] /\ UNCHANGED <<sensors, sit, rit, byRule>>
    BY <2>1, <1>0, <1>3 DEF LoopTyped
  <2> QED BY <2>1, <1>4, <1>10 DEF Sends
<1> QED BY <1>5, <1>6, <1>7, <1>8, <1>9, <1>10 DEF PublishLoop

(* A startup reads four files that are whole, each with its type.          *)
LEMMA LoadTyped ==
    ASSUME TypeInv, Load
    PROVE  /\ LoopTyped' /\ req = NoRequest /\ req' = NoRequest /\ proc' = "up"
           /\ disk["sensors"][1] \in FiniteMaps(Sensors, Sensor)
           /\ rules' \in FiniteMaps(Rules, Rule)
           /\ logs' \in Seq(1..MaxRequests) /\ Len(logs') <= LogKeep
           /\ Len(logs') <= LogCap
           /\ {config', n'} \subseteq 0..MaxRequests
           /\ byRule' = {} /\ disturbed' = FALSE /\ n' = n /\ client' = client
<1>1. /\ proc = "down" /\ proc' = "up"
      /\ \A f \in Files : disk[f] # Torn
      /\ rules' = disk["rules"][1] /\ logs' = disk["logs"][1]
      /\ config' = disk["config"][1]
      /\ disturbed' = FALSE /\ byRule' = {}
      /\ UNCHANGED <<req, pub, sit, rit, client, n>>
  BY DEF Load, loop
<1>2. Scalars /\ LoopTyped /\ Dictionaries /\ FilesTyped /\ RequestTyped
  BY TypeParts
<1>3. \A f \in Files : disk[f][1] \in Contents(f)
  BY <1>1, <1>2, UnwrapFirst DEF FilesTyped
<1>4. /\ disk["sensors"][1] \in FiniteMaps(Sensors, Sensor)
      /\ disk["rules"][1] \in FiniteMaps(Rules, Rule)
      /\ disk["logs"][1] \in Seq(1..MaxRequests) /\ Len(disk["logs"][1]) <= LogKeep
      /\ disk["config"][1] \in 0..MaxRequests
  BY <1>3, ContentTypes DEF Files
<1>5. Len(logs') \in Nat /\ Len(logs') <= LogKeep /\ LogKeep <= LogCap
      /\ LogKeep \in Nat /\ LogCap \in Nat
  BY <1>1, <1>4, LenProperties, StoreAssumption
<1>6. Len(logs') <= LogCap
  BY <1>5
<1>7. req = NoRequest
  BY <1>1, <1>2 DEF RequestTyped
<1> QED BY <1>1, <1>2, <1>4, <1>6, <1>7 DEF LoopTyped, Scalars

LEMMA StartTyped ==
    ASSUME TypeInv, Load, sensors' \in FiniteMaps(Sensors, Sensor), FilesTyped',
           deleted' \subseteq Sensors, reseeded' \subseteq Sensors, promised' \subseteq Parts
    PROVE  TypeInv'
<1>1. Scalars'
  BY LoadTyped, TypeParts DEF Scalars
<1>2. Dictionaries' /\ LoopTyped'
  BY LoadTyped DEF Dictionaries
<1>3. RequestTyped'
  BY LoadTyped, NoneSaved DEF RequestTyped, Pending
<1>4. (Scalars /\ LoopTyped /\ Dictionaries /\ FilesTyped /\ RequestTyped)' <=> TypeInv'
  BY TypeParts, PTL
<1> QED BY <1>1, <1>2, <1>3, <1>4

LEMMA TypeStep ==
    ASSUME TypeInv, [Next]_vars, rit.todo \subseteq DOMAIN rules PROVE TypeInv'
<1>0. /\ Scalars /\ LoopTyped /\ Dictionaries /\ FilesTyped /\ RequestTyped
      /\ (Scalars /\ LoopTyped /\ Dictionaries /\ FilesTyped /\ RequestTyped)' <=> TypeInv'
  <2>1. (Scalars /\ LoopTyped /\ Dictionaries /\ FilesTyped /\ RequestTyped)' <=> TypeInv'
    BY TypeParts, PTL
  <2> QED BY <2>1, TypeParts
<1>1. CASE StartupFails
  <2>1. /\ proc = "down" /\ proc' = "refused"
        /\ UNCHANGED <<sensors, rules, logs, config, disk, req, pub, sit, rit, client, n,
                       promised, byRule, deleted, reseeded, disturbed>>
    BY <1>1 DEF StartupFails, store, loop, bounds, history
  <2>2. Scalars' /\ LoopTyped' /\ Dictionaries' /\ FilesTyped'
    BY <2>1, <1>0 DEF Scalars, LoopTyped, Dictionaries, FilesTyped
  <2>3. RequestTyped'
    BY <2>1, <1>0 DEF RequestTyped, File
  <2> QED BY <2>2, <2>3, <1>0
<1>2. CASE StartsWithSensors
  <2>1. /\ Load /\ sensors' = disk["sensors"][1] /\ promised' = Parts
        /\ UNCHANGED <<disk, deleted, reseeded>>
    BY <1>2 DEF StartsWithSensors
  <2> QED BY <2>1, <1>0, LoadTyped, StartTyped DEF FilesTyped, Scalars
<1>3. CASE StartsWithSeed
  <2>1. /\ Load /\ sensors' = Seed /\ promised' \in {Parts, {"config"}}
        /\ deleted' = deleted /\ reseeded' \subseteq reseeded \cup deleted
        /\ disk' \in {disk, [disk EXCEPT !["sensors"] = Torn],
                      [disk EXCEPT !["sensors"] = <<Seed>>]}
    BY <1>3 DEF StartsWithSeed
  <2>2. <<Seed>> \in Wrapped(Contents("sensors"))
    BY SeedMaps, ContentTypes, WrapIt
  <2>3. FilesTyped'
    BY <2>1, <2>2, <1>0 DEF FilesTyped
  <2> QED BY <2>1, <2>3, <1>0, SeedMaps, StartTyped DEF Scalars, Parts
<1>4. CASE Dies
  <2>1. /\ proc' = "down" /\ sensors' = Empty /\ rules' = Empty /\ logs' = <<>>
        /\ config' = 0 /\ req' = NoRequest
        /\ pub' = Waiting /\ sit' = NoIter /\ rit' = NoIter /\ client' = TRUE
        /\ UNCHANGED <<disk, n, promised, byRule, deleted, reseeded, disturbed>>
    BY <1>4 DEF Dies, history
  <2>2. logs' \in Seq(1..MaxRequests) /\ Len(logs') = 0 /\ 0 <= LogCap
        /\ 0 \in 0..MaxRequests
    BY <2>1, EmptySeq, StoreAssumption
  <2>3. Scalars' /\ FilesTyped'
    BY <2>1, <2>2, <1>0 DEF Scalars, FilesTyped
  <2>4. Dictionaries' /\ LoopTyped'
    BY <2>1, EmptyMaps, NoIterType DEF Dictionaries, LoopTyped
  <2>5. RequestTyped'
    BY <2>1, NoneSaved DEF RequestTyped, Pending
  <2> QED BY <2>3, <2>4, <2>5, <1>0
<1>5. CASE Requests
  BY <1>5, RequestsTyped
<1>6. CASE Handler
  BY <1>6, HandlerTyped
<1>7. CASE PublishLoop
  BY <1>7, PublishTyped
<1>8. CASE UNCHANGED vars
  <2>1. UNCHANGED <<proc, sensors, rules, logs, config, disk, req, pub, sit, rit, client,
                    n, promised, byRule, deleted, reseeded, disturbed>>
    BY <1>8 DEF vars, store, loop, bounds, history
  <2>2. Scalars' /\ LoopTyped' /\ Dictionaries' /\ FilesTyped' /\ RequestTyped'
    BY <2>1, <1>0 DEF Scalars, LoopTyped, Dictionaries, FilesTyped, RequestTyped, File
  <2> QED BY <2>2, <1>0
<1>9. CASE Reconnects
  <2>1. /\ proc = "up" /\ client' = TRUE
        /\ UNCHANGED <<proc, sensors, rules, logs, config, disk, req, pub, sit, rit, n,
                       promised, byRule, deleted, reseeded, disturbed>>
    BY <1>9 DEF Reconnects, store, bounds, history
  <2>2. Scalars' /\ LoopTyped' /\ Dictionaries' /\ FilesTyped' /\ RequestTyped'
    BY <2>1, <1>0 DEF Scalars, LoopTyped, Dictionaries, FilesTyped, RequestTyped, File
  <2> QED BY <2>2, <1>0
<1> QED BY <1>1, <1>2, <1>3, <1>4, <1>5, <1>6, <1>7, <1>8, <1>9 DEF Next

-----------------------------------------------------------------------------
(***************************************************************************)
(* The publish loop.  Its iterators yield keys the dictionaries have; and  *)
(* where no key came or went since the startup, and no client was dropped, *)
(* they count what is left of them, what a rule was checked for is still   *)
(* there, and so is the client.                                            *)
(***************************************************************************)
Follows ==
    /\ proc # "up" => pub = Waiting /\ client = TRUE
    /\ ~Iterating => sit = NoIter
    /\ ~InRules => rit = NoIter
    /\ sit.todo \subseteq DOMAIN sensors /\ rit.todo \subseteq DOMAIN rules

Counts(it, d) ==
    it.size = Cardinality(DOMAIN d) /\ it.left = Cardinality(it.todo)

Steady ==
    /\ pub.at # "dead" /\ client = TRUE
    /\ Iterating => Counts(sit, sensors)
    /\ InRules => Counts(rit, rules)
    /\ pub.at \in {"checked", "write"} => pub.target \in DOMAIN sensors

Tracks   == Follows /\ (~disturbed => Steady)
QuietInv == TypeInv /\ Tracks

LEMMA IteratorFields ==
    /\ NoIter.todo = {} /\ Waiting.at = "wait"
    /\ \A K : \A it \in Iterators(K), active \in BOOLEAN, S \in SUBSET K :
         /\ Grown(it, active, S).todo = IF active THEN it.todo \cup S ELSE it.todo
         /\ Shrunk(it, active, S).todo = IF active THEN it.todo \ S ELSE it.todo
         /\ ~active => Grown(it, active, S) = it /\ Shrunk(it, active, S) = it
         /\ S = {} => Grown(it, active, S) = it
    /\ \A K : \A it \in Iterators(K) : \A k :
         /\ Rest(it, k).todo = it.todo \ {k} /\ Rest(it, k).size = it.size
         /\ Rest(it, k).left = it.left - 1
BY DEF NoIter, Waiting, Iterators, Grown, Shrunk, Rest

LEMMA QuietInit == Init => QuietInv
BY TypeInit, IteratorFields
   DEF Init, QuietInv, Tracks, Follows, Steady, Iterating, InRules

(* An iterator that counts what is left of a finite dictionary raises      *)
(* nothing, and goes on counting.                                          *)
LEMMA CountsOn ==
    ASSUME NEW K, NEW V, NEW d \in FiniteMaps(K, V), NEW it \in Iterators(K),
           it.todo \subseteq DOMAIN d, Counts(it, d)
    PROVE  /\ ~Raises(it, d)
           /\ \A k \in it.todo : Counts(Rest(it, k), d)
<1>1. IsFiniteSet(DOMAIN d)
  BY MapElim
<1>2. IsFiniteSet(it.todo)
  BY <1>1, FS_Subset
<1>3. it.todo # {} => it.left # 0
  BY <1>2, FS_EmptySet DEF Counts
<1>4. ~Raises(it, d)
  BY <1>3 DEF Raises, Counts
<1>5. ASSUME NEW k \in it.todo PROVE Counts(Rest(it, k), d)
  <2>1. Cardinality(it.todo \ {k}) = Cardinality(it.todo) - 1
    BY <1>2, FS_RemoveElement
  <2>2. /\ Rest(it, k).todo = it.todo \ {k} /\ Rest(it, k).size = it.size
        /\ Rest(it, k).left = it.left - 1
    BY IteratorFields
  <2>3. it.size = Cardinality(DOMAIN d) /\ it.left = Cardinality(it.todo)
    BY DEF Counts
  <2> QED BY <2>1, <2>2, <2>3 DEF Counts
<1> QED BY <1>4, <1>5

LEMMA SameTracks ==
    ASSUME Tracks, UNCHANGED <<proc, pub, sit, rit, client, disturbed>>,
           DOMAIN sensors' = DOMAIN sensors, DOMAIN rules' = DOMAIN rules
    PROVE  Tracks'
BY DEF Tracks, Follows, Steady, Counts, Iterating, InRules

(* A request adds or takes a key under the iterators.                      *)
LEMMA KeysMove ==
    ASSUME NEW K, NEW it \in Iterators(K), NEW active \in BOOLEAN,
           NEW S \in SUBSET K, NEW D, it.todo \subseteq D, ~active => it = NoIter
    PROVE  /\ Grown(it, active, S).todo \subseteq D \cup S
           /\ Shrunk(it, active, S).todo \subseteq D \ S
           /\ ~active => Grown(it, active, S) = NoIter /\ Shrunk(it, active, S) = NoIter
<1>1. CASE active
  <2>1. /\ Grown(it, active, S).todo = it.todo \cup S
        /\ Shrunk(it, active, S).todo = it.todo \ S
    BY <1>1 DEF Iterators, Grown, Shrunk
  <2> QED BY <1>1, <2>1
<1>2. CASE ~active
  <2>1. Grown(it, active, S) = NoIter /\ Shrunk(it, active, S) = NoIter
    BY <1>2 DEF Grown, Shrunk
  <2> QED BY <2>1, IteratorFields
<1> QED BY <1>1, <1>2

LEMMA KeysChange ==
    ASSUME QuietInv, proc = "up", UNCHANGED <<proc, pub>>, disturbed' = TRUE,
           \/ /\ UNCHANGED <<rit, rules>>
              /\ \E S \in SUBSET Sensors :
                    \/ /\ sit' = Grown(sit, Iterating, S)
                       /\ DOMAIN sensors' = DOMAIN sensors \cup S
                    \/ /\ sit' = Shrunk(sit, Iterating, S)
                       /\ DOMAIN sensors' = DOMAIN sensors \ S
           \/ /\ UNCHANGED <<sit, sensors>>
              /\ \E S \in SUBSET Rules :
                    \/ /\ rit' = Grown(rit, InRules, S)
                       /\ DOMAIN rules' = DOMAIN rules \cup S
                    \/ /\ rit' = Shrunk(rit, InRules, S)
                       /\ DOMAIN rules' = DOMAIN rules \ S
    PROVE  Tracks'
<1>1. /\ sit \in Iterators(Sensors) /\ rit \in Iterators(Rules)
      /\ Iterating \in BOOLEAN /\ InRules \in BOOLEAN
      /\ Iterating' = Iterating /\ InRules' = InRules
  BY DEF QuietInv, TypeInv, TypeOK, Iterating, InRules
<1>2. /\ ~Iterating => sit = NoIter
      /\ ~InRules => rit = NoIter
      /\ sit.todo \subseteq DOMAIN sensors /\ rit.todo \subseteq DOMAIN rules
  BY DEF QuietInv, Tracks, Follows
<1>3. /\ sit'.todo \subseteq DOMAIN sensors' /\ rit'.todo \subseteq DOMAIN rules'
      /\ ~Iterating => sit' = NoIter
      /\ ~InRules => rit' = NoIter
  <2>1. CASE /\ UNCHANGED <<rit, rules>>
             /\ \E S \in SUBSET Sensors :
                   \/ /\ sit' = Grown(sit, Iterating, S)
                      /\ DOMAIN sensors' = DOMAIN sensors \cup S
                   \/ /\ sit' = Shrunk(sit, Iterating, S)
                      /\ DOMAIN sensors' = DOMAIN sensors \ S
    BY <2>1, <1>1, <1>2, KeysMove
  <2>2. CASE /\ UNCHANGED <<sit, sensors>>
             /\ \E S \in SUBSET Rules :
                   \/ /\ rit' = Grown(rit, InRules, S)
                      /\ DOMAIN rules' = DOMAIN rules \cup S
                   \/ /\ rit' = Shrunk(rit, InRules, S)
                      /\ DOMAIN rules' = DOMAIN rules \ S
    BY <2>2, <1>1, <1>2, KeysMove
  <2> QED BY <2>1, <2>2
<1> QED BY <1>1, <1>3 DEF Tracks, Follows

LEMMA RequestsTrack == QuietInv /\ Requests => Tracks'
<1> SUFFICES ASSUME QuietInv, Requests PROVE Tracks'
  OBVIOUS
<1>0. /\ Tracks /\ sit \in Iterators(Sensors) /\ Iterating \in BOOLEAN
      /\ DOMAIN sensors \subseteq Sensors /\ disturbed \in BOOLEAN
  BY MapElim DEF QuietInv, TypeInv, TypeOK, Iterating
<1>1. ASSUME NEW kind, NEW S \in SUBSET Sensors, NEW v, AddSensors(kind, S, v) PROVE Tracks'
  <2>1. /\ proc = "up" /\ UNCHANGED <<proc, pub, rules, rit, client>>
        /\ DOMAIN sensors' = DOMAIN sensors \cup S
        /\ sit' = Grown(sit, Iterating, S \ DOMAIN sensors)
        /\ disturbed' = (disturbed \/ ~(S \subseteq DOMAIN sensors))
    BY <1>1 DEF AddSensors, Accept
  <2>2. CASE S \subseteq DOMAIN sensors
    <3>1. S \ DOMAIN sensors = {} /\ DOMAIN sensors' = DOMAIN sensors
      BY <2>1, <2>2
    <3>2. sit' = sit /\ disturbed' = disturbed
      BY <2>1, <2>2, <3>1, <1>0, IteratorFields
    <3> QED BY <2>1, <3>1, <3>2, <1>0, SameTracks
  <2>3. CASE ~(S \subseteq DOMAIN sensors)
    <3>1. DOMAIN sensors' = DOMAIN sensors \cup (S \ DOMAIN sensors)
          /\ S \ DOMAIN sensors \in SUBSET Sensors /\ disturbed' = TRUE
      BY <2>1, <2>3
    <3> QED BY <2>1, <3>1, KeysChange
  <2> QED BY <2>2, <2>3
<1>2. ASSUME NEW kind, NEW new, SetSensors(kind, new), DOMAIN new = DOMAIN sensors
      PROVE  Tracks'
  BY <1>2, <1>0, SameTracks DEF SetSensors, Accept
<1>3. ASSUME NEW s \in Sensors, DeleteSensor(s) PROVE Tracks'
  <2>1. /\ proc = "up" /\ UNCHANGED <<proc, pub, rules, rit>> /\ disturbed' = TRUE
        /\ DOMAIN sensors' = DOMAIN sensors \ {s} /\ sit' = Shrunk(sit, Iterating, {s})
        /\ {s} \in SUBSET Sensors
    BY <1>3 DEF DeleteSensor, Accept
  <2> QED BY <2>1, KeysChange
<1>4. ASSUME NEW r \in Rules PROVE DeleteRule(r) => Tracks'
  <2> SUFFICES ASSUME DeleteRule(r) PROVE Tracks'
    OBVIOUS
  <2>1. /\ proc = "up" /\ UNCHANGED <<proc, pub, sensors, sit>> /\ disturbed' = TRUE
        /\ DOMAIN rules' = DOMAIN rules \ {r} /\ rit' = Shrunk(rit, InRules, {r})
        /\ {r} \in SUBSET Rules
    BY DEF DeleteRule, SetRules, Accept
  <2> QED BY <2>1, KeysChange
<1>5. ASSUME NEW r \in Rules, NEW v \in Rule, CreateRule(r, v) PROVE Tracks'
  <2>1. /\ proc = "up" /\ UNCHANGED <<proc, pub, sensors, sit>> /\ disturbed' = TRUE
        /\ DOMAIN rules' = DOMAIN rules \cup {r} /\ rit' = Grown(rit, InRules, {r})
        /\ {r} \in SUBSET Rules
    BY <1>5 DEF CreateRule, SetRules, Accept
  <2> QED BY <2>1, KeysChange
<1>6. ASSUME NEW r \in Rules, NEW v \in Rule, UpdateRule(r, v) PROVE Tracks'
  <2>1. /\ UNCHANGED <<proc, pub, sensors, sit, rit, client, disturbed>>
        /\ DOMAIN rules' = DOMAIN rules
    BY <1>6 DEF UpdateRule, SetRules, Accept
  <2> QED BY <2>1, <1>0, SameTracks
<1>7. CASE UpdateRaises
  <2>1. /\ UNCHANGED <<proc, pub, sit, rit, client, disturbed>>
        /\ DOMAIN sensors' = DOMAIN sensors /\ DOMAIN rules' = DOMAIN rules
    BY <1>7 DEF UpdateRaises, Accept
  <2> QED BY <2>1, <1>0, SameTracks
<1>8. CASE UpdateConfig
  BY <1>8, <1>0, SameTracks DEF UpdateConfig, Accept, store
<1>9. ASSUME NEW s \in Sensors
      PROVE  ToggleSensor(s) \/ (\E v \in NewSensors : UpdateSensor(s, v)) => Tracks'
  BY <1>2 DEF ToggleSensor, UpdateSensor
<1>10. BulkEnable \/ BulkDisable \/ BulkReset => Tracks'
  BY <1>2 DEF BulkEnable, BulkDisable, BulkReset
<1>11. ASSUME NEW s \in Sensors, NEW v \in NewSensors, CreateSensor(s, v) PROVE Tracks'
  <2>1. {s} \in SUBSET Sensors
    OBVIOUS
  <2> QED BY <2>1, <1>1, <1>11 DEF CreateSensor
<1>12. CASE SeedSensors
  BY <1>1, <1>12, StoreAssumption DEF SeedSensors
<1> QED BY <1>3, <1>4, <1>5, <1>6, <1>7, <1>8, <1>9, <1>10, <1>11, <1>12 DEF Requests

LEMMA PublishTracks == QuietInv /\ PublishLoop => Tracks'
<1> SUFFICES ASSUME QuietInv, PublishLoop PROVE Tracks'
  OBVIOUS
<1>0. /\ sit \in Iterators(Sensors) /\ rit \in Iterators(Rules)
      /\ sensors \in FiniteMaps(Sensors, Sensor) /\ rules \in FiniteMaps(Rules, Rule)
      /\ Tracks /\ Follows
  BY DEF QuietInv, TypeInv, TypeOK, Tracks
<1>1. UNCHANGED <<proc, rules, client, disturbed>> /\ proc = "up"
  BY DEF PublishLoop, BeginPass, NextSensor, NextRule, RuleReads, RuleWrites, Sends, InLoop
<1>2. ASSUME ThreadEnds, disturbed PROVE Tracks'
  <2>1. pub' = [at |-> "dead"] /\ sit' = NoIter /\ rit' = NoIter /\ sensors' = sensors
    BY <1>2 DEF ThreadEnds
  <2> QED BY <2>1, <1>1, <1>2, IteratorFields DEF Tracks, Follows
<1>3. /\ ~disturbed /\ Iterating =>
           ~Raises(sit, sensors) /\ \A k \in sit.todo : Counts(Rest(sit, k), sensors)
      /\ ~disturbed /\ InRules =>
           ~Raises(rit, rules) /\ \A k \in rit.todo : Counts(Rest(rit, k), rules)
  BY <1>0, CountsOn DEF Tracks, Follows, Steady
<1>4. /\ Counts(IteratorOver(sensors), sensors) /\ Counts(IteratorOver(rules), rules)
      /\ IteratorOver(sensors).todo = DOMAIN sensors
      /\ IteratorOver(rules).todo = DOMAIN rules
  BY <1>0, IteratorTypes DEF Counts
<1>5. CASE BeginPass
  <2>1. /\ pub.at = "wait" /\ pub' = [at |-> "sensors"] /\ sit' = IteratorOver(sensors)
        /\ UNCHANGED <<sensors, rit>>
    BY <1>5 DEF BeginPass, InLoop
  <2>2. rit' = NoIter /\ ~InRules' /\ Iterating'
    BY <2>1, <1>0 DEF Follows, InRules, Iterating
  <2>3. Follows'
    BY <2>1, <2>2, <1>0, <1>1, <1>4, IteratorFields DEF Follows
  <2>4. ~disturbed => Steady'
    BY <2>1, <2>2, <1>0, <1>1, <1>4 DEF Tracks, Steady, Counts
  <2> QED BY <2>3, <2>4, <1>1 DEF Tracks
<1>6. CASE NextSensor
  <2>0. pub.at = "sensors" /\ Iterating /\ ~InRules /\ rit = NoIter
    BY <1>6, <1>0 DEF NextSensor, InLoop, Iterating, InRules, Follows
  <2>1. CASE Raises(sit, sensors) /\ ThreadEnds
    BY <2>0, <2>1, <1>2, <1>3
  <2>2. CASE pub' = Waiting /\ sit' = NoIter /\ UNCHANGED <<sensors, rit, byRule>>
    BY <2>0, <2>2, <1>0, <1>1, IteratorFields DEF Tracks, Follows, Steady, Iterating, InRules
  <2>3. ASSUME NEW s \in sit.todo, sit' = Rest(sit, s), UNCHANGED <<sensors, byRule>>,
               IF sensors[s].enabled
               THEN pub' = [at |-> "rules", reading |-> s] /\ rit' = IteratorOver(rules)
               ELSE UNCHANGED <<pub, rit>>
        PROVE  Tracks'
    <3>1. sit'.todo \subseteq DOMAIN sensors' /\ (~disturbed => Counts(sit', sensors'))
      <4>1. sit'.todo = sit.todo \ {s}
        BY <2>3, <1>0, IteratorFields
      <4> QED BY <4>1, <2>0, <2>3, <1>0, <1>3 DEF Follows
    <3>2. CASE pub' = [at |-> "rules", reading |-> s] /\ rit' = IteratorOver(rules)
      BY <3>1, <3>2, <2>3, <1>0, <1>1, <1>4
         DEF Tracks, Follows, Steady, Counts, Iterating, InRules
    <3>3. CASE UNCHANGED <<pub, rit>>
      BY <3>1, <3>3, <2>0, <1>0, <1>1, IteratorFields
         DEF Tracks, Follows, Steady, Counts, Iterating, InRules
    <3> QED BY <3>2, <3>3, <2>3
  <2> QED BY <1>6, <2>1, <2>2, <2>3 DEF NextSensor
<1>7. CASE NextRule
  <2>0. pub.at = "rules" /\ Iterating /\ InRules
    BY <1>7 DEF NextRule, InLoop, Iterating, InRules
  <2>1. CASE Raises(rit, rules) /\ ThreadEnds
    BY <2>0, <2>1, <1>2, <1>3
  <2>2. CASE /\ pub' = [at |-> "sensors"] \/ pub' = [at |-> "send"]
             /\ rit' = NoIter /\ UNCHANGED <<sensors, sit, byRule>>
    BY <2>0, <2>2, <1>0, <1>1, IteratorFields
       DEF Tracks, Follows, Steady, Counts, Iterating, InRules
  <2>3. ASSUME NEW r \in rit.todo, rit' = Rest(rit, r), UNCHANGED <<sensors, sit, byRule>>,
               \/ UNCHANGED pub
               \/ /\ Applies(r)
                  /\ pub' = [at |-> "checked", reading |-> pub.reading,
                             target |-> rules[r].body.target,
                             enable |-> rules[r].body.enable]
        PROVE  Tracks'
    <3>1. rit'.todo \subseteq DOMAIN rules' /\ (~disturbed => Counts(rit', rules'))
      <4>1. rit'.todo = rit.todo \ {r}
        BY <2>3, <1>0, IteratorFields
      <4> QED BY <4>1, <2>0, <2>3, <1>0, <1>1, <1>3 DEF Follows
    <3>2. pub'.at \in {"rules", "checked"}
          /\ (pub'.at = "checked" => pub'.target \in DOMAIN sensors)
      BY <2>0, <2>3 DEF Applies
    <3>3. Follows'
      BY <3>1, <3>2, <2>3, <2>0, <1>0, <1>1 DEF Follows, Iterating, InRules
    <3>4. ~disturbed => Steady'
      BY <3>1, <3>2, <2>3, <2>0, <1>0, <1>1 DEF Tracks, Steady, Counts, Iterating, InRules
    <3> QED BY <3>3, <3>4, <1>1 DEF Tracks
  <2> QED BY <1>7, <2>1, <2>2, <2>3 DEF NextRule
<1>8. CASE RuleReads
  <2>0. pub.at = "checked" /\ Iterating /\ InRules
    BY <1>8 DEF RuleReads, InLoop, Iterating, InRules
  <2>1. CASE pub.target \notin DOMAIN sensors /\ ThreadEnds
    BY <2>0, <2>1, <1>0, <1>2 DEF Tracks, Steady
  <2>2. ASSUME pub'.at = "write", pub'.target = pub.target, UNCHANGED <<sensors, sit, rit>>
        PROVE  Tracks'
    <3>1. Follows'
      BY <2>0, <2>2, <1>0, <1>1 DEF Follows, Iterating, InRules
    <3>2. ~disturbed => Steady'
      BY <2>0, <2>2, <1>0, <1>1 DEF Tracks, Steady, Counts, Iterating, InRules
    <3> QED BY <3>1, <3>2, <1>1 DEF Tracks
  <2> QED BY <1>8, <2>1, <2>2 DEF RuleReads
<1>9. CASE RuleWrites
  <2>0. pub.at = "write" /\ Iterating /\ InRules
    BY <1>9 DEF RuleWrites, InLoop, Iterating, InRules
  <2>1. CASE pub.target \notin DOMAIN sensors /\ ThreadEnds
    BY <2>0, <2>1, <1>0, <1>2 DEF Tracks, Steady
  <2>2. ASSUME pub'.at = "rules", DOMAIN sensors' = DOMAIN sensors, UNCHANGED <<sit, rit>>
        PROVE  Tracks'
    <3>1. Follows'
      BY <2>0, <2>2, <1>0, <1>1 DEF Follows, Iterating, InRules
    <3>2. ~disturbed => Steady'
      BY <2>0, <2>2, <1>0, <1>1 DEF Tracks, Steady, Counts, Iterating, InRules
    <3> QED BY <3>1, <3>2, <1>1 DEF Tracks
  <2> QED BY <1>9, <2>1, <2>2 DEF RuleWrites
<1>10. CASE Sends
  <2>0. pub.at = "send" /\ Iterating /\ ~InRules /\ rit = NoIter
    BY <1>10, <1>0 DEF Sends, InLoop, Iterating, InRules, Follows
  <2>1. CASE ~client /\ ThreadEnds
    BY <2>1, <1>0, <1>2 DEF Tracks, Steady
  <2>2. CASE pub' = [at |-> "sensors"] /\ UNCHANGED <<sensors, sit, rit, byRule>>
    BY <2>0, <2>2, <1>0, <1>1
       DEF Tracks, Follows, Steady, Counts, Iterating, InRules
  <2> QED BY <1>10, <2>1, <2>2 DEF Sends
<1> QED BY <1>5, <1>6, <1>7, <1>8, <1>9, <1>10 DEF PublishLoop

LEMMA QuietStep == QuietInv /\ [Next]_vars => QuietInv'
<1> SUFFICES ASSUME QuietInv, [Next]_vars PROVE QuietInv'
  OBVIOUS
<1>0. TypeInv /\ Tracks /\ Follows /\ rit.todo \subseteq DOMAIN rules
  BY DEF QuietInv, Tracks, Follows
<1>1. TypeInv'
  BY <1>0, TypeStep
<1>2. Tracks'
  <2>1. CASE StartupFails
    <3>1. proc = "down" /\ UNCHANGED <<sensors, rules, pub, sit, rit, client, disturbed>>
      BY <2>1 DEF StartupFails, store, loop, history
    <3> QED BY <3>1, <1>0 DEF Tracks, Follows, Steady, Counts, Iterating, InRules
  <2>2. CASE StartsWithSensors \/ StartsWithSeed
    <3>1. proc = "down" /\ UNCHANGED <<pub, sit, rit, client>>
      BY <2>2 DEF StartsWithSensors, StartsWithSeed, Load, loop
    <3>2. pub = Waiting /\ client = TRUE
      BY <3>1, <1>0 DEF Follows
    <3>3. sit = NoIter /\ rit = NoIter
      BY <3>2, <1>0, IteratorFields DEF Follows, Iterating, InRules
    <3> QED BY <3>1, <3>2, <3>3, IteratorFields
            DEF Tracks, Follows, Steady, Iterating, InRules
  <2>3. CASE Dies
    <3>1. pub' = Waiting /\ sit' = NoIter /\ rit' = NoIter /\ client' = TRUE
      BY <2>3 DEF Dies
    <3> QED BY <3>1, IteratorFields DEF Tracks, Follows, Steady, Iterating, InRules
  <2>4. CASE Requests
    BY <2>4, RequestsTrack
  <2>5. CASE OpenFile \/ DumpFile \/ SaveRaises
    <3>1. UNCHANGED <<proc, sensors, rules, pub, sit, rit, client, disturbed>>
      BY <2>5 DEF OpenFile, DumpFile, SaveRaises, store, loop, history
    <3> QED BY <3>1, <1>0, SameTracks
  <2>8. CASE Answer
    <3>1. /\ proc = "up" /\ UNCHANGED <<proc, sensors, rules, pub, sit, rit>>
          /\ client' = (client /\ req.kind # "config")
          /\ disturbed' = (disturbed \/ req.kind = "config")
          /\ client \in BOOLEAN /\ disturbed \in BOOLEAN
      BY <2>8, <1>0 DEF Answer, TypeInv, TypeOK
    <3>2. CASE req.kind = "config"
      BY <3>1, <3>2, <1>0 DEF Tracks, Follows, Iterating, InRules
    <3>3. CASE req.kind # "config"
      <4>1. client' = client /\ disturbed' = disturbed
        BY <3>1, <3>3
      <4> QED BY <3>1, <4>1, <1>0, SameTracks
    <3> QED BY <3>2, <3>3
  <2>9. CASE Reconnects
    <3>1. client' = TRUE /\ UNCHANGED <<proc, sensors, rules, pub, sit, rit, disturbed>>
      BY <2>9 DEF Reconnects, store, history
    <3> QED BY <3>1, <1>0 DEF Tracks, Follows, Steady, Counts, Iterating, InRules
  <2>6. CASE PublishLoop
    BY <2>6, PublishTracks
  <2>7. CASE UNCHANGED vars
    BY <2>7, <1>0, SameTracks DEF vars, store, loop, history
  <2> QED BY <2>1, <2>2, <2>3, <2>4, <2>5, <2>6, <2>7, <2>8, <2>9 DEF Next, Handler
<1> QED BY <1>1, <1>2 DEF QuietInv

LEMMA Quiet == Spec => []QuietInv
BY QuietInit, QuietStep, PTL DEF Spec

(* The dictionaries, the log, the files and the loop keep their types, over *)
(* every restart (router.py 33-49, main.py 60-142).                        *)
THEOREM TypeCorrect == Spec => []TypeOK
<1>1. QuietInv => TypeOK
  BY DEF QuietInv, TypeInv
<1> QED BY <1>1, Quiet, PTL

(* The publish loop outlives every pass of a process in which no request   *)
(* added or removed a key or replaced the MQTT client: neither iterator    *)
(* raises, no rule misses the sensor it was checked for, and publish()     *)
(* still has the client it tested (main.py 67-114, mqtt_client.py 98-105). *)
THEOREM QuietPublisherIsAlive == Spec => []QuietPublisherLives
<1>1. QuietInv => QuietPublisherLives
  BY DEF QuietInv, Tracks, Steady, QuietPublisherLives
<1> QED BY <1>1, Quiet, PTL

-----------------------------------------------------------------------------
(***************************************************************************)
(* What was answered.  A file or a snapshot w of it holds what memory does *)
(* up to a rule's switch; c is the configuration that counts.  The request *)
(* in hand promises nothing yet, and what it has saved holds what memory   *)
(* does, and so does the snapshot it is about to write.                    *)
(***************************************************************************)
Faithful(saved) ==
    /\ DOMAIN saved = DOMAIN sensors
    /\ \A s \in DOMAIN sensors :
          \/ saved[s] = sensors[s]
          \/ s \in byRule /\ saved[s].mode = sensors[s].mode

Holds(f, w, c) ==
    /\ f = "sensors" => w # Torn /\ Faithful(w[1])
    /\ f = "rules"   => w = <<rules>>
    /\ f = "logs"    => w = <<Newest(logs)>>
    /\ f = "config"  => w = <<c>>

FilesOf(part) == IF part = "config" THEN {"config"} ELSE {"sensors", "rules", "logs"}

Kept == proc = "up" =>
    \A part \in promised : \A f \in FilesOf(part) : Holds(f, disk[f], config)

Busy(part) ==
    /\ part \notin promised
    /\ ToSet(req.saves) \subseteq FilesOf(part)
    /\ \A f \in FilesOf(part) \ ToSet(req.saves) : Holds(f, disk[f], n)
    /\ req.snap # <<>> => disk[File] = Torn /\ Holds(File, req.snap, n)

InHand == IF req.kind = "none" THEN req = NoRequest ELSE Busy(PartOf(req.kind))

DurableInv == QuietInv /\ Kept /\ InHand

LEMMA SavesLeft ==
    /\ ToSet(<<>>) = {} /\ ToSet(<<"config">>) = {"config"}
    /\ ToSet(Persisted) = {"sensors", "rules", "logs"}
    /\ \A saves \in Pending \ {<<>>} :
         /\ ToSet(saves) = {Head(saves)} \cup ToSet(Tail(saves))
         /\ Head(saves) \notin ToSet(Tail(saves))
<1>1. /\ ToSet(<<>>) = {} /\ ToSet(<<"config">>) = {"config"}
      /\ ToSet(<<"logs">>) = {"logs"} /\ ToSet(<<"rules", "logs">>) = {"rules", "logs"}
      /\ ToSet(<<"sensors", "rules", "logs">>) = {"sensors", "rules", "logs"}
  BY DEF ToSet
<1>2. /\ Head(<<"logs">>) = "logs" /\ Tail(<<"logs">>) = <<>>
      /\ Head(<<"config">>) = "config" /\ Tail(<<"config">>) = <<>>
      /\ Head(<<"rules", "logs">>) = "rules" /\ Tail(<<"rules", "logs">>) = <<"logs">>
      /\ Head(<<"sensors", "rules", "logs">>) = "sensors"
      /\ Tail(<<"sensors", "rules", "logs">>) = <<"rules", "logs">>
  OBVIOUS
<1>3. ASSUME NEW saves \in Pending \ {<<>>}
      PROVE  /\ ToSet(saves) = {Head(saves)} \cup ToSet(Tail(saves))
             /\ Head(saves) \notin ToSet(Tail(saves))
  <2>1. CASE saves = <<"logs">>
    BY <2>1, <1>1, <1>2
  <2>2. CASE saves = <<"config">>
    BY <2>2, <1>1, <1>2
  <2>3. CASE saves = <<"rules", "logs">>
    BY <2>3, <1>1, <1>2
  <2>4. CASE saves = <<"sensors", "rules", "logs">>
    BY <2>4, <1>1, <1>2
  <2> QED BY <2>1, <2>2, <2>3, <2>4 DEF Pending, Persisted
<1> QED BY <1>1, <1>3 DEF Persisted

LEMMA PartsOfFiles ==
    /\ FilesOf("config") = {"config"}
    /\ FilesOf("store") = {"sensors", "rules", "logs"}
    /\ Parts = {"store", "config"}
    /\ PartOf("config") = "config" /\ PartOf("none") = "store"
    /\ \A kind : kind # "config" => PartOf(kind) = "store"
BY DEF FilesOf, Parts, PartOf

(* Nothing that a file is compared with has moved but by a rule.           *)
LEMMA StaysFaithful ==
    ASSUME NEW saved, Faithful(saved), DOMAIN sensors' = DOMAIN sensors,
           byRule \subseteq byRule',
           \A s \in DOMAIN sensors :
              \/ sensors'[s] = sensors[s]
              \/ s \in byRule' /\ sensors'[s].mode = sensors[s].mode
    PROVE  Faithful(saved)'
BY DEF Faithful

LEMMA HoldsOn ==
    ASSUME NEW w, NEW c, UNCHANGED <<rules, logs>>, DOMAIN sensors' = DOMAIN sensors,
           byRule \subseteq byRule',
           \A s \in DOMAIN sensors :
              \/ sensors'[s] = sensors[s]
              \/ s \in byRule' /\ sensors'[s].mode = sensors[s].mode,
           NEW f \in Files, Holds(f, w, c)
    PROVE  Holds(f, w, c)'
BY StaysFaithful DEF Holds, Files

LEMMA AcceptDurable ==
    ASSUME DurableInv, NEW kind, NEW saves, NEW S, Accept(kind, saves, S),
           config' = config,
           \/ kind = "none" /\ saves = <<>> /\ S = {}
           \/ kind = "config" /\ saves = <<"config">>
              /\ UNCHANGED <<sensors, rules, logs>>
           \/ kind \notin {"none", "config"} /\ saves = Persisted
    PROVE  Kept' /\ InHand'
<1>1. /\ req' = [kind |-> kind, saves |-> saves, snap |-> <<>>, on |-> S]
      /\ proc = "up" /\ UNCHANGED <<proc, disk, byRule>>
      /\ promised' = promised \ {PartOf(kind)} /\ promised \subseteq Parts
  BY DEF Accept, DurableInv, QuietInv, TypeInv, TypeOK
<1>2. \A part \in promised : \A f \in FilesOf(part) : Holds(f, disk[f], config)
  BY <1>1 DEF DurableInv, Kept
<1>3. Kept'
  <2>1. CASE kind = "config"
    <3>1. promised' \subseteq {"store"} /\ promised' \subseteq promised
          /\ UNCHANGED <<sensors, rules, logs>>
      BY <1>1, <2>1, PartsOfFiles
    <3> QED BY <1>1, <1>2, <3>1 DEF Kept, Holds, Faithful
  <2>2. CASE kind # "config"
    <3>1. promised' \subseteq {"config"} /\ promised' \subseteq promised
      BY <1>1, <2>2, PartsOfFiles
    <3> QED BY <1>1, <1>2, <3>1, PartsOfFiles DEF Kept, Holds
  <2> QED BY <2>1, <2>2
<1>4. InHand'
  <2>1. CASE kind = "none" /\ saves = <<>> /\ S = {}
    BY <1>1, <2>1 DEF InHand, NoRequest
  <2>2. CASE kind # "none" /\ ToSet(saves) = FilesOf(PartOf(kind))
    BY <1>1, <2>2 DEF InHand, Busy
  <2>3. kind # "none" => ToSet(saves) = FilesOf(PartOf(kind))
    BY SavesLeft, PartsOfFiles
  <2> QED BY <2>1, <2>2, <2>3
<1> QED BY <1>3, <1>4

LEMMA RequestsDurable == DurableInv /\ Requests => Kept' /\ InHand'
<1> SUFFICES ASSUME DurableInv, Requests PROVE Kept' /\ InHand'
  OBVIOUS
<1>1. ASSUME NEW kind \in {"create", "seed", "update", "toggle", "bulk", "rule", "delete"},
             NEW S, Accept(kind, Persisted, S), config' = config
      PROVE  Kept' /\ InHand'
  BY <1>1, AcceptDurable
<1>2. ASSUME UpdateRaises PROVE Kept' /\ InHand'
  BY <1>2, AcceptDurable DEF UpdateRaises
<1>3. ASSUME UpdateConfig PROVE Kept' /\ InHand'
  BY <1>3, AcceptDurable DEF UpdateConfig, store
<1>4. ASSUME NEW s \in Sensors
      PROVE  DeleteSensor(s) \/ ToggleSensor(s)
               \/ (\E v \in NewSensors : CreateSensor(s, v) \/ UpdateSensor(s, v))
             => Kept' /\ InHand'
  BY <1>1 DEF DeleteSensor, ToggleSensor, CreateSensor, UpdateSensor, AddSensors, SetSensors
<1>5. SeedSensors \/ BulkEnable \/ BulkDisable \/ BulkReset => Kept' /\ InHand'
  BY <1>1 DEF SeedSensors, BulkEnable, BulkDisable, BulkReset, AddSensors, SetSensors
<1>6. ASSUME NEW r \in Rules
      PROVE  DeleteRule(r) \/ (\E v \in Rule : CreateRule(r, v) \/ UpdateRule(r, v))
             => Kept' /\ InHand'
  BY <1>1 DEF DeleteRule, CreateRule, UpdateRule, SetRules
<1> QED BY <1>2, <1>3, <1>4, <1>5, <1>6 DEF Requests

(* The request in hand, where it has a file to save: the part of its files  *)
(* promises nothing, and the file is of that part.                         *)
LEMMA SavingPart ==
    ASSUME DurableInv, req.saves # <<>>
    PROVE  \E part \in Parts :
              /\ part = PartOf(req.kind) /\ Busy(part) /\ req.kind # "none"
              /\ File \in FilesOf(part) /\ File \in Files
              /\ File \in ToSet(req.saves)
              /\ \A other \in Parts : other # part => File \notin FilesOf(other)
<1>1. req.kind # "none" /\ Busy(PartOf(req.kind)) /\ req.saves \in Pending
  BY NoneSaved DEF DurableInv, InHand, QuietInv, TypeInv, RequestTyped
<1>2. PartOf(req.kind) \in Parts
  BY PartsOfFiles
<1>3. File \in ToSet(req.saves) /\ File \in Files
  BY <1>1, Saves, SavesLeft DEF File
<1>4. File \in FilesOf(PartOf(req.kind))
  BY <1>1, <1>3 DEF Busy
<1> QED BY <1>1, <1>2, <1>3, <1>4, PartsOfFiles

LEMMA OpenDurable == DurableInv /\ OpenFile => Kept' /\ InHand'
<1> SUFFICES ASSUME DurableInv, OpenFile PROVE Kept' /\ InHand'
  OBVIOUS
<1>1. /\ req.saves # <<>> /\ req.snap = <<>>
      /\ logs' = IF File = "logs" THEN AddLog ELSE logs
      /\ req' = [req EXCEPT !.snap = <<Content(File, logs')>>]
      /\ disk' = [disk EXCEPT ![File] = Torn]
      /\ byRule' = IF File = "sensors" THEN {} ELSE byRule
      /\ UNCHANGED <<proc, sensors, rules, config, n, promised>>
  BY DEF OpenFile, bounds
<1>2. PICK part \in Parts :
        /\ part = PartOf(req.kind) /\ Busy(part) /\ req.kind # "none"
        /\ File \in FilesOf(part) /\ File \in Files
        /\ File \in ToSet(req.saves)
        /\ \A other \in Parts : other # part => File \notin FilesOf(other)
  BY <1>1, SavingPart
<1>3. /\ DOMAIN disk = Files /\ DOMAIN req = {"kind", "saves", "snap", "on"}
      /\ req.saves \in Pending /\ promised \subseteq Parts
  BY DEF DurableInv, QuietInv, TypeInv, TypeOK, FilesTyped, RequestTyped
<1>4. /\ req'.kind = req.kind /\ req'.saves = req.saves
      /\ req'.snap = <<Content(File, logs')>> /\ File' = File /\ disk'[File] = Torn
      /\ \A f \in Files : f # File => disk'[f] = disk[f]
  BY <1>1, <1>2, <1>3 DEF File
<1>5. Kept'
  <2> SUFFICES ASSUME proc = "up", NEW other \in promised, NEW f \in FilesOf(other)
               PROVE  Holds(f, disk[f], config)'
    BY <1>1 DEF Kept, FilesOf
  <2>1. other # part /\ f # File /\ other \in Parts
    BY <1>2, <1>3 DEF Busy
  <2>2. Holds(f, disk[f], config) /\ f \in Files /\ disk'[f] = disk[f]
    BY <2>1, <1>4, PartsOfFiles DEF DurableInv, Kept, Files
  <2>3. CASE other = "config"
    BY <2>2, <2>3, <1>1, PartsOfFiles DEF Holds
  <2>4. CASE other = "store"
    <3>1. File = "config"
      BY <2>1, <2>4, <1>2, PartsOfFiles
    <3> QED BY <2>2, <3>1, <1>1 DEF Holds, Faithful
  <2> QED BY <2>1, <2>3, <2>4, PartsOfFiles
<1>6. ASSUME NEW f \in FilesOf(part) \ ToSet(req.saves)
      PROVE  Holds(f, disk[f], n)'
  <2>1. f # File /\ Holds(f, disk[f], n) /\ f \in Files /\ disk'[f] = disk[f]
    BY <1>2, <1>4, <1>6, PartsOfFiles DEF Busy, Files
  <2>2. File # "sensors"
    BY <1>1, <1>2, <1>3, <1>6, Saves, SavesLeft, PartsOfFiles DEF File
  <2> QED BY <2>1, <2>2, <1>1 DEF Holds, Faithful
<1>7. Holds(File, req.snap, n)'
  <2>1. req'.snap[1] = Content(File, logs') /\ req'.snap # Torn
    BY <1>4 DEF Torn
  <2>2. CASE File = "sensors"
    BY <2>1, <2>2, <1>1, <1>4 DEF Holds, Faithful, Content
  <2>3. CASE File # "sensors"
    BY <2>3, <1>1, <1>2, <1>4 DEF Holds, Content, Files
  <2> QED BY <2>2, <2>3
<1>8. Busy(part)'
  BY <1>1, <1>2, <1>4, <1>6, <1>7 DEF Busy
<1>9. InHand'
  BY <1>2, <1>4, <1>8 DEF InHand
<1> QED BY <1>5, <1>9

LEMMA DumpDurable == DurableInv /\ DumpFile => Kept' /\ InHand'
<1> SUFFICES ASSUME DurableInv, DumpFile PROVE Kept' /\ InHand'
  OBVIOUS
<1>1. /\ req.saves # <<>> /\ req.snap # <<>>
      /\ disk' = [disk EXCEPT ![File] = req.snap]
      /\ req' = [req EXCEPT !.saves = Tail(@), !.snap = <<>>]
      /\ UNCHANGED <<proc, sensors, rules, logs, config, n, promised, byRule>>
  BY DEF DumpFile, bounds, store, history
<1>2. PICK part \in Parts :
        /\ part = PartOf(req.kind) /\ Busy(part) /\ req.kind # "none"
        /\ File \in FilesOf(part) /\ File \in Files
        /\ File \in ToSet(req.saves)
        /\ \A other \in Parts : other # part => File \notin FilesOf(other)
  BY <1>1, SavingPart
<1>3. /\ DOMAIN disk = Files /\ DOMAIN req = {"kind", "saves", "snap", "on"}
      /\ req.saves \in Pending /\ promised \subseteq Parts
  BY DEF DurableInv, QuietInv, TypeInv, TypeOK, FilesTyped, RequestTyped
<1>4. /\ req'.kind = req.kind /\ req'.saves = Tail(req.saves) /\ req'.snap = <<>>
      /\ disk'[File] = req.snap
      /\ \A f \in Files : f # File => disk'[f] = disk[f]
  BY <1>1, <1>2, <1>3
<1>5. Kept'
  <2> SUFFICES ASSUME proc = "up", NEW other \in promised, NEW f \in FilesOf(other)
               PROVE  Holds(f, disk[f], config)'
    BY <1>1 DEF Kept, FilesOf
  <2>1. other # part /\ f # File /\ other \in Parts
    BY <1>2, <1>3 DEF Busy
  <2>2. Holds(f, disk[f], config) /\ disk'[f] = disk[f]
    BY <2>1, <1>4, PartsOfFiles DEF DurableInv, Kept, Files
  <2> QED BY <2>2, <1>1 DEF Holds, Faithful
<1>6. ASSUME NEW f \in FilesOf(part) \ ToSet(req'.saves)
      PROVE  Holds(f, disk[f], n)'
  <2>1. ToSet(req.saves) = {File} \cup ToSet(req'.saves)
    BY <1>1, <1>3, <1>4, SavesLeft DEF File
  <2>2. f \in Files
    BY PartsOfFiles DEF Files
  <2>3. Holds(f, disk'[f], n)
    BY <2>1, <2>2, <1>1, <1>2, <1>4, <1>6 DEF Busy
  <2> QED BY <2>3, <1>1 DEF Holds, Faithful
<1>7. ToSet(req'.saves) \subseteq FilesOf(part)
  <2>1. ToSet(req.saves) = {File} \cup ToSet(req'.saves)
    BY <1>1, <1>3, <1>4, SavesLeft DEF File
  <2> QED BY <2>1, <1>2 DEF Busy
<1>8. Busy(part)'
  BY <1>1, <1>2, <1>4, <1>6, <1>7 DEF Busy
<1>9. InHand'
  BY <1>2, <1>4, <1>8 DEF InHand
<1> QED BY <1>5, <1>9

LEMMA EndDurable == DurableInv /\ (SaveRaises \/ Answer) => Kept' /\ InHand'
<1> SUFFICES ASSUME DurableInv, SaveRaises \/ Answer PROVE Kept' /\ InHand'
  OBVIOUS
<1>0. promised \subseteq Parts
  BY DEF DurableInv, QuietInv, TypeInv, TypeOK
<1>1. InHand'
  BY DEF SaveRaises, Answer, InHand, NoRequest
<1>2. CASE SaveRaises
  <2>1. /\ req.saves # <<>> /\ logs' = IF File = "logs" /\ req.snap = <<>> THEN AddLog ELSE logs
        /\ UNCHANGED <<proc, sensors, rules, config, disk, promised, byRule>>
    BY <1>2 DEF SaveRaises, history
  <2>2. PICK part \in Parts :
          /\ part = PartOf(req.kind) /\ Busy(part) /\ File \in FilesOf(part)
          /\ \A other \in Parts : other # part => File \notin FilesOf(other)
    BY <2>1, SavingPart
  <2> SUFFICES ASSUME proc = "up", NEW other \in promised, NEW f \in FilesOf(other)
               PROVE  Holds(f, disk[f], config)'
    BY <2>1, <1>1 DEF Kept, FilesOf
  <2>3. other # part /\ f # File /\ other \in Parts
    BY <2>2, <1>0 DEF Busy
  <2>4. Holds(f, disk[f], config)
    BY DEF DurableInv, Kept
  <2>5. f = "logs" => logs' = logs
    BY <2>1, <2>2, <2>3, PartsOfFiles
  <2> QED BY <2>1, <2>4, <2>5 DEF Holds, Faithful
<1>3. CASE Answer
  <2>1. /\ req.kind # "none" /\ req.saves = <<>>
        /\ promised' = promised \cup {PartOf(req.kind)}
        /\ config' = IF req.kind = "config" THEN n ELSE config
        /\ UNCHANGED <<proc, sensors, rules, logs, disk, byRule>>
    BY <1>3 DEF Answer
  <2>2. PartOf(req.kind) \notin promised
        /\ \A f \in FilesOf(PartOf(req.kind)) : Holds(f, disk[f], n)
    BY <2>1, SavesLeft DEF DurableInv, InHand, Busy
  <2> SUFFICES ASSUME proc = "up", NEW other \in promised', NEW f \in FilesOf(other)
               PROVE  Holds(f, disk[f], config)'
    BY <2>1, <1>1 DEF Kept, FilesOf
  <2>3. Holds(f, disk[f], config')
    <3>1. CASE other = PartOf(req.kind)
      <4>1. Holds(f, disk[f], n)
        BY <2>2, <3>1
      <4>2. f = "config" => config' = n
        BY <2>1, <3>1, PartsOfFiles
      <4> QED BY <4>1, <4>2 DEF Holds
    <3>2. CASE other # PartOf(req.kind)
      <4>1. other \in promised /\ Holds(f, disk[f], config)
        BY <2>1, <3>2 DEF DurableInv, Kept
      <4>2. f = "config" => config' = config
        BY <2>1, <4>1, <3>2, <1>0, PartsOfFiles
      <4> QED BY <4>1, <4>2 DEF Holds
    <3> QED BY <3>1, <3>2
  <2> QED BY <2>1, <2>3 DEF Holds, Faithful
<1> QED BY <1>2, <1>3

(* A rule's switch: the sensor is one the files need not agree on.         *)
LEMMA PublishDurable == DurableInv /\ PublishLoop => Kept' /\ InHand'
<1> SUFFICES ASSUME DurableInv, PublishLoop PROVE Kept' /\ InHand'
  OBVIOUS
<1>1. UNCHANGED <<proc, rules, logs, config, disk, req, n, promised>>
  BY DEF PublishLoop, BeginPass, NextSensor, NextRule, RuleReads, RuleWrites, Sends,
         InLoop, bounds
<1>2. /\ DOMAIN sensors' = DOMAIN sensors /\ byRule \subseteq byRule'
      /\ \A s \in DOMAIN sensors :
            \/ sensors'[s] = sensors[s]
            \/ s \in byRule' /\ sensors'[s].mode = sensors[s].mode
  <2>1. CASE UNCHANGED <<sensors, byRule>>
    BY <2>1
  <2>2. CASE /\ pub.target \in DOMAIN sensors
             /\ sensors' = [sensors EXCEPT ![pub.target].enabled = pub.want]
             /\ byRule' = byRule \cup {pub.target}
    <3>1. sensors \in [DOMAIN sensors -> Sensor]
      BY MapElim DEF DurableInv, QuietInv, TypeInv
    <3>2. \A s \in DOMAIN sensors :
             IF s = pub.target THEN sensors'[s] = [sensors[s] EXCEPT !.enabled = pub.want]
                               ELSE sensors'[s] = sensors[s]
      BY <2>2
    <3>3. DOMAIN sensors' = DOMAIN sensors /\ byRule \subseteq byRule' /\ pub.target \in byRule'
      BY <2>2
    <3>4. ASSUME NEW s \in DOMAIN sensors
          PROVE  \/ sensors'[s] = sensors[s]
                 \/ s \in byRule' /\ sensors'[s].mode = sensors[s].mode
      <4>1. CASE s = pub.target
        <5>1. sensors'[s] = [sensors[s] EXCEPT !.enabled = pub.want]
          BY <4>1, <3>2
        <5>2. sensors'[s].mode = sensors[s].mode
          BY <5>1, <3>1 DEF Sensor
        <5> QED BY <4>1, <5>2, <3>3
      <4>2. CASE s # pub.target
        BY <4>2, <3>2
      <4> QED BY <4>1, <4>2
    <3> QED BY <3>3, <3>4
  <2> QED BY <2>1, <2>2
          DEF PublishLoop, BeginPass, NextSensor, NextRule, RuleReads, RuleWrites, Sends,
              ThreadEnds
<1>3. ASSUME NEW f \in Files, NEW w, NEW c, Holds(f, w, c) PROVE Holds(f, w, c)'
  BY <1>1, <1>2, <1>3, HoldsOn
<1>4. Kept'
  <2> SUFFICES ASSUME proc = "up", NEW part \in promised, NEW f \in FilesOf(part)
               PROVE  Holds(f, disk[f], config)'
    BY <1>1 DEF Kept, FilesOf
  <2>1. Holds(f, disk[f], config) /\ f \in Files
    BY DEF DurableInv, Kept, FilesOf, Files
  <2> QED BY <2>1, <1>1, <1>3 DEF Holds, Faithful
<1>5. InHand'
  <2>1. CASE req.kind = "none"
    BY <2>1, <1>1 DEF DurableInv, InHand, NoRequest
  <2>2. CASE req.kind # "none"
    <3> DEFINE part == PartOf(req.kind)
    <3>1. Busy(part)
      BY <2>2 DEF DurableInv, InHand
    <3>2. ASSUME NEW f \in FilesOf(part) \ ToSet(req.saves) PROVE Holds(f, disk[f], n)'
      <4>1. Holds(f, disk[f], n) /\ f \in Files
        BY <3>1 DEF Busy, FilesOf, Files
      <4>2. PICK w, c : w = disk[f] /\ c = n
        OBVIOUS
      <4>3. Holds(f, w, c)'
        BY <4>1, <4>2, <1>3
      <4>4. disk'[f] = w /\ n' = c
        BY <4>2, <1>1
      <4> QED BY <4>3, <4>4 DEF Holds, Faithful
    <3>3. req.snap # <<>> => Holds(File, req.snap, n)'
      <4> SUFFICES ASSUME req.snap # <<>> PROVE Holds(File, req.snap, n)'
        OBVIOUS
      <4>1. File \in Files
        BY Saves DEF DurableInv, QuietInv, TypeInv, RequestTyped, File
      <4>2. Holds(File, req.snap, n)
        BY <3>1 DEF Busy
      <4>3. PICK w, c : w = req.snap /\ c = n
        OBVIOUS
      <4>4. Holds(File, w, c)'
        BY <4>1, <4>2, <4>3, <1>1, <1>3 DEF File
      <4>5. req'.snap = w /\ n' = c
        BY <4>3, <1>1
      <4> QED BY <4>4, <4>5 DEF Holds, Faithful
    <3>4. Busy(part)'
      BY <3>1, <3>2, <3>3, <1>1 DEF Busy, File
    <3> QED BY <2>2, <3>4, <1>1 DEF InHand
  <2> QED BY <2>1, <2>2
<1> QED BY <1>4, <1>5

LEMMA DurableInit == Init => DurableInv
BY QuietInit DEF Init, DurableInv, Kept, InHand, NoRequest

LEMMA DurableStep == DurableInv /\ [Next]_vars => DurableInv'
<1> SUFFICES ASSUME DurableInv, [Next]_vars PROVE DurableInv'
  OBVIOUS
<1>0. QuietInv /\ Kept /\ InHand /\ TypeInv
  BY DEF DurableInv, QuietInv
<1>1. QuietInv'
  BY <1>0, QuietStep
<1>2. Kept' /\ InHand'
  <2>1. CASE StartupFails
    BY <2>1, <1>0 DEF TypeInv, RequestTyped, StartupFails, Kept, InHand, NoRequest
  <2>2. ASSUME Load
        PROVE  /\ InHand'
               /\ \A f \in Files : disk[f] = <<disk[f][1]>> /\ disk[f] # Torn
               /\ \A f \in Files \ {"sensors"} :
                     disk'[f] = disk[f] => Holds(f, disk[f], config)'
    <3>1. /\ \A f \in Files : disk[f] # Torn
          /\ rules' = disk["rules"][1] /\ logs' = disk["logs"][1]
          /\ config' = disk["config"][1]
      BY <2>2 DEF Load
    <3>2. \A f \in Files : disk[f] = <<disk[f][1]>>
      BY <3>1, <1>0, UnwrapFirst DEF TypeInv, FilesTyped
    <3>3. Newest(logs)' = logs'
      BY <2>2, <1>0, LoadTyped DEF Newest
    <3>4. \A f \in Files \ {"sensors"} :
             disk'[f] = disk[f] => Holds(f, disk[f], config)'
      BY <3>1, <3>2, <3>3 DEF Holds, Files
    <3>5. InHand'
      BY <2>2, <1>0, LoadTyped DEF InHand, NoRequest
    <3> QED BY <3>1, <3>2, <3>4, <3>5
  <2>3. CASE StartsWithSensors
    <3>1. Load /\ sensors' = disk["sensors"][1] /\ disk' = disk
      BY <2>3 DEF StartsWithSensors
    <3>2. Holds("sensors", disk["sensors"], config)'
      BY <3>1, <2>2 DEF Holds, Faithful, Files
    <3> QED BY <3>1, <3>2, <2>2 DEF Kept, FilesOf, Files
  <2>4. CASE StartsWithSeed
    <3>1. /\ Load /\ sensors' = Seed
          /\ \/ disk' = [disk EXCEPT !["sensors"] = <<Seed>>] /\ promised' = Parts
             \/ disk' \in {disk, [disk EXCEPT !["sensors"] = Torn]}
                /\ promised' = {"config"}
      BY <2>4 DEF StartsWithSeed
    <3>2. /\ DOMAIN disk = Files
          /\ \A f \in Files \ {"sensors"} : disk'[f] = disk[f]
      BY <3>1, <1>0 DEF TypeInv, FilesTyped
    <3>3. \A f \in Files \ {"sensors"} : Holds(f, disk[f], config)'
      BY <3>1, <3>2, <2>2
    <3>4. "store" \in promised' => Holds("sensors", disk["sensors"], config)'
      <4> SUFFICES ASSUME "store" \in promised'
                   PROVE  Holds("sensors", disk["sensors"], config)'
        OBVIOUS
      <4>1. disk'["sensors"] = <<Seed>>
        BY <3>1, <3>2 DEF Files
      <4> QED BY <4>1, <3>1 DEF Holds, Faithful, Torn
    <3>5. promised' \subseteq Parts
      BY <3>1 DEF Parts
    <3>6. Kept'
      BY <3>3, <3>4, <3>5, PartsOfFiles DEF Kept, Files
    <3> QED BY <3>1, <3>6, <2>2
  <2>5. CASE Dies
    BY <2>5 DEF Dies, Kept, InHand, NoRequest
  <2>6. CASE Requests
    BY <2>6, RequestsDurable
  <2>7. CASE Handler
    BY <2>7, OpenDurable, DumpDurable, EndDurable DEF Handler
  <2>8. CASE PublishLoop
    BY <2>8, PublishDurable
  <2>9. CASE UNCHANGED vars \/ Reconnects
    <3>1. UNCHANGED <<proc, store, disk, req, n, promised, byRule>>
      BY <2>9 DEF vars, Reconnects, bounds, history
    <3> QED BY <3>1, <1>0 DEF store, Kept, InHand, Busy, Holds, Faithful, File
  <2> QED BY <2>1, <2>3, <2>4, <2>5, <2>6, <2>7, <2>8, <2>9 DEF Next
<1> QED BY <1>1, <1>2 DEF DurableInv

(* While no request is in hand, what was answered is on disk: a crash then  *)
(* loses no answered change and leaves no torn file (persistence.py 36-72,  *)
(* router.py 80-266).                                                       *)
THEOREM AnswersAreDurable == Spec => []AnsweredIsDurable
<1>1. DurableInv => AnsweredIsDurable
  <2> SUFFICES ASSUME DurableInv, proc = "up"
               PROVE  /\ "config" \in promised => disk["config"] = <<config>>
                      /\ "store" \in promised =>
                           /\ disk["rules"] = <<rules>>
                           /\ disk["logs"] = <<Newest(logs)>>
                           /\ disk["sensors"] # Torn
                           /\ Faithful(disk["sensors"][1])
    BY DEF AnsweredIsDurable, Faithful
  <2>1. \A part \in promised : \A f \in FilesOf(part) : Holds(f, disk[f], config)
    BY DEF DurableInv, Kept
  <2> QED BY <2>1, PartsOfFiles DEF Holds
<1> QED BY <1>1, DurableInit, DurableStep, PTL DEF Spec

-----------------------------------------------------------------------------
(***************************************************************************)
(* SimControlStore implements DurableStore: each of its steps is one of    *)
(* DurableStore's, or changes nothing that DurableStore sees.              *)
(***************************************************************************)
LEMMA SameNames ==
    /\ Durable!Parts = Parts /\ Durable!Files = Files /\ Durable!Torn = Torn
    /\ \A part : Durable!FilesOf(part) = FilesOf(part)
BY DEF Durable!Parts, Parts, Durable!Files, Durable!FilesOf, Files, FilesOf,
       Durable!Torn, Torn

LEMMA SameHolds ==
    ASSUME NEW f, NEW w PROVE Durable!Holds(f, w) <=> Holds(f, w, Told)
BY DEF Durable!Holds, Holds, Faithful, Durable!Torn, Torn

Seen == <<proc, sensors, rules, logs, config, req.kind, n, disk, promised, byRule>>

LEMMA SeenStutter == UNCHANGED Seen => UNCHANGED Durable!vars
BY DEF Seen, Durable!vars, Durable!memory, Told, Newest

LEMMA DurableStoreInit == Init => Durable!Init
<1> SUFFICES ASSUME Init PROVE Durable!Init
  OBVIOUS
<1>1. /\ proc = "down" /\ sensors = Empty /\ rules = Empty /\ config = 0
      /\ promised = Parts /\ byRule = {} /\ req.kind = "none"
      /\ disk = [f \in Files |-> CASE f = "logs"   -> << <<>> >>
                                   [] f = "config" -> <<0>>
                                   [] OTHER        -> <<Empty>>]
  BY DEF Init, NoRequest
<1>2. Newest(logs) = <<>>
  <2>1. logs = <<>> /\ Len(<<>>) = 0 /\ 0 <= LogKeep
    BY StoreAssumption DEF Init
  <2> QED BY <2>1 DEF Newest
<1> QED BY <1>1, <1>2, SameNames DEF Durable!Init, Told

(* A request is accepted: its part is promised no longer.                  *)
LEMMA AcceptImplements ==
    ASSUME DurableInv, NEW kind, NEW saves, NEW S, Accept(kind, saves, S),
           config' = config, kind = "config" => UNCHANGED <<sensors, rules, logs>>
    PROVE  Durable!Next
<1>1. /\ proc = "up" /\ req.kind = "none" /\ req'.kind = kind
      /\ promised' = promised \ {PartOf(kind)}
      /\ UNCHANGED <<proc, disk, byRule>>
  BY DEF Accept
<1>2. PartOf(kind) \in Parts /\ (PartOf(kind) = "config" <=> kind = "config")
  BY DEF PartOf, Parts
<1>3. kind # "config" => Told' = Told
  BY <1>1 DEF Told
<1>4. Durable!Change(PartOf(kind))
  <2>1. CASE kind = "config"
    <3>1. Newest(logs)' = Newest(logs)
      BY <2>1 DEF Newest
    <3> QED BY <1>1, <1>2, <2>1, <3>1 DEF Durable!Change
  <2>2. CASE kind # "config"
    BY <1>1, <1>2, <1>3, <2>2 DEF Durable!Change
  <2> QED BY <2>1, <2>2
<1> QED BY <1>2, <1>4, SameNames DEF Durable!Next

LEMMA RequestsImplement == DurableInv /\ Requests => Durable!Next
<1> SUFFICES ASSUME DurableInv, Requests PROVE Durable!Next
  OBVIOUS
<1>1. ASSUME NEW kind \in {"create", "seed", "update", "toggle", "bulk", "rule", "delete"},
             NEW S, Accept(kind, Persisted, S), config' = config
      PROVE  Durable!Next
  BY <1>1, AcceptImplements
<1>2. ASSUME UpdateRaises PROVE Durable!Next
  <2>1. Accept("none", <<>>, {}) /\ config' = config
    BY <1>2 DEF UpdateRaises
  <2> QED BY <2>1, AcceptImplements
<1>3. ASSUME UpdateConfig PROVE Durable!Next
  <2>1. Accept("config", <<"config">>, {}) /\ UNCHANGED <<sensors, rules, logs, config>>
    BY <1>3 DEF UpdateConfig, store
  <2> QED BY <2>1, AcceptImplements
<1>4. ASSUME NEW s \in Sensors
      PROVE  DeleteSensor(s) \/ ToggleSensor(s)
               \/ (\E v \in NewSensors : CreateSensor(s, v) \/ UpdateSensor(s, v))
             => Durable!Next
  BY <1>1 DEF DeleteSensor, ToggleSensor, CreateSensor, UpdateSensor, AddSensors, SetSensors
<1>5. SeedSensors \/ BulkEnable \/ BulkDisable \/ BulkReset => Durable!Next
  BY <1>1 DEF SeedSensors, BulkEnable, BulkDisable, BulkReset, AddSensors, SetSensors
<1>6. ASSUME NEW r \in Rules
      PROVE  DeleteRule(r) \/ (\E v \in Rule : CreateRule(r, v) \/ UpdateRule(r, v))
             => Durable!Next
  BY <1>1 DEF DeleteRule, CreateRule, UpdateRule, SetRules
<1> QED BY <1>2, <1>3, <1>4, <1>5, <1>6 DEF Requests

LEMMA HandlerImplements == DurableInv /\ Handler => Durable!Next
<1> SUFFICES ASSUME DurableInv, Handler PROVE Durable!Next
  OBVIOUS
<1>0. /\ DOMAIN disk = Files /\ DOMAIN req = {"kind", "saves", "snap", "on"}
      /\ proc # "up" => req = NoRequest
      /\ NoRequest.saves = <<>> /\ NoRequest.kind = "none"
  BY DEF DurableInv, QuietInv, TypeInv, FilesTyped, RequestTyped, NoRequest
<1>1. ASSUME req.saves # <<>>
      PROVE  /\ proc = "up"
             /\ \E part \in Durable!Parts :
                   /\ part = PartOf(req.kind) /\ Busy(part) /\ part \notin promised
                   /\ File \in Durable!FilesOf(part) /\ File \in Durable!Files
                   /\ req.kind # "none" /\ (part = "config" => File = "config")
                   /\ (req.kind = "config" <=> part = "config")
  BY <1>0, <1>1, SavingPart, SameNames, PartsOfFiles DEF Busy, PartOf
<1>2. CASE OpenFile
  <2>1. /\ req.saves # <<>> /\ req.snap = <<>>
        /\ logs' = IF File = "logs" THEN AddLog ELSE logs
        /\ req' = [req EXCEPT !.snap = <<Content(File, logs')>>]
        /\ disk' = [disk EXCEPT ![File] = Torn]
        /\ byRule' = IF File = "sensors" THEN {} ELSE byRule
        /\ UNCHANGED <<proc, sensors, rules, config, n, promised>>
    BY <1>2 DEF OpenFile, bounds
  <2>2. PICK part \in Durable!Parts :
          /\ part \notin promised /\ File \in Durable!FilesOf(part)
          /\ File \in Durable!Files
    BY <1>1, <2>1
  <2>3. Told' = Told /\ (File # "logs" => Newest(logs)' = Newest(logs))
    <3>1. req'.kind = req.kind
      BY <2>1, <1>0
    <3> QED BY <2>1, <3>1 DEF Told, Newest
  <2>4. Durable!BeginSave(part, File)
    BY <1>1, <2>1, <2>2, <2>3, SameNames DEF Durable!BeginSave
  <2> QED BY <2>2, <2>4 DEF Durable!Next
<1>3. CASE DumpFile
  <2>1. /\ req.saves # <<>> /\ req.snap # <<>>
        /\ disk' = [disk EXCEPT ![File] = req.snap]
        /\ req' = [req EXCEPT !.saves = Tail(@), !.snap = <<>>]
        /\ UNCHANGED <<proc, sensors, rules, logs, config, n, promised, byRule>>
    BY <1>3 DEF DumpFile, bounds, store, history
  <2>2. PICK part \in Durable!Parts :
          /\ part = PartOf(req.kind) /\ Busy(part) /\ part \notin promised
          /\ File \in Durable!FilesOf(part) /\ File \in Durable!Files
          /\ part = "config" => File = "config"
          /\ req.kind = "config" <=> part = "config"
    BY <1>1, <2>1
  <2>3. Told' = Told /\ Newest(logs)' = Newest(logs)
    <3>1. req'.kind = req.kind
      BY <2>1, <1>0
    <3> QED BY <2>1, <3>1 DEF Told, Newest
  <2>4. disk[File] = Torn /\ Holds(File, req.snap, Told)
    <3>1. disk[File] = Torn /\ Holds(File, req.snap, n)
      BY <2>1, <2>2 DEF Busy
    <3>2. File = "config" => Told = n
      BY <2>2, SameNames, PartsOfFiles DEF Told
    <3> QED BY <3>1, <3>2 DEF Holds
  <2>5. disk'[File] = req.snap
    BY <2>1, <2>2, <1>0, SameNames
  <2>6. Durable!Holds(File, disk'[File])
    BY <2>4, <2>5, SameHolds
  <2>7. disk' = [disk EXCEPT ![File] = disk'[File]]
    BY <2>1, <2>5
  <2>8. Durable!EndSave(part, File)
    BY <1>1, <2>1, <2>2, <2>3, <2>4, <2>6, <2>7, SameNames
       DEF Durable!EndSave, Durable!memory
  <2> QED BY <2>2, <2>8 DEF Durable!Next
<1>4. CASE SaveRaises
  <2>1. /\ req.saves # <<>> /\ req' = NoRequest
        /\ logs' = IF File = "logs" /\ req.snap = <<>> THEN AddLog ELSE logs
        /\ UNCHANGED <<proc, sensors, rules, config, disk, promised, byRule>>
    BY <1>4 DEF SaveRaises, history
  <2>2. PICK part \in Durable!Parts :
          /\ part \notin promised
          /\ part = "config" => File = "config"
          /\ req.kind = "config" <=> part = "config"
    BY <1>1, <2>1
  <2>3. part # "config" => Told' = Told
    BY <2>1, <2>2, <1>0 DEF Told
  <2>4. part = "config" => Newest(logs)' = Newest(logs)
    BY <2>1, <2>2 DEF Newest
  <2>5. Durable!Change(part)
    BY <1>1, <2>1, <2>2, <2>3, <2>4 DEF Durable!Change
  <2> QED BY <2>2, <2>5 DEF Durable!Next
<1>5. CASE Answer
  <2>1. /\ proc = "up" /\ req.kind # "none" /\ req.saves = <<>> /\ req' = NoRequest
        /\ promised' = promised \cup {PartOf(req.kind)}
        /\ config' = IF req.kind = "config" THEN n ELSE config
        /\ UNCHANGED <<proc, sensors, rules, logs, disk, n, byRule>>
    BY <1>5 DEF Answer, bounds
  <2> DEFINE part == PartOf(req.kind)
  <2>2. part \in Durable!Parts /\ (req.kind = "config" <=> part = "config")
    BY SameNames DEF PartOf, Parts
  <2>3. Told' = Told /\ Newest(logs)' = Newest(logs)
    BY <2>1, <1>0 DEF Told, Newest
  <2>4. ASSUME NEW f \in Durable!FilesOf(part) PROVE Durable!Holds(f, disk[f])
    <3>1. Holds(f, disk[f], n)
      BY <2>1, SavesLeft, SameNames DEF DurableInv, InHand, Busy
    <3>2. f = "config" => Told = n
      BY <2>2, SameNames, PartsOfFiles DEF Told
    <3>3. Holds(f, disk[f], Told)
      BY <3>1, <3>2 DEF Holds
    <3> QED BY <3>3, SameHolds
  <2>5. part \notin promised
    BY <2>1 DEF DurableInv, InHand, Busy
  <2>6. Durable!Answer(part)
    BY <2>1, <2>3, <2>4, <2>5 DEF Durable!Answer, Durable!memory
  <2> QED BY <2>2, <2>6 DEF Durable!Next
<1> QED BY <1>2, <1>3, <1>4, <1>5 DEF Handler

LEMMA StartImplements ==
    DurableInv /\ (StartsWithSensors \/ StartsWithSeed) => Durable!Start
<1> SUFFICES ASSUME DurableInv, StartsWithSensors \/ StartsWithSeed PROVE Durable!Start
  OBVIOUS
<1>0. TypeInv /\ Load
  BY DEF DurableInv, QuietInv, StartsWithSensors, StartsWithSeed
<1>1. /\ proc = "down" /\ proc' = "up" /\ byRule' = {}
      /\ \A f \in Files : disk[f] # Torn
      /\ rules' = disk["rules"][1] /\ logs' = disk["logs"][1]
      /\ config' = disk["config"][1]
  BY <1>0 DEF Load
<1>2. Newest(logs)' = disk["logs"][1] /\ Told' = disk["config"][1]
  <2>1. Len(logs') <= LogKeep /\ req' = NoRequest
    BY <1>0, LoadTyped
  <2> QED BY <1>1, <2>1 DEF Newest, Told, NoRequest
<1>3. CASE StartsWithSensors
  BY <1>1, <1>2, <1>3, SameNames DEF StartsWithSensors, Durable!Start
<1>4. CASE StartsWithSeed
  <2>1. /\ disk["sensors"][1] = Empty /\ sensors' = Seed
        /\ \/ disk' = [disk EXCEPT !["sensors"] = <<Seed>>] /\ promised' = Parts
           \/ /\ disk' \in {disk, [disk EXCEPT !["sensors"] = Torn]}
              /\ promised' = {"config"}
    BY <1>4 DEF StartsWithSeed
  <2> QED BY <1>1, <1>2, <2>1, SameNames DEF Durable!Start
<1> QED BY <1>3, <1>4

LEMMA PublishImplements ==
    DurableInv /\ PublishLoop => Durable!Switch \/ UNCHANGED Durable!vars
<1> SUFFICES ASSUME DurableInv, PublishLoop
             PROVE  Durable!Switch \/ UNCHANGED Durable!vars
  OBVIOUS
<1>1. UNCHANGED <<proc, rules, logs, config, disk, req, n, promised>> /\ proc = "up"
  BY DEF PublishLoop, BeginPass, NextSensor, NextRule, RuleReads, RuleWrites, Sends,
         InLoop, bounds
<1>2. CASE UNCHANGED <<sensors, byRule>>
  BY <1>1, <1>2, SeenStutter DEF Seen
<1>3. CASE RuleWrites /\ ~UNCHANGED <<sensors, byRule>>
  <2>1. /\ pub.at = "write" /\ pub.target \in DOMAIN sensors
        /\ sensors' = [sensors EXCEPT ![pub.target].enabled = pub.want]
        /\ byRule' = byRule \cup {pub.target}
    BY <1>3 DEF RuleWrites, InLoop, ThreadEnds
  <2>2. pub.want \in BOOLEAN
    BY <2>1, LoopStates, TypeParts DEF DurableInv, QuietInv
  <2>3. Told' = Told /\ Newest(logs)' = Newest(logs)
    BY <1>1 DEF Told, Newest
  <2>4. \E s \in DOMAIN sensors, on \in BOOLEAN :
           /\ sensors' = [sensors EXCEPT ![s].enabled = on]
           /\ byRule' = byRule \cup {s}
    BY <2>1, <2>2
  <2>5. Durable!Switch
    BY <1>1, <2>3, <2>4 DEF Durable!Switch
  <2> QED BY <2>5
<1> QED BY <1>2, <1>3
        DEF PublishLoop, BeginPass, NextSensor, NextRule, RuleReads, Sends, ThreadEnds

LEMMA DurableStoreStep == DurableInv /\ [Next]_vars => [Durable!Next]_Durable!vars
<1> SUFFICES ASSUME DurableInv, [Next]_vars
             PROVE  Durable!Next \/ UNCHANGED Durable!vars
  OBVIOUS
<1>1. CASE StartupFails
  <2>1. /\ proc = "down" /\ proc' = "refused" /\ \E f \in Files : disk[f] = Torn
        /\ UNCHANGED <<sensors, rules, logs, config, disk, req, n, promised, byRule>>
    BY <1>1 DEF StartupFails, store, bounds, history
  <2>2. Told' = Told /\ Newest(logs)' = Newest(logs)
    BY <2>1 DEF Told, Newest
  <2>3. Durable!Refuse
    BY <2>1, <2>2, SameNames DEF Durable!Refuse, Durable!memory
  <2> QED BY <2>3 DEF Durable!Next
<1>2. CASE StartsWithSensors \/ StartsWithSeed
  BY <1>2, StartImplements DEF Durable!Next
<1>3. CASE Dies
  <2>1. Durable!Die
    BY <1>3 DEF Dies, history, Durable!Die
  <2> QED BY <2>1 DEF Durable!Next
<1>4. CASE Requests
  BY <1>4, RequestsImplement
<1>5. CASE Handler
  BY <1>5, HandlerImplements
<1>6. CASE PublishLoop
  BY <1>6, PublishImplements DEF Durable!Next
<1>7. CASE UNCHANGED vars \/ Reconnects
  BY <1>7, SeenStutter DEF vars, Reconnects, store, bounds, history, Seen
<1> QED BY <1>1, <1>2, <1>3, <1>4, <1>5, <1>6, <1>7 DEF Next

(* The handlers with their saves, the publish loop, deaths and failures do *)
(* to what was answered only what DurableStore allows (router.py 33-266,   *)
(* persistence.py 19-80, main.py 60-142).                                  *)
THEOREM StoreImplementsDurable == Spec => ImplementsDurable
BY DurableInit, DurableStep, DurableStoreInit, DurableStoreStep, PTL
   DEF Spec, ImplementsDurable, Durable!Spec
=============================================================================
