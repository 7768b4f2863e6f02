------------------------------ MODULE MlConsumer ------------------------------
(***************************************************************************)
(* services/ml-consumer/consumer/main.py: the Kafka consumer that batches  *)
(* readings into InfluxDB and writes anomaly events to Postgres.           *)
(*                                                                         *)
(* One process life runs consume_loop once: connect, take messages one by  *)
(* one, flush the batch when it is full or old, and stop on SIGTERM.  The  *)
(* loop is split into actions at its await points, because the signal      *)
(* handler, aiokafka's auto-commit task and a kill can only act there.     *)
(*                                                                         *)
(* A message is the pair <<topic, offset>>; offsets count from 1.  The     *)
(* batch is a set: write_batch sends it as one request, so its order is    *)
(* never observed.  InfluxDB overwrites a point with the same tags and     *)
(* timestamp, so what it was given is a set of messages too; which fields  *)
(* a point has is left out.  Postgres inserts a new row each time          *)
(* (BIGSERIAL key, no uniqueness), so rows carry the process life that     *)
(* inserted them.                                                          *)
(***************************************************************************)
EXTENDS Integers, Sequences, FiniteSets

CONSTANTS Topics,          \* the subscribed Kafka topics (main.py TOPICS)
          BATCH_MAX_SIZE,  \* INFLUX_BATCH_SIZE
          MaxEvents,       \* bound: anomalies found in one message; the two rules
                           \* that apply to a topic give 2
          MaxLog,          \* bound: messages produced per topic
          MaxLives,        \* bound: process starts
          MaxSignals       \* bound: SIGTERM / SIGINT deliveries

ASSUME ConsumerAssumption ==
    /\ Topics # {}
    /\ BATCH_MAX_SIZE \in Nat \ {0}
    /\ MaxEvents \in Nat \ {0}
    /\ MaxLog \in Nat
    /\ MaxLives \in Nat
    /\ MaxSignals \in Nat

(* What a message's bytes make the loop do:                                *)
(*   bad      not UTF-8 JSON: json.loads raises, the message is counted    *)
(*   poison   JSON on which detector.check or payload.get raises (not an   *)
(*            object, or a value that float() / int() rejects): uncaught   *)
(*   spoiler  passes the detector, but _build_point raises on it, e.g. a   *)
(*            non-numeric humidity or quality: the whole batch write fails *)
(*   flagged  a reading whose metadata.anomaly is true                     *)
(*   plain    any other reading                                            *)
Kinds == {"bad", "poison", "spoiler", "flagged", "plain"}

(* detector.check returns at most one event of the type's own rule and one *)
(* of the oscillation rule.                                                *)
DetectedCounts == 0..MaxEvents

VARIABLES
    log,         \* [Topics -> Seq(Kinds)]: the topics' content
    position,    \* next-to-take offset minus one, per topic (client memory)
    committed,   \* the group's committed offsets (Kafka)
    base,        \* the positions this process life started from (history)
    pc,          \* where the process is
    stopEvent,   \* stop_event
    batch,       \* messages appended and not yet flushed
    due,         \* now - last_flush >= BATCH_MAX_INTERVAL_S
    cur,         \* the message whose anomalies are being written
    pending,     \* anomalies of cur still to write
    processed,   \* metrics.processed, per topic
    errors,      \* metrics.errors, per topic
    anomalies,   \* metrics.anomalies, per topic
    stored,      \* messages of the batch writes that InfluxDB took in
    rows,        \* anomaly_events rows: <<message, life, n>>
    reported,    \* messages ever counted by record_error (history)
    swallowed,   \* <<message, life>> taken and dropped because stop was set (history)
    life,        \* number of the current process life
    signals,     \* signals delivered so far
    abends,      \* lives that ended with readings still in the batch (history)
    unclean      \* lives that ended without committing their positions (history)

kafka   == <<log, position, committed, base>>
loop    == <<pc, stopEvent, batch, due, cur, pending>>
metrics == <<processed, errors, anomalies>>
sinks   == <<stored, rows>>
history == <<reported, swallowed, life, signals, abends, unclean>>
vars    == <<kafka, loop, metrics, sinks, history>>

Message == Topics \X (Nat \ {0})
Zero    == [t \in Topics |-> 0]
Of(t, S) == {m \in S : m[1] = t}
Count(S) == [t \in Topics |-> Cardinality(Of(t, S))]
Plus(f, g) == [t \in Topics |-> f[t] + g[t]]
KindOf(m) == log[m[1]][m[2]]

(* The points where the loop is suspended on an await and the auto-commit  *)
(* task of the started consumer may run.                                   *)
Consuming == {"waiting", "checking", "flushing", "draining"}
Stages    == Consuming \cup {"down", "init", "connecting", "stopping"}

TypeOK ==
    /\ log \in [Topics -> Seq(Kinds)]
    /\ position \in [Topics -> Nat]
    /\ committed \in [Topics -> Nat]
    /\ base \in [Topics -> Nat]
    /\ pc \in Stages
    /\ stopEvent \in BOOLEAN
    /\ batch \subseteq Message /\ IsFiniteSet(batch)
    /\ due \in BOOLEAN
    /\ cur \in Message \cup {<<>>}
    /\ pending \in DetectedCounts
    /\ processed \in [Topics -> Nat]
    /\ errors \in [Topics -> Nat]
    /\ anomalies \in [Topics -> Nat]
    /\ stored \subseteq Message
    /\ rows \subseteq Message \X Nat \X Nat
    /\ reported \subseteq Message
    /\ swallowed \subseteq Message \X Nat /\ IsFiniteSet(swallowed)
    /\ life \in Nat
    /\ signals \in Nat
    /\ abends \in Nat
    /\ unclean \in Nat

Init ==
    /\ log = [t \in Topics |-> <<>>]
    /\ position = Zero /\ committed = Zero /\ base = Zero
    /\ pc = "down" /\ stopEvent = FALSE
    /\ batch = {} /\ due = FALSE /\ cur = <<>> /\ pending = 0
    /\ processed = Zero /\ errors = Zero /\ anomalies = Zero
    /\ stored = {} /\ rows = {} /\ reported = {} /\ swallowed = {}
    /\ life = 0 /\ signals = 0 /\ abends = 0 /\ unclean = 0

-----------------------------------------------------------------------------
(* The environment.                                                        *)

(* A producer appends a message of any kind to a topic.                    *)
Produce(t, k) ==
    /\ Len(log[t]) < MaxLog
    /\ log' = [log EXCEPT ![t] = Append(@, k)]
    /\ UNCHANGED <<position, committed, base, loop, metrics, sinks, history>>

(* SIGTERM or SIGINT: the handlers are installed before anything is        *)
(* awaited, and do no more than set stop_event.                            *)
Signal ==
    /\ pc # "down"
    /\ ~stopEvent
    /\ signals < MaxSignals
    /\ signals' = signals + 1
    /\ stopEvent' = TRUE
    /\ UNCHANGED <<kafka, pc, batch, due, cur, pending, metrics, sinks,
                   reported, swallowed, life, abends, unclean>>

(* BATCH_MAX_INTERVAL_S passes since last_flush.                           *)
IntervalElapses ==
    /\ pc \in Consuming
    /\ ~due
    /\ due' = TRUE
    /\ UNCHANGED <<kafka, pc, stopEvent, batch, cur, pending, metrics, sinks,
                   history>>

(* Mutant: commits the end of the log instead of the positions.            *)
AutoCommit_LogEnd ==
    /\ pc \in Consuming
    /\ committed' = [t \in Topics |-> Len(log[t])]
    /\ UNCHANGED <<log, position, base, loop, metrics, sinks, history>>

(* enable_auto_commit=True: aiokafka's background task commits what the    *)
(* iterator has handed out, whatever has become of it.                     *)
AutoCommit ==
    /\ pc \in Consuming
    /\ committed # position
    /\ committed' = position
    /\ UNCHANGED <<log, position, base, loop, metrics, sinks, history>>

(* The process is killed (SIGKILL, OOM): its memory is gone, and a batch   *)
(* write in flight may have reached InfluxDB or not.                       *)
EndLife ==
    /\ pc' = "down"
    /\ stopEvent' = FALSE
    /\ batch' = {} /\ due' = FALSE /\ cur' = <<>> /\ pending' = 0
    /\ processed' = Zero /\ errors' = Zero /\ anomalies' = Zero
    /\ abends' = IF batch = {} THEN abends ELSE abends + 1
    /\ UNCHANGED <<log, rows, reported, swallowed, life, signals>>

MayHaveStored ==
    {stored} \cup
    (IF /\ pc \in {"flushing", "draining"}
        /\ \A m \in batch : KindOf(m) # "spoiler"
     THEN {stored \cup batch} ELSE {})

Kill ==
    /\ pc # "down"
    /\ EndLife
    /\ stored' \in MayHaveStored
    /\ position' = committed
    /\ base' = committed
    /\ unclean' = unclean + 1
    /\ UNCHANGED committed

-----------------------------------------------------------------------------
(* run(): start-up.                                                        *)

Start ==
    /\ pc = "down"
    /\ life < MaxLives
    /\ pc' = "init"
    /\ life' = life + 1
    /\ UNCHANGED <<kafka, stopEvent, batch, due, cur, pending, metrics, sinks,
                   reported, swallowed, signals, abends, unclean>>

(* pg.init succeeds within its ten attempts.                               *)
PgReady ==
    /\ pc = "init"
    /\ pc' = "connecting"
    /\ UNCHANGED <<kafka, stopEvent, batch, due, cur, pending, metrics, sinks,
                   history>>

(* pg.init gives up: RuntimeError ends the process before it consumed.     *)
PgUnavailable ==
    /\ pc = "init"
    /\ EndLife
    /\ UNCHANGED <<position, committed, base, stored, unclean>>

(* consumer.start() succeeds; the loop's test of stop_event came before    *)
(* the await, so a signal meanwhile does not prevent it.                   *)
Connect ==
    /\ pc = "connecting"
    /\ pc' = "waiting"
    /\ due' = FALSE
    /\ UNCHANGED <<kafka, stopEvent, batch, cur, pending, metrics, sinks,
                   history>>

(* The retry loop ends on stop_event without a started consumer; iterating *)
(* that consumer raises, and the finally clause stops it.                  *)
StopBeforeConnect ==
    /\ pc = "connecting"
    /\ stopEvent
    /\ pc' = "stopping"
    /\ UNCHANGED <<kafka, stopEvent, batch, due, cur, pending, metrics, sinks,
                   history>>

-----------------------------------------------------------------------------
(* consume_loop: one iteration per message.                                *)

(* `async for` hands out the next message of t: the position moves.        *)
Take(t) ==
    /\ pc = "waiting"
    /\ position[t] < Len(log[t])
    /\ position' = [position EXCEPT ![t] = @ + 1]
    /\ UNCHANGED <<log, committed, base>>

NextOf(t) == <<t, position[t] + 1>>

(* Mutant: skips the final flush, as a `return` for the `break` would.     *)
TakeAndStop_NoFinalFlush(t) ==
    /\ stopEvent
    /\ Take(t)
    /\ swallowed' = swallowed \cup {<<NextOf(t), life>>}
    /\ batch' = {}
    /\ pc' = "stopping"
    /\ UNCHANGED <<stopEvent, due, cur, pending, metrics, sinks, reported,
                   life, signals, abends, unclean>>

(* Mutant: `continue` for the `break`.                                     *)
TakeAndStop_Continues(t) ==
    /\ stopEvent
    /\ Take(t)
    /\ swallowed' = swallowed \cup {<<NextOf(t), life>>}
    /\ UNCHANGED <<loop, metrics, sinks, reported, life, signals, abends,
                   unclean>>

(* stop_event is tested after the message was taken: the message is        *)
(* dropped, and the loop leaves for the final flush, which returns at once *)
(* on an empty batch.                                                      *)
TakeAndStop(t) ==
    /\ stopEvent
    /\ Take(t)
    /\ swallowed' = swallowed \cup {<<NextOf(t), life>>}
    /\ pc' = IF batch = {} THEN "stopping" ELSE "draining"
    /\ UNCHANGED <<stopEvent, batch, due, cur, pending, metrics, sinks,
                   reported, life, signals, abends, unclean>>

(* Mutant: an undecodable message is skipped without being counted.        *)
TakeBad_Uncounted(t) ==
    /\ ~stopEvent
    /\ Take(t)
    /\ KindOf(NextOf(t)) = "bad"
    /\ UNCHANGED <<loop, metrics, sinks, history>>

(* Undecodable bytes: counted, and `continue` skips the flush test.        *)
TakeBad(t) ==
    /\ ~stopEvent
    /\ Take(t)
    /\ KindOf(NextOf(t)) = "bad"
    /\ errors' = [errors EXCEPT ![t] = @ + 1]
    /\ reported' = reported \cup {NextOf(t)}
    /\ UNCHANGED <<loop, processed, anomalies, sinks, swallowed, life, signals,
                   abends, unclean>>

(* detector.check raises after the append: the exception leaves the loop,  *)
(* past the final flush, and the finally clause stops the consumer.        *)
TakePoison(t) ==
    /\ ~stopEvent
    /\ Take(t)
    /\ KindOf(NextOf(t)) = "poison"
    /\ batch' = batch \cup {NextOf(t)}
    /\ pc' = "stopping"
    /\ UNCHANGED <<stopEvent, due, cur, pending, metrics, sinks, history>>

(* The flush test that ends an iteration.                                  *)
FlushTest(b) ==
    IF Cardinality(b) >= BATCH_MAX_SIZE \/ due THEN "flushing" ELSE "waiting"

(* Mutant: the metadata flag counts on top of the detector's events.       *)
TakeReading_FlagAdds(t) ==
    /\ ~stopEvent
    /\ Take(t)
    /\ KindOf(NextOf(t)) \in {"plain", "flagged", "spoiler"}
    /\ batch' = batch \cup {NextOf(t)}
    /\ \E n \in DetectedCounts :
          pending' = IF KindOf(NextOf(t)) = "flagged" THEN n + 1 ELSE n
    /\ cur' = IF pending' = 0 THEN <<>> ELSE NextOf(t)
    /\ pc' = IF pending' = 0 THEN FlushTest(batch') ELSE "checking"
    /\ UNCHANGED <<stopEvent, due, metrics, sinks, history>>

(* A reading joins the batch and the detector finds n events; the          *)
(* metadata flag counts as one event only if the detector found none.      *)
TakeReading(t) ==
    /\ ~stopEvent
    /\ Take(t)
    /\ KindOf(NextOf(t)) \in {"plain", "flagged", "spoiler"}
    /\ batch' = batch \cup {NextOf(t)}
    /\ \E n \in DetectedCounts :
          pending' = IF n = 0 /\ KindOf(NextOf(t)) = "flagged" THEN 1 ELSE n
    /\ cur' = IF pending' = 0 THEN <<>> ELSE NextOf(t)
    /\ pc' = IF pending' = 0 THEN FlushTest(batch') ELSE "checking"
    /\ UNCHANGED <<stopEvent, due, metrics, sinks, history>>

(* One iteration of the loop over anomalies, then the flush test.          *)
EndAnomaly ==
    /\ pc = "checking"
    /\ pending' = pending - 1
    /\ cur' = IF pending' = 0 THEN <<>> ELSE cur
    /\ pc' = IF pending' = 0 THEN FlushTest(batch) ELSE "checking"
    /\ UNCHANGED <<kafka, stopEvent, batch, due, processed, errors, stored,
                   history>>

(* pg.write_anomaly inserts the row.                                       *)
WriteAnomaly ==
    /\ EndAnomaly
    /\ rows' = rows \cup {<<cur, life, pending>>}
    /\ anomalies' = [anomalies EXCEPT ![cur[1]] = @ + 1]

(* pg.write_anomaly raises, before or after the row was inserted: logged,  *)
(* not counted, not retried.                                               *)
AnomalyLost ==
    /\ EndAnomaly
    /\ rows' \in {rows, rows \cup {<<cur, life, pending>>}}
    /\ UNCHANGED anomalies

(* flush(): whether the write succeeds or not, the batch is replaced by an *)
(* empty one and last_flush is set.                                        *)
EndFlush ==
    /\ pc \in {"flushing", "draining"}
    /\ batch' = {}
    /\ due' = FALSE
    /\ pc' = IF pc = "flushing" THEN "waiting" ELSE "stopping"
    /\ UNCHANGED <<kafka, stopEvent, cur, pending, anomalies, rows, swallowed,
                   life, signals, abends, unclean>>

FlushSucceeds ==
    /\ \A m \in batch : KindOf(m) # "spoiler"
    /\ EndFlush
    /\ stored' = stored \cup batch
    /\ processed' = Plus(processed, Count(batch))
    /\ UNCHANGED <<errors, reported>>

(* Mutant: a failed write keeps the batch and is retried at once.          *)
FlushFails_Retries ==
    /\ pc \in {"flushing", "draining"}
    /\ stored' \in MayHaveStored
    /\ UNCHANGED <<kafka, loop, metrics, rows, history>>

(* The write raises (a point cannot be built, or InfluxDB failed, having   *)
(* kept the points or not): every reading of the batch counts as an error. *)
FlushFails ==
    /\ EndFlush
    /\ stored' \in MayHaveStored
    /\ errors' = Plus(errors, Count(batch))
    /\ reported' = reported \cup batch
    /\ UNCHANGED processed

(* Mutant: the consumer is not stopped, so nothing is committed at exit.   *)
StopConsumer_NoCommit ==
    /\ pc = "stopping"
    /\ EndLife
    /\ position' = committed
    /\ base' = committed
    /\ UNCHANGED <<committed, unclean, stored>>

(* finally: consumer.stop() commits the positions, or fails to and logs.   *)
StopConsumer ==
    /\ pc = "stopping"
    /\ EndLife
    /\ \/ /\ committed' = position
          /\ UNCHANGED unclean
       \/ /\ committed # position
          /\ unclean' = unclean + 1
          /\ UNCHANGED committed
    /\ position' = committed'
    /\ base' = committed'
    /\ UNCHANGED stored

-----------------------------------------------------------------------------

Iterate == \E t \in Topics :
    TakeAndStop(t) \/ TakeBad(t) \/ TakePoison(t) \/ TakeReading(t)
Persist == WriteAnomaly \/ AnomalyLost
Flush   == FlushSucceeds \/ FlushFails

Next ==
    \/ \E t \in Topics, k \in Kinds : Produce(t, k)
    \/ Signal \/ IntervalElapses \/ AutoCommit \/ Kill
    \/ Start \/ PgReady \/ PgUnavailable \/ Connect \/ StopBeforeConnect
    \/ Iterate
    \/ Persist
    \/ Flush
    \/ StopConsumer

Spec == Init /\ [][Next]_vars

(* The event loop keeps running the coroutine once what it awaits is       *)
(* ready, and a pod whose process ended is started again.  Nothing is      *)
(* assumed of the signals, the kills or the producers.                     *)
Fairness ==
    /\ WF_vars(Start) /\ WF_vars(PgReady \/ PgUnavailable)
    /\ WF_vars(Connect) /\ WF_vars(Iterate) /\ WF_vars(Persist)
    /\ WF_vars(Flush) /\ WF_vars(StopConsumer)

FairSpec == Spec /\ Fairness

-----------------------------------------------------------------------------
(* Properties.                                                             *)

(* Every message the iterator handed out in this life is accounted for     *)
(* exactly once: counted as processed, counted as an error, still in the   *)
(* batch, or the one dropped because stop was set (main.py 119-175).       *)
Accounting ==
    pc # "down" =>
        \A t \in Topics :
            position[t] - base[t] =
                processed[t] + errors[t] + Cardinality(Of(t, batch))
                + Cardinality({s \in swallowed : s[1][1] = t /\ s[2] = life})

(* The batch is never larger than BATCH_MAX_SIZE, and it is strictly       *)
(* smaller whenever the loop waits for a message (main.py 146, 174).       *)
BatchBounded ==
    /\ Cardinality(batch) <= BATCH_MAX_SIZE
    /\ pc = "waiting" => Cardinality(batch) < BATCH_MAX_SIZE

(* A message has left a trace when it is stored, counted as an error,      *)
(* still in the batch, or the one a stop dropped.                          *)
HasTrace(m) ==
    \/ m \in stored \cup reported \cup batch
    \/ \E s \in swallowed : s[1] = m

CommittedMessages == UNION {{t} \X (1..committed[t]) : t \in Topics}
Lost == {m \in CommittedMessages : ~HasTrace(m)}

(* Auto-commit runs ahead of the flush, so a life that ends with readings  *)
(* in memory loses them, but never more than one batch per such life; with *)
(* no such life nothing committed is ever lost without a trace             *)
(* (main.py 99, 131, 177-178).                                             *)
LossBounded == Cardinality(Lost) <= abends * BATCH_MAX_SIZE

(* anomaly_events has no uniqueness: a message gets the rows of more than  *)
(* one life only by replay, and each replay needs a life that ended        *)
(* without committing its positions (main.py 99, 178; pg_writer.py 42-46). *)
ReplayBounded ==
    \A m \in {r[1] : r \in rows} :
        Cardinality({r[2] : r \in {q \in rows : q[1] = m}}) <= 1 + unclean

(* Once told to stop, the loop stops, if one more message is waiting to    *)
(* wake it up (main.py 136-138, 176-178).                                  *)
StopsWhenWoken ==
    (/\ stopEvent
     /\ \E t \in Topics : position[t] < Len(log[t])) ~> (pc = "down")

(* Every message is eventually handed out, as long as lives are left.      *)
EventuallyHanded ==
    \A t \in Topics : \A i \in 1..MaxLog :
        (Len(log[t]) >= i) ~> (position[t] >= i \/ (pc = "down" /\ life = MaxLives))

(* The loop implements what DeliveryLog promises of the topics: a message  *)
(* is settled when it is stored, counted as an error or dropped by a stop. *)
Delivery == INSTANCE DeliveryLog WITH
    Limit <- BATCH_MAX_SIZE,
    produced <- [t \in Topics |-> Len(log[t])],
    handed <- position,
    held <- batch,
    settled <- stored \cup reported \cup {s[1] : s \in swallowed},
    losses <- abends

(* Between what the loop does with a message (main.py 86-178) and what its *)
(* topics see of it there is no other behaviour: messages are handed out   *)
(* in order, settled once per batch, and lost only with the life that held *)
(* them.                                                                   *)
ImplementsDelivery == Delivery!Spec
=============================================================================
