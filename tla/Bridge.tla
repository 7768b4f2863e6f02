-------------------------------- MODULE Bridge --------------------------------
(***************************************************************************)
(* services/bridge: MQTT to Kafka.                                         *)
(*                                                                         *)
(* Two threads.  paho's network thread receives a message, schedules       *)
(* _handle_message on the event loop and acknowledges it (QoS 1) when the  *)
(* callback returns.  The event loop runs one task per message, suspended  *)
(* while aiokafka waits for metadata or for room in its accumulator, and   *)
(* run(), which on SIGTERM joins the network thread (the loop is blocked   *)
(* meanwhile), disconnects, awaits producer.stop() and returns, at which   *)
(* point asyncio.run cancels the tasks that are left.                      *)
(*                                                                         *)
(* Messages are numbered in order of arrival.  A message's stage says how  *)
(* far the bridge has taken it; the stages from "delivered" on are final.  *)
(***************************************************************************)
EXTENDS Integers, FiniteSets

CONSTANT MaxMessages   \* bound: MQTT messages received

ASSUME BridgeAssumption == MaxMessages \in Nat

(* What MQTTPayloadValidator.parse does with a payload:                    *)
(*   valid    returns a KafkaMessage                                       *)
(*   invalid  raises ValueError; pydantic's ValidationError is one, so the *)
(*            second except clause of _handle_message is never reached     *)
(*   alien    raises TypeError: JSON that is not an object (dict(5)), or a *)
(*            unit that cannot be looked up                                *)
Kinds == {"valid", "invalid", "alien"}

Stages == {"scheduled",   \* ensure_future queued, the task has not run
           "sending",     \* the task is suspended in producer.send
           "buffered",    \* in aiokafka's accumulator, future not awaited
           "delivered",   \* in its Kafka topic (sensors.dlq for an invalid one)
           "expired",     \* dropped by aiokafka, which only failed the future
           "refused",     \* producer.send raised, and the handler counted it
           "crashed",     \* the task died of an exception nobody catches
           "dropped",     \* the process ended before the task ran
           "cancelled"}   \* the process ended while the task was in send

VARIABLES
    arrived,      \* messages received and acknowledged so far
    kind,         \* [1..arrived -> Kinds]
    stage,        \* [1..arrived -> Stages]
    received, valid, invalid, dlq_errors, kafka_errors,   \* BridgeMetrics
    network,      \* paho's network thread: "running" or "stopped"
    accumulator,  \* aiokafka's accumulator: "open" or "closed"
    pc            \* run(): "serving", "joining", "flushing", "exited"

metrics == <<received, valid, invalid, dlq_errors, kafka_errors>>
vars == <<arrived, kind, stage, metrics, network, accumulator, pc>>

Messages == 1..arrived
At(s)    == {m \in Messages : stage[m] = s}
Final    == Stages \ {"scheduled", "sending", "buffered"}

TypeOK ==
    /\ arrived \in 0..MaxMessages
    /\ kind \in [Messages -> Kinds]
    /\ stage \in [Messages -> Stages]
    /\ {received, valid, invalid, dlq_errors, kafka_errors} \subseteq Nat
    /\ network \in {"running", "stopped"}
    /\ accumulator \in {"open", "closed"}
    /\ pc \in {"serving", "joining", "flushing", "exited"}

Init ==
    /\ arrived = 0
    /\ kind = [m \in {} |-> "valid"]
    /\ stage = [m \in {} |-> "scheduled"]
    /\ received = 0 /\ valid = 0 /\ invalid = 0
    /\ dlq_errors = 0 /\ kafka_errors = 0
    /\ network = "running" /\ accumulator = "open" /\ pc = "serving"

Move(m, s) == stage' = [stage EXCEPT ![m] = s]

-----------------------------------------------------------------------------
(* paho's network thread.                                                  *)

(* _on_message: hand the payload to the event loop.  The session is clean, *)
(* so what is published while the bridge is away never arrives, and        *)
(* nothing is redelivered.                                                 *)
OnMessage(k) ==
    /\ network = "running"
    /\ arrived < MaxMessages
    /\ arrived' = arrived + 1
    /\ kind'  = [m \in 1..arrived' |-> IF m = arrived' THEN k ELSE kind[m]]
    /\ stage' = [m \in 1..arrived' |->
                    IF m = arrived' THEN "scheduled" ELSE stage[m]]
    /\ UNCHANGED <<metrics, network, accumulator, pc>>

-----------------------------------------------------------------------------
(* _handle_message on the event loop, which runs unless run() blocks it.   *)

LoopRuns == pc \in {"serving", "flushing"}

(* The tasks start in the order the network thread scheduled them.         *)
Starts(m) ==
    /\ LoopRuns
    /\ m \in At("scheduled")
    /\ \A n \in At("scheduled") : m <= n
    /\ UNCHANGED <<arrived, kind, network, accumulator, pc>>

(* parse succeeded: the reading goes to producer.send, uncounted yet.      *)
HandleValid(m) ==
    /\ Starts(m)
    /\ kind[m] = "valid"
    /\ Move(m, "sending")
    /\ UNCHANGED metrics

(* parse raised ValueError: counted first, then sent to the DLQ.           *)
HandleInvalid(m) ==
    /\ Starts(m)
    /\ kind[m] = "invalid"
    /\ Move(m, "sending")
    /\ received' = received + 1
    /\ invalid' = invalid + 1
    /\ UNCHANGED <<valid, dlq_errors, kafka_errors>>

(* parse raised TypeError: no clause catches it.                           *)
HandleAlien(m) ==
    /\ Starts(m)
    /\ kind[m] = "alien"
    /\ Move(m, "crashed")
    /\ UNCHANGED metrics

(* producer.send returns once the accumulator has the message; that is     *)
(* when a valid reading is counted.                                        *)
SendReturns(m) ==
    /\ LoopRuns
    /\ m \in At("sending")
    /\ accumulator = "open"
    /\ Move(m, "buffered")
    /\ IF kind[m] = "valid"
       THEN received' = received + 1 /\ valid' = valid + 1
       ELSE UNCHANGED <<received, valid>>
    /\ UNCHANGED <<arrived, kind, invalid, dlq_errors, kafka_errors, network,
                   accumulator, pc>>

(* Mutant: a failed send to the DLQ counts as a Kafka error.               *)
SendRaises_WrongCounter(m) ==
    /\ LoopRuns
    /\ m \in At("sending")
    /\ Move(m, "refused")
    /\ kafka_errors' = kafka_errors + 1
    /\ UNCHANGED <<arrived, kind, received, valid, invalid, dlq_errors, network,
                   accumulator, pc>>

(* producer.send raises: the accumulator is closed, or the metadata or the *)
(* room never came.                                                        *)
SendRaises(m) ==
    /\ LoopRuns
    /\ m \in At("sending")
    /\ Move(m, "refused")
    /\ IF kind[m] = "valid"
       THEN kafka_errors' = kafka_errors + 1 /\ UNCHANGED dlq_errors
       ELSE dlq_errors' = dlq_errors + 1 /\ UNCHANGED kafka_errors
    /\ UNCHANGED <<arrived, kind, received, valid, invalid, network,
                   accumulator, pc>>

(* aiokafka's sender task: the broker acknowledged the message, or it was  *)
(* given up; the future that says so is awaited by nobody.                 *)
Resolve(m, s) ==
    /\ LoopRuns
    /\ m \in At("buffered")
    /\ s \in {"delivered", "expired"}
    /\ Move(m, s)
    /\ UNCHANGED <<arrived, kind, metrics, network, accumulator, pc>>

-----------------------------------------------------------------------------
(* run(): shutdown.                                                        *)

(* The stop event is set: client.loop_stop() blocks the event loop while   *)
(* it joins the network thread, which may still receive messages.          *)
StopRequested ==
    /\ pc = "serving"
    /\ pc' = "joining"
    /\ UNCHANGED <<arrived, kind, stage, metrics, network, accumulator>>

(* The join returns; disconnect, then producer.stop() is awaited.          *)
NetworkStopped ==
    /\ pc = "joining"
    /\ network' = "stopped"
    /\ pc' = "flushing"
    /\ UNCHANGED <<arrived, kind, stage, metrics, accumulator>>

(* producer.stop() first closes the accumulator: a handler that comes      *)
(* later is refused.                                                       *)
CloseAccumulator ==
    /\ pc = "flushing"
    /\ accumulator = "open"
    /\ accumulator' = "closed"
    /\ UNCHANGED <<arrived, kind, stage, metrics, network, pc>>

(* asyncio.run cancels every handler that has not finished; neither of its *)
(* except clauses catches a cancellation.                                  *)
CancelTasks ==
    stage' = [m \in Messages |-> CASE stage[m] = "scheduled" -> "dropped"
                                   [] stage[m] = "sending"   -> "cancelled"
                                   [] OTHER                  -> stage[m]]

(* Mutant: handlers that are still suspended are left behind, not ended.   *)
Exit_LeavesTasks ==
    /\ pc = "flushing"
    /\ accumulator = "closed"
    /\ At("buffered") = {}
    /\ pc' = "exited"
    /\ UNCHANGED <<arrived, kind, stage, metrics, network, accumulator>>

(* Mutant: waits until everything it buffered was delivered.               *)
Exit_WaitsForDelivery ==
    /\ pc = "flushing"
    /\ accumulator = "closed"
    /\ At("buffered") \cup At("expired") = {}
    /\ pc' = "exited"
    /\ CancelTasks
    /\ UNCHANGED <<arrived, kind, metrics, network, accumulator>>

(* producer.stop() returns when nothing is buffered, and run() with it.    *)
Exit ==
    /\ pc = "flushing"
    /\ accumulator = "closed"
    /\ At("buffered") = {}
    /\ pc' = "exited"
    /\ CancelTasks
    /\ UNCHANGED <<arrived, kind, metrics, network, accumulator>>

Handle(m) == HandleValid(m) \/ HandleInvalid(m) \/ HandleAlien(m)
Send(m)   == SendReturns(m) \/ SendRaises(m)

Next ==
    \/ \E k \in Kinds : OnMessage(k)
    \/ \E m \in Messages : Handle(m) \/ Send(m)
    \/ \E m \in Messages, s \in {"delivered", "expired"} : Resolve(m, s)
    \/ StopRequested \/ NetworkStopped \/ CloseAccumulator \/ Exit

Spec == Init /\ [][Next]_vars

(* The event loop runs ready tasks, aiokafka resolves what it buffered     *)
(* (delivery.timeout) and gives up a send (request_timeout_ms), and the    *)
(* join of the network thread returns.  A stop request is never assumed.   *)
Fairness ==
    /\ \A m \in 1..MaxMessages :
          /\ WF_vars(m \in Messages /\ Handle(m))
          /\ WF_vars(m \in Messages /\ Send(m))
          /\ WF_vars(m \in Messages /\ \E s \in Final : Resolve(m, s))
    /\ WF_vars(NetworkStopped) /\ WF_vars(CloseAccumulator) /\ WF_vars(Exit)

FairSpec == Spec /\ Fairness

-----------------------------------------------------------------------------
(* Properties.                                                             *)

ValidAt(s)   == {m \in At(s) : kind[m] = "valid"}
InvalidAt(s) == {m \in At(s) : kind[m] = "invalid"}

(* The counters account for every message that was acknowledged to the     *)
(* broker, to the end of the process: counted as forwarded, as invalid or  *)
(* as a Kafka error, not finished, dead of an uncaught exception, or       *)
(* abandoned by the exit before it ran or inside its send, and nothing     *)
(* else; and every invalid one that was counted is in the DLQ, on its way  *)
(* there, counted as a DLQ error, given up by aiokafka, or abandoned on    *)
(* its way (main.py 76-127, 159-164, metrics.py 28-34).                    *)
CountersAccount ==
    /\ arrived = valid + invalid + kafka_errors
               + Cardinality(At("scheduled") \cup At("dropped") \cup At("crashed")
                             \cup ValidAt("sending") \cup ValidAt("cancelled"))
    /\ received = valid + invalid
    /\ invalid = dlq_errors
               + Cardinality(UNION {InvalidAt(s) : s \in
                     {"sending", "buffered", "delivered", "expired", "cancelled"}})

(* Every acknowledged message is eventually disposed of, whether or not    *)
(* the bridge is stopped meanwhile (main.py 59-127, 161-164).              *)
EventuallyDisposed ==
    \A m \in 1..MaxMessages : (m <= arrived) ~> (m \in Messages /\ stage[m] \in Final)

(* A stop request leads to the end of the process (main.py 159-164).       *)
ShutdownCompletes == (pc = "joining") ~> (pc = "exited")
=============================================================================
