# Smart Campus Digital Twin: a verification project

TLA+ models of the parts of this repository whose correctness depends on the
order in which things happen, or on two computations agreeing, the TLC
configurations that check them, and proofs that TLAPS checks. Paths are
relative to the repository root; "main.py 99" in a comment of a module is a
line of the file the module is about.

## 1. The system

    simulator, sim-control --MQTT--> bridge --Kafka--> ml-consumer --+--> InfluxDB
                                                                     +--> Postgres
    InfluxDB, Postgres, Redis --> api (REST, WebSocket) --> frontends
    InfluxDB, CSV --> ml-retrain --MLflow--> ml-prediction --> InfluxDB
    simulator's calendar and zones --> generate_datasets.py --> CSV

| Component | State it keeps | Operations | Hard behaviour |
|---|---|---|---|
| `services/simulator`: `main.py` | overrides with ticks left, disabled sensors, each sensor's failure state, the publisher's flag | a tick (two passes over the sensors, ageing of the overrides), control requests, MQTT callbacks | the tick thread, the event loop and paho's thread share dictionaries without a lock; a loop over a dictionary raises when it changes size |
| `services/simulator`: zones, sensors, campus | a sensor's head count and its tutorial | sample: calendar, timetable, events, zone, flow | closing hours, minima, events and chance are applied one after the other |
| `services/sim-control/backend` | sensors, rules, log, their JSON files; the MQTT client, its flags and its configuration; the engine's histories | requests, saves, start-up with autoseed, publish loop with rules, connect / reconfigure / disconnect | requests against the publish thread; a death between truncating and writing a file; several generations of clients and connectors at work together; a history that outlives a configuration |
| `services/bridge` | message tasks, aiokafka's accumulator, counters | one task per MQTT message, dead-letter topic, shutdown | messages are acknowledged to MQTT before they are handled; buffered is not delivered; shutdown cancels tasks |
| `services/ml-consumer` | position and committed offsets, batch, `stop_event`, the detector's windows, counters, rows and points written | connect, take, detect, write anomalies, flush, stop, restart | offsets are committed by a timer, ahead of the flush; kills, signals, replays, failing writes; windows fed by several sensors |
| `services/api` | cache of signing keys, cached answers in Redis, WebSocket connections | authentication, queries, live feed | state read before an await and used after it; failing back ends |
| `services/ml-retrain`, `services/ml-prediction` | registry of models, loaded models, datasets | train and promote, load at start-up, predict; generate and verify datasets | a promotion in several calls; features and zones written twice |
| `shared`, `alembic`, `infra`, frontends | none, or configuration | validation, schema, views | - |

The components meet at brokers and databases. A queue between two of them is
in the model of its consumer: the MQTT side in `Bridge`, the Kafka side in
`MlConsumer`. `Pipeline` composes sim-control's engine, the topic and the
consumer's detector; `DatasetGenerator` composes the simulator's zones with
the generator of the training data.

What makes each correct: the consumer and the bridge account for every message
once; the MQTT client ends up connected with the newest configuration; what
the store answered outlives a death; an override governs its ticks and no
others; an alarm has a cause and a spike is found; a locked building draws
nobody in; training data and live readings agree; a published key is found and
a retired one dies; an answer from the cache is not too old; only promoted
models serve.

## 2. The modules

| Module | Models | Checked by | Proved about in |
|---|---|---|---|
| `MlConsumer` | `ml-consumer/consumer/main.py`, the outcome of its writers | `MCMlConsumer` | `MlConsumerProofs` |
| `DeliveryLog` | nothing of its own: what `MlConsumer` promises, which `MlConsumer` instantiates under a refinement mapping | `MCMlConsumer` | `MlConsumerProofs` |
| `Bridge` | `bridge/main.py`, `producer.py`, the counters, the outcome of the validator | `MCBridge` | `BridgeProofs` |
| `SimControlMqtt` | `sim-control/backend/app/mqtt_client.py` | `MCSimControlMqtt` | `SimControlMqttProofs` |
| `SimControlStore` | `sim-control/backend/app/router.py`, `persistence.py`, publish loop, rules and start-up in `main.py` | `MCSimControlStore` | `SimControlStoreProofs` |
| `DurableStore` | nothing of its own: what `SimControlStore` promises, instantiated there under a refinement mapping | `MCSimControlStore` | `SimControlStoreProofs` |
| `Simulator` | `simulator/main.py` (tick loop, overrides, control requests), the publisher's connection, the sensors' failures, the injector | `MCSimulator` | `SimulatorProofs` |
| `CampusTopology` | `simulator/campus/topology.py`: buildings, rooms, capacities | `MCCampus` | - |
| `CampusZones` | `simulator/campus` and `simulator/zones`: calendar, timetable, events, the zones' targets; the occupancy sensor | `MCCampus` | `SimulatorProofs` |
| `DatasetGenerator` | `ml-prediction/generate_datasets.py` and `verify_datasets.py`, `simulator/sensors/energy.py` | `MCCampus` | `SimulatorProofs` |
| `Statistics` | sums, spreads and windows of short sequences | through its users | `StatisticsProofs` |
| `AnomalyDetector` | `ml-consumer/consumer/anomaly.py` | `MCPipeline` | `StatisticsProofs` |
| `Pipeline` | `sim-control/backend/app/sensor_engine.py`, the topic, the consumer's use of the detector | `MCPipeline` | `StatisticsProofs` |
| `ApiAuth` | `api/core/security.py`, `routers/buildings.py`, the handshake in `ws/handlers.py` and `ws/hub.py` | `MCApiAuth` | `ApiAuthProofs` |
| `ApiZones` | GET /campus/zones in `api/routers/campus.py`, its cache | `MCApiZones` | `StatisticsProofs` |
| `MlPlatform` | `ml-retrain/scheduler.py` and `retrain.py`, start-up of `ml-prediction/prediction_service/main.py`, MLflow's registry | `MCMlPlatform` | `MlPlatformProofs` |
| `ModelServing` | nothing of its own: what `MlPlatform` promises, instantiated there under a refinement mapping | `MCMlPlatform` | `MlPlatformProofs` |
| `MlFeatures` | congestion features in `retrain.py` and `prediction_service/main.py` | `MCMlFeatures` | - |

An action is one step between two points at which another thread, task,
callback or process can act: from await to await on an event loop, one
dictionary operation where a thread shares a dictionary. A definition under a
comment that begins with "Mutant:" (or whose name has an underscore, as
`TakeBad_Uncounted`) is the definition after it, changed as a plausible
mistake would change it. It occurs in no specification; each of them makes the
property it is listed with in `PROJECT.json` fail.

### MlConsumer and DeliveryLog

One process life runs `consume_loop` once. `pc` is the await point it is at:
waiting for a message, writing the anomalies of one (`checking`), writing the
batch (`flushing`), or flushing for the last time (`draining`). `Signal`,
`AutoCommit`, `IntervalElapses` and `Kill` happen at any of them. A message is
told from another by its place in the topic and by what its bytes make the
loop do: `bad` (no JSON), `poison` (the detector raises), `spoiler` (building
its point raises, which fails the whole batch), `flagged`, `plain`. A failing
batch write may still have stored some of the batch. `base`, `swallowed`,
`abends`, `unclean`, `reported` and the like are history: they are read by the
properties only. External: the group coordinator, InfluxDB (a point
overwrites the one with the same tags and time, so storing is idempotent) and
Postgres (each insert adds a row). One replica is deployed, so there is no
rebalance.

`DeliveryLog` says the same without the loop: messages are handed out in
order, held (at most a batch), settled together, and forgotten when a life
ends, while the committed offset may run ahead. `ImplementsDelivery` is the
refinement: the position is what was handed out, the batch and the message in
hand are what is held, a trace is what settles.

### Bridge

A message goes from `scheduled` (acknowledged to the MQTT broker, its task
queued) through `sending` and `buffered` to a final stage. `run` serves, joins
the network thread with the event loop blocked, flushes the producer, and
exits, which cancels whatever task is left: one that had not begun is
`dropped`, one inside its send `cancelled`. `expired` is aiokafka giving up a
buffered record: the future fails, and nobody looks at it.

### SimControlMqtt

Each call of `connect` builds one client, so both have one number. A call's
steps are those of the code, the locked part being one; the publish loop's
test of `_client` and its use are two steps. All clients write the one
`_connected` flag through their callbacks, also those that were replaced, whose
network threads nothing stops: such a client may find no broker again and
again, and each attempt clears the flag.

### SimControlStore and DurableStore

A request changes the dictionaries in one step, then opens (truncates) and
writes its files one after the other, then answers. A file is a one-element
sequence with its content, or empty while it is torn; `StartupFails` is what a
torn file does to every later start. The publish loop iterates with an
iterator that remembers the size it began with and how many entries it has
still to yield, as CPython's does; `mqtt.publish` after a sensor's rules tests
the client and uses it in two steps, and a new configuration takes the client
away until a thread has built another. `byRule`, `promised`, `deleted`,
`reseeded` and `disturbed` are history. Docker's restart policy starts the same container
again, so the files outlive the process; on Kubernetes there is no volume and
every start is a first one, which is the initial state.

`DurableStore` says what a client may rely on, without handlers, a loop or
the order of the saves. The state has two parts, the store and the MQTT
configuration. A request unpromises its part, its answer promises it again,
and may be given only when every file of the part holds what memory does; a
promised part moves in nothing but a sensor a rule switches; a startup has
what the saves left, or meets a torn file and is refused. `ImplementsDurable`
is the refinement. Its mapping takes of the log what a save would keep, and
the configuration of the request in hand as soon as that request has it
(`Told`), as `reconfigure` runs last; in between only the handler knows.

### Simulator

`pc` is where the tick is. The scan for expired overrides, each deletion and
each decrement are steps of their own, with the iterator's size test; a
sensor's turn in a pass is one step. Overrides are numbered by the request
that set them, which is how a property can say whose value was published;
`moved` remembers that a request changed the dictionary's size while the tick
iterated over it.

### CampusZones, CampusTopology, DatasetGenerator

One room's occupancy sensor through successive dates. A date is what the
calendars make of it (weekend, holiday, month, the baseline and the periods
that match it); ratios are in ten-thousandths, times in minutes, so the hour
boundaries of the code are exact. `Context`, the zones and `TargetRatios` are
operators, each with the branches of the code in its order; a sample draws
from every count the flow may show. The generator's `RoomOccDet` and the
verifier's checks are evaluated beside it at the same instants.

### AnomalyDetector, Statistics, Pipeline

The detector is a record of windows, a check a function of it and a reading.
Integers replace floating point throughout: a comparison with a mean or a
standard deviation is multiplied out or squared, so no rounding decides it.
In `Pipeline` sensors make readings by their mode, a rule may replace a value,
and the consumer checks one reading after the other. A configuration is a
range and a pattern, as a client sends them: narrow, empty or inverted ranges
and empty patterns included. A reading counts in the unit it is rounded to,
hundredths or heads; every value a mode can draw is in the model, the noise of
the walk being cut off at three deviations. The properties look at the topic
and not at the windows: `LastOf(places, n)` are the last n of the positions at
which a sensor's or a room's readings are, which is what a `deque` fed in the
order of the topic should hold.

### ApiAuth, ApiZones

A request is its await point. In `ApiAuth` the lock is a queue whose head
holds it; expiry is tested by the holder, the forced second look queues again
at the end, and a fetch replaces all keys or raises. `held` and `retired` are
history. In `ApiZones` an answer is a function of what three queries returned,
so the model moves the queries' results (each of which may be the empty result
of a failure) and applies `ZoneData` to them. `Tables` is what PostgreSQL may
answer; the instance gives it none. Time is counted in seconds: the
age of what was read, what is left of the cached answer's life, and what a
request spent in its queries.

### MlPlatform, MlFeatures

The scheduler's steps are its calls to MLflow, each of which may raise, the
registration also after it took effect. The service looks each model up and
then loads it by a second call, as the code does. Both may be killed anywhere.
`ModelServing` says the same in three numbers per model, the newest version,
the one that is live and the one that is served: a version goes live only as
the newest, and what is served was live when it was loaded
(`ImplementsServing`: their number is the length of the registry's sequence,
live is the version in Production).
`MlFeatures` keeps a mean as a sum and a deviation as a squared spread with
its divisor (a spread of 0 with none), so that equal features are equal values.

## 3. What the runs check

Passing runs:

| Run | Instance | Properties besides `TypeOK` |
|---|---|---|
| `consumer` | 1 topic, 2 messages, batch limit 2, 2 lives, 1 signal | `Accounting`: every message handed out is processed, in error, in the batch or the one a stop dropped; `LossBounded`: at most one batch lost per life that ended with readings in memory; `ReplayBounded`; `StopsWhenWoken`; `EventuallyHanded`; `ImplementsDelivery` |
| `bridge` | 3 messages | `CountersAccount`: every acknowledged message is counted, crashed, or abandoned by the exit before it ran or in its send, to the end of the process; `EventuallyDisposed`, `ShutdownCompletes` |
| `sim_control_mqtt` | 2 reconfigurations, 2 failures of the client in use, any number of the replaced ones | `NewestConfigWins`, `EventuallyUsable` |
| `sim_control_store` | 2 sensors, 1 rule, 3 requests, 1 death, 1 failing save, log limit 2 | `AnsweredIsDurable`, `DeletedStaysDeleted`, `QuietPublisherLives`, `ImplementsDurable` |
| `simulator` | 2 buildings, 3 requests, overrides of 1 or 2 ticks | `OverrideHonoured`, `TicksAddUp`, `EndsEarlyOnlyIfReplaced`, `OverrideEnds`, `LoopLives`: the tick thread dies only where a request added or removed an override while they aged |
| `campus_day` | a room of each kind, 8 kinds of date, 6 events, a sample every 10 minutes | `LockedDrawsNobody`, `LockedRoomsDoNotFill`, `GeneratorAgrees`, `DatasetVerifies` |
| `pipeline` | 2 meters and a thermometer in one room, windows of 3, 4 readings, 1 disturbance | `CalmIsNotFlagged`, `AlarmsHaveCause`, `SpikesAreFound` |
| `api_auth` | 2 requests in flight, any number one after the other; 3 keys | `PublishedKeyIsFound`, `RetiredKeyDies`, `EveryCallAnswered` |
| `api_zones` | 2 requests in flight (symmetric), 4 rooms, 2 contents of InfluxDB, 3 spikes: below, within and above the range of the readings; PostgreSQL's query fails, as with the repository's tables | `StalenessBounded`, `SpikeIsContained` |
| `ml_platform` | 3 models with 3 versions each | `ServesPromoted`, `ImplementsServing`, `ProductionRises`, `SchedulerGoesOn` |

`TypeOK` is checked by the runs `consumer`, `sim_control_store`, `simulator`
and `api_auth`; `Bridge`, `SimControlMqtt`, `ApiZones` and `MlPlatform` have
theirs proved instead (section 4), and the modules of numbers have none.

Runs that end in a violation, each of a sentence of the repository:

| Run | Sentence | What happens |
|---|---|---|
| `sim_control_publisher` | "MQTT not connected — dropping message" (mqtt_client.py 102) | the client is tested, then replaced by None, then used: the publish thread dies |
| `ml_features` | "Feature engineering matches services/ml-prediction/prediction_service/main.py:build_congestion_features." (retrain.py 10) | the activity of the day, in every training row, is served as zeros |

Smaller things seen while modelling, which the models have as they are:

* ml-consumer looks at `stop_event` after a message only: on silent topics a
  SIGTERM waits for the supervisor's kill.
* bridge: JSON that is no object makes the validator raise a TypeError nobody
  catches, so it reaches neither topic nor counter.
* simulator: an override set between the scan and the deletion of its
  predecessor is deleted at once (the one case `EndsEarlyOnlyIfReplaced`
  allows); POST /override/clear-all is shadowed by /override/{building_id}.
* api: `_Conn` has no hash, so `connect` raises after `accept` and no socket is
  ever registered. GET /campus/zones selects `rooms.room_id` (campus.py 204), a
  column that neither `infra/postgres/init.sql` nor the migrations have, so the
  capacities are never known and the clamping that lines 236-241 describe does
  not happen; a sum of 500 W or less is taken for kilowatts (line 260); and the
  cached answer lives 2 seconds (line 279) where line 149 says 5 (`TTL` is a
  parameter).
* simulator: the branch of the tutorials for `hour >= 21.0` (base_zone.py 229) is
  in a function that is asked between 17:15 and 21:00 only, so a tutorial that is
  on at 21:00 is on again the next evening.
* sim-control: autoseed takes an emptied store for a new one, so a restart after
  the last sensor was deleted brings the seed's sensors back.
* ml-prediction: besides the activity, the deviations served are a population's
  where training has a sample's, and a forecast leaves the present slot out of
  its history. `MlFeatures` has both, but the first difference hides them.
* generate_datasets.py seats people in the canteens all through a holiday, and
  in libraries and halls at hours in which the zones have none: `Comparable`
  in `DatasetGenerator` lists where the two do agree.

### Bounds

Every bound is a constant named in its module (`Max...`) and is a conjunct of
the guard of the action that counts. Why they are enough:

* Two lives of the consumer are a loss and a replay; a third repeats the
  second from another offset. Two messages overflow no batch limit of 2 but
  fill it, which is where the limit is tested. The proofs are for any number
  of topics, messages and lives.
* Three messages in the bridge have one in each of three stages at once, of
  any three kinds.
* Two reconfigurations give three clients: one current, one being replaced,
  one late.
* Three requests on the store are what it takes to change it, to change it
  back and to have one more in hand when the process dies; the log limit is 2
  so that the third cuts it. A client makes of a sensor one that is on and not
  in mode NORMAL, the topology's are NORMAL, and toggles, bulk requests and the
  rule turn sensors off. The one rule switches the other sensor; rules
  that switch on or off instead of over, or several rules, are not in the
  instance.
* In the simulator three requests set, replace and clear an override while a
  tick is anywhere; overrides of 1 and 2 ticks are one that expires at the
  next scan and one that does not. An override there has both values.
* `campus_day`: the dates are one of each combination the zones tell apart
  (working day, examination, reading break, union action, intersession, and
  their overlaps; weekend; holiday), the rooms one of each zone, with few
  seats, as the flow moves by a share of them. The clock wraps at midnight, so
  the run covers every sequence of dates. At most one event is held at a time.
* `pipeline`: with windows of 3, 4 readings fill one and push the oldest out;
  one disturbance is a reconfiguration or a restart at any point. Ranges
  that do not overlap are the ones whose change makes a calm history swing;
  one of the two has a pattern and one has none.
* `api_auth`: three keys are one that was retired, one in use and a new one. A
  request that was answered may arrive again, so any number of them follow
  each other, two at a time; two are what it takes for one to wait while the
  other fetches.
* `api_zones`: a life of 2 and queries of 1 second, so that a slow fill can
  be overtaken by a whole other request. Ages are not bounded by a guard: time
  stops for a request when its queries have used up `MaxQuery`, the time within
  which the clients answer or give up.
* `ml_platform`: a third version is one registered and unpromoted between two
  that are promoted. Versions are bounded, so a scheduler at the bound fails
  and tries again.

Deadlock is checked in `campus_day`, `api_auth`, `api_zones`, `ml_platform`
and `ml_features`, whose systems never stop. The others end when their bounds
are used up, and a stopped process, a dead thread and a refused start-up are
ends the code really has.

### Fairness

Weak fairness of steps that a running scheduler takes: the event loop
resumes a coroutine whose await is over (`MlConsumer`, `Bridge`, `ApiAuth`:
the HTTP client gives up after 10 s), threads run (`SimControlMqtt`,
`Simulator`), the container is started again after its process ended
(`MlConsumer`, `MlPlatform`), a sleep ends. `FairSpec` of `Bridge` also
assumes that aiokafka resolves what it buffered and that the join of paho's
thread returns: the first is bounded by timeouts in the library, and the thread
waits for nothing of the loop's (`call_soon_threadsafe` only queues).
`SimControlMqtt` assumes that the broker of the client in use answers in the
end, as its failures are bounded, and nothing of the brokers of clients that
were replaced: `EventuallyUsable` therefore excepts behaviours in which such a
client goes on finding no broker (`Strays`), since the code then has the flag
cleared again and again. No fairness is assumed of signals, kills, requests,
producers, auto-commit, rotations, failures or MLflow's success. The modules
without liveness properties have no fairness.

## 4. What is proved

For every value of the constants, from the assumptions the modules state about
them. Each theorem rests on an inductive invariant, of which the comments of
the proof modules say why it is needed.

* `MlConsumerProofs`. `TypeCorrect`: `TypeOK` is not inductive, as the step
  that writes an anomaly needs that the message in hand has anomalies left
  (`CheckingHasWork`). `BatchIsBounded`: a message is appended only from
  `waiting`, where the batch is strictly below the limit, and the loop does
  not wait again with a full one (`BatchInv`). `LossIsBounded`: `LossInv` adds
  the order of the offsets and `Traced`: what a life was handed, and
  everything committed that is not lost, has a trace. A message loses its
  trace only when a life ends with it in the batch, or as the one message that
  broke the loop, so the set `Lost` grows by at most the batch limit, and then
  `abends` grows too. `ReplayIsBounded`: a row is inserted twice only for a
  message between the committed offset and the position of a life that ended
  uncleanly (`ReplayInv`). `AccountingHolds`: the four places a message can be
  in are counted, and every step moves it from one to another (`AccountInv`).
  `DeliveryImplemented`: `Spec => DeliveryLog!Spec` under the mapping; the
  initial states correspond, and each action maps to one of `DeliveryLog`'s or
  to a stutter, with `BatchInv` for the limit.
* `BridgeProofs`. `TypeCorrect`; `CountersHold`: each counter is the number of
  messages in the stages it stands for, and a step changes the stage of one
  message, but for the exit, which moves all that had not begun to `dropped`
  and all inside their send to `cancelled`.
* `ApiAuthProofs`. `TypeCorrect`; `LockHolds`: the queue holds each waiting
  request once and only its head fetches; `KeysAreFound`: a key that has been
  published since the request arrived is among those a forced fetch brings;
  `RetiredKeysDie`: while the cache is fresh it holds nothing older than what
  was published when it last expired, and what is not fresh is fetched by the
  holder of the lock before anything is looked up.
* `MlPlatformProofs`. `TypeCorrect`, `ServesPromotedOnly`,
  `ProductionOnlyRises`, all from `PlatformInv`: between listing and promoting
  nobody registers a version, so the one promoted is still the newest, and a
  model has one Production version at most. `ServingImplemented`: `Spec =>
  ModelServing!Spec`; registering, promoting, loading and a kill of the
  service map to one step each, everything else to a stutter, and the step
  that promotes needs that same invariant.
* `SimControlMqttProofs`. `TypeCorrect`; `NewestConfigIsUsed` from `MqttInv`:
  a connector that has yet to pass its locked part exists, or the last one to
  pass it took the configuration of now.
* `SimControlStoreProofs`. `DeletionIsFinal` from `DeletedInv`: what was
  deleted with an answer is, unless the seed of a startup that found no sensor
  has added it (`reseeded`), absent in memory, in the snapshot being saved and
  in the file unless it is torn, and a save whose answer is due has been made.
  `TypeCorrect` from `TypeInv`: a startup takes its memory from the files, and
  a file its content from the snapshot of the request in hand, so every entry
  of both is typed, and every dictionary is finite. `QuietPublisherIsAlive`
  from `QuietInv`: an iterator never has a key to yield that its dictionary
  has not (`Follows`), and while no key came or went it counts exactly what is
  left (`Steady`), so it does not raise, the sensor a rule was checked for is
  there when it is written, and the client `publish` tested is there when it
  sends unless a new configuration took it away. `AnswersAreDurable` from
  `DurableInv`: a promised part has in every file what memory has (`Kept`),
  and the request in hand has, in the files it has passed, what it will answer
  for (`InHand`). `StoreImplementsDurable`: `Spec => DurableStore!Spec`; a
  save opens and closes as one step of `DurableStore` each, an answer as one,
  the publish loop's writes as `Switch` or a stutter, with `DurableInv` for
  what the answer and the startup ask of the files. It assumes that the seed's
  topology is finite, as the lists in `seed.py` are.
* `SimulatorProofs`. `OverrideIsHonoured` from `HonouredInv`: a request
  numbers its override with a number no tick has begun with, nothing is sent
  before the second pass, and what it sends goes through the override last.
  `TypeCorrect` from `TypeInv`. `TicksAreExact` and `OnlyReplacementsEndEarly`
  from `TicksInv`: each entry of the dictionary has a number of its own, which
  is how the iterator tells a replaced one (`OwnEntries`); ticks left and
  lived balance, but for the one tick between the decrement of an entry and
  the end of the tick (`Balanced`); what the scan passed over, and what the
  decrement has yet to reach, has ticks left (`TicksLeft`); and what the scan
  found expired is expired still, or new (`ExpiredOrNew`).
  `OnlyRequestsEndTheLoop` from `LivesInv`: until a request resizes the
  dictionary an iterator has its size and has seen only entries that are still
  there, so it has seen them all when it has seen as many, and what the scan
  found is there to be deleted (`Undisturbed`).
* `SimulatorProofs`, of `CampusZones` and `DatasetGenerator`. `ZoneTypes`: the
  flow keeps the head count between nobody and the capacity, whatever number
  the zone aims at; that it is a number is shown for each zone, on every date
  and with every event, and the largest element that `LectureRatio` and its
  like take of a set exists because the set is bounded. `LockedAreEmpty`: the
  same lemmas say that each zone has the ratio 0 alone outside the building's
  hours, and the events elsewhere, which scale it, leave a 0 alone.
  `LockedRoomsStayEmpty`: a sensor that aims at nobody moves its head count
  down or by its noise, whatever count or tutorial the evening left.
  `GeneratorFollows`: wherever `Comparable` holds, the generator aims at what
  the zone aims at, kind of room by kind of room, and by day the power drawn
  is above either table of standby loads, the one thing in which the two
  energy formulas differ.
* `StatisticsProofs`, of `ApiZones`. `TypeCorrect`; `StalenessIsBounded` from
  `StaleInv`: a request's source is no older than what the request spent, and
  the age of the cached answer and what is left of its life together never
  exceed the bound. `SpikesAreContained`, for any rooms, tables, readings and
  spikes: one sensor with an impossible reading moves no answered temperature
  out of the range of the others; one above the others leaves the answered
  load at what they add up to, as the top of four readings is cut off. A low
  one is not cut off from the load: it raises the answer only where it brings
  what is left to 500 W or less, which line 260 then takes for kilowatts (less
  than one becomes hundreds), and the theorem says that nothing else does. Occupancies are
  no part of it: without capacities (section 3) nothing bounds them. No
  invariant of the steps is in it but that answers have sources; the proof is
  about `ZoneData`, over sums: the sum over a finite set exists, is unique,
  does not depend on the order, is bounded by the extremes and loses exactly
  the element that is left out.
* `StatisticsProofs`, of `Pipeline`, on the same lemmas about sums.
  `PipelineTypes`. `CalmSensors` from `CalmInv`: the last `calm` readings of a
  sensor in mode NORMAL lie in its range and are a `Stride` apart from one to
  the next. The spread of n readings a stride apart is at most n² (n² - 1) /
  12 squared strides, by induction over the readings and, for each, over those
  before it; for n up to 6, the code's window, that is below the deviation
  allowed at every width but 9, a range in which rounding makes a stride a
  whole unit: there the walk leaves only an end of the range, by one, and
  stays. An empty or inverted range flags nothing. Only the readings of the
  present configuration count, so whatever the history held before is gone
  with the window. `WindowsRemember` is the invariant of the consumer: the
  entry m places before the end of a window is the reading at that place of
  the topic which m later places of the same sensor, or of the same room and
  type, follow (`Remembers`); a push keeps it, readings of others do not touch
  it, a restart begins it anew. `AlarmCauses` and `SpikesFound` follow for the
  reading at hand: a deviation over the threshold needs readings further apart
  than it (n squared times the squared width of a set of readings is at least
  four times their spread), a mean lies between the extremes, and readings
  that are equal have no spread.

Assumptions on constants are those of the modules. `ApiZones` assumes that a
building has finitely many rooms and that readings are integers; `CampusZones`
that capacities, minutes and ratios are the numbers the campus tables hold.
`Pipeline` assumes of the flag's window that it is no longer than the 6
readings of the code, and takes the noise of the walk to end at three
deviations. All else about the pipeline (ranges, patterns, the detector's
windows, thresholds, rules) is arbitrary.

The library's induction theorems take an operator as a parameter, which the
installed provers cannot instantiate. The lemmas about sums and bounded sets
state their induction with sets instead: a set of numbers, the counterexamples,
has a least element (`WFMin` over `NatLessThanWellFounded`),
which the step refutes.

Only model-checked: all liveness (temporal reasoning under fairness is out of
the prover's reach), which is `StopsWhenWoken`, `EventuallyHanded`,
`EventuallyDisposed`, `ShutdownCompletes`, `EventuallyUsable`, `OverrideEnds`,
`EveryCallAnswered` and `SchedulerGoesOn`; and `DatasetVerifies`, which adds
up what the generator makes of the campus's own rooms, a computation with the
tables of `CampusTopology` rather than an argument. Every other property of
the passing runs is proved.

## 5. What is not modelled

* Reads: no request that only reads is an action, but for the two of the API
  whose caches are the subject. The message log and the interval of
  sim-control, the HTML pages, logging and metrics servers are left out.
* Numbers, outside the modules about them: sensor values, thresholds,
  timestamps. Where a number decides something, the model leaves the outcome
  open (a rule triggers or not, the flush interval is over or not).
* The WebSocket hub beyond `connect`: as no connection is registered, its
  push loop, pings and disconnects have nothing to act on.
* The temperature sensor, dates in the calendar files, the energy features and
  forecasts, the averages `verify_datasets.py` takes over a whole dataset (the
  checks of single rows are modelled, and what is asked of an average is asked
  of every row), and the training itself.
* `_apply_override` of a value whose type the override does not have.
* ml-consumer serves a metrics object it never counts into (main.py 193,
  metrics.py 54); the counters modelled are those the loop increments.
* Two schedulers at once: the Deployment has one replica, and the moment in
  which a rolling update may overlap two is left out.
* The order of dictionary iteration is left open, and a dictionary's
  compaction while it is iterated is left out.
* Shared schemas, frontends, SQL, dashboards and deployment keep no state of
  their own; tests and scripts are read as documentation.

## 6. Plan

Done: the modules of section 2, in the order consumer, bridge, MQTT client,
simulator, store, authentication, zones' answer, zones and datasets, registry
and features, pipeline; the refinements of `DeliveryLog`, `DurableStore` and
`ModelServing`; the theorems of section 4.

Next, in this order:

1. An abstract key cache that `ApiAuth` implements, and the bridge's topic as
   the consumer's log, so that `Bridge` and `MlConsumer` compose.
2. The hub's push loop, pings and cap, once a connection can be registered.
3. The point builder of `influx_writer.py` and the validator's field rules as
   operators.
4. Energy features and forecasts beside `MlFeatures`.
