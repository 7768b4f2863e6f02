---------------------------- MODULE SimControlMqtt ----------------------------
(***************************************************************************)
(* services/sim-control/backend/app/mqtt_client.py, SimControlMQTT: one    *)
(* object shared by the publish-loop thread, the request handler that      *)
(* reconfigures it, one connector thread per reconfiguration and the       *)
(* network thread of every paho client that was ever built.                *)
(*                                                                         *)
(* connect() is called by the publish loop at start-up and by one thread   *)
(* per reconfigure(); call i builds client i.  The lock covers only the    *)
(* set-up of connect() and the first half of disconnect(); _connected,     *)
(* _stop and _client are read without it.                                  *)
(***************************************************************************)
EXTENDS Integers

CONSTANTS MaxReconfigures,  \* bound: PUT /api/mqtt/config requests
          MaxFailures       \* bound: failed TCP connects, refused or late
                            \* CONNACKs and lost connections of the client
                            \* in use, together; those of a client that was
                            \* replaced are not bounded

ASSUME SimControlMqttAssumption ==
    MaxReconfigures \in Nat /\ MaxFailures \in Nat

Calls     == 1..(MaxReconfigures + 1)   \* connect() calls, and their clients
NoClient  == 0
Publisher == 1                          \* the call made by the publish loop

VARIABLES
    connected,   \* _connected
    stop,        \* _stop
    client,      \* _client
    config,      \* version of _config
    built,       \* [Calls -> version of the configuration the client has]
    link,        \* [Calls -> state of the client's network thread]
    call,        \* [Calls -> where the connect() call is]
    handler,     \* where reconfigure() is
    old,         \* the client reconfigure() took from _client
    publisher,   \* where the publish loop is
    failures     \* failures so far

clients == <<built, link>>
vars == <<connected, stop, client, config, clients, call, handler, old,
          publisher, failures>>

(* A client is idle without a network thread; its thread is trying to      *)
(* connect, or is connected and has run on_connect.                        *)
Links    == {"idle", "trying", "up"}
CallPcs  == {"none", "spawned", "head", "connecting", "waiting", "giving_up",
             "backoff", "returned"}
Handlers == {"idle", "stopping", "starting"}

TypeOK ==
    /\ {connected, stop} \subseteq BOOLEAN
    /\ {client, old} \subseteq Calls \cup {NoClient}
    /\ config \in 0..MaxReconfigures
    /\ built \in [Calls -> 0..MaxReconfigures]
    /\ link \in [Calls -> Links]
    /\ call \in [Calls -> CallPcs]
    /\ handler \in Handlers
    /\ publisher \in {"connecting", "loop", "checked", "dead"}
    /\ failures \in 0..MaxFailures

Init ==
    /\ connected = FALSE /\ stop = FALSE
    /\ client = NoClient /\ old = NoClient
    /\ config = 0
    /\ built = [i \in Calls |-> 0]
    /\ link = [i \in Calls |-> "idle"]
    /\ call = [i \in Calls |-> IF i = Publisher THEN "spawned" ELSE "none"]
    /\ handler = "idle"
    /\ publisher = "connecting"
    /\ failures = 0

(* A failure of client i.  The broker of the client in use answers in the  *)
(* end; that of a client another connector replaced, whose network thread  *)
(* nothing stops, may be gone for good.                                    *)
Fail(i) == IF i = client
           THEN failures < MaxFailures /\ failures' = failures + 1
           ELSE UNCHANGED failures

-----------------------------------------------------------------------------
(* connect(), call i.                                                      *)

Goto(i, s) == call' = [call EXCEPT ![i] = s]

(* Mutant: the stop flag set by disconnect() is not cleared.               *)
Build_KeepsStop(i) ==
    /\ call[i] = "spawned"
    /\ client' = i
    /\ built' = [built EXCEPT ![i] = config]
    /\ Goto(i, "head")
    /\ UNCHANGED <<connected, stop, config, link, handler, old, publisher,
                   failures>>

(* The locked part: clear the stop flag, build a client from the present   *)
(* configuration and publish it.                                           *)
Build(i) ==
    /\ call[i] = "spawned"
    /\ stop' = FALSE
    /\ client' = i
    /\ built' = [built EXCEPT ![i] = config]
    /\ Goto(i, "head")
    /\ UNCHANGED <<connected, config, link, handler, old, publisher, failures>>

(* while not self._stop.                                                   *)
Head(i) ==
    /\ call[i] = "head"
    /\ Goto(i, IF stop THEN "returned" ELSE "connecting")
    /\ UNCHANGED <<connected, stop, client, config, clients, handler, old,
                   publisher, failures>>

(* client.connect() opened the socket; loop_start() runs the network       *)
(* thread, also on a client that disconnect() has stopped in the meantime. *)
LoopStart(i) ==
    /\ call[i] = "connecting"
    /\ link' = [link EXCEPT ![i] = "trying"]
    /\ Goto(i, "waiting")
    /\ UNCHANGED <<connected, stop, client, config, built, handler, old,
                   publisher, failures>>

(* client.connect() raised: logged, then the back-off sleep.               *)
ConnectRaises(i) ==
    /\ call[i] = "connecting"
    /\ Fail(i)
    /\ Goto(i, "backoff")
    /\ UNCHANGED <<connected, stop, client, config, clients, handler, old,
                   publisher>>

(* The wait ends because _connected is set, by whichever client, or        *)
(* because of _stop or the deadline; then _connected decides.              *)
WaitSucceeds(i) ==
    /\ call[i] = "waiting"
    /\ connected
    /\ Goto(i, "returned")
    /\ UNCHANGED <<connected, stop, client, config, clients, handler, old,
                   publisher, failures>>

(* The deadline is a failure of this client unless its connection is up    *)
(* and a callback of another one cleared the flag.                         *)
WaitFails(i) ==
    /\ call[i] = "waiting"
    /\ ~connected
    /\ IF stop \/ link[i] = "up" THEN UNCHANGED failures ELSE Fail(i)
    /\ Goto(i, "giving_up")
    /\ UNCHANGED <<connected, stop, client, config, clients, handler, old,
                   publisher>>

(* client.loop_stop() joins the network thread; no callback runs.          *)
LoopStop(i) ==
    /\ call[i] = "giving_up"
    /\ link' = [link EXCEPT ![i] = "idle"]
    /\ Goto(i, "backoff")
    /\ UNCHANGED <<connected, stop, client, config, built, handler, old,
                   publisher, failures>>

(* The sleep is not interrupted by _stop.                                  *)
WakeUp(i) ==
    /\ call[i] = "backoff"
    /\ Goto(i, "head")
    /\ UNCHANGED <<connected, stop, client, config, clients, handler, old,
                   publisher, failures>>

-----------------------------------------------------------------------------
(* paho callbacks, on the network thread of client i.                      *)

(* Mutant: only the first connection sets the flag, not paho's own         *)
(* reconnections.                                                          *)
OnConnect_FirstOnly(i) ==
    /\ link[i] = "trying"
    /\ link' = [link EXCEPT ![i] = "up"]
    /\ connected' = IF call[i] = "waiting" THEN TRUE ELSE connected
    /\ UNCHANGED <<stop, client, config, built, call, handler, old, publisher,
                   failures>>

(* _on_connect with reason code 0, at the first connection or at one of    *)
(* paho's own reconnections.                                               *)
OnConnect(i) ==
    /\ link[i] = "trying"
    /\ link' = [link EXCEPT ![i] = "up"]
    /\ connected' = TRUE
    /\ UNCHANGED <<stop, client, config, built, call, handler, old, publisher,
                   failures>>

(* _on_disconnect: the connection is lost, or one just opened is refused   *)
(* or closed; paho's loop keeps trying.                                    *)
OnDisconnect(i) ==
    /\ link[i] \in {"trying", "up"}
    /\ Fail(i)
    /\ link' = [link EXCEPT ![i] = "trying"]
    /\ connected' = FALSE
    /\ UNCHANGED <<stop, client, config, built, call, handler, old, publisher>>

-----------------------------------------------------------------------------
(* reconfigure(), run by the request handler, which blocks the event loop, *)
(* so there is one at a time.                                              *)

(* disconnect(), the locked half.                                          *)
TakeClient ==
    /\ handler = "idle"
    /\ \E i \in Calls : call[i] = "none"
    /\ stop' = TRUE
    /\ old' = client
    /\ client' = NoClient
    /\ connected' = FALSE
    /\ handler' = "stopping"
    /\ UNCHANGED <<config, clients, call, publisher, failures>>

(* disconnect(), after the lock: loop_stop() joins the network thread, and *)
(* disconnect() on a live socket runs _on_disconnect in this thread.       *)
StopClient ==
    /\ handler = "stopping"
    /\ IF old = NoClient
       THEN UNCHANGED <<link, connected>>
       ELSE /\ link' = [link EXCEPT ![old] = "idle"]
            /\ connected' = IF link[old] = "up" THEN FALSE ELSE connected
    /\ old' = NoClient
    /\ handler' = "starting"
    /\ UNCHANGED <<stop, client, config, built, call, publisher, failures>>

(* The configuration is replaced and a thread that will call connect() is  *)
(* started.                                                                *)
StartConnector ==
    /\ handler = "starting"
    /\ config' = config + 1
    /\ call' = [call EXCEPT ![config' + 1] = "spawned"]
    /\ handler' = "idle"
    /\ UNCHANGED <<connected, stop, client, clients, old, publisher, failures>>

-----------------------------------------------------------------------------
(* The publish loop.                                                       *)

(* Its connect() returned, connected or told to stop.                      *)
PublisherConnected ==
    /\ publisher = "connecting"
    /\ call[Publisher] = "returned"
    /\ publisher' = "loop"
    /\ UNCHANGED <<connected, stop, client, config, clients, call, handler, old,
                   failures>>

(* publish(): the test of _connected and _client; failing it drops the     *)
(* reading and leaves the loop where it was.                               *)
PublishTest ==
    /\ publisher = "loop"
    /\ connected /\ client # NoClient
    /\ publisher' = "checked"
    /\ UNCHANGED <<connected, stop, client, config, clients, call, handler, old,
                   failures>>

(* publish(): _client is read again.  On a client the message is sent, or  *)
(* refused with a return code; on None the attribute error ends the thread.*)
PublishCall ==
    /\ publisher = "checked"
    /\ publisher' = IF client = NoClient THEN "dead" ELSE "loop"
    /\ UNCHANGED <<connected, stop, client, config, clients, call, handler, old,
                   failures>>

-----------------------------------------------------------------------------

Connect(i) ==
    \/ Build(i) \/ Head(i) \/ LoopStart(i) \/ ConnectRaises(i)
    \/ WaitSucceeds(i) \/ WaitFails(i) \/ LoopStop(i) \/ WakeUp(i)
Reconfigure == StopClient \/ StartConnector
Publish     == PublisherConnected \/ PublishTest \/ PublishCall

Next ==
    \/ \E i \in Calls : Connect(i) \/ OnConnect(i) \/ OnDisconnect(i)
    \/ TakeClient \/ Reconfigure
    \/ Publish

Spec == Init /\ [][Next]_vars

(* Threads run, and the broker of the client in use answers it: its        *)
(* failures are bounded.  Nothing is assumed of the brokers of clients     *)
(* that were replaced.  A reconfiguration is finished once begun, never    *)
(* assumed.                                                                *)
Fairness ==
    /\ \A i \in Calls : WF_vars(Connect(i)) /\ WF_vars(client = i /\ OnConnect(i))
    /\ WF_vars(Reconfigure)
    /\ WF_vars(Publish)

FairSpec == Spec /\ Fairness

-----------------------------------------------------------------------------
(* Properties.                                                             *)

Settled == handler = "idle" /\ \A i \in Calls : call[i] # "spawned"
Current == client # NoClient

(* However the connectors of several reconfigurations are scheduled, once  *)
(* none of them is still to run its locked part, the client in use was     *)
(* built from the newest configuration and the stop flag is clear          *)
(* (mqtt_client.py 55-61, 91-96).                                          *)
NewestConfigWins ==
    Settled => Current /\ built[client] = config /\ ~stop

(* A client that another connector replaced and that has no connection:    *)
(* nothing stops it, and each of its attempts may clear the flag.          *)
Strays == {i \in Calls \ {client} :
              link[i] = "trying" \/ call[i] \notin {"none", "spawned", "returned"}}

(* When failures and reconfigurations are over, the client in use is       *)
(* connected and known to be for good: no connector, and no callback of a  *)
(* client that was replaced, keeps undoing it, with the one exception the  *)
(* code makes: a replaced client that again and again finds no broker      *)
(* (mqtt_client.py 55-96, 157-171).                                        *)
EventuallyUsable ==
    <>[](Strays = {}) => <>[](Settled => link[client] = "up" /\ connected)

(* mqtt_client.py 99-103: without a client publish() drops the message and *)
(* returns False; so the publish loop outlives a reconfiguration.          *)
PublisherSurvives == publisher # "dead"
=============================================================================
