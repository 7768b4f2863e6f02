---------------------------- MODULE DeliveryLog -----------------------------
(***************************************************************************)
(* What ml-consumer promises about the messages of its topics, whatever    *)
(* its loop looks like inside (services/ml-consumer/consumer/main.py):     *)
(* messages are handed out in order and held, at most Limit at a time,     *)
(* until they are settled together (stored, counted as an error, or        *)
(* dropped by a stop); the committed offset may run ahead of what is       *)
(* settled; and a life that ends forgets what it holds and starts over     *)
(* from the committed offset.  MlConsumer implements it.                   *)
(***************************************************************************)
EXTENDS Integers, FiniteSets

CONSTANTS Topics,
          Limit    \* messages held at most

VARIABLES
    produced,   \* messages in each topic
    handed,     \* position up to which this life handed messages out
    committed,  \* the offsets a next life starts from
    held,       \* messages handed out and not settled
    settled,    \* messages that left a trace
    losses      \* lives that ended while they held messages

vars == <<produced, handed, committed, held, settled, losses>>

Init ==
    /\ produced = [t \in Topics |-> 0]
    /\ handed = [t \in Topics |-> 0] /\ committed = [t \in Topics |-> 0]
    /\ held = {} /\ settled = {} /\ losses = 0

Produce(t) ==
    /\ produced' = [produced EXCEPT ![t] = @ + 1]
    /\ UNCHANGED <<handed, committed, held, settled, losses>>

(* The next message of t is handed out: it is held, or settled at once.    *)
Hand(t) ==
    /\ handed[t] < produced[t]
    /\ handed' = [handed EXCEPT ![t] = @ + 1]
    /\ \/ held' = held \cup {<<t, handed'[t]>>} /\ UNCHANGED settled
       \/ settled' = settled \cup {<<t, handed'[t]>>} /\ UNCHANGED held
    /\ Cardinality(held') <= Limit
    /\ UNCHANGED <<produced, committed, losses>>

Commit ==
    /\ committed' = handed
    /\ UNCHANGED <<produced, handed, held, settled, losses>>

(* What is held is settled as a whole, never in part.                      *)
Settle ==
    /\ held' = {}
    /\ settled' = settled \cup held
    /\ UNCHANGED <<produced, handed, committed, losses>>

(* A life ends, having committed or not; a write in flight was taken in by *)
(* InfluxDB or not.                                                        *)
End ==
    /\ committed' \in {committed, handed}
    /\ handed' = committed'
    /\ held' = {}
    /\ settled' \in {settled, settled \cup held}
    /\ losses' = IF held = {} THEN losses ELSE losses + 1
    /\ UNCHANGED produced

Next == (\E t \in Topics : Produce(t) \/ Hand(t)) \/ Commit \/ Settle \/ End

Spec == Init /\ [][Next]_vars
=============================================================================
