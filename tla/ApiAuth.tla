------------------------------ MODULE ApiAuth ------------------------------
(***************************************************************************)
(* Authentication of the dashboard API: the cache of Keycloak's signing    *)
(* keys (core/security.py) and its two callers, a REST route that shows a  *)
(* building (routers/buildings.py) and the WebSocket handshake             *)
(* (ws/handlers.py, ws/hub.py).  All run on one event loop; a call gives   *)
(* the loop up where it waits for the cache's lock, for Keycloak or for    *)
(* the acceptance of its socket, and the others run in between.            *)
(*                                                                         *)
(* Keycloak publishes the keys oldest..newest, rotates them at any time    *)
(* and may not answer.  A signature, an expiry date and an issuer are one  *)
(* Boolean of the token, `sound'.  The development fallback (HS256) keeps  *)
(* no state and is left out.                                               *)
(***************************************************************************)
EXTENDS Naturals, Sequences

CONSTANTS
    Requests, \* requests that may be in flight at the same time
    MaxKey    \* bound: keys Keycloak ever publishes, 1..MaxKey

ASSUME ApiAuthAssumption == MaxKey \in Nat \ {0}

VARIABLES
    keys,    \* _keys: the keys of the last successful fetch
    fresh,   \* ~_expired()
    queue,   \* _lock: its holder, then those that wait for it, in order
    oldest, newest, \* the keys Keycloak publishes
    retired, \* history: the keys below it had left when the cache last expired
    req      \* the requests

vars == <<keys, fresh, queue, oldest, newest, retired, req>>

Answers == {"ok", "unknownKid", "refused", "forbidden", "notFound",
            "error", "broken"}
Waits == {"lock", "fetch", "accept"}

\* kid 0 is one Keycloak never publishes; `held' is history: Keycloak has
\* published the kid ever since the request arrived.
Request == [pc : Waits \cup Answers \cup {"free"}, kid : 0..MaxKey,
            forced : BOOLEAN, held : BOOLEAN]

Served == oldest..newest

Init ==
    /\ keys = {} /\ fresh \in BOOLEAN /\ queue = <<>>
    /\ oldest = 1 /\ newest = 1 /\ retired = 0
    /\ req = [r \in Requests |->
                [pc |-> "free", kid |-> 0, forced |-> FALSE, held |-> FALSE]]

-----------------------------------------------------------------------------
(* What a call does once the token's key is known.  The rest of the token,  *)
(* the kind of call and the building are read only here: chosen here.       *)

\* can_access: one of the token's buildings.
CanAccess(claim) == claim # "elsewhere"

\* jwt.decode, _extract_claims and can_access: a ValueError is a 401 or a
\* close with 4001, a building not in the claims a 403 or the same close.
Decoded(sound, claim) ==
    IF ~sound \/ claim = "notAList" THEN "refused"
    ELSE IF ~CanAccess(claim) THEN "forbidden" ELSE "granted"

\* get_building after the claims: 404, or the building with its rooms.
Shown(exists) == IF exists THEN "ok" ELSE "notFound"

\* req when r is answered with pc, or goes on to wait for accept.
Ended(r, pc) == [req EXCEPT ![r] =
    [pc |-> pc, kid |-> 0, forced |-> FALSE,
     held |-> req[r].held /\ pc = "unknownKid"]]

Proceed(r) ==
    \E sound, exists \in BOOLEAN, claim \in {"here", "elsewhere", "notAList"},
       kind \in {"rest", "ws"} :
        LET d == Decoded(sound, claim) IN
        req' = Ended(r, IF d # "granted" THEN d
                        ELSE IF kind = "ws" THEN "accept" ELSE Shown(exists))

\* Mutant: no forced refresh, a kid the cache does not hold is refused.
NoSecondLook(r, ks, rest) ==
    /\ IF req[r].kid \in ks THEN Proceed(r) ELSE req' = Ended(r, "unknownKid")
    /\ queue' = rest

\* get_key returned: the request goes on with a key of ks, asks once more
\* with force_refresh, or is refused; rest is the queue it has left.
Looked(r, ks, rest) ==
    LET q == req[r] IN
    IF q.kid \in ks
    THEN Proceed(r) /\ queue' = rest
    ELSE IF q.forced
    THEN req' = Ended(r, "unknownKid") /\ queue' = rest
    ELSE /\ req' = [req EXCEPT ![r].pc = "lock", ![r].forced = TRUE]
         /\ queue' = Append(rest, r)

-----------------------------------------------------------------------------
(* Steps of a request *)

\* get_current_user or ws_building up to the lock of get_key; a header that
\* does not parse is refused at once.
Arrive(r) ==
    /\ req[r].pc \notin Waits
    /\ \/ req' = Ended(r, "refused") /\ UNCHANGED queue
       \/ /\ \E kid \in 0..newest :
               req' = [req EXCEPT ![r] = [pc |-> "lock", kid |-> kid,
                         forced |-> FALSE, held |-> kid \in Served]]
          /\ queue' = Append(queue, r)
    /\ UNCHANGED <<keys, fresh, oldest, newest, retired>>

\* get_key with the lock: expiry is tested here, not before the wait.
Acquire(r) ==
    /\ req[r].pc = "lock" /\ queue # <<>> /\ Head(queue) = r
    /\ IF req[r].forced \/ ~fresh
       THEN req' = [req EXCEPT ![r].pc = "fetch"] /\ UNCHANGED queue
       ELSE Looked(r, keys, Tail(queue))
    /\ UNCHANGED <<keys, fresh, oldest, newest, retired>>

\* Mutant: the fetched keys are added to the old ones.
FetchedUpdates(r) ==
    /\ req[r].pc = "fetch"
    /\ keys' = keys \cup Served
    /\ fresh' = TRUE
    /\ Looked(r, keys \cup Served, Tail(queue))
    /\ UNCHANGED <<oldest, newest, retired>>

\* _fetch succeeded.
Fetched(r) ==
    /\ req[r].pc = "fetch"
    /\ keys' = Served
    /\ fresh' = TRUE
    /\ Looked(r, Served, Tail(queue))
    /\ UNCHANGED <<oldest, newest, retired>>

\* Mutant: the lock is not released when the fetch raises.
FetchFailsLocked(r) ==
    /\ req[r].pc = "fetch"
    /\ req' = Ended(r, "error")
    /\ UNCHANGED <<queue, keys, fresh, oldest, newest, retired>>

\* _fetch raised (timeout, HTTP status): no ValueError, so a 500 or a
\* handshake that ends without a close code; the lock is released.
FetchFails(r) ==
    /\ req[r].pc = "fetch"
    /\ req' = Ended(r, "error")
    /\ queue' = Tail(queue)
    /\ UNCHANGED <<keys, fresh, oldest, newest, retired>>

\* accept returned.  _Conn is a dataclass with eq and without frozen, hence
\* without a hash: bucket.add raises TypeError, which ws_building does not
\* catch.  Nothing is registered, no push loop starts, and the cap on
\* registered sockets, tested before accept, is never met.
Accepted(r) ==
    /\ req[r].pc = "accept"
    /\ req' = Ended(r, "broken")
    /\ UNCHANGED <<keys, fresh, queue, oldest, newest, retired>>

-----------------------------------------------------------------------------
(* Time and Keycloak *)

\* jwks_cache_ttl_s has passed since the last fetch.
Expire ==
    /\ fresh
    /\ fresh' = FALSE
    /\ retired' = oldest
    /\ UNCHANGED <<keys, queue, oldest, newest, req>>

Publish ==
    /\ newest < MaxKey
    /\ newest' = newest + 1
    /\ UNCHANGED <<keys, fresh, queue, oldest, retired, req>>

\* Mutant: the only key left may be retired.
RetireLast ==
    /\ oldest' = oldest + 1
    /\ req' = [r \in Requests |->
                 IF req[r].pc \in Waits /\ req[r].kid = oldest
                 THEN [req[r] EXCEPT !.held = FALSE] ELSE req[r]]
    /\ UNCHANGED <<keys, fresh, queue, newest, retired>>

Retire ==
    /\ oldest < newest
    /\ oldest' = oldest + 1
    /\ req' = [r \in Requests |->
                 IF req[r].pc \in Waits /\ req[r].kid = oldest
                 THEN [req[r] EXCEPT !.held = FALSE] ELSE req[r]]
    /\ UNCHANGED <<keys, fresh, queue, newest, retired>>

-----------------------------------------------------------------------------
Step(r) == Acquire(r) \/ Fetched(r) \/ FetchFails(r) \/ Accepted(r)

Next ==
    \/ \E r \in Requests : Arrive(r) \/ Step(r)
    \/ Expire \/ Publish \/ Retire

\* The event loop runs what is ready; the HTTP client gives up after 10 s.
Fairness == \A r \in Requests : WF_vars(Step(r))

Spec == Init /\ [][Next]_vars
FairSpec == Spec /\ Fairness

-----------------------------------------------------------------------------
TypeOK ==
    /\ keys \subseteq 1..MaxKey /\ fresh \in BOOLEAN /\ queue \in Seq(Requests)
    /\ oldest \in 1..MaxKey /\ newest \in oldest..MaxKey
    /\ retired \in 0..oldest
    /\ req \in [Requests -> Request]

\* The lock serves its waiters: they are exactly those the queue holds, each
\* once, and only the holder talks to Keycloak.
LockIsExclusive ==
    /\ \A r \in Requests :
         req[r].pc \in {"lock", "fetch"} <=> \E i \in 1..Len(queue) : queue[i] = r
    /\ \A i, j \in 1..Len(queue) : queue[i] = queue[j] => i = j
    /\ \A r \in Requests : req[r].pc = "fetch" => Head(queue) = r

\* A token whose key Keycloak has published ever since the request arrived
\* is never turned away for an unknown kid, whatever rotations the cache has
\* missed and whoever holds its lock.
PublishedKeyIsFound ==
    \A r \in Requests : req[r].pc = "unknownKid" => ~req[r].held

\* A key that had left Keycloak when the cache last expired lets nobody in
\* any more.
RetiredKeyDies ==
    [][\A r \in Requests :
         /\ req[r].pc \in {"lock", "fetch"}
         /\ req'[r].pc \notin {"lock", "fetch", "unknownKid", "error"}
         => req[r].kid >= retired]_vars

\* Every request is answered, however long the queue for the lock and
\* however often Keycloak fails.
EveryCallAnswered ==
    \A r \in Requests : req[r].pc \in Waits ~> req[r].pc \in Answers
=============================================================================
