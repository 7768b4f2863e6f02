----------------------------- MODULE ApiAuthProofs -----------------------------
(* Theorems about ApiAuth, for every number of requests and keys.           *)
EXTENDS ApiAuth, TLAPS

(***************************************************************************)
(* The queue of the lock.                                                  *)
(***************************************************************************)
Queued(r, q) == \E i \in 1..Len(q) : q[i] = r
Distinct(q)  == \A i, j \in 1..Len(q) : q[i] = q[j] => i = j

LEMMA TailOf ==
    ASSUME NEW q \in Seq(Requests), q # <<>>
    PROVE  /\ Head(q) \in Requests /\ Head(q) = q[1]
           /\ Tail(q) \in Seq(Requests) /\ Len(Tail(q)) = Len(q) - 1
           /\ \A i \in 1..Len(Tail(q)) : Tail(q)[i] = q[i + 1]
           /\ Len(q) \in Nat /\ Len(q) >= 1
OBVIOUS

LEMMA AppendOf ==
    ASSUME NEW q \in Seq(Requests), NEW r \in Requests
    PROVE  /\ Append(q, r) \in Seq(Requests) /\ Len(Append(q, r)) = Len(q) + 1
           /\ \A i \in 1..Len(q) : Append(q, r)[i] = q[i]
           /\ Append(q, r)[Len(q) + 1] = r
           /\ Len(q) \in Nat
OBVIOUS

(* The holder leaves: the others stay, in order.                           *)
LEMMA Leave ==
    ASSUME NEW q \in Seq(Requests), q # <<>>, Distinct(q)
    PROVE  /\ Tail(q) \in Seq(Requests) /\ Distinct(Tail(q))
           /\ \A r : Queued(r, Tail(q)) <=> Queued(r, q) /\ r # Head(q)
<1>1. Distinct(Tail(q))
  <2> SUFFICES ASSUME NEW i \in 1..Len(Tail(q)), NEW j \in 1..Len(Tail(q)),
                      Tail(q)[i] = Tail(q)[j]
               PROVE  i = j
    BY DEF Distinct
  <2>1. i + 1 \in 1..Len(q) /\ j + 1 \in 1..Len(q) /\ q[i + 1] = q[j + 1]
    BY TailOf
  <2> QED BY <2>1 DEF Distinct
<1>2. ASSUME NEW r, Queued(r, Tail(q)) PROVE Queued(r, q) /\ r # Head(q)
  <2>1. PICK i \in 1..Len(Tail(q)) : Tail(q)[i] = r
    BY <1>2 DEF Queued
  <2>2. i + 1 \in 1..Len(q) /\ q[i + 1] = r /\ i + 1 # 1 /\ 1 \in 1..Len(q)
    BY <2>1, TailOf
  <2>3. r # q[1]
    BY <2>2 DEF Distinct
  <2> QED BY <2>2, <2>3, TailOf DEF Queued
<1>3. ASSUME NEW r, Queued(r, q), r # Head(q) PROVE Queued(r, Tail(q))
  <2>1. PICK i \in 1..Len(q) : q[i] = r
    BY <1>3 DEF Queued
  <2>2. i - 1 \in 1..Len(Tail(q)) /\ Tail(q)[i - 1] = r
    BY <2>1, <1>3, TailOf
  <2> QED BY <2>2 DEF Queued
<1> QED BY <1>1, <1>2, <1>3, TailOf

(* A request joins at the end: the holder stays.                           *)
LEMMA Join ==
    ASSUME NEW q \in Seq(Requests), NEW r \in Requests, Distinct(q), ~Queued(r, q)
    PROVE  /\ Append(q, r) \in Seq(Requests) /\ Distinct(Append(q, r))
           /\ \A s : Queued(s, Append(q, r)) <=> Queued(s, q) \/ s = r
           /\ q # <<>> => Head(Append(q, r)) = Head(q)
<1> DEFINE p == Append(q, r)
<1>1. /\ p \in Seq(Requests) /\ Len(p) = Len(q) + 1 /\ Len(q) \in Nat
      /\ \A i \in 1..Len(q) : p[i] = q[i]
      /\ p[Len(q) + 1] = r
  BY AppendOf
<1> HIDE DEF p
<1>2. Distinct(p)
  <2> SUFFICES ASSUME NEW i \in 1..Len(p), NEW j \in 1..Len(p), p[i] = p[j]
               PROVE  i = j
    BY DEF Distinct
  <2>1. CASE i \in 1..Len(q) /\ j \in 1..Len(q)
    BY <2>1, <1>1 DEF Distinct
  <2>2. CASE i = Len(q) + 1 /\ j \in 1..Len(q)
    BY <2>2, <1>1 DEF Queued
  <2>3. CASE i \in 1..Len(q) /\ j = Len(q) + 1
    BY <2>3, <1>1 DEF Queued
  <2>4. CASE i = Len(q) + 1 /\ j = Len(q) + 1
    BY <2>4
  <2> QED BY <1>1, <2>1, <2>2, <2>3, <2>4
<1>3. ASSUME NEW s PROVE Queued(s, p) <=> Queued(s, q) \/ s = r
  <2>1. ASSUME Queued(s, p) PROVE Queued(s, q) \/ s = r
    BY <2>1, <1>1 DEF Queued
  <2>2. ASSUME Queued(s, q) PROVE Queued(s, p)
    <3>1. PICK i \in 1..Len(q) : q[i] = s
      BY <2>2 DEF Queued
    <3>2. i \in 1..Len(p) /\ p[i] = s
      BY <3>1, <1>1
    <3> QED BY <3>2 DEF Queued
  <2>3. ASSUME s = r PROVE Queued(s, p)
    <3>1. Len(q) + 1 \in 1..Len(p)
      BY <1>1
    <3> QED BY <2>3, <3>1, <1>1 DEF Queued
  <2> QED BY <2>1, <2>2, <2>3
<1>4. q # <<>> => Head(p) = Head(q)
  <2> SUFFICES ASSUME q # <<>> PROVE Head(p) = Head(q)
    OBVIOUS
  <2>1. 1 \in 1..Len(q) /\ Head(q) = q[1]
    BY TailOf
  <2>2. p # <<>> /\ p[1] = q[1]
    BY <2>1, <1>1
  <2>3. Head(p) = p[1]
    BY <2>2, <1>1, TailOf
  <2> QED BY <2>1, <2>2, <2>3
<1> QED BY <1>1, <1>2, <1>3, <1>4 DEF p

-----------------------------------------------------------------------------
(***************************************************************************)
(* The inductive invariant: types, the lock, what `held' says of the keys  *)
(* Keycloak serves, and how old a key of a fresh cache can be.             *)
(***************************************************************************)
LockInv ==
    /\ Distinct(queue)
    /\ \A r \in Requests : req[r].pc \in {"lock", "fetch"} <=> Queued(r, queue)
    /\ \A r \in Requests : req[r].pc = "fetch" => queue # <<>> /\ Head(queue) = r

KeyInv ==
    /\ \A r \in Requests :
          req[r].pc \in {"lock", "fetch"} /\ req[r].held => req[r].kid \in Served
    /\ PublishedKeyIsFound
    /\ fresh => \A k \in keys : k >= retired

AuthInv == TypeOK /\ LockInv /\ KeyInv

Outcomes == {"ok", "refused", "forbidden", "notFound", "accept"}

(* What get_key's answer makes of a request.                               *)
LEMMA LookedIs ==
    ASSUME TypeOK, NEW r \in Requests, NEW ks, NEW rest, Looked(r, ks, rest)
    PROVE  /\ req' \in [Requests -> Request]
           /\ \A s \in Requests : s # r => req'[s] = req[s]
           /\ \/ /\ req[r].kid \in ks /\ req'[r].pc \in Outcomes
                 /\ queue' = rest
              \/ /\ req[r].kid \notin ks /\ req[r].forced
                 /\ req'[r].pc = "unknownKid" /\ req'[r].held = req[r].held
                 /\ queue' = rest
              \/ /\ req[r].kid \notin ks /\ req'[r].pc = "lock"
                 /\ req'[r].kid = req[r].kid /\ req'[r].held = req[r].held
                 /\ queue' = Append(rest, r)
<1>0. /\ req \in [Requests -> Request] /\ req[r] \in Request /\ 0 \in 0..MaxKey
      /\ req[r].kid \in 0..MaxKey /\ req[r].held \in BOOLEAN
      /\ req[r].forced \in BOOLEAN
  BY ApiAuthAssumption DEF TypeOK, Request
<1>1. ASSUME NEW pc \in Waits \cup Answers, req' = Ended(r, pc)
      PROVE  /\ req' \in [Requests -> Request]
             /\ \A s \in Requests : s # r => req'[s] = req[s]
             /\ req'[r].pc = pc
             /\ req'[r].held = (req[r].held /\ pc = "unknownKid")
  <2>1. /\ req' = [req EXCEPT ![r] = [pc |-> pc, kid |-> 0, forced |-> FALSE,
                                      held |-> req[r].held /\ pc = "unknownKid"]]
    BY <1>1 DEF Ended
  <2>2. [pc |-> pc, kid |-> 0, forced |-> FALSE,
         held |-> req[r].held /\ pc = "unknownKid"] \in Request
    BY <1>0 DEF Request
  <2> QED BY <2>1, <2>2, <1>0
<1>2. CASE req[r].kid \in ks
  <2>1. Proceed(r) /\ queue' = rest
    BY <1>2 DEF Looked
  <2>2. \E pc \in Outcomes : req' = Ended(r, pc)
    BY <2>1 DEF Proceed, Decoded, Shown, Outcomes
  <2>3. Outcomes \subseteq Waits \cup Answers
    BY DEF Outcomes, Waits, Answers
  <2> QED BY <1>2, <2>1, <2>2, <2>3, <1>1
<1>3. CASE req[r].kid \notin ks /\ req[r].forced
  <2>1. req' = Ended(r, "unknownKid") /\ queue' = rest
    BY <1>3 DEF Looked
  <2>2. "unknownKid" \in Waits \cup Answers
    BY DEF Answers
  <2> QED BY <1>3, <2>1, <2>2, <1>1, <1>0
<1>4. CASE req[r].kid \notin ks /\ ~req[r].forced
  <2>1. /\ req' = [req EXCEPT ![r].pc = "lock", ![r].forced = TRUE]
        /\ queue' = Append(rest, r)
    BY <1>4 DEF Looked
  <2>2. req' = [req EXCEPT ![r] = [req[r] EXCEPT !.pc = "lock", !.forced = TRUE]]
    BY <2>1, <1>0 DEF Request
  <2>3. /\ [req[r] EXCEPT !.pc = "lock", !.forced = TRUE] \in Request
        /\ [req[r] EXCEPT !.pc = "lock", !.forced = TRUE].pc = "lock"
        /\ [req[r] EXCEPT !.pc = "lock", !.forced = TRUE].kid = req[r].kid
        /\ [req[r] EXCEPT !.pc = "lock", !.forced = TRUE].held = req[r].held
    BY <1>0 DEF Request, Waits
  <2> QED BY <1>4, <2>1, <2>2, <2>3, <1>0
<1> QED BY <1>2, <1>3, <1>4

LEMMA AuthInit == Init => AuthInv
<1> SUFFICES ASSUME Init PROVE AuthInv
  OBVIOUS
<1>1. TypeOK
  BY ApiAuthAssumption DEF Init, TypeOK, Request
<1>2. \A r \in Requests : req[r].pc = "free"
  BY DEF Init
<1>3. Len(queue) = 0 /\ keys = {}
  BY DEF Init
<1>4. Distinct(queue) /\ \A r : ~Queued(r, queue)
  BY <1>3 DEF Distinct, Queued
<1> QED BY <1>1, <1>2, <1>3, <1>4
        DEF AuthInv, LockInv, KeyInv, PublishedKeyIsFound

(* The holder r got its answer: it leaves the lock or queues again.        *)
LEMMA LookedKeeps ==
    ASSUME AuthInv, NEW r \in Requests, NEW ks, Looked(r, ks, Tail(queue)),
           queue # <<>>, Head(queue) = r,
           UNCHANGED <<oldest, newest>>,
           req[r].forced /\ req[r].kid \notin ks => ks = Served
    PROVE  /\ req' \in [Requests -> Request] /\ queue' \in Seq(Requests)
           /\ LockInv'
           /\ \A s \in Requests : req'[s].pc \in {"lock", "fetch"} /\ req'[s].held
                                     => req'[s].kid \in Served'
           /\ PublishedKeyIsFound'
<1>0. TypeOK /\ LockInv /\ KeyInv /\ queue \in Seq(Requests) /\ Served' = Served
  BY DEF AuthInv, TypeOK, Served
<1>1. /\ req' \in [Requests -> Request]
      /\ \A s \in Requests : s # r => req'[s] = req[s]
  BY <1>0, LookedIs
<1>2. /\ Tail(queue) \in Seq(Requests) /\ Distinct(Tail(queue))
      /\ \A s : Queued(s, Tail(queue)) <=> Queued(s, queue) /\ s # r
  BY <1>0, Leave DEF LockInv
<1>3. Queued(r, queue) /\ req[r].pc \in {"lock", "fetch"}
  <2>1. queue[1] = r /\ 1 \in 1..Len(queue)
    BY <1>0, TailOf
  <2>2. Queued(r, queue)
    BY <2>1 DEF Queued
  <2> QED BY <2>2, <1>0 DEF LockInv
<1>4. \A s \in Requests : s # r => req[s].pc # "fetch"
  BY <1>0 DEF LockInv
<1>5. CASE queue' = Tail(queue) /\ req'[r].pc \notin {"lock", "fetch"}
  <2>1. LockInv'
    <3>1. Distinct(queue')
      BY <1>2, <1>5
    <3>2. ASSUME NEW s \in Requests
          PROVE  /\ req'[s].pc \in {"lock", "fetch"} <=> Queued(s, queue')
                 /\ req'[s].pc # "fetch"
      <4>1. CASE s = r
        BY <4>1, <1>2, <1>5
      <4>2. CASE s # r
        BY <4>2, <1>0, <1>1, <1>2, <1>4, <1>5 DEF LockInv
      <4> QED BY <4>1, <4>2
    <3> QED BY <3>1, <3>2 DEF LockInv
  <2>2. req'[r].pc = "unknownKid" => ~req'[r].held
    <3> SUFFICES ASSUME req'[r].pc = "unknownKid" PROVE ~req'[r].held
      OBVIOUS
    <3>1. "unknownKid" \notin Outcomes
      BY DEF Outcomes
    <3>2. /\ req[r].kid \notin ks /\ req[r].forced
          /\ req'[r].held = req[r].held
      BY <3>1, <1>0, <1>5, LookedIs
    <3>3. req[r].kid \notin Served
      BY <3>2
    <3> QED BY <3>2, <3>3, <1>0, <1>3 DEF KeyInv
  <2>3. ASSUME NEW s \in Requests
        PROVE  /\ req'[s].pc \in {"lock", "fetch"} /\ req'[s].held
                     => req'[s].kid \in Served'
               /\ req'[s].pc = "unknownKid" => ~req'[s].held
    <3>1. CASE s = r
      BY <3>1, <2>2, <1>5
    <3>2. CASE s # r
      BY <3>2, <1>0, <1>1 DEF KeyInv, PublishedKeyIsFound
    <3> QED BY <3>1, <3>2
  <2> QED BY <2>1, <2>3, <1>1, <1>2, <1>5 DEF PublishedKeyIsFound
<1>6. CASE /\ queue' = Append(Tail(queue), r) /\ req'[r].pc = "lock"
           /\ req'[r].kid = req[r].kid /\ req'[r].held = req[r].held
  <2>1. /\ queue' \in Seq(Requests) /\ Distinct(queue')
        /\ \A s : Queued(s, queue') <=> Queued(s, Tail(queue)) \/ s = r
    BY <1>2, <1>6, Join
  <2>2. LockInv'
    <3>1. ASSUME NEW s \in Requests
          PROVE  /\ req'[s].pc \in {"lock", "fetch"} <=> Queued(s, queue')
                 /\ req'[s].pc # "fetch"
      <4>1. CASE s = r
        BY <4>1, <2>1, <1>6
      <4>2. CASE s # r
        BY <4>2, <2>1, <1>0, <1>1, <1>2, <1>4 DEF LockInv
      <4> QED BY <4>1, <4>2
    <3> QED BY <2>1, <3>1 DEF LockInv
  <2>3. ASSUME NEW s \in Requests
        PROVE  /\ req'[s].pc \in {"lock", "fetch"} /\ req'[s].held
                     => req'[s].kid \in Served'
               /\ req'[s].pc = "unknownKid" => ~req'[s].held
    <3>1. CASE s = r
      BY <3>1, <1>0, <1>3, <1>6 DEF KeyInv
    <3>2. CASE s # r
      BY <3>2, <1>0, <1>1 DEF KeyInv, PublishedKeyIsFound
    <3> QED BY <3>1, <3>2
  <2>4. PublishedKeyIsFound'
    BY <2>3 DEF PublishedKeyIsFound
  <2> QED BY <2>1, <2>2, <2>3, <2>4, <1>1
<1>7. Outcomes \cap {"lock", "fetch"} = {}
  BY DEF Outcomes
<1>8. \/ queue' = Tail(queue) /\ req'[r].pc \notin {"lock", "fetch"}
      \/ /\ queue' = Append(Tail(queue), r) /\ req'[r].pc = "lock"
         /\ req'[r].kid = req[r].kid /\ req'[r].held = req[r].held
  <2>1. \/ req'[r].pc \in Outcomes /\ queue' = Tail(queue)
        \/ req'[r].pc = "unknownKid" /\ queue' = Tail(queue)
        \/ /\ req'[r].pc = "lock" /\ queue' = Append(Tail(queue), r)
           /\ req'[r].kid = req[r].kid /\ req'[r].held = req[r].held
    <3>1. TypeOK
      BY <1>0
    <3> DEFINE rest == Tail(queue)
    <3>2. Looked(r, ks, rest)
      OBVIOUS
    <3> HIDE DEF rest
    <3>3. \/ req'[r].pc \in Outcomes /\ queue' = rest
          \/ req'[r].pc = "unknownKid" /\ queue' = rest
          \/ /\ req'[r].pc = "lock" /\ queue' = Append(rest, r)
             /\ req'[r].kid = req[r].kid /\ req'[r].held = req[r].held
      BY <3>1, <3>2, LookedIs
    <3> QED BY <3>3 DEF rest
  <2> QED BY <2>1, <1>7
<1> QED BY <1>5, <1>6, <1>8

LEMMA AuthStep == AuthInv /\ [Next]_vars => AuthInv'
<1> SUFFICES ASSUME AuthInv, [Next]_vars PROVE AuthInv'
  OBVIOUS
<1>0. /\ TypeOK /\ LockInv /\ KeyInv
      /\ queue \in Seq(Requests) /\ req \in [Requests -> Request]
      /\ oldest \in 1..MaxKey /\ newest \in oldest..MaxKey /\ MaxKey \in Nat
      /\ retired \in 0..oldest /\ keys \subseteq 1..MaxKey /\ fresh \in BOOLEAN
  BY ApiAuthAssumption DEF AuthInv, TypeOK
(* A request that is not in the queue gets a state that is not either.     *)
<1>1. ASSUME NEW r \in Requests, NEW to \in Request, req' = [req EXCEPT ![r] = to],
             req[r].pc \notin {"lock", "fetch"}, to.pc \notin {"lock", "fetch"},
             to.pc = "unknownKid" => ~to.held,
             UNCHANGED <<keys, fresh, queue, oldest, newest, retired>>
      PROVE  AuthInv'
  <2>1. \A s \in Requests : req'[s] = IF s = r THEN to ELSE req[s]
    BY <1>0, <1>1
  <2>2. TypeOK'
    BY <1>0, <1>1 DEF TypeOK
  <2>3. LockInv'
    BY <1>0, <1>1, <2>1 DEF LockInv
  <2>4. KeyInv'
    BY <1>0, <1>1, <2>1 DEF KeyInv, PublishedKeyIsFound, Served
  <2> QED BY <2>2, <2>3, <2>4 DEF AuthInv
<1>2. ASSUME NEW r \in Requests, NEW pc \in Answers, pc # "unknownKid",
             req' = Ended(r, pc)
      PROVE  \E to \in Request : /\ req' = [req EXCEPT ![r] = to]
                                 /\ to.pc = pc /\ ~to.held
                                 /\ pc \notin {"lock", "fetch"}
  <2> DEFINE to == [pc |-> pc, kid |-> 0, forced |-> FALSE, held |-> FALSE]
  <2>1. to \in Request /\ to.pc = pc /\ ~to.held /\ pc \notin {"lock", "fetch"}
    BY <1>2, <1>0 DEF Request, Answers
  <2>2. req' = [req EXCEPT ![r] = to]
    <3>1. (req[r].held /\ pc = "unknownKid") = FALSE
      BY <1>2
    <3> QED BY <1>2, <3>1 DEF Ended
  <2> QED BY <2>1, <2>2
<1>3. ASSUME NEW r \in Requests, Arrive(r) PROVE AuthInv'
  <2>1. /\ req[r].pc \notin Waits
        /\ UNCHANGED <<keys, fresh, oldest, newest, retired>>
    BY <1>3 DEF Arrive
  <2>2. CASE req' = Ended(r, "refused") /\ UNCHANGED queue
    <3>1. "refused" \in Answers
      BY DEF Answers
    <3>2. PICK to \in Request : /\ req' = [req EXCEPT ![r] = to]
                                /\ to.pc = "refused" /\ ~to.held
      BY <2>2, <3>1, <1>2
    <3> QED BY <2>1, <2>2, <3>2, <1>1 DEF Waits
  <2>3. CASE /\ \E kid \in 0..newest :
                   req' = [req EXCEPT ![r] = [pc |-> "lock", kid |-> kid,
                             forced |-> FALSE, held |-> kid \in Served]]
             /\ queue' = Append(queue, r)
    <3>1. PICK kid \in 0..newest :
             req' = [req EXCEPT ![r] = [pc |-> "lock", kid |-> kid,
                       forced |-> FALSE, held |-> kid \in Served]]
      BY <2>3
    <3> DEFINE to == [pc |-> "lock", kid |-> kid, forced |-> FALSE,
                      held |-> kid \in Served]
    <3>2. to \in Request /\ to.pc = "lock" /\ to.kid = kid /\ to.held = (kid \in Served)
      BY <1>0 DEF Request, Waits
    <3>3. \A s \in Requests : req'[s] = IF s = r THEN to ELSE req[s]
      BY <1>0, <3>1
    <3>4. req' \in [Requests -> Request]
      BY <1>0, <3>1, <3>2
    <3> HIDE DEF to
    <3>5. ~Queued(r, queue) /\ Distinct(queue)
      BY <1>0, <2>1 DEF LockInv, Waits
    <3>6. /\ queue' \in Seq(Requests) /\ Distinct(queue')
          /\ \A s : Queued(s, queue') <=> Queued(s, queue) \/ s = r
          /\ queue # <<>> => Head(queue') = Head(queue)
      BY <1>0, <2>3, <3>5, Join
    <3>7. queue # <<>> => queue' # <<>>
      BY <1>0, <2>3
    <3>8. LockInv'
      BY <1>0, <3>2, <3>3, <3>6, <3>7 DEF LockInv
    <3>9. KeyInv'
      BY <1>0, <2>1, <3>2, <3>3 DEF KeyInv, PublishedKeyIsFound, Served
    <3>10. TypeOK'
      BY <1>0, <2>1, <3>4, <3>6 DEF TypeOK
    <3> QED BY <3>8, <3>9, <3>10 DEF AuthInv
  <2> QED BY <1>3, <2>2, <2>3 DEF Arrive
<1>4. ASSUME NEW r \in Requests, Acquire(r) PROVE AuthInv'
  <2>1. /\ req[r].pc = "lock" /\ queue # <<>> /\ Head(queue) = r
        /\ UNCHANGED <<keys, fresh, oldest, newest, retired>>
    BY <1>4 DEF Acquire
  <2>2. CASE req' = [req EXCEPT ![r].pc = "fetch"] /\ UNCHANGED queue
    <3>1. /\ [req[r] EXCEPT !.pc = "fetch"] \in Request
          /\ [req[r] EXCEPT !.pc = "fetch"].pc = "fetch"
          /\ [req[r] EXCEPT !.pc = "fetch"].kid = req[r].kid
          /\ [req[r] EXCEPT !.pc = "fetch"].held = req[r].held
      BY <1>0 DEF Request, Waits
    <3>2. /\ req' \in [Requests -> Request]
          /\ \A s \in Requests :
                req'[s] = IF s = r THEN [req[r] EXCEPT !.pc = "fetch"] ELSE req[s]
      BY <2>2, <3>1, <1>0
    <3>3. LockInv'
      <4>1. queue' = queue /\ Distinct(queue')
        BY <2>2, <1>0 DEF LockInv
      <4>2. ASSUME NEW s \in Requests
            PROVE  /\ req'[s].pc \in {"lock", "fetch"} <=> Queued(s, queue')
                   /\ req'[s].pc = "fetch" => queue' # <<>> /\ Head(queue') = s
        <5>1. CASE s = r
          BY <5>1, <4>1, <3>1, <3>2, <2>1, <1>0 DEF LockInv
        <5>2. CASE s # r
          BY <5>2, <4>1, <3>2, <2>1, <1>0 DEF LockInv
        <5> QED BY <5>1, <5>2
      <4> QED BY <4>1, <4>2 DEF LockInv
    <3>4. KeyInv'
      BY <2>1, <3>1, <3>2, <1>0 DEF KeyInv, PublishedKeyIsFound, Served
    <3>5. TypeOK'
      BY <2>1, <2>2, <3>2, <1>0 DEF TypeOK
    <3> QED BY <3>3, <3>4, <3>5 DEF AuthInv
  <2>3. CASE ~req[r].forced /\ Looked(r, keys, Tail(queue))
    <3>1. /\ req' \in [Requests -> Request] /\ queue' \in Seq(Requests) /\ LockInv'
          /\ \A s \in Requests : req'[s].pc \in {"lock", "fetch"} /\ req'[s].held
                                    => req'[s].kid \in Served'
          /\ PublishedKeyIsFound'
      BY <2>1, <2>3, LookedKeeps
    <3>2. TypeOK'
      BY <2>1, <3>1, <1>0 DEF TypeOK
    <3> QED BY <2>1, <3>1, <3>2, <1>0 DEF AuthInv, KeyInv
  <2> QED BY <1>4, <2>2, <2>3 DEF Acquire
<1>5. ASSUME NEW r \in Requests, Fetched(r) PROVE AuthInv'
  <2>1. /\ req[r].pc = "fetch" /\ keys' = Served /\ fresh' = TRUE
        /\ Looked(r, Served, Tail(queue)) /\ UNCHANGED <<oldest, newest, retired>>
    BY <1>5 DEF Fetched
  <2>2. queue # <<>> /\ Head(queue) = r
    BY <2>1, <1>0 DEF LockInv
  <2>3. /\ req' \in [Requests -> Request] /\ queue' \in Seq(Requests) /\ LockInv'
        /\ \A s \in Requests : req'[s].pc \in {"lock", "fetch"} /\ req'[s].held
                                  => req'[s].kid \in Served'
        /\ PublishedKeyIsFound'
    BY <2>1, <2>2, LookedKeeps
  <2>4. Served \subseteq 1..MaxKey /\ \A k \in Served : k >= retired
    BY <1>0 DEF Served
  <2>5. TypeOK'
    BY <2>1, <2>3, <2>4, <1>0 DEF TypeOK
  <2>6. KeyInv'
    BY <2>1, <2>3, <2>4 DEF KeyInv
  <2> QED BY <2>3, <2>5, <2>6 DEF AuthInv
<1>6. ASSUME NEW r \in Requests, FetchFails(r) PROVE AuthInv'
  <2>1. /\ req[r].pc = "fetch" /\ req' = Ended(r, "error") /\ queue' = Tail(queue)
        /\ UNCHANGED <<keys, fresh, oldest, newest, retired>>
    BY <1>6 DEF FetchFails
  <2>2. queue # <<>> /\ Head(queue) = r
    BY <2>1, <1>0 DEF LockInv
  <2>3. /\ Tail(queue) \in Seq(Requests) /\ Distinct(Tail(queue))
        /\ \A s : Queued(s, Tail(queue)) <=> Queued(s, queue) /\ s # r
    BY <1>0, <2>2, Leave DEF LockInv
  <2>4. "error" \in Answers
    BY DEF Answers
  <2>5. /\ req' \in [Requests -> Request]
        /\ req'[r].pc = "error"
        /\ \A s \in Requests : s # r => req'[s] = req[s]
    BY <2>1, <2>4, <1>0, <1>2
  <2>6. LockInv'
    <3>1. ASSUME NEW s \in Requests
          PROVE  /\ req'[s].pc \in {"lock", "fetch"} <=> Queued(s, queue')
                 /\ req'[s].pc # "fetch"
      <4>1. CASE s = r
        BY <4>1, <2>1, <2>3, <2>5
      <4>2. CASE s # r
        BY <4>2, <2>1, <2>2, <2>3, <2>5, <1>0 DEF LockInv
      <4> QED BY <4>1, <4>2
    <3> QED BY <2>1, <2>3, <3>1 DEF LockInv
  <2>7. KeyInv'
    BY <2>1, <2>5, <1>0 DEF KeyInv, PublishedKeyIsFound, Served
  <2>8. TypeOK'
    BY <2>1, <2>3, <2>5, <1>0 DEF TypeOK
  <2> QED BY <2>6, <2>7, <2>8 DEF AuthInv
<1>7. ASSUME NEW r \in Requests, Accepted(r) PROVE AuthInv'
  <2>1. "broken" \in Answers
    BY DEF Answers
  <2>2. PICK to \in Request : /\ req' = [req EXCEPT ![r] = to]
                              /\ to.pc = "broken" /\ ~to.held
    BY <1>7, <2>1, <1>2 DEF Accepted
  <2> QED BY <1>7, <2>2, <1>1 DEF Accepted
<1>8. CASE Expire
  <2>1. /\ fresh' = FALSE /\ retired' = oldest
        /\ UNCHANGED <<keys, queue, oldest, newest, req>>
    BY <1>8 DEF Expire
  <2>2. TypeOK'
    <3>1. oldest \in 0..oldest /\ FALSE \in BOOLEAN
      BY <1>0
    <3> QED BY <2>1, <3>1, <1>0 DEF TypeOK
  <2>3. LockInv' /\ KeyInv'
    BY <2>1, <1>0 DEF LockInv, KeyInv, PublishedKeyIsFound, Served
  <2> QED BY <2>2, <2>3 DEF AuthInv
<1>9. CASE Publish
  <2>1. /\ newest' = newest + 1 /\ newest' <= MaxKey
        /\ UNCHANGED <<keys, fresh, queue, oldest, retired, req>>
    BY <1>9, <1>0 DEF Publish
  <2>2. Served \subseteq Served'
    BY <2>1, <1>0 DEF Served
  <2>3. TypeOK'
    BY <2>1, <1>0 DEF TypeOK
  <2>4. LockInv' /\ KeyInv'
    BY <2>1, <2>2, <1>0 DEF LockInv, KeyInv, PublishedKeyIsFound
  <2> QED BY <2>3, <2>4 DEF AuthInv
<1>10. CASE Retire
  <2>1. /\ oldest < newest /\ oldest' = oldest + 1
        /\ UNCHANGED <<keys, fresh, queue, newest, retired>>
    BY <1>10 DEF Retire
  <2>2. ASSUME NEW s \in Requests
        PROVE  /\ req'[s] \in Request
               /\ req'[s].pc = req[s].pc /\ req'[s].kid = req[s].kid
               /\ req'[s].held => req[s].held
               /\ req[s].pc \in Waits /\ req[s].kid = oldest => ~req'[s].held
    BY <1>10, <1>0 DEF Retire, Request
  <2>3. req' \in [Requests -> Request]
    BY <1>10, <2>2 DEF Retire
  <2>4. \A k \in Served : k # oldest => k \in Served'
    BY <2>1, <1>0 DEF Served
  <2>5. TypeOK'
    BY <2>1, <2>3, <1>0 DEF TypeOK
  <2>6. LockInv'
    BY <2>1, <2>2, <1>0 DEF LockInv
  <2>7. KeyInv'
    BY <2>1, <2>2, <2>4, <1>0 DEF KeyInv, PublishedKeyIsFound, Waits
  <2> QED BY <2>5, <2>6, <2>7 DEF AuthInv
<1>11. CASE UNCHANGED vars
  BY <1>11, <1>0 DEF vars, AuthInv, TypeOK, LockInv, KeyInv, PublishedKeyIsFound, Served
<1> QED BY <1>3, <1>4, <1>5, <1>6, <1>7, <1>8, <1>9, <1>10, <1>11 DEF Next, Step

(* Every variable stays in its type (core/security.py, ws/handlers.py).    *)
THEOREM TypeCorrect == Spec => []TypeOK
<1>1. AuthInv => TypeOK
  BY DEF AuthInv
<1> QED BY <1>1, AuthInit, AuthStep, PTL DEF Spec

(* The lock's queue holds exactly the requests that wait for it or own it, *)
(* each once, and only its head talks to Keycloak (security.py 36-50).     *)
THEOREM LockHolds == Spec => []LockIsExclusive
<1>1. AuthInv => LockIsExclusive
  <2> SUFFICES ASSUME LockInv PROVE LockIsExclusive
    BY DEF AuthInv
  <2>1. \A r \in Requests :
           req[r].pc \in {"lock", "fetch"} <=> \E i \in 1..Len(queue) : queue[i] = r
    BY DEF LockInv, Queued
  <2>2. \A r \in Requests : req[r].pc = "fetch" => Head(queue) = r
    BY DEF LockInv
  <2>3. Distinct(queue)
    BY DEF LockInv
  <2> QED BY <2>1, <2>2, <2>3 DEF LockIsExclusive, Distinct
<1> QED BY <1>1, AuthInit, AuthStep, PTL DEF Spec

(* No token is refused for an unknown kid while Keycloak publishes its key *)
(* (security.py 36-50, 75-77).                                             *)
THEOREM KeysAreFound == Spec => []PublishedKeyIsFound
<1>1. AuthInv => PublishedKeyIsFound
  BY DEF AuthInv, KeyInv
<1> QED BY <1>1, AuthInit, AuthStep, PTL DEF Spec

(* A key that Keycloak had dropped when the cache last expired lets nobody *)
(* in (security.py 36-50).                                                 *)
THEOREM RetiredKeysDie == Spec => RetiredKeyDies
<1>1. AuthInv /\ [Next]_vars =>
        [\A r \in Requests :
           /\ req[r].pc \in {"lock", "fetch"}
           /\ req'[r].pc \notin {"lock", "fetch", "unknownKid", "error"}
           => req[r].kid >= retired]_vars
  <2> SUFFICES ASSUME AuthInv, Next, NEW r \in Requests,
                      req[r].pc \in {"lock", "fetch"},
                      req'[r].pc \notin {"lock", "fetch", "unknownKid", "error"}
               PROVE  req[r].kid >= retired
    OBVIOUS
  <2>0. TypeOK /\ KeyInv /\ req \in [Requests -> Request]
    BY DEF AuthInv, TypeOK
  <2>1. \A k \in Served : k >= retired
    BY <2>0 DEF TypeOK, Served
  <2>2. ASSUME NEW s \in Requests, Arrive(s) PROVE FALSE
    <3>1. s # r
      BY <2>2 DEF Arrive, Waits
    <3>2. req'[r] = req[r]
      BY <2>2, <3>1, <2>0 DEF Arrive, Ended
    <3> QED BY <3>2
  <2>3. ASSUME NEW s \in Requests, Acquire(s) PROVE req[r].kid >= retired
    <3>1. CASE req' = [req EXCEPT ![s].pc = "fetch"]
      BY <3>1, <2>0
    <3>2. CASE fresh /\ Looked(s, keys, Tail(queue))
      <4>1. \A k \in keys : k >= retired
        BY <3>2, <2>0 DEF KeyInv
      <4> QED BY <3>2, <4>1, <2>0, LookedIs
    <3> QED BY <2>3, <3>1, <3>2 DEF Acquire
  <2>4. ASSUME NEW s \in Requests, Fetched(s) PROVE req[r].kid >= retired
    BY <2>4, <2>0, <2>1, LookedIs DEF Fetched
  <2>5. ASSUME NEW s \in Requests, FetchFails(s) \/ Accepted(s) PROVE FALSE
    <3>1. CASE s = r
      BY <2>5, <3>1, <2>0 DEF FetchFails, Accepted, Ended
    <3>2. CASE s # r
      BY <2>5, <3>2, <2>0 DEF FetchFails, Accepted, Ended
    <3> QED BY <3>1, <3>2
  <2>6. ~(Expire \/ Publish)
    BY DEF Expire, Publish
  <2>7. ~Retire
    BY <2>0 DEF Retire, Request
  <2> QED BY <2>2, <2>3, <2>4, <2>5, <2>6, <2>7 DEF Next, Step
<1> QED BY <1>1, AuthInit, AuthStep, PTL DEF Spec, RetiredKeyDies
=============================================================================
