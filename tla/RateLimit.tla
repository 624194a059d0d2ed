------------------------------- MODULE RateLimit -------------------------------
(***************************************************************************)
(* RateLimitMiddleware for one client address: a counter in Redis that     *)
(* every request increments, and a second one for a path with a limit of   *)
(* its own.  The request that finds its counter new sets its expiry, which *)
(* ends the window; nothing else does.  Requests stop at every await, so   *)
(* that their commands interleave with each other and with the expiry.     *)
(* Time is relative: what is left of an expiry, who passed since when.     *)
(***************************************************************************)
EXTENDS Integers, FiniteSets

CONSTANTS
  Slots,       \* requests under way at once
  Limit,       \* Limit[k]: the requests that key k grants ...
  Window,      \* ... in Window[k] seconds
  RedisFaults, \* TRUE: a command to Redis may fail
  Never        \* no expiry

Keys == {"global", "endpoint"}

ASSUME RatesAssumption  == Limit \in [Keys -> Nat \ {0}] /\ Window \in [Keys -> Nat \ {0}]
ASSUME SlotsAssumption  == IsFiniteSet(Slots)
ASSUME FaultsAssumption == RedisFaults \in BOOLEAN
ASSUME NeverAssumption  == Never \notin Int

VARIABLES
  counter,     \* counter[k]: 0 when the key does not exist
  ttl,         \* ttl[k]: the seconds it has left
  request,     \* request[r]: what request r does next
  granted,     \* granted[k][a]: requests that key k let pass at most a seconds ago (history)
  leaked       \* keys whose EXPIRE a failure prevented (history)

vars == <<counter, ttl, request, granted, leaked>>

\* key: the counter it is at; own: its path has a limit of its own.
Request == [step : {"idle", "incr", "expire", "ttl"}, key : Keys, own : BOOLEAN]

Idle == [step |-> "idle", key |-> "global", own |-> FALSE]

Set(r, value) == request' = [request EXCEPT ![r] = value]
MoveTo(r, step) == Set(r, [request[r] EXCEPT !.step = step])

-----------------------------------------------------------------------------
Init ==
  /\ counter = [k \in Keys |-> 0]
  /\ ttl = [k \in Keys |-> Never]
  /\ request = [r \in Slots |-> Idle]
  /\ granted = [k \in Keys |-> [a \in 0..Window[k] - 1 |-> 0]]
  /\ leaked = {}

\* A second passes; Redis drops the keys whose time has come.
Tick ==
  /\ counter' = [k \in Keys |-> IF ttl[k] = 1 THEN 0 ELSE counter[k]]
  /\ ttl' = [k \in Keys |-> IF ttl[k] \in {1, Never} THEN Never ELSE ttl[k] - 1]
  /\ granted' = [k \in Keys |-> [a \in 0..Window[k] - 1 |->
                                   IF a = 0 THEN 0 ELSE granted[k][a - 1]]]
  /\ UNCHANGED <<request, leaked>>

Begin(r) ==
  /\ request[r].step = "idle"
  /\ \E own \in BOOLEAN : Set(r, [step |-> "incr", key |-> "global", own |-> own])
  /\ UNCHANGED <<counter, ttl, granted, leaked>>

\* The key lets the request pass: on to its second key, or to the handler.
Pass(r) ==
  LET k == request[r].key IN
  /\ granted' = [granted EXCEPT ![k] = [a \in 0..Window[k] - 1 |-> granted[k][a] + 1]]
  /\ Set(r, IF k = "global" /\ request[r].own
            THEN [request[r] EXCEPT !.step = "incr", !.key = "endpoint"] ELSE Idle)

\* INCR.  Values above the limit are one: the code tells none of them apart.
Incremented(k) == counter[k] + (IF counter[k] > Limit[k] THEN 0 ELSE 1)

\* Mutant: the limit is not looked at.
IncrUnlimited(r) ==
  LET k == request[r].key IN
  /\ request[r].step = "incr"
  /\ counter' = [counter EXCEPT ![k] = Incremented(k)]
  /\ \/ Incremented(k) = 1 /\ MoveTo(r, "expire") /\ UNCHANGED granted
     \/ Incremented(k) > 1 /\ Pass(r)
  /\ UNCHANGED <<ttl, leaked>>

Incr(r) ==
  LET k == request[r].key IN
  /\ request[r].step = "incr"
  /\ counter' = [counter EXCEPT ![k] = Incremented(k)]
  /\ \/ Incremented(k) = 1 /\ MoveTo(r, "expire") /\ UNCHANGED granted
     \/ Incremented(k) \in 2..Limit[k] /\ Pass(r)
     \/ Incremented(k) > Limit[k] /\ MoveTo(r, "ttl") /\ UNCHANGED granted
  /\ UNCHANGED <<ttl, leaked>>

\* Mutant: EXPIRE is forgotten.
ExpireForgotten(r) ==
  /\ request[r].step = "expire"
  /\ Pass(r)
  /\ UNCHANGED <<counter, ttl, leaked>>

\* EXPIRE, and the request is within the limit.  (On a key that has gone EXPIRE
\* does nothing; TypeOK says that it never comes to one.)
Expire(r) ==
  /\ request[r].step = "expire"
  /\ ttl' = [ttl EXCEPT ![request[r].key] = Window[request[r].key]]
  /\ Pass(r)
  /\ UNCHANGED <<counter, leaked>>

\* TTL, for the Retry-After of the 429.
Refuse(r) ==
  /\ request[r].step = "ttl"
  /\ Set(r, Idle)
  /\ UNCHANGED <<counter, ttl, granted, leaked>>

\* A command fails, before or after Redis has executed it; the exception is
\* swallowed and the request goes on to its handler.
RedisFails(r) ==
  LET k == request[r].key IN
  /\ RedisFaults
  /\ request[r].step # "idle"
  /\ \/ /\ leaked' = leaked \cup (IF request[r].step = "expire" THEN {k} ELSE {})
        /\ UNCHANGED <<counter, ttl>>
     \/ /\ request[r].step = "incr"
        /\ counter' = [counter EXCEPT ![k] = Incremented(k)]
        /\ leaked' = leaked \cup (IF Incremented(k) = 1 THEN {k} ELSE {})
        /\ UNCHANGED ttl
     \/ /\ request[r].step = "expire"
        /\ ttl' = [ttl EXCEPT ![k] = Window[k]]
        /\ UNCHANGED <<counter, leaked>>
  /\ Set(r, Idle)
  /\ UNCHANGED granted

Step(r) == Incr(r) \/ Expire(r) \/ Refuse(r)

Next == Tick \/ \E r \in Slots : Begin(r) \/ Step(r) \/ RedisFails(r)

Spec == Init /\ [][Next]_vars

\* Time passes, and the event loop resumes every request.
FairSpec == Spec /\ WF_vars(Tick) /\ \A r \in Slots : WF_vars(Step(r))

-----------------------------------------------------------------------------
(* TypeOK: a key that does not exist has no expiry, and one that is         *)
(* rl:endpoint:... is only touched by requests for a path of its own.       *)
TypeOK ==
  /\ counter \in [Keys -> Nat]
  /\ ttl \in [Keys -> Nat \cup {Never}]
  /\ \A k \in Keys : /\ counter[k] <= Limit[k] + 1
                     /\ ttl[k] # Never => ttl[k] \in 1..Window[k] /\ counter[k] > 0
  /\ request \in [Slots -> Request]
  /\ \A r \in Slots : request[r].key = "endpoint" => request[r].own
  /\ DOMAIN granted = Keys
  /\ \A k \in Keys : granted[k] \in [0..Window[k] - 1 -> Nat]
  /\ leaked \subseteq Keys

(* RateBound: however requests, expiries and failures of Redis interleave,  *)
(* any Window[k] consecutive seconds see fewer than twice Limit[k] requests *)
(* pass by key k.  A window of the code's starts with its first EXPIRE, so  *)
(* that two of them, and never three, share those seconds, and the request  *)
(* that opened the older one is not in them any more.  (Requests count as   *)
(* passing when Redis has executed their last command.)                     *)
RateBound ==
  \A k \in Keys : granted[k][Window[k] - 1] < 2 * Limit[k]

(* KeyExpires: a counter that exists has an expiry, or the request that     *)
(* found it new is about to set it: _check_limit's two commands are not one *)
(* atomic step, and there is no other request to do it.  The exception is a *)
(* failure between the two.                                                 *)
KeyExpires ==
  \A k \in Keys \ leaked : counter[k] > 0 /\ ttl[k] = Never =>
                             \E r \in Slots : request[r].step = "expire" /\ request[r].key = k

(* LimitIsTemporary: a client that is turned away is let in again sooner or *)
(* later, but for that failure: the counter goes back to nothing.           *)
LimitIsTemporary ==
  \A k \in Keys : counter[k] > Limit[k] ~> counter[k] = 0 \/ k \in leaked
=============================================================================
