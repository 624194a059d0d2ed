----------------------------- MODULE SessionCache -----------------------------
(***************************************************************************)
(* SessionValidationMiddleware: each protected request is checked against  *)
(* the row of its access token in sessions, with the verdict kept in Redis *)
(* for TTL seconds.  One token is enough, the keys of others do not meet.  *)
(* The row appears when the transaction that issued the token commits,     *)
(* after the token was handed out, and is revoked by a logout or a login.  *)
(*                                                                         *)
(* Expiry of the row is left out: the token in it expires long before.     *)
(***************************************************************************)
EXTENDS Integers

CONSTANTS
  Checks,      \* connections that carry one request with the token after another
  TTL,         \* how long a verdict is kept: 60
  Delay,       \* the longest from reading the row to storing the verdict
  Outages,     \* what may be unavailable: "redis", "database"
  Never,       \* a time that has not come
  MaxTime      \* bound: the clock

Times == 0..MaxTime

ASSUME TimesAssumption   == TTL \in Nat \ {0} /\ Delay \in Nat /\ MaxTime \in Nat
ASSUME OutagesAssumption == Outages \subseteq {"redis", "database"}
ASSUME NeverAssumption   == Never \notin Int

VARIABLES
  now,
  activeAt,    \* when the row was committed
  revokedAt,   \* when it was revoked
  cache,       \* the key of the token: what it holds and when it expires
  check        \* the requests under way

vars == <<now, activeAt, revokedAt, cache, check>>

\* readAt: when it read the row, which was valid or not; unchecked: the database did
\* not answer; runs: how often the handler behind the middleware ran.
Check ==
  [step : {"idle", "look", "cached", "query", "store", "call", "handled", "rejected", "failed"},
   started : Times \cup {Never}, readAt : Times \cup {Never}, valid : BOOLEAN,
   unchecked : BOOLEAN, runs : 0..2]

Active == activeAt # Never /\ revokedAt = Never

Live == cache.until > now

Move(p, step) == check' = [check EXCEPT ![p].step = step]

\* What a request goes on with: the row it read is forgotten.
Settle(p, step) ==
  check' = [check EXCEPT ![p].step = step, ![p].readAt = Never, ![p].valid = FALSE]

-----------------------------------------------------------------------------
Init ==
  /\ now = 0
  /\ activeAt = Never /\ revokedAt = Never
  /\ cache = [valid |-> FALSE, until |-> 0]
  /\ check = [p \in Checks |-> [step |-> "idle", started |-> Never, readAt |-> Never,
                                valid |-> FALSE, unchecked |-> FALSE, runs |-> 0]]

\* Time does not pass Delay while a verdict is on its way to Redis.
Tick ==
  /\ now < MaxTime
  /\ \A p \in Checks : check[p].step = "store" => now < check[p].readAt + Delay
  /\ now' = now + 1
  /\ UNCHANGED <<activeAt, revokedAt, cache, check>>

\* get_db commits the session whose token has been sent.
CommitSession ==
  /\ activeAt = Never
  /\ activeAt' = now
  /\ UNCHANGED <<now, revokedAt, cache, check>>

RevokeSession ==
  /\ Active
  /\ revokedAt' = now
  /\ UNCHANGED <<now, activeAt, cache, check>>

Begin(p) ==
  /\ check[p].step \in {"idle", "handled", "rejected", "failed"}
  /\ check' = [check EXCEPT ![p] = [step |-> "look", started |-> now, readAt |-> Never,
                                   valid |-> FALSE, unchecked |-> FALSE, runs |-> 0]]
  /\ UNCHANGED <<now, activeAt, revokedAt, cache>>

\* Mutant: an expired key is served.
LookUpStale(p) ==
  /\ check[p].step = "look"
  /\ Move(p, IF cache.until = 0 THEN "query" ELSE IF cache.valid THEN "cached" ELSE "rejected")
  /\ UNCHANGED <<now, activeAt, revokedAt, cache>>

LookUp(p) ==
  /\ check[p].step = "look"
  /\ \/ Live /\ Move(p, IF cache.valid THEN "cached" ELSE "rejected")
     \/ ~Live /\ Move(p, "query")
     \/ "redis" \in Outages /\ Move(p, "query")
  /\ UNCHANGED <<now, activeAt, revokedAt, cache>>

\* The handler, called on the word of the cache within the try that is meant for
\* Redis: if it raises, the check goes on with the database.
CallCached(p) ==
  /\ check[p].step = "cached"
  /\ \E step \in {"handled", "query"} :
       check' = [check EXCEPT ![p].step = step, ![p].runs = @ + 1]
  /\ UNCHANGED <<now, activeAt, revokedAt, cache>>

Query(p) ==
  /\ check[p].step = "query"
  /\ \/ check' = [check EXCEPT ![p].step = "store", ![p].readAt = now, ![p].valid = Active]
     \/ /\ "database" \in Outages
        /\ check' = [check EXCEPT ![p].step = "call", ![p].unchecked = TRUE]
  /\ UNCHANGED <<now, activeAt, revokedAt, cache>>

\* Mutant: a verdict is kept twice as long.
StoreLonger(p) ==
  /\ check[p].step = "store"
  /\ cache' = [valid |-> check[p].valid, until |-> now + 2 * TTL]
  /\ Settle(p, IF check[p].valid THEN "call" ELSE "rejected")
  /\ UNCHANGED <<now, activeAt, revokedAt>>

\* Mutant: both verdicts are stored as "1".
StoreValid(p) ==
  /\ check[p].step = "store"
  /\ cache' = [valid |-> TRUE, until |-> now + TTL]
  /\ Settle(p, IF check[p].valid THEN "call" ELSE "rejected")
  /\ UNCHANGED <<now, activeAt, revokedAt>>

Store(p) ==
  /\ check[p].step = "store"
  /\ \/ cache' = [valid |-> check[p].valid, until |-> now + TTL]
     \/ "redis" \in Outages /\ UNCHANGED cache
  /\ Settle(p, IF check[p].valid THEN "call" ELSE "rejected")
  /\ UNCHANGED <<now, activeAt, revokedAt>>

Call(p) ==
  /\ check[p].step = "call"
  /\ \E step \in {"handled", "failed"} :
       check' = [check EXCEPT ![p].step = step, ![p].runs = @ + 1]
  /\ UNCHANGED <<now, activeAt, revokedAt, cache>>

Next ==
  \/ Tick \/ CommitSession \/ RevokeSession
  \/ \E p \in Checks : Begin(p) \/ LookUp(p) \/ CallCached(p) \/ Query(p) \/ Store(p) \/ Call(p)

Spec == Init /\ [][Next]_vars

-----------------------------------------------------------------------------
(* TypeOK: the clock, the row, the cached verdict and the requests.         *)
TypeOK ==
  /\ now \in Times
  /\ activeAt \in Times \cup {Never} /\ revokedAt \in Times \cup {Never}
  /\ cache \in [valid : BOOLEAN, until : 0..(MaxTime + TTL)]
  /\ check \in [Checks -> Check]

(* RevocationCaught: "while still catching revocations within one minute".  *)
(* However requests fill and read the cache, none that begins TTL and the   *)
(* longest way of a verdict to Redis after the revocation gets to a handler *)
(* but those for which the database did not answer: dispatch lets them pass. *)
RevocationCaught ==
  \A p \in Checks :
    check[p].runs > 0 /\ ~check[p].unchecked /\ revokedAt # Never
      => check[p].started < revokedAt + TTL + Delay

(* ValidSessionPasses: a token used before its session was committed is     *)
(* turned away, and the verdict is cached.  It wears off: a request that    *)
(* begins that much after the commit is only rejected for a revocation.     *)
ValidSessionPasses ==
  \A p \in Checks :
    check[p].step = "rejected" /\ activeAt # Never /\ check[p].started >= activeAt + TTL + Delay
      => revokedAt # Never

(* RefusedAfterItRan: the way past the cache is meant for Redis being       *)
(* unavailable, yet a handler that raises behind a cached verdict takes it,  *)
(* too: the request is checked again, and may be answered 401 although its   *)
(* handler has run.  That happens to a session revoked since, never to one   *)
(* whose verdict in the cache was wrong or to one still active.              *)
RefusedAfterItRan ==
  \A p \in Checks : check[p].step = "rejected" /\ check[p].runs > 0 => revokedAt # Never
=============================================================================
