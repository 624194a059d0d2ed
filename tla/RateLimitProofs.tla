---------------------------- MODULE RateLimitProofs ----------------------------
(***************************************************************************)
(* Proofs about RateLimit: type correctness, KeyExpires and RateBound,     *)
(* whatever Redis does.  The first is not inductive: an EXPIRE that came   *)
(* after its key has gone would give an expiry to nothing.  That it does   *)
(* not takes ExpiryPending: the key of a request before its EXPIRE exists, *)
(* has no expiry, so that it stays, and no second request will set one.    *)
(* RateBound takes Rated, which tells the grants of the code's window from *)
(* those of the one before it.                                             *)
(***************************************************************************)
EXTENDS RateLimit, TLAPS

AtExpire(r, k) == request[r].step = "expire" /\ request[r].key = k

ExpiryPending ==
  \A r \in Slots, k \in Keys : AtExpire(r, k) =>
     /\ counter[k] > 0 /\ ttl[k] = Never
     /\ \A s \in Slots : AtExpire(s, k) => s = r

IInv == TypeOK /\ ExpiryPending

USE DEF Keys, Set, MoveTo, Idle

\* What INCR leaves is a count, one more than at most the limit, and not 0.
LEMMA IncrementedIsCount ==
  ASSUME TypeOK, NEW k \in Keys
  PROVE  Incremented(k) \in Nat /\ Incremented(k) > 0 /\ Incremented(k) <= Limit[k] + 1
BY RatesAssumption DEF TypeOK, Incremented

\* Letting a request pass keeps the types of the two variables it changes.
LEMMA PassKeepsTypes ==
  ASSUME TypeOK, NEW r \in Slots, Pass(r)
  PROVE  /\ request' \in [Slots -> Request]
         /\ \A s \in Slots : request'[s].key = "endpoint" => request'[s].own
         /\ DOMAIN granted' = Keys
         /\ \A k \in Keys : granted'[k] \in [0..Window[k] - 1 -> Nat]
<1>1. request[r] \in Request
  BY DEF TypeOK
<1>2. request' \in [Slots -> Request]
  BY <1>1 DEF TypeOK, Pass, Request
<1>3. \A s \in Slots : request'[s].key = "endpoint" => request'[s].own
  BY <1>1 DEF TypeOK, Pass, Request
<1>4. DOMAIN granted' = Keys
  BY DEF TypeOK, Pass
<1>5. ASSUME NEW k \in Keys PROVE granted'[k] \in [0..Window[k] - 1 -> Nat]
  <2>1. CASE k = request[r].key
    <3>1. granted'[k] = [a \in 0..Window[k] - 1 |-> granted[k][a] + 1]
      BY <2>1 DEF TypeOK, Pass
    <3>2. \A a \in 0..Window[k] - 1 : granted[k][a] + 1 \in Nat
      <4>1. \A a \in 0..Window[k] - 1 : granted[k][a] \in Nat
        BY DEF TypeOK
      <4> QED BY <4>1
    <3> QED BY <3>1, <3>2
  <2>2. CASE k # request[r].key
    BY <2>2 DEF TypeOK, Pass
  <2> QED BY <2>1, <2>2
<1> QED BY <1>2, <1>3, <1>4, <1>5

\* The types are kept by the second that passes ...
LEMMA TickKeepsTypes == TypeOK /\ Tick => TypeOK'
<1> SUFFICES ASSUME TypeOK, Tick PROVE TypeOK'
  OBVIOUS
<1>1. ASSUME NEW k \in Keys
      PROVE  /\ counter'[k] \in Nat /\ counter'[k] <= Limit[k] + 1
             /\ ttl'[k] \in Nat \cup {Never}
             /\ ttl'[k] # Never => ttl'[k] \in 1..Window[k] /\ counter'[k] > 0
  BY RatesAssumption, NeverAssumption DEF TypeOK, Tick
<1>2. counter' \in [Keys -> Nat] /\ ttl' \in [Keys -> Nat \cup {Never}]
  BY <1>1 DEF Tick
<1>3. ASSUME NEW k \in Keys PROVE granted'[k] \in [0..Window[k] - 1 -> Nat]
  <2>1. \A a \in 0..Window[k] - 1 : a # 0 => a - 1 \in 0..Window[k] - 1
    BY RatesAssumption
  <2>2. \A a \in 0..Window[k] - 1 : a # 0 => granted[k][a - 1] \in Nat
    BY <2>1 DEF TypeOK
  <2> QED BY <2>2 DEF Tick
<1> QED BY <1>1, <1>2, <1>3 DEF TypeOK, Tick

\* ... and by each step of a request.
LEMMA RequestKeepsTypes ==
  ASSUME IInv, NEW r \in Slots, Begin(r) \/ Step(r) \/ RedisFails(r)
  PROVE  TypeOK'
<1> DEFINE k == request[r].key
<1>0. TypeOK /\ request[r] \in Request /\ k \in Keys
  BY DEF IInv, TypeOK, Request
<1>1. Incremented(k) \in Nat /\ Incremented(k) > 0 /\ Incremented(k) <= Limit[k] + 1
  BY <1>0, IncrementedIsCount
<1> DEFINE KeysTyped == /\ counter' \in [Keys -> Nat]
                        /\ ttl' \in [Keys -> Nat \cup {Never}]
                        /\ \A i \in Keys :
                             /\ counter'[i] <= Limit[i] + 1
                             /\ ttl'[i] # Never => ttl'[i] \in 1..Window[i] /\ counter'[i] > 0
<1>2. ASSUME counter' = [counter EXCEPT ![k] = Incremented(k)], ttl' = ttl
      PROVE  KeysTyped
  BY <1>0, <1>1, <1>2 DEF TypeOK
<1>3. ASSUME ttl' = [ttl EXCEPT ![k] = Window[k]], counter' = counter, request[r].step = "expire"
      PROVE  KeysTyped
  <2>1. counter[k] > 0
    BY <1>0, <1>3 DEF IInv, ExpiryPending, AtExpire
  <2> QED BY <1>0, <1>3, <2>1, RatesAssumption, NeverAssumption DEF TypeOK
<1>4. ASSUME UNCHANGED <<counter, ttl>> PROVE KeysTyped
  BY <1>0, <1>4 DEF TypeOK
<1>0a. leaked' \subseteq Keys
  BY <1>0 DEF TypeOK, Begin, Step, Incr, Expire, Refuse, RedisFails
<1>5. ASSUME NEW step \in {"idle", "incr", "expire", "ttl"}, MoveTo(r, step), UNCHANGED granted, KeysTyped
      PROVE  TypeOK'
  BY <1>0, <1>0a, <1>5 DEF TypeOK, Request
<1>6. ASSUME Set(r, Idle), UNCHANGED granted, KeysTyped PROVE TypeOK'
  BY <1>0, <1>0a, <1>6 DEF TypeOK, Request
<1>7. ASSUME Pass(r), KeysTyped PROVE TypeOK'
  BY <1>0, <1>0a, <1>7, PassKeepsTypes DEF TypeOK
<1>8. CASE Begin(r)
  BY <1>0, <1>4, <1>8 DEF TypeOK, Begin, Request
<1>9. CASE Incr(r)
  <2> HIDE DEF Set, MoveTo
  <2>1. KeysTyped
    BY <1>2, <1>9 DEF Incr
  <2>2. \/ MoveTo(r, "expire") /\ UNCHANGED granted
        \/ Pass(r)
        \/ MoveTo(r, "ttl") /\ UNCHANGED granted
    BY <1>9 DEF Incr
  <2> QED BY <1>5, <1>7, <2>1, <2>2
<1>10. CASE Expire(r)
  BY <1>3, <1>7, <1>10 DEF Expire
<1>11. CASE Refuse(r)
  BY <1>4, <1>6, <1>11 DEF Refuse
<1>12. CASE RedisFails(r)
  <2>1. KeysTyped
    BY <1>2, <1>3, <1>4, <1>12 DEF RedisFails
  <2> QED BY <1>6, <1>12, <2>1 DEF RedisFails
<1> QED BY <1>8, <1>9, <1>10, <1>11, <1>12 DEF Step

\* A step that moves only request r, and not to "expire", keeps ExpiryPending if
\* it leaves the keys alone that another request will set an expiry on.
LEMMA OthersStayPending ==
  ASSUME IInv, NEW r \in Slots,
         \A k \in Keys : ~AtExpire(r, k)',
         \A s \in Slots \ {r} : request'[s] = request[s],
         \A s \in Slots \ {r}, k \in Keys :
           AtExpire(s, k) => ttl'[k] = ttl[k] /\ counter'[k] > 0
  PROVE  ExpiryPending'
<1> SUFFICES ASSUME NEW s \in Slots, NEW k \in Keys, AtExpire(s, k)'
             PROVE  /\ counter'[k] > 0 /\ ttl'[k] = Never
                    /\ \A t \in Slots : AtExpire(t, k)' => t = s
  BY DEF ExpiryPending
<1>1. s # r /\ AtExpire(s, k)
  BY DEF AtExpire
<1>2. counter'[k] > 0 /\ ttl'[k] = Never
  BY <1>1 DEF IInv, ExpiryPending
<1>3. ASSUME NEW t \in Slots, AtExpire(t, k)' PROVE t = s
  BY <1>1, <1>3 DEF IInv, ExpiryPending, AtExpire
<1> QED BY <1>2, <1>3

\* ExpiryPending is kept by every step of a request.
LEMMA RequestKeepsPending ==
  ASSUME IInv, NEW r \in Slots, Begin(r) \/ Step(r) \/ RedisFails(r)
  PROVE  ExpiryPending'
<1> DEFINE k == request[r].key
<1>0. TypeOK /\ request[r] \in Request /\ k \in Keys
  BY DEF IInv, TypeOK, Request
<1>1. Incremented(k) > 0
  BY <1>0, IncrementedIsCount
<1>2. \A s \in Slots \ {r} : request'[s] = request[s]
  BY <1>0 DEF TypeOK, Begin, Step, Incr, Expire, Refuse, RedisFails, Pass
<1>3. \A s \in Slots, i \in Keys : AtExpire(s, i) => counter[i] > 0
  BY DEF IInv, ExpiryPending
<1>4. ASSUME ~(\E i \in Keys : AtExpire(r, i)') PROVE ExpiryPending'
  <2>1. ASSUME NEW s \in Slots \ {r}, NEW i \in Keys, AtExpire(s, i)
        PROVE  ttl'[i] = ttl[i] /\ counter'[i] > 0
    <3>1. counter'[i] > 0
      <4>1. UNCHANGED counter \/ counter' = [counter EXCEPT ![k] = Incremented(k)]
        BY DEF Begin, Step, Incr, Expire, Refuse, RedisFails
      <4> QED BY <1>0, <1>1, <1>3, <2>1, <4>1 DEF TypeOK
    <3>2. ttl'[i] = ttl[i]
      <4>1. \/ UNCHANGED ttl
            \/ request[r].step = "expire" /\ ttl' = [ttl EXCEPT ![k] = Window[k]]
        BY DEF Begin, Step, Incr, Expire, Refuse, RedisFails
      <4>2. request[r].step = "expire" => k # i
        BY <1>0, <2>1 DEF IInv, ExpiryPending, AtExpire
      <4> QED BY <1>0, <4>1, <4>2 DEF TypeOK
    <3> QED BY <3>1, <3>2
  <2> QED BY <1>2, <1>4, <2>1, OthersStayPending
<1>5. CASE Incr(r) /\ Incremented(k) = 1
  <2>1. counter[k] = 0
    <3>1. counter[k] \in Nat /\ Limit[k] \in Nat /\ Limit[k] > 0
      BY <1>0, RatesAssumption DEF TypeOK
    <3> QED BY <1>5, <3>1 DEF Incremented
  <2>2. ttl[k] = Never /\ \A s \in Slots : ~AtExpire(s, k)
    BY <1>0, <1>3, <2>1 DEF TypeOK
  <2>3. counter' = [counter EXCEPT ![k] = 1] /\ ttl' = ttl /\ request'[r].key = k
    BY <1>0, <1>5, RatesAssumption DEF Incr, Pass, TypeOK, Request
  <2>4. ASSUME NEW s \in Slots, NEW i \in Keys, AtExpire(s, i)'
        PROVE  /\ counter'[i] > 0 /\ ttl'[i] = Never
               /\ \A t \in Slots : AtExpire(t, i)' => t = s
    <3>1. CASE s = r
      BY <1>0, <1>2, <2>2, <2>3, <2>4, <3>1 DEF AtExpire, TypeOK
    <3>2. CASE s # r
      <4>1. AtExpire(s, i) /\ i # k
        BY <1>2, <2>2, <2>4, <3>2 DEF AtExpire
      <4>2. \A t \in Slots : AtExpire(t, i)' => AtExpire(t, i)
        BY <1>2, <2>3, <4>1 DEF AtExpire
      <4> QED BY <2>3, <4>1, <4>2 DEF IInv, ExpiryPending, TypeOK
    <3> QED BY <3>1, <3>2
  <2> QED BY <2>4 DEF ExpiryPending
<1>6. CASE Incr(r) /\ Incremented(k) # 1
  <2>1. request'[r].step # "expire"
    <3>1. CASE Pass(r)
      BY <1>0, <3>1 DEF Pass, TypeOK, Request
    <3>2. CASE MoveTo(r, "ttl")
      BY <1>0, <3>2 DEF TypeOK, Request
    <3>3. Pass(r) \/ MoveTo(r, "ttl")
      <4> HIDE DEF Set, MoveTo
      <4> QED BY <1>6 DEF Incr
    <3> QED BY <3>1, <3>2, <3>3
  <2> QED BY <1>4, <2>1 DEF AtExpire
<1>7. CASE Begin(r) \/ Expire(r) \/ Refuse(r) \/ RedisFails(r)
  <2>1. request'[r].step # "expire"
    <3>1. CASE Begin(r)
      BY <1>0, <3>1 DEF Begin, TypeOK
    <3>2. CASE Expire(r)
      BY <1>0, <3>2 DEF Expire, Pass, TypeOK, Request
    <3>3. CASE Refuse(r) \/ RedisFails(r)
      BY <1>0, <3>3 DEF Refuse, RedisFails, TypeOK
    <3> QED BY <1>7, <3>1, <3>2, <3>3
  <2> QED BY <1>4, <2>1 DEF AtExpire
<1> QED BY <1>5, <1>6, <1>7 DEF Step

LEMMA Inductive == IInv /\ [Next]_vars => IInv'
<1> SUFFICES ASSUME IInv, [Next]_vars PROVE IInv'
  OBVIOUS
<1>1. CASE Tick
  <2>1. TypeOK'
    BY <1>1, TickKeepsTypes DEF IInv
  <2>2. ExpiryPending'
    BY <1>1, NeverAssumption DEF IInv, ExpiryPending, AtExpire, Tick
  <2> QED BY <2>1, <2>2 DEF IInv
<1>2. ASSUME NEW r \in Slots, Begin(r) \/ Step(r) \/ RedisFails(r) PROVE IInv'
  BY <1>2, RequestKeepsTypes, RequestKeepsPending DEF IInv
<1>3. CASE UNCHANGED vars
  BY <1>3 DEF IInv, TypeOK, ExpiryPending, AtExpire, vars
<1> QED BY <1>1, <1>2, <1>3 DEF Next

LEMMA InitEstablishes == Init => IInv
<1> SUFFICES ASSUME Init PROVE IInv
  OBVIOUS
<1>1. \A k \in Keys : [a \in 0..Window[k] - 1 |-> 0] \in [0..Window[k] - 1 -> Nat]
  OBVIOUS
<1> QED BY <1>1, RatesAssumption DEF Init, IInv, TypeOK, ExpiryPending, AtExpire, Request

(* TypeCorrect: the types of RateLimit, with what they say of keys and      *)
(* expiries: no EXPIRE of _check_limit ever comes to a key that is gone.    *)
THEOREM TypeCorrect == Spec => []TypeOK
<1>1. IInv => TypeOK
  BY DEF IInv
<1> QED BY <1>1, InitEstablishes, Inductive, PTL DEF Spec

\* One step of KeyExpires.
LEMMA KeyExpiresStep == IInv /\ KeyExpires /\ [Next]_vars => KeyExpires'
<1> SUFFICES ASSUME IInv, KeyExpires, [Next]_vars,
                    NEW k \in Keys, k \notin leaked', counter'[k] > 0, ttl'[k] = Never
             PROVE  \E r \in Slots : AtExpire(r, k)'
  BY DEF KeyExpires, AtExpire
<1>0. TypeOK
  BY DEF IInv
<1>1. CASE Tick
  <2>1. counter[k] > 0 /\ ttl[k] = Never /\ k \notin leaked
    BY <1>0, <1>1, NeverAssumption DEF Tick, TypeOK
  <2> QED BY <1>1, <2>1 DEF KeyExpires, AtExpire, Tick
\* A request that leaves both the key and whoever sets its expiry alone.
<1>2. ASSUME NEW r \in Slots, k \notin leaked, counter[k] > 0, ttl[k] = Never, ~AtExpire(r, k),
             \A s \in Slots \ {r} : request'[s] = request[s]
      PROVE  \E s \in Slots : AtExpire(s, k)'
  <2>1. PICK s \in Slots : AtExpire(s, k)
    BY <1>2 DEF KeyExpires, AtExpire
  <2> QED BY <1>2, <2>1 DEF AtExpire
<1>3. ASSUME NEW r \in Slots, Begin(r) \/ Step(r) \/ RedisFails(r)
      PROVE  \E s \in Slots : AtExpire(s, k)'
  <2>0. request[r] \in Request /\ request[r].key \in Keys
    BY <1>0 DEF TypeOK, Request
  <2>1. \A s \in Slots \ {r} : request'[s] = request[s]
    BY <1>0, <1>3 DEF TypeOK, Begin, Step, Incr, Expire, Refuse, RedisFails, Pass
  <2>2. CASE request[r].step = "incr" /\ request[r].key = k /\ counter[k] = 0
    <3>1. Incremented(k) = 1
      BY <2>2, RatesAssumption DEF Incremented
    <3>2. CASE Incr(r)
      <4>1. MoveTo(r, "expire")
        BY <2>2, <3>1, <3>2, RatesAssumption DEF Incr
      <4> QED BY <1>0, <2>0, <2>2, <4>1 DEF AtExpire, TypeOK
    <3>3. CASE RedisFails(r)
      BY <1>0, <2>2, <3>1, <3>3 DEF RedisFails, TypeOK
    <3> QED BY <1>3, <2>2, <3>2, <3>3 DEF Begin, Step, Expire, Refuse
  <2>3. CASE ~(request[r].step = "incr" /\ request[r].key = k /\ counter[k] = 0)
    <3>1. counter[k] > 0 /\ k \notin leaked
      BY <1>0, <1>3, <2>3, <2>0 DEF TypeOK, Begin, Step, Incr, Expire, Refuse, RedisFails
    <3>2. ttl[k] = Never /\ ~AtExpire(r, k)
      BY <1>0, <1>3, <2>0, RatesAssumption, NeverAssumption
         DEF TypeOK, AtExpire, Begin, Step, Incr, Expire, Refuse, RedisFails
    <3> QED BY <1>2, <2>1, <3>1, <3>2
  <2> QED BY <2>2, <2>3
<1>4. CASE UNCHANGED vars
  BY <1>4 DEF KeyExpires, AtExpire, vars
<1> QED BY <1>1, <1>3, <1>4 DEF Next

(* KeysAlwaysExpire: but for a failure between the two commands, a counter  *)
(* that turns clients away has an expiry or will get one, for any number of *)
(* requests, any rate and any window.                                       *)
THEOREM KeysAlwaysExpire == Spec => []KeyExpires
<1>1. Init => KeyExpires
  BY DEF Init, KeyExpires
<1>2. IInv /\ KeyExpires /\ [Next]_vars => KeyExpires'
  BY KeyExpiresStep
<1> QED BY <1>1, <1>2, InitEstablishes, Inductive, PTL DEF Spec

-----------------------------------------------------------------------------
\* The requests that the counter of key k has let pass, or that it will once the
\* request that opened it is past its EXPIRE.
Admitted(k) == IF counter[k] > Limit[k] THEN Limit[k] ELSE counter[k]

\* Who passed since a later second passed since an earlier one.
Cumulative == \A k \in Keys : \A a \in 1..Window[k] - 1 : granted[k][a - 1] <= granted[k][a]

\* At most Limit[k] - 1 requests are left of an older window, as the one that
\* opened it has gone out of sight.  To these a window adds whom its counter
\* admitted: without the request that opened it before its EXPIRE, with it after.
\* Whoever passed after the EXPIRE, Window[k] - ttl[k] seconds ago, belongs to the
\* newer window, and the request that opened it is not among them.
RatedAt(k) ==
  LET all == granted[k][Window[k] - 1] IN
  /\ counter[k] = 0 => all < Limit[k]
  /\ counter[k] > 0 /\ ttl[k] = Never => all < Limit[k] + Admitted(k) - 1
  /\ ttl[k] # Never => all < Limit[k] + Admitted(k)
  /\ ttl[k] # Never /\ ttl[k] < Window[k] => granted[k][Window[k] - ttl[k] - 1] < Admitted(k)

Rated == Cumulative /\ \A k \in Keys : RatedAt(k)

\* What the counts are, with a name for each, so that the rest is arithmetic.
LEMMA CountsAre ==
  ASSUME TypeOK, NEW k \in Keys
  PROVE  /\ Limit[k] \in Nat /\ Limit[k] > 0 /\ Window[k] \in Nat /\ Window[k] > 0
         /\ counter[k] \in Nat /\ Admitted(k) \in Nat
         /\ ttl[k] # Never => ttl[k] \in 1..Window[k] /\ counter[k] > 0
         /\ \A a \in 0..Window[k] - 1 : granted[k][a] \in Nat
BY RatesAssumption DEF TypeOK, Admitted

\* Rated is kept if no key but that of request r is touched, and that one is in
\* one of these ways: counted up, counted up and let pass, or given its expiry.
LEMMA RatedKept ==
  ASSUME TypeOK, TypeOK', Rated, NEW k \in Keys,
         \A i \in Keys \ {k} : /\ counter'[i] = counter[i] /\ ttl'[i] = ttl[i]
                               /\ granted'[i] = granted[i],
         \/ /\ counter'[k] = counter[k] \/ counter'[k] = Incremented(k)
            /\ ttl'[k] = ttl[k] /\ granted'[k] = granted[k]
         \/ /\ Incremented(k) \in 2..Limit[k] /\ counter'[k] = Incremented(k)
            /\ ttl'[k] = ttl[k]
            /\ \A a \in 0..Window[k] - 1 : granted'[k][a] = granted[k][a] + 1
         \/ /\ counter'[k] = counter[k] /\ counter[k] > 0
            /\ ttl[k] = Never /\ ttl'[k] = Window[k]
            /\ \/ granted'[k] = granted[k]
               \/ \A a \in 0..Window[k] - 1 : granted'[k][a] = granted[k][a] + 1
  PROVE  Rated'
<1>0. ASSUME NEW i \in Keys
      PROVE  /\ Window[i] - 1 \in 0..Window[i] - 1
             /\ \A a \in 1..Window[i] - 1 : a \in 0..Window[i] - 1 /\ a - 1 \in 0..Window[i] - 1
  BY RatesAssumption
<1>1. Cumulative'
  <2>1. ASSUME NEW i \in Keys, NEW a \in 1..Window[i] - 1
        PROVE  granted'[i][a - 1] <= granted'[i][a]
    <3>1. granted[i][a - 1] <= granted[i][a]
      BY <2>1 DEF Rated, Cumulative
    <3>2. /\ granted[i][a] \in Nat /\ granted[i][a - 1] \in Nat
          /\ \/ granted'[i] = granted[i]
             \/ granted'[i][a] = granted[i][a] + 1 /\ granted'[i][a - 1] = granted[i][a - 1] + 1
      BY <1>0, CountsAre
    <3> QED BY <3>1, <3>2
  <2> QED BY <2>1 DEF Cumulative
<1>2. ASSUME NEW i \in Keys \ {k} PROVE RatedAt(i)'
  BY <1>2 DEF Rated, RatedAt, Admitted
<1>3. RatedAt(k)'
  <2>1. RatedAt(k)
    BY DEF Rated
  <2>2. CASE /\ counter'[k] = counter[k] \/ counter'[k] = Incremented(k)
             /\ ttl'[k] = ttl[k] /\ granted'[k] = granted[k]
    BY <2>1, <2>2, <1>0, CountsAre DEF RatedAt, Admitted, Incremented
  <2>3. CASE /\ Incremented(k) \in 2..Limit[k] /\ counter'[k] = Incremented(k)
             /\ ttl'[k] = ttl[k]
             /\ \A a \in 0..Window[k] - 1 : granted'[k][a] = granted[k][a] + 1
    <3>1. counter'[k] = counter[k] + 1 /\ counter[k] > 0 /\ Admitted(k)' = Admitted(k) + 1
      BY <2>3, CountsAre DEF Admitted, Incremented
    <3>2. granted'[k][Window[k] - 1] = granted[k][Window[k] - 1] + 1
      BY <1>0, <2>3
    <3>3. ttl[k] # Never /\ ttl[k] < Window[k] =>
            granted'[k][Window[k] - ttl[k] - 1] = granted[k][Window[k] - ttl[k] - 1] + 1
      BY <2>3, CountsAre
    <3> QED BY <1>0, <2>1, <2>3, <3>1, <3>2, <3>3, CountsAre DEF RatedAt
  <2>4. CASE /\ counter'[k] = counter[k] /\ counter[k] > 0
             /\ ttl[k] = Never /\ ttl'[k] = Window[k]
             /\ \/ granted'[k] = granted[k]
                \/ \A a \in 0..Window[k] - 1 : granted'[k][a] = granted[k][a] + 1
    <3>1. \/ granted'[k][Window[k] - 1] = granted[k][Window[k] - 1]
          \/ granted'[k][Window[k] - 1] = granted[k][Window[k] - 1] + 1
      BY <1>0, <2>4
    <3>2. Admitted(k)' = Admitted(k)
      BY <2>4 DEF Admitted
    <3>3. /\ granted[k][Window[k] - 1] \in Nat
          /\ granted[k][Window[k] - 1] < Limit[k] + Admitted(k) - 1
      BY <1>0, <2>1, <2>4, CountsAre DEF RatedAt
    <3>4. granted'[k][Window[k] - 1] < Limit[k] + Admitted(k)
      BY <3>1, <3>3, CountsAre
    <3>5. ttl'[k] # Never /\ ~(ttl'[k] < Window[k])
      BY <2>4, NeverAssumption, CountsAre
    <3> QED BY <2>4, <3>2, <3>4, <3>5 DEF RatedAt
  <2> QED BY <2>2, <2>3, <2>4
<1> QED BY <1>1, <1>2, <1>3 DEF Rated

\* A second that passes keeps Rated: with it the request that opened the window
\* of a key goes out of sight when the key is dropped, and not before.
LEMMA TickKeepsRated == TypeOK /\ Rated /\ Tick => Rated'
<1> SUFFICES ASSUME TypeOK, Rated, Tick PROVE Rated'
  OBVIOUS
<1>1. ASSUME NEW k \in Keys PROVE RatedAt(k)'
  <2> DEFINE w == Window[k]
  <2>0. w \in Nat /\ w > 0
    BY CountsAre
  <2>1. \A a \in 0..w - 1 : granted'[k][a] = IF a = 0 THEN 0 ELSE granted[k][a - 1]
    BY DEF Tick
  <2>2. granted'[k][w - 1] = IF w = 1 THEN 0 ELSE granted[k][w - 2]
    BY <2>0, <2>1
  <2>3. /\ granted'[k][w - 1] \in Nat /\ granted[k][w - 1] \in Nat
        /\ granted'[k][w - 1] <= granted[k][w - 1]
    <3>1. CASE w = 1
      BY <2>0, <2>2, <3>1, CountsAre
    <3>2. CASE w > 1
      <4>1. granted[k][(w - 1) - 1] <= granted[k][w - 1]
        BY <2>0, <3>2 DEF Rated, Cumulative
      <4>2. granted[k][w - 2] \in Nat /\ granted[k][w - 1] \in Nat /\ (w - 1) - 1 = w - 2
        BY <2>0, <3>2, CountsAre
      <4> QED BY <2>2, <3>2, <4>1, <4>2
    <3> QED BY <2>0, <3>1, <3>2
  <2>4. RatedAt(k)
    BY DEF Rated
  <2>5. CASE ttl[k] = Never
    <3>1. ttl'[k] = Never /\ counter'[k] = counter[k]
      BY <2>5, NeverAssumption DEF Tick
    <3> QED BY <2>3, <2>4, <2>5, <3>1, CountsAre DEF RatedAt, Admitted
  <2>6. CASE ttl[k] = 1
    <3>1. ttl'[k] = Never /\ counter'[k] = 0
      BY <2>6 DEF Tick
    <3>2. w > 1 => granted[k][w - 2] < Admitted(k)
      BY <2>0, <2>4, <2>6, NeverAssumption DEF RatedAt
    <3>3. Admitted(k) <= Limit[k]
      BY CountsAre DEF Admitted
    <3>4. w > 1 => granted[k][w - 2] \in Nat
      BY <2>0, CountsAre
    <3>5. granted'[k][w - 1] < Limit[k]
      BY <2>0, <2>2, <3>2, <3>3, <3>4, CountsAre
    <3> QED BY <3>1, <3>5 DEF RatedAt
  <2>7. CASE ttl[k] \notin {1, Never}
    <3>1. ttl'[k] = ttl[k] - 1 /\ counter'[k] = counter[k]
      BY <2>7 DEF Tick
    <3>2. ttl[k] \in 2..w /\ counter[k] > 0 /\ Admitted(k) > 0 /\ Admitted(k) \in Nat
      BY <2>0, <2>7, CountsAre DEF Admitted
    <3>3. granted'[k][w - (ttl[k] - 1) - 1] < Admitted(k)
      <4>1. CASE ttl[k] = w
        BY <2>0, <2>1, <3>2, <4>1
      <4>2. CASE ttl[k] < w
        <5>1. w - (ttl[k] - 1) - 1 \in 1..w - 1 /\ (w - (ttl[k] - 1) - 1) - 1 = w - ttl[k] - 1
          BY <2>0, <3>2, <4>2
        <5>2. granted'[k][w - (ttl[k] - 1) - 1] = granted[k][w - ttl[k] - 1]
          BY <2>0, <2>1, <5>1
        <5> QED BY <2>4, <2>7, <4>2, <5>2 DEF RatedAt
      <4>3. ttl[k] \in Int /\ w \in Int /\ ttl[k] <= w
        BY <2>0, <3>2
      <4> QED BY <4>1, <4>2, <4>3
    <3>4. Admitted(k)' = Admitted(k)
      BY <3>1 DEF Admitted
    <3> QED BY <2>3, <2>4, <2>7, <3>1, <3>2, <3>3, <3>4, NeverAssumption, CountsAre DEF RatedAt
  <2> QED BY <2>5, <2>6, <2>7
<1>2. ASSUME NEW k \in Keys, NEW a \in 1..Window[k] - 1
      PROVE  granted'[k][a - 1] <= granted'[k][a]
  <2>1. a - 1 \in 0..Window[k] - 1 /\ a \in 0..Window[k] - 1
    BY <1>2, CountsAre
  <2>2. /\ granted'[k][a] = granted[k][a - 1]
        /\ granted'[k][a - 1] = IF a = 1 THEN 0 ELSE granted[k][(a - 1) - 1]
    BY <2>1 DEF Tick
  <2>3. granted[k][a - 1] \in Nat
    BY <2>1, CountsAre
  <2>4. a # 1 => granted[k][(a - 1) - 1] <= granted[k][a - 1]
    BY <2>1 DEF Rated, Cumulative
  <2> QED BY <2>2, <2>3, <2>4
<1> QED BY <1>1, <1>2 DEF Rated, Cumulative

\* The steps of a request are of the kinds that RatedKept admits.
LEMMA RequestKeepsRated ==
  ASSUME IInv, TypeOK', Rated, NEW r \in Slots, Begin(r) \/ Step(r) \/ RedisFails(r)
  PROVE  Rated'
<1> DEFINE k == request[r].key
<1>0. TypeOK /\ k \in Keys /\ DOMAIN granted = Keys
  BY DEF IInv, TypeOK, Request
<1>1. ASSUME Pass(r)
      PROVE  /\ \A i \in Keys \ {k} : granted'[i] = granted[i]
             /\ \A a \in 0..Window[k] - 1 : granted'[k][a] = granted[k][a] + 1
  BY <1>0, <1>1 DEF Pass
<1>2. request[r].step = "expire" => counter[k] > 0 /\ ttl[k] = Never
  BY <1>0 DEF IInv, ExpiryPending, AtExpire
<1>3. CASE Begin(r) \/ Refuse(r)
  BY <1>0, <1>3, RatedKept DEF Begin, Refuse
<1>4. CASE Incr(r)
  <2> HIDE DEF Set, MoveTo
  <2>1. counter' = [counter EXCEPT ![k] = Incremented(k)] /\ ttl' = ttl
    BY <1>4 DEF Incr
  <2>2. counter'[k] = Incremented(k) /\ \A i \in Keys \ {k} : counter'[i] = counter[i]
    BY <1>0, <2>1 DEF TypeOK
  <2>3. \/ UNCHANGED granted
        \/ Incremented(k) \in 2..Limit[k] /\ Pass(r)
    BY <1>4 DEF Incr
  <2> QED BY <1>0, <1>1, <2>1, <2>2, <2>3, RatedKept
<1>5. CASE Expire(r)
  <2> HIDE DEF Set, MoveTo
  <2>1. ttl' = [ttl EXCEPT ![k] = Window[k]] /\ counter' = counter /\ Pass(r)
    BY <1>5 DEF Expire
  <2>2. ttl'[k] = Window[k] /\ \A i \in Keys \ {k} : ttl'[i] = ttl[i]
    BY <1>0, <2>1 DEF TypeOK
  <2>3. counter[k] > 0 /\ ttl[k] = Never
    BY <1>2, <1>5 DEF Expire
  <2> QED BY <1>0, <1>1, <2>1, <2>2, <2>3, RatedKept
<1>6. CASE RedisFails(r)
  <2>1. /\ granted' = granted
        /\ \/ UNCHANGED <<counter, ttl>>
           \/ counter' = [counter EXCEPT ![k] = Incremented(k)] /\ ttl' = ttl
           \/ /\ request[r].step = "expire"
              /\ ttl' = [ttl EXCEPT ![k] = Window[k]] /\ counter' = counter
    BY <1>6 DEF RedisFails
  <2>2. CASE UNCHANGED <<counter, ttl>>
    BY <1>0, <2>1, <2>2, RatedKept
  <2>3. CASE counter' = [counter EXCEPT ![k] = Incremented(k)] /\ ttl' = ttl
    <3>1. counter'[k] = Incremented(k) /\ \A i \in Keys \ {k} : counter'[i] = counter[i]
      BY <1>0, <2>3 DEF TypeOK
    <3> QED BY <1>0, <2>1, <2>3, <3>1, RatedKept
  <2>4. CASE /\ request[r].step = "expire"
             /\ ttl' = [ttl EXCEPT ![k] = Window[k]] /\ counter' = counter
    <3>1. ttl'[k] = Window[k] /\ \A i \in Keys \ {k} : ttl'[i] = ttl[i]
      BY <1>0, <2>4 DEF TypeOK
    <3> QED BY <1>0, <1>2, <2>1, <2>4, <3>1, RatedKept
  <2> QED BY <2>1, <2>2, <2>3, <2>4
<1> QED BY <1>3, <1>4, <1>5, <1>6 DEF Step

\* One step of Rated.
LEMMA RatedStep == IInv /\ IInv' /\ Rated /\ [Next]_vars => Rated'
<1> SUFFICES ASSUME IInv, IInv', Rated, [Next]_vars PROVE Rated'
  OBVIOUS
<1>0. TypeOK /\ TypeOK'
  BY DEF IInv
<1>1. CASE UNCHANGED vars
  BY <1>1 DEF Rated, Cumulative, RatedAt, Admitted, vars
<1> QED BY <1>0, <1>1, TickKeepsRated, RequestKeepsRated DEF Next

(* RateIsBounded: RateBound for any number of requests at once, any limits *)
(* and windows, and whatever Redis does: any Window[k] seconds in a row see *)
(* fewer than 2 * Limit[k] requests pass by the key k of _check_limit.      *)
THEOREM RateIsBounded == Spec => []RateBound
<1>1. Init => Rated
  BY RatesAssumption DEF Init, Rated, Cumulative, RatedAt, Admitted
<1>2. IInv /\ Rated => RateBound
  <2> SUFFICES ASSUME IInv, Rated, NEW k \in Keys
               PROVE  granted[k][Window[k] - 1] < 2 * Limit[k]
    BY DEF RateBound
  <2>1. TypeOK /\ RatedAt(k)
    BY DEF IInv, Rated
  <2>2. Admitted(k) <= Limit[k] /\ Window[k] - 1 \in 0..Window[k] - 1
    BY <2>1, CountsAre DEF Admitted
  <2> QED BY <2>1, <2>2, CountsAre DEF RatedAt
<1> QED BY <1>1, <1>2, RatedStep, InitEstablishes, Inductive, PTL DEF Spec
=============================================================================
