---------------------------- MODULE SignedInProofs ----------------------------
(***************************************************************************)
(* Theorems about being signed in: what the backend's cache says of a      *)
(* session, for any number of requests, any lifetime of a verdict and any  *)
(* delay, and what a signed-in tab and an administration page in it show,  *)
(* for any accounts, items and values.                                     *)
(*                                                                         *)
(* The cache.  The invariants bound the time to which a verdict that is no *)
(* longer true can still be served: it was read before the row changed,    *)
(* stored at most Delay later, and kept for TTL.                           *)
(*                                                                         *)
(* The tab.  What is shown of an account was asked for as that account:    *)
(* no request of before a change of the cookie is answered after it, but   *)
(* where the change came from outside (crossed).  That a sign-in is under  *)
(* way on the sign-in page alone, where nobody is signed in, makes this    *)
(* inductive.                                                              *)
(*                                                                         *)
(* The page.  Only the action at the head of the queue has got anywhere,   *)
(* and `saving` and `deleting` hold while theirs is in the queue.          *)
(***************************************************************************)
EXTENDS SessionCache, Dashboard, SequenceTheorems, FiniteSetTheorems, TLAPS

-----------------------------------------------------------------------------
\* The cached verdicts

\* Verdicts under way and kept are recent.
Recent ==
  /\ cache.until <= now + TTL
  /\ revokedAt # Never => activeAt # Never /\ activeAt <= revokedAt /\ revokedAt <= now
  /\ activeAt # Never => activeAt <= now
  /\ \A p \in Checks :
       /\ check[p].step # "idle" => check[p].started # Never /\ check[p].started <= now
       /\ check[p].step = "idle" => check[p].runs = 0
       /\ check[p].step \in {"look", "cached"} => check[p].runs = 0
       /\ check[p].step \in {"query", "store", "call"} => check[p].runs <= 1
       /\ check[p].step = "store" =>
            /\ check[p].readAt # Never /\ check[p].started <= check[p].readAt
            /\ check[p].readAt <= now /\ now <= check[p].readAt + Delay

\* What lets a request through after the revocation is as old as it.
NoLateAcceptance ==
  revokedAt # Never =>
    /\ cache.valid => cache.until <= revokedAt + TTL + Delay
    /\ \A p \in Checks :
         /\ check[p].step = "store" /\ check[p].valid => check[p].readAt <= revokedAt
         /\ (check[p].step \in {"cached", "call"} \/ check[p].runs > 0) /\ ~check[p].unchecked
              => check[p].started < revokedAt + TTL + Delay

\* What turns a request away from an active session is as old as its commit.
NoLateRejection ==
  Active =>
    /\ ~cache.valid => cache.until <= activeAt + TTL + Delay
    /\ \A p \in Checks :
         /\ check[p].step = "store" /\ ~check[p].valid => check[p].readAt <= activeAt
         /\ check[p].step = "rejected" => check[p].started < activeAt + TTL + Delay

\* Who is let through on a cached verdict has been active, and is refused
\* afterwards for what happened since.
NoFalseWord ==
  /\ cache.valid => activeAt # Never
  /\ \A p \in Checks :
       /\ check[p].step = "cached" => activeAt # Never
       /\ check[p].step = "store" /\ check[p].valid => activeAt # Never
       /\ check[p].runs > 0 /\ check[p].step \in {"query", "store"} => activeAt # Never
       /\ check[p].runs > 0 /\ check[p].step = "store" /\ ~check[p].valid => revokedAt # Never
       /\ check[p].runs > 0 /\ check[p].step = "rejected" => revokedAt # Never

Basics == TypeOK /\ Recent

USE TimesAssumption, NeverAssumption

LEMMA BasicsInit == Init => Basics /\ NoLateAcceptance /\ NoLateRejection /\ NoFalseWord
BY DEF Init, Basics, TypeOK, Recent, NoLateAcceptance, NoLateRejection, NoFalseWord, Active, Times, Check

LEMMA BasicsStep ==
  ASSUME Basics, [Next]_vars
  PROVE  Basics'
<1> USE DEF Basics, TypeOK, Recent, Times, Check
<1>1. CASE Tick
  BY <1>1 DEF Tick
<1>2. CASE CommitSession
  BY <1>2 DEF CommitSession
<1>3. CASE RevokeSession
  BY <1>3 DEF RevokeSession, Active
<1>4. ASSUME NEW p \in Checks, Begin(p) PROVE Basics'
  BY <1>4 DEF Begin
<1>5. ASSUME NEW p \in Checks, LookUp(p) PROVE Basics'
  BY <1>5 DEF LookUp, Move
<1>6. ASSUME NEW p \in Checks, CallCached(p) PROVE Basics'
  BY <1>6 DEF CallCached
<1>7. ASSUME NEW p \in Checks, Query(p) PROVE Basics'
  BY <1>7 DEF Query, Move, Active
<1>8. ASSUME NEW p \in Checks, Store(p) PROVE Basics'
  <2> DEFINE step == IF check[p].valid THEN "call" ELSE "rejected"
  <2>1. step \in {"call", "rejected"} /\ Settle(p, step) /\ check[p].step = "store"
    BY <1>8 DEF Store
  <2> HIDE DEF step
  <2>2. /\ cache' \in [valid : BOOLEAN, until : 0..(MaxTime + TTL)]
        /\ cache'.until <= now + TTL
        /\ now' = now /\ activeAt' = activeAt /\ revokedAt' = revokedAt
    BY <1>8 DEF Store
  <2> QED
    BY <2>1, <2>2 DEF Settle
<1>9. ASSUME NEW p \in Checks, Call(p) PROVE Basics'
  BY <1>9 DEF Call
<1>10. CASE UNCHANGED vars
  BY <1>10 DEF vars
<1> QED
  BY <1>1, <1>2, <1>3, <1>4, <1>5, <1>6, <1>7, <1>8, <1>9, <1>10 DEF Next

LEMMA AcceptanceStep ==
  ASSUME Basics, NoLateAcceptance, [Next]_vars
  PROVE  NoLateAcceptance'
<1> USE DEF Basics, TypeOK, Recent, Times, Check, NoLateAcceptance, Active
<1>1. CASE Tick
  BY <1>1 DEF Tick
<1>2. CASE CommitSession
  BY <1>2 DEF CommitSession
<1>3. CASE RevokeSession
  BY <1>3 DEF RevokeSession
<1>4. ASSUME NEW p \in Checks, Begin(p) PROVE NoLateAcceptance'
  BY <1>4 DEF Begin
<1>5. ASSUME NEW p \in Checks, LookUp(p) PROVE NoLateAcceptance'
  BY <1>5 DEF LookUp, Move, Live
<1>6. ASSUME NEW p \in Checks, CallCached(p) PROVE NoLateAcceptance'
  BY <1>6 DEF CallCached
<1>7. ASSUME NEW p \in Checks, Query(p) PROVE NoLateAcceptance'
  BY <1>7 DEF Query, Move
<1>8. ASSUME NEW p \in Checks, Store(p) PROVE NoLateAcceptance'
  <2> DEFINE step == IF check[p].valid THEN "call" ELSE "rejected"
  <2>1. /\ step \in {"call", "rejected"} /\ (step = "call" <=> check[p].valid)
        /\ Settle(p, step) /\ check[p].step = "store"
    BY <1>8 DEF Store
  <2> HIDE DEF step
  <2>2. /\ cache' = cache \/ (cache'.valid = check[p].valid /\ cache'.until = now + TTL)
        /\ now' = now /\ activeAt' = activeAt /\ revokedAt' = revokedAt
    BY <1>8 DEF Store
  <2> QED
    BY <2>1, <2>2 DEF Settle
<1>9. ASSUME NEW p \in Checks, Call(p) PROVE NoLateAcceptance'
  BY <1>9 DEF Call
<1>10. CASE UNCHANGED vars
  BY <1>10 DEF vars
<1> QED
  BY <1>1, <1>2, <1>3, <1>4, <1>5, <1>6, <1>7, <1>8, <1>9, <1>10 DEF Next

LEMMA RejectionStep ==
  ASSUME Basics, NoLateRejection, [Next]_vars
  PROVE  NoLateRejection'
<1> USE DEF Basics, TypeOK, Recent, Times, Check, NoLateRejection, Active
<1>1. CASE Tick
  BY <1>1 DEF Tick
<1>2. CASE CommitSession
  BY <1>2 DEF CommitSession
<1>3. CASE RevokeSession
  BY <1>3 DEF RevokeSession
<1>4. ASSUME NEW p \in Checks, Begin(p) PROVE NoLateRejection'
  BY <1>4 DEF Begin
<1>5. ASSUME NEW p \in Checks, LookUp(p) PROVE NoLateRejection'
  BY <1>5 DEF LookUp, Move, Live
<1>6. ASSUME NEW p \in Checks, CallCached(p) PROVE NoLateRejection'
  BY <1>6 DEF CallCached
<1>7. ASSUME NEW p \in Checks, Query(p) PROVE NoLateRejection'
  BY <1>7 DEF Query, Move
<1>8. ASSUME NEW p \in Checks, Store(p) PROVE NoLateRejection'
  <2> DEFINE step == IF check[p].valid THEN "call" ELSE "rejected"
  <2>1. /\ step \in {"call", "rejected"} /\ (step = "call" <=> check[p].valid)
        /\ Settle(p, step) /\ check[p].step = "store"
    BY <1>8 DEF Store
  <2> HIDE DEF step
  <2>2. /\ cache' = cache \/ (cache'.valid = check[p].valid /\ cache'.until = now + TTL)
        /\ now' = now /\ activeAt' = activeAt /\ revokedAt' = revokedAt
    BY <1>8 DEF Store
  <2> QED
    BY <2>1, <2>2 DEF Settle
<1>9. ASSUME NEW p \in Checks, Call(p) PROVE NoLateRejection'
  BY <1>9 DEF Call
<1>10. CASE UNCHANGED vars
  BY <1>10 DEF vars
<1> QED
  BY <1>1, <1>2, <1>3, <1>4, <1>5, <1>6, <1>7, <1>8, <1>9, <1>10 DEF Next

LEMMA WordStep ==
  ASSUME Basics, NoFalseWord, [Next]_vars
  PROVE  NoFalseWord'
<1> USE DEF Basics, TypeOK, Recent, Times, Check, NoFalseWord, Active
<1>1. CASE Tick
  BY <1>1 DEF Tick
<1>2. CASE CommitSession
  BY <1>2 DEF CommitSession
<1>3. CASE RevokeSession
  BY <1>3 DEF RevokeSession
<1>4. ASSUME NEW p \in Checks, Begin(p) PROVE NoFalseWord'
  BY <1>4 DEF Begin
<1>5. ASSUME NEW p \in Checks, LookUp(p) PROVE NoFalseWord'
  BY <1>5 DEF LookUp, Move, Live
<1>6. ASSUME NEW p \in Checks, CallCached(p) PROVE NoFalseWord'
  BY <1>6 DEF CallCached
<1>7. ASSUME NEW p \in Checks, Query(p) PROVE NoFalseWord'
  BY <1>7 DEF Query, Move
<1>8. ASSUME NEW p \in Checks, Store(p) PROVE NoFalseWord'
  <2> DEFINE step == IF check[p].valid THEN "call" ELSE "rejected"
  <2>1. /\ step \in {"call", "rejected"} /\ (step = "call" <=> check[p].valid)
        /\ Settle(p, step) /\ check[p].step = "store"
    BY <1>8 DEF Store
  <2> HIDE DEF step
  <2>2. /\ cache' = cache \/ (cache'.valid = check[p].valid /\ cache'.until = now + TTL)
        /\ now' = now /\ activeAt' = activeAt /\ revokedAt' = revokedAt
    BY <1>8 DEF Store
  <2> QED
    BY <2>1, <2>2 DEF Settle
<1>9. ASSUME NEW p \in Checks, Call(p) PROVE NoFalseWord'
  BY <1>9 DEF Call
<1>10. CASE UNCHANGED vars
  BY <1>10 DEF vars
<1> QED
  BY <1>1, <1>2, <1>3, <1>4, <1>5, <1>6, <1>7, <1>8, <1>9, <1>10 DEF Next

LEMMA BasicsHold == Spec => []Basics
BY BasicsInit, BasicsStep, PTL DEF Spec

\* Every reachable state is well typed.
THEOREM VerdictTypes == Spec => []TypeOK
<1>1. Basics => TypeOK
  BY DEF Basics
<1> QED
  BY BasicsHold, <1>1, PTL

\* "catching revocations within one minute": whatever Redis does, no request that
\* begins TTL and the longest delay after the revocation reaches a handler, unless
\* the database did not answer it.
THEOREM RevocationIsCaught == Spec => []RevocationCaught
<1>1. Basics /\ NoLateAcceptance /\ [Next]_vars => NoLateAcceptance'
  BY AcceptanceStep
<1>2. NoLateAcceptance => RevocationCaught
  BY DEF NoLateAcceptance, RevocationCaught
<1> QED
  BY BasicsInit, BasicsHold, <1>1, <1>2, PTL DEF Spec

\* A token that came before its row is not turned away for longer than that, even
\* when Redis and the database come and go.
THEOREM ValidSessionIsServed == Spec => []ValidSessionPasses
<1>1. Basics /\ NoLateRejection /\ [Next]_vars => NoLateRejection'
  BY RejectionStep
<1>2. Basics /\ NoLateRejection => ValidSessionPasses
  BY DEF Basics, TypeOK, Recent, Check, Times, NoLateRejection, Active, ValidSessionPasses
<1> QED
  BY BasicsInit, BasicsHold, <1>1, <1>2, PTL DEF Spec

\* A request that is refused although its handler has run, the handler having
\* raised behind a cached verdict, belongs to a session revoked in between.
THEOREM RefusedForRevocation == Spec => []RefusedAfterItRan
<1>1. Basics /\ NoFalseWord /\ [Next]_vars => NoFalseWord'
  BY WordStep
<1>2. NoFalseWord => RefusedAfterItRan
  BY DEF NoFalseWord, RefusedAfterItRan
<1> QED
  BY BasicsInit, BasicsHold, <1>1, <1>2, PTL DEF Spec
-----------------------------------------------------------------------------
\* The tab

\* The answers under way are about the account of the cookie, or nobody.
AskedAsCookie ==
  ~crossed => \A l \in Loads : me[l] \in {Idle, Nobody, cookie}

\* The profile page was filled for the account of the cookie.
FilledAsCookie ==
  /\ field # Nobody => screen = "profile"
  /\ ~crossed /\ cookie # Nobody => field \in {cookie, Nobody}

SignsInSignedOut == signing # Idle => screen = "login"

TabInv ==
  /\ BTypeOK /\ UserIsCookies /\ SavesOwnNames /\ LoginForSignedOut
  /\ AskedAsCookie /\ FilledAsCookie /\ SignsInSignedOut

LEMMA Unpatched ==
  NoPatch \in [phase : {"idle", "sent", "refreshing"}, from : Somebody, as : Somebody, own : BOOLEAN]
BY DEF NoPatch, Somebody

LEMMA TabStarts == BInit => TabInv
<1> SUFFICES ASSUME BInit PROVE TabInv
  OBVIOUS
<1>1. screen \in Protected \cup {"login"} /\ (screen = "login" => cookie = Nobody)
  BY DEF BInit, proxy, Protected
<1>2. BTypeOK
  <2>1. me \in [Loads -> Somebody \cup {Idle}]
    BY DEF BInit, Somebody
  <2>2. 0 \in 0..MaxElsewhere
    BY SessionAssumption
  <2> QED BY <1>1, <2>1, <2>2, Unpatched DEF BInit, BTypeOK, Somebody
<1> QED
  BY <1>1, <1>2 DEF BInit, NoPatch, TabInv, UserIsCookies, SavesOwnNames, LoginForSignedOut,
     AskedAsCookie, FilledAsCookie, SignsInSignedOut

\* A full load starts a tab as good as new.
LEMMA LoadKeeps ==
  ASSUME TabInv, NEW page \in Protected \cup {"login"}, Load(page, cookie'),
         cookie' \in Somebody, alive' \in BOOLEAN, elsewhere' \in 0..MaxElsewhere
  PROVE  TabInv'
<1>1. /\ screen' \in Protected \cup {"login"} /\ (screen' = "login" => cookie' = Nobody)
      /\ user' = Nobody /\ signing' = Idle /\ leaving' = Idle /\ field' = Nobody
      /\ patch' = NoPatch /\ spin' = FALSE /\ crossed' = FALSE
      /\ me' = [l \in Loads |-> IF l = "mount" THEN cookie' ELSE Idle]
  BY DEF Load, proxy, Protected
<1>2. BTypeOK'
  BY <1>1, Unpatched DEF BTypeOK, Somebody, Loads
<1> QED
  BY <1>1, <1>2 DEF NoPatch, TabInv, UserIsCookies, SavesOwnNames, LoginForSignedOut,
     AskedAsCookie, FilledAsCookie, SignsInSignedOut

LEMMA TabStep ==
  ASSUME TabInv,
         \/ Reload \/ Visit \/ LoggedIn \/ LoggedOut \/ LogoutFailed
         \/ login \/ LoginFailed \/ logout \/ handleProfileSave \/ Saved \/ SaveFailed
         \/ \E l \in Loads : refreshUser(l)
         \/ Expire \/ Revoke \/ OtherTab
  PROVE  TabInv'
<1> USE SessionAssumption
<1>1. CASE Reload
  <2>1. PICK page \in Protected \cup {"login"} : Load(page, cookie)
    BY <1>1 DEF Reload
  <2> QED BY <1>1, <2>1, LoadKeeps DEF Reload, cookies, TabInv, BTypeOK
<1>2. CASE LoggedOut
  <2>1. Load("login", cookie') /\ cookie' = Nobody /\ alive' = FALSE /\ elsewhere' = elsewhere
    BY <1>2 DEF LoggedOut
  <2> QED BY <2>1, LoadKeeps DEF Somebody, TabInv, BTypeOK
<1>3. CASE LogoutFailed
  <2>1. Load("login", cookie') /\ cookie' = cookie /\ alive' \in BOOLEAN /\ elsewhere' = elsewhere
    BY <1>3 DEF LogoutFailed, TabInv, BTypeOK
  <2> QED BY <2>1, LoadKeeps DEF TabInv, BTypeOK
<1>4. CASE Visit
  <2>1. PICK page \in Protected \ {screen} : screen' = proxy(page, cookie)
    BY <1>4 DEF Visit
  <2>2. /\ screen' \in Protected \cup {"login"} /\ (screen' = "login" <=> cookie = Nobody)
        /\ field' \in {user, Nobody} /\ (field' # Nobody => screen' = "profile")
        /\ patch'.from = patch.from /\ patch'.as = patch.as /\ patch'.phase = patch.phase
        /\ patch' \in [phase : {"idle", "sent", "refreshing"}, from : Somebody, as : Somebody,
                       own : BOOLEAN]
    BY <1>4, <2>1 DEF Visit, proxy, Protected, TabInv, BTypeOK
  <2>3. signing = Idle
    BY <1>4 DEF Visit, TabInv, SignsInSignedOut, Protected
  <2>4. UNCHANGED <<cookie, alive, user, me, signing, leaving, crossed, elsewhere>> /\ spin' = FALSE
    BY <1>4 DEF Visit, cookies, requests
  <2>5. BTypeOK'
    BY <2>2, <2>4 DEF TabInv, BTypeOK, Somebody
  <2>6. UserIsCookies' /\ SavesOwnNames' /\ AskedAsCookie'
    BY <2>2, <2>4 DEF TabInv, UserIsCookies, SavesOwnNames, AskedAsCookie
  <2>7. LoginForSignedOut' /\ FilledAsCookie' /\ SignsInSignedOut'
    BY <2>2, <2>3, <2>4 DEF TabInv, UserIsCookies, LoginForSignedOut, FilledAsCookie, SignsInSignedOut
  <2> QED BY <2>5, <2>6, <2>7 DEF TabInv
<1>5. CASE LoggedIn
  BY <1>5 DEF LoggedIn, proxy, profile, TabInv, BTypeOK, UserIsCookies, SavesOwnNames,
     LoginForSignedOut, AskedAsCookie, FilledAsCookie, SignsInSignedOut, Somebody, Protected
<1>6. CASE login \/ LoginFailed \/ logout
  BY <1>6 DEF login, LoginFailed, logout, cookies, profile, TabInv, BTypeOK, UserIsCookies,
     SavesOwnNames, LoginForSignedOut, AskedAsCookie, FilledAsCookie, SignsInSignedOut, Somebody
<1>7. CASE handleProfileSave
  BY <1>7 DEF handleProfileSave, cookies, requests, TabInv, BTypeOK, UserIsCookies,
     SavesOwnNames, LoginForSignedOut, AskedAsCookie, FilledAsCookie, SignsInSignedOut, Somebody
<1>8. CASE Saved
  <2>1. /\ patch' \in [phase : {"idle", "sent", "refreshing"}, from : Somebody, as : Somebody,
                       own : BOOLEAN]
        /\ patch.phase # "idle" /\ patch'.from = patch.from /\ patch'.as = patch.as
    BY <1>8 DEF Saved, TabInv, BTypeOK, NoPatch
  <2> QED
    BY <1>8, <2>1 DEF Saved, cookies, TabInv, BTypeOK, UserIsCookies, SavesOwnNames,
       LoginForSignedOut, AskedAsCookie, FilledAsCookie, SignsInSignedOut, Loads
<1>9. CASE SaveFailed
  BY <1>9 DEF SaveFailed, cookies, requests, TabInv, BTypeOK, UserIsCookies, SavesOwnNames,
     LoginForSignedOut, AskedAsCookie, FilledAsCookie, SignsInSignedOut, NoPatch, Somebody
<1>10. ASSUME NEW l \in Loads, refreshUser(l)
       PROVE  TabInv'
  <2>1. patch' \in {patch, NoPatch} /\ spin' \in BOOLEAN
    BY <1>10 DEF refreshUser, TabInv, BTypeOK
  <2>2. /\ me' \in [Loads -> Somebody \cup {Idle}]
        /\ \A k \in Loads : me'[k] \in {me[k], Idle}
    BY <1>10 DEF refreshUser, TabInv, BTypeOK
  <2>3. UNCHANGED <<cookie, alive, screen, signing, leaving, field, crossed, elsewhere>>
    BY <1>10 DEF refreshUser, cookies
  <2>4. user' \in Somebody /\ user' \in {me[l], Nobody} /\ me[l] # Idle
    BY <1>10 DEF refreshUser, TabInv, BTypeOK, Somebody
  <2>5. BTypeOK'
    BY <2>1, <2>2, <2>3, <2>4, Unpatched DEF TabInv, BTypeOK
  <2>6. UserIsCookies' /\ SavesOwnNames'
    BY <2>1, <2>3, <2>4 DEF NoPatch, TabInv, UserIsCookies, SavesOwnNames, AskedAsCookie
  <2> QED
    BY <2>2, <2>3, <2>5, <2>6 DEF TabInv, LoginForSignedOut, AskedAsCookie, FilledAsCookie,
       SignsInSignedOut
<1>11. CASE Expire
  BY <1>11 DEF Expire, requests, profile, TabInv, BTypeOK, UserIsCookies, SavesOwnNames,
     LoginForSignedOut, AskedAsCookie, FilledAsCookie, SignsInSignedOut, Somebody
<1>12. CASE Revoke \/ OtherTab
  <2>1. elsewhere' \in 0..MaxElsewhere /\ alive' \in BOOLEAN
    <3>1. /\ elsewhere \in 0..MaxElsewhere /\ elsewhere < MaxElsewhere
          /\ elsewhere' = elsewhere + 1
      BY <1>12 DEF Revoke, OtherTab, TabInv, BTypeOK
    <3>2. alive' \in BOOLEAN
      BY <1>12 DEF Revoke, OtherTab
    <3> QED BY <3>1, <3>2
  <2>2. /\ UNCHANGED <<screen, user, me, signing, leaving, field, patch, spin>>
        /\ cookie' \in Somebody
        /\ (cookie' = cookie /\ crossed' = crossed) \/ crossed' = TRUE
    BY <1>12 DEF Revoke, OtherTab, requests, profile, TabInv, BTypeOK
  <2>3. BTypeOK'
    BY <2>1, <2>2 DEF TabInv, BTypeOK
  <2> QED
    BY <2>2, <2>3 DEF TabInv, UserIsCookies, SavesOwnNames, LoginForSignedOut, AskedAsCookie,
       FilledAsCookie, SignsInSignedOut
<1> QED BY <1>1, <1>2, <1>3, <1>4, <1>5, <1>6, <1>7, <1>8, <1>9, <1>10, <1>11, <1>12
-----------------------------------------------------------------------------
\* The page

OnlyHeadRuns == \A k \in DOMAIN queue : k # 1 => queue[k].phase = "queued"
OneOfAKind == \A k, n \in DOMAIN queue : queue[k].what = queue[n].what => k = n
SpinnersTell ==
  /\ \A k \in DOMAIN queue : queue[k].what = "save" => saving
  /\ \A k \in DOMAIN queue : queue[k].what = "delete" => deleting

\* What the head has done is known to be about an item, and rendered with it, if
\* with any.
HeadDone ==
  queue # <<>> =>
    /\ queue[1].phase \in {"handled", "rendered"} => queue[1].item \in Items
    /\ queue[1].phase = "rendered" /\ queue[1].snap # None =>
         \A i \in Items : queue[1].snap[i] # db[i] => i \in queue[1].since

PageInv ==
  /\ ATypeOK /\ OnlyHeadRuns /\ OneOfAKind /\ SpinnersTell /\ HeadDone
  /\ AnswersOwn /\ ListIsTrue

LEMMA QueueTail ==
  ASSUME NEW S, NEW q \in Seq(S), q # <<>>
  PROVE  /\ Tail(q) \in Seq(S) /\ 1 \in DOMAIN q
         /\ \A k \in DOMAIN Tail(q) : k + 1 \in DOMAIN q /\ Tail(q)[k] = q[k + 1] /\ k \in Nat \ {0}
BY HeadTailProperties

LEMMA QueueAppend ==
  ASSUME NEW S, NEW q \in Seq(S), NEW c \in S
  PROVE  /\ Append(q, c) \in Seq(S)
         /\ DOMAIN Append(q, c) = DOMAIN q \cup {Len(q) + 1} /\ Len(q) + 1 \notin DOMAIN q
         /\ \A k \in DOMAIN q : Append(q, c)[k] = q[k]
         /\ Append(q, c)[Len(q) + 1] = c
         /\ q = <<>> => Len(q) + 1 = 1
         /\ q # <<>> => 1 \in DOMAIN q
BY AppendProperties

LEMMA QueueHead ==
  ASSUME NEW S, NEW q \in Seq(S), q # <<>>, NEW c \in S
  PROVE  /\ [q EXCEPT ![1] = c] \in Seq(S) /\ [q EXCEPT ![1] = c] # <<>>
         /\ DOMAIN [q EXCEPT ![1] = c] = DOMAIN q /\ 1 \in DOMAIN q
         /\ [q EXCEPT ![1] = c][1] = c
         /\ \A k \in DOMAIN q \ {1} : [q EXCEPT ![1] = c][k] = q[k]
BY EmptySeq, ExceptSeq

LEMMA PageStarts ==
  ASSUME NEW pages \in SUBSET Lists, NEW contents \in SUBSET Contents, NEW error \in BOOLEAN,
         Mount(pages, contents, error)
  PROVE  PageInv'
<1>1. queue' = <<>> /\ DOMAIN queue' = {} /\ queue' \in Seq(CallRecords)
  BY EmptySeq DEF Mount
<1>2. form' \in Forms /\ dialog' \in [item : Items \cup {None}, clean : BOOLEAN]
  BY DEF Mount, NoForm, NoDialog, Forms
<1>3. ATypeOK'
  <2>1. list' \in Lists /\ db' \in Contents /\ rows' \in Contents /\ unseen' \subseteq Items
    BY DEF Mount, NoRows, Contents
  <2>2. others' \in 0..MaxOthers
    BY ConsoleAssumption DEF Mount
  <2>3. {fetchError', saving', deleting', deleteError', lost'} \subseteq BOOLEAN
    BY DEF Mount
  <2> QED BY <1>1, <1>2, <2>1, <2>2, <2>3 DEF ATypeOK
<1>4. AnswersOwn'
  BY <1>1 DEF AnswersOwn, Calls
<1> QED
  BY <1>1, <1>3, <1>4 DEF Mount, NoRows, PageInv, OnlyHeadRuns, OneOfAKind, SpinnersTell, HeadDone,
     ListIsTrue

\* Handlers that send nothing.
LEMMA FormsStep ==
  ASSUME PageInv, OpenEdit \/ OpenCreate \/ SetField \/ OpenDelete \/ CloseDialog
  PROVE  PageInv'
<1> USE ConsoleAssumption
<1>1. UNCHANGED <<list, db, rows, fetchError, saving, deleting, queue, others, unseen, lost>>
  BY DEF OpenEdit, OpenCreate, SetField, OpenDelete, CloseDialog, listing, closing
<1>2. form' \in Forms /\ (form'.open /\ form'.clean => ~saving \/ (form.open /\ form.clean))
  <2>1. ASSUME NEW i \in Items \cup {None}, NEW v \in Values \cup {Absent}
        PROVE  /\ Sheet(i, v) \in Forms /\ (Sheet(i, v).clean => ~saving)
    BY DEF Sheet, Forms, PageInv, ATypeOK
  <2>2. CASE OpenEdit
    <3>1. PICK i \in Items : form' = Sheet(i, rows[i])
      BY <2>2 DEF OpenEdit
    <3>2. rows[i] \in Values \cup {Absent}
      BY DEF PageInv, ATypeOK, Contents
    <3> QED BY <2>1, <3>1, <3>2
  <2>5. CASE OpenCreate
    BY <2>1, <2>5 DEF OpenCreate
  <2>3. CASE SetField
    BY <2>3 DEF SetField, PageInv, ATypeOK, Forms
  <2>4. CASE OpenDelete \/ CloseDialog
    BY <2>4 DEF OpenDelete, CloseDialog, PageInv, ATypeOK
  <2> QED BY <2>2, <2>3, <2>4, <2>5
<1>3. /\ dialog' \in [item : Items \cup {None}, clean : BOOLEAN] /\ deleteError' \in BOOLEAN
      /\ dialog'.item # None /\ dialog'.clean => ~deleting \/ (dialog.item # None /\ dialog.clean)
  <2>1. CASE OpenEdit \/ OpenCreate \/ SetField
    BY <2>1 DEF OpenEdit, OpenCreate, SetField, closing, PageInv, ATypeOK
  <2>2. CASE OpenDelete
    <3>1. PICK i \in Items : dialog' = [item |-> i, clean |-> ~deleting]
      BY <2>2 DEF OpenDelete
    <3>2. deleteError' \in BOOLEAN
      BY <2>2 DEF OpenDelete, closing, PageInv, ATypeOK
    <3>3. dialog'.clean => ~deleting
      BY <3>1
    <3>4. dialog' \in [item : Items \cup {None}, clean : BOOLEAN]
      BY <3>1
    <3> QED BY <3>2, <3>3, <3>4
  <2>3. CASE CloseDialog
    BY <2>3 DEF CloseDialog, NoDialog
  <2> QED BY <2>1, <2>2, <2>3
<1>4. ATypeOK'
  BY <1>1, <1>2, <1>3 DEF PageInv, ATypeOK
<1>5. AnswersOwn'
  BY <1>1, <1>2, <1>3 DEF PageInv, AnswersOwn, Calls, SpinnersTell
<1> QED
  BY <1>1, <1>4, <1>5 DEF PageInv, OnlyHeadRuns, OneOfAKind, SpinnersTell, HeadDone, ListIsTrue

\* A handler that sends a server action when none of its kind is in the queue.
LEMMA SendStep ==
  ASSUME PageInv, HandleSave \/ HandleDelete
  PROVE  PageInv'
<1> USE ConsoleAssumption
<1>1. PICK c \in CallRecords :
        /\ queue' = Append(queue, c) /\ c.phase = "queued"
        /\ \/ c.what = "save" /\ c.own /\ ~saving /\ saving' /\ deleting' = deleting
           \/ c.what = "delete" /\ ~deleting /\ deleting' /\ saving' = saving
  <2>1. ASSUME NEW i \in Items \cup {None}, NEW v \in Values \cup {Absent}, NEW what \in {"save", "delete"}
        PROVE  /\ CallOf(what, i, v) \in CallRecords /\ CallOf(what, i, v).phase = "queued"
               /\ CallOf(what, i, v).what = what /\ (what = "save" => CallOf(what, i, v).own)
    BY DEF CallOf, CallRecords
  <2>2. CASE HandleSave
    <3>1. form.item \in Items \cup {None} /\ form.value \in Values \cup {Absent}
      BY DEF PageInv, ATypeOK, Forms
    <3> QED BY <2>1, <2>2, <3>1 DEF HandleSave, closing
  <2>3. CASE HandleDelete
    <3>1. dialog.item \in Items \cup {None}
      BY DEF PageInv, ATypeOK
    <3> QED BY <2>1, <2>3, <3>1 DEF HandleDelete
  <2> QED BY <2>2, <2>3
<1>2. UNCHANGED <<list, db, rows, fetchError, others, unseen, lost>>
  BY DEF HandleSave, HandleDelete, listing
<1>3. /\ form' \in Forms /\ form'.open = form.open /\ form'.clean = form.clean
      /\ dialog' \in [item : Items \cup {None}, clean : BOOLEAN]
      /\ deleteError' \in BOOLEAN /\ saving' \in BOOLEAN /\ deleting' \in BOOLEAN
      /\ c.what = "delete" => dialog'.item = None
      /\ dialog' = dialog \/ dialog'.item = None
  <2>1. CASE HandleSave
    BY <1>1, <2>1 DEF HandleSave, closing, PageInv, ATypeOK, Forms
  <2>2. CASE HandleDelete
    BY <1>1, <2>2 DEF HandleDelete, NoDialog, PageInv, ATypeOK
  <2> QED BY <2>1, <2>2
<1>4. queue \in Seq(CallRecords)
  BY DEF PageInv, ATypeOK
<1>5. /\ queue' \in Seq(CallRecords)
      /\ DOMAIN queue' = DOMAIN queue \cup {Len(queue) + 1} /\ Len(queue) + 1 \notin DOMAIN queue
      /\ \A k \in DOMAIN queue : queue'[k] = queue[k]
      /\ queue'[Len(queue) + 1] = c
      /\ queue = <<>> => Len(queue) + 1 = 1
      /\ queue # <<>> => 1 \in DOMAIN queue
  BY <1>1, <1>4, QueueAppend
<1>6. ATypeOK'
  BY <1>1, <1>2, <1>3, <1>5 DEF PageInv, ATypeOK
<1>7. OnlyHeadRuns' /\ SpinnersTell'
  BY <1>1, <1>5 DEF PageInv, OnlyHeadRuns, SpinnersTell
<1>8. OneOfAKind'
  BY <1>1, <1>5 DEF PageInv, OneOfAKind, SpinnersTell
<1>9. HeadDone' /\ ListIsTrue'
  BY <1>1, <1>2, <1>5 DEF PageInv, HeadDone, ListIsTrue
<1>10. AnswersOwn'
  BY <1>1, <1>3, <1>5 DEF PageInv, AnswersOwn, Calls
<1> QED BY <1>6, <1>7, <1>8, <1>9, <1>10 DEF PageInv

\* The sheet is closed; its save, if any, goes on without it.
LEMMA CloseStep ==
  ASSUME PageInv, CloseSheet
  PROVE  PageInv'
<1> USE ConsoleAssumption
<1>1. /\ UNCHANGED <<list, db, rows, fetchError, saving, dialog, deleting, deleteError, others, unseen, lost>>
      /\ form' \in Forms /\ ~form'.open /\ queue' = Disown(queue)
  BY DEF CloseSheet, listing, closing, NoForm, Forms
<1>2. /\ queue' \in Seq(CallRecords) /\ DOMAIN queue' = DOMAIN queue
      /\ queue' = <<>> <=> queue = <<>>
      /\ \A k \in DOMAIN queue : queue'[k] = [queue[k] EXCEPT !.own = FALSE]
  <2>1. queue \in Seq(CallRecords) /\ DOMAIN queue = 1..Len(queue) /\ Len(queue) \in Nat
    BY LenProperties DEF PageInv, ATypeOK
  <2>2. \A k \in DOMAIN queue : [queue[k] EXCEPT !.own = FALSE] \in CallRecords
    <3>1. \A k \in DOMAIN queue : queue[k] \in CallRecords
      BY <2>1
    <3> QED BY <3>1 DEF CallRecords
  <2>3. /\ DOMAIN queue' = 1..Len(queue)
        /\ \A k \in DOMAIN queue : queue'[k] = [queue[k] EXCEPT !.own = FALSE]
    BY <1>1, <2>1 DEF Disown
  <2>4. queue' \in [1..Len(queue) -> CallRecords]
    BY <1>1, <2>1, <2>2 DEF Disown
  <2>5. queue' \in Seq(CallRecords) /\ Len(queue') = Len(queue)
    BY <2>1, <2>4, LenProperties
  <2> QED BY <2>1, <2>3, <2>5, EmptySeq
<1>3. \A k \in DOMAIN queue :
        /\ queue'[k].what = queue[k].what /\ queue'[k].phase = queue[k].phase
        /\ queue'[k].item = queue[k].item /\ queue'[k].snap = queue[k].snap
        /\ queue'[k].since = queue[k].since
  <2>1. \A k \in DOMAIN queue : queue[k] \in CallRecords
    BY DEF PageInv, ATypeOK
  <2> QED BY <1>2, <2>1 DEF CallRecords
<1>4. queue # <<>> => 1 \in DOMAIN queue
  BY QueueTail DEF PageInv, ATypeOK
<1>5. ATypeOK'
  BY <1>1, <1>2, <1>3 DEF PageInv, ATypeOK
<1>6. AnswersOwn'
  BY <1>1, <1>2, <1>3 DEF PageInv, AnswersOwn, Calls
<1> QED
  BY <1>1, <1>2, <1>3, <1>4, <1>5, <1>6 DEF PageInv, OnlyHeadRuns, OneOfAKind, SpinnersTell,
     HeadDone, ListIsTrue

\* The action at the head of the queue gets on; nothing the client shows changes.
LEMMA HeadKeeps ==
  ASSUME PageInv, queue # <<>>, NEW c \in CallRecords, queue' = [queue EXCEPT ![1] = c],
         c.what = queue[1].what, c.own = queue[1].own,
         UNCHANGED <<list, rows, fetchError, form, saving, dialog, closing, lost>>,
         db' \in Contents, unseen' \subseteq Items, others' \in 0..MaxOthers
  PROVE  /\ ATypeOK' /\ OnlyHeadRuns' /\ OneOfAKind' /\ SpinnersTell' /\ AnswersOwn'
         /\ queue' # <<>> /\ queue'[1] = c
<1>1. /\ queue' \in Seq(CallRecords) /\ queue' # <<>> /\ DOMAIN queue' = DOMAIN queue
      /\ 1 \in DOMAIN queue /\ queue'[1] = c
      /\ \A k \in DOMAIN queue \ {1} : queue'[k] = queue[k]
  BY QueueHead DEF PageInv, ATypeOK
<1>2. ATypeOK'
  BY <1>1 DEF PageInv, ATypeOK, closing
<1>3. \A k \in DOMAIN queue : queue'[k].what = queue[k].what /\ queue'[k].own = queue[k].own
  BY <1>1
<1>4. OnlyHeadRuns' /\ OneOfAKind' /\ SpinnersTell'
  BY <1>1, <1>3 DEF PageInv, OnlyHeadRuns, OneOfAKind, SpinnersTell, closing
<1>5. AnswersOwn'
  BY <1>1, <1>3 DEF PageInv, AnswersOwn, Calls
<1> QED BY <1>1, <1>2, <1>4, <1>5

LEMMA HeadStep ==
  ASSUME PageInv, Handle \/ Refuse \/ Render \/ RenderEmpty
  PROVE  PageInv'
<1>1. queue # <<>> /\ queue \in Seq(CallRecords) /\ 1 \in DOMAIN queue /\ queue[1] \in CallRecords
  BY QueueTail DEF Handle, Refuse, Render, RenderEmpty, AtHead, PageInv, ATypeOK
<1>2. /\ UNCHANGED <<list, rows, fetchError, form, saving, dialog, closing, unseen, others, lost>>
      /\ unseen' \subseteq Items /\ others' \in 0..MaxOthers
  BY DEF Handle, Refuse, Render, RenderEmpty, listing, PageInv, ATypeOK
<1>3. CASE Handle
  <2>1. PICK i \in Targets(queue[1]) :
          /\ db' = [db EXCEPT ![i] = queue[1].value]
          /\ queue' = [queue EXCEPT ![1].phase = "handled", ![1].item = i]
    BY <1>3 DEF Handle
  <2>2. i \in Items
    BY DEF Targets
  <2> DEFINE c == [queue[1] EXCEPT !.phase = "handled", !.item = i]
  <2>3. c \in CallRecords /\ c.what = queue[1].what /\ c.own = queue[1].own
        /\ c.phase = "handled" /\ c.item = i
    BY <1>1, <2>2 DEF CallRecords
  <2>4. queue' = [queue EXCEPT ![1] = c]
    BY <2>1
  <2>5. /\ db' \in Contents /\ \A j \in Items \ {i} : db'[j] = db[j]
    BY <1>1, <2>1, <2>2 DEF PageInv, ATypeOK, Contents, CallRecords
  <2> HIDE DEF c
  <2>6. /\ ATypeOK' /\ OnlyHeadRuns' /\ OneOfAKind' /\ SpinnersTell' /\ AnswersOwn'
        /\ queue' # <<>> /\ queue'[1] = c
    BY <1>1, <1>2, <2>3, <2>4, <2>5, HeadKeeps
  <2>7. HeadDone'
    BY <2>2, <2>3, <2>6 DEF HeadDone
  <2>8. queue[1].phase = "queued"
    BY <1>3 DEF Handle, AtHead
  <2>9. ListIsTrue'
    BY <1>2, <2>3, <2>5, <2>6, <2>8 DEF PageInv, ListIsTrue
  <2> QED BY <2>6, <2>7, <2>9 DEF PageInv
<1>4. CASE Refuse
  <2> DEFINE c == [queue[1] EXCEPT !.phase = "refused"]
  <2>1. c \in CallRecords /\ c.what = queue[1].what /\ c.own = queue[1].own /\ c.phase = "refused"
    BY <1>1 DEF CallRecords
  <2>2. queue' = [queue EXCEPT ![1] = c] /\ db' = db /\ queue[1].phase = "queued"
    BY <1>4 DEF Refuse, AtHead
  <2>3. db' \in Contents
    BY <2>2 DEF PageInv, ATypeOK
  <2> HIDE DEF c
  <2>4. /\ ATypeOK' /\ OnlyHeadRuns' /\ OneOfAKind' /\ SpinnersTell' /\ AnswersOwn'
        /\ queue' # <<>> /\ queue'[1] = c
    BY <1>1, <1>2, <2>1, <2>2, <2>3, HeadKeeps
  <2>5. HeadDone' /\ ListIsTrue'
    BY <1>2, <2>1, <2>2, <2>4 DEF PageInv, HeadDone, ListIsTrue
  <2> QED BY <2>4, <2>5 DEF PageInv
<1>5. CASE Render \/ RenderEmpty
  <2>1. PICK snap \in {db, None} : queue' = [queue EXCEPT ![1].phase = "rendered", ![1].snap = snap]
    BY <1>5 DEF Render, RenderEmpty
  <2> DEFINE c == [queue[1] EXCEPT !.phase = "rendered", !.snap = snap]
  <2>2. db \in Contents
    BY DEF PageInv, ATypeOK
  <2>3. c \in CallRecords /\ c.what = queue[1].what /\ c.own = queue[1].own
        /\ c.phase = "rendered" /\ c.snap = snap /\ c.item = queue[1].item
    BY <1>1, <2>1, <2>2 DEF CallRecords
  <2>4. queue' = [queue EXCEPT ![1] = c] /\ db' = db /\ queue[1].phase = "handled"
    BY <1>5, <2>1 DEF Render, RenderEmpty, AtHead
  <2> HIDE DEF c
  <2>5. /\ ATypeOK' /\ OnlyHeadRuns' /\ OneOfAKind' /\ SpinnersTell' /\ AnswersOwn'
        /\ queue' # <<>> /\ queue'[1] = c
    BY <1>1, <1>2, <2>2, <2>3, <2>4, HeadKeeps DEF listing
  <2>6. HeadDone' /\ ListIsTrue'
    BY <1>1, <1>2, <2>1, <2>3, <2>4, <2>5 DEF PageInv, HeadDone, ListIsTrue
  <2> QED BY <2>5, <2>6 DEF PageInv
<1> QED BY <1>3, <1>4, <1>5

\* Another administrator's change marks the items that the page does not know of.
LEMMA OtherStep ==
  ASSUME PageInv, OtherAdmin
  PROVE  PageInv'
<1>1. PICK i \in Items, v \in Values \cup {Absent} :
        /\ db' = [db EXCEPT ![i] = v] /\ unseen' = unseen \cup {i}
        /\ queue' = IF AtHead("rendered") THEN [queue EXCEPT ![1].since = @ \cup {i}] ELSE queue
  BY DEF OtherAdmin
<1>2. /\ UNCHANGED <<list, rows, fetchError, form, saving, dialog, closing, lost>>
      /\ unseen' \subseteq Items
      /\ db' \in Contents /\ \A j \in Items \ {i} : db'[j] = db[j]
  BY <1>1 DEF OtherAdmin, listing, PageInv, ATypeOK, Contents
<1>3. others' \in 0..MaxOthers
  <2>1. others \in 0..MaxOthers /\ others < MaxOthers /\ others' = others + 1
    BY DEF OtherAdmin, PageInv, ATypeOK
  <2> QED BY <2>1, ConsoleAssumption
<1>4. CASE AtHead("rendered")
  <2>1. queue # <<>> /\ queue[1].phase = "rendered" /\ queue \in Seq(CallRecords)
        /\ 1 \in DOMAIN queue /\ queue[1] \in CallRecords
    BY <1>4, QueueTail DEF AtHead, PageInv, ATypeOK
  <2> DEFINE c == [queue[1] EXCEPT !.since = @ \cup {i}]
  <2>2. c \in CallRecords /\ c.what = queue[1].what /\ c.own = queue[1].own
        /\ c.phase = "rendered" /\ c.snap = queue[1].snap /\ c.item = queue[1].item
        /\ c.since = queue[1].since \cup {i}
    BY <2>1 DEF CallRecords
  <2>3. queue' = [queue EXCEPT ![1] = c]
    BY <1>1, <1>4
  <2> HIDE DEF c
  <2>4. /\ ATypeOK' /\ OnlyHeadRuns' /\ OneOfAKind' /\ SpinnersTell' /\ AnswersOwn'
        /\ queue' # <<>> /\ queue'[1] = c
    BY <1>2, <1>3, <2>1, <2>2, <2>3, HeadKeeps
  <2>5. HeadDone' /\ ListIsTrue'
    BY <1>1, <1>2, <2>1, <2>2, <2>4 DEF PageInv, HeadDone, ListIsTrue
  <2> QED BY <2>4, <2>5 DEF PageInv
<1>5. CASE ~AtHead("rendered")
  <2>1. queue' = queue /\ (queue # <<>> => queue[1].phase # "rendered")
    BY <1>1, <1>5 DEF AtHead
  <2>2. ATypeOK'
    BY <1>2, <1>3, <2>1 DEF PageInv, ATypeOK, closing
  <2>3. AnswersOwn'
    BY <1>2, <2>1 DEF PageInv, AnswersOwn, Calls
  <2>4. OnlyHeadRuns' /\ OneOfAKind' /\ SpinnersTell'
    BY <1>2, <2>1 DEF PageInv, OnlyHeadRuns, OneOfAKind, SpinnersTell, closing
  <2>5. HeadDone' /\ ListIsTrue'
    BY <1>1, <1>2, <2>1 DEF PageInv, HeadDone, ListIsTrue
  <2> QED BY <2>2, <2>3, <2>4, <2>5 DEF PageInv
<1> QED BY <1>4, <1>5

\* What is left when the head has gone.
LEMMA TailLeft ==
  ASSUME PageInv, queue # <<>>, queue' = Tail(queue)
  PROVE  /\ queue' \in Seq(CallRecords) /\ 1 \in DOMAIN queue /\ queue[1] \in CallRecords
         /\ \A k \in DOMAIN queue' : queue'[k].phase = "queued" /\ queue'[k].what # queue[1].what
         /\ \A k \in DOMAIN queue' : \E n \in DOMAIN queue : queue'[k] = queue[n]
         /\ OnlyHeadRuns' /\ OneOfAKind' /\ HeadDone'
<1>1. /\ queue' \in Seq(CallRecords) /\ 1 \in DOMAIN queue
      /\ \A k \in DOMAIN queue' : k + 1 \in DOMAIN queue /\ queue'[k] = queue[k + 1] /\ k \in Nat \ {0}
  BY QueueTail DEF PageInv, ATypeOK
<1>2. \A k \in DOMAIN queue' : k + 1 # 1
  BY <1>1
<1>3. \A k \in DOMAIN queue' : queue'[k].phase = "queued"
  BY <1>1, <1>2 DEF PageInv, OnlyHeadRuns
<1>4. \A k \in DOMAIN queue' : queue'[k].what # queue[1].what
  BY <1>1, <1>2 DEF PageInv, OneOfAKind
<1>5. OneOfAKind'
  <2> SUFFICES ASSUME NEW k \in DOMAIN queue', NEW n \in DOMAIN queue', queue'[k].what = queue'[n].what
               PROVE  k = n
    BY DEF OneOfAKind
  <2>1. k + 1 = n + 1
    BY <1>1 DEF PageInv, OneOfAKind
  <2> QED BY <1>1, <2>1
<1>6. queue' # <<>> => 1 \in DOMAIN queue'
  BY <1>1, QueueTail
<1>7. HeadDone'
  BY <1>3, <1>6 DEF HeadDone
<1>8. queue[1] \in CallRecords
  BY <1>1 DEF PageInv, ATypeOK
<1> QED BY <1>1, <1>3, <1>4, <1>5, <1>7, <1>8 DEF OnlyHeadRuns

\* An answer brings the list it was rendered with.
LEMMA AnswerTells ==
  ASSUME PageInv, queue # <<>>, queue[1].phase \in {"refused", "rendered"}, Refreshed, db' = db
  PROVE  /\ rows' \in Contents /\ unseen' \subseteq Items /\ fetchError' \in BOOLEAN
         /\ \A i \in Items : rows'[i] # db'[i] => (fetchError' /\ rows'[i] = Absent) \/ i \in unseen'
<1>1. 1 \in DOMAIN queue /\ queue[1] \in CallRecords
  BY QueueTail DEF PageInv, ATypeOK
<1>2. CASE queue[1].phase = "rendered" /\ queue[1].snap # None
  BY <1>1, <1>2 DEF Refreshed, PageInv, ATypeOK, HeadDone, CallRecords
<1>3. CASE queue[1].phase = "rendered" /\ queue[1].snap = None
  <2>1. fetchError' = TRUE /\ rows' = NoRows /\ unseen' = queue[1].since
    BY <1>3 DEF Refreshed
  <2>2. NoRows \in Contents /\ \A i \in Items : NoRows[i] = Absent
    BY DEF NoRows, Contents
  <2>3. queue[1].since \subseteq Items
    BY <1>1 DEF CallRecords
  <2> QED BY <2>1, <2>2, <2>3
<1>4. CASE queue[1].phase = "refused"
  BY <1>4 DEF Refreshed, listing, PageInv, ATypeOK, ListIsTrue
<1> QED BY <1>2, <1>3, <1>4

LEMMA SaveAnsweredStep ==
  ASSUME PageInv, SaveAnswered
  PROVE  PageInv'
<1>1. /\ queue # <<>> /\ queue[1].phase \in {"refused", "rendered"} /\ queue[1].what = "save"
      /\ queue' = Tail(queue) /\ Refreshed /\ saving' = FALSE
      /\ UNCHANGED <<list, db, dialog, deleting, deleteError, others, lost>>
  BY DEF SaveAnswered, AtHead, closing
<1>2. form' \in Forms
  <2>1. NoForm \in Forms /\ [form EXCEPT !.error = TRUE] \in Forms
    BY DEF NoForm, PageInv, ATypeOK, Forms
  <2> QED BY <2>1 DEF SaveAnswered
<1>3. /\ rows' \in Contents /\ unseen' \subseteq Items /\ fetchError' \in BOOLEAN /\ ListIsTrue'
  BY <1>1, AnswerTells DEF ListIsTrue
<1>4. ATypeOK'
  BY <1>1, <1>2, <1>3, TailLeft DEF PageInv, ATypeOK
<1>5. SpinnersTell' /\ AnswersOwn'
  BY <1>1, TailLeft DEF PageInv, SpinnersTell, AnswersOwn, Calls
<1> QED BY <1>1, <1>3, <1>4, <1>5, TailLeft DEF PageInv

LEMMA DeleteAnsweredStep ==
  ASSUME PageInv, DeleteAnswered
  PROVE  PageInv'
<1>1. /\ queue # <<>> /\ queue[1].phase \in {"refused", "rendered"} /\ queue[1].what = "delete"
      /\ queue' = Tail(queue) /\ Refreshed /\ deleting' = FALSE
      /\ UNCHANGED <<list, db, form, saving, others, lost>>
  BY DEF DeleteAnswered, AtHead
<1>2. /\ dialog' \in [item : Items \cup {None}, clean : BOOLEAN] /\ deleteError' \in BOOLEAN
  <2>1. NoDialog \in [item : Items \cup {None}, clean : BOOLEAN]
    BY DEF NoDialog
  <2>2. deleteError' \in BOOLEAN
    BY DEF DeleteAnswered
  <2> QED BY <2>1, <2>2 DEF DeleteAnswered, PageInv, ATypeOK
<1>3. /\ rows' \in Contents /\ unseen' \subseteq Items /\ fetchError' \in BOOLEAN /\ ListIsTrue'
  BY <1>1, AnswerTells DEF ListIsTrue
<1>4. ATypeOK'
  BY <1>1, <1>2, <1>3, TailLeft DEF PageInv, ATypeOK
<1>5. \A k \in DOMAIN queue' : queue'[k].what = "save"
  <2>1. \A k \in DOMAIN queue' : queue'[k] \in CallRecords
    BY <1>1, TailLeft
  <2> QED BY <1>1, <2>1, TailLeft DEF CallRecords
<1>6. SpinnersTell'
  BY <1>1, <1>5, TailLeft DEF PageInv, SpinnersTell
<1>7. AnswersOwn'
  <2>1. form'.open /\ form'.clean => \A k \in DOMAIN queue' : queue'[k].own
    BY <1>1, <1>5, TailLeft DEF PageInv, AnswersOwn, Calls
  <2> QED BY <1>5, <2>1 DEF AnswersOwn, Calls
<1> QED BY <1>1, <1>3, <1>4, <1>6, <1>7, TailLeft DEF PageInv

\* The call rejects: what it did at the backend stays unseen.
LEMMA RejectStep ==
  ASSUME PageInv, Reject
  PROVE  PageInv'
<1>1. /\ queue # <<>> /\ queue' = Tail(queue) /\ lost' = TRUE
      /\ unseen' = unseen \cup (IF queue[1].phase \in {"handled", "rendered"}
                                THEN {queue[1].item} ELSE {})
      /\ UNCHANGED <<list, db, rows, fetchError, form, saving, dialog, deleting, deleteError, others>>
  BY DEF Reject, listing, closing
<1>2. ATypeOK'
  BY <1>1, TailLeft DEF PageInv, ATypeOK, HeadDone
<1>3. ListIsTrue'
  BY <1>1 DEF PageInv, ListIsTrue
<1>4. SpinnersTell'
  BY <1>1, TailLeft DEF PageInv, SpinnersTell
<1>5. AnswersOwn'
  BY <1>1, TailLeft DEF PageInv, AnswersOwn, Calls
<1> QED BY <1>1, <1>2, <1>3, <1>4, <1>5, TailLeft DEF PageInv
-----------------------------------------------------------------------------
\* Both

DashboardInv == TabInv /\ PageInv /\ failed \in BOOLEAN

LEMMA DashboardStarts == DInit => DashboardInv
<1> SUFFICES ASSUME DInit PROVE DashboardInv
  OBVIOUS
<1>1. TabInv
  BY TabStarts DEF DInit
<1>2. failed \in BOOLEAN
  BY DEF DInit
<1>3. queue = <<>> /\ DOMAIN queue = {} /\ queue \in Seq(CallRecords)
  BY EmptySeq DEF DInit, AInit
<1>4. form \in Forms /\ dialog \in [item : Items \cup {None}, clean : BOOLEAN]
  BY DEF DInit, AInit, NoForm, NoDialog, Forms
<1>5. others \in 0..MaxOthers
  BY ConsoleAssumption DEF DInit, AInit
<1>6. {fetchError, saving, deleting, deleteError, lost} \subseteq BOOLEAN /\ rows \in Contents
  BY DEF DInit, AInit, NoRows, Contents
<1>7. ATypeOK
  BY <1>3, <1>4, <1>5, <1>6 DEF DInit, AInit, ATypeOK
<1>8. AnswersOwn
  BY <1>3 DEF AnswersOwn, Calls
<1>9. PageInv
  BY <1>3, <1>7, <1>8 DEF DInit, AInit, NoRows, PageInv, OnlyHeadRuns, OneOfAKind, SpinnersTell,
     HeadDone, ListIsTrue
<1> QED BY <1>1, <1>2, <1>9 DEF DashboardInv

LEMMA DashboardStep == DashboardInv /\ [DNext]_dvars => DashboardInv'
<1> SUFFICES ASSUME DashboardInv, [DNext]_dvars
             PROVE  DashboardInv'
  OBVIOUS
<1> USE DEF DashboardInv
<1>0. /\ Contents \in SUBSET Contents /\ {NoRows} \in SUBSET Contents
      /\ {Lists, Lists \cap {"permissions"}, {Away}} \subseteq SUBSET Lists
  BY DashboardAssumption DEF NoRows, Contents
<1>1. CASE Arrive
  <2>1. TabInv'
    BY <1>1, TabStep DEF Arrive
  <2>2. PageInv'
    <3>1. \/ Mount(Lists, Contents, FALSE) \/ Mount(Lists \cap {"permissions"}, Contents, TRUE)
          \/ Mount({Away}, {NoRows}, FALSE)
      BY <1>1 DEF Arrive
    <3> QED BY <1>0, <3>1, PageStarts
  <2> QED BY <1>1, <2>1, <2>2 DEF Arrive
<1>2. CASE Stay
  <2>1. TabInv'
    BY <1>2, TabStep DEF Stay
  <2>2. PageInv'
    BY <1>2 DEF Stay, avars, PageInv, ATypeOK, OnlyHeadRuns, OneOfAKind, SpinnersTell, HeadDone,
       AnswersOwn, ListIsTrue, Calls
  <2> QED BY <1>2, <2>1, <2>2 DEF Stay
<1>3. ASSUME UNCHANGED bvars PROVE TabInv'
  BY <1>3 DEF bvars, TabInv, BTypeOK, UserIsCookies, SavesOwnNames, LoginForSignedOut, AskedAsCookie,
     FilledAsCookie, SignsInSignedOut
<1>4. CASE Used
  <2>1. PageInv'
    BY <1>4, FormsStep, SendStep, CloseStep, RejectStep, OtherStep DEF Used, Operate
  <2> QED BY <1>3, <1>4, <2>1 DEF Used
<1>5. CASE ServedOnPage
  <2>1. PageInv'
    BY <1>5, HeadStep, SaveAnsweredStep, DeleteAnsweredStep DEF ServedOnPage, Deliver
  <2> QED BY <1>3, <1>5, <2>1 DEF ServedOnPage
<1>6. CASE RenderFails
  <2>1. PageInv'
    BY <1>0, <1>6, PageStarts DEF RenderFails
  <2> QED BY <1>3, <1>6, <2>1 DEF RenderFails
<1>7. CASE UNCHANGED dvars
  <2>1. PageInv'
    BY <1>7 DEF dvars, avars, PageInv, ATypeOK, OnlyHeadRuns, OneOfAKind, SpinnersTell, HeadDone,
       AnswersOwn, ListIsTrue, Calls
  <2> QED BY <1>3, <1>7, <2>1 DEF dvars
<1> QED BY <1>1, <1>2, <1>4, <1>5, <1>6, <1>7 DEF DNext

LEMMA DashboardKept == DSpec => []DashboardInv
BY DashboardStarts, DashboardStep, PTL DEF DSpec

\* The tab and the page keep their types, whatever is answered late.
THEOREM DashboardTypes == DSpec => []DTypeOK
<1>1. DashboardInv => DTypeOK
  BY DEF DashboardInv, TabInv, PageInv, DTypeOK
<1> QED BY <1>1, DashboardKept, PTL

\* A sheet or a dialog that opened with nothing under way is reached by its own
\* answer alone, and no handler runs twice at once.
THEOREM CallsStayApart == DSpec => []CallsApart
<1>1. PageInv => CallsApart
  <2> SUFFICES ASSUME PageInv PROVE OneOfEach
    BY DEF PageInv, CallsApart
  <2>1. ASSUME NEW what, NEW S, S = Calls(what) PROVE Cardinality(S) <= 1
    <3>1. CASE S = {}
      BY <3>1, FS_EmptySet
    <3>2. CASE S # {}
      <4>1. PICK k \in S : S = {k}
        BY <2>1, <3>2 DEF PageInv, OneOfAKind, Calls
      <4> QED BY <4>1, FS_Singleton
    <3> QED BY <3>1, <3>2
  <2> QED BY <2>1 DEF OneOfEach
<1> QED BY <1>1, DashboardKept, PTL DEF DashboardInv

\* The list shows what the backend has, but for what is on its way or unseen, or
\* says that it could not be fetched.
THEOREM ListStaysTrue == DSpec => []ListIsTrue
<1>1. DashboardInv => ListIsTrue
  BY DEF DashboardInv, PageInv
<1> QED BY <1>1, DashboardKept, PTL

\* The user shown is the cookie's, until the cookie is changed from outside.
THEOREM UserStaysCookies == DSpec => []UserIsCookies
<1>1. DashboardInv => UserIsCookies
  BY DEF DashboardInv, TabInv
<1> QED BY <1>1, DashboardKept, PTL

\* No profile save writes the names of one account into another.
THEOREM NamesStayOwn == DSpec => []SavesOwnNames
<1>1. DashboardInv => SavesOwnNames
  BY DEF DashboardInv, TabInv
<1> QED BY <1>1, DashboardKept, PTL

\* A tab stays on the sign-in page only without a cookie.
THEOREM LoginStaysForSignedOut == DSpec => []LoginForSignedOut
<1>1. DashboardInv => LoginForSignedOut
  BY DEF DashboardInv, TabInv
<1> QED BY <1>1, DashboardKept, PTL
=============================================================================
