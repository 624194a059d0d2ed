---------------------------- MODULE BrowserSession ----------------------------
(***************************************************************************)
(* Who is signed in, as one browser tab has it: the cookies the backend    *)
(* sets (cookies.py), the redirects of proxy.ts, the user of AuthProvider  *)
(* (auth-context.tsx) and the pages that sign in, sign out and save the    *)
(* profile.  The tab keeps its JavaScript state from page to page; a full  *)
(* load discards it, with the requests it waits for.  A request carries    *)
(* the cookie the browser has when it is sent.                             *)
(*                                                                         *)
(* Nothing in the frontend calls /auth/refresh: when the access cookie's   *)
(* thirty minutes are over the browser drops it, and that is all.          *)
(***************************************************************************)
EXTENDS Naturals

CONSTANTS
  Accounts,     \* who signs in with this browser
  Nobody,
  Idle,         \* no request under way
  MaxElsewhere  \* bound: what another tab or another device does

ASSUME SessionAssumption ==
  Nobody \notin Accounts /\ Idle \notin Accounts \cup {Nobody} /\ MaxElsewhere \in Nat

Protected == {"home", "profile", "console"}   \* pages under /dashboard
Loads == {"mount", "save"}  \* refreshUser: from AuthProvider's effect, after a profile save

VARIABLES
  cookie,     \* whose access token the browser holds
  alive,      \* the session behind it has not been revoked
  screen,
  user,       \* `user` of AuthProvider
  me,         \* the getMe requests under way: as whom each was sent
  signing,    \* the account of the sign-in under way
  leaving,    \* as whom the sign-out under way was sent
  field,      \* whose names the fields of the profile page were filled with
  patch,      \* the profile save under way
  spin,       \* profileSaving
  crossed,    \* history: the cookie changed under this tab since it was loaded
  elsewhere   \* how much was done elsewhere

bvars == <<cookie, alive, screen, user, me, signing, leaving, field, patch, spin,
           crossed, elsewhere>>
cookies == <<cookie, alive>>
requests == <<me, signing, leaving>>
profile == <<field, patch, spin>>

Somebody == Accounts \cup {Nobody}

\* own (history): the page the save was sent from is still mounted.
NoPatch == [phase |-> "idle", from |-> Nobody, as |-> Nobody, own |-> FALSE]

\* Who is signed in, asked for and shown.
BTypeOK ==
  /\ {cookie, user, field} \subseteq Somebody
  /\ screen \in Protected \cup {"login"}
  /\ me \in [Loads -> Somebody \cup {Idle}] /\ leaving \in Somebody \cup {Idle}
  /\ signing \in Accounts \cup {Idle}
  /\ patch \in [phase : {"idle", "sent", "refreshing"}, from : Somebody, as : Somebody,
                own : BOOLEAN]
  /\ {alive, spin, crossed} \subseteq BOOLEAN
  /\ elsewhere \in 0..MaxElsewhere

-----------------------------------------------------------------------------
\* Mutant: sign-in pages are shown to everybody.
proxyProtectedOnly(page, held) ==
  IF page # "login" /\ held = Nobody THEN "login" ELSE page

\* Where a browser that holds the cookie `held` gets to when it asks for a page.
proxy(page, held) ==
  IF page = "login" THEN IF held = Nobody THEN "login" ELSE "home"
  ELSE IF held = Nobody THEN "login" ELSE page

\* A full load: the state of the tab starts anew, the effect of AuthProvider
\* asks who is signed in, and a profile page is filled before the answer.
Load(page, held) ==
  /\ screen' = proxy(page, held)
  /\ user' = Nobody
  /\ me' = [l \in Loads |-> IF l = "mount" THEN held ELSE Idle]
  /\ signing' = Idle /\ leaving' = Idle
  /\ field' = Nobody /\ patch' = NoPatch /\ spin' = FALSE
  /\ crossed' = FALSE

BInit ==
  /\ cookie \in Somebody /\ alive = (cookie # Nobody)
  /\ \E page \in Protected : screen = proxy(page, cookie)
  /\ user = Nobody
  /\ me = [l \in Loads |-> IF l = "mount" THEN cookie ELSE Idle]
  /\ signing = Idle /\ leaving = Idle
  /\ field = Nobody /\ patch = NoPatch /\ spin = FALSE
  /\ crossed = FALSE /\ elsewhere = 0

Reload ==
  /\ \E page \in Protected \cup {"login"} : Load(page, cookie)
  /\ UNCHANGED <<cookies, elsewhere>>

\* Mutant: the fields of the profile page outlive it.
VisitKeepingFields ==
  /\ screen \in Protected
  /\ \E page \in Protected \ {screen} : screen' = proxy(page, cookie)
  /\ field' = IF field = Nobody THEN user ELSE field
  /\ spin' = FALSE /\ patch' = [patch EXCEPT !.own = FALSE]
  /\ UNCHANGED <<cookies, user, requests, crossed, elsewhere>>

\* A link of the sidebar: the tab's state stays, the page's does not.
Visit ==
  /\ screen \in Protected
  /\ \E page \in Protected \ {screen} : screen' = proxy(page, cookie)
  /\ field' = IF screen' = "profile" THEN user ELSE Nobody
  /\ spin' = FALSE /\ patch' = [patch EXCEPT !.own = FALSE]
  /\ UNCHANGED <<cookies, user, requests, crossed, elsewhere>>
-----------------------------------------------------------------------------
\* LoginForm (and SignupForm, for an account of one's own).
login ==
  /\ screen = "login" /\ signing = Idle
  /\ signing' \in Accounts
  /\ UNCHANGED <<cookies, screen, user, me, leaving, profile, crossed, elsewhere>>

\* The answer sets the cookies; setUser and router.push follow.
LoggedIn ==
  /\ signing # Idle
  /\ cookie' = signing /\ alive' = TRUE
  /\ user' = signing /\ signing' = Idle
  /\ screen' = proxy("home", signing)
  /\ UNCHANGED <<me, leaving, profile, crossed, elsewhere>>

LoginFailed ==
  /\ signing # Idle /\ signing' = Idle
  /\ UNCHANGED <<cookies, screen, user, me, leaving, profile, crossed, elsewhere>>

\* The answer to getMe; a request that fails counts as nobody.
refreshUser(l) ==
  /\ me[l] # Idle
  /\ user' \in {me[l], Nobody}
  /\ me' = [me EXCEPT ![l] = Idle]
  /\ IF l = "save" THEN patch' = NoPatch /\ spin' = (spin /\ ~patch.own)
     ELSE UNCHANGED <<patch, spin>>
  /\ UNCHANGED <<cookies, screen, signing, leaving, field, crossed, elsewhere>>

logout ==
  /\ screen \in Protected /\ leaving = Idle
  /\ leaving' = cookie
  /\ UNCHANGED <<cookies, screen, user, me, signing, profile, crossed, elsewhere>>

\* Mutant: router.push("/login") instead of a full load.
LoggedOutSoftly ==
  /\ leaving \in Accounts /\ (leaving = cookie => alive)
  /\ cookie' = Nobody /\ alive' = FALSE
  /\ screen' = "login" /\ user' = Nobody /\ leaving' = Idle
  /\ UNCHANGED <<me, signing, profile, crossed, elsewhere>>

\* Answered: the session is revoked and the answer clears the cookies.
LoggedOut ==
  /\ leaving \in Accounts /\ (leaving = cookie => alive)
  /\ cookie' = Nobody /\ alive' = FALSE
  /\ Load("login", Nobody)
  /\ UNCHANGED elsewhere

\* Refused (401: the session was revoked before), or the answer got lost: the
\* page goes to /login all the same, with the cookies it had.
LogoutFailed ==
  /\ leaving # Idle
  /\ alive' \in {alive, alive /\ leaving # cookie}
  /\ Load("login", cookie)
  /\ UNCHANGED <<cookie, elsewhere>>
-----------------------------------------------------------------------------
\* The profile page; bound: one save under way.
handleProfileSave ==
  /\ screen = "profile" /\ ~spin /\ patch = NoPatch
  /\ patch' = [phase |-> "sent", from |-> field, as |-> cookie, own |-> TRUE]
  /\ spin' = TRUE
  /\ UNCHANGED <<cookies, screen, user, requests, field, crossed, elsewhere>>

Saved ==
  /\ patch.phase = "sent" /\ patch.as # Nobody
  /\ patch' = [patch EXCEPT !.phase = "refreshing"]
  /\ me' = [me EXCEPT !["save"] = cookie]
  /\ UNCHANGED <<cookies, screen, user, signing, leaving, field, spin, crossed, elsewhere>>

SaveFailed ==
  /\ patch.phase = "sent"
  /\ patch' = NoPatch /\ spin' = (spin /\ ~patch.own)
  /\ UNCHANGED <<cookies, screen, user, requests, field, crossed, elsewhere>>
-----------------------------------------------------------------------------
\* The access cookie's max_age is over.
Expire ==
  /\ cookie # Nobody /\ cookie' = Nobody /\ alive' = FALSE
  /\ crossed' = (crossed \/ \E l \in Loads : me[l] # Idle)
  /\ UNCHANGED <<screen, user, requests, profile, elsewhere>>

\* A password change (handlePasswordChange too), a deactivation or a sign-out
\* on another device revokes the session.
Revoke ==
  /\ alive /\ elsewhere < MaxElsewhere /\ elsewhere' = elsewhere + 1
  /\ alive' = FALSE
  /\ UNCHANGED <<cookie, screen, user, requests, profile, crossed>>

\* Another tab of this browser signs in or out.
OtherTab ==
  /\ elsewhere < MaxElsewhere /\ elsewhere' = elsewhere + 1
  /\ cookie' \in Somebody \ {cookie} /\ alive' = (cookie' # Nobody)
  /\ crossed' = TRUE
  /\ UNCHANGED <<screen, user, requests, profile>>

Answered == \/ LoggedIn \/ LoginFailed \/ LoggedOut \/ LogoutFailed \/ Saved \/ SaveFailed
            \/ \E l \in Loads : refreshUser(l)
-----------------------------------------------------------------------------
(***************************************************************************)
(* Properties.                                                             *)
(***************************************************************************)
\* The user a tab shows is the one its cookie stands for, as long as nothing
\* outside the tab changed the cookie under it: the full load that ends a
\* sign-out leaves no answer that could bring the former user back.
UserIsCookies ==
  ~crossed /\ cookie # Nobody => user \in {cookie, Nobody}

\* A profile save puts the names of no other account into the profile of the
\* account it is sent as.
SavesOwnNames ==
  patch.phase # "idle" /\ ~crossed /\ patch.as # Nobody => patch.from \in {patch.as, Nobody}

\* A browser that holds the access cookie is not left on a sign-in page.
LoginForSignedOut == screen = "login" => cookie = Nobody \/ crossed
=============================================================================
