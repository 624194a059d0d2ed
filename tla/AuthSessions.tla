----------------------------- MODULE AuthSessions -----------------------------
(***************************************************************************)
(* The password sessions of one user (auth_service.py): each request is a  *)
(* PostgreSQL transaction, READ COMMITTED, that get_db commits or rolls    *)
(* back.  What its statements read, the row locks they take and the two    *)
(* unique indexes on sessions decide how requests of the user that overlap *)
(* come out.                                                               *)
(*                                                                         *)
(* A token holds the user, the role and the second it was built in, so a   *)
(* row of sessions is named by that second.  The users row is a lock, its  *)
(* password is left out; so is expiry, which is days away.                 *)
(***************************************************************************)
EXTENDS Integers, FiniteSets

CONSTANTS
  Requests,    \* requests of the user
  Ops,         \* the operations they perform
  NoRow,       \* None
  MaxTime,     \* bound: seconds that pass
  MaxAborts    \* bound: transactions that lose their connection

\* "change" is change_password as well as confirm_password_reset.
AllOps == {"login", "refresh", "logout", "change"}

Seconds == 0..MaxTime

ASSUME OpsAssumption    == Ops \subseteq AllOps
ASSUME BoundsAssumption == MaxTime \in Nat /\ MaxAborts \in Nat
ASSUME NoRowAssumption  == NoRow \notin Seconds

Steps == {"idle", "select", "revoke", "users", "mint", "insert", "commit", "done"}

\* Mutant: refresh updates last_login, as login does.
AfterRefreshTouchingUser ==
  [login   |-> [select |-> "revoke", revoke |-> "users", users |-> "mint",
                mint |-> "insert", insert |-> "commit"],
   refresh |-> [revoke |-> "users", users |-> "mint", mint |-> "insert", insert |-> "commit"],
   logout  |-> [select |-> "revoke", revoke |-> "commit"],
   change  |-> [users |-> "select", select |-> "revoke", revoke |-> "commit"]]

\* The statements of each operation in order: what comes after a step.
After ==
  [login   |-> [select |-> "revoke", revoke |-> "users", users |-> "mint",
                mint |-> "insert", insert |-> "commit"],
   refresh |-> [revoke |-> "mint", mint |-> "insert", insert |-> "commit"],
   logout  |-> [select |-> "revoke", revoke |-> "commit"],
   change  |-> [users |-> "select", select |-> "revoke", revoke |-> "commit"]]

FirstStep == [login |-> "select", refresh |-> "revoke", logout |-> "select", change |-> "users"]

VARIABLES
  now,         \* the second the clock shows
  status,      \* status[t]: the committed row issued in second t
  tx,          \* the transaction of each request
  aborts

vars == <<now, status, tx, aborts>>

\* seen: the session it read; revoked: the row it updated and has locked;
\* users: it holds the users row; minted: the second of the tokens it built.
Transaction ==
  [op : AllOps, step : Steps, seen : Seconds \cup {NoRow}, revoked : Seconds \cup {NoRow},
   users : BOOLEAN, minted : Seconds \cup {NoRow}]

\* A transaction that holds nothing.
Blank(op, step) ==
  [op |-> op, step |-> step, seen |-> NoRow, revoked |-> NoRow, users |-> FALSE, minted |-> NoRow]

-----------------------------------------------------------------------------
Active == {t \in Seconds : status[t] = "active"}

\* p has a row in sessions that it has not committed.
Inserted(p) == tx[p].step = "commit" /\ tx[p].minted # NoRow

\* p has updated a row that is active for everyone else.
RevokesActive(p) == tx[p].revoked \in Active

\* The transactions that the next statement of p waits for: the holder of the
\* row lock, or whoever decides whether its INSERT is a duplicate.
Blockers(p) ==
  {q \in Requests \ {p} :
     \/ tx[p].step = "revoke" /\ tx[p].seen # NoRow /\ tx[q].revoked = tx[p].seen
     \/ tx[p].step = "users"  /\ tx[q].users
     \/ tx[p].step = "insert" /\ (Inserted(q) \/ RevokesActive(q))}

Advance(p, t) == tx' = [tx EXCEPT ![p] = [t EXCEPT !.step = After[t.op][t.step]]]

-----------------------------------------------------------------------------
\* Registering a user left the first session, which may have been revoked.
Init ==
  /\ now = 0
  /\ \E first \in {"active", "revoked"} :
       status = [t \in Seconds |-> IF t = 0 THEN first ELSE "none"]
  /\ tx = [p \in Requests |-> Blank("login", "idle")]
  /\ aborts = 0

\* The clock reaches the next second.
Tick ==
  /\ now < MaxTime
  /\ now' = now + 1
  /\ UNCHANGED <<status, tx, aborts>>

\* The first query: the user of the e-mail or of the access token; for refresh the
\* active session of the presented token.  Without one the request ends.
Begin(p, op) ==
  /\ tx[p].step = "idle"
  /\ \E t \in IF op = "refresh" THEN Active ELSE {NoRow} :
       tx' = [tx EXCEPT ![p] = [Blank(op, FirstStep[op]) EXCEPT !.seen = t]]
  /\ UNCHANGED <<now, status, aborts>>

\* _get_active_session
SelectSession(p) ==
  /\ tx[p].step = "select"
  /\ \E t \in IF Active = {} THEN {NoRow} ELSE Active :
       Advance(p, [tx[p] EXCEPT !.seen = t])
  /\ UNCHANGED <<now, status, aborts>>

\* Mutant: the revocation is committed at once.
RevokeSessionCommitting(p) ==
  /\ tx[p].step = "revoke" /\ Blockers(p) = {}
  /\ Advance(p, [tx[p] EXCEPT !.revoked = tx[p].seen])
  /\ status' = [t \in Seconds |-> IF t = tx[p].seen THEN "revoked" ELSE status[t]]
  /\ UNCHANGED <<now, aborts>>

\* The UPDATE names the row by its id: it goes ahead whatever the row has become
\* since it was read.
RevokeSession(p) ==
  /\ tx[p].step = "revoke" /\ Blockers(p) = {}
  /\ Advance(p, [tx[p] EXCEPT !.revoked = tx[p].seen])
  /\ UNCHANGED <<now, status, aborts>>

\* last_login, or the new password
UpdateUser(p) ==
  /\ tx[p].step = "users" /\ Blockers(p) = {}
  /\ Advance(p, [tx[p] EXCEPT !.users = TRUE])
  /\ UNCHANGED <<now, status, aborts>>

\* _build_tokens
BuildTokens(p) ==
  /\ tx[p].step = "mint"
  /\ Advance(p, [tx[p] EXCEPT !.minted = now])
  /\ UNCHANGED <<now, status, aborts>>

\* Mutant: the hash of the tokens is not unique.
DuplicateActive(p) == \E t \in Active : t # tx[p].revoked

\* A row with these tokens exists, or the user has another active session.
Duplicate(p) == status[tx[p].minted] # "none" \/ \E t \in Active : t # tx[p].revoked

\* Mutant: the exception leaves the transaction open.
RollbackForgotten(p) == tx' = [tx EXCEPT ![p].step = "done"]

\* get_db gives back what the transaction holds.
Rollback(p) == tx' = [tx EXCEPT ![p] = Blank(tx[p].op, "done")]

\* Mutant: no partial index.
CreateSessionUnindexed(p) ==
  /\ tx[p].step = "insert" /\ Blockers(p) = {}
  /\ IF status[tx[p].minted] # "none" THEN Rollback(p) ELSE Advance(p, tx[p])
  /\ UNCHANGED <<now, status, aborts>>

\* The unique indexes let the INSERT pass, or the request ends with 409.
CreateSession(p) ==
  /\ tx[p].step = "insert" /\ Blockers(p) = {}
  /\ IF Duplicate(p) THEN Rollback(p) ELSE Advance(p, tx[p])
  /\ UNCHANGED <<now, status, aborts>>

Commit(p) ==
  /\ tx[p].step = "commit"
  /\ status' = [t \in Seconds |-> IF t = tx[p].minted THEN "active"
                                  ELSE IF t = tx[p].revoked THEN "revoked" ELSE status[t]]
  /\ tx' = [tx EXCEPT ![p] = Blank(tx[p].op, "done")]
  /\ UNCHANGED <<now, aborts>>

\* The transactions of S wait for each other in a circle.
Circle(S) ==
  /\ S # {} /\ \A p \in S : Blockers(p) \cap S # {}
  /\ \A T \in SUBSET S \ {{}, S} : \E p \in T : Blockers(p) \cap T = {}

\* PostgreSQL ends one transaction of a circle.
EndDeadlock(p) ==
  /\ \E S \in SUBSET Requests : p \in S /\ Circle(S)
  /\ Rollback(p)
  /\ UNCHANGED <<now, status, aborts>>

\* The connection is lost, or the commit fails, after the response was sent.
Abort(p) ==
  /\ aborts < MaxAborts /\ aborts' = aborts + 1
  /\ tx[p].step \notin {"idle", "done"}
  /\ Rollback(p)
  /\ UNCHANGED <<now, status>>

Run(p) ==
  \/ SelectSession(p) \/ RevokeSession(p) \/ UpdateUser(p)
  \/ BuildTokens(p) \/ CreateSession(p) \/ Commit(p)

Next ==
  \/ Tick
  \/ \E p \in Requests, op \in Ops : Begin(p, op)
  \/ \E p \in Requests : Run(p) \/ EndDeadlock(p) \/ Abort(p)

Spec == Init /\ [][Next]_vars

\* The event loop resumes each request, the database breaks deadlocks.
Fairness == \A p \in Requests : WF_vars(Run(p)) /\ WF_vars(EndDeadlock(p))

FairSpec == Spec /\ Fairness

-----------------------------------------------------------------------------
(* TypeOK: the clock, the rows and the transactions.                        *)
TypeOK ==
  /\ now \in Seconds /\ aborts \in 0..MaxAborts
  /\ status \in [Seconds -> {"none", "active", "revoked"}]
  /\ tx \in [Requests -> Transaction]

(* OneActiveSession: "Enforce one active session" (login_user).  Whatever   *)
(* requests of the user overlap, at most one session is active.             *)
OneActiveSession == \A t, u \in Active : t = u

\* p was a logout or a change of the password and has come to its end.
Ended(p) == tx[p].op \in {"logout", "change"} /\ tx[p].step = "done"

(* SessionSurvives: a user who has a session keeps one until a logout or a  *)
(* change of the password ends: neither a login nor a refresh that fails    *)
(* takes the session away that it was about to replace.                     *)
SessionSurvives ==
  [][Active # {} /\ Active' = {} => \E p \in Requests : ~Ended(p) /\ Ended(p)']_vars

(* RevokedForGood: tokens built twice in a second are the same; a session   *)
(* that was revoked, say by change_password, never comes alive again        *)
(* through a login or a refresh that built its tokens once more.            *)
RevokedForGood == [][\A t \in Seconds : status[t] = "revoked" => status'[t] = "revoked"]_vars

(* RotatesActive: "Rotate - revoke old session and issue new tokens"        *)
(* (refresh_access_token).  The new session takes the place of one that is  *)
(* active until the commit, and brings none back.                           *)
RotatesActive ==
  \A p \in Requests : Inserted(p) /\ tx[p].op = "refresh" => tx[p].seen \in Active

(* RefreshReplaces: that holds as long as no logout and no change of the    *)
(* password has ended: of two refreshes with one token only one succeeds.   *)
RefreshReplaces == (\A p \in Requests : ~Ended(p)) => RotatesActive

(* DeadlockNeedsLogin: transactions wait for each other in a circle only    *)
(* where a login, which locks its session before the users row, meets       *)
(* another request.                                                         *)
DeadlockNeedsLogin ==
  \A S \in SUBSET Requests : Circle(S) => \E p \in S : tx[p].op = "login"

(* RequestsEnd: every request comes to an end; no transaction is left       *)
(* waiting for a lock.                                                      *)
RequestsEnd == \A p \in Requests : tx[p].step # "idle" ~> tx[p].step = "done"
=============================================================================
