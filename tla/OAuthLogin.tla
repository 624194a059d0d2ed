------------------------------ MODULE OAuthLogin ------------------------------
(***************************************************************************)
(* Signing in through Google or Azure, and unlinking the account           *)
(* (google_auth_service.py, google_router.py and their Azure twins).  An   *)
(* account at a provider has the address of one user; the row of that user *)
(* is found by the provider's id or by the address, so users are named by  *)
(* it.  Callbacks are requests like those of Accounts: they read, and then *)
(* write the columns that changed.                                         *)
(***************************************************************************)
EXTENDS Accounts

CONSTANT Linked   \* users that have linked an account of every provider

ASSUME LinkedAssumption == Linked \subseteq Managers \cup Members /\ "email" \notin Providers

VARIABLES
  account,    \* google_id and azure_id (links), auth_source (source) of users
  signedIn    \* users that a callback has made a session for

oauthVars == <<account, signedIn>>

NoAccount == [links |-> {}, source |-> "email"]

\* What the links and the source of a user come to be.
Accountable == [links : SUBSET Providers, source : Providers \cup {"email"}]

-----------------------------------------------------------------------------
\* _get_default_role: none, one, or MultipleResultsFound.
IsDefaultRole(r) == {x \in Live(roles) : roles[x].short = "member"} = {r} \ {Null}

\* _find_user has found the row of u.
Return(s, u, v) ==
  /\ Take(s, [Idle EXCEPT !.op = "callback", !.user = u, !.via = v,
                          !.link = v \notin account[u].links,
                          !.value = Changed(account[u].source, v)])
  /\ u \in Live(users)
  /\ UNCHANGED oauthVars

\* It has found none; deleted rows do not count.
Arrive(s, u, v) ==
  \E r \in Roles \cup {Null} :
    /\ Take(s, [Idle EXCEPT !.op = "callback", !.user = u, !.via = v, !.role = r,
                            !.link = TRUE, !.value = v])
    /\ u \notin Live(users) /\ IsDefaultRole(r)
    /\ UNCHANGED oauthVars

\* Mutant: auth_source is left as it is.
UnlinkOnly(s, u, v) ==
  /\ Take(s, [Idle EXCEPT !.op = "unlink", !.user = u, !.via = v])
  /\ users[u].state = "live" /\ users[u].active /\ v \in account[u].links
  /\ UNCHANGED oauthVars

\* Every user has a password: that of a new one is random.
Unlink(s, u, v) ==
  /\ Take(s, [Idle EXCEPT !.op = "unlink", !.user = u, !.via = v,
                          !.value = IF account[u].source = v THEN "email" ELSE Keep])
  /\ users[u].state = "live" /\ users[u].active /\ v \in account[u].links
  /\ UNCHANGED oauthVars

-----------------------------------------------------------------------------
\* The row was found: _flush calls itself until Python gives up, before there is a
\* session.  The router answers "auth_failed" itself, so get_db commits the columns.
WriteReturning(s) ==
  LET q == req[s] IN
  /\ q.op = "callback" /\ q.role = Keep
  /\ account' = [account EXCEPT ![q.user] =
                   [links  |-> IF q.link THEN @.links \cup {q.via} ELSE @.links,
                    source |-> Column(@.source, q.value)]]
  /\ UNCHANGED <<users, roles, perms, grants, signedIn>>
  /\ Leave(s)

\* Addresses are unique, and deleted rows keep theirs.
InsertUser(s) ==
  LET q == req[s] IN
  /\ q.op = "callback" /\ q.role # Keep
  /\ users[q.user].state = "absent" /\ (q.role # Null => roles[q.role].state = "live")
  /\ users' = [users EXCEPT ![q.user] = [state |-> "live", active |-> TRUE, role |-> q.role]]
  /\ account' = [account EXCEPT ![q.user] = [links |-> {q.via}, source |-> q.value]]
  /\ signedIn' = signedIn \cup {q.user}
  /\ UNCHANGED <<roles, perms, grants>>
  /\ Leave(s)

WriteUnlink(s) ==
  LET q == req[s] IN
  /\ q.op = "unlink"
  /\ account' = [account EXCEPT ![q.user] =
                   [links |-> @.links \ {q.via}, source |-> Column(@.source, q.value)]]
  /\ UNCHANGED <<users, roles, perms, grants, signedIn>>
  /\ Leave(s)

-----------------------------------------------------------------------------
\* Linked users have signed in through every provider.
OAuthInit ==
  /\ \E last \in [Linked -> Providers] :
       account = [u \in Users |-> IF u \in Linked
                                   THEN [links |-> Providers, source |-> last[u]] ELSE NoAccount]
  /\ signedIn = {}

OAuthNext ==
  \E s \in Slots :
    \/ \E u \in Users, v \in Providers : Return(s, u, v) \/ Arrive(s, u, v) \/ Unlink(s, u, v)
    \/ WriteReturning(s) \/ InsertUser(s) \/ WriteUnlink(s)

-----------------------------------------------------------------------------
OAuthTypeOK == account \in [Users -> Accountable] /\ signedIn \subseteq Users

(* SourceLinked: auth_source names a provider that is linked, or "email"    *)
(* (get_oauth_status tells the user so), except where a callback met an     *)
(* unlink of the same account: each writes the columns it changes, and      *)
(* neither sees the other's.                                                *)
SourceLinked ==
  \A u \in Users :
    \/ account[u].source \in account[u].links \cup {"email"}
    \/ <<u, account[u].source>> \in crossed

(* ReturningSignsIn: "Complete OAuth callback.  Returns (user,              *)
(* access_token, refresh_token)" (google_auth_service.py).  A callback that *)
(* writes to the row of an active user has a session for him.               *)
ReturningSignsIn ==
  [][\A s \in Slots :
       /\ req[s].op = "callback" /\ req[s].role = Keep /\ req'[s] = Idle
       /\ users[req[s].user].active /\ account'[req[s].user] # account[req[s].user]
       => req[s].user \in signedIn']_<<vars, oauthVars>>
=============================================================================
