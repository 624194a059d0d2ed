------------------------------- MODULE Accounts -------------------------------
(***************************************************************************)
(* Users, roles and permissions, and the requests that administer them     *)
(* (role_service.py, permission_service.py, admin_service.py, guarded by   *)
(* dependencies.py).                                                       *)
(*                                                                         *)
(* A request is a PostgreSQL transaction, READ COMMITTED, in two steps: it *)
(* checks the rights of its caller and reads the rows it decides upon,     *)
(* then it flushes and commits.  Between the two other requests commit.    *)
(* The deletion of a role has three: it reads the users of the role twice. *)
(* SQLAlchemy writes the columns whose value differs from the one that was *)
(* read, to the row with that id; foreign keys and unique indexes are      *)
(* looked at when it writes.                                               *)
(***************************************************************************)
EXTENDS Naturals, FiniteSets

CONSTANTS
  Users, Roles, Perms,   \* ids of the rows there are or may be
  Codes,                 \* permission codes, as <<resource, action>>
  Shorts,                \* short names of roles
  Providers,             \* OAuth providers
  Slots,                 \* requests under way
  Null,                  \* None
  Keep,                  \* a column that is not written
  Managers, Members,     \* users that the seed creates with these roles
  ManagerRole, MemberRole, AllPerm,
  MaxRequests            \* bound: requests that are let in

Everything == <<"*", "*">>

ASSUME RowsAssumption ==
  /\ Users \cap Roles = {} /\ Users \cap Perms = {} /\ Roles \cap Perms = {}
  /\ Null \notin Users \cup Roles \cup Perms \cup Providers
  /\ Keep \notin Roles \cup {Null} /\ Keep \notin BOOLEAN /\ Keep \notin Codes
  /\ Keep \notin Shorts \cup Providers \cup {"email"}
ASSUME PairsAssumption == (Users \X Providers) \cap (Users \cup Roles \cup Perms) = {}
ASSUME SeedAssumption ==
  /\ Managers \subseteq Users /\ Members \subseteq Users /\ Managers \cap Members = {}
  /\ Managers # {} /\ {ManagerRole, MemberRole} \subseteq Roles /\ ManagerRole # MemberRole
  /\ AllPerm \in Perms /\ Everything \in Codes /\ {"superadmin", "member"} \subseteq Shorts
ASSUME BoundsAssumption == MaxRequests \in Nat

VARIABLES
  users,      \* rows of users
  roles,      \* rows of roles
  perms,      \* rows of permissions
  grants,     \* rows of role_permissions
  req,        \* the request in each slot
  begun,      \* requests let in so far
  crossed,    \* rows that one request relied on while another took them away
  weakened    \* a request that removes no user took the rights of a manager

vars == <<users, roles, perms, grants, req, begun, crossed, weakened>>

Removals == {"soft_delete_user", "deactivate_user"}
UserOps  == Removals \cup {"activate_user", "update_user", "assign_role", "unassign_role"}
RoleOps  == {"create_role", "update_role", "read_role", "delete_role"}
PermOps  == {"create_permission", "update_permission", "delete_permission"}
GrantOps == {"assign_to_role", "unassign_from_role"}
OAuthOps == {"callback", "unlink"}

\* by: the caller; user, role, perm: the row that is written, or the value of a
\* foreign key; active, code, value: new values of columns; loaded: the users that came
\* with a role; via, link: the provider, and whether its id is written.
Request ==
  [op : UserOps \cup RoleOps \cup PermOps \cup GrantOps \cup OAuthOps \cup {"idle"},
   by : Users \cup {Null}, user : Users \cup {Null}, role : Roles \cup {Null, Keep},
   perm : Perms \cup {Null}, active : BOOLEAN \cup {Keep}, code : Codes \cup {Keep},
   value : Shorts \cup Providers \cup {"email", Keep}, loaded : SUBSET Users,
   via : Providers \cup {Null}, link : BOOLEAN]

Idle ==
  [op |-> "idle", by |-> Null, user |-> Null, role |-> Keep, perm |-> Null, active |-> Keep,
   code |-> Keep, value |-> Keep, loaded |-> {}, via |-> Null, link |-> FALSE]

-----------------------------------------------------------------------------
\* get_current_user lets u in, and the codes of its role (of deleted permissions
\* too) match: *:*, resource:*, *:action or the code itself.
May(u, need) ==
  /\ users[u].state = "live" /\ users[u].active
  /\ \E p \in Perms :
       /\ <<users[u].role, p>> \in grants
       /\ perms[p].code[1] \in {"*", need[1]} /\ perms[p].code[2] \in {"*", need[2]}

Manages(u) == May(u, <<"users", "write">>) \/ May(u, <<"users", "delete">>)

\* What a request counts on, and what it takes away from others.
Uses(q) ==
  IF q.op \in {"assign_role", "update_user"} THEN {q.role} \cap Roles
  ELSE IF q.op = "assign_to_role" THEN {q.perm}
  ELSE IF q.op \in Removals THEN {q.by}
  ELSE IF q.op = "callback" THEN ({q.role} \cap Roles) \cup {<<q.user, q.via>>}
  ELSE {}

Takes(q) ==
  IF q.op = "delete_role" THEN {q.role}
  ELSE IF q.op = "delete_permission" THEN {q.perm}
  ELSE IF q.op \in Removals THEN {q.user}
  ELSE IF q.op = "unlink" THEN {<<q.user, q.via>>}
  ELSE {}

Crossing(q) == UNION {(Uses(q) \cap Takes(req[t])) \cup (Takes(q) \cap Uses(req[t])) : t \in Slots}

\* A slot takes q, which has read what it needs and is about to write.
Take(s, q) ==
  /\ req[s].op = "idle" /\ begun < MaxRequests
  /\ req' = [req EXCEPT ![s] = q]
  /\ begun' = begun + 1
  /\ crossed' = crossed \cup Crossing(q)
  /\ UNCHANGED <<users, roles, perms, grants, weakened>>

\* require_permission lets the caller a in.
Enter(s, a, need, q) == Take(s, q) /\ May(a, need)

\* The request ends; what it has written is committed, or nothing is.
Leave(s) ==
  /\ req' = [req EXCEPT ![s] = Idle]
  /\ weakened' = (weakened \/ (req[s].op \notin Removals /\ \E u \in Users : Manages(u) /\ ~Manages(u)'))
  /\ UNCHANGED <<begun, crossed>>

\* The new value of a column, if it differs from the one that was read.
Changed(old, new) == IF new = old THEN Keep ELSE new

Column(old, new) == IF new = Keep THEN old ELSE new

Live(table) == {x \in DOMAIN table : table[x].state = "live"}

-----------------------------------------------------------------------------
(* What requests read: one action per operation of the services.            *)

CreateRole(s, a, r, short) ==
  /\ Enter(s, a, <<"roles", "write">>,
           [Idle EXCEPT !.op = "create_role", !.role = r, !.value = short])
  /\ roles[r].state = "absent"

UpdateRole(s, a, r, short) ==
  /\ Enter(s, a, <<"roles", "write">>,
           [Idle EXCEPT !.op = "update_role", !.role = r, !.value = Changed(roles[r].short, short)])
  /\ r \in Live(roles)

\* _get_role: SQLAlchemy loads the users of the role with it, deleted ones too.
DeleteRole(s, a, r) ==
  /\ Enter(s, a, <<"roles", "delete">>,
           [Idle EXCEPT !.op = "read_role", !.role = r,
                           !.loaded = {u \in Users : users[u].role = r}])
  /\ r \in Live(roles)

\* Mutant: users are not asked for.
CheckNothing(s) ==
  LET q == [req[s] EXCEPT !.op = "delete_role"] IN
  /\ req[s].op = "read_role"
  /\ req' = [req EXCEPT ![s] = q]
  /\ crossed' = crossed \cup Crossing(q)
  /\ UNCHANGED <<users, roles, perms, grants, begun, weakened>>

\* The second SELECT of the deletion finds no user of the role but deleted ones;
\* what was loaded by the first stays as it was.
CheckUnused(s) ==
  LET q == [req[s] EXCEPT !.op = "delete_role"] IN
  /\ req[s].op = "read_role"
  /\ ~\E u \in Live(users) : users[u].role = q.role
  /\ req' = [req EXCEPT ![s] = q]
  /\ crossed' = crossed \cup Crossing(q)
  /\ UNCHANGED <<users, roles, perms, grants, begun, weakened>>

AssignRole(s, a, u, r) ==
  /\ Enter(s, a, <<"roles", "write">>,
           [Idle EXCEPT !.op = "assign_role", !.user = u, !.role = Changed(users[u].role, r)])
  /\ u \in Live(users) /\ r \in Live(roles)

UnassignRole(s, a, u) ==
  /\ Enter(s, a, <<"roles", "write">>,
           [Idle EXCEPT !.op = "unassign_role", !.user = u, !.role = Null])
  /\ u \in Live(users) /\ users[u].role # Null

\* Any row with the code counts, a deleted one too.
CreatePermission(s, a, p, code) ==
  /\ Enter(s, a, <<"permissions", "write">>,
           [Idle EXCEPT !.op = "create_permission", !.perm = p, !.code = code])
  /\ perms[p].state = "absent" /\ \A x \in Perms : perms[x].state # "absent" => perms[x].code # code

UpdatePermission(s, a, p, code) ==
  /\ Enter(s, a, <<"permissions", "write">>,
           [Idle EXCEPT !.op = "update_permission", !.perm = p,
                           !.code = Changed(perms[p].code, code)])
  /\ p \in Live(perms) /\ \A x \in Perms \ {p} : perms[x].state # "absent" => perms[x].code # code

\* Mutant: role_permissions is not asked.
DeleteAnyPermission(s, a, p) ==
  /\ Enter(s, a, <<"permissions", "delete">>,
           [Idle EXCEPT !.op = "delete_permission", !.perm = p])
  /\ p \in Live(perms)

DeletePermission(s, a, p) ==
  /\ Enter(s, a, <<"permissions", "delete">>,
           [Idle EXCEPT !.op = "delete_permission", !.perm = p])
  /\ p \in Live(perms) /\ ~\E r \in Roles : <<r, p>> \in grants

AssignToRole(s, a, r, p) ==
  /\ Enter(s, a, <<"permissions", "write">>,
           [Idle EXCEPT !.op = "assign_to_role", !.role = r, !.perm = p])
  /\ p \in Live(perms) /\ r \in Live(roles) /\ <<r, p>> \notin grants

UnassignFromRole(s, a, r, p) ==
  /\ Enter(s, a, <<"permissions", "write">>,
           [Idle EXCEPT !.op = "unassign_from_role", !.role = r, !.perm = p])
  /\ p \in Live(perms) /\ r \in Live(roles) /\ <<r, p>> \in grants

\* role and active are what the query string holds; Keep: it does not hold it.
\* Only superadmins give that role.
UpdateUser(s, a, u, r, active) ==
  /\ Enter(s, a, <<"users", "write">>,
           [Idle EXCEPT !.op = "update_user", !.user = u, !.role = Changed(users[u].role, r),
                           !.active = Changed(users[u].active, active)])
  /\ u \in Live(users)
  /\ r # Keep =>
       /\ roles[r].state = "live"
       /\ roles[r].short = "superadmin" =>
            users[a].role # Null /\ roles[users[a].role].short = "superadmin"

\* Mutant: nobody asks whether the caller deletes himself.
SoftDeleteAnyUser(s, a, u) ==
  /\ Enter(s, a, <<"users", "delete">>,
           [Idle EXCEPT !.op = "soft_delete_user", !.by = a, !.user = u,
                           !.active = Changed(users[u].active, FALSE)])
  /\ u \in Live(users)

SoftDeleteUser(s, a, u) ==
  /\ Enter(s, a, <<"users", "delete">>,
           [Idle EXCEPT !.op = "soft_delete_user", !.by = a, !.user = u,
                           !.active = Changed(users[u].active, FALSE)])
  /\ u # a /\ u \in Live(users)

DeactivateUser(s, a, u) ==
  /\ Enter(s, a, <<"users", "write">>,
           [Idle EXCEPT !.op = "deactivate_user", !.by = a, !.user = u,
                           !.active = Changed(users[u].active, FALSE)])
  /\ u # a /\ u \in Live(users)

ActivateUser(s, a, u) ==
  /\ Enter(s, a, <<"users", "write">>,
           [Idle EXCEPT !.op = "activate_user", !.user = u,
                           !.active = Changed(users[u].active, TRUE)])
  /\ u \in Live(users)

-----------------------------------------------------------------------------
(* What requests write: the flush and the commit.                           *)

\* UPDATE users; the foreign key waits for a DELETE of the role and then fails.
WriteUser(s) ==
  LET q == req[s] IN
  /\ q.op \in UserOps
  /\ q.role \in Roles => roles[q.role].state = "live"
  /\ users' = [users EXCEPT ![q.user] =
                 [state  |-> IF q.op = "soft_delete_user" THEN "deleted" ELSE @.state,
                  active |-> Column(@.active, q.active),
                  role   |-> Column(@.role, q.role)]]
  /\ UNCHANGED <<roles, perms, grants>>
  /\ Leave(s)

InsertRole(s) ==
  LET q == req[s] IN
  /\ q.op = "create_role" /\ roles[q.role].state = "absent"
  /\ roles' = [roles EXCEPT ![q.role] = [state |-> "live", short |-> q.value]]
  /\ UNCHANGED <<users, perms, grants>>
  /\ Leave(s)

\* An UPDATE that finds no row is an error; without a column there is none.
WriteRole(s) ==
  LET q == req[s] IN
  /\ q.op = "update_role" /\ (q.value = Keep \/ roles[q.role].state = "live")
  /\ roles' = [roles EXCEPT ![q.role].short = Column(@, q.value)]
  /\ UNCHANGED <<users, perms, grants>>
  /\ Leave(s)

\* The users that were loaded with the role are set to NULL by their ids, the
\* others by the foreign key; role_permissions cascades.
RemoveRole(s) ==
  LET q == req[s] IN
  /\ q.op = "delete_role"
  /\ roles' = [roles EXCEPT ![q.role].state = "gone"]
  /\ users' = [u \in Users |-> IF u \in q.loaded \/ users[u].role = q.role
                               THEN [users[u] EXCEPT !.role = Null] ELSE users[u]]
  /\ grants' = {g \in grants : g[1] # q.role}
  /\ UNCHANGED perms
  /\ Leave(s)

\* The unique index counts deleted rows as well.
InsertPermission(s) ==
  LET q == req[s] IN
  /\ q.op = "create_permission" /\ perms[q.perm].state = "absent"
  /\ \A x \in Perms : perms[x].state # "absent" => perms[x].code # q.code
  /\ perms' = [perms EXCEPT ![q.perm] = [state |-> "live", code |-> q.code]]
  /\ UNCHANGED <<users, roles, grants>>
  /\ Leave(s)

WritePermission(s) ==
  LET q == req[s] IN
  /\ q.op \in {"update_permission", "delete_permission"}
  /\ \A x \in Perms \ {q.perm} : perms[x].state # "absent" => perms[x].code # q.code
  /\ perms' = [perms EXCEPT ![q.perm] =
                 [state |-> IF q.op = "delete_permission" THEN "deleted" ELSE @.state,
                  code  |-> Column(@.code, q.code)]]
  /\ UNCHANGED <<users, roles, grants>>
  /\ Leave(s)

\* The foreign keys ask for rows, and the row of a deleted permission is one.
InsertGrant(s) ==
  LET q == req[s] IN
  /\ q.op = "assign_to_role"
  /\ roles[q.role].state = "live" /\ <<q.role, q.perm>> \notin grants
  /\ grants' = grants \cup {<<q.role, q.perm>>}
  /\ UNCHANGED <<users, roles, perms>>
  /\ Leave(s)

DeleteGrant(s) ==
  LET q == req[s] IN
  /\ q.op = "unassign_from_role"
  /\ grants' = grants \ {<<q.role, q.perm>>}
  /\ UNCHANGED <<users, roles, perms>>
  /\ Leave(s)

\* The flush or the commit fails, or the process ends: get_db rolls back.
Fail(s) ==
  /\ req[s].op # "idle"
  /\ UNCHANGED <<users, roles, perms, grants>>
  /\ Leave(s)

-----------------------------------------------------------------------------
\* scripts/seed.py: the superadmins' role holds *:*.
Init ==
  /\ users = [u \in Users |->
                [state  |-> IF u \in Managers \cup Members THEN "live" ELSE "absent",
                 active |-> TRUE,
                 role   |-> IF u \in Managers THEN ManagerRole
                            ELSE IF u \in Members THEN MemberRole ELSE Null]]
  /\ roles = [r \in Roles |->
                [state |-> IF r \in {ManagerRole, MemberRole} THEN "live" ELSE "absent",
                 short |-> IF r = ManagerRole THEN "superadmin" ELSE "member"]]
  /\ perms \in {rows \in [Perms -> [state : {"absent", "live"}, code : Codes]] :
                 /\ rows[AllPerm] = [state |-> "live", code |-> Everything]
                 /\ \A p \in Perms : rows[p].state = "absent" => rows[p].code = Everything
                 /\ \A p, x \in Live(rows) : rows[p].code = rows[x].code => p = x}
  /\ \E held \in SUBSET (Live(perms) \ {AllPerm}) :
       grants = {<<ManagerRole, AllPerm>>} \cup ({MemberRole} \X held)
  /\ req = [s \in Slots |-> Idle]
  /\ begun = 0 /\ crossed = {} /\ weakened = FALSE

\* The routes of role_route.py, permission_route.py and admin_router.py that write.
RoleRoutes(s, a) ==
  \/ \E r \in Roles, short \in Shorts : CreateRole(s, a, r, short) \/ UpdateRole(s, a, r, short)
  \/ \E r \in Roles : DeleteRole(s, a, r)
  \/ \E u \in Users, r \in Roles : AssignRole(s, a, u, r)
  \/ \E u \in Users : UnassignRole(s, a, u)

PermissionRoutes(s, a) ==
  \/ \E p \in Perms, c \in Codes : CreatePermission(s, a, p, c) \/ UpdatePermission(s, a, p, c)
  \/ \E p \in Perms : DeletePermission(s, a, p)
  \/ \E r \in Roles, p \in Perms : AssignToRole(s, a, r, p) \/ UnassignFromRole(s, a, r, p)

AdminRoutes(s, a) ==
  \/ \E u \in Users, r \in Roles \cup {Keep}, active \in BOOLEAN \cup {Keep} :
       UpdateUser(s, a, u, r, active)
  \/ \E u \in Users :
       SoftDeleteUser(s, a, u) \/ DeactivateUser(s, a, u) \/ ActivateUser(s, a, u)

Ask(s, a) == RoleRoutes(s, a) \/ PermissionRoutes(s, a) \/ AdminRoutes(s, a)

Carry(s) ==
  \/ CheckUnused(s)
  \/ WriteUser(s) \/ InsertRole(s) \/ WriteRole(s) \/ RemoveRole(s)
  \/ InsertPermission(s) \/ WritePermission(s) \/ InsertGrant(s) \/ DeleteGrant(s)
  \/ Fail(s)

Next == \E s \in Slots : Carry(s) \/ \E a \in Users : Ask(s, a)

Spec == Init /\ [][Next]_vars

-----------------------------------------------------------------------------
(* TypeOK: the rows, and the requests under way.                            *)
TypeOK ==
  /\ users \in [Users -> [state : {"absent", "live", "deleted"}, active : BOOLEAN,
                          role : Roles \cup {Null}]]
  /\ roles \in [Roles -> [state : {"absent", "live", "gone"}, short : Shorts]]
  /\ perms \in [Perms -> [state : {"absent", "live", "deleted"}, code : Codes]]
  /\ grants \subseteq Roles \X Perms
  /\ req \in [Slots -> Request]
  /\ begun \in 0..MaxRequests
  /\ crossed \subseteq Users \cup Roles \cup Perms \cup (Users \X Providers)
  /\ weakened \in BOOLEAN

(* HeldPermissionLive: "Soft-deletes a permission.  Fails if the permission *)
(* is currently assigned to any role" (permission_route.py).  No role holds *)
(* a deleted permission, which _get_user_permission_codes would still       *)
(* honour and unassign_from_role no longer find, except where its deletion  *)
(* met an assignment of it.                                                 *)
HeldPermissionLive ==
  \A r \in Roles, p \in Perms : <<r, p>> \in grants => perms[p].state = "live" \/ p \in crossed

\* Whoever comes to be without a role is deleted, has been unassigned, or lost
\* it to the deletion of a role.
TakesOpenly ==
  \A u \in Users :
    users[u].state = "live" /\ users[u].role # Null /\ users'[u].role = Null
    => \/ users[u].role \in crossed
       \/ \E s \in Slots : req[s].op = "unassign_role" /\ req[s].user = u /\ req'[s] = Idle
       \/ \E s \in Slots : /\ req[s].op = "delete_role" /\ req'[s] = Idle
                           /\ u \in req[s].loaded /\ users[u].role # req[s].role

(* RoleTakenOpenly: "Cannot delete a role that is assigned to active users" *)
(* (role_service.py).  A user who is not deleted comes to be without a role *)
(* only by unassign_role on him, except where the deletion of the role met  *)
(* an assignment of it, and but for a user moved to another role between    *)
(* the two readings of a deletion: with the old role it takes the new one.  *)
RoleTakenOpenly == [][TakesOpenly]_vars

(* ManagerRemains: "Cannot delete yourself", "Cannot deactivate yourself"   *)
(* (admin_service.py).  However many users are deleted and deactivated, one *)
(* who can manage users remains, unless a request of another kind took      *)
(* rights from a manager, or somebody removed a user while being removed.   *)
ManagerRemains == weakened \/ crossed \cap Users # {} \/ \E u \in Users : Manages(u)
=============================================================================
