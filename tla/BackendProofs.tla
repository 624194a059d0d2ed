----------------------------- MODULE BackendProofs -----------------------------
(***************************************************************************)
(* The invariants of Backend, for every value of its constants.  A request *)
(* decides on rows that may change before it writes; what remains true of  *)
(* them meanwhile, unless it met a request that takes them away, is what   *)
(* Sound collects, and each invariant follows from it at the write.        *)
(***************************************************************************)
EXTENDS Backend, TLAPS

\* What a request holds, whatever the tables hold.
Formed(q) ==
  /\ q \in Request
  /\ q.op \in UserOps \cup OAuthOps => q.user \in Users
  /\ q.op \in RoleOps \cup GrantOps => q.role \in Roles
  /\ q.op \in PermOps \cup GrantOps => q.perm \in Perms
  /\ q.op = "create_role" => q.value \in Shorts
  /\ q.op = "update_role" => q.value \in Shorts \cup {Keep}
  /\ q.op = "create_permission" => q.code \in Codes
  /\ q.op \in OAuthOps => q.via \in Providers
  /\ q.op = "callback" => q.value \in {q.via, Keep}
  /\ q.op = "callback" /\ q.role # Keep => q.value = q.via
  /\ q.op = "unlink" => q.value \in {"email", Keep}
  /\ q.op \in UserOps /\ q.role = Null => q.op = "unassign_role"
  /\ q.op \in UserOps /\ q.role \in Roles => q.op \in {"assign_role", "update_user"}
  /\ q.op \in Removals => q.by \in Users /\ q.by # q.user

\* The row it updates is there.
RowThere(q) ==
  q.op \in UserOps \cup {"unlink"} \/ (q.op = "callback" /\ q.role = Keep)
  => users[q.user].state # "absent"

\* No user has the role it deletes, but for one it crossed.
RoleFree(q) ==
  q.op = "delete_role" =>
    \A u \in Users : users[u].state = "live" /\ users[u].role = q.role => q.role \in crossed

\* The permission it grants is live, the one it deletes is not held.
PermLive(q) == q.op = "assign_to_role" => perms[q.perm].state = "live" \/ q.perm \in crossed
PermFree(q) ==
  q.op = "delete_permission" => \A r \in Roles : <<r, q.perm>> \in grants => q.perm \in crossed

\* Whoever removes a user manages users himself.
StillManages(q) == q.op \in Removals => weakened \/ q.by \in crossed \/ Manages(q.by)

\* The columns that a callback or an unlink leaves alone have the right value.
StillLinked(q) ==
  q.op = "callback" /\ q.role = Keep /\ ~q.link =>
    q.via \in account[q.user].links \/ <<q.user, q.via>> \in crossed
OtherSource(q) ==
  q.op = "unlink" /\ q.value = Keep =>
    account[q.user].source # q.via \/ <<q.user, q.via>> \in crossed

Sound(q) ==
  /\ Formed(q) /\ RowThere(q) /\ RoleFree(q) /\ PermLive(q) /\ PermFree(q)
  /\ StillManages(q) /\ StillLinked(q) /\ OtherSource(q)

\* Requests that took something from each other are known to have crossed.
Met == \A s, t \in Slots : s # t => Uses(req[s]) \cap Takes(req[t]) \subseteq crossed

AbsentNoRole == \A u \in Users : users[u].state = "absent" => users[u].role = Null

\* The inductive invariant of users, roles, permissions and accounts.
RowsInv ==
  /\ TypeOK /\ OAuthTypeOK
  /\ \A s \in Slots : Sound(req[s])
  /\ Met /\ AbsentNoRole
  /\ HeldPermissionLive /\ ManagerRemains /\ SourceLinked

-----------------------------------------------------------------------------
LEMMA IdleSound == Sound(Idle) /\ Uses(Idle) = {} /\ Takes(Idle) = {}
<1>1. Formed(Idle)
  BY DEF Formed, Idle, Request, UserOps, Removals, OAuthOps, RoleOps, PermOps, GrantOps
<1>2. QED
  BY <1>1 DEF Sound, RowThere, RoleFree, PermLive, PermFree, StillManages,
              StillLinked, OtherSource, Uses, Takes, Idle, UserOps, Removals

LEMMA InitRows == Init /\ OAuthInit => RowsInv
<1> SUFFICES ASSUME Init, OAuthInit PROVE RowsInv
  OBVIOUS
<1>1. /\ users \in [Users -> [state : {"absent", "live", "deleted"}, active : BOOLEAN,
                              role : Roles \cup {Null}]]
      /\ AbsentNoRole
  BY SeedAssumption DEF Init, AbsentNoRole
<1>2. roles \in [Roles -> [state : {"absent", "live", "gone"}, short : Shorts]]
  BY SeedAssumption DEF Init
<1>3. /\ perms \in [Perms -> [state : {"absent", "live", "deleted"}, code : Codes]]
      /\ perms[AllPerm] = [state |-> "live", code |-> Everything]
  BY SeedAssumption DEF Init
<1>4. /\ grants \subseteq Roles \X Perms /\ <<ManagerRole, AllPerm>> \in grants
      /\ \A r \in Roles, p \in Perms : <<r, p>> \in grants => perms[p].state = "live"
  <2>1. PICK held \in SUBSET (Live(perms) \ {AllPerm}) :
             grants = {<<ManagerRole, AllPerm>>} \cup ({MemberRole} \X held)
    BY DEF Init
  <2>2. held \subseteq Perms /\ \A p \in held : perms[p].state = "live"
    BY <1>3 DEF Live
  <2>3. QED
    BY <1>3, <2>1, <2>2, SeedAssumption
<1>5. \A s \in Slots : req[s] = Idle
  BY DEF Init
<1>6. TypeOK
  <2>1. req \in [Slots -> Request]
    BY IdleSound DEF Init, Sound, Formed
  <2>2. begun \in 0..MaxRequests /\ crossed = {} /\ weakened = FALSE
    BY BoundsAssumption DEF Init
  <2>3. QED
    BY <1>1, <1>2, <1>3, <1>4, <2>1, <2>2 DEF TypeOK
<1>7. OAuthTypeOK /\ SourceLinked
  <2>1. PICK last \in [Linked -> Providers] :
             account = [u \in Users |-> IF u \in Linked
                                         THEN [links |-> Providers, source |-> last[u]] ELSE NoAccount]
    BY DEF OAuthInit
  <2>2. \A u \in Users : account[u] \in Accountable
    BY <2>1 DEF Accountable, NoAccount
  <2>3. account \in [Users -> Accountable]
    BY <2>1, <2>2
  <2>4. QED
    BY <2>1, <2>3 DEF OAuthInit, OAuthTypeOK, SourceLinked, NoAccount
<1>8. HeldPermissionLive
  BY <1>4 DEF HeldPermissionLive
<1>9. ManagerRemains
  <2>1. PICK u \in Managers : TRUE
    BY SeedAssumption
  <2>2. users[u].state = "live" /\ users[u].active /\ users[u].role = ManagerRole
    BY <2>1, SeedAssumption DEF Init
  <2>3. perms[AllPerm].code[1] = "*" /\ perms[AllPerm].code[2] = "*"
    BY <1>3 DEF Everything
  <2>4. Manages(u)
    BY <1>4, <2>2, <2>3, SeedAssumption DEF Manages, May
  <2>5. QED
    BY <2>1, <2>4, SeedAssumption DEF ManagerRemains
<1>10. Met /\ \A s \in Slots : Sound(req[s])
  BY <1>5, IdleSound DEF Met
<1>11. QED
  BY <1>1, <1>6, <1>7, <1>8, <1>9, <1>10 DEF RowsInv
-----------------------------------------------------------------------------
\* A request that is let in.

\* A set of crossed rows is one of rows.
LEMMA CrossingTyped ==
  ASSUME NEW q, Formed(q)
  PROVE  /\ Uses(q) \subseteq Users \cup Roles \cup Perms \cup (Users \X Providers)
         /\ Takes(q) \subseteq Users \cup Roles \cup Perms \cup (Users \X Providers)
BY DEF Formed, Uses, Takes, UserOps, Removals, RoleOps, PermOps, GrantOps, OAuthOps

LEMMA TakeKeeps ==
  ASSUME RowsInv, NEW s \in Slots, NEW q, Take(s, q), Sound(q), UNCHANGED oauthVars
  PROVE  RowsInv'
<1>1. \A t \in Slots : req'[t] = IF t = s THEN q ELSE req[t]
  BY DEF Take, RowsInv, TypeOK
<1>2. crossed \subseteq crossed'
  BY DEF Take
<1>3. \A t \in Slots : Sound(req[t])'
  <2> SUFFICES ASSUME NEW t \in Slots PROVE Sound(req[t])'
    OBVIOUS
  <2>1. UNCHANGED <<users, roles, perms, grants, weakened, account>>
    BY DEF Take, oauthVars
  <2>2. PICK r : r = req'[t] /\ Sound(r)
    BY <1>1 DEF RowsInv
  <2>3. Formed(req[t])' /\ RowThere(req[t])' /\ RoleFree(req[t])'
    BY <1>2, <2>1, <2>2 DEF Sound, Formed, RowThere, RoleFree
  <2>4. PermLive(req[t])' /\ PermFree(req[t])'
    BY <1>2, <2>1, <2>2 DEF Sound, PermLive, PermFree
  <2>5. StillManages(req[t])'
    BY <1>2, <2>1, <2>2 DEF Sound, StillManages, Manages, May
  <2>6. StillLinked(req[t])' /\ OtherSource(req[t])'
    BY <1>2, <2>1, <2>2 DEF Sound, StillLinked, OtherSource
  <2>7. QED
    BY <2>3, <2>4, <2>5, <2>6 DEF Sound
<1>4. Met'
  <2> SUFFICES ASSUME NEW t \in Slots, NEW x \in Slots, t # x
               PROVE  (Uses(req[t]) \cap Takes(req[x]))' \subseteq crossed'
    BY DEF Met
  <2>1. Uses(req[t])' = Uses(req'[t]) /\ Takes(req[x])' = Takes(req'[x])
    BY DEF Uses, Takes
  <2>2. CASE t = s
    <3>1. Uses(q) \cap Takes(req[x]) \subseteq crossed'
      BY DEF Take, Crossing
    <3>2. QED
      BY <1>1, <2>1, <2>2, <3>1
  <2>3. CASE x = s
    <3>1. Uses(req[t]) \cap Takes(q) \subseteq crossed'
      BY DEF Take, Crossing
    <3>2. QED
      BY <1>1, <2>1, <2>3, <3>1
  <2>4. CASE t # s /\ x # s
    BY <1>1, <1>2, <2>1, <2>4 DEF RowsInv, Met
  <2>5. QED
    BY <2>2, <2>3, <2>4
<1>5. TypeOK' /\ OAuthTypeOK'
  <2>1. crossed' \subseteq Users \cup Roles \cup Perms \cup (Users \X Providers)
    <3>1. \A t \in Slots : Formed(req[t])
      BY DEF RowsInv, Sound
    <3>2. Crossing(q) \subseteq Users \cup Roles \cup Perms \cup (Users \X Providers)
      BY <3>1, CrossingTyped DEF Crossing, Sound
    <3>3. QED
      BY <3>2 DEF Take, RowsInv, TypeOK
  <2>2. begun' \in 0..MaxRequests
    BY BoundsAssumption DEF Take, RowsInv, TypeOK
  <2>3. req' \in [Slots -> Request]
    BY DEF Take, RowsInv, TypeOK, Sound, Formed
  <2>4. QED
    BY <2>1, <2>2, <2>3 DEF Take, RowsInv, TypeOK, OAuthTypeOK, oauthVars
<1>6. AbsentNoRole' /\ HeldPermissionLive' /\ SourceLinked'
  BY <1>2 DEF Take, RowsInv, AbsentNoRole, HeldPermissionLive, SourceLinked, oauthVars
<1>7. ManagerRemains'
  BY <1>2 DEF Take, RowsInv, ManagerRemains, Manages, May
<1>8. QED
  BY <1>3, <1>4, <1>5, <1>6, <1>7 DEF RowsInv

\* Every operation reads what it counts on.
LEMMA AskTakes ==
  ASSUME RowsInv, NEW s \in Slots, NEW a \in Users, Ask(s, a)
  PROVE  \E q : Take(s, q) /\ Sound(q)
<1> USE DEF Idle, Request, UserOps, Removals, OAuthOps, RoleOps, PermOps, GrantOps
<1>1. ASSUME NEW q, Formed(q),
             q.op \in {"create_role", "update_role", "read_role", "create_permission",
                       "update_permission", "unassign_from_role"}
      PROVE  Sound(q)
  BY <1>1 DEF Sound, RowThere, RoleFree, PermLive, PermFree, StillManages,
              StillLinked, OtherSource
<1>2. ASSUME NEW q, Formed(q), q.op \in UserOps, users[q.user].state = "live",
             q.op \in Removals => Manages(q.by)
      PROVE  Sound(q)
  BY <1>2 DEF Sound, RowThere, RoleFree, PermLive, PermFree, StillManages,
              StillLinked, OtherSource
<1>3. ASSUME NEW r \in Roles, NEW short \in Shorts, CreateRole(s, a, r, short)
      PROVE  \E q : Take(s, q) /\ Sound(q)
  <2> DEFINE q == [Idle EXCEPT !.op = "create_role", !.role = r, !.value = short]
  <2>1. Formed(q)
    BY DEF Formed
  <2>2. Sound(q)
    BY <1>1, <2>1
  <2>3. QED
    BY <1>3, <2>2 DEF CreateRole, Enter
<1>4. ASSUME NEW r \in Roles, NEW short \in Shorts, UpdateRole(s, a, r, short)
      PROVE  \E q : Take(s, q) /\ Sound(q)
  <2> DEFINE q == [Idle EXCEPT !.op = "update_role", !.role = r,
                               !.value = Changed(roles[r].short, short)]
  <2>1. Formed(q)
    BY DEF Formed, Changed
  <2>2. Sound(q)
    BY <1>1, <2>1
  <2>3. QED
    BY <1>4, <2>2 DEF UpdateRole, Enter
<1>5. ASSUME NEW r \in Roles, DeleteRole(s, a, r)
      PROVE  \E q : Take(s, q) /\ Sound(q)
  <2> DEFINE q == [Idle EXCEPT !.op = "read_role", !.role = r,
                               !.loaded = {u \in Users : users[u].role = r}]
  <2>1. Formed(q)
    BY DEF Formed
  <2>2. Sound(q)
    BY <1>1, <2>1
  <2>3. QED
    BY <1>5, <2>2 DEF DeleteRole, Enter
<1>6. ASSUME NEW u \in Users, NEW r \in Roles, AssignRole(s, a, u, r)
      PROVE  \E q : Take(s, q) /\ Sound(q)
  <2> DEFINE q == [Idle EXCEPT !.op = "assign_role", !.user = u,
                               !.role = Changed(users[u].role, r)]
  <2>1. Formed(q)
    BY RowsAssumption DEF Formed, Changed
  <2>2. users[u].state = "live"
    BY <1>6 DEF AssignRole, Live
  <2>3. Sound(q)
    BY <1>2, <2>1, <2>2
  <2>4. QED
    BY <1>6, <2>3 DEF AssignRole, Enter
<1>7. ASSUME NEW u \in Users, UnassignRole(s, a, u)
      PROVE  \E q : Take(s, q) /\ Sound(q)
  <2> DEFINE q == [Idle EXCEPT !.op = "unassign_role", !.user = u, !.role = Null]
  <2>1. Formed(q)
    BY RowsAssumption DEF Formed
  <2>2. users[u].state = "live"
    BY <1>7 DEF UnassignRole, Live
  <2>3. Sound(q)
    BY <1>2, <2>1, <2>2
  <2>4. QED
    BY <1>7, <2>3 DEF UnassignRole, Enter
<1>8. ASSUME NEW p \in Perms, NEW c \in Codes, CreatePermission(s, a, p, c)
      PROVE  \E q : Take(s, q) /\ Sound(q)
  <2> DEFINE q == [Idle EXCEPT !.op = "create_permission", !.perm = p, !.code = c]
  <2>1. Formed(q)
    BY DEF Formed
  <2>2. Sound(q)
    BY <1>1, <2>1
  <2>3. QED
    BY <1>8, <2>2 DEF CreatePermission, Enter
<1>9. ASSUME NEW p \in Perms, NEW c \in Codes, UpdatePermission(s, a, p, c)
      PROVE  \E q : Take(s, q) /\ Sound(q)
  <2> DEFINE q == [Idle EXCEPT !.op = "update_permission", !.perm = p,
                               !.code = Changed(perms[p].code, c)]
  <2>1. Formed(q)
    BY DEF Formed, Changed
  <2>2. Sound(q)
    BY <1>1, <2>1
  <2>3. QED
    BY <1>9, <2>2 DEF UpdatePermission, Enter
<1>10. ASSUME NEW p \in Perms, DeletePermission(s, a, p)
       PROVE  \E q : Take(s, q) /\ Sound(q)
  <2> DEFINE q == [Idle EXCEPT !.op = "delete_permission", !.perm = p]
  <2>1. Formed(q)
    BY DEF Formed
  <2>2. Sound(q)
    BY <1>10, <2>1 DEF DeletePermission, Sound, RowThere, RoleFree, PermLive,
                       PermFree, StillManages, StillLinked, OtherSource
  <2>3. QED
    BY <1>10, <2>2 DEF DeletePermission, Enter
<1>11. ASSUME NEW r \in Roles, NEW p \in Perms, AssignToRole(s, a, r, p)
       PROVE  \E q : Take(s, q) /\ Sound(q)
  <2> DEFINE q == [Idle EXCEPT !.op = "assign_to_role", !.role = r, !.perm = p]
  <2>1. Formed(q)
    BY DEF Formed
  <2>2. Sound(q)
    BY <1>11, <2>1 DEF AssignToRole, Live, Sound, RowThere, RoleFree, PermLive,
                       PermFree, StillManages, StillLinked, OtherSource
  <2>3. QED
    BY <1>11, <2>2 DEF AssignToRole, Enter
<1>12. ASSUME NEW r \in Roles, NEW p \in Perms, UnassignFromRole(s, a, r, p)
       PROVE  \E q : Take(s, q) /\ Sound(q)
  <2> DEFINE q == [Idle EXCEPT !.op = "unassign_from_role", !.role = r, !.perm = p]
  <2>1. Formed(q)
    BY DEF Formed
  <2>2. Sound(q)
    BY <1>1, <2>1
  <2>3. QED
    BY <1>12, <2>2 DEF UnassignFromRole, Enter
<1>13. ASSUME NEW u \in Users, NEW r \in Roles \cup {Keep}, NEW active \in BOOLEAN \cup {Keep},
              UpdateUser(s, a, u, r, active)
       PROVE  \E q : Take(s, q) /\ Sound(q)
  <2> DEFINE q == [Idle EXCEPT !.op = "update_user", !.user = u,
                               !.role = Changed(users[u].role, r),
                               !.active = Changed(users[u].active, active)]
  <2>1. Formed(q)
    BY RowsAssumption DEF Formed, Changed
  <2>2. users[u].state = "live"
    BY <1>13 DEF UpdateUser, Live
  <2>3. Sound(q)
    BY <1>2, <2>1, <2>2
  <2>4. QED
    BY <1>13, <2>3 DEF UpdateUser, Enter
<1>14. ASSUME NEW u \in Users, SoftDeleteUser(s, a, u)
       PROVE  \E q : Take(s, q) /\ Sound(q)
  <2> DEFINE q == [Idle EXCEPT !.op = "soft_delete_user", !.by = a, !.user = u,
                               !.active = Changed(users[u].active, FALSE)]
  <2>1. Formed(q)
    BY <1>14, RowsAssumption DEF Formed, Changed, SoftDeleteUser
  <2>2. users[u].state = "live" /\ Manages(a)
    BY <1>14 DEF SoftDeleteUser, Enter, Live, Manages
  <2>3. Sound(q)
    BY <1>2, <2>1, <2>2
  <2>4. QED
    BY <1>14, <2>3 DEF SoftDeleteUser, Enter
<1>15. ASSUME NEW u \in Users, DeactivateUser(s, a, u)
       PROVE  \E q : Take(s, q) /\ Sound(q)
  <2> DEFINE q == [Idle EXCEPT !.op = "deactivate_user", !.by = a, !.user = u,
                               !.active = Changed(users[u].active, FALSE)]
  <2>1. Formed(q)
    BY <1>15, RowsAssumption DEF Formed, Changed, DeactivateUser
  <2>2. users[u].state = "live" /\ Manages(a)
    BY <1>15 DEF DeactivateUser, Enter, Live, Manages
  <2>3. Sound(q)
    BY <1>2, <2>1, <2>2
  <2>4. QED
    BY <1>15, <2>3 DEF DeactivateUser, Enter
<1>16. ASSUME NEW u \in Users, ActivateUser(s, a, u)
       PROVE  \E q : Take(s, q) /\ Sound(q)
  <2> DEFINE q == [Idle EXCEPT !.op = "activate_user", !.user = u,
                               !.active = Changed(users[u].active, TRUE)]
  <2>1. Formed(q)
    BY RowsAssumption DEF Formed, Changed
  <2>2. users[u].state = "live"
    BY <1>16 DEF ActivateUser, Live
  <2>3. Sound(q)
    BY <1>2, <2>1, <2>2
  <2>4. QED
    BY <1>16, <2>3 DEF ActivateUser, Enter
<1>17. QED
  BY <1>3, <1>4, <1>5, <1>6, <1>7, <1>8, <1>9, <1>10, <1>11, <1>12, <1>13, <1>14, <1>15, <1>16
  DEF Ask, RoleRoutes, PermissionRoutes, AdminRoutes

LEMMA OAuthTakes ==
  ASSUME RowsInv, NEW s \in Slots, NEW u \in Users, NEW v \in Providers,
         Return(s, u, v) \/ Arrive(s, u, v) \/ Unlink(s, u, v)
  PROVE  (\E q : Take(s, q) /\ Sound(q)) /\ UNCHANGED oauthVars
<1> USE DEF Idle, Request, UserOps, Removals, OAuthOps, RoleOps, PermOps, GrantOps
<1>1. CASE Return(s, u, v)
  <2> DEFINE q == [Idle EXCEPT !.op = "callback", !.user = u, !.via = v,
                               !.link = v \notin account[u].links,
                               !.value = Changed(account[u].source, v)]
  <2>1. Formed(q)
    BY RowsAssumption DEF Formed, Changed
  <2>2. users[u].state = "live"
    BY <1>1 DEF Return, Live
  <2>3. RowThere(q) /\ RoleFree(q) /\ PermLive(q) /\ PermFree(q)
    BY <2>2 DEF RowThere, RoleFree, PermLive, PermFree
  <2>4. StillManages(q) /\ StillLinked(q) /\ OtherSource(q)
    BY DEF StillManages, StillLinked, OtherSource
  <2>5. QED
    BY <1>1, <2>1, <2>3, <2>4 DEF Return, Sound
<1>2. CASE Arrive(s, u, v)
  <2>1. PICK r \in Roles \cup {Null} :
             /\ Take(s, [Idle EXCEPT !.op = "callback", !.user = u, !.via = v, !.role = r,
                                     !.link = TRUE, !.value = v])
             /\ UNCHANGED oauthVars
    BY <1>2 DEF Arrive
  <2> DEFINE q == [Idle EXCEPT !.op = "callback", !.user = u, !.via = v, !.role = r,
                               !.link = TRUE, !.value = v]
  <2>2. Formed(q)
    BY DEF Formed
  <2>3. Sound(q)
    BY <2>2, RowsAssumption
    DEF Sound, RowThere, RoleFree, PermLive, PermFree, StillManages,
        StillLinked, OtherSource
  <2>4. QED
    BY <2>1, <2>3
<1>3. CASE Unlink(s, u, v)
  <2> DEFINE q == [Idle EXCEPT !.op = "unlink", !.user = u, !.via = v,
                               !.value = IF account[u].source = v THEN "email" ELSE Keep]
  <2>1. Formed(q)
    BY DEF Formed
  <2>2. RowThere(q) /\ RoleFree(q) /\ PermLive(q) /\ PermFree(q)
    BY <1>3 DEF Unlink, RowThere, RoleFree, PermLive, PermFree
  <2>3. StillManages(q) /\ StillLinked(q) /\ OtherSource(q)
    BY RowsAssumption DEF StillManages, StillLinked, OtherSource
  <2>4. QED
    BY <1>3, <2>1, <2>2, <2>3 DEF Unlink, Sound
<1>4. QED
  BY <1>1, <1>2, <1>3

-----------------------------------------------------------------------------
\* A request that ends.

\* What Leave does to every request: the others go on as they were.
LEMMA LeaveEnds ==
  ASSUME RowsInv, NEW s \in Slots, Leave(s)
  PROVE  /\ \A t \in Slots : req'[t] = IF t = s THEN Idle ELSE req[t]
         /\ req' \in [Slots -> Request]
         /\ crossed' = crossed /\ begun' = begun
         /\ weakened => weakened'
         /\ weakened' \in BOOLEAN
         /\ Met'
<1>1. \A t \in Slots : req'[t] = IF t = s THEN Idle ELSE req[t]
  BY DEF Leave, RowsInv, TypeOK
<1>2. req' \in [Slots -> Request]
  BY IdleSound DEF Leave, RowsInv, TypeOK, Sound, Formed
<1>3. Met'
  <2> SUFFICES ASSUME NEW t \in Slots, NEW x \in Slots, t # x
               PROVE  (Uses(req[t]) \cap Takes(req[x]))' \subseteq crossed'
    BY DEF Met
  <2>1. Uses(req[t])' = Uses(req'[t]) /\ Takes(req[x])' = Takes(req'[x])
    BY DEF Uses, Takes
  <2>2. QED
    BY <1>1, <2>1, IdleSound DEF Leave, RowsInv, Met
<1>4. QED
  BY <1>1, <1>2, <1>3 DEF Leave, RowsInv, TypeOK

\* The parts of Sound that a write may disturb, of the requests that go on.
Others(s) == Slots \ {s}

\* It is enough to look at those.
LEMMA SoundAfter ==
  ASSUME RowsInv, NEW s \in Slots, Leave(s),
         \A t \in Others(s) : RowThere(req[t])' /\ RoleFree(req[t])',
         \A t \in Others(s) : PermLive(req[t])' /\ PermFree(req[t])',
         \A t \in Others(s) : StillManages(req[t])',
         \A t \in Others(s) : StillLinked(req[t])' /\ OtherSource(req[t])'
  PROVE  \A t \in Slots : Sound(req[t])'
<1> SUFFICES ASSUME NEW t \in Slots PROVE Sound(req[t])'
  OBVIOUS
<1>1. CASE t = s
  <2>1. req'[t] = Idle
    BY <1>1, LeaveEnds
  <2>2. Formed(req'[t])
    BY <2>1, IdleSound DEF Sound
  <2>3. QED
    BY <2>1, <2>2 DEF Sound, Formed, RowThere, RoleFree, PermLive, PermFree,
                      StillManages, StillLinked, OtherSource, Idle, UserOps, Removals
<1>2. CASE t # s
  <2>1. req'[t] = req[t] /\ Formed(req[t])
    BY <1>2, LeaveEnds DEF RowsInv, Sound
  <2>2. Formed(req[t])'
    BY <2>1 DEF Formed
  <2>3. QED
    BY <1>2, <2>2 DEF Sound, Others
<1>3. QED
  BY <1>1, <1>2

LEMMA UsersKept ==
  ASSUME RowsInv, NEW s \in Slots, Leave(s), users' = users
  PROVE  /\ \A t \in Others(s) : RowThere(req[t])' /\ RoleFree(req[t])'
         /\ AbsentNoRole'
<1>1. ASSUME NEW t \in Others(s)
      PROVE  RowThere(req[t])' /\ RoleFree(req[t])'
  <2>1. t \in Slots /\ req'[t] = req[t] /\ crossed' = crossed
    BY LeaveEnds DEF Others
  <2>2. QED
    BY <2>1 DEF RowsInv, Sound, RowThere, RoleFree
<1>2. QED
  BY <1>1 DEF RowsInv, AbsentNoRole

LEMMA GrantsKept ==
  ASSUME RowsInv, NEW s \in Slots, Leave(s), perms' = perms, grants' \subseteq grants
  PROVE  /\ \A t \in Others(s) : PermLive(req[t])' /\ PermFree(req[t])'
         /\ HeldPermissionLive'
<1>1. ASSUME NEW t \in Others(s)
      PROVE  PermLive(req[t])' /\ PermFree(req[t])'
  <2>1. t \in Slots /\ req'[t] = req[t] /\ crossed' = crossed
    BY LeaveEnds DEF Others
  <2>2. QED
    BY <2>1 DEF RowsInv, Sound, PermLive, PermFree
<1>2. QED
  BY <1>1, LeaveEnds DEF RowsInv, HeldPermissionLive

LEMMA AccountsKept ==
  ASSUME RowsInv, NEW s \in Slots, Leave(s), UNCHANGED oauthVars
  PROVE  /\ \A t \in Others(s) : StillLinked(req[t])' /\ OtherSource(req[t])'
         /\ OAuthTypeOK' /\ SourceLinked'
<1>1. ASSUME NEW t \in Others(s)
      PROVE  StillLinked(req[t])' /\ OtherSource(req[t])'
  <2>1. t \in Slots /\ req'[t] = req[t] /\ crossed' = crossed
    BY LeaveEnds DEF Others
  <2>2. QED
    BY <2>1 DEF RowsInv, Sound, StillLinked, OtherSource, oauthVars
<1>2. QED
  BY <1>1, LeaveEnds DEF RowsInv, OAuthTypeOK, SourceLinked, oauthVars

\* A request that removes nobody leaves the managers their rights, or is noted.
LEMMA ManagersKept ==
  ASSUME RowsInv, NEW s \in Slots, Leave(s), req[s].op \notin Removals
  PROVE  ManagerRemains' /\ \A t \in Others(s) : StillManages(req[t])'
<1>1. \A u \in Users : Manages(u) => weakened' \/ Manages(u)'
  BY DEF Leave
<1>2. ManagerRemains'
  BY <1>1, LeaveEnds DEF RowsInv, ManagerRemains
<1>3. ASSUME NEW t \in Others(s) PROVE StillManages(req[t])'
  <2>1. t \in Slots /\ req'[t] = req[t] /\ crossed' = crossed /\ (weakened => weakened')
    BY LeaveEnds DEF Others
  <2>2. SUFFICES ASSUME req[t].op \in Removals
                 PROVE  weakened' \/ req[t].by \in crossed \/ Manages(req[t].by)'
    BY <2>1 DEF StillManages
  <2>3. PICK u \in Users : u = req[t].by
    BY <2>1, <2>2 DEF RowsInv, Sound, Formed
  <2>4. weakened \/ u \in crossed \/ Manages(u)
    BY <2>1, <2>2, <2>3 DEF RowsInv, Sound, StillManages
  <2>5. Manages(u)' => Manages(req[t].by)'
    BY <2>1, <2>3 DEF Manages, May
  <2>6. QED
    BY <1>1, <2>1, <2>3, <2>4, <2>5
<1>4. QED
  BY <1>2, <1>3

-----------------------------------------------------------------------------
\* Each write keeps the invariant.

LEMMA FailKeeps ==
  ASSUME RowsInv, NEW s \in Slots, Fail(s), UNCHANGED oauthVars
  PROVE  RowsInv'
<1>1. Leave(s) /\ UNCHANGED <<users, roles, perms, grants>>
  BY DEF Fail
<1>2. ManagerRemains' /\ \A t \in Others(s) : StillManages(req[t])'
  <2>1. \A u \in Users : Manages(u)' <=> Manages(u)
    BY <1>1 DEF Manages, May
  <2>2. weakened' = weakened
    BY <1>1, <2>1 DEF Leave, RowsInv, TypeOK
  <2>3. ManagerRemains'
    BY <1>1, <2>1, <2>2, LeaveEnds DEF RowsInv, ManagerRemains
  <2>4. ASSUME NEW t \in Others(s) PROVE StillManages(req[t])'
    <3>1. t \in Slots /\ req'[t] = req[t] /\ crossed' = crossed
      BY <1>1, LeaveEnds DEF Others
    <3>2. QED
      BY <1>1, <2>2, <3>1 DEF RowsInv, Sound, StillManages, Manages, May
  <2>5. QED
    BY <2>3, <2>4
<1>3. TypeOK'
  BY <1>1, LeaveEnds DEF RowsInv, TypeOK
<1>4. QED
  BY <1>1, <1>2, <1>3, LeaveEnds, SoundAfter, UsersKept, GrantsKept, AccountsKept DEF RowsInv

LEMMA RoleWriteKeeps ==
  ASSUME RowsInv, NEW s \in Slots, InsertRole(s) \/ WriteRole(s), UNCHANGED oauthVars
  PROVE  RowsInv'
<1>1. Leave(s) /\ UNCHANGED <<users, perms, grants>> /\ req[s].op \notin Removals
  BY DEF InsertRole, WriteRole, Removals
<1>2. roles' \in [Roles -> [state : {"absent", "live", "gone"}, short : Shorts]]
  <2>1. Formed(req[s])
    BY DEF RowsInv, Sound
  <2>2. CASE InsertRole(s)
    BY <2>1, <2>2 DEF InsertRole, RowsInv, TypeOK, Formed, RoleOps
  <2>3. CASE WriteRole(s)
    BY <2>1, <2>3 DEF WriteRole, RowsInv, TypeOK, Formed, RoleOps, Column
  <2>4. QED
    BY <2>2, <2>3
<1>3. TypeOK'
  BY <1>1, <1>2, LeaveEnds DEF RowsInv, TypeOK
<1>4. QED
  BY <1>1, <1>3, LeaveEnds, SoundAfter, UsersKept, GrantsKept, AccountsKept, ManagersKept
  DEF RowsInv

LEMMA RemoveRoleKeeps ==
  ASSUME RowsInv, NEW s \in Slots, RemoveRole(s), UNCHANGED oauthVars
  PROVE  RowsInv'
<1>1. Leave(s) /\ perms' = perms /\ req[s].op = "delete_role" /\ req[s].role \in Roles
  BY DEF RemoveRole, RowsInv, Sound, Formed, RoleOps
<1>2. \A u \in Users : /\ users'[u].state = users[u].state
                       /\ users'[u].role \in {users[u].role, Null}
  BY DEF RemoveRole, RowsInv, TypeOK
<1>3. /\ \A t \in Others(s) : RowThere(req[t])' /\ RoleFree(req[t])'
      /\ AbsentNoRole'
  <2>1. ASSUME NEW t \in Others(s)
        PROVE  RowThere(req[t])' /\ RoleFree(req[t])'
    <3>1. t \in Slots /\ req'[t] = req[t] /\ crossed' = crossed /\ Sound(req[t])
      BY <1>1, LeaveEnds DEF Others, RowsInv
    <3>2. RowThere(req[t])'
      BY <1>2, <3>1 DEF Sound, Formed, RowThere, Request, OAuthOps, UserOps
    <3>3. RoleFree(req[t])'
      BY <1>2, <3>1, RowsAssumption DEF Sound, Formed, RoleFree, RoleOps
    <3>4. QED
      BY <3>2, <3>3
  <2>2. QED
    BY <1>2, <2>1 DEF RowsInv, AbsentNoRole
<1>4. TypeOK'
  <2>1. roles' \in [Roles -> [state : {"absent", "live", "gone"}, short : Shorts]]
    BY <1>1 DEF RemoveRole, RowsInv, TypeOK
  <2>2. users' \in [Users -> [state : {"absent", "live", "deleted"}, active : BOOLEAN,
                              role : Roles \cup {Null}]]
    BY DEF RemoveRole, RowsInv, TypeOK
  <2>3. grants' \subseteq Roles \X Perms
    BY DEF RemoveRole, RowsInv, TypeOK
  <2>4. QED
    BY <1>1, <2>1, <2>2, <2>3, LeaveEnds DEF RowsInv, TypeOK
<1>5. grants' \subseteq grants
  BY DEF RemoveRole
<1>6. req[s].op \notin Removals
  BY <1>1 DEF Removals
<1>7. QED
  BY <1>1, <1>3, <1>4, <1>5, <1>6, LeaveEnds, SoundAfter, GrantsKept, AccountsKept, ManagersKept
  DEF RowsInv

LEMMA PermissionWriteKeeps ==
  ASSUME RowsInv, NEW s \in Slots, InsertPermission(s) \/ WritePermission(s), UNCHANGED oauthVars
  PROVE  RowsInv'
<1> DEFINE q == req[s]
<1>1. /\ Leave(s) /\ UNCHANGED <<users, roles, grants>> /\ q.op \notin Removals
      /\ q.perm \in Perms
  BY DEF InsertPermission, WritePermission, Removals, RowsInv, Sound, Formed, PermOps
<1>2. /\ perms' \in [Perms -> [state : {"absent", "live", "deleted"}, code : Codes]]
      /\ \A p \in Perms : perms[p].state = "live" =>
           perms'[p].state = "live" \/ (q.op = "delete_permission" /\ p = q.perm)
  <2>1. Formed(q)
    BY DEF RowsInv, Sound
  <2>2. CASE InsertPermission(s)
    BY <2>1, <2>2 DEF InsertPermission, RowsInv, TypeOK, Formed
  <2>3. CASE WritePermission(s)
    BY <2>1, <2>3, <1>1 DEF WritePermission, RowsInv, TypeOK, Formed, Request, Column
  <2>4. QED
    BY <2>2, <2>3
<1>3. /\ \A t \in Others(s) : PermLive(req[t])' /\ PermFree(req[t])'
      /\ HeldPermissionLive'
  <2>1. ASSUME NEW t \in Others(s)
        PROVE  PermLive(req[t])' /\ PermFree(req[t])'
    <3>1. t \in Slots /\ t # s /\ req'[t] = req[t] /\ crossed' = crossed /\ Sound(req[t])
      BY <1>1, LeaveEnds DEF Others, RowsInv
    <3>2. PermFree(req[t])'
      BY <1>1, <3>1 DEF Sound, PermFree
    <3>3. ASSUME req[t].op = "assign_to_role"
          PROVE  perms'[req[t].perm].state = "live" \/ req[t].perm \in crossed
      <4>1. req[t].perm \in Perms /\ Uses(req[t]) = {req[t].perm}
        BY <3>1, <3>3 DEF Sound, Formed, GrantOps, Uses
      <4>2. q.op = "delete_permission" => Takes(q) = {q.perm}
        BY DEF Takes
      <4>3. q.op = "delete_permission" /\ q.perm = req[t].perm => q.perm \in crossed
        BY <3>1, <4>1, <4>2 DEF RowsInv, Met
      <4>4. QED
        BY <1>2, <3>1, <3>3, <4>1, <4>3 DEF Sound, PermLive
    <3>4. QED
      BY <3>1, <3>2, <3>3 DEF PermLive
  <2>2. q.op = "delete_permission" =>
          \A r \in Roles : <<r, q.perm>> \in grants => q.perm \in crossed
    BY DEF RowsInv, Sound, PermFree
  <2>3. HeldPermissionLive'
    BY <1>1, <1>2, <2>2, LeaveEnds DEF RowsInv, HeldPermissionLive
  <2>4. QED
    BY <2>1, <2>3
<1>4. TypeOK'
  BY <1>1, <1>2, LeaveEnds DEF RowsInv, TypeOK
<1>5. QED
  BY <1>1, <1>3, <1>4, LeaveEnds, SoundAfter, UsersKept, AccountsKept, ManagersKept DEF RowsInv

LEMMA GrantWriteKeeps ==
  ASSUME RowsInv, NEW s \in Slots, InsertGrant(s) \/ DeleteGrant(s), UNCHANGED oauthVars
  PROVE  RowsInv'
<1> DEFINE q == req[s]
<1>1. /\ Leave(s) /\ UNCHANGED <<users, roles, perms>> /\ q.op \notin Removals
      /\ q.role \in Roles /\ q.perm \in Perms
  BY DEF InsertGrant, DeleteGrant, Removals, RowsInv, Sound, Formed, GrantOps
<1>2. \A g \in grants' \ grants : q.op = "assign_to_role" /\ g = <<q.role, q.perm>>
  BY DEF InsertGrant, DeleteGrant
<1>3. /\ \A t \in Others(s) : PermLive(req[t])' /\ PermFree(req[t])'
      /\ HeldPermissionLive'
  <2>1. ASSUME NEW t \in Others(s)
        PROVE  PermLive(req[t])' /\ PermFree(req[t])'
    <3>1. t \in Slots /\ t # s /\ req'[t] = req[t] /\ crossed' = crossed /\ Sound(req[t])
      BY <1>1, LeaveEnds DEF Others, RowsInv
    <3>2. PermLive(req[t])'
      BY <1>1, <3>1 DEF Sound, PermLive
    <3>3. ASSUME req[t].op = "delete_permission", NEW r \in Roles, <<r, req[t].perm>> \in grants'
          PROVE  req[t].perm \in crossed
      <4>1. Takes(req[t]) = {req[t].perm}
        BY <3>3 DEF Takes
      <4>2. q.op = "assign_to_role" => Uses(q) = {q.perm}
        BY DEF Uses
      <4>3. q.op = "assign_to_role" /\ q.perm = req[t].perm => q.perm \in crossed
        BY <3>1, <4>1, <4>2 DEF RowsInv, Met
      <4>4. QED
        BY <1>2, <3>1, <3>3, <4>3 DEF Sound, PermFree
    <3>4. QED
      BY <3>1, <3>2, <3>3 DEF PermFree
  <2>2. q.op = "assign_to_role" => perms[q.perm].state = "live" \/ q.perm \in crossed
    BY DEF RowsInv, Sound, PermLive
  <2>3. HeldPermissionLive'
    BY <1>1, <1>2, <2>2, LeaveEnds DEF RowsInv, HeldPermissionLive
  <2>4. QED
    BY <2>1, <2>3
<1>4. TypeOK'
  <2>1. grants' \subseteq Roles \X Perms
    BY <1>1, <1>2 DEF RowsInv, TypeOK
  <2>2. QED
    BY <1>1, <2>1, LeaveEnds DEF RowsInv, TypeOK
<1>5. QED
  BY <1>1, <1>3, <1>4, LeaveEnds, SoundAfter, UsersKept, AccountsKept, ManagersKept DEF RowsInv

\* A removal takes rights from one user only, and its caller is another.
LEMMA RemovalLeavesCaller ==
  ASSUME RowsInv, NEW s \in Slots, WriteUser(s), req[s].op \in Removals
  PROVE  ManagerRemains' /\ \A t \in Others(s) : StillManages(req[t])'
<1> DEFINE q == req[s]
<1>1. /\ Leave(s) /\ UNCHANGED <<roles, perms, grants>>
      /\ q.user \in Users /\ q.by \in Users /\ q.by # q.user
  BY DEF WriteUser, RowsInv, Sound, Formed, UserOps
<1>2. \A u \in Users \ {q.user} : users'[u] = users[u]
  BY DEF WriteUser, RowsInv, TypeOK
<1>3. \A u \in Users \ {q.user} : Manages(u) => Manages(u)'
  BY <1>1, <1>2 DEF Manages, May
<1>4. weakened \/ q.by \in crossed \/ Manages(q.by)
  BY DEF RowsInv, Sound, StillManages
<1>5. ManagerRemains'
  <2>1. PICK u \in Users : u = q.by
    BY <1>1
  <2>2. Manages(u) => Manages(u)'
    BY <1>1, <1>3, <2>1
  <2>3. QED
    BY <1>1, <1>4, <2>1, <2>2, LeaveEnds DEF ManagerRemains
<1>6. ASSUME NEW t \in Others(s) PROVE StillManages(req[t])'
  <2>1. t \in Slots /\ t # s /\ req'[t] = req[t] /\ crossed' = crossed /\ (weakened => weakened')
    BY <1>1, LeaveEnds DEF Others
  <2>2. SUFFICES ASSUME req[t].op \in Removals
                 PROVE  weakened' \/ req[t].by \in crossed \/ Manages(req[t].by)'
    BY <2>1 DEF StillManages
  <2>3. PICK u \in Users : u = req[t].by
    BY <2>1, <2>2 DEF RowsInv, Sound, Formed
  <2>4. weakened \/ u \in crossed \/ Manages(u)
    BY <2>1, <2>2, <2>3 DEF RowsInv, Sound, StillManages
  <2>5. u = q.user => u \in crossed
    <3>1. Uses(req[t]) = {u} /\ Takes(q) = {q.user}
      BY <2>2, <2>3 DEF Uses, Takes, Removals
    <3>2. QED
      BY <2>1, <3>1 DEF RowsInv, Met
  <2>6. Manages(u)' => Manages(req[t].by)'
    BY <2>1, <2>3 DEF Manages, May
  <2>7. QED
    BY <1>3, <2>1, <2>3, <2>4, <2>5, <2>6
<1>7. QED
  BY <1>5, <1>6

LEMMA WriteUserKeeps ==
  ASSUME RowsInv, NEW s \in Slots, WriteUser(s), UNCHANGED oauthVars
  PROVE  RowsInv'
<1> DEFINE q == req[s]
<1>1. /\ Leave(s) /\ UNCHANGED <<roles, perms, grants>> /\ q.op \in UserOps
      /\ q.user \in Users /\ Formed(q) /\ users[q.user].state # "absent"
  BY DEF WriteUser, RowsInv, Sound, Formed, RowThere
<1>2. users' \in [Users -> [state : {"absent", "live", "deleted"}, active : BOOLEAN,
                            role : Roles \cup {Null}]]
  BY <1>1 DEF WriteUser, RowsInv, TypeOK, Formed, Request, Column
<1>3. /\ \A u \in Users \ {q.user} : users'[u] = users[u]
      /\ users'[q.user].state \in {users[q.user].state, "deleted"}
      /\ users'[q.user].role \in {users[q.user].role, q.role}
  BY <1>1 DEF WriteUser, RowsInv, TypeOK, Column
<1>4. ASSUME NEW t \in Others(s)
      PROVE  RowThere(req[t])' /\ RoleFree(req[t])'
  <2>1. t \in Slots /\ t # s /\ req'[t] = req[t] /\ crossed' = crossed /\ Sound(req[t])
    BY <1>1, LeaveEnds DEF Others, RowsInv
  <2>2. RowThere(req[t])'
    BY <1>3, <2>1 DEF Sound, Formed, RowThere, Request, OAuthOps, UserOps
  <2>3. ASSUME req[t].op = "delete_role", NEW u \in Users, users'[u].state = "live",
               users'[u].role = req[t].role
        PROVE  req[t].role \in crossed
    <3>1. req[t].role \in Roles /\ Takes(req[t]) = {req[t].role}
      BY <2>1, <2>3 DEF Sound, Formed, RoleOps, Takes
    <3>2. q.role \in Roles => Uses(q) = {q.role}
      BY <1>1 DEF Formed, Uses
    <3>3. q.role = req[t].role => q.role \in crossed
      BY <2>1, <3>1, <3>2 DEF RowsInv, Met
    <3>4. users[u].state = "live" /\ (users[u].role = req[t].role \/ (u = q.user /\ q.role = req[t].role))
      BY <1>3, <2>3
    <3>5. QED
      BY <2>1, <2>3, <3>3, <3>4 DEF Sound, RoleFree
  <2>4. QED
    BY <2>1, <2>2, <2>3 DEF RoleFree
<1>5. AbsentNoRole'
  BY <1>1, <1>3 DEF RowsInv, AbsentNoRole
<1>6. TypeOK'
  BY <1>1, <1>2, LeaveEnds DEF RowsInv, TypeOK
<1>7. ManagerRemains' /\ \A t \in Others(s) : StillManages(req[t])'
  BY <1>1, ManagersKept, RemovalLeavesCaller
<1>8. QED
  BY <1>1, <1>4, <1>5, <1>6, <1>7, LeaveEnds, SoundAfter, GrantsKept, AccountsKept DEF RowsInv

LEMMA InsertUserKeeps ==
  ASSUME RowsInv, NEW s \in Slots, InsertUser(s)
  PROVE  RowsInv'
<1> DEFINE q == req[s]
<1>1. /\ Leave(s) /\ UNCHANGED <<roles, perms, grants>> /\ q.op = "callback" /\ q.role # Keep
      /\ q.user \in Users /\ q.via \in Providers /\ Formed(q) /\ q.value = q.via
      /\ users[q.user].state = "absent"
  BY DEF InsertUser, RowsInv, Sound, Formed, OAuthOps
<1>2. /\ \A u \in Users \ {q.user} : users'[u] = users[u] /\ account'[u] = account[u]
      /\ users'[q.user] = [state |-> "live", active |-> TRUE, role |-> q.role]
      /\ account'[q.user] = [links |-> {q.via}, source |-> q.via]
  BY <1>1 DEF InsertUser, RowsInv, TypeOK, OAuthTypeOK
<1>3. ASSUME NEW t \in Others(s)
      PROVE  /\ RowThere(req[t])' /\ RoleFree(req[t])'
             /\ StillLinked(req[t])' /\ OtherSource(req[t])'
  <2>1. t \in Slots /\ t # s /\ req'[t] = req[t] /\ crossed' = crossed /\ Sound(req[t])
    BY <1>1, LeaveEnds DEF Others, RowsInv
  <2>2. RowThere(req[t])'
    BY <1>1, <1>2, <2>1 DEF Sound, Formed, RowThere, Request, OAuthOps, UserOps
  <2>3. ASSUME req[t].op = "delete_role", NEW u \in Users, users'[u].state = "live",
               users'[u].role = req[t].role
        PROVE  req[t].role \in crossed
    <3>1. req[t].role \in Roles /\ Takes(req[t]) = {req[t].role}
      BY <2>1, <2>3 DEF Sound, Formed, RoleOps, Takes
    <3>2. q.role \in Uses(q) \/ q.role \notin Roles
      BY <1>1 DEF Uses, Removals
    <3>3. q.role = req[t].role => q.role \in crossed
      BY <2>1, <3>1, <3>2 DEF RowsInv, Met
    <3>4. QED
      BY <1>2, <2>1, <2>3, <3>3 DEF Sound, RoleFree
  <2>4. /\ req[t].op = "unlink" => req[t].user # q.user
        /\ req[t].op = "callback" /\ req[t].role = Keep => req[t].user # q.user
    BY <1>1, <2>1 DEF Sound, RowThere
  <2>5. StillLinked(req[t])' /\ OtherSource(req[t])'
    BY <1>2, <2>1, <2>4 DEF Sound, Formed, StillLinked, OtherSource, OAuthOps
  <2>6. QED
    BY <2>1, <2>2, <2>3, <2>5 DEF RoleFree
<1>4. AbsentNoRole' /\ SourceLinked'
  BY <1>1, <1>2, LeaveEnds DEF RowsInv, AbsentNoRole, SourceLinked
<1>5. TypeOK' /\ OAuthTypeOK'
  <2>1. users' \in [Users -> [state : {"absent", "live", "deleted"}, active : BOOLEAN,
                              role : Roles \cup {Null}]]
    BY <1>1 DEF InsertUser, RowsInv, TypeOK, Formed, Request
  <2>2. account' \in [Users -> Accountable] /\ signedIn' \subseteq Users
    BY <1>1 DEF InsertUser, RowsInv, OAuthTypeOK, Accountable
  <2>3. QED
    BY <1>1, <2>1, <2>2, LeaveEnds DEF RowsInv, TypeOK, OAuthTypeOK
<1>6. q.op \notin Removals
  BY <1>1 DEF Removals
<1>7. QED
  BY <1>1, <1>3, <1>4, <1>5, <1>6, LeaveEnds, SoundAfter, GrantsKept, ManagersKept DEF RowsInv

\* A callback sets the source to what it links, an unlink takes it away.
LEMMA ReturningKeeps ==
  ASSUME RowsInv, NEW s \in Slots, WriteReturning(s)
  PROVE  RowsInv'
<1> DEFINE q == req[s]
           u == q.user
<1>1. /\ Leave(s) /\ UNCHANGED <<users, roles, perms, grants, signedIn>>
      /\ q.op = "callback" /\ q.role = Keep /\ u \in Users /\ q.via \in Providers
      /\ q.value \in {q.via, Keep} /\ q.via # Keep
  BY RowsAssumption DEF WriteReturning, RowsInv, Sound, Formed, OAuthOps
<1>2. account' = [account EXCEPT ![u] =
                    [links  |-> IF q.link THEN @.links \cup {q.via} ELSE @.links,
                     source |-> Column(@.source, q.value)]]
  BY DEF WriteReturning
<1>3. /\ \A w \in Users \ {u} : account'[w] = account[w]
      /\ account'[u].links = IF q.link THEN account[u].links \cup {q.via} ELSE account[u].links
      /\ account'[u].source = Column(account[u].source, q.value)
  BY <1>1, <1>2 DEF RowsInv, OAuthTypeOK
<1>4. /\ account[u].links \subseteq account'[u].links
      /\ account'[u].source \in {account[u].source, q.via}
      /\ account'[u].source # account[u].source => account'[u].source = q.via
  BY <1>1, <1>3 DEF Column
<1>5. q.via \in account'[u].links \/ <<u, q.via>> \in crossed
  BY <1>1, <1>3 DEF RowsInv, Sound, StillLinked
<1>6. ASSUME NEW t \in Others(s)
      PROVE  StillLinked(req[t])' /\ OtherSource(req[t])'
  <2>1. t \in Slots /\ t # s /\ req'[t] = req[t] /\ crossed' = crossed /\ Sound(req[t])
    BY <1>1, LeaveEnds DEF Others, RowsInv
  <2>2. StillLinked(req[t])'
    BY <1>3, <1>4, <2>1 DEF Sound, Formed, StillLinked, OAuthOps
  <2>3. ASSUME req[t].op = "unlink", req[t].user = u, req[t].via = q.via
        PROVE  <<u, q.via>> \in crossed
    <3>1. Takes(req[t]) = {<<u, q.via>>} /\ <<u, q.via>> \in Uses(q)
      BY <1>1, <2>3 DEF Takes, Uses, Removals
    <3>2. QED
      BY <2>1, <3>1 DEF RowsInv, Met
  <2>4. OtherSource(req[t])'
    BY <1>3, <1>4, <2>1, <2>3 DEF Sound, Formed, OtherSource, OAuthOps
  <2>5. QED
    BY <2>2, <2>4
<1>7. SourceLinked'
  <2>1. crossed' = crossed
    BY <1>1, LeaveEnds
  <2>2. \A w \in Users \ {u} : account'[w].source \in account'[w].links \cup {"email"}
                               \/ <<w, account'[w].source>> \in crossed
    BY <1>3 DEF RowsInv, SourceLinked
  <2>3. account'[u].source \in account'[u].links \cup {"email"} \/ <<u, account'[u].source>> \in crossed
    BY <1>1, <1>4, <1>5 DEF RowsInv, SourceLinked
  <2>4. QED
    BY <2>1, <2>2, <2>3 DEF SourceLinked
<1>8. TypeOK' /\ OAuthTypeOK'
  <2>1. account' \in [Users -> Accountable]
    BY <1>1, <1>2 DEF RowsInv, OAuthTypeOK, Accountable, Column
  <2>2. QED
    BY <1>1, <2>1, LeaveEnds DEF RowsInv, TypeOK, OAuthTypeOK
<1>9. q.op \notin Removals
  BY <1>1 DEF Removals
<1>10. QED
  BY <1>1, <1>6, <1>7, <1>8, <1>9, LeaveEnds, SoundAfter, UsersKept, GrantsKept, ManagersKept
  DEF RowsInv

LEMMA UnlinkKeeps ==
  ASSUME RowsInv, NEW s \in Slots, WriteUnlink(s)
  PROVE  RowsInv'
<1> DEFINE q == req[s]
           u == q.user
<1>1. /\ Leave(s) /\ UNCHANGED <<users, roles, perms, grants, signedIn>>
      /\ q.op = "unlink" /\ u \in Users /\ q.via \in Providers
      /\ q.value \in {"email", Keep} /\ q.via # "email" /\ "email" # Keep
  BY RowsAssumption, LinkedAssumption DEF WriteUnlink, RowsInv, Sound, Formed, OAuthOps
<1>2. account' = [account EXCEPT ![u] = [links  |-> @.links \ {q.via},
                                         source |-> Column(@.source, q.value)]]
  BY DEF WriteUnlink
<1>3. /\ \A w \in Users \ {u} : account'[w] = account[w]
      /\ account'[u].links = account[u].links \ {q.via}
      /\ account'[u].source = Column(account[u].source, q.value)
  BY <1>1, <1>2 DEF RowsInv, OAuthTypeOK
<1>4. q.value = Keep => account[u].source # q.via \/ <<u, q.via>> \in crossed
  BY <1>1 DEF RowsInv, Sound, OtherSource
<1>5. ASSUME NEW t \in Others(s)
      PROVE  StillLinked(req[t])' /\ OtherSource(req[t])'
  <2>1. t \in Slots /\ t # s /\ req'[t] = req[t] /\ crossed' = crossed /\ Sound(req[t])
    BY <1>1, LeaveEnds DEF Others, RowsInv
  <2>2. ASSUME req[t].op = "callback", req[t].user = u, req[t].via = q.via, req[t].role = Keep
        PROVE  <<u, q.via>> \in crossed
    <3>1. Takes(q) = {<<u, q.via>>} /\ <<u, q.via>> \in Uses(req[t])
      BY <1>1, <2>2 DEF Takes, Uses, Removals
    <3>2. QED
      BY <2>1, <3>1 DEF RowsInv, Met
  <2>3. StillLinked(req[t])'
    BY <1>3, <2>1, <2>2 DEF Sound, Formed, StillLinked, OAuthOps
  <2>4. req[t].op = "unlink" => req[t].via \in Providers /\ req[t].user \in Users
    BY <2>1 DEF Sound, Formed, OAuthOps
  <2>5. OtherSource(req[t])'
    BY <1>1, <1>3, <2>1, <2>4, LinkedAssumption DEF Sound, OtherSource, Column
  <2>6. QED
    BY <2>3, <2>5
<1>6. SourceLinked'
  <2>1. crossed' = crossed
    BY <1>1, LeaveEnds
  <2>2. \A w \in Users \ {u} : account'[w].source \in account'[w].links \cup {"email"}
                               \/ <<w, account'[w].source>> \in crossed
    BY <1>3 DEF RowsInv, SourceLinked
  <2>3. account'[u].source \in account'[u].links \cup {"email"} \/ <<u, account'[u].source>> \in crossed
    BY <1>1, <1>3, <1>4 DEF RowsInv, SourceLinked, Column
  <2>4. QED
    BY <2>1, <2>2, <2>3 DEF SourceLinked
<1>7. TypeOK' /\ OAuthTypeOK'
  <2>1. account' \in [Users -> Accountable]
    BY <1>1, <1>2 DEF RowsInv, OAuthTypeOK, Accountable, Column
  <2>2. QED
    BY <1>1, <2>1, LeaveEnds DEF RowsInv, TypeOK, OAuthTypeOK
<1>8. q.op \notin Removals
  BY <1>1 DEF Removals
<1>9. QED
  BY <1>1, <1>5, <1>6, <1>7, <1>8, LeaveEnds, SoundAfter, UsersKept, GrantsKept, ManagersKept
  DEF RowsInv

-----------------------------------------------------------------------------
\* The deletion of a role goes on to its flush: it meets the requests under way.
LEMMA CheckUnusedKeeps ==
  ASSUME RowsInv, NEW s \in Slots, CheckUnused(s), UNCHANGED oauthVars
  PROVE  RowsInv'
<1> DEFINE q == [req[s] EXCEPT !.op = "delete_role"]
<1>1. /\ req[s].op = "read_role" /\ Formed(req[s]) /\ req[s] \in Request
      /\ req' = [req EXCEPT ![s] = q] /\ crossed' = crossed \cup Crossing(q)
      /\ UNCHANGED <<users, roles, perms, grants, begun, weakened, account, signedIn>>
      /\ \A u \in Users : ~(users[u].state = "live" /\ users[u].role = q.role)
  BY DEF CheckUnused, RowsInv, Sound, Formed, Live, TypeOK, oauthVars
<1>2. Formed(q)
  BY <1>1 DEF Formed, Request, UserOps, Removals, OAuthOps, RoleOps, PermOps, GrantOps
<1>3. Sound(q)
  <2>1. q.op = "delete_role"
    BY <1>1 DEF Request
  <2>2. QED
    BY <1>1, <1>2, <2>1 DEF Sound, RowThere, RoleFree, PermLive, PermFree, StillManages,
                            StillLinked, OtherSource, UserOps, Removals
<1>4. \A t \in Slots : req'[t] = IF t = s THEN q ELSE req[t]
  BY <1>1 DEF RowsInv, TypeOK
<1>5. crossed \subseteq crossed'
  BY <1>1
<1>6. \A t \in Slots : Sound(req[t])'
  <2> SUFFICES ASSUME NEW t \in Slots PROVE Sound(req[t])'
    OBVIOUS
  <2>1. PICK r : r = req'[t] /\ Sound(r)
    BY <1>3, <1>4 DEF RowsInv
  <2>2. Formed(req[t])' /\ RowThere(req[t])' /\ RoleFree(req[t])'
    BY <1>1, <1>5, <2>1 DEF Sound, Formed, RowThere, RoleFree
  <2>3. PermLive(req[t])' /\ PermFree(req[t])'
    BY <1>1, <1>5, <2>1 DEF Sound, PermLive, PermFree
  <2>4. StillManages(req[t])'
    BY <1>1, <1>5, <2>1 DEF Sound, StillManages, Manages, May
  <2>5. StillLinked(req[t])' /\ OtherSource(req[t])'
    BY <1>1, <1>5, <2>1 DEF Sound, StillLinked, OtherSource
  <2>6. QED
    BY <2>2, <2>3, <2>4, <2>5 DEF Sound
<1>7. Met'
  <2> SUFFICES ASSUME NEW t \in Slots, NEW x \in Slots, t # x
               PROVE  (Uses(req[t]) \cap Takes(req[x]))' \subseteq crossed'
    BY DEF Met
  <2>1. Uses(req[t])' = Uses(req'[t]) /\ Takes(req[x])' = Takes(req'[x])
    BY DEF Uses, Takes
  <2>2. CASE t = s
    <3>1. Uses(q) \cap Takes(req[x]) \subseteq crossed'
      BY <1>1 DEF Crossing
    <3>2. QED
      BY <1>4, <2>1, <2>2, <3>1
  <2>3. CASE x = s
    <3>1. Uses(req[t]) \cap Takes(q) \subseteq crossed'
      BY <1>1 DEF Crossing
    <3>2. QED
      BY <1>4, <2>1, <2>3, <3>1
  <2>4. CASE t # s /\ x # s
    BY <1>4, <1>5, <2>1, <2>4 DEF RowsInv, Met
  <2>5. QED
    BY <2>2, <2>3, <2>4
<1>8. TypeOK' /\ OAuthTypeOK'
  <2>1. crossed' \subseteq Users \cup Roles \cup Perms \cup (Users \X Providers)
    <3>1. \A t \in Slots : Formed(req[t])
      BY DEF RowsInv, Sound
    <3>2. Crossing(q) \subseteq Users \cup Roles \cup Perms \cup (Users \X Providers)
      BY <1>2, <3>1, CrossingTyped DEF Crossing
    <3>3. QED
      BY <1>1, <3>2 DEF RowsInv, TypeOK
  <2>2. req' \in [Slots -> Request]
    BY <1>1, <1>2 DEF RowsInv, TypeOK, Formed
  <2>3. QED
    BY <1>1, <2>1, <2>2 DEF RowsInv, TypeOK, OAuthTypeOK
<1>9. AbsentNoRole' /\ HeldPermissionLive' /\ SourceLinked'
  BY <1>1, <1>5 DEF RowsInv, AbsentNoRole, HeldPermissionLive, SourceLinked
<1>10. ManagerRemains'
  BY <1>1, <1>5 DEF RowsInv, ManagerRemains, Manages, May
<1>11. QED
  BY <1>6, <1>7, <1>8, <1>9, <1>10 DEF RowsInv

LEMMA RowsStep ==
  ASSUME RowsInv, [BackendNext]_allVars
  PROVE  RowsInv'
<1>1. CASE Administration
  <2>1. UNCHANGED oauthVars
    BY <1>1 DEF Administration
  <2>2. ASSUME NEW s \in Slots, Carry(s) PROVE RowsInv'
    BY <2>1, <2>2, WriteUserKeeps, RoleWriteKeeps, RemoveRoleKeeps, PermissionWriteKeeps,
       GrantWriteKeeps, FailKeeps, CheckUnusedKeeps DEF Carry
  <2>3. ASSUME NEW s \in Slots, NEW a \in Users, Ask(s, a) PROVE RowsInv'
    <3>1. PICK q : Take(s, q) /\ Sound(q)
      BY <2>3, AskTakes
    <3>2. QED
      BY <2>1, <3>1, TakeKeeps
  <2>4. QED
    BY <1>1, <2>2, <2>3 DEF Administration, Next
<1>2. CASE OAuth
  <2>1. PICK s \in Slots :
          \/ \E u \in Users, v \in Providers : Return(s, u, v) \/ Arrive(s, u, v) \/ Unlink(s, u, v)
          \/ WriteReturning(s) \/ InsertUser(s) \/ WriteUnlink(s)
    BY <1>2 DEF OAuth, OAuthNext
  <2>2. ASSUME NEW u \in Users, NEW v \in Providers,
               Return(s, u, v) \/ Arrive(s, u, v) \/ Unlink(s, u, v)
        PROVE  RowsInv'
    <3>1. (\E q : Take(s, q) /\ Sound(q)) /\ UNCHANGED oauthVars
      BY <2>2, OAuthTakes
    <3>2. QED
      BY <3>1, TakeKeeps
  <2>3. QED
    BY <2>1, <2>2, ReturningKeeps, InsertUserKeeps, UnlinkKeeps
<1>3. CASE Uploading \/ UNCHANGED allVars
  <2>1. /\ UNCHANGED <<users, roles, perms, grants, req, crossed, weakened, account, signedIn>>
        /\ begun' \in 0..MaxRequests
    <3>1. CASE Uploading
      <4>1. PICK s \in Slots :
              \/ \E a \in Users, f \in Files : Upload(s, a, f) \/ Delete(s, a, f)
              \/ Storage(s) \/ WriteFile(s) \/ Drop(s)
        BY <3>1 DEF Uploading, UploadsNext
      <4>2. ASSUME NEW a \in Users, NEW f \in Files, Upload(s, a, f) \/ Delete(s, a, f)
            PROVE  /\ UNCHANGED <<users, roles, perms, grants, req, crossed, weakened>>
                   /\ begun' \in 0..MaxRequests
        BY <4>2, BoundsAssumption DEF Upload, Delete, Begin, RowsInv, TypeOK
      <4>3. CASE Storage(s) \/ WriteFile(s) \/ Drop(s)
        BY <3>1, <4>3 DEF Storage, WriteFile, Drop, End, vars, RowsInv, TypeOK, Uploading, oauthVars
      <4>4. QED
        BY <3>1, <4>1, <4>2, <4>3 DEF Uploading, oauthVars
    <3>2. CASE UNCHANGED allVars
      BY <3>2 DEF allVars, vars, oauthVars, RowsInv, TypeOK
    <3>3. QED
      BY <1>3, <3>1, <3>2
  <2>2. TypeOK' /\ OAuthTypeOK' /\ AbsentNoRole' /\ HeldPermissionLive' /\ SourceLinked'
    BY <2>1 DEF RowsInv, TypeOK, OAuthTypeOK, AbsentNoRole, HeldPermissionLive, SourceLinked
  <2>3. ManagerRemains'
    BY <2>1 DEF RowsInv, ManagerRemains, Manages, May
  <2>4. Met'
    <3>1. \A s, t \in Slots : Uses(req[s])' = Uses(req[s]) /\ Takes(req[t])' = Takes(req[t])
      BY <2>1 DEF Uses, Takes
    <3>2. QED
      BY <2>1, <3>1 DEF RowsInv, Met
  <2>5. ASSUME NEW s \in Slots PROVE Sound(req[s])'
    <3>1. Sound(req[s]) /\ req'[s] = req[s]
      BY <2>1 DEF RowsInv
    <3>2. Formed(req[s])' /\ RowThere(req[s])' /\ RoleFree(req[s])'
      BY <2>1, <3>1 DEF Sound, Formed, RowThere, RoleFree
    <3>3. PermLive(req[s])' /\ PermFree(req[s])'
      BY <2>1, <3>1 DEF Sound, PermLive, PermFree
    <3>4. StillManages(req[s])'
      BY <2>1, <3>1 DEF Sound, StillManages, Manages, May
    <3>5. StillLinked(req[s])' /\ OtherSource(req[s])'
      BY <2>1, <3>1 DEF Sound, StillLinked, OtherSource
    <3>6. QED
      BY <3>2, <3>3, <3>4, <3>5 DEF Sound
  <2>6. QED
    BY <2>2, <2>3, <2>4, <2>5 DEF RowsInv
<1>4. QED
  BY <1>1, <1>2, <1>3 DEF BackendNext

-----------------------------------------------------------------------------
\* The inductive invariant of files.

\* A request for a file knows its row: nobody else has the name of a new one.
JobSound(s) ==
  LET j == jobs[s] IN
  /\ j.op # "idle" => j.file \in Files /\ j.by \in Users
  /\ j.op = "idle" => j.file = Null
  /\ j.op = "upload" =>
       /\ files[j.file].state = "absent" /\ j.file \notin dropped
       /\ j.stored => j.file \in blobs
       /\ \A t \in Slots \ {s} : jobs[t].file # j.file
  /\ j.op = "delete" =>
       /\ files[j.file].state # "absent"
       /\ j.stored => j.file \notin blobs

FilesInv == UploadsTypeOK /\ (\A s \in Slots : JobSound(s)) /\ RowHasBlob /\ NoStrayBlob

LEMMA InitFiles == UploadsInit => FilesInv
<1> SUFFICES ASSUME UploadsInit PROVE FilesInv
  OBVIOUS
<1>1. files \in [Files -> [state : {"absent", "live", "deleted"}, owner : Users \cup {Null}]]
  BY SeedAssumption DEF UploadsInit
<1>2. blobs = {f \in Files : files[f].state = "live"}
  BY <1>1 DEF UploadsInit, Live
<1>3. jobs = [s \in Slots |-> NoJob] /\ dropped = {}
  BY DEF UploadsInit
<1>4. UploadsTypeOK
  BY <1>1, <1>2, <1>3 DEF UploadsTypeOK, Jobs, NoJob
<1>5. \A s \in Slots : JobSound(s)
  BY <1>3 DEF JobSound, NoJob
<1>6. RowHasBlob /\ NoStrayBlob
  BY <1>1, <1>2 DEF RowHasBlob, NoStrayBlob, Live
<1>7. QED
  BY <1>4, <1>5, <1>6 DEF FilesInv

LEMMA BeginKeeps ==
  ASSUME FilesInv, NEW s \in Slots, NEW job \in Jobs, Begin(s, job),
         job.op # "idle", job.file \in Files, job.by \in Users, ~job.stored,
         job.op = "upload" => files[job.file].state = "absent" /\ job.file \notin Named,
         job.op = "delete" => files[job.file].state = "live"
  PROVE  FilesInv'
<1>1. /\ jobs' = [jobs EXCEPT ![s] = job] /\ UNCHANGED <<files, blobs, dropped>>
      /\ jobs[s] = NoJob
  BY DEF Begin
<1>2. \A t \in Slots : jobs'[t] = IF t = s THEN job ELSE jobs[t]
  BY <1>1 DEF FilesInv, UploadsTypeOK
<1>3. UploadsTypeOK'
  BY <1>1 DEF FilesInv, UploadsTypeOK
<1>4. \A f \in Files : Between(f) => Between(f)'
  BY <1>1, <1>2 DEF Between, NoJob
<1>5. RowHasBlob' /\ NoStrayBlob'
  BY <1>1, <1>4 DEF FilesInv, UploadsTypeOK, RowHasBlob, NoStrayBlob, Live
<1>6. ASSUME NEW t \in Slots PROVE JobSound(t)'
  <2>1. CASE t = s
    BY <1>1, <1>2, <2>1 DEF JobSound, Named
  <2>2. CASE t # s
    <3>1. jobs[t].op = "upload" => jobs[t].file # job.file
      BY DEF FilesInv, JobSound, Named, Jobs
    <3>2. QED
      BY <1>1, <1>2, <2>2, <3>1 DEF FilesInv, JobSound
  <2>3. QED
    BY <2>1, <2>2
<1>7. QED
  BY <1>3, <1>5, <1>6 DEF FilesInv

LEMMA StorageKeeps ==
  ASSUME FilesInv, NEW s \in Slots, Storage(s)
  PROVE  FilesInv'
<1> DEFINE j == jobs[s]
<1>1. /\ j.op # "idle" /\ ~j.stored /\ j.file \in Files /\ UNCHANGED <<files, dropped>>
      /\ jobs' = [jobs EXCEPT ![s].stored = TRUE]
      /\ blobs' = IF j.op = "upload" THEN blobs \cup {j.file} ELSE blobs \ {j.file}
      /\ j.op \in {"upload", "delete"}
  BY DEF Storage, FilesInv, JobSound, UploadsTypeOK, Jobs
<1>2. /\ \A t \in Slots \ {s} : jobs'[t] = jobs[t]
      /\ jobs'[s] = [j EXCEPT !.stored = TRUE] /\ j \in Jobs
  BY <1>1 DEF FilesInv, UploadsTypeOK
<1>3. jobs'[s].op = j.op /\ jobs'[s].file = j.file /\ jobs'[s].by = j.by /\ jobs'[s].stored
  BY <1>2 DEF Jobs
<1>4. UploadsTypeOK'
  BY <1>1, <1>2 DEF FilesInv, UploadsTypeOK, Jobs
<1>5. /\ \A f \in Files : Between(f) => Between(f)'
      /\ Between(j.file)'
  BY <1>1, <1>2, <1>3 DEF Between
<1>6. RowHasBlob' /\ NoStrayBlob'
  BY <1>1, <1>5 DEF FilesInv, UploadsTypeOK, RowHasBlob, NoStrayBlob, Live
<1>7. ASSUME NEW t \in Slots PROVE JobSound(t)'
  <2>1. CASE t = s
    BY <1>1, <1>2, <1>3, <2>1 DEF FilesInv, JobSound
  <2>2. CASE t # s
    BY <1>1, <1>2, <1>3, <2>2 DEF FilesInv, JobSound
  <2>3. QED
    BY <2>1, <2>2
<1>8. QED
  BY <1>4, <1>6, <1>7 DEF FilesInv

LEMMA EndKeeps ==
  ASSUME FilesInv, NEW s \in Slots, WriteFile(s) \/ Drop(s)
  PROVE  FilesInv'
<1> DEFINE j == jobs[s]
<1>1. /\ j.op \in {"upload", "delete"} /\ j.file \in Files /\ j.by \in Users /\ j \in Jobs
      /\ jobs' = [jobs EXCEPT ![s] = NoJob]
  BY DEF WriteFile, Drop, End, FilesInv, JobSound, UploadsTypeOK, Jobs
<1>2. \A t \in Slots : jobs'[t] = IF t = s THEN NoJob ELSE jobs[t]
  BY <1>1 DEF FilesInv, UploadsTypeOK
<1>3. \A f \in Files \ {j.file} :
        /\ files'[f] = files[f] /\ (f \in blobs' <=> f \in blobs) /\ (f \in dropped' <=> f \in dropped)
  BY <1>1 DEF WriteFile, Drop, FilesInv, UploadsTypeOK
<1>4. \A f \in Files \ {j.file} : Between(f) => Between(f)'
  BY <1>2 DEF Between
<1>5. UploadsTypeOK'
  <2>1. jobs' \in [Slots -> Jobs]
    BY <1>1 DEF FilesInv, UploadsTypeOK, Jobs, NoJob
  <2>2. files' \in [Files -> [state : {"absent", "live", "deleted"}, owner : Users \cup {Null}]]
    BY <1>1 DEF WriteFile, Drop, FilesInv, UploadsTypeOK
  <2>3. blobs' \subseteq Files /\ dropped' \subseteq Files
    BY <1>1 DEF WriteFile, Drop, FilesInv, UploadsTypeOK
  <2>4. QED
    BY <2>1, <2>2, <2>3 DEF UploadsTypeOK
<1>6. \/ j.file \in dropped'
      \/ j.op = "upload" /\ files'[j.file].state = "live" /\ j.file \in blobs'
      \/ j.op = "delete" /\ files'[j.file].state = "deleted" /\ j.file \notin blobs'
  BY <1>1 DEF WriteFile, Drop, FilesInv, UploadsTypeOK, JobSound
<1>7. RowHasBlob' /\ NoStrayBlob'
  <2>1. \A f \in Files : f \in blobs' => files'[f].state = "live" \/ Between(f)' \/ f \in dropped'
    BY <1>3, <1>4, <1>6 DEF FilesInv, NoStrayBlob
  <2>2. \A f \in Files : files'[f].state = "live" => f \in blobs' \/ Between(f)' \/ f \in dropped'
    BY <1>3, <1>4, <1>6 DEF FilesInv, RowHasBlob, Live, UploadsTypeOK
  <2>3. QED
    BY <1>5, <2>1, <2>2 DEF RowHasBlob, NoStrayBlob, Live, UploadsTypeOK
<1>8. ASSUME NEW t \in Slots PROVE JobSound(t)'
  <2>1. CASE t = s
    BY <1>2, <2>1 DEF JobSound, NoJob
  <2>2. CASE t # s
    <3>1. jobs'[t] = jobs[t] /\ JobSound(t)
      BY <1>2, <2>2 DEF FilesInv
    <3>2. jobs[t].op = "upload" => jobs[t].file # j.file
      BY <2>2, <3>1 DEF JobSound
    <3>3. jobs[t].op = "delete" /\ jobs[t].file = j.file => j.op = "delete"
      BY <1>1, <2>2, <3>1 DEF FilesInv, JobSound
    <3>4. j.op = "delete" =>
            /\ files'[j.file].state # "absent"
            /\ j.file \notin blobs => j.file \notin blobs'
      BY <1>1 DEF WriteFile, Drop, FilesInv, JobSound, UploadsTypeOK
    <3>5. \A x \in Slots : jobs'[x].file \in {jobs[x].file, Null}
      BY <1>2 DEF NoJob
    <3>6. jobs[t].op # "idle" => jobs[t].file \in Files /\ jobs[t].file # Null
      BY <3>1, FilesAssumption DEF JobSound
    <3>7. QED
      BY <1>3, <3>1, <3>2, <3>3, <3>4, <3>5, <3>6 DEF JobSound
  <2>3. QED
    BY <2>1, <2>2
<1>9. QED
  BY <1>5, <1>7, <1>8 DEF FilesInv

LEMMA FilesStep ==
  ASSUME FilesInv, [BackendNext]_allVars
  PROVE  FilesInv'
<1>1. CASE Uploading
  <2>1. PICK s \in Slots :
          \/ \E a \in Users, f \in Files : Upload(s, a, f) \/ Delete(s, a, f)
          \/ Storage(s) \/ WriteFile(s) \/ Drop(s)
    BY <1>1 DEF Uploading, UploadsNext
  <2>2. ASSUME NEW a \in Users, NEW f \in Files, Upload(s, a, f) PROVE FilesInv'
    <3> DEFINE job == [op |-> "upload", file |-> f, by |-> a, stored |-> FALSE]
    <3>1. job \in Jobs
      BY DEF Jobs
    <3>2. Begin(s, job) /\ files[f].state = "absent" /\ f \notin Named
      BY <2>2 DEF Upload
    <3>3. QED
      BY <3>1, <3>2, BeginKeeps
  <2>3. ASSUME NEW a \in Users, NEW f \in Files, Delete(s, a, f) PROVE FilesInv'
    <3> DEFINE job == [op |-> "delete", file |-> f, by |-> a, stored |-> FALSE]
    <3>1. job \in Jobs
      BY DEF Jobs
    <3>2. Begin(s, job) /\ files[f].state = "live"
      BY <2>3 DEF Delete
    <3>3. QED
      BY <3>1, <3>2, BeginKeeps
  <2>4. QED
    BY <2>1, <2>2, <2>3, StorageKeeps, EndKeeps
<1>2. CASE UNCHANGED uploadVars
  <2>1. \A f \in Files : Between(f)' <=> Between(f)
    BY <1>2 DEF Between, uploadVars
  <2>2. UploadsTypeOK' /\ RowHasBlob' /\ NoStrayBlob'
    BY <1>2, <2>1 DEF FilesInv, UploadsTypeOK, RowHasBlob, NoStrayBlob, Live, uploadVars
  <2>3. \A s \in Slots : JobSound(s)'
    BY <1>2 DEF FilesInv, JobSound, uploadVars
  <2>4. QED
    BY <2>2, <2>3 DEF FilesInv
<1>3. QED
  BY <1>1, <1>2 DEF BackendNext, Administration, OAuth, Uploading, allVars

-----------------------------------------------------------------------------
(* The invariant is one: Init implies it and every step keeps it.           *)
THEOREM BackendInvariant == BackendSpec => [](RowsInv /\ FilesInv)
<1>1. BackendInit => RowsInv /\ FilesInv
  BY InitRows, InitFiles DEF BackendInit
<1>2. RowsInv /\ FilesInv /\ [BackendNext]_allVars => (RowsInv /\ FilesInv)'
  BY RowsStep, FilesStep
<1>3. QED
  BY <1>1, <1>2, PTL DEF BackendSpec

(* Rows, requests and files keep their types: no column ever holds what a   *)
(* request uses to say that it does not write it.                           *)
THEOREM BackendTypes == BackendSpec => []BackendTypeOK
<1>1. RowsInv /\ FilesInv => BackendTypeOK
  BY DEF RowsInv, FilesInv, BackendTypeOK
<1>2. QED
  BY <1>1, BackendInvariant, PTL

(* No role holds a deleted permission unless its deletion met an assignment *)
(* of it (delete_permission, assign_to_role).                               *)
THEOREM PermissionsHeldLive == BackendSpec => []HeldPermissionLive
<1>1. RowsInv /\ FilesInv => HeldPermissionLive
  BY DEF RowsInv
<1>2. QED
  BY <1>1, BackendInvariant, PTL

(* Deletions and deactivations leave one who manages users (admin_service). *)
THEOREM AManagerRemains == BackendSpec => []ManagerRemains
<1>1. RowsInv /\ FilesInv => ManagerRemains
  BY DEF RowsInv
<1>2. QED
  BY <1>1, BackendInvariant, PTL

(* auth_source names a linked provider (authenticate, unlink_account).      *)
THEOREM SourcesLinked == BackendSpec => []SourceLinked
<1>1. RowsInv /\ FilesInv => SourceLinked
  BY DEF RowsInv
<1>2. QED
  BY <1>1, BackendInvariant, PTL

(* Rows of file_uploads and blobs go together, except while a request is    *)
(* between the two or after one failed there (uploads/service.py).          *)
THEOREM FilesStored == BackendSpec => []BlobsMatchRows
<1>1. RowsInv /\ FilesInv => BlobsMatchRows
  BY DEF FilesInv, BlobsMatchRows
<1>2. QED
  BY <1>1, BackendInvariant, PTL

\* A user who is not deleted loses his role by unassign_role, or by a deletion of it
\* that met an assignment.
LEMMA RoleTakenStep ==
  ASSUME RowsInv, [BackendNext]_allVars
  PROVE  [TakesOpenly]_vars
<1> SUFFICES ASSUME NEW u \in Users, users[u].state = "live", users[u].role # Null,
                    users'[u].role = Null
             PROVE  \/ users[u].role \in crossed
                    \/ \E s \in Slots : req[s].op = "unassign_role" /\ req[s].user = u /\ req'[s] = Idle
                    \/ \E s \in Slots : /\ req[s].op = "delete_role" /\ req'[s] = Idle
                                        /\ u \in req[s].loaded /\ users[u].role # req[s].role
  BY DEF TakesOpenly
<1>1. users' # users
  OBVIOUS
<1>2. PICK s \in Slots : WriteUser(s) \/ RemoveRole(s) \/ InsertUser(s)
  <2>1. Next \/ OAuthNext
    <3>1. Uploading => users' = users
      BY DEF Uploading, UploadsNext, Upload, Delete, Begin, Storage, WriteFile, Drop, End, vars
    <3>2. UNCHANGED allVars => users' = users
      BY DEF allVars, vars
    <3>3. QED
      BY <1>1, <3>1, <3>2 DEF BackendNext, Administration, OAuth
  <2>2. \A s \in Slots, a \in Users : ~Ask(s, a)
    <3>1. ASSUME NEW s \in Slots, NEW a \in Users, Ask(s, a) PROVE FALSE
      <4>1. PICK q : Take(s, q)
        BY <3>1, AskTakes
      <4>2. QED
        BY <1>1, <4>1 DEF Take
    <3>2. QED
      BY <3>1
  <2>3. \A s \in Slots, w \in Users, v \in Providers :
          ~(Return(s, w, v) \/ Arrive(s, w, v) \/ Unlink(s, w, v))
    <3>1. ASSUME NEW s \in Slots, NEW w \in Users, NEW v \in Providers,
                 Return(s, w, v) \/ Arrive(s, w, v) \/ Unlink(s, w, v)
          PROVE  FALSE
      <4>1. PICK q : Take(s, q)
        BY <3>1, OAuthTakes
      <4>2. QED
        BY <1>1, <4>1 DEF Take
    <3>2. QED
      BY <3>1
  <2>4. CASE Next
    <3>1. PICK s \in Slots : Carry(s)
      BY <2>2, <2>4 DEF Next
    <3>2. WriteUser(s) \/ RemoveRole(s)
      BY <1>1, <3>1 DEF Carry, InsertRole, WriteRole, InsertPermission, WritePermission, InsertGrant,
                        DeleteGrant, Fail, CheckUnused
    <3>3. QED
      BY <3>2
  <2>5. CASE OAuthNext
    BY <1>1, <2>3, <2>5 DEF OAuthNext, WriteReturning, WriteUnlink
  <2>6. QED
    BY <2>1, <2>4, <2>5
<1>3. Leave(s) /\ Sound(req[s])
  BY <1>2 DEF WriteUser, RemoveRole, InsertUser, RowsInv
<1>4. req'[s] = Idle
  BY <1>3, LeaveEnds
<1>5. CASE WriteUser(s)
  <2>1. req[s].user = u /\ users'[u].role = Column(users[u].role, req[s].role)
    BY <1>5, <1>3 DEF WriteUser, Sound, Formed, RowsInv, TypeOK
  <2>2. req[s].role = Null
    BY <2>1 DEF Column
  <2>3. req[s].op = "unassign_role"
    BY <1>3, <1>5, <2>2 DEF WriteUser, Sound, Formed
  <2>4. QED
    BY <1>4, <2>1, <2>3
<1>6. CASE RemoveRole(s)
  <2>1. req[s].op = "delete_role" /\ (u \in req[s].loaded \/ users[u].role = req[s].role)
    BY <1>6 DEF RemoveRole, RowsInv, TypeOK
  <2>2. CASE users[u].role = req[s].role
    BY <1>3, <2>1, <2>2 DEF Sound, RoleFree
  <2>3. CASE users[u].role # req[s].role
    BY <1>4, <2>1, <2>3
  <2>4. QED
    BY <2>2, <2>3
<1>7. CASE InsertUser(s)
  BY <1>3, <1>7 DEF InsertUser, RowsInv, TypeOK, Sound, Formed
<1>8. QED
  BY <1>2, <1>5, <1>6, <1>7

(* No step takes the role of a user who is not deleted, except a request    *)
(* that says so (role_service.delete_role), the deletion of a role that met *)
(* an assignment of it, and one that read him before he was moved.          *)
THEOREM RolesTakenOpenly == BackendSpec => RoleTakenOpenly
<1>1. RowsInv /\ [BackendNext]_allVars => [TakesOpenly]_vars
  BY RoleTakenStep
<1>2. QED
  BY <1>1, BackendInvariant, PTL DEF BackendSpec, RoleTakenOpenly
=============================================================================
