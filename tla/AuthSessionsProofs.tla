-------------------------- MODULE AuthSessionsProofs --------------------------
(***************************************************************************)
(* Theorems about AuthSessions, for any number of overlapping requests and *)
(* any clock.  The inductive invariant says what a transaction holds at    *)
(* each of its steps, that row locks are exclusive, and that a row which   *)
(* is inserted but not committed stands alone: its transaction has revoked *)
(* every session that is still active for the others.                      *)
(***************************************************************************)
EXTENDS AuthSessions, TLAPS

\* What the transaction of p is and holds, by operation and step.
Shape(p) ==
  LET t == tx[p] IN
  /\ t.op \in Ops \cup {"login"}
  /\ t.step \in {"idle", "done", "commit"} \cup DOMAIN After[t.op]
  /\ t.step \in {"idle", "done"} => t.revoked = NoRow /\ ~t.users /\ t.minted = NoRow
  /\ t.revoked # NoRow => t.revoked = t.seen /\ t.step \in {"users", "mint", "insert", "commit"}
  /\ t.users => \/ t.op = "login" /\ t.step \in {"mint", "insert", "commit"}
                \/ t.op = "change" /\ t.step # "users"
  /\ t.minted # NoRow => t.step \in {"insert", "commit"}
  /\ t.step = "insert" => t.minted \in Seconds
  /\ t.op \in {"login", "refresh"} /\ t.step = "commit" => t.minted \in Seconds
  /\ t.op \in {"logout", "change"} => t.minted = NoRow
  /\ t.op = "refresh" /\ t.step \notin {"idle", "done"} =>
       t.seen \in Seconds /\ (t.step # "revoke" => t.revoked = t.seen)
  /\ t.op = "change" /\ t.step = "users" => t.revoked = NoRow

\* Row locks have one holder.
Locks ==
  \A p, q \in Requests :
    /\ tx[p].revoked # NoRow /\ tx[p].revoked = tx[q].revoked => p = q
    /\ tx[p].users /\ tx[q].users => p = q

\* A row that was read has been committed, and no row disappears.
ReadRows == \A p \in Requests : tx[p].seen # NoRow => status[tx[p].seen] # "none"

\* At most one transaction has inserted a row; it has revoked what is active.
Inserting ==
  \A p \in Requests :
    Inserted(p) =>
      /\ \A q \in Requests : Inserted(q) => p = q
      /\ status[tx[p].minted] = "none"
      /\ \A t \in Active : t = tx[p].revoked

IInv ==
  /\ TypeOK
  /\ \A p \in Requests : Shape(p)
  /\ Locks /\ ReadRows /\ Inserting /\ OneActiveSession

\* A step of p that changes nothing others see and leaves no row inserted.
Private(p) ==
  /\ status' = status
  /\ ~Inserted(p)'
  /\ \A q \in Requests \ {p} : tx'[q] = tx[q]

-----------------------------------------------------------------------------
\* The successors of each step.
LEMMA AfterFacts ==
  /\ DOMAIN After["login"]   = {"select", "revoke", "users", "mint", "insert"}
  /\ DOMAIN After["refresh"] = {"revoke", "mint", "insert"}
  /\ DOMAIN After["logout"]  = {"select", "revoke"}
  /\ DOMAIN After["change"]  = {"users", "select", "revoke"}
  /\ After["login"]["select"] = "revoke" /\ After["logout"]["select"] = "revoke"
  /\ After["change"]["select"] = "revoke"
  /\ After["login"]["revoke"] = "users" /\ After["refresh"]["revoke"] = "mint"
  /\ After["logout"]["revoke"] = "commit" /\ After["change"]["revoke"] = "commit"
  /\ After["login"]["users"] = "mint" /\ After["change"]["users"] = "select"
  /\ After["login"]["mint"] = "insert" /\ After["refresh"]["mint"] = "insert"
  /\ After["login"]["insert"] = "commit" /\ After["refresh"]["insert"] = "commit"
BY DEF After

LEMMA FirstStepFacts ==
  /\ FirstStep["login"] = "select" /\ FirstStep["refresh"] = "revoke"
  /\ FirstStep["logout"] = "select" /\ FirstStep["change"] = "users"
BY DEF FirstStep

\* Replacing the transaction of p by one of the right type.
LEMMA SetTransaction ==
  ASSUME TypeOK, NEW p \in Requests, NEW r \in Transaction,
         tx' = [tx EXCEPT ![p] = r]
  PROVE  /\ tx' \in [Requests -> Transaction]
         /\ tx'[p] = r
         /\ \A q \in Requests \ {p} : tx'[q] = tx[q]
BY DEF TypeOK

LEMMA InitHolds == Init => IInv
<1> SUFFICES ASSUME Init PROVE IInv
  OBVIOUS
<1> USE BoundsAssumption, NoRowAssumption DEF Init
<1>1. TypeOK
  BY DEF TypeOK, Transaction, Blank, AllOps, Steps, Seconds
<1>2. \A p \in Requests : Shape(p) /\ ~Inserted(p)
  BY AfterFacts DEF Shape, Blank, Inserted
<1>3. Locks
  BY DEF Locks, Blank
<1>4. Inserting /\ ReadRows
  BY <1>2 DEF Inserting, ReadRows, Blank
<1>5. OneActiveSession
  BY DEF OneActiveSession, Active, Seconds
<1> QED BY <1>1, <1>2, <1>3, <1>4, <1>5 DEF IInv

-----------------------------------------------------------------------------
\* A step that others do not see keeps the invariant if what p then is and holds
\* fits together, and if what it locks nobody else has locked.
LEMMA PrivateStep ==
  ASSUME IInv, NEW p \in Requests, NEW r \in Transaction,
         tx' = [tx EXCEPT ![p] = r], status' = status,
         now' \in Seconds, aborts' \in 0..MaxAborts,
         Shape(p)', ~Inserted(p)',
         r.seen # NoRow => status[r.seen] # "none",
         \A q \in Requests \ {p} : /\ r.revoked # NoRow => tx[q].revoked # r.revoked
                                   /\ r.users => ~tx[q].users
  PROVE  IInv' /\ Private(p)
<1>1. /\ tx' \in [Requests -> Transaction] /\ tx'[p] = r
      /\ \A q \in Requests \ {p} : tx'[q] = tx[q]
  BY SetTransaction DEF IInv
<1>2. TypeOK'
  BY <1>1 DEF IInv, TypeOK
<1>3. \A q \in Requests : Shape(q)'
  BY <1>1 DEF IInv, Shape
<1>4. Locks' /\ ReadRows'
  BY <1>1 DEF IInv, Locks, ReadRows
<1>5. Inserting' /\ OneActiveSession'
  <2>1. \A q \in Requests \ {p} : Inserted(q)' = Inserted(q)
    BY <1>1 DEF Inserted
  <2>2. Active' = Active
    BY DEF Active
  <2> QED
    BY <2>1, <2>2, <1>1 DEF IInv, Inserting, OneActiveSession
<1> QED
  BY <1>1, <1>2, <1>3, <1>4, <1>5 DEF IInv, Private

LEMMA BeginKeeps ==
  ASSUME IInv, NEW p \in Requests, NEW op \in Ops, Begin(p, op)
  PROVE  IInv' /\ Private(p)
<1> USE OpsAssumption, BoundsAssumption, NoRowAssumption
<1>1. PICK s \in IF op = "refresh" THEN Active ELSE {NoRow} :
         tx' = [tx EXCEPT ![p] = [Blank(op, FirstStep[op]) EXCEPT !.seen = s]]
  BY DEF Begin
<1> DEFINE r == [Blank(op, FirstStep[op]) EXCEPT !.seen = s]
<1>2. /\ op \in AllOps /\ s \in Seconds \cup {NoRow} /\ (op = "refresh" => s \in Seconds)
      /\ (s # NoRow => status[s] # "none") /\ now' = now /\ status' = status /\ aborts' = aborts
  BY <1>1 DEF Begin, Active
<1>3. /\ r.op = op /\ r.step = FirstStep[op] /\ r.seen = s /\ r.revoked = NoRow
      /\ r.users = FALSE /\ r.minted = NoRow /\ r \in Transaction
  BY <1>2, FirstStepFacts DEF Blank, Transaction, AllOps, Steps
<1> HIDE DEF r
<1>4. tx'[p] = r
  BY <1>1, <1>3, SetTransaction DEF IInv, r
<1>5. Shape(p)' /\ ~Inserted(p)'
  BY <1>2, <1>3, <1>4, FirstStepFacts, AfterFacts DEF Shape, Inserted, AllOps
<1> QED
  BY <1>1, <1>2, <1>3, <1>5, PrivateStep DEF IInv, TypeOK, r

LEMMA RollbackKeeps ==
  ASSUME IInv, NEW p \in Requests, Rollback(p), status' = status, now' = now,
         aborts' \in 0..MaxAborts
  PROVE  IInv' /\ Private(p)
<1> USE NoRowAssumption
<1> DEFINE r == Blank(tx[p].op, "done")
<1>1. /\ tx[p].op \in AllOps
      /\ r.op = tx[p].op /\ r.step = "done" /\ r.seen = NoRow /\ r.revoked = NoRow
      /\ r.users = FALSE /\ r.minted = NoRow /\ r \in Transaction
  BY DEF IInv, TypeOK, Blank, Transaction, Steps
<1> HIDE DEF r
<1>2. tx' = [tx EXCEPT ![p] = r] /\ tx'[p] = r
  BY <1>1, SetTransaction DEF IInv, Rollback, r
<1>3. tx[p].op \in Ops \cup {"login"}
  BY DEF IInv, Shape
<1>4. Shape(p)' /\ ~Inserted(p)'
  BY <1>1, <1>2, <1>3 DEF Shape, Inserted
<1> QED
  BY <1>1, <1>2, <1>4, PrivateStep DEF IInv, TypeOK

\* The record that an Advance leaves.
LEMMA AdvanceTo ==
  ASSUME TypeOK, NEW p \in Requests, NEW u \in Transaction, Advance(p, u),
         u.op = tx[p].op, u.step = tx[p].step, Shape(p),
         tx[p].step \in {"select", "revoke", "users", "mint", "insert"}
  PROVE  \E r \in Transaction :
           /\ tx' = [tx EXCEPT ![p] = r] /\ tx'[p] = r
           /\ r.op = u.op /\ r.step = After[u.op][u.step] /\ r.seen = u.seen
           /\ r.revoked = u.revoked /\ r.users = u.users /\ r.minted = u.minted
<1> DEFINE r == [u EXCEPT !.step = After[u.op][u.step]]
<1>1. u.op \in AllOps /\ u.step \in DOMAIN After[u.op]
  BY DEF TypeOK, Transaction, Shape
<1>2. After[u.op][u.step] \in Steps
  BY <1>1, AfterFacts DEF AllOps, Steps
<1>3. /\ r \in Transaction /\ r.op = u.op /\ r.step = After[u.op][u.step] /\ r.seen = u.seen
      /\ r.revoked = u.revoked /\ r.users = u.users /\ r.minted = u.minted
  BY <1>2 DEF Transaction
<1> HIDE DEF r
<1>4. tx' = [tx EXCEPT ![p] = r]
  BY DEF Advance, r
<1> QED
  BY <1>3, <1>4, SetTransaction

LEMMA SelectKeeps ==
  ASSUME IInv, NEW p \in Requests, SelectSession(p)
  PROVE  IInv' /\ Private(p)
<1> USE NoRowAssumption
<1>1. PICK t \in IF Active = {} THEN {NoRow} ELSE Active : Advance(p, [tx[p] EXCEPT !.seen = t])
  BY DEF SelectSession
<1> DEFINE u == [tx[p] EXCEPT !.seen = t]
<1>2. /\ TypeOK /\ Shape(p) /\ tx[p] \in Transaction /\ t \in Seconds \cup {NoRow}
      /\ (t # NoRow => status[t] # "none") /\ tx[p].step = "select" /\ now' = now /\ status' = status /\ aborts' = aborts
  BY DEF IInv, TypeOK, SelectSession, Active
<1>3. /\ u \in Transaction /\ u.op = tx[p].op /\ u.step = tx[p].step /\ u.seen = t
      /\ u.revoked = tx[p].revoked /\ u.users = tx[p].users /\ u.minted = tx[p].minted
  BY <1>2 DEF Transaction
<1> HIDE DEF u
<1>4. Advance(p, u)
  BY <1>1 DEF u
<1>5. PICK r \in Transaction :
        /\ tx' = [tx EXCEPT ![p] = r] /\ tx'[p] = r
        /\ r.op = u.op /\ r.step = After[u.op][u.step] /\ r.seen = u.seen
        /\ r.revoked = u.revoked /\ r.users = u.users /\ r.minted = u.minted
  BY <1>2, <1>3, <1>4, AdvanceTo
<1>6. r.step = "revoke" /\ r.op \in {"login", "logout", "change"}
  BY <1>2, <1>3, <1>5, AfterFacts DEF Shape, Transaction, AllOps
<1>7. Shape(p)' /\ ~Inserted(p)'
  BY <1>2, <1>3, <1>5, <1>6, AfterFacts DEF Shape, Inserted
<1>8. ~r.users \/ \A q \in Requests \ {p} : ~tx[q].users
  BY <1>3, <1>5 DEF IInv, Locks
<1>9. r.revoked = NoRow
  BY <1>2, <1>3, <1>5 DEF Shape
<1> QED
  BY <1>2, <1>3, <1>5, <1>7, <1>8, <1>9, PrivateStep DEF TypeOK

LEMMA RevokeKeeps ==
  ASSUME IInv, NEW p \in Requests, RevokeSession(p)
  PROVE  IInv' /\ Private(p)
<1> USE NoRowAssumption
<1> DEFINE u == [tx[p] EXCEPT !.revoked = tx[p].seen]
<1>1. /\ TypeOK /\ Shape(p) /\ tx[p] \in Transaction /\ Advance(p, u) /\ Blockers(p) = {}
      /\ tx[p].step = "revoke" /\ now' = now /\ status' = status /\ aborts' = aborts
  BY DEF IInv, TypeOK, RevokeSession
<1>2. /\ u \in Transaction /\ u.op = tx[p].op /\ u.step = tx[p].step /\ u.seen = tx[p].seen
      /\ u.revoked = tx[p].seen /\ u.users = tx[p].users /\ u.minted = tx[p].minted
  BY <1>1 DEF Transaction
<1> HIDE DEF u
<1>3. PICK r \in Transaction :
        /\ tx' = [tx EXCEPT ![p] = r] /\ tx'[p] = r
        /\ r.op = u.op /\ r.step = After[u.op][u.step] /\ r.seen = u.seen
        /\ r.revoked = u.revoked /\ r.users = u.users /\ r.minted = u.minted
  BY <1>1, <1>2, AdvanceTo
<1>4. \/ r.op = "login" /\ r.step = "users"
      \/ r.op = "refresh" /\ r.step = "mint"
      \/ r.op \in {"logout", "change"} /\ r.step = "commit"
  BY <1>1, <1>2, <1>3, AfterFacts DEF Transaction, AllOps
<1>5. r.minted = NoRow
  BY <1>1, <1>2, <1>3 DEF Shape
<1>6. Shape(p)' /\ ~Inserted(p)'
  BY <1>1, <1>2, <1>3, <1>4, <1>5, AfterFacts DEF Shape, Inserted
<1>7. \A q \in Requests \ {p} : r.revoked # NoRow => tx[q].revoked # r.revoked
  BY <1>1, <1>2, <1>3 DEF Blockers
<1>8. ~r.users \/ \A q \in Requests \ {p} : ~tx[q].users
  BY <1>2, <1>3 DEF IInv, Locks
<1>9. r.seen # NoRow => status[r.seen] # "none"
  BY <1>2, <1>3 DEF IInv, ReadRows
<1> QED
  BY <1>1, <1>3, <1>6, <1>7, <1>8, <1>9, PrivateStep DEF TypeOK

LEMMA UpdateUserKeeps ==
  ASSUME IInv, NEW p \in Requests, UpdateUser(p)
  PROVE  IInv' /\ Private(p)
<1> USE NoRowAssumption
<1> DEFINE u == [tx[p] EXCEPT !.users = TRUE]
<1>1. /\ TypeOK /\ Shape(p) /\ tx[p] \in Transaction /\ Advance(p, u) /\ Blockers(p) = {}
      /\ tx[p].step = "users" /\ now' = now /\ status' = status /\ aborts' = aborts
  BY DEF IInv, TypeOK, UpdateUser
<1>2. /\ u \in Transaction /\ u.op = tx[p].op /\ u.step = tx[p].step /\ u.seen = tx[p].seen
      /\ u.revoked = tx[p].revoked /\ u.users = TRUE /\ u.minted = tx[p].minted
  BY <1>1 DEF Transaction
<1> HIDE DEF u
<1>3. PICK r \in Transaction :
        /\ tx' = [tx EXCEPT ![p] = r] /\ tx'[p] = r
        /\ r.op = u.op /\ r.step = After[u.op][u.step] /\ r.seen = u.seen
        /\ r.revoked = u.revoked /\ r.users = u.users /\ r.minted = u.minted
  BY <1>1, <1>2, AdvanceTo
<1>4. \/ r.op = "login" /\ r.step = "mint"
      \/ r.op = "change" /\ r.step = "select"
  BY <1>1, <1>2, <1>3, AfterFacts DEF Shape, Transaction, AllOps
<1>5. r.minted = NoRow /\ (r.op = "change" => r.revoked = NoRow)
  BY <1>1, <1>2, <1>3 DEF Shape
<1>6. Shape(p)' /\ ~Inserted(p)'
  BY <1>1, <1>2, <1>3, <1>4, <1>5, AfterFacts DEF Shape, Inserted
<1>7. \A q \in Requests \ {p} : ~tx[q].users
  BY <1>1 DEF Blockers
<1>8. \A q \in Requests \ {p} : r.revoked # NoRow => tx[q].revoked # r.revoked
  BY <1>2, <1>3 DEF IInv, Locks
<1>9. r.seen # NoRow => status[r.seen] # "none"
  BY <1>2, <1>3 DEF IInv, ReadRows
<1> QED
  BY <1>1, <1>3, <1>6, <1>7, <1>8, <1>9, PrivateStep DEF TypeOK

LEMMA BuildTokensKeeps ==
  ASSUME IInv, NEW p \in Requests, BuildTokens(p)
  PROVE  IInv' /\ Private(p)
<1> USE NoRowAssumption
<1> DEFINE u == [tx[p] EXCEPT !.minted = now]
<1>1. /\ TypeOK /\ Shape(p) /\ tx[p] \in Transaction /\ Advance(p, u) /\ now \in Seconds
      /\ tx[p].step = "mint" /\ now' = now /\ status' = status /\ aborts' = aborts
  BY DEF IInv, TypeOK, BuildTokens
<1>2. /\ u \in Transaction /\ u.op = tx[p].op /\ u.step = tx[p].step /\ u.seen = tx[p].seen
      /\ u.revoked = tx[p].revoked /\ u.users = tx[p].users /\ u.minted = now
  BY <1>1 DEF Transaction
<1> HIDE DEF u
<1>3. PICK r \in Transaction :
        /\ tx' = [tx EXCEPT ![p] = r] /\ tx'[p] = r
        /\ r.op = u.op /\ r.step = After[u.op][u.step] /\ r.seen = u.seen
        /\ r.revoked = u.revoked /\ r.users = u.users /\ r.minted = u.minted
  BY <1>1, <1>2, AdvanceTo
<1>4. r.op \in {"login", "refresh"} /\ r.step = "insert"
  BY <1>1, <1>2, <1>3, AfterFacts DEF Shape, Transaction, AllOps
<1>5. Shape(p)' /\ ~Inserted(p)'
  BY <1>1, <1>2, <1>3, <1>4, AfterFacts DEF Shape, Inserted
<1>6. \A q \in Requests \ {p} : /\ r.revoked # NoRow => tx[q].revoked # r.revoked
                                /\ r.users => ~tx[q].users
  BY <1>2, <1>3 DEF IInv, Locks
<1>7. r.seen # NoRow => status[r.seen] # "none"
  BY <1>2, <1>3 DEF IInv, ReadRows
<1> QED
  BY <1>1, <1>3, <1>5, <1>6, <1>7, PrivateStep DEF TypeOK

-----------------------------------------------------------------------------
\* The INSERT and the commit.

LEMMA CreateSessionKeeps ==
  ASSUME IInv, NEW p \in Requests, CreateSession(p)
  PROVE  IInv'
<1> USE NoRowAssumption
<1>1. /\ TypeOK /\ Shape(p) /\ tx[p] \in Transaction /\ Blockers(p) = {}
      /\ tx[p].step = "insert" /\ now' = now /\ status' = status /\ aborts' = aborts
  BY DEF IInv, TypeOK, CreateSession
<1>2. CASE Duplicate(p)
  BY <1>1, <1>2, RollbackKeeps DEF CreateSession, TypeOK
<1>3. CASE ~Duplicate(p)
  <2>1. Advance(p, tx[p])
    BY <1>3 DEF CreateSession
  <2>2. PICK r \in Transaction :
          /\ tx' = [tx EXCEPT ![p] = r] /\ tx'[p] = r
          /\ r.op = tx[p].op /\ r.step = After[tx[p].op][tx[p].step] /\ r.seen = tx[p].seen
          /\ r.revoked = tx[p].revoked /\ r.users = tx[p].users /\ r.minted = tx[p].minted
    BY <1>1, <2>1, AdvanceTo
  <2>3. r.op \in {"login", "refresh"} /\ r.step = "commit" /\ r.minted \in Seconds
    BY <1>1, <2>2, AfterFacts DEF Shape, Transaction, AllOps
  <2>4. /\ tx' \in [Requests -> Transaction]
        /\ \A q \in Requests \ {p} : tx'[q] = tx[q]
    BY <1>1, <2>2, SetTransaction
  <2>5. TypeOK'
    BY <1>1, <2>4 DEF TypeOK
  <2>6. Shape(p)'
    BY <1>1, <2>2, <2>3, AfterFacts DEF Shape
  <2>7. \A q \in Requests : Shape(q)'
    BY <2>4, <2>6 DEF IInv, Shape
  <2>8. Locks' /\ ReadRows'
    BY <1>1, <2>2, <2>4 DEF IInv, Locks, ReadRows
  <2>9. Active' = Active /\ \A q \in Requests \ {p} : ~Inserted(q)'
    BY <1>1, <2>4 DEF Active, Blockers, Inserted
  <2>10. status[r.minted] = "none" /\ \A t \in Active : t = r.revoked
    BY <1>3, <2>2 DEF Duplicate
  <2>11. Inserting' /\ OneActiveSession'
    BY <1>1, <2>2, <2>9, <2>10 DEF Inserting, OneActiveSession, IInv
  <2> QED
    BY <2>5, <2>7, <2>8, <2>11 DEF IInv
<1> QED
  BY <1>2, <1>3

\* Another transaction that has inserted its row is not disturbed by the commit of
\* p, which can only have revoked rows of its own.
LEMMA CommitKeeps ==
  ASSUME IInv, NEW p \in Requests, Commit(p)
  PROVE  IInv'
<1> USE NoRowAssumption
<1> DEFINE r == Blank(tx[p].op, "done")
<1>1. /\ TypeOK /\ Shape(p) /\ tx[p] \in Transaction /\ tx[p].step = "commit"
      /\ now' = now /\ aborts' = aborts
      /\ status' = [t \in Seconds |-> IF t = tx[p].minted THEN "active"
                                      ELSE IF t = tx[p].revoked THEN "revoked" ELSE status[t]]
  BY DEF IInv, TypeOK, Commit
<1>2. /\ tx[p].op \in AllOps
      /\ r.op = tx[p].op /\ r.step = "done" /\ r.seen = NoRow /\ r.revoked = NoRow
      /\ r.users = FALSE /\ r.minted = NoRow /\ r \in Transaction
  BY DEF IInv, TypeOK, Blank, Transaction, Steps
<1> HIDE DEF r
<1>3. /\ tx' = [tx EXCEPT ![p] = r] /\ tx'[p] = r /\ tx' \in [Requests -> Transaction]
      /\ \A q \in Requests \ {p} : tx'[q] = tx[q]
  BY <1>1, <1>2, SetTransaction DEF Commit, r
<1>4. \A t \in Seconds : status'[t] = IF t = tx[p].minted THEN "active"
                                      ELSE IF t = tx[p].revoked THEN "revoked" ELSE status[t]
  BY <1>1
<1>5. TypeOK'
  BY <1>1, <1>3, <1>4 DEF TypeOK
<1>6. \A q \in Requests : Shape(q)'
  <2>1. tx[p].op \in Ops \cup {"login"}
    BY DEF IInv, Shape
  <2>2. Shape(p)'
    BY <1>2, <1>3, <2>1 DEF Shape
  <2> QED
    BY <1>3, <2>2 DEF IInv, Shape
<1>7. Locks' /\ ReadRows'
  <2>1. Locks'
    BY <1>2, <1>3 DEF IInv, Locks
  <2>2. ReadRows'
    BY <1>1, <1>2, <1>3, <1>4 DEF IInv, ReadRows, TypeOK, Transaction
  <2> QED
    BY <2>1, <2>2
<1>8. ~Inserted(p)' /\ \A q \in Requests \ {p} : Inserted(q)' = Inserted(q)
  BY <1>2, <1>3 DEF Inserted
<1>9. Inserting' /\ OneActiveSession'
  <2>1. CASE Inserted(p)
    <3>1. \A q \in Requests : ~Inserted(q)'
      BY <2>1, <1>8 DEF IInv, Inserting
    <3>2. \A t \in Active : t = tx[p].revoked
      BY <2>1 DEF IInv, Inserting
    <3>3. \A t \in Active' : t = tx[p].minted
      BY <3>2, <1>4 DEF Active
    <3> QED
      BY <3>1, <3>3 DEF Inserting, OneActiveSession
  <2>2. CASE ~Inserted(p)
    <3>1. tx[p].minted \notin Seconds
      BY <1>1, <2>2 DEF Inserted, Transaction
    <3>2. Active' \subseteq Active
      BY <1>4, <3>1 DEF Active
    <3>3. OneActiveSession'
      BY <3>2 DEF OneActiveSession, IInv
    <3>4. ASSUME NEW q \in Requests, Inserted(q)'
          PROVE  /\ \A o \in Requests : Inserted(o)' => q = o
                 /\ status'[tx'[q].minted] = "none"
                 /\ \A t \in Active' : t = tx'[q].revoked
      <4>1. q # p /\ Inserted(q) /\ tx'[q] = tx[q]
        BY <3>4, <1>3, <1>8
      <4>2. tx[q].minted \in Seconds /\ status[tx[q].minted] = "none"
        BY <4>1, <1>1 DEF IInv, Inserting, Inserted, TypeOK, Transaction
      <4>3. status'[tx[q].minted] = "none"
        <5>1. tx[p].revoked # NoRow => status[tx[p].revoked] # "none"
          BY <1>1 DEF IInv, ReadRows, Shape
        <5> QED
          BY <4>2, <5>1, <1>4, <3>1
      <4> QED
        BY <4>1, <4>3, <3>2, <1>8 DEF IInv, Inserting
    <3> QED
      BY <3>3, <3>4 DEF Inserting
  <2> QED
    BY <2>1, <2>2
<1> QED
  BY <1>5, <1>6, <1>7, <1>9 DEF IInv

-----------------------------------------------------------------------------
LEMMA StepKeeps ==
  ASSUME IInv, [Next]_vars
  PROVE  IInv'
<1>1. CASE Tick
  <2>1. /\ now' \in Seconds /\ status' = status /\ tx' = tx /\ aborts' = aborts
    BY <1>1, BoundsAssumption DEF Tick, IInv, TypeOK, Seconds
  <2> QED
    BY <2>1 DEF IInv, TypeOK, Shape, Locks, ReadRows, Inserting, Inserted, Active, OneActiveSession
<1>2. ASSUME NEW p \in Requests, NEW op \in Ops, Begin(p, op) PROVE IInv'
  BY <1>2, BeginKeeps
<1>3. ASSUME NEW p \in Requests, Run(p) PROVE IInv'
  BY <1>3, SelectKeeps, RevokeKeeps, UpdateUserKeeps, BuildTokensKeeps, CreateSessionKeeps,
     CommitKeeps DEF Run
<1>4. ASSUME NEW p \in Requests, EndDeadlock(p) PROVE IInv'
  BY <1>4, RollbackKeeps DEF EndDeadlock, IInv, TypeOK
<1>5. ASSUME NEW p \in Requests, Abort(p) PROVE IInv'
  <2>1. Rollback(p) /\ status' = status /\ now' = now /\ aborts' \in 0..MaxAborts
    BY <1>5, BoundsAssumption DEF Abort, IInv, TypeOK
  <2> QED
    BY <2>1, RollbackKeeps
<1>6. CASE UNCHANGED vars
  BY <1>6 DEF vars, IInv, TypeOK, Shape, Locks, ReadRows, Inserting, Inserted, Active,
              OneActiveSession
<1> QED
  BY <1>1, <1>2, <1>3, <1>4, <1>5, <1>6 DEF Next

LEMMA Invariance == Spec => []IInv
<1>1. IInv /\ [Next]_vars => IInv'
  BY StepKeeps
<1> QED
  BY InitHolds, <1>1, PTL DEF Spec

\* Every reachable state is well typed.
THEOREM TypeCorrect == Spec => []TypeOK
<1>1. IInv => TypeOK
  BY DEF IInv
<1> QED
  BY Invariance, <1>1, PTL

\* login_user's "one active session": however logins, refreshes, logouts and
\* password changes of one user overlap, abort or deadlock, at most one session is
\* active.
THEOREM AtMostOneSession == Spec => []OneActiveSession
<1>1. IInv => OneActiveSession
  BY DEF IInv
<1> QED
  BY Invariance, <1>1, PTL

-----------------------------------------------------------------------------
\* Until a logout or a password change ends, every commit leaves a session behind.

NoneEnded == \A p \in Requests : ~Ended(p)

Rotating ==
  /\ \A p \in Requests : tx[p].op = "refresh" /\ tx[p].step \notin {"idle", "done"} => Active # {}
  /\ RotatesActive

LEMMA RotationInit == Init => Rotating
BY DEF Init, Rotating, RotatesActive, Inserted, Blank

\* What has ended stays so.
LEMMA EndedStays == IInv /\ [Next]_vars /\ NoneEnded' => NoneEnded
<1> SUFFICES ASSUME IInv, [Next]_vars, NEW q \in Requests, tx[q].step = "done"
             PROVE  tx'[q] = tx[q]
  BY DEF NoneEnded, Ended
<1>1. tx \in [Requests -> Transaction]
  BY DEF IInv, TypeOK
<1>2. ASSUME NEW p \in Requests, tx[p].step # "done", \E t : tx' = [tx EXCEPT ![p] = t]
      PROVE  tx'[q] = tx[q]
  BY <1>1, <1>2
<1>3. ASSUME NEW p \in Requests, NEW op \in Ops, Begin(p, op) PROVE tx'[q] = tx[q]
  BY <1>2, <1>3 DEF Begin
<1>4. ASSUME NEW p \in Requests, Run(p) PROVE tx'[q] = tx[q]
  <2>1. tx[p].step # "done"
    BY <1>4 DEF Run, SelectSession, RevokeSession, UpdateUser, BuildTokens, CreateSession, Commit
  <2>2. \E t : tx' = [tx EXCEPT ![p] = t]
    <3>1. CASE SelectSession(p)
      BY <3>1 DEF SelectSession, Advance
    <3>2. CASE RevokeSession(p) \/ UpdateUser(p) \/ BuildTokens(p)
      BY <3>2 DEF RevokeSession, UpdateUser, BuildTokens, Advance
    <3>3. CASE CreateSession(p) \/ Commit(p)
      BY <3>3 DEF CreateSession, Commit, Advance, Rollback
    <3> QED BY <1>4, <3>1, <3>2, <3>3 DEF Run
  <2> QED BY <1>2, <2>1, <2>2
<1>5. ASSUME NEW p \in Requests, EndDeadlock(p) \/ Abort(p) PROVE tx'[q] = tx[q]
  <2>1. tx[p].step # "done"
    BY <1>5 DEF EndDeadlock, Circle, Blockers, Abort
  <2> QED BY <1>2, <1>5, <2>1 DEF EndDeadlock, Abort, Rollback
<1> QED BY <1>3, <1>4, <1>5 DEF Next, Tick, vars

\* A step changes nothing for the others, or inserts a row, or commits one.
LEMMA RotationStep ==
  ASSUME IInv, Rotating, [Next]_vars, NoneEnded'
  PROVE  Rotating'
<1>1. CASE tx' = tx /\ status' = status
  BY <1>1 DEF Rotating, RotatesActive, Inserted, Active
<1>2. ASSUME NEW p \in Requests, Private(p),
             tx'[p].op = "refresh" /\ tx'[p].step \notin {"idle", "done"} => Active # {}
      PROVE  Rotating'
  <2>1. Active' = Active
    BY <1>2 DEF Private, Active
  <2>2. \A q \in Requests : q = p \/ tx'[q] = tx[q]
    BY <1>2 DEF Private
  <2>3. \A q \in Requests : Inserted(q)' => Inserted(q) /\ tx'[q] = tx[q]
    BY <1>2, <2>2 DEF Private, Inserted
  <2> QED
    BY <1>2, <2>1, <2>2, <2>3 DEF Rotating, RotatesActive
<1>3. ASSUME NEW p \in Requests, NEW op \in Ops, Begin(p, op)
      PROVE  Rotating'
  <2>1. Private(p)
    BY <1>3, BeginKeeps
  <2>2. PICK s \in IF op = "refresh" THEN Active ELSE {NoRow} :
          tx' = [tx EXCEPT ![p] = [Blank(op, FirstStep[op]) EXCEPT !.seen = s]]
    BY <1>3 DEF Begin
  <2>3. tx'[p].op = op
    BY <2>2 DEF IInv, TypeOK, Blank
  <2>4. op = "refresh" => Active # {}
    BY <2>2
  <2> QED
    BY <1>2, <2>1, <2>3, <2>4
<1>4. ASSUME NEW p \in Requests, Rollback(p), Private(p)
      PROVE  Rotating'
  <2>1. tx'[p].step = "done"
    BY <1>4 DEF Rollback, Blank, IInv, TypeOK
  <2> QED
    BY <1>2, <1>4, <2>1
<1>5. ASSUME NEW p \in Requests, tx[p].step \in {"select", "revoke", "users", "mint"}, Private(p),
             NEW u \in Transaction, Advance(p, u), u.op = tx[p].op, u.step = tx[p].step
      PROVE  Rotating'
  <2>1. tx'[p].op = tx[p].op
    BY <1>5, AdvanceTo DEF IInv
  <2> QED
    BY <1>2, <1>5, <2>1 DEF Rotating
<1>6. ASSUME NEW p \in Requests, CreateSession(p)
      PROVE  Rotating'
  <2>1. CASE Duplicate(p)
    BY <1>4, <1>6, <2>1, RollbackKeeps DEF CreateSession, IInv, TypeOK
  <2>2. CASE ~Duplicate(p)
    <3>1. PICK r \in Transaction :
            /\ tx' = [tx EXCEPT ![p] = r] /\ tx'[p] = r
            /\ r.op = tx[p].op /\ r.seen = tx[p].seen /\ r.revoked = tx[p].revoked
      BY <1>6, <2>2, AdvanceTo DEF CreateSession, IInv, TypeOK
    <3>2. \A q \in Requests \ {p} : tx'[q] = tx[q]
      BY <3>1, SetTransaction DEF IInv
    <3>3. Active' = Active
      BY <1>6 DEF CreateSession, Active
    <3>4. ASSUME r.op = "refresh" PROVE Active # {} /\ r.seen \in Active
      <4>1. Active # {} /\ tx[p].revoked = tx[p].seen
        BY <1>6, <3>1, <3>4 DEF Rotating, CreateSession, IInv, Shape
      <4>2. \A t \in Active : t = tx[p].revoked
        BY <2>2 DEF Duplicate
      <4> QED
        BY <3>1, <4>1, <4>2
    <3> QED
      BY <3>1, <3>2, <3>3, <3>4 DEF Rotating, RotatesActive, Inserted
  <2> QED
    BY <2>1, <2>2
<1>7. ASSUME NEW p \in Requests, Commit(p)
      PROVE  Rotating'
  <2>1. tx[p].op \in {"login", "refresh"} /\ tx[p].step = "commit" /\ tx[p].minted \in Seconds
    <3>1. tx'[p] = Blank(tx[p].op, "done") /\ tx[p].op \in AllOps /\ tx[p].step = "commit"
      BY <1>7 DEF Commit, IInv, TypeOK, Transaction
    <3>2. tx[p].op \notin {"logout", "change"}
      BY <3>1 DEF NoneEnded, Ended, Blank
    <3> QED
      BY <3>1, <3>2 DEF AllOps, IInv, Shape
  <2>2. Inserted(p)
    BY <2>1, NoRowAssumption DEF Inserted
  <2>3. tx[p].minted \in Active'
    BY <1>7, <2>1 DEF Commit, Active
  <2>4. tx'[p] = Blank(tx[p].op, "done") /\ \A q \in Requests \ {p} : tx'[q] = tx[q]
    BY <1>7 DEF Commit, IInv, TypeOK
  <2>5. \A q \in Requests : ~Inserted(q)'
    BY <2>2, <2>4 DEF Inserted, Blank, IInv, Inserting
  <2> QED
    BY <2>3, <2>5 DEF Rotating, RotatesActive
<1>8. ASSUME NEW p \in Requests, Run(p)
      PROVE  Rotating'
  <2>0. tx[p] \in Transaction
    BY DEF IInv, TypeOK
  <2>1. CASE SelectSession(p)
    <3>1. PICK t \in Seconds \cup {NoRow} : Advance(p, [tx[p] EXCEPT !.seen = t])
      BY <2>1 DEF SelectSession, Active
    <3>2. LET u == [tx[p] EXCEPT !.seen = t] IN
          u \in Transaction /\ u.op = tx[p].op /\ u.step = tx[p].step
      BY <2>0 DEF Transaction
    <3> QED
      BY <1>5, <2>1, <3>1, <3>2, SelectKeeps DEF SelectSession
  <2>2. CASE RevokeSession(p)
    <3>1. LET u == [tx[p] EXCEPT !.revoked = tx[p].seen] IN
          u \in Transaction /\ u.op = tx[p].op /\ u.step = tx[p].step
      BY <2>0 DEF Transaction
    <3> QED
      BY <1>5, <2>2, <3>1, RevokeKeeps DEF RevokeSession
  <2>3. CASE UpdateUser(p)
    <3>1. LET u == [tx[p] EXCEPT !.users = TRUE] IN
          u \in Transaction /\ u.op = tx[p].op /\ u.step = tx[p].step
      BY <2>0 DEF Transaction
    <3> QED
      BY <1>5, <2>3, <3>1, UpdateUserKeeps DEF UpdateUser
  <2>4. CASE BuildTokens(p)
    <3>1. LET u == [tx[p] EXCEPT !.minted = now] IN
          u \in Transaction /\ u.op = tx[p].op /\ u.step = tx[p].step
      BY <2>0 DEF Transaction, IInv, TypeOK
    <3> QED
      BY <1>5, <2>4, <3>1, BuildTokensKeeps DEF BuildTokens
  <2> QED
    BY <1>6, <1>7, <1>8, <2>1, <2>2, <2>3, <2>4 DEF Run
<1>9. ASSUME NEW p \in Requests, EndDeadlock(p) \/ Abort(p)
      PROVE  Rotating'
  <2>1. Rollback(p) /\ status' = status /\ now' = now /\ aborts' \in 0..MaxAborts
    BY <1>9, BoundsAssumption DEF EndDeadlock, Abort, IInv, TypeOK
  <2> QED
    BY <1>4, <2>1, RollbackKeeps
<1> QED
  BY <1>1, <1>3, <1>8, <1>9 DEF Next, Tick, vars

\* Only the commit of a logout or a password change leaves the user without a session.
LEMMA SurvivalStep ==
  ASSUME IInv, [Next]_vars, Active # {}, Active' = {}
  PROVE  \E p \in Requests : ~Ended(p) /\ Ended(p)'
<1>1. status' # status
  BY DEF Active
<1>2. PICK p \in Requests : Commit(p)
  BY <1>1 DEF Next, Run, Tick, Begin, SelectSession, RevokeSession, UpdateUser, BuildTokens,
              CreateSession, EndDeadlock, Abort, vars
<1>3. tx[p].step = "commit" /\ tx'[p] = Blank(tx[p].op, "done") /\ tx[p].op \in AllOps
  BY <1>2 DEF Commit, IInv, TypeOK, Transaction
<1>4. CASE tx[p].op \in {"login", "refresh"}
  <2>1. tx[p].minted \in Seconds
    BY <1>3, <1>4 DEF IInv, Shape
  <2>2. tx[p].minted \in Active'
    BY <1>2, <2>1 DEF Commit, Active
  <2> QED BY <2>2
<1>5. CASE tx[p].op \in {"logout", "change"}
  BY <1>3, <1>5 DEF Ended, Blank
<1> QED BY <1>3, <1>4, <1>5 DEF AllOps

\* Until a logout or a password change ends, a refresh takes the place of a session
\* that is still active: two refreshes with one token never both succeed.
THEOREM RefreshRotates == Spec => []RefreshReplaces
<1> DEFINE Inv == NoneEnded => Rotating
<1>1. Init => Inv
  BY RotationInit
<1>2. IInv /\ Inv /\ [Next]_vars => Inv'
  BY RotationStep, EndedStays
<1>3. Inv => RefreshReplaces
  BY DEF Rotating, NoneEnded, RefreshReplaces
<1> QED
  BY <1>1, <1>2, <1>3, Invariance, PTL DEF Spec

\* A user who has a session keeps one until a logout or a password change ends,
\* whichever requests fail.
THEOREM SessionStays == Spec => SessionSurvives
<1>1. IInv /\ [Next]_vars =>
        [Active # {} /\ Active' = {} => \E p \in Requests : ~Ended(p) /\ Ended(p)']_vars
  BY SurvivalStep
<1> QED
  BY <1>1, Invariance, PTL DEF Spec, SessionSurvives

\* A commit inserts a row that is not there yet, so it never overwrites a revoked one.
LEMMA RevocationStep ==
  ASSUME IInv, [Next]_vars, NEW t \in Seconds, status[t] = "revoked"
  PROVE  status'[t] = "revoked"
<1>1. CASE status' = status
  BY <1>1
<1>2. CASE status' # status
  <2>1. PICK p \in Requests : Commit(p)
    BY <1>2 DEF Next, Run, Tick, Begin, SelectSession, RevokeSession, UpdateUser, BuildTokens,
                CreateSession, EndDeadlock, Abort, vars
  <2>2. t # tx[p].minted
    BY <2>1, NoRowAssumption DEF Commit, IInv, Inserting, Inserted
  <2>3. QED
    BY <2>1, <2>2 DEF Commit
<1> QED BY <1>1, <1>2

\* The session that a logout, a password change or a refresh revoked stays revoked.
THEOREM RevocationLasts == Spec => RevokedForGood
<1>1. IInv /\ [Next]_vars => [\A t \in Seconds : status[t] = "revoked" => status'[t] = "revoked"]_vars
  BY RevocationStep
<1> QED
  BY <1>1, Invariance, PTL DEF Spec, RevokedForGood

\* Whatever requests overlap, a circle of waiting transactions contains a login: the
\* others lock the users row, a session and the new session in that order.
THEOREM DeadlocksNeedALogin == Spec => []DeadlockNeedsLogin
<1>1. ASSUME IInv, NEW S \in SUBSET Requests, Circle(S), \A p \in S : tx[p].op # "login"
      PROVE  FALSE
  <2>1. S # {} /\ \A p \in S : \E q \in S : q \in Blockers(p)
    BY <1>1 DEF Circle
  <2>2. \A p \in S : tx[p].step \in {"revoke", "users", "insert"}
    BY <2>1 DEF Blockers
  <2>3. \A p \in S : Shape(p) /\ tx[p].op \in {"refresh", "logout", "change"}
    BY <1>1, OpsAssumption DEF IInv, TypeOK, Transaction, AllOps
  <2>4. \A p \in S : tx[p].revoked # NoRow => tx[p].step = "insert" /\ tx[p].op = "refresh"
    BY <2>2, <2>3, AfterFacts DEF Shape
  <2>5. \A p \in S : ~Inserted(p)
    BY <2>2 DEF Inserted
  <2>6. \A p \in S : tx[p].step # "insert"
    <3>1. ASSUME NEW p \in S, tx[p].step = "insert" PROVE FALSE
      <4>1. PICK q \in S : q \in Blockers(p)
        BY <2>1
      <4>2. RevokesActive(q)
        BY <3>1, <4>1, <2>5 DEF Blockers
      <4>3. tx[q].step = "insert"
        BY <4>2, <2>4, NoRowAssumption DEF RevokesActive, Active
      <4>4. PICK o \in S : o \in Blockers(q)
        BY <2>1
      <4>5. o # q /\ RevokesActive(o)
        BY <4>3, <4>4, <2>5 DEF Blockers
      <4>6. tx[o].revoked = tx[q].revoked /\ tx[o].revoked # NoRow
        BY <4>2, <4>5, <1>1, NoRowAssumption DEF RevokesActive, IInv, OneActiveSession, Active
      <4> QED
        BY <4>5, <4>6, <1>1 DEF IInv, Locks
    <3> QED
      BY <3>1
  <2>7. \A p \in S : tx[p].revoked = NoRow
    BY <2>4, <2>6
  <2>8. \A p \in S : tx[p].step = "users"
    BY <2>1, <2>2, <2>6, <2>7 DEF Blockers
  <2>9. \A p \in S : ~tx[p].users
    BY <2>3, <2>8 DEF Shape
  <2> QED
    BY <2>1, <2>8, <2>9 DEF Blockers
<1>2. IInv => DeadlockNeedsLogin
  BY <1>1 DEF DeadlockNeedsLogin
<1> QED
  BY <1>2, Invariance, PTL
=============================================================================
