------------------------ MODULE ClanMembershipProofs ------------------------
(***************************************************************************)
(* Theorems about ClanMembership, for any set of users and of concurrent   *)
(* requests and any number of rows.  IInv strengthens the invariants TLC   *)
(* checks until it is inductive: a request decides on the rows it has      *)
(* counted, and those rows are its own until it ends.                      *)
(***************************************************************************)
EXTENDS ClanMembership, FiniteSetTheorems, TLAPS

\* A row lock has one holder.
LocksExclusive ==
    \A r, s \in Requests : r # s => held[r] \cap held[s] = {}

\* A counted row is a locked row.
CountedHeld == \A r \in Requests : counted[r] \subseteq held[r]

\* Locks are taken by lock_admin_count and by nothing before it.
LocksFromCounting ==
    \A r \in Requests :
        /\ pc[r] \in {"idle", "read", "count"} => held[r] = {} /\ counted[r] = {}
        /\ pc[r] # "lock" => todo[r] = {}

\* FOR UPDATE has gone through the ids in ascending order.
HeldBelowTodo ==
    \A r \in Requests : \A i \in held[r], j \in todo[r] : i < j

\* A request about to take an admin away holds two of them.
CountedEnough ==
    \A r \in Requests :
        /\ pc[r] = "write"
        /\ seen[r].role = "admin"
        /\ job[r].op = "remove" \/ (job[r].op = "change" /\ job[r].role # "admin")
        => \E i, j \in counted[r] : i # j

\* The row a request has read was there, and its id is never used again.
SeenRowExisted ==
    \A r \in Requests :
        pc[r] \in {"count", "lock", "write", "lost"}
            => seen[r].id \in Ids /\ rows[seen[r].id].state # "unused"

UnusedNotAudited ==
    \A i \in Ids : rows[i].state = "unused" => audit[i].approvals = 0

LockInv ==
    /\ LocksExclusive
    /\ CountedHeld
    /\ LocksFromCounting
    /\ HeldBelowTodo
    /\ CountedStayAdmins

IInv ==
    /\ TypeOK
    /\ LockInv
    /\ CountedEnough
    /\ SeenRowExisted
    /\ LostApprovalIsDecided
    /\ AuditReplaysRows
    /\ UnusedNotAudited

-----------------------------------------------------------------------------

LEMMA TwoElements ==
    ASSUME NEW S, IsFiniteSet(S), Cardinality(S) > 1
    PROVE  \E i, j \in S : i # j
<1>1. Cardinality(S) # 0 /\ Cardinality(S) # 1
  OBVIOUS
<1>2. PICK i \in S : TRUE
  BY <1>1, FS_EmptySet
<1>3. S # {i}
  BY <1>1, FS_Singleton
<1> QED
  BY <1>2, <1>3

LEMMA SubsetOfIdsFinite == \A S \in SUBSET Ids : IsFiniteSet(S)
<1>1. IsFiniteSet(Ids)
  BY MembershipAssumption, FS_Interval DEF Ids
<1> QED
  BY <1>1, FS_Subset

\* Types are kept by every step.
LEMMA TypeStep == TypeOK /\ [Next]_vars => TypeOK'
<1> SUFFICES ASSUME TypeOK, [Next]_vars PROVE TypeOK'
  OBVIOUS
<1> USE MembershipAssumption DEF TypeOK, Row, AuditEntry, Job, Snapshot
<1>1. ASSUME NEW r \in Requests, NEW o \in Ops, NEW u \in Users, NEW n \in Roles,
             Begin(r, o, u, n)
      PROVE  TypeOK'
  BY <1>1 DEF Begin
<1>2. ASSUME NEW r \in Requests, End(r), UNCHANGED <<rows, audit>>
      PROVE  TypeOK'
  BY <1>2 DEF End, NoJob, NotSeen, Ops
<1>3. ASSUME NEW r \in Requests, Read(r) PROVE TypeOK'
  <2>1. PICK i \in RowsOf(job[r].user) :
          /\ seen' = [seen EXCEPT ![r] = [id |-> i, role |-> rows[i].role]]
          /\ pc' = [pc EXCEPT ![r] = IF MustCount(r, i) THEN "count" ELSE "write"]
    BY <1>3 DEF Read
  <2>2. i \in Ids /\ rows[i] \in Row
    BY DEF RowsOf
  <2>3. seen' \in [Requests -> Snapshot]
    BY <2>1, <2>2
  <2>4. pc' \in [Requests -> {"idle", "read", "count", "lock", "write", "lost"}]
    BY <2>1
  <2> QED
    BY <1>3, <2>3, <2>4 DEF Read
<1>4. ASSUME NEW r \in Requests, CountStart(r) PROVE TypeOK'
  BY <1>4 DEF CountStart, Admins
<1>5. ASSUME NEW r \in Requests, LockRow(r) PROVE TypeOK'
  BY <1>5 DEF LockRow
<1>6. ASSUME NEW r \in Requests, CountEnd(r) PROVE TypeOK'
  BY <1>6 DEF CountEnd
<1>7. ASSUME NEW r \in Requests, Write(r) PROVE TypeOK'
  <2>1. CASE seen[r].id \in Ids
    <3> DEFINE row == rows[seen[r].id]
               entry == audit[seen[r].id]
    <3>a. row \in Row /\ entry \in AuditEntry /\ job[r].role \in Roles
      BY <2>1
    <3>b. [row EXCEPT !.state = "approved"] \in Row
      BY <3>a
    <3>c. [row EXCEPT !.role = job[r].role] \in Row
      BY <3>a
    <3>d. Gone("deleted") \in Row
      BY DEF Gone
    <3>1. Written(r) \in Row
      BY <3>b, <3>c, <3>d DEF Written
    <3>n. entry.approvals + 1 \in Nat /\ entry.ends + 1 \in Nat
      BY <3>a
    <3>e. [entry EXCEPT !.approvals = @ + 1] \in AuditEntry
      BY <3>a, <3>n
    <3>f. [entry EXCEPT !.role = job[r].role] \in AuditEntry
      BY <3>a
    <3>g. [entry EXCEPT !.ends = @ + 1] \in AuditEntry
      BY <3>a, <3>n
    <3>2. Audited(r) \in AuditEntry
      BY <3>e, <3>f, <3>g DEF Audited
    <3>3. rows' \in [Ids -> Row] /\ audit' \in [Ids -> AuditEntry]
      BY <1>7, <2>1, <3>1, <3>2 DEF Write
    <3> QED
      BY <1>7, <3>3 DEF Write, End, NoJob, NotSeen, Ops
  <2>2. CASE seen[r].id \notin Ids
    BY <1>7, <2>2 DEF Write, End, NoJob, NotSeen, Ops
  <2> QED
    BY <2>1, <2>2
<1>8. ASSUME NEW r \in Requests, WriteLost(r) PROVE TypeOK'
  BY <1>8 DEF WriteLost
<1>9. ASSUME NEW u \in Users, NEW state \in {"pending", "approved"}, NEW role \in Roles,
             AddMembership(u, state, role)
      PROVE  TypeOK'
  BY <1>9 DEF AddMembership, requestVars
<1>10. ASSUME NEW i \in Ids, NEW role \in Roles, PromoteIfPending(i, role)
       PROVE  TypeOK'
  BY <1>10 DEF PromoteIfPending, requestVars
<1>11. CASE UNCHANGED vars
  BY <1>11 DEF vars, requestVars
<1> QED
  BY <1>1, <1>2, <1>3, <1>4, <1>5, <1>6, <1>7, <1>8, <1>9, <1>10, <1>11
  DEF Next, Step, ReadRefused, CountRefused, Resolve, DeadlockAbort

\* Every reachable state is of the declared types: the ids, roles and lock sets
\* the handlers pass to the repository stay what the schema says they are.
THEOREM MembershipTypes == Spec => []TypeOK
<1>1. Init => TypeOK
  BY MembershipAssumption
  DEF Init, TypeOK, Row, AuditEntry, Job, Snapshot, NoJob, NotSeen, Gone, Ops
<1> QED
  BY <1>1, TypeStep, PTL DEF Spec

-----------------------------------------------------------------------------
(* Row locks *)

\* The transaction that ends takes its locks with it.
LEMMA EndKeepsLockInv ==
    ASSUME TypeOK, LockInv, NEW r \in Requests, End(r), CountedStayAdmins'
    PROVE  LockInv'
BY DEF TypeOK, LockInv, LocksExclusive, CountedHeld, LocksFromCounting, HeldBelowTodo, End

\* Rows other requests hold are not written.
LEMMA WriteKeepsCounted ==
    ASSUME TypeOK, LockInv, SeenRowExisted, NEW r \in Requests, Write(r)
    PROVE  CountedStayAdmins'
<1> DEFINE i == seen[r].id
<1>1. i \in Ids /\ rows' = [rows EXCEPT ![i] = Written(r)]
  BY DEF SeenRowExisted, Write
<1> SUFFICES ASSUME NEW s \in Requests, NEW j \in counted'[s] PROVE j \in Admins'
  BY DEF CountedStayAdmins
<1>2. s # r /\ counted'[s] = counted[s]
  BY DEF Write, End, TypeOK
<1>3. j \in held[s] /\ j \in Admins
  BY <1>2 DEF LockInv, CountedHeld, CountedStayAdmins
<1>4. j # i
  BY <1>2, <1>3 DEF Write, Free
<1>5. rows'[j] = rows[j]
  BY <1>1, <1>3, <1>4 DEF TypeOK, Admins
<1> QED
  BY <1>3, <1>5 DEF Admins

LEMMA LockInvStep == IInv /\ [Next]_vars => LockInv'
<1> SUFFICES ASSUME IInv, [Next]_vars PROVE LockInv'
  OBVIOUS
<1> USE DEF IInv
<1>1. ASSUME NEW r \in Requests, NEW o \in Ops, NEW u \in Users, NEW n \in Roles,
             Begin(r, o, u, n)
      PROVE  LockInv'
  BY <1>1 DEF Begin, TypeOK, LockInv, LocksExclusive, CountedHeld, LocksFromCounting,
              HeldBelowTodo, CountedStayAdmins, Admins
<1>2. ASSUME NEW r \in Requests, End(r), UNCHANGED <<rows, audit>>
      PROVE  LockInv'
  <2>1. CountedStayAdmins'
    BY <1>2 DEF TypeOK, LockInv, CountedStayAdmins, Admins, End
  <2> QED
    BY <1>2, <2>1, EndKeepsLockInv
<1>3. ASSUME NEW r \in Requests, Read(r) PROVE LockInv'
  BY <1>3 DEF Read, TypeOK, LockInv, LocksExclusive, CountedHeld, LocksFromCounting,
              HeldBelowTodo, CountedStayAdmins, Admins
<1>4. ASSUME NEW r \in Requests, CountStart(r) PROVE LockInv'
  BY <1>4 DEF CountStart, TypeOK, LockInv, LocksExclusive, CountedHeld, LocksFromCounting,
              HeldBelowTodo, CountedStayAdmins, Admins
<1>5. ASSUME NEW r \in Requests, LockRow(r) PROVE LockInv'
  <2>1. PICK i \in todo[r] :
          /\ IsNext(r, i)
          /\ Free(r, i)
          /\ todo' = [todo EXCEPT ![r] = @ \ {i}]
          /\ held' = [held EXCEPT ![r] = IF Exists(i) THEN @ \cup {i} ELSE @]
          /\ counted' = [counted EXCEPT ![r] = IF i \in Admins THEN @ \cup {i} ELSE @]
    BY <1>5 DEF LockRow
  <2>2. pc[r] = "lock" /\ UNCHANGED <<rows, audit, pc, job, seen>> /\ Admins' = Admins
    BY <1>5 DEF LockRow, Admins
  <2>3. LocksExclusive'
    BY <2>1 DEF Free, TypeOK, LockInv, LocksExclusive
  <2>4. CountedHeld'
    BY <2>1 DEF Exists, Admins, TypeOK, LockInv, CountedHeld
  <2>5. LocksFromCounting'
    BY <2>1, <2>2 DEF TypeOK, LockInv, LocksFromCounting
  <2>6. HeldBelowTodo'
    BY <2>1 DEF IsNext, TypeOK, LockInv, HeldBelowTodo, Ids
  <2>7. CountedStayAdmins'
    BY <2>1, <2>2 DEF TypeOK, LockInv, CountedStayAdmins
  <2> QED
    BY <2>3, <2>4, <2>5, <2>6, <2>7 DEF LockInv
<1>6. ASSUME NEW r \in Requests, CountEnd(r) PROVE LockInv'
  BY <1>6 DEF CountEnd, TypeOK, LockInv, LocksExclusive, CountedHeld, LocksFromCounting,
              HeldBelowTodo, CountedStayAdmins, Admins
<1>7. ASSUME NEW r \in Requests, Write(r) PROVE LockInv'
  BY <1>7, WriteKeepsCounted, EndKeepsLockInv DEF Write
<1>8. ASSUME NEW r \in Requests, WriteLost(r) PROVE LockInv'
  BY <1>8 DEF WriteLost, TypeOK, LockInv, LocksExclusive, CountedHeld, LocksFromCounting,
              HeldBelowTodo, CountedStayAdmins, Admins
<1>9. ASSUME NEW u \in Users, NEW state \in {"pending", "approved"}, NEW role \in Roles,
             AddMembership(u, state, role)
      PROVE  LockInv'
  <2>1. Admins \subseteq Admins'
    BY <1>9 DEF AddMembership, Admins, TypeOK
  <2> QED
    BY <1>9, <2>1 DEF AddMembership, requestVars, LockInv, LocksExclusive, CountedHeld,
              LocksFromCounting, HeldBelowTodo, CountedStayAdmins
<1>10. ASSUME NEW i \in Ids, NEW role \in Roles, PromoteIfPending(i, role)
       PROVE  LockInv'
  <2>1. Admins \subseteq Admins'
    BY <1>10 DEF PromoteIfPending, Admins, TypeOK
  <2> QED
    BY <1>10, <2>1 DEF PromoteIfPending, requestVars, LockInv, LocksExclusive, CountedHeld,
              LocksFromCounting, HeldBelowTodo, CountedStayAdmins
<1>11. CASE UNCHANGED vars
  BY <1>11 DEF vars, requestVars, LockInv, LocksExclusive, CountedHeld,
              LocksFromCounting, HeldBelowTodo, CountedStayAdmins, Admins
<1> QED
  BY <1>1, <1>2, <1>3, <1>4, <1>5, <1>6, <1>7, <1>8, <1>9, <1>10, <1>11
  DEF Next, Step, ReadRefused, CountRefused, Resolve, DeadlockAbort

-----------------------------------------------------------------------------
(* What a request knows when it writes *)

\* Where every other conjunct is about one request, ending that request cannot
\* break it and the others go on as they were.
LEMMA CountedEnoughStep == IInv /\ [Next]_vars => CountedEnough'
<1> SUFFICES ASSUME IInv, [Next]_vars PROVE CountedEnough'
  OBVIOUS
<1> USE DEF IInv, TypeOK, CountedEnough
<1>1. ASSUME NEW r \in Requests, NEW o \in Ops, NEW u \in Users, NEW n \in Roles,
             Begin(r, o, u, n)
      PROVE  CountedEnough'
  BY <1>1 DEF Begin
<1>2. ASSUME NEW r \in Requests, End(r) PROVE CountedEnough'
  BY <1>2 DEF End
<1>3. ASSUME NEW r \in Requests, Read(r) PROVE CountedEnough'
  BY <1>3 DEF Read, MustCount
<1>4. ASSUME NEW r \in Requests, CountStart(r) PROVE CountedEnough'
  BY <1>4 DEF CountStart
<1>5. ASSUME NEW r \in Requests, LockRow(r) PROVE CountedEnough'
  BY <1>5 DEF LockRow
<1>6. ASSUME NEW r \in Requests, CountEnd(r) PROVE CountedEnough'
  <2>1. \E i, j \in counted[r] : i # j
    <3>1. IsFiniteSet(counted[r])
      BY SubsetOfIdsFinite
    <3> QED
      BY <1>6, <3>1, TwoElements DEF CountEnd
  <2> QED
    BY <1>6, <2>1 DEF CountEnd
<1>7. ASSUME NEW r \in Requests, WriteLost(r) PROVE CountedEnough'
  BY <1>7 DEF WriteLost
<1>8. CASE UNCHANGED requestVars
  BY <1>8 DEF requestVars
<1> QED
  BY <1>1, <1>2, <1>3, <1>4, <1>5, <1>6, <1>7, <1>8
  DEF Next, Step, ReadRefused, CountRefused, Resolve, DeadlockAbort, Write,
      AddMembership, PromoteIfPending, vars

\* Row states only move forward: a row once handed out never becomes unused
\* again, and one that is decided never becomes pending again.
LEMMA RowsMoveOn ==
    ASSUME IInv, [Next]_vars, NEW i \in Ids
    PROVE  /\ rows[i].state # "unused" => rows'[i].state # "unused"
           /\ rows[i].state \in {"approved", "deleted"}
                => rows'[i].state \in {"approved", "deleted"}
<1> USE DEF IInv, TypeOK
<1>1. ASSUME NEW r \in Requests, Write(r)
      PROVE  /\ rows[i].state # "unused" => rows'[i].state # "unused"
             /\ rows[i].state \in {"approved", "deleted"}
                  => rows'[i].state \in {"approved", "deleted"}
  <2>1. CASE i # seen[r].id
    BY <1>1, <2>1 DEF Write
  <2>2. CASE i = seen[r].id
    <3>1. rows'[i] = Written(r)
      BY <1>1, <2>2 DEF Write
    <3>2. Matches(r) /\ rows[i] \in Row
      BY <1>1 DEF Write
    <3> QED
      BY <3>1, <3>2, <2>2 DEF Written, Gone, Matches, Exists, Row
  <2> QED
    BY <2>1, <2>2
<1>2. ASSUME NEW u \in Users, NEW state \in {"pending", "approved"}, NEW role \in Roles,
             AddMembership(u, state, role)
      PROVE  /\ rows[i].state # "unused" => rows'[i].state # "unused"
             /\ rows[i].state \in {"approved", "deleted"}
                  => rows'[i].state \in {"approved", "deleted"}
  BY <1>2 DEF AddMembership
<1>3. ASSUME NEW j \in Ids, NEW role \in Roles, PromoteIfPending(j, role)
      PROVE  /\ rows[i].state # "unused" => rows'[i].state # "unused"
             /\ rows[i].state \in {"approved", "deleted"}
                  => rows'[i].state \in {"approved", "deleted"}
  BY <1>3 DEF PromoteIfPending
<1>4. CASE UNCHANGED rows
  BY <1>4
<1> QED
  BY <1>1, <1>2, <1>3, <1>4
  DEF Next, Step, Begin, Read, ReadRefused, CountStart, LockRow, CountEnd, CountRefused,
      WriteLost, Resolve, DeadlockAbort, vars

LEMMA SeenRowStep == IInv /\ [Next]_vars => SeenRowExisted' /\ LostApprovalIsDecided'
<1> SUFFICES ASSUME IInv, [Next]_vars PROVE SeenRowExisted' /\ LostApprovalIsDecided'
  OBVIOUS
<1> USE DEF IInv, TypeOK
<1>m. \A i \in Ids : /\ rows[i].state # "unused" => rows'[i].state # "unused"
                     /\ rows[i].state \in {"approved", "deleted"}
                          => rows'[i].state \in {"approved", "deleted"}
  BY RowsMoveOn
<1>1. ASSUME NEW r \in Requests, NEW o \in Ops, NEW u \in Users, NEW n \in Roles,
             Begin(r, o, u, n)
      PROVE  SeenRowExisted' /\ LostApprovalIsDecided'
  BY <1>1 DEF Begin, SeenRowExisted, LostApprovalIsDecided
<1>2. ASSUME NEW r \in Requests, End(r)
      PROVE  SeenRowExisted' /\ LostApprovalIsDecided'
  BY <1>2, <1>m DEF End, SeenRowExisted, LostApprovalIsDecided
<1>3. ASSUME NEW r \in Requests, Read(r)
      PROVE  SeenRowExisted' /\ LostApprovalIsDecided'
  BY <1>3, <1>m DEF Read, RowsOf, Exists, SeenRowExisted, LostApprovalIsDecided
<1>4. ASSUME NEW r \in Requests, CountStart(r) \/ LockRow(r) \/ CountEnd(r)
      PROVE  SeenRowExisted' /\ LostApprovalIsDecided'
  BY <1>4 DEF CountStart, LockRow, CountEnd, SeenRowExisted, LostApprovalIsDecided
<1>5. ASSUME NEW r \in Requests, WriteLost(r)
      PROVE  SeenRowExisted' /\ LostApprovalIsDecided'
  <2>1. seen[r].id \in Ids /\ rows[seen[r].id].state # "unused"
    BY <1>5 DEF WriteLost, SeenRowExisted
  <2>2. job[r].op \in {"approve", "reject"} => rows[seen[r].id].state # "pending"
    BY <1>5 DEF WriteLost, Matches
  <2>3. rows[seen[r].id].state \in {"unused", "pending", "approved", "deleted"}
    BY <2>1 DEF Row
  <2> QED
    BY <1>5, <2>1, <2>2, <2>3 DEF WriteLost, SeenRowExisted, LostApprovalIsDecided
<1>6. CASE UNCHANGED requestVars
  BY <1>6, <1>m DEF requestVars, SeenRowExisted, LostApprovalIsDecided
<1> QED
  BY <1>1, <1>2, <1>3, <1>4, <1>5, <1>6
  DEF Next, Step, ReadRefused, CountRefused, Resolve, DeadlockAbort, Write,
      AddMembership, PromoteIfPending, vars

-----------------------------------------------------------------------------
(* The audit log *)

LEMMA AuditStep == IInv /\ [Next]_vars => AuditReplaysRows' /\ UnusedNotAudited'
<1> SUFFICES ASSUME IInv, [Next]_vars PROVE AuditReplaysRows' /\ UnusedNotAudited'
  OBVIOUS
<1> USE DEF IInv, TypeOK
<1>1. ASSUME NEW r \in Requests, Write(r)
      PROVE  AuditReplaysRows' /\ UnusedNotAudited'
  <2> DEFINE k == seen[r].id
  <2>1. /\ k \in Ids /\ rows[k].state # "unused"
        /\ rows' = [rows EXCEPT ![k] = Written(r)]
        /\ audit' = [audit EXCEPT ![k] = Audited(r)]
        /\ Matches(r)
    BY <1>1 DEF Write, SeenRowExisted
  <2>2. \A i \in Ids \ {k} : rows'[i] = rows[i] /\ audit'[i] = audit[i]
    BY <2>1
  <2>3. rows[k] \in Row /\ audit[k] \in AuditEntry /\ job[r] \in Job
    BY <2>1
  <2>4. rows'[k] = Written(r) /\ audit'[k] = Audited(r)
    BY <2>1
  <2>5. CASE job[r].op = "approve"
    <3>1. rows[k].state = "pending" /\ audit[k].approvals = 0 /\ audit[k].ends = 0
      BY <2>1, <2>5 DEF Matches, AuditReplaysRows
    <3>2. /\ rows'[k] = [rows[k] EXCEPT !.state = "approved"]
          /\ audit'[k] = [audit[k] EXCEPT !.approvals = @ + 1]
      BY <2>4, <2>5 DEF Written, Audited
    <3>3. /\ rows'[k].state = "approved" /\ rows'[k].role = rows[k].role
          /\ audit'[k].approvals = 1 /\ audit'[k].ends = 0
          /\ audit'[k].role = audit[k].role
      BY <3>1, <3>2, <2>3 DEF Row, AuditEntry
    <3> QED
      BY <2>2, <3>1, <3>3 DEF AuditReplaysRows, UnusedNotAudited, Exists
  <2>6. CASE job[r].op = "change"
    <3>1. Exists(k)
      BY <2>1, <2>6 DEF Matches
    <3>2. /\ rows'[k] = [rows[k] EXCEPT !.role = job[r].role]
          /\ audit'[k] = [audit[k] EXCEPT !.role = job[r].role]
      BY <2>4, <2>6 DEF Written, Audited
    <3>3. /\ rows'[k].state = rows[k].state /\ rows'[k].role = job[r].role
          /\ audit'[k].approvals = audit[k].approvals /\ audit'[k].ends = audit[k].ends
          /\ audit'[k].role = job[r].role
      BY <3>2, <2>3 DEF Row, AuditEntry
    <3> QED
      BY <2>1, <2>2, <3>1, <3>3 DEF AuditReplaysRows, UnusedNotAudited, Exists
  <2>7. CASE job[r].op \in {"reject", "remove"}
    <3>1. Exists(k)
      BY <2>1, <2>7 DEF Matches, Exists
    <3>2. /\ rows'[k] = Gone("deleted")
          /\ audit'[k] = [audit[k] EXCEPT !.ends = @ + 1]
      BY <2>4, <2>7 DEF Written, Audited
    <3>3. /\ rows'[k].state = "deleted"
          /\ audit'[k].approvals = audit[k].approvals
          /\ audit'[k].ends = audit[k].ends + 1
      BY <3>2, <2>3 DEF Gone, AuditEntry
    <3>4. audit[k].ends = 0
      BY <3>1, <2>1 DEF AuditReplaysRows, Exists
    <3> QED
      BY <2>1, <2>2, <3>3, <3>4 DEF AuditReplaysRows, UnusedNotAudited, Exists
  <2> QED
    BY <2>3, <2>5, <2>6, <2>7 DEF Job, Ops
<1>2. ASSUME NEW u \in Users, NEW state \in {"pending", "approved"}, NEW role \in Roles,
             AddMembership(u, state, role)
      PROVE  AuditReplaysRows' /\ UnusedNotAudited'
  <2>1. PICK k \in Ids :
          /\ rows[k].state = "unused"
          /\ rows' = [rows EXCEPT ![k] = [state |-> state, user |-> u, role |-> role]]
          /\ audit' = [audit EXCEPT ![k].role = role]
    BY <1>2 DEF AddMembership
  <2>2. \A i \in Ids \ {k} : rows'[i] = rows[i] /\ audit'[i] = audit[i]
    BY <2>1
  <2>3. audit[k] \in AuditEntry /\ audit[k].approvals = 0 /\ audit[k].ends = 0
    BY <2>1 DEF AuditReplaysRows, UnusedNotAudited
  <2>4. /\ rows'[k].state = state /\ rows'[k].role = role
        /\ audit'[k].approvals = 0 /\ audit'[k].ends = 0 /\ audit'[k].role = role
    BY <2>1, <2>3 DEF AuditEntry
  <2> QED
    BY <2>2, <2>4 DEF AuditReplaysRows, UnusedNotAudited, Exists
<1>3. ASSUME NEW k \in Ids, NEW role \in Roles, PromoteIfPending(k, role)
      PROVE  AuditReplaysRows' /\ UnusedNotAudited'
  <2>1. \A i \in Ids \ {k} : rows'[i] = rows[i] /\ audit'[i] = audit[i]
    BY <1>3 DEF PromoteIfPending
  <2>2. audit[k] \in AuditEntry /\ audit[k].approvals = 0 /\ audit[k].ends = 0
    BY <1>3 DEF PromoteIfPending, AuditReplaysRows
  <2>3. /\ rows'[k].state = "approved" /\ rows'[k].role = role
        /\ audit'[k].approvals = 0 /\ audit'[k].ends = 0 /\ audit'[k].role = role
    BY <1>3, <2>2 DEF PromoteIfPending, AuditEntry
  <2> QED
    BY <2>1, <2>3 DEF AuditReplaysRows, UnusedNotAudited, Exists
<1>4. CASE UNCHANGED <<rows, audit>>
  BY <1>4 DEF AuditReplaysRows, UnusedNotAudited, Exists
<1> QED
  BY <1>1, <1>2, <1>3, <1>4
  DEF Next, Step, Begin, Read, ReadRefused, CountStart, LockRow, CountEnd, CountRefused,
      WriteLost, Resolve, DeadlockAbort, vars

-----------------------------------------------------------------------------
(* Theorems *)

LEMMA Inductive == Spec => []IInv
<1>1. Init => IInv
  <2> SUFFICES ASSUME Init PROVE IInv
    OBVIOUS
  <2>1. TypeOK
    BY MembershipAssumption
    DEF Init, TypeOK, Row, AuditEntry, Job, Snapshot, NoJob, NotSeen, Gone, Ops
  <2> QED
    BY <2>1 DEF Init, IInv, LockInv, LocksExclusive, CountedHeld, LocksFromCounting,
                HeldBelowTodo, CountedStayAdmins, CountedEnough, SeenRowExisted,
                LostApprovalIsDecided, AuditReplaysRows, UnusedNotAudited, Exists, Gone
<1>2. IInv /\ [Next]_vars => IInv'
  BY TypeStep, LockInvStep, CountedEnoughStep, SeenRowStep, AuditStep DEF IInv
<1> QED
  BY <1>1, <1>2, PTL DEF Spec

\* In any interleaving audit_logs agree with user_clan_roles: no row is reported
\* approved or ended twice, and the role last reported is the role it has.
THEOREM AuditReplays == Spec => []AuditReplaysRows
<1>1. IInv => AuditReplaysRows
  BY DEF IInv
<1> QED
  BY <1>1, Inductive, PTL

\* An approve_user that loses its conditional UPDATE meets a decided row, so the
\* answer it gives from its second read is true.
THEOREM LostApprovals == Spec => []LostApprovalIsDecided
<1>1. IInv => LostApprovalIsDecided
  BY DEF IInv
<1> QED
  BY <1>1, Inductive, PTL

\* The admins that lock_admin_count has counted stay admins until the request that
\* counted them ends.
THEOREM CountedAdminsStay == Spec => []CountedStayAdmins
<1>1. IInv => CountedStayAdmins
  BY DEF IInv, LockInv
<1> QED
  BY <1>1, Inductive, PTL

\* Requests that wait for one another inside lock_admin_count wait in ascending
\* order of row ids, whatever their number: counting cannot deadlock by itself.
THEOREM CountingCannotDeadlock == Spec => []LockOrderAscends
<1>1. IInv => LockOrderAscends
  <2> SUFFICES ASSUME IInv, NEW r \in Requests, NEW s \in Requests,
                      pc[r] = "lock", Waits(r, s),
                      NEW i \in todo[r], NEW j \in todo[s], IsNext(r, i)
               PROVE  i < j
    BY DEF LockOrderAscends
  <2>1. PICK k \in held[s] : IsNext(r, k)
    BY DEF Waits
  <2>2. k \in Nat /\ i \in Nat /\ j \in Nat /\ k = i
    BY <2>1 DEF IInv, TypeOK, Ids, IsNext
  <2>3. k < j
    BY <2>1 DEF IInv, LockInv, HeldBelowTodo
  <2> QED
    BY <2>2, <2>3
<1> QED
  BY <1>1, Inductive, PTL

\* lock_admin_count protects the last admin in every interleaving except one:
\* remove_user deleting a member whom it read before that member was an admin.
THEOREM LastAdminProtected == Spec => LastAdminLeavesOnlyByStaleRemoval
<1> DEFINE Kept == Admins # {} => Admins' # {} \/ \E r \in Requests : StaleRemoval(r)
<1>1. IInv /\ [Next]_vars => [Kept]_vars
  <2> SUFFICES ASSUME IInv, [Next]_vars PROVE Kept
    OBVIOUS
  <2> USE DEF IInv, TypeOK
  <2>1. ASSUME NEW r \in Requests, Write(r) PROVE Kept
    <3> DEFINE k == seen[r].id
    <3>1. /\ k \in Ids
          /\ rows' = [rows EXCEPT ![k] = Written(r)]
          /\ Matches(r)
          /\ pc[r] = "write"
      BY <2>1 DEF Write, SeenRowExisted
    <3>2. \A i \in Admins \ {k} : i \in Admins'
      BY <3>1 DEF Admins
    <3>3. CASE k \notin Admins
      BY <3>2, <3>3
    <3>4. CASE k \in Admins /\ seen[r].role = "admin" /\ \E i, j \in counted[r] : i # j
      <4>1. PICK i \in counted[r] : i # k
        BY <3>4
      <4>2. i \in Admins
        BY DEF LockInv, CountedStayAdmins
      <4> QED
        BY <3>2, <4>1, <4>2
    <3>5. CASE k \in Admins /\ ~(seen[r].role = "admin" /\ \E i, j \in counted[r] : i # j)
      <4>1. rows[k].state = "approved" /\ rows[k].role = "admin" /\ rows[k] \in Row
        BY <3>1, <3>5 DEF Admins
      <4>2. job[r].op \notin {"approve", "reject"}
        BY <3>1, <4>1 DEF Matches
      <4>3. CASE job[r].op = "change"
        <5>1. seen[r].role = "admin"
          BY <3>1, <4>1, <4>3 DEF Matches
        <5>2. job[r].role = "admin"
          BY <3>1, <3>5, <4>3, <5>1 DEF CountedEnough
        <5>3. rows'[k] = [rows[k] EXCEPT !.role = "admin"]
          BY <3>1, <4>3, <5>2 DEF Written
        <5>4. rows'[k].state = "approved" /\ rows'[k].role = "admin"
          BY <5>3, <4>1 DEF Row
        <5> QED
          BY <3>1, <5>4 DEF Admins
      <4>4. CASE job[r].op = "remove"
        BY <3>1, <3>5, <4>4 DEF CountedEnough, StaleRemoval
      <4> QED
        BY <4>2, <4>3, <4>4 DEF Job, Ops
    <3> QED
      BY <3>3, <3>4, <3>5
  <2>2. ASSUME NEW u \in Users, NEW state \in {"pending", "approved"}, NEW role \in Roles,
               AddMembership(u, state, role)
        PROVE  Kept
    BY <2>2 DEF AddMembership, Admins
  <2>3. ASSUME NEW i \in Ids, NEW role \in Roles, PromoteIfPending(i, role)
        PROVE  Kept
    BY <2>3 DEF PromoteIfPending, Admins
  <2>4. CASE UNCHANGED rows
    BY <2>4 DEF Admins
  <2> QED
    BY <2>1, <2>2, <2>3, <2>4
    DEF Next, Step, Begin, Read, ReadRefused, CountStart, LockRow, CountEnd, CountRefused,
        WriteLost, Resolve, DeadlockAbort, vars
<1> QED
  BY <1>1, Inductive, PTL DEF Spec, LastAdminLeavesOnlyByStaleRemoval

\* A reject never deletes a member another request has approved.
THEOREM RejectSparesApproved == Spec => ApprovedLeaveOnlyByRemoval
<1> DEFINE Spared == \A i \in Ids :
              rows[i].state = "approved" /\ rows'[i].state # "approved"
                 => \E r \in Requests : job[r].op = "remove" /\ seen[r].id = i
<1>1. IInv /\ [Next]_vars => [Spared]_vars
  <2> SUFFICES ASSUME IInv, [Next]_vars, NEW i \in Ids,
                      rows[i].state = "approved", rows'[i].state # "approved"
               PROVE  \E r \in Requests : job[r].op = "remove" /\ seen[r].id = i
    OBVIOUS
  <2> USE DEF IInv, TypeOK
  <2>1. ASSUME NEW r \in Requests, Write(r)
        PROVE  job[r].op = "remove" /\ seen[r].id = i
    <3>1. seen[r].id = i
      BY <2>1 DEF Write
    <3>2. rows'[i] = Written(r) /\ Matches(r) /\ rows[i] \in Row
      BY <2>1, <3>1 DEF Write
    <3>3. job[r].op \notin {"approve", "reject"}
      BY <3>1, <3>2 DEF Matches
    <3>4. job[r].op # "change"
      BY <3>1, <3>2 DEF Written, Row
    <3> QED
      BY <3>1, <3>3, <3>4 DEF Job, Ops
  <2>2. ASSUME NEW u \in Users, NEW state \in {"pending", "approved"}, NEW role \in Roles,
               AddMembership(u, state, role)
        PROVE  FALSE
    BY <2>2 DEF AddMembership
  <2>3. ASSUME NEW j \in Ids, NEW role \in Roles, PromoteIfPending(j, role)
        PROVE  FALSE
    BY <2>3 DEF PromoteIfPending
  <2>4. CASE UNCHANGED rows
    BY <2>4
  <2> QED
    BY <2>1, <2>2, <2>3, <2>4
    DEF Next, Step, Begin, Read, ReadRefused, CountStart, LockRow, CountEnd, CountRefused,
        WriteLost, Resolve, DeadlockAbort, vars
<1> QED
  BY <1>1, Inductive, PTL DEF Spec, ApprovedLeaveOnlyByRemoval
=============================================================================
