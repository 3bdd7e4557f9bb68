--------------------------- MODULE ClanMembership ---------------------------
(***************************************************************************)
(* The user_clan_roles rows of one clan and the four administration        *)
(* requests that change them: ClanCommandHandler.approve_user,             *)
(* reject_user, change_role and remove_user.                               *)
(*                                                                         *)
(* A request is one database transaction at READ COMMITTED: every SQL      *)
(* statement is a step of its own and sees what is committed when it       *)
(* starts.  Row locks taken by SELECT ... FOR UPDATE are kept until the    *)
(* request ends.  The conditional UPDATE or DELETE a request ends with is  *)
(* one step with the COMMIT that follows it: nobody sees the row between   *)
(* the two, and a writer that meets it there waits as if it came first.    *)
(***************************************************************************)
EXTENDS Naturals, FiniteSets

CONSTANTS
    Users,      \* the people who may belong to the clan
    NoUser,     \* the user of a row that does not exist
    Roles,      \* admin, viewer and the roles between (editor)
    Requests,   \* slots for requests running at the same time
    MaxId       \* row ids (uuids, never reused) that may be handed out

ASSUME MembershipAssumption ==
    /\ NoUser \notin Users
    /\ {"admin", "viewer"} \subseteq Roles
    /\ MaxId \in Nat

Ids == 1 .. MaxId
Ops == {"approve", "reject", "change", "remove"}

VARIABLES
    rows,     \* user_clan_roles by id
    audit,    \* what audit_logs say of each row id
    pc,       \* the statement each request runs next
    job,      \* the operation asked for, the user it is about, the new role
    seen,     \* id and role of the row as get_user_clan_role returned it
    todo,     \* rows lock_admin_count has still to lock
    held,     \* rows whose lock the request holds
    counted   \* rows lock_admin_count counts

requestVars == <<pc, job, seen, todo, held, counted>>
vars == <<rows, audit, requestVars>>

-----------------------------------------------------------------------------
(* Types *)

Row == [state : {"unused", "pending", "approved", "deleted"},
        user  : Users \cup {NoUser},
        role  : Roles]

AuditEntry == [approvals : Nat, ends : Nat, role : Roles]

Job == [op : Ops, user : Users \cup {NoUser}, role : Roles]

Snapshot == [id : Ids \cup {0}, role : Roles]

TypeOK ==
    /\ rows \in [Ids -> Row]
    /\ audit \in [Ids -> AuditEntry]
    /\ pc \in [Requests -> {"idle", "read", "count", "lock", "write", "lost"}]
    /\ job \in [Requests -> Job]
    /\ seen \in [Requests -> Snapshot]
    /\ todo \in [Requests -> SUBSET Ids]
    /\ held \in [Requests -> SUBSET Ids]
    /\ counted \in [Requests -> SUBSET Ids]

NoJob == [op |-> "approve", user |-> NoUser, role |-> "viewer"]
NotSeen == [id |-> 0, role |-> "viewer"]
Gone(state) == [state |-> state, user |-> NoUser, role |-> "viewer"]

-----------------------------------------------------------------------------
(* Reading the table *)

Exists(i) == rows[i].state \in {"pending", "approved"}

\* The approved admin rows: what lock_admin_count selects.
Admins == {i \in Ids : rows[i].state = "approved" /\ rows[i].role = "admin"}

\* get_user_clan_role: at most one row, by the unique index (user_id, clan_id).
RowsOf(u) == {i \in Ids : Exists(i) /\ rows[i].user = u}

\* No other request holds the lock of row i.
Free(r, i) == \A s \in Requests \ {r} : i \notin held[s]

\* The row lock_admin_count asks for next: FOR UPDATE goes in the order of ids.
IsNext(r, i) == i \in todo[r] /\ \A j \in todo[r] : i <= j

-----------------------------------------------------------------------------
(* The conditional writes at the end of a request, as committed rows see them *)

\* Mutant of Matches: approve and reject forget "AND is_approved = false".
MatchesAnyState(r) ==
    LET i == seen[r].id IN
    CASE job[r].op \in {"approve", "reject", "remove"} -> Exists(i)
      [] job[r].op = "change" -> Exists(i) /\ rows[i].role = seen[r].role

\* WHERE clause of approve_if_pending, delete_if_pending, change_role_if and
\* delete_role_by_id.
Matches(r) ==
    LET i == seen[r].id IN
    CASE job[r].op = "approve" -> rows[i].state = "pending"
      [] job[r].op = "reject"  -> rows[i].state = "pending"
      [] job[r].op = "change"  -> Exists(i) /\ rows[i].role = seen[r].role
      [] job[r].op = "remove"  -> Exists(i)

\* What they make of the row.
Written(r) ==
    LET row == rows[seen[r].id] IN
    CASE job[r].op = "approve" -> [row EXCEPT !.state = "approved"]
      [] job[r].op = "change"  -> [row EXCEPT !.role = job[r].role]
      [] OTHER                 -> Gone("deleted")

\* The event the unit of work turns into an audit row: UserApproved,
\* UserRoleChanged, UserRejected or UserRemoved.
Audited(r) ==
    LET entry == audit[seen[r].id] IN
    CASE job[r].op = "approve" -> [entry EXCEPT !.approvals = @ + 1]
      [] job[r].op = "change"  -> [entry EXCEPT !.role = job[r].role]
      [] OTHER                 -> [entry EXCEPT !.ends = @ + 1]

-----------------------------------------------------------------------------
(* Actions *)

\* A clan is created with its creator as the approved admin.
Init ==
    /\ \E u \in Users, i \in Ids :
         rows = [j \in Ids |->
                   IF j = i
                   THEN [state |-> "approved", user |-> u, role |-> "admin"]
                   ELSE Gone("unused")]
    /\ audit = [i \in Ids |-> [approvals |-> 0, ends |-> 0, role |-> rows[i].role]]
    /\ pc = [r \in Requests |-> "idle"]
    /\ job = [r \in Requests |-> NoJob]
    /\ seen = [r \in Requests |-> NotSeen]
    /\ todo = [r \in Requests |-> {}]
    /\ held = [r \in Requests |-> {}]
    /\ counted = [r \in Requests |-> {}]

\* The transaction ends and its locks go.
End(r) ==
    /\ pc' = [pc EXCEPT ![r] = "idle"]
    /\ job' = [job EXCEPT ![r] = NoJob]
    /\ seen' = [seen EXCEPT ![r] = NotSeen]
    /\ todo' = [todo EXCEPT ![r] = {}]
    /\ held' = [held EXCEPT ![r] = {}]
    /\ counted' = [counted EXCEPT ![r] = {}]

\* require_role lets an approved admin in; it is not asked again later.
\* remove_user refuses its own actor before it reads anything.
Begin(r, o, u, n) ==
    /\ pc[r] = "idle"
    /\ \E i \in Admins : o = "remove" => rows[i].user # u
    /\ o # "change" => n = "viewer"
    /\ pc' = [pc EXCEPT ![r] = "read"]
    /\ job' = [job EXCEPT ![r] = [op |-> o, user |-> u, role |-> n]]
    /\ UNCHANGED <<rows, audit, seen, todo, held, counted>>

\* The request must count the admins before it takes one away.
MustCount(r, i) ==
    /\ rows[i].role = "admin"
    /\ \/ job[r].op = "remove"
       \/ job[r].op = "change" /\ job[r].role # "admin"

Read(r) ==
    /\ pc[r] = "read"
    /\ \E i \in RowsOf(job[r].user) :
         /\ job[r].op \in {"approve", "reject"} => rows[i].state = "pending"
         /\ seen' = [seen EXCEPT ![r] = [id |-> i, role |-> rows[i].role]]
         /\ pc' = [pc EXCEPT ![r] = IF MustCount(r, i) THEN "count" ELSE "write"]
    /\ UNCHANGED <<rows, audit, job, todo, held, counted>>

\* user_not_found or user.already_approved: nothing was written.
ReadRefused(r) ==
    /\ pc[r] = "read"
    /\ \A i \in RowsOf(job[r].user) :
         job[r].op \in {"approve", "reject"} /\ rows[i].state = "approved"
    /\ End(r)
    /\ UNCHANGED <<rows, audit>>

\* lock_admin_count starts: its snapshot fixes the candidates.
CountStart(r) ==
    /\ pc[r] = "count"
    /\ todo' = [todo EXCEPT ![r] = Admins]
    /\ pc' = [pc EXCEPT ![r] = "lock"]
    /\ UNCHANGED <<rows, audit, job, seen, held, counted>>

\* Mutant of LockRow: the candidates come in no order.
LockRowUnordered(r) ==
    /\ pc[r] = "lock"
    /\ \E i \in todo[r] :
         /\ Free(r, i)
         /\ todo' = [todo EXCEPT ![r] = @ \ {i}]
         /\ held' = [held EXCEPT ![r] = IF Exists(i) THEN @ \cup {i} ELSE @]
         /\ counted' = [counted EXCEPT ![r] = IF i \in Admins THEN @ \cup {i} ELSE @]
    /\ UNCHANGED <<rows, audit, pc, job, seen>>

\* It locks the next candidate, waiting for another holder, and reads the
\* locked row again: a row that changed meanwhile is locked but not counted,
\* a row that was deleted is passed over.
LockRow(r) ==
    /\ pc[r] = "lock"
    /\ \E i \in todo[r] :
         /\ IsNext(r, i)
         /\ Free(r, i)
         /\ todo' = [todo EXCEPT ![r] = @ \ {i}]
         /\ held' = [held EXCEPT ![r] = IF Exists(i) THEN @ \cup {i} ELSE @]
         /\ counted' = [counted EXCEPT ![r] = IF i \in Admins THEN @ \cup {i} ELSE @]
    /\ UNCHANGED <<rows, audit, pc, job, seen>>

\* Mutant of CountEnd: one admin is taken to be enough.
CountEndOffByOne(r) ==
    /\ pc[r] = "lock"
    /\ todo[r] = {}
    /\ Cardinality(counted[r]) >= 1
    /\ pc' = [pc EXCEPT ![r] = "write"]
    /\ UNCHANGED <<rows, audit, job, seen, todo, held, counted>>

CountEnd(r) ==
    /\ pc[r] = "lock"
    /\ todo[r] = {}
    /\ Cardinality(counted[r]) > 1
    /\ pc' = [pc EXCEPT ![r] = "write"]
    /\ UNCHANGED <<rows, audit, job, seen, todo, held, counted>>

\* clan.last_admin_cannot_demote or clan.last_admin_cannot_remove.
CountRefused(r) ==
    /\ pc[r] = "lock"
    /\ todo[r] = {}
    /\ Cardinality(counted[r]) <= 1
    /\ End(r)
    /\ UNCHANGED <<rows, audit>>

\* The conditional write wins, the event is audited, the request commits.
Write(r) ==
    /\ pc[r] = "write"
    /\ Matches(r)
    /\ Free(r, seen[r].id)
    /\ rows' = [rows EXCEPT ![seen[r].id] = Written(r)]
    /\ audit' = [audit EXCEPT ![seen[r].id] = Audited(r)]
    /\ End(r)

\* It matches no row.  A row that does not match is not waited for.
WriteLost(r) ==
    /\ pc[r] = "write"
    /\ ~Matches(r)
    /\ pc' = [pc EXCEPT ![r] = "lost"]
    /\ UNCHANGED <<rows, audit, job, seen, todo, held, counted>>

\* role_is_approved and role_of pick the error to answer; the request ends.
Resolve(r) ==
    /\ pc[r] = "lost"
    /\ End(r)
    /\ UNCHANGED <<rows, audit>>

\* Request r waits for a row lock that request s holds.
Waits(r, s) ==
    /\ r # s
    /\ \/ pc[r] = "lock" /\ \E i \in held[s] : IsNext(r, i)
       \/ pc[r] = "write" /\ Matches(r) /\ seen[r].id \in held[s]

\* A request waits for one row, and one request holds it: a set in which each
\* waits for a member and is waited for by one is made of cycles.
InCycle(r) ==
    \E S \in SUBSET Requests :
        /\ r \in S
        /\ \A s \in S : (\E t \in S : Waits(s, t)) /\ (\E t \in S : Waits(t, s))

\* PostgreSQL breaks a deadlock by aborting one of its transactions.
DeadlockAbort(r) ==
    /\ InCycle(r)
    /\ End(r)
    /\ UNCHANGED <<rows, audit>>

\* The other writers of the table, each one transaction of its own.  A join
\* request adds a pending viewer; accepting an invitation, or an approved
\* identity claim, adds an approved row.
AddMembership(u, state, role) ==
    /\ RowsOf(u) = {}
    /\ state = "pending" => role = "viewer"
    /\ \E i \in Ids :
         /\ rows[i].state = "unused"
         /\ rows' = [rows EXCEPT ![i] = [state |-> state, user |-> u, role |-> role]]
         /\ audit' = [audit EXCEPT ![i].role = role]
    /\ UNCHANGED requestVars

\* Accepting an invitation promotes a membership that still waits for approval.
PromoteIfPending(i, role) ==
    /\ rows[i].state = "pending"
    /\ rows' = [rows EXCEPT ![i] = [state |-> "approved", user |-> rows[i].user,
                                    role |-> role]]
    /\ audit' = [audit EXCEPT ![i].role = role]
    /\ UNCHANGED requestVars

Step(r) ==
    \/ Read(r) \/ ReadRefused(r)
    \/ CountStart(r) \/ LockRow(r) \/ CountEnd(r) \/ CountRefused(r)
    \/ Write(r) \/ WriteLost(r) \/ Resolve(r)
    \/ DeadlockAbort(r)

Next ==
    \/ \E r \in Requests, o \in Ops, u \in Users, n \in Roles : Begin(r, o, u, n)
    \/ \E r \in Requests : Step(r)
    \/ \E u \in Users, state \in {"pending", "approved"}, role \in Roles :
         AddMembership(u, state, role)
    \/ \E i \in Ids, role \in Roles : PromoteIfPending(i, role)

Spec == Init /\ [][Next]_vars

-----------------------------------------------------------------------------
(* Properties *)

\* What audit_logs say of a row agrees with the row: the role last reported is
\* the role it has, approve_user reports at most one approval of it and none
\* before it is approved, and it is reported ended once, when it is gone.
AuditReplaysRows ==
    \A i \in Ids :
        /\ Exists(i) => audit[i].role = rows[i].role
        /\ audit[i].approvals <= 1
        /\ rows[i].state = "pending" => audit[i].approvals = 0
        /\ audit[i].ends = IF rows[i].state = "deleted" THEN 1 ELSE 0

\* approve_user, when its conditional UPDATE loses, answers from a second read
\* that assumes the row can no longer be pending.
LostApprovalIsDecided ==
    \A r \in Requests :
        pc[r] = "lost" /\ job[r].op \in {"approve", "reject"}
            => rows[seen[r].id].state \in {"approved", "deleted"}

\* The admins a request has counted stay approved admins until it ends: the
\* count it decides on is not stale when it writes.
CountedStayAdmins == \A r \in Requests : counted[r] \subseteq Admins

\* Requests that wait inside lock_admin_count wait upwards in the order of row
\* ids, so they cannot wait on each other in a circle.
LockOrderAscends ==
    \A r, s \in Requests :
        pc[r] = "lock" /\ pc[s] = "lock" /\ Waits(r, s)
            => \A i \in todo[r], j \in todo[s] : IsNext(r, i) /\ IsNext(s, j) => i < j

\* A request that removes a member it read before that member became an admin.
StaleRemoval(r) ==
    /\ job[r].op = "remove"
    /\ pc[r] = "write"
    /\ seen[r].role # "admin"
    /\ seen[r].id \in Admins

\* No step takes the last approved admin away, except the removal of a member
\* who was read as something else and has become the only admin since.
LastAdminLeavesOnlyByStaleRemoval ==
    [][Admins # {} => Admins' # {} \/ \E r \in Requests : StaleRemoval(r)]_vars

\* An approved member leaves only through remove_user: a reject that raced with
\* the approval never deletes the row.
ApprovedLeaveOnlyByRemoval ==
    [][\A i \in Ids :
         rows[i].state = "approved" /\ rows'[i].state # "approved"
            => \E r \in Requests : job[r].op = "remove" /\ seen[r].id = i]_vars

\* change_role's comment: a clan always keeps at least one approved admin.
ClanKeepsAnAdmin == Admins # {}

=============================================================================
