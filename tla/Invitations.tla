----------------------------- MODULE Invitations -----------------------------
(***************************************************************************)
(* The invitations of one clan, from the e-mail an admin enters to the     *)
(* membership of the user who has that e-mail: create, accept and revoke   *)
(* of InvitationCommandHandler, with the join requests and the decisions   *)
(* of admins on the same user_clan_roles as the other writers.             *)
(*                                                                         *)
(* A request is one transaction at READ COMMITTED.  An invitation that a   *)
(* request has updated but not committed is locked: the others read its    *)
(* old status, and an UPDATE of it waits.  The last write of a request is  *)
(* one step with its COMMIT.                                               *)
(*                                                                         *)
(* There are two clocks.  accept compares with the time it runs at;        *)
(* create compares with now() of the database, which is the time its       *)
(* transaction started.                                                    *)
(***************************************************************************)
EXTENDS Naturals

CONSTANTS
    Users,        \* the people who are invited, each with an e-mail address
    NoUser,
    Invitations,  \* ids of invitations (uuids)
    NoInvitation,
    Rows,         \* ids of user_clan_roles rows (uuids, never reused)
    NoRow,
    Roles,        \* the role an invitation grants; a join request asks for "viewer"
    Requests,     \* slots for requests running at the same time
    TTL,          \* INVITATION_TTL_DAYS
    MaxTime       \* bound on the clock

ASSUME InvitationsAssumption ==
    /\ NoUser \notin Users
    /\ NoInvitation \notin Invitations
    /\ NoRow \notin Rows
    /\ "viewer" \in Roles
    /\ TTL \in Nat \ {0}
    /\ MaxTime \in Nat

VARIABLES
    invs,   \* clan_invitations by id
    rows,   \* user_clan_roles by id
    audit,  \* how often audit_logs report an acceptance and a revocation
    now,
    pc,     \* the statement each request runs next
    job,    \* what it is about, and the time it compares with
    held    \* invitations it has updated and not committed

tables == <<invs, rows, audit>>
vars == <<tables, now, pc, job, held>>

-----------------------------------------------------------------------------
(* Types *)

Statuses == {"none", "pending", "accepted", "revoked", "expired"}

Invitation == [status : Statuses, user : Users \cup {NoUser}, role : Roles, expires : Nat]

Row == [state : {"unused", "pending", "approved", "deleted"},
        user  : Users \cup {NoUser},
        role  : Roles]

AuditEntry == [accepts : Nat, revokes : Nat]

Job == [inv  : Invitations \cup {NoInvitation},
        user : Users \cup {NoUser},
        role : Roles,
        row  : Rows \cup {NoRow},
        time : Nat]

TypeOK ==
    /\ invs \in [Invitations -> Invitation]
    /\ rows \in [Rows -> Row]
    /\ audit \in [Invitations -> AuditEntry]
    /\ now \in Nat
    /\ pc \in [Requests -> {"idle", "expire", "check", "insert",
                            "claim", "role", "promote", "resolve", "grant", "revoke"}]
    /\ job \in [Requests -> Job]
    /\ held \in [Requests -> SUBSET Invitations]

NoJob == [inv |-> NoInvitation, user |-> NoUser, role |-> "viewer", row |-> NoRow, time |-> 0]

-----------------------------------------------------------------------------
(* Reading the tables *)

PendingFor(u) == {i \in Invitations : invs[i].status = "pending" /\ invs[i].user = u}

\* is_expired: the deadline itself is still in time.
Expired(i) == invs[i].expires < now

\* Mutant of Stale: expire_stale_pending compares like is_expired.
StaleStrict(u, time) == {i \in PendingFor(u) : invs[i].expires < time}

\* What expire_stale_pending retires, and what get_pending_by_email finds.
Stale(u, time) == {i \in PendingFor(u) : invs[i].expires <= time}
Live(u, time) == {i \in PendingFor(u) : invs[i].expires > time}

RowsOf(u) == {m \in Rows : rows[m].user = u /\ rows[m].state \in {"pending", "approved"}}

\* No other request has an uncommitted update of invitation i.
Free(r, i) == \A s \in Requests \ {r} : i \notin held[s]

-----------------------------------------------------------------------------
(* Requests *)

Init ==
    /\ invs = [i \in Invitations |->
                 [status |-> "none", user |-> NoUser, role |-> "viewer", expires |-> 0]]
    /\ rows = [m \in Rows |-> [state |-> "unused", user |-> NoUser, role |-> "viewer"]]
    /\ audit = [i \in Invitations |-> [accepts |-> 0, revokes |-> 0]]
    /\ now = 0
    /\ pc = [r \in Requests |-> "idle"]
    /\ job = [r \in Requests |-> NoJob]
    /\ held = [r \in Requests |-> {}]

Goto(r, next) == pc' = [pc EXCEPT ![r] = next]

\* The transaction ends and its locks go.
End(r) ==
    /\ Goto(r, "idle")
    /\ job' = [job EXCEPT ![r] = NoJob]
    /\ held' = [held EXCEPT ![r] = {}]
    /\ UNCHANGED now

\* The transaction of create starts: this is its now().
BeginCreate(r, u, role) ==
    /\ pc[r] = "idle"
    /\ Goto(r, "expire")
    /\ job' = [job EXCEPT ![r] = [NoJob EXCEPT !.user = u, !.role = role, !.time = now]]
    /\ UNCHANGED <<tables, now, held>>

ExpireStale(r) ==
    /\ pc[r] = "expire"
    /\ \A i \in Stale(job[r].user, job[r].time) : Free(r, i)
    /\ held' = [held EXCEPT ![r] = Stale(job[r].user, job[r].time)]
    /\ Goto(r, "check")
    /\ UNCHANGED <<tables, now, job>>

CheckPending(r) ==
    /\ pc[r] = "check"
    /\ Live(job[r].user, job[r].time) = {}
    /\ Goto(r, "insert")
    /\ UNCHANGED <<tables, now, job, held>>

\* The INSERT passes the partial unique index on (clan, e-mail) of pending
\* invitations; what expire_stale_pending has set to expired is out of it.
Insert(r) ==
    /\ pc[r] = "insert"
    /\ PendingFor(job[r].user) \subseteq held[r]
    /\ \E i \in Invitations :
         /\ invs[i].status = "none"
         /\ invs' = [j \in Invitations |->
              IF j = i THEN [status |-> "pending", user |-> job[r].user,
                             role |-> job[r].role, expires |-> now + TTL]
              ELSE IF j \in held[r] THEN [invs[j] EXCEPT !.status = "expired"]
              ELSE invs[j]]
    /\ End(r)
    /\ UNCHANGED <<rows, audit>>

\* accept loads the invitation by its token; Invitation.accept wants it
\* pending, in time, and for the e-mail of the user who asks.
BeginAccept(r, i) ==
    /\ pc[r] = "idle"
    /\ invs[i].status = "pending"
    /\ ~Expired(i)
    /\ Goto(r, "claim")
    /\ job' = [job EXCEPT ![r] = [NoJob EXCEPT !.inv = i, !.user = invs[i].user,
                                               !.role = invs[i].role, !.time = now]]
    /\ UNCHANGED <<tables, now, held>>

\* transition_status from pending to accepted.
Claim(r) ==
    /\ pc[r] = "claim"
    /\ invs[job[r].inv].status = "pending"
    /\ Free(r, job[r].inv)
    /\ held' = [held EXCEPT ![r] = {job[r].inv}]
    /\ Goto(r, "role")
    /\ UNCHANGED <<tables, now, job>>

\* An approved member is refused; who asked to join is promoted; anybody else
\* becomes a member.
ReadRole(r) ==
    /\ pc[r] = "role"
    /\ \/ /\ RowsOf(job[r].user) = {}
          /\ Goto(r, "grant")
          /\ UNCHANGED job
       \/ \E m \in RowsOf(job[r].user) :
            /\ rows[m].state = "pending"
            /\ job' = [job EXCEPT ![r].row = m]
            /\ Goto(r, "promote")
    /\ UNCHANGED <<tables, now, held>>

\* The membership m, the status and the audit row of the acceptance.
Accepted(r, m) ==
    /\ rows' = [rows EXCEPT ![m] = [state |-> "approved", user |-> job[r].user,
                                    role |-> job[r].role]]
    /\ invs' = [invs EXCEPT ![job[r].inv].status = "accepted"]
    /\ audit' = [audit EXCEPT ![job[r].inv].accepts = @ + 1]
    /\ End(r)

\* Mutant of Promote: promote_if_pending forgets "AND is_approved = false".
PromoteAnyState(r) ==
    /\ pc[r] = "promote"
    /\ rows[job[r].row].state \in {"pending", "approved"}
    /\ Accepted(r, job[r].row)

\* promote_if_pending wins.
Promote(r) ==
    /\ pc[r] = "promote"
    /\ rows[job[r].row].state = "pending"
    /\ Accepted(r, job[r].row)

PromoteLost(r) ==
    /\ pc[r] = "promote"
    /\ rows[job[r].row].state # "pending"
    /\ Goto(r, "resolve")
    /\ UNCHANGED <<tables, now, job, held>>

\* membership_is_approved: only a row that is gone leaves room for a new one.
Resolve(r) ==
    /\ pc[r] = "resolve"
    /\ rows[job[r].row].state = "deleted"
    /\ Goto(r, "grant")
    /\ UNCHANGED <<tables, now, job, held>>

\* add_membership, flushed by the commit; the unique index on (user, clan)
\* refuses it if the user has got a row meanwhile.
Grant(r) ==
    /\ pc[r] = "grant"
    /\ RowsOf(job[r].user) = {}
    /\ \E m \in Rows : rows[m].state = "unused" /\ Accepted(r, m)

BeginRevoke(r, i) ==
    /\ pc[r] = "idle"
    /\ invs[i].status = "pending"
    /\ Goto(r, "revoke")
    /\ job' = [job EXCEPT ![r] = [NoJob EXCEPT !.inv = i]]
    /\ UNCHANGED <<tables, now, held>>

\* Mutant of Revoke: what the request read is trusted.
RevokeUnguarded(r) ==
    /\ pc[r] = "revoke"
    /\ Free(r, job[r].inv)
    /\ invs' = [invs EXCEPT ![job[r].inv].status = "revoked"]
    /\ audit' = [audit EXCEPT ![job[r].inv].revokes = @ + 1]
    /\ End(r)
    /\ UNCHANGED rows

\* transition_status from pending to revoked.
Revoke(r) ==
    /\ pc[r] = "revoke"
    /\ invs[job[r].inv].status = "pending"
    /\ Free(r, job[r].inv)
    /\ invs' = [invs EXCEPT ![job[r].inv].status = "revoked"]
    /\ audit' = [audit EXCEPT ![job[r].inv].revokes = @ + 1]
    /\ End(r)
    /\ UNCHANGED rows

\* A guard refuses, a conditional UPDATE matches nothing, a unique index or the
\* connection fails: the transaction is rolled back.
Abort(r) ==
    /\ pc[r] # "idle"
    /\ End(r)
    /\ UNCHANGED tables

-----------------------------------------------------------------------------
(* The other writers of user_clan_roles, and the clock *)

AskToJoin(u) ==
    /\ RowsOf(u) = {}
    /\ \E m \in Rows :
         /\ rows[m].state = "unused"
         /\ rows' = [rows EXCEPT ![m] = [state |-> "pending", user |-> u, role |-> "viewer"]]
    /\ UNCHANGED <<invs, audit, now, pc, job, held>>

\* approve_user; reject_user or remove_user.
DecideRow(m, state) ==
    /\ \/ state = "approved" /\ rows[m].state = "pending"
       \/ state = "deleted" /\ rows[m].state \in {"pending", "approved"}
    /\ rows' = [rows EXCEPT ![m].state = state]
    /\ UNCHANGED <<invs, audit, now, pc, job, held>>

Tick ==
    /\ now < MaxTime
    /\ now' = now + 1
    /\ UNCHANGED <<tables, pc, job, held>>

Next ==
    \/ \E r \in Requests :
         \/ \E u \in Users, role \in Roles : BeginCreate(r, u, role)
         \/ ExpireStale(r) \/ CheckPending(r) \/ Insert(r)
         \/ \E i \in Invitations : BeginAccept(r, i) \/ BeginRevoke(r, i)
         \/ Claim(r) \/ ReadRole(r)
         \/ Promote(r) \/ PromoteLost(r) \/ Resolve(r) \/ Grant(r)
         \/ Revoke(r)
         \/ Abort(r)
    \/ \E u \in Users : AskToJoin(u)
    \/ \E m \in Rows, state \in {"approved", "deleted"} : DecideRow(m, state)
    \/ Tick

Spec == Init /\ [][Next]_vars

-----------------------------------------------------------------------------
(* Properties *)

\* audit_logs tell what became of an invitation: one acceptance if it is
\* accepted, one revocation if it is revoked, and nothing else.
AuditTellsOutcome ==
    \A i \in Invitations :
        /\ audit[i].accepts = IF invs[i].status = "accepted" THEN 1 ELSE 0
        /\ audit[i].revokes = IF invs[i].status = "revoked" THEN 1 ELSE 0

\* Only a live invitation stands in the way of a new one: once create has
\* retired what its now() says is over, another pending invitation for the
\* e-mail, found by the SELECT or met by the unique index, is in time.
OnlyLiveBlocks ==
    \A r \in Requests :
        pc[r] \in {"check", "insert"} =>
            \A i \in PendingFor(job[r].user) \ held[r] : invs[i].expires > job[r].time

\* An accepted invitation makes one member of one who was none: his row gets
\* the invited role, and he has no other row.
AcceptMakesMember ==
    [][\A i \in Invitations :
         invs[i].status # "accepted" /\ invs'[i].status = "accepted" =>
            \E m \in Rows :
                /\ rows[m].state # "approved"
                /\ rows'[m] = [state |-> "approved", user |-> invs[i].user,
                               role |-> invs[i].role]
                /\ \A k \in Rows \ {m} :
                     rows'[k].user = invs[i].user => rows'[k].state = "deleted"]_vars

\* What was decided stays: no step accepts, revokes or expires an invitation
\* that another request has decided first.
DecidedStays ==
    [][\A i \in Invitations :
         invs[i].status \in {"accepted", "revoked", "expired"} => invs'[i] = invs[i]]_vars

=============================================================================
