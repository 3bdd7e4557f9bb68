-------------------------- MODULE InvitationsProofs --------------------------
(***************************************************************************)
(* Theorems about Invitations for any people, invitations, rows, roles and *)
(* concurrent requests.  The argument is about the row locks: what a       *)
(* request has updated and not committed is pending for everybody else and *)
(* nobody else updates it, so the decision is taken once.                  *)
(***************************************************************************)
EXTENDS Invitations, TLAPS

AcceptPcs == {"role", "promote", "resolve", "grant"}

\* An uncommitted update is of a pending invitation, and of one request.
LocksArePending ==
    \A r \in Requests :
        /\ \A i \in held[r] : invs[i].status = "pending"
        /\ \A s \in Requests \ {r} : held[r] \cap held[s] = {}

\* What a request holds at each statement.
HoldsByPhase ==
    \A r \in Requests :
        /\ pc[r] \in {"idle", "expire", "claim", "revoke"} => held[r] = {}
        /\ pc[r] \in AcceptPcs => held[r] = {job[r].inv}

\* What a request has read that cannot change under it.
JobsAreTrue ==
    \A r \in Requests :
        /\ job[r].time <= now
        /\ pc[r] \in {"expire", "check", "insert"} => job[r].user \in Users
        /\ pc[r] \in {"claim", "revoke"} \cup AcceptPcs => job[r].inv \in Invitations
        /\ pc[r] \in {"claim"} \cup AcceptPcs =>
              /\ job[r].user = invs[job[r].inv].user
              /\ job[r].role = invs[job[r].inv].role
              /\ invs[job[r].inv].status # "none"
        /\ pc[r] \in {"promote", "resolve"} =>
              /\ job[r].row \in Rows
              /\ rows[job[r].row].state # "unused"
              /\ rows[job[r].row].user = job[r].user

\* Only what is used is about somebody.
UsedHaveUsers ==
    /\ \A i \in Invitations : invs[i].status # "none" => invs[i].user \in Users
    /\ \A m \in Rows : rows[m].state = "unused" => rows[m].user = NoUser

\* The unique index on (user, clan).
OneRowEach == \A m, k \in Rows : rows[m].user = rows[k].user
                 /\ rows[m].state \in {"pending", "approved"}
                 /\ rows[k].state \in {"pending", "approved"} => m = k

IInv ==
    /\ TypeOK
    /\ LocksArePending
    /\ HoldsByPhase
    /\ JobsAreTrue
    /\ UsedHaveUsers
    /\ OneRowEach
    /\ AuditTellsOutcome
    /\ OnlyLiveBlocks

-----------------------------------------------------------------------------
(* What the last step of each kind of request does to the tables. *)


LEMMA NoJobType == NoJob \in Job
BY InvitationsAssumption DEF NoJob, Job

LEMMA EndType ==
    ASSUME TypeOK, NEW r \in Requests, End(r)
    PROVE  /\ now' = now
           /\ pc' \in [Requests -> {"idle", "expire", "check", "insert",
                                    "claim", "role", "promote", "resolve", "grant", "revoke"}]
           /\ job' \in [Requests -> Job]
           /\ held' \in [Requests -> SUBSET Invitations]
           /\ pc'[r] = "idle" /\ job'[r] = NoJob /\ held'[r] = {}
           /\ \A s \in Requests \ {r} :
                pc'[s] = pc[s] /\ job'[s] = job[s] /\ held'[s] = held[s]
BY NoJobType DEF End, Goto, TypeOK

\* A request that reads or claims changes nothing another transaction sees.
Reads(r) ==
    \/ \E u \in Users, role \in Roles : BeginCreate(r, u, role)
    \/ ExpireStale(r) \/ CheckPending(r)
    \/ \E i \in Invitations : BeginAccept(r, i) \/ BeginRevoke(r, i)
    \/ Claim(r) \/ ReadRole(r) \/ PromoteLost(r) \/ Resolve(r) \/ Abort(r)

\* The five steps that write, with the row that Promote and Grant approve.
LEMMA StepCases ==
    ASSUME Next
    PROVE  \/ \E r \in Requests : Reads(r) \/ Insert(r) \/ Revoke(r) \/ Promote(r) \/ Grant(r)
           \/ \E u \in Users : AskToJoin(u)
           \/ \E m \in Rows, state \in {"approved", "deleted"} : DecideRow(m, state)
           \/ Tick
BY DEF Next, Reads

\* A record of a job with some of its fields set is a job.
LEMMA ReadTypes ==
    ASSUME IInv, NEW r \in Requests, Reads(r)
    PROVE  TypeOK' /\ UNCHANGED tables
<1> USE DEF IInv, Goto, tables
<1>1. CASE \E u \in Users, role \in Roles : BeginCreate(r, u, role)
  <2> PICK u \in Users, role \in Roles : BeginCreate(r, u, role)
    BY <1>1
  <2>1. [NoJob EXCEPT !.user = u, !.role = role, !.time = now] \in Job
    BY NoJobType DEF TypeOK, Job
  <2> QED
    BY <2>1 DEF TypeOK, BeginCreate
<1>2. CASE ExpireStale(r)
  BY <1>2 DEF TypeOK, ExpireStale, Stale, PendingFor
<1>3. CASE CheckPending(r) \/ Claim(r) \/ PromoteLost(r) \/ Resolve(r)
  <2>1. CASE CheckPending(r)
    BY <2>1 DEF TypeOK, CheckPending
  <2>2. CASE Claim(r)
    <3>1. job[r].inv \in Invitations
      BY <2>2 DEF JobsAreTrue, Claim
    <3> QED
      BY <2>2, <3>1 DEF TypeOK, Claim
  <2>3. CASE PromoteLost(r) \/ Resolve(r)
    BY <2>3 DEF TypeOK, PromoteLost, Resolve
  <2> QED
    BY <1>3, <2>1, <2>2, <2>3
<1>4. CASE \E i \in Invitations : BeginAccept(r, i)
  <2> PICK i \in Invitations : BeginAccept(r, i)
    BY <1>4
  <2>1. invs[i].user \in Users \cup {NoUser} /\ invs[i].role \in Roles
    BY DEF TypeOK, Invitation
  <2>2. [NoJob EXCEPT !.inv = i, !.user = invs[i].user,
                      !.role = invs[i].role, !.time = now] \in Job
    BY <2>1, NoJobType DEF TypeOK, Job
  <2> QED
    BY <2>2 DEF TypeOK, BeginAccept
<1>5. CASE \E i \in Invitations : BeginRevoke(r, i)
  <2> PICK i \in Invitations : BeginRevoke(r, i)
    BY <1>5
  <2>1. [NoJob EXCEPT !.inv = i] \in Job
    BY NoJobType DEF Job
  <2> QED
    BY <2>1 DEF TypeOK, BeginRevoke
<1>6. CASE ReadRole(r)
  <2>1. ASSUME NEW x \in Rows PROVE [job[r] EXCEPT !.row = x] \in Job
    BY DEF TypeOK, Job
  <2>2. RowsOf(job[r].user) \subseteq Rows
    BY DEF RowsOf
  <2> QED
    BY <1>6, <2>1, <2>2 DEF TypeOK, ReadRole
<1>7. CASE Abort(r)
  BY <1>7, EndType DEF TypeOK, Abort
<1> QED
  BY <1>1, <1>2, <1>3, <1>4, <1>5, <1>6, <1>7 DEF Reads

\* A step that reads or claims touches one request; the others keep their
\* place, and what it claims was claimed by nobody.
LEMMA ReadEffect ==
    ASSUME IInv, NEW r \in Requests, Reads(r)
    PROVE  /\ \A s \in Requests \ {r} :
                pc'[s] = pc[s] /\ job'[s] = job[s] /\ held'[s] = held[s]
           /\ now' = now /\ invs' = invs /\ rows' = rows /\ audit' = audit
           /\ \A i \in held'[r] : invs[i].status = "pending" /\ Free(r, i)
<1> USE DEF IInv, TypeOK, Goto, tables
<1>0. \A i \in held[r] : invs[i].status = "pending" /\ Free(r, i)
  BY DEF LocksArePending, Free
<1>1. CASE ExpireStale(r)
  BY <1>1 DEF ExpireStale, Stale, PendingFor
<1>2. CASE Claim(r)
  BY <1>2 DEF Claim
<1>3. CASE Abort(r)
  BY <1>3, EndType DEF Abort
<1>4. CASE \/ CheckPending(r) \/ ReadRole(r) \/ PromoteLost(r) \/ Resolve(r)
           \/ \E u \in Users, role \in Roles : BeginCreate(r, u, role)
           \/ \E i \in Invitations : BeginAccept(r, i) \/ BeginRevoke(r, i)
  BY <1>0, <1>4 DEF CheckPending, ReadRole, PromoteLost, Resolve, BeginCreate,
                    BeginAccept, BeginRevoke
<1> QED
  BY <1>1, <1>2, <1>3, <1>4 DEF Reads

\* The conjuncts of the invariant that are about one request.
RequestInv(r) ==
    /\ pc[r] \in {"idle", "expire", "claim", "revoke"} => held[r] = {}
    /\ pc[r] \in AcceptPcs => held[r] = {job[r].inv}
    /\ job[r].time <= now
    /\ pc[r] \in {"expire", "check", "insert"} => job[r].user \in Users
    /\ pc[r] \in {"claim", "revoke"} \cup AcceptPcs => job[r].inv \in Invitations
    /\ pc[r] \in {"claim"} \cup AcceptPcs =>
          /\ job[r].user = invs[job[r].inv].user
          /\ job[r].role = invs[job[r].inv].role
          /\ invs[job[r].inv].status # "none"
    /\ pc[r] \in {"promote", "resolve"} =>
          /\ job[r].row \in Rows
          /\ rows[job[r].row].state # "unused"
          /\ rows[job[r].row].user = job[r].user
    /\ pc[r] \in {"check", "insert"} =>
          \A i \in PendingFor(job[r].user) \ held[r] : invs[i].expires > job[r].time

LEMMA RequestParts ==
    /\ (\A r \in Requests : RequestInv(r)) <=> HoldsByPhase /\ JobsAreTrue /\ OnlyLiveBlocks
    /\ (\A r \in Requests : RequestInv(r))' <=>
         HoldsByPhase' /\ JobsAreTrue' /\ OnlyLiveBlocks'
BY DEF RequestInv, HoldsByPhase, JobsAreTrue, OnlyLiveBlocks

LEMMA ReadKeepsRequest ==
    ASSUME IInv, NEW r \in Requests, Reads(r)
    PROVE  RequestInv(r)'
<1> USE DEF IInv, TypeOK, Goto, tables
<1>0. RequestInv(r)
  BY RequestParts
<1>1. CASE \E u \in Users, role \in Roles : BeginCreate(r, u, role)
  BY <1>0, <1>1 DEF BeginCreate, RequestInv, AcceptPcs, NoJob
<1>2. CASE ExpireStale(r)
  <2>1. \A i \in PendingFor(job[r].user) \ Stale(job[r].user, job[r].time) :
          invs[i].expires > job[r].time
    BY DEF Stale, PendingFor, Invitation, Job
  <2> QED
    BY <1>0, <1>2, <2>1 DEF ExpireStale, RequestInv, AcceptPcs, PendingFor
<1>3. CASE CheckPending(r)
  BY <1>0, <1>3 DEF CheckPending, RequestInv, AcceptPcs, PendingFor
<1>4. CASE Claim(r)
  BY <1>0, <1>4 DEF Claim, RequestInv, AcceptPcs
<1>5. CASE PromoteLost(r) \/ Resolve(r)
  BY <1>0, <1>5 DEF PromoteLost, Resolve, RequestInv, AcceptPcs
<1>6. CASE \E i \in Invitations : BeginAccept(r, i)
  BY <1>0, <1>6 DEF BeginAccept, RequestInv, AcceptPcs, NoJob
<1>7. CASE \E i \in Invitations : BeginRevoke(r, i)
  BY <1>0, <1>7 DEF BeginRevoke, RequestInv, AcceptPcs, NoJob
<1>8. CASE ReadRole(r)
  BY <1>0, <1>8 DEF ReadRole, RequestInv, AcceptPcs, RowsOf, Job
<1>9. CASE Abort(r)
  <2>1. pc'[r] = "idle" /\ job'[r] = NoJob /\ held'[r] = {} /\ now' = now
    BY <1>9, EndType DEF Abort
  <2> QED
    BY <2>1 DEF RequestInv, AcceptPcs, NoJob
<1> QED
  BY <1>1, <1>2, <1>3, <1>4, <1>5, <1>6, <1>7, <1>8, <1>9 DEF Reads

LEMMA ReadsKeep ==
    ASSUME IInv, NEW r \in Requests, Reads(r)
    PROVE  IInv'
<1> USE ReadEffect DEF IInv
<1>1. TypeOK'
  BY ReadTypes
<1>2. LocksArePending'
  BY DEF LocksArePending, Free
<1>3. ASSUME NEW s \in Requests PROVE RequestInv(s)'
  <2>1. CASE s = r
    BY <2>1, ReadKeepsRequest
  <2>2. CASE s # r
    <3>1. RequestInv(s)
      BY RequestParts
    <3> QED
      BY <2>2, <3>1 DEF RequestInv, PendingFor
  <2> QED
    BY <2>1, <2>2
<1>4. UsedHaveUsers' /\ OneRowEach' /\ AuditTellsOutcome'
  BY DEF UsedHaveUsers, OneRowEach, AuditTellsOutcome
<1> QED
  BY <1>1, <1>2, <1>3, <1>4, RequestParts

-----------------------------------------------------------------------------
(* The steps that write *)

\* What may become of an invitation when request r writes: it is new, or it was
\* pending, locked by no other request, and is now decided.
MayBecome(r, i) ==
    \/ invs'[i] = invs[i]
    \/ /\ invs[i].status = "none"
       /\ invs'[i].status = "pending"
       /\ invs'[i].user \in Users
       /\ invs'[i].expires \in Nat
       /\ invs'[i].expires > now
    \/ /\ invs[i].status = "pending"
       /\ Free(r, i)
       /\ invs'[i].status \in {"accepted", "revoked", "expired"}
       /\ invs'[i].user = invs[i].user
       /\ invs'[i].role = invs[i].role

\* A used row stays about its user.
RowsKeepUsers ==
    \A m \in Rows : rows[m].state # "unused" =>
        rows'[m].state # "unused" /\ rows'[m].user = rows[m].user

LEMMA WriteKeepsRequests ==
    ASSUME IInv, NEW r \in Requests, End(r), RowsKeepUsers,
           \A i \in Invitations : MayBecome(r, i)
    PROVE  /\ LocksArePending'
           /\ \A s \in Requests : RequestInv(s)'
           /\ \A i \in Invitations : invs'[i].status # "none" => invs'[i].user \in Users
<1> USE DEF IInv
<1> USE EndType
<1>1. LocksArePending'
  <2>1. ASSUME NEW s \in Requests, NEW i \in held'[s] PROVE invs'[i].status = "pending"
    BY <2>1 DEF LocksArePending, MayBecome, Free, TypeOK
  <2>2. ASSUME NEW s \in Requests, NEW t \in Requests \ {s}
        PROVE  held'[s] \cap held'[t] = {}
    BY DEF LocksArePending
  <2> QED
    BY <2>1, <2>2 DEF LocksArePending
<1>2. RequestInv(r)'
  BY DEF RequestInv, AcceptPcs, NoJob, TypeOK
<1>3. ASSUME NEW s \in Requests, s # r PROVE RequestInv(s)'
  <2>1. RequestInv(s) /\ job[s].time \in Nat /\ now \in Nat
    BY RequestParts DEF TypeOK, Job
  <2>2. pc'[s] = pc[s] /\ job'[s] = job[s] /\ held'[s] = held[s] /\ now' = now
    BY <1>3
  <2>3. pc[s] \in {"claim"} \cup AcceptPcs =>
          /\ job[s].user = invs'[job[s].inv].user
          /\ job[s].role = invs'[job[s].inv].role
          /\ invs'[job[s].inv].status # "none"
    BY <2>1 DEF RequestInv, MayBecome
  <2>4. pc[s] \in {"promote", "resolve"} =>
          rows'[job[s].row].state # "unused" /\ rows'[job[s].row].user = job[s].user
    BY <2>1 DEF RequestInv, RowsKeepUsers
  <2>5. ASSUME pc[s] \in {"check", "insert"}, NEW i \in Invitations,
               i \notin held[s], invs'[i].status = "pending", invs'[i].user = job[s].user
        PROVE  invs'[i].expires > job[s].time
    <3>1. CASE invs'[i] = invs[i]
      BY <2>1, <2>5, <3>1 DEF RequestInv, PendingFor
    <3>2. CASE invs'[i].expires \in Nat /\ invs'[i].expires > now
      BY <2>1, <3>2 DEF RequestInv
    <3> QED
      BY <2>5, <3>1, <3>2 DEF MayBecome
  <2> QED
    BY <2>1, <2>2, <2>3, <2>4, <2>5 DEF RequestInv, PendingFor
<1>4. \A i \in Invitations : invs'[i].status # "none" => invs'[i].user \in Users
  BY DEF MayBecome, UsedHaveUsers
<1> QED
  BY <1>1, <1>2, <1>3, <1>4

\* The tables under the INSERT of create.
LEMMA InsertKeeps ==
    ASSUME IInv, NEW r \in Requests, Insert(r)
    PROVE  IInv'
<1> USE DEF IInv
<1> PICK i \in Invitations :
      /\ invs[i].status = "none"
      /\ invs' = [j \in Invitations |->
           IF j = i THEN [status |-> "pending", user |-> job[r].user,
                          role |-> job[r].role, expires |-> now + TTL]
           ELSE IF j \in held[r] THEN [invs[j] EXCEPT !.status = "expired"]
           ELSE invs[j]]
  BY DEF Insert
<1>1. End(r) /\ rows' = rows /\ audit' = audit /\ job[r].user \in Users /\ job[r] \in Job
  BY DEF Insert, JobsAreTrue, TypeOK
<1>2. now + TTL \in Nat /\ now + TTL > now
  BY InvitationsAssumption DEF TypeOK
<1>3. invs'[i] = [status |-> "pending", user |-> job[r].user,
                  role |-> job[r].role, expires |-> now + TTL]
  OBVIOUS
<1>4. ASSUME NEW j \in Invitations, j # i, j \in held[r]
      PROVE  /\ invs'[j] = [invs[j] EXCEPT !.status = "expired"]
             /\ invs[j] \in Invitation
             /\ invs[j].status = "pending" /\ Free(r, j)
  BY <1>4 DEF LocksArePending, Free, TypeOK
<1>5. ASSUME NEW j \in Invitations, j # i, j \notin held[r] PROVE invs'[j] = invs[j]
  BY <1>5
<1>6. \A j \in Invitations : MayBecome(r, j)
  BY <1>1, <1>2, <1>3, <1>4, <1>5 DEF MayBecome, Invitation
<1>7. TypeOK'
  <2>1. invs'[i] \in Invitation
    BY <1>1, <1>2, <1>3 DEF Invitation, Job, Statuses
  <2>2. \A j \in Invitations : invs'[j] \in Invitation
    BY <1>4, <1>5, <2>1 DEF Invitation, Statuses, TypeOK
  <2>3. invs' \in [Invitations -> Invitation]
    BY <2>2
  <2> QED
    BY <1>1, <2>3, EndType DEF TypeOK
<1>8. AuditTellsOutcome'
  BY <1>1, <1>3, <1>4, <1>5 DEF AuditTellsOutcome, Invitation
<1>9. RowsKeepUsers /\ OneRowEach'
  BY <1>1 DEF RowsKeepUsers, OneRowEach
<1> QED
  BY <1>1, <1>6, <1>7, <1>8, <1>9, WriteKeepsRequests, RequestParts DEF UsedHaveUsers

LEMMA RevokeKeeps ==
    ASSUME IInv, NEW r \in Requests, Revoke(r)
    PROVE  IInv'
<1> USE DEF IInv
<1> DEFINE i == job[r].inv
<1>1. /\ End(r) /\ rows' = rows /\ i \in Invitations
      /\ invs[i].status = "pending" /\ Free(r, i)
      /\ invs[i] \in Invitation /\ audit[i] \in AuditEntry
  BY DEF Revoke, JobsAreTrue, TypeOK
<1>2. /\ invs' = [invs EXCEPT ![i] = [invs[i] EXCEPT !.status = "revoked"]]
      /\ audit' = [audit EXCEPT ![i] = [audit[i] EXCEPT !.revokes = @ + 1]]
  BY DEF Revoke
<1>3. TypeOK'
  <2>1. [invs[i] EXCEPT !.status = "revoked"] \in Invitation
    BY <1>1 DEF Invitation, Statuses
  <2>2. [audit[i] EXCEPT !.revokes = @ + 1] \in AuditEntry
    BY <1>1 DEF AuditEntry
  <2> QED
    BY <1>1, <1>2, <2>1, <2>2, EndType DEF TypeOK
<1>4. \A j \in Invitations : MayBecome(r, j)
  BY <1>1, <1>2 DEF MayBecome, TypeOK, Invitation
<1>5. AuditTellsOutcome'
  BY <1>1, <1>2 DEF AuditTellsOutcome, TypeOK, AuditEntry, Invitation
<1>6. RowsKeepUsers /\ OneRowEach'
  BY <1>1 DEF RowsKeepUsers, OneRowEach
<1> QED
  BY <1>1, <1>3, <1>4, <1>5, <1>6, WriteKeepsRequests, RequestParts DEF UsedHaveUsers

\* A row that is free, or the pending row of the user and his only one.
RowFor(r, m) ==
    \/ rows[m].state = "unused" /\ RowsOf(job[r].user) = {}
    \/ rows[m].state = "pending" /\ rows[m].user = job[r].user

LEMMA PromoteOrGrant ==
    ASSUME IInv, NEW r \in Requests, Promote(r) \/ Grant(r)
    PROVE  /\ pc[r] \in AcceptPcs
           /\ \E m \in Rows : Accepted(r, m) /\ RowFor(r, m)
BY DEF IInv, Promote, Grant, JobsAreTrue, RowFor, AcceptPcs

LEMMA AcceptedKeeps ==
    ASSUME IInv, NEW r \in Requests, pc[r] \in AcceptPcs,
           NEW m \in Rows, Accepted(r, m), RowFor(r, m)
    PROVE  IInv'
<1> USE DEF IInv
<1> DEFINE i == job[r].inv
<1>1. /\ End(r) /\ i \in Invitations /\ held[r] = {i}
      /\ job[r].user = invs[i].user /\ job[r].role \in Roles
      /\ invs[i] \in Invitation /\ audit[i] \in AuditEntry
      /\ job[r].user \in Users
  BY DEF Accepted, JobsAreTrue, HoldsByPhase, TypeOK, Job, UsedHaveUsers
<1>2. invs[i].status = "pending" /\ Free(r, i)
  BY <1>1 DEF LocksArePending, Free
<1>3. /\ invs' = [invs EXCEPT ![i] = [invs[i] EXCEPT !.status = "accepted"]]
      /\ audit' = [audit EXCEPT ![i] = [audit[i] EXCEPT !.accepts = @ + 1]]
      /\ rows' = [rows EXCEPT ![m] = [state |-> "approved", user |-> job[r].user,
                                      role |-> job[r].role]]
  BY DEF Accepted
<1>4. TypeOK'
  <2>1. [invs[i] EXCEPT !.status = "accepted"] \in Invitation
    BY <1>1 DEF Invitation, Statuses
  <2>2. [audit[i] EXCEPT !.accepts = @ + 1] \in AuditEntry
    BY <1>1 DEF AuditEntry
  <2>3. [state |-> "approved", user |-> job[r].user, role |-> job[r].role] \in Row
    BY <1>1 DEF Row
  <2> QED
    BY <1>1, <1>3, <2>1, <2>2, <2>3, EndType DEF TypeOK
<1>5. \A j \in Invitations : MayBecome(r, j)
  BY <1>1, <1>2, <1>3 DEF MayBecome, TypeOK, Invitation
<1>6. AuditTellsOutcome'
  BY <1>1, <1>2, <1>3 DEF AuditTellsOutcome, TypeOK, AuditEntry, Invitation
<1>7. RowsKeepUsers
  BY <1>3 DEF RowsKeepUsers, RowFor, TypeOK
<1>8. OneRowEach'
  BY <1>3 DEF OneRowEach, RowFor, RowsOf, TypeOK
<1>9. \A k \in Rows : rows'[k].state = "unused" => rows'[k].user = NoUser
  BY <1>3 DEF UsedHaveUsers, TypeOK
<1> QED
  BY <1>1, <1>4, <1>5, <1>6, <1>7, <1>8, <1>9, WriteKeepsRequests, RequestParts
  DEF UsedHaveUsers

LEMMA RowsStepKeeps ==
    ASSUME IInv, UNCHANGED <<invs, audit, now, pc, job, held>>,
           NEW m \in Rows, NEW row \in Row, rows' = [rows EXCEPT ![m] = row],
           row.state # "unused",
           \/ rows[m].state = "unused" /\ RowsOf(row.user) = {}
           \/ rows[m].state # "unused" /\ row.user = rows[m].user,
           row.state = "deleted" \/ rows[m].state \in {"unused", "pending"}
    PROVE  IInv'
<1> USE DEF IInv
<1>1. TypeOK'
  BY DEF TypeOK
<1>2. LocksArePending' /\ HoldsByPhase' /\ AuditTellsOutcome'
  BY DEF LocksArePending, HoldsByPhase, AuditTellsOutcome
<1>3. JobsAreTrue'
  BY DEF JobsAreTrue, TypeOK
<1>4. OnlyLiveBlocks'
  BY DEF OnlyLiveBlocks, PendingFor
<1>5. OneRowEach'
  BY DEF OneRowEach, RowsOf, TypeOK, Row
<1>6. UsedHaveUsers'
  BY DEF UsedHaveUsers, TypeOK, Row
<1> QED
  BY <1>1, <1>2, <1>3, <1>4, <1>5, <1>6

LEMMA AskKeeps ==
    ASSUME IInv, NEW u \in Users, AskToJoin(u)
    PROVE  IInv'
<1> PICK m \in Rows :
      /\ rows[m].state = "unused"
      /\ rows' = [rows EXCEPT ![m] = [state |-> "pending", user |-> u, role |-> "viewer"]]
  BY DEF AskToJoin
<1> DEFINE row == [state |-> "pending", user |-> u, role |-> "viewer"]
<1>1. row \in Row /\ row.state = "pending" /\ row.user = u
  BY InvitationsAssumption DEF Row
<1>2. RowsOf(row.user) = {} /\ UNCHANGED <<invs, audit, now, pc, job, held>>
  BY DEF AskToJoin
<1> QED
  BY <1>1, <1>2, RowsStepKeeps

LEMMA DecideKeeps ==
    ASSUME IInv, NEW m \in Rows, NEW state \in {"approved", "deleted"}, DecideRow(m, state)
    PROVE  IInv'
<1> DEFINE row == [rows[m] EXCEPT !.state = state]
<1>1. /\ row \in Row /\ row.state = state /\ row.user = rows[m].user
      /\ rows' = [rows EXCEPT ![m] = row]
  BY DEF DecideRow, IInv, TypeOK, Row
<1>2. /\ rows[m].state \in {"pending", "approved"}
      /\ state = "deleted" \/ rows[m].state = "pending"
      /\ UNCHANGED <<invs, audit, now, pc, job, held>>
  BY DEF DecideRow
<1> QED
  BY <1>1, <1>2, RowsStepKeeps

LEMMA TickKeeps == ASSUME IInv, Tick PROVE IInv'
<1> USE DEF IInv, Tick, tables
<1>1. now' \in Nat /\ now' > now /\ now \in Nat
  BY DEF TypeOK
<1>2. TypeOK'
  BY <1>1 DEF TypeOK
<1>3. LocksArePending' /\ HoldsByPhase' /\ UsedHaveUsers' /\ OneRowEach'
        /\ AuditTellsOutcome' /\ OnlyLiveBlocks'
  BY DEF LocksArePending, HoldsByPhase, UsedHaveUsers, OneRowEach, AuditTellsOutcome,
         OnlyLiveBlocks, PendingFor
<1>4. JobsAreTrue'
  BY <1>1 DEF JobsAreTrue, TypeOK, Job
<1> QED
  BY <1>2, <1>3, <1>4

LEMMA StutterKeeps == ASSUME IInv, UNCHANGED vars PROVE IInv'
BY DEF vars, tables, IInv, TypeOK, LocksArePending, HoldsByPhase, JobsAreTrue, UsedHaveUsers,
       OneRowEach, AuditTellsOutcome, OnlyLiveBlocks, PendingFor

LEMMA InitInv == Init => IInv
<1> SUFFICES ASSUME Init PROVE IInv
  OBVIOUS
<1> USE InvitationsAssumption DEF Init
<1>1. TypeOK
  BY NoJobType DEF TypeOK, Invitation, Statuses, Row, AuditEntry
<1>2. LocksArePending /\ HoldsByPhase /\ JobsAreTrue /\ UsedHaveUsers /\ OneRowEach
  BY DEF LocksArePending, HoldsByPhase, JobsAreTrue, UsedHaveUsers, OneRowEach, AcceptPcs, NoJob
<1>3. AuditTellsOutcome /\ OnlyLiveBlocks
  BY DEF AuditTellsOutcome, OnlyLiveBlocks
<1> QED
  BY <1>1, <1>2, <1>3 DEF IInv

LEMMA StepInv == IInv /\ [Next]_vars => IInv'
<1> SUFFICES ASSUME IInv, [Next]_vars PROVE IInv'
  OBVIOUS
<1>1. CASE UNCHANGED vars
  BY <1>1, StutterKeeps
<1>2. ASSUME NEW r \in Requests, Reads(r) \/ Insert(r) \/ Revoke(r) \/ Promote(r) \/ Grant(r)
      PROVE  IInv'
  BY <1>2, ReadsKeep, InsertKeeps, RevokeKeeps, PromoteOrGrant, AcceptedKeeps
<1>3. CASE \E u \in Users : AskToJoin(u)
  BY <1>3, AskKeeps
<1>4. CASE \E m \in Rows, state \in {"approved", "deleted"} : DecideRow(m, state)
  BY <1>4, DecideKeeps
<1>5. CASE Tick
  BY <1>5, TickKeeps
<1> QED
  BY <1>1, <1>2, <1>3, <1>4, <1>5, StepCases

\* The invariant that all theorems below rest on: the locks are exclusive and
\* of pending invitations, and what a request has read still stands.
THEOREM Inductive == Spec => []IInv
BY InitInv, StepInv, PTL DEF Spec

\* The tables, the requests and their locks keep their types.
THEOREM InvitationTypes == Spec => []TypeOK
BY Inductive, PTL DEF IInv

\* Every acceptance and every revocation is in the audit log once, whatever the
\* order in which requests read and write.
THEOREM OutcomesAudited == Spec => []AuditTellsOutcome
BY Inductive, PTL DEF IInv

\* The two clocks of create and accept never leave an invitation that blocks
\* its address and that create does not retire.
THEOREM NothingStaleBlocks == Spec => []OnlyLiveBlocks
BY Inductive, PTL DEF IInv

\* No request undoes the decision of another.
THEOREM DecisionsStay == Spec => DecidedStays
<1> DEFINE P == \A i \in Invitations :
         invs[i].status \in {"accepted", "revoked", "expired"} => invs'[i] = invs[i]
<1>1. IInv /\ [Next]_vars => [P]_vars
  <2> SUFFICES ASSUME IInv, [Next]_vars, NEW i \in Invitations,
                      invs[i].status \in {"accepted", "revoked", "expired"}
               PROVE  invs'[i] = invs[i]
    OBVIOUS
  <2> USE DEF IInv
  <2>1. ASSUME NEW r \in Requests, Reads(r) PROVE invs' = invs
    BY <2>1, ReadTypes DEF tables
  <2>2. ASSUME NEW r \in Requests, Insert(r) PROVE invs'[i] = invs[i]
    BY <2>2 DEF Insert, LocksArePending
  <2>3. ASSUME NEW r \in Requests, Revoke(r) PROVE invs'[i] = invs[i]
    BY <2>3 DEF Revoke, TypeOK
  <2>4. ASSUME NEW r \in Requests, Promote(r) \/ Grant(r) PROVE invs'[i] = invs[i]
    <3>1. \E m \in Rows : Accepted(r, m)
      BY <2>4, PromoteOrGrant
    <3>2. held[r] = {job[r].inv}
      BY <2>4, PromoteOrGrant DEF HoldsByPhase
    <3>3. job[r].inv # i
      BY <3>2 DEF LocksArePending
    <3> QED
      BY <3>1, <3>3 DEF Accepted, TypeOK
  <2>5. CASE UNCHANGED invs
    BY <2>5
  <2> QED
    BY <2>1, <2>2, <2>3, <2>4, <2>5, StepCases
    DEF AskToJoin, DecideRow, Tick, tables, vars
<1> QED
  BY <1>1, Inductive, PTL DEF Spec, DecidedStays

\* An invitation makes a member of its person once: he was none, and he has no
\* other row afterwards.
THEOREM AcceptanceMakesOneMember == Spec => AcceptMakesMember
<1> DEFINE P == \A i \in Invitations :
         invs[i].status # "accepted" /\ invs'[i].status = "accepted" =>
            \E m \in Rows :
                /\ rows[m].state # "approved"
                /\ rows'[m] = [state |-> "approved", user |-> invs[i].user,
                               role |-> invs[i].role]
                /\ \A k \in Rows \ {m} :
                     rows'[k].user = invs[i].user => rows'[k].state = "deleted"
<1>1. IInv /\ [Next]_vars => [P]_vars
  <2> SUFFICES ASSUME IInv, [Next]_vars, NEW i \in Invitations,
                      invs[i].status # "accepted", invs'[i].status = "accepted"
               PROVE  \E m \in Rows :
                        /\ rows[m].state # "approved"
                        /\ rows'[m] = [state |-> "approved", user |-> invs[i].user,
                                       role |-> invs[i].role]
                        /\ \A k \in Rows \ {m} :
                             rows'[k].user = invs[i].user => rows'[k].state = "deleted"
    OBVIOUS
  <2> USE DEF IInv
  <2>1. ~ \E r \in Requests : Reads(r)
    BY ReadTypes DEF tables
  <2>2. ~ \E r \in Requests : Insert(r)
    BY DEF Insert, TypeOK, Invitation
  <2>3. ASSUME NEW r \in Requests, Revoke(r) PROVE FALSE
    <3>1. /\ invs \in [Invitations -> Invitation]
          /\ invs' = [invs EXCEPT ![job[r].inv] = [invs[job[r].inv] EXCEPT !.status = "revoked"]]
      BY <2>3 DEF Revoke, TypeOK
    <3>2. CASE job[r].inv = i
      BY <3>1, <3>2 DEF Invitation
    <3>3. CASE job[r].inv # i
      BY <3>1, <3>3
    <3> QED
      BY <3>2, <3>3
  <2>4. \E r \in Requests : Promote(r) \/ Grant(r)
    BY <2>1, <2>2, <2>3, StepCases DEF AskToJoin, DecideRow, Tick, tables, vars
  <2>5. PICK r \in Requests, m \in Rows :
          pc[r] \in AcceptPcs /\ Accepted(r, m) /\ RowFor(r, m)
    BY <2>4, PromoteOrGrant
  <2>6. /\ invs' = [invs EXCEPT ![job[r].inv].status = "accepted"]
        /\ rows' = [rows EXCEPT ![m] = [state |-> "approved", user |-> job[r].user,
                                        role |-> job[r].role]]
    BY <2>5 DEF Accepted
  <2>7. job[r].inv = i
    BY <2>6 DEF TypeOK
  <2>8. /\ job[r].user = invs[i].user /\ job[r].role = invs[i].role
        /\ job[r].user \in Users
    BY <2>5, <2>7 DEF JobsAreTrue, UsedHaveUsers
  <2>9. rows[m].state # "approved"
    BY <2>5 DEF RowFor
  <2>10. ASSUME NEW k \in Rows \ {m}, rows'[k].user = invs[i].user
         PROVE  rows'[k].state = "deleted"
    <3>1. rows[k] = rows'[k] /\ rows[k] \in Row
      BY <2>6 DEF TypeOK
    <3>2. rows[k].state # "unused"
      BY <2>8, <2>10, <3>1, InvitationsAssumption DEF UsedHaveUsers
    <3>3. rows[k].state \notin {"pending", "approved"}
      BY <2>5, <2>8, <2>10, <3>1 DEF RowFor, RowsOf, OneRowEach
    <3> QED
      BY <3>1, <3>2, <3>3 DEF Row
  <2> QED
    BY <2>6, <2>8, <2>9, <2>10 DEF TypeOK
<1> QED
  BY <1>1, Inductive, PTL DEF Spec, AcceptMakesMember

=============================================================================
