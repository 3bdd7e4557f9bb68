----------------------------- MODULE PersonEdits -----------------------------
(***************************************************************************)
(* One person record and everything that writes it: PATCH with the version *)
(* the client saw, soft delete, restore, the avatar, and the change        *)
(* requests that members submit and reviewers approve or reject            *)
(* (PersonCommandHandler, ChangeRequestCommandHandler and the set_avatar   *)
(* of DocumentCommandHandler).                                             *)
(*                                                                         *)
(* Every handler reads the whole row into an entity, changes the entity    *)
(* and writes all updatable columns back, so what it did not mean to       *)
(* change is written as it was read.  Reads and the final UPDATE are steps *)
(* of their own; the UPDATE and the COMMIT are one step, because a writer  *)
(* that meets the locked row waits and then tests the new version.         *)
(***************************************************************************)
EXTENDS Naturals

CONSTANTS
    Fields,       \* updatable columns of persons
    Avatar,       \* the one among them that only set_avatar writes
    Values,       \* what a column may hold
    Null,         \* the value of an empty column
    Proposals,    \* ids of change requests
    NoProposal,
    Requests,     \* slots for requests running at the same time
    MaxVersion    \* bound on the writes of the record

ASSUME EditsAssumption ==
    /\ Avatar \in Fields
    /\ Null \in Values
    /\ NoProposal \notin Proposals
    /\ MaxVersion \in Nat

\* An edit gives new values to some of the columns.
Edits == UNION {[S -> Values] : S \in SUBSET Fields}

\* What a PATCH may ask for, and a proposal, which names a column at least.
ClientEdits == UNION {[S -> Values] : S \in SUBSET (Fields \ {Avatar})}
NoEdit == [f \in {} |-> Null]

VARIABLES
    person,     \* the row: version, is_deleted and the columns
    proposals,  \* change_requests by id
    audit,      \* how often audit_logs report the approval and the rejection
    pc,         \* the statement each request runs next
    job,        \* its operation, with the edit, the proposal and the version given
    snap        \* the person row as the request read it

tables == <<person, proposals, audit>>
vars == <<tables, pc, job, snap>>

-----------------------------------------------------------------------------
(* Types *)

Row == [version : Nat, deleted : BOOLEAN, val : [Fields -> Values]]

Proposal == [status  : {"none", "pending", "approved", "rejected"},
             changes : Edits,
             base    : Edits]

AuditEntry == [approvals : Nat, rejections : Nat]

Ops == {"patch", "delete", "restore", "avatar", "submit", "approve", "reject"}

Job == [op       : Ops,
        edit     : Edits,
        proposal : Proposals \cup {NoProposal},
        expected : Nat]

TypeOK ==
    /\ person \in Row
    /\ proposals \in [Proposals -> Proposal]
    /\ audit \in [Proposals -> AuditEntry]
    /\ pc \in [Requests -> {"idle", "load", "read", "write"}]
    /\ job \in [Requests -> Job]
    /\ snap \in [Requests -> Row]

Blank == [version |-> 0, deleted |-> FALSE, val |-> [f \in Fields |-> Null]]
NoJob == [op |-> "patch", edit |-> NoEdit, proposal |-> NoProposal, expected |-> 0]
NotSubmitted == [status |-> "none", changes |-> NoEdit, base |-> NoEdit]

-----------------------------------------------------------------------------
(* The entity and the merge rule *)

\* Person.update and set_avatar_url on the columns as read.
Updated(val, edit) ==
    [f \in Fields |-> IF f \in DOMAIN edit THEN edit[f] ELSE val[f]]

\* detect_conflicts: the columns that moved to something else than proposed.
Conflicts(p, val) ==
    {f \in DOMAIN p.changes : val[f] # p.base[f] /\ val[f] # p.changes[f]}

\* The row the request writes: every updatable column, is_deleted among them,
\* from the entity; the version counts on from the row it finds.
Mutated(r) ==
    LET s == snap[r]
        edit == IF job[r].op = "approve" THEN proposals[job[r].proposal].changes
                ELSE job[r].edit IN
    [version |-> person.version + 1,
     deleted |-> CASE job[r].op = "delete"  -> TRUE
                   [] job[r].op = "restore" -> FALSE
                   [] OTHER                 -> s.deleted,
     val |-> Updated(s.val, edit)]

-----------------------------------------------------------------------------
(* Actions *)

Init ==
    /\ person = [Blank EXCEPT !.version = 1]
    /\ proposals = [c \in Proposals |-> NotSubmitted]
    /\ audit = [c \in Proposals |-> [approvals |-> 0, rejections |-> 0]]
    /\ pc = [r \in Requests |-> "idle"]
    /\ job = [r \in Requests |-> NoJob]
    /\ snap = [r \in Requests |-> Blank]

\* The transaction ends.
End(r) ==
    /\ pc' = [pc EXCEPT ![r] = "idle"]
    /\ job' = [job EXCEPT ![r] = NoJob]
    /\ snap' = [snap EXCEPT ![r] = Blank]

Start(r, first, o, edit, c, expected) ==
    /\ pc[r] = "idle"
    /\ pc' = [pc EXCEPT ![r] = first]
    /\ job' = [job EXCEPT ![r] = [op |-> o, edit |-> edit, proposal |-> c,
                                  expected |-> expected]]
    /\ UNCHANGED <<tables, snap>>

\* PATCH: the client got the record, with its version, before it asks.
BeginPatch(r, edit) == Start(r, "read", "patch", edit, NoProposal, person.version)

BeginDeleteOrRestore(r, o) == Start(r, "read", o, NoEdit, NoProposal, 0)

BeginAvatar(r, url) == Start(r, "read", "avatar", [f \in {Avatar} |-> url], NoProposal, 0)

BeginSubmit(r, edit) ==
    /\ edit # NoEdit
    /\ Start(r, "read", "submit", edit, NoProposal, 0)

BeginReview(r, o, c) ==
    /\ proposals[c].status # "none"
    /\ Start(r, "load", o, NoEdit, c, 0)

\* _load_pending: the proposal must be pending when it is loaded.
LoadPending(r) ==
    /\ pc[r] = "load"
    /\ proposals[job[r].proposal].status = "pending"
    /\ pc' = [pc EXCEPT ![r] = IF job[r].op = "approve" THEN "read" ELSE "write"]
    /\ UNCHANGED <<tables, job, snap>>

\* get_in_clan or get_person_snapshot: only restore reads a deleted person,
\* and approve reads it only to refuse.  approve merges against what it read.
ReadPerson(r) ==
    /\ pc[r] = "read"
    /\ job[r].op # "restore" => ~person.deleted
    /\ job[r].op = "approve" => Conflicts(proposals[job[r].proposal], person.val) = {}
    /\ snap' = [snap EXCEPT ![r] = person]
    /\ pc' = [pc EXCEPT ![r] = "write"]
    /\ UNCHANGED <<tables, job>>

Writing(r, ops) == pc[r] = "write" /\ job[r].op \in ops

\* Mutant of VersionAllows: approve saves without an expected version.
VersionAllowsApprove(r) ==
    /\ person.version < MaxVersion
    /\ job[r].op = "patch" => person.version = job[r].expected

\* Mutant of VersionAllows: PATCH is saved whatever version the client saw.
VersionAllowsPatch(r) ==
    /\ person.version < MaxVersion
    /\ job[r].op = "approve" => person.version = snap[r].version

\* The WHERE clause of the UPDATE: PATCH has the client's version, approve the
\* one it has just read, the others none.
VersionAllows(r) ==
    /\ person.version < MaxVersion
    /\ job[r].op = "patch" => person.version = job[r].expected
    /\ job[r].op = "approve" => person.version = snap[r].version

\* PersonRepository.save for PATCH, delete, restore and set_avatar.
SavePerson(r) ==
    /\ Writing(r, {"patch", "delete", "restore", "avatar"})
    /\ VersionAllows(r)
    /\ person' = Mutated(r)
    /\ End(r)
    /\ UNCHANGED <<proposals, audit>>

\* submit: the base of the merge is what was read.
Submit(r) ==
    /\ Writing(r, {"submit"})
    /\ \E c \in Proposals :
         /\ proposals[c] = NotSubmitted
         /\ proposals' = [proposals EXCEPT ![c] =
              [status |-> "pending", changes |-> job[r].edit,
               base |-> [f \in DOMAIN job[r].edit |-> snap[r].val[f]]]]
    /\ End(r)
    /\ UNCHANGED <<person, audit>>

\* approve: the person and the status go together; the UPDATE of the status
\* names the id and the clan and not the old status.
Approve(r) ==
    /\ Writing(r, {"approve"})
    /\ VersionAllows(r)
    /\ person' = Mutated(r)
    /\ LET c == job[r].proposal IN
         /\ proposals' = [proposals EXCEPT ![c].status = "approved"]
         /\ audit' = [audit EXCEPT ![c].approvals = @ + 1]
    /\ End(r)

\* Mutant of Reject: the status is set and not audited.
RejectNotAudited(r) ==
    /\ Writing(r, {"reject"})
    /\ proposals' = [proposals EXCEPT ![job[r].proposal].status = "rejected"]
    /\ End(r)
    /\ UNCHANGED <<person, audit>>

Reject(r) ==
    /\ Writing(r, {"reject"})
    /\ LET c == job[r].proposal IN
         /\ proposals' = [proposals EXCEPT ![c].status = "rejected"]
         /\ audit' = [audit EXCEPT ![c].rejections = @ + 1]
    /\ End(r)
    /\ UNCHANGED person

\* A guard refuses, a rule of the entity does, the save is a stale_write or the
\* storage is down: the transaction is rolled back.
Abort(r) ==
    /\ pc[r] # "idle"
    /\ End(r)
    /\ UNCHANGED tables

Next ==
    \E r \in Requests :
        \/ \E edit \in ClientEdits : BeginPatch(r, edit) \/ BeginSubmit(r, edit)
        \/ \E o \in {"delete", "restore"} : BeginDeleteOrRestore(r, o)
        \/ \E url \in Values \ {Null} : BeginAvatar(r, url)
        \/ \E o \in {"approve", "reject"}, c \in Proposals : BeginReview(r, o, c)
        \/ LoadPending(r) \/ ReadPerson(r)
        \/ SavePerson(r) \/ Submit(r) \/ Approve(r) \/ Reject(r)
        \/ Abort(r)

Spec == Init /\ [][Next]_vars

-----------------------------------------------------------------------------
(* Properties *)

\* The version stands for the content: who finds the version it read finds the
\* row it read, so the WHERE clause of a conditional save is enough.
VersionStandsForRow ==
    \A r \in Requests :
        pc[r] = "write" /\ snap[r].version = person.version => snap[r] = person

\* A step that approves: an approval is applied to a person who is not deleted,
\* and it overwrites a value only if that is the one the requester saw or the
\* one that is proposed, whoever else is writing.
ApprovalLosesNoEdit ==
    [][\A r \in Requests, c \in Proposals :
         job[r].proposal = c /\ audit'[c].approvals # audit[c].approvals
           => /\ ~person.deleted
              /\ \A f \in DOMAIN proposals[c].changes :
                    /\ person.val[f] \in {proposals[c].base[f], proposals[c].changes[f]}
                    /\ person'.val[f] = proposals[c].changes[f]]_vars

\* Request r writes what it read, without asking for the version.
Unconditional(r) == Writing(r, {"delete", "restore", "avatar"}) /\ pc'[r] = "idle"

\* Request r was asked to change field f.
Asked(r, f) ==
    /\ pc[r] = "write" /\ pc'[r] = "idle"
    /\ \/ f \in DOMAIN job[r].edit
       \/ job[r].op = "approve" /\ f \in DOMAIN proposals[job[r].proposal].changes

\* A column changes because somebody asked for it; if not, an unconditional
\* save has put back what it had read before a later write.
ColumnsChangeOnlyIfAsked ==
    [][\A f \in Fields : person'.val[f] # person.val[f] =>
         \E r \in Requests : \/ Asked(r, f)
                             \/ Unconditional(r) /\ snap[r].version < person.version]_vars

\* The review of a proposal is on record: a pending one has no decision in the
\* audit log, a decided one has the decision it shows.
ReviewIsAudited ==
    \A c \in Proposals :
        /\ proposals[c].status = "pending" =>
             audit[c].approvals = 0 /\ audit[c].rejections = 0
        /\ proposals[c].status = "approved" => audit[c].approvals > 0
        /\ proposals[c].status = "rejected" => audit[c].rejections > 0
=============================================================================
