-------------------------- MODULE PersonEditsProofs --------------------------
(***************************************************************************)
(* Theorems about PersonEdits for any columns, values, proposals and       *)
(* concurrent requests.  Everything rests on the version: it only grows,   *)
(* and a row a request has read is the present row if its version is the   *)
(* present version.                                                        *)
(***************************************************************************)
EXTENDS PersonEdits, TLAPS

\* What a request has read is not newer than the row.
SnapNotNewer ==
    \A r \in Requests : pc[r] = "write" => snap[r].version <= person.version

\* A PATCH has read the version of its client or a later one.
PatchReadSinceClient ==
    \A r \in Requests : job[r].op = "patch" =>
        /\ job[r].expected <= person.version
        /\ pc[r] = "write" => job[r].expected <= snap[r].version

\* Nothing is read before the step that goes to the write, and only a review
\* loads a proposal.
NothingReadYet ==
    \A r \in Requests :
        /\ pc[r] # "write" => snap[r] = Blank
        /\ pc[r] = "load" => job[r].op \in {"approve", "reject"}

\* What an approval has established when it writes.
ApprovalChecked ==
    \A r \in Requests : pc[r] = "write" /\ job[r].op = "approve" =>
        /\ ~snap[r].deleted
        /\ Conflicts(proposals[job[r].proposal], snap[r].val) = {}

\* A review is about a proposal that has been submitted.
ReviewsSubmitted ==
    \A r \in Requests : pc[r] # "idle" /\ job[r].op \in {"approve", "reject"} =>
        /\ job[r].proposal \in Proposals
        /\ proposals[job[r].proposal].status # "none"

\* A proposal that has not been submitted has no history.
UnsubmittedUnaudited ==
    \A c \in Proposals : proposals[c].status = "none" =>
        audit[c].approvals = 0 /\ audit[c].rejections = 0

IInv ==
    /\ TypeOK
    /\ person.version >= 1
    /\ SnapNotNewer
    /\ VersionStandsForRow
    /\ PatchReadSinceClient
    /\ NothingReadYet
    /\ ApprovalChecked
    /\ ReviewsSubmitted
    /\ UnsubmittedUnaudited
    /\ ReviewIsAudited

-----------------------------------------------------------------------------

LEMMA EditType ==
    ASSUME NEW e \in Edits
    PROVE  DOMAIN e \subseteq Fields /\ \A f \in DOMAIN e : e[f] \in Values
BY DEF Edits

LEMMA NoEditType == NoEdit \in Edits
<1>1. NoEdit \in [{} -> Values]
  BY DEF NoEdit
<1> QED
  BY <1>1 DEF Edits

LEMMA UpdatedType ==
    ASSUME NEW v \in [Fields -> Values], NEW e \in Edits
    PROVE  Updated(v, e) \in [Fields -> Values]
BY EditType DEF Updated

LEMMA MutatedType ==
    ASSUME TypeOK, ReviewsSubmitted, NEW r \in Requests, pc[r] # "idle"
    PROVE  /\ Mutated(r) \in Row
           /\ Mutated(r).version = person.version + 1
           /\ Mutated(r).val = Updated(snap[r].val,
                IF job[r].op = "approve" THEN proposals[job[r].proposal].changes
                ELSE job[r].edit)
<1>1. snap[r] \in Row /\ job[r] \in Job /\ person \in Row
  BY DEF TypeOK
<1> DEFINE edit == IF job[r].op = "approve" THEN proposals[job[r].proposal].changes
                   ELSE job[r].edit
<1>2. edit \in Edits
  BY <1>1 DEF TypeOK, ReviewsSubmitted, Job, Proposal
<1>3. Updated(snap[r].val, edit) \in [Fields -> Values]
  BY <1>1, <1>2, UpdatedType DEF Row
<1>4. person.version + 1 \in Nat
  BY <1>1 DEF Row
<1> QED
  BY <1>1, <1>3, <1>4 DEF Mutated, Row

LEMMA BlankType == Blank \in Row /\ NoJob \in Job /\ NotSubmitted \in Proposal
BY EditsAssumption, NoEditType DEF Blank, Row, NoJob, Job, Ops, NotSubmitted, Proposal

\* Types are kept by every step.
LEMMA TypeStep == TypeOK /\ ReviewsSubmitted /\ [Next]_vars => TypeOK'
<1> SUFFICES ASSUME TypeOK, ReviewsSubmitted, [Next]_vars PROVE TypeOK'
  OBVIOUS
<1>1. ASSUME NEW r \in Requests, End(r)
      PROVE  /\ pc' \in [Requests -> {"idle", "load", "read", "write"}]
             /\ job' \in [Requests -> Job]
             /\ snap' \in [Requests -> Row]
  BY <1>1, BlankType DEF End, TypeOK
<1>2. ASSUME NEW r \in Requests, NEW first \in {"load", "read"}, NEW o \in Ops,
             NEW e \in Edits, NEW c \in Proposals \cup {NoProposal}, NEW v \in Nat,
             Start(r, first, o, e, c, v)
      PROVE  TypeOK'
  <2> [op |-> o, edit |-> e, proposal |-> c, expected |-> v] \in Job
    BY DEF Job
  <2> QED
    BY <1>2 DEF Start, tables, TypeOK
<1>3. person.version \in Nat
  BY DEF TypeOK, Row
<1>4. ClientEdits \subseteq Edits
  BY DEF ClientEdits, Edits
<1>5. ASSUME NEW url \in Values PROVE [f \in {Avatar} |-> url] \in Edits
  <2> [f \in {Avatar} |-> url] \in [{Avatar} -> Values]
    OBVIOUS
  <2> QED
    BY EditsAssumption DEF Edits
<1>6. ASSUME NEW r \in Requests, NEW e \in ClientEdits, BeginPatch(r, e) \/ BeginSubmit(r, e)
      PROVE  TypeOK'
  BY <1>2, <1>3, <1>4, <1>6 DEF BeginPatch, BeginSubmit, Ops
<1>7. ASSUME NEW r \in Requests, NEW o \in {"delete", "restore"}, BeginDeleteOrRestore(r, o)
      PROVE  TypeOK'
  BY <1>2, <1>7, NoEditType DEF BeginDeleteOrRestore, Ops
<1>8. ASSUME NEW r \in Requests, NEW url \in Values, BeginAvatar(r, url)
      PROVE  TypeOK'
  BY <1>2, <1>5, <1>8 DEF BeginAvatar, Ops
<1>9. ASSUME NEW r \in Requests, NEW o \in {"approve", "reject"}, NEW c \in Proposals,
             BeginReview(r, o, c)
      PROVE  TypeOK'
  BY <1>2, <1>9, NoEditType DEF BeginReview, Ops
<1>10. ASSUME NEW r \in Requests, LoadPending(r) PROVE TypeOK'
  BY <1>10 DEF LoadPending, tables, TypeOK
<1>11. ASSUME NEW r \in Requests, ReadPerson(r) PROVE TypeOK'
  BY <1>11 DEF ReadPerson, tables, TypeOK
<1>12. ASSUME NEW r \in Requests, SavePerson(r) PROVE TypeOK'
  BY <1>1, <1>12, MutatedType DEF SavePerson, Writing, TypeOK
<1>13. ASSUME NEW c \in Proposals, NEW st \in {"approved", "rejected"}
       PROVE  [proposals EXCEPT ![c].status = st] \in [Proposals -> Proposal]
  BY DEF TypeOK, Proposal
<1>14. ASSUME NEW c \in Proposals
       PROVE  /\ [audit EXCEPT ![c].approvals = @ + 1] \in [Proposals -> AuditEntry]
              /\ [audit EXCEPT ![c].rejections = @ + 1] \in [Proposals -> AuditEntry]
  <2>1. audit[c] \in AuditEntry
    BY DEF TypeOK
  <2>2. audit[c].approvals + 1 \in Nat /\ audit[c].rejections + 1 \in Nat
    BY <2>1 DEF AuditEntry
  <2> QED
    BY <2>1, <2>2 DEF TypeOK, AuditEntry
<1>15. ASSUME NEW r \in Requests, Submit(r) PROVE TypeOK'
  <2>1. job[r].edit \in Edits /\ snap[r].val \in [Fields -> Values]
    BY DEF TypeOK, Job, Row
  <2>2. [f \in DOMAIN job[r].edit |-> snap[r].val[f]] \in Edits
    <3>1. DOMAIN job[r].edit \subseteq Fields
      BY <2>1, EditType
    <3>2. [f \in DOMAIN job[r].edit |-> snap[r].val[f]] \in [DOMAIN job[r].edit -> Values]
      BY <2>1, <3>1
    <3> QED
      BY <3>1, <3>2 DEF Edits
  <2>3. [status |-> "pending", changes |-> job[r].edit,
         base |-> [f \in DOMAIN job[r].edit |-> snap[r].val[f]]] \in Proposal
    BY <2>1, <2>2 DEF Proposal
  <2> QED
    BY <1>1, <1>15, <2>3 DEF Submit, TypeOK
<1>16. ASSUME NEW r \in Requests, Approve(r) PROVE TypeOK'
  <2>1. job[r].proposal \in Proposals
    BY <1>16 DEF Approve, Writing, ReviewsSubmitted
  <2>2. Mutated(r) \in Row
    BY <1>16, MutatedType DEF Approve, Writing
  <2> QED
    BY <1>1, <1>13, <1>14, <1>16, <2>1, <2>2 DEF Approve, TypeOK
<1>17. ASSUME NEW r \in Requests, Reject(r) PROVE TypeOK'
  <2>1. job[r].proposal \in Proposals
    BY <1>17 DEF Reject, Writing, ReviewsSubmitted
  <2> QED
    BY <1>1, <1>13, <1>14, <1>17, <2>1 DEF Reject, TypeOK
<1>18. ASSUME NEW r \in Requests, Abort(r) PROVE TypeOK'
  BY <1>1, <1>18 DEF Abort, tables, TypeOK
<1>19. CASE UNCHANGED vars
  BY <1>19 DEF vars, tables, TypeOK
<1> QED
  BY <1>6, <1>7, <1>8, <1>9, <1>10, <1>11, <1>12, <1>15, <1>16, <1>17, <1>18, <1>19 DEF Next

\* Only a save writes the row, it makes the next version of it, and the request
\* that saves is done.
LEMMA PersonStep ==
    ASSUME TypeOK, ReviewsSubmitted, [Next]_vars
    PROVE  \/ person' = person
           \/ \E r \in Requests :
                /\ pc[r] = "write" /\ End(r)
                /\ person' = Mutated(r) /\ person'.version = person.version + 1
                /\ VersionAllows(r)
                /\ job[r].op \in {"patch", "delete", "restore", "avatar", "approve"}
<1>1. ASSUME NEW r \in Requests, SavePerson(r) \/ Approve(r)
      PROVE  /\ pc[r] = "write" /\ End(r)
             /\ person' = Mutated(r) /\ person'.version = person.version + 1
             /\ VersionAllows(r)
             /\ job[r].op \in {"patch", "delete", "restore", "avatar", "approve"}
  BY <1>1, MutatedType DEF SavePerson, Approve, Writing
<1> QED
  BY <1>1 DEF Next, vars, tables, BeginPatch, BeginSubmit, BeginDeleteOrRestore, BeginAvatar,
              BeginReview, Start, LoadPending, ReadPerson, Submit, Reject, Abort

\* What one request does to its own control state: nothing, it starts, it goes
\* on, or it ends; it writes only what it has read.
LEMMA RequestStep ==
    ASSUME TypeOK, [Next]_vars, NEW s \in Requests
    PROVE  \/ pc'[s] = pc[s] /\ job'[s] = job[s] /\ snap'[s] = snap[s]
           \/ pc'[s] = "idle" /\ job'[s] = NoJob /\ snap'[s] = Blank
           \/ /\ pc[s] = "idle" /\ pc'[s] # "write" /\ snap'[s] = snap[s]
              /\ UNCHANGED tables
              /\ pc'[s] = "load" => job'[s].op \in {"approve", "reject"}
              /\ job'[s].op = "patch" => job'[s].expected = person.version
              /\ job'[s].op \in {"approve", "reject"} =>
                   /\ job'[s].proposal \in Proposals
                   /\ proposals[job'[s].proposal].status # "none"
           \/ /\ pc[s] = "load" /\ LoadPending(s)
              /\ job'[s] = job[s] /\ snap'[s] = snap[s] /\ UNCHANGED tables
              /\ pc'[s] = IF job[s].op = "approve" THEN "read" ELSE "write"
           \/ /\ pc[s] = "read" /\ ReadPerson(s) /\ pc'[s] = "write"
              /\ job'[s] = job[s] /\ snap'[s] = person /\ UNCHANGED tables
<1>1. ASSUME NEW r \in Requests, End(r)
      PROVE  \/ pc'[s] = pc[s] /\ job'[s] = job[s] /\ snap'[s] = snap[s]
             \/ pc'[s] = "idle" /\ job'[s] = NoJob /\ snap'[s] = Blank
  BY <1>1 DEF End, TypeOK
<1>2. ASSUME NEW r \in Requests, NEW first \in {"load", "read"}, NEW o, NEW e, NEW c, NEW v,
             Start(r, first, o, e, c, v), o = "patch" => v = person.version,
             o \in {"approve", "reject"} => c \in Proposals /\ proposals[c].status # "none",
             first = "load" => o \in {"approve", "reject"}
      PROVE  \/ pc'[s] = pc[s] /\ job'[s] = job[s] /\ snap'[s] = snap[s]
             \/ /\ pc[s] = "idle" /\ pc'[s] # "write" /\ snap'[s] = snap[s]
                /\ UNCHANGED tables
                /\ pc'[s] = "load" => job'[s].op \in {"approve", "reject"}
                /\ job'[s].op = "patch" => job'[s].expected = person.version
                /\ job'[s].op \in {"approve", "reject"} =>
                     /\ job'[s].proposal \in Proposals
                     /\ proposals[job'[s].proposal].status # "none"
  BY <1>2 DEF Start, TypeOK
<1>3. ASSUME NEW r \in Requests, NEW e \in ClientEdits, BeginPatch(r, e) \/ BeginSubmit(r, e)
      PROVE  \/ Start(r, "read", "patch", e, NoProposal, person.version)
             \/ Start(r, "read", "submit", e, NoProposal, 0)
  BY <1>3 DEF BeginPatch, BeginSubmit
<1>4. ASSUME NEW r \in Requests, NEW o \in {"delete", "restore"}, BeginDeleteOrRestore(r, o)
      PROVE  Start(r, "read", o, NoEdit, NoProposal, 0)
  BY <1>4 DEF BeginDeleteOrRestore
<1>5. ASSUME NEW r \in Requests, LoadPending(r) \/ ReadPerson(r), r # s
      PROVE  pc'[s] = pc[s] /\ job'[s] = job[s] /\ snap'[s] = snap[s]
  BY <1>5 DEF LoadPending, ReadPerson, TypeOK
<1>6. CASE LoadPending(s)
  BY <1>6 DEF LoadPending, TypeOK
<1>7. CASE ReadPerson(s)
  BY <1>7 DEF ReadPerson, TypeOK
<1>8. CASE UNCHANGED vars
  BY <1>8 DEF vars
<1>9. ASSUME NEW r \in Requests, SavePerson(r) \/ Submit(r) \/ Approve(r) \/ Reject(r) \/ Abort(r)
      PROVE  End(r)
  BY <1>9 DEF SavePerson, Submit, Approve, Reject, Abort
<1>10. CASE \E r \in Requests, e \in ClientEdits : BeginPatch(r, e) \/ BeginSubmit(r, e)
  BY <1>2, <1>3, <1>10
<1>11. CASE \E r \in Requests, o \in {"delete", "restore"} : BeginDeleteOrRestore(r, o)
  BY <1>2, <1>4, <1>11
<1>12. CASE \E r \in Requests, url \in Values : BeginAvatar(r, url)
  BY <1>2, <1>12 DEF BeginAvatar
<1>13. CASE \E r \in Requests, o \in {"approve", "reject"}, c \in Proposals :
              BeginReview(r, o, c)
  BY <1>2, <1>13 DEF BeginReview
<1> QED
  BY <1>1, <1>5, <1>6, <1>7, <1>8, <1>9, <1>10, <1>11, <1>12, <1>13 DEF Next

\* The version orders what was read and what is there.
LEMMA VersionStep ==
    TypeOK /\ ReviewsSubmitted /\ person.version >= 1 /\ SnapNotNewer
      /\ VersionStandsForRow /\ PatchReadSinceClient /\ NothingReadYet /\ [Next]_vars
    => /\ (person.version >= 1)' /\ SnapNotNewer' /\ VersionStandsForRow'
       /\ PatchReadSinceClient' /\ NothingReadYet'
<1> SUFFICES ASSUME TypeOK, ReviewsSubmitted, person.version >= 1, SnapNotNewer,
                    VersionStandsForRow, PatchReadSinceClient, NothingReadYet, [Next]_vars
             PROVE  /\ (person.version >= 1)' /\ SnapNotNewer' /\ VersionStandsForRow'
                    /\ PatchReadSinceClient' /\ NothingReadYet'
  OBVIOUS
<1>1. person.version \in Nat /\ \A s \in Requests : snap[s].version \in Nat
                                                   /\ job[s].expected \in Nat
  BY DEF TypeOK, Row, Job
<1>2. person' = person \/ person'.version = person.version + 1
  BY PersonStep
<1>3. (person.version >= 1)'
  BY <1>1, <1>2
<1>4. ASSUME NEW s \in Requests
      PROVE  /\ pc'[s] = "write" => snap'[s].version <= person'.version
             /\ pc'[s] = "write" /\ snap'[s].version = person'.version => snap'[s] = person'
             /\ job'[s].op = "patch" =>
                  /\ job'[s].expected <= person'.version
                  /\ pc'[s] = "write" => job'[s].expected <= snap'[s].version
             /\ pc'[s] # "write" => snap'[s] = Blank
             /\ pc'[s] = "load" => job'[s].op \in {"approve", "reject"}
  <2>1. CASE pc'[s] = pc[s] /\ job'[s] = job[s] /\ snap'[s] = snap[s]
    BY <1>1, <1>2, <2>1
       DEF SnapNotNewer, VersionStandsForRow, PatchReadSinceClient, NothingReadYet
  <2>2. CASE pc'[s] = "idle" /\ job'[s] = NoJob /\ snap'[s] = Blank
    BY <1>1, <1>2, <2>2 DEF NoJob
  <2>3. CASE /\ pc[s] = "idle" /\ pc'[s] # "write" /\ snap'[s] = snap[s]
             /\ UNCHANGED tables
             /\ pc'[s] = "load" => job'[s].op \in {"approve", "reject"}
             /\ job'[s].op = "patch" => job'[s].expected = person.version
    BY <1>1, <2>3 DEF tables, NothingReadYet
  <2>4. CASE /\ pc[s] = "load" /\ LoadPending(s)
             /\ job'[s] = job[s] /\ snap'[s] = snap[s] /\ UNCHANGED tables
             /\ pc'[s] = IF job[s].op = "approve" THEN "read" ELSE "write"
    <3>1. snap'[s] = Blank /\ person' = person /\ job'[s].op \in {"approve", "reject"}
      BY <2>4 DEF tables, NothingReadYet
    <3>2. Blank.version = 0
      BY DEF Blank
    <3> QED
      BY <1>1, <2>4, <3>1, <3>2
  <2>5. CASE /\ pc[s] = "read" /\ ReadPerson(s) /\ pc'[s] = "write"
             /\ job'[s] = job[s] /\ snap'[s] = person /\ UNCHANGED tables
    BY <1>1, <2>5 DEF tables, PatchReadSinceClient
  <2> QED
    BY <2>1, <2>2, <2>3, <2>4, <2>5, RequestStep
<1> QED
  BY <1>3, <1>4
     DEF SnapNotNewer, VersionStandsForRow, PatchReadSinceClient, NothingReadYet

\* What a proposal says never changes once it is submitted.
ProposalsMoveOn ==
    \A c \in Proposals : proposals[c].status # "none" =>
        /\ proposals'[c].changes = proposals[c].changes
        /\ proposals'[c].base = proposals[c].base
        /\ proposals'[c].status # "none"

LEMMA ProposalStep == TypeOK /\ ReviewsSubmitted /\ [Next]_vars => ProposalsMoveOn
<1> SUFFICES ASSUME TypeOK, ReviewsSubmitted, [Next]_vars PROVE ProposalsMoveOn
  OBVIOUS
<1>1. CASE UNCHANGED proposals
  BY <1>1 DEF ProposalsMoveOn
<1>2. ASSUME NEW r \in Requests, Submit(r) PROVE ProposalsMoveOn
  BY <1>2 DEF Submit, NotSubmitted, TypeOK, ProposalsMoveOn
<1>3. ASSUME NEW c \in Proposals, NEW st \in {"approved", "rejected"},
             proposals' = [proposals EXCEPT ![c].status = st]
      PROVE  ProposalsMoveOn
  BY <1>3 DEF TypeOK, Proposal, ProposalsMoveOn
<1>4. ASSUME NEW r \in Requests, Approve(r) \/ Reject(r) PROVE ProposalsMoveOn
  <2>1. job[r].proposal \in Proposals
    BY <1>4 DEF Approve, Reject, Writing, ReviewsSubmitted
  <2> QED
    BY <1>3, <1>4, <2>1 DEF Approve, Reject
<1> QED
  BY <1>1, <1>2, <1>4
     DEF Next, vars, tables, BeginPatch, BeginSubmit, BeginDeleteOrRestore, BeginAvatar,
         BeginReview, Start, LoadPending, ReadPerson, SavePerson, Abort

\* A review keeps its proposal and an approval keeps what it has checked.
LEMMA ReviewStep == TypeOK /\ ReviewsSubmitted /\ ApprovalChecked /\ NothingReadYet /\ [Next]_vars
                      => ReviewsSubmitted' /\ ApprovalChecked'
<1> SUFFICES ASSUME TypeOK, ReviewsSubmitted, ApprovalChecked, NothingReadYet, [Next]_vars,
                    NEW s \in Requests
             PROVE  /\ pc'[s] # "idle" /\ job'[s].op \in {"approve", "reject"} =>
                         /\ job'[s].proposal \in Proposals
                         /\ proposals'[job'[s].proposal].status # "none"
                    /\ pc'[s] = "write" /\ job'[s].op = "approve" =>
                         /\ ~snap'[s].deleted
                         /\ Conflicts(proposals'[job'[s].proposal], snap'[s].val) = {}
  BY DEF ReviewsSubmitted, ApprovalChecked
<1>1. ProposalsMoveOn
  BY ProposalStep
<1>2. CASE pc'[s] = pc[s] /\ job'[s] = job[s] /\ snap'[s] = snap[s]
  <2>1. ASSUME NEW c \in Proposals, proposals[c].status # "none", NEW v
        PROVE  Conflicts(proposals'[c], v) = Conflicts(proposals[c], v)
    BY <1>1, <2>1 DEF ProposalsMoveOn, Conflicts
  <2> QED
    BY <1>1, <1>2, <2>1 DEF ReviewsSubmitted, ApprovalChecked, ProposalsMoveOn
<1>3. CASE pc'[s] = "idle"
  BY <1>3
<1>4. CASE /\ pc[s] = "idle" /\ pc'[s] # "write" /\ UNCHANGED tables
           /\ job'[s].op \in {"approve", "reject"} =>
                /\ job'[s].proposal \in Proposals
                /\ proposals[job'[s].proposal].status # "none"
  BY <1>4 DEF tables
<1>5. CASE /\ pc[s] = "load" /\ job'[s] = job[s] /\ UNCHANGED tables
           /\ pc'[s] = IF job[s].op = "approve" THEN "read" ELSE "write"
  BY <1>5 DEF tables, ReviewsSubmitted
<1>6. CASE /\ pc[s] = "read" /\ ReadPerson(s) /\ pc'[s] = "write"
           /\ job'[s] = job[s] /\ snap'[s] = person /\ UNCHANGED tables
  BY <1>6 DEF tables, ReviewsSubmitted, ReadPerson
<1> QED
  BY <1>2, <1>3, <1>4, <1>5, <1>6, RequestStep

\* The audit log follows the status.
LEMMA AuditStep == TypeOK /\ ReviewsSubmitted /\ UnsubmittedUnaudited /\ ReviewIsAudited
                     /\ [Next]_vars => UnsubmittedUnaudited' /\ ReviewIsAudited'
<1> SUFFICES ASSUME TypeOK, ReviewsSubmitted, UnsubmittedUnaudited, ReviewIsAudited, [Next]_vars
             PROVE  UnsubmittedUnaudited' /\ ReviewIsAudited'
  OBVIOUS
<1>0. \A c \in Proposals : /\ audit[c] \in AuditEntry /\ proposals[c] \in Proposal
                           /\ audit[c].approvals \in Nat /\ audit[c].rejections \in Nat
  BY DEF TypeOK, AuditEntry
<1>1. CASE UNCHANGED <<proposals, audit>>
  BY <1>1 DEF UnsubmittedUnaudited, ReviewIsAudited
<1>2. ASSUME NEW r \in Requests, Submit(r) PROVE UnsubmittedUnaudited' /\ ReviewIsAudited'
  BY <1>2 DEF Submit, NotSubmitted, TypeOK, UnsubmittedUnaudited, ReviewIsAudited
<1>3. ASSUME NEW r \in Requests, Approve(r) PROVE UnsubmittedUnaudited' /\ ReviewIsAudited'
  <2> DEFINE c == job[r].proposal
  <2>1. c \in Proposals
    BY <1>3 DEF Approve, Writing, ReviewsSubmitted
  <2>2. proposals' = [proposals EXCEPT ![c].status = "approved"]
    BY <1>3 DEF Approve
  <2>3. audit' = [audit EXCEPT ![c].approvals = @ + 1]
    BY <1>3 DEF Approve
  <2>4. proposals'[c].status = "approved" /\ audit'[c].approvals = audit[c].approvals + 1
    BY <1>0, <2>1, <2>2, <2>3 DEF TypeOK, Proposal, AuditEntry
  <2>5. \A d \in Proposals \ {c} : proposals'[d] = proposals[d] /\ audit'[d] = audit[d]
    BY <2>2, <2>3 DEF TypeOK
  <2> QED
    BY <1>0, <2>1, <2>4, <2>5 DEF UnsubmittedUnaudited, ReviewIsAudited
<1>4. ASSUME NEW r \in Requests, Reject(r) PROVE UnsubmittedUnaudited' /\ ReviewIsAudited'
  <2> DEFINE c == job[r].proposal
  <2>1. c \in Proposals
    BY <1>4 DEF Reject, Writing, ReviewsSubmitted
  <2>2. proposals' = [proposals EXCEPT ![c].status = "rejected"]
    BY <1>4 DEF Reject
  <2>3. audit' = [audit EXCEPT ![c].rejections = @ + 1]
    BY <1>4 DEF Reject
  <2>4. proposals'[c].status = "rejected" /\ audit'[c].rejections = audit[c].rejections + 1
    BY <1>0, <2>1, <2>2, <2>3 DEF TypeOK, Proposal, AuditEntry
  <2>5. \A d \in Proposals \ {c} : proposals'[d] = proposals[d] /\ audit'[d] = audit[d]
    BY <2>2, <2>3 DEF TypeOK
  <2> QED
    BY <1>0, <2>1, <2>4, <2>5 DEF UnsubmittedUnaudited, ReviewIsAudited
<1> QED
  BY <1>1, <1>2, <1>3, <1>4
     DEF Next, vars, tables, BeginPatch, BeginSubmit, BeginDeleteOrRestore, BeginAvatar,
         BeginReview, Start, LoadPending, ReadPerson, SavePerson, Abort

\* IInv is an inductive invariant.
LEMMA Inductive == Spec => []IInv
<1>1. Init => IInv
  <2> SUFFICES ASSUME Init PROVE IInv
    OBVIOUS
  <2>1. person \in Row /\ person.version = 1
    BY BlankType DEF Init, Blank, Row
  <2>2. TypeOK
    BY <2>1, BlankType DEF Init, TypeOK, AuditEntry
  <2> QED
    BY <2>1, <2>2
       DEF Init, IInv, NoJob, NotSubmitted, Blank, SnapNotNewer, VersionStandsForRow,
           PatchReadSinceClient, NothingReadYet, ApprovalChecked, ReviewsSubmitted,
           UnsubmittedUnaudited, ReviewIsAudited
<1>2. IInv /\ [Next]_vars => IInv'
  BY TypeStep, VersionStep, ReviewStep, AuditStep DEF IInv
<1> QED
  BY <1>1, <1>2, PTL DEF Spec

\* The row, the proposals and the requests keep their types.
THEOREM EditTypes == Spec => []TypeOK
BY Inductive, PTL DEF IInv

\* A request that finds the version it read finds the row it read.
THEOREM VersionSuffices == Spec => []VersionStandsForRow
BY Inductive, PTL DEF IInv

\* Decisions on proposals are in the audit log.
THEOREM ReviewsAudited == Spec => []ReviewIsAudited
BY Inductive, PTL DEF IInv

\* An approval overwrites only what the requester saw or what he proposed, and
\* never touches a deleted person: the merge is checked on the row it finds.
THEOREM ApprovalIsSafe == Spec => ApprovalLosesNoEdit
<1> DEFINE Safe ==
      \A r \in Requests, c \in Proposals :
        job[r].proposal = c /\ audit'[c].approvals # audit[c].approvals
          => /\ ~person.deleted
             /\ \A f \in DOMAIN proposals[c].changes :
                   /\ person.val[f] \in {proposals[c].base[f], proposals[c].changes[f]}
                   /\ person'.val[f] = proposals[c].changes[f]
<1>1. IInv /\ [Next]_vars => [Safe]_vars
  <2> SUFFICES ASSUME IInv, [Next]_vars, NEW c \in Proposals,
                      audit'[c].approvals # audit[c].approvals
               PROVE  /\ ~person.deleted
                      /\ \A f \in DOMAIN proposals[c].changes :
                            /\ person.val[f] \in {proposals[c].base[f], proposals[c].changes[f]}
                            /\ person'.val[f] = proposals[c].changes[f]
    OBVIOUS
  <2> TypeOK /\ ReviewsSubmitted /\ ApprovalChecked /\ VersionStandsForRow
    BY DEF IInv
  <2>1. ASSUME NEW r \in Requests, Reject(r)
        PROVE  audit'[c].approvals = audit[c].approvals
    BY <2>1 DEF Reject, TypeOK, AuditEntry
  <2>2. PICK r \in Requests : Approve(r)
    BY <2>1 DEF Next, vars, tables, BeginPatch, BeginSubmit, BeginDeleteOrRestore, BeginAvatar,
                BeginReview, Start, LoadPending, ReadPerson, SavePerson, Submit, Abort
  <2>3. job[r].proposal = c
    BY <2>2 DEF Approve, TypeOK
  <2>4. /\ pc[r] = "write" /\ job[r].op = "approve"
        /\ person.version = snap[r].version /\ person' = Mutated(r)
    BY <2>2 DEF Approve, Writing, VersionAllows
  <2>5. snap[r] = person
    BY <2>4 DEF VersionStandsForRow
  <2>6. ~person.deleted /\ Conflicts(proposals[c], person.val) = {}
    BY <2>3, <2>4, <2>5 DEF ApprovalChecked
  <2>7. person'.val = Updated(person.val, proposals[c].changes)
    BY <2>3, <2>4, <2>5, MutatedType
  <2>8. DOMAIN proposals[c].changes \subseteq Fields
    BY EditType DEF TypeOK, Proposal
  <2> QED
    BY <2>6, <2>7, <2>8 DEF Conflicts, Updated
<1> QED
  BY <1>1, Inductive, PTL DEF Spec, ApprovalLosesNoEdit

\* Nobody's edit is undone by a conditional save: a column that changes without
\* being asked for was overwritten by delete, restore or set_avatar.
THEOREM EditsAreKept == Spec => ColumnsChangeOnlyIfAsked
<1> DEFINE Kept ==
      \A f \in Fields : person'.val[f] # person.val[f] =>
         \E r \in Requests : \/ Asked(r, f)
                             \/ Unconditional(r) /\ snap[r].version < person.version
<1>1. IInv /\ [Next]_vars => [Kept]_vars
  <2> SUFFICES ASSUME IInv, [Next]_vars, NEW f \in Fields, person'.val[f] # person.val[f]
               PROVE  \E r \in Requests :
                        \/ Asked(r, f)
                        \/ Unconditional(r) /\ snap[r].version < person.version
    OBVIOUS
  <2> /\ TypeOK /\ ReviewsSubmitted /\ SnapNotNewer /\ VersionStandsForRow
      /\ PatchReadSinceClient
    BY DEF IInv
  <2>1. PICK r \in Requests :
          /\ pc[r] = "write" /\ End(r)
          /\ person' = Mutated(r)
          /\ VersionAllows(r)
          /\ job[r].op \in {"patch", "delete", "restore", "avatar", "approve"}
    BY PersonStep
  <2>2. pc'[r] = "idle"
    BY <2>1 DEF End, TypeOK
  <2>3. person'.val = Updated(snap[r].val,
                        IF job[r].op = "approve" THEN proposals[job[r].proposal].changes
                        ELSE job[r].edit)
    BY <2>1, MutatedType
  <2>4. CASE snap[r] = person
    BY <2>1, <2>2, <2>3, <2>4 DEF Updated, Asked
  <2>5. CASE snap[r] # person
    <3>1. /\ snap[r].version \in Nat /\ person.version \in Nat /\ job[r].expected \in Nat
      BY DEF TypeOK, Row, Job
    <3>2. snap[r].version < person.version
      BY <2>1, <2>5, <3>1 DEF SnapNotNewer, VersionStandsForRow
    <3>3. job[r].op # "patch" /\ job[r].op # "approve"
      BY <2>1, <3>1, <3>2 DEF VersionAllows, PatchReadSinceClient
    <3> QED
      BY <2>1, <2>2, <3>2, <3>3 DEF Unconditional, Writing
  <2> QED
    BY <2>4, <2>5
<1> QED
  BY <1>1, Inductive, PTL DEF Spec, ColumnsChangeOnlyIfAsked
=============================================================================
