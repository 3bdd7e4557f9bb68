--------------------------- MODULE IdentityClaims ---------------------------
(***************************************************************************)
(* The identity claims on the persons of one clan: a user asks to be       *)
(* linked to a person of the tree, and an admin of the clan that entered   *)
(* the person decides.  The requests are those of ClaimCommandHandler.     *)
(*                                                                         *)
(* A request is one transaction at READ COMMITTED.  What it loads stays in *)
(* the session's identity map, so a guard on a loaded object is a guard on *)
(* what was committed when it was loaded.  The ORM writes by primary key,  *)
(* with no condition on the old values.  The writes at the end of a        *)
(* request are one step with the COMMIT: they lock the rows they touch, so *)
(* requests that touch the same row do so one after the other.             *)
(***************************************************************************)
EXTENDS FiniteSets

CONSTANTS
    Users,
    Persons,
    Claims,     \* ids of claims; uuids, handed out in no order
    Requests,   \* slots for requests running at the same time
    None        \* the value of a reference that is NULL

ASSUME ClaimsAssumption == None \notin Users \cup Persons \cup Claims

OnClaim == {"cancel", "reject", "approve"}
Linking == {"approve", "prelink"}
Ops == OnClaim \cup {"submit", "prelink", "unlink"}
Statuses == {"PENDING", "APPROVED", "REJECTED", "CANCELLED"}

VARIABLES
    claims,   \* identity_claims by id
    link,     \* user_profiles.person_id
    members,  \* users with an approved role in the clan
    pc,       \* the statement each request runs next
    job,      \* its operation, with the claim, the user and the person it is about
    seen,     \* status of the claim as the request loaded it
    lock      \* the persons row a request holds FOR UPDATE

tables == <<claims, link, members>>
vars == <<tables, pc, job, seen, lock>>

-----------------------------------------------------------------------------
(* Types *)

Claim == [status : Statuses \cup {"none"},
          user   : Users \cup {None},
          person : Persons \cup {None}]

Job == [op     : Ops,
        claim  : Claims \cup {None},
        user   : Users \cup {None},
        person : Persons \cup {None}]

TypeOK ==
    /\ claims \in [Claims -> Claim]
    /\ link \in [Users -> Persons \cup {None}]
    /\ members \in SUBSET Users
    /\ pc \in [Requests -> {"idle", "claim", "user", "lock", "linked",
                            "pending", "role", "write"}]
    /\ job \in [Requests -> Job]
    /\ seen \in [Requests -> Statuses \cup {"none"}]
    /\ lock \in [Requests -> Persons \cup {None}]

NoClaim == [status |-> "none", user |-> None, person |-> None]
NoJob == [op |-> "submit", claim |-> None, user |-> None, person |-> None]

-----------------------------------------------------------------------------
(* Reading the tables *)

Pending(c) == claims[c].status = "PENDING"

Linked(p) == \E u \in Users : link[u] = p

\* The claims an unlink looks for; it takes the newest.
ApprovedFor(u, p) ==
    {c \in Claims : claims[c] = [status |-> "APPROVED", user |-> u, person |-> p]}

\* The unique indexes: one pending claim of a user, one user of a person.
MayBePending(u) == \A c \in Claims : ~(Pending(c) /\ claims[c].user = u)
MayBeLinked(u, p) == \A v \in Users \ {u} : link[v] # p

\* Nobody else holds the persons row.  A foreign key check waits for it too.
Free(r, p) == \A s \in Requests \ {r} : lock[s] # p

-----------------------------------------------------------------------------
(* Writing them *)

\* auto_reject_other_pending_claims and auto_reject_all_pending_claims: the
\* pending claims in S are rejected, and claim c gets the status st.
Decided(c, st, S) ==
    [d \in Claims |->
        IF d = c THEN [claims[d] EXCEPT !.status = st]
        ELSE IF d \in S /\ Pending(d) THEN [claims[d] EXCEPT !.status = "REJECTED"]
        ELSE claims[d]]

ClaimsOnPerson(p) == {c \in Claims : claims[c].person = p}
ClaimsOnUserOrPerson(u, p) ==
    {c \in Claims : claims[c].user = u \/ claims[c].person = p}

-----------------------------------------------------------------------------
(* Actions *)

Init ==
    /\ claims = [c \in Claims |-> NoClaim]
    /\ link = [u \in Users |-> None]
    /\ members = {}
    /\ pc = [r \in Requests |-> "idle"]
    /\ job = [r \in Requests |-> NoJob]
    /\ seen = [r \in Requests |-> "none"]
    /\ lock = [r \in Requests |-> None]

\* The transaction ends and its lock goes.
End(r) ==
    /\ pc' = [pc EXCEPT ![r] = "idle"]
    /\ job' = [job EXCEPT ![r] = NoJob]
    /\ seen' = [seen EXCEPT ![r] = "none"]
    /\ lock' = [lock EXCEPT ![r] = None]

Goto(r, next) ==
    /\ pc' = [pc EXCEPT ![r] = next]
    /\ UNCHANGED tables

\* submit_claim, prelink_identity and unlink_identity start with the user; for
\* unlink the person is not known yet.
BeginOnUser(r, o, u, p) ==
    /\ pc[r] = "idle"
    /\ o \in Ops \ OnClaim
    /\ (o = "unlink") <=> (p = None)
    /\ job' = [job EXCEPT ![r] = [op |-> o, claim |-> None, user |-> u, person |-> p]]
    /\ Goto(r, "user")
    /\ UNCHANGED <<seen, lock>>

\* cancel_claim, reject_claim and approve_claim load a claim: its user and its
\* person never change, its status is the one committed now.
BeginOnClaim(r, o, c) ==
    /\ pc[r] = "idle"
    /\ o \in OnClaim
    /\ claims[c].status # "none"
    /\ o # "approve" => Pending(c)
    /\ job' = [job EXCEPT ![r] = [op |-> o, claim |-> c, user |-> claims[c].user,
                                  person |-> claims[c].person]]
    /\ seen' = [seen EXCEPT ![r] = claims[c].status]
    /\ Goto(r, IF o = "approve" THEN "lock" ELSE "write")
    /\ UNCHANGED lock

\* Mutant of LockPerson: the select forgets FOR UPDATE.
LockPersonUnlocked(r) ==
    /\ pc[r] = "lock"
    /\ Goto(r, IF job[r].op = "approve" THEN "user" ELSE "linked")
    /\ UNCHANGED <<job, seen, lock>>

LockPerson(r) ==
    /\ pc[r] = "lock"
    /\ Free(r, job[r].person)
    /\ lock' = [lock EXCEPT ![r] = job[r].person]
    /\ Goto(r, IF job[r].op = "approve" THEN "user" ELSE "linked")
    /\ UNCHANGED <<job, seen>>

\* The user must not be linked yet; approve_claim asks after it has the lock,
\* prelink_identity before.
ReadUser(r) ==
    /\ pc[r] = "user"
    /\ job[r].op # "unlink"
    /\ link[job[r].user] = None
    /\ Goto(r, IF job[r].op = "prelink" THEN "lock" ELSE "linked")
    /\ UNCHANGED <<job, seen, lock>>

\* unlink_identity takes the person from the user it loads.
ReadUserToUnlink(r) ==
    /\ pc[r] = "user"
    /\ job[r].op = "unlink"
    /\ link[job[r].user] # None
    /\ job' = [job EXCEPT ![r].person = link[job[r].user]]
    /\ Goto(r, "write")
    /\ UNCHANGED <<seen, lock>>

\* The person must not be linked yet; only then does approve_claim look at the
\* status it loaded.
ReadLinked(r) ==
    /\ pc[r] = "linked"
    /\ ~Linked(job[r].person)
    /\ job[r].op = "approve" => seen[r] = "PENDING"
    /\ Goto(r, CASE job[r].op = "submit"  -> "pending"
                 [] job[r].op = "approve" -> "write"
                 [] OTHER                 -> "role")
    /\ UNCHANGED <<job, seen, lock>>

\* submit_claim: the user has no pending claim.
ReadPending(r) ==
    /\ pc[r] = "pending"
    /\ MayBePending(job[r].user)
    /\ Goto(r, "write")
    /\ UNCHANGED <<job, seen, lock>>

\* prelink_identity: the user is in the clan.
ReadRole(r) ==
    /\ pc[r] = "role"
    /\ job[r].user \in members
    /\ Goto(r, "write")
    /\ UNCHANGED <<job, seen, lock>>

Writing(r, o) == pc[r] = "write" /\ job[r].op = o

Submit(r) ==
    /\ Writing(r, "submit")
    /\ MayBePending(job[r].user)
    /\ Free(r, job[r].person)
    /\ \E c \in Claims :
         /\ claims[c] = NoClaim
         /\ claims' = [claims EXCEPT ![c] = [status |-> "PENDING", user |-> job[r].user,
                                             person |-> job[r].person]]
    /\ End(r)
    /\ UNCHANGED <<link, members>>

\* cancel_claim and reject_claim: UPDATE identity_claims ... WHERE id, whatever
\* the status has become.
CancelOrReject(r) ==
    /\ Writing(r, "cancel") \/ Writing(r, "reject")
    /\ claims' = [claims EXCEPT ![job[r].claim].status =
                    IF job[r].op = "cancel" THEN "CANCELLED" ELSE "REJECTED"]
    /\ End(r)
    /\ UNCHANGED <<link, members>>

\* Mutant of Approve: the other claims on the person are rejected, this one is
\* left as it is.
ApproveKeepsPending(r) ==
    /\ Writing(r, "approve")
    /\ MayBeLinked(job[r].user, job[r].person)
    /\ claims' = Decided(job[r].claim, claims[job[r].claim].status,
                         ClaimsOnPerson(job[r].person))
    /\ link' = [link EXCEPT ![job[r].user] = job[r].person]
    /\ members' = members \cup {job[r].user}
    /\ End(r)

\* approve_claim: the user becomes the person, and a viewer of the clan.
Approve(r) ==
    /\ Writing(r, "approve")
    /\ MayBeLinked(job[r].user, job[r].person)
    /\ claims' = Decided(job[r].claim, "APPROVED", ClaimsOnPerson(job[r].person))
    /\ link' = [link EXCEPT ![job[r].user] = job[r].person]
    /\ members' = members \cup {job[r].user}
    /\ End(r)

\* prelink_identity: an approved claim is made for the record.
Prelink(r) ==
    /\ Writing(r, "prelink")
    /\ MayBeLinked(job[r].user, job[r].person)
    /\ \E c \in Claims :
         /\ claims[c] = NoClaim
         /\ claims' = [Decided(c, "APPROVED", ClaimsOnUserOrPerson(job[r].user, job[r].person))
                         EXCEPT ![c] = [status |-> "APPROVED", user |-> job[r].user,
                                        person |-> job[r].person]]
    /\ link' = [link EXCEPT ![job[r].user] = job[r].person]
    /\ End(r)
    /\ UNCHANGED members

\* unlink_identity: the link goes, the claim that made it is cancelled, what
\* is pending for the user or the person is rejected.
Unlink(r) ==
    /\ Writing(r, "unlink")
    /\ LET u == job[r].user
           p == job[r].person IN
       /\ link' = [link EXCEPT ![u] = None]
       /\ \/ \E c \in ApprovedFor(u, p) :
               claims' = Decided(c, "CANCELLED", ClaimsOnUserOrPerson(u, p))
          \/ /\ ApprovedFor(u, p) = {}
             /\ claims' = Decided(None, "none", ClaimsOnUserOrPerson(u, p))
    /\ End(r)
    /\ UNCHANGED members

\* A guard refuses, a person is gone, or the database reports an error: the
\* transaction is rolled back.
Abort(r) ==
    /\ pc[r] # "idle"
    /\ End(r)
    /\ UNCHANGED tables

\* Members join and leave through other requests.
MembersChange(u) ==
    /\ members' = IF u \in members THEN members \ {u} ELSE members \cup {u}
    /\ UNCHANGED <<claims, link, pc, job, seen, lock>>

Step(r) ==
    \/ LockPerson(r)
    \/ ReadUser(r) \/ ReadUserToUnlink(r) \/ ReadLinked(r) \/ ReadPending(r) \/ ReadRole(r)
    \/ Submit(r) \/ CancelOrReject(r) \/ Approve(r) \/ Prelink(r) \/ Unlink(r)
    \/ Abort(r)

Next ==
    \/ \E r \in Requests, o \in Ops, u \in Users, p \in Persons \cup {None} :
         BeginOnUser(r, o, u, p)
    \/ \E r \in Requests, o \in Ops, c \in Claims : BeginOnClaim(r, o, c)
    \/ \E r \in Requests : Step(r)
    \/ \E u \in Users : MembersChange(u)

Spec == Init /\ [][Next]_vars

-----------------------------------------------------------------------------
(* Properties *)

\* lock_person's promise: from is_person_linked to the COMMIT nobody else links
\* the person, so the unique index on user_profiles never has to refuse.
LinkingPersonIsFree ==
    \A r \in Requests :
        pc[r] = "write" /\ job[r].op \in Linking => ~Linked(job[r].person)

\* Behind every link there is a decided claim of that user on that person: a
\* link comes from approve_claim or prelink_identity and from nothing else.
LinkHasDecidedClaim ==
    \A u \in Users : link[u] # None =>
        \E c \in Claims : /\ claims[c].user = u
                          /\ claims[c].person = link[u]
                          /\ claims[c].status \notin {"none", "PENDING"}

\* A claim that was decided changes again only when its link is undone, or when
\* a cancel, reject or approve is under way that loaded it while it was pending.
DecidedMovesOnlyByStaleReview ==
    [][\A c \in Claims :
         claims[c].status \in Statuses \ {"PENDING"} /\ claims'[c] # claims[c]
            => \E r \in Requests :
                 /\ pc[r] = "write" /\ pc'[r] = "idle"
                 /\ \/ job[r].claim = c /\ seen[r] = "PENDING"
                    \/ job[r].op = "unlink" /\ claims[c].status = "APPROVED"]_vars

=============================================================================
