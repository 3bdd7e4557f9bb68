------------------------------- MODULE Accounts -------------------------------
(***************************************************************************)
(* Accounts of the identity provider and what the database keeps of them:  *)
(* registration, which writes to both and undoes the first when the second *)
(* fails; the profile that a first request makes; onboarding; and the      *)
(* script that makes the super admin.                                      *)
(*                                                                         *)
(* The provider gives an email to one live account at a time.  A token     *)
(* outlives its account: the API verifies its signature and does not ask.  *)
(*                                                                         *)
(* The statements of a writing transaction after its first UPDATE are one  *)
(* step with the COMMIT: whoever meets its rows or keys meanwhile waits.   *)
(***************************************************************************)
CONSTANTS
    Subs,       \* ids the provider gives
    NoSub,
    Emails,     \* addresses, and
    NoEmail,    \* what an account that has no address is given as one
    Clans,      \* clan codes
    Requests

VARIABLES
    account,    \* at the provider
    signedIn,   \* accounts that a token was issued to
    profile,    \* the email of each row of user_profiles
    superAdmins, \* the rows with that platform role
    founder,    \* of each clan that exists
    members,    \* user_clan_roles, approved or pending
    request,
    saga        \* how the registration of each account ended

vars == <<account, signedIn, profile, superAdmins, founder, members, request, saga>>

Addresses == Emails \cup {NoEmail}

NoRow == "no row"
Released == "released"

Kinds == {"register", "onboard", "first", "bootstrap"}

NoClan == "no clan"

\* What a request asks of a clan.
Wishes == [action : {"create", "join"}, clan : Clans] \cup {[action |-> "none", clan |-> NoClan]}

\* released: the rows that the UPDATE's snapshot has shown with the email.
Request == [kind : Kinds, pc : {"idle", "create", "assign", "release", "write", "compensate"},
            sub : Subs \cup {NoSub}, email : Addresses, wish : Wishes, released : SUBSET Subs]

TypeOK ==
    /\ account \in [Subs -> [state : {"none", "live", "deleted"}, email : Addresses]]
    /\ signedIn \subseteq Subs
    /\ profile \in [Subs -> Addresses \cup {NoRow, Released}]
    /\ superAdmins \subseteq Subs
    /\ founder \in [Clans -> Subs \cup {NoSub}]
    /\ members \subseteq Subs \X Clans
    /\ request \in [Requests -> Request]
    /\ saga \in [Subs -> {"none", "open", "ok", "failed", "fault"}]

Idle == [kind |-> "first", pc |-> "idle", sub |-> NoSub, email |-> NoEmail,
         wish |-> [action |-> "none", clan |-> NoClan], released |-> {}]

Init ==
    /\ account = [s \in Subs |-> [state |-> "none", email |-> NoEmail]]
    /\ signedIn = {}
    /\ profile = [s \in Subs |-> NoRow]
    /\ superAdmins = {}
    /\ founder = [c \in Clans |-> NoSub]
    /\ members = {}
    /\ request = [r \in Requests |-> Idle]
    /\ saga = [s \in Subs |-> "none"]

Exists(c) == founder[c] # NoSub

-----------------------------------------------------------------------------
(* The provider *)

Holder(e) == {s \in Subs : account[s] = [state |-> "live", email |-> e]}

\* A live account with an address has it alone; another may have none.
CanCreate(e) == e = NoEmail \/ Holder(e) = {}

Creates(s, e) ==
    /\ account[s].state = "none"
    /\ account' = [account EXCEPT ![s] = [state |-> "live", email |-> e]]

\* A token for a live account: by password once its email is confirmed, whose link
\* anybody may have sent again; or by OAuth, which makes the account.
SignIn(s) ==
    /\ \/ account[s].state = "live" /\ s \notin signedIn /\ UNCHANGED account
       \/ \E e \in Addresses : CanCreate(e) /\ Creates(s, e)
    /\ signedIn' = signedIn \cup {s}
    /\ UNCHANGED <<profile, superAdmins, founder, members, request, saga>>

\* An operator removes an account whose registration is not under way.
DeleteAccount(s) ==
    /\ account[s].state = "live"
    /\ saga[s] # "open"
    /\ account' = [account EXCEPT ![s].state = "deleted"]
    /\ UNCHANGED <<signedIn, profile, superAdmins, founder, members, request, saga>>

-----------------------------------------------------------------------------
(* A request begins *)

Becomes(r, pc) == request' = [request EXCEPT ![r].pc = pc]

Ends(r) == request' = [request EXCEPT ![r] = Idle]

\* What register asks of the clan before the provider is asked anything.
Target(w) == CASE w.action = "create" -> ~Exists(w.clan)
               [] w.action = "join" -> Exists(w.clan)
               [] OTHER -> TRUE

\* register: a refused target answers the same whoever has the email.
Register(r, e, w) ==
    /\ request[r].pc = "idle"
    /\ Target(w)
    /\ request' = [request EXCEPT ![r] = [Idle EXCEPT !.kind = "register", !.pc = "create",
                                            !.email = e, !.wish = w]]
    /\ UNCHANGED <<account, signedIn, profile, superAdmins, founder, members, saga>>

\* bootstrap: it refuses when there is a super admin.
Bootstrap(r, e) ==
    /\ request[r].pc = "idle"
    /\ superAdmins = {}
    /\ request' = [request EXCEPT ![r] = [Idle EXCEPT !.kind = "bootstrap", !.pc = "create",
                                            !.email = e]]
    /\ UNCHANGED <<account, signedIn, profile, superAdmins, founder, members, saga>>

\* A request with the token of s, of an account that is live or was.  The first
\* one reads no row of its own and makes it; onboard finds its clan and its role.
Authenticated(r, s, kind, w) ==
    /\ request[r].pc = "idle"
    /\ s \in signedIn
    /\ \/ kind = "first" /\ profile[s] = NoRow /\ w.action = "none"
       \/ kind = "onboard" /\ w.action # "none"
    /\ request' = [request EXCEPT ![r] =
                     [Idle EXCEPT !.kind = kind, !.pc = IF kind = "first" THEN "release" ELSE "assign",
                                  !.sub = s, !.email = account[s].email, !.wish = w]]
    /\ UNCHANGED <<account, signedIn, profile, superAdmins, founder, members, saga>>

-----------------------------------------------------------------------------
(* register and bootstrap, at the provider *)

\* An account of that email exists: the caller is told nothing, its holder is
\* mailed a link (bootstrap stops).
CreateExists(r) ==
    /\ request[r].pc = "create"
    /\ Holder(request[r].email) # {}
    /\ Ends(r)
    /\ UNCHANGED <<account, signedIn, profile, superAdmins, founder, members, saga>>

\* A refusal, or an outage before the account was made.
CreateFails(r) ==
    /\ request[r].pc = "create"
    /\ Ends(r)
    /\ UNCHANGED <<account, signedIn, profile, superAdmins, founder, members, saga>>

CreateUser(r, s) ==
    LET q == request[r]
    IN  /\ q.pc = "create"
        /\ CanCreate(q.email)
        /\ Creates(s, q.email)
        /\ request' = [request EXCEPT ![r].sub = s,
                                      ![r].pc = CASE q.kind = "bootstrap" -> "write"
                                                  [] q.wish.action = "none" -> "release"
                                                  [] OTHER -> "assign"]
        /\ saga' = [saga EXCEPT ![s] = IF q.kind = "register" THEN "open" ELSE @]
        /\ UNCHANGED <<signedIn, profile, superAdmins, founder, members>>

\* The account is made and the answer lost: an outage to the caller, and nothing
\* is undone.
CreateLost(r, s) ==
    /\ request[r].pc = "create"
    /\ CanCreate(request[r].email)
    /\ Creates(s, request[r].email)
    /\ Ends(r)
    /\ saga' = [saga EXCEPT ![s] = IF request[r].kind = "register" THEN "fault" ELSE @]
    /\ UNCHANGED <<signedIn, profile, superAdmins, founder, members>>

-----------------------------------------------------------------------------
(* _assign_clan_membership and ensure_profile_row *)

\* The role of the user in the clan, approved or pending.
HasRole(s, c) == <<s, c>> \in members

CanAssign(q) == Target(q.wish) /\ (q.wish.action = "join" => ~HasRole(q.sub, q.wish.clan))

\* Mutant of Undoes: only the conflicts that the handler itself raises.
UndoesConflicts(q) == q.kind = "register" /\ q.pc = "assign"

\* The except branch of register; the other requests only fail.
Undoes(q) == q.kind = "register"

Fails(r) == IF Undoes(request[r]) THEN Becomes(r, "compensate") ELSE Ends(r)

SagaBecomes(q, outcome) ==
    IF q.kind = "register" THEN saga' = [saga EXCEPT ![q.sub] = outcome] ELSE UNCHANGED saga

Assign(r) ==
    /\ request[r].pc = "assign"
    /\ IF CanAssign(request[r]) THEN Becomes(r, "release") /\ UNCHANGED saga
                                ELSE Fails(r) /\ SagaBecomes(request[r], "failed")
    /\ UNCHANGED <<account, signedIn, profile, superAdmins, founder, members>>

\* Mutant of Stale: of every account that has no address, too.
StaleOfAll(s, e) == {o \in Subs \ {s} : profile[s] = NoRow /\ profile[o] = e}

\* _release_email_held_by_another_profile: the rows that its snapshot shows.
Stale(s, e) == {o \in Subs \ {s} : e # NoEmail /\ profile[s] = NoRow /\ profile[o] = e}

Release(r) ==
    LET q == request[r]
    IN  /\ q.pc = "release"
        /\ request' = [request EXCEPT ![r].pc = "write", ![r].released = Stale(q.sub, q.email)]
        /\ UNCHANGED <<account, signedIn, profile, superAdmins, founder, members, saga>>

\* The rows it locks, each read again if it had to wait; then the INSERT, which
\* does nothing when the row is there.
Freed(q) == [s \in Subs |-> IF s \in q.released /\ profile[s] = q.email THEN Released ELSE profile[s]]

Provisioned(q) == [Freed(q) EXCEPT ![q.sub] = IF @ = NoRow THEN q.email ELSE @]

\* uq_user_profiles_email, without rows, and the INSERT of the script.
EmailTaken(q) ==
    IF q.kind = "bootstrap"
    THEN profile[q.sub] # NoRow \/ \E s \in Subs : profile[s] = q.email
    ELSE profile[q.sub] = NoRow /\ \E s \in Subs : Freed(q)[s] = q.email

\* clans.slug, the unique role of a user in a clan, and the foreign key of a join.
RoleTaken(q) == \/ q.wish.action = "create" /\ Exists(q.wish.clan)
                \/ HasRole(q.sub, q.wish.clan)

NewMembership(q) == IF q.wish.action = "none" THEN {} ELSE {<<q.sub, q.wish.clan>>}

Commits(q) ==
    /\ ~EmailTaken(q)
    /\ ~RoleTaken(q)
    /\ profile' = Provisioned(q)
    /\ superAdmins' = IF q.kind = "bootstrap" THEN superAdmins \cup {q.sub} ELSE superAdmins
    /\ founder' = IF q.wish.action = "create" THEN [founder EXCEPT ![q.wish.clan] = q.sub] ELSE founder
    /\ members' = members \cup NewMembership(q)
    /\ UNCHANGED <<account, signedIn>>

Write(r) ==
    /\ request[r].pc = "write"
    /\ Commits(request[r])
    /\ Ends(r)
    /\ SagaBecomes(request[r], "ok")

\* The COMMIT is carried out and its answer lost: the handler sees a failure.
WriteLost(r) ==
    /\ request[r].pc = "write"
    /\ Commits(request[r])
    /\ Fails(r)
    /\ SagaBecomes(request[r], "fault")

\* A violated constraint, or a connection lost before the COMMIT.
WriteFails(r) ==
    /\ request[r].pc = "write"
    /\ Fails(r)
    /\ SagaBecomes(request[r], "failed")
    /\ UNCHANGED <<account, signedIn, profile, superAdmins, founder, members>>

\* delete_user.
Compensate(r) ==
    /\ request[r].pc = "compensate"
    /\ account' = [account EXCEPT ![request[r].sub].state = "deleted"]
    /\ Ends(r)
    /\ UNCHANGED <<saga, signedIn, profile, superAdmins, founder, members>>

\* Its failure is suppressed.
CompensateFails(r) ==
    /\ request[r].pc = "compensate"
    /\ SagaBecomes(request[r], "fault")
    /\ Ends(r)
    /\ UNCHANGED <<account, signedIn, profile, superAdmins, founder, members>>

\* The process ends; an open transaction is rolled back.
Die(r) ==
    /\ request[r].pc # "idle"
    /\ request[r].sub # NoSub
    /\ SagaBecomes(request[r], "fault")
    /\ Ends(r)
    /\ UNCHANGED <<account, signedIn, profile, superAdmins, founder, members>>

-----------------------------------------------------------------------------

Next ==
    \/ \E s \in Subs : SignIn(s) \/ DeleteAccount(s)
    \/ \E r \in Requests :
         \/ \E e \in Emails : Bootstrap(r, e) \/ \E w \in Wishes : Register(r, e, w)
         \/ \E s \in Subs, k \in {"first", "onboard"}, w \in Wishes : Authenticated(r, s, k, w)
         \/ CreateExists(r) \/ CreateFails(r)
         \/ \E s \in Subs : CreateUser(r, s) \/ CreateLost(r, s)
         \/ Assign(r) \/ Release(r) \/ Write(r) \/ WriteLost(r) \/ WriteFails(r)
         \/ Compensate(r) \/ CompensateFails(r) \/ Die(r)

Spec == Init /\ [][Next]_vars

-----------------------------------------------------------------------------
(* Properties *)

\* A registration that failed, without one of the named faults, and is undone,
\* leaves no account, and nothing in the database that its account did not write
\* itself.
RegisterIsWhole ==
    \A s \in Subs :
        saga[s] = "failed" /\ (\A r \in Requests : request[r].sub = s => request[r].pc # "compensate") =>
            /\ account[s].state = "deleted"
            /\ s \notin signedIn =>
                 /\ profile[s] = NoRow
                 /\ \A c \in Clans : ~HasRole(s, c) /\ founder[c] # s

\* The row of a live account loses the address of that account only to the token
\* of an account that is gone.
EmailTakenOnlyByStaleToken ==
    [][\A s \in Subs :
         /\ account[s].state = "live"
         /\ profile[s] = account[s].email
         /\ profile'[s] # profile[s]
         => \E r \in Requests :
              request[r].sub \in Subs /\ account[request[r].sub].state = "deleted"]_vars
=============================================================================
