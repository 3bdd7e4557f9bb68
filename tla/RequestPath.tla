----------------------------- MODULE RequestPath -----------------------------
(***************************************************************************)
(* The way of an authenticated request through its dependencies to its     *)
(* work: the account, the profile, the active clan, the role; its one or   *)
(* two database sessions, on connections of one pool; and what the row     *)
(* policies of the database let each statement touch.                      *)
(*                                                                         *)
(* The requests are of one user, whose roles, account and clans others     *)
(* change meanwhile.  Dependencies run in the order of the parameters of a *)
(* route; a session holds a connection from its first statement to the end *)
(* of the transaction.  A request may fail, or be cancelled, anywhere.     *)
(***************************************************************************)
EXTENDS Integers, Sequences, FiniteSets

CONSTANTS
    Clans,
    Requests,
    FirstRoles,   \* of the user in each clan, at the start
    FirstStandings,
    PoolSize,     \* connections, overflow included
    MaxChanges    \* bound on what others change

VARIABLES
    role,        \* of the user in each clan
    active,      \* clans that are not suspended
    standing,    \* of the account: whether it is active, and super admin
    changes,
    request

vars == <<role, active, standing, changes, request>>

NoClan == "no clan"

MaybeClan == Clans \cup {NoClan}

-----------------------------------------------------------------------------
(* Routes *)

\* The dependencies of each route in their order, then its work on the session of
\* the request or on the privileged one.
Dependencies ==
    [viewing    |-> <<"user", "clan", "active", "role", "work", "again">>,
     inviting   |-> <<"user", "profile", "clan", "active", "role", "work", "again">>,
     founding   |-> <<"user", "clan", "active", "profile", "role", "work", "again">>,
     reviewing  |-> <<"user", "profile", "clan", "active", "role", "system">>,
     submitting |-> <<"user", "clan", "active", "role", "system">>,
     claiming   |-> <<"user", "profile", "system">>,
     accepting  |-> <<"user", "system">>,
     operating  |-> <<"user", "profile", "system">>,
     onboarding |-> <<"user", "work", "again">>]

Routes == DOMAIN Dependencies

Asks(route) == IF route \in {"viewing", "submitting"} THEN {"viewer", "admin"} ELSE {"admin"}

\* "none" is also a role that is not approved yet.
Roles == {"none", "viewer", "admin"}

Standings == {"active", "super_admin"}

\* step: how far it is; clan: the active clan, resolved; context: the same in the
\* ContextVar; scope: app.clan_id of the open transaction; had: what was so at
\* some time since it began.
Request == [route : Routes, step : 0..7, clan : MaybeClan, context : MaybeClan,
            open : BOOLEAN, scope : MaybeClan, system : BOOLEAN,
            had : SUBSET (MaybeClan \X {"active", "super_admin", "viewer", "admin"})]

TypeOK ==
    /\ role \in [Clans -> Roles]
    /\ active \subseteq Clans
    /\ standing \subseteq Standings
    /\ changes \in 0..MaxChanges
    /\ request \in [Requests -> Request]

Idle == [route |-> "viewing", step |-> 0, clan |-> NoClan, context |-> NoClan,
         open |-> FALSE, scope |-> NoClan, system |-> FALSE, had |-> {}]

Init ==
    /\ role \in FirstRoles
    /\ active = Clans
    /\ standing \in FirstStandings
    /\ changes = 0
    /\ request = [r \in Requests |-> Idle]

At(r, step) == request[r].step > 0 /\ Dependencies[request[r].route][request[r].step] = step

-----------------------------------------------------------------------------
(* What others change *)

Facts(roles, clans, account) ==
    ({NoClan} \X account)
      \cup (clans \X {"active"})
      \cup {<<c, roles[c]>> : c \in {c \in Clans : roles[c] \in {"viewer", "admin"}}}

Change ==
    /\ changes < MaxChanges
    /\ changes' = changes + 1
    /\ \/ \E c \in Clans : \E new \in Roles \ {role[c]} :
            role' = [role EXCEPT ![c] = new] /\ UNCHANGED <<active, standing>>
       \/ \E c \in Clans : active' \in {active \ {c}, active \cup {c}} \ {active} /\ UNCHANGED <<role, standing>>
       \/ standing' \in (SUBSET Standings) \ {standing} /\ UNCHANGED <<role, active>>
    /\ request' = [r \in Requests |->
                     IF request[r].step = 0 THEN request[r]
                     ELSE [request[r] EXCEPT !.had = @ \cup Facts(role', active', standing')]]

World == <<role, active, standing, changes>>

-----------------------------------------------------------------------------
(* Connections *)

InUse == Cardinality({r \in Requests : request[r].open}) + Cardinality({r \in Requests : request[r].system})

Free == InUse < PoolSize

Wants(r) ==
    /\ request[r].step > 0
    /\ IF At(r, "system") THEN ~request[r].system ELSE ~request[r].open

\* Mutant of Begins: SET LOCAL is not repeated for the transactions that follow.
BeginsBare(q) == [q EXCEPT !.open = TRUE, !.scope = NoClan]

\* after_begin: the role of requests and the clan of the ContextVar.
Begins(q) == [q EXCEPT !.open = TRUE, !.scope = q.context]

Connect(r) ==
    /\ Wants(r)
    /\ Free
    /\ request' = [request EXCEPT ![r] = IF At(r, "system") THEN [@ EXCEPT !.system = TRUE] ELSE Begins(@)]
    /\ UNCHANGED World

\* The sessions are closed, and the ContextVar is cleared.
Ended == Idle

\* Mutant of GivesUp: a request that holds a connection waits for the second.
GivesUpBare(q) == ~q.open

\* The timeout of the pool.
GivesUp(q) == TRUE

TimeOut(r) ==
    /\ Wants(r)
    /\ ~Free
    /\ GivesUp(request[r])
    /\ request' = [request EXCEPT ![r] = Ended]
    /\ UNCHANGED World

Abort(r) ==
    /\ request[r].step > 0
    /\ request' = [request EXCEPT ![r] = Ended]
    /\ UNCHANGED World

-----------------------------------------------------------------------------
(* Dependencies.  Each is a statement on the session of the request. *)

Runs(r, step) == At(r, step) /\ request[r].open

\* A check that fails ends the request with its error.
Checks(r, ok, q) ==
    /\ request' = [request EXCEPT ![r] = IF ok THEN [q EXCEPT !.step = @ + 1] ELSE Ended]
    /\ UNCHANGED World

Begin(r, route) ==
    /\ request[r].step = 0
    /\ request' = [request EXCEPT ![r] = [Idle EXCEPT !.route = route, !.step = 1,
                                            !.had = Facts(role, active, standing)]]
    /\ UNCHANGED World

\* get_current_user, after the token is verified.
User(r) ==
    /\ Runs(r, "user")
    /\ Checks(r, "active" \in standing, request[r])

\* ensure_user_profile commits what it writes, if it writes; get_super_admin looks
\* at the row it has read.
Profile(r) ==
    /\ Runs(r, "profile")
    /\ \E writes \in BOOLEAN :
         Checks(r, request[r].route = "operating" => "super_admin" \in standing,
                [request[r] EXCEPT !.open = ~writes, !.scope = IF writes THEN NoClan ELSE @])

ApprovedIn(c) == role[c] \in {"viewer", "admin"}

\* get_current_clan_id: the clan of the header, or the only one.
Clan(r, header) ==
    LET mine == {c \in Clans : ApprovedIn(c)}
        ok   == IF header = NoClan THEN Cardinality(mine) = 1 ELSE header \in mine
    IN  /\ Runs(r, "clan")
        /\ Checks(r, ok, [request[r] EXCEPT !.clan = IF ok /\ header = NoClan THEN CHOOSE c \in mine : TRUE
                                                     ELSE header])

\* The ContextVar, and set_config for the transaction that is open.
Scoped(q) == [q EXCEPT !.context = q.clan, !.scope = q.clan]

Active(r) ==
    /\ Runs(r, "active")
    /\ Checks(r, request[r].clan \in active, Scoped(request[r]))

\* Mutant of RoleOf: the role of the user in whatever clan.
RoleOfAny(q) == \E c \in Clans : role[c] \in Asks(q.route)

\* require_role and RequireClanRole.
RoleOf(q) == role[q.clan] \in Asks(q.route)

Role(r) ==
    /\ Runs(r, "role")
    /\ Checks(r, RoleOf(request[r]), request[r])

\* The work, which may commit and read again; or the privileged work.
Work(r) ==
    /\ \/ /\ Runs(r, "work")
          /\ request' = [request EXCEPT ![r] = [request[r] EXCEPT !.step = @ + 1, !.open = FALSE, !.scope = NoClan]]
       \/ /\ Runs(r, "work") \/ Runs(r, "again") \/ (At(r, "system") /\ request[r].system)
          /\ request' = [request EXCEPT ![r] = Ended]
    /\ UNCHANGED World

-----------------------------------------------------------------------------

Step(r) ==
    \/ Connect(r) \/ TimeOut(r)
    \/ User(r) \/ Profile(r) \/ Active(r) \/ Role(r) \/ Work(r)
    \/ \E header \in MaybeClan : Clan(r, header)

Next ==
    \/ Change
    \/ \E r \in Requests : Step(r) \/ Abort(r) \/ \E route \in Routes : Begin(r, route)

\* The event loop runs every request that can go on, and a wait for a connection
\* ends with one or with the timeout.
Fairness == \A r \in Requests : WF_vars(Step(r))

Spec == Init /\ [][Next]_vars /\ Fairness

-----------------------------------------------------------------------------
(* Row policies: the clans whose rows a statement of the request role can     *)
(* touch under app.clan_id.                                                   *)

\* documents, events, branches, the edges, change_requests, clan_memberships,
\* clan_invitations and notification_log are "keyed".
OutsideLayer2 == {"clans", "user_profiles", "user_fcm_tokens"}
Commands == {"select", "insert", "update", "delete"}

Keyed(scope) == {scope} \cap Clans

Admits(table, command, scope) ==
    CASE table \in {"keyed", "persons"} -> Keyed(scope)
      [] table = "user_clan_roles" -> IF command \in {"select", "insert"} THEN Clans ELSE Keyed(scope)
      [] table = "audit_logs" -> CASE command = "insert" -> Clans
                                   [] command = "select" -> Keyed(scope)
                                   [] OTHER -> {}
      [] table = "identity_claims" -> {}
      [] table \in OutsideLayer2 -> Clans

\* What work on the session of the request needs of other clans than its own.
Elsewhere == {<<"user_clan_roles", "select">>, <<"user_clan_roles", "insert">>, <<"audit_logs", "insert">>}

\* audit_logs are written and kept, and claims are for the privileged session.
Within == (({"keyed", "persons", "user_clan_roles"} \X Commands) \cup {<<"audit_logs", "select">>}) \ Elsewhere

-----------------------------------------------------------------------------
(* Properties *)

\* The work of a request runs, before and after its commits, in the active clan:
\* it reaches that clan's rows and none of another's, and what a request with no
\* clan needs is not denied.
WorkStaysInItsClan ==
    \A r \in Requests :
        (Runs(r, "work") \/ Runs(r, "again")) =>
            /\ \A s \in Within : Admits(s[1], s[2], request[r].scope) = Keyed(request[r].clan)
            /\ \A s \in Elsewhere : Admits(s[1], s[2], request[r].scope) = Clans

\* Work is done only for a user whose account was active, whose clan was not
\* suspended and who had the role in that clan at some time since the request came.
WorkWasAllowed ==
    \A r \in Requests :
        (At(r, "work") \/ At(r, "again") \/ At(r, "system")) =>
            /\ <<NoClan, "active">> \in request[r].had
            /\ request[r].route = "operating" => <<NoClan, "super_admin">> \in request[r].had
            /\ request[r].route \in {"viewing", "inviting", "founding", "reviewing", "submitting"} =>
                 /\ <<request[r].clan, "active">> \in request[r].had
                 /\ \E a \in Asks(request[r].route) : <<request[r].clan, a>> \in request[r].had

\* Every request ends, also when all connections are held by requests that wait
\* for a second one.
RequestsEnd == \A r \in Requests : []<>(request[r].step = 0)
=============================================================================
