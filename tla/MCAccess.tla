------------------------------- MODULE MCAccess -------------------------------
(***************************************************************************)
(* The way of a request, and the cache of the keys its token is verified   *)
(* with.  They share no state and each is checked on its own: the initial  *)
(* states choose one, and only it takes steps.                             *)
(***************************************************************************)
EXTENDS Integers, Sequences, FiniteSets, TLC

CONSTANTS
    Clans, Requests, FirstRoles, FirstStandings, PoolSize, MaxChanges,   \* RequestPath
    Tokens, TTL, Timeout, Phases, MaxTime, MaxKeys,                      \* KeyCache
    Own, Other                                                           \* two clans

VARIABLES
    access,                                                           \* the component
    role, allowed, standing, changes, request,                        \* RequestPath
    time, published, retired, cache, cachedAt, queue, fetch, used     \* KeyCache

pathVars == <<role, allowed, standing, changes, request>>
keyVars == <<time, published, retired, cache, cachedAt, queue, fetch, used>>
accessVars == <<access, pathVars, keyVars>>

Path == INSTANCE RequestPath WITH active <- allowed

\* Nobody starts as what there is not.
ASSUME FirstsAreTyped ==
    /\ FirstRoles \subseteq [Clans -> Path!Roles]
    /\ FirstStandings \subseteq SUBSET Path!Standings
    /\ MaxChanges \in Nat

\* The user is an admin of one clan and a viewer of another, and a super admin.
MCFirstRoles == {Own :> "admin" @@ Other :> "viewer"}
MCFirstStandings == {{"active", "super_admin"}}

Keys == INSTANCE KeyCache

\* The phases of a fetch, each with its timeout (_JWKS_FETCH_TIMEOUT, 5 s), are together
\* shorter than _JWKS_TTL (an hour).
ASSUME FetchesAreShort ==
    /\ TTL \in Nat /\ Timeout \in Nat /\ Phases \in Nat \ {0} /\ Phases * Timeout < TTL
    /\ MaxTime \in Nat /\ MaxKeys \in Nat \ {0}

AccessInit == access \in {"path", "keys"} /\ Path!Init /\ Keys!Init

OfPath(A) == access = "path" /\ A /\ UNCHANGED <<access, keyVars>>

OfKeys(A) == access = "keys" /\ A /\ UNCHANGED <<access, pathVars>>

AccessNext == OfPath(Path!Next) \/ OfKeys(Keys!Next)

\* The fairness of the two modules.
AccessFairness ==
    /\ \A r \in Requests : WF_accessVars(OfPath(Path!Step(r)))
    /\ WF_accessVars(OfKeys(Keys!Locked))
    /\ WF_accessVars(OfKeys(Keys!Fetched \/ Keys!Failed))

AccessSpec == AccessInit /\ [][AccessNext]_accessVars /\ AccessFairness

-----------------------------------------------------------------------------
(* Properties *)

\* Every component keeps its types.
AccessTypeOK == Path!TypeOK /\ Keys!TypeOK

\* Whatever a request commits on its way, its work runs in the clan it was scoped
\* to (core/rls.py, core/security.py, the policies of the migrations).
WorkStaysInItsClan == Path!WorkStaysInItsClan

\* Work is done only for a user that had the account, the active clan and the role
\* it asks at some time since the request came (core/security.py,
\* core/permissions.py, dependencies of the routes).
WorkWasAllowed == Path!WorkWasAllowed

\* Every request ends, also those that hold a connection and wait for a second one
\* (infrastructure/dependencies.py, core/database.py).
RequestsEnd == Path!RequestsEnd

\* No token is verified with keys that the provider stopped serving a TTL ago
\* (core/security.py, get_supabase_jwks).
KeysAreFresh == Keys!KeysAreFresh

\* Every request that waits for the keys gets them or an error
\* (core/security.py, get_supabase_jwks).
EveryTokenIsDecided == Keys!EveryTokenIsDecided
=============================================================================
