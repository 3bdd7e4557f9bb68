------------------------------ MODULE MCAccounts ------------------------------
(***************************************************************************)
(* Accounts, and the rate limit that guards the routes that make them.     *)
(* They share no state and each is checked on its own: the initial states  *)
(* choose one, and only it takes steps.                                    *)
(***************************************************************************)
EXTENDS Integers, Sequences, FiniteSets, TLC

CONSTANTS
    Subs, NoSub, Emails, NoEmail, Codes,                \* Accounts
    Callers,                                            \* the requests of both
    Instances, Quota, LimitWindow, Deadline, LastTick   \* RateLimit

VARIABLES
    accounts,                                                                       \* the component
    account, signedIn, address, superAdmins, foundedBy, roles, asking, saga,       \* Accounts
    tick, shared, local, lastSweep, hit, admitted, retry                            \* RateLimit

accountVars == <<account, signedIn, address, superAdmins, foundedBy, roles, asking, saga>>
limitVars == <<tick, shared, local, lastSweep, hit, admitted, retry>>
accountsVars == <<accounts, accountVars, limitVars>>

Registry == INSTANCE Accounts WITH
                Clans <- Codes,
                Requests <- Callers,
                profile <- address,
                founder <- foundedBy,
                members <- roles,
                request <- asking

Limit == INSTANCE RateLimit WITH
            Requests <- Callers,
            Max <- Quota,
            Window <- LimitWindow,
            MaxTime <- LastTick,
            time <- tick,
            request <- hit

\* What stands for no account and for no row is neither an account nor an address.
ASSUME MarkersAreNoAddresses == NoSub \notin Subs /\ Registry!NoRow \notin Registry!Addresses

\* The budget, the window and the clock are numbers, and the shared log is no instance.
ASSUME LimitsAreNumbers ==
    /\ Quota \in Nat \ {0} /\ LimitWindow \in Nat \ {0}
    /\ Deadline \in Nat /\ LastTick \in Nat
    /\ Instances # {} /\ Limit!SharedLog \notin Instances

AccountsInit == accounts \in {"accounts", "limit"} /\ Registry!Init /\ Limit!Init

AccountsNext ==
    \/ accounts = "accounts" /\ Registry!Next /\ UNCHANGED <<accounts, limitVars>>
    \/ accounts = "limit" /\ Limit!Next /\ UNCHANGED <<accounts, accountVars>>

AccountsSpec == AccountsInit /\ [][AccountsNext]_accountsVars

AccountsSymmetry == Permutations(Subs) \cup Permutations(Codes) \cup Permutations(Callers)

-----------------------------------------------------------------------------
(* Properties *)

\* Every component keeps its types.
AccountsTypeOK == Registry!TypeOK /\ Limit!TypeOK

\* A registration that failed leaves no account and no rows of it
\* (auth/handlers.py, register).
RegisterIsWhole == Registry!RegisterIsWhole

\* Only the token of an account that is gone takes an address off the row of a
\* live account (persistence/_profile.py).
EmailTakenOnlyByStaleToken == Registry!EmailTakenOnlyByStaleToken

\* The shared log admits no more than the budget in a window less the deadline, a log in
\* memory in a window less two (core/rate_limit.py, upstash_rate_limit_store.py).
BudgetHolds == Limit!BudgetHolds

\* A client that comes back when it was told to is admitted
\* (core/rate_limit.py, retry_after_seconds).
RetryIsAdmitted == Limit!RetryIsAdmitted
=============================================================================
