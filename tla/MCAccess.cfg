SPECIFICATION AccessSpec
CONSTANTS
    Own = Own
    Other = Other
    Clans = {Own, Other}
    Requests = {r1, r2}
    FirstRoles <- MCFirstRoles
    FirstStandings <- MCFirstStandings
    PoolSize = 2
    MaxChanges = 1
    Tokens = {t1, t2, t3}
    TTL = 3
    Timeout = 1
    Phases = 2
    MaxTime = 4
    MaxKeys = 2
INVARIANTS
    WorkStaysInItsClan
    WorkWasAllowed
    KeysAreFresh
PROPERTIES
    RequestsEnd
    EveryTokenIsDecided
CHECK_DEADLOCK FALSE
