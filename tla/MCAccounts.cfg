SPECIFICATION AccountsSpec
CONSTANTS
    Subs = {s1, s2}
    NoSub = NoSub
    Emails = {e1}
    NoEmail = NoEmail
    Codes = {c1, c2}
    Callers = {r1, r2}
    Instances = {"instance"}
    Quota = 1
    LimitWindow = 4
    Deadline = 1
    LastTick = 5
SYMMETRY AccountsSymmetry
INVARIANTS
    RegisterIsWhole
    BudgetHolds
    RetryIsAdmitted
PROPERTIES
    EmailTakenOnlyByStaleToken
CHECK_DEADLOCK FALSE
