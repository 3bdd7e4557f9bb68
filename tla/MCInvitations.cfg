CONSTANTS
    Users = {u1}
    NoUser = NoUser
    Invitations = {i1, i2, i3}
    NoInvitation = NoInvitation
    Rows = {m1, m2}
    NoRow = NoRow
    Roles = {"viewer", "editor"}
    Requests = {r1, r2}
    TTL = 1
    MaxTime = 2
SYMMETRY Symmetry
SPECIFICATION Spec
INVARIANTS
    AuditTellsOutcome
    OnlyLiveBlocks
PROPERTIES
    AcceptMakesMember
CHECK_DEADLOCK FALSE
