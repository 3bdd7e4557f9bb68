CONSTANTS
    Users = {u1, u2, u3}
    NoUser = NoUser
    Roles = {"admin", "viewer"}
    Requests = {r1, r2}
    MaxId = 3
SYMMETRY Symmetry
SPECIFICATION Spec
INVARIANT ClanKeepsAnAdmin
CHECK_DEADLOCK FALSE
