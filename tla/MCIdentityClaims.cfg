CONSTANTS
    Users = {u1, u2}
    Persons = {p1, p2}
    Claims = {c1, c2, c3}
    Requests = {r1, r2}
    None = None
SYMMETRY Symmetry
SPECIFICATION Spec
INVARIANTS
    LinkingPersonIsFree
    LinkHasDecidedClaim
CHECK_DEADLOCK FALSE
