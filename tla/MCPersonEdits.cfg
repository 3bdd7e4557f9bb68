CONSTANTS
    Fields = {name, avatar}
    Avatar = avatar
    Values = {null, a}
    Null = null
    Proposals = {c1, c2}
    NoProposal = NoProposal
    Requests = {r1, r2}
    MaxVersion = 4
SYMMETRY Symmetry
SPECIFICATION Spec
INVARIANTS
    ReviewIsAudited
PROPERTIES
    ApprovalLosesNoEdit
    ColumnsChangeOnlyIfAsked
CHECK_DEADLOCK FALSE
