CONSTANTS
    None = None
    NoMarriage = NoMarriage
    Persons <- MCPersons
    Types = {"biological", "adopted"}
    Families <- MCFamilies
    Kinds = {"full", "subtree", "focus", "ancestors", "path", "export"}
    MaxGenerations = 2
    MaxPath = 4
SPECIFICATION Spec
INVARIANTS
    LostOnlyByRemoval
    GenerationFollowsFather
    PathIsShortest
    TermHolds
    EveryLinkExported
CHECK_DEADLOCK FALSE
