CONSTANTS
    Persons = {p1, p2, p3}
    NoPerson = NoPerson
    Links = {l1, l2, l3}
    NoLink = NoLink
    Types = {"biological", "adopted"}
    MaxBioParents = 1
    Requests = {r1, r2}
    MaxVersion = 2
SYMMETRY Symmetry
SPECIFICATION Spec
INVARIANTS
    Acyclic
PROPERTIES
    ImplementsFamilyGraph
CHECK_DEADLOCK FALSE
