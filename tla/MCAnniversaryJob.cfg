CONSTANTS
    Runs = {r1, r2}
    NoRun = NoRun
    Events = {e1, e2}
    Types = {gio}
    NoItem = NoItem
    Tokens = {t1}
    MaxDay = 2
    MaxEdits = 1
    MaxFaults = 1
SYMMETRY Symmetry
SPECIFICATION Spec
INVARIANTS
    PushIsAccounted
PROPERTIES
    NoSecondPush
