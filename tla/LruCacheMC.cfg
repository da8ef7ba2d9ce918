\* Two places for four keys: every insert of a third key has to evict.
SPECIFICATION Spec
CONSTANTS
    Keys = {k1, k2, k3, k4}
    Shapes = {narrow, wide}
    Limit = 2
    MaxClock = 7
CONSTRAINT ClockBound
INVARIANTS
    TypeOK
    WithinLimit
    StampsOrderEntries
PROPERTIES
    DropsOnlyTheColdest
    IsTextbookLru
