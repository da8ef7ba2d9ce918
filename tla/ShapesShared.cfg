\* Two connections that describe, change and leave, in every order.
SPECIFICATION Spec
CONSTANTS
    Sessions = {s1, s2}
    Texts = {q1, q2}
    MaxChanges = 2
    Lossy = TRUE
SYMMETRY Symmetry
INVARIANTS
    TypeOK
    SharedIsCommitted
    StaleOnlyByRaceOrLoss
    OwnFollowsOwnChanges
