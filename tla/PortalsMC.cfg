\* A client that binds, describes, executes and closes in every order.  It may
\* fall silent at any time.
SPECIFICATION Spec
CONSTANTS
    Names = {n1, n2}
    Portals = {p1, p2, p3}
    Addresses = {a1, a2, a3}
    NoPortal = NoPortal
    MaxRuns = 4
SYMMETRY Symmetry
CHECK_DEADLOCK FALSE
INVARIANTS
    TypeOK
    HeldTagIsOwn
    NoResultTwice
    NothingKeptIsRunAgain
    FewAreHeld
