\* Two connections and two transactions; every fault, and every reply but a
\* lost one.  No client describes an SQL cursor: FETCH 0 runs with no savepoint
\* around it.
SPECIFICATION Spec
CONSTANTS
    Sessions = {s1, s2}
    Txs = {t1, t2}
    NoTx = NoTx
    Traffic = {"statement", "savepoint", "describe", "refused", "unconvertible"}
    Replies = {"ok", "error", "unreturnable"}
    Faults = {"calls", "expiry", "stop"}
SYMMETRY Symmetry
INVARIANTS
    TypeOK
    Exclusive
    Accounted
    NoUseAfterEnd
    CallInOwnTransaction
    FailureIsKnown
    CommitIsTrue
    NoProbeLeftovers
