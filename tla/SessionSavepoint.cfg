\* A client recovers from an error by rewinding to its savepoint.
SPECIFICATION Spec
CONSTANTS
    Sessions = {s1, s2}
    Txs = {t1, t2}
    NoTx = NoTx
    Traffic = {"statement", "savepoint"}
    Replies = {"ok", "error"}
    Faults = {}
INVARIANT CommitIsHonoured
