\* The proxy refuses a statement itself.
SPECIFICATION Spec
CONSTANTS
    Sessions = {s1, s2}
    Txs = {t1, t2}
    NoTx = NoTx
    Traffic = {"statement", "refused"}
    Replies = {"ok", "error"}
    Faults = {}
INVARIANT ErrorNeverCommits
