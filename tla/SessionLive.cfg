\* Statements fail in every way, the transaction calls do not: what must happen in the end.
SPECIFICATION FairSpec
CONSTANTS
    Sessions = {s1, s2}
    Txs = {t1, t2}
    NoTx = NoTx
    Traffic = {"statement", "describe", "cursor"}
    Replies = {"ok", "error", "unreturnable", "lost"}
    Faults = {}
INVARIANT ErrorNeverCommits
PROPERTIES
    Answered
    NothingOutlivesItsClient
