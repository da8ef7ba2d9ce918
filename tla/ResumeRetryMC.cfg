\* A timeout of several backoffs, waking times before, around and after it, and
\* a cluster that does not wake in time at all.  A call ends.
SPECIFICATION Spec
CONSTANTS
    ResumeTimeout = 20
    FirstBackoff = 1
    MaxBackoff = 4
    MaxDelay = 2
    MaxOversleep = 1
    WakingTimes <- Waking
CHECK_DEADLOCK FALSE
INVARIANTS
    TypeOK
    EffectMatchesAnswer
    EndsInTime
    AsleepToTheEnd
