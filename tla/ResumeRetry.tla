---------------------------- MODULE ResumeRetry ----------------------------
(***************************************************************************)
(* One call of the Data API client (src/dataapi.rs) against a cluster that *)
(* may have to wake from zero capacity first.  execute and                 *)
(* begin_transaction try again while the cluster resumes; commit and       *)
(* rollback are sent once.                                                 *)
(*                                                                         *)
(* Time is counted from the start of the call, in units as small as one    *)
(* likes.  What the service does with an attempt is decided when the       *)
(* attempt arrives, which may be any time before its answer.               *)
(***************************************************************************)
EXTENDS Naturals

CONSTANTS
    ResumeTimeout,  \* resume_timeout
    FirstBackoff,   \* 500 ms
    MaxBackoff,     \* 8 s
    MaxDelay,       \* how long a round trip may take
    MaxOversleep,   \* how much longer than asked a sleep may take
    WakingTimes     \* when the cluster may be awake

ASSUME ResumeAssumption ==
    /\ ResumeTimeout \in Nat /\ MaxDelay \in Nat /\ MaxOversleep \in Nat
    /\ FirstBackoff \in Nat \ {0} /\ MaxBackoff \in Nat /\ FirstBackoff <= MaxBackoff
    /\ WakingTimes \subseteq Nat

VARIABLES
    operation,  \* which of the four calls this is
    awakeFrom,  \* the cluster: when it is awake
    effects,    \* the cluster: how often the call has had its effect
    now,        \* Instant::now
    deadline,   \* after which nothing is tried again
    backoff,    \* how long to sleep before the next attempt
    wake,       \* when the sleep under way is over
    step,       \* "send", "sleep", or "done"
    answer      \* what the call has returned

vars == <<operation, awakeFrom, effects, now, deadline, backoff, wake, step, answer>>

Operations == {"execute", "begin", "commit", "rollback"}

\* What an attempt is answered with.  "lost" is any failure that leaves open
\* whether it ran: no reply, a timeout, an internal failure of the service.
Replies == {"ok", "refused", "resuming", "lost"}

TypeOK ==
    /\ operation \in Operations
    /\ awakeFrom \in WakingTimes
    /\ effects \in Nat
    /\ now \in Nat /\ wake \in Nat
    /\ deadline = ResumeTimeout
    /\ backoff \in FirstBackoff..MaxBackoff
    /\ step \in {"send", "sleep", "done"}
    /\ answer \in Replies \cup {"none"}

Init ==
    /\ operation \in Operations
    /\ awakeFrom \in WakingTimes
    /\ effects = 0
    /\ now = 0
    /\ deadline = ResumeTimeout
    /\ backoff = FirstBackoff
    /\ wake = 0
    /\ step = "send"
    /\ answer = "none"

-----------------------------------------------------------------------------
(* The service                                                             *)

\* An attempt that arrives while the cluster sleeps is refused and does
\* nothing; its reply may be lost as well.
ServiceReplies(arrives) ==
    IF arrives < awakeFrom THEN {"resuming", "lost"} ELSE {"ok", "refused", "lost"}

\* How often an attempt may have had its effect.
Takes(arrives, reply) ==
    IF reply = "ok" THEN {1}
    ELSE IF reply = "lost" /\ arrives >= awakeFrom THEN {0, 1}
    ELSE {0}

-----------------------------------------------------------------------------
(* The loop                                                                *)

\* Trying again after anything that a repetition might cure.
IsResuming_Mutant(reply) == reply \in {"resuming", "lost"}

IsResuming(reply) == reply = "resuming"

\* commit_transaction and rollback_transaction have no loop.
TriesAgain == operation \in {"execute", "begin"}

\* Asking whether the deadline has passed, and not whether it will.
TimeIsLeft_Mutant(time) == time < deadline

TimeIsLeft(time) == time + backoff < deadline

\* Doubling without the cap.
NextBackoff_Mutant == 2 * backoff

NextBackoff == IF 2 * backoff < MaxBackoff THEN 2 * backoff ELSE MaxBackoff

\* Send, and on the reply either sleep or return.
Attempt ==
    /\ step = "send"
    /\ \E arrives, returns \in now..(now + MaxDelay) :
        /\ arrives <= returns
        /\ now' = returns
        /\ \E reply \in ServiceReplies(arrives) :
            /\ \E times \in Takes(arrives, reply) : effects' = effects + times
            /\ IF TriesAgain /\ IsResuming(reply) /\ TimeIsLeft(returns)
               THEN step' = "sleep" /\ wake' = returns + backoff /\ UNCHANGED answer
               ELSE step' = "done" /\ answer' = reply /\ UNCHANGED wake
    /\ UNCHANGED <<operation, awakeFrom, deadline, backoff>>

\* A sleep is over no earlier than asked.
Wake ==
    /\ step = "sleep"
    /\ now' \in wake..(wake + MaxOversleep)
    /\ backoff' = NextBackoff
    /\ step' = "send"
    /\ UNCHANGED <<operation, awakeFrom, effects, deadline, wake, answer>>

Next == Attempt \/ Wake

Spec == Init /\ [][Next]_vars

-----------------------------------------------------------------------------
(* Safety *)

\* The loop repeats only what has had no effect (dataapi.rs:102-110, 137-143):
\* however many attempts, the call has had its effect once if it succeeded,
\* not at all if the service refused it, and at most once if nobody knows.
EffectMatchesAnswer ==
    /\ effects <= 1
    /\ answer = "ok" => effects = 1
    /\ answer \in {"refused", "resuming", "none"} => effects = 0

\* Nothing is waited for beyond the deadline (dataapi.rs:103, 138): the call
\* takes no longer than the timeout, one late waking and one round trip.
EndsInTime == now <= deadline + MaxOversleep + MaxDelay

\* A client is told that the cluster is still resuming only if it was asleep
\* until the end of the timeout, give or take the longest backoff and a round
\* trip: the backoff never outgrows the cap of dataapi.rs:109, so that the last
\* attempt is not made long before the deadline.
AsleepToTheEnd ==
    TriesAgain /\ answer = "resuming" => awakeFrom + MaxBackoff + MaxDelay > deadline

=============================================================================
