------------------------- MODULE ResumeRetryProofs -------------------------
(***************************************************************************)
(* Proofs about ResumeRetry, for any timeout, backoffs, delays and waking  *)
(* times.                                                                  *)
(***************************************************************************)
EXTENDS ResumeRetry, TLAPS

\* Until a call returns it has had no effect.
NotYet == step # "done" => answer = "none" /\ effects = 0

\* A sleep ends before the deadline, so that an attempt starts in time.
StartsInTime ==
    /\ step = "sleep" => wake < deadline
    /\ step = "send" => now <= deadline + MaxOversleep

IInv ==
    /\ TypeOK
    /\ NotYet
    /\ StartsInTime
    /\ EffectMatchesAnswer
    /\ EndsInTime
    /\ AsleepToTheEnd

LEMMA InitImpliesIInv == Init => IInv
BY ResumeAssumption
   DEF Init, IInv, TypeOK, NotYet, StartsInTime, EffectMatchesAnswer, EndsInTime,
       AsleepToTheEnd, Replies

LEMMA BackoffStaysInRange ==
    ASSUME backoff \in FirstBackoff..MaxBackoff
    PROVE  NextBackoff \in FirstBackoff..MaxBackoff
BY ResumeAssumption DEF NextBackoff

LEMMA AttemptKeepsIInv ==
    ASSUME IInv, Attempt
    PROVE  IInv'
<1>1. /\ operation \in Operations /\ awakeFrom \in Nat /\ now \in Nat /\ wake \in Nat
      /\ deadline = ResumeTimeout /\ deadline \in Nat
      /\ backoff \in Nat /\ backoff <= MaxBackoff
      /\ MaxDelay \in Nat /\ MaxOversleep \in Nat /\ MaxBackoff \in Nat
    BY ResumeAssumption DEF IInv, TypeOK
<1>2. step = "send" /\ answer = "none" /\ effects = 0 /\ now <= deadline + MaxOversleep
    BY DEF IInv, NotYet, StartsInTime, Attempt
<1>3. PICK arrives \in now..(now + MaxDelay), returns \in now..(now + MaxDelay) :
        /\ arrives <= returns
        /\ now' = returns
        /\ \E reply \in ServiceReplies(arrives) :
            /\ \E times \in Takes(arrives, reply) : effects' = effects + times
            /\ IF TriesAgain /\ IsResuming(reply) /\ TimeIsLeft(returns)
               THEN step' = "sleep" /\ wake' = returns + backoff /\ UNCHANGED answer
               ELSE step' = "done" /\ answer' = reply /\ UNCHANGED wake
    BY DEF Attempt
<1>4. PICK reply \in ServiceReplies(arrives) :
        /\ \E times \in Takes(arrives, reply) : effects' = effects + times
        /\ IF TriesAgain /\ IsResuming(reply) /\ TimeIsLeft(returns)
           THEN step' = "sleep" /\ wake' = returns + backoff /\ UNCHANGED answer
           ELSE step' = "done" /\ answer' = reply /\ UNCHANGED wake
    BY <1>3
<1>5. /\ UNCHANGED <<operation, awakeFrom, deadline, backoff>>
      /\ TriesAgain' = TriesAgain
    BY DEF Attempt, TriesAgain
<1>6. /\ returns \in Nat /\ returns <= deadline + MaxOversleep + MaxDelay
      /\ returns <= arrives + MaxDelay
    BY <1>1, <1>2, <1>3, <1>4
<1>7. /\ reply \in Replies /\ effects' \in {0, 1}
      /\ reply = "ok" => effects' = 1
      /\ reply \in {"refused", "resuming"} => effects' = 0
    BY <1>2, <1>3, <1>4 DEF ServiceReplies, Takes, Replies
<1>8. reply = "resuming" => arrives < awakeFrom
    BY <1>3, <1>4 DEF ServiceReplies
<1>9. EndsInTime'
    BY <1>3, <1>4, <1>5, <1>6 DEF EndsInTime
<1>10. CASE TriesAgain /\ IsResuming(reply) /\ TimeIsLeft(returns)
    <2>1. /\ step' = "sleep" /\ wake' = returns + backoff /\ answer' = "none"
          /\ effects' = 0 /\ wake' < deadline
        BY <1>2, <1>3, <1>4, <1>7, <1>10 DEF TimeIsLeft, IsResuming
    <2>2. TypeOK'
        BY <1>1, <1>3, <1>4, <1>5, <1>6, <2>1 DEF IInv, TypeOK
    <2> QED BY <1>5, <1>9, <2>1, <2>2
            DEF IInv, NotYet, StartsInTime, EffectMatchesAnswer, AsleepToTheEnd
<1>11. CASE ~(TriesAgain /\ IsResuming(reply) /\ TimeIsLeft(returns))
    <2>1. step' = "done" /\ answer' = reply /\ wake' = wake
        BY <1>3, <1>4, <1>11
    <2>2. TypeOK'
        BY <1>1, <1>3, <1>4, <1>5, <1>6, <1>7, <2>1 DEF IInv, TypeOK
    <2>3. EffectMatchesAnswer'
        BY <1>7, <2>1 DEF EffectMatchesAnswer, Replies
    <2>4. AsleepToTheEnd'
        <3> SUFFICES ASSUME TriesAgain, reply = "resuming"
                     PROVE  awakeFrom + MaxBackoff + MaxDelay > deadline
            BY <1>5, <2>1 DEF AsleepToTheEnd
        <3>1. returns + backoff >= deadline
            BY <1>1, <1>6, <1>11 DEF TimeIsLeft, IsResuming
        <3> QED BY <1>1, <1>3, <1>4, <1>6, <1>8, <3>1
    <2> QED BY <1>9, <2>1, <2>2, <2>3, <2>4 DEF IInv, NotYet, StartsInTime
<1> QED BY <1>10, <1>11

LEMMA WakeKeepsIInv ==
    ASSUME IInv, Wake
    PROVE  IInv'
<1>1. /\ wake \in Nat /\ wake < deadline /\ now' \in wake..(wake + MaxOversleep)
      /\ deadline \in Nat /\ MaxOversleep \in Nat /\ MaxDelay \in Nat
      /\ answer = "none" /\ effects = 0 /\ step' = "send" /\ backoff' = NextBackoff
      /\ UNCHANGED <<operation, awakeFrom, effects, deadline, wake, answer>>
    BY ResumeAssumption DEF IInv, TypeOK, NotYet, StartsInTime, Wake
<1>2. TypeOK'
    BY <1>1, BackoffStaysInRange DEF IInv, TypeOK
<1>3. StartsInTime' /\ EndsInTime'
    BY <1>1 DEF StartsInTime, EndsInTime
<1> QED BY <1>1, <1>2, <1>3 DEF IInv, NotYet, EffectMatchesAnswer, AsleepToTheEnd, TriesAgain

LEMMA NextKeepsIInv == IInv /\ [Next]_vars => IInv'
<1>1. IInv /\ UNCHANGED vars => IInv'
    BY DEF vars, IInv, TypeOK, NotYet, StartsInTime, EffectMatchesAnswer, EndsInTime,
           AsleepToTheEnd, TriesAgain
<1> QED BY <1>1, AttemptKeepsIInv, WakeKeepsIInv DEF Next

LEMMA IInvHolds == Spec => []IInv
BY InitImpliesIInv, NextKeepsIInv, PTL DEF Spec

\* The backoff keeps between its first value and its cap (dataapi.rs:74, 109).
THEOREM RetryTypesHold == Spec => []TypeOK
<1>1. IInv => TypeOK
    BY DEF IInv
<1> QED BY <1>1, IInvHolds, PTL

\* No retry repeats an effect, and the answer says what happened
\* (dataapi.rs:102-112).
THEOREM RetriesRepeatNoEffect == Spec => []EffectMatchesAnswer
<1>1. IInv => EffectMatchesAnswer
    BY DEF IInv
<1> QED BY <1>1, IInvHolds, PTL

\* A call ends by its deadline, one late waking and one round trip
\* (dataapi.rs:73, 103).
THEOREM CallsEndInTime == Spec => []EndsInTime
<1>1. IInv => EndsInTime
    BY DEF IInv
<1> QED BY <1>1, IInvHolds, PTL

\* The call gives up only on a cluster that was asleep until the timeout had
\* nearly run out (dataapi.rs:103-110).
THEOREM GivesUpOnlyOnSleepers == Spec => []AsleepToTheEnd
<1>1. IInv => AsleepToTheEnd
    BY DEF IInv
<1> QED BY <1>1, IInvHolds, PTL

=============================================================================
