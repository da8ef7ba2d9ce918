---------------------------- MODULE SessionProofs ----------------------------
(***************************************************************************)
(* Proofs about Session, for any number of connections and transactions.   *)
(* First, who holds a transaction: whatever the traffic, the replies and   *)
(* the faults.  Then, a statement answered with an error keeps its         *)
(* transaction from being committed: as long as the proxy itself refuses   *)
(* no statement and can put every value into the format it is asked for.   *)
(* Last, a connection knows when the cluster has aborted its transaction,  *)
(* a probe leaves nothing in it, and COMMIT is the truth: as long as no    *)
(* statement's reply is lost and no client describes an SQL cursor.        *)
(***************************************************************************)
EXTENDS Session, TLAPS

-----------------------------------------------------------------------------
(* The inductive invariant                                                 *)

\* A connection whose handler opens or ends a transaction has an empty slot.
SlotFree ==
    \A s \in Sessions :
        call[s].step \in {"closed", "begin", "ownBegin"} \cup EndSteps \cup OwnSteps
            => transaction[s] = NoTx

\* What a handler ends, and what a probe opened, is a transaction.
HandsAreIds ==
    \A s \in Sessions :
        call[s].step \in EndSteps \cup OwnSteps => call[s].tx \in Txs

\* An id the Data API has not given out is known to nobody.
UnusedIsUnknown ==
    \A tx \in Txs : server[tx].status = "unused" =>
        /\ tx \notin ended \cup detached \cup stranded
        /\ \A s \in Sessions : tx \notin Holds(s)

IInv ==
    /\ TypeOK
    /\ Exclusive
    /\ Accounted
    /\ NoUseAfterEnd
    /\ CallInOwnTransaction
    /\ SlotFree
    /\ HandsAreIds
    /\ UnusedIsUnknown

-----------------------------------------------------------------------------
(* What a statement can do to the cluster's transactions                   *)

\* Statements neither use up ids nor bring a transaction back to life.
ServerKept ==
    /\ server' \in [Txs -> Transactions]
    /\ \A tx \in Txs :
        /\ server'[tx].status = "unused" <=> server[tx].status = "unused"
        /\ IsLive(server'[tx]) => IsLive(server[tx])

LEMMA EffectsKeepTransaction ==
    ASSUME NEW stmt, NEW mark \in Marks, NEW t \in Transactions,
           NEW e \in Effects(stmt, mark, t)
    PROVE  /\ e.after \in Transactions
           /\ e.after.status = "unused" <=> t.status = "unused"
           /\ IsLive(e.after) => IsLive(t)
<1>1. ASSUME NEW a \in Attempts(stmt, mark, t)
      PROVE  /\ a.after \in Transactions
             /\ a.after.status = "unused" <=> t.status = "unused"
             /\ IsLive(a.after) => IsLive(t)
    BY <1>1 DEF Attempts, Accepts, Success, Failure, Transactions, Statuses, IsLive
<1>2. \/ e \in Attempts(stmt, mark, t)
      \/ e.after = t
      \/ \E a \in Attempts(stmt, mark, t) : e.after = a.after
    BY DEF Effects
<1> QED BY <1>1, <1>2

LEMMA RanKeepsServer ==
    ASSUME TypeOK, NEW stmt, NEW mark \in Marks, NEW tx \in Txs \cup {NoTx}, NEW reply,
           Ran(stmt, mark, tx, reply)
    PROVE  ServerKept
<1>1. CASE tx = NoTx
    BY <1>1 DEF Ran, ServerKept, TypeOK
<1>2. CASE tx # NoTx
    <2>1. PICK e \in Effects(stmt, mark, server[tx]) :
                server' = [server EXCEPT ![tx] = e.after]
        BY <1>2 DEF Ran
    <2>2. tx \in Txs /\ server[tx] \in Transactions
        BY <1>2 DEF TypeOK
    <2>3. /\ e.after \in Transactions
          /\ e.after.status = "unused" <=> server[tx].status = "unused"
          /\ IsLive(e.after) => IsLive(server[tx])
        BY <2>2, EffectsKeepTransaction
    <2> QED BY <2>1, <2>2, <2>3 DEF ServerKept, TypeOK
<1> QED BY <1>1, <1>2

-----------------------------------------------------------------------------
(* Steps that move no transaction from hand to hand                        *)

\* What a handler may wait for while its connection holds nothing but the
\* transaction in its slot.
QuietSteps == {"idle", "oneCall"} \cup RunSteps \cup ProbeSteps
Calls == [step : Steps, tx : Txs \cup {NoTx}, stmt : Stmts]

\* A request or a reply that leaves ids where they are keeps the invariant, if
\* the next call is made in the connection's own transaction.
LEMMA QuietStep ==
    ASSUME IInv, NEW s \in Sessions, NEW c \in Calls,
           call' = [call EXCEPT ![s] = c],
           call[s].step \notin EndSteps \cup OwnSteps,
           \/ c.step \in QuietSteps
           \/ c.step \in {"begin", "ownBegin"} /\ transaction[s] = NoTx,
           c.step \in RunSteps \cup ProbeSteps => c.tx = transaction[s],
           ServerKept,
           UNCHANGED <<transaction, detached, ended, stranded>>,
           failed' \in [Sessions -> BOOLEAN],
           told' \in [Txs -> SUBSET {"error", "COMMIT", "ROLLBACK"}]
    PROVE  IInv'
<1>1. TypeOK'
    BY DEF IInv, TypeOK, ServerKept, Calls
<1>2. /\ c.step \notin EndSteps \cup OwnSteps
      /\ c.step # "closed"
    BY DEF QuietSteps, RunSteps, ProbeSteps, EndSteps, OwnSteps
<1>3. \A t \in Sessions : call'[t] = IF t = s THEN c ELSE call[t]
    BY DEF IInv, TypeOK
<1>4. \A t \in Sessions : /\ Slot(t)' = Slot(t)
                         /\ InHand(t)' = InHand(t)
                         /\ Holds(t)' = Holds(t)
    BY <1>2, <1>3 DEF Slot, InHand, Holds
<1>5. Exclusive'
    BY <1>4 DEF IInv, Exclusive
<1>6. Accounted'
    BY <1>4 DEF IInv, Accounted, Live, ServerKept
<1>7. NoUseAfterEnd'
    <2>1. ASSUME NEW t \in Sessions,
                 call'[t].step \in RunSteps \cup ProbeSteps \cup {"ownProbe"}
          PROVE  call'[t].tx \notin ended
        <3>1. CASE t # s
            BY <2>1, <3>1, <1>3 DEF IInv, NoUseAfterEnd
        <3>2. CASE t = s
            <4>1. c.tx = transaction[s]
                BY <2>1, <3>2, <1>2, <1>3 DEF OwnSteps
            <4>2. transaction[s] \notin ended
                BY SessionAssumption DEF IInv, NoUseAfterEnd, Slot, TypeOK
            <4> QED BY <3>2, <1>3, <4>1, <4>2
        <3> QED BY <3>1, <3>2
    <2> QED BY <2>1, <1>4 DEF IInv, NoUseAfterEnd
<1>8. CallInOwnTransaction'
    BY <1>3 DEF IInv, CallInOwnTransaction
<1>9. SlotFree'
    BY <1>2, <1>3 DEF IInv, SlotFree, QuietSteps, RunSteps, ProbeSteps
<1>10. HandsAreIds'
    BY <1>2, <1>3 DEF IInv, HandsAreIds
<1>11. UnusedIsUnknown'
    BY <1>4 DEF IInv, UnusedIsUnknown, ServerKept
<1> QED BY <1>1, <1>5, <1>6, <1>7, <1>8, <1>9, <1>10, <1>11 DEF IInv

\* The effects of Tell and MarkFailed have the right type.
LEMMA ToldAndFailedTypes ==
    ASSUME TypeOK
    PROVE  /\ \A tx, what : what \in {"error", "COMMIT", "ROLLBACK"} /\ Tell(tx, what)
                => told' \in [Txs -> SUBSET {"error", "COMMIT", "ROLLBACK"}]
           /\ UNCHANGED told => told' \in [Txs -> SUBSET {"error", "COMMIT", "ROLLBACK"}]
           /\ \A s \in Sessions : MarkFailed(s) => failed' \in [Sessions -> BOOLEAN]
           /\ UNCHANGED failed => failed' \in [Sessions -> BOOLEAN]
<1>1. \A tx, what : what \in {"error", "COMMIT", "ROLLBACK"} /\ Tell(tx, what)
                => told' \in [Txs -> SUBSET {"error", "COMMIT", "ROLLBACK"}]
    BY DEF TypeOK, Tell
<1>2. ASSUME NEW s \in Sessions, MarkFailed(s)
      PROVE  failed' \in [Sessions -> BOOLEAN]
    <2>1. (failed[s] \/ InTransaction(s)) \in BOOLEAN
        OBVIOUS
    <2> QED BY <1>2, <2>1 DEF TypeOK, MarkFailed
<1> QED BY <1>1, <1>2 DEF TypeOK

-----------------------------------------------------------------------------
(* Every request and every reply that is such a step                       *)

\* QuietStep for a handler that goes on to wait for step.
LEMMA AwaitKeepsIInv ==
    ASSUME IInv, NEW s \in Sessions, NEW step \in QuietSteps \cup {"begin", "ownBegin"},
           NEW tx \in Txs \cup {NoTx}, NEW stmt \in Stmts,
           Await(s, step, tx, stmt),
           call[s].step \notin EndSteps \cup OwnSteps,
           step \in {"begin", "ownBegin"} => transaction[s] = NoTx,
           step \in RunSteps \cup ProbeSteps => tx = transaction[s],
           ServerKept,
           UNCHANGED <<transaction, detached, ended, stranded>>,
           failed' \in [Sessions -> BOOLEAN],
           told' \in [Txs -> SUBSET {"error", "COMMIT", "ROLLBACK"}]
    PROVE  IInv'
<1> DEFINE c == [step |-> step, tx |-> tx, stmt |-> stmt]
<1>1. c \in Calls
    BY DEF Calls, QuietSteps, Steps, RunSteps, ProbeSteps
<1>2. call' = [call EXCEPT ![s] = c]
    BY DEF Await
<1>3. c.step = step /\ c.tx = tx
    OBVIOUS
<1>4. \/ c.step \in QuietSteps
      \/ c.step \in {"begin", "ownBegin"} /\ transaction[s] = NoTx
    BY <1>3
<1> HIDE DEF c
<1> QED BY <1>1, <1>2, <1>3, <1>4, QuietStep

LEMMA RequestsKeepIInv ==
    ASSUME IInv, NEW s \in Sessions,
           \/ BeginRequest(s) \/ ExecuteRequest(s) \/ DescribeRequest(s)
           \/ CursorRequest(s) \/ Connect(s)
    PROVE  IInv'
<1>1. /\ TypeOK
      /\ transaction[s] \in Txs \cup {NoTx}
      /\ NoTx \in Txs \cup {NoTx}
    BY DEF IInv, TypeOK
<1>2. UNCHANGED server => ServerKept
    BY <1>1 DEF TypeOK, ServerKept
<1>3. /\ UNCHANGED failed => failed' \in [Sessions -> BOOLEAN]
      /\ UNCHANGED told => told' \in [Txs -> SUBSET {"error", "COMMIT", "ROLLBACK"}]
    BY <1>1, ToldAndFailedTypes
<1>4. /\ "idle" \notin EndSteps \cup OwnSteps
      /\ "closed" \notin EndSteps \cup OwnSteps
      /\ "query" \in Stmts
    BY DEF EndSteps, OwnSteps, Stmts
<1>5. /\ {"idle", "oneCall"} \cap (RunSteps \cup ProbeSteps) = {}
      /\ {"begin", "ownBegin"} \cap (RunSteps \cup ProbeSteps) = {}
      /\ {"begin", "ownBegin"} \cap QuietSteps = {}
      /\ {"idle", "oneCall", "first", "savepoint", "fetch"} \subseteq QuietSteps
    BY DEF RunSteps, ProbeSteps, QuietSteps
<1>6. CASE BeginRequest(s)
    <2>1. Await(s, "begin", NoTx, "query") /\ transaction[s] = NoTx
        BY <1>6 DEF BeginRequest, InTransaction
    <2> QED BY <1>1, <1>2, <1>3, <1>4, <1>5, <1>6, <2>1, AwaitKeepsIInv
            DEF BeginRequest, At, Idle
<1>7. CASE ExecuteRequest(s)
    <2>1. PICK stmt \in Stmts : Await(s, "first", transaction[s], stmt)
        BY <1>4, <1>7 DEF ExecuteRequest, Forwarded
    <2> QED BY <1>1, <1>2, <1>3, <1>4, <1>5, <1>7, <2>1, AwaitKeepsIInv
            DEF ExecuteRequest, At, Idle
<1>8. CASE DescribeRequest(s)
    <2>1. \/ Await(s, "oneCall", NoTx, "query")
          \/ Await(s, "savepoint", transaction[s], "query")
          \/ transaction[s] = NoTx /\ Await(s, "ownBegin", NoTx, "query")
        BY <1>8 DEF DescribeRequest, InTransaction
    <2> QED BY <1>1, <1>2, <1>3, <1>4, <1>5, <1>8, <2>1, AwaitKeepsIInv
            DEF DescribeRequest, At, Idle
<1>9. CASE CursorRequest(s)
    BY <1>1, <1>2, <1>3, <1>4, <1>5, <1>9, AwaitKeepsIInv DEF CursorRequest, At, Idle
<1>10. CASE Connect(s)
    BY <1>1, <1>2, <1>3, <1>4, <1>5, <1>10, AwaitKeepsIInv DEF Connect, Done, At
<1> QED BY <1>6, <1>7, <1>8, <1>9, <1>10

LEMMA StatementRepliesKeepIInv ==
    ASSUME IInv, NEW s \in Sessions,
           \/ FirstReply(s) \/ ShapeReply(s) \/ RetryReply(s) \/ CursorReply(s)
    PROVE  IInv'
<1>1. /\ TypeOK
      /\ transaction[s] \in Txs \cup {NoTx}
      /\ call[s].tx \in Txs \cup {NoTx}
      /\ NoTx \in Txs \cup {NoTx}
    BY DEF IInv, TypeOK
<1>2. \A stmt, reply : Ran(stmt, "user", call[s].tx, reply) => ServerKept
    BY <1>1, RanKeepsServer DEF Marks
<1>3. /\ {"idle", "first", "shape", "retry", "fetch"} \cap (EndSteps \cup OwnSteps) = {}
      /\ {"idle", "shape", "retry"} \subseteq QuietSteps
      /\ "idle" \notin RunSteps \cup ProbeSteps
      /\ "query" \in Stmts
      /\ "shape" \in RunSteps
    BY DEF EndSteps, OwnSteps, QuietSteps, RunSteps, ProbeSteps, Stmts
<1>4. At(s, "shape") => call[s].tx = transaction[s]
    BY <1>3 DEF At, IInv, CallInOwnTransaction
<1>5. /\ Deliver(s) => failed' \in [Sessions -> BOOLEAN]
      /\ Deliver(s) => told' \in [Txs -> SUBSET {"error", "COMMIT", "ROLLBACK"}]
      /\ FailStatement(s) => failed' \in [Sessions -> BOOLEAN]
      /\ FailStatement(s) => told' \in [Txs -> SUBSET {"error", "COMMIT", "ROLLBACK"}]
      /\ Deliver(s) \/ FailStatement(s) => Done(s)
    BY <1>1, ToldAndFailedTypes DEF Deliver, FailStatement
<1>6. /\ UNCHANGED failed => failed' \in [Sessions -> BOOLEAN]
      /\ UNCHANGED told => told' \in [Txs -> SUBSET {"error", "COMMIT", "ROLLBACK"}]
    BY <1>1, ToldAndFailedTypes
<1>7. CASE FirstReply(s)
    <2>1. /\ ServerKept
          /\ At(s, "first")
          /\ \/ Deliver(s)
             \/ FailStatement(s)
             \/ Await(s, "shape", transaction[s], "query") /\ UNCHANGED <<failed, told>>
          /\ UNCHANGED <<transaction, detached, ended, stranded>>
        BY <1>2, <1>7 DEF FirstReply
    <2> QED BY <1>1, <1>3, <1>5, <1>6, <2>1, AwaitKeepsIInv DEF At, Done
<1>8. CASE ShapeReply(s)
    <2>1. /\ ServerKept
          /\ At(s, "shape")
          /\ \/ FailStatement(s)
             \/ Await(s, "retry", call[s].tx, "query") /\ UNCHANGED <<failed, told>>
          /\ UNCHANGED <<transaction, detached, ended, stranded>>
        BY <1>2, <1>8 DEF ShapeReply
    <2> QED BY <1>1, <1>3, <1>4, <1>5, <1>6, <2>1, AwaitKeepsIInv DEF At, Done
<1>9. CASE RetryReply(s)
    <2>1. /\ ServerKept
          /\ At(s, "retry")
          /\ Deliver(s) \/ FailStatement(s)
          /\ UNCHANGED <<transaction, detached, ended, stranded>>
        BY <1>2, <1>9 DEF RetryReply
    <2> QED BY <1>1, <1>3, <1>5, <2>1, AwaitKeepsIInv DEF At, Done
<1>10. CASE CursorReply(s)
    <2>1. ServerKept /\ At(s, "fetch") /\ Done(s)
        BY <1>2, <1>10 DEF CursorReply
    <2> QED BY <1>1, <1>3, <1>6, <1>10, <2>1, AwaitKeepsIInv DEF At, Done, CursorReply
<1> QED BY <1>7, <1>8, <1>9, <1>10

LEMMA ProbeRepliesKeepIInv ==
    ASSUME IInv, NEW s \in Sessions,
           \/ OneCallReply(s) \/ SavepointReply(s) \/ ProbeReply(s)
           \/ RewindReply(s) \/ ReleaseReply(s)
    PROVE  IInv'
<1>1. /\ TypeOK
      /\ call[s].tx \in Txs \cup {NoTx}
      /\ NoTx \in Txs \cup {NoTx}
    BY DEF IInv, TypeOK
<1>2. \A stmt, reply : Ran(stmt, "probe", call[s].tx, reply) => ServerKept
    BY <1>1, RanKeepsServer DEF Marks
<1>3. /\ ({"idle", "oneCall"} \cup ProbeSteps) \cap (EndSteps \cup OwnSteps) = {}
      /\ {"idle"} \cup ProbeSteps \subseteq QuietSteps
      /\ "idle" \notin RunSteps \cup ProbeSteps
      /\ "query" \in Stmts
      /\ {"savepoint", "probe", "rewind", "release"} \subseteq ProbeSteps
    BY DEF EndSteps, OwnSteps, QuietSteps, RunSteps, ProbeSteps, Stmts
<1>4. call[s].step \in ProbeSteps => call[s].tx = transaction[s]
    BY DEF IInv, CallInOwnTransaction
<1>5. /\ UNCHANGED failed => failed' \in [Sessions -> BOOLEAN]
      /\ UNCHANGED told => told' \in [Txs -> SUBSET {"error", "COMMIT", "ROLLBACK"}]
    BY <1>1, ToldAndFailedTypes
<1>6. CASE OneCallReply(s)
    <2>1. ServerKept /\ At(s, "oneCall") /\ Done(s)
        BY <1>2, <1>6 DEF OneCallReply
    <2> QED BY <1>1, <1>3, <1>5, <1>6, <2>1, AwaitKeepsIInv DEF At, Done, OneCallReply
<1>7. CASE SavepointReply(s)
    <2>1. /\ ServerKept
          /\ At(s, "savepoint")
          /\ Await(s, "probe", call[s].tx, "query") \/ Done(s)
        BY <1>2, <1>7 DEF SavepointReply
    <2> QED BY <1>1, <1>3, <1>4, <1>5, <1>7, <2>1, AwaitKeepsIInv DEF At, Done, SavepointReply
<1>8. CASE ProbeReply(s)
    <2>1. /\ ServerKept
          /\ At(s, "probe")
          /\ Await(s, "rewind", call[s].tx, "query")
        BY <1>2, <1>8 DEF ProbeReply
    <2> QED BY <1>1, <1>3, <1>4, <1>5, <1>8, <2>1, AwaitKeepsIInv DEF At, ProbeReply
<1>9. CASE RewindReply(s)
    <2>1. /\ ServerKept
          /\ At(s, "rewind")
          /\ Await(s, "release", call[s].tx, "query") \/ Done(s)
        BY <1>2, <1>9 DEF RewindReply
    <2> QED BY <1>1, <1>3, <1>4, <1>5, <1>9, <2>1, AwaitKeepsIInv DEF At, Done, RewindReply
<1>10. CASE ReleaseReply(s)
    <2>1. ServerKept /\ At(s, "release") /\ Done(s)
        BY <1>2, <1>10 DEF ReleaseReply
    <2> QED BY <1>1, <1>3, <1>5, <1>10, <2>1, AwaitKeepsIInv DEF At, Done, ReleaseReply
<1> QED BY <1>6, <1>7, <1>8, <1>9, <1>10

-----------------------------------------------------------------------------
(* Steps that touch only the cluster or what the client heard              *)

LEMMA OutsideStepsKeepIInv ==
    ASSUME IInv, ServerKept,
           UNCHANGED <<transaction, failed, call, detached, ended, stranded>>,
           told' \in [Txs -> SUBSET {"error", "COMMIT", "ROLLBACK"}]
    PROVE  IInv'
<1>1. \A t \in Sessions : Slot(t)' = Slot(t) /\ InHand(t)' = InHand(t) /\ Holds(t)' = Holds(t)
    BY DEF Slot, InHand, Holds
<1>2. TypeOK'
    BY DEF IInv, TypeOK, ServerKept
<1>3. Exclusive'
    BY <1>1 DEF IInv, Exclusive
<1>4. Accounted'
    BY <1>1 DEF IInv, Accounted, Live, ServerKept
<1>5. NoUseAfterEnd' /\ CallInOwnTransaction' /\ SlotFree' /\ HandsAreIds'
    BY <1>1 DEF IInv, NoUseAfterEnd, CallInOwnTransaction, SlotFree, HandsAreIds
<1>6. UnusedIsUnknown'
    BY <1>1 DEF IInv, UnusedIsUnknown, ServerKept
<1> QED BY <1>2, <1>3, <1>4, <1>5, <1>6 DEF IInv

-----------------------------------------------------------------------------
(* A transaction ends                                                      *)

\* Whether it succeeds or fails, a call that ends tx brings no transaction to
\* life and uses up no id, and leaves tx dead or stranded.
LEMMA EndOutcome ==
    ASSUME TypeOK, NEW tx \in Txs,
           NEW after \in {Committed(server[tx]), RolledBack(server[tx])},
           \/ Ends(tx, after) /\ UNCHANGED stranded
           \/ EndFails(tx, after)
    PROVE  /\ ServerKept
           /\ stranded' \in {stranded, stranded \cup {tx}}
           /\ IsLive(server'[tx]) => tx \in stranded'
<1>1. after \in Transactions /\ ~IsLive(after) /\ after.status # "unused"
    BY DEF Committed, RolledBack, Over, Transactions, Statuses, IsLive
<1>2. ASSUME Ends(tx, after)
      PROVE  ServerKept /\ ~IsLive(server'[tx])
    BY <1>1, <1>2 DEF Ends, Live, IsLive, ServerKept, TypeOK
<1>3. UNCHANGED server => ServerKept
    BY DEF TypeOK, ServerKept
<1> QED BY <1>2, <1>3 DEF EndFails

\* The reply to a commit or rollback takes tx out of the connection's hand.
LEMMA EndReplyKeepsIInv ==
    ASSUME IInv, NEW s \in Sessions,
           call[s].step \in EndSteps \cup {"ownRollback"},
           NEW after \in {Committed(server[call[s].tx]), RolledBack(server[call[s].tx])},
           \/ Ends(call[s].tx, after) /\ UNCHANGED stranded
           \/ EndFails(call[s].tx, after),
           Done(s),
           UNCHANGED <<transaction, failed, detached, ended>>,
           told' \in [Txs -> SUBSET {"error", "COMMIT", "ROLLBACK"}]
    PROVE  IInv'
<1> DEFINE tx == call[s].tx
<1>1. /\ tx \in Txs
      /\ tx \in Holds(s)
      /\ server[tx].status # "unused"
    <2>1. tx \in Txs /\ tx \in Holds(s)
        BY DEF IInv, HandsAreIds, Holds, InHand, OwnSteps
    <2> QED BY <2>1 DEF IInv, UnusedIsUnknown
<1>2. /\ ServerKept
      /\ stranded' \in {stranded, stranded \cup {tx}}
      /\ IsLive(server'[tx]) => tx \in stranded'
    BY <1>1, EndOutcome DEF IInv
<1>3. \A t \in Sessions :
        call'[t] = IF t = s THEN [step |-> "idle", tx |-> NoTx, stmt |-> "query"]
                   ELSE call[t]
    BY DEF IInv, TypeOK, Done, Await
<1>4. \A t \in Sessions :
        /\ Slot(t)' = Slot(t)
        /\ InHand(t)' = IF t = s THEN {} ELSE InHand(t)
        /\ Holds(t)' = IF t = s THEN Slot(t) ELSE Holds(t)
    BY <1>3 DEF Slot, InHand, Holds, EndSteps, OwnSteps
<1>5. tx \notin Slot(s) /\ Slot(s) \subseteq Holds(s) /\ Holds(s) = Slot(s) \cup {tx}
    BY DEF IInv, Exclusive, InHand, OwnSteps, Holds
<1>6. TypeOK'
    <2>1. call' \in [Sessions -> Calls]
        BY DEF IInv, TypeOK, Done, Await, Calls, Steps, Stmts
    <2> QED BY <1>1, <1>2, <2>1 DEF IInv, TypeOK, ServerKept, Calls
<1>7. Exclusive'
    BY <1>1, <1>2, <1>4, <1>5 DEF IInv, Exclusive
<1>8. Accounted'
    BY <1>2, <1>4, <1>5 DEF IInv, Accounted, Live, ServerKept
<1>9. NoUseAfterEnd' /\ CallInOwnTransaction' /\ SlotFree' /\ HandsAreIds'
    BY <1>3, <1>4 DEF IInv, NoUseAfterEnd, CallInOwnTransaction, SlotFree, HandsAreIds,
        RunSteps, ProbeSteps, EndSteps, OwnSteps
<1>10. UnusedIsUnknown'
    BY <1>1, <1>2, <1>4, <1>5 DEF IInv, UnusedIsUnknown, ServerKept
<1> QED BY <1>6, <1>7, <1>8, <1>9, <1>10 DEF IInv

\* The reply to the rollback that Drop spawned.
LEMMA DetachedRollbackKeepsIInv ==
    ASSUME IInv, NEW tx \in Txs, DetachedRollback(tx)
    PROVE  IInv'
<1>1. tx \in detached /\ server[tx].status # "unused"
    BY DEF DetachedRollback, IInv, UnusedIsUnknown
<1>2. /\ ServerKept
      /\ stranded' \in {stranded, stranded \cup {tx}}
      /\ IsLive(server'[tx]) => tx \in stranded'
    BY EndOutcome DEF DetachedRollback, IInv
<1>3. /\ detached' = detached \ {tx}
      /\ UNCHANGED <<transaction, failed, call, told, ended>>
    BY DEF DetachedRollback
<1>4. \A t \in Sessions : Slot(t)' = Slot(t) /\ InHand(t)' = InHand(t) /\ Holds(t)' = Holds(t)
    BY <1>3 DEF Slot, InHand, Holds
<1>5. TypeOK'
    BY <1>2, <1>3 DEF IInv, TypeOK, ServerKept
<1>6. Exclusive'
    BY <1>1, <1>2, <1>3, <1>4 DEF IInv, Exclusive
<1>7. Accounted'
    BY <1>2, <1>3, <1>4 DEF IInv, Accounted, Live, ServerKept
<1>8. NoUseAfterEnd' /\ CallInOwnTransaction' /\ SlotFree' /\ HandsAreIds'
    BY <1>3, <1>4 DEF IInv, NoUseAfterEnd, CallInOwnTransaction, SlotFree, HandsAreIds
<1>9. UnusedIsUnknown'
    BY <1>1, <1>2, <1>3, <1>4 DEF IInv, UnusedIsUnknown, ServerKept
<1> QED BY <1>5, <1>6, <1>7, <1>8, <1>9 DEF IInv

-----------------------------------------------------------------------------
(* A transaction begins                                                    *)

\* The new id goes to the slot of an empty-handed connection, or to its probe.
LEMMA OpenedKeepsIInv ==
    ASSUME IInv, NEW s \in Sessions, call[s].step \in {"begin", "ownBegin"},
           NEW tx \in Txs, Opened(tx),
           \/ transaction' = [transaction EXCEPT ![s] = tx] /\ Done(s)
           \/ UNCHANGED transaction /\ Await(s, "ownProbe", tx, "query"),
           UNCHANGED <<detached, told, ended, stranded>>,
           failed' \in [Sessions -> BOOLEAN]
    PROVE  IInv'
<1>1. /\ server[tx].status = "unused"
      /\ server' = [server EXCEPT ![tx] = Begun]
    BY DEF Opened
<1>2. /\ tx \notin ended \cup detached \cup stranded
      /\ \A t \in Sessions : tx \notin Holds(t)
    BY <1>1 DEF IInv, UnusedIsUnknown
<1>3. server' \in [Txs -> Transactions]
    BY <1>1 DEF IInv, TypeOK, Begun, Transactions, Statuses
<1>4. \A u \in Txs : u # tx => server'[u] = server[u]
    BY <1>1 DEF IInv, TypeOK
<1>5. server'[tx].status = "open"
    BY <1>1 DEF IInv, TypeOK, Begun
<1>6. /\ call' \in [Sessions -> Calls]
      /\ transaction' \in [Sessions -> Txs \cup {NoTx}]
    <2>1. /\ [step |-> "idle", tx |-> NoTx, stmt |-> "query"] \in Calls
          /\ [step |-> "ownProbe", tx |-> tx, stmt |-> "query"] \in Calls
        BY DEF Calls, Steps, OwnSteps, Stmts
    <2>2. call \in [Sessions -> Calls]
        BY DEF IInv, TypeOK, Calls
    <2>3. call' \in [Sessions -> Calls]
        <3>1. ASSUME Done(s) PROVE call' \in [Sessions -> Calls]
            BY <2>1, <2>2, <3>1 DEF Done, Await
        <3>2. ASSUME Await(s, "ownProbe", tx, "query") PROVE call' \in [Sessions -> Calls]
            BY <2>1, <2>2, <3>2 DEF Await
        <3> QED BY <3>1, <3>2
    <2> QED BY <2>3 DEF IInv, TypeOK
<1>7. TypeOK'
    BY <1>3, <1>6 DEF IInv, TypeOK, Calls
<1>8. transaction[s] = NoTx /\ Holds(s) = {}
    BY DEF IInv, SlotFree, Holds, Slot, InHand, EndSteps, OwnSteps
<1>9. \A t \in Sessions : t # s =>
        /\ call'[t] = call[t]
        /\ transaction'[t] = transaction[t]
        /\ Slot(t)' = Slot(t)
        /\ InHand(t)' = InHand(t)
        /\ Holds(t)' = Holds(t)
    BY DEF IInv, TypeOK, Done, Await, Slot, InHand, Holds
<1>10. \/ /\ call'[s].step = "idle"
          /\ transaction'[s] = tx
          /\ Slot(s)' = {tx} /\ InHand(s)' = {}
       \/ /\ call'[s].step = "ownProbe" /\ call'[s].tx = tx
          /\ transaction'[s] = NoTx
          /\ Slot(s)' = {} /\ InHand(s)' = {tx}
    BY <1>8, SessionAssumption
       DEF IInv, TypeOK, Done, Await, Slot, InHand, EndSteps, OwnSteps
<1>11. Holds(s)' = {tx}
    BY <1>10 DEF Holds
<1>12. Exclusive'
    BY <1>2, <1>9, <1>10, <1>11 DEF IInv, Exclusive
<1>13. Accounted'
    BY <1>4, <1>8, <1>9, <1>11 DEF IInv, Accounted, Live
<1>14. NoUseAfterEnd'
    BY <1>2, <1>9, <1>10 DEF IInv, NoUseAfterEnd, RunSteps, ProbeSteps
<1>15. CallInOwnTransaction' /\ SlotFree' /\ HandsAreIds'
    BY <1>9, <1>10 DEF IInv, CallInOwnTransaction, SlotFree, HandsAreIds,
        RunSteps, ProbeSteps, EndSteps, OwnSteps
<1>16. UnusedIsUnknown'
    BY <1>4, <1>5, <1>9, <1>11 DEF IInv, UnusedIsUnknown
<1> QED BY <1>7, <1>12, <1>13, <1>14, <1>15, <1>16 DEF IInv

\* A BEGIN that fails may leave a transaction whose id nobody has.
LEMMA BeginFailsKeepsIInv ==
    ASSUME IInv, NEW s \in Sessions, call[s].step \in {"begin", "ownBegin"},
           BeginFails, Done(s),
           UNCHANGED <<transaction, failed, detached, told, ended>>
    PROVE  IInv'
<1>1. CASE UNCHANGED <<server, stranded>>
    <2>1. ServerKept
        BY <1>1 DEF IInv, TypeOK, ServerKept
    <2>2. /\ failed' \in [Sessions -> BOOLEAN]
          /\ told' \in [Txs -> SUBSET {"error", "COMMIT", "ROLLBACK"}]
          /\ NoTx \in Txs \cup {NoTx} /\ "query" \in Stmts
        BY DEF IInv, TypeOK, Stmts
    <2>3. /\ {"begin", "ownBegin"} \cap (EndSteps \cup OwnSteps) = {}
          /\ "idle" \in QuietSteps
          /\ "idle" \notin RunSteps \cup ProbeSteps
        BY DEF EndSteps, OwnSteps, QuietSteps, RunSteps, ProbeSteps
    <2> QED BY <1>1, <2>1, <2>2, <2>3, AwaitKeepsIInv DEF Done
<1>2. ASSUME NEW tx \in Txs, Opened(tx), stranded' = stranded \cup {tx}
      PROVE  IInv'
    <2>1. /\ server[tx].status = "unused"
          /\ server' = [server EXCEPT ![tx] = Begun]
        BY <1>2 DEF Opened
    <2>2. \A t \in Sessions : tx \notin Holds(t)
        BY <2>1 DEF IInv, UnusedIsUnknown
    <2>3. server' \in [Txs -> Transactions]
        BY <2>1 DEF IInv, TypeOK, Begun, Transactions, Statuses
    <2>4. \A u \in Txs : u # tx => server'[u] = server[u]
        BY <2>1 DEF IInv, TypeOK
    <2>5. server'[tx].status = "open"
        BY <2>1 DEF IInv, TypeOK, Begun
    <2>6. call' \in [Sessions -> Calls]
        BY DEF IInv, TypeOK, Done, Await, Calls, Steps, Stmts
    <2>7. TypeOK'
        BY <1>2, <2>3, <2>6 DEF IInv, TypeOK, Calls
    <2>8. \A t \in Sessions :
            call'[t] = IF t = s THEN [step |-> "idle", tx |-> NoTx, stmt |-> "query"]
                       ELSE call[t]
        BY DEF IInv, TypeOK, Done, Await
    <2>9. \A t \in Sessions : Slot(t)' = Slot(t) /\ InHand(t)' = InHand(t) /\ Holds(t)' = Holds(t)
        BY <2>8 DEF Slot, InHand, Holds, EndSteps, OwnSteps
    <2>10. Exclusive'
        BY <1>2, <2>2, <2>9 DEF IInv, Exclusive
    <2>11. Accounted'
        BY <1>2, <2>4, <2>9 DEF IInv, Accounted, Live
    <2>12. NoUseAfterEnd' /\ CallInOwnTransaction' /\ SlotFree' /\ HandsAreIds'
        BY <2>8, <2>9 DEF IInv, NoUseAfterEnd, CallInOwnTransaction, SlotFree, HandsAreIds,
            RunSteps, ProbeSteps, EndSteps, OwnSteps
    <2>13. UnusedIsUnknown'
        BY <1>2, <2>4, <2>5, <2>9 DEF IInv, UnusedIsUnknown
    <2> QED BY <2>7, <2>10, <2>11, <2>12, <2>13 DEF IInv
<1> QED BY <1>1, <1>2 DEF BeginFails

LEMMA BeginRepliesKeepIInv ==
    ASSUME IInv, NEW s \in Sessions, BeginReply(s) \/ OwnBeginReply(s)
    PROVE  IInv'
<1>1. CASE BeginReply(s)
    <2>1. \A tx : failed' = [failed EXCEPT ![s] = FALSE] => failed' \in [Sessions -> BOOLEAN]
        BY DEF IInv, TypeOK
    <2> QED BY <1>1, <2>1, OpenedKeepsIInv, BeginFailsKeepsIInv DEF BeginReply, At
<1>2. CASE OwnBeginReply(s)
    <2>1. UNCHANGED failed => failed' \in [Sessions -> BOOLEAN]
        BY DEF IInv, TypeOK
    <2> QED BY <1>2, <2>1, OpenedKeepsIInv, BeginFailsKeepsIInv DEF OwnBeginReply, At
<1> QED BY <1>1, <1>2

-----------------------------------------------------------------------------
(* An id changes hands                                                     *)

\* The id goes from the slot to the hand of the handler that ends it.
LEMMA TakeAndEndKeepsIInv ==
    ASSUME IInv, NEW s \in Sessions, Idle(s), InTransaction(s),
           NEW step \in EndSteps, TakeAndEnd(s, step)
    PROVE  IInv'
<1> DEFINE tx == transaction[s]
<1>1. /\ tx \in Txs
      /\ Slot(s) = {tx} /\ InHand(s) = {} /\ Holds(s) = {tx}
    BY DEF IInv, TypeOK, InTransaction, Idle, At, Slot, InHand, Holds, EndSteps, OwnSteps
<1>2. /\ transaction' = [transaction EXCEPT ![s] = NoTx]
      /\ call' = [call EXCEPT ![s] = [step |-> step, tx |-> tx, stmt |-> "query"]]
      /\ ended' = ended \cup {tx}
      /\ UNCHANGED <<detached, server, told, stranded>>
    BY DEF TakeAndEnd, Await
<1>3. TypeOK'
    <2>1. [step |-> step, tx |-> tx, stmt |-> "query"] \in Calls
        BY <1>1 DEF Calls, Steps, Stmts
    <2>2. failed' \in [Sessions -> BOOLEAN]
        BY DEF IInv, TypeOK, TakeAndEnd
    <2> QED BY <1>1, <1>2, <2>1, <2>2 DEF IInv, TypeOK, Calls
<1>4. \A t \in Sessions : t # s =>
        call'[t] = call[t] /\ transaction'[t] = transaction[t]
    BY <1>2 DEF IInv, TypeOK
<1>5. /\ call'[s].step = step /\ call'[s].tx = tx /\ transaction'[s] = NoTx
      /\ Slot(s)' = {} /\ InHand(s)' = {tx}
    BY <1>2 DEF IInv, TypeOK, Slot, InHand
<1>6. \A t \in Sessions : Holds(t)' = Holds(t)
    BY <1>1, <1>4, <1>5 DEF Holds, Slot, InHand
<1>7. \A t \in Sessions : t # s => Slot(t)' = Slot(t) /\ InHand(t)' = InHand(t) /\ tx \notin Holds(t)
    BY <1>1, <1>4 DEF IInv, Exclusive, Slot, InHand
<1>8. Exclusive'
    BY <1>2, <1>5, <1>6, <1>7 DEF IInv, Exclusive
<1>9. Accounted'
    BY <1>2, <1>6 DEF IInv, Accounted, Live
<1>10. NoUseAfterEnd'
    <2>1. ASSUME NEW t \in Sessions, t # s,
                 call[t].step \in RunSteps \cup ProbeSteps \cup {"ownProbe"}
          PROVE  call[t].tx # tx
        <3>1. CASE call[t].step = "ownProbe"
            BY <1>7, <2>1, <3>1 DEF Holds, InHand, OwnSteps
        <3>2. CASE call[t].step \in RunSteps \cup ProbeSteps
            BY <1>1, <1>7, <2>1, <3>2, SessionAssumption
               DEF IInv, CallInOwnTransaction, Holds, Slot
        <3> QED BY <2>1, <3>1, <3>2
    <2>2. step \notin RunSteps \cup ProbeSteps \cup {"ownProbe"}
        BY DEF EndSteps, RunSteps, ProbeSteps
    <2> QED BY <1>2, <1>4, <1>5, <1>7, <2>1, <2>2 DEF IInv, NoUseAfterEnd, Holds
<1>11. CallInOwnTransaction' /\ SlotFree' /\ HandsAreIds'
    BY <1>1, <1>4, <1>5 DEF IInv, CallInOwnTransaction, SlotFree, HandsAreIds,
        RunSteps, ProbeSteps, EndSteps
<1>12. UnusedIsUnknown'
    BY <1>1, <1>2, <1>6 DEF IInv, UnusedIsUnknown
<1> QED BY <1>3, <1>8, <1>9, <1>10, <1>11, <1>12 DEF IInv

\* The probe has run, and its own transaction is on its way out.
LEMMA OwnProbeReplyKeepsIInv ==
    ASSUME IInv, NEW s \in Sessions, OwnProbeReply(s)
    PROVE  IInv'
<1> DEFINE tx == call[s].tx
<1>1. tx \in Txs /\ InHand(s) = {tx} /\ transaction[s] = NoTx
    BY DEF OwnProbeReply, At, IInv, HandsAreIds, InHand, SlotFree, OwnSteps
<1>2. ServerKept
    BY <1>1, RanKeepsServer DEF OwnProbeReply, IInv, Marks
<1>3. /\ call' = [call EXCEPT ![s] = [step |-> "ownRollback", tx |-> tx, stmt |-> "query"]]
      /\ ended' = ended \cup {tx}
      /\ UNCHANGED <<transaction, failed, detached, told, stranded>>
    BY DEF OwnProbeReply, Await
<1>4. TypeOK'
    <2>1. [step |-> "ownRollback", tx |-> tx, stmt |-> "query"] \in Calls
        BY <1>1 DEF Calls, Steps, OwnSteps, Stmts
    <2> QED BY <1>1, <1>2, <1>3, <2>1 DEF IInv, TypeOK, Calls, ServerKept
<1>5. \A t \in Sessions : t # s => call'[t] = call[t]
    BY <1>3 DEF IInv, TypeOK
<1>6. call'[s].step = "ownRollback" /\ call'[s].tx = tx
    BY <1>3 DEF IInv, TypeOK
<1>7. \A t \in Sessions : Slot(t)' = Slot(t) /\ InHand(t)' = InHand(t) /\ Holds(t)' = Holds(t)
    BY <1>1, <1>3, <1>5, <1>6 DEF Slot, InHand, Holds, OwnSteps
<1>8. \A t \in Sessions : t # s => tx \notin Holds(t)
    BY <1>1 DEF IInv, Exclusive, Holds
<1>9. Exclusive'
    BY <1>3, <1>7 DEF IInv, Exclusive
<1>10. Accounted'
    BY <1>2, <1>3, <1>7 DEF IInv, Accounted, Live, ServerKept
<1>11. NoUseAfterEnd'
    <2>1. ASSUME NEW t \in Sessions, t # s,
                 call[t].step \in RunSteps \cup ProbeSteps \cup {"ownProbe"}
          PROVE  call[t].tx # tx
        <3>1. CASE call[t].step = "ownProbe"
            BY <1>8, <2>1, <3>1 DEF Holds, InHand, OwnSteps
        <3>2. CASE call[t].step \in RunSteps \cup ProbeSteps
            BY <1>1, <1>8, <2>1, <3>2, SessionAssumption
               DEF IInv, CallInOwnTransaction, Holds, Slot
        <3> QED BY <2>1, <3>1, <3>2
    <2>2. "ownRollback" \notin RunSteps \cup ProbeSteps \cup {"ownProbe"}
        BY DEF RunSteps, ProbeSteps
    <2>3. \A t \in Sessions : tx \notin Slot(t)
        BY <1>1, <1>8, SessionAssumption DEF Holds, Slot
    <2> QED BY <1>3, <1>5, <1>6, <1>7, <2>1, <2>2, <2>3 DEF IInv, NoUseAfterEnd
<1>12. CallInOwnTransaction' /\ SlotFree' /\ HandsAreIds'
    BY <1>1, <1>3, <1>5, <1>6 DEF IInv, CallInOwnTransaction, SlotFree, HandsAreIds,
        RunSteps, ProbeSteps
<1>13. UnusedIsUnknown'
    <2>1. server[tx].status # "unused"
        BY <1>1 DEF IInv, UnusedIsUnknown, Holds
    <2> QED BY <1>2, <1>3, <1>7, <2>1 DEF IInv, UnusedIsUnknown, ServerKept
<1> QED BY <1>4, <1>9, <1>10, <1>11, <1>12, <1>13 DEF IInv

\* The slot's id goes to the rollback that Drop spawns.
LEMMA DisconnectKeepsIInv ==
    ASSUME IInv, NEW s \in Sessions, Disconnect(s)
    PROVE  IInv'
<1>1. /\ transaction' = [transaction EXCEPT ![s] = NoTx]
      /\ call' = [call EXCEPT ![s] = [step |-> "closed", tx |-> NoTx, stmt |-> "query"]]
      /\ detached' = detached \cup Slot(s)
      /\ ended' = ended \cup Slot(s)
      /\ UNCHANGED <<server, told, stranded>>
    BY DEF Disconnect, Await, Slot
<1>2. Slot(s) \subseteq Txs /\ InHand(s) = {} /\ Holds(s) = Slot(s)
    BY DEF Disconnect, Idle, At, IInv, TypeOK, Slot, InHand, Holds, EndSteps, OwnSteps
<1>3. TypeOK'
    <2>1. [step |-> "closed", tx |-> NoTx, stmt |-> "query"] \in Calls
        BY DEF Calls, Steps, Stmts
    <2>2. failed' \in [Sessions -> BOOLEAN]
        BY DEF Disconnect, IInv, TypeOK
    <2> QED BY <1>1, <1>2, <2>1, <2>2 DEF IInv, TypeOK, Calls
<1>4. \A t \in Sessions : t # s =>
        /\ call'[t] = call[t] /\ transaction'[t] = transaction[t]
        /\ Slot(t)' = Slot(t) /\ InHand(t)' = InHand(t) /\ Holds(t)' = Holds(t)
    BY <1>1 DEF IInv, TypeOK, Slot, InHand, Holds
<1>5. /\ call'[s].step = "closed" /\ transaction'[s] = NoTx
      /\ Slot(s)' = {} /\ InHand(s)' = {} /\ Holds(s)' = {}
    BY <1>1 DEF IInv, TypeOK, Slot, InHand, Holds, EndSteps, OwnSteps
<1>6. \A t \in Sessions : t # s => Holds(t) \cap Slot(s) = {}
    BY <1>2 DEF IInv, Exclusive
<1>7. Exclusive'
    BY <1>1, <1>4, <1>5, <1>6 DEF IInv, Exclusive
<1>8. Accounted'
    BY <1>1, <1>2, <1>4 DEF IInv, Accounted, Live
<1>9. NoUseAfterEnd'
    <2>1. ASSUME NEW t \in Sessions, t # s,
                 call[t].step \in RunSteps \cup ProbeSteps \cup {"ownProbe"}
          PROVE  call[t].tx \notin Slot(s)
        <3>1. CASE call[t].step = "ownProbe"
            BY <1>6, <2>1, <3>1 DEF Holds, InHand, OwnSteps
        <3>2. CASE call[t].step \in RunSteps \cup ProbeSteps
            BY <1>2, <1>6, <2>1, <3>2, SessionAssumption
               DEF IInv, CallInOwnTransaction, Holds, Slot
        <3> QED BY <2>1, <3>1, <3>2
    <2>2. "closed" \notin RunSteps \cup ProbeSteps \cup {"ownProbe"}
        BY DEF RunSteps, ProbeSteps
    <2> QED BY <1>1, <1>4, <1>5, <1>6, <2>1, <2>2 DEF IInv, NoUseAfterEnd, Holds
<1>10. CallInOwnTransaction' /\ SlotFree' /\ HandsAreIds'
    BY <1>4, <1>5 DEF IInv, CallInOwnTransaction, SlotFree, HandsAreIds,
        RunSteps, ProbeSteps, EndSteps, OwnSteps
<1>11. UnusedIsUnknown'
    BY <1>1, <1>2, <1>4, <1>5 DEF IInv, UnusedIsUnknown
<1> QED BY <1>3, <1>7, <1>8, <1>9, <1>10, <1>11 DEF IInv

\* Nobody is left to hold anything.
LEMMA StopKeepsIInv ==
    ASSUME IInv, Stop
    PROVE  IInv'
<1>1. TypeOK'
    BY DEF Stop, IInv, TypeOK, Steps, Stmts
<1>2. \A s \in Sessions :
        /\ call'[s].step = "closed" /\ transaction'[s] = NoTx
        /\ Slot(s)' = {} /\ InHand(s)' = {} /\ Holds(s)' = {}
    BY DEF Stop, Slot, InHand, Holds, EndSteps, OwnSteps
<1>3. Exclusive'
    BY <1>2 DEF Exclusive
<1>4. Accounted'
    BY DEF Stop, Accounted, Live
<1>5. NoUseAfterEnd' /\ CallInOwnTransaction' /\ SlotFree' /\ HandsAreIds'
    BY <1>2 DEF NoUseAfterEnd, CallInOwnTransaction, SlotFree, HandsAreIds,
        RunSteps, ProbeSteps, EndSteps, OwnSteps
<1>6. UnusedIsUnknown'
    BY <1>2 DEF Stop, IInv, UnusedIsUnknown, Live, IsLive
<1> QED BY <1>1, <1>3, <1>4, <1>5, <1>6 DEF IInv

LEMMA EndRepliesKeepIInv ==
    ASSUME IInv, NEW s \in Sessions,
           CommitReply(s) \/ RollbackReply(s) \/ OwnRollbackReply(s)
    PROVE  IInv'
<1>1. \A what \in {"COMMIT", "ROLLBACK"} : \A tx :
        Tell(tx, what) => told' \in [Txs -> SUBSET {"error", "COMMIT", "ROLLBACK"}]
    BY ToldAndFailedTypes DEF IInv
<1>2. UNCHANGED told => told' \in [Txs -> SUBSET {"error", "COMMIT", "ROLLBACK"}]
    BY ToldAndFailedTypes DEF IInv
<1>3. CASE CommitReply(s)
    <2>1. call[s].step \in EndSteps
        BY <1>3 DEF CommitReply, At, EndSteps
    <2> QED BY <1>1, <1>2, <1>3, <2>1, EndReplyKeepsIInv DEF CommitReply
<1>4. CASE RollbackReply(s)
    <2>1. call[s].step \in EndSteps
        BY <1>4 DEF RollbackReply, At, EndSteps
    <2> QED BY <1>1, <1>2, <1>4, <2>1, EndReplyKeepsIInv DEF RollbackReply
<1>5. CASE OwnRollbackReply(s)
    BY <1>2, <1>5, EndReplyKeepsIInv DEF OwnRollbackReply, At
<1> QED BY <1>3, <1>4, <1>5

\* Steps that the connections do not take, or that take them nowhere.
LEMMA OtherStepsKeepIInv ==
    ASSUME IInv,
           \/ \E s \in Sessions : RefuseStatement(s)
           \/ \E tx \in Txs : Expire(tx)
           \/ UNCHANGED vars
    PROVE  IInv'
<1>1. UNCHANGED server => ServerKept
    BY DEF IInv, TypeOK, ServerKept
<1>2. CASE \E s \in Sessions : RefuseStatement(s)
    <2>1. told' \in [Txs -> SUBSET {"error", "COMMIT", "ROLLBACK"}]
        BY <1>2, ToldAndFailedTypes DEF RefuseStatement, IInv
    <2> QED BY <1>1, <1>2, <2>1, OutsideStepsKeepIInv DEF RefuseStatement
<1>3. ASSUME NEW tx \in Txs, Expire(tx)
      PROVE  IInv'
    <2>1. ServerKept
        <3>1. RolledBack(server[tx]) \in Transactions
            BY DEF RolledBack, Over, Transactions, Statuses
        <3>2. ~IsLive(RolledBack(server[tx])) /\ RolledBack(server[tx]).status # "unused"
            BY DEF RolledBack, Over, IsLive
        <3>3. server' = [server EXCEPT ![tx] = RolledBack(server[tx])] /\ IsLive(server[tx])
            BY <1>3 DEF Expire, Live
        <3> QED BY <3>1, <3>2, <3>3 DEF IInv, TypeOK, ServerKept, IsLive
    <2>2. told' \in [Txs -> SUBSET {"error", "COMMIT", "ROLLBACK"}]
        BY <1>3 DEF Expire, IInv, TypeOK
    <2> QED BY <1>3, <2>1, <2>2, OutsideStepsKeepIInv DEF Expire
<1>4. CASE UNCHANGED vars
    <2>1. told' \in [Txs -> SUBSET {"error", "COMMIT", "ROLLBACK"}]
        BY <1>4 DEF vars, IInv, TypeOK
    <2> QED BY <1>1, <1>4, <2>1, OutsideStepsKeepIInv DEF vars
<1> QED BY <1>2, <1>3, <1>4

-----------------------------------------------------------------------------
(* The theorems                                                            *)

LEMMA InitImpliesIInv == Init => IInv
<1> SUFFICES ASSUME Init PROVE IInv
    OBVIOUS
<1>1. TypeOK
    BY DEF Init, TypeOK, Steps, Stmts, Fresh, Transactions, Statuses
<1>2. \A s \in Sessions :
        /\ call[s].step = "idle" /\ transaction[s] = NoTx
        /\ Slot(s) = {} /\ InHand(s) = {} /\ Holds(s) = {}
    BY DEF Init, Slot, InHand, Holds, EndSteps, OwnSteps
<1>3. Exclusive /\ NoUseAfterEnd /\ CallInOwnTransaction /\ SlotFree /\ HandsAreIds
    BY <1>2 DEF Exclusive, NoUseAfterEnd, CallInOwnTransaction, SlotFree, HandsAreIds,
        RunSteps, ProbeSteps, EndSteps, OwnSteps
<1>4. Accounted
    BY DEF Init, Accounted, Live, IsLive, Fresh
<1>5. UnusedIsUnknown
    BY <1>2 DEF Init, UnusedIsUnknown
<1> QED BY <1>1, <1>3, <1>4, <1>5 DEF IInv

LEMMA NextKeepsIInv == IInv /\ [Next]_vars => IInv'
<1> SUFFICES ASSUME IInv, [Next]_vars PROVE IInv'
    OBVIOUS
<1>1. ASSUME NEW s \in Sessions, Request(s)
      PROVE  IInv'
    <2>1. CASE CommitRequest(s)
        <3>1. (IF failed[s] THEN "abandon" ELSE "commit") \in EndSteps
            BY DEF EndSteps
        <3> QED BY <2>1, <3>1, TakeAndEndKeepsIInv DEF CommitRequest
    <2>2. CASE RollbackRequest(s)
        <3>1. "rollback" \in EndSteps
            BY DEF EndSteps
        <3> QED BY <2>2, <3>1, TakeAndEndKeepsIInv DEF RollbackRequest
    <2>3. CASE RefuseStatement(s)
        BY <2>3, OtherStepsKeepIInv
    <2> QED BY <1>1, <2>1, <2>2, <2>3, RequestsKeepIInv DEF Request
<1>2. ASSUME NEW s \in Sessions, Reply(s)
      PROVE  IInv'
    BY <1>2, BeginRepliesKeepIInv, EndRepliesKeepIInv, StatementRepliesKeepIInv,
       ProbeRepliesKeepIInv, OwnProbeReplyKeepsIInv DEF Reply
<1>3. ASSUME NEW s \in Sessions, Disconnect(s) \/ Connect(s)
      PROVE  IInv'
    BY <1>3, DisconnectKeepsIInv, RequestsKeepIInv
<1>4. ASSUME NEW tx \in Txs, DetachedRollback(tx) \/ Expire(tx)
      PROVE  IInv'
    BY <1>4, DetachedRollbackKeepsIInv, OtherStepsKeepIInv
<1> QED BY <1>1, <1>2, <1>3, <1>4, StopKeepsIInv, OtherStepsKeepIInv DEF Next

\* Whatever the traffic and the faults, the parts of the invariant hold together
\* in every reachable state.
THEOREM InvariantHolds == Spec => []IInv
BY InitImpliesIInv, NextKeepsIInv, PTL DEF Spec

\* Every variable keeps its type (Session, session.rs:205-216).
THEOREM TypesHold == Spec => []TypeOK
<1>1. IInv => TypeOK
    BY DEF IInv
<1> QED BY <1>1, InvariantHolds, PTL

\* No transaction is in two hands: commit, rollback and Drop all take the id
\* out of the slot (session.rs:299-316 and 388-410), however many connections
\* there are.
THEOREM HandsAreExclusive == Spec => []Exclusive
<1>1. IInv => Exclusive
    BY DEF IInv
<1> QED BY <1>1, InvariantHolds, PTL

\* A live transaction is held by a connection, is being rolled back for one
\* that left, or was left behind by a call that failed or a stop
\* (session.rs:287-296 and 388-410).
THEOREM TransactionsAreAccounted == Spec => []Accounted
<1>1. IInv => Accounted
    BY DEF IInv
<1> QED BY <1>1, InvariantHolds, PTL

\* An id is in no slot, and no statement uses it, once a commit or rollback has
\* been sent for it (session.rs:299-316).
THEOREM NoTransactionIsUsedAfterItsEnd == Spec => []NoUseAfterEnd
<1>1. IInv => NoUseAfterEnd
    BY DEF IInv
<1> QED BY <1>1, InvariantHolds, PTL

\* Every statement and every borrowed probe runs in the transaction its
\* connection has open (handlers.rs:185-230, probe.rs:171-235).
THEOREM CallsStayInTheirTransaction == Spec => []CallInOwnTransaction
<1>1. IInv => CallInOwnTransaction
    BY DEF IInv
<1> QED BY <1>1, InvariantHolds, PTL

-----------------------------------------------------------------------------
(* Errors keep from committing                                             *)

\* The errors that run_statement answers without mark_failed do not occur.
RefusesNothing == Traffic \cap {"refused", "unconvertible"} = {}

\* A connection knows of every error in the transaction it has open.
ErrorsAreMarked ==
    \A s \in Sessions :
        InTransaction(s) /\ "error" \in told[transaction[s]] => failed[s]

\* What is being committed has seen no error.
CommitsAreClean ==
    \A s \in Sessions : At(s, "commit") => "error" \notin told[call[s].tx]

\* What was committed has ended, and had seen no error.
CommittedAreClean ==
    \A tx \in Txs : "COMMIT" \in told[tx] => tx \in ended /\ "error" \notin told[tx]

\* A handler that waits for a transaction's end has sent the call for it.
EndingsAreSent ==
    \A s \in Sessions : call[s].step \in EndSteps => call[s].tx \in ended

\* Nobody has heard of an id that was not given out.
UnusedIsUnheard ==
    \A tx \in Txs : server[tx].status = "unused" => told[tx] = {}

EInv ==
    /\ RefusesNothing
    /\ ErrorsAreMarked
    /\ CommitsAreClean
    /\ CommittedAreClean
    /\ EndingsAreSent
    /\ UnusedIsUnheard

-----------------------------------------------------------------------------
(* No id is used twice                                                     *)

UsedStay == \A tx \in Txs : server'[tx].status = "unused" => server[tx].status = "unused"

LEMMA OpenedUsesUp ==
    ASSUME TypeOK, NEW tx \in Txs, Opened(tx)
    PROVE  UsedStay
BY DEF TypeOK, Opened, Begun, UsedStay

LEMMA BeginFailsUsesUp ==
    ASSUME TypeOK, BeginFails
    PROVE  UsedStay
BY OpenedUsesUp DEF BeginFails, UsedStay

LEMMA RanUsesUp ==
    ASSUME TypeOK, NEW s \in Sessions, NEW stmt, NEW mark \in Marks, NEW reply,
           Ran(stmt, mark, call[s].tx, reply)
    PROVE  UsedStay
<1>1. call[s].tx \in Txs \cup {NoTx}
    BY DEF TypeOK
<1> QED BY <1>1, RanKeepsServer DEF UsedStay, ServerKept

LEMMA EndingUsesUp ==
    ASSUME TypeOK, NEW tx \in Txs,
           NEW after \in {Committed(server[tx]), RolledBack(server[tx])},
           Ends(tx, after) \/ EndFails(tx, after)
    PROVE  UsedStay
BY DEF TypeOK, Ends, EndFails, UsedStay, Committed, RolledBack, Over

LEMMA UsedIdsStayUsed ==
    ASSUME IInv, [Next]_vars
    PROVE  UsedStay
<1>1. TypeOK
    BY DEF IInv
<1>2. UNCHANGED server => UsedStay
    BY DEF UsedStay
<1>3. ASSUME NEW s \in Sessions, Request(s) \/ Disconnect(s) \/ Connect(s)
      PROVE  UsedStay
    BY <1>2, <1>3 DEF Request, BeginRequest, CommitRequest, RollbackRequest, ExecuteRequest,
        RefuseStatement, DescribeRequest, CursorRequest, TakeAndEnd, Disconnect, Connect
<1>4. ASSUME NEW s \in Sessions, Reply(s)
      PROVE  UsedStay
    <2>1. CASE BeginReply(s) \/ OwnBeginReply(s)
        BY <1>1, <2>1, OpenedUsesUp, BeginFailsUsesUp DEF BeginReply, OwnBeginReply
    <2>2. CASE CommitReply(s) \/ RollbackReply(s) \/ OwnRollbackReply(s)
        <3>1. call[s].tx \in Txs
            BY <2>2 DEF IInv, HandsAreIds, CommitReply, RollbackReply, OwnRollbackReply, At,
                EndSteps, OwnSteps
        <3> QED BY <1>1, <2>2, <3>1, EndingUsesUp DEF CommitReply, RollbackReply, OwnRollbackReply
    <2>3. CASE FirstReply(s) \/ ShapeReply(s) \/ RetryReply(s) \/ CursorReply(s)
        <3>1. "user" \in Marks
            BY DEF Marks
        <3> QED BY <1>1, <2>3, <3>1, RanUsesUp DEF FirstReply, ShapeReply, RetryReply, CursorReply
    <2>4. CASE \/ OneCallReply(s) \/ SavepointReply(s) \/ ProbeReply(s)
               \/ RewindReply(s) \/ ReleaseReply(s) \/ OwnProbeReply(s)
        <3>1. "probe" \in Marks
            BY DEF Marks
        <3> QED BY <1>1, <2>4, <3>1, RanUsesUp
                DEF OneCallReply, SavepointReply, ProbeReply, RewindReply, ReleaseReply, OwnProbeReply
    <2> QED BY <1>4, <2>1, <2>2, <2>3, <2>4 DEF Reply
<1>5. ASSUME NEW tx \in Txs, DetachedRollback(tx)
      PROVE  UsedStay
    BY <1>1, <1>5, EndingUsesUp DEF DetachedRollback
<1>6. ASSUME NEW tx \in Txs, Expire(tx)
      PROVE  UsedStay
    BY <1>1, <1>6 DEF Expire, TypeOK, UsedStay, RolledBack, Over
<1>7. Stop \/ UNCHANGED vars => UsedStay
    BY <1>2 DEF Stop, vars
<1> QED BY <1>3, <1>4, <1>5, <1>6, <1>7 DEF Next

-----------------------------------------------------------------------------
(* Steps about which the client hears nothing                              *)

\* A slot keeps its transaction, is emptied, or takes one nobody has heard of;
\* a commit goes out only for a transaction that has not failed.
LEMMA UnheardStep ==
    ASSUME IInv, EInv, UsedStay, UNCHANGED told, ended \subseteq ended',
           \A s \in Sessions :
                \/ transaction'[s] = transaction[s] /\ failed'[s] = failed[s]
                \/ transaction'[s] = NoTx
                \/ told[transaction'[s]] = {},
           \A s \in Sessions : call'[s].step \in EndSteps =>
                \/ call'[s] = call[s]
                \/ /\ call'[s].tx \in ended'
                   /\ call'[s].tx = transaction[s] /\ InTransaction(s)
                   /\ call'[s].step = "commit" => ~failed[s]
    PROVE  EInv'
<1>1. RefusesNothing'
    BY DEF EInv, RefusesNothing
<1>2. ErrorsAreMarked'
    BY DEF EInv, ErrorsAreMarked, InTransaction
<1>3. CommitsAreClean'
    BY DEF EInv, CommitsAreClean, ErrorsAreMarked, At, EndSteps
<1>4. CommittedAreClean'
    BY DEF EInv, CommittedAreClean
<1>5. EndingsAreSent'
    BY DEF EInv, EndingsAreSent
<1>6. UnusedIsUnheard'
    BY DEF EInv, UnusedIsUnheard, UsedStay
<1> QED BY <1>1, <1>2, <1>3, <1>4, <1>5, <1>6 DEF EInv

\* The same for a step of one connection that stays in its transaction.
LEMMA UnheardCall ==
    ASSUME IInv, EInv, UsedStay, NEW s \in Sessions, NEW step, NEW tx, NEW stmt,
           Await(s, step, tx, stmt), step \notin EndSteps,
           UNCHANGED <<transaction, failed, told>>, ended \subseteq ended'
    PROVE  EInv'
<1>1. \A t \in Sessions : call'[t].step \in EndSteps => call'[t] = call[t]
    BY DEF Await, IInv, TypeOK
<1> QED BY <1>1, UnheardStep

LEMMA RequestsKeepEInv ==
    ASSUME IInv, EInv, UsedStay, NEW s \in Sessions, Request(s) \/ Connect(s)
    PROVE  EInv'
<1>1. {"begin", "first", "oneCall", "savepoint", "ownBegin", "fetch", "idle"} \cap EndSteps = {}
    BY DEF EndSteps
<1>2. CASE CommitRequest(s) \/ RollbackRequest(s)
    <2>1. PICK step \in EndSteps :
            /\ TakeAndEnd(s, step)
            /\ step = "commit" => ~failed[s]
        BY <1>2 DEF CommitRequest, RollbackRequest, EndSteps
    <2>2. InTransaction(s)
        BY <1>2 DEF CommitRequest, RollbackRequest
    <2>3. /\ call' = [call EXCEPT ![s] = [step |-> step, tx |-> transaction[s], stmt |-> "query"]]
          /\ transaction' = [transaction EXCEPT ![s] = NoTx]
          /\ failed' = [failed EXCEPT ![s] = FALSE]
          /\ ended' = ended \cup {transaction[s]}
          /\ UNCHANGED told
        BY <2>1 DEF TakeAndEnd, Await
    <2>4. \A t \in Sessions : t # s =>
            call'[t] = call[t] /\ transaction'[t] = transaction[t] /\ failed'[t] = failed[t]
        BY <2>3 DEF IInv, TypeOK
    <2>5. /\ call'[s] = [step |-> step, tx |-> transaction[s], stmt |-> "query"]
          /\ transaction'[s] = NoTx
        BY <2>3 DEF IInv, TypeOK
    <2>6. /\ call'[s].tx = transaction[s] /\ call'[s].step = step
          /\ transaction[s] \in ended'
        BY <2>3, <2>5
    <2>7. UNCHANGED told /\ ended \subseteq ended'
        BY <2>3
    <2>8. \A t \in Sessions : transaction'[t] = NoTx
                \/ (transaction'[t] = transaction[t] /\ failed'[t] = failed[t])
        BY <2>4, <2>5
    <2>9. \A t \in Sessions :
            \/ call'[t] = call[t]
            \/ /\ call'[t].tx \in ended'
               /\ call'[t].tx = transaction[t] /\ InTransaction(t)
               /\ call'[t].step = "commit" => ~failed[t]
        BY <2>1, <2>2, <2>4, <2>6
    <2> QED BY <2>7, <2>8, <2>9, UnheardStep
<1>3. CASE RefuseStatement(s)
    BY <1>3 DEF RefuseStatement, EInv, RefusesNothing
<1>4. CASE BeginRequest(s)
    BY <1>1, <1>4, UnheardCall DEF BeginRequest
<1>5. CASE ExecuteRequest(s)
    BY <1>1, <1>5, UnheardCall DEF ExecuteRequest
<1>6. CASE DescribeRequest(s)
    BY <1>1, <1>6, UnheardCall DEF DescribeRequest
<1>7. CASE CursorRequest(s)
    BY <1>1, <1>7, UnheardCall DEF CursorRequest
<1>8. CASE Connect(s)
    BY <1>1, <1>8, UnheardCall DEF Connect, Done
<1> QED BY <1>2, <1>3, <1>4, <1>5, <1>6, <1>7, <1>8 DEF Request

LEMMA ProbesKeepEInv ==
    ASSUME IInv, EInv, UsedStay, NEW s \in Sessions,
           \/ OneCallReply(s) \/ SavepointReply(s) \/ ProbeReply(s) \/ RewindReply(s)
           \/ ReleaseReply(s) \/ OwnBeginReply(s) \/ OwnProbeReply(s) \/ OwnRollbackReply(s)
           \/ CursorReply(s)
    PROVE  EInv'
<1>1. {"idle", "probe", "rewind", "release", "ownProbe", "ownRollback"} \cap EndSteps = {}
    BY DEF EndSteps
<1>2. CASE OneCallReply(s) \/ ReleaseReply(s) \/ OwnRollbackReply(s) \/ CursorReply(s)
    BY <1>1, <1>2, UnheardCall DEF OneCallReply, ReleaseReply, OwnRollbackReply, CursorReply, Done
<1>3. CASE SavepointReply(s) \/ RewindReply(s)
    BY <1>1, <1>3, UnheardCall DEF SavepointReply, RewindReply, Done
<1>4. CASE ProbeReply(s) \/ OwnProbeReply(s)
    BY <1>1, <1>4, UnheardCall DEF ProbeReply, OwnProbeReply
<1>5. CASE OwnBeginReply(s)
    BY <1>1, <1>5, UnheardCall DEF OwnBeginReply, Done
<1> QED BY <1>2, <1>3, <1>4, <1>5

LEMMA BeginsKeepEInv ==
    ASSUME IInv, EInv, UsedStay, NEW s \in Sessions, BeginReply(s)
    PROVE  EInv'
<1>1. CASE UNCHANGED <<transaction, failed>>
    BY <1>1, UnheardCall DEF BeginReply, Done, EndSteps
<1>2. ASSUME NEW tx \in Txs, Opened(tx),
             transaction' = [transaction EXCEPT ![s] = tx],
             failed' = [failed EXCEPT ![s] = FALSE]
      PROVE  EInv'
    <2>1. told[tx] = {}
        BY <1>2 DEF Opened, EInv, UnusedIsUnheard
    <2>2. transaction'[s] = tx
        BY <1>2 DEF IInv, TypeOK
    <2>3. \A t \in Sessions : t # s => transaction'[t] = transaction[t] /\ failed'[t] = failed[t]
        BY <1>2 DEF IInv, TypeOK
    <2>4. \A t \in Sessions : call'[t].step \in EndSteps => call'[t] = call[t]
        BY DEF BeginReply, Done, Await, IInv, TypeOK, EndSteps
    <2>5. UNCHANGED <<told, ended>>
        BY DEF BeginReply
    <2> QED BY <2>1, <2>2, <2>3, <2>4, <2>5, UnheardStep
<1> QED BY <1>1, <1>2 DEF BeginReply

\* Steps after which nobody is any wiser.
LEMMA DeparturesKeepEInv ==
    ASSUME IInv, EInv, UsedStay,
           \/ \E s \in Sessions : Disconnect(s)
           \/ \E tx \in Txs : DetachedRollback(tx) \/ Expire(tx)
           \/ Stop
           \/ UNCHANGED vars
    PROVE  EInv'
<1>1. ASSUME NEW s \in Sessions, Disconnect(s)
      PROVE  EInv'
    <2>1. /\ \A t \in Sessions : t # s => transaction'[t] = transaction[t] /\ failed'[t] = failed[t]
          /\ transaction'[s] = NoTx
          /\ \A t \in Sessions : call'[t].step \in EndSteps => call'[t] = call[t]
        BY <1>1 DEF Disconnect, Await, IInv, TypeOK, EndSteps
    <2>2. UNCHANGED told /\ ended \subseteq ended'
        BY <1>1 DEF Disconnect
    <2> QED BY <2>1, <2>2, UnheardStep
<1>2. ASSUME NEW tx \in Txs, DetachedRollback(tx) \/ Expire(tx)
      PROVE  EInv'
    BY <1>2, UnheardStep DEF DetachedRollback, Expire
<1>3. CASE Stop
    BY <1>3, UnheardStep DEF Stop, EndSteps
<1>4. CASE UNCHANGED vars
    BY <1>4, UnheardStep DEF vars
<1> QED BY <1>1, <1>2, <1>3, <1>4

-----------------------------------------------------------------------------
(* Steps the client hears of                                               *)

\* The error and the mark are one step, and nobody else holds the transaction.
LEMMA FailStatementKeepsEInv ==
    ASSUME IInv, EInv, UsedStay, NEW s \in Sessions,
           call[s].step \in RunSteps, FailStatement(s),
           UNCHANGED <<transaction, ended>>
    PROVE  EInv'
<1> DEFINE tx == transaction[s]
<1>1. /\ failed' = [failed EXCEPT ![s] = failed[s] \/ InTransaction(s)]
      /\ told' = [t \in Txs |-> IF t = tx THEN told[t] \cup {"error"} ELSE told[t]]
      /\ call' = [call EXCEPT ![s] = [step |-> "idle", tx |-> NoTx, stmt |-> "query"]]
    BY DEF FailStatement, MarkFailed, Tell, Done, Await
<1>2. \A t \in Sessions : failed'[t] = IF t = s THEN failed[s] \/ InTransaction(s) ELSE failed[t]
    BY <1>1 DEF IInv, TypeOK
<1>3. \A t \in Sessions : call'[t].step \in EndSteps => t # s /\ call'[t] = call[t]
    BY <1>1 DEF IInv, TypeOK, EndSteps
<1>4. \A t \in Sessions : t # s /\ InTransaction(s) =>
        /\ transaction[t] # tx
        /\ call[t].step \in EndSteps => call[t].tx # tx
    BY DEF IInv, Exclusive, Holds, Slot, InHand, InTransaction
<1>5. tx \in Txs => InTransaction(s) /\ tx \notin ended
    BY SessionAssumption DEF IInv, NoUseAfterEnd, Slot, InTransaction
<1>6. RefusesNothing'
    BY DEF EInv, RefusesNothing
<1>7. ErrorsAreMarked'
    <2>1. ASSUME NEW t \in Sessions, transaction[t] # NoTx, "error" \in told'[transaction[t]]
          PROVE  failed'[t]
        <3>1. transaction[t] \in Txs
            BY <2>1 DEF IInv, TypeOK
        <3>2. CASE t = s
            BY <1>2, <2>1, <3>2 DEF InTransaction
        <3>3. CASE t # s
            BY <1>1, <1>2, <1>4, <1>5, <2>1, <3>1, <3>3 DEF EInv, ErrorsAreMarked, InTransaction
        <3> QED BY <3>2, <3>3
    <2> QED BY <2>1 DEF ErrorsAreMarked, InTransaction
<1>8. CommitsAreClean'
    <2>1. ASSUME NEW t \in Sessions, call'[t].step = "commit"
          PROVE  "error" \notin told'[call'[t].tx]
        <3>1. t # s /\ call'[t] = call[t] /\ call[t].tx \in Txs
            BY <1>3, <2>1 DEF EndSteps, IInv, HandsAreIds
        <3>2. call[t].tx # tx
            BY <1>4, <1>5, <2>1, <3>1 DEF EndSteps
        <3> QED BY <1>1, <2>1, <3>1, <3>2 DEF EInv, CommitsAreClean, At
    <2> QED BY <2>1 DEF CommitsAreClean, At
<1>9. CommittedAreClean'
    BY <1>1, <1>5 DEF EInv, CommittedAreClean
<1>10. EndingsAreSent'
    BY <1>3 DEF EInv, EndingsAreSent
<1>11. UnusedIsUnheard'
    <2>1. tx \in Txs => server[tx].status # "unused"
        BY <1>5 DEF IInv, UnusedIsUnknown, Holds, Slot, InTransaction
    <2> QED BY <1>1, <2>1 DEF EInv, UnusedIsUnheard, UsedStay
<1> QED BY <1>6, <1>7, <1>8, <1>9, <1>10, <1>11 DEF EInv

LEMMA StatementsKeepEInv ==
    ASSUME IInv, EInv, UsedStay, NEW s \in Sessions,
           FirstReply(s) \/ ShapeReply(s) \/ RetryReply(s)
    PROVE  EInv'
<1>1. Deliver(s) => Done(s) /\ UNCHANGED <<failed, told>>
    BY DEF Deliver, EInv, RefusesNothing
<1>2. \/ FailStatement(s)
      \/ UNCHANGED <<failed, told>>
            /\ \E step \in {"idle", "shape", "retry"} : \E tx : Await(s, step, tx, "query")
    BY <1>1 DEF FirstReply, ShapeReply, RetryReply, Done
<1>3. /\ UNCHANGED <<transaction, ended>>
      /\ call[s].step \in RunSteps
    BY DEF FirstReply, ShapeReply, RetryReply, At, RunSteps
<1>4. {"idle", "shape", "retry"} \cap EndSteps = {}
    BY DEF EndSteps
<1> QED BY <1>2, <1>3, <1>4, FailStatementKeepsEInv, UnheardCall

\* The client is told of an end only by the handler that had the id in hand.
LEMMA EndRepliesKeepEInv ==
    ASSUME IInv, EInv, UsedStay, NEW s \in Sessions, CommitReply(s) \/ RollbackReply(s)
    PROVE  EInv'
<1> DEFINE tx == call[s].tx
<1>1. CASE UNCHANGED told
    BY <1>1, UnheardCall DEF CommitReply, RollbackReply, Done, EndSteps
<1>2. ASSUME NEW what \in {"COMMIT", "ROLLBACK"}, Tell(tx, what),
             what = "COMMIT" => "error" \notin told[tx]
      PROVE  EInv'
    <2>1. tx \in Txs /\ tx \in ended /\ server[tx].status # "unused"
        BY DEF CommitReply, RollbackReply, At, EndSteps, IInv, HandsAreIds, UnusedIsUnknown,
            EInv, EndingsAreSent
    <2>2. /\ told' = [t \in Txs |-> IF t = tx THEN told[t] \cup {what} ELSE told[t]]
          /\ \A t \in Txs : "error" \in told'[t] => "error" \in told[t]
        BY <1>2 DEF Tell
    <2>3. \A t \in Sessions : call'[t].step \in EndSteps => call'[t] = call[t]
        BY DEF CommitReply, RollbackReply, Done, Await, IInv, TypeOK, EndSteps
    <2>4. UNCHANGED <<transaction, failed, ended>>
        BY DEF CommitReply, RollbackReply
    <2>5. RefusesNothing' /\ EndingsAreSent'
        BY <2>3, <2>4 DEF EInv, RefusesNothing, EndingsAreSent
    <2>6. ErrorsAreMarked'
        BY <2>2, <2>4 DEF EInv, ErrorsAreMarked, InTransaction, IInv, TypeOK
    <2>7. CommitsAreClean'
        BY <2>2, <2>3 DEF EInv, CommitsAreClean, At, EndSteps, IInv, HandsAreIds
    <2>8. CommittedAreClean'
        BY <1>2, <2>1, <2>2, <2>4 DEF EInv, CommittedAreClean
    <2>9. UnusedIsUnheard'
        BY <2>1, <2>2 DEF EInv, UnusedIsUnheard, UsedStay
    <2> QED BY <2>5, <2>6, <2>7, <2>8, <2>9 DEF EInv
<1>3. CASE CommitReply(s)
    <2>1. "error" \notin told[tx]
        BY <1>3 DEF CommitReply, EInv, CommitsAreClean
    <2> QED BY <1>1, <1>2, <1>3, <2>1 DEF CommitReply
<1>4. CASE RollbackReply(s)
    BY <1>1, <1>2, <1>4 DEF RollbackReply
<1> QED BY <1>3, <1>4

-----------------------------------------------------------------------------
(* The theorem                                                             *)

LEMMA NextKeepsEInv == IInv /\ EInv /\ [Next]_vars => EInv'
<1> SUFFICES ASSUME IInv, EInv, [Next]_vars PROVE EInv'
    OBVIOUS
<1>1. UsedStay
    BY UsedIdsStayUsed
<1>2. ASSUME NEW s \in Sessions, Reply(s)
      PROVE  EInv'
    BY <1>1, <1>2, BeginsKeepEInv, EndRepliesKeepEInv, StatementsKeepEInv, ProbesKeepEInv DEF Reply
<1>3. ASSUME NEW s \in Sessions, Request(s) \/ Connect(s)
      PROVE  EInv'
    BY <1>1, <1>3, RequestsKeepEInv
<1> QED BY <1>1, <1>2, <1>3, DeparturesKeepEInv DEF Next

\* A transaction in which a statement was answered with an error is never
\* committed, nor is a commit sent for it (handlers.rs:209-229 and 391-397),
\* unless the proxy refused the statement or the value itself.
THEOREM AnErrorKeepsFromCommitting == RefusesNothing /\ Spec => []ErrorNeverCommits
<1>1. RefusesNothing /\ Init => EInv
    BY DEF Init, EInv, ErrorsAreMarked, CommitsAreClean, CommittedAreClean, EndingsAreSent,
        UnusedIsUnheard, InTransaction, At, EndSteps
<1>2. IInv /\ EInv => ErrorNeverCommits
    BY DEF EInv, CommitsAreClean, CommittedAreClean, ErrorNeverCommits, At
<1> QED BY <1>1, <1>2, InvariantHolds, NextKeepsEInv, PTL DEF Spec

-----------------------------------------------------------------------------
(* Aborted transactions are known, and COMMIT is the truth                 *)

\* Every statement is answered, and FETCH 0 is never sent.
NothingIsLost == "lost" \notin Replies /\ "cursor" \notin Traffic

\* What a connection knows of the transaction it has open, by what it awaits.
\* Only while a probe runs may the transaction be aborted without the
\* connection having failed, and then the probe's savepoint is there.
Fits(s) ==
    LET tx == server[transaction[s]] IN
    /\ call[s].step \in {"idle", "first", "shape", "retry", "savepoint"} =>
        (tx.status = "aborted" => failed[s]) /\ "probe" \notin tx.marks
    /\ call[s].step \in {"probe", "release"} => tx.status # "aborted"
    /\ call[s].step \in {"probe", "rewind", "release"} /\ IsLive(tx) => "probe" \in tx.marks

OpenFit == \A s \in Sessions : InTransaction(s) => Fits(s)

\* What is being committed has not been aborted.
CommitsFit == \A s \in Sessions : At(s, "commit") => server[call[s].tx].status # "aborted"

\* The savepoints of a transaction that is over are gone.
DeadAreBare == \A tx \in Txs : ~Live(tx) => server[tx].marks = {}

\* A probe of one call is in no transaction, and no handler waits for FETCH 0.
CallsFit ==
    \A s \in Sessions :
        /\ At(s, "oneCall") => call[s].tx = NoTx /\ ~InTransaction(s)
        /\ ~At(s, "fetch")

FInv ==
    /\ NothingIsLost
    /\ OpenFit
    /\ CommitsFit
    /\ DeadAreBare
    /\ CallsFit
    /\ CommitIsTrue

-----------------------------------------------------------------------------
(* What a statement that is answered does to its transaction               *)

LEMMA AnsweredEffects ==
    ASSUME NEW stmt \in Stmts, NEW mark \in Marks, NEW t \in Transactions,
           NEW e \in Effects(stmt, mark, t), e.reply # "lost"
    PROVE  e \in Attempts(stmt, mark, t)
BY DEF Effects

\* A transaction that is over stays as it is.
LEMMA OverStays ==
    ASSUME NEW stmt \in Stmts, NEW mark \in Marks, NEW t \in Transactions,
           NEW e \in Effects(stmt, mark, t), ~IsLive(t)
    PROVE  e.after = t
<1>1. \A a \in Attempts(stmt, mark, t) : a.after = t
    BY DEF Attempts, Accepts, Failure, IsLive, Transactions
<1> QED BY <1>1 DEF Effects

\* The client's statements do not touch the probe's savepoint, and one that
\* succeeds finds or makes the transaction open.
LEMMA UserAttempts ==
    ASSUME NEW stmt \in Stmts, NEW t \in Transactions, NEW a \in Attempts(stmt, "user", t)
    PROVE  /\ "probe" \in a.after.marks <=> "probe" \in t.marks
           /\ a.reply \in {"ok", "unreturnable"} => a.after.status = "open"
BY DEF Attempts, Success, Failure, Transactions

\* The calls of a probe: the savepoint, what is asked behind it, the rewind and
\* the release.
LEMMA ProbeAttempts ==
    ASSUME NEW t \in Transactions, NEW stmt \in Stmts, NEW a \in Attempts(stmt, "probe", t)
    PROVE  /\ stmt = "savepoint" =>
                \/ a.reply = "ok" /\ a.after.status = "open" /\ "probe" \in a.after.marks
                \/ a.reply = "error" /\ a.after = t
           /\ stmt = "query" => a.after.marks = t.marks /\ (IsLive(a.after) => IsLive(t))
           /\ stmt = "rewind" /\ (IsLive(t) => "probe" \in t.marks) =>
                \/ a.reply = "ok" /\ a.after.status = "open" /\ "probe" \in a.after.marks
                \/ a.reply = "error" /\ ~IsLive(t) /\ a.after = t
           /\ stmt = "release" /\ t.status # "aborted" /\ (IsLive(t) => "probe" \in t.marks) =>
                \/ a.after.status = "open" /\ "probe" \notin a.after.marks
                \/ ~IsLive(t) /\ a.after = t
<1>1. CASE stmt = "savepoint"
    BY <1>1 DEF Attempts, Accepts, Success, Failure, Transactions
<1>2. CASE stmt = "query"
    BY <1>2 DEF Attempts, Accepts, Success, Failure, Transactions, IsLive
<1>3. CASE stmt = "rewind"
    BY <1>3 DEF Attempts, Accepts, Success, Failure, Transactions, IsLive
<1>4. CASE stmt = "release"
    BY <1>4 DEF Attempts, Accepts, Success, Failure, Transactions, IsLive
<1> QED BY <1>1, <1>2, <1>3, <1>4 DEF Stmts

\* What a statement leaves alone: every other transaction, and one that is
\* over; one it ends up in is bare if it is over.
LEMMA RanLeaves ==
    ASSUME TypeOK, NothingIsLost, DeadAreBare, NEW stmt \in Stmts, NEW mark \in Marks,
           NEW tx \in Txs \cup {NoTx}, NEW reply, Ran(stmt, mark, tx, reply)
    PROVE  /\ \A t \in Txs : t # tx \/ ~Live(t) => server'[t] = server[t]
           /\ DeadAreBare'
           /\ tx \in Txs => \E a \in Attempts(stmt, mark, server[tx]) :
                                a.reply = reply /\ server'[tx] = a.after
<1>1. CASE tx = NoTx
    BY <1>1, SessionAssumption DEF Ran, DeadAreBare, Live
<1>2. CASE tx # NoTx
    <2>1. PICK e \in Effects(stmt, mark, server[tx]) :
                e.reply = reply /\ server' = [server EXCEPT ![tx] = e.after]
        BY <1>2 DEF Ran
    <2>2. tx \in Txs /\ server[tx] \in Transactions /\ e.reply # "lost"
        BY <1>2, <2>1 DEF TypeOK, Ran, NothingIsLost
    <2>3. e \in Attempts(stmt, mark, server[tx])
        BY <2>2, AnsweredEffects
    <2>4. ~Live(tx) => e.after = server[tx]
        BY <2>2, OverStays DEF Live
    <2>5. IsLive(server[tx]) => IsLive(e.after)
        BY <2>2, <2>3 DEF Attempts, Success, Failure, IsLive
    <2>6. \A t \in Txs : server'[t] = IF t = tx THEN e.after ELSE server[t]
        BY <2>1 DEF TypeOK
    <2>7. DeadAreBare'
        BY <2>2, <2>4, <2>5, <2>6 DEF DeadAreBare, Live
    <2> QED BY <2>1, <2>2, <2>3, <2>4, <2>6, <2>7
<1> QED BY <1>1, <1>2

-----------------------------------------------------------------------------
(* One connection's step                                                   *)

\* What a step of s may do to the transactions: change those s holds, take an
\* unused one, and never touch one that was committed.
Touches(s) ==
    /\ \A tx \in Txs :
        server'[tx] = server[tx] \/ tx \in Holds(s) \/ server[tx].status = "unused"
    /\ \A tx \in Txs : server[tx].status = "committed" => server'[tx] = server[tx]
    /\ DeadAreBare'

\* Such a step keeps the invariant when it keeps what is said of s itself.
LEMMA StepOfOne ==
    ASSUME IInv, FInv, NEW s \in Sessions, Touches(s), NEW at, NEW tr, NEW fa,
           call' = [call EXCEPT ![s] = at],
           transaction' = [transaction EXCEPT ![s] = tr],
           failed' = [failed EXCEPT ![s] = fa],
           at.step = "oneCall" => at.tx = NoTx /\ tr = NoTx, at.step # "fetch",
           tr # NoTx => Fits(s)',
           at.step = "commit" => server'[at.tx].status # "aborted",
           \A tx \in Txs : "COMMIT" \in told'[tx] =>
                "COMMIT" \in told[tx] \/ server'[tx].status = "committed"
    PROVE  FInv'
<1>1. call'[s] = at /\ transaction'[s] = tr /\ failed'[s] = fa
    BY DEF IInv, TypeOK
<1>2. ASSUME NEW t \in Sessions, t # s
      PROVE  call'[t] = call[t] /\ transaction'[t] = transaction[t] /\ failed'[t] = failed[t]
    BY <1>2 DEF IInv, TypeOK
<1>3. ASSUME NEW t \in Sessions, t # s, NEW tx \in Holds(t) \cap Txs
      PROVE  server'[tx] = server[tx]
    BY <1>3 DEF IInv, Exclusive, UnusedIsUnknown, Touches
<1>4. OpenFit'
    <2>1. ASSUME NEW t \in Sessions, t # s, transaction[t] # NoTx
          PROVE  Fits(t)'
        <3>1. transaction[t] \in Holds(t) \cap Txs
            BY <2>1 DEF Holds, Slot, IInv, TypeOK
        <3>2. server'[transaction[t]] = server[transaction[t]]
            BY <1>3, <2>1, <3>1
        <3>3. Fits(t)
            BY <2>1 DEF FInv, OpenFit, InTransaction
        <3> QED BY <1>2, <2>1, <3>2, <3>3 DEF Fits
    <2> QED BY <1>1, <1>2, <2>1 DEF OpenFit, InTransaction
<1>5. CommitsFit'
    <2>1. ASSUME NEW t \in Sessions, t # s, call[t].step = "commit"
          PROVE  server'[call[t].tx].status # "aborted"
        <3>1. call[t].tx \in Holds(t) \cap Txs
            BY <2>1 DEF Holds, InHand, EndSteps, IInv, HandsAreIds
        <3> QED BY <1>3, <2>1, <3>1 DEF FInv, CommitsFit, At
    <2> QED BY <1>1, <1>2, <2>1 DEF CommitsFit, At
<1>6. CallsFit'
    BY <1>1, <1>2 DEF FInv, CallsFit, At, InTransaction
<1>7. CommitIsTrue'
    BY DEF FInv, CommitIsTrue, Touches
<1> QED BY <1>4, <1>5, <1>6, <1>7 DEF FInv, NothingIsLost, Touches

\* A step that leaves the cluster alone touches nothing.
LEMMA QuietTouches ==
    ASSUME FInv, NEW s \in Sessions, UNCHANGED server
    PROVE  Touches(s)
BY DEF Touches, FInv, DeadAreBare, Live

\* The answer to a statement in the connection's own transaction, or in one of
\* its own on the cluster.
LEMMA RanTouches ==
    ASSUME IInv, FInv, NEW s \in Sessions, NEW stmt \in Stmts, NEW mark \in Marks, NEW reply,
           call[s].tx = NoTx \/ call[s].tx \in Holds(s),
           Ran(stmt, mark, call[s].tx, reply)
    PROVE  Touches(s)
<1>1. call[s].tx \in Txs \cup {NoTx}
    BY DEF IInv, TypeOK
<1>2. /\ \A t \in Txs : t # call[s].tx \/ ~Live(t) => server'[t] = server[t]
      /\ DeadAreBare'
    BY <1>1, RanLeaves DEF IInv, FInv
<1>3. \A t \in Txs : server[t].status = "committed" => ~Live(t)
    BY DEF Live, IsLive
<1> QED BY <1>2, <1>3, SessionAssumption DEF Touches

\* A transaction given out.
LEMMA OpenedTouches ==
    ASSUME IInv, FInv, NEW s \in Sessions, NEW tx \in Txs, Opened(tx)
    PROVE  Touches(s) /\ server'[tx] = Begun
BY DEF Opened, Touches, IInv, TypeOK, FInv, DeadAreBare, Live, IsLive, Begun

\* The end of a transaction that s has in hand, or its failure.
LEMMA EndsTouches ==
    ASSUME IInv, FInv, NEW s \in Sessions, NEW tx \in Holds(s) \cap Txs,
           NEW after \in {Committed(server[tx]), RolledBack(server[tx])},
           Ends(tx, after) \/ EndFails(tx, after)
    PROVE  Touches(s)
<1>1. server' = server \/ (Live(tx) /\ server' = [server EXCEPT ![tx] = after])
    BY DEF Ends, EndFails
<1>2. after.marks = {}
    BY DEF Committed, RolledBack, Over
<1> QED BY <1>1, <1>2 DEF Touches, IInv, TypeOK, FInv, DeadAreBare, Live, IsLive

LEMMA SameEntry ==
    ASSUME NEW S, NEW T, NEW f \in [S -> T], NEW x \in S
    PROVE  f = [f EXCEPT ![x] = f[x]]
OBVIOUS

\* A step that moves the call of s only, in the transaction it has open or
\* outside of one.
LEMMA CallStep ==
    ASSUME IInv, FInv, NEW s \in Sessions, Touches(s), NEW step, NEW tx, NEW stmt,
           Await(s, step, tx, stmt), UNCHANGED <<transaction, failed>>,
           step \notin {"commit", "fetch"}, step = "oneCall" => tx = NoTx /\ ~InTransaction(s),
           InTransaction(s) => Fits(s)',
           \A t \in Txs : "COMMIT" \in told'[t] =>
                "COMMIT" \in told[t] \/ server'[t].status = "committed"
    PROVE  FInv'
<1>1. transaction' = [transaction EXCEPT ![s] = transaction[s]]
    BY DEF IInv, TypeOK
<1>2. failed' = [failed EXCEPT ![s] = failed[s]]
    BY SameEntry, Zenon DEF IInv, TypeOK
<1> DEFINE at == [step |-> step, tx |-> tx, stmt |-> stmt]
<1>3. call' = [call EXCEPT ![s] = at] /\ at.step = step /\ at.tx = tx
    BY DEF Await
<1> HIDE DEF at
<1>4. at.step = "oneCall" => at.tx = NoTx /\ transaction[s] = NoTx
    BY <1>3 DEF InTransaction
<1>5. at.step # "fetch" /\ at.step # "commit"
    BY <1>3
<1>6. transaction[s] # NoTx => Fits(s)'
    BY DEF InTransaction
<1> DEFINE fa == failed[s]
<1>7. failed' = [failed EXCEPT ![s] = fa]
    BY <1>2
<1> HIDE DEF fa
<1> QED BY <1>1, <1>3, <1>4, <1>5, <1>6, <1>7, StepOfOne

\* Telling about anything but a commit adds no COMMIT.
LEMMA ToldOtherwise ==
    ASSUME TypeOK, NEW tx, NEW what, what # "COMMIT", Tell(tx, what) \/ UNCHANGED told
    PROVE  \A t \in Txs : "COMMIT" \in told'[t] => "COMMIT" \in told[t]
BY DEF Tell, TypeOK

-----------------------------------------------------------------------------
(* Requests                                                                *)

LEMMA RequestsKeepFInv ==
    ASSUME IInv, FInv, NEW s \in Sessions, Request(s) \/ Connect(s)
    PROVE  FInv'
<1>1. UNCHANGED server => Touches(s)
    BY QuietTouches
<1>2. CASE CommitRequest(s) \/ RollbackRequest(s)
    <2>1. PICK step \in EndSteps :
            /\ TakeAndEnd(s, step)
            /\ step = "commit" => ~failed[s]
        BY <1>2 DEF CommitRequest, RollbackRequest, EndSteps
    <2>2. Idle(s) /\ InTransaction(s)
        BY <1>2 DEF CommitRequest, RollbackRequest
    <2>3. step = "commit" => server[transaction[s]].status # "aborted"
        BY <2>1, <2>2 DEF FInv, OpenFit, Fits, Idle, At
    <2> DEFINE at == [step |-> step, tx |-> transaction[s], stmt |-> "query"]
    <2>4. /\ call' = [call EXCEPT ![s] = at]
          /\ transaction' = [transaction EXCEPT ![s] = NoTx]
          /\ failed' = [failed EXCEPT ![s] = FALSE]
          /\ UNCHANGED <<server, told>>
        BY <2>1 DEF TakeAndEnd, Await
    <2>5. at.step \notin {"oneCall", "fetch"}
        BY DEF EndSteps
    <2>6. at.step = step /\ at.tx = transaction[s]
        OBVIOUS
    <2> HIDE DEF at
    <2> QED BY <1>1, <2>3, <2>4, <2>5, <2>6, StepOfOne
<1>3. CASE RefuseStatement(s)
    <2>1. UNCHANGED <<transaction, failed, call, server>>
        BY <1>3 DEF RefuseStatement
    <2>2. \A t \in Txs : "COMMIT" \in told'[t] => "COMMIT" \in told[t]
        BY <1>3, ToldOtherwise DEF RefuseStatement, IInv
    <2>3. CommitIsTrue'
        BY <2>1, <2>2 DEF FInv, CommitIsTrue
    <2> QED BY <2>1, <2>3 DEF FInv, NothingIsLost, OpenFit, Fits, InTransaction, CommitsFit,
                DeadAreBare, Live, CallsFit, At
<1>4. CASE BeginRequest(s)
    BY <1>1, <1>4, CallStep DEF BeginRequest
<1>5. CASE ExecuteRequest(s)
    <2>1. PICK stmt \in Stmts : Await(s, "first", transaction[s], stmt)
        BY <1>5 DEF ExecuteRequest, Forwarded, Stmts
    <2>2. Idle(s) /\ UNCHANGED <<transaction, failed, server, told>>
        BY <1>5 DEF ExecuteRequest
    <2>3. InTransaction(s) => Fits(s)'
        BY <2>1, <2>2 DEF Await, Fits, FInv, OpenFit, Idle, At, IInv, TypeOK
    <2> QED BY <1>1, <2>1, <2>2, <2>3, CallStep
<1>6. CASE DescribeRequest(s)
    <2>1. Idle(s) /\ UNCHANGED <<transaction, failed, server, told>>
        BY <1>6 DEF DescribeRequest
    <2>2. CASE InTransaction(s)
        <3>1. Await(s, "savepoint", transaction[s], "query")
            BY <1>6, <2>2 DEF DescribeRequest
        <3>2. Fits(s)'
            BY <2>1, <2>2, <3>1 DEF Await, Fits, FInv, OpenFit, Idle, At, IInv, TypeOK
        <3> QED BY <1>1, <2>1, <3>1, <3>2, CallStep
    <2>3. CASE ~InTransaction(s)
        BY <1>1, <1>6, <2>1, <2>3, CallStep DEF DescribeRequest
    <2> QED BY <2>2, <2>3
<1>7. CASE CursorRequest(s)
    BY <1>7 DEF CursorRequest, FInv, NothingIsLost
<1>8. CASE Connect(s)
    BY <1>1, <1>8, CallStep DEF Connect, Done, IInv, SlotFree, At, InTransaction
<1> QED BY <1>2, <1>3, <1>4, <1>5, <1>6, <1>7, <1>8 DEF Request

-----------------------------------------------------------------------------
(* Replies                                                                 *)

LEMMA BeginsKeepFInv ==
    ASSUME IInv, FInv, NEW s \in Sessions, BeginReply(s) \/ OwnBeginReply(s)
    PROVE  FInv'
<1>1. ~InTransaction(s) /\ UNCHANGED told
    BY DEF BeginReply, OwnBeginReply, At, IInv, SlotFree, InTransaction
<1>2. BeginFails => Touches(s)
    BY QuietTouches, OpenedTouches DEF BeginFails
<1>3. CASE OwnBeginReply(s)
    BY <1>1, <1>2, <1>3, OpenedTouches, CallStep DEF OwnBeginReply, Done
<1>4. CASE BeginReply(s) /\ UNCHANGED <<transaction, failed>>
    <2>1. Touches(s) /\ Done(s)
        BY <1>2, <1>4, OpenedTouches DEF BeginReply
    <2> QED BY <1>1, <1>4, <2>1, CallStep DEF Done
<1>5. ASSUME NEW tx \in Txs, Opened(tx), BeginReply(s),
             transaction' = [transaction EXCEPT ![s] = tx],
             failed' = [failed EXCEPT ![s] = FALSE]
      PROVE  FInv'
    <2> DEFINE at == [step |-> "idle", tx |-> NoTx, stmt |-> "query"]
    <2>1. call' = [call EXCEPT ![s] = at] /\ at.step = "idle"
        BY <1>5 DEF BeginReply, Done, Await
    <2>2. Touches(s) /\ server'[tx] = Begun
        BY <1>5, OpenedTouches
    <2>3. Fits(s)'
        BY <1>5, <2>1, <2>2 DEF Fits, Begun, IInv, TypeOK
    <2> HIDE DEF at
    <2> QED BY <1>1, <1>5, <2>1, <2>2, <2>3, StepOfOne
<1> QED BY <1>3, <1>4, <1>5 DEF BeginReply

\* What is committed was not aborted, so that COMMIT is true.
LEMMA EndRepliesKeepFInv ==
    ASSUME IInv, FInv, NEW s \in Sessions,
           CommitReply(s) \/ RollbackReply(s) \/ OwnRollbackReply(s)
    PROVE  FInv'
<1> DEFINE tx == call[s].tx
<1>1. /\ tx \in Holds(s) \cap Txs /\ ~InTransaction(s)
      /\ Done(s) /\ UNCHANGED <<transaction, failed>>
    BY DEF CommitReply, RollbackReply, OwnRollbackReply, At, EndSteps, OwnSteps, Holds, InHand,
        IInv, HandsAreIds, SlotFree, InTransaction
<1>2. Touches(s)
    BY <1>1, EndsTouches DEF CommitReply, RollbackReply, OwnRollbackReply
<1>3. \A t \in Txs : "COMMIT" \in told'[t] =>
        "COMMIT" \in told[t] \/ server'[t].status = "committed"
    <2>1. CASE CommitReply(s) /\ Ends(tx, Committed(server[tx])) /\ Tell(tx, "COMMIT")
        <3>1. server[tx].status = "open"
            BY <2>1 DEF CommitReply, FInv, CommitsFit, Ends, Live, IsLive
        <3>2. server'[tx].status = "committed"
            BY <1>1, <2>1, <3>1 DEF Ends, Committed, Over, IInv, TypeOK
        <3> QED BY <2>1, <3>2 DEF Tell
    <2>2. CASE UNCHANGED told \/ Tell(tx, "ROLLBACK")
        BY <2>2, ToldOtherwise DEF IInv
    <2> QED BY <2>1, <2>2 DEF CommitReply, RollbackReply, OwnRollbackReply
<1> QED BY <1>1, <1>2, <1>3, CallStep DEF Done

\* A statement marks the transaction when it fails, and one that comes back
\* has found it open.
LEMMA StatementsKeepFInv ==
    ASSUME IInv, FInv, NEW s \in Sessions, FirstReply(s) \/ ShapeReply(s) \/ RetryReply(s)
    PROVE  FInv'
<1> DEFINE tx == transaction[s]
<1>1. PICK stmt \in Stmts, reply \in AllReplies :
        /\ Ran(stmt, "user", call[s].tx, reply)
        /\ \/ FailStatement(s)
           \/ reply \in {"ok", "unreturnable"} /\ Deliver(s)
           \/ /\ reply \in {"ok", "unreturnable"} /\ UNCHANGED <<failed, told>>
              /\ \E step \in {"shape", "retry"}, at \in {tx, call[s].tx} : Await(s, step, at, "query")
    <2>1. call[s].stmt \in Stmts /\ "query" \in Stmts
        BY DEF IInv, TypeOK, Stmts
    <2>2. CASE FirstReply(s)
        BY <2>1, <2>2 DEF FirstReply
    <2>3. CASE ShapeReply(s)
        BY <2>1, <2>3 DEF ShapeReply
    <2>4. CASE RetryReply(s)
        BY <2>1, <2>4 DEF RetryReply
    <2> QED BY <2>2, <2>3, <2>4
<1>2. call[s].step \in {"first", "shape", "retry"} /\ UNCHANGED transaction
    BY DEF FirstReply, ShapeReply, RetryReply, At
<1>3. call[s].tx = tx
    BY <1>2 DEF IInv, CallInOwnTransaction, RunSteps
<1>4. Touches(s)
    BY <1>1, <1>3, RanTouches DEF Marks, Holds, Slot
<1>5. ASSUME InTransaction(s)
      PROVE  /\ "probe" \notin server'[tx].marks
             /\ reply \in {"ok", "unreturnable"} => server'[tx].status = "open"
    <2>1. tx \in Txs
        BY <1>5 DEF InTransaction, IInv, TypeOK
    <2>2. PICK a \in Attempts(stmt, "user", server[tx]) : a.reply = reply /\ server'[tx] = a.after
        BY <1>1, <1>3, <2>1, RanLeaves DEF Marks, IInv, FInv
    <2>3. "probe" \notin server[tx].marks /\ server[tx] \in Transactions
        BY <1>2, <1>5, <2>1 DEF FInv, OpenFit, Fits, IInv, TypeOK
    <2> QED BY <2>2, <2>3, UserAttempts
<1>6. CASE FailStatement(s)
    <2> DEFINE at == [step |-> "idle", tx |-> NoTx, stmt |-> "query"]
    <2>1. call' = [call EXCEPT ![s] = at] /\ at.step = "idle"
        BY <1>6 DEF FailStatement, Done, Await
    <2>2. failed' = [failed EXCEPT ![s] = failed[s] \/ InTransaction(s)]
        BY <1>6 DEF FailStatement, MarkFailed
    <2>3. transaction' = [transaction EXCEPT ![s] = tx]
        BY <1>2 DEF IInv, TypeOK
    <2>4. tx # NoTx => Fits(s)'
        BY <1>2, <1>5, <2>1, <2>2 DEF Fits, InTransaction, IInv, TypeOK
    <2>5. \A t \in Txs : "COMMIT" \in told'[t] => "COMMIT" \in told[t]
        BY <1>6, ToldOtherwise DEF FailStatement, IInv
    <2> HIDE DEF at
    <2> QED BY <1>4, <2>1, <2>2, <2>3, <2>4, <2>5, StepOfOne
<1>7. CASE reply \in {"ok", "unreturnable"} /\ ~FailStatement(s)
    <2>1. PICK step \in {"idle", "shape", "retry"} : \E at : Await(s, step, at, "query")
        BY <1>1, <1>7 DEF Deliver, Done
    <2>2. UNCHANGED <<transaction, failed>>
        BY <1>1, <1>2, <1>7 DEF Deliver
    <2>3. \A t \in Txs : "COMMIT" \in told'[t] => "COMMIT" \in told[t]
        BY <1>1, <1>7, ToldOtherwise DEF Deliver, IInv
    <2>4. InTransaction(s) => Fits(s)'
        BY <1>5, <1>7, <2>1, <2>2 DEF Await, Fits, IInv, TypeOK
    <2> QED BY <1>4, <2>1, <2>2, <2>3, <2>4, CallStep
<1> QED BY <1>1, <1>6, <1>7

\* The savepoint stands before a probe asks anything, and is gone before the
\* describe is answered, unless the transaction is.
LEMMA ProbesKeepFInv ==
    ASSUME IInv, FInv, NEW s \in Sessions,
           \/ SavepointReply(s) \/ ProbeReply(s) \/ RewindReply(s) \/ ReleaseReply(s)
           \/ OneCallReply(s) \/ OwnProbeReply(s) \/ CursorReply(s)
    PROVE  FInv'
<1> DEFINE tx == transaction[s]
<1>1. UNCHANGED <<transaction, failed, told>>
    BY DEF SavepointReply, ProbeReply, RewindReply, ReleaseReply, OneCallReply, OwnProbeReply,
        CursorReply
<1>2. CASE CursorReply(s)
    BY <1>2 DEF CursorReply, FInv, CallsFit
<1>3. CASE OneCallReply(s)
    <2>1. Touches(s) /\ Done(s)
        BY <1>3, RanTouches DEF OneCallReply, FInv, CallsFit, Stmts, Marks
    <2>2. ~InTransaction(s)
        BY <1>3 DEF OneCallReply, FInv, CallsFit
    <2> QED BY <1>1, <2>1, <2>2, CallStep DEF Done
<1>4. CASE OwnProbeReply(s)
    <2>1. ~InTransaction(s) /\ call[s].tx \in Holds(s)
        BY <1>4 DEF OwnProbeReply, At, OwnSteps, Holds, InHand, IInv, SlotFree, InTransaction
    <2>2. Touches(s)
        BY <1>4, <2>1, RanTouches DEF OwnProbeReply, Stmts, Marks
    <2> QED BY <1>1, <1>4, <2>1, <2>2, CallStep DEF OwnProbeReply
<1>5. ASSUME NEW stmt \in Stmts, NEW reply, Ran(stmt, "probe", call[s].tx, reply),
             call[s].step \in ProbeSteps
      PROVE  /\ Touches(s)
             /\ InTransaction(s) => tx \in Txs /\ server[tx] \in Transactions /\ Fits(s)
                    /\ \E a \in Attempts(stmt, "probe", server[tx]) :
                            a.reply = reply /\ server'[tx] = a.after
    <2>1. call[s].tx = tx /\ tx \in Txs \cup {NoTx}
        BY <1>5 DEF IInv, CallInOwnTransaction, TypeOK
    <2>2. Touches(s)
        BY <1>5, <2>1, RanTouches DEF Marks, Holds, Slot
    <2> QED BY <1>5, <2>1, <2>2, RanLeaves DEF Marks, IInv, TypeOK, FInv, OpenFit, InTransaction
<1>6. CASE SavepointReply(s)
    <2>1. PICK reply : Ran("savepoint", "probe", call[s].tx, reply)
            /\ IF reply = "ok" THEN Await(s, "probe", call[s].tx, "query") ELSE Done(s)
        BY <1>6 DEF SavepointReply
    <2>2. call[s].step = "savepoint" /\ "savepoint" \in ProbeSteps /\ "savepoint" \in Stmts
        BY <1>6 DEF SavepointReply, At, ProbeSteps, Stmts
    <2>3. InTransaction(s) => Fits(s)'
        <3>1. CASE reply = "ok"
            BY <1>1, <1>5, <2>1, <2>2, <3>1, ProbeAttempts DEF Await, Fits, IInv, TypeOK
        <3>2. CASE reply # "ok"
            BY <1>1, <1>5, <2>1, <2>2, <3>2, ProbeAttempts DEF Done, Await, Fits, IInv, TypeOK
        <3> QED BY <3>1, <3>2
    <2> QED BY <1>1, <1>5, <2>1, <2>2, <2>3, CallStep DEF Done
<1>7. CASE ProbeReply(s)
    <2>1. PICK reply : Ran("query", "probe", call[s].tx, reply)
        BY <1>7 DEF ProbeReply
    <2>2. call[s].step = "probe" /\ "probe" \in ProbeSteps /\ "query" \in Stmts
        BY <1>7 DEF ProbeReply, At, ProbeSteps, Stmts
    <2>3. Await(s, "rewind", call[s].tx, "query")
        BY <1>7 DEF ProbeReply
    <2>4. InTransaction(s) => Fits(s)'
        BY <1>1, <1>5, <2>1, <2>2, <2>3, ProbeAttempts DEF Await, Fits, IInv, TypeOK
    <2> QED BY <1>1, <1>5, <2>1, <2>2, <2>3, <2>4, CallStep
<1>8. CASE RewindReply(s)
    <2>1. PICK reply : Ran("rewind", "probe", call[s].tx, reply)
            /\ IF reply = "ok" THEN Await(s, "release", call[s].tx, "query") ELSE Done(s)
        BY <1>8 DEF RewindReply
    <2>2. call[s].step = "rewind" /\ "rewind" \in ProbeSteps /\ "rewind" \in Stmts
        BY <1>8 DEF RewindReply, At, ProbeSteps, Stmts
    <2>3. InTransaction(s) => Fits(s)'
        <3>1. CASE reply = "ok"
            BY <1>1, <1>5, <2>1, <2>2, <3>1, ProbeAttempts DEF Await, Fits, IInv, TypeOK
        <3>2. ASSUME reply # "ok", InTransaction(s)
              PROVE  Fits(s)'
            <4>1. ~IsLive(server[tx]) /\ server'[tx] = server[tx]
                BY <1>5, <2>1, <2>2, <3>2, ProbeAttempts DEF Fits
            <4>2. server'[tx].marks = {} /\ server'[tx].status # "aborted"
                BY <1>5, <2>1, <2>2, <3>2, <4>1 DEF FInv, DeadAreBare, Live, IsLive
            <4> QED BY <1>1, <2>1, <3>2, <4>2 DEF Done, Await, Fits, IInv, TypeOK
        <3> QED BY <3>1, <3>2
    <2> QED BY <1>1, <1>5, <2>1, <2>2, <2>3, CallStep DEF Done
<1>9. CASE ReleaseReply(s)
    <2>1. PICK reply : Ran("release", "probe", call[s].tx, reply)
        BY <1>9 DEF ReleaseReply
    <2>2. call[s].step = "release" /\ "release" \in ProbeSteps /\ "release" \in Stmts
        BY <1>9 DEF ReleaseReply, At, ProbeSteps, Stmts
    <2>3. Done(s)
        BY <1>9 DEF ReleaseReply
    <2>4. ASSUME InTransaction(s)
          PROVE  "probe" \notin server'[tx].marks /\ server'[tx].status # "aborted"
        <3>1. \/ server'[tx].status = "open" /\ "probe" \notin server'[tx].marks
              \/ ~IsLive(server[tx]) /\ server'[tx] = server[tx]
            BY <1>5, <2>1, <2>2, <2>4, ProbeAttempts DEF Fits
        <3> QED BY <1>5, <2>1, <2>2, <2>4, <3>1 DEF FInv, DeadAreBare, Live, IsLive
    <2>5. InTransaction(s) => Fits(s)'
        BY <1>1, <2>3, <2>4 DEF Done, Await, Fits, IInv, TypeOK
    <2> QED BY <1>1, <1>5, <2>1, <2>2, <2>3, <2>5, CallStep DEF Done
<1> QED BY <1>2, <1>3, <1>4, <1>6, <1>7, <1>8, <1>9

-----------------------------------------------------------------------------
(* Departures, and what the cluster does by itself                         *)

\* A transaction that is rolled back behind a connection's back is over, and
\* nothing is claimed of one that is but that it is bare.
LEMMA DeparturesKeepFInv ==
    ASSUME IInv, FInv,
           \/ \E s \in Sessions : Disconnect(s)
           \/ \E tx \in Txs : DetachedRollback(tx) \/ Expire(tx)
           \/ Stop
           \/ UNCHANGED vars
    PROVE  FInv'
<1>1. ASSUME NEW s \in Sessions, Disconnect(s)
      PROVE  FInv'
    <2> DEFINE at == [step |-> "closed", tx |-> NoTx, stmt |-> "query"]
    <2>1. /\ call' = [call EXCEPT ![s] = at] /\ at.step = "closed"
          /\ transaction' = [transaction EXCEPT ![s] = NoTx]
          /\ failed' = [failed EXCEPT ![s] = FALSE]
          /\ UNCHANGED <<server, told>>
        BY <1>1 DEF Disconnect, Await
    <2> HIDE DEF at
    <2> QED BY <2>1, QuietTouches, StepOfOne
<1>2. ASSUME NEW tx \in Txs, DetachedRollback(tx) \/ Expire(tx)
      PROVE  FInv'
    <2>1. /\ UNCHANGED <<transaction, failed, call, told>>
          /\ \/ UNCHANGED server
             \/ Live(tx) /\ server' = [server EXCEPT ![tx] = RolledBack(server[tx])]
        BY <1>2 DEF DetachedRollback, Expire, Ends, EndFails
    <2>2. \A t \in Txs :
            \/ server'[t] = server[t]
            \/ server'[t] = [status |-> "rolledback", marks |-> {}] /\ server[t].status # "committed"
        BY <2>1 DEF RolledBack, Over, Live, IsLive, IInv, TypeOK
    <2>3. OpenFit'
        BY <2>1, <2>2 DEF FInv, OpenFit, Fits, InTransaction, IsLive, IInv, TypeOK
    <2>4. CommitsFit'
        BY <2>1, <2>2 DEF FInv, CommitsFit, At, EndSteps, IInv, HandsAreIds
    <2>5. DeadAreBare' /\ CommitIsTrue'
        <3>1. DeadAreBare'
            BY <2>2 DEF FInv, DeadAreBare, Live
        <3>2. CommitIsTrue'
            BY <2>1, <2>2 DEF FInv, CommitIsTrue
        <3> QED BY <3>1, <3>2
    <2> QED BY <2>1, <2>3, <2>4, <2>5 DEF FInv, NothingIsLost, CallsFit, At, InTransaction
<1>3. CASE Stop
    BY <1>3 DEF Stop, FInv, NothingIsLost, OpenFit, InTransaction, CommitsFit, At, DeadAreBare, Live,
        CallsFit, CommitIsTrue
<1>4. CASE UNCHANGED vars
    BY <1>4 DEF vars, FInv, NothingIsLost, OpenFit, Fits, InTransaction, CommitsFit, At, DeadAreBare,
        Live, CallsFit, CommitIsTrue
<1> QED BY <1>1, <1>2, <1>3, <1>4

-----------------------------------------------------------------------------
(* The theorems                                                            *)

LEMMA NextKeepsFInv == IInv /\ FInv /\ [Next]_vars => FInv'
<1> SUFFICES ASSUME IInv, FInv, [Next]_vars PROVE FInv'
    OBVIOUS
<1>1. ASSUME NEW s \in Sessions, Reply(s)
      PROVE  FInv'
    BY <1>1, BeginsKeepFInv, EndRepliesKeepFInv, StatementsKeepFInv, ProbesKeepFInv DEF Reply
<1> QED BY <1>1, RequestsKeepFInv, DeparturesKeepFInv DEF Next

LEMMA FInvStarts == NothingIsLost /\ Init => FInv
BY DEF Init, FInv, OpenFit, InTransaction, CommitsFit, At, DeadAreBare, Fresh, CallsFit, CommitIsTrue

\* The strengthened invariant holds throughout.
THEOREM FailureInvariant == NothingIsLost /\ Spec => []FInv
BY FInvStarts, NextKeepsFInv, InvariantHolds, PTL DEF Spec

\* Between two messages a connection knows whether the cluster has aborted its
\* transaction: run_statement marks it, and a probe undoes what it broke
\* (handlers.rs:209-229, probe.rs:172-202).
THEOREM AbortsAreKnown == NothingIsLost /\ Spec => []FailureIsKnown
<1>1. FInv => FailureIsKnown
    BY DEF FInv, OpenFit, Fits, FailureIsKnown, Idle, At
<1> QED BY <1>1, FailureInvariant, PTL

\* Between two messages no probe has left its savepoint in the client's
\* transaction (probe.rs:187-202).
THEOREM ProbesLeaveNothing == NothingIsLost /\ Spec => []NoProbeLeftovers
<1>1. FInv => NoProbeLeftovers
    BY DEF FInv, OpenFit, Fits, NoProbeLeftovers, Idle, At
<1> QED BY <1>1, FailureInvariant, PTL

\* A client that is told COMMIT has its transaction committed, and not rolled
\* back because something had aborted it unnoticed (handlers.rs:391-397).
THEOREM CommitIsTheTruth == NothingIsLost /\ Spec => []CommitIsTrue
<1>1. FInv => CommitIsTrue
    BY DEF FInv
<1> QED BY <1>1, FailureInvariant, PTL

=============================================================================
