------------------------------- MODULE Session -------------------------------
(***************************************************************************)
(* The connections of the proxy and the Data API transactions they hold.   *)
(*                                                                         *)
(* The Data API has no connections, so a Session (src/session.rs) keeps    *)
(* what a PostgreSQL connection would: the id of its open transaction and  *)
(* whether a statement has failed inside it.  A connection handles one     *)
(* message at a time, and every Data API call is an await, so a handler    *)
(* (src/handlers.rs, src/probe.rs) is a chain of steps, each the arrival   *)
(* of the reply to the call it waits for.  Between two steps of a handler  *)
(* come the steps of other connections, of rollbacks that Drop spawned, of *)
(* the cluster expiring a transaction and of the whole proxy stopping.     *)
(*                                                                         *)
(* A call's effect and its reply are one step; a call whose reply is lost  *)
(* may or may not have had its effect.  Definitions whose name ends in     *)
(* _Mutant are slips the code could have made, for testing the properties. *)
(***************************************************************************)
EXTENDS Cluster

CONSTANTS
    Sessions,   \* client connections
    Txs,        \* the ids the Data API may give to transactions
    NoTx,       \* None, no transaction id
    Traffic,    \* the kinds of request the clients send
    Replies,    \* the replies a statement may get
    Faults      \* what else may go wrong

AllTraffic == {"statement", "savepoint", "describe", "cursor",
               "refused", "unconvertible"}
AllReplies == {"ok", "error", "unreturnable", "lost"}
AllFaults  == {"calls", "expiry", "stop"}

ASSUME SessionAssumption ==
    /\ NoTx \notin Txs
    /\ Traffic \subseteq AllTraffic
    /\ Replies \subseteq AllReplies
    /\ Faults \subseteq AllFaults

VARIABLES
    transaction,  \* Session::transaction
    failed,       \* Session::failed
    call,         \* the call the connection's handler awaits
    detached,     \* transactions whose rollback Drop has spawned
    server,       \* the cluster's transactions
    told,         \* history: what the client heard about a transaction
    ended,        \* history: transactions a commit or rollback was sent for
    stranded      \* history: transactions left behind when a call failed

vars == <<transaction, failed, call, detached, server, told, ended, stranded>>

\* What a handler may be waiting for.  "idle": for the next message.
EndSteps   == {"commit", "abandon", "rollback"}
RunSteps   == {"first", "shape", "retry", "fetch"}
ProbeSteps == {"savepoint", "probe", "rewind", "release"}
OwnSteps   == {"ownProbe", "ownRollback"}
Steps      == {"idle", "closed", "begin", "oneCall", "ownBegin"}
                \cup EndSteps \cup RunSteps \cup ProbeSteps \cup OwnSteps

TypeOK ==
    /\ transaction \in [Sessions -> Txs \cup {NoTx}]
    /\ failed \in [Sessions -> BOOLEAN]
    /\ call \in [Sessions -> [step : Steps, tx : Txs \cup {NoTx}, stmt : Stmts]]
    /\ detached \subseteq Txs
    /\ server \in [Txs -> Transactions]
    /\ told \in [Txs -> SUBSET {"error", "COMMIT", "ROLLBACK"}]
    /\ ended \subseteq Txs
    /\ stranded \subseteq Txs

Init ==
    /\ transaction = [s \in Sessions |-> NoTx]
    /\ failed = [s \in Sessions |-> FALSE]
    /\ call = [s \in Sessions |-> [step |-> "idle", tx |-> NoTx, stmt |-> "query"]]
    /\ detached = {}
    /\ server = [tx \in Txs |-> Fresh]
    /\ told = [tx \in Txs |-> {}]
    /\ ended = {}
    /\ stranded = {}

-----------------------------------------------------------------------------
(* Steps of a handler                                                      *)

Live(tx) == IsLive(server[tx])

At(s, step) == call[s].step = step
Idle(s) == At(s, "idle")
InTransaction(s) == transaction[s] # NoTx

Await(s, step, tx, stmt) ==
    call' = [call EXCEPT ![s] = [step |-> step, tx |-> tx, stmt |-> stmt]]

\* The handler has answered its message.
Done(s) == Await(s, "idle", NoTx, "query")

\* The client hears about the transaction tx, if it is one.
Tell(tx, what) ==
    told' = [t \in Txs |-> IF t = tx THEN told[t] \cup {what} ELSE told[t]]

\* ExecuteStatement in tx, or in no transaction, answers with reply.
Ran(stmt, mark, tx, reply) ==
    /\ reply \in Replies
    /\ IF tx = NoTx THEN UNCHANGED server
       ELSE \E e \in Effects(stmt, mark, server[tx]) :
                /\ e.reply = reply
                /\ server' = [server EXCEPT ![tx] = e.after]

\* An error that leaves no trace in the session.
MarkFailed_Mutant(s) == UNCHANGED failed

\* mark_failed: only an open transaction can have failed.
MarkFailed(s) == failed' = [failed EXCEPT ![s] = @ \/ InTransaction(s)]

\* A statement ends in an error that the handler answers for.
FailStatement(s) ==
    /\ MarkFailed(s)
    /\ Tell(transaction[s], "error")
    /\ Done(s)

\* BeginTransaction answers with a new id.
Opened(tx) ==
    /\ server[tx].status = "unused"
    /\ server' = [server EXCEPT ![tx] = Begun]

\* BeginTransaction fails: nothing was opened, or a transaction was whose id
\* never arrived.
BeginFails ==
    /\ "calls" \in Faults
    /\ \/ UNCHANGED <<server, stranded>>
       \/ \E tx \in Txs : Opened(tx) /\ stranded' = stranded \cup {tx}

\* CommitTransaction or RollbackTransaction succeeds: only for one still live.
Ends(tx, after) ==
    /\ Live(tx)
    /\ server' = [server EXCEPT ![tx] = after]

\* It fails, with or without having had its effect.
EndFails(tx, after) ==
    /\ ~Live(tx) \/ "calls" \in Faults
    /\ \/ UNCHANGED server
       \/ Ends(tx, after)
    /\ stranded' = IF IsLive(server'[tx]) THEN stranded \cup {tx} ELSE stranded

-----------------------------------------------------------------------------
(* BEGIN, COMMIT, ROLLBACK: run_transaction_control and Session's methods   *)

\* The supply of ids is bounded here and not in the service: a request that
\* would need one more than there are is not made.
IdsLeft ==
    Cardinality({s \in Sessions : call[s].step \in {"begin", "ownBegin"}})
        < Cardinality({tx \in Txs : server[tx].status = "unused"})

\* BEGIN that does not look whether a transaction is open already.
BeginRequest_Mutant(s) ==
    /\ Idle(s)
    /\ IdsLeft
    /\ Await(s, "begin", NoTx, "query")
    /\ UNCHANGED <<transaction, failed, detached, server, told, ended, stranded>>

\* BEGIN with a transaction open is answered at once and changes nothing.
BeginRequest(s) ==
    /\ Idle(s)
    /\ ~InTransaction(s)
    /\ IdsLeft
    /\ Await(s, "begin", NoTx, "query")
    /\ UNCHANGED <<transaction, failed, detached, server, told, ended, stranded>>

BeginReply(s) ==
    /\ At(s, "begin")
    /\ Done(s)
    /\ \/ \E tx \in Txs :
            /\ Opened(tx)
            /\ transaction' = [transaction EXCEPT ![s] = tx]
            /\ failed' = [failed EXCEPT ![s] = FALSE]
            /\ UNCHANGED stranded
       \/ BeginFails /\ UNCHANGED <<transaction, failed>>
    /\ UNCHANGED <<detached, told, ended>>

\* A commit or rollback that leaves the id in the slot.
TakeAndEnd_Mutant(s, step) ==
    /\ failed' = [failed EXCEPT ![s] = FALSE]
    /\ Await(s, step, transaction[s], "query")
    /\ ended' = ended \cup {transaction[s]}
    /\ UNCHANGED <<transaction, detached, server, told, stranded>>

\* commit and rollback take the id out of the slot before they call.
TakeAndEnd(s, step) ==
    /\ transaction' = [transaction EXCEPT ![s] = NoTx]
    /\ failed' = [failed EXCEPT ![s] = FALSE]
    /\ Await(s, step, transaction[s], "query")
    /\ ended' = ended \cup {transaction[s]}
    /\ UNCHANGED <<detached, server, told, stranded>>

\* COMMIT that does not ask whether the transaction has failed.
CommitRequest_Mutant(s) ==
    /\ Idle(s)
    /\ InTransaction(s)
    /\ TakeAndEnd(s, "commit")

\* COMMIT that sends its call with no transaction open as well.
CommitRequest_NoGuard_Mutant(s) ==
    /\ Idle(s)
    /\ TakeAndEnd(s, IF failed[s] THEN "abandon" ELSE "commit")

\* COMMIT of a failed transaction is a rollback.  With none open there is no
\* call to make and nothing to change.
CommitRequest(s) ==
    /\ Idle(s)
    /\ InTransaction(s)
    /\ TakeAndEnd(s, IF failed[s] THEN "abandon" ELSE "commit")

CommitReply(s) ==
    LET tx == call[s].tx IN
    /\ At(s, "commit")
    /\ Done(s)
    /\ \/ Ends(tx, Committed(server[tx])) /\ Tell(tx, "COMMIT") /\ UNCHANGED stranded
       \/ EndFails(tx, Committed(server[tx])) /\ UNCHANGED told
    /\ UNCHANGED <<transaction, failed, detached, ended>>

RollbackRequest(s) ==
    /\ Idle(s)
    /\ InTransaction(s)
    /\ TakeAndEnd(s, "rollback")

RollbackReply(s) ==
    LET tx == call[s].tx IN
    /\ At(s, "rollback") \/ At(s, "abandon")
    /\ Done(s)
    /\ \/ Ends(tx, RolledBack(server[tx])) /\ Tell(tx, "ROLLBACK") /\ UNCHANGED stranded
       \/ EndFails(tx, RolledBack(server[tx])) /\ UNCHANGED told
    /\ UNCHANGED <<transaction, failed, detached, ended>>

-----------------------------------------------------------------------------
(* Statements: run_statement and execute_with_fallback                     *)

\* The savepoint statements are forwarded like any other.
Forwarded(s) ==
    IF "savepoint" \in Traffic /\ InTransaction(s) THEN Stmts ELSE {"query"}

ExecuteRequest(s) ==
    /\ "statement" \in Traffic
    /\ Idle(s)
    /\ \E stmt \in Forwarded(s) : Await(s, "first", transaction[s], stmt)
    /\ UNCHANGED <<transaction, failed, detached, server, told, ended, stranded>>

\* The rows arrived, and may yet hold a value that cannot be put into the
\* format the client asked for (rows_response); the statement has run by then.
Deliver(s) ==
    /\ Done(s)
    /\ UNCHANGED failed
    /\ \/ UNCHANGED told
       \/ "unconvertible" \in Traffic /\ Tell(transaction[s], "error")

\* A shape query that leaves the transaction out.
FirstReply_Mutant(s) ==
    /\ At(s, "first")
    /\ \E reply \in AllReplies :
        /\ Ran(call[s].stmt, "user", call[s].tx, reply)
        /\ \/ reply = "ok" /\ Deliver(s)
           \/ reply \in {"error", "lost", "unreturnable"} /\ FailStatement(s)
           \/ /\ reply = "unreturnable"
              /\ Await(s, "shape", NoTx, "query")
              /\ UNCHANGED <<failed, told>>
    /\ UNCHANGED <<transaction, detached, ended, stranded>>

\* The first attempt.  A result that cannot be returned leads to the shape
\* query, unless the statement writes or does not open like a query.
FirstReply(s) ==
    /\ At(s, "first")
    /\ \E reply \in AllReplies :
        /\ Ran(call[s].stmt, "user", call[s].tx, reply)
        /\ \/ reply = "ok" /\ Deliver(s)
           \/ reply \in {"error", "lost", "unreturnable"} /\ FailStatement(s)
           \/ /\ reply = "unreturnable"
              /\ Await(s, "shape", transaction[s], "query")
              /\ UNCHANGED <<failed, told>>
    /\ UNCHANGED <<transaction, detached, ended, stranded>>

\* The columns of a zero-row run: casting some of them to text helps, or
\* nothing does (no columns, a name missing or repeated, nothing to cast).
ShapeReply(s) ==
    /\ At(s, "shape")
    /\ \E reply \in AllReplies :
        /\ Ran("query", "user", call[s].tx, reply)
        /\ \/ FailStatement(s)
           \/ /\ reply = "ok"
              /\ Await(s, "retry", call[s].tx, "query")
              /\ UNCHANGED <<failed, told>>
    /\ UNCHANGED <<transaction, detached, ended, stranded>>

\* A second attempt that falls back again when it fails the same way.
RetryReply_Mutant(s) ==
    /\ At(s, "retry")
    /\ \E reply \in AllReplies :
        /\ Ran("query", "user", call[s].tx, reply)
        /\ \/ reply = "ok" /\ Deliver(s)
           \/ reply \in {"error", "lost"} /\ FailStatement(s)
           \/ /\ reply = "unreturnable"
              /\ Await(s, "shape", transaction[s], "query")
              /\ UNCHANGED <<failed, told>>
    /\ UNCHANGED <<transaction, detached, ended, stranded>>

\* The second attempt is the last one.
RetryReply(s) ==
    /\ At(s, "retry")
    /\ \E reply \in AllReplies :
        /\ Ran("query", "user", call[s].tx, reply)
        /\ IF reply = "ok" THEN Deliver(s) ELSE FailStatement(s)
    /\ UNCHANGED <<transaction, detached, ended, stranded>>

\* A statement the proxy refuses to send (find_hazard), or whose parameters
\* it cannot convert (prepare_portal): the client hears an error, and the
\* transaction hears nothing.
RefuseStatement(s) ==
    /\ "refused" \in Traffic
    /\ Idle(s)
    /\ Tell(transaction[s], "error")
    /\ UNCHANGED <<transaction, failed, call, detached, server, ended, stranded>>

-----------------------------------------------------------------------------
(* Describe: probe.rs, and the cursor that pgwire knows nothing of          *)

\* The one-call probe whenever the text allows it.
DescribeRequest_Mutant(s) ==
    /\ "describe" \in Traffic
    /\ Idle(s)
    /\ \/ Await(s, "oneCall", transaction[s], "query")
       \/ InTransaction(s) /\ Await(s, "savepoint", transaction[s], "query")
       \/ ~InTransaction(s) /\ IdsLeft /\ Await(s, "ownBegin", NoTx, "query")
    /\ UNCHANGED <<transaction, failed, detached, server, told, ended, stranded>>

\* A describe that no cache answers.  Inside the client's transaction the
\* probe hides behind a savepoint; outside, one call may be enough, and if it
\* is not the probe opens a transaction of its own.
DescribeRequest(s) ==
    /\ "describe" \in Traffic
    /\ Idle(s)
    /\ \/ ~InTransaction(s) /\ Await(s, "oneCall", NoTx, "query")
       \/ InTransaction(s) /\ Await(s, "savepoint", transaction[s], "query")
       \/ ~InTransaction(s) /\ IdsLeft /\ Await(s, "ownBegin", NoTx, "query")
    /\ UNCHANGED <<transaction, failed, detached, server, told, ended, stranded>>

OneCallReply(s) ==
    /\ At(s, "oneCall")
    /\ \E reply \in AllReplies : Ran("query", "probe", call[s].tx, reply)
    /\ Done(s)
    /\ UNCHANGED <<transaction, failed, detached, told, ended, stranded>>

OwnBeginReply(s) ==
    /\ At(s, "ownBegin")
    /\ \/ \E tx \in Txs :
            /\ Opened(tx)
            /\ Await(s, "ownProbe", tx, "query")
            /\ UNCHANGED stranded
       \/ BeginFails /\ Done(s)
    /\ UNCHANGED <<transaction, failed, detached, told, ended>>

SavepointReply(s) ==
    LET tx == call[s].tx IN
    /\ At(s, "savepoint")
    /\ \E reply \in AllReplies :
        /\ Ran("savepoint", "probe", tx, reply)
        /\ IF reply = "ok" THEN Await(s, "probe", tx, "query") ELSE Done(s)
    /\ UNCHANGED <<transaction, failed, detached, told, ended, stranded>>

\* probe_inner: PREPARE, the catalogue read, the shape query.  All of them ran,
\* or one failed and the rest was skipped; the cleanup follows either way.
ProbeReply(s) ==
    LET tx == call[s].tx IN
    /\ At(s, "probe")
    /\ \E reply \in AllReplies : Ran("query", "probe", tx, reply)
    /\ Await(s, "rewind", tx, "query")
    /\ UNCHANGED <<transaction, failed, detached, told, ended, stranded>>

\* Answering as soon as the transaction has been rewound.
RewindReply_Mutant(s) ==
    /\ At(s, "rewind")
    /\ \E reply \in AllReplies : Ran("rewind", "probe", call[s].tx, reply)
    /\ Done(s)
    /\ UNCHANGED <<transaction, failed, detached, told, ended, stranded>>

RewindReply(s) ==
    LET tx == call[s].tx IN
    /\ At(s, "rewind")
    /\ \E reply \in AllReplies :
        /\ Ran("rewind", "probe", tx, reply)
        /\ IF reply = "ok" THEN Await(s, "release", tx, "query") ELSE Done(s)
    /\ UNCHANGED <<transaction, failed, detached, told, ended, stranded>>

\* Whatever comes of the cleanup is only logged.
ReleaseReply(s) ==
    /\ At(s, "release")
    /\ \E reply \in AllReplies : Ran("release", "probe", call[s].tx, reply)
    /\ Done(s)
    /\ UNCHANGED <<transaction, failed, detached, told, ended, stranded>>

OwnProbeReply(s) ==
    LET tx == call[s].tx IN
    /\ At(s, "ownProbe")
    /\ \E reply \in AllReplies : Ran("query", "probe", tx, reply)
    /\ Await(s, "ownRollback", tx, "query")
    /\ ended' = ended \cup {tx}
    /\ UNCHANGED <<transaction, failed, detached, told, stranded>>

OwnRollbackReply(s) ==
    LET tx == call[s].tx IN
    /\ At(s, "ownRollback")
    /\ Done(s)
    /\ \/ Ends(tx, RolledBack(server[tx])) /\ UNCHANGED stranded
       \/ EndFails(tx, RolledBack(server[tx]))
    /\ UNCHANGED <<transaction, failed, detached, told, ended>>

\* Describe of a portal pgwire does not hold may name an SQL cursor: FETCH 0
\* asks, in the client's transaction and with no savepoint.
CursorRequest(s) ==
    /\ "cursor" \in Traffic
    /\ Idle(s)
    /\ InTransaction(s)
    /\ Await(s, "fetch", transaction[s], "query")
    /\ UNCHANGED <<transaction, failed, detached, server, told, ended, stranded>>

CursorReply(s) ==
    /\ At(s, "fetch")
    /\ \E reply \in AllReplies : Ran("query", "user", call[s].tx, reply)
    /\ Done(s)
    /\ UNCHANGED <<transaction, failed, detached, told, ended, stranded>>

-----------------------------------------------------------------------------
(* Coming and going                                                        *)

\* A session dropped without a rollback.
Disconnect_Mutant(s) ==
    /\ Idle(s)
    /\ transaction' = [transaction EXCEPT ![s] = NoTx]
    /\ failed' = [failed EXCEPT ![s] = FALSE]
    /\ Await(s, "closed", NoTx, "query")
    /\ UNCHANGED <<detached, server, told, ended, stranded>>

\* The client goes away.  A handler runs to its end first; then the Session is
\* dropped, and Drop spawns the rollback of what is still open.
Disconnect(s) ==
    LET left == {transaction[s]} \ {NoTx} IN
    /\ Idle(s)
    /\ transaction' = [transaction EXCEPT ![s] = NoTx]
    /\ failed' = [failed EXCEPT ![s] = FALSE]
    /\ Await(s, "closed", NoTx, "query")
    /\ detached' = detached \cup left
    /\ ended' = ended \cup left
    /\ UNCHANGED <<server, told, stranded>>

\* A client connects and gets a Session of its own.
Connect(s) ==
    /\ At(s, "closed")
    /\ Done(s)
    /\ UNCHANGED <<transaction, failed, detached, server, told, ended, stranded>>

\* The spawned rollback is tried once; its failure is only logged.
DetachedRollback(tx) ==
    /\ tx \in detached
    /\ detached' = detached \ {tx}
    /\ \/ Ends(tx, RolledBack(server[tx])) /\ UNCHANGED stranded
       \/ EndFails(tx, RolledBack(server[tx]))
    /\ UNCHANGED <<transaction, failed, call, told, ended>>

\* The Data API gives up on a transaction (idle for three minutes).
Expire(tx) ==
    /\ "expiry" \in Faults
    /\ Live(tx)
    /\ server' = [server EXCEPT ![tx] = RolledBack(@)]
    /\ UNCHANGED <<transaction, failed, call, detached, told, ended, stranded>>

\* The process stops, and every Session with it, in the middle of whatever its
\* handler was doing; nothing it knew is on disk.
Stop ==
    /\ "stop" \in Faults
    /\ \E s \in Sessions : ~At(s, "closed")
    /\ transaction' = [s \in Sessions |-> NoTx]
    /\ failed' = [s \in Sessions |-> FALSE]
    /\ call' = [s \in Sessions |-> [step |-> "closed", tx |-> NoTx, stmt |-> "query"]]
    /\ detached' = {}
    /\ stranded' = stranded \cup {tx \in Txs : Live(tx)}
    /\ UNCHANGED <<server, told, ended>>

-----------------------------------------------------------------------------

Request(s) ==
    \/ BeginRequest(s) \/ CommitRequest(s) \/ RollbackRequest(s)
    \/ ExecuteRequest(s) \/ RefuseStatement(s)
    \/ DescribeRequest(s) \/ CursorRequest(s)

Reply(s) ==
    \/ BeginReply(s) \/ CommitReply(s) \/ RollbackReply(s)
    \/ FirstReply(s) \/ ShapeReply(s) \/ RetryReply(s)
    \/ OneCallReply(s) \/ OwnBeginReply(s) \/ SavepointReply(s) \/ ProbeReply(s)
    \/ RewindReply(s) \/ ReleaseReply(s) \/ OwnProbeReply(s) \/ OwnRollbackReply(s)
    \/ CursorReply(s)

Next ==
    \/ \E s \in Sessions : Request(s) \/ Reply(s) \/ Disconnect(s) \/ Connect(s)
    \/ \E tx \in Txs : DetachedRollback(tx) \/ Expire(tx)
    \/ Stop

Spec == Init /\ [][Next]_vars

\* Every call is answered, if only by the client library's timeout, and the
\* runtime polls every task; what clients ask for is up to them.
Fairness ==
    /\ \A s \in Sessions : WF_vars(Reply(s))
    /\ \A tx \in Txs : WF_vars(DetachedRollback(tx))

FairSpec == Spec /\ Fairness

-----------------------------------------------------------------------------
(* Who holds a transaction                                                 *)

\* A connection holds the transaction in its slot, the one its handler is
\* ending, and the one its probe opened.
Slot(s) == {transaction[s]} \ {NoTx}
InHand(s) == IF call[s].step \in EndSteps \cup OwnSteps THEN {call[s].tx} ELSE {}
Holds(s) == Slot(s) \cup InHand(s)

\* No transaction is in two hands: not in those of two connections, not twice
\* in those of one, and not in a connection's and in a detached rollback's.  A
\* commit that left the id in the slot (session.rs:299-306) would break it.
Exclusive ==
    /\ \A s \in Sessions : Slot(s) \cap InHand(s) = {}
    /\ \A s \in Sessions : Holds(s) \cap (detached \cup stranded) = {}
    /\ \A s, t \in Sessions : s # t => Holds(s) \cap Holds(t) = {}

\* A transaction alive on the cluster is held by a connection, on its way out
\* in a detached rollback, or was left behind by a call that failed or a stop:
\* no BEGIN overwrites an id and no disconnect forgets one (session.rs:287-296
\* and 388-410).  What is left behind waits for the Data API to expire it.
Accounted ==
    \A tx \in Txs : Live(tx) =>
        \/ \E s \in Sessions : tx \in Holds(s)
        \/ tx \in detached \cup stranded

\* Once a commit or a rollback has been sent for a transaction, its id is in no
\* slot and no statement goes to it again, whether the call succeeded or not
\* (the id is taken before the call, session.rs:299-316).
NoUseAfterEnd ==
    \A s \in Sessions :
        /\ Slot(s) \cap ended = {}
        /\ call[s].step \in RunSteps \cup ProbeSteps \cup {"ownProbe"}
                => call[s].tx \notin ended

\* A statement, and every step of a probe that borrows the transaction, runs in
\* the transaction the connection has open at that time: the id was read before
\* an await, and is still right after it (handlers.rs:191, probe.rs:172).
CallInOwnTransaction ==
    \A s \in Sessions :
        call[s].step \in RunSteps \cup ProbeSteps => call[s].tx = transaction[s]

-----------------------------------------------------------------------------
(* What the client is told                                                 *)

\* A transaction in which a statement was answered with an error is never
\* committed: COMMIT becomes a rollback (handlers.rs:391-397), whatever the
\* error was, a lost reply or an exhausted fallback included.
ErrorNeverCommits ==
    \A tx \in Txs : "error" \in told[tx] =>
        /\ "COMMIT" \notin told[tx]
        /\ \A s \in Sessions : At(s, "commit") => call[s].tx # tx

\* A client that is told COMMIT has its transaction committed, not rolled back
\* behind its back because something had aborted it.
CommitIsTrue ==
    \A tx \in Txs : "COMMIT" \in told[tx] => server[tx].status = "committed"

\* Whenever a connection is between two messages, a transaction the cluster has
\* aborted is one the connection knows to have failed (session.rs:208).  It
\* takes the probe's savepoint to keep this (probe.rs:34-37).
FailureIsKnown ==
    \A s \in Sessions : Idle(s) /\ InTransaction(s) =>
        (server[transaction[s]].status = "aborted" => failed[s])

\* COMMIT is turned into a rollback only when there is nothing left to commit:
\* the cluster has aborted the transaction or ended it.
CommitIsHonoured ==
    \A s \in Sessions : At(s, "abandon") => server[call[s].tx].status # "open"

\* Between two messages no probe has left its savepoint in the client's
\* transaction (probe.rs:187-202).
NoProbeLeftovers ==
    \A s \in Sessions : Idle(s) /\ InTransaction(s) =>
        "probe" \notin server[transaction[s]].marks

-----------------------------------------------------------------------------
(* Liveness                                                                *)

\* Every message is answered: the fallback and the probe are finite chains, and
\* the second attempt of a statement is the last (handlers.rs:209-229).
Answered ==
    \A s \in Sessions :
        ~Idle(s) /\ ~At(s, "closed") ~> Idle(s) \/ At(s, "closed")

\* When every client has gone and none comes back, nothing stays open on the
\* cluster, without waiting for the Data API to expire it.
NothingOutlivesItsClient ==
    (\A s \in Sessions : At(s, "closed"))
        ~> (\E s \in Sessions : ~At(s, "closed")) \/ (\A tx \in Txs : ~Live(tx))

=============================================================================
