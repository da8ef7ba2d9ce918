------------------------------ MODULE Cluster ------------------------------
(***************************************************************************)
(* The cluster behind the Data API, as far as the code in src/ depends on  *)
(* it: the life of one transaction and what a statement may do to it.  No  *)
(* part of this is in the repository.                                      *)
(***************************************************************************)
EXTENDS Naturals, FiniteSets

Statuses == {"unused", "open", "aborted", "committed", "rolledback"}
Marks    == {"user", "probe"}     \* savepoints, named for who sets them
Stmts    == {"query", "savepoint", "rewind", "release"}

\* One transaction: its status and the savepoints set in it.
Transactions == [status : Statuses, marks : SUBSET Marks]
Fresh == [status |-> "unused", marks |-> {}]
Begun == [status |-> "open", marks |-> {}]

IsLive(t) == t.status \in {"open", "aborted"}

\* An open transaction takes any statement, an aborted one only the rewind to a
\* savepoint; rewind and release need the savepoint to be there.
Accepts(stmt, mark, t) ==
    /\ t.status = "open" \/ (t.status = "aborted" /\ stmt = "rewind")
    /\ stmt \in {"rewind", "release"} => mark \in t.marks

Success(stmt, mark, t) ==
    [status |-> "open",
     marks  |-> IF stmt = "savepoint" THEN t.marks \cup {mark}
                ELSE IF stmt = "release" THEN t.marks \ {mark}
                ELSE t.marks]

\* An error aborts an open transaction.
Failure(t) ==
    [status |-> IF t.status = "open" THEN "aborted" ELSE t.status, marks |-> t.marks]

\* What becomes of a statement that reaches the cluster in transaction t: the
\* reply, and the transaction afterwards.  A query may always fail, and a
\* result that the Data API cannot return is no error to PostgreSQL.
Attempts(stmt, mark, t) ==
    {a \in {[reply |-> "ok", after |-> Success(stmt, mark, t)],
            [reply |-> "unreturnable", after |-> Success(stmt, mark, t)],
            [reply |-> "error", after |-> Failure(t)]} :
        /\ a.reply = "ok" => Accepts(stmt, mark, t)
        /\ a.reply = "unreturnable" => Accepts(stmt, mark, t) /\ stmt = "query"
        /\ a.reply = "error" => ~Accepts(stmt, mark, t) \/ stmt = "query"}

\* The same with the network between: a lost call may or may not have arrived.
Effects(stmt, mark, t) ==
    Attempts(stmt, mark, t)
        \cup {[reply |-> "lost", after |-> t]}
        \cup {[reply |-> "lost", after |-> a.after] : a \in Attempts(stmt, mark, t)}

\* COMMIT of an aborted transaction rolls it back and reports no error.  The
\* savepoints go with the transaction.
Over(status)  == [status |-> status, marks |-> {}]
Committed(t)  == Over(IF t.status = "open" THEN "committed" ELSE "rolledback")
RolledBack(t) == Over("rolledback")

=============================================================================
