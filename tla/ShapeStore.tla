----------------------------- MODULE ShapeStore -----------------------------
(***************************************************************************)
(* The statement shapes that connections remember: each connection its own *)
(* map, the process one they share (src/session.rs), filled by describes   *)
(* (src/probe.rs) and emptied by statements that change the schema         *)
(* (run_statement, src/handlers.rs).                                       *)
(*                                                                         *)
(* A shape is abstracted to the version of the schema it was read from.    *)
(* The clocks and the limits of the two maps are the business of LruCache; *)
(* here remembering one shape may cost any other one its place.            *)
(***************************************************************************)
EXTENDS Integers, FiniteSets

CONSTANTS
    Sessions,     \* client connections
    Texts,        \* statement texts, which are the keys of both maps
    MaxChanges,   \* how many schema changes one history may hold
    Lossy         \* whether the replies to statements may be lost

ASSUME ShapeStoreAssumption == MaxChanges \in Nat /\ Lossy \in BOOLEAN

VARIABLES
    schema,    \* the cluster: the version every connection sees
    draft,     \* the cluster: the version an open transaction has made, or none
    saved,     \* the cluster: the drafts that a transaction's savepoints go back to
    changes,   \* how many versions were ever made
    tx,        \* per connection, its transaction: "none", "open" or "aborted"
    failed,    \* Session::failed
    own,       \* Session::describe_cache
    shared,    \* SharedShapes::entries
    sharing,   \* SharedShapes::shared: whether the store keeps anything
    call,      \* what the connection's handler awaits
    published, \* history: the versions that everyone has ever seen
    raced,     \* history: texts whose shared shape was under way at a clear
    missed,    \* history: a change was made whose reply never came
    lastChange \* history: per connection, the last change it made for everyone

cluster == <<schema, draft, saved, changes, tx, published>>
vars == <<cluster, failed, own, shared, sharing, call, raced, missed, lastChange>>

\* Versions are numbered as they are made, and none is older than all of them.
Versions == 0..MaxChanges
NoDraft  == -1
Drafts   == Versions \cup {NoDraft}

\* Maps from the texts that are remembered to versions.
Maps == UNION {[held -> Versions] : held \in SUBSET Texts}
Nothing == [text \in {} |-> 0]

\* A describe waits for its probe to run and then for the answer, a change for
\* its statement to run and then for the reply that makes it forget.
Calls ==
    [at : {"idle"}]
    \cup [at : {"probe"}, text : Texts, shareable : BOOLEAN]
    \cup [at : {"answer"}, text : Texts, shareable : BOOLEAN, version : Versions, late : BOOLEAN]
    \cup [at : {"change"}]
    \cup [at : {"forget"}, version : Versions]

TypeOK ==
    /\ schema \in Versions
    /\ draft \in [Sessions -> Drafts]
    /\ saved \in [Sessions -> SUBSET Drafts]
    /\ changes \in Versions
    /\ tx \in [Sessions -> {"none", "open", "aborted"}]
    /\ failed \in [Sessions -> BOOLEAN]
    /\ own \in [Sessions -> Maps]
    /\ shared \in Maps
    /\ sharing \in BOOLEAN
    /\ call \in [Sessions -> Calls]
    /\ published \subseteq Versions
    /\ raced \subseteq Texts
    /\ missed \in BOOLEAN
    /\ lastChange \in [Sessions -> Versions]

IdleCall == [at |-> "idle"]

Init ==
    /\ schema = 0
    /\ draft = [s \in Sessions |-> NoDraft]
    /\ saved = [s \in Sessions |-> {}]
    /\ changes = 0
    /\ tx = [s \in Sessions |-> "none"]
    /\ failed = [s \in Sessions |-> FALSE]
    /\ own = [s \in Sessions |-> Nothing]
    /\ shared = Nothing
    /\ sharing \in BOOLEAN
    /\ call = [s \in Sessions |-> IdleCall]
    /\ published = {0}
    /\ raced = {}
    /\ missed = FALSE
    /\ lastChange = [s \in Sessions |-> 0]

-----------------------------------------------------------------------------

At(s, what) == call[s].at = what
Await(s, c) == call' = [call EXCEPT ![s] = c]

\* What a statement of s sees.
Visible(s) == IF draft[s] # NoDraft THEN draft[s] ELSE schema

\* A change keeps what it touches locked until its transaction ends, and other
\* connections' statements wait for it.
Locked(s) == \E other \in Sessions \ {s} : draft[other] # NoDraft

\* ShapeCache::insert: one other entry may have to make room.
Remembering(map, text, version) ==
    {[t \in (DOMAIN map \ cold) \cup {text} |-> IF t = text THEN version ELSE map[t]] :
        cold \in {{}} \cup {{t} : t \in DOMAIN map}}

-----------------------------------------------------------------------------
(* Transactions, whose life is Session's business                          *)

Begin(s) ==
    /\ At(s, "idle")
    /\ tx[s] = "none"
    /\ tx' = [tx EXCEPT ![s] = "open"]
    /\ UNCHANGED <<schema, draft, saved, changes, published, failed, own, shared, call, raced, missed,
                   lastChange>>

\* The transaction is over: the slot is empty and failed is false.
Ended(s) ==
    /\ draft' = [draft EXCEPT ![s] = NoDraft]
    /\ saved' = [saved EXCEPT ![s] = {}]
    /\ tx' = [tx EXCEPT ![s] = "none"]
    /\ failed' = [failed EXCEPT ![s] = FALSE]

\* A commit that takes it for granted that the transaction changed something.
Commit_Mutant(s) ==
    /\ At(s, "idle")
    /\ tx[s] = "open"
    /\ ~failed[s]
    /\ schema' = draft[s]
    /\ published' = published \cup {schema'}
    /\ Ended(s)
    /\ UNCHANGED <<changes, own, shared, call, raced, missed, lastChange>>

\* What the transaction changed becomes what everyone sees.  Nothing is
\* forgotten: that happened when the change ran.
Commit(s) ==
    /\ At(s, "idle")
    /\ tx[s] = "open"
    /\ ~failed[s]
    /\ schema' = Visible(s)
    /\ published' = published \cup {schema'}
    /\ Ended(s)
    /\ lastChange' = [lastChange EXCEPT ![s] = IF draft[s] = NoDraft THEN @ ELSE draft[s]]
    /\ UNCHANGED <<changes, own, shared, call, raced, missed>>

\* ROLLBACK, and COMMIT of a transaction that has failed or is aborted.
Rollback(s) ==
    /\ At(s, "idle")
    /\ tx[s] # "none"
    /\ Ended(s)
    /\ UNCHANGED <<schema, changes, published, own, shared, call, raced, missed, lastChange>>

\* SAVEPOINT, an ordinary statement to the proxy.
Savepoint(s) ==
    /\ At(s, "idle")
    /\ tx[s] = "open"
    /\ saved' = [saved EXCEPT ![s] = @ \cup {draft[s]}]
    /\ UNCHANGED <<schema, draft, changes, tx, published, failed, own, shared, call, raced, missed,
                   lastChange>>

\* ROLLBACK TO SAVEPOINT, another one: it undoes the changes made since, in an
\* aborted transaction too, and is none of those changes_schema knows, so that
\* nothing is forgotten; nor is failed reset.  (RELEASE only takes savepoints
\* away.)
RollbackTo(s) ==
    /\ At(s, "idle")
    /\ tx[s] # "none"
    /\ \E version \in saved[s] :
        /\ draft' = [draft EXCEPT ![s] = version]
        /\ saved' = [saved EXCEPT ![s] = {v \in @ : v <= version}]
    /\ tx' = [tx EXCEPT ![s] = "open"]
    /\ UNCHANGED <<schema, changes, published, failed, own, shared, call, raced, missed, lastChange>>

\* The Data API gives up on the transaction, whatever its connection does.
\* That one goes on naming it, and is refused.
Expire(s) ==
    /\ tx[s] # "none"
    /\ draft' = [draft EXCEPT ![s] = NoDraft]
    /\ saved' = [saved EXCEPT ![s] = {}]
    /\ tx' = [tx EXCEPT ![s] = "aborted"]
    /\ UNCHANGED <<schema, changes, published, failed, own, shared, call, raced, missed, lastChange>>

\* The client leaves and another takes its place, with a Session of its own.
Reconnect(s) ==
    /\ At(s, "idle")
    /\ Ended(s)
    /\ own' = [own EXCEPT ![s] = Nothing]
    /\ lastChange' = [lastChange EXCEPT ![s] = 0]
    /\ UNCHANGED <<schema, changes, published, shared, call, raced, missed>>

-----------------------------------------------------------------------------
(* Describe: describe_statement                                            *)

\* Every answer worth sharing.
Describe_Mutant(s, text) ==
    /\ At(s, "idle")
    /\ text \notin DOMAIN own[s] \cup DOMAIN shared
    /\ Await(s, [at |-> "probe", text |-> text, shareable |-> TRUE])
    /\ UNCHANGED <<cluster, failed, own, shared, raced, missed, lastChange>>

\* Neither the connection nor the process remembers the text (a describe that
\* one of them answers changes nothing here).  Only a probe that runs outside
\* the client's transaction is worth sharing.
Describe(s, text) ==
    /\ At(s, "idle")
    /\ text \notin DOMAIN own[s] \cup DOMAIN shared
    /\ Await(s, [at |-> "probe", text |-> text, shareable |-> tx[s] = "none"])
    /\ UNCHANGED <<cluster, failed, own, shared, raced, missed, lastChange>>

\* The probe reads the schema, and lets go of its locks when it rolls back.
ProbeRuns(s) ==
    /\ At(s, "probe")
    /\ tx[s] # "aborted"
    /\ ~Locked(s)
    /\ Await(s, [at |-> "answer", text |-> call[s].text, shareable |-> call[s].shareable,
                 version |-> Visible(s), late |-> FALSE])
    /\ UNCHANGED <<cluster, failed, own, shared, raced, missed, lastChange>>

\* A probe that fails leaves nothing behind, or an aborted transaction if its
\* rewind is lost; failed does not say so.
ProbeFails(s) ==
    /\ At(s, "probe")
    /\ \/ UNCHANGED tx
       \/ Lossy /\ tx[s] = "open" /\ tx' = [tx EXCEPT ![s] = "aborted"]
    /\ Await(s, IdleCall)
    /\ UNCHANGED <<schema, draft, saved, changes, published, failed, own, shared, raced, missed, lastChange>>

\* cache_shape, and SharedShapes::insert, which may drop what it is given (get
\* then finds nothing, as it does here).  The connection's own map is nobody
\* else's to see, so that the two inserts may be one step.
CacheShape(s) ==
    LET c == call[s] IN
    /\ At(s, "answer")
    /\ IF c.shareable /\ sharing
       THEN /\ shared' \in Remembering(shared, c.text, c.version)
            /\ raced' = IF c.late THEN raced \cup {c.text} ELSE raced \ {c.text}
       ELSE UNCHANGED <<shared, raced>>
    /\ \E map \in Remembering(own[s], c.text, c.version) : own' = [own EXCEPT ![s] = map]
    /\ Await(s, IdleCall)
    /\ UNCHANGED <<cluster, failed, missed, lastChange>>

-----------------------------------------------------------------------------
(* A statement that changes the schema: run_statement                       *)

\* The proxy sends it whatever it knows of the transaction.
Change(s) ==
    /\ At(s, "idle")
    /\ changes < MaxChanges
    /\ Await(s, [at |-> "change"])
    /\ UNCHANGED <<cluster, failed, own, shared, raced, missed, lastChange>>

\* The statement runs, in the open transaction or in one of its own.
Changed(s) ==
    /\ tx[s] # "aborted"
    /\ ~Locked(s)
    /\ changes < MaxChanges
    /\ changes' = changes + 1
    /\ IF tx[s] = "open"
       THEN draft' = [draft EXCEPT ![s] = changes + 1] /\ UNCHANGED <<schema, published>>
       ELSE schema' = changes + 1 /\ published' = published \cup {schema'} /\ UNCHANGED draft
    /\ UNCHANGED <<saved, tx>>

ChangeRuns(s) ==
    /\ At(s, "change")
    /\ Changed(s)
    /\ Await(s, [at |-> "forget", version |-> changes'])
    /\ UNCHANGED <<failed, own, shared, raced, missed, lastChange>>

\* An error aborts the open transaction and undoes what was changed since its
\* latest savepoint.
Refused(s) ==
    /\ tx[s] = "open"
    /\ tx' = [tx EXCEPT ![s] = "aborted"]
    /\ \E version \in saved[s] \cup {NoDraft} :
        /\ \A v \in saved[s] : v <= version
        /\ draft' = [draft EXCEPT ![s] = version]
    /\ UNCHANGED <<schema, saved, changes, published>>

\* An error, or no reply at all: the proxy answers with an error before it
\* comes to forgetting anything.  The statement may never have arrived, and a
\* lost one may have run.
ChangeFails(s) ==
    /\ At(s, "change")
    /\ \/ UNCHANGED <<cluster, missed>>
       \/ Refused(s) /\ UNCHANGED missed
       \/ Lossy /\ Changed(s) /\ missed' = TRUE
    /\ failed' = [failed EXCEPT ![s] = tx[s] # "none"]
    /\ Await(s, IdleCall)
    /\ UNCHANGED <<own, shared, raced, lastChange>>

\* The answers under way when the shared map is emptied.
MarkedLate(s) ==
    [t \in Sessions |-> IF t = s THEN IdleCall
                        ELSE IF At(t, "answer") THEN [call[t] EXCEPT !.late = TRUE]
                        ELSE call[t]]

\* Emptying the connection's own map and leaving the shared one.
ForgetShapes_Own_Mutant(s) ==
    /\ At(s, "forget")
    /\ own' = [own EXCEPT ![s] = Nothing]
    /\ call' = MarkedLate(s)
    /\ lastChange' = [lastChange EXCEPT ![s] = IF tx[s] = "none" THEN call[s].version ELSE @]
    /\ UNCHANGED <<cluster, failed, shared, raced, missed>>

\* Emptying the shared map and leaving the connection's own.
ForgetShapes_Shared_Mutant(s) ==
    /\ At(s, "forget")
    /\ shared' = Nothing
    /\ raced' = {}
    /\ missed' = FALSE
    /\ call' = MarkedLate(s)
    /\ lastChange' = [lastChange EXCEPT ![s] = IF tx[s] = "none" THEN call[s].version ELSE @]
    /\ UNCHANGED <<cluster, failed, own>>

\* forget_shapes, once the statement has gone through.
ForgetShapes(s) ==
    /\ At(s, "forget")
    /\ own' = [own EXCEPT ![s] = Nothing]
    /\ shared' = Nothing
    /\ raced' = {}
    /\ missed' = FALSE
    /\ call' = MarkedLate(s)
    /\ lastChange' = [lastChange EXCEPT ![s] = IF tx[s] = "none" THEN call[s].version ELSE @]
    /\ UNCHANGED <<cluster, failed>>

-----------------------------------------------------------------------------

Next ==
    /\ UNCHANGED sharing
    /\ \E s \in Sessions :
        \/ Begin(s) \/ Commit(s) \/ Rollback(s) \/ Savepoint(s) \/ RollbackTo(s) \/ Expire(s)
        \/ Reconnect(s)
        \/ \E text \in Texts : Describe(s, text)
        \/ ProbeRuns(s) \/ ProbeFails(s) \/ CacheShape(s)
        \/ Change(s) \/ ChangeRuns(s) \/ ChangeFails(s) \/ ForgetShapes(s)

Spec == Init /\ [][Next]_vars

-----------------------------------------------------------------------------
(* Properties                                                              *)

\* A change that has run and is not forgotten yet.
Forgetting == \E s \in Sessions : At(s, "forget")

\* No connection is given, through the shared map, a shape that was only ever
\* seen inside a transaction: neither of a draft nor of a change that was undone,
\* by whatever kind of rollback (probe.rs:150-168, session.rs:333-346).
SharedIsCommitted == \A text \in DOMAIN shared : shared[text] \in published

\* The shared map misses a change in two ways only: a describe of that text was
\* under way while another connection forgot, and put its answer there
\* afterwards; or the reply to the change never came.  In any other order of
\* calls the forgetting reaches it, changes made inside a transaction and
\* committed later included (handlers.rs:158-163, session.rs:341-357).
StaleOnlyByRaceOrLoss ==
    ~Forgetting /\ ~missed => \A text \in DOMAIN shared : text \in raced \/ shared[text] = schema

\* What a connection worked out itself is never older than the last change it
\* made, for everyone or in its open transaction, as far as it has not heard of
\* an error there (session.rs:341-357, handlers.rs:158-163).  It may be newer
\* than the draft: ROLLBACK TO SAVEPOINT undoes changes and nothing is forgotten.
OwnFollowsOwnChanges ==
    \A s \in Sessions : \A text \in DOMAIN own[s] :
        ~At(s, "forget") =>
            /\ own[s][text] >= lastChange[s]
            /\ ~failed[s] => own[s][text] >= draft[s]

=============================================================================
