# A verification of aurora-data-api-proxy

The proxy speaks the PostgreSQL wire protocol to its clients and the RDS Data API
to an Aurora cluster. The Data API has no connections: a call names a
transaction, or runs in one of its own. Everything that PostgreSQL keeps in a
connection the proxy has to keep itself, and every call is an HTTP round trip that
may be slow, fail or be lost. That is where it can go wrong, and what the
modules in this directory are about.

File names below without a directory are those of `src/` in the repository.

## Inventory

| Component | State | Operations | What makes it correct |
|---|---|---|---|
| `Session` (session.rs:205-410) | the id of the open transaction, `failed`, the connection's own shapes, held tags | `begin`, `commit`, `rollback`, `mark_failed`, `execute_in`, `Drop` | one owner per transaction; none forgotten, none used after its end; `failed` agrees with the cluster |
| Handlers (handlers.rs) | none of their own | `run_statement`, `execute_with_fallback`, `run_transaction_control`, `describe_cursor`, `do_describe_portal`, `on_execute` | a failure is never followed by a commit; every message is answered; a statement runs once |
| Probe (probe.rs) | a counter for names | `describe_statement`, `run_probe`, `begin_probe`, `end_probe` | the client's transaction is as it was before |
| `ShapeCache` (session.rs:72-137) | entries with stamps, a limit, a clock | `get`, `insert`, `evict_coldest`, `clear` | bounded, and least recently used |
| `SharedShapes` and the connections' maps (session.rs:149-202, 326-357) | one map per process, one per connection | `cached_shape`, `cache_shape`, `forget_shapes` | nothing uncommitted is shared; nothing stale is answered |
| Held results (session.rs:366-385, handlers.rs:590-743) | tags keyed by a portal's address | `hold_tag`, `take_tag` | each Execute has the result of one run |
| Data API client (dataapi.rs) | none | `execute`, `begin_transaction`, `commit_transaction`, `rollback_transaction`, `map_sdk_error` | retries end at the deadline; only what did not run is sent again |
| SQL scanner (sql.rs) | none | `scan`, `rewrite_placeholders`, `split_statements`, `find_hazard`, `changes_schema`, `returning_items`, ... | quotes and comments end where PostgreSQL ends them; a name goes with the column it names |
| Results (exec.rs) and values (types.rs, params.rs) | none | `build_fields`, `encode_rows`, `text_to_binary`, `binary_to_text`, `to_sql_parameter`, ... | a value arrives as the value it was, in the type the client was told |
| Start-up (main.rs, config.rs, lib.rs) | the listening socket | one accept loop, one task per connection | - |
| The cluster (external) | transactions, savepoints, the schema | what the Data API offers | - |

How they interact: `main` spawns a task per connection; its `ProxyHandler` finds
the connection's `Session`; a handler calls `Session` methods, the probe, and
through them the Data API client. Connections share one `SharedShapes` (under a
mutex) and the cluster, and nothing else. `Drop for Session` spawns a task that
outlives the connection.

What is hard about it:

* every call is an `.await`, and what was read before it may be old after it
  (the transaction id, a shape);
* a call whose reply is lost may have run;
* a commit gives up its id before the call that may fail;
* the cluster aborts a transaction by itself on an error, and expires it by
  itself when it is idle; the proxy has to know the first and survive the second;
* a describe borrows the client's transaction and must leave no trace in it;
* a change to the schema has to reach maps that other connections fill at the
  same time;
* a type has a name in the metadata of a reply, another as an OID, a third in
  `regtype` and a fourth in a cast, and what a client is told of a column comes
  by one way and the column by another;
* the Data API returns some types not at all, others as other types, and errors
  as one string; the retry that gets around it changes the types of a result.

PROJECT.json lists each hazard at its line with the properties that watch it.

## Modules

| Module | What it models |
|---|---|
| `Cluster` | external: one transaction of the cluster, its savepoints, and what a statement may do to it, replies lost on the way included |
| `Session` | the connections and their transactions: session.rs, handlers.rs and probe.rs as chains of steps |
| `SessionMC` | instances of it |
| `SessionProofs` | its theorems |
| `ShapeCache` | the bounded map as a data type |
| `LruCache`, `LruCacheMC`, `LruCacheProofs` | one such map through its life, instances, theorems |
| `Lru` | the abstract specification: a least-recently-used map with neither clock nor stamps |
| `ShapeStore`, `ShapeStoreMC`, `ShapeStoreProofs` | the maps of all connections and the shared one, against a schema that changes |
| `Portals`, `PortalsMC`, `PortalsProofs` | the portals of one connection and the results that wait between Describe and Execute |
| `ResumeRetry`, `ResumeRetryMC`, `ResumeRetryProofs` | one Data API call against a cluster that may have to wake, with time |
| `SqlScan` | the lexer of sql.rs and the functions built on it, as operators on sequences of characters |
| `PgLexis` | external: where PostgreSQL's lexer ends literals, comments and words |
| `SqlReading`, `SqlReadingMC`, `SqlReadingProofs` | texts that grow, what `SqlScan` owes each of them, theorems |
| `Counting` | induction over a set of numbers and places of a sequence, for the proofs |
| `TypeNames` | the names of types, and the tables and rules that go from one to the other |
| `NumericText`, `ArrayText`, `ClockText` | numeric, array literals, dates and times between text and binary |
| `Conversion` | a field of a reply to text and binary, a parameter from either: types.rs and params.rs on top of these |
| `PgValues` | external: PostgreSQL's own text and binary formats, and what the Data API makes of a value |
| `DbError` | a failed call as an SQLSTATE, a message and fields |
| `ReturningList` | the names of a RETURNING clause, read off its tokens |
| `Delivery`, `DeliveryMC`, `DeliveryProofs` | one statement from Parse to its answer, through all of the above |

Definitions whose name ends in `_Mutant` are slips the code could have made. No
specification uses them; each shows that a property notices the slip.

### Session

`transaction` and `failed` are the fields of that name, one per connection.
`call` is what the connection's handler awaits: a step, the transaction the call
was made in and the kind of statement. `detached` holds the transactions whose
rollback `Drop` has spawned and `server` the cluster's side. `told`, `ended` and
`stranded` are history: what statements were answered inside a transaction,
which transactions a commit or rollback was sent for, and which were left behind
by a call that failed or by a stop.

pgwire hands a connection's messages to its handlers one at a time, so a connection is
`idle` or in the middle of one handler. A handler is cut at its awaits: a
`...Request` action is the part from the message to the first call, a `...Reply`
action takes the reply to the next call or to the end. A call's effect on the
cluster and its reply are one step; a lost call may or may not have had its
effect (`Effects`).

| Actions | Code |
|---|---|
| `BeginRequest`, `BeginReply` | `Session::begin`; BEGIN inside a transaction is answered at once and changes nothing, so it is no action |
| `CommitRequest`, `CommitReply`, `RollbackRequest`, `RollbackReply` | `run_transaction_control`, `Session::commit`, `rollback`. Step `abandon` is the rollback a COMMIT turns into. Outside a transaction they make no call |
| `ExecuteRequest`, `FirstReply`, `ShapeReply`, `RetryReply` | `run_statement` and `execute_with_fallback`: the first attempt, the zero-row query that finds the columns, the retry with casts |
| `RefuseStatement` | `find_hazard`'s refusal and a parameter `prepare_portal` cannot convert. A probe that `prepare_portal` makes first is a describe followed by a statement |
| `DescribeRequest`, `OneCallReply` | `describe_statement` when one call is enough |
| `OwnBeginReply`, `OwnProbeReply`, `OwnRollbackReply` | the probe in a transaction of its own |
| `SavepointReply`, `ProbeReply`, `RewindReply`, `ReleaseReply` | the probe behind a savepoint. `ProbeReply` stands for all the calls of `probe_inner`: each is a query in the same transaction, and the first that fails ends them |
| `CursorRequest`, `CursorReply` | `on_describe`, `describe_cursor` |
| `Connect`, `Disconnect`, `DetachedRollback` | `Session::new`, `Drop for Session` and the task it spawns |
| `Expire`, `Stop` | the Data API's idle timeout; the process ending with every connection in the middle of anything |

`told` records what statements, COMMIT and ROLLBACK were answered. A describe that
fails is an error for the client too, and no statement: the savepoint undoes it.

Abstractions: a statement is one of `query`, `savepoint`, `rewind`, `release`; its text
and its rows do not matter. There is one savepoint name for the client and one
for probes. Constants choose what a run is about: `Traffic` (what clients
send), `Replies` (what becomes of statements), `Faults` (`calls`: begin, commit
and rollback may fail; `expiry`; `stop`). Every bound is a constant or named: the
ids the Data API may give out are `Txs`, and `IdsLeft` keeps a BEGIN from being
sent when they would run out.

### ShapeCache, LruCache, Lru

`ShapeCache` gives each method as an operator on a record [entries, limit, clock].
`Coldest` and `Evictions` return sets, because a HashMap is walked in no fixed
order. `LruCache` drives one cache through every history of gets, inserts and
clears. `Lru` is what a bounded least-recently-used map promises, and the property
`IsTextbookLru` says that the cache implements it, answer for answer: `ByUse` puts each key at
its `Place`, the number of keys used no later than it, and is the order `Lru` keeps. The clock is a u64; at one tick per lookup it does not wrap, and the model
has it in `Nat`.

### ShapeStore

A shape is the version of the schema it was read from. A change makes a new
version, a draft while its transaction is open. `saved` holds the drafts its savepoints
go back to, NoDraft where there was none; SAVEPOINT and ROLLBACK TO SAVEPOINT are
ordinary statements to `run_statement`, and `changes_schema` (sql.rs:429) is false
for both, so that an undone draft costs no map an entry. `tx` is the
cluster's side of the transaction and `failed` the proxy's, which may differ: after a lost
reply or a ROLLBACK TO the proxy believes in a failure that is none, after an expiry or a
lost rewind of a probe it misses one. The proxy sends a
change or a probe whatever `failed` says, and only the COMMIT handler reads it.
An error undoes the draft down to the latest savepoint (`Refused`). `published` is history,
the versions that everyone has seen. RELEASE SAVEPOINT is left out, since it only takes
away drafts to go back to; so is a commit or rollback whose call fails: it
has happened, and is `Commit` or `Rollback`, or it has not, and its draft waits with
its lock for the expiry, which is a `Rollback` that comes late. `call` is what a handler awaits;
between `ProbeRuns` and `CacheShape`, and between `ChangeRuns` and
`ForgetShapes`, the reply is under way and other connections act. A connection's
own map is touched by its own handlers only, so that its part of `cache_shape`
and `forget_shapes` is one step with the part on the shared map. Remembering a
shape may cost any other one its place: which one is `LruCache`'s business. The
lock a change holds until its transaction ends (`Locked`) is PostgreSQL's, and is
assumed; without it there would be more stale shapes, not fewer. `sharing` is
`SharedShapes::shared`: with `--describe-cache connection` the store drops what it is
given, and every history is checked either way.

### Portals

`bound` is pgwire's portal store, `address` and `state` are a portal's
`Portal::state` (where it lives, and what pgwire has of its rows), and `pending` is
the session's map from addresses to tags. `runs` and `given` are history: which
portal each statement was run for, and how many Executes were answered with the end
of each run's result. A handler is one step, since a connection's messages are
handled in turn and nothing of this is shared; a run that fails leaves nothing
behind and is no step. An address is free once neither the store nor an entry's
`_keepalive` refers to its state, and `Bind` may choose any free one: the
allocator's freedom is what `hold_tag` has to be right against.

| Actions | Code |
|---|---|
| `Bind`, `Close` | pgwire's store (external) |
| `DescribePortal`, with `Run` and `HoldTag` | `do_describe_portal`, `hold_tag`; the transaction control it leaves to Execute |
| `ExecuteHeld`, with `TakeTag` | `on_execute` when a tag waits, `take_tag` |
| `ExecuteInitial`, `ExecuteSuspended` | `on_execute` when none does: pgwire calls `do_query` for a portal that has not run, and hands out what is parked otherwise |

What pgwire makes of a portal whose statement answered with a tag is left open
(`ExecuteInitial`): it may call it finished or may not.

### ResumeRetry

One call of `execute`, `begin_transaction`, `commit_transaction` or
`rollback_transaction`, from its start at time 0. `Attempt` is one `send` with what is decided
on its reply (`TriesAgain`, `IsResuming`, `TimeIsLeft`), `Wake` the end of a sleep. An attempt arrives at
the cluster at some time before its reply does, and may be refused because the
cluster sleeps, run, be refused for another reason, or be lost with or
without effect. One `send` is one attempt: the retries the AWS SDK makes below it
are not modelled. The program turns them on, with the SDK's defaults, in main.rs:26
(`aws_config::defaults(BehaviorVersion::latest())`); `EffectMatchesAnswer` is about the
loop in dataapi.rs and does not say that the SDK never repeats a statement that has run.

### SqlScan, PgLexis, SqlReading

A text is a sequence of characters, one letter standing for all that a rule does
not tell apart. `Scan` follows sql.rs from left to right; `PgLexis` says for each literal and
comment what the text between its ends is, after PostgreSQL's documentation
(standard_conforming_strings on). `SqlReading` grows a text piece by piece,
keeps what PostgreSQL reads in it (`lexemes`), what the scanner reads (`spans`), the
statements it is split into (`pieces`) and what is sent (`rewritten`), and its
invariants compare them. One letter, `p`, stands for the keywords `changes_schema` and
`modifies_data` look for.

Two kinds of text are left out of the comparison (`IsPlain`), because the scanner
reads them differently, and its comments hold otherwise:

* a backslash in a string that is no `E''` string. sql.rs:115-118 calls it harmless
  to treat it as an escape, "a standard-conforming string cannot end on the byte
  after a backslash either way". `'C:\'` does: the scanner takes the closing quote for
  escaped and reads on, a `$1` behind it is not rewritten and a `;` does not split.
* a dollar in the middle of a word. sql.rs:60-61 says that a `$` that is part of an
  identifier opens nothing, but `dollar_delimiter_len` does not look at what is
  before it, so that `a$b$` opens a dollar-quoted string, and `a$1` is rewritten.

`ArraySlice` is modelled as it is and no property claims that it finds every slice:
one whose bounds hold a bracket, a string or a comment passes, and `a[1:$1]` becomes
`a[1::p1]`, which reads as a cast.

### Delivery and the values it carries

`Delivery` follows one statement of one client. `statement` is given from the start by
what PostgreSQL would make of it: whether it writes, its columns with their types and
values, the type and value of its parameter and the type the client declared for
it, its RETURNING clause as tokens, an error it ends in. `told` and `toldParam` are
what Describe(statement) promised, `received` the parameter as the server gets it,
`runs` how often the statement ran, `original` the error a fallback is about and
`answer` what the client has in the end.

| Action | Code |
|---|---|
| `DescribeStatement` | `do_describe_statement`: of a read the fields by the metadata of a zero-row query (`build_fields`), of a write the OIDs of the prepared statement and the names of its RETURNING clause (`returning_fields`, `types_from_oids`) |
| `Bind` | `prepare_portal`: the probe's parameter types merged with the declared ones, the bytes or the text read as the type that comes out of it. The probe may have failed, or not been made |
| `Run` | the first call of `execute_with_fallback`, and `rows_response` or `map_sdk_error` on what it returns |
| `Fallback`, `FallbackFails` | the zero-row query of `cast_fallback_sql`, what it casts, and the second and last call |

The rows come with PostgreSQL's values (`PgValues`, external), and the properties compare
what the client decodes with the value the cluster had. That is the point of the
two descriptions: `Conversion` is what types.rs does, `PgValues` what the documentation of
PostgreSQL's formats says, and neither is defined by the other.

What is kept of a value is what a conversion can get wrong. A numeric has its digits,
because `numeric_to_binary` groups them, and groups of two digits show what groups of
four do; a text is a sequence of the characters an array literal treats differently,
the word null being one; a fraction of a second is two digits, a day two seconds, and
the calendar a name per day, since it is chrono's; a float and a uuid are names; an
integer is a number, and bytes are what they hold with their width. Types are all that
map_type knows, with arrays, serials, an enum, a domain, `interval` and `inet`.

A statement has at most one parameter and two columns: parameters are converted each by
itself, and columns meet only in the fallback, which the pairs in
`TwoColumns` are chosen for. The schema does not change while a statement is under
way (that is `ShapeStore`'s subject) and transactions are `Session`'s. A client sends
binary parameters only if it has been told or has said their type, as drivers do.

## What the runs show

| Run | Instance | Shows |
|---|---|---|
| `lru_cache` | 4 keys, 2 shapes, limit 2, 7 ticks of the clock | the bound, distinct stamps, at most the coldest dropped, refinement of `Lru` |
| `session_safe` | 2 connections, 2 ids, all traffic but cursors, all faults, no lost reply | no transaction in two hands, none lost track of, none used after its end, every call in the connection's own; `failed` is known whenever the cluster has aborted, COMMIT is the truth, no savepoint of a probe stays |
| `session_live` | 2 connections, 2 ids, statements fail in every way, their replies are lost and begin, commit and rollback do not fail | an error keeps from committing, every message is answered, nothing stays open when all clients have gone |
| `shapes_shared` | 2 connections, 2 texts, 2 changes, savepoints, expiry, lost replies, shared map in use or not | nothing is shared that not everyone has seen; the shared map is stale after a race or a lost reply only; a connection's own map does not fall behind its own changes |
| `portals` | 2 names, 3 portals, 3 addresses, 4 runs | an Execute gets its own portal's result, no result is given twice, nothing kept is run again, the map does not grow |
| `resume_retry` | timeout 20, backoff 1 to 4, round trips up to 2, wakings up to 1 late, a cluster that wakes at any time from 0 to 32 | no effect twice, the call ends in time, and gives up only on a cluster asleep to the end |
| `sql_reading` | every text of at most 6 characters over five sets of pieces | the scanner's spans are PostgreSQL's literals and comments, and so are parameters, statements and keywords; no dollar-quoted string is corrupted |
| `delivery` | some 10,000 statements: one column of every type with many values, two columns of different treatment, a parameter of every type, RETURNING clauses, errors | rows and parameters arrive as the values they were, in text and binary; as Describe promised, or in one of two known cases not; a read survives a column that cannot be returned; errors keep their fields, RETURNING columns their names |

The runs `session_safe` and `session_live` leave something out so that the rest can be said: lost
replies and cursors are not in the first, refusals not in the second. What
`session_safe` says of who holds a transaction is proved for all traffic and every fault,
lost replies included (`SessionProofs`).

### What the checks found

Four runs expect a violation. Each shows a place where code and words part:

* `session_refused`: an error the proxy raises itself (a hazard, a parameter, a value)
  does not mark the transaction, and a COMMIT after it commits. session.rs:208
  says otherwise of `failed`.
* `session_savepoint`: after ROLLBACK TO, `failed` stays true and COMMIT is turned
  into a rollback, though savepoints are listed as working.
* `sql_subscript`: a parameter in brackets, `ARRAY[$1]`, is refused as an array slice,
  because the rewritten text has a colon there; sql.rs:504-505 says those colons
  are expected.
* `delivery_character`: a parameter whose type was inferred as `char(n)` is cast to
  `character`, which is `character(1)`, and an explicit cast truncates. `bit` is the
  same. sql.rs:252-258 says that the cast reads the text as a literal would be read.

More is written into the properties of passing runs, as the exceptions they name:

* `describe_cursor` (handlers.rs:303) sends `FETCH 0` in the client's transaction without
  a savepoint: for a name that is no cursor the cluster aborts the transaction and
  `failed` stays false, so `FailureIsKnown` does not hold once `Traffic` has "cursor".
* A describe under way while another connection changes the schema puts the old shape
  into the shared map just emptied (probe.rs:96): `StaleOnlyByRaceOrLoss`.
* `forget_shapes` (session.rs:341-357) empties one connection's own map and the shared one.
  Other connections' own maps, which answer first, keep the old shapes. Nor does undoing a
  change clear any: after ALTER, SAVEPOINT, ALTER, Describe and ROLLBACK TO SAVEPOINT, or after
  a ROLLBACK, the connection goes on describing the statement by the change that was undone.
  `OwnFollowsOwnChanges` therefore says of the connection that made a change only that its
  answers are no older than the change; they may be newer than what it sees.
* A read that was promised a date or a timestamp and fails over `infinity` is run again
  with that column cast to text; the rows say so, but a driver that goes by
  Describe(statement) in binary reads eight characters as a time. COMPATIBILITY.md:77-79
  says that a client never decodes a wrong value (`MisreadOnlyAfterTemporalCast`).
* RETURNING of a domain, or of an array of an enum or a domain, is told as text, because the proxy does not know
  the OID, and delivered as the base type or as an array of texts. exec.rs:189-195 says that a
  column is described as exactly the type that will be sent (same property).
* Bytes of a declared type the proxy cannot read (`interval`, `inet`) become a lossy text,
  and bytes of a timestamptz lose their zone, so that a transaction in another zone than UTC
  shifts them (`ParametersArriveUnchanged`).
* 24:00:00 is no time to chrono: in binary it fails (`RowsArriveUnchanged`).
* A result with two reasons to fail, `interval` and `infinity`, is not recovered: there is one
  retry, for the reason seen first (`UnreturnableIsRecovered`).
* A detail or a hint with "; " in it ends up in the message (`ErrorsKeepTheirFields`).
* A RETURNING column of `u.*` where `u` is not the target, or of `(c).*` of a composite column, and one
  of a constant, can get a wrong name; expressions and casts get `?column?` where PostgreSQL would say more
  (`NamesAreNotMispaired`).

Read and not modelled: the zero-row query wraps the client's text in
parentheses, where a trailing `;` or `--` comment breaks it, and the probe or the
fallback is given up.

Why the bounds are enough: two connections are as many as two steps can
interleave over one transaction or one map; a connection that ends one
transaction and opens the next, while another connection's is open, needs two ids; an
eviction needs more keys than places, and `DropsOnlyTheColdest` and the refinement two places. Two names and
three portals let one be described, replaced and its address be given to a third
while an entry is left; four runs let an Execute repeat what a Describe did. Two changes
put one on either side of a savepoint, or one that is undone before one that is committed. Six characters hold a nested comment, a doubled
quote between two others, or a dollar-quoted string with a body. A numeric of five
digits in groups of two has three groups, of which one may be zero on either end or
between, and an array of two elements a comma, a NULL and a quote. A
third connection, transaction or place adds repetitions and no new kind of
step, and the theorems below hold for any number of them.

Fairness: `FairSpec` says that a reply that can come does come
(`WF_vars(Reply(s))`: the HTTP client has timeouts, and the runtime polls every
task) and that a spawned rollback runs. It says nothing of requests: clients may
stay silent for ever. `NothingOutlivesItsClient` is about calls that do not fail and a
process that does not stop: the spawned rollback is tried once, so that a failed one, or a
stop before it, leaves the transaction to the Data API's timeout. So does a commit that fails
after it has emptied the slot (session.rs:299-306). `Accounted` does not find
fault with these: it counts them as `stranded`, and shows that nothing else is ever left behind.

## What is proved

TLAPS checks every proof. Assumed are the constants' types
(`SessionAssumption`, `LimitAssumption`, `PortalsAssumption`, `ResumeAssumption`,
`ShapeStoreAssumption`, `ClockTextAssumption`, `NumericTextAssumption`, `ConversionAssumption`), what a
theorem names as its hypothesis, and of statements that they are what PostgreSQL and the Data
API deal in (`DeliveryAssumption`, `IsWellFormed` in `Delivery`'s `Init`): columns of a type with at
most one value each, errors of at least one part with an SQLSTATE behind it. Two assumptions are facts
the provers do not know and TLC evaluates: a power of ten is positive (`PowerAssumption`), and no other
second has the name of the day's end (`SecondNamesAssumption`).

The library's induction theorems cannot be instantiated here, so that an induction
over a sequence is done with a least counterexample: `SomeNumberIsLeast` gives it, and
`CountingUp` turns it into a rule for one set of numbers. Recursive functions are shown to exist the same
way, before anything is said of their values. `Counting` holds these rules.

`SessionProofs`: for any sets of connections and ids, all traffic and all
faults, `Spec => []IInv`, and from it the type invariant and `Exclusive`,
`Accounted`, `NoUseAfterEnd`, `CallInOwnTransaction`. None of the four is
inductive alone. `NoUseAfterEnd` needs `CallInOwnTransaction` (a call under way
names the slot's id) and `Exclusive` (that id is in no other hand when a commit is
sent for it); `Exclusive` needs `UnusedIsUnknown` (a new id is in no hand) and
`SlotFree` (a handler that opens a transaction has an empty slot); `Accounted`
rests on `HandsAreIds`. `IInv` is their conjunction. One lemma, `QuietStep`, covers
every step that moves no id; `OpenedKeepsIInv`, `TakeAndEndKeepsIInv`,
`EndReplyKeepsIInv`, `DisconnectKeepsIInv` and `StopKeepsIInv` cover those that do.

Its second part: `ErrorNeverCommits`, under the hypothesis that the proxy refuses
nothing itself (`RefusesNothing`), for any instance and every fault. `EInv` adds to
`IInv` that a connection knows of every error in its open transaction, that
what is being committed has seen none, and that an ended transaction hears of no more.
The hypothesis is needed: `session_refused` is the counterexample without it.

Its third part: `FailureIsKnown`, `NoProbeLeftovers` and `CommitIsTrue`, for any instance and
every fault but a lost reply, as long as no SQL cursor is described (`NothingIsLost`).
The three need each other: COMMIT is true because what is being committed was not
aborted (`CommitsFit`), which is known because `failed` is right when COMMIT arrives, which needs
that a probe ended as it should. `Fits` says what a connection knows at each
step of a probe: aborted only between the probe and the rewind, and then the
savepoint is there, so that the rewind succeeds. `DeadAreBare` covers transactions that
expire on the way. `StepOfOne` reduces every step of a connection to what it does to its own
transaction, by `Exclusive`.

`LruCacheProofs`: for any limit, any keys and an unbounded clock, the type
invariant, `WithinLimit`, `StampsOrderEntries` and the action property
`DropsOnlyTheColdest`. `WithinLimit` is preserved because an eviction from a full
cache removes exactly one entry, and `StampsOrderEntries` because the clock ticks before every stamp.
`CacheIsTextbookLru` is the refinement: the mapping takes a key's place to be the number of keys used
no later, places are a bijection because stamps differ (`StampsOrderEntries`), and then a get that hits warms
its key (everything used later moves one place down), an insert appends, and an eviction
beheads the order, because what it drops has place 1.

`PortalsProofs`: for any names, portals and addresses, the type invariant,
`HeldTagIsOwn`, `NoResultTwice` and `NothingKeptIsRunAgain`. `HeldTagIsOwn` rests on
`AddressesDiffer` (portals that are alive have different addresses, and an entry
keeps its portal alive) and `EntriesAreOwn` (an entry's key is its portal's address and
its tag a run of that portal). `NoResultTwice` needs that a held or parked run
has not been given and is held or parked once, `NothingKeptIsRunAgain` that the
latest run of a portal is parked, held or given (`LatestIsKept`). For finitely many
names, `FewAreHeld`: after `hold_tag` every entry's address is that of a portal some name is
bound to (`HeldForNames`), and nothing else adds an entry.

`ShapeStoreProofs`: for any connections, texts, savepoints and number of changes, replies
lost or not, the type invariant, `SharedIsCommitted`, `OwnFollowsOwnChanges` and
`StaleOnlyByRaceOrLoss`. None of the three is inductive. The first needs that an answer to be
shared was read outside of a transaction and is of a version everyone has seen
(`SharesFit`, `SchemaIsPublished`). The second needs as much of answers still under way
(`OwnAnswersFit`), that what is forgotten outside of a transaction is already what everyone
sees (`ChangesFit`), and that going back to a savepoint never makes a draft newer
(`SavepointsAreOlder`). The third is the subtle one: a change is forgotten when it runs, and
commits later. `SharedIsFresh` says that from the forgetting to the commit nothing can be
put into the shared map that is not marked as a race, because there is one draft at a time
(`DraftsAreNew`), it keeps every other probe waiting (`Locked`), and its own connection's
answers are not shared. A transaction the proxy takes for failed commits nothing
(`ChangeIsOpen`), which is why a change whose reply was lost inside a transaction need not be
forgotten there.

`DeliveryProofs`: for every statement, any number of columns, any types and values.
`NoWriteIsRunTwice` counts the runs. `ErrorsArrive` (`ErrorsKeepTheirFields`) is about the parts an error is cut
into: where the labels start is where `parse_db_error` stops peeling. `PromisesAreKept`
(`MisreadOnlyAfterTemporalCast`) compares what Describe says with the fields of the answer, run by run: its
invariant says that the fields told are those of the columns, or of the OIDs of a RETURNING list
of the same length, and that the original error of a fallback is one of this statement's.
`ArraysReturn` says that `parse_array_literal` gives back every array the proxy wrote, whatever is in its
texts; it is proved by counting up over the characters read, with the state of the parser after each
element (`HasSteps`). `OneObstacleIsOvercome` (`UnreturnableIsRecovered`) needs it: with one obstacle the
fallback's cast is the right one (`OneObstacleIsCast`), and after it every cell can be encoded, an array's
because its literal is read again, the day's end in binary aside.
`NamesAreTheirOwn` (`NamesAreNotMispaired`) takes as its hypothesis what PostgreSQL makes of a RETURNING list
(`ReturnsItems`): items with their brackets closed and commas between them, an alias or a column giving one
column of its name, `t.*` the target's columns, `*` those and perhaps more, anything else at least one. Every
write of `DeliveryMC` is of this kind. The depth of brackets in a list is the depth in the item
(`DepthWithin`), so that `split_select_list` cuts where the commas between items are, and the k-th cut is the
k-th comma (`CutsAreCounted`, `ItemsAreSplit`). No item is given more names than it makes columns
(`ItemIsNamed`), so that names as many as columns in all are as many item by item (`SumsAgree`,
`FlattenedInParts`): the check of the length in `returning_fields` is enough.

`SqlReadingProofs`: for texts of any length. `ScannerLexesLikePostgres` (`LexesLikePostgres`) compares two lexers that
are described differently: the scanner's loops, and what `PgLexis` says of the text between two ends. For
each kind of literal and comment there is a lemma that both end it at the same place: an E string by the parity
of the backslashes before a quote (`EStringsEndAlike`), a quoted one by that of its quotes (`UnescapedEndAlike`), a
dollar-quoted one by its delimiter (`DollarQuotesEndAlike`), a block comment by the depth after each character
(`BlockCommentsEndAlike`: the loop's pairs of places and depths are what PostgreSQL's reading leaves).
`RegionsAre` and `LexemesAre` gather them, and `LexemesMatch` says of each lexeme that it is the region that opens
there or nothing but code. From there the spans and the lexemes of the whole text are compared from its end to
its start. `SpansTile` and `TilesAreTheText` say for every text, plain or not, that nothing is left out.
`ParametersAreSent` (`ParametersAreRewritten`) takes two more comparisons. `PlaceholdersAreParameters` finds
the placeholders and PostgreSQL's parameters at the same places. Then the text is compared with what is sent
for it: a region depends on its own characters and the next one only (`RegionIsLocal`, `CodeIsLocal`), so that it
opens and ends alike wherever the same characters stand, and every stretch between two placeholders stands
unchanged in what is sent (`SentFollows`), with names that open nothing between them; `SentIsAlike` puts the
stretches together, from the end to the start. `StringsAreNotCorrupted` (`NoStringIsCorrupted`) follows: the string
PostgreSQL sees is one of those the second scan sees. `KeywordsAreNotMissed` (`KeywordsAreSeen`) and
`PiecesStandAlone` (`StatementsStandAlone`) go by the places PostgreSQL's lexer comes to (`Visited`), of which
every place of the text is in the lexeme of one (`VisitedCover`). A keyword is told from the scanner's code alone
(`KeywordInCode`), which is the code of the lexemes, so that the scanner's keywords are PostgreSQL's words
(`KeywordsAreFound`), and what is before a word is blank to the one as to the other (`WordsComeAfter`). A statement
starts and ends at places the lexer comes to, for a semicolon in code is a lexeme (`SemicolonsAreLexemes`). A lexeme
that ends within a statement is read in it by itself as it was within the text (`LexemeIsLocal`), which
`VisitedAlike` carries from lexeme to lexeme, so that a statement has the lexemes it had (`LexemesAlike`) and is
plain if the text is. These proofs take characters from `Chars`,
which is `STRING` with the two characters a name starts with, for the provers do not know that a literal is a
string.

`ResumeRetryProofs`: for any timeout, backoff, delays and waking times, the type
invariant, `EffectMatchesAnswer`, `EndsInTime` and `AsleepToTheEnd`. The invariant adds that a call
not yet answered has had no effect (`NotYet`) and that an attempt starts no later
than the deadline and a late waking (`StartsInTime`).

Only model-checked: liveness (`Answered`, `NothingOutlivesItsClient`), which is
beyond the prover; and of `Delivery` that values arrive unchanged (`RowsArriveUnchanged`,
`ParametersArriveUnchanged`), which is about what digits in groups and fractions come to: induction over data.

## Plan

1. `tokens` of sql.rs, so that `ReturningList` starts from a text, and
   `substitute_null_params`.
2. The calls of `probe_inner` as steps of their own, and strings of several statements:
   what stays done when one in the middle fails.
3. `Delivery` and `ShapeStore` together: a schema that changes between Describe and
   Bind, when the parameter types are asked for again.

## Not modelled

Command tags, type modifiers, wording and logging (exec.rs, and most of handlers.rs's
texts); `notice_if_ineffective`, which writes a notice and nothing else; the text of the queries a
probe sends. The protocol below pgwire's handler traits; TLS, arguments and AWS
credentials; the retries of the AWS SDK below `send`. `adopt_transaction` and
`Session::execute` are called by nothing in the program.

Of values: the calendar and years out of chrono's range; values of the wrong form, which
PostgreSQL does not send; arrays of several dimensions, which the Data API does not
return; integers out of their type's range, except as far as a parameter is refused.

Start-up (main.rs, config.rs, lib.rs) reads arguments, binds a socket and spawns a task per
connection; `Session` starts where it ends.
