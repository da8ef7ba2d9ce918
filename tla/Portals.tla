------------------------------ MODULE Portals ------------------------------
(***************************************************************************)
(* The extended protocol's portals on one connection (src/handlers.rs) and *)
(* the results that wait between Describe and Execute (src/session.rs,     *)
(* hold_tag and take_tag).                                                 *)
(*                                                                         *)
(* A portal is bound to a name until the name is bound again or closed.    *)
(* Describing it runs its statement.  Rows are parked on the portal itself *)
(* and pgwire hands them out; a command tag waits in a map of the session, *)
(* keyed by the address of the portal's state.  An address may be given to *)
(* a new portal once nothing refers to the old one.                        *)
(*                                                                         *)
(* Messages of a connection are handled one after the other, so a handler  *)
(* is one step.  A run that fails leaves nothing behind and is no step.    *)
(***************************************************************************)
EXTENDS Naturals, FiniteSets, Sequences

CONSTANTS
    Names,      \* names a client gives its portals
    Portals,    \* the portals it ever binds
    Addresses,  \* where the state of a portal may be allocated
    NoPortal,   \* a name that is bound to nothing
    MaxRuns     \* bound: how many statements one history may run

ASSUME PortalsAssumption == NoPortal \notin Portals /\ MaxRuns \in Nat

VARIABLES
    bound,    \* pgwire's portal store: name to portal
    made,     \* the portals bound so far
    kind,     \* what the statement of a portal answers with
    address,  \* where its state lives: Portal::state
    state,    \* PortalExecutionState, with the run whose rows are parked
    pending,  \* Session::pending: address to tag and keepalive
    runs,     \* history: which portal each run was for, and what asked for it
    given     \* history: how many Executes got the end of each run's result

vars == <<bound, made, kind, address, state, pending, runs, given>>

Runs == 1..MaxRuns

Initial  == [phase |-> "initial", run |-> 0]
Finished == [phase |-> "finished", run |-> 0]
Suspended(run) == [phase |-> "suspended", run |-> run]

TypeOK ==
    /\ bound \in [Names -> Portals \cup {NoPortal}]
    /\ made \subseteq Portals
    /\ kind \in [Portals -> {"rows", "tag", "control"}]
    /\ address \in [Portals -> Addresses]
    /\ state \in [Portals -> {Initial, Finished} \cup {Suspended(run) : run \in Runs}]
    /\ DOMAIN pending \subseteq Addresses
    /\ pending \in [DOMAIN pending -> [keepalive : Portals, tag : Runs]]
    /\ runs \in Seq([portal : Portals, by : {"describe", "execute"}])
    /\ Len(runs) <= MaxRuns
    /\ given \in [Runs -> Nat]

\* A portal that has not been bound yet has an address that means nothing.
Init ==
    /\ bound = [name \in Names |-> NoPortal]
    /\ made = {}
    /\ kind \in [Portals -> {"rows", "tag", "control"}]
    /\ \E anywhere \in Addresses : address = [p \in Portals |-> anywhere]
    /\ state = [p \in Portals |-> Initial]
    /\ pending = [a \in {} |-> [keepalive |-> NoPortal, tag |-> 0]]
    /\ runs = <<>>
    /\ given = [run \in Runs |-> 0]

-----------------------------------------------------------------------------
(* References to a portal's state                                          *)

\* The store refers to the state of a portal that is bound.
IsBound(p) == \E name \in Names : bound[name] = p

\* Remembering the address without the reference.
IsAlive_Mutant(p) == IsBound(p)

\* So does an entry of the map: its _keepalive.
IsAlive(p) == IsBound(p) \/ \E a \in DOMAIN pending : pending[a].keepalive = p

Alive == {p \in made : IsAlive(p)}

-----------------------------------------------------------------------------
(* Binding and closing: pgwire's store                                     *)

\* The new state is allocated while the portal it replaces is still there.
Bind(name) ==
    \E p \in Portals \ made, a \in Addresses \ {address[q] : q \in Alive} :
        /\ bound' = [bound EXCEPT ![name] = p]
        /\ made' = made \cup {p}
        /\ address' = [address EXCEPT ![p] = a]
        /\ UNCHANGED <<kind, state, pending, runs, given>>

Close(name) ==
    /\ bound[name] # NoPortal
    /\ bound' = [bound EXCEPT ![name] = NoPortal]
    /\ UNCHANGED <<made, kind, address, state, pending, runs, given>>

-----------------------------------------------------------------------------
(* Running a statement                                                     *)

NextRun == Len(runs) + 1

Run(p, asker) ==
    /\ NextRun \in Runs
    /\ runs' = Append(runs, [portal |-> p, by |-> asker])

Give(run) == given' = [given EXCEPT ![run] = @ + 1]

\* A map keyed by the portal's name.
HoldTag_ByName_Mutant(p, run) ==
    LET kept == {a \in DOMAIN pending : IsBound(pending[a].keepalive)}
        key  == CHOOSE name \in Names : bound[name] = p IN
    pending' = [a \in kept \cup {key} |->
                    IF a = key THEN [keepalive |-> p, tag |-> run] ELSE pending[a]]

\* Never dropping what portals that are gone have left behind.
HoldTag_NoRetain_Mutant(p, run) ==
    pending' = [a \in DOMAIN pending \cup {address[p]} |->
                    IF a = address[p] THEN [keepalive |-> p, tag |-> run] ELSE pending[a]]

\* Counting one reference too many, so that every other entry goes.
HoldTag_Drop_Mutant(p, run) ==
    pending' = [a \in {address[p]} |-> [keepalive |-> p, tag |-> run]]

\* hold_tag: entries whose portal is referred to by nothing else go first.
HoldTag(p, run) ==
    LET kept == {a \in DOMAIN pending : IsBound(pending[a].keepalive)} IN
    pending' = [a \in kept \cup {address[p]} |->
                    IF a = address[p] THEN [keepalive |-> p, tag |-> run] ELSE pending[a]]

\* Looking at the tag and leaving it there.
TakeTag_Mutant(p) == UNCHANGED pending

\* take_tag removes the entry it finds.
TakeTag(p) == pending' = [a \in DOMAIN pending \ {address[p]} |-> pending[a]]

-----------------------------------------------------------------------------
(* The handlers                                                            *)

\* do_describe_portal: transaction control is left to Execute; anything else
\* runs, and its rows are parked on the portal or its tag is held.
DescribePortal(p) ==
    /\ kind[p] # "control"
    /\ Run(p, "describe")
    /\ IF kind[p] = "rows"
       THEN state' = [state EXCEPT ![p] = Suspended(NextRun)] /\ UNCHANGED pending
       ELSE HoldTag(p, NextRun) /\ UNCHANGED state
    /\ UNCHANGED <<bound, made, kind, address, given>>

\* on_execute with a tag waiting: it is the answer, and pgwire is not asked.
ExecuteHeld(p) ==
    /\ address[p] \in DOMAIN pending
    /\ Give(pending[address[p]].tag)
    /\ TakeTag(p)
    /\ UNCHANGED <<bound, made, kind, address, state, runs>>

\* pgwire calls do_query for a portal that has not run, and hands out the rows,
\* all of them or as many as the client asked for.  What it makes of a portal
\* whose statement answered with a tag is left open.
ExecuteInitial(p) ==
    /\ address[p] \notin DOMAIN pending
    /\ state[p] = Initial
    /\ Run(p, "execute")
    /\ \/ /\ kind[p] = "rows"
          /\ state' = [state EXCEPT ![p] = Suspended(NextRun)]
          /\ UNCHANGED given
       \/ /\ Give(NextRun)
          /\ \/ state' = [state EXCEPT ![p] = Finished]
             \/ kind[p] # "rows" /\ UNCHANGED state
    /\ UNCHANGED <<bound, made, kind, address, pending>>

\* Rows that are parked are handed out, the last of them or only some.  A
\* portal that has finished has none left, and answering so changes nothing.
ExecuteSuspended(p) ==
    /\ address[p] \notin DOMAIN pending
    /\ state[p].phase = "suspended"
    /\ Give(state[p].run)
    /\ state' = [state EXCEPT ![p] = Finished]
    /\ UNCHANGED <<bound, made, kind, address, pending, runs>>

Next ==
    \/ \E name \in Names : Bind(name) \/ Close(name)
    \/ \E p \in made :
        /\ IsBound(p)
        /\ \/ DescribePortal(p)
           \/ ExecuteHeld(p)
           \/ ExecuteInitial(p)
           \/ ExecuteSuspended(p)

Spec == Init /\ [][Next]_vars

-----------------------------------------------------------------------------
(* Safety *)

\* The tag an Execute would find is that of a run of its own portal, however
\* often addresses are given out again (session.rs:361-365): the key of an
\* entry stays sound because the entry refers to the portal.
HeldTagIsOwn ==
    \A p \in made : IsBound(p) /\ address[p] \in DOMAIN pending =>
        runs[pending[address[p]].tag].portal = p

\* No run's result is handed out to two Executes (session.rs:382-385, and
\* handlers.rs:716-719): the second would report work that was done once.
NoResultTwice == \A run \in Runs : given[run] <= 1

\* Execute runs a statement only when the latest run of its portal has had its
\* answer: nothing that Describe left for it is lost to a describe of another
\* portal, to a close or to the clearing of the map (handlers.rs:587-589).
NothingKeptIsRunAgain ==
    \A later \in DOMAIN runs : runs[later].by = "execute" =>
        \A run \in 1..(later - 1) :
            /\ runs[run].portal = runs[later].portal
            /\ \A between \in (run + 1)..(later - 1) :
                runs[between].portal # runs[later].portal
            => given[run] = 1

\* A client that describes portals and never executes them leaves no more
\* entries behind than it has names for portals (session.rs:368-371).
FewAreHeld == Cardinality(DOMAIN pending) <= Cardinality(Names)

=============================================================================
