--------------------------- MODULE PortalsProofs ---------------------------
(***************************************************************************)
(* Proofs about Portals, for any names, portals, addresses and number of   *)
(* runs.                                                                   *)
(***************************************************************************)
EXTENDS Portals, FiniteSetTheorems, TLAPS

-----------------------------------------------------------------------------
(* The inductive invariant                                                 *)

\* Only a portal that has been bound is bound, and only such a one has run.
BoundIsMade == \A name \in Names : bound[name] \in made \cup {NoPortal}
RunIsMade   == \A run \in DOMAIN runs : runs[run].portal \in made

\* No two portals that are alive share an address.
AddressesDiffer ==
    \A p, q \in made : IsAlive(p) /\ IsAlive(q) /\ address[p] = address[q] => p = q

\* An entry of the map is under the address of the portal it refers to, and
\* its tag is that of a run of this portal that nobody has had yet.
EntriesAreOwn ==
    \A a \in DOMAIN pending :
        /\ pending[a].keepalive \in made
        /\ address[pending[a].keepalive] = a
        /\ kind[pending[a].keepalive] = "tag"
        /\ pending[a].tag \in DOMAIN runs
        /\ runs[pending[a].tag].portal = pending[a].keepalive
        /\ given[pending[a].tag] = 0

\* So are the rows parked on a portal.
ParkedAreOwn ==
    \A p \in Portals : state[p].phase = "suspended" =>
        /\ kind[p] # "tag"
        /\ state[p].run \in DOMAIN runs
        /\ runs[state[p].run].portal = p
        /\ given[state[p].run] = 0

\* Nothing has been given of a run that has not happened.
NoneBeforeItRan == \A run \in Runs : run \notin DOMAIN runs => given[run] = 0

IsLatest(p, run) ==
    /\ run \in DOMAIN runs
    /\ runs[run].portal = p
    /\ \A later \in (run + 1)..Len(runs) : runs[later].portal # p

\* What the latest run of a bound portal left waits where Execute looks.
LatestIsKept ==
    \A p \in made, run \in Runs : IsBound(p) /\ IsLatest(p, run) /\ given[run] # 1 =>
        \/ state[p] = Suspended(run)
        \/ address[p] \in DOMAIN pending /\ pending[address[p]].tag = run

IInv ==
    /\ TypeOK
    /\ BoundIsMade
    /\ RunIsMade
    /\ AddressesDiffer
    /\ EntriesAreOwn
    /\ ParkedAreOwn
    /\ NoneBeforeItRan
    /\ LatestIsKept
    /\ NoResultTwice
    /\ NothingKeptIsRunAgain

-----------------------------------------------------------------------------
(* What running a statement adds to the history                            *)

\* The history is no longer than its bound.
LEMMA RunsAreBounded ==
    ASSUME TypeOK
    PROVE  /\ Len(runs) \in Nat /\ DOMAIN runs = 1..Len(runs) /\ DOMAIN runs \subseteq Runs
           /\ \A later \in DOMAIN runs : 1..(later - 1) \subseteq DOMAIN runs
BY PortalsAssumption DEF TypeOK, Runs

LEMMA RunAppends ==
    ASSUME TypeOK, NEW p \in Portals, NEW asker \in {"describe", "execute"}, Run(p, asker)
    PROVE  /\ Len(runs) \in Nat /\ NextRun \in Runs /\ NextRun \notin DOMAIN runs
           /\ DOMAIN runs = 1..Len(runs) /\ DOMAIN runs \subseteq Runs
           /\ runs' \in Seq([portal : Portals, by : {"describe", "execute"}])
           /\ Len(runs') = NextRun /\ Len(runs') <= MaxRuns
           /\ DOMAIN runs' = DOMAIN runs \cup {NextRun}
           /\ \A run \in DOMAIN runs : runs'[run] = runs[run]
           /\ runs'[NextRun] = [portal |-> p, by |-> asker]
BY PortalsAssumption DEF TypeOK, Run, NextRun, Runs

\* The new run is the latest of its portal, and of the other portals the
\* latest run is the one it was.
LEMMA LatestAfterRun ==
    ASSUME TypeOK, NEW p \in Portals, NEW asker \in {"describe", "execute"}, Run(p, asker),
           NEW q \in Portals, NEW run \in Runs, IsLatest(q, run)'
    PROVE  /\ q = p => run = NextRun
           /\ q # p => run \in DOMAIN runs /\ IsLatest(q, run)
<1>1. /\ Len(runs) \in Nat /\ DOMAIN runs = 1..Len(runs) /\ Len(runs') = NextRun
      /\ DOMAIN runs' = DOMAIN runs \cup {NextRun}
      /\ \A i \in DOMAIN runs : runs'[i] = runs[i]
      /\ runs'[NextRun] = [portal |-> p, by |-> asker]
    BY RunAppends
<1>2. ASSUME q = p, run # NextRun PROVE FALSE
    <2>1. run \in 1..Len(runs) /\ NextRun \in (run + 1)..Len(runs')
        BY <1>1, <1>2 DEF IsLatest, NextRun, Runs
    <2> QED BY <1>1, <1>2, <2>1 DEF IsLatest
<1>3. ASSUME q # p PROVE run \in DOMAIN runs /\ IsLatest(q, run)
    <2>1. run \in DOMAIN runs /\ runs[run].portal = q
        BY <1>1, <1>3 DEF IsLatest
    <2>2. ASSUME NEW later \in (run + 1)..Len(runs) PROVE runs[later].portal # q
        <3>1. later \in DOMAIN runs /\ later \in (run + 1)..Len(runs')
            BY <1>1, <2>1, <2>2 DEF NextRun, Runs
        <3> QED BY <1>1, <3>1 DEF IsLatest
    <2> QED BY <2>1, <2>2 DEF IsLatest
<1> QED BY <1>2, <1>3

-----------------------------------------------------------------------------
(* The initial states and the steps                                        *)

LEMMA InitImpliesIInv == Init => IInv
<1> SUFFICES ASSUME Init PROVE IInv
    OBVIOUS
<1>1. TypeOK
    BY PortalsAssumption DEF Init, TypeOK, Runs, Initial
<1>2. DOMAIN runs = {} /\ DOMAIN pending = {}
    BY DEF Init
<1>3. LatestIsKept
    BY <1>2 DEF LatestIsKept, IsLatest
<1>4. NoneBeforeItRan /\ NoResultTwice
    BY DEF Init, NoneBeforeItRan, NoResultTwice
<1>5. ParkedAreOwn
    BY DEF Init, ParkedAreOwn, Initial
<1>6. BoundIsMade /\ AddressesDiffer
    BY DEF Init, BoundIsMade, AddressesDiffer
<1> QED BY <1>1, <1>2, <1>3, <1>4, <1>5, <1>6
        DEF IInv, RunIsMade, EntriesAreOwn, NothingKeptIsRunAgain

\* Binding gives the new portal an address that nothing alive has.
LEMMA BindKeepsIInv ==
    ASSUME IInv, NEW name \in Names, Bind(name)
    PROVE  IInv'
<1>1. PICK p \in Portals \ made, a \in Addresses \ {address[q] : q \in Alive} :
        /\ bound' = [bound EXCEPT ![name] = p]
        /\ made' = made \cup {p}
        /\ address' = [address EXCEPT ![p] = a]
        /\ UNCHANGED <<kind, state, pending, runs, given>>
    BY DEF Bind
<1>2. /\ bound \in [Names -> Portals \cup {NoPortal}] /\ made \subseteq Portals
      /\ address \in [Portals -> Addresses]
    BY DEF IInv, TypeOK
<1>3. /\ address'[p] = a
      /\ \A q \in made : q # p /\ address'[q] = address[q] /\ (IsAlive(q) => address[q] # a)
    BY <1>1, <1>2 DEF Alive
<1>4. \A q \in made : (IsBound(q)' => IsBound(q)) /\ (IsAlive(q)' => IsAlive(q))
    BY <1>1, <1>2, <1>3 DEF IsBound, IsAlive
<1>5. TypeOK'
    BY <1>1, <1>2 DEF IInv, TypeOK
<1>6. BoundIsMade' /\ RunIsMade'
    BY <1>1, <1>2 DEF IInv, BoundIsMade, RunIsMade
<1>7. AddressesDiffer'
    BY <1>1, <1>3, <1>4 DEF IInv, AddressesDiffer
<1>8. EntriesAreOwn'
    BY <1>1, <1>3 DEF IInv, EntriesAreOwn
<1>9. ParkedAreOwn' /\ NoneBeforeItRan' /\ NoResultTwice' /\ NothingKeptIsRunAgain'
    BY <1>1 DEF IInv, ParkedAreOwn, NoneBeforeItRan, NoResultTwice, NothingKeptIsRunAgain
<1>10. LatestIsKept'
    <2> SUFFICES ASSUME NEW q \in made', NEW run \in Runs,
                        IsBound(q)', IsLatest(q, run)', given'[run] # 1
                 PROVE  \/ state'[q] = Suspended(run)
                        \/ address'[q] \in DOMAIN pending' /\ pending'[address'[q]].tag = run
        BY DEF LatestIsKept, Suspended
    <2>1. run \in DOMAIN runs /\ runs[run].portal = q /\ IsLatest(q, run)
        BY <1>1 DEF IsLatest
    <2>2. q \in made
        BY <2>1 DEF IInv, RunIsMade
    <2> QED BY <1>1, <1>3, <1>4, <2>1, <2>2 DEF IInv, LatestIsKept
<1> QED BY <1>5, <1>6, <1>7, <1>8, <1>9, <1>10 DEF IInv

LEMMA CloseKeepsIInv ==
    ASSUME IInv, NEW name \in Names, Close(name)
    PROVE  IInv'
<1>1. \A p \in made : (IsBound(p)' => IsBound(p)) /\ (IsAlive(p)' => IsAlive(p))
    <2>1. bound \in [Names -> Portals \cup {NoPortal}] /\ made \subseteq Portals
        BY DEF IInv, TypeOK
    <2> QED BY <2>1, PortalsAssumption DEF Close, IsBound, IsAlive
<1>2. TypeOK' /\ BoundIsMade' /\ RunIsMade'
    BY DEF IInv, Close, TypeOK, BoundIsMade, RunIsMade
<1>3. AddressesDiffer' /\ EntriesAreOwn' /\ ParkedAreOwn' /\ NoneBeforeItRan'
    BY <1>1 DEF IInv, Close, AddressesDiffer, EntriesAreOwn, ParkedAreOwn, NoneBeforeItRan
<1>4. LatestIsKept'
    BY <1>1 DEF IInv, Close, LatestIsKept, IsLatest, Suspended
<1>5. NoResultTwice' /\ NothingKeptIsRunAgain'
    BY DEF IInv, Close, NoResultTwice, NothingKeptIsRunAgain
<1> QED BY <1>2, <1>3, <1>4, <1>5 DEF IInv

\* The run of a describe is kept where Execute will look for it.
LEMMA DescribeKeepsIInv ==
    ASSUME IInv, NEW p \in made, IsBound(p), DescribePortal(p)
    PROVE  IInv'
<1>1. TypeOK /\ p \in Portals /\ kind[p] \in {"rows", "tag"} /\ Run(p, "describe")
    BY DEF IInv, TypeOK, DescribePortal
<1>2. /\ Len(runs) \in Nat /\ NextRun \in Runs /\ NextRun \notin DOMAIN runs
      /\ DOMAIN runs = 1..Len(runs) /\ DOMAIN runs \subseteq Runs
      /\ runs' \in Seq([portal : Portals, by : {"describe", "execute"}])
      /\ Len(runs') = NextRun /\ Len(runs') <= MaxRuns
      /\ DOMAIN runs' = DOMAIN runs \cup {NextRun}
      /\ \A run \in DOMAIN runs : runs'[run] = runs[run]
      /\ runs'[NextRun] = [portal |-> p, by |-> "describe"]
    BY <1>1, RunAppends
<1>3. UNCHANGED <<bound, made, kind, address, given>>
    BY DEF DescribePortal
<1>4. given[NextRun] = 0
    BY <1>2 DEF IInv, NoneBeforeItRan
<1>5. /\ BoundIsMade' /\ RunIsMade' /\ NoneBeforeItRan' /\ NoResultTwice'
    BY <1>2, <1>3 DEF IInv, BoundIsMade, RunIsMade, NoneBeforeItRan, NoResultTwice
<1>6. NothingKeptIsRunAgain'
    <2> SUFFICES ASSUME NEW later \in DOMAIN runs', runs'[later].by = "execute",
                        NEW run \in 1..(later - 1),
                        runs'[run].portal = runs'[later].portal,
                        \A between \in (run + 1)..(later - 1) :
                            runs'[between].portal # runs'[later].portal
                 PROVE  given[run] = 1
        BY <1>3 DEF NothingKeptIsRunAgain
    <2>1. later \in DOMAIN runs /\ run \in DOMAIN runs /\ (run + 1)..(later - 1) \subseteq DOMAIN runs
        BY <1>2
    <2> QED BY <1>2, <2>1 DEF IInv, NothingKeptIsRunAgain
<1>7. CASE kind[p] = "rows"
    <2>1. state' = [state EXCEPT ![p] = Suspended(NextRun)] /\ pending' = pending
        BY <1>7 DEF DescribePortal
    <2>2. TypeOK'
        BY <1>1, <1>2, <1>3, <2>1 DEF TypeOK
    <2>3. AddressesDiffer' /\ EntriesAreOwn'
        BY <1>2, <1>3, <2>1 DEF IInv, AddressesDiffer, EntriesAreOwn, IsAlive, IsBound
    <2>4. ParkedAreOwn'
        BY <1>1, <1>2, <1>3, <1>4, <1>7, <2>1 DEF IInv, TypeOK, ParkedAreOwn, Suspended
    <2>5. LatestIsKept'
        <3> SUFFICES ASSUME NEW q \in made, NEW run \in Runs,
                            IsBound(q), IsLatest(q, run)', given[run] # 1
                     PROVE  \/ state'[q] = Suspended(run)
                            \/ address[q] \in DOMAIN pending /\ pending[address[q]].tag = run
            BY <1>3, <2>1 DEF LatestIsKept, Suspended, IsBound
        <3>1. q \in Portals /\ (q = p => run = NextRun) /\ (q # p => IsLatest(q, run))
            BY <1>1, LatestAfterRun DEF TypeOK
        <3> QED BY <1>1, <2>1, <3>1 DEF IInv, TypeOK, LatestIsKept
    <2> QED BY <1>5, <1>6, <2>2, <2>3, <2>4, <2>5 DEF IInv
<1>8. CASE kind[p] = "tag"
    <2> DEFINE kept == {a \in DOMAIN pending : IsBound(pending[a].keepalive)}
    <2>1. state' = state /\ HoldTag(p, NextRun)
        BY <1>8 DEF DescribePortal
    <2>2. /\ DOMAIN pending' = kept \cup {address[p]}
          /\ pending'[address[p]] = [keepalive |-> p, tag |-> NextRun]
          /\ \A a \in kept \ {address[p]} : pending'[a] = pending[a]
        BY <2>1 DEF HoldTag
    <2>3. \A q \in made : IsAlive(q)' => IsAlive(q)
        BY <1>3, <2>2 DEF IsAlive, IsBound
    <2>4. TypeOK'
        <3>1. pending' \in [kept \cup {address[p]} -> [keepalive : Portals, tag : Runs]]
            BY <1>1, <1>2, <2>1 DEF TypeOK, HoldTag
        <3> QED BY <1>1, <1>2, <1>3, <2>1, <2>2, <3>1 DEF TypeOK
    <2>5. AddressesDiffer'
        BY <1>3, <2>3 DEF IInv, AddressesDiffer
    <2>6. EntriesAreOwn'
        BY <1>2, <1>3, <1>4, <1>8, <2>2 DEF IInv, EntriesAreOwn
    <2>7. ParkedAreOwn'
        BY <1>2, <1>3, <2>1 DEF IInv, ParkedAreOwn
    <2>8. LatestIsKept'
        <3> SUFFICES ASSUME NEW q \in made, NEW run \in Runs,
                            IsBound(q), IsLatest(q, run)', given[run] # 1
                     PROVE  \/ state[q] = Suspended(run)
                            \/ address[q] \in DOMAIN pending' /\ pending'[address[q]].tag = run
            BY <1>3, <2>1 DEF LatestIsKept, Suspended, IsBound
        <3>1. q \in Portals /\ (q = p => run = NextRun) /\ (q # p => IsLatest(q, run))
            BY <1>1, LatestAfterRun DEF TypeOK
        <3>2. CASE q = p
            BY <2>2, <3>1, <3>2
        <3>3. CASE q # p
            <4>1. address[q] # address[p]
                BY <3>3 DEF IInv, AddressesDiffer, IsAlive
            <4>2. address[q] \in DOMAIN pending => pending[address[q]].keepalive = q
                BY DEF IInv, EntriesAreOwn, AddressesDiffer, IsAlive
            <4> QED BY <2>2, <3>1, <3>3, <4>1, <4>2 DEF IInv, LatestIsKept
        <3> QED BY <3>2, <3>3
    <2> QED BY <1>5, <1>6, <2>4, <2>5, <2>6, <2>7, <2>8 DEF IInv
<1> QED BY <1>1, <1>7, <1>8

\* What changes when the result of a run that nobody has had is handed out.
LEMMA GiveOnce ==
    ASSUME IInv, NEW run \in DOMAIN runs, given[run] = 0, Give(run)
    PROVE  /\ run \in Runs
           /\ given' \in [Runs -> Nat]
           /\ given'[run] = 1
           /\ \A other \in Runs : other # run => given'[other] = given[other]
           /\ \A other \in Runs : given'[other] = 0 => given[other] = 0
           /\ \A other \in Runs : given[other] = 1 => given'[other] = 1
           /\ NoResultTwice'
<1>1. run \in Runs /\ given \in [Runs -> Nat]
    BY RunsAreBounded DEF IInv, TypeOK
<1>2. given' = [given EXCEPT ![run] = 1]
    BY <1>1 DEF Give
<1> QED BY <1>1, <1>2 DEF IInv, NoResultTwice

\* The tag that waits for a bound portal is its own.
LEMMA FoundIsOwn ==
    ASSUME IInv, NEW p \in made, IsBound(p), address[p] \in DOMAIN pending
    PROVE  /\ pending[address[p]].keepalive = p
           /\ kind[p] = "tag"
           /\ pending[address[p]].tag \in DOMAIN runs
           /\ runs[pending[address[p]].tag].portal = p
           /\ given[pending[address[p]].tag] = 0
BY DEF IInv, EntriesAreOwn, AddressesDiffer, IsAlive

LEMMA ExecuteHeldKeepsIInv ==
    ASSUME IInv, NEW p \in made, IsBound(p), ExecuteHeld(p)
    PROVE  IInv'
<1> DEFINE run == pending[address[p]].tag
<1>1. /\ address[p] \in DOMAIN pending /\ p \in Portals
      /\ Give(run) /\ TakeTag(p)
      /\ UNCHANGED <<bound, made, kind, address, state, runs>>
    BY DEF ExecuteHeld, IInv, TypeOK
<1>2. /\ pending[address[p]].keepalive = p /\ kind[p] = "tag"
      /\ run \in DOMAIN runs /\ runs[run].portal = p /\ given[run] = 0
    BY <1>1, FoundIsOwn
<1> HIDE DEF run
<1>3. /\ run \in Runs
      /\ given' \in [Runs -> Nat]
      /\ given'[run] = 1
      /\ \A other \in Runs : other # run => given'[other] = given[other]
      /\ \A other \in Runs : given'[other] = 0 => given[other] = 0
      /\ \A other \in Runs : given[other] = 1 => given'[other] = 1
      /\ NoResultTwice'
    BY <1>1, <1>2, GiveOnce
<1>4. /\ DOMAIN pending' = DOMAIN pending \ {address[p]}
      /\ \A a \in DOMAIN pending' : pending'[a] = pending[a]
    BY <1>1 DEF TakeTag
<1>5. DOMAIN runs \subseteq Runs
    BY RunsAreBounded DEF IInv
<1>6. TypeOK'
    <2>1. pending' \in [DOMAIN pending \ {address[p]} -> [keepalive : Portals, tag : Runs]]
        BY <1>1 DEF IInv, TypeOK, TakeTag
    <2> QED BY <1>1, <1>3, <1>4, <2>1 DEF IInv, TypeOK
<1>7. BoundIsMade' /\ RunIsMade' /\ NoneBeforeItRan'
    BY <1>1, <1>2, <1>3 DEF IInv, BoundIsMade, RunIsMade, NoneBeforeItRan
<1>8. AddressesDiffer'
    BY <1>1, <1>4 DEF IInv, AddressesDiffer, IsAlive, IsBound
<1>9. EntriesAreOwn'
    <2>1. \A a \in DOMAIN pending' : pending[a].tag # run
        BY <1>2, <1>4 DEF IInv, EntriesAreOwn
    <2> QED BY <1>1, <1>3, <1>4, <1>5, <2>1 DEF IInv, EntriesAreOwn
<1>10. ParkedAreOwn'
    <2>1. \A q \in Portals : state[q].phase = "suspended" => state[q].run # run
        BY <1>2 DEF IInv, ParkedAreOwn
    <2> QED BY <1>1, <1>3, <1>5, <2>1 DEF IInv, ParkedAreOwn
<1>11. LatestIsKept'
    <2> SUFFICES ASSUME NEW q \in made, NEW latest \in Runs,
                        IsBound(q), IsLatest(q, latest), given'[latest] # 1
                 PROVE  \/ state[q] = Suspended(latest)
                        \/ address[q] \in DOMAIN pending' /\ pending'[address[q]].tag = latest
        BY <1>1 DEF LatestIsKept, Suspended, IsBound, IsLatest
    <2>1. latest # run /\ given[latest] # 1
        BY <1>3
    <2> QED BY <1>4, <2>1 DEF IInv, LatestIsKept, run
<1>12. NothingKeptIsRunAgain'
    <2>1. \A later \in DOMAIN runs : 1..(later - 1) \subseteq Runs
        BY RunsAreBounded DEF IInv
    <2> QED BY <1>1, <1>3, <2>1 DEF IInv, NothingKeptIsRunAgain
<1> QED BY <1>3, <1>6, <1>7, <1>8, <1>9, <1>10, <1>11, <1>12 DEF IInv

LEMMA ExecuteSuspendedKeepsIInv ==
    ASSUME IInv, NEW p \in made, IsBound(p), ExecuteSuspended(p)
    PROVE  IInv'
<1> DEFINE run == state[p].run
<1>1. /\ p \in Portals /\ state[p].phase = "suspended" /\ Give(run)
      /\ state' = [state EXCEPT ![p] = Finished]
      /\ UNCHANGED <<bound, made, kind, address, pending, runs>>
    BY DEF ExecuteSuspended, IInv, TypeOK
<1>2. kind[p] # "tag" /\ run \in DOMAIN runs /\ runs[run].portal = p /\ given[run] = 0
    BY <1>1 DEF IInv, ParkedAreOwn
<1> HIDE DEF run
<1>3. /\ run \in Runs
      /\ given' \in [Runs -> Nat]
      /\ given'[run] = 1
      /\ \A other \in Runs : other # run => given'[other] = given[other]
      /\ \A other \in Runs : given'[other] = 0 => given[other] = 0
      /\ \A other \in Runs : given[other] = 1 => given'[other] = 1
      /\ NoResultTwice'
    BY <1>1, <1>2, GiveOnce
<1>4. DOMAIN runs \subseteq Runs /\ state \in [Portals -> {Initial, Finished} \cup {Suspended(r) : r \in Runs}]
    BY RunsAreBounded DEF IInv, TypeOK
<1>5. TypeOK'
    BY <1>1, <1>3 DEF IInv, TypeOK
<1>6. BoundIsMade' /\ RunIsMade' /\ NoneBeforeItRan'
    BY <1>1, <1>2, <1>3 DEF IInv, BoundIsMade, RunIsMade, NoneBeforeItRan
<1>7. AddressesDiffer'
    BY <1>1 DEF IInv, AddressesDiffer, IsAlive, IsBound
<1>8. EntriesAreOwn'
    <2>1. \A a \in DOMAIN pending : pending[a].tag # run
        BY <1>2 DEF IInv, EntriesAreOwn
    <2> QED BY <1>1, <1>3, <1>4, <2>1 DEF IInv, EntriesAreOwn
<1>9. ParkedAreOwn'
    <2>1. \A q \in Portals : q # p /\ state[q].phase = "suspended" => state[q].run # run
        BY <1>2 DEF IInv, ParkedAreOwn
    <2>2. \A q \in Portals : state'[q].phase = "suspended" => q # p /\ state'[q] = state[q]
        BY <1>1, <1>4 DEF Finished
    <2> QED BY <1>1, <1>3, <1>4, <2>1, <2>2 DEF IInv, ParkedAreOwn
<1>10. LatestIsKept'
    <2> SUFFICES ASSUME NEW q \in made, NEW latest \in Runs,
                        IsBound(q), IsLatest(q, latest), given'[latest] # 1
                 PROVE  \/ state'[q] = Suspended(latest)
                        \/ address[q] \in DOMAIN pending /\ pending[address[q]].tag = latest
        BY <1>1 DEF LatestIsKept, Suspended, IsBound, IsLatest
    <2>1. latest # run /\ given[latest] # 1
        BY <1>3
    <2>2. q = p => state[q] # Suspended(latest)
        BY <2>1 DEF run, Suspended
    <2>3. q \in Portals
        BY DEF IInv, TypeOK
    <2> QED BY <1>1, <1>4, <2>1, <2>2, <2>3 DEF IInv, LatestIsKept
<1>11. NothingKeptIsRunAgain'
    <2>1. \A later \in DOMAIN runs : 1..(later - 1) \subseteq Runs
        BY RunsAreBounded DEF IInv
    <2> QED BY <1>1, <1>3, <2>1 DEF IInv, NothingKeptIsRunAgain
<1> QED BY <1>3, <1>5, <1>6, <1>7, <1>8, <1>9, <1>10, <1>11 DEF IInv

\* A portal that has not run has nothing waiting, so its latest run has had
\* its answer; the new run is parked or answered at once.
LEMMA ExecuteInitialKeepsIInv ==
    ASSUME IInv, NEW p \in made, IsBound(p), ExecuteInitial(p)
    PROVE  IInv'
<1>1. /\ TypeOK /\ p \in Portals /\ Run(p, "execute")
      /\ address[p] \notin DOMAIN pending /\ state[p] = Initial
      /\ UNCHANGED <<bound, made, kind, address, pending>>
    BY DEF IInv, TypeOK, ExecuteInitial
<1>2. /\ Len(runs) \in Nat /\ NextRun \in Runs /\ NextRun \notin DOMAIN runs
      /\ DOMAIN runs = 1..Len(runs) /\ DOMAIN runs \subseteq Runs
      /\ runs' \in Seq([portal : Portals, by : {"describe", "execute"}])
      /\ Len(runs') = NextRun /\ Len(runs') <= MaxRuns
      /\ DOMAIN runs' = DOMAIN runs \cup {NextRun}
      /\ \A run \in DOMAIN runs : runs'[run] = runs[run]
      /\ runs'[NextRun] = [portal |-> p, by |-> "execute"]
    BY <1>1, RunAppends
<1>3. given[NextRun] = 0 /\ given \in [Runs -> Nat]
    BY <1>1, <1>2 DEF IInv, NoneBeforeItRan, TypeOK
<1>4. \A run \in Runs : IsLatest(p, run) => given[run] = 1
    <2>1. \A run \in Runs : Initial # Suspended(run)
        BY DEF Initial, Suspended
    <2> QED BY <1>1, <2>1 DEF IInv, LatestIsKept
<1>5. \/ /\ kind[p] = "rows"
         /\ state' = [state EXCEPT ![p] = Suspended(NextRun)]
         /\ given' = given
      \/ /\ given' = [given EXCEPT ![NextRun] = 1]
         /\ state' \in {state, [state EXCEPT ![p] = Finished]}
    BY <1>3 DEF ExecuteInitial, Give
<1>6. /\ given' \in [Runs -> Nat]
      /\ \A run \in DOMAIN runs : given'[run] = given[run]
      /\ \A run \in Runs : run # NextRun => given'[run] = given[run]
      /\ given'[NextRun] <= 1
    BY <1>2, <1>3, <1>5
<1>7. TypeOK'
    <2> DEFINE States == {Initial, Finished} \cup {Suspended(run) : run \in Runs}
    <2>1. state \in [Portals -> States] /\ Finished \in States /\ Suspended(NextRun) \in States
        BY <1>1, <1>2 DEF TypeOK
    <2>2. state' \in [Portals -> States]
        <3> HIDE DEF States
        <3> QED BY <1>5, <2>1
    <2> QED BY <1>1, <1>2, <1>6, <2>2 DEF TypeOK
<1>8. BoundIsMade' /\ RunIsMade' /\ NoneBeforeItRan' /\ NoResultTwice'
    <2>1. BoundIsMade'
        BY <1>1 DEF IInv, BoundIsMade
    <2>2. RunIsMade'
        BY <1>1, <1>2 DEF IInv, RunIsMade
    <2>3. NoneBeforeItRan'
        BY <1>2, <1>6 DEF IInv, NoneBeforeItRan
    <2>4. NoResultTwice'
        BY <1>6 DEF IInv, NoResultTwice
    <2> QED BY <2>1, <2>2, <2>3, <2>4
<1>9. AddressesDiffer' /\ EntriesAreOwn'
    BY <1>1, <1>2, <1>6 DEF IInv, AddressesDiffer, EntriesAreOwn, IsAlive, IsBound
<1>10. ParkedAreOwn'
    <2> SUFFICES ASSUME NEW q \in Portals, state'[q].phase = "suspended"
                 PROVE  /\ kind[q] # "tag"
                        /\ state'[q].run \in DOMAIN runs'
                        /\ runs'[state'[q].run].portal = q
                        /\ given'[state'[q].run] = 0
        BY <1>1 DEF ParkedAreOwn
    <2>1. state \in [Portals -> {Initial, Finished} \cup {Suspended(run) : run \in Runs}]
        BY <1>1 DEF TypeOK
    <2>2. CASE q = p
        BY <1>1, <1>2, <1>3, <1>5, <2>1, <2>2 DEF Suspended, Finished, Initial
    <2>3. CASE q # p
        <3>1. state'[q] = state[q]
            BY <1>5, <2>1, <2>3
        <3> QED BY <1>2, <1>6, <3>1 DEF IInv, ParkedAreOwn
    <2> QED BY <2>2, <2>3
<1>11. LatestIsKept'
    <2> SUFFICES ASSUME NEW q \in made, NEW run \in Runs,
                        IsBound(q), IsLatest(q, run)', given'[run] # 1
                 PROVE  \/ state'[q] = Suspended(run)
                        \/ address[q] \in DOMAIN pending /\ pending[address[q]].tag = run
        BY <1>1 DEF LatestIsKept, Suspended, IsBound
    <2>1. q \in Portals /\ (q = p => run = NextRun) /\ (q # p => run \in DOMAIN runs /\ IsLatest(q, run))
        BY <1>1, LatestAfterRun DEF TypeOK
    <2>2. state \in [Portals -> {Initial, Finished} \cup {Suspended(r) : r \in Runs}]
        BY <1>1 DEF TypeOK
    <2>3. CASE q = p
        BY <1>2, <1>3, <1>5, <2>1, <2>2, <2>3
    <2>4. CASE q # p
        <3>1. state'[q] = state[q] /\ given[run] # 1
            BY <1>5, <1>6, <2>1, <2>2, <2>4
        <3> QED BY <2>1, <2>4, <3>1 DEF IInv, LatestIsKept
    <2> QED BY <2>3, <2>4
<1>12. NothingKeptIsRunAgain'
    <2> SUFFICES ASSUME NEW later \in DOMAIN runs', runs'[later].by = "execute",
                        NEW run \in 1..(later - 1),
                        runs'[run].portal = runs'[later].portal,
                        \A between \in (run + 1)..(later - 1) :
                            runs'[between].portal # runs'[later].portal
                 PROVE  given'[run] = 1
        BY DEF NothingKeptIsRunAgain
    <2>1. run \in DOMAIN runs /\ (run + 1)..(later - 1) \subseteq DOMAIN runs
        BY <1>2 DEF NextRun
    <2>2. CASE later = NextRun
        <3>1. IsLatest(p, run)
            BY <1>2, <2>1, <2>2 DEF IsLatest, NextRun
        <3> QED BY <1>2, <1>4, <1>6, <2>1, <3>1
    <2>3. CASE later \in DOMAIN runs
        <3>1. /\ runs[later].by = "execute" /\ runs[run].portal = runs[later].portal
              /\ \A between \in (run + 1)..(later - 1) :
                    runs[between].portal # runs[later].portal
            BY <1>2, <2>1, <2>3
        <3>2. given[run] = 1
            BY <2>3, <3>1 DEF IInv, NothingKeptIsRunAgain
        <3> QED BY <1>6, <2>1, <3>2
    <2> QED BY <1>2, <2>2, <2>3
<1> QED BY <1>7, <1>8, <1>9, <1>10, <1>11, <1>12 DEF IInv

LEMMA NextKeepsIInv == IInv /\ [Next]_vars => IInv'
<1> SUFFICES ASSUME IInv, [Next]_vars PROVE IInv'
    OBVIOUS
<1>1. ASSUME NEW name \in Names, Bind(name) \/ Close(name) PROVE IInv'
    BY <1>1, BindKeepsIInv, CloseKeepsIInv
<1>2. ASSUME NEW p \in made, IsBound(p),
             \/ DescribePortal(p)
             \/ ExecuteHeld(p)
             \/ ExecuteInitial(p)
             \/ ExecuteSuspended(p)
      PROVE  IInv'
    BY <1>2, DescribeKeepsIInv, ExecuteHeldKeepsIInv, ExecuteInitialKeepsIInv,
       ExecuteSuspendedKeepsIInv
<1>3. CASE UNCHANGED vars
    BY <1>3 DEF vars, IInv, TypeOK, BoundIsMade, RunIsMade, AddressesDiffer, EntriesAreOwn,
        ParkedAreOwn, NoneBeforeItRan, LatestIsKept, NoResultTwice, NothingKeptIsRunAgain,
        IsAlive, IsBound, IsLatest, Suspended
<1> QED BY <1>1, <1>2, <1>3 DEF Next

LEMMA IInvHolds == Spec => []IInv
BY InitImpliesIInv, NextKeepsIInv, PTL DEF Spec

-----------------------------------------------------------------------------
(* The theorems                                                            *)

\* Every variable keeps its type: no portal ever waits for the rows of a run
\* that did not happen (handlers.rs:586-645).
THEOREM PortalTypesHold == Spec => []TypeOK
<1>1. IInv => TypeOK
    BY DEF IInv
<1> QED BY <1>1, IInvHolds, PTL

\* The reference that an entry holds is what makes its address a sound key,
\* however many portals come and go (session.rs:361-385).
THEOREM TagsAreOwn == Spec => []HeldTagIsOwn
<1>1. IInv => HeldTagIsOwn
    BY FoundIsOwn DEF HeldTagIsOwn
<1> QED BY <1>1, IInvHolds, PTL

\* No result answers two Executes (session.rs:382-385, handlers.rs:710-738).
THEOREM ResultsAnswerOnce == Spec => []NoResultTwice
<1>1. IInv => NoResultTwice
    BY DEF IInv
<1> QED BY <1>1, IInvHolds, PTL

\* What a Describe has run is not run again by the Execute that follows,
\* whatever other portals did in between (handlers.rs:587-589, 710-738).
THEOREM KeptIsNotRunAgain == Spec => []NothingKeptIsRunAgain
<1>1. IInv => NothingKeptIsRunAgain
    BY DEF IInv
<1> QED BY <1>1, IInvHolds, PTL

-----------------------------------------------------------------------------
(* How many results wait                                                   *)

\* After hold_tag every entry refers to a portal that a name is bound to.
LEMMA HeldForNames ==
    ASSUME IInv, NEW p \in made, IsBound(p), NEW run, HoldTag(p, run),
           NEW a \in DOMAIN pending'
    PROVE  \E name \in Names : a = address[bound[name]]
<1>1. CASE a = address[p]
    BY <1>1 DEF IsBound
<1>2. CASE a # address[p]
    <2>1. a \in DOMAIN pending /\ IsBound(pending[a].keepalive)
        BY <1>2 DEF HoldTag
    <2>2. address[pending[a].keepalive] = a
        BY <2>1 DEF IInv, EntriesAreOwn
    <2> QED BY <2>1, <2>2 DEF IsBound
<1> QED BY <1>1, <1>2

LEMMA HoldTagHoldsFew ==
    ASSUME IInv, IsFiniteSet(Names), NEW p \in made, IsBound(p), NEW run, HoldTag(p, run)
    PROVE  IsFiniteSet(DOMAIN pending') /\ FewAreHeld'
<1> DEFINE f == [name \in Names |-> address[bound[name]]]
           addresses == {f[name] : name \in Names}
<1>1. f \in Surjection(Names, addresses)
    BY DEF Surjection
<1>2. IsFiniteSet(addresses) /\ Cardinality(addresses) <= Cardinality(Names)
    BY <1>1, FS_Surjection
<1>3. DOMAIN pending' \subseteq addresses
    BY HeldForNames
<1>4. IsFiniteSet(DOMAIN pending') /\ Cardinality(DOMAIN pending') <= Cardinality(addresses)
    BY <1>2, <1>3, FS_Subset
<1>5. Cardinality(DOMAIN pending') \in Nat /\ Cardinality(addresses) \in Nat
        /\ Cardinality(Names) \in Nat
    BY <1>2, <1>4, FS_CardinalityType
<1> QED BY <1>2, <1>4, <1>5 DEF FewAreHeld

\* However many portals a client describes and leaves, no more results wait
\* than it has names for portals (session.rs:368-371).
THEOREM FewResultsWait == IsFiniteSet(Names) /\ Spec => []FewAreHeld
<1> DEFINE Few == IsFiniteSet(Names) /\ IsFiniteSet(DOMAIN pending) /\ FewAreHeld
<1>1. IsFiniteSet(Names) /\ Init => Few
    BY FS_EmptySet, FS_CardinalityType DEF Init, FewAreHeld
<1>2. IInv /\ Few /\ [Next]_vars => Few'
    <2> SUFFICES ASSUME IInv, Few, [Next]_vars PROVE Few'
        OBVIOUS
    <2>1. UNCHANGED pending => Few'
        BY DEF FewAreHeld
    <2>2. ASSUME NEW p \in made, IsBound(p), DescribePortal(p) PROVE Few'
        BY <2>1, <2>2, HoldTagHoldsFew DEF DescribePortal
    <2>3. ASSUME NEW p \in made, ExecuteHeld(p) PROVE Few'
        <3>1. DOMAIN pending' \subseteq DOMAIN pending
            BY <2>3 DEF ExecuteHeld, TakeTag
        <3>2. /\ IsFiniteSet(DOMAIN pending')
              /\ Cardinality(DOMAIN pending') <= Cardinality(DOMAIN pending)
            BY <3>1, FS_Subset
        <3>3. /\ Cardinality(DOMAIN pending') \in Nat /\ Cardinality(DOMAIN pending) \in Nat
              /\ Cardinality(Names) \in Nat
            BY <3>2, FS_CardinalityType
        <3> QED BY <3>2, <3>3 DEF FewAreHeld
    <2>4. ASSUME NEW name \in Names, Bind(name) \/ Close(name) PROVE Few'
        BY <2>1, <2>4 DEF Bind, Close
    <2>5. ASSUME NEW p \in made, ExecuteInitial(p) \/ ExecuteSuspended(p) PROVE Few'
        BY <2>1, <2>5 DEF ExecuteInitial, ExecuteSuspended
    <2>6. UNCHANGED vars => Few'
        BY <2>1 DEF vars
    <2> QED BY <2>2, <2>3, <2>4, <2>5, <2>6 DEF Next
<1>3. Few => FewAreHeld
    OBVIOUS
<1> QED BY <1>1, <1>2, <1>3, IInvHolds, PTL DEF Spec

=============================================================================
