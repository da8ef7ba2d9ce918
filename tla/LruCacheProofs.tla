--------------------------- MODULE LruCacheProofs ---------------------------
(***************************************************************************)
(* Proofs about LruCache, for any keys, shapes and limit, and with a clock *)
(* that never stops.                                                       *)
(***************************************************************************)
EXTENDS LruCache, FiniteSetTheorems, SequenceTheorems, TLAPS

CInv == TypeOK /\ WithinLimit /\ StampsOrderEntries

\* What may be in a cache, whatever its limit.
Entry == [shape : Shapes, used : Nat]
IsCache(c) ==
    /\ c = [entries |-> c.entries, limit |-> c.limit, clock |-> c.clock]
    /\ c.clock \in Nat
    /\ c.limit = Limit
    /\ Held(c) \subseteq Keys
    /\ IsFiniteSet(Held(c))
    /\ c.entries \in [Held(c) -> Entry]

\* All stamps differ and none is later than the clock.
Ordered(c) ==
    /\ \A k \in Held(c) : c.entries[k].used <= c.clock
    /\ \A j, k \in Held(c) : c.entries[j].used = c.entries[k].used => j = k

IsAnswer == answer \in {<<>>} \cup (Keys \X Shapes)

LEMMA CInvParts ==
    CInv <=> /\ IsCache(cache) /\ Ordered(cache) /\ Cardinality(Held(cache)) <= Limit
             /\ IsAnswer
BY DEF CInv, TypeOK, WithinLimit, StampsOrderEntries, IsCache, Ordered, Entry, IsAnswer

-----------------------------------------------------------------------------
(* What each method preserves                                              *)

LEMMA TouchKeeps ==
    ASSUME NEW c, IsCache(c), Ordered(c), NEW sql
    PROVE  /\ IsCache(Touch(c, sql))
           /\ Ordered(Touch(c, sql))
           /\ Held(Touch(c, sql)) = Held(c)
<1> DEFINE now == c.clock + 1
           stamped == [k \in Held(c) |->
                        [shape |-> ShapeOf(c, k),
                         used  |-> IF k = sql THEN now ELSE c.entries[k].used]]
           d == Touch(c, sql)
<1>1. d = [entries |-> stamped, limit |-> c.limit, clock |-> now]
    BY DEF Touch
<1>2. now \in Nat /\ now > c.clock
    BY DEF IsCache
<1>3. \A k \in Held(c) : /\ c.entries[k] \in Entry
                         /\ c.entries[k].used \in Nat
                         /\ c.entries[k].used < now
    BY DEF IsCache, Ordered, Entry
<1>4. \A k \in Held(c) :
        /\ stamped[k] \in Entry
        /\ stamped[k].used = IF k = sql THEN now ELSE c.entries[k].used
    BY <1>2, <1>3 DEF Entry, ShapeOf
<1>5. DOMAIN stamped = Held(c)
    OBVIOUS
<1> HIDE DEF stamped
<1>6. Held(d) = Held(c) /\ d.entries = stamped /\ d.clock = now /\ d.limit = c.limit
    BY <1>1, <1>5 DEF Held
<1>7. stamped \in [Held(c) -> Entry]
    BY <1>4, <1>5 DEF stamped
<1>8. IsCache(d)
    BY <1>1, <1>2, <1>6, <1>7 DEF IsCache
<1>9. Ordered(d)
    BY <1>2, <1>3, <1>4, <1>6 DEF Ordered
<1> QED BY <1>6, <1>8, <1>9

\* An eviction keeps all but one entry, and drops a coldest one.
LEMMA EvictionKeeps ==
    ASSUME NEW c, IsCache(c), Ordered(c), NEW d \in Evictions(c)
    PROVE  /\ IsCache(d) /\ Ordered(d) /\ d.clock = c.clock
           /\ \/ Held(c) = {} /\ d = c
              \/ \E sql \in Coldest(c) : /\ Held(d) = Held(c) \ {sql}
                                         /\ \A k \in Held(d) : d.entries[k] = c.entries[k]
<1>1. CASE Held(c) = {}
    BY <1>1 DEF Evictions
<1>2. ASSUME NEW sql \in Coldest(c),
             d = [c EXCEPT !.entries = [k \in Held(c) \ {sql} |-> c.entries[k]]]
      PROVE  /\ IsCache(d) /\ Ordered(d) /\ d.clock = c.clock
             /\ Held(d) = Held(c) \ {sql}
             /\ \A k \in Held(d) : d.entries[k] = c.entries[k]
    <2> DEFINE kept == [k \in Held(c) \ {sql} |-> c.entries[k]]
    <2>1. d = [entries |-> kept, limit |-> c.limit, clock |-> c.clock]
        BY <1>2 DEF IsCache
    <2>2. DOMAIN kept = Held(c) \ {sql} /\ \A k \in Held(c) \ {sql} : kept[k] = c.entries[k]
        OBVIOUS
    <2>3. kept \in [Held(c) \ {sql} -> Entry]
        BY DEF IsCache
    <2>4. IsFiniteSet(Held(c) \ {sql})
        BY FS_RemoveElement DEF IsCache
    <2> HIDE DEF kept
    <2>5. Held(d) = Held(c) \ {sql} /\ d.entries = kept /\ d.clock = c.clock /\ d.limit = c.limit
        BY <2>1, <2>2 DEF Held
    <2>6. IsCache(d)
        BY <2>1, <2>3, <2>4, <2>5 DEF IsCache
    <2>7. Ordered(d)
        BY <2>2, <2>5 DEF Ordered
    <2> QED BY <2>2, <2>5, <2>6, <2>7
<1>3. Held(c) # {} => \E sql \in Coldest(c) :
            d = [c EXCEPT !.entries = [k \in Held(c) \ {sql} |-> c.entries[k]]]
    BY DEF Evictions
<1> QED BY <1>1, <1>2, <1>3

\* Inserting under a clock that no entry has seen.
LEMMA PutKeeps ==
    ASSUME NEW c, IsCache(c), Ordered(c), NEW sql \in Keys, NEW shape \in Shapes,
           \A k \in Held(c) : c.entries[k].used < c.clock
    PROVE  /\ IsCache(Put(c, sql, shape))
           /\ Ordered(Put(c, sql, shape))
           /\ Held(Put(c, sql, shape)) = Held(c) \cup {sql}
<1> DEFINE put == [k \in Held(c) \cup {sql} |->
                    IF k = sql THEN [shape |-> shape, used |-> c.clock] ELSE c.entries[k]]
           d == Put(c, sql, shape)
<1>1. d = [entries |-> put, limit |-> c.limit, clock |-> c.clock]
    BY DEF Put, IsCache
<1>2. DOMAIN put = Held(c) \cup {sql}
    OBVIOUS
<1>3. \A k \in Held(c) : c.entries[k] \in Entry /\ c.entries[k].used \in Nat
    BY DEF IsCache, Entry
<1>4. \A k \in Held(c) \cup {sql} :
        /\ put[k] \in Entry
        /\ put[k].used = IF k = sql THEN c.clock ELSE c.entries[k].used
    BY <1>3 DEF IsCache, Entry
<1>5. IsFiniteSet(Held(c) \cup {sql})
    BY FS_AddElement DEF IsCache
<1>6. put \in [Held(c) \cup {sql} -> Entry]
    BY <1>4
<1> HIDE DEF put
<1>7. Held(d) = Held(c) \cup {sql} /\ d.entries = put /\ d.clock = c.clock /\ d.limit = c.limit
    BY <1>1, <1>2 DEF Held
<1>8. IsCache(d)
    BY <1>1, <1>5, <1>6, <1>7 DEF IsCache
<1>9. Ordered(d)
    <2>1. \A k \in Held(d) : d.entries[k].used <= d.clock
        BY <1>3, <1>4, <1>7 DEF IsCache, Ordered
    <2>2. \A j, k \in Held(d) : d.entries[j].used = d.entries[k].used => j = k
        BY <1>3, <1>4, <1>7 DEF IsCache, Ordered
    <2> QED BY <2>1, <2>2 DEF Ordered
<1> QED BY <1>7, <1>8, <1>9

\* insert makes room when it has to and never otherwise; what it gives up is a
\* coldest entry.
LEMMA InsertionKeeps ==
    ASSUME NEW c, IsCache(c), Ordered(c), Cardinality(Held(c)) <= Limit,
           NEW sql \in Keys, NEW shape \in Shapes, NEW d \in Insertions(c, sql, shape)
    PROVE  /\ IsCache(d) /\ Ordered(d) /\ Cardinality(Held(d)) <= Limit
           /\ \/ Held(c) \subseteq Held(d)
              \/ \E cold \in Coldest(c) : Held(c) \ {cold} \subseteq Held(d)
<1> DEFINE ticked == [c EXCEPT !.clock = @ + 1]
<1>1. /\ ticked = [entries |-> c.entries, limit |-> c.limit, clock |-> c.clock + 1]
      /\ Held(ticked) = Held(c)
    BY DEF IsCache, Held
<1>2. /\ IsCache(ticked) /\ Ordered(ticked)
      /\ \A k \in Held(ticked) : ticked.entries[k].used < ticked.clock
    BY <1>1 DEF IsCache, Ordered, Entry
<1>3. Coldest(ticked) = Coldest(c)
    BY <1>1 DEF Coldest
<1>4. /\ IsFiniteSet(Held(c)) /\ Cardinality(Held(c)) \in Nat /\ Limit \in Nat \ {0}
    BY FS_CardinalityType, LimitAssumption DEF IsCache
<1> HIDE DEF ticked
<1>5. CASE NeedsRoom(c, sql)
    <2>1. PICK room \in Evictions(ticked) : d = Put(room, sql, shape)
        BY <1>5 DEF Insertions, ticked
    <2>2. /\ IsCache(room) /\ Ordered(room) /\ room.clock = ticked.clock
          /\ \/ Held(ticked) = {} /\ room = ticked
             \/ \E cold \in Coldest(ticked) :
                    /\ Held(room) = Held(ticked) \ {cold}
                    /\ \A k \in Held(room) : room.entries[k] = ticked.entries[k]
        BY <1>2, <2>1, EvictionKeeps
    <2>3. Held(ticked) # {}
        BY <1>1, <1>4, <1>5, FS_EmptySet DEF NeedsRoom, IsCache
    <2>4. PICK cold \in Coldest(c) :
            /\ Held(room) = Held(c) \ {cold}
            /\ \A k \in Held(room) : room.entries[k] = ticked.entries[k]
        BY <1>1, <1>3, <2>2, <2>3
    <2>5. \A k \in Held(room) : room.entries[k].used < room.clock
        BY <1>1, <1>2, <2>2, <2>4
    <2>6. IsCache(d) /\ Ordered(d) /\ Held(d) = Held(room) \cup {sql}
        BY <2>1, <2>2, <2>5, PutKeeps
    <2>7. cold \in Held(c) /\ sql \notin Held(room)
        BY <1>5, <2>4 DEF Coldest, NeedsRoom
    <2>8. Cardinality(Held(room)) = Cardinality(Held(c)) - 1
        <3>1. Cardinality(Held(c) \ {cold}) = Cardinality(Held(c)) - 1
            BY <1>4, <2>7, FS_RemoveElement
        <3> QED BY <2>4, <3>1
    <2>9. Cardinality(Held(d)) = Cardinality(Held(room)) + 1
        BY <2>2, <2>6, <2>7, FS_AddElement DEF IsCache
    <2>10. Held(c) \ {cold} \subseteq Held(d)
        BY <2>4, <2>6
    <2> QED BY <1>4, <2>6, <2>8, <2>9, <2>10
<1>6. CASE ~NeedsRoom(c, sql)
    <2>1. d = Put(ticked, sql, shape)
        BY <1>6 DEF Insertions, ticked
    <2>2. IsCache(d) /\ Ordered(d) /\ Held(d) = Held(c) \cup {sql}
        BY <1>1, <1>2, <2>1, PutKeeps
    <2>3. CASE sql \in Held(c)
        <3>1. Held(d) = Held(c)
            BY <2>2, <2>3
        <3> QED BY <2>2, <3>1
    <2>4. CASE Cardinality(Held(c)) < Limit /\ sql \notin Held(c)
        <3>1. Cardinality(Held(c) \cup {sql}) = Cardinality(Held(c)) + 1
            BY <1>4, <2>4, FS_AddElement
        <3>2. Cardinality(Held(d)) <= Limit
            BY <1>4, <2>2, <2>4, <3>1
        <3> QED BY <2>2, <3>2
    <2>5. Cardinality(Held(c)) < Limit \/ sql \in Held(c)
        BY <1>4, <1>6 DEF NeedsRoom, IsCache
    <2> QED BY <2>2, <2>3, <2>4, <2>5
<1> QED BY <1>5, <1>6

LEMMA ClearedKeeps ==
    ASSUME NEW c, IsCache(c)
    PROVE  /\ IsCache(Cleared(c)) /\ Ordered(Cleared(c))
           /\ Held(Cleared(c)) = {} /\ Cardinality(Held(Cleared(c))) <= Limit
<1>1. Cleared(c) = [entries |-> <<>>, limit |-> c.limit, clock |-> c.clock]
    BY DEF Cleared, IsCache
<1> DEFINE d == Cleared(c)
<1>2. /\ Held(d) = {} /\ d.entries \in [{} -> Entry]
      /\ d.limit = c.limit /\ d.clock = c.clock
      /\ d = [entries |-> d.entries, limit |-> d.limit, clock |-> d.clock]
    BY <1>1 DEF Held
<1> HIDE DEF d
<1>3. IsFiniteSet({}) /\ Cardinality({}) = 0 /\ Limit \in Nat
    BY FS_EmptySet, LimitAssumption
<1>4. IsCache(d) /\ Ordered(d) /\ Held(d) = {} /\ Cardinality(Held(d)) <= Limit
    BY <1>2, <1>3 DEF IsCache, Ordered
<1> QED BY <1>4 DEF d

-----------------------------------------------------------------------------
(* The theorems                                                            *)

LEMMA InitImpliesCInv == Init => CInv
<1> SUFFICES ASSUME Init PROVE CInv
    OBVIOUS
<1>1. cache = [entries |-> <<>>, limit |-> Limit, clock |-> 0]
    BY DEF Init, NewCache
<1>2. /\ Held(cache) = {} /\ cache.entries \in [{} -> Entry]
      /\ cache.limit = Limit /\ cache.clock = 0
      /\ cache = [entries |-> cache.entries, limit |-> cache.limit, clock |-> cache.clock]
    BY <1>1 DEF Held
<1>3. IsFiniteSet({}) /\ Cardinality({}) = 0 /\ Limit \in Nat
    BY FS_EmptySet, LimitAssumption
<1>4. IsAnswer
    BY DEF Init, IsAnswer
<1> QED BY <1>2, <1>3, <1>4, CInvParts DEF IsCache, Ordered

LEMMA NextKeepsCInv == CInv /\ [Next]_vars => CInv'
<1> SUFFICES ASSUME CInv, [Next]_vars PROVE CInv'
    OBVIOUS
<1>1. IsCache(cache) /\ Ordered(cache) /\ Cardinality(Held(cache)) <= Limit
    BY CInvParts
<1>2. (/\ IsCache(cache')
       /\ Ordered(cache')
       /\ Cardinality(Held(cache')) <= Limit
       /\ IsAnswer')
      => CInv'
    BY DEF CInv, TypeOK, WithinLimit, StampsOrderEntries, IsCache, Ordered, Entry, Held, IsAnswer
<1>3. ASSUME NEW sql \in Keys, Get(sql)
      PROVE  CInv'
    <2>1. IsAnswer'
        BY <1>1, <1>3 DEF Get, Answer, ShapeOf, IsAnswer, IsCache, Entry
    <2> QED BY <1>1, <1>2, <1>3, <2>1, TouchKeeps DEF Get
<1>4. ASSUME NEW sql \in Keys, NEW shape \in Shapes, Insert(sql, shape)
      PROVE  CInv'
    BY <1>1, <1>2, <1>4, InsertionKeeps DEF Insert, IsAnswer
<1>5. CASE Clear
    BY <1>1, <1>2, <1>5, ClearedKeeps DEF Clear, IsAnswer
<1>6. CASE UNCHANGED vars
    <2>1. IsAnswer
        BY CInvParts
    <2> QED BY <1>1, <1>2, <1>6, <2>1 DEF vars, IsAnswer
<1> QED BY <1>3, <1>4, <1>5, <1>6 DEF Next

LEMMA CInvHolds == Spec => []CInv
BY InitImpliesCInv, NextKeepsCInv, PTL DEF Spec

\* The cache keeps its shape (session.rs:72-85).
THEOREM CacheTypesHold == Spec => []TypeOK
<1>1. CInv => TypeOK
    BY DEF CInv
<1> QED BY <1>1, CInvHolds, PTL

\* No history of gets, inserts and clears takes the map past its limit,
\* whatever the limit (session.rs:104-117).
THEOREM CacheStaysWithinItsLimit == Spec => []WithinLimit
<1>1. CInv => WithinLimit
    BY DEF CInv
<1> QED BY <1>1, CInvHolds, PTL

\* The stamps put the entries in one order, so that the coldest of them is one
\* entry and not the first of several that a map walk meets (session.rs:95-128).
THEOREM StampsDoOrderEntries == Spec => []StampsOrderEntries
<1>1. CInv => StampsOrderEntries
    BY DEF CInv
<1> QED BY <1>1, CInvHolds, PTL

\* A step that does not empty the cache costs it at most the coldest entry
\* (session.rs:61-66).
THEOREM OnlyTheColdestIsDropped == Spec => DropsOnlyTheColdest
<1> DEFINE Frugal ==
        Held(cache') # {} =>
            LET dropped == Held(cache) \ Held(cache') IN
            /\ Cardinality(dropped) <= 1
            /\ \A d \in dropped, k \in Held(cache) :
                cache.entries[d].used <= cache.entries[k].used
<1>1. ASSUME CInv, [Next]_vars
      PROVE  Frugal
    <2>1. IsCache(cache) /\ Ordered(cache) /\ Cardinality(Held(cache)) <= Limit
        BY <1>1, CInvParts
    <2>2. ASSUME Held(cache) \subseteq Held(cache') PROVE Frugal
        <3>1. Held(cache) \ Held(cache') = {}
            BY <2>2
        <3> QED BY <3>1, FS_EmptySet
    <2>3. ASSUME NEW cold \in Coldest(cache), Held(cache) \ {cold} \subseteq Held(cache')
          PROVE  Frugal
        <3>1. Held(cache) \ Held(cache') \in {{}, {cold}}
            BY <2>3
        <3>2. Cardinality({}) = 0 /\ Cardinality({cold}) = 1
            BY FS_EmptySet, FS_Singleton
        <3> QED BY <3>1, <3>2 DEF Coldest
    <2>4. ASSUME NEW sql \in Keys, Get(sql) PROVE Frugal
        BY <2>1, <2>2, <2>4, TouchKeeps DEF Get
    <2>5. ASSUME NEW sql \in Keys, NEW shape \in Shapes, Insert(sql, shape) PROVE Frugal
        BY <2>1, <2>2, <2>3, <2>5, InsertionKeeps DEF Insert
    <2>6. CASE Clear
        BY <2>1, <2>6, ClearedKeeps DEF Clear
    <2>7. CASE UNCHANGED vars
        BY <2>2, <2>7 DEF vars
    <2> QED BY <1>1, <2>4, <2>5, <2>6, <2>7 DEF Next
<1> QED BY <1>1, CInvHolds, PTL DEF Spec, DropsOnlyTheColdest

-----------------------------------------------------------------------------
(* The order of last use                                                   *)

\* A place as a set, for the arithmetic of cardinalities.
UpTo(c, key) == {k \in Held(c) : c.entries[k].used <= c.entries[key].used}

\* The places of the keys are 1 to their number, each taken once: colder keys
\* come first, and an injection into as many places leaves none free.
LEMMA PlacesAreTaken ==
    ASSUME NEW c, IsCache(c), Ordered(c)
    PROVE  LET n == Cardinality(Held(c)) IN
           /\ n \in Nat
           /\ \A k \in Held(c) : Place(c, k) \in 1..n
           /\ \A j, k \in Held(c) : Place(c, j) = Place(c, k) => j = k
           /\ \A i \in 1..n : \E k \in Held(c) : Place(c, k) = i
<1> DEFINE n == Cardinality(Held(c))
           place == [k \in Held(c) |-> Place(c, k)]
<1>1. IsFiniteSet(Held(c)) /\ n \in Nat
    BY FS_CardinalityType DEF IsCache
<1>2. \A k \in Held(c) : c.entries[k].used \in Nat
    BY DEF IsCache, Entry
<1>3. ASSUME NEW k \in Held(c)
      PROVE  IsFiniteSet(UpTo(c, k)) /\ Place(c, k) = Cardinality(UpTo(c, k)) /\ Place(c, k) \in 1..n
    <2>1. UpTo(c, k) \in SUBSET Held(c) /\ k \in UpTo(c, k)
        BY <1>2 DEF UpTo
    <2>2. IsFiniteSet(UpTo(c, k)) /\ Cardinality(UpTo(c, k)) <= n
        BY <1>1, <2>1, FS_Subset
    <2>3. Cardinality(UpTo(c, k)) \in Nat /\ Cardinality(UpTo(c, k)) # 0
        BY <2>1, <2>2, FS_CardinalityType, FS_EmptySet
    <2> QED BY <1>1, <2>2, <2>3 DEF Place, UpTo
<1>4. ASSUME NEW j \in Held(c), NEW k \in Held(c), Place(c, j) = Place(c, k)
      PROVE  j = k
    <2>1. UpTo(c, j) \in SUBSET UpTo(c, k) \/ UpTo(c, k) \in SUBSET UpTo(c, j)
        BY <1>2 DEF UpTo
    <2>2. UpTo(c, j) = UpTo(c, k)
        BY <1>3, <1>4, <2>1, FS_Subset
    <2>3. c.entries[j].used <= c.entries[k].used /\ c.entries[k].used <= c.entries[j].used
        BY <1>2, <2>2 DEF UpTo
    <2> QED BY <1>2, <2>3 DEF Ordered
<1>5. IsFiniteSet(1..n) /\ Cardinality(1..n) = n
    BY <1>1, FS_Interval
<1>6. place \in Injection(Held(c), 1..n)
    BY <1>3, <1>4 DEF Injection, IsInjective
<1>7. place \in Surjection(Held(c), 1..n)
    BY <1>5, <1>6, FS_Injection
<1>8. \A i \in 1..n : \E k \in Held(c) : Place(c, k) = i
    BY <1>7 DEF Surjection
<1> QED BY <1>1, <1>3, <1>4, <1>8

\* The sequence of the keys: the key at a place has that place.
LEMMA KeysByUse ==
    ASSUME NEW c, IsCache(c), Ordered(c)
    PROVE  /\ Cardinality(Held(c)) \in Nat
           /\ ByUse(c) \in Seq(Held(c))
           /\ Len(ByUse(c)) = Cardinality(Held(c))
           /\ \A i \in 1..Len(ByUse(c)) : ByUse(c)[i] \in Held(c) /\ Place(c, ByUse(c)[i]) = i
           /\ \A k \in Held(c) : Place(c, k) \in 1..Len(ByUse(c)) /\ ByUse(c)[Place(c, k)] = k
           /\ ToSet(ByUse(c)) = Held(c)
<1> DEFINE n == Cardinality(Held(c))
           keyAt(i) == CHOOSE key \in Held(c) : Place(c, key) = i
<1>1. /\ n \in Nat
      /\ \A k \in Held(c) : Place(c, k) \in 1..n
      /\ \A j, k \in Held(c) : Place(c, j) = Place(c, k) => j = k
      /\ \A i \in 1..n : \E k \in Held(c) : Place(c, k) = i
    BY PlacesAreTaken
<1>2. \A i \in 1..n : keyAt(i) \in Held(c) /\ Place(c, keyAt(i)) = i
    BY <1>1
<1>3. ByUse(c) = [i \in 1..n |-> keyAt(i)]
    BY DEF ByUse
<1> HIDE DEF n, keyAt
<1>4. ByUse(c) \in Seq(Held(c)) /\ Len(ByUse(c)) = n /\ \A i \in 1..n : ByUse(c)[i] = keyAt(i)
    BY <1>1, <1>2, <1>3, IsASeq
<1>5. \A k \in Held(c) : ByUse(c)[Place(c, k)] = k
    BY <1>1, <1>2, <1>4
<1>6. DOMAIN ByUse(c) = 1..n
    BY <1>3
<1>7. ToSet(ByUse(c)) = Held(c)
    BY <1>1, <1>2, <1>4, <1>5, <1>6 DEF ToSet
<1> QED BY <1>1, <1>2, <1>4, <1>5, <1>7 DEF n

\* A sequence in which every key has its place is the order of last use.
LEMMA ByUseIsTheOnly ==
    ASSUME NEW c, IsCache(c), Ordered(c), NEW s \in Seq(Held(c)),
           Len(s) = Cardinality(Held(c)),
           \A i \in 1..Len(s) : Place(c, s[i]) = i
    PROVE  ByUse(c) = s
<1>1. /\ ByUse(c) \in Seq(Held(c)) /\ Len(ByUse(c)) = Len(s)
      /\ \A i \in 1..Len(s) : ByUse(c)[i] \in Held(c) /\ Place(c, ByUse(c)[i]) = i
    BY KeysByUse
<1>2. \A j, k \in Held(c) : Place(c, j) = Place(c, k) => j = k
    BY PlacesAreTaken
<1>3. \A i \in 1..Len(s) : s[i] \in Held(c)
    BY ElementOfSeq
<1>4. \A i \in 1..Len(s) : ByUse(c)[i] = s[i]
    BY <1>1, <1>2, <1>3
<1> QED BY <1>1, <1>4, SeqEqual

\* What Warmed does to a sequence that holds the key once, at a known place.
LEMMA WarmedMoves ==
    ASSUME NEW S, NEW s \in Seq(S), NEW at \in 1..Len(s),
           \A i \in 1..Len(s) : s[i] = s[at] => i = at
    PROVE  LET w == Textbook!Warmed(s, s[at]) IN
           /\ w \in Seq(S) /\ Len(w) = Len(s)
           /\ \A i \in 1..(at - 1) : w[i] = s[i]
           /\ \A i \in at..(Len(s) - 1) : w[i] = s[i + 1]
           /\ w[Len(s)] = s[at]
<1> DEFINE I == {i \in 1..Len(s) : s[i] = s[at]}
           front == SubSeq(s, 1, at - 1)
           back == SubSeq(s, at + 1, Len(s))
<1>1. I = {at} /\ I # {}
    OBVIOUS
<1>2. Textbook!Min(I) = at
    BY <1>1 DEF Textbook!Min
<1>3. Textbook!RemoveFirst(s, s[at]) = front \o back
    BY <1>1, <1>2 DEF Textbook!RemoveFirst, Textbook!RemoveAt, Textbook!SelectInSeq
<1>4. Textbook!Warmed(s, s[at]) = Append(front \o back, s[at])
    BY <1>3 DEF Textbook!Warmed
<1>5. /\ front \in Seq(S) /\ Len(front) = at - 1
      /\ \A i \in 1..(at - 1) : front[i] = s[i]
    BY SubSeqProperties
<1>6. /\ back \in Seq(S) /\ Len(back) = Len(s) - at
      /\ \A i \in 1..(Len(s) - at) : back[i] = s[at + i]
    BY SubSeqProperties
<1> HIDE DEF front, back
<1> DEFINE rest == front \o back
<1>7. /\ rest \in Seq(S) /\ Len(rest) = Len(s) - 1
      /\ \A i \in 1..(Len(s) - 1) : rest[i] = IF i < at THEN s[i] ELSE s[i + 1]
    <2>1. /\ rest \in Seq(S) /\ Len(rest) = Len(front) + Len(back)
          /\ \A i \in 1..(Len(front) + Len(back)) :
                rest[i] = IF i <= Len(front) THEN front[i] ELSE back[i - Len(front)]
        BY <1>5, <1>6, ConcatProperties, Zenon
    <2>2. Len(front) + Len(back) = Len(s) - 1
        BY <1>5, <1>6
    <2> QED BY <1>5, <1>6, <2>1, <2>2
<1> HIDE DEF rest
<1>8. s[at] \in S
    BY ElementOfSeq
<1>9. /\ Append(rest, s[at]) \in Seq(S) /\ Len(Append(rest, s[at])) = Len(s)
      /\ Append(rest, s[at])[Len(s)] = s[at]
      /\ \A i \in 1..(Len(s) - 1) : Append(rest, s[at])[i] = rest[i]
    BY <1>7, <1>8, AppendProperties
<1>10. Textbook!Warmed(s, s[at]) = Append(rest, s[at])
    BY <1>4 DEF rest
<1> QED BY <1>7, <1>9, <1>10

-----------------------------------------------------------------------------
(* What each step does to the order of last use                            *)

\* A key that is held and gets the latest stamp moves to the warm end: the
\* keys above it come one place nearer, and those below stay.
LEMMA UseWarms ==
    ASSUME NEW c, IsCache(c), Ordered(c), NEW d, IsCache(d), Ordered(d),
           NEW sql \in Held(c), Held(d) = Held(c),
           \A k \in Held(c) \ {sql} : /\ d.entries[k].used = c.entries[k].used
                                      /\ d.entries[k].used < d.entries[sql].used
    PROVE  ByUse(d) = Textbook!Warmed(ByUse(c), sql)
<1> DEFINE s == ByUse(c)
           n == Cardinality(Held(c))
           at == Place(c, sql)
           w == Textbook!Warmed(s, sql)
<1>1. /\ n \in Nat /\ s \in Seq(Held(c)) /\ Len(s) = n
      /\ \A i \in 1..n : s[i] \in Held(c) /\ Place(c, s[i]) = i
      /\ at \in 1..n /\ s[at] = sql
    BY KeysByUse
<1>2. \A k \in Held(c) : c.entries[k].used \in Nat /\ d.entries[k].used \in Nat
    BY DEF IsCache, Entry
<1>3. IsFiniteSet(Held(c))
    BY DEF IsCache
<1>4. Place(d, sql) = n
    <2>1. UpTo(d, sql) = Held(c)
        BY <1>2 DEF UpTo
    <2> QED BY <2>1 DEF Place, UpTo
<1>5. ASSUME NEW k \in Held(c) \ {sql}
      PROVE  Place(d, k) = IF Place(c, k) < at THEN Place(c, k) ELSE Place(c, k) - 1
    <2>1. UpTo(d, k) = UpTo(c, k) \ {sql}
        BY <1>2 DEF UpTo
    <2>2. IsFiniteSet(UpTo(c, k)) /\ IsFiniteSet(UpTo(c, sql))
        BY <1>3, FS_Subset DEF UpTo
    <2>3. Place(d, k) = Cardinality(UpTo(c, k) \ {sql})
          /\ Place(c, k) = Cardinality(UpTo(c, k)) /\ at = Cardinality(UpTo(c, sql))
        BY <2>1 DEF Place, UpTo
    <2>4. Place(c, k) \in Nat /\ at \in Nat
        BY <2>2, <2>3, FS_CardinalityType
    <2>5. CASE c.entries[k].used < c.entries[sql].used
        <3>1. sql \notin UpTo(c, k) /\ UpTo(c, k) \in SUBSET UpTo(c, sql) /\ sql \in UpTo(c, sql)
            BY <1>2, <2>5 DEF UpTo
        <3>2. Place(c, k) <= at /\ Place(c, k) # at
            BY <2>2, <2>3, <3>1, FS_Subset
        <3>3. UpTo(c, k) \ {sql} = UpTo(c, k)
            BY <3>1
        <3>4. Place(d, k) = Place(c, k)
            BY <2>3, <3>3
        <3>5. Place(c, k) < at
            BY <2>4, <3>2
        <3> QED BY <3>4, <3>5
    <2>6. CASE c.entries[sql].used <= c.entries[k].used
        <3>1. sql \in UpTo(c, k) /\ UpTo(c, sql) \in SUBSET UpTo(c, k)
            BY <1>2, <2>6 DEF UpTo
        <3>2. at <= Place(c, k)
            BY <2>2, <2>3, <3>1, FS_Subset
        <3>3. Cardinality(UpTo(c, k) \ {sql}) = Cardinality(UpTo(c, k)) - 1
            BY <2>2, <3>1, FS_RemoveElement
        <3> QED BY <2>3, <2>4, <3>2, <3>3
    <2> QED BY <1>2, <2>5, <2>6
<1> HIDE DEF s, n, at
<1>6. \A i \in 1..n : s[i] = sql => i = at
    BY <1>1 DEF at
<1>7. /\ w \in Seq(Held(c)) /\ Len(w) = n
      /\ \A i \in 1..(at - 1) : w[i] = s[i]
      /\ \A i \in at..(n - 1) : w[i] = s[i + 1]
      /\ w[n] = sql
    BY <1>1, <1>6, WarmedMoves
<1> HIDE DEF w
<1>8. \A i \in 1..n : Place(d, w[i]) = i
    <2>1. \A i \in 1..(at - 1) : Place(d, w[i]) = i
        BY <1>1, <1>5, <1>6, <1>7
    <2>2. \A i \in at..(n - 1) : Place(d, w[i]) = i
        <3> TAKE i \in at..(n - 1)
        <3>1. i + 1 \in 1..n /\ i + 1 # at /\ w[i] = s[i + 1]
            BY <1>1, <1>7
        <3>2. s[i + 1] \in Held(c) \ {sql} /\ Place(c, s[i + 1]) = i + 1
            BY <1>1, <1>6, <3>1
        <3>3. Place(d, s[i + 1]) = i
            BY <1>1, <1>5, <3>1, <3>2
        <3> QED BY <3>1, <3>3
    <2> QED BY <1>1, <1>4, <1>7, <2>1, <2>2
<1>9. ByUse(d) = w
    BY <1>1, <1>7, <1>8, ByUseIsTheOnly DEF n
<1> QED BY <1>9 DEF w, s

\* A key that is added with the latest stamp comes last.
LEMMA AddingAppends ==
    ASSUME NEW c, IsCache(c), Ordered(c), NEW d, IsCache(d), Ordered(d),
           NEW sql, sql \notin Held(c), Held(d) = Held(c) \cup {sql},
           \A k \in Held(c) : /\ d.entries[k].used = c.entries[k].used
                              /\ d.entries[k].used < d.entries[sql].used
    PROVE  ByUse(d) = Append(ByUse(c), sql)
<1> DEFINE s == ByUse(c)
           n == Cardinality(Held(c))
           a == Append(s, sql)
<1>1. /\ n \in Nat /\ s \in Seq(Held(c)) /\ Len(s) = n
      /\ \A i \in 1..n : s[i] \in Held(c) /\ Place(c, s[i]) = i
    BY KeysByUse
<1>2. \A k \in Held(d) : d.entries[k].used \in Nat
    BY DEF IsCache, Entry
<1>3. IsFiniteSet(Held(c)) /\ Cardinality(Held(d)) = n + 1
    BY FS_AddElement DEF IsCache
<1>4. UpTo(d, sql) = Held(d)
    BY <1>2 DEF UpTo
<1>5. Place(d, sql) = n + 1
    BY <1>3, <1>4 DEF Place, UpTo
<1>6. \A k \in Held(c) : Place(d, k) = Place(c, k)
    <2> TAKE k \in Held(c)
    <2>1. UpTo(d, k) = UpTo(c, k)
        BY <1>2 DEF UpTo
    <2> QED BY <2>1 DEF Place, UpTo
<1> HIDE DEF s, n
<1>7. s \in Seq(Held(d)) /\ sql \in Held(d)
    BY <1>1, SeqMonotonic
<1>8. /\ a \in Seq(Held(d)) /\ Len(a) = n + 1
      /\ \A i \in 1..n : a[i] = s[i]
      /\ a[n + 1] = sql
    BY <1>1, <1>7, AppendProperties
<1> HIDE DEF a
<1>9. \A i \in 1..(n + 1) : Place(d, a[i]) = i
    BY <1>1, <1>5, <1>6, <1>8
<1>10. ByUse(d) = a
    BY <1>1, <1>3, <1>8, <1>9, ByUseIsTheOnly DEF n
<1> QED BY <1>10 DEF a, s

\* Dropping the coldest key takes the first of the order.
LEMMA DroppingBeheads ==
    ASSUME NEW c, IsCache(c), Ordered(c), NEW d, IsCache(d), Ordered(d),
           NEW cold \in Coldest(c), Held(d) = Held(c) \ {cold},
           \A k \in Held(d) : d.entries[k].used = c.entries[k].used
    PROVE  ByUse(d) = Tail(ByUse(c)) /\ ByUse(c) # <<>>
<1> DEFINE s == ByUse(c)
           n == Cardinality(Held(c))
           t == Tail(s)
<1>1. /\ n \in Nat /\ s \in Seq(Held(c)) /\ Len(s) = n
      /\ \A i \in 1..n : s[i] \in Held(c) /\ Place(c, s[i]) = i
      /\ \A k \in Held(c) : Place(c, k) \in 1..n
    BY KeysByUse
<1>2. \A k \in Held(c) : c.entries[k].used \in Nat /\ c.entries[cold].used <= c.entries[k].used
    BY DEF IsCache, Entry, Coldest
<1>3. cold \in Held(c) /\ IsFiniteSet(Held(c)) /\ Cardinality(Held(d)) = n - 1
    BY FS_RemoveElement DEF IsCache, Coldest
<1>4. Place(c, cold) = 1
    <2>1. UpTo(c, cold) = {cold}
        BY <1>2, <1>3 DEF UpTo, Ordered
    <2>2. Cardinality({cold}) = 1
        BY FS_Singleton
    <2> QED BY <2>1, <2>2 DEF Place, UpTo
<1>5. \A k \in Held(d) : Place(d, k) = Place(c, k) - 1
    <2> TAKE k \in Held(d)
    <2>1. UpTo(d, k) = UpTo(c, k) \ {cold}
        BY <1>2 DEF UpTo
    <2>2. cold \in UpTo(c, k) /\ IsFiniteSet(UpTo(c, k))
        BY <1>2, <1>3, FS_Subset DEF UpTo
    <2>3. Cardinality(UpTo(d, k)) = Cardinality(UpTo(c, k)) - 1
        BY <2>1, <2>2, FS_RemoveElement
    <2> QED BY <2>3 DEF Place, UpTo
<1> HIDE DEF s, n
<1>6. n # 0 /\ s # <<>>
    BY <1>1, <1>3
<1>7. /\ t \in Seq(Held(c)) /\ Len(t) = n - 1
      /\ \A i \in 1..(n - 1) : t[i] = s[i + 1]
    BY <1>1, <1>6, HeadTailProperties
<1> HIDE DEF t
<1>8. \A i \in 1..(n - 1) : t[i] \in Held(d) /\ Place(d, t[i]) = i
    <2> TAKE i \in 1..(n - 1)
    <2>1. t[i] = s[i + 1] /\ s[i + 1] \in Held(c) /\ Place(c, s[i + 1]) = i + 1
        BY <1>1, <1>7
    <2>2. s[i + 1] # cold
        BY <1>4, <2>1
    <2> QED BY <1>5, <2>1, <2>2
<1>9. t \in Seq(Held(d))
    BY <1>1, <1>7, <1>8, IsASeq
<1>10. ByUse(d) = t
    BY <1>1, <1>3, <1>7, <1>8, <1>9, ByUseIsTheOnly
<1> QED BY <1>6, <1>10 DEF t, s

-----------------------------------------------------------------------------
(* The refinement                                                          *)

\* What Put leaves behind, entry by entry.
LEMMA PutHolds ==
    ASSUME NEW c, IsCache(c), NEW sql, NEW shape
    PROVE  LET d == Put(c, sql, shape) IN
           /\ Held(d) = Held(c) \cup {sql}
           /\ d.entries[sql].shape = shape /\ d.entries[sql].used = c.clock
           /\ \A k \in Held(c) \ {sql} : d.entries[k] = c.entries[k]
<1> DEFINE put == [k \in Held(c) \cup {sql} |->
                    IF k = sql THEN [shape |-> shape, used |-> c.clock] ELSE c.entries[k]]
<1>1. Put(c, sql, shape) = [entries |-> put, limit |-> c.limit, clock |-> c.clock]
    BY DEF Put, IsCache
<1>2. /\ DOMAIN put = Held(c) \cup {sql}
      /\ put[sql].shape = shape /\ put[sql].used = c.clock
      /\ \A k \in Held(c) \ {sql} : put[k] = c.entries[k]
    OBVIOUS
<1> HIDE DEF put
<1> QED BY <1>1, <1>2 DEF Held

\* An insert is a new stamp and a new shape for one key, put into the cache as
\* it is or, if the key is new and there is no place, into the cache without
\* its coldest entry.
LEMMA InsertionsSplit ==
    ASSUME NEW c, IsCache(c), Ordered(c), Cardinality(Held(c)) <= Limit,
           NEW sql \in Keys, NEW shape \in Shapes, NEW d \in Insertions(c, sql, shape)
    PROVE  \E room :
            /\ IsCache(room) /\ Ordered(room)
            /\ \/ NeedsRoom(c, sql) /\ \E cold \in Coldest(c) : Held(room) = Held(c) \ {cold}
               \/ ~NeedsRoom(c, sql) /\ Held(room) = Held(c)
            /\ \A k \in Held(room) : room.entries[k] = c.entries[k]
            /\ IsCache(d) /\ Ordered(d)
            /\ Held(d) = Held(room) \cup {sql}
            /\ d.entries[sql].shape = shape
            /\ \A k \in Held(room) \ {sql} : /\ d.entries[k] = room.entries[k]
                                             /\ d.entries[k].used < d.entries[sql].used
<1> DEFINE ticked == [c EXCEPT !.clock = @ + 1]
<1>1. /\ ticked = [entries |-> c.entries, limit |-> c.limit, clock |-> c.clock + 1]
      /\ Held(ticked) = Held(c) /\ ticked.entries = c.entries
    BY DEF IsCache, Held
<1>2. /\ IsCache(ticked) /\ Ordered(ticked)
      /\ \A k \in Held(ticked) : ticked.entries[k].used < ticked.clock
    BY <1>1 DEF IsCache, Ordered, Entry
<1>3. Coldest(ticked) = Coldest(c)
    BY <1>1 DEF Coldest
<1>4. IsFiniteSet(Held(c)) /\ Limit \in Nat \ {0} /\ c.limit = Limit
    BY LimitAssumption DEF IsCache
<1> HIDE DEF ticked
<1>5. PICK room : /\ d = Put(room, sql, shape)
                  /\ IsCache(room) /\ Ordered(room) /\ room.clock = ticked.clock
                  /\ \/ NeedsRoom(c, sql) /\ \E cold \in Coldest(c) : Held(room) = Held(c) \ {cold}
                     \/ ~NeedsRoom(c, sql) /\ Held(room) = Held(c)
                  /\ \A k \in Held(room) : room.entries[k] = c.entries[k]
    <2>1. CASE NeedsRoom(c, sql)
        <3>1. PICK room \in Evictions(ticked) : d = Put(room, sql, shape)
            BY <2>1 DEF Insertions, ticked
        <3>2. /\ IsCache(room) /\ Ordered(room) /\ room.clock = ticked.clock
              /\ \/ Held(ticked) = {} /\ room = ticked
                 \/ \E cold \in Coldest(ticked) :
                        /\ Held(room) = Held(ticked) \ {cold}
                        /\ \A k \in Held(room) : room.entries[k] = ticked.entries[k]
            BY <1>2, <3>1, EvictionKeeps
        <3>3. Held(ticked) # {}
            BY <1>1, <1>4, <2>1, FS_EmptySet DEF NeedsRoom
        <3> QED BY <1>1, <1>3, <2>1, <3>1, <3>2, <3>3
    <2>2. CASE ~NeedsRoom(c, sql)
        <3>1. d = Put(ticked, sql, shape)
            BY <2>2 DEF Insertions, ticked
        <3> QED BY <1>1, <1>2, <2>2, <3>1
    <2> QED BY <2>1, <2>2
<1>6. \A k \in Held(room) : k \in Held(c) /\ room.entries[k].used < room.clock
    BY <1>1, <1>2, <1>5
<1>7. IsCache(d) /\ Ordered(d) /\ Held(d) = Held(room) \cup {sql}
    BY <1>5, <1>6, PutKeeps
<1>8. /\ d.entries[sql].shape = shape /\ d.entries[sql].used = room.clock
      /\ \A k \in Held(room) \ {sql} : d.entries[k] = room.entries[k]
    BY <1>5, PutHolds
<1>9. \A k \in Held(room) \ {sql} : d.entries[k].used < d.entries[sql].used
    BY <1>6, <1>8
<1> QED BY <1>5, <1>7, <1>8, <1>9

\* A lookup is a use of the key, or a miss.
LEMMA GetIsTextbook ==
    ASSUME CInv, NEW sql \in Keys, Get(sql)
    PROVE  Textbook!LruUse(sql) \/ Textbook!LruMiss(sql)
<1> DEFINE now == cache.clock + 1
<1>1. IsCache(cache) /\ Ordered(cache)
    BY CInvParts
<1>2. cache' = Touch(cache, sql) /\ answer' = Answer(cache, sql)
    BY DEF Get
<1>3. IsCache(cache') /\ Ordered(cache') /\ Held(cache') = Held(cache)
    BY <1>1, <1>2, TouchKeeps
<1>4. \A k \in Held(cache) :
        /\ cache'.entries[k].shape = cache.entries[k].shape
        /\ cache'.entries[k].used = IF k = sql THEN now ELSE cache.entries[k].used
        /\ cache.entries[k].used < now
    BY <1>1, <1>2 DEF Touch, IsCache, Ordered, Entry, ShapeOf
<1>5. ToSet(ByUse(cache)) = Held(cache)
    BY <1>1, KeysByUse
<1>6. ShapesOf(cache') = ShapesOf(cache)
    BY <1>3, <1>4 DEF ShapesOf, ShapeOf
<1>7. CASE sql \in Held(cache)
    <2>1. \A k \in Held(cache) \ {sql} : /\ cache'.entries[k].used = cache.entries[k].used
                                         /\ cache'.entries[k].used < cache'.entries[sql].used
        BY <1>4, <1>7
    <2>2. ByUse(cache') = Textbook!Warmed(ByUse(cache), sql)
        BY <1>1, <1>3, <1>7, <2>1, UseWarms
    <2>3. answer' = <<sql, ShapesOf(cache)[sql]>>
        BY <1>2, <1>7 DEF Answer, ShapesOf
    <2> QED BY <1>5, <1>6, <1>7, <2>2, <2>3 DEF Textbook!LruUse, Textbook!ToSet, ToSet
<1>8. CASE sql \notin Held(cache)
    <2>1. \A k \in Held(cache) : cache'.entries[k].used = cache.entries[k].used
        BY <1>4, <1>8
    <2>2. \A k \in Held(cache) : Place(cache', k) = Place(cache, k)
        <3> TAKE k \in Held(cache)
        <3>1. UpTo(cache', k) = UpTo(cache, k)
            BY <1>3, <2>1 DEF UpTo
        <3> QED BY <3>1 DEF Place, UpTo
    <2>3. ByUse(cache') = ByUse(cache)
        <3>1. /\ ByUse(cache) \in Seq(Held(cache)) /\ Len(ByUse(cache)) = Cardinality(Held(cache))
              /\ \A i \in 1..Len(ByUse(cache)) : /\ ByUse(cache)[i] \in Held(cache)
                                                 /\ Place(cache, ByUse(cache)[i]) = i
            BY <1>1, KeysByUse
        <3> QED BY <1>3, <2>2, <3>1, ByUseIsTheOnly
    <2>4. answer' = <<>>
        BY <1>2, <1>8 DEF Answer
    <2> QED BY <1>5, <1>6, <1>8, <2>3, <2>4 DEF Textbook!LruMiss, Textbook!ToSet, ToSet
<1> QED BY <1>7, <1>8

\* An insert replaces the shape of a key that is held, or adds the key.
LEMMA InsertIsTextbook ==
    ASSUME CInv, NEW sql \in Keys, NEW shape \in Shapes, Insert(sql, shape)
    PROVE  Textbook!LruReplace(sql, shape) \/ Textbook!LruAdd(sql, shape)
<1> DEFINE d == cache'
<1>1. IsCache(cache) /\ Ordered(cache) /\ Cardinality(Held(cache)) <= Limit
    BY CInvParts
<1>2. d \in Insertions(cache, sql, shape) /\ answer' = <<>>
    BY DEF Insert
<1>3. PICK room :
        /\ IsCache(room) /\ Ordered(room)
        /\ \/ NeedsRoom(cache, sql) /\ \E cold \in Coldest(cache) : Held(room) = Held(cache) \ {cold}
           \/ ~NeedsRoom(cache, sql) /\ Held(room) = Held(cache)
        /\ \A k \in Held(room) : room.entries[k] = cache.entries[k]
        /\ IsCache(d) /\ Ordered(d)
        /\ Held(d) = Held(room) \cup {sql}
        /\ d.entries[sql].shape = shape
        /\ \A k \in Held(room) \ {sql} : /\ d.entries[k] = room.entries[k]
                                         /\ d.entries[k].used < d.entries[sql].used
    BY <1>1, <1>2, InsertionsSplit
<1>4. /\ ToSet(ByUse(cache)) = Held(cache) /\ Len(ByUse(cache)) = Cardinality(Held(cache))
      /\ Cardinality(Held(cache)) \in Nat /\ Limit \in Nat /\ cache.limit = Limit
    BY <1>1, KeysByUse, LimitAssumption DEF IsCache
<1>5. ToSet(ByUse(d)) = Held(d)
    BY <1>3, KeysByUse
<1>6. ShapesOf(d) = [k \in Held(d) |-> IF k = sql THEN shape ELSE ShapesOf(cache)[k]]
    <2>1. Held(room) \subseteq Held(cache)
        BY <1>3
    <2>2. \A k \in Held(d) : d.entries[k].shape = IF k = sql THEN shape ELSE cache.entries[k].shape
        BY <1>3
    <2> QED BY <1>3, <2>1, <2>2 DEF ShapesOf, ShapeOf
<1>7. CASE sql \in Held(cache)
    <2>1. Held(room) = Held(cache) /\ Held(d) = Held(cache)
        BY <1>3, <1>7 DEF NeedsRoom
    <2>2. ByUse(d) = Textbook!Warmed(ByUse(cache), sql)
        <3>1. \A k \in Held(cache) \ {sql} : /\ d.entries[k].used = cache.entries[k].used
                                             /\ d.entries[k].used < d.entries[sql].used
            BY <1>3, <2>1
        <3> QED BY <1>1, <1>3, <1>7, <2>1, <3>1, UseWarms
    <2>3. ShapesOf(d) = [ShapesOf(cache) EXCEPT ![sql] = shape]
        BY <1>6, <1>7, <2>1 DEF ShapesOf
    <2> QED BY <1>2, <1>4, <1>7, <2>2, <2>3 DEF Textbook!LruReplace, Textbook!ToSet, ToSet
<1>8. CASE sql \notin Held(cache)
    <2>1. sql \notin Held(room)
        BY <1>3, <1>8
    <2>2. ByUse(d) = Append(ByUse(room), sql)
        <3>1. \A k \in Held(room) : /\ d.entries[k].used = room.entries[k].used
                                    /\ d.entries[k].used < d.entries[sql].used
            BY <1>3, <2>1
        <3> QED BY <1>3, <2>1, <3>1, AddingAppends
    <2>3. ByUse(room) = IF Len(ByUse(cache)) < Limit THEN ByUse(cache) ELSE Tail(ByUse(cache))
        <3>1. CASE NeedsRoom(cache, sql)
            <4>1. PICK cold \in Coldest(cache) : Held(room) = Held(cache) \ {cold}
                BY <1>3, <3>1
            <4>2. ByUse(room) = Tail(ByUse(cache))
                BY <1>1, <1>3, <4>1, DroppingBeheads
            <4> QED BY <1>4, <3>1, <4>2 DEF NeedsRoom
        <3>2. CASE ~NeedsRoom(cache, sql)
            <4>1. Held(room) = Held(cache) /\ \A k \in Held(cache) : room.entries[k] = cache.entries[k]
                BY <1>3, <3>2
            <4>2. \A k \in Held(cache) : Place(room, k) = Place(cache, k)
                <5> TAKE k \in Held(cache)
                <5>1. UpTo(room, k) = UpTo(cache, k)
                    BY <4>1 DEF UpTo
                <5> QED BY <5>1 DEF Place, UpTo
            <4>3. ByUse(room) = ByUse(cache)
                <5>1. /\ ByUse(cache) \in Seq(Held(cache))
                      /\ \A i \in 1..Len(ByUse(cache)) : /\ ByUse(cache)[i] \in Held(cache)
                                                         /\ Place(cache, ByUse(cache)[i]) = i
                    BY <1>1, KeysByUse
                <5> QED BY <1>3, <1>4, <4>1, <4>2, <5>1, ByUseIsTheOnly
            <4> QED BY <1>4, <1>8, <3>2, <4>3 DEF NeedsRoom
        <3> QED BY <3>1, <3>2
    <2> QED BY <1>2, <1>4, <1>5, <1>6, <1>8, <2>2, <2>3 DEF Textbook!LruAdd, Textbook!ToSet, ToSet
<1> QED BY <1>7, <1>8

\* An empty cache is an empty order.
LEMMA EmptyIsTextbook ==
    ASSUME NEW c, Held(c) = {}
    PROVE  ByUse(c) = <<>> /\ ShapesOf(c) = <<>>
<1>1. Cardinality(Held(c)) = 0
    BY FS_EmptySet
<1>2. 1..Cardinality(Held(c)) = {}
    BY <1>1
<1> QED BY <1>2 DEF ByUse, ShapesOf

\* A map that scans stamps for the coldest entry is a least-recently-used map:
\* every step of it is one of Lru, or changes nothing Lru knows of, whatever
\* the limit and however long it runs (session.rs:87-137).
THEOREM CacheIsTextbookLru == Spec => IsTextbookLru
<1>1. Init => Textbook!LruInit
    <2> SUFFICES ASSUME Init PROVE Textbook!LruInit
        OBVIOUS
    <2>1. Held(cache) = {} /\ answer = <<>>
        BY DEF Init, NewCache, Held
    <2> QED BY <2>1, EmptyIsTextbook DEF Textbook!LruInit
<1>2. CInv /\ [Next]_vars => [Textbook!LruNext]_(Textbook!lruVars)
    <2> SUFFICES ASSUME CInv, [Next]_vars PROVE [Textbook!LruNext]_(Textbook!lruVars)
        OBVIOUS
    <2>1. ASSUME NEW sql \in Keys, Get(sql) PROVE Textbook!LruNext
        BY <2>1, GetIsTextbook DEF Textbook!LruNext
    <2>2. ASSUME NEW sql \in Keys, NEW shape \in Shapes, Insert(sql, shape) PROVE Textbook!LruNext
        BY <2>2, InsertIsTextbook DEF Textbook!LruNext
    <2>3. CASE Clear
        <3>1. Held(cache') = {} /\ answer' = <<>>
            BY <2>3, CInvParts, ClearedKeeps DEF Clear
        <3>2. Textbook!LruClear
            BY <3>1, EmptyIsTextbook DEF Textbook!LruClear
        <3> QED BY <3>2 DEF Textbook!LruNext
    <2>4. CASE UNCHANGED vars
        BY <2>4 DEF vars, Textbook!lruVars
    <2> QED BY <2>1, <2>2, <2>3, <2>4 DEF Next
<1> QED BY <1>1, <1>2, CInvHolds, PTL DEF Spec, IsTextbookLru, Textbook!LruSpec

=============================================================================
