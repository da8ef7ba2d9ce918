------------------------------ MODULE LruCache ------------------------------
(***************************************************************************)
(* One ShapeCache through its life.  Its methods run under a mutex, one at *)
(* a time, in whatever order its callers reach it: cached_shape calls get, *)
(* cache_shape calls insert, forget_shapes calls clear.                    *)
(***************************************************************************)
EXTENDS ShapeCache, Functions, SequencesExt

CONSTANTS Keys,      \* statement texts
          Shapes,    \* what a probe can answer
          Limit      \* SESSION_SHAPE_LIMIT or SHARED_SHAPE_LIMIT

\* Both limits of the code are positive constants.
ASSUME LimitAssumption == Limit \in Nat \ {0}

VARIABLES cache,   \* the ShapeCache
          answer   \* what the last get returned

vars == <<cache, answer>>

TypeOK ==
    /\ cache.clock \in Nat
    /\ cache.limit = Limit
    /\ Held(cache) \subseteq Keys
    /\ IsFiniteSet(Held(cache))
    /\ cache = [entries |-> cache.entries, limit |-> cache.limit, clock |-> cache.clock]
    /\ cache.entries \in [Held(cache) -> [shape : Shapes, used : Nat]]
    /\ answer \in {<<>>} \cup (Keys \X Shapes)

Init == cache = NewCache(Limit) /\ answer = <<>>

Get(sql) == cache' = Touch(cache, sql) /\ answer' = Answer(cache, sql)

Insert(sql, shape) == cache' \in Insertions(cache, sql, shape) /\ answer' = <<>>

Clear == cache' = Cleared(cache) /\ answer' = <<>>

Next ==
    \/ \E sql \in Keys : Get(sql)
    \/ \E sql \in Keys, shape \in Shapes : Insert(sql, shape)
    \/ Clear

Spec == Init /\ [][Next]_vars

-----------------------------------------------------------------------------
(* Safety *)

\* The map never holds more shapes than its limit: insert (session.rs:104)
\* makes room first, and only for a key that is not there yet.
WithinLimit == Cardinality(Held(cache)) <= Limit

\* No two entries carry the same stamp, and none is stamped later than the
\* clock: the clock ticks on every get and insert, so "the coldest" is one
\* entry and eviction does not depend on the order of a HashMap walk.
StampsOrderEntries ==
    /\ \A k \in Held(cache) : cache.entries[k].used <= cache.clock
    /\ \A j, k \in Held(cache) :
        cache.entries[j].used = cache.entries[k].used => j = k

\* A step that adds a key costs at most one other key, and every key it keeps
\* was used no earlier than the one it dropped (the promise of
\* session.rs:61-66: dropping the coldest loses one answer).
DropsOnlyTheColdest ==
    [][Held(cache') # {} =>
        LET dropped == Held(cache) \ Held(cache') IN
        /\ Cardinality(dropped) <= 1
        /\ \A d \in dropped, k \in Held(cache) :
            cache.entries[d].used <= cache.entries[k].used]_cache

-----------------------------------------------------------------------------
(* The scan over stamps implements the textbook least-recently-used map.    *)

\* A key's place in the order of last use, from the coldest on.
Place(c, key) ==
    Cardinality({k \in Held(c) : c.entries[k].used <= c.entries[key].used})

ByUse(c) ==
    [i \in 1..Cardinality(Held(c)) |-> CHOOSE key \in Held(c) : Place(c, key) = i]

ShapesOf(c) == [k \in Held(c) |-> ShapeOf(c, k)]

Textbook == INSTANCE Lru WITH
    order  <- ByUse(cache),
    shapes <- ShapesOf(cache)

\* Every history of the cache, its stamps sorted into an order of last use, is
\* a history of the least-recently-used map, answer for answer: every get that
\* hits warms its key, and one that misses, which ticks the clock, warms none
\* (session.rs:95-128).
IsTextbookLru == Textbook!LruSpec

=============================================================================
