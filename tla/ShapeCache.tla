----------------------------- MODULE ShapeCache -----------------------------
(***************************************************************************)
(* The bounded, least-recently-used map of statement shapes of             *)
(* src/session.rs (struct ShapeCache).  The data type alone: a cache is a  *)
(* record [entries, limit, clock], and an operator gives what each method  *)
(* returns or the cache it leaves behind.  LruCache drives one cache       *)
(* through its life; ShapeStore uses two kinds of them, one per connection *)
(* and one per process.                                                    *)
(***************************************************************************)
EXTENDS Naturals, FiniteSets

\* Definitions whose name ends in _Mutant are wrong on purpose: each is a slip
\* the code could have made, and the properties are shown to notice it.

\* The limit off by one.
NewCache_Mutant(limit) == [entries |-> <<>>, limit |-> limit + 1, clock |-> 0]

\* ShapeCache::new.  The clock is a u64 that starts at zero.
NewCache(limit) == [entries |-> <<>>, limit |-> limit, clock |-> 0]

Held(cache) == DOMAIN cache.entries

\* The value of get, for a key that is held.
ShapeOf(cache, sql) == cache.entries[sql].shape

\* What get returns: the key and its shape, or nothing.
Answer(cache, sql) == IF sql \in Held(cache) THEN <<sql, ShapeOf(cache, sql)>> ELSE <<>>

\* A lookup that reads the clock and forgets to tick it.
Touch_NoTick_Mutant(cache, sql) ==
    [entries |-> [k \in Held(cache) |->
                    [shape |-> ShapeOf(cache, k),
                     used  |-> IF k = sql THEN cache.clock ELSE cache.entries[k].used]],
     limit   |-> cache.limit,
     clock   |-> cache.clock]

\* A lookup that ticks the clock and forgets to stamp: first in, first out.
Touch_NoStamp_Mutant(cache, sql) == [cache EXCEPT !.clock = @ + 1]

\* get ticks the clock before it looks, so a miss ticks it as well; a hit is
\* stamped with the new time.
Touch(cache, sql) ==
    LET now == cache.clock + 1 IN
    [entries |-> [k \in Held(cache) |->
                    [shape |-> ShapeOf(cache, k),
                     used  |-> IF k = sql THEN now ELSE cache.entries[k].used]],
     limit   |-> cache.limit,
     clock   |-> now]

\* The keys min_by_key may return.  A HashMap is walked in no fixed order, so
\* among equal stamps any of them may come out.
Coldest(cache) ==
    {k \in Held(cache) : \A j \in Held(cache) :
        cache.entries[k].used <= cache.entries[j].used}

\* Emptying the map instead of dropping one entry.
Evictions_Mutant(cache) == {[cache EXCEPT !.entries = <<>>]}

\* evict_coldest, whichever coldest key it meets first; nothing when empty.
Evictions(cache) ==
    IF Held(cache) = {} THEN {cache}
    ELSE {[cache EXCEPT !.entries = [k \in Held(cache) \ {sql} |-> cache.entries[k]]] :
            sql \in Coldest(cache)}

\* HashMap::insert, which replaces the value of a key already there.
Put(cache, sql, shape) ==
    [cache EXCEPT !.entries =
        [k \in Held(cache) \cup {sql} |->
            IF k = sql THEN [shape |-> shape, used |-> cache.clock]
                       ELSE cache.entries[k]]]

\* Making room one entry too late.
NeedsRoom_Mutant(cache, sql) ==
    /\ Cardinality(Held(cache)) > cache.limit
    /\ sql \notin Held(cache)

\* Only a key that is not there yet needs room.
NeedsRoom(cache, sql) ==
    /\ Cardinality(Held(cache)) >= cache.limit
    /\ sql \notin Held(cache)

\* The caches insert may leave behind.
Insertions(cache, sql, shape) ==
    LET ticked == [cache EXCEPT !.clock = @ + 1] IN
    {Put(room, sql, shape) :
        room \in IF NeedsRoom(cache, sql) THEN Evictions(ticked) ELSE {ticked}}

\* clear empties the map and leaves the clock where it is.
Cleared(cache) == [cache EXCEPT !.entries = <<>>]

=============================================================================
