----------------------------- MODULE LruCacheMC -----------------------------
(***************************************************************************)
(* LruCache on a small instance: more keys than the cache has room for.    *)
(***************************************************************************)
EXTENDS LruCache

CONSTANT MaxClock   \* how many gets and inserts one history may hold

\* The only unbounded value is the clock.
ClockBound == cache.clock <= MaxClock

=============================================================================
