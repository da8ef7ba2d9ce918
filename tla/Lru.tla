-------------------------------- MODULE Lru --------------------------------
(***************************************************************************)
(* What a least-recently-used map of bounded size promises, with no clock  *)
(* and no stamps: the keys in the order of their last use, coldest first.  *)
(***************************************************************************)
EXTENDS Naturals, Sequences, SequencesExt

CONSTANTS Keys, Shapes, Limit

VARIABLES order,   \* the keys held, each once, the coldest first
          shapes,  \* what each of them maps to
          answer   \* what the last lookup returned

lruVars == <<order, shapes, answer>>

\* The keys with one of them moved to the warm end.
Warmed(keys, key) == Append(RemoveFirst(keys, key), key)

LruInit == order = <<>> /\ shapes = <<>> /\ answer = <<>>

\* Looking up a key that is held makes it the warmest and changes no value.
LruUse(key) ==
    /\ key \in ToSet(order)
    /\ order' = Warmed(order, key)
    /\ answer' = <<key, shapes[key]>>
    /\ UNCHANGED shapes

\* Looking up any other key changes nothing.
LruMiss(key) ==
    /\ key \notin ToSet(order)
    /\ answer' = <<>>
    /\ UNCHANGED <<order, shapes>>

\* A new value for a key that is held costs no other key its place.
LruReplace(key, shape) ==
    /\ key \in ToSet(order)
    /\ order' = Warmed(order, key)
    /\ shapes' = [shapes EXCEPT ![key] = shape]
    /\ answer' = <<>>

\* A new key takes the place of the coldest one when there is no free place.
LruAdd(key, shape) ==
    /\ key \notin ToSet(order)
    /\ order' = Append(IF Len(order) < Limit THEN order ELSE Tail(order), key)
    /\ shapes' = [k \in ToSet(order') |-> IF k = key THEN shape ELSE shapes[k]]
    /\ answer' = <<>>

LruClear == order' = <<>> /\ shapes' = <<>> /\ answer' = <<>>

LruNext ==
    \/ \E key \in Keys : LruUse(key) \/ LruMiss(key)
    \/ \E key \in Keys, shape \in Shapes : LruReplace(key, shape) \/ LruAdd(key, shape)
    \/ LruClear

LruSpec == LruInit /\ [][LruNext]_lruVars

=============================================================================
