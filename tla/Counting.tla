------------------------------ MODULE Counting ------------------------------
(***************************************************************************)
(* What the proofs about sequences rest on: least and largest numbers,     *)
(* counting up and down, functions defined by recursion, and places of a   *)
(* sequence.  The library's theorems of this kind take an operator as a    *)
(* parameter, and these take sets and functions.                           *)
(***************************************************************************)
EXTENDS Integers, SequencesExt, FiniteSetsExt, FiniteSetTheorems, WellFoundedInduction,
        NaturalsInduction, TLAPS

-----------------------------------------------------------------------------
(* The least and the largest of some numbers                               *)

LEMMA SomeNumberIsLeast ==
    ASSUME NEW T, T \subseteq Nat, T # {}
    PROVE  \E x \in T : \A y \in T : x <= y
<1> DEFINE R == {ss \in Nat \X Nat : ss[1] < ss[2]}
<1>1. IsWellFoundedOn(R, Nat)
    BY NatLessThanWellFounded DEF OpToRel
<1>2. \A x, y \in Nat : <<y, x>> \in R <=> y < x
    OBVIOUS
<1> HIDE DEF R
<1>3. \E x \in T : \A y \in T : ~ (<<y, x>> \in R)
    BY <1>1, WFMin, Zenon
<1>4. \A x \in T, y \in T : <<y, x>> \notin R => x <= y
    BY <1>2
<1> QED BY <1>3, <1>4

LEMMA MinIsLeast ==
    ASSUME NEW T, T \subseteq Nat, T # {}
    PROVE  Min(T) \in T /\ \A y \in T : Min(T) <= y
BY SomeNumberIsLeast DEF Min

LEMMA MaxIsLargest ==
    ASSUME NEW n \in Nat, NEW T, T \subseteq 0..n, T # {}
    PROVE  Max(T) \in T /\ \A y \in T : y <= Max(T)
<1> DEFINE Above == {m \in 0..n : \A y \in T : y <= m}
<1>1. Above \subseteq Nat /\ n \in Above
    OBVIOUS
<1>2. PICK m \in Above : \A k \in Above : m <= k
    <2> HIDE DEF Above
    <2> QED BY <1>1, SomeNumberIsLeast
<1>3. m \in T
    <2>1. CASE m = 0
        <3>1. PICK y \in T : y \in 0..n
            OBVIOUS
        <3>2. y = 0
            <4>1. y <= m
                BY <1>2
            <4> QED BY <4>1, <3>1, <2>1
        <3> QED BY <3>2, <2>1
    <2>2. CASE m > 0
        <3>1. m - 1 \notin Above
            BY <2>2, <1>2
        <3>2. PICK y \in T : y > m - 1
            BY <3>1, <2>2
        <3>3. y = m
            BY <3>2, <1>2
        <3> QED BY <3>2, <3>3
    <2> QED BY <2>1, <2>2
<1>4. \A y \in T : m >= y
    BY <1>2
<1>5. \E x \in T : \A y \in T : x >= y
    BY <1>3, <1>4
<1>6. Max(T) \in T /\ \A y \in T : Max(T) >= y
    <2> DEFINE IsLargest(x) == x \in T /\ \A y \in T : x >= y
    <2>1. IsLargest(CHOOSE x : IsLargest(x))
        BY <1>5
    <2> QED BY <2>1 DEF Max
<1>7. \A x, y \in T : x >= y => y <= x
    OBVIOUS
<1> QED BY <1>6, <1>7

-----------------------------------------------------------------------------
(* Counting up                                                             *)

\* Counting up: a set of numbers that has 0, and the next of each but n.
LEMMA CountingUp ==
    ASSUME NEW n \in Nat, NEW S, 0 \in S, \A k \in 0..n : k \in S /\ k < n => k + 1 \in S
    PROVE  0..n \subseteq S
<1> DEFINE Missing == (0..n) \ S
<1> SUFFICES ASSUME Missing # {} PROVE FALSE
    OBVIOUS
<1>1. Missing \subseteq Nat
    OBVIOUS
<1>2. PICK m \in Missing : \A k \in Missing : m <= k
    <2> HIDE DEF Missing
    <2> QED BY <1>1, SomeNumberIsLeast
<1>3. m # 0 /\ m \in 0..n
    OBVIOUS
<1>4. m - 1 \in S
    BY <1>2, <1>3
<1> QED BY <1>3, <1>4

\* A function that is defined step by step exists.
HasSteps(n, X, b, G) ==
    \E f \in [0..n -> X] : f[0] = b /\ \A k \in 1..n : f[k] = G[<<k, f[k - 1]>>]

LEMMA StepsMakeAFunction ==
    ASSUME NEW n \in Nat, NEW X, NEW b \in X, NEW G \in [(1..n) \X X -> X]
    PROVE  HasSteps(n, X, b, G)
<1> DEFINE Upto(m, f) == f \in [0..m -> X] /\ f[0] = b /\ \A k \in 1..m : f[k] = G[<<k, f[k - 1]>>]
           Done == {m \in 0..n : \E f : Upto(m, f)}
<1>1. 0 \in Done
    <2>1. Upto(0, [k \in 0..0 |-> b])
        OBVIOUS
    <2> HIDE DEF Upto
    <2> QED BY <2>1
<1>2. ASSUME NEW m \in 0..n, m \in Done, m < n
      PROVE  m + 1 \in Done
    <2>1. PICK f : Upto(m, f)
        BY <1>2
    <2> DEFINE g == [k \in 0..(m + 1) |-> IF k = m + 1 THEN G[<<m + 1, f[m]>>] ELSE f[k]]
    <2>2. f[m] \in X /\ m + 1 \in 1..n
        BY <2>1, <1>2
    <2>3. G[<<m + 1, f[m]>>] \in X
        BY <2>2
    <2>4. g \in [0..(m + 1) -> X]
        BY <2>1, <2>3
    <2>5. g[0] = b
        BY <2>1
    <2>6. \A k \in 1..(m + 1) : g[k] = G[<<k, g[k - 1]>>]
        <3> SUFFICES ASSUME NEW k \in 1..(m + 1) PROVE g[k] = G[<<k, g[k - 1]>>]
            OBVIOUS
        <3>1. g[k - 1] = f[k - 1]
            OBVIOUS
        <3>2. CASE k = m + 1
            <4>1. g[k] = G[<<m + 1, f[m]>>] /\ k = m + 1 /\ k - 1 = m
                BY <3>2
            <4> HIDE DEF g
            <4> QED BY <4>1, <3>1
        <3>3. CASE k # m + 1
            <4>1. k \in 1..m /\ g[k] = f[k]
                BY <3>3
            <4>2. f[k] = G[<<k, f[k - 1]>>]
                BY <4>1, <2>1
            <4> HIDE DEF g
            <4> QED BY <4>1, <4>2, <3>1
        <3> QED BY <3>2, <3>3
    <2>7. Upto(m + 1, g)
        <3> HIDE DEF g
        <3> QED BY <2>4, <2>5, <2>6
    <2> HIDE DEF Upto
    <2> QED BY <2>7, <1>2
<1>3. 0..n \subseteq Done
    <2> HIDE DEF Done
    <2> QED BY <1>1, <1>2, CountingUp
<1> QED BY <1>3 DEF HasSteps

\* Flattening some sequences, one after the other.
Flattens(seqs, f) ==
    /\ f[1] = seqs[1]
    /\ \A k \in 2..Len(seqs) : f[k] = f[k - 1] \o seqs[k]
    /\ f[Len(seqs)] = FlattenSeq(seqs)

LEMMA FlatteningGoesOn ==
    ASSUME NEW C, NEW seqs \in Seq(Seq(C)), seqs # <<>>
    PROVE  \E f \in [1..Len(seqs) -> Seq(C)] : Flattens(seqs, f)
<1> DEFINE n == Len(seqs)
           F(f) == f = [i \in 1..n |-> IF i = 1 THEN seqs[i] ELSE f[i - 1] \o seqs[i]]
<1>1. n \in Nat \ {0} /\ \A k \in 1..n : seqs[k] \in Seq(C)
    OBVIOUS
<1>2. \E f \in [1..n -> Seq(C)] : F(f)
    <2> DEFINE m == n - 1
               G == [p \in (1..m) \X Seq(C) |-> p[2] \o seqs[p[1] + 1]]
    <2>1. m \in Nat /\ seqs[1] \in Seq(C)
        BY <1>1
    <2>2. G \in [(1..m) \X Seq(C) -> Seq(C)]
        <3> SUFFICES ASSUME NEW p \in (1..m) \X Seq(C) PROVE p[2] \o seqs[p[1] + 1] \in Seq(C)
            OBVIOUS
        <3>1. p[2] \in Seq(C) /\ p[1] + 1 \in 1..n
            BY <1>1
        <3> HIDE DEF n
        <3> QED BY <3>1, <1>1
    <2>3. \A k \in 1..m, x \in Seq(C) : G[<<k, x>>] = x \o seqs[k + 1]
        OBVIOUS
    <2> HIDE DEF m, G
    <2>4. PICK g \in [0..m -> Seq(C)] :
                g[0] = seqs[1] /\ \A k \in 1..m : g[k] = G[<<k, g[k - 1]>>]
        <3>1. HasSteps(m, Seq(C), seqs[1], G)
            BY <2>1, <2>2, StepsMakeAFunction
        <3> QED BY <3>1 DEF HasSteps
    <2> HIDE DEF n
    <2>m. m = n - 1
        BY DEF m
    <2> DEFINE f == [i \in 1..n |-> g[i - 1]]
    <2>5. f \in [1..n -> Seq(C)]
        BY <2>4, <2>m, <1>1
    <2>6. \A i \in 1..n : f[i] = IF i = 1 THEN seqs[i] ELSE f[i - 1] \o seqs[i]
        <3> SUFFICES ASSUME NEW i \in 1..n
                     PROVE  f[i] = IF i = 1 THEN seqs[i] ELSE f[i - 1] \o seqs[i]
            OBVIOUS
        <3>1. CASE i = 1
            BY <3>1, <2>4
        <3>2. CASE i # 1
            <4>1. i - 1 \in 1..m /\ i - 1 \in 1..n /\ (i - 1) + 1 = i
                BY <3>2, <1>1, <2>m
            <4>2. f[i] = g[i - 1] /\ f[i - 1] = g[(i - 1) - 1]
                BY <4>1
            <4> HIDE DEF f
            <4>3. g[i - 1] = G[<<i - 1, g[(i - 1) - 1]>>]
                BY <4>1, <2>4
            <4>4. (i - 1) - 1 \in 0..m
                BY <4>1, <2>1
            <4>5. g[(i - 1) - 1] \in Seq(C)
                BY <4>4, <2>4
            <4> QED BY <4>1, <4>2, <4>3, <4>5, <2>3, <3>2
        <3> QED BY <3>1, <3>2
    <2>7. F(f)
        BY <2>5, <2>6
    <2> HIDE DEF F, f
    <2> QED BY <2>5, <2>7
<1>3. PICK f : F(f) /\ FlattenSeq(seqs) = f[n]
    <2> DEFINE flatten == CHOOSE f : F(f)
    <2>1. F(flatten)
        <3> HIDE DEF F
        <3> QED BY <1>2
    <2>2. FlattenSeq(seqs) = flatten[n]
        BY <1>1 DEF FlattenSeq
    <2> QED BY <2>1, <2>2
<1>4. \A i \in 1..n : f[i] = IF i = 1 THEN seqs[i] ELSE f[i - 1] \o seqs[i]
    BY <1>3
<1>5. f = [i \in 1..n |-> f[i]]
    BY <1>3
<1> HIDE DEF F, n
<1>6. f \in [1..n -> Seq(C)]
    <2> DEFINE Typed == {k \in Nat : k + 1 \in 1..n => f[k + 1] \in Seq(C)}
    <2>1. 0 \in Typed
        BY <1>1, <1>4
    <2>2. ASSUME NEW k \in 0..(n - 1), k \in Typed, k < n - 1
          PROVE  k + 1 \in Typed
        <3>1. k + 1 \in 1..n /\ k + 2 \in 1..n /\ f[k + 1] \in Seq(C)
            BY <1>1, <2>2
        <3>2. f[k + 2] = f[k + 1] \o seqs[k + 2]
            <4>1. (k + 2) - 1 = k + 1 /\ k + 2 # 1
                OBVIOUS
            <4> QED BY <4>1, <3>1, <1>4
        <3>3. f[k + 2] \in Seq(C)
            BY <3>1, <3>2, <1>1
        <3> QED BY <3>3, <3>1
    <2>3. 0..(n - 1) \subseteq Typed
        <3>1. n - 1 \in Nat
            BY <1>1
        <3> HIDE DEF Typed
        <3> QED BY <3>1, <2>1, <2>2, CountingUp
    <2>4. ASSUME NEW i \in 1..n
          PROVE  f[i] \in Seq(C)
        <3>1. i - 1 \in 0..(n - 1) /\ (i - 1) + 1 = i
            BY <1>1
        <3> QED BY <3>1, <2>3
    <2> QED BY <2>4, <1>5
<1>7. f[1] = seqs[1] /\ \A k \in 2..n : f[k] = f[k - 1] \o seqs[k]
    <2>1. 1 \in 1..n /\ \A k \in 2..n : k \in 1..n /\ k # 1
        BY <1>1
    <2> QED BY <2>1, <1>4
<1> QED BY <1>3, <1>6, <1>7 DEF Flattens, n

-----------------------------------------------------------------------------
(* Counting down                                                           *)

\* What holds of a place whenever it holds of all later ones holds of all.
LEMMA CountingDown ==
    ASSUME NEW n \in Nat, NEW S, \A i \in 1..n : (\A j \in (i + 1)..n : j \in S) => i \in S
    PROVE  1..n \subseteq S
<1> DEFINE Late(m) == {i \in 1..n : i > n - m}
           Done == {m \in 0..n : Late(m) \subseteq S}
<1>1. 0 \in Done
    OBVIOUS
<1>2. ASSUME NEW m \in 0..n, m \in Done, m < n
      PROVE  m + 1 \in Done
    <2>1. n - m \in 1..n /\ \A j \in ((n - m) + 1)..n : j \in Late(m)
        BY <1>2
    <2>2. n - m \in S
        BY <2>1, <1>2
    <2>3. \A i \in Late(m + 1) : i = n - m \/ i \in Late(m)
        OBVIOUS
    <2> QED BY <2>2, <2>3, <1>2
<1>3. n \in Done
    <2> HIDE DEF Done
    <2> QED BY <1>1, <1>2, CountingUp
<1>4. 1..n \subseteq Late(n)
    OBVIOUS
<1> QED BY <1>3, <1>4

\* A function that looks itself up at places of a lower rank exists.  At p it
\* has value[p], or it makes with[p] of what it has at next[p].
IsAnswered(P, V, stop, value, next, with) ==
    \E f \in [P -> V] :
        \A p \in P : f[p] = IF p \in stop THEN value[p] ELSE with[p][f[next[p]]]

LEMMA RecursionEnds ==
    ASSUME NEW n \in Nat, NEW P, NEW V, NEW rank \in [P -> 0..n], NEW stop,
           NEW value \in [P -> V], NEW next \in [P -> P], NEW with \in [P -> [V -> V]],
           \A p \in P : p \notin stop => rank[next[p]] < rank[p]
    PROVE  IsAnswered(P, V, stop, value, next, with)
<1> DEFINE Upto(m, f) ==
               f \in [P -> V]
               /\ \A p \in P : rank[p] < m =>
                      f[p] = IF p \in stop THEN value[p] ELSE with[p][f[next[p]]]
           Done == {m \in 0..(n + 1) : \E f : Upto(m, f)}
<1>1. 0 \in Done
    <2>1. Upto(0, value)
        OBVIOUS
    <2> HIDE DEF Upto
    <2> QED BY <2>1
<1>2. ASSUME NEW m \in 0..(n + 1), m \in Done, m < n + 1
      PROVE  m + 1 \in Done
    <2>1. PICK f : Upto(m, f)
        BY <1>2
    <2> DEFINE g == [p \in P |-> IF rank[p] < m THEN f[p]
                                ELSE IF p \in stop THEN value[p] ELSE with[p][f[next[p]]]]
    <2>2. \A p \in P : f[p] \in V /\ value[p] \in V /\ next[p] \in P /\ with[p][f[next[p]]] \in V
        BY <2>1
    <2>3. g \in [P -> V]
        BY <2>2
    <2>4. ASSUME NEW p \in P, rank[p] < m + 1
          PROVE  g[p] = IF p \in stop THEN value[p] ELSE with[p][g[next[p]]]
        <3>1. g[p] = IF p \in stop THEN value[p] ELSE with[p][f[next[p]]]
            BY <2>1
        <3>2. p \notin stop => g[next[p]] = f[next[p]]
            <4>1. p \notin stop => rank[next[p]] < m
                BY <2>2, <2>4
            <4> QED BY <4>1, <2>2
        <3> HIDE DEF g
        <3> QED BY <3>1, <3>2
    <2>5. Upto(m + 1, g)
        <3> HIDE DEF g
        <3> QED BY <2>3, <2>4
    <2> HIDE DEF Upto
    <2> QED BY <2>5, <1>2
<1>3. n + 1 \in Done
    <2> HIDE DEF Done
    <2>1. n + 1 \in Nat
        OBVIOUS
    <2>2. 0..(n + 1) \subseteq Done
        BY <2>1, <1>1, <1>2, CountingUp
    <2> QED BY <2>1, <2>2
<1>4. PICK f : Upto(n + 1, f)
    BY <1>3
<1>5. \A p \in P : rank[p] < n + 1
    OBVIOUS
<1> QED BY <1>4, <1>5 DEF IsAnswered

\* The same for places counted down from the end, each looking at a later one.
LEMMA WalkingEnds ==
    ASSUME NEW n \in Nat, NEW V, NEW stop, NEW value \in [1..n -> V],
           NEW next \in [1..n -> 1..n], NEW with \in [1..n -> [V -> V]],
           \A i \in 1..n : i \notin stop => next[i] > i
    PROVE  IsAnswered(1..n, V, stop, value, next, with)
<1> DEFINE rank == [i \in 1..n |-> n - i]
<1>1. rank \in [1..n -> 0..n]
    OBVIOUS
<1>2. \A i \in 1..n : i \notin stop => rank[next[i]] < rank[i]
    OBVIOUS
<1> HIDE DEF rank
<1> QED BY <1>1, <1>2, RecursionEnds

-----------------------------------------------------------------------------
(* Places of a sequence                                                    *)

\* The first of some places, or the place after the end.
LEMMA LeastPlace ==
    ASSUME NEW n \in Nat, NEW i \in 1..(n + 1), NEW S, S \subseteq i..n
    PROVE  LET m == Min(S \cup {n + 1}) IN
           /\ m \in i..(n + 1)
           /\ m \in S \/ m = n + 1
           /\ \A j \in S : m <= j
<1> DEFINE T == S \cup {n + 1}
<1>1. T \subseteq Nat /\ T # {}
    OBVIOUS
<1> HIDE DEF T
<1>2. Min(T) \in T /\ \A y \in T : Min(T) <= y
    BY <1>1, MinIsLeast
<1> DEFINE m == Min(T)
<1>3. m \in T /\ \A y \in T : m <= y
    BY <1>2
<1> HIDE DEF m
<1>4. m \in i..(n + 1) /\ (m \in S \/ m = n + 1) /\ \A j \in S : m <= j
    BY <1>3 DEF T
<1> QED BY <1>4 DEF m, T

\* The least of some places is the one there is nothing before.
LEMMA LeastIs ==
    ASSUME NEW n \in Nat, NEW i \in 1..(n + 1), NEW S, S \subseteq i..n,
           NEW x \in i..(n + 1), x \in S \/ x = n + 1, \A k \in i..(x - 1) : k \notin S
    PROVE  Min(S \cup {n + 1}) = x
<1> DEFINE m == Min(S \cup {n + 1})
<1>1. m \in i..(n + 1) /\ (m \in S \/ m = n + 1) /\ \A j \in S : m <= j
    BY LeastPlace
<1> HIDE DEF m
<1>2. m <= x
    BY <1>1
<1>3. ~ (m < x)
    BY <1>1
<1>4. m = x
    BY <1>1, <1>3
<1> QED BY <1>4 DEF m

\* How many of some places are before j.
CountBefore(Q, j) == Cardinality({k \in Q : k < j})

LEMMA CountingOn ==
    ASSUME NEW Q, IsFiniteSet(Q), \A k \in Q : k \in Int, NEW j \in Int
    PROVE  /\ CountBefore(Q, j) \in Nat
           /\ CountBefore(Q, j + 1) = IF j \in Q THEN CountBefore(Q, j) + 1 ELSE CountBefore(Q, j)
           /\ Cardinality({k \in Q : k <= j}) = CountBefore(Q, j + 1)
<1> DEFINE Before == {k \in Q : k < j}
           Upto == {k \in Q : k < j + 1}
<1>1. Before \in SUBSET Q /\ j \notin Before
    OBVIOUS
<1>2. {k \in Q : k <= j} = Upto
    OBVIOUS
<1>3. Upto = IF j \in Q THEN Before \cup {j} ELSE Before
    <2>1. \A k \in Q : k < j + 1 <=> k < j \/ k = j
        OBVIOUS
    <2> QED BY <2>1
<1>4. CountBefore(Q, j) = Cardinality(Before) /\ CountBefore(Q, j + 1) = Cardinality(Upto)
    BY DEF CountBefore
<1> HIDE DEF Before, Upto
<1>5. IsFiniteSet(Before)
    BY <1>1, FS_Subset
<1>6. Cardinality(Before) \in Nat
    BY <1>5, FS_CardinalityType
<1>7. Cardinality(Before \cup {j}) = Cardinality(Before) + 1
    BY <1>5, <1>1, FS_AddElement
<1> QED BY <1>2, <1>3, <1>4, <1>6, <1>7

LEMMA PlacesAreFinite ==
    ASSUME NEW n \in Nat, NEW i \in Nat, NEW S, S \subseteq i..n
    PROVE  IsFiniteSet(S) /\ \A k \in S : k \in Int
<1>1. i \in Int /\ n \in Int /\ S \in SUBSET (i..n)
    OBVIOUS
<1>2. IsFiniteSet(i..n)
    BY <1>1, FS_Interval
<1>3. IsFiniteSet(S)
    BY <1>1, <1>2, FS_Subset
<1>4. \A k \in S : k \in Int
    OBVIOUS
<1> QED BY <1>3, <1>4

\* The members of two sequences in a row.
LEMMA SetOfTwo ==
    ASSUME NEW X, NEW r \in Seq(X), NEW s \in Seq(X)
    PROVE  ToSet(r \o s) = ToSet(r) \cup ToSet(s)
<1>1. \A i \in 1..Len(r) : (r \o s)[i] = r[i] /\ i \in 1..Len(r \o s)
    OBVIOUS
<1>2. \A i \in 1..Len(s) : (r \o s)[Len(r) + i] = s[i] /\ Len(r) + i \in 1..Len(r \o s)
    OBVIOUS
<1>3. \A i \in 1..Len(r \o s) : \/ i \in 1..Len(r)
                                \/ i - Len(r) \in 1..Len(s) /\ i = Len(r) + (i - Len(r))
    OBVIOUS
<1>4. ToSet(r \o s) = ToSet(r) \cup ToSet(s)
    <2> DEFINE q == r \o s
               m == Len(r)
    <2>1. DOMAIN q = 1..Len(q) /\ DOMAIN r = 1..m /\ DOMAIN s = 1..Len(s)
        OBVIOUS
    <2> HIDE DEF q, m
    <2>2. \A i \in 1..m : q[i] = r[i] /\ i \in 1..Len(q)
        BY <1>1 DEF q, m
    <2>3. \A i \in 1..Len(s) : q[m + i] = s[i] /\ m + i \in 1..Len(q)
        BY <1>2 DEF q, m
    <2>4. \A i \in 1..Len(q) : i \in 1..m \/ (i - m \in 1..Len(s) /\ i = m + (i - m))
        BY <1>3 DEF q, m
    <2>5. ToSet(r) \subseteq ToSet(q) /\ ToSet(s) \subseteq ToSet(q)
        BY <2>1, <2>2, <2>3 DEF ToSet
    <2>6. ASSUME NEW i \in 1..Len(q)
          PROVE  q[i] \in ToSet(r) \cup ToSet(s)
        <3>1. CASE i \in 1..m
            BY <3>1, <2>1, <2>2 DEF ToSet
        <3>2. CASE i - m \in 1..Len(s) /\ i = m + (i - m)
            <4>1. q[i] = s[i - m]
                BY <3>2, <2>3
            <4> QED BY <4>1, <3>2, <2>1 DEF ToSet
        <3> QED BY <3>1, <3>2, <2>4
    <2>7. ToSet(q) \subseteq ToSet(r) \cup ToSet(s)
        BY <2>1, <2>6 DEF ToSet
    <2> QED BY <2>5, <2>7 DEF q
<1> QED BY <1>4

=============================================================================
