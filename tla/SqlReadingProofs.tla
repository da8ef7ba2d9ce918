-------------------------- MODULE SqlReadingProofs --------------------------
(***************************************************************************)
(* Proofs about SqlReading: what the scanner sees in a text, for texts of  *)
(* every length.                                                           *)
(***************************************************************************)
EXTENDS SqlReading, Counting, SequenceTheorems, FiniteSetTheorems, TLAPS

-----------------------------------------------------------------------------
(* Characters                                                              *)

\* Those of a text and those of what is sent for it.
Chars == STRING \cup {":", "p"}

LEMMA CharsFit ==
    /\ ":" \in Chars /\ "p" \in Chars
    /\ \A s \in Seq(STRING) : s \in Seq(Chars)
<1>1. \A c \in STRING : c \in Chars
    BY DEF Chars
<1>2. ASSUME NEW s \in Seq(STRING)
      PROVE  s \in Seq(Chars)
    <2>1. s = [k \in 1..Len(s) |-> s[k]] /\ Len(s) \in Nat /\ \A k \in 1..Len(s) : s[k] \in STRING
        OBVIOUS
    <2> QED BY <2>1, <1>1
<1>3. ":" \in Chars /\ "p" \in Chars
    BY DEF Chars
<1> QED BY <1>1, <1>2, <1>3

LEMMA CharactersDiffer ==
    /\ Apostrophe # Quote /\ Apostrophe # Backslash /\ Quote # Backslash
    /\ Apostrophe # "nothing" /\ Quote # "nothing" /\ Backslash # "nothing"
BY Zenon DEF Apostrophe, Quote, Backslash

LEMMA SameCharacters ==
    /\ Pg!Apostrophe = Apostrophe /\ Pg!Quote = Quote
    /\ Pg!Backslash = Backslash /\ Pg!Newline = Newline
    /\ Pg!Letters = Letters /\ Pg!Digits = Digits
    /\ Pg!Nothing = "nothing"
BY Zenon DEF Pg!Apostrophe, Apostrophe, Pg!Quote, Quote, Pg!Backslash, Backslash,
    Pg!Newline, Newline, Pg!Letters, Letters, Pg!Digits, Digits, Pg!Nothing

LEMMA SameCounting == \A S : Pg!Cardinality(S) = Cardinality(S)
BY DEF Pg!Cardinality, Cardinality, Pg!IsFiniteSet, IsFiniteSet

-----------------------------------------------------------------------------
(* Quotes                                                                  *)

\* QuotedEnd as a function of the place.
WalksQuoted(t, quote, f) ==
    f = [j \in 1..(Len(t) + 1) |->
            IF j > Len(t) THEN j
            ELSE IF quote = Apostrophe /\ t[j] = Backslash /\ j < Len(t) THEN f[j + 2]
            ELSE IF t[j] # quote THEN f[j + 1]
            ELSE IF Char(t, j + 1) = quote THEN f[j + 2]
            ELSE j + 1]

LEMMA QuotedEndWalks ==
    ASSUME NEW t \in Seq(Chars), NEW quote \in {Apostrophe, Quote}
    PROVE  \E f : /\ WalksQuoted(t, quote, f)
                  /\ \A i : QuotedEnd(t, i, quote) = f[i]
<1> DEFINE n == Len(t)
           P == 1..(n + 1)
           Skips(j) == quote = Apostrophe /\ t[j] = Backslash /\ j < n
           Doubled(j) == t[j] = quote /\ Char(t, j + 1) = quote
           stop == {j \in P : j > n \/ (~ Skips(j) /\ t[j] = quote /\ Char(t, j + 1) # quote)}
           value == [j \in P |-> IF j > n THEN j ELSE j + 1]
           next == [j \in P |-> IF j \in stop THEN j
                                ELSE IF Skips(j) \/ Doubled(j) THEN j + 2 ELSE j + 1]
           with == [j \in P |-> [v \in P |-> v]]
<1>1. n \in Nat /\ n + 1 \in Nat
    OBVIOUS
<1>2. quote # "nothing"
    BY CharactersDiffer
<1>3. \A j \in P : j \notin stop => j <= n /\ (Doubled(j) => j < n)
    <2>1. \A j \in 1..n : Doubled(j) => j < n
        BY <1>2 DEF Char
    <2> QED BY <2>1
<1>4. value \in [P -> P] /\ with \in [P -> [P -> P]]
    OBVIOUS
<1>5. next \in [P -> P]
    <2>1. \A j \in P : next[j] \in P
        <3> HIDE DEF stop
        <3> QED BY <1>1, <1>3
    <2> QED BY <2>1
<1>6. \A j \in P : j \notin stop => next[j] > j
    <2> HIDE DEF stop
    <2> QED BY <1>1
<1>7. PICK g \in [P -> P] :
            \A j \in P : g[j] = IF j \in stop THEN value[j] ELSE with[j][g[next[j]]]
    <2> HIDE DEF stop, value, next, with
    <2>1. IsAnswered(P, P, stop, value, next, with)
        BY <1>1, <1>4, <1>5, <1>6, WalkingEnds
    <2> QED BY <2>1 DEF IsAnswered
<1>8. \A j \in P : g[j] = IF j \in stop THEN value[j] ELSE g[next[j]]
    <2>1. \A j \in P : g[next[j]] \in P
        <3> HIDE DEF next
        <3> QED BY <1>5, <1>7
    <2>2. \A j \in P, v \in P : with[j][v] = v
        OBVIOUS
    <2> HIDE DEF next, stop, value, with
    <2> QED BY <1>7, <2>1, <2>2
<1>9. WalksQuoted(t, quote, g)
    <2>1. ASSUME NEW j \in P
          PROVE  g[j] = IF j > n THEN j
                        ELSE IF Skips(j) THEN g[j + 2]
                        ELSE IF t[j] # quote THEN g[j + 1]
                        ELSE IF Char(t, j + 1) = quote THEN g[j + 2]
                        ELSE j + 1
        <3>1. g[j] = IF j \in stop THEN value[j] ELSE g[next[j]]
            BY <1>8
        <3>2. value[j] = IF j > n THEN j ELSE j + 1
            OBVIOUS
        <3>3. next[j] = IF j \in stop THEN j ELSE IF Skips(j) \/ Doubled(j) THEN j + 2 ELSE j + 1
            OBVIOUS
        <3> HIDE DEF next, value
        <3> QED BY <3>1, <3>2, <3>3
    <2>2. g = [j \in P |-> g[j]]
        BY <1>7
    <2> QED BY <2>1, <2>2 DEF WalksQuoted
<1> DEFINE after == CHOOSE f : WalksQuoted(t, quote, f)
<1>10. WalksQuoted(t, quote, after)
    BY <1>9
<1>11. \A i : QuotedEnd(t, i, quote) = after[i]
    BY DEF QuotedEnd, WalksQuoted
<1> QED BY <1>10, <1>11

\* Where a body that starts at i ends: Q are its quotes, and those among them
\* that end it are odd and have no other behind them.
Ending(t, quote, Q) ==
    {j \in Q : CountBefore(Q, j + 1) % 2 = 1 /\ Char(t, j + 1) # quote}

\* e is the first of the quotes Q that ends the body.  U are the places a walk
\* may come to, behind no open escape, at least up to e.
IsWalkable(t, quote, i, e, Q, U) ==
    /\ Q \subseteq i..Len(t)
    /\ e = Min(Ending(t, quote, Q) \cup {Len(t) + 1})
    /\ i <= Len(t) => i \in U
    /\ \A j \in i..Len(t) : j \in Q <=> j \in U /\ t[j] = quote
    /\ \A j \in i..(Len(t) - 1) : j <= e /\ j \in U =>
           IF quote = Apostrophe /\ t[j] = Backslash
               THEN j + 1 \notin U /\ (j + 2 <= Len(t) => j + 2 \in U)
               ELSE j + 1 \in U

\* The scanner's walk from quote to quote finds the first that ends the body.
LEMMA WalkFindsTheQuote ==
    ASSUME NEW t \in Seq(Chars), NEW quote \in {Apostrophe, Quote},
           NEW f, WalksQuoted(t, quote, f),
           NEW i \in 1..(Len(t) + 1), NEW Q, NEW U, NEW e, IsWalkable(t, quote, i, e, Q, U)
    PROVE  f[i] = IF e <= Len(t) THEN e + 1 ELSE Len(t) + 1
<1> DEFINE n == Len(t)
           Ends == Ending(t, quote, Q)
           end == IF e <= n THEN e + 1 ELSE n + 1
           Comes(j) == /\ j \in i..(n + 1) /\ j <= e /\ (j <= n => j \in U)
                       /\ CountBefore(Q, j) % 2 = 0
           S == {j \in 1..(n + 1) : Comes(j) => f[j] = end}
<1>1. n \in Nat /\ n + 1 \in Nat /\ i \in Nat
    OBVIOUS
<1>a. Q \subseteq i..n
    BY DEF IsWalkable
<1>b. e = Min(Ends \cup {n + 1})
    BY DEF IsWalkable
<1>2. e \in i..(n + 1) /\ (e \in Ends \/ e = n + 1) /\ \A j \in Ends : e <= j
    <2>1. Ends \subseteq i..n
        BY <1>a DEF Ending
    <2> HIDE DEF Ends
    <2> QED BY <1>1, <1>b, <2>1, LeastPlace
<1>3. \A j \in i..n : /\ CountBefore(Q, j) \in Nat
                     /\ CountBefore(Q, j + 1) =
                            IF j \in Q THEN CountBefore(Q, j) + 1 ELSE CountBefore(Q, j)
    <2>1. IsFiniteSet(Q) /\ \A k \in Q : k \in Int
        BY <1>1, <1>a, PlacesAreFinite
    <2> SUFFICES ASSUME NEW j \in i..n
                 PROVE  /\ CountBefore(Q, j) \in Nat
                        /\ CountBefore(Q, j + 1) =
                              IF j \in Q THEN CountBefore(Q, j) + 1 ELSE CountBefore(Q, j)
        OBVIOUS
    <2>2. j \in Int
        BY <1>1
    <2> QED BY <2>1, <2>2, CountingOn
<1>4. \A j \in 1..(n + 1) :
          f[j] = IF j > n THEN j
                 ELSE IF quote = Apostrophe /\ t[j] = Backslash /\ j < n THEN f[j + 2]
                 ELSE IF t[j] # quote THEN f[j + 1]
                 ELSE IF Char(t, j + 1) = quote THEN f[j + 2]
                 ELSE j + 1
    <2> DEFINE F == [j \in 1..(n + 1) |->
                 IF j > n THEN j
                 ELSE IF quote = Apostrophe /\ t[j] = Backslash /\ j < n THEN f[j + 2]
                 ELSE IF t[j] # quote THEN f[j + 1]
                 ELSE IF Char(t, j + 1) = quote THEN f[j + 2]
                 ELSE j + 1]
    <2>1. f = F
        BY DEF WalksQuoted
    <2>2. \A j \in 1..(n + 1) : F[j] = IF j > n THEN j
                 ELSE IF quote = Apostrophe /\ t[j] = Backslash /\ j < n THEN f[j + 2]
                 ELSE IF t[j] # quote THEN f[j + 1]
                 ELSE IF Char(t, j + 1) = quote THEN f[j + 2]
                 ELSE j + 1
        OBVIOUS
    <2> HIDE DEF F
    <2> QED BY <2>1, <2>2
<1>5. \A j \in i..(n - 1) : j <= e /\ j \in U =>
               IF quote = Apostrophe /\ t[j] = Backslash
                   THEN j + 1 \notin U /\ (j + 2 <= n => j + 2 \in U)
                   ELSE j + 1 \in U
    BY DEF IsWalkable
<1>6. (i <= n => i \in U) /\ \A j \in i..n : j \in Q <=> j \in U /\ t[j] = quote
    BY DEF IsWalkable
<1>7. \A j \in i..n : j \in Ends <=>
          j \in Q /\ CountBefore(Q, j + 1) % 2 = 1 /\ Char(t, j + 1) # quote
    BY <1>a DEF Ending
<1>8. quote # Backslash /\ quote # "nothing"
    BY CharactersDiffer
<1>9. f[n + 1] = n + 1
    BY <1>1, <1>4
<1> HIDE DEF n, Ends
<1>10. ASSUME NEW j \in 1..(n + 1), \A k \in (j + 1)..(n + 1) : k \in S
       PROVE  j \in S
    <2> SUFFICES ASSUME Comes(j) PROVE f[j] = end
        OBVIOUS
    <2>1. j \in i..(n + 1) /\ j <= e /\ (j <= n => j \in U) /\ CountBefore(Q, j) % 2 = 0
        OBVIOUS
    <2>2. CASE j = n + 1
        BY <2>1, <2>2, <1>1, <1>2, <1>9
    <2> HIDE DEF Comes
    <2>a. ASSUME NEW k \in (j + 1)..(n + 1), Comes(k)
          PROVE  f[k] = end
        <3>1. k \in S
            BY <1>10
        <3> QED BY <3>1, <2>a
    <2>b. ASSUME NEW k \in j..n, k \notin Q
          PROVE  e # k
        BY <2>b, <2>1, <1>1, <1>2, <1>7
    <2>3. CASE j <= n /\ quote = Apostrophe /\ t[j] = Backslash /\ j < n
        <3>1. j \in i..n /\ j \in i..(n - 1) /\ j + 1 \in i..n /\ j + 2 \in (j + 1)..(n + 1)
              /\ j + 2 \in i..(n + 1)
            BY <2>3, <2>1, <1>1
        <3>2. j + 1 \notin U /\ (j + 2 <= n => j + 2 \in U)
            BY <3>1, <2>3, <2>1, <1>5
        <3>3. j \notin Q /\ j + 1 \notin Q
            BY <3>1, <3>2, <2>3, <2>1, <1>6, <1>8
        <3>4. CountBefore(Q, j + 2) = CountBefore(Q, j)
            <4>1. (j + 1) + 1 = j + 2
                BY <3>1
            <4> QED BY <4>1, <3>1, <3>3, <1>3
        <3>5. e # j /\ e # j + 1
            <4>1. j \in j..n /\ j + 1 \in j..n
                BY <3>1, <1>1
            <4> QED BY <4>1, <3>3, <2>b
        <3>6. Comes(j + 2)
            BY <3>1, <3>2, <3>4, <3>5, <2>1, <1>1, <1>2 DEF Comes
        <3>7. f[j + 2] = end
            BY <3>1, <3>6, <2>a
        <3>8. f[j] = f[j + 2]
            BY <2>3, <1>1, <1>4
        <3> QED BY <3>7, <3>8
    <2>4. CASE j <= n /\ t[j] # quote /\ ~ (quote = Apostrophe /\ t[j] = Backslash /\ j < n)
        <3>1. j \in i..n /\ j + 1 \in (j + 1)..(n + 1) /\ j + 1 \in i..(n + 1)
            BY <2>4, <2>1, <1>1
        <3>2. j + 1 <= n => j + 1 \in U
            <4>1. j + 1 <= n => j \in i..(n - 1) /\ j < n
                BY <3>1, <1>1
            <4> QED BY <4>1, <2>4, <2>1, <1>5
        <3>3. j \notin Q
            BY <3>1, <2>4, <2>1, <1>6
        <3>4. CountBefore(Q, j + 1) = CountBefore(Q, j)
            BY <3>1, <3>3, <1>3
        <3>5. e # j
            <4>1. j \in j..n
                BY <3>1, <1>1
            <4> QED BY <4>1, <3>3, <2>b
        <3>6. Comes(j + 1)
            BY <3>1, <3>2, <3>4, <3>5, <2>1, <1>1, <1>2 DEF Comes
        <3>7. f[j + 1] = end
            BY <3>1, <3>6, <2>a
        <3>8. f[j] = f[j + 1]
            BY <2>4, <1>1, <1>4
        <3> QED BY <3>7, <3>8
    <2>5. CASE j <= n /\ t[j] = quote /\ Char(t, j + 1) = quote
        <3>1. j + 1 <= n /\ t[j + 1] = quote
            BY <2>5, <2>1, <1>1, <1>8 DEF Char, n
        <3>2. j \in i..n /\ j \in i..(n - 1) /\ j + 1 \in i..n /\ j + 2 \in (j + 1)..(n + 1)
              /\ j + 2 \in i..(n + 1)
            BY <3>1, <2>1, <1>1
        <3>3. j \in Q /\ j + 1 \in U
            BY <3>2, <2>5, <2>1, <1>5, <1>6, <1>8
        <3>4. j + 1 \in Q
            BY <3>1, <3>2, <3>3, <1>6
        <3>5. CountBefore(Q, j + 1) = CountBefore(Q, j) + 1
              /\ CountBefore(Q, j + 2) = CountBefore(Q, j + 1) + 1
              /\ CountBefore(Q, j) \in Nat
            <4>1. (j + 1) + 1 = j + 2
                BY <3>2
            <4> QED BY <4>1, <3>2, <3>3, <3>4, <1>3
        <3>6. e # j /\ e # j + 1
            <4>1. j \notin Ends
                BY <3>2, <2>5, <1>7
            <4>2. j + 1 \notin Ends
                <5>1. CountBefore(Q, (j + 1) + 1) % 2 = 0
                    <6>1. (j + 1) + 1 = j + 2
                        BY <3>2
                    <6>2. CountBefore(Q, j + 2) = CountBefore(Q, j) + 2
                        BY <3>5
                    <6>3. (CountBefore(Q, j) + 2) % 2 = 0
                        BY <3>5, <2>1
                    <6> QED BY <6>1, <6>2, <6>3
                <5> QED BY <5>1, <3>2, <1>7
            <4> QED BY <4>1, <4>2, <3>2, <1>1, <1>2
        <3>7. j + 1 <= e
            BY <3>2, <3>6, <2>1, <1>1, <1>2
        <3>8. j + 2 <= n => j + 2 \in U
            <4>1. j + 2 <= n => j + 1 \in i..(n - 1) /\ (j + 1) + 1 = j + 2
                BY <3>2, <1>1
            <4> QED BY <4>1, <3>1, <3>3, <3>7, <1>5, <1>8
        <3>9. Comes(j + 2)
            <4>1. CountBefore(Q, j + 2) % 2 = 0
                BY <3>5, <2>1
            <4> QED BY <4>1, <3>2, <3>6, <3>7, <3>8, <1>1, <1>2 DEF Comes
        <3>10. f[j + 2] = end
            BY <3>2, <3>9, <2>a
        <3>11. f[j] = f[j + 2]
            BY <2>5, <1>1, <1>4, <1>8
        <3> QED BY <3>10, <3>11
    <2>6. CASE j <= n /\ t[j] = quote /\ Char(t, j + 1) # quote
        <3>1. j \in i..n
            BY <2>6, <2>1, <1>1
        <3>2. j \in Q
            BY <3>1, <2>6, <2>1, <1>6
        <3>3. CountBefore(Q, j + 1) % 2 = 1
            BY <3>1, <3>2, <2>1, <1>3
        <3>4. j \in Ends
            BY <3>1, <3>2, <3>3, <2>6, <1>7
        <3>5. e = j
            <4>1. e <= j
                BY <3>4, <1>2
            <4>2. j <= e /\ e \in Int /\ j \in Int
                BY <2>1, <1>1, <1>2
            <4> QED BY <4>1, <4>2
        <3>6. f[j] = j + 1
            BY <2>6, <1>1, <1>4, <1>8
        <3> QED BY <3>5, <3>6, <2>6
    <2> QED BY <2>1, <2>2, <2>3, <2>4, <2>5, <2>6, <1>1
<1>11. 1..(n + 1) \subseteq S
    <2> HIDE DEF S
    <2> QED BY <1>1, <1>10, CountingDown
<1>12. Comes(i)
    <2>1. {k \in Q : k < i} = {}
        <3>1. \A k \in i..n : ~ (k < i)
            BY <1>1
        <3> QED BY <3>1, <1>a
    <2>2. CountBefore(Q, i) = 0
        BY <2>1, FS_EmptySet DEF CountBefore
    <2> QED BY <2>2, <1>1, <1>2, <1>6 DEF n
<1>13. i \in 1..(n + 1)
    BY DEF n
<1> QED BY <1>11, <1>12, <1>13 DEF n

\* An end as the lexer gives it, never behind the place after the text.
Clipped(t, end) == IF end > Len(t) THEN Len(t) + 1 ELSE end

Quotes(t, i, quote) == {j \in i..Len(t) : t[j] = quote}
Unescaped(t, i) == {j \in i..Len(t) : ~ Pg!Escaped(t, i, j)}

LEMMA LiteralEndIs ==
    ASSUME NEW t \in Seq(Chars), NEW i \in 1..(Len(t) + 1), NEW quote
    PROVE  /\ Pg!QuotedEnd(t, i, quote) =
                  1 + Min(Ending(t, quote, Quotes(t, i, quote)) \cup {Len(t) + 1})
           /\ quote = Apostrophe =>
                  Pg!EStringEnd(t, i) =
                      1 + Min(Ending(t, quote, Quotes(t, i, quote) \cap Unescaped(t, i))
                              \cup {Len(t) + 1})
<1> DEFINE n == Len(t)
           IsEnd(Q, j) == j \in Q /\ Cardinality({k \in Q : k <= j}) % 2 = 1
                          /\ Pg!At(t, j + 1) # quote
           All == Quotes(t, i, quote)
           Some == Quotes(t, i, quote) \cap Unescaped(t, i)
<1>1. ASSUME NEW Q, Q \subseteq i..n
      PROVE  {j \in i..n : IsEnd(Q, j)} = Ending(t, quote, Q)
    <2>1. n \in Nat /\ i \in Nat
        OBVIOUS
    <2>2. IsFiniteSet(Q) /\ \A k \in Q : k \in Int
        <3> HIDE DEF n
        <3> QED BY <1>1, <2>1, PlacesAreFinite
    <2>3. \A j \in Q : Cardinality({k \in Q : k <= j}) = CountBefore(Q, j + 1)
        BY <2>2, CountingOn
    <2>4. \A j : Pg!At(t, j) = Char(t, j)
        BY SameCharacters DEF Pg!At, Char
    <2>5. \A j \in Q : j \in i..n
        BY <1>1
    <2> HIDE DEF n
    <2> QED BY <2>3, <2>4, <2>5 DEF Ending
<1>2. {j \in i..n : t[j] = quote /\ ~ (FALSE /\ Pg!Escaped(t, i, j))} = All
    BY DEF Quotes
<1>3. {j \in i..n : t[j] = quote /\ ~ (TRUE /\ Pg!Escaped(t, i, j))} = Some
    BY DEF Quotes, Unescaped
<1>4. Pg!QuotedEnd(t, i, quote) = 1 + Min({j \in i..n : IsEnd(All, j)} \cup {n + 1})
    <2> HIDE DEF All
    <2>1. Pg!QuotedEnd(t, i, quote) = 1 + Pg!Min({j \in i..n : IsEnd(All, j)} \cup {n + 1})
        BY <1>2, SameCounting DEF Pg!QuotedEnd, Pg!LiteralEnd, Pg!Least
    <2> QED BY <2>1 DEF Pg!Min, Min
<1>5. quote = Apostrophe => Pg!EStringEnd(t, i) = 1 + Min({j \in i..n : IsEnd(Some, j)} \cup {n + 1})
    <2> HIDE DEF Some
    <2>1. quote = Apostrophe => Pg!EStringEnd(t, i) = 1 + Pg!Min({j \in i..n : IsEnd(Some, j)} \cup {n + 1})
        BY <1>3, SameCounting, SameCharacters DEF Pg!EStringEnd, Pg!LiteralEnd, Pg!Least
    <2> QED BY <2>1 DEF Pg!Min, Min
<1>6. All \subseteq i..n /\ Some \subseteq i..n
    BY DEF Quotes
<1> HIDE DEF IsEnd, n, All, Some
<1>7. {j \in i..n : IsEnd(All, j)} = Ending(t, quote, All)
    BY <1>1, <1>6
<1>8. {j \in i..n : IsEnd(Some, j)} = Ending(t, quote, Some)
    BY <1>1, <1>6
<1> QED BY <1>4, <1>5, <1>7, <1>8 DEF n, All, Some

\* The backslashes right before a place.
BackslashesBefore(t, i, j) == {k \in i..(j - 1) : \A m \in k..(j - 1) : t[m] = Backslash}

LEMMA BackslashesGoOn ==
    ASSUME NEW t, NEW i \in Nat, NEW j \in Nat, i <= j
    PROVE  BackslashesBefore(t, i, j + 1) =
               IF t[j] = Backslash THEN BackslashesBefore(t, i, j) \cup {j} ELSE {}
<1>1. (j + 1) - 1 = j
    OBVIOUS
<1>2. \A k \in i..j : j \in k..j
    OBVIOUS
<1>3. CASE t[j] = Backslash
    <2>1. \A k \in i..j : k = j \/ k \in i..(j - 1)
        OBVIOUS
    <2>2. \A k \in i..(j - 1) : \A m \in k..j : m = j \/ m \in k..(j - 1)
        OBVIOUS
    <2>3. \A k \in i..(j - 1) : k \in i..j /\ \A m \in k..(j - 1) : m \in k..j
        OBVIOUS
    <2>4. j \in i..j /\ \A m \in j..j : m = j
        OBVIOUS
    <2>5. ASSUME NEW k
          PROVE  k \in BackslashesBefore(t, i, j + 1)
                 <=> k \in BackslashesBefore(t, i, j) \cup {j}
        BY <1>1, <1>3, <2>1, <2>2, <2>3, <2>4, Zenon DEF BackslashesBefore
    <2> QED BY <2>5, <1>3
<1>4. CASE t[j] # Backslash
    BY <1>1, <1>2, <1>4 DEF BackslashesBefore
<1> QED BY <1>3, <1>4

LEMMA EscapingAlternates ==
    ASSUME NEW t \in Seq(Chars), NEW i \in Nat
    PROVE  /\ i <= Len(t) => i \in Unescaped(t, i)
           /\ \A j \in i..(Len(t) - 1) :
                  j + 1 \in Unescaped(t, i) <=> ~ (t[j] = Backslash /\ j \in Unescaped(t, i))
<1> DEFINE n == Len(t)
           Run(k) == BackslashesBefore(t, i, k)
           U == Unescaped(t, i)
<1>1. n \in Nat
    OBVIOUS
<1>2. \A k \in i..n : k \in U <=> Cardinality(Run(k)) % 2 # 1
    BY SameCounting, SameCharacters DEF Pg!Escaped, BackslashesBefore, Unescaped
<1>3. i <= n => i \in U
    <2>1. Run(i) = {}
        BY DEF BackslashesBefore
    <2>2. Cardinality(Run(i)) = 0
        BY <2>1, FS_EmptySet
    <2> HIDE DEF Run, U
    <2> QED BY <2>2, <1>1, <1>2
<1>4. ASSUME NEW j \in i..(n - 1)
      PROVE  j + 1 \in U <=> ~ (t[j] = Backslash /\ j \in U)
    <2>1. j \in i..n /\ j + 1 \in i..n /\ j \in Nat /\ i <= j
        BY <1>1
    <2>2. Run(j + 1) = IF t[j] = Backslash THEN Run(j) \cup {j} ELSE {}
        BY <2>1, BackslashesGoOn
    <2>3. Run(j) \subseteq i..(j - 1) /\ j \notin Run(j)
        BY <2>1 DEF BackslashesBefore
    <2> HIDE DEF Run, U
    <2>4. IsFiniteSet(Run(j))
        <3>1. j - 1 \in Nat \/ j - 1 = -1
            BY <2>1
        <3>2. IsFiniteSet(i..(j - 1))
            <4>1. i \in Int /\ j - 1 \in Int
                BY <2>1
            <4> QED BY <4>1, FS_Interval
        <3> QED BY <3>2, <2>3, FS_Subset
    <2>5. Cardinality(Run(j)) \in Nat
        BY <2>4, FS_CardinalityType
    <2>6. Cardinality(Run(j) \cup {j}) = Cardinality(Run(j)) + 1
        BY <2>3, <2>4, FS_AddElement
    <2>7. CASE t[j] = Backslash
        <3>1. Cardinality(Run(j + 1)) = Cardinality(Run(j)) + 1
            BY <2>2, <2>6, <2>7
        <3> QED BY <3>1, <1>2, <2>1, <2>5, <2>7
    <2>8. CASE t[j] # Backslash
        <3>1. Cardinality(Run(j + 1)) = 0
            BY <2>2, <2>8, FS_EmptySet
        <3> QED BY <3>1, <1>2, <2>1, <2>8
    <2> QED BY <2>7, <2>8
<1> QED BY <1>3, <1>4

LEMMA WalkedAlike ==
    ASSUME NEW t \in Seq(Chars), NEW quote \in {Apostrophe, Quote},
           NEW i \in 1..(Len(t) + 1), NEW Q, NEW U, NEW e, IsWalkable(t, quote, i, e, Q, U)
    PROVE  /\ e \in i..(Len(t) + 1)
           /\ QuotedEnd(t, i, quote) = Clipped(t, 1 + e)
<1> DEFINE n == Len(t)
<1>1. PICK f : WalksQuoted(t, quote, f) /\ \A k : QuotedEnd(t, k, quote) = f[k]
    BY QuotedEndWalks
<1>2. n \in Nat /\ i \in 1..(n + 1) /\ i \in Nat
    OBVIOUS
<1>3. e = Min(Ending(t, quote, Q) \cup {n + 1}) /\ Ending(t, quote, Q) \subseteq i..n
    BY DEF IsWalkable, Ending
<1>4. f[i] = IF e <= n THEN e + 1 ELSE n + 1
    BY <1>1, WalkFindsTheQuote
<1> HIDE DEF n
<1>5. e \in i..(n + 1)
    BY <1>2, <1>3, LeastPlace
<1>6. Clipped(t, 1 + e) = IF 1 + e > n THEN n + 1 ELSE 1 + e
    BY DEF Clipped, n
<1>7. f[i] = Clipped(t, 1 + e)
    BY <1>2, <1>4, <1>5, <1>6
<1> QED BY <1>1, <1>5, <1>7 DEF n

\* Strings with escapes, names in double quotes, and strings in which there is
\* no backslash before their end.
EscapedEnd(t, i) == Clipped(t, Pg!EStringEnd(t, i))

LEMMA EStringsEndAlike ==
    ASSUME NEW t \in Seq(Chars), NEW i \in 1..(Len(t) + 1)
    PROVE  QuotedEnd(t, i, Apostrophe) = EscapedEnd(t, i)
<1> DEFINE n == Len(t)
           U == Unescaped(t, i)
           Q == Quotes(t, i, Apostrophe) \cap U
           e == Min(Ending(t, Apostrophe, Q) \cup {n + 1})
<1>1. n \in Nat /\ i \in Nat
    OBVIOUS
<1>2. Q \subseteq i..n /\ \A j \in i..n : j \in Q <=> j \in U /\ t[j] = Apostrophe
    BY DEF Quotes, Unescaped
<1>3. i <= n => i \in U
    BY <1>1, EscapingAlternates
<1>4. \A j \in i..(n - 1) : j + 1 \in U <=> ~ (t[j] = Backslash /\ j \in U)
    BY <1>1, EscapingAlternates
<1>5. Pg!EStringEnd(t, i) = 1 + e
    BY LiteralEndIs
<1>6. e = Min(Ending(t, Apostrophe, Q) \cup {n + 1})
    OBVIOUS
<1> HIDE DEF U, Q, e
<1>7. ASSUME NEW j \in i..(n - 1), j \in U
      PROVE  IF Apostrophe = Apostrophe /\ t[j] = Backslash
             THEN j + 1 \notin U /\ (j + 2 <= n => j + 2 \in U)
             ELSE j + 1 \in U
    <2>1. (j + 2 <= n => j + 1 \in i..(n - 1)) /\ (j + 1) + 1 = j + 2
        BY <1>1
    <2>2. t[j] = Backslash => j + 1 \notin U
        BY <1>4, <1>7
    <2> QED BY <2>1, <2>2, <1>4, <1>7
<1>8. IsWalkable(t, Apostrophe, i, e, Q, U)
    BY <1>2, <1>3, <1>6, <1>7 DEF IsWalkable
<1>9. QuotedEnd(t, i, Apostrophe) = Clipped(t, 1 + e)
    BY <1>8, WalkedAlike
<1> QED BY <1>5, <1>9 DEF EscapedEnd

UnescapedEnd(t, i, quote) == Clipped(t, Pg!QuotedEnd(t, i, quote))

LEMMA UnescapedEndAlike ==
    ASSUME NEW t \in Seq(Chars), NEW i \in 1..(Len(t) + 1), NEW quote \in {Apostrophe, Quote},
           NEW end, end = UnescapedEnd(t, i, quote),
           quote = Apostrophe => \A j \in i..(end - 1) : t[j] # Backslash
    PROVE  QuotedEnd(t, i, quote) = end
<1> DEFINE n == Len(t)
           Q == Quotes(t, i, quote)
           e == Min(Ending(t, quote, Q) \cup {n + 1})
           U == i..n
<1>1. n \in Nat /\ i \in Nat
    OBVIOUS
<1>2. Q \subseteq i..n /\ \A j \in i..n : j \in Q <=> j \in U /\ t[j] = quote
    BY DEF Quotes
<1>3. end = Clipped(t, 1 + e)
    <2> DEFINE literal == Pg!QuotedEnd(t, i, quote)
    <2>1. literal = 1 + e
        BY LiteralEndIs
    <2>2. end = Clipped(t, literal)
        BY DEF UnescapedEnd
    <2> HIDE DEF literal
    <2> QED BY <2>1, <2>2
<1>4. e = Min(Ending(t, quote, Q) \cup {n + 1}) /\ Ending(t, quote, Q) \subseteq i..n
    BY <1>2 DEF Ending
<1> HIDE DEF Q, e
<1>5. e \in i..(n + 1)
    <2> HIDE DEF n
    <2> QED BY <1>1, <1>4, LeastPlace DEF n
<1>6. end = IF 1 + e > n THEN n + 1 ELSE 1 + e
    BY <1>3 DEF Clipped
<1>7. ASSUME NEW j \in i..(n - 1), j <= e
      PROVE  ~ (quote = Apostrophe /\ t[j] = Backslash) /\ j + 1 \in U
    <2>1. j \in i..(end - 1) /\ j + 1 \in i..n
        <3> HIDE DEF n
        <3> QED BY <1>1, <1>5, <1>6, <1>7
    <2> QED BY <2>1
<1>8. i <= n => i \in U
    OBVIOUS
<1>9. IsWalkable(t, quote, i, e, Q, U)
    <2> HIDE DEF U
    <2> QED BY <1>2, <1>4, <1>7, <1>8 DEF IsWalkable
<1>10. QuotedEnd(t, i, quote) = Clipped(t, 1 + e)
    BY <1>9, WalkedAlike
<1> QED BY <1>3, <1>10

-----------------------------------------------------------------------------
(* Dollar quotes and line comments                                         *)

LEMMA AfterFirstIsClipped ==
    ASSUME NEW t \in Seq(Chars), NEW i \in 1..(Len(t) + 1), NEW S, S \subseteq i..Len(t)
    PROVE  Min({j + 1 : j \in S} \cup {Len(t) + 1}) = Clipped(t, 1 + Min(S \cup {Len(t) + 1}))
<1> DEFINE n == Len(t)
           e == Min(S \cup {n + 1})
           T == {j + 1 : j \in S} \cup {n + 1}
           m == Min(T)
<1>1. n \in Nat /\ i \in 1..(n + 1) /\ S \subseteq i..n
    OBVIOUS
<1>2. e \in i..(n + 1) /\ (e \in S \/ e = n + 1) /\ \A j \in S : e <= j
    <2> HIDE DEF n
    <2> QED BY <1>1, LeastPlace
<1>3. T \subseteq Nat /\ T # {}
    OBVIOUS
<1>4. m \in T /\ \A y \in T : m <= y
    <2> HIDE DEF T
    <2> QED BY <1>3, MinIsLeast
<1>5. \A j \in S : j \in Int /\ j <= n
    BY <1>1
<1>6. (\A j \in S : j + 1 \in T) /\ n + 1 \in T /\ \A y \in T : y = n + 1 \/ \E j \in S : y = j + 1
    OBVIOUS
<1> HIDE DEF T, m, e, n
<1>7. CASE e \in S
    <2>1. m <= e + 1 /\ e <= n
        BY <1>4, <1>5, <1>6, <1>7
    <2>2. m = n + 1 \/ \E j \in S : m = j + 1
        BY <1>4, <1>6
    <2>3. m = e + 1
        BY <2>1, <2>2, <1>1, <1>2, <1>5
    <2>4. Clipped(t, 1 + e) = e + 1
        BY <2>1, <1>1, <1>2 DEF Clipped, n
    <2> QED BY <2>3, <2>4 DEF m, e, n, T
<1>8. CASE e = n + 1 /\ e \notin S
    <2>1. S = {}
        BY <1>1, <1>2, <1>5, <1>8
    <2>2. m = n + 1
        BY <2>1, <1>4, <1>6
    <2>3. Clipped(t, 1 + e) = n + 1
        BY <1>1, <1>8 DEF Clipped, n
    <2> QED BY <2>2, <2>3 DEF m, e, n, T
<1> QED BY <1>2, <1>7, <1>8

\* Where the delimiter that opens at i may end.
LEMMA DelimitersEndAlike ==
    ASSUME NEW t \in Seq(Chars), NEW i \in 1..Len(t), t[i] = "$"
    PROVE  /\ DelimiterEnd(t, i) \in DOMAIN t <=> Pg!DollarOpening(t, i) # {}
           /\ DelimiterEnd(t, i) \in DOMAIN t =>
                  DelimiterEnd(t, i) = Pg!Min(Pg!DollarOpening(t, i))
           /\ DelimiterEnd(t, i) \in (i + 1)..(Len(t) + 1)
<1> DEFINE n == Len(t)
           S == {j \in (i + 1)..n : t[j] = "$" /\ \A k \in (i + 1)..(j - 1) :
                    t[k] \in Letters \cup (IF k > i + 1 THEN Digits ELSE {})}
           m == Min(S \cup {n + 1})
<1>1. n \in Nat /\ i \in 1..n /\ i + 1 \in 1..(n + 1) /\ DOMAIN t = 1..n
    OBVIOUS
<1>2. DelimiterEnd(t, i) = m
    BY DEF DelimiterEnd, FirstFrom
<1>3. Pg!DollarOpening(t, i) = S
    <2>1. \A k \in (i + 1)..n : k > i + 1 <=> ~ (k = i + 1)
        BY <1>1
    <2>2. \A j \in (i + 1)..n : \A k \in (i + 1)..(j - 1) : k \in (i + 1)..n
        BY <1>1
    <2>3. \A j \in (i + 1)..n : \A k \in (i + 1)..(j - 1) :
              (IF k > i + 1 THEN Digits ELSE {}) = (IF k = i + 1 THEN {} ELSE Pg!Digits)
        BY <2>1, <2>2, SameCharacters
    <2> QED BY <2>3, SameCharacters DEF Pg!DollarOpening
<1>4. S \subseteq (i + 1)..n
    OBVIOUS
<1>5. Pg!Min(S) = Min(S)
    BY DEF Pg!Min, Min
<1> HIDE DEF S, n
<1>6. m \in (i + 1)..(n + 1) /\ (m \in S \/ m = n + 1) /\ \A j \in S : m <= j
    BY <1>1, <1>4, LeastPlace
<1>7. S # {} => Min(S) \in S /\ \A y \in S : Min(S) <= y
    <2>1. S \subseteq Nat
        BY <1>1, <1>4
    <2> QED BY <2>1, MinIsLeast
<1> HIDE DEF m
<1>8. \A j \in S : j \in Int /\ j <= n /\ i + 1 <= j
    BY <1>1, <1>4
<1>9. m \in 1..n <=> S # {}
    BY <1>1, <1>6, <1>8
<1>10. m \in 1..n => m = Min(S)
    <2> DEFINE least == Min(S)
    <2>1. ASSUME m \in 1..n
          PROVE  m = least
        <3>1. m \in S /\ least \in S /\ least <= m /\ m <= least
            BY <2>1, <1>1, <1>6, <1>7
        <3>2. m \in Int /\ least \in Int
            BY <3>1, <1>8
        <3> HIDE DEF least
        <3> QED BY <3>1, <3>2
    <2> QED BY <2>1
<1>11. m \in (i + 1)..(Len(t) + 1)
    BY <1>6 DEF n
<1> QED BY <1>1, <1>2, <1>3, <1>5, <1>9, <1>10, <1>11

LEMMA DollarQuotesEndAlike ==
    ASSUME NEW t \in Seq(Chars), NEW i \in 1..Len(t), t[i] = "$", Pg!DollarOpening(t, i) # {}
    PROVE  /\ DollarQuotedEnd(t, i) = Clipped(t, Pg!DollarEnd(t, i))
           /\ DollarQuotedEnd(t, i) \in (i + 1)..(Len(t) + 1)
<1> DEFINE n == Len(t)
           opened == DelimiterEnd(t, i)
           S == {j \in (opened + 1)..n : j - (opened - i) > opened
                                        /\ SubSeq(t, j - (opened - i), j) = SubSeq(t, i, opened)}
           T == {j \in (opened + 1)..n : j - ((opened + 1) - i) + 1 >= opened + 1
                     /\ SubSeq(t, j - ((opened + 1) - i) + 1, j) = SubSeq(t, i, (opened + 1) - 1)}
<1>1. n \in Nat /\ i \in 1..n
    OBVIOUS
<1>2. opened \in (i + 1)..n /\ opened = Pg!Min(Pg!DollarOpening(t, i))
    BY DelimitersEndAlike
<1>3. DollarQuotedEnd(t, i) = Min({j + 1 : j \in S} \cup {n + 1})
    BY DEF DollarQuotedEnd, AfterFirst
<1>4. Pg!DollarEnd(t, i) = 1 + Min(T \cup {n + 1})
    BY <1>2 DEF Pg!DollarEnd, Pg!Least, Pg!Min, Min
<1> HIDE DEF opened
<1>5. S = T
    <2>1. opened \in Int /\ i \in Int /\ (opened + 1) - 1 = opened
        BY <1>1, <1>2
    <2>2. \A j \in (opened + 1)..n : /\ j - ((opened + 1) - i) + 1 = j - (opened - i)
                                     /\ j - (opened - i) > opened <=> j - (opened - i) >= opened + 1
        BY <1>1, <2>1
    <2> QED BY <2>1, <2>2
<1>6. opened + 1 \in 1..(n + 1) /\ S \subseteq (opened + 1)..n
    BY <1>1, <1>2
<1> HIDE DEF S, T
<1>7. DollarQuotedEnd(t, i) = Clipped(t, 1 + Min(S \cup {n + 1}))
    BY <1>3, <1>6, AfterFirstIsClipped
<1>8. Min(S \cup {n + 1}) \in (opened + 1)..(n + 1)
    <2> HIDE DEF n
    <2> QED BY <1>1, <1>6, LeastPlace
<1>9. DollarQuotedEnd(t, i) \in (i + 1)..(n + 1)
    <2> DEFINE e == Min(S \cup {n + 1})
    <2>1. Clipped(t, 1 + e) = IF 1 + e > n THEN n + 1 ELSE 1 + e
        BY DEF Clipped
    <2>2. e \in (opened + 1)..(n + 1) /\ DollarQuotedEnd(t, i) = Clipped(t, 1 + e)
        BY <1>7, <1>8
    <2> HIDE DEF e, n
    <2> QED BY <2>1, <2>2, <1>1, <1>2
<1> QED BY <1>4, <1>5, <1>7, <1>9

LEMMA LineCommentsEndAlike ==
    ASSUME NEW t \in Seq(Chars), NEW i \in 1..Len(t)
    PROVE  LET end == FirstFrom(t, i, LAMBDA j : t[j] = Newline) IN
           /\ end = Pg!Least(t, i, LAMBDA j : t[j] = Pg!Newline)
           /\ end = Clipped(t, end)
           /\ t[i] # Newline => end \in (i + 1)..(Len(t) + 1)
<1> DEFINE n == Len(t)
           S == {j \in i..n : t[j] = Newline}
           e == Min(S \cup {n + 1})
<1>1. n \in Nat /\ i \in 1..(n + 1) /\ i <= n /\ S \subseteq i..n
    OBVIOUS
<1>2. e = FirstFrom(t, i, LAMBDA j : t[j] = Newline)
    BY DEF FirstFrom
<1>3. e = Pg!Least(t, i, LAMBDA j : t[j] = Pg!Newline)
    BY SameCharacters DEF Pg!Least, Pg!Min, Min
<1>4. e \in i..(n + 1) /\ (e \in S \/ e = n + 1)
    <2> HIDE DEF S, n
    <2> QED BY <1>1, LeastPlace
<1>5. i \in S => t[i] = Newline
    OBVIOUS
<1> HIDE DEF S, e
<1>6. e = Clipped(t, e)
    BY <1>1, <1>4 DEF Clipped
<1>7. t[i] # Newline => e \in (i + 1)..(n + 1)
    BY <1>1, <1>4, <1>5
<1> QED BY <1>2, <1>3, <1>6, <1>7

-----------------------------------------------------------------------------
(* Block comments                                                          *)

\* BlockCommentEnd as a function of the place and the depth.
WalksComment(t, f) ==
    f = [p \in (1..(Len(t) + 1)) \X Nat |->
            LET j == p[1]
                depth == p[2]
            IN IF depth = 0 \/ j > Len(t) THEN j
               ELSE IF IsPair(t, j, "/", "*") THEN f[<<j + 2, depth + 1>>]
               ELSE IF IsPair(t, j, "*", "/") THEN f[<<j + 2, depth - 1>>]
               ELSE f[<<j + 1, depth>>]]

LEMMA PairsFit ==
    ASSUME NEW t \in Seq(Chars), NEW j \in 1..Len(t), NEW first, NEW second \in {"/", "*"},
           IsPair(t, j, first, second)
    PROVE  t[j] = first /\ j + 1 \in 1..Len(t) /\ t[j + 1] = second
BY DEF IsPair, Char

LEMMA BlockCommentEndWalks ==
    ASSUME NEW t \in Seq(Chars)
    PROVE  \E f : WalksComment(t, f) /\ \A i : BlockCommentEnd(t, i) = f[<<i + 2, 1>>]
<1> DEFINE n == Len(t)
           V == 1..(n + 1)
           P == V \X Nat
           Opens(j) == IsPair(t, j, "/", "*")
           Closes(j) == IsPair(t, j, "*", "/")
           stop == {p \in P : p[2] = 0 \/ p[1] > n}
           value == [p \in P |-> p[1]]
           next == [p \in P |-> IF p \in stop THEN p
                                ELSE IF Opens(p[1]) THEN <<p[1] + 2, p[2] + 1>>
                                ELSE IF Closes(p[1]) THEN <<p[1] + 2, p[2] - 1>>
                                ELSE <<p[1] + 1, p[2]>>]
           with == [p \in P |-> [v \in V |-> v]]
           rank == [p \in P |-> (n + 1) - p[1]]
<1>1. n \in Nat /\ n + 1 \in Nat
    OBVIOUS
<1>2. \A j \in 1..n : Opens(j) \/ Closes(j) => j + 1 <= n
    <2>1. ASSUME NEW j \in 1..n, Opens(j)
          PROVE  j + 1 <= n
        <3>1. j + 1 \in 1..Len(t)
            BY <2>1, PairsFit
        <3> QED BY <3>1
    <2>2. ASSUME NEW j \in 1..n, Closes(j)
          PROVE  j + 1 <= n
        <3>1. j + 1 \in 1..Len(t)
            BY <2>2, PairsFit
        <3> QED BY <3>1
    <2> QED BY <2>1, <2>2
<1> HIDE DEF n
<1>3. value \in [P -> V] /\ with \in [P -> [V -> V]] /\ rank \in [P -> 0..(n + 1)]
    BY <1>1
<1>4. ASSUME NEW p \in P
      PROVE  next[p] \in P /\ (p \notin stop => rank[next[p]] < rank[p])
    <2>1. CASE p \in stop
        BY <2>1
    <2>2. CASE p \notin stop
        <3>1. p[1] \in 1..n /\ p[2] \in Nat \ {0} /\ p = <<p[1], p[2]>>
            BY <2>2, <1>1
        <3> DEFINE j == p[1]
                   d == p[2]
        <3>2. next[p] = IF Opens(j) THEN <<j + 2, d + 1>>
                        ELSE IF Closes(j) THEN <<j + 2, d - 1>> ELSE <<j + 1, d>>
            BY <2>2
        <3>3. j \in 1..n /\ d \in Nat \ {0} /\ (Opens(j) \/ Closes(j) => j + 1 <= n)
            BY <3>1, <1>2
        <3>4. rank[p] = (n + 1) - j
            OBVIOUS
        <3>5. \A q \in P : rank[q] = (n + 1) - q[1]
            OBVIOUS
        <3> HIDE DEF j, d, next, rank, Opens, Closes
        <3>6. CASE Opens(j)
            <4>1. next[p] = <<j + 2, d + 1>> /\ j + 2 \in V /\ d + 1 \in Nat
                BY <3>2, <3>3, <3>6, <1>1
            <4>2. next[p] \in P /\ next[p][1] = j + 2
                BY <4>1
            <4>3. rank[next[p]] = (n + 1) - (j + 2)
                BY <4>2, <3>5
            <4> QED BY <4>2, <4>3, <3>3, <3>4, <1>1
        <3>7. CASE Closes(j) /\ ~ Opens(j)
            <4>1. next[p] = <<j + 2, d - 1>> /\ j + 2 \in V /\ d - 1 \in Nat
                BY <3>2, <3>3, <3>7, <1>1
            <4>2. next[p] \in P /\ next[p][1] = j + 2
                BY <4>1
            <4>3. rank[next[p]] = (n + 1) - (j + 2)
                BY <4>2, <3>5
            <4> QED BY <4>2, <4>3, <3>3, <3>4, <1>1
        <3>8. CASE ~ Closes(j) /\ ~ Opens(j)
            <4>1. next[p] = <<j + 1, d>> /\ j + 1 \in V
                BY <3>2, <3>3, <3>8, <1>1
            <4>2. next[p] \in P /\ next[p][1] = j + 1
                BY <4>1, <3>3
            <4>3. rank[next[p]] = (n + 1) - (j + 1)
                BY <4>2, <3>5
            <4> QED BY <4>2, <4>3, <3>3, <3>4, <1>1
        <3> QED BY <3>6, <3>7, <3>8
    <2> QED BY <2>1, <2>2
<1>5. next \in [P -> P]
    <2>1. \A p \in P : next[p] \in P
        BY <1>4
    <2> QED BY <2>1
<1>6. PICK g \in [P -> V] :
            \A p \in P : g[p] = IF p \in stop THEN value[p] ELSE with[p][g[next[p]]]
    <2> HIDE DEF stop, value, next, with, rank, P, V
    <2>1. IsAnswered(P, V, stop, value, next, with)
        BY <1>1, <1>3, <1>4, <1>5, RecursionEnds
    <2> QED BY <2>1 DEF IsAnswered
<1>7. WalksComment(t, g)
    <2>1. ASSUME NEW p \in P
          PROVE  g[p] = LET j == p[1]
                            depth == p[2]
                        IN IF depth = 0 \/ j > n THEN j
                           ELSE IF Opens(j) THEN g[<<j + 2, depth + 1>>]
                           ELSE IF Closes(j) THEN g[<<j + 2, depth - 1>>]
                           ELSE g[<<j + 1, depth>>]
        <3>1. with[p][g[next[p]]] = g[next[p]]
            <4>1. g[next[p]] \in V
                <5> HIDE DEF next, P, V
                <5> QED BY <1>5, <1>6
            <4>2. \A v \in V : with[p][v] = v
                OBVIOUS
            <4> HIDE DEF next, with, P, V
            <4> QED BY <4>1, <4>2
        <3>2. g[p] = IF p \in stop THEN value[p] ELSE g[next[p]]
            BY <3>1, <1>6
        <3>3. value[p] = p[1] /\ (p \in stop <=> p[2] = 0 \/ p[1] > n)
            OBVIOUS
        <3>4. p \notin stop => next[p] = IF Opens(p[1]) THEN <<p[1] + 2, p[2] + 1>>
                                         ELSE IF Closes(p[1]) THEN <<p[1] + 2, p[2] - 1>>
                                         ELSE <<p[1] + 1, p[2]>>
            OBVIOUS
        <3> HIDE DEF next, value, stop, P, V
        <3> QED BY <3>2, <3>3, <3>4
    <2>2. g = [p \in P |-> g[p]]
        BY <1>6
    <2> QED BY <2>1, <2>2 DEF WalksComment, n
<1> DEFINE after == CHOOSE f : WalksComment(t, f)
<1>8. WalksComment(t, after)
    BY <1>7
<1>9. \A i : BlockCommentEnd(t, i) = after[<<i + 2, 1>>]
    BY DEF BlockCommentEnd, WalksComment
<1> QED BY <1>8, <1>9

\* CommentEnd's reading as a function of the place.
ReadsComment(t, i, read) ==
    read = [j \in (i - 1)..Len(t) |->
               IF j < i THEN [depth |-> 0, left |-> Pg!Nothing] ELSE Pg!Read(read[j - 1], t[j])]

DepthsZero(t, i, read) == {j \in (i + 3)..Len(t) : read[j].depth = 0}

\* What is known of a comment up to a place.
Readings == [depth : Int, left : Chars \cup {"nothing"}]

LEMMA ReadingGoesOn ==
    ASSUME NEW v \in Readings, NEW c \in Chars
    PROVE  /\ Pg!Read(v, c) \in Readings
           /\ Pg!Read(v, c) = IF v.left = "/" /\ c = "*"
                                  THEN [depth |-> v.depth + 1, left |-> "nothing"]
                              ELSE IF v.left = "*" /\ c = "/"
                                  THEN [depth |-> v.depth - 1, left |-> "nothing"]
                              ELSE [depth |-> v.depth, left |-> c]
<1>1. v.depth \in Int
    BY DEF Readings
<1>2. [v EXCEPT !.left = c] = [depth |-> v.depth, left |-> c]
    BY DEF Readings
<1>3. Pg!Read(v, c) = IF v.left = "/" /\ c = "*"
                          THEN [depth |-> v.depth + 1, left |-> "nothing"]
                      ELSE IF v.left = "*" /\ c = "/"
                          THEN [depth |-> v.depth - 1, left |-> "nothing"]
                      ELSE [depth |-> v.depth, left |-> c]
    BY <1>2, SameCharacters DEF Pg!Read
<1>4. \A d \in Int, x \in Chars \cup {"nothing"} : [depth |-> d, left |-> x] \in Readings
    BY DEF Readings
<1>5. v.depth + 1 \in Int /\ v.depth - 1 \in Int
    BY <1>1
<1>6. Pg!Read(v, c) \in Readings
    <2>1. /\ [depth |-> v.depth + 1, left |-> "nothing"] \in Readings
          /\ [depth |-> v.depth - 1, left |-> "nothing"] \in Readings
          /\ [depth |-> v.depth, left |-> c] \in Readings
        BY <1>1, <1>4, <1>5
    <2> QED BY <2>1, <1>3
<1> QED BY <1>3, <1>6

LEMMA CommentEndReads ==
    ASSUME NEW t \in Seq(Chars), NEW i \in 1..Len(t)
    PROVE  \E read \in [(i - 1)..Len(t) -> Readings] :
               /\ ReadsComment(t, i, read)
               /\ Pg!CommentEnd(t, i) = 1 + Min(DepthsZero(t, i, read) \cup {Len(t) + 1})
<1> DEFINE n == Len(t)
           P == (i - 1)..n
           V == Readings
           start == [depth |-> 0, left |-> "nothing"]
           stop == {i - 1}
           value == [j \in P |-> start]
           next == [j \in P |-> IF j = i - 1 THEN j ELSE j - 1]
           with == [j \in P |-> [v \in V |-> IF j = i - 1 THEN v ELSE Pg!Read(v, t[j])]]
           rank == [j \in P |-> j - (i - 1)]
<1>1. n \in Nat /\ i \in 1..n /\ \A j \in 1..n : t[j] \in Chars
    OBVIOUS
<1> HIDE DEF n
<1>2. start \in V /\ value \in [P -> V] /\ rank \in [P -> 0..n] /\ next \in [P -> P]
    <2>1. start \in V
        <3>1. 0 \in Int /\ "nothing" \in Chars \cup {"nothing"}
            OBVIOUS
        <3> QED BY <3>1, Zenon DEF Readings
    <2>2. value \in [P -> V]
        <3> HIDE DEF start, P
        <3> QED BY <2>1
    <2>3. rank \in [P -> 0..n]
        BY <1>1
    <2>4. next \in [P -> P]
        BY <1>1
    <2> QED BY <2>1, <2>2, <2>3, <2>4
<1>3. \A v \in V, c \in Chars : Pg!Read(v, c) \in V
    BY ReadingGoesOn
<1>4. with \in [P -> [V -> V]]
    <2>1. ASSUME NEW j \in P, NEW v \in V
          PROVE  (IF j = i - 1 THEN v ELSE Pg!Read(v, t[j])) \in V
        <3>1. j # i - 1 => t[j] \in Chars
            BY <1>1
        <3> HIDE DEF V
        <3> QED BY <3>1, <1>3
    <2> HIDE DEF V
    <2> QED BY <2>1
<1>5. \A j \in P : j \notin stop => rank[next[j]] < rank[j]
    BY <1>1
<1>6. PICK g \in [P -> V] :
            \A j \in P : g[j] = IF j \in stop THEN value[j] ELSE with[j][g[next[j]]]
    <2> HIDE DEF stop, value, next, with, rank, P, V, start
    <2>1. IsAnswered(P, V, stop, value, next, with)
        BY <1>1, <1>2, <1>4, <1>5, RecursionEnds
    <2> QED BY <2>1 DEF IsAnswered
<1>7. ReadsComment(t, i, g)
    <2>1. ASSUME NEW j \in P
          PROVE  g[j] = IF j < i THEN [depth |-> 0, left |-> Pg!Nothing] ELSE Pg!Read(g[j - 1], t[j])
        <3>1. CASE j = i - 1
            <4>1. j \in stop /\ value[j] = start /\ j < i
                BY <3>1, <1>1
            <4>2. g[j] = start
                <5> HIDE DEF stop, value, start, next, with, P, V
                <5> QED BY <4>1, <1>6
            <4> QED BY <4>1, <4>2, SameCharacters
        <3>2. CASE j # i - 1
            <4>1. j \notin stop /\ next[j] = j - 1 /\ ~ (j < i) /\ j - 1 \in P
                BY <3>2, <1>1
            <4>2. g[j - 1] \in V
                <5> HIDE DEF V, P
                <5> QED BY <4>1, <1>6
            <4>3. \A v \in V : with[j][v] = Pg!Read(v, t[j])
                <5> HIDE DEF V
                <5> QED BY <3>2
            <4>4. g[j] = with[j][g[j - 1]]
                <5> HIDE DEF with, stop, next, value, V, P
                <5> QED BY <4>1, <1>6
            <4> HIDE DEF with, V
            <4> QED BY <4>1, <4>2, <4>3, <4>4
        <3> QED BY <3>1, <3>2
    <2>2. g = [j \in P |-> g[j]]
        BY <1>6
    <2> HIDE DEF start, value, next, with, V, stop, rank
    <2> QED BY <2>1, <2>2 DEF ReadsComment, n
<1> DEFINE read == CHOOSE f : ReadsComment(t, i, f)
<1>8. ReadsComment(t, i, read)
    BY <1>7
<1>9. Pg!CommentEnd(t, i) = 1 + Min(DepthsZero(t, i, read) \cup {n + 1})
    BY DEF Pg!CommentEnd, Pg!Least, Pg!Min, Min, ReadsComment, DepthsZero, n
<1> HIDE DEF read
<1>10. read \in [P -> V]
    <2> DEFINE S == {k \in Nat : (i - 1) + k \in P => read[(i - 1) + k] \in V}
               R(j) == IF j < i THEN [depth |-> 0, left |-> Pg!Nothing] ELSE Pg!Read(read[j - 1], t[j])
    <2>1. read = [j \in P |-> R(j)]
        BY <1>8 DEF ReadsComment, n
    <2>2. \A j \in P : read[j] = R(j)
        BY <2>1
    <2> HIDE DEF V
    <2>3. 0 \in S
        <3>1. i - 1 \in P => read[i - 1] = [depth |-> 0, left |-> Pg!Nothing]
            BY <2>2, <1>1
        <3>2. [depth |-> 0, left |-> Pg!Nothing] \in V
            BY <1>2, SameCharacters
        <3>3. (i - 1) + 0 = i - 1
            BY <1>1
        <3> QED BY <3>1, <3>2, <3>3
    <2>4. ASSUME NEW k \in 0..n, k \in S, k < n
          PROVE  k + 1 \in S
        <3> DEFINE j == (i - 1) + (k + 1)
        <3>1. SUFFICES ASSUME j \in P PROVE read[j] \in V
            OBVIOUS
        <3>2. j - 1 = (i - 1) + k /\ ~ (j < i) /\ j - 1 \in P /\ j \in 1..n
            BY <3>1, <1>1
        <3>3. read[j - 1] \in V /\ t[j] \in Chars
            BY <3>2, <2>4, <1>1
        <3>4. read[j] = Pg!Read(read[j - 1], t[j])
            <4> HIDE DEF j, P
            <4> QED BY <3>1, <3>2, <2>2
        <3> HIDE DEF j
        <3> QED BY <3>3, <3>4, <1>3
    <2>5. 0..n \subseteq S
        <3> HIDE DEF S
        <3> QED BY <2>3, <2>4, <1>1, CountingUp
    <2>6. ASSUME NEW j \in P
          PROVE  read[j] \in V
        <3>1. j - (i - 1) \in 0..n /\ (i - 1) + (j - (i - 1)) = j
            BY <1>1
        <3> QED BY <3>1, <2>5
    <2> HIDE DEF P, R
    <2> QED BY <2>1, <2>6
<1> QED BY <1>8, <1>9, <1>10 DEF n

\* The scanner's walk over a comment and the reading of it end together.
LEMMA BlockCommentsEndAlike ==
    ASSUME NEW t \in Seq(Chars), NEW i \in 1..Len(t), IsPair(t, i, "/", "*")
    PROVE  /\ BlockCommentEnd(t, i) = Clipped(t, Pg!CommentEnd(t, i))
           /\ BlockCommentEnd(t, i) \in (i + 1)..(Len(t) + 1)
<1> DEFINE n == Len(t)
<1>1. n \in Nat /\ i \in 1..n /\ \A j \in 1..n : t[j] \in Chars
    OBVIOUS
<1>2. t[i] = "/" /\ i + 1 \in 1..n /\ t[i + 1] = "*"
    BY PairsFit
<1>3. PICK f : WalksComment(t, f) /\ \A k : BlockCommentEnd(t, k) = f[<<k + 2, 1>>]
    BY BlockCommentEndWalks
<1>4. PICK read \in [(i - 1)..n -> Readings] :
            /\ ReadsComment(t, i, read)
            /\ Pg!CommentEnd(t, i) = 1 + Min(DepthsZero(t, i, read) \cup {n + 1})
    BY CommentEndReads
<1> DEFINE Zeros == DepthsZero(t, i, read)
           e == Min(Zeros \cup {n + 1})
           end == IF 1 + e > n THEN n + 1 ELSE 1 + e
           Opens(j) == IsPair(t, j, "/", "*")
           Closes(j) == IsPair(t, j, "*", "/")
<1>5. \A j \in i..n : read[j - 1] \in Readings /\ read[j] = Pg!Read(read[j - 1], t[j])
    <2> DEFINE R(j) == IF j < i THEN [depth |-> 0, left |-> Pg!Nothing] ELSE Pg!Read(read[j - 1], t[j])
    <2>1. read = [j \in (i - 1)..n |-> R(j)]
        BY <1>4 DEF ReadsComment
    <2>2. \A j \in (i - 1)..n : read[j] = R(j)
        BY <2>1
    <2> SUFFICES ASSUME NEW j \in i..n
                 PROVE  read[j - 1] \in Readings /\ read[j] = Pg!Read(read[j - 1], t[j])
        OBVIOUS
    <2> HIDE DEF n
    <2>3. j - 1 \in (i - 1)..n /\ j \in (i - 1)..n /\ ~ (j < i)
        BY <1>1
    <2> QED BY <2>2, <2>3, <1>4
<1>6. read[i - 1] = [depth |-> 0, left |-> "nothing"]
    <2> DEFINE R(j) == IF j < i THEN [depth |-> 0, left |-> Pg!Nothing] ELSE Pg!Read(read[j - 1], t[j])
    <2>1. read = [j \in (i - 1)..n |-> R(j)]
        BY <1>4 DEF ReadsComment
    <2>2. read[i - 1] = R(i - 1)
        BY <2>1, <1>1
    <2> QED BY <2>2, <1>1, SameCharacters
\* A character at a time: the depth and what is left.
<1>7. \A j \in i..n :
          /\ read[j - 1].depth \in Int
          /\ read[j].depth = IF read[j - 1].left = "/" /\ t[j] = "*" THEN read[j - 1].depth + 1
                             ELSE IF read[j - 1].left = "*" /\ t[j] = "/" THEN read[j - 1].depth - 1
                             ELSE read[j - 1].depth
          /\ read[j].left = IF (read[j - 1].left = "/" /\ t[j] = "*") \/ (read[j - 1].left = "*" /\ t[j] = "/")
                            THEN "nothing" ELSE t[j]
    <2> HIDE DEF n
    <2> SUFFICES ASSUME NEW j \in i..n
                 PROVE  /\ read[j - 1].depth \in Int
                        /\ read[j].depth = IF read[j - 1].left = "/" /\ t[j] = "*" THEN read[j - 1].depth + 1
                                           ELSE IF read[j - 1].left = "*" /\ t[j] = "/" THEN read[j - 1].depth - 1
                                           ELSE read[j - 1].depth
                        /\ read[j].left = IF (read[j - 1].left = "/" /\ t[j] = "*") \/ (read[j - 1].left = "*" /\ t[j] = "/")
                                          THEN "nothing" ELSE t[j]
        OBVIOUS
    <2> DEFINE v == read[j - 1]
               c == t[j]
    <2>1. v \in Readings /\ c \in Chars /\ read[j] = Pg!Read(v, c)
        BY <1>1, <1>5
    <2> HIDE DEF v, c
    <2>2. v.depth \in Int
        BY <2>1 DEF Readings
    <2>3. read[j] = IF v.left = "/" /\ c = "*" THEN [depth |-> v.depth + 1, left |-> "nothing"]
                    ELSE IF v.left = "*" /\ c = "/" THEN [depth |-> v.depth - 1, left |-> "nothing"]
                    ELSE [depth |-> v.depth, left |-> c]
        BY <2>1, ReadingGoesOn
    <2>4. read[j].depth = (IF v.left = "/" /\ c = "*" THEN v.depth + 1
                           ELSE IF v.left = "*" /\ c = "/" THEN v.depth - 1 ELSE v.depth)
          /\ read[j].left = (IF (v.left = "/" /\ c = "*") \/ (v.left = "*" /\ c = "/") THEN "nothing" ELSE c)
        BY <2>3
    <2> QED BY <2>2, <2>4 DEF v, c
<1>8. read[i + 1].depth = 1 /\ read[i + 1].left = "nothing"
    <2> HIDE DEF n
    <2>1. i \in i..n /\ i + 1 \in i..n /\ (i + 1) - 1 = i
        BY <1>1, <1>2
    <2>2. read[i].depth = 0 /\ read[i].left = "/"
        BY <2>1, <1>2, <1>6, <1>7
    <2> QED BY <2>1, <2>2, <1>2, <1>7
<1>9. \A j \in 1..(n + 1), d \in Nat :
          f[<<j, d>>] = IF d = 0 \/ j > n THEN j
                        ELSE IF Opens(j) THEN f[<<j + 2, d + 1>>]
                        ELSE IF Closes(j) THEN f[<<j + 2, d - 1>>]
                        ELSE f[<<j + 1, d>>]
    <2> DEFINE F == [p \in (1..(n + 1)) \X Nat |->
            LET j == p[1]
                depth == p[2]
            IN IF depth = 0 \/ j > n THEN j
               ELSE IF Opens(j) THEN f[<<j + 2, depth + 1>>]
               ELSE IF Closes(j) THEN f[<<j + 2, depth - 1>>]
               ELSE f[<<j + 1, depth>>]]
    <2>1. f = F
        BY <1>3 DEF WalksComment
    <2> SUFFICES ASSUME NEW j \in 1..(n + 1), NEW d \in Nat
                 PROVE  f[<<j, d>>] = IF d = 0 \/ j > n THEN j
                                      ELSE IF Opens(j) THEN f[<<j + 2, d + 1>>]
                                      ELSE IF Closes(j) THEN f[<<j + 2, d - 1>>]
                                      ELSE f[<<j + 1, d>>]
        OBVIOUS
    <2>2. <<j, d>> \in (1..(n + 1)) \X Nat
        OBVIOUS
    <2>3. F[<<j, d>>] = IF d = 0 \/ j > n THEN j
                        ELSE IF Opens(j) THEN f[<<j + 2, d + 1>>]
                        ELSE IF Closes(j) THEN f[<<j + 2, d - 1>>]
                        ELSE f[<<j + 1, d>>]
        <3> HIDE DEF Opens, Closes, n
        <3> QED BY <2>2
    <2> HIDE DEF F
    <2> QED BY <2>1, <2>3
<1>10. \A j \in 1..n : /\ Opens(j) <=> j + 1 <= n /\ t[j] = "/" /\ t[j + 1] = "*"
                       /\ Closes(j) <=> j + 1 <= n /\ t[j] = "*" /\ t[j + 1] = "/"
    BY DEF IsPair, Char
<1>11. Zeros \subseteq (i + 3)..n /\ \A j \in (i + 3)..n : j \in Zeros <=> read[j].depth = 0
    BY DEF DepthsZero
<1> HIDE DEF n, Opens, Closes, Zeros
<1>12. e \in (i + 2)..(n + 1) /\ (e \in Zeros \/ e = n + 1) /\ \A j \in Zeros : e <= j
    <2>1. i + 2 \in 1..(n + 1) /\ Zeros \subseteq (i + 2)..n
        BY <1>1, <1>2, <1>11
    <2> QED BY <2>1, <1>1, LeastPlace
<1> HIDE DEF e
<1> DEFINE Comes(j, d) ==
               /\ j \in (i + 2)..(n + 1) /\ d \in Nat /\ read[j - 1].depth = d
               /\ \A k \in (i + 2)..(j - 2) : read[k].depth # 0
               /\ d # 0 => \A k \in (i + 2)..(j - 1) : read[k].depth # 0
               /\ d = 0 => j - 1 \in (i + 3)..n
               /\ j <= n => ~ (read[j - 1].left = "/" /\ t[j] = "*")
                            /\ ~ (read[j - 1].left = "*" /\ t[j] = "/")
           S == {j \in 1..(n + 1) : \A d \in Nat : Comes(j, d) => f[<<j, d>>] = end}
<1>13. ASSUME NEW j \in 1..(n + 1), \A k \in (j + 1)..(n + 1) : k \in S
       PROVE  j \in S
    <2> SUFFICES ASSUME NEW d \in Nat, Comes(j, d) PROVE f[<<j, d>>] = end
        OBVIOUS
    <2>1. /\ j \in (i + 2)..(n + 1) /\ read[j - 1].depth = d
          /\ \A k \in (i + 2)..(j - 2) : read[k].depth # 0
          /\ d # 0 => \A k \in (i + 2)..(j - 1) : read[k].depth # 0
          /\ d = 0 => j - 1 \in (i + 3)..n
          /\ j <= n => ~ (read[j - 1].left = "/" /\ t[j] = "*")
                       /\ ~ (read[j - 1].left = "*" /\ t[j] = "/")
        OBVIOUS
    <2>a. ASSUME NEW k \in (j + 1)..(n + 1), NEW c \in Nat, Comes(k, c)
          PROVE  f[<<k, c>>] = end
        <3>1. k \in S
            BY <1>13
        <3> QED BY <3>1, <2>a
    <2> HIDE DEF Comes
    <2>b. f[<<j, d>>] = IF d = 0 \/ j > n THEN j
                        ELSE IF Opens(j) THEN f[<<j + 2, d + 1>>]
                        ELSE IF Closes(j) THEN f[<<j + 2, d - 1>>]
                        ELSE f[<<j + 1, d>>]
        BY <1>9
    <2>c. j \in Int /\ n \in Int /\ e \in Int /\ (j > n <=> ~ (j <= n))
        BY <1>1, <1>12
    <2>d. j <= n => read[j].depth = d /\ read[j].left = t[j]
        <3> SUFFICES ASSUME j <= n PROVE read[j].depth = d /\ read[j].left = t[j]
            OBVIOUS
        <3>1. j \in i..n
            BY <2>1, <1>1
        <3>2. /\ read[j - 1].depth = d
              /\ ~ (read[j - 1].left = "/" /\ t[j] = "*")
              /\ ~ (read[j - 1].left = "*" /\ t[j] = "/")
            BY <2>1
        <3> QED BY <3>1, <3>2, <1>7
    <2>2. CASE d = 0
        <3>1. f[<<j, d>>] = j
            BY <2>2, <2>b
        <3>2. j - 1 \in Zeros
            BY <2>1, <2>2, <1>11
        <3>3. e <= j - 1 /\ e \in Zeros
            BY <3>2, <2>1, <1>1, <1>11, <1>12
        <3>4. ~ (e <= j - 2)
            <4>1. \A k \in (i + 2)..(j - 2) : k \notin Zeros
                <5>1. \A k \in Zeros : read[k].depth = 0
                    BY <1>11
                <5> QED BY <5>1, <2>1
            <4>2. e \in Int /\ e >= i + 2 /\ i \in Int /\ j \in Int
                BY <2>c, <1>1, <1>12
            <4> QED BY <4>1, <4>2, <3>3
        <3>5. e = j - 1 /\ j - 1 <= n
            BY <3>3, <3>4, <2>1, <1>1, <1>12
        <3>6. end = j
            BY <3>5, <2>c
        <3> QED BY <3>1, <3>6
    <2>3. CASE d # 0 /\ j = n + 1
        <3>1. f[<<j, d>>] = j
            BY <2>3, <2>b, <2>c
        <3>2. \A k \in Zeros : k \in (i + 2)..(j - 1) /\ read[k].depth = 0
            <4>1. \A k \in Zeros : k \in (i + 3)..n
                BY <1>11
            <4>2. \A k \in (i + 3)..n : k \in (i + 2)..(j - 1)
                BY <2>3, <1>1
            <4> QED BY <4>1, <4>2, <1>11
        <3>3. e \notin Zeros
            BY <3>2, <2>1, <2>3
        <3>4. end = j
            BY <3>3, <2>3, <2>c, <1>12
        <3> QED BY <3>1, <3>4
    <2>4. CASE d # 0 /\ j <= n /\ Opens(j)
        <3>1. /\ j \in i..n /\ j + 1 \in i..n /\ (j + 1) - 1 = j /\ (j + 2) - 1 = j + 1
              /\ j + 2 \in (j + 1)..(n + 1) /\ j + 2 \in (i + 2)..(n + 1)
              /\ t[j] = "/" /\ t[j + 1] = "*"
            BY <2>1, <2>4, <1>1, <1>10
        <3>2. read[j].depth = d /\ read[j].left = "/"
            BY <3>1, <2>d, <2>4
        <3>3. read[j + 1].depth = d + 1 /\ read[j + 1].left = "nothing"
            BY <3>1, <3>2, <1>7
        <3>4. \A k \in (i + 2)..(j + 1) : read[k].depth # 0
            <4>1. \A k \in (i + 2)..(j + 1) : k \in (i + 2)..(j - 1) \/ k = j \/ k = j + 1
                BY <2>1, <1>1
            <4>2. d + 1 # 0
                OBVIOUS
            <4> QED BY <4>1, <4>2, <3>2, <3>3, <2>1, <2>4
        <3>5. Comes(j + 2, d + 1)
            <4>1. \A k \in (i + 2)..((j + 2) - 2) : k \in (i + 2)..(j + 1)
                BY <2>1, <1>1
            <4>2. read[(j + 2) - 1].depth = d + 1 /\ read[(j + 2) - 1].left = "nothing"
                BY <3>1, <3>3
            <4>3. d + 1 # 0 /\ d + 1 \in Nat
                OBVIOUS
            <4>4. \A k \in (i + 2)..((j + 2) - 1) : read[k].depth # 0
                BY <3>1, <3>4
            <4> QED BY <4>1, <4>2, <4>3, <4>4, <3>1, <3>4 DEF Comes
        <3>6. f[<<j + 2, d + 1>>] = end
            BY <3>1, <3>5, <2>a
        <3>7. f[<<j, d>>] = f[<<j + 2, d + 1>>]
            BY <2>4, <2>b, <2>c
        <3> QED BY <3>6, <3>7
    <2>5. CASE d # 0 /\ j <= n /\ Closes(j) /\ ~ Opens(j)
        <3>1. /\ j \in i..n /\ j + 1 \in i..n /\ (j + 1) - 1 = j /\ (j + 2) - 1 = j + 1
              /\ j + 2 \in (j + 1)..(n + 1) /\ j + 2 \in (i + 2)..(n + 1)
              /\ t[j] = "*" /\ t[j + 1] = "/"
            BY <2>1, <2>5, <1>1, <1>10
        <3>2. read[j].depth = d /\ read[j].left = "*"
            BY <3>1, <2>d, <2>5
        <3>3. read[j + 1].depth = d - 1 /\ read[j + 1].left = "nothing" /\ d - 1 \in Nat
            BY <3>1, <3>2, <2>5, <1>7
        <3>4. \A k \in (i + 2)..j : read[k].depth # 0
            <4>1. \A k \in (i + 2)..j : k \in (i + 2)..(j - 1) \/ k = j
                BY <2>1, <1>1
            <4> QED BY <4>1, <3>2, <2>1, <2>5
        <3>5. Comes(j + 2, d - 1)
            <4>1. (j + 2) - 2 = j
                BY <3>1
            <4>2. read[(j + 2) - 1].depth = d - 1 /\ read[(j + 2) - 1].left = "nothing"
                BY <3>1, <3>3
            <4>3. ASSUME d - 1 # 0, NEW k \in (i + 2)..((j + 2) - 1)
                  PROVE  read[k].depth # 0
                <5>1. k \in (i + 2)..j \/ k = j + 1
                    BY <3>1, <2>1, <1>1
                <5> QED BY <5>1, <4>3, <3>3, <3>4
            <4>4. (j + 2) - 1 \in (i + 3)..n
                BY <3>1, <2>1, <1>1
            <4> QED BY <4>1, <4>2, <4>3, <4>4, <3>1, <3>3, <3>4 DEF Comes
        <3>6. f[<<j + 2, d - 1>>] = end
            BY <3>1, <3>3, <3>5, <2>a
        <3>7. f[<<j, d>>] = f[<<j + 2, d - 1>>]
            BY <2>5, <2>b, <2>c
        <3> QED BY <3>6, <3>7
    <2>6. CASE d # 0 /\ j <= n /\ ~ Closes(j) /\ ~ Opens(j)
        <3>1. /\ j \in 1..n /\ j \in i..n /\ (j + 1) - 1 = j
              /\ j + 1 \in (j + 1)..(n + 1) /\ j + 1 \in (i + 2)..(n + 1)
            BY <2>1, <2>6, <1>1
        <3>2. read[j].depth = d /\ read[j].left = t[j]
            BY <3>1, <2>d, <2>6
        <3>3. \A k \in (i + 2)..j : read[k].depth # 0
            <4>1. \A k \in (i + 2)..j : k \in (i + 2)..(j - 1) \/ k = j
                BY <2>1, <1>1
            <4> QED BY <4>1, <3>2, <2>1, <2>6
        <3>4. Comes(j + 1, d)
            <4>1. \A k \in (i + 2)..((j + 1) - 2) : k \in (i + 2)..j
                BY <2>1, <1>1
            <4>2. j + 1 <= n => ~ (t[j] = "/" /\ t[j + 1] = "*") /\ ~ (t[j] = "*" /\ t[j + 1] = "/")
                BY <3>1, <2>6, <1>10
            <4> QED BY <4>1, <4>2, <3>1, <3>2, <3>3, <2>6 DEF Comes
        <3>5. f[<<j + 1, d>>] = end
            BY <3>1, <3>4, <2>a
        <3>6. f[<<j, d>>] = f[<<j + 1, d>>]
            BY <2>6, <2>b, <2>c
        <3> QED BY <3>5, <3>6
    <2> QED BY <2>1, <2>2, <2>3, <2>4, <2>5, <2>6, <1>1
<1>14. 1..(n + 1) \subseteq S
    <2>1. n + 1 \in Nat
        BY <1>1
    <2> HIDE DEF S
    <2> QED BY <2>1, <1>13, CountingDown
<1>15. Comes(i + 2, 1)
    <2>1. i + 2 \in (i + 2)..(n + 1) /\ (i + 2) - 1 = i + 1 /\ (i + 2) - 2 = i
        BY <1>1, <1>2
    <2>2. (\A k \in (i + 2)..i : FALSE) /\ (\A k \in (i + 2)..(i + 1) : FALSE)
        BY <1>1
    <2> QED BY <2>1, <2>2, <1>8
<1>16. f[<<i + 2, 1>>] = end
    <2>1. i + 2 \in 1..(n + 1)
        BY <1>1, <1>2
    <2>2. i + 2 \in S
        BY <2>1, <1>14
    <2> QED BY <2>2, <1>15
<1>17. end \in (i + 1)..(n + 1)
    BY <1>1, <1>12
<1>18. BlockCommentEnd(t, i) = end
    BY <1>3, <1>16
<1> QED BY <1>4, <1>17, <1>18 DEF Clipped, n, e, Zeros

-----------------------------------------------------------------------------
(* Regions and lexemes                                                     *)

LEMMA QuotedEndFits ==
    ASSUME NEW t \in Seq(Chars), NEW quote \in {Apostrophe, Quote}, NEW i \in 1..(Len(t) + 1)
    PROVE  QuotedEnd(t, i, quote) \in i..(Len(t) + 1)
<1> DEFINE n == Len(t)
<1>1. n \in Nat /\ n + 1 \in Nat
    OBVIOUS
<1>2. PICK f : WalksQuoted(t, quote, f) /\ \A k : QuotedEnd(t, k, quote) = f[k]
    BY QuotedEndWalks
<1> DEFINE F == [j \in 1..(n + 1) |->
               IF j > n THEN j
               ELSE IF quote = Apostrophe /\ t[j] = Backslash /\ j < n THEN f[j + 2]
               ELSE IF t[j] # quote THEN f[j + 1]
               ELSE IF Char(t, j + 1) = quote THEN f[j + 2]
               ELSE j + 1]
<1>3. f = F
    BY <1>2 DEF WalksQuoted
<1>4. \A j \in 1..(n + 1) : F[j] = IF j > n THEN j
               ELSE IF quote = Apostrophe /\ t[j] = Backslash /\ j < n THEN f[j + 2]
               ELSE IF t[j] # quote THEN f[j + 1]
               ELSE IF Char(t, j + 1) = quote THEN f[j + 2]
               ELSE j + 1
    OBVIOUS
<1>5. \A j \in 1..n : Char(t, j + 1) = quote => j < n
    <2>1. quote # "nothing"
        BY CharactersDiffer
    <2> QED BY <2>1 DEF Char
<1> HIDE DEF n, F
<1> DEFINE S == {j \in 1..(n + 1) : f[j] \in j..(n + 1)}
<1>6. ASSUME NEW j \in 1..(n + 1), \A k \in (j + 1)..(n + 1) : k \in S
      PROVE  j \in S
    <2>1. \A k \in (j + 1)..(n + 1) : f[k] \in k..(n + 1)
        BY <1>6
    <2>2. j + 1 \in (j + 1)..(n + 1) => f[j + 1] \in (j + 1)..(n + 1)
        BY <2>1
    <2>3. j + 2 \in (j + 1)..(n + 1) => f[j + 2] \in (j + 2)..(n + 1)
        BY <2>1
    <2>4. f[j] \in j..(n + 1)
        BY <2>2, <2>3, <1>1, <1>3, <1>4, <1>5
    <2> QED BY <2>4
<1>7. 1..(n + 1) \subseteq S
    <2> HIDE DEF S
    <2> QED BY <1>1, <1>6, CountingDown
<1>8. f[i] \in i..(n + 1)
    BY <1>7 DEF n
<1> QED BY <1>2, <1>8 DEF n

LEMMA MarksDiffer ==
    /\ \A c \in {"$", "-", "/", "*", ";", "E", "nothing"} : c # Apostrophe /\ c # Quote /\ c # Backslash /\ c # Newline
    /\ Newline # Apostrophe /\ Newline # Quote
    /\ \A c \in Letters \cup Digits :
           /\ c # Apostrophe /\ c # Quote /\ c # Backslash /\ c # Newline
           /\ c # "$" /\ c # "-" /\ c # "/" /\ c # "*" /\ c # "nothing"
BY Zenon DEF Apostrophe, Quote, Backslash, Newline, Letters, Digits

\* What opens at a place, one fact for each arm.
LEMMA RegionsAre ==
    ASSUME NEW t \in Seq(Chars), NEW i \in 1..Len(t)
    PROVE  /\ t[i] = Apostrophe => Region(t, i) = Span("SingleQuoted", i, QuotedEnd(t, i + 1, Apostrophe))
           /\ t[i] = Quote => Region(t, i) = Span("DoubleQuoted", i, QuotedEnd(t, i + 1, Quote))
           /\ t[i] = "$" /\ DelimiterEnd(t, i) \in DOMAIN t =>
                  Region(t, i) = Span("DollarQuoted", i, DollarQuotedEnd(t, i))
           /\ t[i] = "$" /\ DelimiterEnd(t, i) \notin DOMAIN t => Region(t, i) = Span("Code", i, i + 1)
           /\ IsPair(t, i, "-", "-") =>
                  Region(t, i) = Span("LineComment", i, FirstFrom(t, i, LAMBDA j : t[j] = Newline))
           /\ IsPair(t, i, "/", "*") => Region(t, i) = Span("BlockComment", i, BlockCommentEnd(t, i))
           /\ t[i] \notin {Apostrophe, Quote, "$"} /\ ~ IsPair(t, i, "-", "-") /\ ~ IsPair(t, i, "/", "*")
                  => Region(t, i) = Span("Code", i, i + 1)
<1>1. IsPair(t, i, "-", "-") => t[i] = "-"
    BY DEF IsPair, Char
<1>2. IsPair(t, i, "/", "*") => t[i] = "/"
    BY DEF IsPair, Char
<1>3. /\ Apostrophe # Quote /\ Apostrophe # "$" /\ Quote # "$"
      /\ Apostrophe # "-" /\ Quote # "-" /\ Apostrophe # "/" /\ Quote # "/"
    BY CharactersDiffer, MarksDiffer
<1>4. "$" # "-" /\ "$" # "/" /\ "-" # "/"
    OBVIOUS
<1> QED BY <1>1, <1>2, <1>3, <1>4 DEF Region

Segments == {"SingleQuoted", "DoubleQuoted", "DollarQuoted", "LineComment", "BlockComment", "Code"}
SpansOf(t) == [segment : Segments, start : 1..(Len(t) + 1), end : 1..(Len(t) + 1)]

LEMMA SpansFit ==
    ASSUME NEW t \in Seq(Chars), NEW segment \in Segments,
           NEW start \in 1..(Len(t) + 1), NEW end \in 1..(Len(t) + 1)
    PROVE  /\ Span(segment, start, end) \in SpansOf(t)
           /\ Span(segment, start, end).segment = segment
           /\ Span(segment, start, end).start = start
           /\ Span(segment, start, end).end = end
BY DEF Span, SpansOf

\* A region starts where it opens and is not empty.
LEMMA RegionsFit ==
    ASSUME NEW t \in Seq(Chars), NEW i \in 1..Len(t)
    PROVE  /\ Region(t, i) \in SpansOf(t)
           /\ Region(t, i).start = i
           /\ Region(t, i).end \in (i + 1)..(Len(t) + 1)
<1> DEFINE n == Len(t)
           Fits(span) == span \in SpansOf(t) /\ span.start = i /\ span.end \in (i + 1)..(n + 1)
<1>1. n \in Nat /\ i \in 1..n /\ i + 1 \in 1..(n + 1)
    OBVIOUS
<1>2. ASSUME NEW segment \in Segments, NEW end \in (i + 1)..(n + 1)
      PROVE  Fits(Span(segment, i, end))
    <2>1. i \in 1..(n + 1) /\ end \in 1..(n + 1)
        BY <1>1
    <2> QED BY <2>1, SpansFit
<1>3. {"SingleQuoted", "DoubleQuoted", "DollarQuoted", "LineComment", "BlockComment", "Code"} \subseteq Segments
    BY DEF Segments
<1>4. QuotedEnd(t, i + 1, Apostrophe) \in (i + 1)..(n + 1) /\ QuotedEnd(t, i + 1, Quote) \in (i + 1)..(n + 1)
    BY <1>1, QuotedEndFits
<1>5. t[i] = "$" /\ DelimiterEnd(t, i) \in DOMAIN t => DollarQuotedEnd(t, i) \in (i + 1)..(n + 1)
    BY DelimitersEndAlike, DollarQuotesEndAlike
<1>6. IsPair(t, i, "-", "-") => FirstFrom(t, i, LAMBDA j : t[j] = Newline) \in (i + 1)..(n + 1)
    <2>1. IsPair(t, i, "-", "-") => t[i] # Newline
        BY MarksDiffer DEF IsPair, Char
    <2> QED BY <2>1, LineCommentsEndAlike
<1>7. IsPair(t, i, "/", "*") => BlockCommentEnd(t, i) \in (i + 1)..(n + 1)
    BY BlockCommentsEndAlike
<1>8. i + 1 \in (i + 1)..(n + 1)
    BY <1>1
<1>9. Fits(Region(t, i))
    <2> HIDE DEF Fits, n
    <2>1. CASE t[i] = Apostrophe
        BY <2>1, <1>2, <1>3, <1>4, RegionsAre
    <2>2. CASE t[i] = Quote
        BY <2>2, <1>2, <1>3, <1>4, RegionsAre
    <2>3. CASE t[i] = "$" /\ DelimiterEnd(t, i) \in DOMAIN t
        BY <2>3, <1>2, <1>3, <1>5, RegionsAre
    <2>4. CASE t[i] = "$" /\ DelimiterEnd(t, i) \notin DOMAIN t
        BY <2>4, <1>2, <1>3, <1>8, RegionsAre
    <2>5. CASE IsPair(t, i, "-", "-")
        <3> DEFINE end == FirstFrom(t, i, LAMBDA j : t[j] = Newline)
        <3>1. Region(t, i) = Span("LineComment", i, end) /\ end \in (i + 1)..(n + 1)
            BY <2>5, <1>6, RegionsAre
        <3> HIDE DEF end
        <3> QED BY <3>1, <1>2, <1>3
    <2>6. CASE IsPair(t, i, "/", "*")
        BY <2>6, <1>2, <1>3, <1>7, RegionsAre
    <2>7. CASE t[i] \notin {Apostrophe, Quote, "$"} /\ ~ IsPair(t, i, "-", "-") /\ ~ IsPair(t, i, "/", "*")
        BY <2>7, <1>2, <1>3, <1>8, RegionsAre
    <2> QED BY <2>1, <2>2, <2>3, <2>4, <2>5, <2>6, <2>7
<1> QED BY <1>9

OpensComment(t, i) == IsPair(t, i, "-", "-") \/ IsPair(t, i, "/", "*")

\* What PostgreSQL reads at a place, one fact for each arm.
LEMMA LexemesAre ==
    ASSUME NEW t \in Seq(Chars), NEW i \in 1..Len(t)
    PROVE  /\ Pg!OpensE(t, i) => Pg!LexemeAt(t, i) = Pg!Lexeme(t, "EString", i + 1, Pg!EStringEnd(t, i + 2))
           /\ t[i] = Apostrophe =>
                  Pg!LexemeAt(t, i) = Pg!Lexeme(t, "SingleQuoted", i, Pg!QuotedEnd(t, i + 1, Apostrophe))
           /\ t[i] = Quote => Pg!LexemeAt(t, i) = Pg!Lexeme(t, "DoubleQuoted", i, Pg!QuotedEnd(t, i + 1, Quote))
           /\ t[i] = "$" /\ Pg!DollarOpening(t, i) # {} =>
                  Pg!LexemeAt(t, i) = Pg!Lexeme(t, "DollarQuoted", i, Pg!DollarEnd(t, i))
           /\ t[i] = "$" /\ Pg!DollarOpening(t, i) = {} =>
                  Pg!LexemeAt(t, i) = Pg!Lexeme(t, "Parameter", i, Pg!ParamEnd(t, i))
           /\ IsPair(t, i, "-", "-") =>
                  Pg!LexemeAt(t, i) =
                      Pg!Lexeme(t, "LineComment", i, Pg!Least(t, i, LAMBDA j : t[j] = Pg!Newline))
           /\ IsPair(t, i, "/", "*") =>
                  Pg!LexemeAt(t, i) = Pg!Lexeme(t, "BlockComment", i, Pg!CommentEnd(t, i))
           /\ t[i] \in Letters /\ ~ Pg!OpensE(t, i) =>
                  Pg!LexemeAt(t, i) = Pg!Lexeme(t, "Word", i, Pg!WordEnd(t, i))
           /\ t[i] \notin {Apostrophe, Quote, "$"} \cup Letters /\ ~ OpensComment(t, i) =>
                  Pg!LexemeAt(t, i) = Pg!Lexeme(t, "Other", i, i + 1)
<1>1. Pg!OpensE(t, i) => t[i] = "E"
    BY DEF Pg!OpensE
<1>2. Pg!DollarOpening(t, i) # {} => t[i] = "$"
    BY DEF Pg!DollarOpening
<1>3. /\ IsPair(t, i, "-", "-") <=> t[i] = "-" /\ Pg!At(t, i + 1) = "-"
      /\ IsPair(t, i, "/", "*") <=> t[i] = "/" /\ Pg!At(t, i + 1) = "*"
    BY SameCharacters DEF IsPair, Char, Pg!At
<1>4. /\ Apostrophe # Quote /\ Apostrophe # "$" /\ Quote # "$"
      /\ Apostrophe # "-" /\ Quote # "-" /\ Apostrophe # "/" /\ Quote # "/"
      /\ Apostrophe # "E" /\ Quote # "E"
    BY CharactersDiffer, MarksDiffer
<1>5. "E" \in Letters /\ \A c \in Letters : c # Apostrophe /\ c # Quote /\ c # "$" /\ c # "-" /\ c # "/"
    BY MarksDiffer DEF Letters
<1>6. Pg!Apostrophe = Apostrophe /\ Pg!Quote = Quote /\ Pg!Letters = Letters
    BY SameCharacters
<1> DEFINE end == Pg!Least(t, i, LAMBDA j : t[j] = Pg!Newline)
           lexeme == Pg!LexemeAt(t, i)
           arms == CASE Pg!OpensE(t, i) -> Pg!Lexeme(t, "EString", i + 1, Pg!EStringEnd(t, i + 2))
                     [] t[i] = Apostrophe -> Pg!Lexeme(t, "SingleQuoted", i, Pg!QuotedEnd(t, i + 1, Apostrophe))
                     [] t[i] = Quote -> Pg!Lexeme(t, "DoubleQuoted", i, Pg!QuotedEnd(t, i + 1, Quote))
                     [] Pg!DollarOpening(t, i) # {} -> Pg!Lexeme(t, "DollarQuoted", i, Pg!DollarEnd(t, i))
                     [] t[i] = "$" /\ Pg!DollarOpening(t, i) = {} -> Pg!Lexeme(t, "Parameter", i, Pg!ParamEnd(t, i))
                     [] t[i] = "-" /\ Pg!At(t, i + 1) = "-" -> Pg!Lexeme(t, "LineComment", i, end)
                     [] t[i] = "/" /\ Pg!At(t, i + 1) = "*" -> Pg!Lexeme(t, "BlockComment", i, Pg!CommentEnd(t, i))
                     [] t[i] \in Letters /\ ~ Pg!OpensE(t, i) -> Pg!Lexeme(t, "Word", i, Pg!WordEnd(t, i))
                     [] OTHER -> Pg!Lexeme(t, "Other", i, i + 1)
<1>7. lexeme = arms
    BY <1>6 DEF Pg!LexemeAt
<1> HIDE DEF end, lexeme
<1>8. "$" # "-" /\ "$" # "/" /\ "-" # "/" /\ "E" # "$" /\ "E" # "-" /\ "E" # "/"
    OBVIOUS
<1>a. Pg!OpensE(t, i) => lexeme = Pg!Lexeme(t, "EString", i + 1, Pg!EStringEnd(t, i + 2))
    BY <1>1, <1>2, <1>4, <1>7, <1>8
<1>b. t[i] = Apostrophe => lexeme = Pg!Lexeme(t, "SingleQuoted", i, Pg!QuotedEnd(t, i + 1, Apostrophe))
    BY <1>1, <1>2, <1>4, <1>5, <1>7, <1>8
<1>c. t[i] = Quote => lexeme = Pg!Lexeme(t, "DoubleQuoted", i, Pg!QuotedEnd(t, i + 1, Quote))
    BY <1>1, <1>2, <1>4, <1>5, <1>7, <1>8
<1>d. t[i] = "$" /\ Pg!DollarOpening(t, i) # {} => lexeme = Pg!Lexeme(t, "DollarQuoted", i, Pg!DollarEnd(t, i))
    BY <1>1, <1>2, <1>4, <1>5, <1>7, <1>8
<1>e. t[i] = "$" /\ Pg!DollarOpening(t, i) = {} => lexeme = Pg!Lexeme(t, "Parameter", i, Pg!ParamEnd(t, i))
    BY <1>1, <1>2, <1>4, <1>5, <1>7, <1>8
<1>f. IsPair(t, i, "-", "-") => lexeme = Pg!Lexeme(t, "LineComment", i, end)
    BY <1>1, <1>2, <1>3, <1>4, <1>5, <1>7, <1>8
<1>g. IsPair(t, i, "/", "*") => lexeme = Pg!Lexeme(t, "BlockComment", i, Pg!CommentEnd(t, i))
    BY <1>1, <1>2, <1>3, <1>4, <1>5, <1>7, <1>8
<1>h. t[i] \in Letters /\ ~ Pg!OpensE(t, i) => lexeme = Pg!Lexeme(t, "Word", i, Pg!WordEnd(t, i))
    BY <1>2, <1>4, <1>5, <1>7, <1>8
<1>i. t[i] \notin {Apostrophe, Quote, "$"} \cup Letters /\ ~ OpensComment(t, i)
          => lexeme = Pg!Lexeme(t, "Other", i, i + 1)
    BY <1>1, <1>2, <1>3, <1>5, <1>7 DEF OpensComment
<1> QED BY <1>a, <1>b, <1>c, <1>d, <1>e, <1>f, <1>g, <1>h, <1>i DEF lexeme, end

Kinds == {"EString", "SingleQuoted", "DoubleQuoted", "DollarQuoted", "Parameter",
          "LineComment", "BlockComment", "Word", "Other"}
LexemesOf(t) == [kind : Kinds, start : 1..(Len(t) + 1), end : 1..(Len(t) + 1)]

LEMMA LexemesClip ==
    ASSUME NEW t \in Seq(Chars), NEW kind \in Kinds, NEW start \in 1..(Len(t) + 1), NEW end,
           Clipped(t, end) \in 1..(Len(t) + 1)
    PROVE  /\ Pg!Lexeme(t, kind, start, end) \in LexemesOf(t)
           /\ Pg!Lexeme(t, kind, start, end).kind = kind
           /\ Pg!Lexeme(t, kind, start, end).start = start
           /\ Pg!Lexeme(t, kind, start, end).end = Clipped(t, end)
BY DEF Pg!Lexeme, LexemesOf, Clipped

\* The ends of the literals, within the text.
LEMMA LiteralsFit ==
    ASSUME NEW t \in Seq(Chars), NEW i \in 1..(Len(t) + 1)
    PROVE  /\ EscapedEnd(t, i) \in i..(Len(t) + 1)
           /\ \A quote : UnescapedEnd(t, i, quote) \in i..(Len(t) + 1)
<1> DEFINE n == Len(t)
<1>1. n \in Nat
    OBVIOUS
<1>2. ASSUME NEW quote, NEW Q, Q \subseteq i..n
      PROVE  Clipped(t, 1 + Min(Ending(t, quote, Q) \cup {n + 1})) \in i..(n + 1)
    <2> DEFINE e == Min(Ending(t, quote, Q) \cup {n + 1})
    <2>1. Ending(t, quote, Q) \subseteq i..n
        BY <1>2 DEF Ending
    <2>2. e \in i..(n + 1)
        <3> HIDE DEF n
        <3>1. i \in 1..(n + 1)
            BY DEF n
        <3> QED BY <3>1, <1>1, <2>1, LeastPlace
    <2> HIDE DEF e
    <2> QED BY <2>2, <1>1 DEF Clipped, e
<1>3. Quotes(t, i, Apostrophe) \cap Unescaped(t, i) \subseteq i..n
    BY DEF Quotes
<1>4. \A quote : Quotes(t, i, quote) \subseteq i..n
    BY DEF Quotes
<1>5. EscapedEnd(t, i) \in i..(n + 1)
    <2> DEFINE Q == Quotes(t, i, Apostrophe) \cap Unescaped(t, i)
    <2>1. Pg!EStringEnd(t, i) = 1 + Min(Ending(t, Apostrophe, Q) \cup {n + 1})
        BY LiteralEndIs
    <2>2. Q \subseteq i..n
        BY <1>3
    <2> HIDE DEF Q
    <2>3. Clipped(t, 1 + Min(Ending(t, Apostrophe, Q) \cup {n + 1})) \in i..(n + 1)
        BY <2>2, <1>2
    <2> QED BY <2>1, <2>3 DEF EscapedEnd
<1>6. ASSUME NEW quote
      PROVE  UnescapedEnd(t, i, quote) \in i..(n + 1)
    <2>1. Pg!QuotedEnd(t, i, quote) = 1 + Min(Ending(t, quote, Quotes(t, i, quote)) \cup {n + 1})
        BY LiteralEndIs
    <2>2. Quotes(t, i, quote) \subseteq i..n
        BY <1>4
    <2>3. Clipped(t, 1 + Min(Ending(t, quote, Quotes(t, i, quote)) \cup {n + 1})) \in i..(n + 1)
        BY <2>2, <1>2
    <2> QED BY <2>1, <2>3 DEF UnescapedEnd
<1> QED BY <1>5, <1>6

LEMMA WordsFit ==
    ASSUME NEW t \in Seq(Chars), NEW i \in 1..Len(t)
    PROVE  /\ t[i] \in Letters => Pg!WordEnd(t, i) \in (i + 1)..(Len(t) + 1)
           /\ \A j \in i..(Pg!WordEnd(t, i) - 1) : t[j] \in Letters \cup Digits \cup {"$"}
           /\ Pg!ParamEnd(t, i) \in (i + 1)..(Len(t) + 1)
           /\ \A j \in (i + 1)..(Pg!ParamEnd(t, i) - 1) : t[j] \in Digits
<1> DEFINE n == Len(t)
           S == {j \in i..n : t[j] \notin Letters \cup Digits \cup {"$"}}
           T == {j \in (i + 1)..n : t[j] \notin Digits}
           word == Min(S \cup {n + 1})
           param == Min(T \cup {n + 1})
<1>1. n \in Nat /\ i \in 1..n /\ i \in 1..(n + 1) /\ i + 1 \in 1..(n + 1)
    OBVIOUS
<1>2. Pg!WordEnd(t, i) = word /\ Pg!ParamEnd(t, i) = param
    BY SameCharacters DEF Pg!WordEnd, Pg!ParamEnd, Pg!Least, Pg!InWord, Pg!Min, Min
<1>3. S \subseteq i..n /\ T \subseteq (i + 1)..n
    OBVIOUS
<1>4. t[i] \in Letters => i \notin S
    OBVIOUS
<1>5. \A j \in i..n : j \notin S => t[j] \in Letters \cup Digits \cup {"$"}
    OBVIOUS
<1>6. \A j \in (i + 1)..n : j \notin T => t[j] \in Digits
    OBVIOUS
<1> HIDE DEF n, S, T
<1>7. word \in i..(n + 1) /\ (word \in S \/ word = n + 1) /\ \A j \in S : word <= j
    BY <1>1, <1>3, LeastPlace
<1>8. param \in (i + 1)..(n + 1) /\ (param \in T \/ param = n + 1) /\ \A j \in T : param <= j
    BY <1>1, <1>3, LeastPlace
<1> HIDE DEF word, param
<1>9. t[i] \in Letters => word \in (i + 1)..(n + 1)
    BY <1>1, <1>4, <1>7
<1>10. \A j \in i..(word - 1) : j \in i..n /\ ~ (word <= j)
    BY <1>1, <1>7
<1>11. \A j \in (i + 1)..(param - 1) : j \in (i + 1)..n /\ ~ (param <= j)
    BY <1>1, <1>8
<1>12. \A j \in i..(word - 1) : t[j] \in Letters \cup Digits \cup {"$"}
    BY <1>5, <1>7, <1>10
<1>13. \A j \in (i + 1)..(param - 1) : t[j] \in Digits
    BY <1>6, <1>8, <1>11
<1> QED BY <1>2, <1>8, <1>9, <1>12, <1>13 DEF n

\* A lexeme is not empty and ends within the text.
LEMMA LexemesFit ==
    ASSUME NEW t \in Seq(Chars), NEW i \in 1..Len(t)
    PROVE  /\ Pg!LexemeAt(t, i) \in LexemesOf(t)
           /\ Pg!LexemeAt(t, i).end \in (i + 1)..(Len(t) + 1)
<1> DEFINE n == Len(t)
           Fits(lexeme) == lexeme \in LexemesOf(t) /\ lexeme.end \in (i + 1)..(n + 1)
<1>1. n \in Nat /\ i \in 1..n /\ i + 1 \in 1..(n + 1)
    OBVIOUS
<1>2. ASSUME NEW kind \in Kinds, NEW start \in 1..(n + 1), NEW end, Clipped(t, end) \in (i + 1)..(n + 1)
      PROVE  Fits(Pg!Lexeme(t, kind, start, end))
    <2>1. Clipped(t, end) \in 1..(n + 1)
        BY <1>1, <1>2
    <2> QED BY <2>1, <1>2, LexemesClip
<1>3. {"EString", "SingleQuoted", "DoubleQuoted", "DollarQuoted", "Parameter",
       "LineComment", "BlockComment", "Word", "Other"} \subseteq Kinds
    BY DEF Kinds
<1>4. i \in 1..(n + 1) /\ i + 1 \in 1..(n + 1)
    BY <1>1
<1>5. \A end \in (i + 1)..(n + 1) : Clipped(t, end) = end
    BY <1>1 DEF Clipped
<1>6. Pg!OpensE(t, i) => i + 2 \in 1..(n + 1)
    <2>1. Apostrophe # "nothing"
        BY CharactersDiffer
    <2>2. Pg!OpensE(t, i) => i + 1 \in 1..n
        BY <2>1, SameCharacters DEF Pg!OpensE, Pg!At
    <2> HIDE DEF n
    <2> QED BY <2>2, <1>1
<1>7. Fits(Pg!LexemeAt(t, i))
    <2> HIDE DEF Fits, n
    <2>1. CASE Pg!OpensE(t, i)
        <3>1. EscapedEnd(t, i + 2) \in (i + 2)..(n + 1)
            BY <2>1, <1>6, LiteralsFit DEF n
        <3>2. Clipped(t, Pg!EStringEnd(t, i + 2)) \in (i + 1)..(n + 1)
            BY <3>1, <1>1 DEF EscapedEnd
        <3>3. Pg!LexemeAt(t, i) = Pg!Lexeme(t, "EString", i + 1, Pg!EStringEnd(t, i + 2))
            BY <2>1, LexemesAre
        <3> QED BY <3>2, <3>3, <1>2, <1>3, <1>4
    <2>2. CASE t[i] = Apostrophe
        <3>1. UnescapedEnd(t, i + 1, Apostrophe) \in (i + 1)..(n + 1)
            BY <1>1, LiteralsFit DEF n
        <3>2. Clipped(t, Pg!QuotedEnd(t, i + 1, Apostrophe)) \in (i + 1)..(n + 1)
            BY <3>1 DEF UnescapedEnd
        <3>3. Pg!LexemeAt(t, i) = Pg!Lexeme(t, "SingleQuoted", i, Pg!QuotedEnd(t, i + 1, Apostrophe))
            BY <2>2, LexemesAre
        <3> QED BY <3>2, <3>3, <1>2, <1>3, <1>4
    <2>3. CASE t[i] = Quote
        <3>1. UnescapedEnd(t, i + 1, Quote) \in (i + 1)..(n + 1)
            BY <1>1, LiteralsFit DEF n
        <3>2. Clipped(t, Pg!QuotedEnd(t, i + 1, Quote)) \in (i + 1)..(n + 1)
            BY <3>1 DEF UnescapedEnd
        <3>3. Pg!LexemeAt(t, i) = Pg!Lexeme(t, "DoubleQuoted", i, Pg!QuotedEnd(t, i + 1, Quote))
            BY <2>3, LexemesAre
        <3> QED BY <3>2, <3>3, <1>2, <1>3, <1>4
    <2>4. CASE t[i] = "$" /\ Pg!DollarOpening(t, i) # {}
        <3>1. Clipped(t, Pg!DollarEnd(t, i)) \in (i + 1)..(n + 1)
            BY <2>4, DollarQuotesEndAlike DEF n
        <3>2. Pg!LexemeAt(t, i) = Pg!Lexeme(t, "DollarQuoted", i, Pg!DollarEnd(t, i))
            BY <2>4, LexemesAre
        <3> QED BY <3>1, <3>2, <1>2, <1>3, <1>4
    <2>5. CASE t[i] = "$" /\ Pg!DollarOpening(t, i) = {}
        <3>1. Clipped(t, Pg!ParamEnd(t, i)) \in (i + 1)..(n + 1)
            BY <1>5, WordsFit DEF n
        <3>2. Pg!LexemeAt(t, i) = Pg!Lexeme(t, "Parameter", i, Pg!ParamEnd(t, i))
            BY <2>5, LexemesAre
        <3> QED BY <3>1, <3>2, <1>2, <1>3, <1>4
    <2>6. CASE IsPair(t, i, "-", "-")
        <3> DEFINE end == Pg!Least(t, i, LAMBDA j : t[j] = Pg!Newline)
        <3>1. t[i] # Newline
            BY <2>6, MarksDiffer DEF IsPair, Char
        <3>2. end \in (i + 1)..(n + 1)
            BY <3>1, LineCommentsEndAlike DEF n
        <3>3. Pg!LexemeAt(t, i) = Pg!Lexeme(t, "LineComment", i, end)
            BY <2>6, LexemesAre
        <3> HIDE DEF end
        <3> QED BY <3>2, <3>3, <1>2, <1>3, <1>4, <1>5
    <2>7. CASE IsPair(t, i, "/", "*")
        <3>1. Clipped(t, Pg!CommentEnd(t, i)) \in (i + 1)..(n + 1)
            BY <2>7, BlockCommentsEndAlike DEF n
        <3>2. Pg!LexemeAt(t, i) = Pg!Lexeme(t, "BlockComment", i, Pg!CommentEnd(t, i))
            BY <2>7, LexemesAre
        <3> QED BY <3>1, <3>2, <1>2, <1>3, <1>4
    <2>8. CASE t[i] \in Letters /\ ~ Pg!OpensE(t, i)
        <3>1. Clipped(t, Pg!WordEnd(t, i)) \in (i + 1)..(n + 1)
            BY <2>8, <1>5, WordsFit DEF n
        <3>2. Pg!LexemeAt(t, i) = Pg!Lexeme(t, "Word", i, Pg!WordEnd(t, i))
            BY <2>8, LexemesAre
        <3> QED BY <3>1, <3>2, <1>2, <1>3, <1>4
    <2>9. CASE t[i] \notin {Apostrophe, Quote, "$"} \cup Letters /\ ~ OpensComment(t, i)
        <3>1. Clipped(t, i + 1) \in (i + 1)..(n + 1)
            BY <1>1, <1>5
        <3>2. Pg!LexemeAt(t, i) = Pg!Lexeme(t, "Other", i, i + 1)
            BY <2>9, LexemesAre
        <3> QED BY <3>1, <3>2, <1>2, <1>3, <1>4
    <2> QED BY <2>1, <2>2, <2>3, <2>4, <2>5, <2>6, <2>7, <2>8, <2>9 DEF OpensComment
<1> QED BY <1>7

-----------------------------------------------------------------------------
(* Reading on from a place                                                 *)

LEMMA RegionsFrom ==
    ASSUME NEW t \in Seq(Chars), NEW i \in 1..(Len(t) + 1)
    PROVE  LET opens == RegionFrom(t, i) IN
           /\ opens \in i..(Len(t) + 1)
           /\ opens \in i..Len(t) => Region(t, opens).segment # "Code"
           /\ \A j \in i..(opens - 1) : Region(t, j).segment = "Code"
<1> DEFINE n == Len(t)
           S == {j \in i..n : Region(t, j).segment # "Code"}
           opens == Min(S \cup {n + 1})
<1>1. n \in Nat /\ i \in 1..(n + 1) /\ S \subseteq i..n
    OBVIOUS
<1>2. RegionFrom(t, i) = opens
    BY DEF RegionFrom, FirstFrom
<1>3. \A j \in i..n : j \in S <=> Region(t, j).segment # "Code"
    OBVIOUS
<1> HIDE DEF S, n
<1>4. opens \in i..(n + 1) /\ (opens \in S \/ opens = n + 1) /\ \A j \in S : opens <= j
    BY <1>1, LeastPlace
<1> HIDE DEF opens
<1>5. \A j \in i..(opens - 1) : j \in i..n /\ ~ (opens <= j)
    BY <1>1, <1>4
<1>6. opens \in i..n => opens \in S
    BY <1>1, <1>4
<1> QED BY <1>2, <1>3, <1>4, <1>5, <1>6 DEF n

\* The spans read from each place on.
ScansFrom(t, f) ==
    f = [i \in 1..(Len(t) + 1) |->
            LET opens == RegionFrom(t, i) IN
            IF opens > Len(t) THEN FlushCode(i, opens)
            ELSE FlushCode(i, opens) \o <<Region(t, opens)>> \o f[Region(t, opens).end]]

LEMMA FlushedFits ==
    ASSUME NEW t \in Seq(Chars), NEW i \in 1..(Len(t) + 1), NEW j \in i..(Len(t) + 1)
    PROVE  FlushCode(i, j) \in Seq(SpansOf(t))
<1>1. "Code" \in Segments /\ i \in 1..(Len(t) + 1) /\ j \in 1..(Len(t) + 1)
    BY DEF Segments
<1>2. Span("Code", i, j) \in SpansOf(t)
    BY <1>1, SpansFit
<1> QED BY <1>2 DEF FlushCode

LEMMA ScanGoesOn ==
    ASSUME NEW t \in Seq(Chars)
    PROVE  \E f : ScansFrom(t, f) /\ Scan(t) = f[1]
<1> DEFINE n == Len(t)
           P == 1..(n + 1)
           V == Seq(SpansOf(t))
           Opens(i) == RegionFrom(t, i)
           Before(i) == FlushCode(i, Opens(i)) \o <<Region(t, Opens(i))>>
           stop == {i \in P : Opens(i) > n}
           value == [i \in P |-> FlushCode(i, Opens(i))]
           next == [i \in P |-> IF i \in stop THEN i ELSE Region(t, Opens(i)).end]
           with == [i \in P |-> [v \in V |-> IF i \in stop THEN v ELSE Before(i) \o v]]
<1>1. n \in Nat /\ n + 1 \in Nat
    OBVIOUS
<1>2. \A i \in P : Opens(i) \in i..(n + 1) /\ FlushCode(i, Opens(i)) \in V
    BY RegionsFrom, FlushedFits
<1>3. ASSUME NEW i \in P, i \notin stop
      PROVE  /\ Opens(i) \in 1..n
             /\ Region(t, Opens(i)) \in SpansOf(t)
             /\ Region(t, Opens(i)).end \in (i + 1)..(n + 1)
    <2> DEFINE o == Opens(i)
    <2>1. o \in i..(n + 1) /\ ~ (o > n)
        BY <1>2, <1>3
    <2>2. o \in 1..n /\ i <= o
        <3> HIDE DEF o, n
        <3>1. i \in 1..(n + 1)
            BY DEF n
        <3> QED BY <2>1, <3>1, <1>1
    <2>3. Region(t, o) \in SpansOf(t) /\ Region(t, o).end \in (o + 1)..(n + 1)
        BY <2>2, RegionsFit
    <2>4. Region(t, o).end \in (i + 1)..(n + 1)
        <3> DEFINE end == Region(t, o).end
        <3>1. end \in (o + 1)..(n + 1)
            BY <2>3
        <3> HIDE DEF o, n, end
        <3>2. end \in (i + 1)..(n + 1)
            BY <3>1, <2>2, <1>1
        <3> QED BY <3>2 DEF end
    <2> QED BY <2>2, <2>3, <2>4
<1>4. \A i \in P : i \notin stop => Before(i) \in V
    <2> SUFFICES ASSUME NEW i \in P, i \notin stop PROVE Before(i) \in V
        OBVIOUS
    <2>1. FlushCode(i, Opens(i)) \in V /\ Region(t, Opens(i)) \in SpansOf(t)
        <3> HIDE DEF stop, V, Opens
        <3> QED BY <1>2, <1>3
    <2> DEFINE code == FlushCode(i, Opens(i))
               region == Region(t, Opens(i))
    <2> HIDE DEF code, region
    <2>2. code \o <<region>> \in V
        BY <2>1 DEF code, region
    <2> QED BY <2>2 DEF code, region
<1> HIDE DEF Opens, Before
<1>5. value \in [P -> V]
    <2> HIDE DEF V
    <2> QED BY <1>2
<1>6. next \in [P -> P]
    <2>1. ASSUME NEW i \in P
          PROVE  next[i] \in P
        <3>1. i \notin stop => Region(t, Opens(i)).end \in P
            <4> HIDE DEF stop
            <4>1. i \notin stop => Region(t, Opens(i)).end \in (i + 1)..(n + 1)
                BY <1>3
            <4> HIDE DEF n
            <4> QED BY <4>1, <1>1
        <3> QED BY <3>1
    <2> HIDE DEF P
    <2> QED BY <2>1
<1>7. with \in [P -> [V -> V]]
    <2>1. ASSUME NEW i \in P, NEW v \in V
          PROVE  (IF i \in stop THEN v ELSE Before(i) \o v) \in V
        <3>1. CASE i \in stop
            BY <3>1
        <3>2. CASE i \notin stop
            <4>1. Before(i) \in V
                <5> HIDE DEF stop, V
                <5> QED BY <3>2, <1>4
            <4>2. Before(i) \o v \in V
                BY <4>1
            <4> QED BY <4>2, <3>2
        <3> QED BY <3>1, <3>2
    <2> HIDE DEF V, stop
    <2> QED BY <2>1
<1>8. \A i \in P : i \notin stop => next[i] > i
    <2> SUFFICES ASSUME NEW i \in P, i \notin stop PROVE next[i] > i
        OBVIOUS
    <2>1. next[i] = Region(t, Opens(i)).end
        <3> HIDE DEF stop
        <3> QED BY DEF next
    <2>2. next[i] \in (i + 1)..(n + 1)
        <3> HIDE DEF stop, next
        <3> QED BY <2>1, <1>3
    <2> HIDE DEF next
    <2> QED BY <2>2, <1>1
<1>9. PICK f \in [P -> V] :
            \A i \in P : f[i] = IF i \in stop THEN value[i] ELSE with[i][f[next[i]]]
    <2> HIDE DEF stop, value, next, with, V
    <2>1. IsAnswered(P, V, stop, value, next, with)
        <3> HIDE DEF n
        <3> QED BY <1>1, <1>5, <1>6, <1>7, <1>8, WalkingEnds
    <2> QED BY <2>1 DEF IsAnswered
<1>10. ScansFrom(t, f)
    <2>1. ASSUME NEW i \in P
          PROVE  f[i] = IF Opens(i) > n THEN FlushCode(i, Opens(i))
                        ELSE Before(i) \o f[Region(t, Opens(i)).end]
        <3>1. CASE i \in stop
            <4>1. f[i] = value[i] /\ value[i] = FlushCode(i, Opens(i)) /\ Opens(i) > n
                BY <3>1, <1>9
            <4> QED BY <4>1
        <3>2. CASE i \notin stop
            <4>1. next[i] = Region(t, Opens(i)).end /\ ~ (Opens(i) > n)
                BY <3>2
            <4>2. f[next[i]] \in V
                <5> HIDE DEF next, V, P
                <5> QED BY <1>6, <1>9
            <4>3. \A v \in V : with[i][v] = Before(i) \o v
                <5> HIDE DEF V, stop
                <5> QED BY <3>2
            <4>4. f[i] = with[i][f[next[i]]]
                <5> HIDE DEF with, next, stop, V
                <5> QED BY <3>2, <1>9
            <4> HIDE DEF with, next, V, stop
            <4> QED BY <4>1, <4>2, <4>3, <4>4
        <3> QED BY <3>1, <3>2
    <2>2. f = [i \in P |-> f[i]]
        BY <1>9
    <2> QED BY <2>1, <2>2 DEF ScansFrom, Opens, Before
<1> DEFINE all == CHOOSE g : ScansFrom(t, g)
<1>11. ScansFrom(t, all)
    BY <1>10
<1>12. Scan(t) = all[1]
    BY DEF Scan, ScansFrom
<1> QED BY <1>11, <1>12

\* The lexemes read from each place on.
LexesFrom(t, g) ==
    g = [i \in 1..(Len(t) + 1) |->
            IF i > Len(t) THEN {}
            ELSE LET lexeme == Pg!LexemeAt(t, i) IN {lexeme} \cup g[lexeme.end]]

LEMMA LexingGoesOn ==
    ASSUME NEW t \in Seq(Chars)
    PROVE  \E g : LexesFrom(t, g) /\ Pg!Lexemes(t) = g[1]
<1> DEFINE n == Len(t)
           P == 1..(n + 1)
           L == LexemesOf(t)
           V == SUBSET L
           At(i) == Pg!LexemeAt(t, i)
           stop == {n + 1}
           value == [i \in P |-> {}]
           next == [i \in P |-> IF i = n + 1 THEN i ELSE At(i).end]
           with == [i \in P |-> [v \in V |-> IF i = n + 1 THEN v ELSE {At(i)} \cup v]]
<1>1. n \in Nat /\ n + 1 \in Nat
    OBVIOUS
<1>2. \A i \in 1..n : At(i) \in L /\ At(i).end \in (i + 1)..(n + 1)
    BY LexemesFit
<1> HIDE DEF n, L, At
<1>3. \A i \in P : i # n + 1 => i \in 1..n
    BY <1>1
<1>4. value \in [P -> V]
    OBVIOUS
<1>5. \A i \in P : i # n + 1 => At(i).end \in P /\ At(i).end > i
    <2> SUFFICES ASSUME NEW i \in P, i # n + 1 PROVE At(i).end \in P /\ At(i).end > i
        OBVIOUS
    <2> DEFINE end == At(i).end
    <2>1. end \in (i + 1)..(n + 1) /\ i \in 1..n
        BY <1>2, <1>3
    <2> HIDE DEF end
    <2>2. end \in P /\ end > i
        BY <2>1, <1>1
    <2> QED BY <2>2 DEF end
<1>6. next \in [P -> P]
    BY <1>5
<1>7. with \in [P -> [V -> V]]
    BY <1>2, <1>3
<1>8. \A i \in P : i \notin stop => next[i] > i
    BY <1>5
<1>9. PICK g \in [P -> V] :
            \A i \in P : g[i] = IF i \in stop THEN value[i] ELSE with[i][g[next[i]]]
    <2> HIDE DEF stop, value, next, with, V
    <2>1. IsAnswered(P, V, stop, value, next, with)
        BY <1>1, <1>4, <1>6, <1>7, <1>8, WalkingEnds
    <2> QED BY <2>1 DEF IsAnswered
<1>10. LexesFrom(t, g)
    <2>1. ASSUME NEW i \in P
          PROVE  g[i] = IF i > n THEN {} ELSE {At(i)} \cup g[At(i).end]
        <3>1. CASE i = n + 1
            <4>1. i \in stop /\ i > n /\ value[i] = {}
                BY <3>1, <1>1
            <4>2. g[i] = value[i]
                <5> HIDE DEF stop, value, next, with, V
                <5> QED BY <4>1, <1>9
            <4> QED BY <4>1, <4>2
        <3>2. CASE i # n + 1
            <4>1. i \notin stop /\ next[i] = At(i).end /\ ~ (i > n)
                BY <3>2, <1>1, <1>3
            <4>2. g[next[i]] \in V
                <5> HIDE DEF next, V, P
                <5> QED BY <1>6, <1>9
            <4>3. \A v \in V : with[i][v] = {At(i)} \cup v
                <5> HIDE DEF V
                <5> QED BY <3>2
            <4>4. g[i] = with[i][g[next[i]]]
                <5> HIDE DEF with, next, stop, V, value
                <5> QED BY <4>1, <1>9
            <4> HIDE DEF with, next, V, stop
            <4> QED BY <4>1, <4>2, <4>3, <4>4
        <3> QED BY <3>1, <3>2
    <2>2. g = [i \in P |-> g[i]]
        BY <1>9
    <2> QED BY <2>1, <2>2 DEF LexesFrom, n, At
<1> DEFINE all == CHOOSE h : LexesFrom(t, h)
<1>11. LexesFrom(t, all)
    BY <1>10
<1>12. Pg!Lexemes(t) = all[1]
    BY DEF Pg!Lexemes, LexesFrom
<1> QED BY <1>11, <1>12

-----------------------------------------------------------------------------
(* The spans tile the text                                                 *)

\* Spans that go from i to the end without a gap, code never next to code.
Tiles(t, s, i) ==
    /\ s \in Seq(SpansOf(t))
    /\ \A k \in 1..Len(s) : s[k].start < s[k].end
    /\ \A k \in 1..(Len(s) - 1) : /\ s[k].end = s[k + 1].start
                                  /\ (s[k].segment # "Code" \/ s[k + 1].segment # "Code")
    /\ IF s = <<>> THEN i = Len(t) + 1
       ELSE s[1].start = i /\ s[Len(s)].end = Len(t) + 1

LEMMA TilesGrow ==
    ASSUME NEW t \in Seq(Chars), NEW s, NEW i \in 1..Len(t), NEW span \in SpansOf(t),
           span.start = i, i < span.end, Tiles(t, s, span.end),
           s # <<>> => span.segment # "Code" \/ s[1].segment # "Code"
    PROVE  Tiles(t, <<span>> \o s, i)
<1> DEFINE r == <<span>> \o s
           m == Len(s)
<1>1. s \in Seq(SpansOf(t)) /\ m \in Nat
    BY DEF Tiles
<1>2. r \in Seq(SpansOf(t)) /\ Len(r) = m + 1 /\ r[1] = span /\ \A k \in 1..m : r[k + 1] = s[k]
    BY <1>1
<1>3. \A k \in 1..m : s[k].start < s[k].end
    BY DEF Tiles
<1>4. \A k \in 1..(m - 1) : s[k].end = s[k + 1].start
                            /\ (s[k].segment # "Code" \/ s[k + 1].segment # "Code")
    BY DEF Tiles
<1>5. IF m = 0 THEN span.end = Len(t) + 1 ELSE s[1].start = span.end /\ s[m].end = Len(t) + 1
    <2>1. s = <<>> <=> m = 0
        BY <1>1
    <2> QED BY <2>1 DEF Tiles
<1>6. m # 0 => span.segment # "Code" \/ s[1].segment # "Code"
    <2>1. m # 0 => s # <<>>
        OBVIOUS
    <2> QED BY <2>1
<1> HIDE DEF r, m
<1>7. \A k \in 1..(m + 1) : k = 1 \/ (k - 1 \in 1..m /\ r[k] = s[k - 1])
    <2> SUFFICES ASSUME NEW k \in 1..(m + 1), k # 1 PROVE k - 1 \in 1..m /\ r[k] = s[k - 1]
        OBVIOUS
    <2>1. k - 1 \in 1..m /\ (k - 1) + 1 = k
        BY <1>1
    <2> QED BY <2>1, <1>2
<1>8. \A k \in 1..(m + 1) : r[k].start < r[k].end
    BY <1>2, <1>3, <1>7
<1>9. ASSUME NEW k \in 1..m
      PROVE  r[k].end = r[k + 1].start /\ (r[k].segment # "Code" \/ r[k + 1].segment # "Code")
    <2>1. CASE k = 1
        BY <2>1, <1>2, <1>5, <1>6
    <2>2. CASE k # 1
        <3>1. k - 1 \in 1..(m - 1) /\ (k - 1) + 1 = k /\ k \in 1..(m + 1)
            BY <2>2, <1>1
        <3>2. r[k] = s[k - 1] /\ r[k + 1] = s[k]
            BY <3>1, <2>2, <1>2, <1>7
        <3> QED BY <3>1, <3>2, <1>4
    <2> QED BY <2>1, <2>2
<1>10. r # <<>> /\ r[1].start = i /\ r[m + 1].end = Len(t) + 1
    <2>1. r # <<>>
        BY <1>1, <1>2
    <2>2. CASE m = 0
        BY <2>2, <2>1, <1>2, <1>5
    <2>3. CASE m # 0
        <3>1. m \in 1..m
            BY <2>3, <1>1
        <3> QED BY <3>1, <2>1, <2>3, <1>2, <1>5
    <2> QED BY <2>2, <2>3
<1>11. (m + 1) - 1 = m
    BY <1>1
<1>12. \A k \in 1..(Len(r) - 1) : /\ r[k].end = r[k + 1].start
                                 /\ (r[k].segment # "Code" \/ r[k + 1].segment # "Code")
    BY <1>2, <1>9, <1>11
<1> QED BY <1>2, <1>8, <1>10, <1>12 DEF Tiles, r

LEMMA FlushedCode ==
    ASSUME NEW t \in Seq(Chars), NEW s, NEW i \in 1..(Len(t) + 1), NEW j \in i..(Len(t) + 1),
           Tiles(t, s, j), s # <<>> => s[1].segment # "Code"
    PROVE  Tiles(t, FlushCode(i, j) \o s, i)
<1>1. s \in Seq(SpansOf(t))
    BY DEF Tiles
<1>2. CASE j = i
    <2>1. FlushCode(i, j) = <<>>
        BY <1>2 DEF FlushCode
    <2>2. FlushCode(i, j) \o s = s
        BY <1>1, <2>1
    <2> QED BY <2>2, <1>2
<1>3. CASE j # i
    <2> DEFINE code == Span("Code", i, j)
    <2>1. j > i /\ i \in 1..Len(t) /\ j \in 1..(Len(t) + 1) /\ i \in 1..(Len(t) + 1) /\ i < j
        BY <1>3
    <2>2. FlushCode(i, j) = <<code>>
        BY <2>1 DEF FlushCode
    <2>3. code \in SpansOf(t) /\ code.start = i /\ code.end = j /\ code.segment = "Code"
        <3>1. "Code" \in Segments
            BY DEF Segments
        <3> QED BY <3>1, <2>1, SpansFit
    <2> HIDE DEF code
    <2>4. Tiles(t, <<code>> \o s, i)
        BY <2>1, <2>3, TilesGrow
    <2> QED BY <2>2, <2>4
<1> QED BY <1>2, <1>3

LEMMA SpansTile ==
    ASSUME NEW t \in Seq(Chars), NEW f, ScansFrom(t, f)
    PROVE  \A i \in 1..(Len(t) + 1) : Tiles(t, f[i], i)
<1> DEFINE n == Len(t)
<1>1. n \in Nat /\ n + 1 \in Nat /\ 1 \in 1..(n + 1)
    OBVIOUS
<1>3. \A i \in 1..(n + 1) :
          f[i] = IF RegionFrom(t, i) > n THEN FlushCode(i, RegionFrom(t, i))
                 ELSE FlushCode(i, RegionFrom(t, i)) \o <<Region(t, RegionFrom(t, i))>>
                          \o f[Region(t, RegionFrom(t, i)).end]
    <2> DEFINE F(i) == IF RegionFrom(t, i) > n THEN FlushCode(i, RegionFrom(t, i))
                       ELSE FlushCode(i, RegionFrom(t, i)) \o <<Region(t, RegionFrom(t, i))>>
                                \o f[Region(t, RegionFrom(t, i)).end]
    <2>1. f = [i \in 1..(n + 1) |-> F(i)]
        BY DEF ScansFrom
    <2> HIDE DEF F
    <2>2. \A i \in 1..(n + 1) : f[i] = F(i)
        BY <2>1
    <2> QED BY <2>2 DEF F
<1> DEFINE S == {i \in 1..(n + 1) : Tiles(t, f[i], i)}
<1>4. ASSUME NEW i \in 1..(n + 1), \A k \in (i + 1)..(n + 1) : k \in S
      PROVE  i \in S
    <2> DEFINE o == RegionFrom(t, i)
               R == Region(t, o)
    <2>1. o \in i..(n + 1) /\ (o \in i..n => R.segment # "Code")
        BY RegionsFrom
    <2>2. f[i] = IF o > n THEN FlushCode(i, o) ELSE FlushCode(i, o) \o <<R>> \o f[R.end]
        BY <1>3
    <2>3. i \in 1..(Len(t) + 1) /\ o \in i..(Len(t) + 1)
        BY <2>1
    <2> HIDE DEF o
    <2>4. CASE o > n
        <3>1. o = n + 1
            <4> HIDE DEF n
            <4> QED BY <2>1, <2>4, <1>1
        <3>2. Tiles(t, <<>>, o)
            BY <3>1 DEF Tiles
        <3>3. Tiles(t, FlushCode(i, o) \o <<>>, i)
            BY <3>2, <2>3, FlushedCode
        <3>4. FlushCode(i, o) \o <<>> = FlushCode(i, o)
            <4>1. FlushCode(i, o) \in Seq(SpansOf(t))
                BY <2>3, FlushedFits
            <4> QED BY <4>1
        <3>5. f[i] = FlushCode(i, o)
            BY <2>2, <2>4
        <3> QED BY <3>3, <3>4, <3>5
    <2>5. CASE ~ (o > n)
        <3>1. o \in 1..n /\ o \in i..n
            <4>1. i \in 1..(n + 1)
                OBVIOUS
            <4> HIDE DEF n
            <4> QED BY <4>1, <2>1, <2>5, <1>1
        <3>2. R \in SpansOf(t) /\ R.start = o /\ R.end \in (o + 1)..(n + 1)
            BY <3>1, RegionsFit
        <3> DEFINE end == R.end
        <3>3. end \in (i + 1)..(n + 1) /\ o < end /\ end \in 1..(n + 1)
            <4>1. end \in (o + 1)..(n + 1)
                BY <3>2
            <4> HIDE DEF end, n, R
            <4> QED BY <4>1, <3>1, <1>1
        <3>4. Tiles(t, f[end], end)
            <4> HIDE DEF end
            <4>1. end \in S
                BY <3>3, <1>4
            <4> QED BY <4>1
        <3>5. R.segment # "Code"
            BY <3>1, <2>1
        <3>6. Tiles(t, <<R>> \o f[end], o)
            <4> HIDE DEF R, n
            <4> QED BY <3>1, <3>2, <3>3, <3>4, <3>5, TilesGrow DEF n
        <3>7. f[end] \in Seq(SpansOf(t))
            BY <3>4 DEF Tiles
        <3>8. (<<R>> \o f[end])[1] = R
            <4> HIDE DEF R
            <4> QED BY <3>7
        <3>9. Tiles(t, FlushCode(i, o) \o (<<R>> \o f[end]), i)
            <4> DEFINE rest == <<R>> \o f[end]
            <4>1. Tiles(t, rest, o) /\ rest[1].segment # "Code"
                BY <3>5, <3>6, <3>8
            <4> HIDE DEF rest
            <4> QED BY <4>1, <2>3, FlushedCode DEF rest
        <3>10. FlushCode(i, o) \o (<<R>> \o f[end]) = FlushCode(i, o) \o <<R>> \o f[end]
            <4>1. FlushCode(i, o) \in Seq(SpansOf(t))
                BY <2>3, FlushedFits
            <4> DEFINE a == FlushCode(i, o)
                       c == f[end]
            <4> HIDE DEF R, a, c
            <4>2. a \in Seq(SpansOf(t)) /\ <<R>> \in Seq(SpansOf(t)) /\ c \in Seq(SpansOf(t))
                BY <4>1, <3>2, <3>7 DEF a, c
            <4>3. (a \o <<R>>) \o c = a \o (<<R>> \o c)
                BY <4>2, ConcatAssociative
            <4> QED BY <4>3 DEF a, c
        <3>11. f[i] = FlushCode(i, o) \o <<R>> \o f[end]
            BY <2>2, <2>5
        <3> QED BY <3>9, <3>10, <3>11
    <2> QED BY <2>4, <2>5
<1>5. 1..(n + 1) \subseteq S
    <2> HIDE DEF S, n
    <2> QED BY <1>1, <1>4, CountingDown
<1> QED BY <1>5

LEMMA TilesAreTheText ==
    ASSUME NEW t \in Seq(Chars), NEW s, Tiles(t, s, 1)
    PROVE  FlattenSeq([k \in DOMAIN s |-> Text(t, s[k])]) = t
<1> DEFINE n == Len(t)
           m == Len(s)
           seqs == [k \in DOMAIN s |-> Text(t, s[k])]
<1>1. s \in Seq(SpansOf(t)) /\ m \in Nat /\ n \in Nat /\ DOMAIN s = 1..m
    BY DEF Tiles
<1>2. \A k \in 1..m : /\ s[k].start \in 1..(n + 1) /\ s[k].end \in 1..(n + 1)
                       /\ s[k].start < s[k].end
    <2>1. \A k \in 1..m : s[k] \in SpansOf(t)
        BY <1>1
    <2> QED BY <2>1 DEF Tiles, SpansOf
<1>3. \A k \in 1..(m - 1) : s[k].end = s[k + 1].start
    BY DEF Tiles
<1>4. IF m = 0 THEN n = 0 ELSE s[1].start = 1 /\ s[m].end = n + 1
    <2>1. s = <<>> <=> m = 0
        BY <1>1
    <2> QED BY <2>1, <1>1 DEF Tiles
<1>5. seqs \in Seq(Seq(Chars)) /\ Len(seqs) = m /\ \A k \in 1..m : seqs[k] = SubSeq(t, s[k].start, s[k].end - 1)
    <2>1. \A k \in 1..m : seqs[k] = SubSeq(t, s[k].start, s[k].end - 1)
        BY <1>1 DEF Text
    <2>2. ASSUME NEW k \in 1..m
          PROVE  SubSeq(t, s[k].start, s[k].end - 1) \in Seq(Chars)
        <3> DEFINE a == s[k].start
                   b == s[k].end - 1
        <3>1. a \in 1..n /\ b \in 1..n
            <4> HIDE DEF n, m
            <4> QED BY <1>1, <1>2
        <3> HIDE DEF a, b
        <3>2. SubSeq(t, a, b) \in Seq(Chars)
            BY <3>1
        <3> QED BY <3>2 DEF a, b
    <2>3. seqs = [k \in 1..m |-> seqs[k]]
        BY <1>1
    <2>4. \A k \in 1..m : seqs[k] \in Seq(Chars)
        BY <2>1, <2>2
    <2> HIDE DEF seqs
    <2> QED BY <2>1, <2>3, <2>4, <1>1
<1> HIDE DEF n, m, seqs
<1>6. CASE m = 0
    <2>1. t = <<>>
        BY <1>4, <1>6 DEF n
    <2>2. FlattenSeq(seqs) = seqs /\ seqs = <<>>
        BY <1>5, <1>6 DEF FlattenSeq
    <2> QED BY <2>1, <2>2 DEF seqs
<1>7. CASE m # 0
    <2>1. seqs # <<>>
        BY <1>5, <1>7
    <2>2. PICK f \in [1..Len(seqs) -> Seq(Chars)] : Flattens(seqs, f)
        BY <1>5, <2>1, FlatteningGoesOn
    <2>3. f[1] = seqs[1] /\ f[m] = FlattenSeq(seqs) /\ \A k \in 2..m : f[k] = f[k - 1] \o seqs[k]
        BY <1>5, <2>2 DEF Flattens
    <2> DEFINE S == {k \in Nat : k + 1 \in 1..m => f[k + 1] = SubSeq(t, 1, s[k + 1].end - 1)}
    <2>4. 0 \in S
        <3>1. 1 \in 1..m
            BY <1>1, <1>7
        <3>2. f[1] = SubSeq(t, 1, s[1].end - 1)
            BY <3>1, <2>3, <1>4, <1>5, <1>7
        <3> QED BY <3>2
    <2>5. ASSUME NEW k \in 0..(m - 1), k \in S, k < m - 1
          PROVE  k + 1 \in S
        <3>1. /\ k + 1 \in 1..m /\ k + 2 \in 1..m /\ k + 2 \in 2..m /\ k + 1 \in 1..(m - 1)
              /\ (k + 2) - 1 = k + 1 /\ (k + 1) + 1 = k + 2
            BY <1>1, <2>5
        <3> DEFINE b == s[k + 1].end
                   c == s[k + 2].end
        <3>2. s[k + 2].start = b
            BY <3>1, <1>3
        <3>3. b \in 1..(n + 1) /\ c \in 1..(n + 1) /\ b < c
            BY <3>1, <3>2, <1>2
        <3>4. f[k + 2] = SubSeq(t, 1, b - 1) \o SubSeq(t, b, c - 1)
            <4>1. f[k + 2] = f[k + 1] \o seqs[k + 2]
                BY <3>1, <2>3
            <4>2. f[k + 1] = SubSeq(t, 1, b - 1)
                BY <3>1, <2>5
            <4>3. seqs[k + 2] = SubSeq(t, b, c - 1)
                BY <3>1, <3>2, <1>5
            <4> QED BY <4>1, <4>2, <4>3
        <3> HIDE DEF b, c
        <3>5. SubSeq(t, 1, b - 1) \o SubSeq(t, (b - 1) + 1, c - 1) = SubSeq(t, 1, c - 1)
            <4>1. 1 \in 1..(Len(t) + 1) /\ b - 1 \in (1 - 1)..Len(t) /\ c - 1 \in (b - 1)..Len(t)
                BY <3>3, <1>1 DEF n
            <4> QED BY <4>1, ConcatAdjacentSubSeq
        <3>6. (b - 1) + 1 = b
            BY <3>3
        <3>7. f[k + 2] = SubSeq(t, 1, c - 1)
            BY <3>4, <3>5, <3>6
        <3>8. f[(k + 1) + 1] = SubSeq(t, 1, s[(k + 1) + 1].end - 1)
            BY <3>1, <3>7 DEF c
        <3> QED BY <3>8
    <2>6. m - 1 \in S
        <3>1. m - 1 \in Nat /\ m - 1 \in 0..(m - 1)
            BY <1>1, <1>7
        <3> HIDE DEF S
        <3>2. 0..(m - 1) \subseteq S
            BY <3>1, <2>4, <2>5, CountingUp
        <3> QED BY <3>1, <3>2
    <2>7. f[m] = SubSeq(t, 1, n)
        <3>1. (m - 1) + 1 = m /\ m \in 1..m /\ (n + 1) - 1 = n
            BY <1>1, <1>7
        <3>2. f[m] = SubSeq(t, 1, s[m].end - 1)
            BY <3>1, <2>6
        <3> QED BY <3>1, <3>2, <1>4, <1>7
    <2>8. SubSeq(t, 1, n) = t
        BY SubSeqFull DEF n
    <2> QED BY <2>3, <2>7, <2>8 DEF seqs
<1> QED BY <1>6, <1>7

-----------------------------------------------------------------------------
(* The literals and comments agree                                         *)

LEMMA ApartOfTwo ==
    ASSUME NEW X, NEW r \in Seq(X), NEW s \in Seq(X)
    PROVE  Apart(r \o s) = Apart(r) \cup Apart(s)
<1>1. ToSet(r \o s) = ToSet(r) \cup ToSet(s)
    BY SetOfTwo
<1> QED BY <1>1 DEF Apart

LEMMA ApartOfOne ==
    ASSUME NEW span
    PROVE  Apart(<<span>>) = IF span.segment = "Code" THEN {} ELSE {span}
<1>1. ToSet(<<span>>) = {span}
    <2>1. DOMAIN <<span>> = {1} /\ <<span>>[1] = span
        OBVIOUS
    <2> QED BY <2>1 DEF ToSet
<1> QED BY <1>1 DEF Apart

IsApart(t, f, i) ==
    Apart(f[i]) = IF RegionFrom(t, i) > Len(t) THEN {}
                  ELSE {Region(t, RegionFrom(t, i))} \cup Apart(f[Region(t, RegionFrom(t, i)).end])

LEMMA ApartGoesOn ==
    ASSUME NEW t \in Seq(Chars), NEW f, ScansFrom(t, f), NEW i \in 1..(Len(t) + 1)
    PROVE  IsApart(t, f, i)
<1> DEFINE n == Len(t)
           o == RegionFrom(t, i)
           R == Region(t, o)
           code == FlushCode(i, o)
           rest == f[R.end]
<1>1. n \in Nat /\ o \in i..(n + 1) /\ (o \in i..n => R.segment # "Code")
    BY RegionsFrom
<1>2. f[i] = IF o > n THEN code ELSE code \o <<R>> \o rest
    <2> DEFINE F(j) == IF RegionFrom(t, j) > n THEN FlushCode(j, RegionFrom(t, j))
                       ELSE FlushCode(j, RegionFrom(t, j)) \o <<Region(t, RegionFrom(t, j))>>
                                \o f[Region(t, RegionFrom(t, j)).end]
    <2>1. f = [j \in 1..(n + 1) |-> F(j)]
        BY DEF ScansFrom
    <2> HIDE DEF F
    <2>2. f[i] = F(i)
        BY <2>1
    <2> QED BY <2>2 DEF F
<1>3. code \in Seq(SpansOf(t))
    <2>1. o \in i..(Len(t) + 1)
        BY <1>1
    <2> HIDE DEF o
    <2> QED BY <2>1, FlushedFits
<1>4. Apart(code) = {}
    <2>1. Span("Code", i, o).segment = "Code"
        BY DEF Span
    <2>2. CASE o > i
        BY <2>1, <2>2, ApartOfOne DEF FlushCode
    <2>3. CASE ~ (o > i)
        <3>1. code = <<>>
            BY <2>3 DEF FlushCode
        <3>2. ToSet(<<>>) = {}
            BY DEF ToSet
        <3> HIDE DEF code
        <3> QED BY <3>1, <3>2 DEF Apart
    <2> QED BY <2>2, <2>3
<1>7. \A a, b \in Seq(SpansOf(t)) : Apart(a \o b) = Apart(a) \cup Apart(b)
    BY ApartOfTwo
<1> HIDE DEF o
<1>5. CASE o > n
    BY <1>2, <1>4, <1>5 DEF o, IsApart
<1>6. CASE ~ (o > n)
    <2>1. o \in 1..n /\ o \in i..n
        <3>1. i \in 1..(n + 1)
            OBVIOUS
        <3> HIDE DEF n
        <3> QED BY <3>1, <1>1, <1>6
    <2>2. R \in SpansOf(t) /\ R.end \in (o + 1)..(n + 1)
        BY <2>1, RegionsFit
    <2> DEFINE end == R.end
    <2>3. end \in 1..(n + 1)
        <3>1. end \in (o + 1)..(n + 1)
            BY <2>2
        <3> HIDE DEF end, n
        <3> QED BY <3>1, <2>1, <1>1
    <2>4. rest \in Seq(SpansOf(t))
        <3> HIDE DEF end
        <3>1. Tiles(t, f[end], end)
            BY <2>3, SpansTile
        <3>2. f[end] \in Seq(SpansOf(t))
            BY <3>1 DEF Tiles
        <3> QED BY <3>2 DEF end
    <2>5. f[i] = (code \o <<R>>) \o rest
        BY <1>2, <1>6
    <2>6. R.segment # "Code"
        BY <2>1, <1>1
    <2> HIDE DEF code, R, rest
    <2>7. <<R>> \in Seq(SpansOf(t)) /\ code \o <<R>> \in Seq(SpansOf(t))
        BY <2>2, <1>3
    <2>8. Apart((code \o <<R>>) \o rest) = Apart(code \o <<R>>) \cup Apart(rest)
        BY <2>4, <2>7, <1>7
    <2>9. Apart(code \o <<R>>) = Apart(code) \cup Apart(<<R>>)
        BY <2>7, <1>3, <1>7
    <2>10. Apart(<<R>>) = {R}
        BY <2>6, ApartOfOne
    <2>11. Apart(f[i]) = {R} \cup Apart(rest)
        BY <2>5, <2>8, <2>9, <2>10, <1>4
    <2> QED BY <2>11, <1>6 DEF R, rest, o, IsApart
<1> QED BY <1>5, <1>6

\* Code before a place is no literal and no comment.
AllCode(t, i, k) == \A j \in i..(k - 1) : Region(t, j).segment = "Code"

LEMMA CodeIsSkipped ==
    ASSUME NEW t \in Seq(Chars), NEW f, ScansFrom(t, f),
           NEW i \in 1..(Len(t) + 1), NEW k \in i..(Len(t) + 1),
           AllCode(t, i, k)
    PROVE  Apart(f[i]) = Apart(f[k])
<1> DEFINE n == Len(t)
           a == RegionFrom(t, i)
           b == RegionFrom(t, k)
<1>1. n \in Nat /\ i \in 1..(n + 1) /\ k \in i..(n + 1) /\ k \in 1..(n + 1)
    OBVIOUS
<1>2. /\ a \in i..(n + 1)
      /\ a \in i..n => Region(t, a).segment # "Code"
      /\ \A j \in i..(a - 1) : Region(t, j).segment = "Code"
    BY RegionsFrom
<1>3. /\ b \in k..(n + 1)
      /\ b \in k..n => Region(t, b).segment # "Code"
      /\ \A j \in k..(b - 1) : Region(t, j).segment = "Code"
    BY <1>1, RegionsFrom
<1>a. Apart(f[i]) = IF a > n THEN {} ELSE {Region(t, a)} \cup Apart(f[Region(t, a).end])
    <2>1. IsApart(t, f, i)
        BY ApartGoesOn
    <2> QED BY <2>1 DEF IsApart
<1>b. Apart(f[k]) = IF b > n THEN {} ELSE {Region(t, b)} \cup Apart(f[Region(t, b).end])
    <2>1. k \in 1..(Len(t) + 1)
        BY <1>1
    <2>2. IsApart(t, f, k)
        BY <2>1, ApartGoesOn
    <2> QED BY <2>2 DEF IsApart
<1> HIDE DEF n, a, b
<1>4. ~ (a < k)
    <2> SUFFICES ASSUME a < k PROVE FALSE
        OBVIOUS
    <2>1. a \in i..(k - 1) /\ a \in i..n
        BY <1>1, <1>2
    <2> QED BY <2>1, <1>2 DEF AllCode
<1>5. ~ (b < a)
    <2> SUFFICES ASSUME b < a PROVE FALSE
        OBVIOUS
    <2>1. b \in i..(a - 1) /\ b \in k..n
        BY <1>1, <1>2, <1>3
    <2> QED BY <2>1, <1>2, <1>3
<1>6. ~ (a < b)
    <2> SUFFICES ASSUME a < b PROVE FALSE
        OBVIOUS
    <2>1. a \in k..(b - 1) /\ a \in i..n
        BY <1>1, <1>2, <1>3, <1>4
    <2> QED BY <2>1, <1>2, <1>3
<1>7. a = b
    BY <1>1, <1>2, <1>3, <1>5, <1>6
<1> QED BY <1>7, <1>a, <1>b

LEMMA RegionIsApart ==
    ASSUME NEW t \in Seq(Chars), NEW f, ScansFrom(t, f),
           NEW i \in 1..Len(t), Region(t, i).segment # "Code"
    PROVE  Apart(f[i]) = {Region(t, i)} \cup Apart(f[Region(t, i).end])
<1> DEFINE n == Len(t)
           a == RegionFrom(t, i)
<1>1. n \in Nat /\ i \in 1..(n + 1) /\ i \in 1..n
    OBVIOUS
<1>2. a \in i..(n + 1) /\ \A j \in i..(a - 1) : Region(t, j).segment = "Code"
    BY <1>1, RegionsFrom
<1>3. Apart(f[i]) = IF a > n THEN {} ELSE {Region(t, a)} \cup Apart(f[Region(t, a).end])
    <2>1. IsApart(t, f, i)
        BY <1>1, ApartGoesOn
    <2> QED BY <2>1 DEF IsApart
<1> HIDE DEF n, a
<1>4. a = i
    <2>1. i \notin i..(a - 1)
        BY <1>2
    <2> QED BY <2>1, <1>1, <1>2
<1> QED BY <1>1, <1>3, <1>4

\* Texts on which scanner and server mean to agree, as IsPlain has it.
PlainIn(t, read) ==
    \A l \in read :
        /\ l.kind = "SingleQuoted" => Backslash \notin ToSet(Text(t, l))
        /\ l.kind = "Word" => "$" \notin ToSet(Text(t, l))

LEMMA InText ==
    ASSUME NEW t \in Seq(Chars), NEW l, l.start \in 1..(Len(t) + 1), l.end \in 1..(Len(t) + 1),
           NEW c, c \notin ToSet(Text(t, l))
    PROVE  \A j \in l.start..(l.end - 1) : t[j] # c
<1> DEFINE n == Len(t)
           a == l.start
           b == l.end - 1
           s == SubSeq(t, a, b)
<1>1. n \in Nat /\ a \in 1..(n + 1) /\ b \in 0..n /\ \A j \in 1..n : t[j] \in Chars
    OBVIOUS
<1>2. c \notin ToSet(s)
    BY DEF Text
<1> HIDE DEF n, a, b
<1>3. ASSUME NEW j \in a..b
      PROVE  t[j] # c
    <2>1. \A k \in a..b : t[k] \in Chars
        BY <1>1
    <2>2. a \in Int /\ b \in Int /\ a <= b
        BY <1>1, <1>3
    <2>3. Len(s) = (b - a) + 1 /\ s \in Seq(Chars) /\ \A k \in 1..((b - a) + 1) : s[k] = t[(a + k) - 1]
        <3> HIDE DEF s
        <3>1. /\ SubSeq(t, a, b) \in Seq(Chars)
              /\ Len(SubSeq(t, a, b)) = IF a <= b THEN (b - a) + 1 ELSE 0
              /\ \A k \in 1..((b - a) + 1) : SubSeq(t, a, b)[k] = t[(a + k) - 1]
            BY <2>1, <2>2, SubSeqProperties
        <3> QED BY <3>1, <2>2 DEF s
    <2> HIDE DEF s
    <2>4. (j - a) + 1 \in 1..((b - a) + 1) /\ (a + ((j - a) + 1)) - 1 = j
        BY <1>3, <2>2
    <2>5. s[(j - a) + 1] = t[j] /\ (j - a) + 1 \in DOMAIN s
        BY <2>3, <2>4
    <2>6. s[(j - a) + 1] \in ToSet(s)
        BY <2>5 DEF ToSet
    <2> QED BY <2>5, <2>6, <1>2
<1> QED BY <1>3 DEF a, b

LEMMA NothingNamed == Named({}) = {}
BY DEF Named

LEMMA NamedTogether ==
    ASSUME NEW L, NEW M
    PROVE  Named(L \cup M) = Named(L) \cup Named(M)
<1> DEFINE IsNamed(l) == l.kind \in Pg!Literals \cup Pg!Comments
           Name(l) == IF l.kind = "EString" THEN Span("SingleQuoted", l.start, l.end)
                      ELSE Span(l.kind, l.start, l.end)
<1>1. \A K : Named(K) = {Name(l) : l \in {any \in K : IsNamed(any)}}
    BY DEF Named
<1> HIDE DEF IsNamed, Name
<1> QED BY <1>1

LEMMA NamedOne ==
    ASSUME NEW l
    PROVE  Named({l}) = IF l.kind = "EString" THEN {Span("SingleQuoted", l.start, l.end)}
                        ELSE IF l.kind \in {"SingleQuoted", "DoubleQuoted", "DollarQuoted",
                                            "LineComment", "BlockComment"}
                             THEN {Span(l.kind, l.start, l.end)}
                        ELSE {}
<1>1. Pg!Literals \cup Pg!Comments = {"EString", "SingleQuoted", "DoubleQuoted", "DollarQuoted",
                                      "LineComment", "BlockComment"}
    BY DEF Pg!Literals, Pg!Comments
<1> QED BY <1>1 DEF Named

\* What is read at a place is read alike: a literal or a comment is one region,
\* right there or behind the E, and anything else is code.
Matches(t, l, i) ==
    \/ /\ Named({l}) = {}
       /\ AllCode(t, i, l.end)
    \/ /\ l.start \in {i, i + 1} /\ l.start \in 1..Len(t)
       /\ AllCode(t, i, l.start)
       /\ Region(t, l.start).segment # "Code"
       /\ Region(t, l.start).end = l.end
       /\ Named({l}) = {Region(t, l.start)}

LEMMA OthersAreCode ==
    ASSUME NEW t \in Seq(Chars), NEW j \in 1..Len(t), t[j] \in Letters \cup Digits
    PROVE  Region(t, j).segment = "Code"
<1>1. t[j] \notin {Apostrophe, Quote, "$"} /\ t[j] # "-" /\ t[j] # "/"
    BY MarksDiffer
<1>2. ~ IsPair(t, j, "-", "-") /\ ~ IsPair(t, j, "/", "*")
    BY <1>1 DEF IsPair, Char
<1>3. Region(t, j) = Span("Code", j, j + 1)
    BY <1>1, <1>2, RegionsAre
<1> QED BY <1>3 DEF Span

LEMMA LexemesHave ==
    ASSUME NEW t, NEW kind, NEW start, NEW end
    PROVE  /\ Pg!Lexeme(t, kind, start, end).kind = kind
           /\ Pg!Lexeme(t, kind, start, end).start = start
           /\ Pg!Lexeme(t, kind, start, end).end = Clipped(t, end)
BY DEF Pg!Lexeme, Clipped

LEMMA LexemesMatch ==
    ASSUME NEW t \in Seq(Chars), NEW i \in 1..Len(t), PlainIn(t, {Pg!LexemeAt(t, i)})
    PROVE  Matches(t, Pg!LexemeAt(t, i), i)
<1> DEFINE n == Len(t)
           l == Pg!LexemeAt(t, i)
<1>1. n \in Nat /\ i \in 1..n /\ i + 1 \in 1..(n + 1) /\ i \in 1..(n + 1) /\ \A j \in i..(i - 1) : FALSE
    OBVIOUS
<1>2. l \in LexemesOf(t) /\ l.end \in (i + 1)..(n + 1)
    BY LexemesFit
<1>3. l.start \in 1..(Len(t) + 1) /\ l.end \in 1..(Len(t) + 1)
    BY <1>2 DEF LexemesOf
<1>4. /\ l.kind = "SingleQuoted" => Backslash \notin ToSet(Text(t, l))
      /\ l.kind = "Word" => "$" \notin ToSet(Text(t, l))
    BY DEF PlainIn
\* One region that starts here.
<1>5. ASSUME NEW kind \in {"SingleQuoted", "DoubleQuoted", "DollarQuoted", "LineComment", "BlockComment"},
             l.kind = kind, l.start = i, Region(t, i) = Span(kind, i, l.end)
      PROVE  Matches(t, l, i)
    <2>1. Region(t, i).segment = kind /\ Region(t, i).end = l.end
        BY <1>5 DEF Span
    <2>2. Named({l}) = {Region(t, i)}
        BY <1>5, NamedOne
    <2>3. kind # "Code"
        OBVIOUS
    <2> HIDE DEF l, n
    <2> QED BY <2>1, <2>2, <2>3, <1>1, <1>5 DEF Matches, n, AllCode
\* Nothing but code.
<1>6. ASSUME l.kind \in {"Parameter", "Word", "Other"},
             AllCode(t, i, l.end)
      PROVE  Matches(t, l, i)
    <2>1. Named({l}) = {}
        <3> HIDE DEF l
        <3> QED BY <1>6, NamedOne
    <2> HIDE DEF l
    <2> QED BY <2>1, <1>6 DEF Matches
<1> SUFFICES Matches(t, l, i)
    OBVIOUS
<1> HIDE DEF l
<1>a. CASE Pg!OpensE(t, i)
    <2>1. t[i] = "E" /\ i + 1 \in 1..n /\ t[i + 1] = Apostrophe
        <3>1. Apostrophe # "nothing"
            BY CharactersDiffer
        <3> QED BY <1>a, <3>1, SameCharacters DEF Pg!OpensE, Pg!At
    <2>2. l = Pg!Lexeme(t, "EString", i + 1, Pg!EStringEnd(t, i + 2))
        BY <1>a, LexemesAre DEF l
    <2>3. l.kind = "EString" /\ l.start = i + 1 /\ l.end = EscapedEnd(t, i + 2)
        BY <2>2, LexemesHave DEF EscapedEnd
    <2>4. Region(t, i).segment = "Code"
        <3>1. "E" \in Letters
            BY DEF Letters
        <3> QED BY <2>1, <3>1, OthersAreCode
    <2>5. (i + 1) + 1 = i + 2 /\ i + 2 \in 1..(n + 1)
        <3> HIDE DEF n
        <3> QED BY <2>1, <1>1
    <2>6. Region(t, i + 1) = Span("SingleQuoted", i + 1, l.end)
        <3>1. Region(t, i + 1) = Span("SingleQuoted", i + 1, QuotedEnd(t, (i + 1) + 1, Apostrophe))
            BY <2>1, RegionsAre
        <3>2. QuotedEnd(t, i + 2, Apostrophe) = EscapedEnd(t, i + 2)
            BY <2>5, EStringsEndAlike
        <3> QED BY <3>1, <3>2, <2>3, <2>5
    <2>7. Region(t, i + 1).segment # "Code" /\ Region(t, i + 1).end = l.end
        BY <2>6 DEF Span
    <2>8. Named({l}) = {Region(t, i + 1)}
        BY <2>3, <2>6, NamedOne
    <2>9. \A j \in i..((i + 1) - 1) : j = i
        BY <1>1
    <2> QED BY <2>1, <2>3, <2>4, <2>7, <2>8, <2>9 DEF Matches, AllCode
<1>b. CASE t[i] = Apostrophe
    <2>1. l = Pg!Lexeme(t, "SingleQuoted", i, Pg!QuotedEnd(t, i + 1, Apostrophe))
        BY <1>b, LexemesAre DEF l
    <2>2. l.kind = "SingleQuoted" /\ l.start = i /\ l.end = UnescapedEnd(t, i + 1, Apostrophe)
        BY <2>1, LexemesHave DEF UnescapedEnd
    <2>3. \A j \in l.start..(l.end - 1) : t[j] # Backslash
        BY <2>2, <1>3, <1>4, InText
    <2>4. \A j \in (i + 1)..(l.end - 1) : j \in l.start..(l.end - 1)
        BY <2>2, <1>1, <1>2
    <2>5. QuotedEnd(t, i + 1, Apostrophe) = l.end
        BY <2>2, <2>3, <2>4, <1>1, UnescapedEndAlike
    <2>6. Region(t, i) = Span("SingleQuoted", i, l.end)
        BY <1>b, <2>5, RegionsAre
    <2> QED BY <2>2, <2>6, <1>5
<1>c. CASE t[i] = Quote
    <2>1. l = Pg!Lexeme(t, "DoubleQuoted", i, Pg!QuotedEnd(t, i + 1, Quote))
        BY <1>c, LexemesAre DEF l
    <2>2. l.kind = "DoubleQuoted" /\ l.start = i /\ l.end = UnescapedEnd(t, i + 1, Quote)
        BY <2>1, LexemesHave DEF UnescapedEnd
    <2>3. QuotedEnd(t, i + 1, Quote) = l.end
        <3>1. Quote # Apostrophe
            BY CharactersDiffer
        <3> QED BY <2>2, <3>1, <1>1, UnescapedEndAlike
    <2>4. Region(t, i) = Span("DoubleQuoted", i, l.end)
        BY <1>c, <2>3, RegionsAre
    <2> QED BY <2>2, <2>4, <1>5
<1>d. CASE t[i] = "$" /\ Pg!DollarOpening(t, i) # {}
    <2>1. l = Pg!Lexeme(t, "DollarQuoted", i, Pg!DollarEnd(t, i))
        BY <1>d, LexemesAre DEF l
    <2>2. l.kind = "DollarQuoted" /\ l.start = i /\ l.end = DollarQuotedEnd(t, i)
        BY <2>1, <1>d, LexemesHave, DollarQuotesEndAlike
    <2>3. DelimiterEnd(t, i) \in DOMAIN t
        BY <1>d, DelimitersEndAlike
    <2>4. Region(t, i) = Span("DollarQuoted", i, l.end)
        BY <1>d, <2>2, <2>3, RegionsAre
    <2> QED BY <2>2, <2>4, <1>5
<1>e. CASE t[i] = "$" /\ Pg!DollarOpening(t, i) = {}
    <2>1. l = Pg!Lexeme(t, "Parameter", i, Pg!ParamEnd(t, i))
        BY <1>e, LexemesAre DEF l
    <2> DEFINE end == Pg!ParamEnd(t, i)
    <2>2. end \in (i + 1)..(n + 1) /\ \A j \in (i + 1)..(end - 1) : t[j] \in Digits
        BY WordsFit
    <2> HIDE DEF end
    <2>3. l.kind = "Parameter" /\ l.end = end
        <3>1. Clipped(t, end) = end
            BY <2>2, <1>1 DEF Clipped
        <3> QED BY <3>1, <2>1, LexemesHave DEF end
    <2>4. Region(t, i).segment = "Code"
        <3>1. DelimiterEnd(t, i) \notin DOMAIN t
            BY <1>e, DelimitersEndAlike
        <3>2. Region(t, i) = Span("Code", i, i + 1)
            BY <1>e, <3>1, RegionsAre
        <3> QED BY <3>2 DEF Span
    <2>5. ASSUME NEW j \in i..(end - 1)
          PROVE  Region(t, j).segment = "Code"
        <3>1. j = i \/ (j \in (i + 1)..(end - 1) /\ j \in 1..n)
            <4> HIDE DEF n
            <4> QED BY <2>2, <1>1
        <3>2. CASE j # i
            <4>1. t[j] \in Letters \cup Digits /\ j \in 1..Len(t)
                BY <3>1, <3>2, <2>2
            <4> QED BY <4>1, OthersAreCode
        <3> QED BY <3>1, <3>2, <2>4
    <2> QED BY <2>3, <2>5, <1>6 DEF AllCode
<1>f. CASE IsPair(t, i, "-", "-")
    <2> DEFINE end == Pg!Least(t, i, LAMBDA j : t[j] = Pg!Newline)
               stop == FirstFrom(t, i, LAMBDA j : t[j] = Newline)
    <2>1. l = Pg!Lexeme(t, "LineComment", i, end)
        BY <1>f, LexemesAre DEF l
    <2>2. stop = end /\ stop = Clipped(t, stop)
        BY LineCommentsEndAlike
    <2>3. Region(t, i) = Span("LineComment", i, stop)
        BY <1>f, RegionsAre
    <2> HIDE DEF end, stop
    <2>4. l.kind = "LineComment" /\ l.start = i /\ l.end = stop
        BY <2>1, <2>2, LexemesHave
    <2> QED BY <2>3, <2>4, <1>5
<1>g. CASE IsPair(t, i, "/", "*")
    <2>1. l = Pg!Lexeme(t, "BlockComment", i, Pg!CommentEnd(t, i))
        BY <1>g, LexemesAre DEF l
    <2>2. l.kind = "BlockComment" /\ l.start = i /\ l.end = BlockCommentEnd(t, i)
        BY <2>1, <1>g, LexemesHave, BlockCommentsEndAlike
    <2>3. Region(t, i) = Span("BlockComment", i, l.end)
        BY <1>g, <2>2, RegionsAre
    <2> QED BY <2>2, <2>3, <1>5
<1>h. CASE t[i] \in Letters /\ ~ Pg!OpensE(t, i)
    <2>1. l = Pg!Lexeme(t, "Word", i, Pg!WordEnd(t, i))
        BY <1>h, LexemesAre DEF l
    <2> DEFINE end == Pg!WordEnd(t, i)
    <2>2. end \in (i + 1)..(n + 1) /\ \A j \in i..(end - 1) : t[j] \in Letters \cup Digits \cup {"$"}
        BY <1>h, WordsFit
    <2> HIDE DEF end
    <2>3. l.kind = "Word" /\ l.start = i /\ l.end = end
        <3>1. Clipped(t, end) = end
            BY <2>2, <1>1 DEF Clipped
        <3> QED BY <3>1, <2>1, LexemesHave DEF end
    <2>4. \A j \in l.start..(l.end - 1) : t[j] # "$"
        BY <2>3, <1>3, <1>4, InText
    <2>5. ASSUME NEW j \in i..(end - 1)
          PROVE  Region(t, j).segment = "Code"
        <3>1. j \in 1..n
            <4> HIDE DEF n
            <4> QED BY <2>2, <1>1
        <3>2. t[j] \in Letters \cup Digits
            BY <2>2, <2>3, <2>4
        <3> QED BY <3>1, <3>2, OthersAreCode
    <2> QED BY <2>3, <2>5, <1>6 DEF AllCode
<1>i. CASE t[i] \notin {Apostrophe, Quote, "$"} \cup Letters /\ ~ OpensComment(t, i)
    <2>1. l = Pg!Lexeme(t, "Other", i, i + 1)
        BY <1>i, LexemesAre DEF l
    <2>2. l.kind = "Other" /\ l.end = i + 1
        <3>1. Clipped(t, i + 1) = i + 1
            BY <1>1 DEF Clipped
        <3> QED BY <3>1, <2>1, LexemesHave
    <2>3. Region(t, i) = Span("Code", i, i + 1)
        BY <1>i, RegionsAre DEF OpensComment
    <2>4. \A j \in i..((i + 1) - 1) : j = i
        BY <1>1
    <2>5. Region(t, i).segment = "Code"
        BY <2>3 DEF Span
    <2> QED BY <2>2, <2>4, <2>5, <1>6 DEF AllCode
<1> QED
    BY <1>a, <1>b, <1>c, <1>d, <1>e, <1>f, <1>g, <1>h, <1>i DEF OpensComment

LEMMA LiteralsAndCommentsAgree ==
    ASSUME NEW t \in Seq(Chars), PlainIn(t, Pg!Lexemes(t))
    PROVE  Apart(Scan(t)) = Named(Pg!Lexemes(t))
<1> DEFINE n == Len(t)
<1>1. n \in Nat /\ n + 1 \in Nat /\ 1 \in 1..(n + 1)
    OBVIOUS
<1>2. PICK f : ScansFrom(t, f) /\ Scan(t) = f[1]
    BY ScanGoesOn
<1>3. PICK g : LexesFrom(t, g) /\ Pg!Lexemes(t) = g[1]
    BY LexingGoesOn
<1>4. \A i \in 1..(n + 1) : g[i] = IF i > n THEN {} ELSE {Pg!LexemeAt(t, i)} \cup g[Pg!LexemeAt(t, i).end]
    <2> DEFINE G(i) == IF i > n THEN {} ELSE {Pg!LexemeAt(t, i)} \cup g[Pg!LexemeAt(t, i).end]
    <2>1. g = [i \in 1..(n + 1) |-> G(i)]
        BY <1>3 DEF LexesFrom
    <2> HIDE DEF G
    <2>2. \A i \in 1..(n + 1) : g[i] = G(i)
        BY <2>1
    <2> QED BY <2>2 DEF G
<1> DEFINE S == {i \in 1..(n + 1) : PlainIn(t, g[i]) => Apart(f[i]) = Named(g[i])}
<1>5. ASSUME NEW i \in 1..(n + 1), \A k \in (i + 1)..(n + 1) : k \in S
      PROVE  i \in S
    <2> SUFFICES ASSUME PlainIn(t, g[i]) PROVE Apart(f[i]) = Named(g[i])
        OBVIOUS
    <2>1. CASE i > n
        <3>1. g[i] = {}
            BY <2>1, <1>4
        <3>2. Apart(f[i]) = {}
            <4> DEFINE o == RegionFrom(t, i)
            <4>1. o > n
                <5>1. o \in i..(n + 1) /\ i \in 1..(n + 1)
                    BY RegionsFrom
                <5> HIDE DEF o, n
                <5> QED BY <5>1, <2>1, <1>1
            <4>2. Apart(f[i]) = IF o > n THEN {} ELSE {Region(t, o)} \cup Apart(f[Region(t, o).end])
                <5>1. IsApart(t, f, i)
                    BY <1>2, ApartGoesOn
                <5> QED BY <5>1 DEF IsApart
            <4> HIDE DEF o
            <4> QED BY <4>1, <4>2
        <3> QED BY <3>1, <3>2, NothingNamed
    <2>2. CASE ~ (i > n)
        <3> DEFINE l == Pg!LexemeAt(t, i)
                   end == l.end
        <3>1. i \in 1..n /\ i \in 1..Len(t)
            <4>1. i \in 1..(n + 1)
                OBVIOUS
            <4>2. i \in 1..n
                <5> HIDE DEF n
                <5> QED BY <4>1, <2>2, <1>1
            <4> QED BY <4>2
        <3>2. g[i] = {l} \cup g[end]
            BY <2>2, <1>4
        <3>3. end \in (i + 1)..(n + 1)
            BY <3>1, LexemesFit
        <3>4. PlainIn(t, {l}) /\ PlainIn(t, g[end])
            <4> HIDE DEF l, end
            <4> QED BY <3>2 DEF PlainIn
        <3>5. Apart(f[end]) = Named(g[end])
            <4> HIDE DEF end
            <4>1. end \in S
                BY <3>3, <1>5
            <4> QED BY <4>1, <3>4
        <3>6. Named(g[i]) = Named({l}) \cup Named(g[end])
            BY <3>2, NamedTogether
        <3>7. Matches(t, l, i)
            BY <3>1, <3>4, LexemesMatch
        <3> HIDE DEF l
        <3>8. CASE Named({l}) = {} /\ AllCode(t, i, end)
            <4>1. i \in 1..(Len(t) + 1) /\ end \in i..(Len(t) + 1)
                <5>1. i \in 1..(n + 1)
                    OBVIOUS
                <5> HIDE DEF n, end
                <5>2. end \in i..(n + 1)
                    BY <3>1, <3>3, <1>1
                <5> QED BY <5>1, <5>2 DEF n
            <4> HIDE DEF end
            <4>2. Apart(f[i]) = Apart(f[end])
                BY <4>1, <3>8, <1>2, CodeIsSkipped
            <4> QED BY <4>2, <3>5, <3>6, <3>8
        <3>9. CASE /\ l.start \in {i, i + 1} /\ l.start \in 1..Len(t)
                   /\ AllCode(t, i, l.start)
                   /\ Region(t, l.start).segment # "Code"
                   /\ Region(t, l.start).end = l.end
                   /\ Named({l}) = {Region(t, l.start)}
            <4> DEFINE start == l.start
            <4>1. i \in 1..(Len(t) + 1) /\ start \in i..(Len(t) + 1) /\ start \in 1..Len(t)
                <5>1. i \in 1..(n + 1) /\ start \in {i, i + 1} /\ start \in 1..n
                    BY <3>9
                <5> HIDE DEF n, start
                <5>2. start \in i..(n + 1)
                    BY <5>1, <1>1
                <5> QED BY <5>1, <5>2 DEF n
            <4>2. AllCode(t, i, start) /\ Region(t, start).segment # "Code" /\ Region(t, start).end = end
                  /\ Named({l}) = {Region(t, start)}
                BY <3>9
            <4> HIDE DEF start, end
            <4>3. Apart(f[i]) = Apart(f[start])
                BY <4>1, <4>2, <1>2, CodeIsSkipped
            <4>4. Apart(f[start]) = {Region(t, start)} \cup Apart(f[end])
                <5>1. Apart(f[start]) = {Region(t, start)} \cup Apart(f[Region(t, start).end])
                    BY <4>1, <4>2, <1>2, RegionIsApart
                <5> QED BY <5>1, <4>2
            <4> QED BY <4>2, <4>3, <4>4, <3>5, <3>6
        <3> QED BY <3>7, <3>8, <3>9 DEF Matches
    <2> QED BY <2>1, <2>2
<1>6. 1..(n + 1) \subseteq S
    <2> HIDE DEF S, n
    <2> QED BY <1>1, <1>5, CountingDown
<1>7. 1 \in S
    <2> HIDE DEF S, n
    <2> QED BY <1>1, <1>6
<1> QED BY <1>2, <1>3, <1>7

-----------------------------------------------------------------------------
(* Code                                                                    *)

LEMMA PlacesOfCode ==
    ASSUME NEW z, NEW x
    PROVE  x \in CodeIn(z) <=> \E span \in ToSet(z) : span.segment = "Code" /\ x \in Places(span)
<1> DEFINE C == {span \in ToSet(z) : span.segment = "Code"}
<1>1. CodeIn(z) = UNION {Places(span) : span \in C}
    BY DEF CodeIn
<1>2. x \in UNION {Places(span) : span \in C} <=> \E span \in C : x \in Places(span)
    <2> HIDE DEF C
    <2> QED OBVIOUS
<1> QED BY <1>1, <1>2

LEMMA PlacesOfTwo ==
    ASSUME NEW X, NEW r \in Seq(X), NEW s \in Seq(X)
    PROVE  CodeIn(r \o s) = CodeIn(r) \cup CodeIn(s)
<1>1. ToSet(r \o s) = ToSet(r) \cup ToSet(s)
    BY SetOfTwo
<1>2. \A x : x \in CodeIn(r \o s) <=> \E span \in ToSet(r) \cup ToSet(s) : span.segment = "Code" /\ x \in Places(span)
    BY <1>1, PlacesOfCode
<1>3. \A x : x \in CodeIn(r) <=> \E span \in ToSet(r) : span.segment = "Code" /\ x \in Places(span)
    BY PlacesOfCode
<1>4. \A x : x \in CodeIn(s) <=> \E span \in ToSet(s) : span.segment = "Code" /\ x \in Places(span)
    BY PlacesOfCode
<1>5. \A x : x \in CodeIn(r \o s) <=> x \in CodeIn(r) \/ x \in CodeIn(s)
    BY <1>2, <1>3, <1>4
<1> QED BY <1>5

LEMMA PlacesOfOne ==
    ASSUME NEW span
    PROVE  CodeIn(<<span>>) = IF span.segment = "Code" THEN Places(span) ELSE {}
<1>1. ToSet(<<span>>) = {span}
    <2>1. DOMAIN <<span>> = {1} /\ <<span>>[1] = span
        OBVIOUS
    <2> QED BY <2>1 DEF ToSet
<1> QED BY <1>1 DEF CodeIn

\* What the spans from i on say of code and of what is none.
IsCode(t, f, i) ==
    CodeIn(f[i]) = IF RegionFrom(t, i) > Len(t) THEN i..(RegionFrom(t, i) - 1)
                   ELSE i..(RegionFrom(t, i) - 1) \cup CodeIn(f[Region(t, RegionFrom(t, i)).end])

LEMMA CodeGoesOn ==
    ASSUME NEW t \in Seq(Chars), NEW f, ScansFrom(t, f), NEW i \in 1..(Len(t) + 1)
    PROVE  IsCode(t, f, i)
<1> DEFINE n == Len(t)
           o == RegionFrom(t, i)
           R == Region(t, o)
           code == FlushCode(i, o)
           rest == f[R.end]
<1>1. n \in Nat /\ o \in i..(n + 1) /\ (o \in i..n => R.segment # "Code")
    BY RegionsFrom
<1>2. f[i] = IF o > n THEN code ELSE code \o <<R>> \o rest
    <2> DEFINE F(j) == IF RegionFrom(t, j) > n THEN FlushCode(j, RegionFrom(t, j))
                       ELSE FlushCode(j, RegionFrom(t, j)) \o <<Region(t, RegionFrom(t, j))>>
                                \o f[Region(t, RegionFrom(t, j)).end]
    <2>1. f = [j \in 1..(n + 1) |-> F(j)]
        BY DEF ScansFrom
    <2> HIDE DEF F
    <2>2. f[i] = F(i)
        BY <2>1
    <2> QED BY <2>2 DEF F
<1>3. code \in Seq(SpansOf(t))
    <2>1. o \in i..(Len(t) + 1)
        BY <1>1
    <2> HIDE DEF o
    <2> QED BY <2>1, FlushedFits
<1>4. CodeIn(code) = i..(o - 1)
    <2>1. Span("Code", i, o).segment = "Code" /\ Places(Span("Code", i, o)) = i..(o - 1)
        BY DEF Span, Places
    <2>2. CASE o > i
        BY <2>1, <2>2, PlacesOfOne DEF FlushCode
    <2>3. CASE ~ (o > i)
        <3>1. code = <<>>
            BY <2>3 DEF FlushCode
        <3>2. ToSet(<<>>) = {}
            BY DEF ToSet
        <3>3. i..(o - 1) = {}
            <4> HIDE DEF o
            <4> QED BY <2>3, <1>1
        <3> HIDE DEF code
        <3> QED BY <3>1, <3>2, <3>3 DEF CodeIn
    <2> QED BY <2>2, <2>3
<1>7. \A a, b \in Seq(SpansOf(t)) : CodeIn(a \o b) = CodeIn(a) \cup CodeIn(b)
    BY PlacesOfTwo
<1> HIDE DEF o
<1>5. CASE o > n
    BY <1>2, <1>4, <1>5 DEF o, IsCode
<1>6. CASE ~ (o > n)
    <2>1. o \in 1..n /\ o \in i..n
        <3>1. i \in 1..(n + 1)
            OBVIOUS
        <3> HIDE DEF n
        <3> QED BY <3>1, <1>1, <1>6
    <2>2. R \in SpansOf(t) /\ R.end \in (o + 1)..(n + 1)
        BY <2>1, RegionsFit
    <2> DEFINE end == R.end
    <2>3. end \in 1..(n + 1)
        <3>1. end \in (o + 1)..(n + 1)
            BY <2>2
        <3> HIDE DEF end, n
        <3> QED BY <3>1, <2>1, <1>1
    <2>4. rest \in Seq(SpansOf(t))
        <3> HIDE DEF end
        <3>1. Tiles(t, f[end], end)
            BY <2>3, SpansTile
        <3>2. f[end] \in Seq(SpansOf(t))
            BY <3>1 DEF Tiles
        <3> QED BY <3>2 DEF end
    <2>5. f[i] = (code \o <<R>>) \o rest
        BY <1>2, <1>6
    <2>6. R.segment # "Code"
        BY <2>1, <1>1
    <2> HIDE DEF code, R, rest
    <2>7. <<R>> \in Seq(SpansOf(t)) /\ code \o <<R>> \in Seq(SpansOf(t))
        BY <2>2, <1>3
    <2>8. CodeIn((code \o <<R>>) \o rest) = CodeIn(code \o <<R>>) \cup CodeIn(rest)
        BY <2>4, <2>7, <1>7
    <2>9. CodeIn(code \o <<R>>) = CodeIn(code) \cup CodeIn(<<R>>)
        BY <2>7, <1>3, <1>7
    <2>10. CodeIn(<<R>>) = {}
        BY <2>6, PlacesOfOne
    <2>11. CodeIn(f[i]) = i..(o - 1) \cup CodeIn(rest)
        BY <2>5, <2>8, <2>9, <2>10, <1>4
    <2> QED BY <2>11, <1>6 DEF R, rest, o, IsCode
<1> QED BY <1>5, <1>6

\* One region after the other.
Steps(t, f, i) ==
    /\ Apart(f[i]) = (IF Region(t, i).segment = "Code" THEN {} ELSE {Region(t, i)})
                     \cup Apart(f[Region(t, i).end])
    /\ CodeIn(f[i]) = (IF Region(t, i).segment = "Code" THEN {i} ELSE {})
                      \cup CodeIn(f[Region(t, i).end])

LEMMA CodeIsOne ==
    ASSUME NEW t \in Seq(Chars), NEW i \in 1..Len(t), Region(t, i).segment = "Code"
    PROVE  Region(t, i) = Span("Code", i, i + 1) /\ Region(t, i).end = i + 1
<1>1. ASSUME NEW kind \in {"SingleQuoted", "DoubleQuoted", "DollarQuoted", "LineComment", "BlockComment"},
             NEW end
      PROVE  Region(t, i) # Span(kind, i, end)
    <2>1. Span(kind, i, end).segment = kind /\ kind # "Code"
        BY DEF Span
    <2> QED BY <2>1
<1>2. t[i] # Apostrophe
    <2> DEFINE end == QuotedEnd(t, i + 1, Apostrophe)
    <2>1. t[i] = Apostrophe => Region(t, i) = Span("SingleQuoted", i, end)
        BY RegionsAre
    <2> HIDE DEF end
    <2> QED BY <2>1, <1>1
<1>3. t[i] # Quote
    <2> DEFINE end == QuotedEnd(t, i + 1, Quote)
    <2>1. t[i] = Quote => Region(t, i) = Span("DoubleQuoted", i, end)
        BY RegionsAre
    <2> HIDE DEF end
    <2> QED BY <2>1, <1>1
<1>4. ~ (t[i] = "$" /\ DelimiterEnd(t, i) \in DOMAIN t)
    <2> DEFINE end == DollarQuotedEnd(t, i)
    <2>1. t[i] = "$" /\ DelimiterEnd(t, i) \in DOMAIN t => Region(t, i) = Span("DollarQuoted", i, end)
        BY RegionsAre
    <2> HIDE DEF end
    <2> QED BY <2>1, <1>1
<1>5. ~ IsPair(t, i, "-", "-")
    <2> DEFINE end == FirstFrom(t, i, LAMBDA j : t[j] = Newline)
    <2>1. IsPair(t, i, "-", "-") => Region(t, i) = Span("LineComment", i, end)
        BY RegionsAre
    <2> HIDE DEF end
    <2> QED BY <2>1, <1>1
<1>6. ~ IsPair(t, i, "/", "*")
    <2> DEFINE end == BlockCommentEnd(t, i)
    <2>1. IsPair(t, i, "/", "*") => Region(t, i) = Span("BlockComment", i, end)
        BY RegionsAre
    <2> HIDE DEF end
    <2> QED BY <2>1, <1>1
<1>7. Region(t, i) = Span("Code", i, i + 1)
    <2>1. CASE t[i] = "$"
        BY <2>1, <1>4, RegionsAre
    <2>2. CASE t[i] # "$"
        BY <2>2, <1>2, <1>3, <1>5, <1>6, RegionsAre
    <2> QED BY <2>1, <2>2
<1> QED BY <1>7 DEF Span

LEMMA ScanSteps ==
    ASSUME NEW t \in Seq(Chars), NEW f, ScansFrom(t, f), NEW i \in 1..Len(t)
    PROVE  Steps(t, f, i)
<1> DEFINE n == Len(t)
           a == RegionFrom(t, i)
           b == RegionFrom(t, i + 1)
<1>1. n \in Nat /\ i \in 1..n /\ i \in 1..(n + 1) /\ i + 1 \in 1..(n + 1)
    OBVIOUS
<1>2. /\ a \in i..(n + 1)
      /\ a \in i..n => Region(t, a).segment # "Code"
      /\ \A j \in i..(a - 1) : Region(t, j).segment = "Code"
    BY <1>1, RegionsFrom
<1>3. /\ b \in (i + 1)..(n + 1)
      /\ b \in (i + 1)..n => Region(t, b).segment # "Code"
      /\ \A j \in (i + 1)..(b - 1) : Region(t, j).segment = "Code"
    BY <1>1, RegionsFrom
<1>4. CodeIn(f[i]) = IF a > n THEN i..(a - 1) ELSE i..(a - 1) \cup CodeIn(f[Region(t, a).end])
    <2>1. IsCode(t, f, i)
        BY <1>1, CodeGoesOn
    <2> QED BY <2>1 DEF IsCode
<1>5. CodeIn(f[i + 1]) = IF b > n THEN (i + 1)..(b - 1) ELSE (i + 1)..(b - 1) \cup CodeIn(f[Region(t, b).end])
    <2>1. IsCode(t, f, i + 1)
        BY <1>1, CodeGoesOn
    <2> QED BY <2>1 DEF IsCode
<1>6. CASE Region(t, i).segment = "Code"
    <2>1. Region(t, i).end = i + 1
        BY <1>6, CodeIsOne
    <2>2. Apart(f[i]) = Apart(f[i + 1])
        <3>1. AllCode(t, i, i + 1)
            <4>1. \A j \in i..((i + 1) - 1) : j = i
                BY <1>1
            <4> QED BY <4>1, <1>6 DEF AllCode
        <3>2. i \in 1..(Len(t) + 1) /\ i + 1 \in i..(Len(t) + 1)
            BY <1>1
        <3> QED BY <3>1, <3>2, CodeIsSkipped
    <2> HIDE DEF n, a, b
    <2>3. a # i
        BY <1>1, <1>2, <1>6
    <2>4. a \in (i + 1)..(n + 1)
        BY <2>3, <1>1, <1>2
    <2>5. ~ (b < a)
        <3> SUFFICES ASSUME b < a PROVE FALSE
            OBVIOUS
        <3>1. b \in i..(a - 1) /\ b \in (i + 1)..n
            BY <1>1, <2>4, <1>3
        <3> QED BY <3>1, <1>2, <1>3
    <2>6. ~ (a < b)
        <3> SUFFICES ASSUME a < b PROVE FALSE
            OBVIOUS
        <3>1. a \in (i + 1)..(b - 1) /\ a \in i..n
            BY <1>1, <2>4, <1>3
        <3> QED BY <3>1, <1>2, <1>3
    <2>7. a = b
        BY <1>1, <1>3, <2>4, <2>5, <2>6
    <2>8. i..(a - 1) = {i} \cup (i + 1)..(a - 1)
        BY <1>1, <2>4
    <2>9. CodeIn(f[i]) = {i} \cup CodeIn(f[i + 1])
        BY <1>4, <1>5, <2>7, <2>8
    <2> QED BY <2>1, <2>2, <2>9, <1>6 DEF Steps
<1>7. CASE Region(t, i).segment # "Code"
    <2>1. Apart(f[i]) = {Region(t, i)} \cup Apart(f[Region(t, i).end])
        BY <1>7, RegionIsApart
    <2> HIDE DEF n, a, b
    <2>2. a = i
        <3>1. i \notin i..(a - 1)
            BY <1>2, <1>7
        <3> QED BY <3>1, <1>1, <1>2
    <2>3. i..(a - 1) = {} /\ ~ (a > n)
        BY <1>1, <2>2
    <2>4. CodeIn(f[i]) = CodeIn(f[Region(t, i).end])
        BY <1>4, <2>2, <2>3
    <2> QED BY <2>1, <2>4, <1>7 DEF Steps
<1> QED BY <1>6, <1>7

\* Nothing is read after the end.
LEMMA NothingAfterTheEnd ==
    ASSUME NEW t \in Seq(Chars), NEW f, ScansFrom(t, f)
    PROVE  Apart(f[Len(t) + 1]) = {} /\ CodeIn(f[Len(t) + 1]) = {}
<1> DEFINE n == Len(t)
           a == RegionFrom(t, n + 1)
<1>1. n \in Nat /\ n + 1 \in 1..(n + 1)
    OBVIOUS
<1>2. a \in (n + 1)..(n + 1)
    BY <1>1, RegionsFrom
<1>3. Apart(f[n + 1]) = IF a > n THEN {} ELSE {Region(t, a)} \cup Apart(f[Region(t, a).end])
    <2>1. IsApart(t, f, n + 1)
        BY <1>1, ApartGoesOn
    <2> QED BY <2>1 DEF IsApart
<1>4. CodeIn(f[n + 1]) = IF a > n THEN (n + 1)..(a - 1)
                         ELSE (n + 1)..(a - 1) \cup CodeIn(f[Region(t, a).end])
    <2>1. IsCode(t, f, n + 1)
        BY <1>1, CodeGoesOn
    <2> QED BY <2>1 DEF IsCode
<1> HIDE DEF n, a
<1>5. a = n + 1 /\ a > n /\ (n + 1)..(a - 1) = {}
    BY <1>1, <1>2
<1> QED BY <1>3, <1>4, <1>5 DEF n

\* A stretch of code is read a place at a time.
LEMMA CodeIsWalked ==
    ASSUME NEW t \in Seq(Chars), NEW f, ScansFrom(t, f), NEW i \in 1..(Len(t) + 1),
           NEW k \in i..(Len(t) + 1), AllCode(t, i, k)
    PROVE  CodeIn(f[i]) = i..(k - 1) \cup CodeIn(f[k])
<1> DEFINE n == Len(t)
           S == {j \in 1..k : i <= j => CodeIn(f[j]) = j..(k - 1) \cup CodeIn(f[k])}
<1>1. n \in Nat /\ i \in 1..(n + 1) /\ k \in i..(n + 1) /\ k \in Nat
    OBVIOUS
<1>2. ASSUME NEW j \in 1..k, \A m \in (j + 1)..k : m \in S
      PROVE  j \in S
    <2> SUFFICES ASSUME i <= j PROVE CodeIn(f[j]) = j..(k - 1) \cup CodeIn(f[k])
        OBVIOUS
    <2>1. CASE j = k
        <3>1. j..(k - 1) = {}
            <4> HIDE DEF n
            <4> QED BY <2>1, <1>1
        <3> QED BY <2>1, <3>1
    <2>2. CASE j # k
        <3>1. j \in 1..n /\ j \in i..(k - 1) /\ j + 1 \in (j + 1)..k /\ j + 1 \in 1..k /\ i <= j + 1
            <4> HIDE DEF n
            <4> QED BY <2>2, <1>1
        <3>2. Region(t, j).segment = "Code"
            BY <3>1 DEF AllCode
        <3>3. Region(t, j).end = j + 1
            BY <3>1, <3>2, CodeIsOne
        <3>4. Steps(t, f, j)
            BY <3>1, ScanSteps
        <3>5. CodeIn(f[j]) = {j} \cup CodeIn(f[j + 1])
            BY <3>2, <3>3, <3>4 DEF Steps
        <3>6. CodeIn(f[j + 1]) = (j + 1)..(k - 1) \cup CodeIn(f[k])
            BY <3>1, <1>2
        <3>7. {j} \cup (j + 1)..(k - 1) = j..(k - 1)
            <4> HIDE DEF n
            <4> QED BY <3>1, <1>1
        <3> QED BY <3>5, <3>6, <3>7
    <2> QED BY <2>1, <2>2
<1>3. 1..k \subseteq S
    <2> HIDE DEF S, n
    <2> QED BY <1>1, <1>2, CountingDown
<1>4. i \in S
    <2> HIDE DEF S, n
    <2>1. i \in 1..k
        BY <1>1
    <2> QED BY <2>1, <1>3
<1>5. i <= i
    OBVIOUS
<1> QED BY <1>4, <1>5

\* The code in a lexeme: all of it, or the E before a string.
CodeBefore(l, i) == IF Named({l}) = {} THEN l.end ELSE l.start

LEMMA CodeOfLexeme ==
    ASSUME NEW t \in Seq(Chars), NEW f, ScansFrom(t, f), NEW i \in 1..Len(t),
           NEW l, Matches(t, l, i), l.end \in (i + 1)..(Len(t) + 1)
    PROVE  CodeIn(f[i]) = i..(CodeBefore(l, i) - 1) \cup CodeIn(f[l.end])
<1> DEFINE n == Len(t)
           start == l.start
           end == l.end
<1>1. n \in Nat /\ i \in 1..n /\ i \in 1..(n + 1) /\ end \in (i + 1)..(n + 1)
    OBVIOUS
<1>2. CASE Named({l}) = {} /\ AllCode(t, i, end)
    <2>1. i \in 1..(Len(t) + 1) /\ end \in i..(Len(t) + 1)
        <3>1. end \in i..(n + 1)
            <4> HIDE DEF end, n
            <4> QED BY <1>1
        <3> QED BY <1>1, <3>1
    <2> HIDE DEF end, n
    <2>2. CodeIn(f[i]) = i..(end - 1) \cup CodeIn(f[end])
        BY <2>1, <1>2, CodeIsWalked
    <2> QED BY <2>2, <1>2 DEF CodeBefore, end
<1>3. CASE /\ start \in {i, i + 1} /\ start \in 1..n
           /\ AllCode(t, i, start)
           /\ Region(t, start).segment # "Code"
           /\ Region(t, start).end = end
           /\ Named({l}) = {Region(t, start)}
    <2>1. i \in 1..(Len(t) + 1) /\ start \in i..(Len(t) + 1) /\ start \in 1..Len(t)
        <3>1. start \in i..(n + 1)
            <4> HIDE DEF start, n
            <4> QED BY <1>1, <1>3
        <3> QED BY <1>1, <1>3, <3>1
    <2> HIDE DEF start, end, n
    <2>2. CodeIn(f[i]) = i..(start - 1) \cup CodeIn(f[start])
        BY <2>1, <1>3, CodeIsWalked
    <2>3. Steps(t, f, start)
        BY <2>1, ScanSteps
    <2>4. CodeIn(f[start]) = CodeIn(f[end])
        BY <2>3, <1>3 DEF Steps
    <2> QED BY <2>2, <2>4, <1>3 DEF CodeBefore, start, end
<1> QED BY <1>2, <1>3 DEF Matches

\* What a lexeme is, seen from its kind.
KindFits(t, l, i) ==
    /\ IF l.kind = "EString" THEN t[i] = "E" /\ l.start = i + 1 ELSE l.start = i
    /\ l.kind = "Parameter" => t[i] = "$" /\ l.end = Pg!ParamEnd(t, i)
    /\ l.kind = "Word" => t[i] \in Letters /\ l.end = Pg!WordEnd(t, i)
    /\ l.kind = "Other" => t[i] \notin {Apostrophe, Quote, "$"} \cup Letters /\ l.end = i + 1

LEMMA KindsFit ==
    ASSUME NEW t \in Seq(Chars), NEW i \in 1..Len(t)
    PROVE  KindFits(t, Pg!LexemeAt(t, i), i)
<1> DEFINE l == Pg!LexemeAt(t, i)
           n == Len(t)
<1>0. n \in Nat /\ i \in 1..n
    OBVIOUS
<1> SUFFICES KindFits(t, l, i)
    OBVIOUS
<1> HIDE DEF l
<1>1. ASSUME NEW kind \in {"SingleQuoted", "DoubleQuoted", "DollarQuoted", "LineComment", "BlockComment"}, NEW end,
             l = Pg!Lexeme(t, kind, i, end)
      PROVE  KindFits(t, l, i)
    <2>1. l.kind = kind /\ l.start = i
        BY <1>1, LexemesHave
    <2> HIDE DEF l
    <2> QED BY <2>1 DEF KindFits
<1>a. CASE Pg!OpensE(t, i)
    <2>1. l = Pg!Lexeme(t, "EString", i + 1, Pg!EStringEnd(t, i + 2)) /\ t[i] = "E"
        BY <1>a, LexemesAre DEF l, Pg!OpensE
    <2>2. l.kind = "EString" /\ l.start = i + 1
        BY <2>1, LexemesHave
    <2> QED BY <2>1, <2>2 DEF KindFits
<1>b. CASE t[i] = Apostrophe
    <2> DEFINE end == Pg!QuotedEnd(t, i + 1, Apostrophe)
    <2>1. l = Pg!Lexeme(t, "SingleQuoted", i, end)
        BY <1>b, LexemesAre DEF l
    <2> HIDE DEF end
    <2> QED BY <2>1, <1>1
<1>c. CASE t[i] = Quote
    <2> DEFINE end == Pg!QuotedEnd(t, i + 1, Quote)
    <2>1. l = Pg!Lexeme(t, "DoubleQuoted", i, end)
        BY <1>c, LexemesAre DEF l
    <2> HIDE DEF end
    <2> QED BY <2>1, <1>1
<1>d. CASE t[i] = "$" /\ Pg!DollarOpening(t, i) # {}
    <2> DEFINE end == Pg!DollarEnd(t, i)
    <2>1. l = Pg!Lexeme(t, "DollarQuoted", i, end)
        BY <1>d, LexemesAre DEF l
    <2> HIDE DEF end
    <2> QED BY <2>1, <1>1
<1>e. CASE t[i] = "$" /\ Pg!DollarOpening(t, i) = {}
    <2> DEFINE end == Pg!ParamEnd(t, i)
    <2>1. l = Pg!Lexeme(t, "Parameter", i, end) /\ end \in (i + 1)..(n + 1)
        BY <1>e, LexemesAre, WordsFit DEF l
    <2> HIDE DEF end
    <2>2. Clipped(t, end) = end
        BY <2>1, <1>0 DEF Clipped
    <2>3. l.kind = "Parameter" /\ l.start = i /\ l.end = end
        BY <2>1, <2>2, LexemesHave
    <2> QED BY <2>3, <1>e DEF KindFits, end
<1>f. CASE IsPair(t, i, "-", "-")
    <2> DEFINE end == Pg!Least(t, i, LAMBDA j : t[j] = Pg!Newline)
    <2>1. l = Pg!Lexeme(t, "LineComment", i, end)
        BY <1>f, LexemesAre DEF l
    <2> HIDE DEF end
    <2> QED BY <2>1, <1>1
<1>g. CASE IsPair(t, i, "/", "*")
    <2>1. l = Pg!Lexeme(t, "BlockComment", i, Pg!CommentEnd(t, i))
        BY <1>g, LexemesAre DEF l
    <2> QED BY <2>1, <1>1
<1>h. CASE t[i] \in Letters /\ ~ Pg!OpensE(t, i)
    <2> DEFINE end == Pg!WordEnd(t, i)
    <2>1. l = Pg!Lexeme(t, "Word", i, end) /\ end \in (i + 1)..(n + 1)
        BY <1>h, LexemesAre, WordsFit DEF l
    <2> HIDE DEF end
    <2>2. Clipped(t, end) = end
        BY <2>1, <1>0 DEF Clipped
    <2>3. l.kind = "Word" /\ l.start = i /\ l.end = end
        BY <2>1, <2>2, LexemesHave
    <2> QED BY <2>3, <1>h DEF KindFits, end
<1>i. CASE t[i] \notin {Apostrophe, Quote, "$"} \cup Letters /\ ~ OpensComment(t, i)
    <2>1. l = Pg!Lexeme(t, "Other", i, i + 1)
        BY <1>i, LexemesAre DEF l
    <2>2. Clipped(t, i + 1) = i + 1
        BY <1>0 DEF Clipped
    <2>3. l.kind = "Other" /\ l.start = i /\ l.end = i + 1
        BY <2>1, <2>2, LexemesHave
    <2> QED BY <2>3, <1>i DEF KindFits
<1> QED
    BY <1>a, <1>b, <1>c, <1>d, <1>e, <1>f, <1>g, <1>h, <1>i DEF OpensComment

\* A dollar that is replaced where it is code.
IsPlaceholder(t, k) ==
    t[k] = "$" /\ \E j \in (k + 1)..(PlaceholderEnd(t, k) - 1) : t[j] # "0"

LEMMA PlaceholdersAre ==
    ASSUME NEW t
    PROVE  Placeholders(t) = {k \in CodeIn(Scan(t)) : IsPlaceholder(t, k)}
BY DEF Placeholders, IsPlaceholder

LEMMA ParametersTogether ==
    ASSUME NEW t, NEW L, NEW M
    PROVE  Pg!Parameters(t, L \cup M) = Pg!Parameters(t, L) \cup Pg!Parameters(t, M)
BY DEF Pg!Parameters

\* The placeholders in a lexeme are the parameter it is, if it is one.
LEMMA ParameterInLexeme ==
    ASSUME NEW t \in Seq(Chars), NEW i \in 1..Len(t), NEW l, l = Pg!LexemeAt(t, i), PlainIn(t, {l})
    PROVE  {k \in i..(CodeBefore(l, i) - 1) : IsPlaceholder(t, k)}
               = {p.start : p \in Pg!Parameters(t, {l})}
<1> DEFINE n == Len(t)
           C == i..(CodeBefore(l, i) - 1)
           Q == {k \in C : IsPlaceholder(t, k)}
<1>1. n \in Nat /\ i \in 1..n
    OBVIOUS
<1>2. l \in LexemesOf(t) /\ l.end \in (i + 1)..(n + 1) /\ KindFits(t, l, i)
    BY LexemesFit, KindsFit
<1>3. CodeBefore(l, i) = IF l.kind \in {"Parameter", "Word", "Other"} THEN l.end ELSE l.start
    <2>1. l.kind \in Kinds
        BY <1>2 DEF LexemesOf
    <2> QED BY <2>1, NamedOne DEF CodeBefore, Kinds
<1>4. l.kind # "Parameter" => Pg!Parameters(t, {l}) = {}
    BY DEF Pg!Parameters
<1>5. ASSUME \A k \in C : t[k] # "$", l.kind # "Parameter"
      PROVE  Q = {p.start : p \in Pg!Parameters(t, {l})}
    <2>1. Q = {}
        BY <1>5 DEF IsPlaceholder
    <2> QED BY <2>1, <1>4, <1>5
<1> SUFFICES Q = {p.start : p \in Pg!Parameters(t, {l})}
    OBVIOUS
<1>6. CASE l.kind = "Parameter"
    <2>1. /\ l.start = i /\ t[i] = "$" /\ l.end = Pg!ParamEnd(t, i)
        BY <1>2, <1>6 DEF KindFits
    <2>2. Pg!ParamEnd(t, i) = PlaceholderEnd(t, i)
        BY SameCharacters DEF Pg!ParamEnd, PlaceholderEnd, Pg!Least, FirstFrom, Pg!Min, Min
    <2>3. \A j \in (i + 1)..(l.end - 1) : t[j] \in Digits
        BY <2>1, WordsFit
    <2>4. C = i..(l.end - 1)
        BY <1>3, <1>6
    <2> DEFINE e == l.end
    <2>a. e \in (i + 1)..(n + 1) /\ C = i..(e - 1)
        BY <2>4, <1>2
    <2> HIDE DEF e, C
    <2>5. \A k \in C : k # i => t[k] # "$"
        <3>1. \A k \in C : k # i => k \in (i + 1)..(e - 1)
            <4> HIDE DEF n
            <4> QED BY <2>a, <1>1
        <3>2. "$" \notin Digits
            BY DEF Digits
        <3> QED BY <3>1, <3>2, <2>3 DEF e
    <2>6. i \in C
        <3> HIDE DEF n
        <3> QED BY <2>a, <1>1
    <2>7. Q = IF IsPlaceholder(t, i) THEN {i} ELSE {}
        BY <2>5, <2>6 DEF IsPlaceholder
    <2>8. IsPlaceholder(t, i) <=> \E j \in (l.start + 1)..(l.end - 1) : t[j] # "0"
        BY <2>1, <2>2 DEF IsPlaceholder
    <2>9. Pg!Parameters(t, {l}) = IF IsPlaceholder(t, i) THEN {l} ELSE {}
        BY <2>8, <1>6 DEF Pg!Parameters
    <2> QED BY <2>1, <2>7, <2>9
<1>7. CASE l.kind = "Word"
    <2>1. "$" \notin ToSet(Text(t, l)) /\ l.start = i
        BY <1>7, <1>2 DEF PlainIn, KindFits
    <2>2. l.start \in 1..(Len(t) + 1) /\ l.end \in 1..(Len(t) + 1)
        BY <1>2 DEF LexemesOf
    <2>3. \A j \in l.start..(l.end - 1) : t[j] # "$"
        BY <2>1, <2>2, InText
    <2>4. C = l.start..(l.end - 1)
        BY <1>3, <1>7, <2>1
    <2> QED BY <2>3, <2>4, <1>5, <1>7
<1>8. CASE l.kind = "Other"
    <2>1. t[i] # "$" /\ l.end = i + 1
        BY <1>8, <1>2 DEF KindFits
    <2>2. \A k \in C : k = i
        <3>1. C = i..((i + 1) - 1)
            BY <1>3, <1>8, <2>1
        <3> HIDE DEF C, n
        <3> QED BY <3>1, <1>1
    <2> QED BY <2>1, <2>2, <1>5, <1>8
<1>9. CASE l.kind = "EString"
    <2>1. t[i] = "E" /\ l.start = i + 1
        BY <1>9, <1>2 DEF KindFits
    <2>2. \A k \in C : k = i
        <3>1. C = i..((i + 1) - 1)
            BY <1>3, <1>9, <2>1
        <3> HIDE DEF C, n
        <3> QED BY <3>1, <1>1
    <2> QED BY <2>1, <2>2, <1>5, <1>9
<1>10. CASE l.kind \notin {"Parameter", "Word", "Other", "EString"}
    <2>1. l.start = i
        BY <1>10, <1>2 DEF KindFits
    <2>2. \A k \in C : FALSE
        <3>1. C = i..(i - 1)
            BY <1>3, <1>10, <2>1
        <3> HIDE DEF C, n
        <3> QED BY <3>1, <1>1
    <2> QED BY <2>2, <1>5, <1>10
<1> QED BY <1>6, <1>7, <1>8, <1>9, <1>10

\* The scanner replaces what PostgreSQL takes for a parameter.
LEMMA PlaceholdersAreParameters ==
    ASSUME NEW t \in Seq(Chars), PlainIn(t, Pg!Lexemes(t))
    PROVE  Placeholders(t) = {l.start : l \in Pg!Parameters(t, Pg!Lexemes(t))}
<1> DEFINE n == Len(t)
           P(C) == {k \in C : IsPlaceholder(t, k)}
           Starts(L) == {l.start : l \in Pg!Parameters(t, L)}
<1>1. n \in Nat /\ n + 1 \in Nat /\ 1 \in 1..(n + 1)
    OBVIOUS
<1>2. PICK f : ScansFrom(t, f) /\ Scan(t) = f[1]
    BY ScanGoesOn
<1>3. PICK g : LexesFrom(t, g) /\ Pg!Lexemes(t) = g[1]
    BY LexingGoesOn
<1>4. \A i \in 1..(n + 1) : g[i] = IF i > n THEN {} ELSE {Pg!LexemeAt(t, i)} \cup g[Pg!LexemeAt(t, i).end]
    <2> DEFINE G(i) == IF i > n THEN {} ELSE {Pg!LexemeAt(t, i)} \cup g[Pg!LexemeAt(t, i).end]
    <2>1. g = [i \in 1..(n + 1) |-> G(i)]
        BY <1>3 DEF LexesFrom
    <2> HIDE DEF G
    <2>2. \A i \in 1..(n + 1) : g[i] = G(i)
        BY <2>1
    <2> QED BY <2>2 DEF G
<1>a. \A C, D : P(C \cup D) = P(C) \cup P(D)
    OBVIOUS
<1>b. \A L, M : Starts(L \cup M) = Starts(L) \cup Starts(M)
    <2> SUFFICES ASSUME NEW L, NEW M PROVE Starts(L \cup M) = Starts(L) \cup Starts(M)
        OBVIOUS
    <2>1. Pg!Parameters(t, L \cup M) = Pg!Parameters(t, L) \cup Pg!Parameters(t, M)
        BY ParametersTogether
    <2> QED BY <2>1
<1>c. P({}) = {} /\ Starts({}) = {}
    BY DEF Pg!Parameters
<1>d. P(CodeIn(f[n + 1])) = {}
    BY <1>2, NothingAfterTheEnd
<1>e. ASSUME NEW i \in 1..n, PlainIn(t, {Pg!LexemeAt(t, i)})
      PROVE  P(CodeIn(f[i])) = Starts({Pg!LexemeAt(t, i)}) \cup P(CodeIn(f[Pg!LexemeAt(t, i).end]))
    <2> DEFINE l == Pg!LexemeAt(t, i)
               end == l.end
    <2>1. Matches(t, l, i) /\ end \in (i + 1)..(Len(t) + 1)
        BY <1>e, LexemesMatch, LexemesFit
    <2>2. P(i..(CodeBefore(l, i) - 1)) = Starts({l})
        BY <1>e, ParameterInLexeme
    <2> HIDE DEF l
    <2>3. CodeIn(f[i]) = i..(CodeBefore(l, i) - 1) \cup CodeIn(f[end])
        BY <2>1, <1>2, CodeOfLexeme
    <2> HIDE DEF P, Starts
    <2>4. P(CodeIn(f[i])) = P(i..(CodeBefore(l, i) - 1)) \cup P(CodeIn(f[end]))
        BY <2>3, <1>a
    <2> QED BY <2>2, <2>4 DEF l
<1> DEFINE S == {i \in 1..(n + 1) : PlainIn(t, g[i]) => P(CodeIn(f[i])) = Starts(g[i])}
<1> HIDE DEF P, Starts
<1>5. ASSUME NEW i \in 1..(n + 1), \A k \in (i + 1)..(n + 1) : k \in S
      PROVE  i \in S
    <2> SUFFICES ASSUME PlainIn(t, g[i]) PROVE P(CodeIn(f[i])) = Starts(g[i])
        OBVIOUS
    <2>1. CASE i = n + 1
        <3>1. i > n
            <4> HIDE DEF n
            <4> QED BY <2>1, <1>1
        <3>2. g[i] = {}
            BY <3>1, <1>4
        <3> QED BY <2>1, <3>2, <1>c, <1>d
    <2>2. CASE i # n + 1
        <3> DEFINE l == Pg!LexemeAt(t, i)
                   end == l.end
        <3>1. i \in 1..n /\ ~ (i > n)
            <4>1. i \in 1..(n + 1)
                OBVIOUS
            <4> HIDE DEF n
            <4> QED BY <4>1, <2>2, <1>1
        <3>2. g[i] = {l} \cup g[end]
            BY <3>1, <1>4
        <3>3. end \in (i + 1)..(n + 1)
            BY <3>1, LexemesFit
        <3>4. PlainIn(t, {l}) /\ PlainIn(t, g[end])
            <4> HIDE DEF l, end
            <4> QED BY <3>2 DEF PlainIn
        <3>5. P(CodeIn(f[end])) = Starts(g[end])
            <4> HIDE DEF end
            <4>1. end \in S
                BY <3>3, <1>5
            <4> QED BY <4>1, <3>4
        <3>6. P(CodeIn(f[i])) = Starts({l}) \cup P(CodeIn(f[end]))
            BY <3>1, <3>4, <1>e
        <3>7. Starts(g[i]) = Starts({l}) \cup Starts(g[end])
            BY <3>2, <1>b
        <3> QED BY <3>5, <3>6, <3>7
    <2> QED BY <2>1, <2>2
<1>6. 1..(n + 1) \subseteq S
    <2> HIDE DEF S, n
    <2> QED BY <1>1, <1>5, CountingDown
<1>7. 1 \in S
    <2> HIDE DEF S, n
    <2> QED BY <1>1, <1>6
<1>8. Placeholders(t) = P(CodeIn(Scan(t)))
    BY PlaceholdersAre DEF P
<1> QED BY <1>2, <1>3, <1>7, <1>8 DEF Starts

-----------------------------------------------------------------------------
(* A region is read alike wherever it stands                               *)

\* What follows a region in one text and in the other: the same, or nothing
\* and a colon where a placeholder or a semicolon was.
GoesOnAlike(t, r, e, d) ==
    \/ e = Len(t) + 1 /\ e + d = Len(r) + 1
    \/ e <= Len(t) /\ e + d <= Len(r) /\ r[e + d] = t[e]
    \/ e <= Len(t) /\ t[e] \in {"$", ";"} /\ (e + d <= Len(r) => r[e + d] = ":")

\* r has d places further on what t has from i to before e.
SameUpTo(t, r, i, e, d) ==
    /\ d \in Int /\ e \in i..(Len(t) + 1)
    /\ i + d \in 1..(Len(r) + 1) /\ e + d \in 1..(Len(r) + 1)
    /\ \A k \in i..(e - 1) : r[k + d] = t[k]
    /\ GoesOnAlike(t, r, e, d)

LEMMA NoneGoesOn ==
    /\ Apostrophe \notin {"$", ";", ":", "nothing"} /\ Quote \notin {"$", ";", ":", "nothing"}
    /\ Newline \notin {"$", ";", ":", "nothing"}
BY Zenon DEF Apostrophe, Quote, Newline

LEMMA SameWithin ==
    ASSUME NEW t \in Seq(Chars), NEW r \in Seq(Chars), NEW i \in 1..(Len(t) + 1), NEW e, NEW d,
           SameUpTo(t, r, i, e, d)
    PROVE  /\ \A k \in i..(e - 1) : k \in 1..Len(t) /\ k + d \in 1..Len(r) /\ r[k + d] = t[k]
           /\ e = Len(t) + 1 => e + d = Len(r) + 1
<1> DEFINE n == Len(t)
           o == Len(r)
<1>1. n \in Nat /\ o \in Nat /\ i \in 1..(n + 1)
    OBVIOUS
<1>2. /\ d \in Int /\ e \in i..(n + 1)
      /\ i + d \in 1..(o + 1) /\ e + d \in 1..(o + 1)
      /\ \A k \in i..(e - 1) : r[k + d] = t[k]
    BY DEF SameUpTo
<1>4. e = n + 1 => e + d = o + 1
    <2>1. e = n + 1 => ~ (e <= n)
        BY <1>1
    <2> QED BY <2>1 DEF SameUpTo, GoesOnAlike
<1> HIDE DEF n, o
<1>3. ASSUME NEW k \in i..(e - 1)
      PROVE  k \in 1..n /\ k + d \in 1..o /\ r[k + d] = t[k]
    <2>1. k \in 1..n
        BY <1>1, <1>2
    <2>2. i + d >= 1 /\ e + d <= o + 1
        BY <1>1, <1>2
    <2>3. i \in Int /\ e \in Int /\ d \in Int /\ k \in Int /\ i <= k /\ k <= e - 1
        BY <1>1, <1>2
    <2>4. k + d \in 1..o
        BY <2>2, <2>3, <1>1
    <2> QED BY <2>1, <2>4, <1>2
<1> QED BY <1>3, <1>4 DEF n, o

\* A function of the place that QuotedEnd is, unfolded.
LEMMA QuotedEndGoesOn ==
    ASSUME NEW t \in Seq(Chars), NEW quote \in {Apostrophe, Quote}
    PROVE  \E f : /\ \A i : QuotedEnd(t, i, quote) = f[i]
                  /\ \A j \in 1..(Len(t) + 1) :
                        /\ f[j] \in j..(Len(t) + 1)
                        /\ f[j] = IF j > Len(t) THEN j
                                  ELSE IF quote = Apostrophe /\ t[j] = Backslash /\ j < Len(t) THEN f[j + 2]
                                  ELSE IF t[j] # quote THEN f[j + 1]
                                  ELSE IF j < Len(t) /\ t[j + 1] = quote THEN f[j + 2]
                                  ELSE j + 1
<1> DEFINE n == Len(t)
<1>1. n \in Nat
    OBVIOUS
<1>2. PICK f : WalksQuoted(t, quote, f) /\ \A k : QuotedEnd(t, k, quote) = f[k]
    BY QuotedEndWalks
<1> DEFINE F(j) == IF j > n THEN j
               ELSE IF quote = Apostrophe /\ t[j] = Backslash /\ j < n THEN f[j + 2]
               ELSE IF t[j] # quote THEN f[j + 1]
               ELSE IF Char(t, j + 1) = quote THEN f[j + 2]
               ELSE j + 1
<1>3. f = [j \in 1..(n + 1) |-> F(j)]
    BY <1>2 DEF WalksQuoted
<1>4. \A j \in 1..(n + 1) : f[j] = F(j)
    <2> HIDE DEF F
    <2> QED BY <1>3
<1>5. \A j \in 1..n : Char(t, j + 1) = quote <=> j < n /\ t[j + 1] = quote
    <2>1. quote # "nothing"
        BY CharactersDiffer
    <2> QED BY <2>1 DEF Char
<1>6. \A j \in 1..(n + 1) : f[j] \in j..(n + 1)
    BY <1>2, QuotedEndFits
<1>7. \A j \in 1..(n + 1) : ~ (j > n) => j \in 1..n
    <2> HIDE DEF n
    <2> QED BY <1>1
<1> HIDE DEF n
<1>8. \A j \in 1..(n + 1) : f[j] = IF j > n THEN j
                                  ELSE IF quote = Apostrophe /\ t[j] = Backslash /\ j < n THEN f[j + 2]
                                  ELSE IF t[j] # quote THEN f[j + 1]
                                  ELSE IF j < n /\ t[j + 1] = quote THEN f[j + 2]
                                  ELSE j + 1
    BY <1>4, <1>5, <1>7
<1> QED BY <1>2, <1>6, <1>8 DEF n

LEMMA QuotedIsLocal ==
    ASSUME NEW t \in Seq(Chars), NEW r \in Seq(Chars), NEW quote \in {Apostrophe, Quote},
           NEW i \in 1..(Len(t) + 1), NEW d, SameUpTo(t, r, i, QuotedEnd(t, i, quote), d)
    PROVE  QuotedEnd(r, i + d, quote) = QuotedEnd(t, i, quote) + d
<1> DEFINE n == Len(t)
           o == Len(r)
           e == QuotedEnd(t, i, quote)
<1>1. n \in Nat /\ o \in Nat /\ i \in 1..(n + 1)
    OBVIOUS
<1>2. PICK f : /\ \A j : QuotedEnd(t, j, quote) = f[j]
               /\ \A j \in 1..(n + 1) :
                        /\ f[j] \in j..(n + 1)
                        /\ f[j] = IF j > n THEN j
                                  ELSE IF quote = Apostrophe /\ t[j] = Backslash /\ j < n THEN f[j + 2]
                                  ELSE IF t[j] # quote THEN f[j + 1]
                                  ELSE IF j < n /\ t[j + 1] = quote THEN f[j + 2]
                                  ELSE j + 1
    BY QuotedEndGoesOn
<1>3. PICK g : /\ \A j : QuotedEnd(r, j, quote) = g[j]
               /\ \A j \in 1..(o + 1) :
                        /\ g[j] \in j..(o + 1)
                        /\ g[j] = IF j > o THEN j
                                  ELSE IF quote = Apostrophe /\ r[j] = Backslash /\ j < o THEN g[j + 2]
                                  ELSE IF r[j] # quote THEN g[j + 1]
                                  ELSE IF j < o /\ r[j + 1] = quote THEN g[j + 2]
                                  ELSE j + 1
    BY QuotedEndGoesOn
<1>4. /\ d \in Int /\ e \in i..(n + 1) /\ e + d \in 1..(o + 1) /\ i + d \in 1..(o + 1)
      /\ GoesOnAlike(t, r, e, d)
    BY DEF SameUpTo
<1>5. /\ \A k \in i..(e - 1) : k \in 1..n /\ k + d \in 1..o /\ r[k + d] = t[k]
      /\ e = n + 1 => e + d = o + 1
    BY SameWithin
<1>6. f[i] = e
    BY <1>2
<1>7. quote \notin {"$", ";", ":"} /\ Backslash # quote
    BY NoneGoesOn, CharactersDiffer
<1>8. e <= n /\ t[e] # quote /\ e + d <= o => r[e + d] # quote
    <2> HIDE DEF e
    <2>1. quote # ":"
        BY <1>7
    <2>2. e + d = o + 1 => ~ (e + d <= o)
        BY <1>1, <1>4
    <2> QED BY <2>1, <2>2, <1>4 DEF GoesOnAlike
<1> HIDE DEF n, o, e
<1> DEFINE S == {j \in 1..e : i <= j /\ f[j] = e => g[j + d] = e + d}
<1>9. ASSUME NEW j \in 1..e, \A k \in (j + 1)..e : k \in S
      PROVE  j \in S
    <2> SUFFICES ASSUME i <= j, f[j] = e PROVE g[j + d] = e + d
        OBVIOUS
    <2>1. j \in 1..(n + 1) /\ j + d \in 1..(o + 1) /\ j \in i..e
        BY <1>1, <1>4
    <2>2. /\ f[j] \in j..(n + 1)
          /\ f[j] = IF j > n THEN j
                    ELSE IF quote = Apostrophe /\ t[j] = Backslash /\ j < n THEN f[j + 2]
                    ELSE IF t[j] # quote THEN f[j + 1]
                    ELSE IF j < n /\ t[j + 1] = quote THEN f[j + 2]
                    ELSE j + 1
        BY <2>1, <1>2
    <2>3. g[j + d] = IF j + d > o THEN j + d
                     ELSE IF quote = Apostrophe /\ r[j + d] = Backslash /\ j + d < o THEN g[(j + d) + 2]
                     ELSE IF r[j + d] # quote THEN g[(j + d) + 1]
                     ELSE IF j + d < o /\ r[(j + d) + 1] = quote THEN g[(j + d) + 2]
                     ELSE (j + d) + 1
        BY <2>1, <1>3
    <2>4. (j + d) + 1 = (j + 1) + d /\ (j + d) + 2 = (j + 2) + d
        BY <2>1, <1>4
    <2>5. j + 1 \in 1..(n + 1) => f[j + 1] >= j + 1
        BY <1>1, <1>2
    <2>6. j + 2 \in 1..(n + 1) => f[j + 2] >= j + 2
        BY <1>1, <1>2
    <2>7. j + 1 \in (j + 1)..e /\ f[j + 1] = e => g[(j + d) + 1] = e + d
        BY <2>1, <2>4, <1>9
    <2>8. j + 2 \in (j + 1)..e /\ f[j + 2] = e => g[(j + d) + 2] = e + d
        BY <2>1, <2>4, <1>9
    <2>9. CASE j = e
        <3>1. j > n
            BY <2>9, <2>1, <2>2, <2>5, <2>6, <1>1
        <3>2. e = n + 1 /\ j + d > o
            BY <3>1, <2>9, <2>1, <1>1, <1>4, <1>5
        <3> QED BY <3>2, <2>3, <2>9
    <2>10. CASE j # e
        <3>1. j \in i..(e - 1) /\ j \in 1..n /\ ~ (j > n) /\ ~ (j + d > o) /\ r[j + d] = t[j] /\ j + 1 \in (j + 1)..e
            BY <2>10, <2>1, <1>1, <1>4, <1>5
        <3>2. j + 1 # e => j + 1 \in i..(e - 1) /\ r[(j + d) + 1] = t[j + 1] /\ j < n /\ j + d < o
            <4>1. j + 1 # e => j + 1 \in i..(e - 1)
                BY <3>1, <1>1, <1>4
            <4> QED BY <4>1, <3>1, <2>4, <1>1, <1>4, <1>5
        <3>3. CASE quote = Apostrophe /\ t[j] = Backslash /\ j < n
            <4>1. f[j] = f[j + 2]
                BY <3>1, <3>3, <2>2
            <4>2. j + 2 \in (j + 1)..e
                BY <4>1, <3>1, <3>3, <2>2, <2>6, <1>1, <1>4
            <4>3. j + 1 # e
                BY <4>2, <1>4
            <4> QED BY <4>1, <4>2, <4>3, <3>1, <3>2, <3>3, <2>3, <2>8
        <3>4. CASE ~ (quote = Apostrophe /\ t[j] = Backslash /\ j < n) /\ t[j] # quote
            <4>1. f[j + 1] = e
                BY <3>1, <3>4, <2>2
            <4>2. g[(j + d) + 1] = e + d
                BY <4>1, <3>1, <2>7
            <4>3. ~ (quote = Apostrophe /\ r[j + d] = Backslash /\ j + d < o)
                <5>1. CASE j < n
                    BY <5>1, <3>1, <3>4
                <5>2. CASE ~ (j < n)
                    <6>1. e = n + 1 /\ j = n
                        BY <5>2, <3>1, <1>1, <1>4
                    <6>2. e + d = o + 1
                        BY <6>1, <1>5
                    <6> QED BY <6>1, <6>2, <1>1, <1>4
                <5> QED BY <5>1, <5>2
            <4> QED BY <4>2, <4>3, <3>1, <3>4, <2>3
        <3>5. CASE t[j] = quote /\ j < n /\ t[j + 1] = quote
            <4>1. f[j] = f[j + 2]
                BY <3>1, <3>5, <2>2, <1>7
            <4>2. j + 2 \in (j + 1)..e
                BY <4>1, <3>1, <3>5, <2>2, <2>6, <1>1, <1>4
            <4>3. j + 1 # e
                BY <4>2, <1>4
            <4> QED BY <4>1, <4>2, <4>3, <3>1, <3>2, <3>5, <2>3, <2>8, <1>7
        <3>6. CASE t[j] = quote /\ ~ (j < n /\ t[j + 1] = quote)
            <4>1. j + 1 = e
                BY <3>1, <3>6, <2>2, <1>7
            <4>2. (j + d) + 1 = e + d
                BY <4>1, <2>4
            <4>3. ~ (j + d < o /\ r[(j + d) + 1] = quote)
                <5>1. CASE j < n
                    <6>1. e <= n /\ t[e] # quote
                        BY <5>1, <4>1, <3>6, <1>1
                    <6>2. j + d < o => e + d <= o
                        BY <4>2, <1>1, <1>4
                    <6> QED BY <6>1, <6>2, <4>2, <1>8
                <5>2. CASE ~ (j < n)
                    <6>1. e = n + 1 /\ j = n
                        BY <5>2, <3>1, <1>1, <1>4
                    <6>2. e + d = o + 1
                        BY <6>1, <1>5
                    <6> QED BY <6>1, <6>2, <1>1, <1>4
                <5> QED BY <5>1, <5>2
            <4> QED BY <4>2, <4>3, <3>1, <3>6, <2>3, <1>7
        <3> QED BY <3>3, <3>4, <3>5, <3>6
    <2> QED BY <2>9, <2>10
<1>10. 1..e \subseteq S
    <2>1. e \in Nat
        BY <1>1, <1>4
    <2> HIDE DEF S
    <2> QED BY <2>1, <1>9, CountingDown
<1>11. i \in S
    <2>1. i \in 1..e
        BY <1>1, <1>4
    <2> HIDE DEF S
    <2> QED BY <2>1, <1>10
<1>12. g[i + d] = e + d
    BY <1>1, <1>6, <1>11
<1> QED BY <1>3, <1>12 DEF e

\* Marks of a comment, spelled out.
LEMMA PairsAre ==
    ASSUME NEW t \in Seq(Chars), NEW j \in 1..Len(t)
    PROVE  /\ IsPair(t, j, "/", "*") <=> j < Len(t) /\ t[j] = "/" /\ t[j + 1] = "*"
           /\ IsPair(t, j, "*", "/") <=> j < Len(t) /\ t[j] = "*" /\ t[j + 1] = "/"
           /\ IsPair(t, j, "-", "-") <=> j < Len(t) /\ t[j] = "-" /\ t[j + 1] = "-"
<1>1. j + 1 \in DOMAIN t <=> j < Len(t)
    OBVIOUS
<1>2. j \in DOMAIN t
    OBVIOUS
<1> QED BY <1>1, <1>2 DEF IsPair, Char

\* What the function that BlockCommentEnd is owes each of its places.
CommentWalk(t, f) ==
    /\ \A i : BlockCommentEnd(t, i) = f[<<i + 2, 1>>]
    /\ \A j \in 1..(Len(t) + 1), depth \in Nat : f[<<j, depth>>] \in j..(Len(t) + 1)
    /\ \A j \in 1..(Len(t) + 1), depth \in Nat :
          f[<<j, depth>>] = IF depth = 0 \/ j > Len(t) THEN j
                            ELSE IF j < Len(t) /\ t[j] = "/" /\ t[j + 1] = "*" THEN f[<<j + 2, depth + 1>>]
                            ELSE IF j < Len(t) /\ t[j] = "*" /\ t[j + 1] = "/" THEN f[<<j + 2, depth - 1>>]
                            ELSE f[<<j + 1, depth>>]

LEMMA BlockCommentEndGoesOn ==
    ASSUME NEW t \in Seq(Chars)
    PROVE  \E f : CommentWalk(t, f)
<1> DEFINE n == Len(t)
           Opens(j) == j < n /\ t[j] = "/" /\ t[j + 1] = "*"
           Closes(j) == j < n /\ t[j] = "*" /\ t[j + 1] = "/"
<1>1. n \in Nat /\ n + 1 \in Nat
    OBVIOUS
<1>2. PICK f : WalksComment(t, f) /\ \A i : BlockCommentEnd(t, i) = f[<<i + 2, 1>>]
    BY BlockCommentEndWalks
<1>3. ASSUME NEW j \in 1..(n + 1), NEW depth \in Nat
      PROVE  f[<<j, depth>>] = IF depth = 0 \/ j > n THEN j
                               ELSE IF Opens(j) THEN f[<<j + 2, depth + 1>>]
                               ELSE IF Closes(j) THEN f[<<j + 2, depth - 1>>]
                               ELSE f[<<j + 1, depth>>]
    <2> DEFINE F(i, k) == IF k = 0 \/ i > n THEN i
                          ELSE IF IsPair(t, i, "/", "*") THEN f[<<i + 2, k + 1>>]
                          ELSE IF IsPair(t, i, "*", "/") THEN f[<<i + 2, k - 1>>]
                          ELSE f[<<i + 1, k>>]
    <2>1. f = [p \in (1..(n + 1)) \X Nat |-> F(p[1], p[2])]
        BY <1>2 DEF WalksComment
    <2>2. f[<<j, depth>>] = F(j, depth)
        <3> HIDE DEF F
        <3>1. <<j, depth>> \in (1..(n + 1)) \X Nat /\ <<j, depth>>[1] = j /\ <<j, depth>>[2] = depth
            OBVIOUS
        <3> QED BY <2>1, <3>1
    <2>3. ~ (j > n) => j \in 1..n
        <3> HIDE DEF n
        <3> QED BY <1>1
    <2>4. ~ (j > n) => (IsPair(t, j, "/", "*") <=> Opens(j)) /\ (IsPair(t, j, "*", "/") <=> Closes(j))
        BY <2>3, PairsAre
    <2> HIDE DEF n, Opens, Closes
    <2> QED BY <2>2, <2>4
<1>4. \A j \in 1..n : (Opens(j) => j + 1 \in 1..n) /\ (Closes(j) => j + 1 \in 1..n)
    OBVIOUS
<1> HIDE DEF n, Opens, Closes
<1> DEFINE S == {j \in 1..(n + 1) : \A depth \in Nat : f[<<j, depth>>] \in j..(n + 1)}
<1>5. ASSUME NEW j \in 1..(n + 1), \A k \in (j + 1)..(n + 1) : k \in S
      PROVE  j \in S
    <2> SUFFICES ASSUME NEW depth \in Nat PROVE f[<<j, depth>>] \in j..(n + 1)
        OBVIOUS
    <2>1. f[<<j, depth>>] = IF depth = 0 \/ j > n THEN j
                               ELSE IF Opens(j) THEN f[<<j + 2, depth + 1>>]
                               ELSE IF Closes(j) THEN f[<<j + 2, depth - 1>>]
                               ELSE f[<<j + 1, depth>>]
        BY <1>3
    <2>2. CASE depth = 0 \/ j > n
        BY <2>1, <2>2, <1>1
    <2>3. CASE ~ (depth = 0 \/ j > n)
        <3>1. j \in 1..n /\ j + 1 \in (j + 1)..(n + 1) /\ depth + 1 \in Nat /\ depth - 1 \in Nat
            BY <2>3, <1>1
        <3>2. Opens(j) \/ Closes(j) => j + 2 \in (j + 1)..(n + 1)
            BY <3>1, <1>1, <1>4
        <3>3. CASE Opens(j)
            <4>1. f[<<j + 2, depth + 1>>] \in (j + 2)..(n + 1)
                BY <3>1, <3>2, <3>3, <1>5
            <4> QED BY <4>1, <3>1, <3>3, <2>1, <2>3, <1>1
        <3>4. CASE ~ Opens(j) /\ Closes(j)
            <4>1. f[<<j + 2, depth - 1>>] \in (j + 2)..(n + 1)
                BY <3>1, <3>2, <3>4, <1>5
            <4> QED BY <4>1, <3>1, <3>4, <2>1, <2>3, <1>1
        <3>5. CASE ~ Opens(j) /\ ~ Closes(j)
            <4>1. f[<<j + 1, depth>>] \in (j + 1)..(n + 1)
                BY <3>1, <1>5
            <4> QED BY <4>1, <3>1, <3>5, <2>1, <2>3, <1>1
        <3> QED BY <3>3, <3>4, <3>5
    <2> QED BY <2>2, <2>3
<1>6. 1..(n + 1) \subseteq S
    <2> HIDE DEF S
    <2> QED BY <1>1, <1>5, CountingDown
<1>7. \A j \in 1..(n + 1), depth \in Nat : f[<<j, depth>>] \in j..(n + 1)
    BY <1>6
<1>8. \A j \in 1..(n + 1), depth \in Nat :
          f[<<j, depth>>] = IF depth = 0 \/ j > n THEN j
                            ELSE IF Opens(j) THEN f[<<j + 2, depth + 1>>]
                            ELSE IF Closes(j) THEN f[<<j + 2, depth - 1>>]
                            ELSE f[<<j + 1, depth>>]
    BY <1>3
<1>9. \A i : BlockCommentEnd(t, i) = f[<<i + 2, 1>>]
    BY <1>2
<1>10. CommentWalk(t, f)
    BY <1>7, <1>8, <1>9 DEF n, Opens, Closes, CommentWalk
<1> QED BY <1>10

LEMMA BlockCommentIsLocal ==
    ASSUME NEW t \in Seq(Chars), NEW r \in Seq(Chars), NEW i \in 1..Len(t), IsPair(t, i, "/", "*"),
           NEW d, SameUpTo(t, r, i, BlockCommentEnd(t, i), d)
    PROVE  BlockCommentEnd(r, i + d) = BlockCommentEnd(t, i) + d /\ IsPair(r, i + d, "/", "*")
<1> DEFINE n == Len(t)
           o == Len(r)
           e == BlockCommentEnd(t, i)
           Opens(j) == j < n /\ t[j] = "/" /\ t[j + 1] = "*"
           Closes(j) == j < n /\ t[j] = "*" /\ t[j + 1] = "/"
           OpensR(j) == j < o /\ r[j] = "/" /\ r[j + 1] = "*"
           ClosesR(j) == j < o /\ r[j] = "*" /\ r[j + 1] = "/"
<1>1. n \in Nat /\ o \in Nat /\ i \in 1..n
    OBVIOUS
<1>a. i < n
    BY PairsAre
<1>2. PICK f : CommentWalk(t, f)
    BY BlockCommentEndGoesOn
<1>3. PICK g : CommentWalk(r, g)
    BY BlockCommentEndGoesOn
<1>b. ASSUME NEW j \in 1..(n + 1), NEW depth \in Nat
      PROVE  /\ f[<<j, depth>>] \in j..(n + 1)
             /\ f[<<j, depth>>] = IF depth = 0 \/ j > n THEN j
                                  ELSE IF Opens(j) THEN f[<<j + 2, depth + 1>>]
                                  ELSE IF Closes(j) THEN f[<<j + 2, depth - 1>>]
                                  ELSE f[<<j + 1, depth>>]
    BY <1>2 DEF CommentWalk
<1>c. ASSUME NEW j \in 1..(o + 1), NEW depth \in Nat
      PROVE  g[<<j, depth>>] = IF depth = 0 \/ j > o THEN j
                               ELSE IF OpensR(j) THEN g[<<j + 2, depth + 1>>]
                               ELSE IF ClosesR(j) THEN g[<<j + 2, depth - 1>>]
                               ELSE g[<<j + 1, depth>>]
    BY <1>3 DEF CommentWalk
<1>d. BlockCommentEnd(t, i) = f[<<i + 2, 1>>] /\ BlockCommentEnd(r, i + d) = g[<<(i + d) + 2, 1>>]
    BY <1>2, <1>3 DEF CommentWalk
<1>4. d \in Int /\ e \in i..(n + 1) /\ e + d \in 1..(o + 1) /\ i + d \in 1..(o + 1)
    BY DEF SameUpTo
<1>5. /\ \A k \in i..(e - 1) : k \in 1..n /\ k + d \in 1..o /\ r[k + d] = t[k]
      /\ e = n + 1 => e + d = o + 1
    <2>1. i \in 1..(Len(t) + 1)
        BY <1>1
    <2> QED BY <2>1, SameWithin
<1>6. f[<<i + 2, 1>>] = e /\ e \in (i + 2)..(n + 1)
    <2>1. i + 2 \in 1..(n + 1)
        BY <1>1, <1>a
    <2>2. f[<<i + 2, 1>>] \in (i + 2)..(n + 1)
        BY <2>1, <1>b
    <2> QED BY <2>2, <1>d
<1> HIDE DEF n, o, e
<1>e. ASSUME NEW j \in 1..(n + 1), NEW depth \in Nat PROVE f[<<j, depth>>] >= j
    <2>1. f[<<j, depth>>] \in j..(n + 1)
        BY <1>b
    <2> QED BY <2>1, <1>1
\* Marks within the comment are marks in both.
<1>7. ASSUME NEW j \in i..(e - 1), j + 1 # e
      PROVE  (OpensR(j + d) <=> Opens(j)) /\ (ClosesR(j + d) <=> Closes(j))
    <2>1. j + 1 \in i..(e - 1) /\ (j + d) + 1 = (j + 1) + d /\ j \in Int
        BY <1>1, <1>4, <1>7
    <2>2. r[j + d] = t[j] /\ r[(j + d) + 1] = t[j + 1] /\ j + 1 \in 1..n /\ (j + 1) + d \in 1..o
        BY <2>1, <1>5
    <2>3. j < n /\ j + d < o
        BY <2>1, <2>2, <1>1, <1>4
    <2> QED BY <2>2, <2>3
<1>8. ASSUME NEW j \in i..(e - 1), j + 1 = n + 1, e = n + 1
      PROVE  ~ OpensR(j + d) /\ ~ ClosesR(j + d)
    <2>1. e + d = o + 1
        BY <1>5, <1>8
    <2>2. ~ (j + d < o)
        BY <2>1, <1>8, <1>1, <1>4
    <2> QED BY <2>2
<1>9. \A j : (Opens(j) => j < n) /\ (Closes(j) => j < n)
    OBVIOUS
<1> HIDE DEF Opens, Closes, OpensR, ClosesR
<1> DEFINE S == {j \in 1..e : \A depth \in Nat : i <= j /\ f[<<j, depth>>] = e => g[<<j + d, depth>>] = e + d}
<1>10. ASSUME NEW j \in 1..e, \A k \in (j + 1)..e : k \in S
       PROVE  j \in S
    <2> SUFFICES ASSUME NEW depth \in Nat, i <= j, f[<<j, depth>>] = e PROVE g[<<j + d, depth>>] = e + d
        OBVIOUS
    <2>1. j \in 1..(n + 1) /\ j + d \in 1..(o + 1) /\ j \in i..e
        BY <1>1, <1>4
    <2>2. /\ f[<<j, depth>>] \in j..(n + 1)
          /\ f[<<j, depth>>] = IF depth = 0 \/ j > n THEN j
                               ELSE IF Opens(j) THEN f[<<j + 2, depth + 1>>]
                               ELSE IF Closes(j) THEN f[<<j + 2, depth - 1>>]
                               ELSE f[<<j + 1, depth>>]
        BY <2>1, <1>b
    <2>3. g[<<j + d, depth>>] = IF depth = 0 \/ j + d > o THEN j + d
                                ELSE IF OpensR(j + d) THEN g[<<(j + d) + 2, depth + 1>>]
                                ELSE IF ClosesR(j + d) THEN g[<<(j + d) + 2, depth - 1>>]
                                ELSE g[<<(j + d) + 1, depth>>]
        BY <2>1, <1>c
    <2>4. (j + d) + 1 = (j + 1) + d /\ (j + d) + 2 = (j + 2) + d
        BY <2>1, <1>4
    <2>5. CASE depth = 0
        BY <2>5, <2>2, <2>3, <2>1, <1>4
    <2>6. CASE depth # 0 /\ j = e
        <3>1. j > n
            <4> SUFFICES ASSUME ~ (j > n) PROVE FALSE
                OBVIOUS
            <4>1. j + 1 \in 1..(n + 1) /\ depth + 1 \in Nat /\ depth - 1 \in Nat /\ (j < n => j + 2 \in 1..(n + 1))
                BY <2>1, <2>6, <1>1
            <4>2. f[<<j + 1, depth>>] >= j + 1
                BY <4>1, <1>e
            <4>3. j < n => f[<<j + 2, depth + 1>>] >= j + 2 /\ f[<<j + 2, depth - 1>>] >= j + 2
                BY <4>1, <1>e
            <4>4. Opens(j) \/ Closes(j) => j < n
                BY <1>9
            <4> QED BY <4>2, <4>3, <4>4, <2>1, <2>2, <2>6
        <3>2. e = n + 1
            BY <3>1, <2>6, <2>1, <1>1
        <3>3. j + d > o
            BY <3>2, <2>6, <1>1, <1>4, <1>5
        <3> QED BY <3>3, <2>3, <2>6
    <2>7. CASE depth # 0 /\ j # e
        <3>1. j \in i..(e - 1) /\ j + 1 \in (j + 1)..e /\ depth + 1 \in Nat /\ depth - 1 \in Nat
            BY <2>7, <2>1, <1>1, <1>4
        <3>2. j \in 1..n /\ j + d \in 1..o
            BY <3>1, <1>5
        <3>3. ~ (j > n) /\ ~ (j + d > o)
            BY <3>2, <1>1
        <3>4. j + 2 \in 1..(n + 1) => f[<<j + 2, depth + 1>>] >= j + 2 /\ f[<<j + 2, depth - 1>>] >= j + 2
            BY <3>1, <1>e
        <3>5. CASE Opens(j)
            <4>1. f[<<j + 2, depth + 1>>] = e
                BY <3>3, <3>5, <2>2, <2>7
            <4>2. j + 2 \in (j + 1)..e /\ j + 1 # e
                BY <4>1, <3>2, <3>4, <3>5, <1>1, <1>4, <1>9
            <4>3. g[<<(j + d) + 2, depth + 1>>] = e + d
                BY <4>1, <4>2, <3>1, <2>1, <2>4, <1>10
            <4>4. OpensR(j + d)
                BY <4>2, <3>1, <3>5, <1>7
            <4> QED BY <4>3, <4>4, <3>3, <2>3, <2>7
        <3>6. CASE ~ Opens(j) /\ Closes(j)
            <4>1. f[<<j + 2, depth - 1>>] = e
                BY <3>3, <3>6, <2>2, <2>7
            <4>2. j + 2 \in (j + 1)..e /\ j + 1 # e
                BY <4>1, <3>2, <3>4, <3>6, <1>1, <1>4, <1>9
            <4>3. g[<<(j + d) + 2, depth - 1>>] = e + d
                BY <4>1, <4>2, <3>1, <2>1, <2>4, <1>10
            <4>4. ~ OpensR(j + d) /\ ClosesR(j + d)
                BY <4>2, <3>1, <3>6, <1>7
            <4> QED BY <4>3, <4>4, <3>3, <2>3, <2>7
        <3>7. CASE ~ Opens(j) /\ ~ Closes(j)
            <4>1. f[<<j + 1, depth>>] = e
                BY <3>3, <3>7, <2>2, <2>7
            <4>2. g[<<(j + d) + 1, depth>>] = e + d
                BY <4>1, <3>1, <2>1, <2>4, <1>10
            <4>3. ~ OpensR(j + d) /\ ~ ClosesR(j + d)
                <5>1. CASE j + 1 # e
                    BY <5>1, <3>1, <3>7, <1>7
                <5>2. CASE j + 1 = e
                    <6>1. f[<<e, depth>>] = IF depth = 0 \/ e > n THEN e
                               ELSE IF Opens(e) THEN f[<<e + 2, depth + 1>>]
                               ELSE IF Closes(e) THEN f[<<e + 2, depth - 1>>]
                               ELSE f[<<e + 1, depth>>]
                        <7>1. e \in 1..(n + 1)
                            BY <1>1, <1>4
                        <7> QED BY <7>1, <3>1, <1>b
                    <6>2. e > n
                        <7> SUFFICES ASSUME ~ (e > n) PROVE FALSE
                            OBVIOUS
                        <7>1. e + 1 \in 1..(n + 1) /\ (e < n => e + 2 \in 1..(n + 1)) /\ e \in Int
                            BY <1>1, <1>4
                        <7>2. f[<<e + 1, depth>>] >= e + 1
                            BY <7>1, <1>e
                        <7>3. e < n => f[<<e + 2, depth + 1>>] >= e + 2 /\ f[<<e + 2, depth - 1>>] >= e + 2
                            BY <7>1, <3>1, <1>e
                        <7>4. Opens(e) \/ Closes(e) => e < n
                            BY <1>9
                        <7>5. f[<<e, depth>>] = e
                            BY <4>1, <5>2
                        <7>6. f[<<e, depth>>] \in {f[<<e + 1, depth>>], f[<<e + 2, depth + 1>>], f[<<e + 2, depth - 1>>]}
                            BY <6>1, <2>7
                        <7>7. f[<<e, depth>>] # f[<<e + 1, depth>>]
                            BY <7>1, <7>2, <7>5
                        <7>8. Opens(e) \/ Closes(e)
                            BY <7>7, <6>1, <2>7
                        <7> QED BY <7>1, <7>3, <7>4, <7>5, <7>6, <7>7, <7>8
                    <6>3. e = n + 1 /\ j + 1 = n + 1
                        BY <6>2, <5>2, <1>1, <1>4
                    <6> QED BY <6>3, <3>1, <1>8
                <5> QED BY <5>1, <5>2
            <4> QED BY <4>2, <4>3, <3>3, <2>3, <2>7
        <3> QED BY <3>5, <3>6, <3>7
    <2> QED BY <2>5, <2>6, <2>7
<1>11. 1..e \subseteq S
    <2>1. e \in Nat
        BY <1>1, <1>4
    <2> HIDE DEF S
    <2> QED BY <2>1, <1>10, CountingDown
<1>12. i + 2 \in S
    <2>1. i + 2 \in 1..e
        BY <1>1, <1>6
    <2> HIDE DEF S
    <2> QED BY <2>1, <1>11
<1>13. g[<<(i + 2) + d, 1>>] = e + d
    <2>1. i <= i + 2 /\ 1 \in Nat
        BY <1>1
    <2> QED BY <2>1, <1>6, <1>12
<1>14. (i + 2) + d = (i + d) + 2
    BY <1>1, <1>4
<1>15. OpensR(i + d)
    <2>1. i \in i..(e - 1) /\ i + 1 # e
        BY <1>1, <1>6
    <2>2. Opens(i)
        BY PairsAre DEF Opens, n
    <2> QED BY <2>1, <2>2, <1>7
<1>16. i + d \in 1..o
    <2>1. i \in i..(e - 1)
        BY <1>1, <1>6
    <2> QED BY <2>1, <1>5
<1>17. IsPair(r, i + d, "/", "*")
    BY <1>15, <1>16, PairsAre DEF OpensR, o
<1> QED BY <1>d, <1>13, <1>14, <1>17 DEF e

\* The places of T are those of S, d further on, up to the first.
Moved(S, n, T, o, i, d) ==
    LET e == Min(S \cup {n + 1}) IN
    /\ n \in Nat /\ o \in Nat /\ d \in Int /\ i \in 1..(n + 1) /\ i + d \in 1..(o + 1)
    /\ S \subseteq i..n /\ T \subseteq (i + d)..o
    /\ e + d \in (i + d)..(o + 1)
    /\ e = n + 1 => e + d = o + 1
    /\ \A k \in i..(e - 1) : k + d \in T => k \in S
    /\ e <= n /\ e \in S => e + d \in T

LEMMA FirstAlike ==
    ASSUME NEW n, NEW o, NEW i, NEW d, NEW S, NEW T, Moved(S, n, T, o, i, d)
    PROVE  Min(T \cup {o + 1}) = Min(S \cup {n + 1}) + d
<1> DEFINE e == Min(S \cup {n + 1})
<1>7. /\ n \in Nat /\ o \in Nat /\ d \in Int /\ i \in 1..(n + 1) /\ i + d \in 1..(o + 1)
      /\ S \subseteq i..n /\ T \subseteq (i + d)..o
      /\ e + d \in (i + d)..(o + 1)
      /\ e = n + 1 => e + d = o + 1
      /\ \A k \in i..(e - 1) : k + d \in T => k \in S
      /\ e <= n /\ e \in S => e + d \in T
    BY DEF Moved
<1> DEFINE m == Min(T \cup {o + 1})
<1>1. e \in i..(n + 1) /\ (e \in S \/ e = n + 1) /\ \A j \in S : e <= j
    BY <1>7, LeastPlace
<1>2. m \in (i + d)..(o + 1) /\ (m \in T \/ m = o + 1) /\ \A j \in T : m <= j
    BY <1>7, LeastPlace
<1> HIDE DEF m, e
<1>3. i \in Int /\ e \in Int /\ m \in Int /\ d \in Int /\ o \in Int /\ n \in Int
    BY <1>1, <1>2, <1>7
<1>4. ~ (m < e + d)
    <2> SUFFICES ASSUME m < e + d PROVE FALSE
        OBVIOUS
    <2>1. m - d \in i..(e - 1) /\ (m - d) + d = m /\ m # o + 1
        BY <1>1, <1>2, <1>3, <1>7
    <2>2. m - d \in S
        BY <2>1, <1>2, <1>7
    <2> QED BY <2>1, <2>2, <1>1, <1>3
<1>5. ~ (e + d < m)
    <2> SUFFICES ASSUME e + d < m PROVE FALSE
        OBVIOUS
    <2>1. e # n + 1
        BY <1>2, <1>3, <1>7
    <2>2. e + d \in T
        BY <2>1, <1>1, <1>3, <1>7
    <2> QED BY <2>2, <1>2, <1>3
<1>6. m = e + d
    BY <1>3, <1>4, <1>5
<1> QED BY <1>6 DEF m, e

LineEnd(t, i) == FirstFrom(t, i, LAMBDA j : t[j] = Newline)

LEMMA LineCommentIsLocal ==
    ASSUME NEW t \in Seq(Chars), NEW r \in Seq(Chars), NEW i \in 1..Len(t), IsPair(t, i, "-", "-"), NEW d,
           SameUpTo(t, r, i, LineEnd(t, i), d)
    PROVE  LineEnd(r, i + d) = LineEnd(t, i) + d /\ IsPair(r, i + d, "-", "-")
<1> DEFINE n == Len(t)
           o == Len(r)
           S == {j \in i..n : t[j] = Newline}
           T == {j \in (i + d)..o : r[j] = Newline}
           e == Min(S \cup {n + 1})
<1>1. n \in Nat /\ o \in Nat /\ i \in 1..(n + 1) /\ i \in 1..n
    OBVIOUS
<1>2. LineEnd(t, i) = e /\ LineEnd(r, i + d) = Min(T \cup {o + 1})
    BY DEF LineEnd, FirstFrom
<1>3. S \subseteq i..n /\ T \subseteq (i + d)..o
    OBVIOUS
<1>4. \A j \in i..n : j \in S <=> t[j] = Newline
    OBVIOUS
<1>5. \A j \in (i + d)..o : j \in T <=> r[j] = Newline
    OBVIOUS
<1> HIDE DEF S, T, e
<1>6. SameUpTo(t, r, i, e, d)
    BY <1>2
<1>7. /\ d \in Int /\ e \in i..(n + 1) /\ e + d \in 1..(o + 1) /\ i + d \in 1..(o + 1)
      /\ GoesOnAlike(t, r, e, d)
    BY <1>6 DEF SameUpTo
<1>8. /\ \A k \in i..(e - 1) : k \in 1..n /\ k + d \in 1..o /\ r[k + d] = t[k]
      /\ e = n + 1 => e + d = o + 1
    BY <1>1, <1>6, SameWithin
<1>9. e <= n => (e + d <= o /\ r[e + d] = t[e]) \/ t[e] \in {"$", ";"}
    <2> HIDE DEF n, o
    <2>1. e <= n => e # n + 1
        BY <1>1, <1>7
    <2> QED BY <2>1, <1>7 DEF GoesOnAlike, n, o
<1>a. e \in S \/ e = n + 1
    <2> HIDE DEF n
    <2> QED BY <1>1, <1>3, LeastPlace DEF e
<1> HIDE DEF n, o
<1>10. ASSUME NEW k \in i..(e - 1), k + d \in T
       PROVE  k \in S
    <2>1. k + d \in (i + d)..o /\ k \in i..n
        BY <1>1, <1>3, <1>7, <1>10, <1>8
    <2> QED BY <2>1, <1>4, <1>5, <1>8, <1>10
<1>11. ASSUME e <= n, e \in S
       PROVE  e + d \in T
    <2>1. e \in i..n
        BY <1>1, <1>7, <1>11
    <2>2. t[e] = Newline /\ t[e] \notin {"$", ";"}
        BY <2>1, <1>4, <1>11, NoneGoesOn
    <2>3. e + d \in (i + d)..o /\ r[e + d] = Newline
        <3>1. e + d <= o /\ r[e + d] = t[e]
            BY <2>2, <1>9, <1>11
        <3>2. e + d >= i + d
            BY <2>1, <1>1, <1>7
        <3>3. e + d \in (i + d)..o
            BY <3>1, <3>2, <1>1, <1>7
        <3> QED BY <3>1, <3>3, <2>2
    <2> QED BY <2>3, <1>5
<1>12. e + d \in (i + d)..(o + 1)
    BY <1>1, <1>7
<1>13. Min(T \cup {o + 1}) = e + d
    <2>1. e = Min(S \cup {n + 1})
        BY DEF e
    <2>2. e = n + 1 => e + d = o + 1
        BY <1>8
    <2> HIDE DEF S, T
    <2>3. \A k \in i..(e - 1) : k + d \in T => k \in S
        BY <1>10
    <2>4. e <= n /\ e \in S => e + d \in T
        BY <1>11
    <2>5. d \in Int /\ e \in i..(n + 1) /\ i + d \in 1..(o + 1)
        BY <1>7
    <2>6. Moved(S, n, T, o, i, d)
        BY <2>1, <2>2, <2>3, <2>4, <2>5, <1>1, <1>3, <1>12 DEF Moved
    <2> QED BY <2>1, <2>6, FirstAlike
<1>14. IsPair(r, i + d, "-", "-")
    <2>1. i < n /\ t[i] = "-" /\ t[i + 1] = "-"
        BY PairsAre DEF n
    <2>2. i \notin S /\ i + 1 \notin S
        <3>1. "-" # Newline
            BY MarksDiffer
        <3>2. i \in i..n /\ i + 1 \in i..n
            BY <2>1, <1>1
        <3> QED BY <2>1, <3>1, <3>2, <1>4
    <2>3. e # i /\ e # i + 1
        BY <2>1, <2>2, <1>1, <1>a
    <2>4. i \in i..(e - 1) /\ i + 1 \in i..(e - 1)
        BY <2>3, <1>1, <1>7
    <2>5. r[i + d] = "-" /\ r[(i + 1) + d] = "-" /\ i + d \in 1..o /\ (i + 1) + d \in 1..o
        BY <2>1, <2>4, <1>8
    <2>6. (i + 1) + d = (i + d) + 1 /\ i + d < o
        BY <2>5, <1>1, <1>7
    <2> QED BY <2>5, <2>6, PairsAre DEF o
<1> QED BY <1>2, <1>13, <1>14

\* What the library says of a slice.
IsSlice(r, g, h) ==
    /\ SubSeq(r, g, h) \in Seq(Chars)
    /\ Len(SubSeq(r, g, h)) = IF g <= h THEN h - g + 1 ELSE 0
    /\ \A k \in 1..(h - g + 1) : SubSeq(r, g, h)[k] = r[g + k - 1]

LEMMA SlicesAre ==
    ASSUME NEW r, NEW g \in Int, NEW h \in Int, \A k \in g..h : r[k] \in Chars
    PROVE  IsSlice(r, g, h)
<1>1. /\ SubSeq(r, g, h) \in Seq(Chars)
      /\ Len(SubSeq(r, g, h)) = IF g <= h THEN h - g + 1 ELSE 0
      /\ \A k \in 1..(h - g + 1) : SubSeq(r, g, h)[k] = r[g + k - 1]
    BY SubSeqProperties
<1> QED BY <1>1 DEF IsSlice

LEMMA SliceAlike ==
    ASSUME NEW t \in Seq(Chars), NEW r \in Seq(Chars), NEW d \in Int,
           NEW a \in 1..(Len(t) + 1), NEW b \in (a - 1)..Len(t),
           \A k \in a..b : k + d \in 1..Len(r) /\ r[k + d] = t[k]
    PROVE  /\ SubSeq(r, a + d, b + d) = SubSeq(t, a, b)
           /\ SubSeq(t, a, b) \in Seq(Chars)
           /\ Len(SubSeq(t, a, b)) = (b - a) + 1
           /\ \A k \in 1..((b - a) + 1) : SubSeq(t, a, b)[k] = t[(a + k) - 1]
<1> DEFINE n == Len(t)
           o == Len(r)
           x == SubSeq(t, a, b)
           y == SubSeq(r, a + d, b + d)
<1>1. n \in Nat /\ o \in Nat /\ a \in 1..(n + 1) /\ b \in (a - 1)..n /\ a \in Int /\ b \in Int
    OBVIOUS
<1>2. \A k \in 1..n : t[k] \in Chars
    OBVIOUS
<1>3. \A k \in 1..o : r[k] \in Chars
    OBVIOUS
<1>4. \A k \in a..b : k + d \in 1..o /\ r[k + d] = t[k]
    OBVIOUS
<1> HIDE DEF n, o
<1>5. \A k \in a..b : k \in 1..n
    BY <1>1
<1>6. ASSUME NEW k \in (a + d)..(b + d)
      PROVE  r[k] \in Chars
    <2> DEFINE c == k - d
    <2>1. c \in a..b /\ c + d = k
        BY <1>1
    <2> HIDE DEF c
    <2>2. k \in 1..o
        BY <2>1, <1>4
    <2> QED BY <2>2, <1>3
<1>7. /\ x \in Seq(Chars)
      /\ Len(x) = IF a <= b THEN b - a + 1 ELSE 0
      /\ \A k \in 1..(b - a + 1) : x[k] = t[a + k - 1]
    <2>1. \A k \in a..b : t[k] \in Chars
        BY <1>2, <1>5
    <2>2. IsSlice(t, a, b)
        BY <2>1, <1>1, SlicesAre
    <2> QED BY <2>2 DEF IsSlice
<1>8. /\ y \in Seq(Chars)
      /\ Len(y) = IF a + d <= b + d THEN (b + d) - (a + d) + 1 ELSE 0
      /\ \A k \in 1..((b + d) - (a + d) + 1) : y[k] = r[(a + d) + k - 1]
    <2> DEFINE g == a + d
               h == b + d
    <2>1. g \in Int /\ h \in Int
        BY <1>1
    <2>2. \A k \in g..h : r[k] \in Chars
        BY <1>6
    <2>3. y = SubSeq(r, g, h)
        BY DEF y
    <2> HIDE DEF g, h
    <2>4. IsSlice(r, g, h)
        BY <2>1, <2>2, SlicesAre
    <2> QED BY <2>3, <2>4 DEF g, h, IsSlice
<1> HIDE DEF x, y
<1>9. Len(x) = (b - a) + 1 /\ Len(y) = (b - a) + 1
    <2>1. /\ (IF a <= b THEN b - a + 1 ELSE 0) = (b - a) + 1
          /\ (IF a + d <= b + d THEN (b + d) - (a + d) + 1 ELSE 0) = (b - a) + 1
        BY <1>1
    <2> QED BY <2>1, <1>7, <1>8
<1>10. ASSUME NEW k \in 1..((b - a) + 1)
       PROVE  x[k] = t[(a + k) - 1] /\ y[k] = x[k]
    <2>1. k \in 1..((b + d) - (a + d) + 1) /\ (a + k) - 1 \in a..b /\ (a + d) + k - 1 = ((a + k) - 1) + d
        BY <1>1
    <2>2. x[k] = t[(a + k) - 1]
        BY <1>7, <1>10
    <2>3. y[k] = r[((a + k) - 1) + d]
        BY <2>1, <1>8
    <2>4. r[((a + k) - 1) + d] = t[(a + k) - 1]
        BY <2>1, <1>4
    <2> QED BY <2>2, <2>3, <2>4
<1>11. x = y
    <2>1. Len(x) = Len(y) /\ \A k \in 1..Len(x) : x[k] = y[k]
        BY <1>9, <1>10
    <2> QED BY <2>1, <1>7, <1>8, SeqEqual
<1> QED BY <1>7, <1>9, <1>10, <1>11 DEF x, y

\* What a dollar delimiter has between its dollars.
Tag(t, i, j) == \A k \in (i + 1)..(j - 1) : t[k] \in Letters \cup (IF k > i + 1 THEN Digits ELSE {})

LEMMA TagsAlike ==
    ASSUME NEW t, NEW r, NEW i \in Int, NEW j \in Int, NEW d \in Int,
           \A k \in i..j : r[k + d] = t[k]
    PROVE  Tag(t, i, j) <=> Tag(r, i + d, j + d)
<1>1. ASSUME NEW k \in (i + 1)..(j - 1), NEW q, q = k + d
      PROVE  /\ q \in ((i + d) + 1)..((j + d) - 1)
             /\ q > (i + d) + 1 <=> k > i + 1
             /\ r[q] = t[k]
    <2>1. k \in i..j
        OBVIOUS
    <2> QED BY <2>1, <1>1
<1>2. \A q \in ((i + d) + 1)..((j + d) - 1) : q - d \in (i + 1)..(j - 1) /\ q = (q - d) + d
    OBVIOUS
<1>3. ASSUME Tag(t, i, j)
      PROVE  Tag(r, i + d, j + d)
    <2> SUFFICES ASSUME NEW q \in ((i + d) + 1)..((j + d) - 1)
                 PROVE  r[q] \in Letters \cup (IF q > (i + d) + 1 THEN Digits ELSE {})
        BY DEF Tag
    <2>1. PICK k \in (i + 1)..(j - 1) : q = k + d
        BY <1>2
    <2>2. t[k] \in Letters \cup (IF k > i + 1 THEN Digits ELSE {})
        BY <1>3 DEF Tag
    <2>3. (q > (i + d) + 1 <=> k > i + 1) /\ r[q] = t[k]
        BY <2>1, <1>1
    <2> QED BY <2>2, <2>3
<1>4. ASSUME Tag(r, i + d, j + d)
      PROVE  Tag(t, i, j)
    <2> SUFFICES ASSUME NEW k \in (i + 1)..(j - 1)
                 PROVE  t[k] \in Letters \cup (IF k > i + 1 THEN Digits ELSE {})
        BY DEF Tag
    <2> DEFINE q == k + d
    <2>1. q \in ((i + d) + 1)..((j + d) - 1) /\ (q > (i + d) + 1 <=> k > i + 1) /\ r[q] = t[k]
        BY <1>1
    <2>2. r[q] \in Letters \cup (IF q > (i + d) + 1 THEN Digits ELSE {})
        BY <2>1, <1>4 DEF Tag
    <2> HIDE DEF q
    <2> QED BY <2>1, <2>2
<1> QED BY <1>3, <1>4

\* The places a delimiter that opens at i may end at.
Delimiters(t, i) == {j \in (i + 1)..Len(t) : t[j] = "$" /\ Tag(t, i, j)}

LEMMA DelimiterEndIs ==
    ASSUME NEW t, NEW i
    PROVE  DelimiterEnd(t, i) = Min(Delimiters(t, i) \cup {Len(t) + 1})
BY DEF DelimiterEnd, FirstFrom, Delimiters, Tag

LEMMA DelimiterIsLocal ==
    ASSUME NEW t \in Seq(Chars), NEW r \in Seq(Chars), NEW i \in 1..Len(t), NEW d \in Int,
           DelimiterEnd(t, i) \in 1..Len(t),
           \A k \in i..DelimiterEnd(t, i) : k + d \in 1..Len(r) /\ r[k + d] = t[k]
    PROVE  DelimiterEnd(r, i + d) = DelimiterEnd(t, i) + d
<1> DEFINE n == Len(t)
           o == Len(r)
           S == Delimiters(t, i)
           T == Delimiters(r, i + d)
           e == Min(S \cup {n + 1})
<1>1. n \in Nat /\ o \in Nat /\ i \in 1..n
    OBVIOUS
<1>2. DelimiterEnd(t, i) = e /\ DelimiterEnd(r, i + d) = Min(T \cup {o + 1})
    BY DelimiterEndIs
<1>3. \A j \in (i + 1)..n : j \in S <=> t[j] = "$" /\ Tag(t, i, j)
    BY DEF Delimiters
<1>4. \A j \in ((i + d) + 1)..o : j \in T <=> r[j] = "$" /\ Tag(r, i + d, j)
    BY DEF Delimiters
<1>5. S \subseteq (i + 1)..n /\ T \subseteq ((i + d) + 1)..o
    BY DEF Delimiters
<1>6. e \in 1..n /\ \A k \in i..e : k + d \in 1..o /\ r[k + d] = t[k]
    BY <1>2
<1>7. e \in (i + 1)..(n + 1) /\ (e \in S \/ e = n + 1)
    <2>1. n \in Nat /\ i + 1 \in 1..(n + 1)
        BY <1>1
    <2> HIDE DEF S, n
    <2> QED BY <2>1, <1>5, LeastPlace
<1> HIDE DEF S, T, e, n, o
<1>8. e \in S /\ e \in (i + 1)..n /\ i \in i..e
    BY <1>1, <1>6, <1>7
<1>9. i + d \in 1..o /\ e + d \in 1..o /\ (i + d) + 1 = (i + 1) + d /\ e + d \in ((i + 1) + d)..o
    <2>1. i + d \in 1..o /\ e + d \in 1..o
        BY <1>6, <1>8
    <2> QED BY <2>1, <1>1, <1>8
<1>10. ASSUME NEW k \in (i + 1)..e
       PROVE  k + d \in T <=> k \in S
    <2>1. k \in (i + 1)..n /\ k + d \in ((i + d) + 1)..o /\ k \in i..e /\ k \in Int /\ i \in Int
        <3>1. k \in (i + 1)..n /\ k \in i..e /\ k \in Int /\ i \in Int
            BY <1>1, <1>8
        <3>2. k + d \in 1..o
            BY <3>1, <1>6
        <3> QED BY <3>1, <3>2, <1>1
    <2>2. r[k + d] = t[k]
        BY <2>1, <1>6
    <2>3. \A q \in i..k : r[q + d] = t[q]
        <3>1. \A q \in i..k : q \in i..e
            BY <2>1, <1>8
        <3> QED BY <3>1, <1>6
    <2>4. Tag(t, i, k) <=> Tag(r, i + d, k + d)
        BY <2>1, <2>3, TagsAlike
    <2> QED BY <2>1, <2>2, <2>4, <1>3, <1>4
<1>11. Moved(S, n, T, o, i + 1, d)
    <2>1. n \in Nat /\ o \in Nat /\ d \in Int /\ i + 1 \in 1..(n + 1) /\ (i + 1) + d \in 1..(o + 1)
        BY <1>1, <1>9
    <2>2. S \subseteq (i + 1)..n /\ T \subseteq ((i + 1) + d)..o
        BY <1>5, <1>9
    <2>3. e + d \in ((i + 1) + d)..(o + 1)
        BY <1>1, <1>9
    <2>4. e # n + 1
        BY <1>1, <1>6
    <2>5. \A k \in (i + 1)..(e - 1) : k \in (i + 1)..e
        BY <1>1, <1>8
    <2>6. e \in (i + 1)..e
        BY <1>1, <1>8
    <2> QED BY <2>1, <2>2, <2>3, <2>4, <2>5, <2>6, <1>10 DEF Moved, e
<1>12. Min(T \cup {o + 1}) = e + d
    BY <1>11, FirstAlike DEF e
<1> QED BY <1>2, <1>12

\* The last places of closing delimiters, where the opening one is at i to c.
Closings(t, i, c) == {j \in (c + 1)..Len(t) : j - (c - i) > c /\ SubSeq(t, j - (c - i), j) = SubSeq(t, i, c)}

LEMMA DollarQuotedEndIs ==
    ASSUME NEW t \in Seq(Chars), NEW i, NEW c \in 1..Len(t), c = DelimiterEnd(t, i)
    PROVE  /\ DollarQuotedEnd(t, i) = Clipped(t, 1 + Min(Closings(t, i, c) \cup {Len(t) + 1}))
           /\ Min(Closings(t, i, c) \cup {Len(t) + 1}) \in (c + 1)..(Len(t) + 1)
           /\ \/ Min(Closings(t, i, c) \cup {Len(t) + 1}) \in Closings(t, i, c)
              \/ Min(Closings(t, i, c) \cup {Len(t) + 1}) = Len(t) + 1
<1> DEFINE n == Len(t)
           S == Closings(t, i, c)
<1>1. n \in Nat /\ c + 1 \in 1..(n + 1)
    OBVIOUS
<1>2. DollarQuotedEnd(t, i) = Min({j + 1 : j \in S} \cup {n + 1})
    BY DEF DollarQuotedEnd, AfterFirst, Closings
<1>3. S \subseteq (c + 1)..n
    BY DEF Closings
<1> HIDE DEF S
<1>4. DollarQuotedEnd(t, i) = Clipped(t, 1 + Min(S \cup {n + 1}))
    BY <1>1, <1>2, <1>3, AfterFirstIsClipped
<1>5. Min(S \cup {n + 1}) \in (c + 1)..(n + 1) /\ (Min(S \cup {n + 1}) \in S \/ Min(S \cup {n + 1}) = n + 1)
    <2> HIDE DEF n
    <2> QED BY <1>1, <1>3, LeastPlace
<1> QED BY <1>4, <1>5 DEF S, n

LEMMA ClosingsAlike ==
    ASSUME NEW t \in Seq(Chars), NEW r \in Seq(Chars), NEW d \in Int, NEW i \in 1..Len(t),
           NEW c \in i..Len(t), NEW k \in (c + 1)..Len(t),
           \A j \in i..k : j + d \in 1..Len(r) /\ r[j + d] = t[j]
    PROVE  k + d \in Closings(r, i + d, c + d) <=> k \in Closings(t, i, c)
<1> DEFINE n == Len(t)
           o == Len(r)
           a == k - (c - i)
<1>1. n \in Nat /\ o \in Nat /\ i \in 1..n /\ c \in i..n /\ k \in (c + 1)..n
    OBVIOUS
<1>2. \A j \in i..k : j + d \in 1..o /\ r[j + d] = t[j]
    OBVIOUS
<1>3. SubSeq(r, i + d, c + d) = SubSeq(t, i, c)
    <2>1. i \in 1..(n + 1) /\ c \in (i - 1)..n
        <3> HIDE DEF n
        <3> QED BY <1>1
    <2>2. \A j \in i..c : j \in i..k
        <3> HIDE DEF n
        <3> QED BY <1>1
    <2> QED BY <2>1, <2>2, <1>2, SliceAlike
<1>4. a > c => SubSeq(r, a + d, k + d) = SubSeq(t, a, k)
    <2> SUFFICES ASSUME a > c PROVE SubSeq(r, a + d, k + d) = SubSeq(t, a, k)
        OBVIOUS
    <2>1. a \in 1..(n + 1) /\ k \in (a - 1)..n /\ \A j \in a..k : j \in i..k
        <3> HIDE DEF n
        <3> QED BY <1>1
    <2> HIDE DEF a
    <2> QED BY <2>1, <1>2, SliceAlike
<1>5. (k + d) - ((c + d) - (i + d)) = a + d /\ (a + d > c + d <=> a > c)
    <2> HIDE DEF n, o
    <2> QED BY <1>1
<1>6. k + d \in ((c + d) + 1)..o
    <2>1. k \in i..k
        <3> HIDE DEF n
        <3> QED BY <1>1
    <2>2. k + d \in 1..o
        BY <2>1, <1>2
    <2> HIDE DEF n, o
    <2> QED BY <2>2, <1>1
<1>7. k + d \in Closings(r, i + d, c + d) <=> a + d > c + d /\ SubSeq(r, a + d, k + d) = SubSeq(r, i + d, c + d)
    <2>1. k + d \in Closings(r, i + d, c + d) <=>
              /\ (k + d) - ((c + d) - (i + d)) > c + d
              /\ SubSeq(r, (k + d) - ((c + d) - (i + d)), k + d) = SubSeq(r, i + d, c + d)
        <3> DEFINE j == k + d
        <3>1. j \in ((c + d) + 1)..o
            BY <1>6
        <3> HIDE DEF j
        <3>2. j \in Closings(r, i + d, c + d) <=>
              /\ j - ((c + d) - (i + d)) > c + d
              /\ SubSeq(r, j - ((c + d) - (i + d)), j) = SubSeq(r, i + d, c + d)
            BY <3>1 DEF Closings
        <3> QED BY <3>2 DEF j
    <2> HIDE DEF a
    <2> QED BY <2>1, <1>5
<1>8. k \in Closings(t, i, c) <=> a > c /\ SubSeq(t, a, k) = SubSeq(t, i, c)
    BY DEF Closings
<1> HIDE DEF a
<1> QED BY <1>3, <1>4, <1>5, <1>7, <1>8

LEMMA DollarQuoteIsLocal ==
    ASSUME NEW t \in Seq(Chars), NEW r \in Seq(Chars), NEW i \in 1..Len(t), t[i] = "$",
           DelimiterEnd(t, i) \in DOMAIN t, NEW d, SameUpTo(t, r, i, DollarQuotedEnd(t, i), d)
    PROVE  /\ DollarQuotedEnd(r, i + d) = DollarQuotedEnd(t, i) + d
           /\ DelimiterEnd(r, i + d) \in DOMAIN r
           /\ r[i + d] = "$"
<1> DEFINE n == Len(t)
           o == Len(r)
           c == DelimiterEnd(t, i)
           e == DollarQuotedEnd(t, i)
           S == Closings(t, i, c)
           T == Closings(r, i + d, c + d)
           m == Min(S \cup {n + 1})
<1>1. n \in Nat /\ o \in Nat /\ i \in 1..n /\ DOMAIN t = 1..n /\ DOMAIN r = 1..o
    OBVIOUS
<1>2. c \in (i + 1)..n
    <2>1. c \in (i + 1)..(n + 1)
        BY DelimitersEndAlike
    <2>2. c \in 1..n
        OBVIOUS
    <2> HIDE DEF n, c
    <2> QED BY <2>1, <2>2, <1>1
<1>3. c \in 1..n /\ c + 1 \in 1..(n + 1)
    <2> HIDE DEF n, c
    <2> QED BY <1>1, <1>2
<1>4. e = Clipped(t, 1 + m) /\ m \in (c + 1)..(n + 1) /\ (m \in S \/ m = n + 1)
    BY <1>3, DollarQuotedEndIs
<1>5. /\ d \in Int /\ e \in i..(n + 1) /\ e + d \in 1..(o + 1) /\ i + d \in 1..(o + 1)
    BY DEF SameUpTo
<1>6. /\ \A k \in i..(e - 1) : k \in 1..n /\ k + d \in 1..o /\ r[k + d] = t[k]
      /\ e = n + 1 => e + d = o + 1
    <2>1. i \in 1..(Len(t) + 1)
        OBVIOUS
    <2> QED BY <2>1, SameWithin
<1>7. e = IF 1 + m > n THEN n + 1 ELSE 1 + m
    BY <1>4 DEF Clipped
<1>8. S \subseteq (c + 1)..n /\ T \subseteq ((c + d) + 1)..o
    BY DEF Closings
<1>9. \A x : Clipped(r, x) = IF x > o THEN o + 1 ELSE x
    BY DEF Clipped
<1> HIDE DEF n, o, c, e, S, T, m
<1>10. \A k \in i..m : k <= n => k \in i..(e - 1)
    BY <1>1, <1>2, <1>4, <1>7
<1>11. ASSUME NEW k \in (c + 1)..m, k <= n
       PROVE  k + d \in T <=> k \in S
    <2>1. k \in (c + 1)..Len(t) /\ c \in i..Len(t)
        BY <1>1, <1>2, <1>11 DEF n
    <2>2. \A j \in i..k : j \in i..m /\ j <= n
        BY <1>1, <1>2, <1>4, <1>11
    <2>3. \A j \in i..k : j + d \in 1..Len(r) /\ r[j + d] = t[j]
        BY <2>2, <1>6, <1>10 DEF o
    <2> QED BY <2>1, <2>3, <1>5, ClosingsAlike DEF S, T
<1>12. c + d \in 1..o /\ DelimiterEnd(r, i + d) = c + d
    <2>1. \A k \in i..c : k \in i..m /\ k <= n
        BY <1>1, <1>2, <1>4
    <2>2. \A k \in i..c : k + d \in 1..o /\ r[k + d] = t[k]
        BY <2>1, <1>6, <1>10
    <2>3. c \in i..c
        BY <1>1, <1>2
    <2>4. DelimiterEnd(t, i) \in 1..Len(t)
        BY <1>3 DEF c, n
    <2> QED BY <2>2, <2>3, <2>4, <1>5, DelimiterIsLocal DEF c, o
<1>13. m <= n => m + d \in 1..o
    <2>1. m \in i..m
        BY <1>1, <1>2, <1>4
    <2> QED BY <2>1, <1>6, <1>10
<1>14. m = n + 1 => m + d = o + 1
    <2>1. m = n + 1 => e = n + 1
        BY <1>1, <1>7
    <2> QED BY <2>1, <1>6
<1>15. Moved(S, n, T, o, c + 1, d)
    <2>1. n \in Nat /\ o \in Nat /\ d \in Int /\ c + 1 \in 1..(n + 1) /\ (c + 1) + d \in 1..(o + 1)
        BY <1>1, <1>2, <1>3, <1>5, <1>12
    <2>2. S \subseteq (c + 1)..n /\ T \subseteq ((c + 1) + d)..o
        <3>1. (c + d) + 1 = (c + 1) + d
            BY <1>1, <1>2, <1>5
        <3> QED BY <3>1, <1>8
    <2>3. m + d \in ((c + 1) + d)..(o + 1)
        <3>1. m + d <= o + 1
            BY <1>1, <1>2, <1>4, <1>13, <1>14
        <3> QED BY <3>1, <1>1, <1>2, <1>4, <1>5
    <2>4. \A k \in (c + 1)..(m - 1) : k + d \in T => k \in S
        <3>1. \A k \in (c + 1)..(m - 1) : k \in (c + 1)..m /\ k <= n
            BY <1>1, <1>2, <1>4
        <3> QED BY <3>1, <1>11
    <2>5. m <= n /\ m \in S => m + d \in T
        <3>1. m \in (c + 1)..m
            BY <1>1, <1>2, <1>4
        <3> QED BY <3>1, <1>11
    <2> QED BY <2>1, <2>2, <2>3, <2>4, <2>5, <1>14 DEF Moved, m
<1>16. Min(T \cup {o + 1}) = m + d
    BY <1>15, FirstAlike DEF m
<1>17. DollarQuotedEnd(r, i + d) = Clipped(r, 1 + Min(T \cup {o + 1}))
    BY <1>12, DollarQuotedEndIs DEF T, o
<1>18. DollarQuotedEnd(r, i + d) = e + d
    <2>1. DollarQuotedEnd(r, i + d) = IF 1 + (m + d) > o THEN o + 1 ELSE 1 + (m + d)
        BY <1>9, <1>16, <1>17
    <2>2. CASE m <= n
        <3>1. e = m + 1 /\ m + d \in 1..o
            BY <2>2, <1>1, <1>2, <1>4, <1>7, <1>13
        <3> QED BY <3>1, <2>1, <1>1, <1>2, <1>4, <1>5
    <2>3. CASE m = n + 1
        <3>1. e = n + 1 /\ e + d = o + 1 /\ m + d = o + 1
            BY <2>3, <1>1, <1>6, <1>7, <1>14
        <3> QED BY <3>1, <2>1, <1>1
    <2> QED BY <2>2, <2>3, <1>1, <1>2, <1>4
<1>19. r[i + d] = "$"
    <2>1. i \in i..m /\ i <= n
        BY <1>1, <1>2, <1>4
    <2> QED BY <2>1, <1>6, <1>10
<1> QED BY <1>1, <1>12, <1>18, <1>19 DEF e

\* What has the same characters has the same region, moved along.
MovedRegion(t, r, i, d) ==
    /\ i + d \in 1..Len(r)
    /\ Region(r, i + d) = Span(Region(t, i).segment, i + d, Region(t, i).end + d)
    /\ \A k \in i..(Region(t, i).end - 1) : r[k + d] = t[k]

LEMMA RegionIsLocal ==
    ASSUME NEW t \in Seq(Chars), NEW r \in Seq(Chars), NEW i \in 1..Len(t), Region(t, i).segment # "Code",
           NEW d, SameUpTo(t, r, i, Region(t, i).end, d)
    PROVE  MovedRegion(t, r, i, d)
<1> DEFINE n == Len(t)
           o == Len(r)
           e == Region(t, i).end
<1>1. n \in Nat /\ o \in Nat /\ i \in 1..n /\ i \in 1..(Len(t) + 1)
    OBVIOUS
<1>2. e \in (i + 1)..(n + 1)
    BY RegionsFit
<1>3. /\ d \in Int /\ e + d \in 1..(o + 1)
      /\ GoesOnAlike(t, r, e, d)
    BY DEF SameUpTo
<1>4. /\ \A k \in i..(e - 1) : k \in 1..n /\ k + d \in 1..o /\ r[k + d] = t[k]
      /\ e = n + 1 => e + d = o + 1
    BY <1>1, SameWithin
<1>5. i + d \in 1..o /\ r[i + d] = t[i]
    <2>1. i \in i..(e - 1)
        <3> HIDE DEF n, e
        <3> QED BY <1>1, <1>2
    <2> HIDE DEF n, o, e
    <2> QED BY <2>1, <1>4
<1>6. (i + d) + 1 = (i + 1) + d
    <2> HIDE DEF n, o, e
    <2> QED BY <1>1, <1>3
<1>7. i + 1 \in 1..(n + 1) /\ SameUpTo(t, r, i + 1, e, d)
    <2> HIDE DEF e
    <2>1. i + 1 \in 1..(n + 1) /\ (i + 1) + d \in 1..(o + 1) /\ e \in (i + 1)..(n + 1)
        <3> HIDE DEF n, o
        <3>1. i \in Int /\ d \in Int /\ i >= 1 /\ i <= n /\ i + d >= 1 /\ i + d <= o
            BY <1>1, <1>3, <1>5
        <3>2. (i + 1) + d \in 1..(o + 1)
            BY <3>1, <1>1
        <3>3. i + 1 \in 1..(n + 1)
            BY <3>1, <1>1
        <3> QED BY <3>2, <3>3, <1>2
    <2>2. \A k \in (i + 1)..(e - 1) : r[k + d] = t[k]
        <3>1. \A k \in (i + 1)..(e - 1) : k \in i..(e - 1)
            <4> HIDE DEF n, o
            <4> QED BY <1>1, <1>2
        <3> QED BY <3>1, <1>4
    <2> QED BY <2>1, <2>2, <1>3 DEF SameUpTo
<1>8. ASSUME NEW kind, Region(t, i) = Span(kind, i, e), Region(r, i + d) = Span(kind, i + d, e + d)
      PROVE  MovedRegion(t, r, i, d)
    <2>1. Region(t, i).segment = kind
        BY <1>8 DEF Span
    <2> QED BY <2>1, <1>4, <1>5, <1>8 DEF MovedRegion
<1>9. ASSUME NEW kind, NEW end, Region(t, i) = Span(kind, i, end)
      PROVE  end = e
    BY <1>9 DEF Span
<1>10. CASE t[i] = Apostrophe
    <2> DEFINE end == QuotedEnd(t, i + 1, Apostrophe)
    <2>1. Region(t, i) = Span("SingleQuoted", i, end)
        BY <1>10, RegionsAre
    <2>2. end = e
        <3> HIDE DEF end, e
        <3> QED BY <2>1, <1>9
    <2>3. QuotedEnd(r, (i + 1) + d, Apostrophe) = e + d
        BY <2>2, <1>7, QuotedIsLocal
    <2>4. Region(r, i + d) = Span("SingleQuoted", i + d, QuotedEnd(r, (i + d) + 1, Apostrophe))
        BY <1>5, <1>10, RegionsAre
    <2> HIDE DEF end, e
    <2> QED BY <2>1, <2>2, <2>3, <2>4, <1>6, <1>8
<1>11. CASE t[i] = Quote
    <2> DEFINE end == QuotedEnd(t, i + 1, Quote)
    <2>1. Region(t, i) = Span("DoubleQuoted", i, end)
        BY <1>11, RegionsAre
    <2>2. end = e
        <3> HIDE DEF end, e
        <3> QED BY <2>1, <1>9
    <2>3. QuotedEnd(r, (i + 1) + d, Quote) = e + d
        BY <2>2, <1>7, QuotedIsLocal
    <2>4. Region(r, i + d) = Span("DoubleQuoted", i + d, QuotedEnd(r, (i + d) + 1, Quote))
        BY <1>5, <1>11, RegionsAre
    <2> HIDE DEF end, e
    <2> QED BY <2>1, <2>2, <2>3, <2>4, <1>6, <1>8
<1>12. CASE t[i] = "$" /\ DelimiterEnd(t, i) \in DOMAIN t
    <2> DEFINE end == DollarQuotedEnd(t, i)
    <2>1. Region(t, i) = Span("DollarQuoted", i, end)
        BY <1>12, RegionsAre
    <2>2. end = e
        <3> HIDE DEF end, e
        <3> QED BY <2>1, <1>9
    <2>3. DollarQuotedEnd(r, i + d) = e + d /\ DelimiterEnd(r, i + d) \in DOMAIN r /\ r[i + d] = "$"
        BY <2>2, <1>12, DollarQuoteIsLocal
    <2>4. Region(r, i + d) = Span("DollarQuoted", i + d, DollarQuotedEnd(r, i + d))
        BY <2>3, <1>5, RegionsAre
    <2> HIDE DEF end, e
    <2> QED BY <2>1, <2>2, <2>3, <2>4, <1>8
<1>13. CASE IsPair(t, i, "-", "-")
    <2> DEFINE end == LineEnd(t, i)
    <2>1. Region(t, i) = Span("LineComment", i, end)
        BY <1>13, RegionsAre DEF LineEnd
    <2>2. end = e
        <3> HIDE DEF end, e
        <3> QED BY <2>1, <1>9
    <2>3. LineEnd(r, i + d) = e + d /\ IsPair(r, i + d, "-", "-")
        BY <2>2, <1>13, LineCommentIsLocal
    <2>4. Region(r, i + d) = Span("LineComment", i + d, LineEnd(r, i + d))
        BY <2>3, <1>5, RegionsAre DEF LineEnd
    <2> HIDE DEF end, e
    <2> QED BY <2>1, <2>2, <2>3, <2>4, <1>8
<1>14. CASE IsPair(t, i, "/", "*")
    <2> DEFINE end == BlockCommentEnd(t, i)
    <2>1. Region(t, i) = Span("BlockComment", i, end)
        BY <1>14, RegionsAre
    <2>2. end = e
        <3> HIDE DEF end, e
        <3> QED BY <2>1, <1>9
    <2>3. BlockCommentEnd(r, i + d) = e + d /\ IsPair(r, i + d, "/", "*")
        BY <2>2, <1>14, BlockCommentIsLocal
    <2>4. Region(r, i + d) = Span("BlockComment", i + d, BlockCommentEnd(r, i + d))
        BY <2>3, <1>5, RegionsAre
    <2> HIDE DEF end, e
    <2> QED BY <2>1, <2>2, <2>3, <2>4, <1>8
<1>15. \/ t[i] = Apostrophe \/ t[i] = Quote
       \/ t[i] = "$" /\ DelimiterEnd(t, i) \in DOMAIN t
       \/ IsPair(t, i, "-", "-") \/ IsPair(t, i, "/", "*")
    <2> SUFFICES ASSUME /\ t[i] # Apostrophe /\ t[i] # Quote
                        /\ ~ (t[i] = "$" /\ DelimiterEnd(t, i) \in DOMAIN t)
                        /\ ~ IsPair(t, i, "-", "-") /\ ~ IsPair(t, i, "/", "*")
                 PROVE  FALSE
        OBVIOUS
    <2>1. Region(t, i) = Span("Code", i, i + 1)
        <3>1. CASE t[i] = "$"
            BY <3>1, RegionsAre
        <3>2. CASE t[i] # "$"
            BY <3>2, RegionsAre
        <3> QED BY <3>1, <3>2
    <2> QED BY <2>1 DEF Span
<1> QED BY <1>10, <1>11, <1>12, <1>13, <1>14, <1>15

-----------------------------------------------------------------------------
(* Code is read alike, too                                                 *)

\* What is no code.
OpensRegion(t, i) ==
    \/ t[i] = Apostrophe \/ t[i] = Quote
    \/ t[i] = "$" /\ DelimiterEnd(t, i) \in DOMAIN t
    \/ IsPair(t, i, "-", "-") \/ IsPair(t, i, "/", "*")

LEMMA OpensOne ==
    ASSUME NEW t \in Seq(Chars), NEW i \in 1..Len(t)
    PROVE  Region(t, i).segment # "Code" <=> OpensRegion(t, i)
<1>1. ASSUME NEW kind \in {"SingleQuoted", "DoubleQuoted", "DollarQuoted", "LineComment", "BlockComment"},
             NEW end, Region(t, i) = Span(kind, i, end)
      PROVE  Region(t, i).segment # "Code"
    <2>1. Span(kind, i, end).segment = kind /\ kind # "Code"
        BY DEF Span
    <2> QED BY <2>1, <1>1
<1>2. ASSUME ~ OpensRegion(t, i) PROVE Region(t, i).segment = "Code"
    <2>1. Region(t, i) = Span("Code", i, i + 1)
        <3>1. CASE t[i] = "$"
            BY <3>1, <1>2, RegionsAre DEF OpensRegion
        <3>2. CASE t[i] # "$"
            BY <3>2, <1>2, RegionsAre DEF OpensRegion
        <3> QED BY <3>1, <3>2
    <2> QED BY <2>1 DEF Span
<1>3. CASE t[i] = Apostrophe
    <2>1. Region(t, i) = Span("SingleQuoted", i, QuotedEnd(t, i + 1, Apostrophe))
        BY <1>3, RegionsAre
    <2> QED BY <2>1, <1>1, <1>3 DEF OpensRegion
<1>4. CASE t[i] = Quote
    <2>1. Region(t, i) = Span("DoubleQuoted", i, QuotedEnd(t, i + 1, Quote))
        BY <1>4, RegionsAre
    <2> QED BY <2>1, <1>1, <1>4 DEF OpensRegion
<1>5. CASE t[i] = "$" /\ DelimiterEnd(t, i) \in DOMAIN t
    <2>1. Region(t, i) = Span("DollarQuoted", i, DollarQuotedEnd(t, i))
        BY <1>5, RegionsAre
    <2> QED BY <2>1, <1>1, <1>5 DEF OpensRegion
<1>6. CASE IsPair(t, i, "-", "-")
    <2>1. Region(t, i) = Span("LineComment", i, LineEnd(t, i))
        BY <1>6, RegionsAre DEF LineEnd
    <2> QED BY <2>1, <1>1, <1>6 DEF OpensRegion
<1>7. CASE IsPair(t, i, "/", "*")
    <2>1. Region(t, i) = Span("BlockComment", i, BlockCommentEnd(t, i))
        BY <1>7, RegionsAre
    <2> QED BY <2>1, <1>1, <1>7 DEF OpensRegion
<1> QED BY <1>2, <1>3, <1>4, <1>5, <1>6, <1>7 DEF OpensRegion

\* r has what t has d places before, at least up to the next colon.
Follows(t, r, i, d) ==
    \A q \in (i + d)..Len(r) :
        (\A k \in (i + d)..q : r[k] # ":") =>
            \A k \in (i + d)..q : k - d \in 1..Len(t) /\ r[k] = t[k - d]

LEMMA CodeIsLocal ==
    ASSUME NEW t \in Seq(Chars), NEW r \in Seq(Chars), NEW i \in 1..Len(t), NEW d \in Int,
           i + d \in 1..Len(r), r[i + d] = t[i], Follows(t, r, i, d),
           Region(t, i).segment = "Code"
    PROVE  Region(r, i + d).segment = "Code"
<1> DEFINE n == Len(t)
           o == Len(r)
           m == i + d
<1>1. n \in Nat /\ o \in Nat /\ i \in 1..n /\ i \in Int /\ m \in 1..o /\ m \in Int /\ m - d = i /\ DOMAIN r = 1..o /\ DOMAIN t = 1..n
    OBVIOUS
<1>2. ~ OpensRegion(t, i)
    BY OpensOne
<1>3. ASSUME NEW q \in m..o, \A k \in m..q : r[k] # ":"
      PROVE  \A k \in m..q : k - d \in 1..n /\ r[k] = t[k - d]
    BY <1>3 DEF Follows
<1>4. r[m] = t[i]
    OBVIOUS
<1>e. OpensRegion(r, i + d) = OpensRegion(r, m)
    OBVIOUS
<1> HIDE DEF n, o, m
<1> SUFFICES ASSUME OpensRegion(r, m) PROVE FALSE
    BY <1>1, <1>e, OpensOne DEF m, o
<1>5. t[i] # Apostrophe /\ t[i] # Quote
    BY <1>2 DEF OpensRegion
<1>6. ASSUME NEW c \in {"-", "*"}, m + 1 \in 1..o, r[m + 1] = c, t[i] # ":"
      PROVE  i < n /\ t[i + 1] = c
    <2>1. m + 1 \in m..o /\ \A k \in m..(m + 1) : k = m \/ k = m + 1
        BY <1>1, <1>6
    <2>2. \A k \in m..(m + 1) : r[k] # ":"
        BY <2>1, <1>4, <1>6
    <2>3. m + 1 \in m..(m + 1) /\ (m + 1) - d = i + 1
        BY <1>1
    <2>4. i + 1 \in 1..n /\ r[m + 1] = t[i + 1]
        BY <2>1, <2>2, <2>3, <1>3
    <2> QED BY <2>4, <1>1, <1>6
<1>7. ASSUME IsPair(r, m, "-", "-") PROVE FALSE
    <2>1. m < o /\ r[m] = "-" /\ r[m + 1] = "-"
        BY <1>1, <1>7, PairsAre DEF o
    <2>2. m + 1 \in 1..o
        BY <2>1, <1>1
    <2>3. i < n /\ t[i + 1] = "-"
        BY <2>1, <2>2, <1>4, <1>6
    <2>4. IsPair(t, i, "-", "-")
        BY <2>1, <2>3, <1>4, PairsAre DEF n
    <2> QED BY <2>4, <1>2 DEF OpensRegion
<1>8. ASSUME IsPair(r, m, "/", "*") PROVE FALSE
    <2>1. m < o /\ r[m] = "/" /\ r[m + 1] = "*"
        BY <1>1, <1>8, PairsAre DEF o
    <2>2. m + 1 \in 1..o
        BY <2>1, <1>1
    <2>3. i < n /\ t[i + 1] = "*"
        BY <2>1, <2>2, <1>4, <1>6
    <2>4. IsPair(t, i, "/", "*")
        BY <2>1, <2>3, <1>4, PairsAre DEF n
    <2> QED BY <2>4, <1>2 DEF OpensRegion
<1>9. ASSUME r[m] = "$", DelimiterEnd(r, m) \in DOMAIN r PROVE FALSE
    <2> DEFINE q == DelimiterEnd(r, m)
               S == Delimiters(r, m)
    <2>1. q \in 1..o
        BY <1>1, <1>9
    <2>2. q = Min(S \cup {o + 1})
        BY DelimiterEndIs DEF o
    <2>3. S \subseteq (m + 1)..o /\ \A j \in S : r[j] = "$" /\ Tag(r, m, j)
        BY DEF Delimiters, o
    <2> HIDE DEF q, S
    <2>4. q \in S /\ q \in (m + 1)..o
        <3>1. m + 1 \in 1..(o + 1)
            BY <1>1
        <3>2. q \in S \/ q = o + 1
            BY <3>1, <1>1, <2>2, <2>3, LeastPlace
        <3> QED BY <3>2, <2>1, <2>3, <1>1
    <2>5. \A k \in m..q : r[k] # ":"
        <3> SUFFICES ASSUME NEW k \in m..q PROVE r[k] # ":"
            OBVIOUS
        <3>1. k = m \/ k = q \/ k \in (m + 1)..(q - 1)
            BY <1>1, <2>4
        <3>2. ":" \notin Letters \cup Digits
            BY DEF Letters, Digits
        <3>3. \A j \in (m + 1)..(q - 1) : r[j] \in Letters \cup Digits
            BY <2>3, <2>4 DEF Tag
        <3> QED BY <3>1, <3>2, <3>3, <2>3, <2>4, <1>9
    <2>6. \A k \in m..q : k - d \in 1..n /\ r[k] = t[k - d]
        <3>1. q \in m..o
            BY <1>1, <2>4
        <3> QED BY <3>1, <2>5, <1>3
    <2>7. \A k \in m..q : k + (-d) \in 1..n /\ t[k + (-d)] = r[k]
        <3>1. \A k \in m..q : k + (-d) = k - d
            BY <1>1
        <3> QED BY <3>1, <2>6
    <2>8. DelimiterEnd(t, m + (-d)) = q + (-d)
        <3>1. m \in 1..Len(r) /\ -d \in Int /\ DelimiterEnd(r, m) \in 1..Len(r)
            BY <1>1, <2>1 DEF q, o
        <3> HIDE DEF n
        <3>2. \A k \in m..DelimiterEnd(r, m) : k + (-d) \in 1..Len(t) /\ t[k + (-d)] = r[k]
            BY <2>7 DEF q, n
        <3>3. DelimiterEnd(t, m + (-d)) = DelimiterEnd(r, m) + (-d)
            BY <3>1, <3>2, DelimiterIsLocal
        <3> QED BY <3>3 DEF q
    <2>9. m + (-d) = i /\ q + (-d) \in 1..n
        <3>1. q \in m..q
            BY <1>1, <2>4
        <3> QED BY <3>1, <2>7, <1>1
    <2>10. t[i] = "$" /\ DelimiterEnd(t, i) \in DOMAIN t
        BY <2>8, <2>9, <1>1, <1>4, <1>9
    <2> QED BY <2>10, <1>2 DEF OpensRegion
<1> QED BY <1>4, <1>5, <1>7, <1>8, <1>9 DEF OpensRegion

LEMMA PlaceholderEndIs ==
    ASSUME NEW t \in Seq(Chars), NEW i \in 1..Len(t)
    PROVE  /\ PlaceholderEnd(t, i) \in (i + 1)..(Len(t) + 1)
           /\ \A k \in (i + 1)..(PlaceholderEnd(t, i) - 1) : k \in 1..Len(t) /\ t[k] \in Digits
           /\ PlaceholderEnd(t, i) <= Len(t) => t[PlaceholderEnd(t, i)] \notin Digits
<1> DEFINE n == Len(t)
           S == {j \in (i + 1)..n : t[j] \notin Digits}
           e == Min(S \cup {n + 1})
<1>1. n \in Nat /\ i + 1 \in 1..(n + 1) /\ i \in 1..n
    OBVIOUS
<1>2. PlaceholderEnd(t, i) = e
    BY DEF PlaceholderEnd, FirstFrom
<1>3. S \subseteq (i + 1)..n /\ \A j \in (i + 1)..n : j \in S <=> t[j] \notin Digits
    OBVIOUS
<1> HIDE DEF S, n
<1>4. e \in (i + 1)..(n + 1) /\ (e \in S \/ e = n + 1) /\ \A j \in S : e <= j
    BY <1>1, <1>3, LeastPlace
<1> HIDE DEF e
<1>5. \A k \in (i + 1)..(e - 1) : k \in (i + 1)..n /\ k \in 1..n /\ ~ (e <= k)
    BY <1>1, <1>4
<1>6. \A k \in (i + 1)..(e - 1) : t[k] \in Digits
    BY <1>3, <1>4, <1>5
<1>7. e <= n => t[e] \notin Digits
    <2>1. e <= n => e # n + 1
        BY <1>1, <1>4
    <2> QED BY <2>1, <1>3, <1>4
<1> QED BY <1>2, <1>4, <1>5, <1>6, <1>7 DEF n

\* A dollar that is no parameter does not become one.
LEMMA OtherDollarsAreLocal ==
    ASSUME NEW t \in Seq(Chars), NEW r \in Seq(Chars), NEW i \in 1..Len(t), NEW d \in Int,
           i + d \in 1..Len(r), r[i + d] = t[i], Follows(t, r, i, d),
           ~ IsPlaceholder(t, i)
    PROVE  ~ IsPlaceholder(r, i + d)
<1> DEFINE n == Len(t)
           o == Len(r)
           m == i + d
           e == PlaceholderEnd(t, i)
           g == PlaceholderEnd(r, m)
<1>1. n \in Nat /\ o \in Nat /\ i \in 1..n /\ i \in Int /\ m \in 1..o /\ m \in Int /\ m - d = i
    OBVIOUS
<1>2. /\ e \in (i + 1)..(n + 1)
      /\ e <= n => t[e] \notin Digits
    BY PlaceholderEndIs
<1>3. /\ g \in (m + 1)..(o + 1)
      /\ \A k \in (m + 1)..(g - 1) : r[k] \in Digits
    BY PlaceholderEndIs
<1>4. \A q \in m..o : (\A k \in m..q : r[k] # ":") => \A k \in m..q : k - d \in 1..n /\ r[k] = t[k - d]
    BY DEF Follows
<1>5. r[m] = t[i]
    OBVIOUS
<1>6. t[i] = "$" => \A j \in (i + 1)..(e - 1) : t[j] = "0"
    BY DEF IsPlaceholder
<1> SUFFICES ASSUME IsPlaceholder(r, m) PROVE FALSE
    OBVIOUS
<1>7. PICK j \in (m + 1)..(g - 1) : r[j] # "0"
    BY DEF IsPlaceholder
<1>8. r[m] = "$"
    BY DEF IsPlaceholder
<1> HIDE DEF n, o, m, e, g
<1>9. j \in m..o /\ j \in Int
    BY <1>1, <1>3, <1>7
<1>10. \A k \in m..j : k = m \/ (k \in (m + 1)..j /\ r[k] \in Digits)
    <2>1. \A k \in m..j : k = m \/ (k \in (m + 1)..j /\ k \in (m + 1)..(g - 1))
        BY <1>1, <1>3, <1>7, <1>9
    <2> QED BY <2>1, <1>3
<1>11. \A k \in m..j : r[k] # ":"
    <2>1. ":" \notin Digits
        BY DEF Digits
    <2> QED BY <2>1, <1>8, <1>10
<1>12. \A k \in m..j : k - d \in 1..n /\ r[k] = t[k - d]
    BY <1>4, <1>9, <1>11
<1>13. \A k \in (i + 1)..(j - d) : t[k] \in Digits
    <2> SUFFICES ASSUME NEW k \in (i + 1)..(j - d) PROVE t[k] \in Digits
        OBVIOUS
    <2>1. k + d \in m..j /\ k + d # m /\ (k + d) - d = k
        BY <1>1, <1>9
    <2> QED BY <2>1, <1>10, <1>12
<1>14. j - d \in (i + 1)..n
    <2>1. j \in m..j
        BY <1>9
    <2>2. j - d \in 1..n
        BY <2>1, <1>12
    <2> QED BY <2>2, <1>1, <1>7, <1>9
<1>15. j - d \in (i + 1)..(e - 1)
    <2> SUFFICES ASSUME ~ (j - d <= e - 1) PROVE FALSE
        BY <1>1, <1>2, <1>14
    <2>1. e \in (i + 1)..(j - d) /\ e <= n
        BY <1>1, <1>2, <1>14
    <2> QED BY <2>1, <1>2, <1>13
<1>16. r[j] = t[j - d]
    <2>1. j \in m..j
        BY <1>9
    <2> QED BY <2>1, <1>12
<1> QED BY <1>5, <1>6, <1>7, <1>8, <1>15, <1>16

-----------------------------------------------------------------------------
(* What is sent                                                            *)

\* What a character, or a parameter, is replaced by, and where the next is.
Lead(t, i) == IF i \in Placeholders(t) THEN <<":">> \o ParamName(t, i) ELSE <<t[i]>>
After(t, i) == IF i \in Placeholders(t) THEN PlaceholderEnd(t, i) ELSE i + 1

LEMMA PlaceholdersOpen ==
    ASSUME NEW t \in Seq(Chars), NEW i \in Placeholders(t)
    PROVE  /\ i \in CodeIn(Scan(t)) /\ IsPlaceholder(t, i) /\ t[i] = "$"
           /\ \E j \in (i + 1)..(PlaceholderEnd(t, i) - 1) : t[j] # "0"
<1>1. i \in CodeIn(Scan(t)) /\ IsPlaceholder(t, i)
    BY PlaceholdersAre
<1> QED BY <1>1 DEF IsPlaceholder

\* A parameter's name has nothing in it that opens a region.
LEMMA NamesFit ==
    ASSUME NEW t \in Seq(Chars), NEW i \in 1..Len(t), i \in Placeholders(t)
    PROVE  /\ ParamName(t, i) \in Seq(Chars)
           /\ \A k \in 1..Len(ParamName(t, i)) : ParamName(t, i)[k] \in Digits \cup {"p"}
<1> DEFINE n == Len(t)
           e == PlaceholderEnd(t, i)
           S == {j \in (i + 1)..n : t[j] # "0"}
           a == Min(S \cup {n + 1})
           x == SubSeq(t, a, e - 1)
<1>1. n \in Nat /\ i \in 1..n /\ i + 1 \in 1..(n + 1)
    OBVIOUS
<1>2. /\ e \in (i + 1)..(n + 1)
      /\ \A k \in (i + 1)..(e - 1) : k \in 1..n /\ t[k] \in Digits
    BY PlaceholderEndIs
<1>3. ParamName(t, i) = <<"p">> \o x
    BY DEF ParamName, FirstFrom
<1>4. S \subseteq (i + 1)..n
    OBVIOUS
<1> HIDE DEF n, S, e
<1>5. a \in (i + 1)..(n + 1)
    BY <1>1, <1>4, LeastPlace
<1> HIDE DEF a
<1>6. \A k \in a..(e - 1) : t[k] \in Digits /\ t[k] \in Chars
    <2>1. \A k \in a..(e - 1) : k \in (i + 1)..(e - 1)
        BY <1>1, <1>2, <1>5
    <2>2. \A k \in 1..n : t[k] \in Chars
        BY DEF n
    <2> QED BY <2>1, <2>2, <1>2
<1>7. x \in Seq(Digits) /\ x \in Seq(Chars)
    <2> DEFINE h == e - 1
    <2>1. a \in Int /\ h \in Int
        BY <1>1, <1>2, <1>5
    <2>2. x = SubSeq(t, a, h)
        OBVIOUS
    <2>3. \A k \in a..h : t[k] \in Digits
        BY <1>6
    <2>4. \A k \in a..h : t[k] \in Chars
        BY <1>6
    <2> HIDE DEF h, x
    <2>5. x \in Seq(Digits)
        BY <2>1, <2>2, <2>3, SubSeqProperties
    <2>6. x \in Seq(Chars)
        BY <2>1, <2>2, <2>4, SubSeqProperties
    <2> QED BY <2>5, <2>6
<1> HIDE DEF x
<1>8. x \in Seq(Chars) /\ "p" \in Chars /\ \A k \in 1..Len(x) : x[k] \in Digits
    BY <1>7, CharsFit
<1>9. <<"p">> \o x \in Seq(Chars)
    BY <1>8
<1>10. \A k \in 1..Len(<<"p">> \o x) : (<<"p">> \o x)[k] \in Digits \cup {"p"}
    <2>1. \A k \in 1..Len(<<"p">> \o x) : k = 1 \/ (k # 1 /\ k - 1 \in 1..Len(x))
        BY <1>8
    <2>2. (<<"p">> \o x)[1] = "p"
        BY <1>8
    <2>3. \A k \in 1..Len(<<"p">> \o x) : k # 1 => (<<"p">> \o x)[k] = x[k - 1]
        BY <1>8
    <2> QED BY <2>1, <2>2, <2>3, <1>8
<1> QED BY <1>3, <1>9, <1>10

LEMMA LeadsFit ==
    ASSUME NEW t \in Seq(Chars), NEW i \in 1..Len(t)
    PROVE  /\ Lead(t, i) \in Seq(Chars) /\ Len(Lead(t, i)) \in Nat \ {0}
           /\ Lead(t, i)[1] = IF i \in Placeholders(t) THEN ":" ELSE t[i]
           /\ i \notin Placeholders(t) => Len(Lead(t, i)) = 1
           /\ \A k \in 2..Len(Lead(t, i)) : Lead(t, i)[k] \in Digits \cup {"p"}
           /\ After(t, i) \in (i + 1)..(Len(t) + 1)
<1>1. CASE i \in Placeholders(t)
    <2> DEFINE name == ParamName(t, i)
    <2>1. name \in Seq(Chars) /\ \A k \in 1..Len(name) : name[k] \in Digits \cup {"p"}
        BY <1>1, NamesFit
    <2>2. Lead(t, i) = <<":">> \o name
        BY <1>1 DEF Lead
    <2> HIDE DEF name
    <2> DEFINE lead == <<":">> \o name
    <2>3. lead \in Seq(Chars) /\ Len(lead) = 1 + Len(name) /\ lead[1] = ":"
        BY <2>1, CharsFit
    <2>4. \A k \in 2..Len(lead) : k - 1 \in 1..Len(name) /\ lead[k] = name[k - 1]
        BY <2>1
    <2>5. Len(name) \in Nat
        BY <2>1
    <2>6. After(t, i) \in (i + 1)..(Len(t) + 1)
        BY <1>1, PlaceholderEndIs DEF After
    <2>7. \A k \in 2..Len(lead) : lead[k] \in Digits \cup {"p"}
        BY <2>1, <2>4
    <2> HIDE DEF lead
    <2>8. Len(lead) \in Nat \ {0}
        BY <2>3, <2>5
    <2>9. Lead(t, i) = lead
        BY <2>2 DEF lead
    <2> QED BY <2>3, <2>6, <2>7, <2>8, <2>9, <1>1
<1>2. CASE i \notin Placeholders(t)
    <2>1. Lead(t, i) = <<t[i]>> /\ After(t, i) = i + 1
        BY <1>2 DEF Lead, After
    <2>2. t[i] \in Chars
        OBVIOUS
    <2> QED BY <2>1, <2>2, <1>2
<1> QED BY <1>1, <1>2

\* What is sent for the text from each place on.
SendsFrom(t, h) ==
    h = [i \in 1..(Len(t) + 1) |->
            IF i > Len(t) THEN <<>>
            ELSE IF i \in Placeholders(t) THEN <<":">> \o ParamName(t, i) \o h[PlaceholderEnd(t, i)]
            ELSE <<t[i]>> \o h[i + 1]]

LEMMA SendingGoesOn ==
    ASSUME NEW t \in Seq(Chars)
    PROVE  \E h : SendsFrom(t, h) /\ Rewritten(t) = h[1]
<1> DEFINE n == Len(t)
           P == 1..(n + 1)
           V == Seq(Chars)
           stop == {n + 1}
           value == [i \in P |-> <<>>]
           next == [i \in P |-> IF i = n + 1 THEN i ELSE After(t, i)]
           with == [i \in P |-> [v \in V |-> IF i = n + 1 THEN v ELSE Lead(t, i) \o v]]
<1>1. n \in Nat /\ n + 1 \in Nat
    OBVIOUS
<1>2. \A i \in 1..n : Lead(t, i) \in V /\ After(t, i) \in (i + 1)..(n + 1)
    BY LeadsFit
<1> HIDE DEF n
<1>3. \A i \in P : i # n + 1 => i \in 1..n
    BY <1>1
<1>4. value \in [P -> V]
    OBVIOUS
<1>5. \A i \in P : i # n + 1 => After(t, i) \in P /\ After(t, i) > i
    <2> SUFFICES ASSUME NEW i \in P, i # n + 1 PROVE After(t, i) \in P /\ After(t, i) > i
        OBVIOUS
    <2> DEFINE end == After(t, i)
    <2>1. end \in (i + 1)..(n + 1) /\ i \in 1..n
        BY <1>2, <1>3
    <2> HIDE DEF end
    <2>2. end \in P /\ end > i
        BY <2>1, <1>1
    <2> QED BY <2>2 DEF end
<1>6. next \in [P -> P]
    BY <1>5
<1>7. with \in [P -> [V -> V]]
    <2>1. \A i \in P : i # n + 1 => Lead(t, i) \in V
        BY <1>2, <1>3
    <2>2. \A i \in P : i # n + 1 => \A v \in V : Lead(t, i) \o v \in V
        BY <2>1
    <2> HIDE DEF V
    <2> QED BY <2>2
<1>8. \A i \in P : i \notin stop => next[i] > i
    BY <1>5
<1>9. PICK g \in [P -> V] :
            \A i \in P : g[i] = IF i \in stop THEN value[i] ELSE with[i][g[next[i]]]
    <2> HIDE DEF stop, value, next, with, V
    <2>1. IsAnswered(P, V, stop, value, next, with)
        BY <1>1, <1>4, <1>6, <1>7, <1>8, WalkingEnds
    <2> QED BY <2>1 DEF IsAnswered
<1>10. SendsFrom(t, g)
    <2>1. ASSUME NEW i \in P
          PROVE  g[i] = IF i > n THEN <<>> ELSE Lead(t, i) \o g[After(t, i)]
        <3>1. CASE i = n + 1
            <4>1. i \in stop /\ i > n /\ value[i] = <<>>
                BY <3>1, <1>1
            <4>2. g[i] = value[i]
                <5> HIDE DEF stop, value, next, with, V
                <5> QED BY <4>1, <1>9
            <4> QED BY <4>1, <4>2
        <3>2. CASE i # n + 1
            <4>1. i \notin stop /\ next[i] = After(t, i) /\ ~ (i > n)
                BY <3>2, <1>1, <1>3
            <4>2. g[next[i]] \in V
                <5> HIDE DEF next, V, P
                <5> QED BY <1>6, <1>9
            <4>3. \A v \in V : with[i][v] = Lead(t, i) \o v
                <5> HIDE DEF V
                <5> QED BY <3>2
            <4>4. g[i] = with[i][g[next[i]]]
                <5> HIDE DEF with, next, stop, V, value
                <5> QED BY <4>1, <1>9
            <4> HIDE DEF with, next, V, stop
            <4> QED BY <4>1, <4>2, <4>3, <4>4
        <3> QED BY <3>1, <3>2
    <2>2. \A i \in P : (IF i > n THEN <<>> ELSE Lead(t, i) \o g[After(t, i)])
              = IF i > n THEN <<>>
                ELSE IF i \in Placeholders(t) THEN <<":">> \o ParamName(t, i) \o g[PlaceholderEnd(t, i)]
                ELSE <<t[i]>> \o g[i + 1]
        BY DEF Lead, After
    <2>3. g = [i \in P |-> g[i]]
        BY <1>9
    <2>4. \A i \in P : g[i] = IF i > n THEN <<>>
                ELSE IF i \in Placeholders(t) THEN <<":">> \o ParamName(t, i) \o g[PlaceholderEnd(t, i)]
                ELSE <<t[i]>> \o g[i + 1]
        BY <2>1, <2>2
    <2> QED BY <2>3, <2>4 DEF SendsFrom, n
<1> DEFINE all == CHOOSE h : SendsFrom(t, h)
<1>11. SendsFrom(t, all)
    BY <1>10
<1>12. Rewritten(t) = all[1]
    BY DEF Rewritten, SendsFrom
<1> QED BY <1>11, <1>12

LEMMA SendsALead ==
    ASSUME NEW t \in Seq(Chars), NEW h, SendsFrom(t, h)
    PROVE  \A i \in 1..(Len(t) + 1) :
               /\ h[i] \in Seq(Chars)
               /\ h[i] = IF i > Len(t) THEN <<>> ELSE Lead(t, i) \o h[After(t, i)]
<1> DEFINE n == Len(t)
           S == {i \in 1..(n + 1) : h[i] \in Seq(Chars)}
<1>1. n \in Nat /\ n + 1 \in Nat
    OBVIOUS
<1>2. ASSUME NEW i \in 1..(n + 1)
      PROVE  h[i] = IF i > n THEN <<>> ELSE Lead(t, i) \o h[After(t, i)]
    <2> DEFINE H(j) == IF j > n THEN <<>>
            ELSE IF j \in Placeholders(t) THEN <<":">> \o ParamName(t, j) \o h[PlaceholderEnd(t, j)]
            ELSE <<t[j]>> \o h[j + 1]
    <2>1. h = [j \in 1..(n + 1) |-> H(j)]
        BY DEF SendsFrom
    <2> HIDE DEF H
    <2>2. h[i] = H(i)
        BY <2>1
    <2> QED BY <2>2 DEF H, Lead, After
<1>3. \A i \in 1..n : Lead(t, i) \in Seq(Chars) /\ After(t, i) \in (i + 1)..(n + 1)
    BY LeadsFit
<1> HIDE DEF n
<1>4. ASSUME NEW i \in 1..(n + 1), \A j \in (i + 1)..(n + 1) : j \in S
      PROVE  i \in S
    <2>1. CASE i > n
        <3>1. h[i] = <<>>
            BY <2>1, <1>2
        <3>2. <<>> \in Seq(Chars)
            OBVIOUS
        <3> QED BY <3>1, <3>2
    <2>2. CASE ~ (i > n)
        <3>1. i \in 1..n
            BY <2>2, <1>1
        <3>2. Lead(t, i) \in Seq(Chars) /\ h[After(t, i)] \in Seq(Chars)
            BY <3>1, <1>3, <1>4
        <3>3. Lead(t, i) \o h[After(t, i)] \in Seq(Chars)
            BY <3>2
        <3> QED BY <3>3, <2>2, <1>2
    <2> QED BY <2>1, <2>2
<1>5. 1..(n + 1) \subseteq S
    <2> HIDE DEF S
    <2> QED BY <1>1, <1>4, CountingDown
<1> QED BY <1>2, <1>5 DEF n

\* r from m on is what is sent for the text from i on.
Stands(t, h, r, i, m) ==
    /\ i \in 1..(Len(t) + 1) /\ m \in 1..(Len(r) + 1)
    /\ m + Len(h[i]) = Len(r) + 1
    /\ \A k \in 1..Len(h[i]) : r[(m + k) - 1] = h[i][k]

LEMMA StandsOn ==
    ASSUME NEW t \in Seq(Chars), NEW h, SendsFrom(t, h), NEW r \in Seq(Chars),
           NEW i \in 1..Len(t), NEW m, Stands(t, h, r, i, m)
    PROVE  /\ m + Len(Lead(t, i)) \in (m + 1)..(Len(r) + 1)
           /\ \A k \in 1..Len(Lead(t, i)) : r[(m + k) - 1] = Lead(t, i)[k]
           /\ Stands(t, h, r, After(t, i), m + Len(Lead(t, i)))
<1> DEFINE n == Len(t)
           o == Len(r)
           lead == Lead(t, i)
           next == After(t, i)
           rest == h[next]
           all == h[i]
           x == Len(lead)
           y == Len(rest)
<1>1. n \in Nat /\ o \in Nat /\ i \in 1..n
    OBVIOUS
<1>2. lead \in Seq(Chars) /\ x \in Nat \ {0} /\ next \in (i + 1)..(n + 1)
    BY LeadsFit
<1>3. next \in 1..(n + 1) /\ i \in 1..(n + 1) /\ ~ (i > n)
    <2> HIDE DEF n, next
    <2> QED BY <1>1, <1>2
<1>4. rest \in Seq(Chars)
    <2> HIDE DEF next
    <2> QED BY <1>3, SendsALead
<1>5. all = lead \o rest
    BY <1>3, SendsALead
<1>6. m \in 1..(o + 1) /\ m + Len(all) = o + 1 /\ \A k \in 1..Len(all) : r[(m + k) - 1] = all[k]
    BY DEF Stands
<1> HIDE DEF all, lead, rest
<1>7. /\ Len(all) = x + y /\ y \in Nat
      /\ \A k \in 1..x : all[k] = lead[k]
      /\ \A k \in 1..y : all[x + k] = rest[k]
    BY <1>2, <1>4, <1>5
<1> HIDE DEF n, o, next, x, y
<1>8. m + x \in (m + 1)..(o + 1) /\ (m + x) + y = o + 1 /\ m + x \in 1..(o + 1)
    BY <1>1, <1>2, <1>6, <1>7
<1>9. \A k \in 1..x : r[(m + k) - 1] = lead[k]
    <2>1. \A k \in 1..x : k \in 1..Len(all)
        BY <1>2, <1>7
    <2> QED BY <2>1, <1>6, <1>7
<1>10. \A k \in 1..y : r[((m + x) + k) - 1] = rest[k]
    <2>1. \A k \in 1..y : x + k \in 1..Len(all) /\ ((m + x) + k) - 1 = (m + (x + k)) - 1
        BY <1>2, <1>6, <1>7
    <2> QED BY <2>1, <1>6, <1>7
<1>11. Stands(t, h, r, next, m + x)
    BY <1>3, <1>8, <1>10 DEF Stands, n, o, y, rest
<1> QED BY <1>8, <1>9, <1>11 DEF lead, next, x, o

LEMMA StandsAtTheEnd ==
    ASSUME NEW t \in Seq(Chars), NEW h, SendsFrom(t, h), NEW r \in Seq(Chars), NEW m
    PROVE  Stands(t, h, r, Len(t) + 1, m) => m = Len(r) + 1
<1> DEFINE n == Len(t)
<1>1. n \in Nat /\ n + 1 \in 1..(n + 1) /\ n + 1 > n
    OBVIOUS
<1>2. h[n + 1] = <<>>
    BY <1>1, SendsALead
<1>3. Len(r) \in Nat /\ Len(<<>>) = 0
    OBVIOUS
<1> QED BY <1>2, <1>3 DEF Stands

LEMMA CopiedOne ==
    ASSUME NEW t \in Seq(Chars), NEW h, SendsFrom(t, h), NEW r \in Seq(Chars),
           NEW i \in 1..Len(t), NEW m, Stands(t, h, r, i, m), i \notin Placeholders(t)
    PROVE  m \in 1..Len(r) /\ r[m] = t[i] /\ Stands(t, h, r, i + 1, m + 1)
<1>1. m \in 1..(Len(r) + 1) /\ Len(r) \in Nat
    BY DEF Stands
<1>2. Len(Lead(t, i)) = 1 /\ Lead(t, i)[1] = t[i] /\ After(t, i) = i + 1
    BY LeadsFit DEF After
<1>3. /\ m + 1 \in (m + 1)..(Len(r) + 1)
      /\ \A k \in 1..1 : r[(m + k) - 1] = Lead(t, i)[k]
      /\ Stands(t, h, r, i + 1, m + 1)
    <2>1. /\ m + Len(Lead(t, i)) \in (m + 1)..(Len(r) + 1)
          /\ \A k \in 1..Len(Lead(t, i)) : r[(m + k) - 1] = Lead(t, i)[k]
          /\ Stands(t, h, r, After(t, i), m + Len(Lead(t, i)))
        BY StandsOn
    <2> QED BY <2>1, <1>2
<1>4. (m + 1) - 1 = m /\ m \in 1..Len(r) /\ 1 \in 1..1
    BY <1>1, <1>3
<1> QED BY <1>2, <1>3, <1>4

LEMMA ReplacedOne ==
    ASSUME NEW t \in Seq(Chars), NEW h, SendsFrom(t, h), NEW r \in Seq(Chars),
           NEW i \in 1..Len(t), NEW m, Stands(t, h, r, i, m), i \in Placeholders(t)
    PROVE  /\ m \in 1..Len(r) /\ r[m] = ":"
           /\ m + Len(Lead(t, i)) \in (m + 1)..(Len(r) + 1)
           /\ \A k \in (m + 1)..((m + Len(Lead(t, i))) - 1) : r[k] \in Digits \cup {"p"}
           /\ Stands(t, h, r, PlaceholderEnd(t, i), m + Len(Lead(t, i)))
<1> DEFINE x == Len(Lead(t, i))
           o == Len(r)
<1>1. m \in 1..(o + 1) /\ o \in Nat
    BY DEF Stands
<1>2. /\ x \in Nat \ {0} /\ Lead(t, i)[1] = ":" /\ After(t, i) = PlaceholderEnd(t, i)
      /\ \A k \in 2..x : Lead(t, i)[k] \in Digits \cup {"p"}
    BY LeadsFit DEF After
<1>3. /\ m + x \in (m + 1)..(o + 1)
      /\ \A k \in 1..x : r[(m + k) - 1] = Lead(t, i)[k]
      /\ Stands(t, h, r, PlaceholderEnd(t, i), m + x)
    BY <1>2, StandsOn
<1> HIDE DEF x, o
<1>4. (m + 1) - 1 = m /\ m \in 1..o /\ 1 \in 1..x
    BY <1>1, <1>2, <1>3
<1>5. r[m] = ":"
    BY <1>2, <1>3, <1>4
<1>6. ASSUME NEW k \in (m + 1)..((m + x) - 1)
      PROVE  r[k] \in Digits \cup {"p"}
    <2>1. (k - m) + 1 \in 2..x /\ (k - m) + 1 \in 1..x /\ (m + ((k - m) + 1)) - 1 = k
        BY <1>1, <1>2
    <2> QED BY <2>1, <1>2, <1>3
<1> QED BY <1>3, <1>4, <1>5, <1>6 DEF x, o

\* From i to before j nothing is replaced, and the rest stands after it.
Stays(t, i, j) == \A k \in i..(j - 1) : k \notin Placeholders(t)
Copied(t, h, r, i, j, d) ==
    /\ Stands(t, h, r, j, j + d)
    /\ \A k \in i..(j - 1) : k + d \in 1..Len(r) /\ r[k + d] = t[k]

\* What is not replaced stays.
LEMMA CopiesOn ==
    ASSUME NEW t \in Seq(Chars), NEW h, SendsFrom(t, h), NEW r \in Seq(Chars),
           NEW i \in 1..(Len(t) + 1), NEW m, Stands(t, h, r, i, m),
           NEW j \in i..(Len(t) + 1), Stays(t, i, j)
    PROVE  /\ m - i \in Int
           /\ Copied(t, h, r, i, j, m - i)
<1> DEFINE n == Len(t)
           o == Len(r)
           d == m - i
           Done == {x \in 0..(j - i) :
                       /\ Stands(t, h, r, i + x, (i + x) + d)
                       /\ \A k \in i..((i + x) - 1) : k + d \in 1..o /\ r[k + d] = t[k]}
<1>1. n \in Nat /\ o \in Nat /\ i \in 1..(n + 1) /\ j \in i..(n + 1)
    OBVIOUS
<1>2. m \in 1..(o + 1)
    BY DEF Stands
<1>3. Stands(t, h, r, i, m)
    OBVIOUS
<1>4. \A k \in i..(j - 1) : k \notin Placeholders(t)
    BY DEF Stays
<1> HIDE DEF n, o
<1>5. d \in Int /\ i \in Int /\ m \in Int /\ (i + 0) + d = m /\ i + 0 = i /\ j - i \in Nat
    BY <1>1, <1>2
<1> HIDE DEF d
<1>6. 0 \in Done
    <2>1. \A k \in i..((i + 0) - 1) : FALSE
        BY <1>5
    <2>2. 0 \in 0..(j - i)
        BY <1>5
    <2> QED BY <2>1, <2>2, <1>3, <1>5
<1>7. ASSUME NEW x \in 0..(j - i), x \in Done, x < j - i
      PROVE  x + 1 \in Done
    <2> DEFINE k == i + x
    <2>1. k \in 1..n /\ k \in i..(j - 1) /\ x + 1 \in 0..(j - i) /\ k + d \in Int
        BY <1>1, <1>5, <1>7
    <2>2. Stands(t, h, r, k, k + d) /\ \A q \in i..(k - 1) : q + d \in 1..o /\ r[q + d] = t[q]
        BY <1>7
    <2>3. i + (x + 1) = k + 1 /\ (k + 1) + d = (k + d) + 1 /\ (k + 1) - 1 = k
        BY <1>1, <1>5, <1>7
    <2> HIDE DEF k, Done
    <2>4. k + d \in 1..o /\ r[k + d] = t[k] /\ Stands(t, h, r, k + 1, (k + d) + 1)
        BY <2>1, <2>2, <1>4, CopiedOne DEF n, o
    <2>5. \A q \in i..k : q \in i..(k - 1) \/ q = k
        BY <2>1, <1>1
    <2>6. \A q \in i..((i + (x + 1)) - 1) : q + d \in 1..o /\ r[q + d] = t[q]
        BY <2>2, <2>3, <2>4, <2>5
    <2>7. Stands(t, h, r, i + (x + 1), (i + (x + 1)) + d)
        BY <2>3, <2>4
    <2> QED BY <2>1, <2>6, <2>7 DEF Done
<1>8. j - i \in Done
    <2> DEFINE y == j - i
    <2> HIDE DEF Done
    <2>1. \A x \in 0..y : x \in Done /\ x < y => x + 1 \in Done
        BY <1>7
    <2>2. y \in Nat
        BY <1>5
    <2> HIDE DEF y
    <2>3. 0..y \subseteq Done
        BY <2>1, <2>2, <1>6, CountingUp
    <2>4. y \in 0..y
        BY <2>2
    <2>5. y \in Done
        BY <2>3, <2>4
    <2> QED BY <2>5 DEF y
<1>9. i + (j - i) = j
    BY <1>1, <1>5
<1>10. /\ Stands(t, h, r, j, j + d)
       /\ \A k \in i..(j - 1) : k + d \in 1..o /\ r[k + d] = t[k]
    BY <1>8, <1>9
<1> QED BY <1>5, <1>10 DEF d, o, Copied

LEMMA SentFollows ==
    ASSUME NEW t \in Seq(Chars), NEW h, SendsFrom(t, h), NEW r \in Seq(Chars),
           NEW i \in 1..(Len(t) + 1), NEW m, Stands(t, h, r, i, m)
    PROVE  Follows(t, r, i, m - i)
<1> DEFINE n == Len(t)
           o == Len(r)
           d == m - i
           S == {k \in i..n : k \in Placeholders(t)}
           j == Min(S \cup {n + 1})
<1>1. n \in Nat /\ o \in Nat /\ i \in 1..(n + 1)
    OBVIOUS
<1>2. m \in 1..(o + 1)
    BY DEF Stands
<1>3. d \in Int /\ i \in Int /\ m \in Int /\ i + d = m
    <2> HIDE DEF n, o
    <2> QED BY <1>1, <1>2
<1>4. S \subseteq i..n /\ \A k \in i..n : k \in S <=> k \in Placeholders(t)
    OBVIOUS
<1> HIDE DEF S
<1>5. j \in i..(n + 1) /\ (j \in S \/ j = n + 1) /\ \A k \in S : j <= k
    <2> HIDE DEF n
    <2> QED BY <1>1, <1>4, LeastPlace
<1> HIDE DEF j
<1>6. \A k \in i..(j - 1) : k \notin Placeholders(t)
    <2> HIDE DEF n
    <2>1. \A k \in i..(j - 1) : k \in i..n /\ ~ (j <= k)
        BY <1>1, <1>5
    <2> QED BY <2>1, <1>4, <1>5
<1>7. /\ Stands(t, h, r, j, j + d)
      /\ \A k \in i..(j - 1) : k + d \in 1..o /\ r[k + d] = t[k]
    <2>1. j \in i..(Len(t) + 1)
        BY <1>5
    <2>2. Stands(t, h, r, i, m)
        OBVIOUS
    <2> HIDE DEF n
    <2>3. Stays(t, i, j)
        BY <1>6 DEF Stays
    <2> HIDE DEF d, o
    <2>4. Copied(t, h, r, i, j, m - i)
        BY <2>1, <2>2, <2>3, CopiesOn
    <2> QED BY <2>4 DEF Copied, d, o
<1> HIDE DEF d
<1>8. j = n + 1 => j + d = o + 1
    <2> HIDE DEF o
    <2>1. j = n + 1 => Stands(t, h, r, Len(t) + 1, j + d)
        BY <1>7
    <2>2. j = n + 1 => j + d = Len(r) + 1
        BY <2>1, StandsAtTheEnd
    <2> QED BY <2>2 DEF o
<1>9. j # n + 1 => j + d \in 1..o /\ r[j + d] = ":"
    <2> HIDE DEF o
    <2> SUFFICES ASSUME j # n + 1 PROVE j + d \in 1..o /\ r[j + d] = ":"
        OBVIOUS
    <2>1. j \in S
        BY <1>5
    <2>2. j \in i..n /\ j \in Placeholders(t)
        BY <2>1, <1>4
    <2>3. j \in 1..Len(t)
        <3>1. j \in 1..n
            <4> HIDE DEF n
            <4> QED BY <2>2, <1>1
        <3> QED BY <3>1
    <2> QED BY <2>2, <2>3, <1>7, ReplacedOne DEF o
<1> HIDE DEF n, o
<1>10. ASSUME NEW q \in (i + d)..o, \A k \in (i + d)..q : r[k] # ":", NEW k \in (i + d)..q
       PROVE  k - d \in 1..n /\ r[k] = t[k - d]
    <2>1. ~ (j + d <= q)
        <3> SUFFICES ASSUME j + d <= q PROVE FALSE
            OBVIOUS
        <3>1. j + d \in (i + d)..q /\ q <= o
            BY <1>1, <1>3, <1>5, <1>10
        <3>2. j # n + 1
            BY <3>1, <1>1, <1>8
        <3> QED BY <3>1, <3>2, <1>9, <1>10
    <2>2. k - d \in i..(j - 1) /\ (k - d) + d = k
        BY <2>1, <1>1, <1>3, <1>5, <1>10
    <2>3. k - d \in 1..n
        BY <2>2, <1>1, <1>5
    <2> QED BY <2>2, <2>3, <1>7
<1>11. Follows(t, r, i, d)
    BY <1>10 DEF Follows, n, o
<1> QED BY <1>11 DEF d

LEMMA CodeFrom ==
    ASSUME NEW t \in Seq(Chars), NEW f, ScansFrom(t, f), NEW i \in 1..(Len(t) + 1)
    PROVE  CodeIn(f[i]) \subseteq i..Len(t)
<1> DEFINE n == Len(t)
           S == {j \in 1..(n + 1) : CodeIn(f[j]) \subseteq j..n}
<1>1. n \in Nat /\ n + 1 \in Nat /\ i \in 1..(n + 1)
    OBVIOUS
<1>2. CodeIn(f[n + 1]) = {}
    BY NothingAfterTheEnd
<1>3. ASSUME NEW j \in 1..n
      PROVE  /\ Region(t, j).end \in (j + 1)..(n + 1)
             /\ CodeIn(f[j]) \subseteq {j} \cup CodeIn(f[Region(t, j).end])
    <2>1. Steps(t, f, j)
        BY <1>3, ScanSteps
    <2>2. Region(t, j).end \in (j + 1)..(n + 1)
        BY <1>3, RegionsFit
    <2> QED BY <2>1, <2>2 DEF Steps
<1> HIDE DEF n
<1>4. ASSUME NEW j \in 1..(n + 1), \A k \in (j + 1)..(n + 1) : k \in S
      PROVE  j \in S
    <2>1. CASE j = n + 1
        BY <2>1, <1>2
    <2>2. CASE j # n + 1
        <3> DEFINE e == Region(t, j).end
        <3>1. j \in 1..n
            BY <2>2, <1>1
        <3>2. e \in (j + 1)..(n + 1) /\ CodeIn(f[j]) \subseteq {j} \cup CodeIn(f[e])
            BY <3>1, <1>3
        <3> HIDE DEF e
        <3>3. CodeIn(f[e]) \subseteq e..n
            BY <3>2, <1>4
        <3>4. \A k \in e..n : k \in j..n
            BY <3>1, <3>2, <1>1
        <3>5. j \in j..n
            BY <3>1, <1>1
        <3> QED BY <3>2, <3>3, <3>4, <3>5
    <2> QED BY <2>1, <2>2
<1>5. 1..(n + 1) \subseteq S
    <2> HIDE DEF S
    <2> QED BY <1>1, <1>4, CountingDown
<1> QED BY <1>1, <1>5 DEF n

\* The code read from i on is the code of the text from there.
Sound(f, i) == CodeIn(f[i]) = {k \in CodeIn(f[1]) : k >= i}

LEMMA SoundLater ==
    ASSUME NEW t \in Seq(Chars), NEW f, ScansFrom(t, f), NEW i \in 1..Len(t), Sound(f, i),
           NEW j \in (i + 1)..(Len(t) + 1), NEW X, X \subseteq i..(j - 1), CodeIn(f[i]) = X \cup CodeIn(f[j])
    PROVE  Sound(f, j)
<1> DEFINE n == Len(t)
           C == CodeIn(f[1])
<1>1. n \in Nat /\ i \in 1..n /\ j \in (i + 1)..(n + 1) /\ j \in 1..(n + 1) /\ 1 \in 1..(n + 1)
    OBVIOUS
<1>2. CodeIn(f[j]) \subseteq j..n /\ C \subseteq 1..n
    BY <1>1, CodeFrom
<1>3. \A k : k \in CodeIn(f[i]) <=> k \in C /\ k >= i
    BY DEF Sound
<1>4. \A k : k \in CodeIn(f[i]) <=> k \in X \/ k \in CodeIn(f[j])
    OBVIOUS
<1>5. X \subseteq i..(j - 1)
    OBVIOUS
<1> HIDE DEF n, C
<1>6. ASSUME NEW k \in CodeIn(f[j]) PROVE k \in C /\ k >= j
    <2>1. k \in j..n
        BY <1>2
    <2>2. k \in C
        BY <1>3, <1>4
    <2> QED BY <2>1, <2>2, <1>1
<1>7. ASSUME NEW k \in C, k >= j PROVE k \in CodeIn(f[j])
    <2>1. k \in 1..n
        BY <1>2
    <2>2. k >= i /\ k \notin i..(j - 1)
        BY <2>1, <1>1, <1>7
    <2> QED BY <2>2, <1>3, <1>4, <1>5
<1>8. CodeIn(f[j]) = {k \in C : k >= j}
    BY <1>6, <1>7
<1> QED BY <1>8 DEF Sound, C

\* A text, what is sent for it, and how each is read.
SentReading(t, r, f, g, h) ==
    /\ t \in Seq(Chars) /\ r \in Seq(Chars)
    /\ ScansFrom(t, f) /\ Scan(t) = f[1] /\ ScansFrom(r, g)
    /\ SendsFrom(t, h)

ApartTexts(t, z) == {Text(t, s) : s \in Apart(z)}

\* From m on r reads as t does from i on, and has no parameter left.
Alike(t, r, f, g, i, m) ==
    /\ ApartTexts(r, g[m]) = ApartTexts(t, f[i])
    /\ \A k \in CodeIn(g[m]) : ~ IsPlaceholder(r, k)

\* It does from later places on.
AlikeLater(t, r, f, g, h, i) ==
    \A j \in (i + 1)..(Len(t) + 1) : \A p : Sound(f, j) /\ Stands(t, h, r, j, p) => Alike(t, r, f, g, j, p)

LEMMA TextsOfTwo ==
    ASSUME NEW t, NEW y, NEW z, NEW s, Apart(y) = {s} \cup Apart(z)
    PROVE  ApartTexts(t, y) = {Text(t, s)} \cup ApartTexts(t, z)
BY DEF ApartTexts

LEMMA PlacesInCode ==
    ASSUME NEW t \in Seq(Chars), NEW f, Scan(t) = f[1], NEW i, Sound(f, i),
           NEW k \in Placeholders(t), k >= i
    PROVE  k \in CodeIn(f[i])
<1>1. k \in CodeIn(f[1])
    BY PlaceholdersOpen
<1> QED BY <1>1 DEF Sound

LEMMA AlikeAtALiteral ==
    ASSUME NEW t, NEW r, NEW f, NEW g, NEW h, SentReading(t, r, f, g, h),
           NEW i \in 1..Len(t), NEW m, Sound(f, i), Stands(t, h, r, i, m),
           AlikeLater(t, r, f, g, h, i), Region(t, i).segment # "Code"
    PROVE  Alike(t, r, f, g, i, m)
<1> DEFINE n == Len(t)
           o == Len(r)
           d == m - i
           R == Region(t, i)
           e == R.end
<1>0. /\ t \in Seq(Chars) /\ r \in Seq(Chars)
      /\ ScansFrom(t, f) /\ Scan(t) = f[1] /\ ScansFrom(r, g)
      /\ SendsFrom(t, h)
    BY DEF SentReading
<1>1. n \in Nat /\ o \in Nat /\ i \in 1..n /\ i \in 1..(n + 1)
    BY <1>0
<1>2. m \in 1..(o + 1)
    BY DEF Stands
<1>3. e \in (i + 1)..(n + 1)
    BY <1>0, RegionsFit
<1>4. Apart(f[i]) = {R} \cup Apart(f[e]) /\ CodeIn(f[i]) = CodeIn(f[e])
    <2>1. Steps(t, f, i)
        BY <1>0, ScanSteps
    <2> QED BY <2>1 DEF Steps
<1>5. R.start = i /\ R.segment # "Code"
    BY <1>0, RegionsFit
<1>6. Text(t, R) = SubSeq(t, i, e - 1)
    BY <1>5 DEF Text
<1>7. \A k : Text(r, Span(R.segment, k, e + d)) = SubSeq(r, k, (e + d) - 1)
    BY DEF Text, Span
<1> HIDE DEF R, e, n, o
<1>8. e \in 1..(n + 1) /\ e \in i..(n + 1) /\ d \in Int /\ i + d = m /\ (e + d) - 1 = (e - 1) + d /\ i \in Int /\ e \in Int
    BY <1>1, <1>2, <1>3
<1> HIDE DEF d
<1>9. CodeIn(f[e]) \subseteq e..n
    BY <1>0, <1>8, CodeFrom DEF n
<1>10. Sound(f, e)
    <2> DEFINE X == {}
    <2>1. X \subseteq i..(e - 1) /\ CodeIn(f[i]) = X \cup CodeIn(f[e])
        BY <1>4
    <2>2. e \in (i + 1)..(Len(t) + 1)
        BY <1>3 DEF n
    <2> HIDE DEF X
    <2> QED BY <2>1, <2>2, <1>0, SoundLater
<1>11. \A k \in i..(e - 1) : k \notin Placeholders(t)
    <2> SUFFICES ASSUME NEW k \in i..(e - 1), k \in Placeholders(t) PROVE FALSE
        OBVIOUS
    <2>1. k >= i /\ k \notin e..n
        BY <1>1, <1>8
    <2>2. k \in CodeIn(f[i])
        BY <2>1, <1>0, PlacesInCode
    <2> QED BY <2>1, <2>2, <1>4, <1>9
<1>12. /\ Stands(t, h, r, e, e + d)
       /\ \A k \in i..(e - 1) : k + d \in 1..o /\ r[k + d] = t[k]
    <2>1. i \in 1..(Len(t) + 1) /\ e \in i..(Len(t) + 1)
        BY <1>1, <1>8 DEF n
    <2>2. Stays(t, i, e)
        BY <1>11 DEF Stays
    <2>3. Copied(t, h, r, i, e, m - i)
        BY <2>1, <2>2, <1>0, CopiesOn
    <2> QED BY <2>3 DEF Copied, d, o
<1>13. e + d \in 1..(o + 1) /\ (e = n + 1 => e + d = o + 1)
    <2>1. e + d \in 1..(o + 1)
        BY <1>12 DEF Stands, o
    <2>2. e = n + 1 => e + d = o + 1
        <3>1. e = Len(t) + 1 => Stands(t, h, r, Len(t) + 1, e + d)
            BY <1>12
        <3>2. e = Len(t) + 1 => e + d = Len(r) + 1
            BY <3>1, <1>0, StandsAtTheEnd
        <3> QED BY <3>2 DEF n, o
    <2> QED BY <2>1, <2>2
<1>14. GoesOnAlike(t, r, e, d)
    <2>1. CASE e = n + 1
        BY <2>1, <1>13 DEF GoesOnAlike, n, o
    <2>2. CASE e # n + 1 /\ e \in Placeholders(t)
        <3>1. e \in 1..n /\ e <= n
            BY <2>2, <1>1, <1>8
        <3>2. r[e + d] = ":"
            BY <3>1, <2>2, <1>0, <1>12, ReplacedOne DEF n
        <3>3. t[e] = "$"
            BY <2>2, <1>0, PlaceholdersOpen
        <3> QED BY <3>1, <3>2, <3>3 DEF GoesOnAlike, n
    <2>3. CASE e # n + 1 /\ e \notin Placeholders(t)
        <3>1. e \in 1..n /\ e <= n
            BY <2>3, <1>1, <1>8
        <3>2. r[e + d] = t[e] /\ e + d \in 1..Len(r)
            BY <3>1, <2>3, <1>0, <1>12, CopiedOne DEF n
        <3>3. e + d <= Len(r)
            BY <3>2, <1>0
        <3> QED BY <3>1, <3>2, <3>3 DEF GoesOnAlike, n
    <2> QED BY <2>1, <2>2, <2>3
<1>15. SameUpTo(t, r, i, e, d)
    BY <1>2, <1>8, <1>12, <1>13, <1>14 DEF SameUpTo, n, o
<1>16. m \in 1..o /\ Region(r, m) = Span(R.segment, m, e + d)
    <2>1. MovedRegion(t, r, i, d)
        BY <1>0, <1>5, <1>15, RegionIsLocal DEF R, e
    <2> QED BY <2>1, <1>8 DEF MovedRegion, R, e, o
<1>17. Apart(g[m]) = {Region(r, m)} \cup Apart(g[e + d]) /\ CodeIn(g[m]) = CodeIn(g[e + d])
    <2>1. Steps(r, g, m)
        BY <1>0, <1>16, ScanSteps DEF o
    <2>2. Region(r, m).segment = R.segment /\ Region(r, m).end = e + d
        BY <1>16 DEF Span
    <2> QED BY <2>1, <2>2, <1>5 DEF Steps
<1>18. Text(r, Region(r, m)) = Text(t, R)
    <2> DEFINE b == e - 1
    <2>1. b \in (i - 1)..n /\ i \in 1..(n + 1) /\ \A k \in i..b : k + d \in 1..o /\ r[k + d] = t[k]
        <3>1. e - 1 \in (i - 1)..n
            BY <1>1, <1>8
        <3> QED BY <3>1, <1>1, <1>12
    <2> HIDE DEF b
    <2>2. SubSeq(r, i + d, b + d) = SubSeq(t, i, b)
        BY <2>1, <1>0, <1>8, SliceAlike DEF n, o
    <2>3. SubSeq(r, m, (e + d) - 1) = SubSeq(t, i, e - 1)
        BY <2>2, <1>8 DEF b
    <2> QED BY <2>3, <1>6, <1>7, <1>16
<1>19. Alike(t, r, f, g, e, e + d)
    <2>1. e \in (i + 1)..(Len(t) + 1)
        BY <1>3 DEF n
    <2> QED BY <2>1, <1>10, <1>12 DEF AlikeLater
<1>20. ApartTexts(r, g[m]) = ApartTexts(t, f[i])
    <2>1. ApartTexts(r, g[m]) = {Text(r, Region(r, m))} \cup ApartTexts(r, g[e + d])
        BY <1>17, TextsOfTwo
    <2>2. ApartTexts(t, f[i]) = {Text(t, R)} \cup ApartTexts(t, f[e])
        BY <1>4, TextsOfTwo
    <2> QED BY <2>1, <2>2, <1>18, <1>19 DEF Alike
<1> QED BY <1>17, <1>19, <1>20 DEF Alike

LEMMA AlikeAtCode ==
    ASSUME NEW t, NEW r, NEW f, NEW g, NEW h, SentReading(t, r, f, g, h),
           NEW i \in 1..Len(t), NEW m, Sound(f, i), Stands(t, h, r, i, m),
           AlikeLater(t, r, f, g, h, i), Region(t, i).segment = "Code", i \notin Placeholders(t)
    PROVE  Alike(t, r, f, g, i, m)
<1> DEFINE n == Len(t)
           o == Len(r)
           d == m - i
<1>0. /\ t \in Seq(Chars) /\ r \in Seq(Chars)
      /\ ScansFrom(t, f) /\ Scan(t) = f[1] /\ ScansFrom(r, g)
      /\ SendsFrom(t, h)
    BY DEF SentReading
<1>1. n \in Nat /\ o \in Nat /\ i \in 1..n /\ i \in 1..(n + 1) /\ i + 1 \in (i + 1)..(n + 1)
    BY <1>0
<1>2. m \in 1..o /\ r[m] = t[i] /\ Stands(t, h, r, i + 1, m + 1)
    BY <1>0, CopiedOne
<1>3. d \in Int /\ i + d = m
    <2> HIDE DEF n, o
    <2> QED BY <1>1, <1>2
<1>4. Follows(t, r, i, d)
    BY <1>0, <1>1, SentFollows
<1>5. Apart(f[i]) = Apart(f[i + 1]) /\ CodeIn(f[i]) = {i} \cup CodeIn(f[i + 1])
    <2>1. Steps(t, f, i)
        BY <1>0, ScanSteps
    <2>2. Region(t, i).end = i + 1
        BY <1>0, CodeIsOne
    <2> QED BY <2>1, <2>2 DEF Steps
<1> HIDE DEF d
<1>6. Region(r, m).segment = "Code"
    <2>1. i + d \in 1..Len(r) /\ r[i + d] = t[i]
        BY <1>2, <1>3
    <2> HIDE DEF n, o
    <2>2. Region(r, i + d).segment = "Code"
        BY <2>1, <1>0, <1>3, <1>4, CodeIsLocal
    <2> QED BY <2>2, <1>3
<1>7. Apart(g[m]) = Apart(g[m + 1]) /\ CodeIn(g[m]) = {m} \cup CodeIn(g[m + 1])
    <2>1. Steps(r, g, m)
        BY <1>0, <1>2, ScanSteps
    <2>2. Region(r, m).end = m + 1
        BY <1>0, <1>2, <1>6, CodeIsOne
    <2> QED BY <2>1, <2>2, <1>6 DEF Steps
<1>8. ~ IsPlaceholder(r, m)
    <2>1. i \in CodeIn(f[1])
        BY <1>5 DEF Sound
    <2>2. ~ IsPlaceholder(t, i)
        BY <2>1, <1>0, PlaceholdersAre
    <2>3. i + d \in 1..Len(r) /\ r[i + d] = t[i]
        BY <1>2, <1>3
    <2> HIDE DEF n, o
    <2>4. ~ IsPlaceholder(r, i + d)
        BY <2>2, <2>3, <1>0, <1>3, <1>4, OtherDollarsAreLocal
    <2> QED BY <2>4, <1>3
<1>9. Sound(f, i + 1)
    <2> DEFINE X == {i}
    <2>1. X \subseteq i..((i + 1) - 1) /\ CodeIn(f[i]) = X \cup CodeIn(f[i + 1])
        BY <1>1, <1>5
    <2> HIDE DEF X
    <2> QED BY <2>1, <1>0, <1>1, SoundLater
<1>10. Alike(t, r, f, g, i + 1, m + 1)
    BY <1>1, <1>2, <1>9 DEF AlikeLater
<1> QED BY <1>5, <1>7, <1>8, <1>10 DEF Alike, ApartTexts

\* No character of a parameter, or of what is sent for it, opens a region.
LEMMA ParametersAreCode ==
    ASSUME NEW t \in Seq(Chars), NEW i \in 1..Len(t), t[i] \in Digits \cup {"p", ":"}
    PROVE  Region(t, i).segment = "Code" /\ ~ IsPlaceholder(t, i)
<1>1. /\ \A c \in Digits \cup {"p"} : c # Apostrophe /\ c # Quote /\ c # "$" /\ c # "-" /\ c # "/"
      /\ ":" # Apostrophe /\ ":" # Quote
    BY MarksDiffer, NoneGoesOn DEF Letters
<1>2. ":" # "$" /\ ":" # "-" /\ ":" # "/"
    OBVIOUS
<1>3. t[i] # Apostrophe /\ t[i] # Quote /\ t[i] # "$" /\ t[i] # "-" /\ t[i] # "/"
    BY <1>1, <1>2
<1>4. ~ IsPair(t, i, "-", "-") /\ ~ IsPair(t, i, "/", "*")
    BY <1>3, PairsAre
<1>5. Region(t, i).segment = "Code"
    BY <1>3, <1>4, OpensOne DEF OpensRegion
<1> QED BY <1>3, <1>5 DEF IsPlaceholder

LEMMA AlikeAtAParameter ==
    ASSUME NEW t, NEW r, NEW f, NEW g, NEW h, SentReading(t, r, f, g, h),
           NEW i \in 1..Len(t), NEW m, Sound(f, i), Stands(t, h, r, i, m),
           AlikeLater(t, r, f, g, h, i), Region(t, i).segment = "Code", i \in Placeholders(t)
    PROVE  Alike(t, r, f, g, i, m)
<1> DEFINE n == Len(t)
           o == Len(r)
           e == PlaceholderEnd(t, i)
           q == m + Len(Lead(t, i))
<1>0. /\ t \in Seq(Chars) /\ r \in Seq(Chars)
      /\ ScansFrom(t, f) /\ Scan(t) = f[1] /\ ScansFrom(r, g)
      /\ SendsFrom(t, h)
    BY DEF SentReading
<1>1. n \in Nat /\ o \in Nat /\ i \in 1..n /\ i \in 1..(n + 1)
    BY <1>0
<1>2. /\ m \in 1..o /\ r[m] = ":" /\ q \in (m + 1)..(o + 1)
      /\ \A k \in (m + 1)..(q - 1) : r[k] \in Digits \cup {"p"}
      /\ Stands(t, h, r, e, q)
    BY <1>0, ReplacedOne
<1>3. e \in (i + 1)..(n + 1) /\ \A k \in (i + 1)..(e - 1) : k \in 1..n /\ t[k] \in Digits
    BY <1>0, PlaceholderEndIs
<1> HIDE DEF n, o, e, q
<1>4. e \in i..(n + 1) /\ q \in m..(o + 1) /\ m \in 1..(o + 1)
    BY <1>1, <1>2, <1>3
<1>5. ASSUME NEW k \in i..(e - 1) PROVE Region(t, k).segment = "Code"
    <2>1. CASE k = i
        BY <2>1
    <2>2. CASE k # i
        <3>1. k \in (i + 1)..(e - 1)
            BY <2>2, <1>1, <1>3
        <3>2. k \in 1..Len(t) /\ t[k] \in Digits
            BY <3>1, <1>3 DEF n
        <3> QED BY <3>2, <1>0, ParametersAreCode
    <2> QED BY <2>1, <2>2
<1>6. ASSUME NEW k \in m..(q - 1) PROVE Region(r, k).segment = "Code" /\ ~ IsPlaceholder(r, k)
    <2>1. r[k] \in Digits \cup {"p", ":"}
        <3>1. k = m \/ k \in (m + 1)..(q - 1)
            BY <1>1, <1>2
        <3> QED BY <3>1, <1>2
    <2>2. k \in 1..o
        BY <1>1, <1>2
    <2> QED BY <2>1, <2>2, <1>0, ParametersAreCode DEF o
<1>7. Apart(f[i]) = Apart(f[e]) /\ CodeIn(f[i]) = i..(e - 1) \cup CodeIn(f[e])
    <2>1. AllCode(t, i, e)
        BY <1>5 DEF AllCode
    <2>2. i \in 1..(Len(t) + 1) /\ e \in i..(Len(t) + 1)
        BY <1>1, <1>4 DEF n
    <2> QED BY <2>1, <2>2, <1>0, CodeIsSkipped, CodeIsWalked
<1>8. Apart(g[m]) = Apart(g[q]) /\ CodeIn(g[m]) = m..(q - 1) \cup CodeIn(g[q])
    <2>1. AllCode(r, m, q)
        BY <1>6 DEF AllCode
    <2>2. m \in 1..(Len(r) + 1) /\ q \in m..(Len(r) + 1)
        BY <1>4 DEF o
    <2> QED BY <2>1, <2>2, <1>0, CodeIsSkipped, CodeIsWalked
<1>9. Sound(f, e)
    <2> DEFINE X == i..(e - 1)
    <2>1. X \subseteq i..(e - 1) /\ CodeIn(f[i]) = X \cup CodeIn(f[e])
        BY <1>7
    <2>2. e \in (i + 1)..(Len(t) + 1)
        BY <1>3 DEF n
    <2> HIDE DEF X
    <2> QED BY <2>1, <2>2, <1>0, SoundLater
<1>10. Alike(t, r, f, g, e, q)
    <2>1. e \in (i + 1)..(Len(t) + 1)
        BY <1>3 DEF n
    <2> QED BY <2>1, <1>2, <1>9 DEF AlikeLater
<1> QED BY <1>6, <1>7, <1>8, <1>10 DEF Alike, ApartTexts

LEMMA AlikeAtTheEnd ==
    ASSUME NEW t, NEW r, NEW f, NEW g, NEW h, SentReading(t, r, f, g, h),
           NEW m, Stands(t, h, r, Len(t) + 1, m)
    PROVE  Alike(t, r, f, g, Len(t) + 1, m)
<1>0. /\ t \in Seq(Chars) /\ r \in Seq(Chars)
      /\ ScansFrom(t, f) /\ ScansFrom(r, g)
      /\ SendsFrom(t, h)
    BY DEF SentReading
<1>1. m = Len(r) + 1
    BY <1>0, StandsAtTheEnd
<1>2. Apart(f[Len(t) + 1]) = {} /\ Apart(g[m]) = {} /\ CodeIn(g[m]) = {}
    BY <1>0, <1>1, NothingAfterTheEnd
<1> QED BY <1>2 DEF Alike, ApartTexts

\* What is sent is read as the text is, and has no parameter left.
LEMMA SentIsAlike ==
    ASSUME NEW t \in Seq(Chars)
    PROVE  /\ Rewritten(t) \in Seq(Chars)
           /\ Placeholders(Rewritten(t)) = {}
           /\ ApartTexts(Rewritten(t), Scan(Rewritten(t))) = ApartTexts(t, Scan(t))
<1> DEFINE n == Len(t)
           r == Rewritten(t)
<1>1. n \in Nat /\ n + 1 \in Nat /\ 1 \in 1..(n + 1)
    OBVIOUS
<1>2. PICK h : SendsFrom(t, h) /\ r = h[1]
    BY SendingGoesOn
<1>3. r \in Seq(Chars)
    BY <1>1, <1>2, SendsALead
<1>4. PICK f : ScansFrom(t, f) /\ Scan(t) = f[1]
    BY ScanGoesOn
<1> HIDE DEF r
<1>5. PICK g : ScansFrom(r, g) /\ Scan(r) = g[1]
    BY <1>3, ScanGoesOn
<1>6. SentReading(t, r, f, g, h)
    BY <1>2, <1>3, <1>4, <1>5 DEF SentReading
<1>7. Stands(t, h, r, 1, 1)
    <2>1. Len(r) \in Nat /\ 1 + Len(r) = Len(r) + 1 /\ 1 \in 1..(Len(r) + 1)
        BY <1>3
    <2>2. \A k \in 1..Len(r) : (1 + k) - 1 = k
        BY <2>1
    <2> QED BY <2>1, <2>2, <1>1, <1>2 DEF Stands
<1>8. Sound(f, 1)
    <2>1. CodeIn(f[1]) \subseteq 1..n
        BY <1>1, <1>4, CodeFrom
    <2>2. \A k \in CodeIn(f[1]) : k >= 1
        BY <2>1
    <2> QED BY <2>2 DEF Sound
<1> DEFINE S == {i \in 1..(n + 1) : \A p : Sound(f, i) /\ Stands(t, h, r, i, p) => Alike(t, r, f, g, i, p)}
<1>9. ASSUME NEW i \in 1..(n + 1), \A j \in (i + 1)..(n + 1) : j \in S
      PROVE  i \in S
    <2> SUFFICES ASSUME NEW p, Sound(f, i), Stands(t, h, r, i, p) PROVE Alike(t, r, f, g, i, p)
        OBVIOUS
    <2>1. AlikeLater(t, r, f, g, h, i)
        BY <1>9 DEF AlikeLater
    <2>2. CASE i = n + 1
        BY <2>2, <1>6, AlikeAtTheEnd
    <2>3. CASE i # n + 1
        <3>1. i \in 1..Len(t)
            BY <2>3, <1>1
        <3> HIDE DEF S
        <3>2. CASE Region(t, i).segment # "Code"
            BY <3>1, <3>2, <2>1, <1>6, AlikeAtALiteral
        <3>3. CASE Region(t, i).segment = "Code" /\ i \in Placeholders(t)
            BY <3>1, <3>3, <2>1, <1>6, AlikeAtAParameter
        <3>4. CASE Region(t, i).segment = "Code" /\ i \notin Placeholders(t)
            BY <3>1, <3>4, <2>1, <1>6, AlikeAtCode
        <3> QED BY <3>2, <3>3, <3>4
    <2> QED BY <2>2, <2>3
<1>10. 1 \in S
    <2>1. 1..(n + 1) \subseteq S
        <3> HIDE DEF S, n
        <3> QED BY <1>1, <1>9, CountingDown
    <2> HIDE DEF S
    <2> QED BY <2>1, <1>1
<1>11. Alike(t, r, f, g, 1, 1)
    BY <1>7, <1>8, <1>10
<1>12. Placeholders(r) = {}
    BY <1>5, <1>11, PlaceholdersAre DEF Alike
<1>13. ApartTexts(r, Scan(r)) = ApartTexts(t, Scan(t))
    BY <1>4, <1>5, <1>11 DEF Alike
<1> QED BY <1>3, <1>12, <1>13 DEF r

-----------------------------------------------------------------------------
(* What is refused                                                         *)

\* Every literal and every comment is the region that opens at its start.
LEMMA ApartAreRegions ==
    ASSUME NEW t \in Seq(Chars)
    PROVE  \A s \in Apart(Scan(t)) : s.start \in 1..Len(t) /\ s = Region(t, s.start)
<1> DEFINE n == Len(t)
           Opened(s) == s.start \in 1..n /\ s = Region(t, s.start)
<1>1. n \in Nat /\ n + 1 \in Nat /\ 1 \in 1..(n + 1)
    OBVIOUS
<1>2. PICK f : ScansFrom(t, f) /\ Scan(t) = f[1]
    BY ScanGoesOn
<1> DEFINE S == {i \in 1..(n + 1) : \A s \in Apart(f[i]) : Opened(s)}
<1>3. ASSUME NEW i \in 1..(n + 1), \A j \in (i + 1)..(n + 1) : j \in S
      PROVE  i \in S
    <2>1. CASE i = n + 1
        <3>1. Apart(f[i]) = {}
            BY <2>1, <1>2, NothingAfterTheEnd
        <3> QED BY <3>1
    <2>2. CASE i # n + 1
        <3>1. i \in 1..n
            <4> HIDE DEF n
            <4> QED BY <2>2, <1>1
        <3>2. Steps(t, f, i)
            BY <3>1, <1>2, ScanSteps
        <3> DEFINE R == Region(t, i)
        <3>3. R.start = i /\ R.end \in (i + 1)..(n + 1)
            BY <3>1, RegionsFit
        <3>4. \A s \in Apart(f[i]) : s = R \/ s \in Apart(f[R.end])
            BY <3>2 DEF Steps
        <3>5. Opened(R)
            BY <3>1, <3>3
        <3>6. \A s \in Apart(f[R.end]) : Opened(s)
            BY <3>3, <1>3
        <3> HIDE DEF R, Opened
        <3>7. \A s \in Apart(f[i]) : Opened(s)
            BY <3>4, <3>5, <3>6
        <3> QED BY <3>7
    <2> QED BY <2>1, <2>2
<1>4. 1 \in S
    <2> DEFINE k == n + 1
    <2> HIDE DEF S, n
    <2>1. k \in Nat /\ \A i \in 1..k : (\A j \in (i + 1)..k : j \in S) => i \in S
        BY <1>1, <1>3
    <2> HIDE DEF k
    <2>2. 1..k \subseteq S
        BY <2>1, CountingDown
    <2> QED BY <2>2, <1>1 DEF k
<1>5. \A s \in Apart(f[1]) : Opened(s)
    BY <1>4
<1> QED BY <1>2, <1>5

\* A literal that opens with a dollar is a dollar-quoted string, and no other.
LEMMA DollarQuotesAre ==
    ASSUME NEW t \in Seq(Chars), NEW i \in 1..Len(t)
    PROVE  /\ t[i] = "$" /\ Region(t, i).segment # "Code" => Region(t, i).segment = "DollarQuoted"
           /\ Region(t, i).segment = "DollarQuoted" => t[i] = "$"
<1>1. ASSUME NEW kind \in {"SingleQuoted", "DoubleQuoted", "LineComment", "BlockComment", "Code"}, NEW end
      PROVE  Region(t, i) = Span(kind, i, end) => Region(t, i).segment # "DollarQuoted"
    <2>1. Span(kind, i, end).segment = kind /\ kind # "DollarQuoted"
        BY DEF Span
    <2> QED BY <2>1
<1>2. ASSUME NEW kind \in {"DollarQuoted", "Code"}, NEW end
      PROVE  Region(t, i) = Span(kind, i, end) /\ Region(t, i).segment # "Code"
                 => Region(t, i).segment = "DollarQuoted"
    <2>1. Span(kind, i, end).segment = kind
        BY DEF Span
    <2> QED BY <2>1
<1>3. t[i] = "$" /\ Region(t, i).segment # "Code" => Region(t, i).segment = "DollarQuoted"
    <2> DEFINE end == DollarQuotedEnd(t, i)
    <2>1. /\ t[i] = "$" /\ DelimiterEnd(t, i) \in DOMAIN t => Region(t, i) = Span("DollarQuoted", i, end)
          /\ t[i] = "$" /\ DelimiterEnd(t, i) \notin DOMAIN t => Region(t, i) = Span("Code", i, i + 1)
        BY RegionsAre
    <2> HIDE DEF end
    <2>2. CASE DelimiterEnd(t, i) \in DOMAIN t
        BY <2>1, <2>2, <1>2
    <2>3. CASE DelimiterEnd(t, i) \notin DOMAIN t
        BY <2>1, <2>3, <1>2
    <2> QED BY <2>2, <2>3
<1>4. t[i] # "$" => Region(t, i).segment # "DollarQuoted"
    <2> DEFINE a == QuotedEnd(t, i + 1, Apostrophe)
               b == QuotedEnd(t, i + 1, Quote)
               c == FirstFrom(t, i, LAMBDA j : t[j] = Newline)
               d == BlockCommentEnd(t, i)
               isCode == t[i] \notin {Apostrophe, Quote, "$"} /\ ~ IsPair(t, i, "-", "-") /\ ~ IsPair(t, i, "/", "*")
    <2>1. /\ t[i] = Apostrophe => Region(t, i) = Span("SingleQuoted", i, a)
          /\ t[i] = Quote => Region(t, i) = Span("DoubleQuoted", i, b)
          /\ IsPair(t, i, "-", "-") => Region(t, i) = Span("LineComment", i, c)
          /\ IsPair(t, i, "/", "*") => Region(t, i) = Span("BlockComment", i, d)
          /\ isCode => Region(t, i) = Span("Code", i, i + 1)
        BY RegionsAre
    <2> HIDE DEF a, b, c, d
    <2>2. CASE t[i] = Apostrophe
        BY <2>1, <2>2, <1>1
    <2>3. CASE t[i] = Quote
        BY <2>1, <2>3, <1>1
    <2>4. CASE IsPair(t, i, "-", "-")
        BY <2>1, <2>4, <1>1
    <2>5. CASE IsPair(t, i, "/", "*")
        BY <2>1, <2>5, <1>1
    <2>6. CASE isCode
        BY <2>1, <2>6, <1>1
    <2> QED BY <2>2, <2>3, <2>4, <2>5, <2>6
<1> QED BY <1>3, <1>4

\* The texts of two regions are alike: so are their characters, one by one.
LEMMA AlikeByCharacter ==
    ASSUME NEW t \in Seq(Chars), NEW i \in 1..Len(t), NEW e \in (i + 1)..(Len(t) + 1),
           NEW r \in Seq(Chars), NEW m \in 1..Len(r), NEW z \in (m + 1)..(Len(r) + 1),
           SubSeq(r, m, z - 1) = SubSeq(t, i, e - 1)
    PROVE  z - m = e - i /\ \A k \in 0..((e - i) - 1) : r[m + k] = t[i + k]
<1> DEFINE n == Len(t)
           o == Len(r)
           x == SubSeq(t, i, e - 1)
           y == SubSeq(r, m, z - 1)
<1>1. n \in Nat /\ o \in Nat /\ i \in 1..n /\ m \in 1..o /\ e \in (i + 1)..(n + 1) /\ z \in (m + 1)..(o + 1)
    OBVIOUS
<1>2. /\ Len(x) = ((e - 1) - i) + 1
      /\ \A k \in 1..(((e - 1) - i) + 1) : x[k] = t[(i + k) - 1]
    <2>1. i \in 1..(n + 1) /\ e - 1 \in (i - 1)..n /\ 0 \in Int /\ \A k \in i..(e - 1) : k + 0 = k /\ k \in 1..n
        <3> HIDE DEF n
        <3> QED BY <1>1
    <2>2. \A k \in i..(e - 1) : k + 0 \in 1..Len(t) /\ t[k + 0] = t[k]
        BY <2>1
    <2> QED BY <2>1, <2>2, SliceAlike
<1>3. /\ Len(y) = ((z - 1) - m) + 1
      /\ \A k \in 1..(((z - 1) - m) + 1) : y[k] = r[(m + k) - 1]
    <2>1. m \in 1..(o + 1) /\ z - 1 \in (m - 1)..o /\ 0 \in Int /\ \A k \in m..(z - 1) : k + 0 = k /\ k \in 1..o
        <3> HIDE DEF o
        <3> QED BY <1>1
    <2>2. \A k \in m..(z - 1) : k + 0 \in 1..Len(r) /\ r[k + 0] = r[k]
        BY <2>1
    <2> QED BY <2>1, <2>2, SliceAlike
<1>4. y = x
    OBVIOUS
<1> HIDE DEF x, y, n, o
<1>5. ((e - 1) - i) + 1 = e - i /\ ((z - 1) - m) + 1 = z - m
    BY <1>1
<1>6. z - m = e - i
    BY <1>2, <1>3, <1>4, <1>5
<1>7. ASSUME NEW k \in 0..((e - i) - 1)
      PROVE  r[m + k] = t[i + k]
    <2>1. k + 1 \in 1..(e - i) /\ (i + (k + 1)) - 1 = i + k /\ (m + (k + 1)) - 1 = m + k
        BY <1>1
    <2>2. x[k + 1] = t[i + k]
        BY <2>1, <1>2, <1>5
    <2>3. y[k + 1] = r[m + k]
        BY <2>1, <1>3, <1>5, <1>6
    <2> QED BY <2>2, <2>3, <1>4
<1> QED BY <1>6, <1>7

\* A name after a colon is seen in every text that holds the same string.
LEMMA NamesAreSeen ==
    ASSUME NEW t \in Seq(Chars), NEW s \in Apart(Scan(t)), s.segment = "DollarQuoted",
           NEW r \in Seq(Chars), NEW z \in Apart(Scan(r)), Text(r, z) = Text(t, s),
           NEW i \in s.start..(s.end - 2), t[i] = ":", t[i + 1] \in Letters
    PROVE  HasHazard(r)
<1> DEFINE n == Len(t)
           o == Len(r)
           a == s.start
           b == s.end
           c == z.start
           d == z.end
           x == i - a
<1>1. n \in Nat /\ o \in Nat
    OBVIOUS
<1>2. a \in 1..n /\ s = Region(t, a) /\ c \in 1..o /\ z = Region(r, c)
    BY ApartAreRegions
<1>3. b \in (a + 1)..(n + 1)
    BY <1>2, RegionsFit
<1>4. d \in (c + 1)..(o + 1)
    BY <1>2, RegionsFit
<1>5. SubSeq(r, c, d - 1) = SubSeq(t, a, b - 1)
    BY DEF Text
<1>6. z.segment # "Code" /\ z \in ToSet(Scan(r))
    BY DEF Apart
<1>7. t[a] = "$"
    BY <1>2, DollarQuotesAre
<1>8. i \in a..(b - 2)
    OBVIOUS
<1> HIDE DEF a, b, c, d
<1>9. d - c = b - a /\ \A k \in 0..((b - a) - 1) : r[c + k] = t[a + k]
    BY <1>2, <1>3, <1>4, <1>5, AlikeByCharacter
<1>10. z.segment = "DollarQuoted"
    <2>1. 0 \in 0..((b - a) - 1) /\ a + 0 = a /\ c + 0 = c
        <3> HIDE DEF n, o
        <3> QED BY <1>1, <1>2, <1>3
    <2>2. r[c] = "$"
        BY <2>1, <1>7, <1>9
    <2> QED BY <2>2, <1>2, <1>6, DollarQuotesAre
<1>11. /\ x \in 0..((b - a) - 1) /\ x + 1 \in 0..((b - a) - 1)
       /\ a + x = i /\ a + (x + 1) = i + 1
       /\ c + x \in c..(d - 1) /\ (c + x) + 1 < d /\ c + (x + 1) = (c + x) + 1
    <2> HIDE DEF n, o
    <2> QED BY <1>1, <1>2, <1>3, <1>4, <1>8, <1>9
<1> HIDE DEF x
<1>12. r[c + x] = ":" /\ r[(c + x) + 1] \in Letters
    BY <1>9, <1>11
<1>13. ColonInDollarQuote(r, z)
    BY <1>10, <1>11, <1>12 DEF ColonInDollarQuote, Places, IsIdentStart, c, d
<1> QED BY <1>6, <1>13 DEF HasHazard

-----------------------------------------------------------------------------
(* The places PostgreSQL's lexer comes to                                  *)

LexemeEnd(t, i) == Pg!LexemeAt(t, i).end
ClosedOnwards(t, X) == 1 \in X /\ \A k \in X : k <= Len(t) => LexemeEnd(t, k) \in X

\* The places it comes to, the one after the end included.
Visited(t) ==
    {j \in 1..(Len(t) + 1) : \A X \in SUBSET (1..(Len(t) + 1)) : ClosedOnwards(t, X) => j \in X}

LEMMA LexemeEndFits ==
    ASSUME NEW t \in Seq(Chars), NEW i \in 1..Len(t)
    PROVE  LexemeEnd(t, i) \in (i + 1)..(Len(t) + 1)
BY LexemesFit DEF LexemeEnd

\* What holds at the first place and from each place to the next holds at all.
LEMMA VisitedWithin ==
    ASSUME NEW t, NEW X, X \subseteq 1..(Len(t) + 1), ClosedOnwards(t, X)
    PROVE  Visited(t) \subseteq X
BY DEF Visited

LEMMA VisitedGoesOn ==
    ASSUME NEW t \in Seq(Chars)
    PROVE  /\ Visited(t) \subseteq 1..(Len(t) + 1)
           /\ 1 \in Visited(t)
           /\ \A k \in Visited(t) : k <= Len(t) => LexemeEnd(t, k) \in Visited(t)
<1>1. Len(t) \in Nat /\ 1 \in 1..(Len(t) + 1)
    OBVIOUS
<1>2. Visited(t) \subseteq 1..(Len(t) + 1)
    BY DEF Visited
<1>3. 1 \in Visited(t)
    BY <1>1 DEF Visited, ClosedOnwards
<1>4. ASSUME NEW k \in Visited(t), k <= Len(t)
      PROVE  LexemeEnd(t, k) \in Visited(t)
    <2>1. k \in 1..Len(t)
        BY <1>1, <1>2, <1>4
    <2>2. LexemeEnd(t, k) \in (k + 1)..(Len(t) + 1)
        BY <2>1, LexemeEndFits
    <2>3. LexemeEnd(t, k) \in 1..(Len(t) + 1)
        BY <1>1, <2>1, <2>2
    <2> QED BY <1>4, <2>3 DEF Visited, ClosedOnwards
<1> QED BY <1>2, <1>3, <1>4

\* It never comes to a place within a lexeme.
LEMMA VisitedApart ==
    ASSUME NEW t \in Seq(Chars)
    PROVE  \A j \in Visited(t), k \in Visited(t) : j <= Len(t) => k <= j \/ k >= LexemeEnd(t, j)
<1> DEFINE n == Len(t)
           V == Visited(t)
           E(j) == LexemeEnd(t, j)
           X == {j \in V : \A k \in V : k < j => E(k) <= j}
<1>1. n \in Nat /\ V \subseteq 1..(n + 1) /\ 1 \in V /\ \A k \in V : k <= n => E(k) \in V
    BY VisitedGoesOn
<1>2. \A k \in V : k <= n => E(k) \in (k + 1)..(n + 1)
    <2>1. \A k \in V : k <= n => k \in 1..n
        <3> HIDE DEF V, n
        <3> QED BY <1>1
    <2> QED BY <2>1, LexemeEndFits
<1>3. \A Y : Y \subseteq 1..(n + 1) /\ 1 \in Y /\ (\A k \in Y : k <= n => E(k) \in Y) => V \subseteq Y
    BY VisitedWithin DEF ClosedOnwards
<1> HIDE DEF V, n, E
<1>4. ASSUME NEW j \in X, j <= n, NEW k \in V
      PROVE  k <= j \/ k >= E(j)
    <2> DEFINE Y == {i \in V : i <= j \/ i >= E(j)}
    <2>1. \A i \in V : i \in Int
        BY <1>1
    <2>2. 1 \in Y
        BY <1>1
    <2>3. ASSUME NEW i \in Y, i <= n
          PROVE  E(i) \in Y
        <3>1. i \in V /\ j \in V /\ E(i) \in V /\ i \in Int /\ j \in Int /\ E(i) \in Int /\ E(j) \in Int
            BY <2>3, <1>1, <1>4, <2>1
        <3>2. E(i) > i /\ E(j) > j
            BY <3>1, <1>2, <1>4, <2>3
        <3>3. CASE i < j
            BY <3>1, <3>3, <1>4
        <3>4. CASE i = j
            BY <3>1, <3>4
        <3>5. CASE i > j
            BY <3>1, <3>2, <3>5, <2>3
        <3> QED BY <3>1, <3>3, <3>4, <3>5
    <2>4. V \subseteq Y
        <3>1. Y \subseteq 1..(n + 1)
            BY <1>1
        <3> HIDE DEF Y
        <3> QED BY <3>1, <2>2, <2>3, <1>3
    <2> QED BY <2>4
<1>5. 1 \in X
    BY <1>1
<1>6. ASSUME NEW j \in X, j <= n
      PROVE  E(j) \in X
    <2>1. j \in V /\ E(j) \in V /\ j \in Int /\ E(j) \in Int /\ j < E(j)
        BY <1>1, <1>2, <1>6
    <2>2. ASSUME NEW k \in V, k < E(j)
          PROVE  E(k) <= E(j)
        <3>1. k \in Int /\ k <= j
            BY <2>1, <2>2, <1>1, <1>4, <1>6
        <3>2. k <= n /\ E(k) \in Int
            BY <3>1, <1>1, <1>2, <1>6, <2>1
        <3>3. CASE k < j
            <4>1. E(k) <= j
                BY <3>3, <1>6
            <4> QED BY <4>1, <3>2, <2>1
        <3>4. CASE k = j
            BY <3>4, <2>1
        <3> QED BY <3>1, <3>3, <3>4, <2>1
    <2> QED BY <2>1, <2>2
<1>7. V \subseteq X
    <2>1. X \subseteq 1..(n + 1)
        BY <1>1
    <2> HIDE DEF X
    <2> QED BY <2>1, <1>5, <1>6, <1>3
<1>8. \A j \in V, k \in V : j <= n => k <= j \/ k >= E(j)
    BY <1>4, <1>7
<1> QED BY <1>8 DEF V, n, E

\* Every place is in the lexeme of one it comes to.
LEMMA VisitedCover ==
    ASSUME NEW t \in Seq(Chars), NEW k \in 1..Len(t)
    PROVE  \E j \in Visited(t) : j \in 1..k /\ j <= Len(t) /\ k < LexemeEnd(t, j)
<1> DEFINE n == Len(t)
           V == Visited(t)
           E(j) == LexemeEnd(t, j)
           X == {j \in V : j <= k}
           Y == {m \in 0..n : \E j \in V : j >= m}
<1>1. n \in Nat /\ V \subseteq 1..(n + 1) /\ 1 \in V /\ k \in 1..n /\ \A j \in V : j <= n => E(j) \in V
    BY VisitedGoesOn
<1>2. \A j \in 1..n : E(j) \in (j + 1)..(n + 1)
    BY LexemeEndFits
<1>3. \A Z : Z \subseteq 1..(n + 1) /\ 1 \in Z /\ (\A j \in Z : j <= n => E(j) \in Z) => V \subseteq Z
    BY VisitedWithin DEF ClosedOnwards
<1> SUFFICES ASSUME \A j \in V : ~ (j \in 1..k /\ j <= n /\ k < E(j))
             PROVE  FALSE
    OBVIOUS
<1> HIDE DEF V, n, E
<1>4. ASSUME NEW j \in V
      PROVE  /\ j \in 1..(n + 1) /\ (j <= n => E(j) \in V /\ E(j) \in (j + 1)..(n + 1))
             /\ j <= k => E(j) <= k
    <2>1. j \in 1..(n + 1) /\ (j <= n => j \in 1..n)
        BY <1>1, <1>4
    <2>2. j <= n => E(j) \in V /\ E(j) \in (j + 1)..(n + 1)
        BY <2>1, <1>1, <1>2
    <2>3. j <= k => j \in 1..k /\ j <= n
        BY <2>1, <1>1
    <2>4. j <= k => ~ (k < E(j))
        BY <2>3
    <2>5. ASSUME j <= k PROVE E(j) <= k
        <3>1. E(j) \in (j + 1)..(n + 1)
            BY <2>2, <2>3, <2>5
        <3> QED BY <3>1, <2>1, <2>4, <2>5, <1>1
    <2> QED BY <2>1, <2>2, <2>5
<1>5. V \subseteq X
    <2>0. 1 <= k /\ X \subseteq V
        BY <1>1
    <2>1. X \subseteq 1..(n + 1) /\ 1 \in X
        BY <2>0, <1>1
    <2>2. ASSUME NEW j \in X, j <= n PROVE E(j) \in X
        BY <2>2, <1>4
    <2> HIDE DEF X
    <2> QED BY <2>1, <2>2, <1>3
<1>6. ASSUME NEW m \in 0..n, m \in Y, m < n
      PROVE  m + 1 \in Y
    <2>1. PICK j \in V : j >= m
        BY <1>6
    <2>2. j \in 1..(n + 1) /\ j <= k /\ j <= n
        BY <1>1, <1>4, <1>5
    <2>3. E(j) \in (j + 1)..(n + 1) /\ E(j) \in V
        BY <2>2, <1>4
    <2>4. E(j) >= m + 1
        BY <2>1, <2>2, <2>3, <1>1
    <2>5. m + 1 \in 0..n
        BY <1>6, <1>1
    <2> QED BY <2>3, <2>4, <2>5
<1>7. 0 \in Y
    <2>1. 0 \in 0..n /\ 1 >= 0
        BY <1>1
    <2> QED BY <2>1, <1>1
<1>8. 0..n \subseteq Y
    <2> HIDE DEF Y
    <2> QED BY <1>1, <1>6, <1>7, CountingUp
<1>9. PICK j \in V : j >= n
    <2>1. n \in 0..n
        BY <1>1
    <2> QED BY <2>1, <1>8
<1>10. j \in 1..(n + 1) /\ j <= k /\ j <= n
    BY <1>1, <1>4, <1>5
<1>11. E(j) \in (j + 1)..(n + 1) /\ E(j) <= k
    BY <1>4, <1>10
<1> QED BY <1>1, <1>9, <1>10, <1>11

\* A lexeme starts where it was come to, or behind the E, and is not empty.
LEMMA LexemesStart ==
    ASSUME NEW t \in Seq(Chars), NEW i \in 1..Len(t)
    PROVE  LET l == Pg!LexemeAt(t, i) IN
           /\ l.end = LexemeEnd(t, i) /\ l.end \in (i + 1)..(Len(t) + 1)
           /\ l.start \in i..(l.end - 1)
           /\ l.start = IF l.kind = "EString" THEN i + 1 ELSE i
           /\ l.kind = "EString" => t[i] = "E" /\ t[i + 1] = Apostrophe
<1> DEFINE n == Len(t)
           l == Pg!LexemeAt(t, i)
<1>1. n \in Nat /\ i \in 1..n
    OBVIOUS
<1>2. l.end = LexemeEnd(t, i) /\ l.end \in (i + 1)..(n + 1)
    BY LexemesFit DEF LexemeEnd
<1>3. KindFits(t, l, i)
    BY KindsFit
<1>4. CASE Pg!OpensE(t, i)
    <2> DEFINE end == Pg!EStringEnd(t, i + 2)
    <2>1. l = Pg!Lexeme(t, "EString", i + 1, end)
        BY <1>4, LexemesAre
    <2>2. i + 1 \in 1..n /\ t[i] = "E" /\ t[i + 1] = Apostrophe
        <3>1. Pg!At(t, i + 1) = Apostrophe /\ t[i] = "E" /\ Apostrophe # Pg!Nothing
            BY <1>4, MarksDiffer DEF Pg!OpensE, Pg!Apostrophe, Apostrophe, Pg!Nothing
        <3> QED BY <3>1 DEF Pg!At
    <2>3. Clipped(t, end) \in (i + 2)..(n + 1)
        <3>1. i + 2 \in 1..(Len(t) + 1)
            <4> HIDE DEF n
            <4>1. i + 2 \in 1..(n + 1)
                BY <2>2, <1>1
            <4> QED BY <4>1 DEF n
        <3>2. EscapedEnd(t, i + 2) \in (i + 2)..(Len(t) + 1)
            BY <3>1, LiteralsFit
        <3> QED BY <3>2 DEF EscapedEnd
    <2> HIDE DEF end, n
    <2>4. l.start = i + 1 /\ l.end = Clipped(t, end) /\ l.kind = "EString"
        BY <2>1, LexemesHave
    <2>5. l.start \in i..(l.end - 1)
        <3> DEFINE b == l.end
        <3>1. b \in (i + 2)..(n + 1)
            BY <2>3, <2>4
        <3> HIDE DEF b
        <3>2. i + 1 \in i..(b - 1)
            BY <3>1, <1>1
        <3> QED BY <3>2, <2>4 DEF b
    <2> HIDE DEF l
    <2>6. l.end \in (i + 1)..(n + 1)
        BY <1>2
    <2> QED BY <1>2, <2>2, <2>4, <2>5, <2>6 DEF l, n
<1>5. CASE ~ Pg!OpensE(t, i)
    <2>1. l.kind # "EString"
        <3> SUFFICES ASSUME l.kind = "EString" PROVE FALSE
            OBVIOUS
        <3>1. t[i] = "E" /\ t[i] \in Letters
            BY <1>3 DEF KindFits, Letters
        <3> DEFINE end == Pg!WordEnd(t, i)
        <3>2. l = Pg!Lexeme(t, "Word", i, end)
            BY <3>1, <1>5, LexemesAre
        <3> HIDE DEF end, l
        <3>3. l.kind = "Word"
            BY <3>2, LexemesHave
        <3> QED BY <3>3
    <2> HIDE DEF l
    <2>2. l.start = i
        BY <2>1, <1>3 DEF KindFits
    <2>3. l.start \in i..(l.end - 1)
        <3> DEFINE b == l.end
        <3>1. b \in (i + 1)..(n + 1)
            BY <1>2
        <3> HIDE DEF b, n
        <3>2. i \in i..(b - 1)
            BY <3>1, <1>1
        <3> QED BY <3>2, <2>2 DEF b
    <2> QED BY <1>2, <2>1, <2>2, <2>3 DEF l, n
<1> QED BY <1>4, <1>5

\* What PostgreSQL reads is what it reads at the places it comes to.
LEMMA LexemesVisited ==
    ASSUME NEW t \in Seq(Chars)
    PROVE  /\ \A j \in Visited(t) : j <= Len(t) => Pg!LexemeAt(t, j) \in Pg!Lexemes(t)
           /\ \A l \in Pg!Lexemes(t) : \E j \in Visited(t) : j \in 1..Len(t) /\ l = Pg!LexemeAt(t, j)
<1> DEFINE n == Len(t)
           V == Visited(t)
           L(j) == Pg!LexemeAt(t, j)
           E(j) == LexemeEnd(t, j)
<1>1. PICK g : LexesFrom(t, g) /\ Pg!Lexemes(t) = g[1]
    BY LexingGoesOn
<1>2. n \in Nat /\ V \subseteq 1..(n + 1) /\ 1 \in V /\ \A j \in V : j <= n => E(j) \in V
    BY VisitedGoesOn
<1>3. \A j \in 1..n : E(j) \in (j + 1)..(n + 1)
    BY LexemeEndFits
<1>4. \A Z : Z \subseteq 1..(n + 1) /\ 1 \in Z /\ (\A j \in Z : j <= n => E(j) \in Z) => V \subseteq Z
    BY VisitedWithin DEF ClosedOnwards
<1>5. \A i \in 1..(n + 1) : g[i] = IF i > n THEN {} ELSE {L(i)} \cup g[E(i)]
    <2> DEFINE G(i) == IF i > n THEN {} ELSE {L(i)} \cup g[L(i).end]
    <2>1. g = [i \in 1..(n + 1) |-> G(i)]
        BY <1>1 DEF LexesFrom
    <2> HIDE DEF G
    <2>2. \A i \in 1..(n + 1) : g[i] = G(i)
        BY <2>1
    <2> QED BY <2>2 DEF G, LexemeEnd
<1> HIDE DEF n, V, L, E
<1>6. \A j \in 1..(n + 1) : j <= n => j \in 1..n /\ ~ (j > n)
    BY <1>2
<1> DEFINE X == {j \in 1..(n + 1) : g[j] \subseteq g[1]}
<1>7. V \subseteq X
    <2>1. X \subseteq 1..(n + 1) /\ 1 \in X
        BY <1>2
    <2>2. ASSUME NEW j \in X, j <= n PROVE E(j) \in X
        <3>1. j \in 1..n /\ g[j] = {L(j)} \cup g[E(j)]
            BY <2>2, <1>5, <1>6
        <3>2. E(j) \in 1..(n + 1)
            BY <3>1, <1>2, <1>3
        <3> QED BY <3>1, <3>2
    <2> HIDE DEF X
    <2> QED BY <2>1, <2>2, <1>4
<1>8. ASSUME NEW j \in V, j <= n
      PROVE  L(j) \in g[1]
    <2>1. j \in 1..n /\ g[j] = {L(j)} \cup g[E(j)]
        BY <1>2, <1>5, <1>6, <1>8
    <2> QED BY <2>1, <1>7
<1> DEFINE M == {L(j) : j \in {k \in V : k \in 1..n}}
           S == {i \in 1..(n + 1) : i \in V => g[i] \subseteq M}
<1>9. ASSUME NEW i \in 1..(n + 1), \A k \in (i + 1)..(n + 1) : k \in S
      PROVE  i \in S
    <2> SUFFICES ASSUME i \in V PROVE g[i] \subseteq M
        OBVIOUS
    <2>1. CASE i > n
        BY <2>1, <1>5
    <2>2. CASE ~ (i > n)
        <3>1. i \in 1..n /\ i <= n
            BY <2>2, <1>2
        <3>2. g[i] = {L(i)} \cup g[E(i)]
            BY <2>2, <1>5
        <3>3. E(i) \in (i + 1)..(n + 1) /\ E(i) \in V
            BY <3>1, <1>2, <1>3
        <3>4. g[E(i)] \subseteq M
            BY <3>3, <1>9
        <3>5. L(i) \in M
            BY <3>1
        <3> HIDE DEF M
        <3> QED BY <3>2, <3>4, <3>5
    <2> QED BY <2>1, <2>2
<1>10. 1 \in S
    <2> HIDE DEF S
    <2>1. n + 1 \in Nat /\ 1 \in 1..(n + 1)
        BY <1>2
    <2> DEFINE k == n + 1
    <2>2. k \in Nat /\ 1 \in 1..k /\ \A i \in 1..k : (\A j \in (i + 1)..k : j \in S) => i \in S
        BY <2>1, <1>9
    <2> HIDE DEF k
    <2>3. 1..k \subseteq S
        BY <2>2, CountingDown
    <2> QED BY <2>2, <2>3
<1>11. g[1] \subseteq M
    BY <1>2, <1>10
<1> QED BY <1>1, <1>8, <1>11 DEF V, n, L

\* What the scanner takes for code in the lexeme that is come to at j.
CodeAt(t, j) == j..(CodeBefore(Pg!LexemeAt(t, j), j) - 1)

LEMMA CodeVisited ==
    ASSUME NEW t \in Seq(Chars), PlainIn(t, Pg!Lexemes(t)), NEW j \in Visited(t), j <= Len(t)
    PROVE  /\ CodeAt(t, j) \subseteq j..(LexemeEnd(t, j) - 1)
           /\ \A k \in j..(LexemeEnd(t, j) - 1) : k \in CodeIn(Scan(t)) <=> k \in CodeAt(t, j)
<1> DEFINE n == Len(t)
           V == Visited(t)
           E(i) == LexemeEnd(t, i)
<1>1. PICK f : ScansFrom(t, f) /\ Scan(t) = f[1]
    BY ScanGoesOn
<1>2. n \in Nat /\ V \subseteq 1..(n + 1) /\ 1 \in V /\ \A i \in V : i <= n => E(i) \in V
    BY VisitedGoesOn
<1>3. \A Z : Z \subseteq 1..(n + 1) /\ 1 \in Z /\ (\A i \in Z : i <= n => E(i) \in Z) => V \subseteq Z
    BY VisitedWithin DEF ClosedOnwards
<1>4. \A i \in V : i <= n => i \in 1..n
    <2> HIDE DEF V, n
    <2> QED BY <1>2
<1>5. ASSUME NEW i \in V, i <= n
      PROVE  /\ E(i) \in (i + 1)..(n + 1)
             /\ CodeAt(t, i) \subseteq i..(E(i) - 1)
             /\ CodeIn(f[i]) = CodeAt(t, i) \cup CodeIn(f[E(i)])
    <2> DEFINE l == Pg!LexemeAt(t, i)
    <2>1. i \in 1..Len(t)
        BY <1>4, <1>5
    <2>2. l \in Pg!Lexemes(t)
        BY <1>5, LexemesVisited
    <2>3. PlainIn(t, {l})
        <3> HIDE DEF l
        <3> QED BY <2>2 DEF PlainIn
    <2>4. Matches(t, l, i) /\ l.end \in (i + 1)..(Len(t) + 1) /\ l.end = E(i) /\ l.start \in i..(l.end - 1)
        BY <2>1, <2>3, LexemesMatch, LexemesStart
    <2> HIDE DEF l
    <2>5. CodeIn(f[i]) = i..(CodeBefore(l, i) - 1) \cup CodeIn(f[l.end])
        BY <2>1, <2>4, <1>1, CodeOfLexeme
    <2>6. i..(CodeBefore(l, i) - 1) \subseteq i..(l.end - 1)
        <3> DEFINE a == l.start
                   b == l.end
        <3>1. CodeBefore(l, i) = b \/ CodeBefore(l, i) = a
            BY DEF CodeBefore
        <3>2. b \in (i + 1)..(n + 1) /\ a \in i..(b - 1) /\ i \in Int
            BY <2>1, <2>4
        <3> HIDE DEF a, b, n
        <3> DEFINE c == CodeBefore(l, i)
        <3>3. c = b \/ c = a
            BY <3>1
        <3> HIDE DEF c
        <3>4. i..(c - 1) \subseteq i..(b - 1)
            BY <3>2, <3>3
        <3> QED BY <3>4 DEF b, c
    <2> QED BY <2>4, <2>5, <2>6 DEF CodeAt, l
<1> DEFINE X == {i \in V : Sound(f, i)}
<1>6. V \subseteq X
    <2>1. Sound(f, 1)
        <3>1. 1 \in 1..(Len(t) + 1)
            BY <1>2
        <3>2. CodeIn(f[1]) \subseteq 1..Len(t)
            BY <3>1, <1>1, CodeFrom
        <3>3. \A k \in CodeIn(f[1]) : k >= 1
            BY <3>2
        <3> QED BY <3>3 DEF Sound
    <2>2. ASSUME NEW i \in X, i <= n PROVE E(i) \in X
        <3> DEFINE e == E(i)
        <3>1. i \in 1..Len(t) /\ i \in V /\ e \in V
            BY <2>2, <1>2, <1>4
        <3>2. e \in (i + 1)..(Len(t) + 1) /\ CodeAt(t, i) \subseteq i..(e - 1)
              /\ CodeIn(f[i]) = CodeAt(t, i) \cup CodeIn(f[e])
            BY <3>1, <2>2, <1>5
        <3> HIDE DEF e
        <3>3. Sound(f, e)
            BY <3>1, <3>2, <2>2, <1>1, SoundLater
        <3> QED BY <3>1, <3>3 DEF e
    <2>3. X \subseteq 1..(n + 1) /\ 1 \in X
        BY <1>2, <2>1
    <2> HIDE DEF X, n, V, E
    <2> QED BY <2>2, <2>3, <1>3
<1>7. Sound(f, j) /\ j \in V /\ j <= n
    BY <1>6
<1>8. CodeIn(f[E(j)]) \subseteq E(j)..n
    <2>1. E(j) \in 1..(Len(t) + 1)
        BY <1>2, <1>7
    <2> QED BY <2>1, <1>1, CodeFrom
<1> DEFINE e == E(j)
           C == CodeIn(f[1])
<1>9. /\ e \in (j + 1)..(n + 1) /\ CodeAt(t, j) \subseteq j..(e - 1)
      /\ CodeIn(f[j]) = CodeAt(t, j) \cup CodeIn(f[e])
    BY <1>5, <1>7
<1>10. j \in Int
    BY <1>4, <1>7
<1>11. ASSUME NEW k \in j..(e - 1)
       PROVE  k \in C <=> k \in CodeAt(t, j)
    <2>1. CodeIn(f[j]) = {i \in C : i >= j}
        BY <1>7 DEF Sound
    <2> HIDE DEF e, C, n
    <2>2. k >= j /\ k \notin e..n
        BY <1>2, <1>9, <1>10, <1>11
    <2>3. k \notin CodeIn(f[e])
        BY <2>2, <1>8 DEF e
    <2> QED BY <2>1, <2>2, <2>3, <1>9
<1> QED BY <1>1, <1>9, <1>11

\* No two lexemes start at one place.
LEMMA LexemesDiffer ==
    ASSUME NEW t \in Seq(Chars), NEW l \in Pg!Lexemes(t),
           NEW j \in Visited(t), j <= Len(t), l.start \in j..(LexemeEnd(t, j) - 1)
    PROVE  l = Pg!LexemeAt(t, j)
<1> DEFINE n == Len(t)
           a == l.start
           e == LexemeEnd(t, j)
<1>1. PICK i \in Visited(t) : i \in 1..n /\ l = Pg!LexemeAt(t, i)
    BY LexemesVisited
<1> DEFINE b == LexemeEnd(t, i)
<1>2. a \in i..(b - 1) /\ b \in (i + 1)..(n + 1) /\ a \in j..(e - 1)
    BY <1>1, LexemesStart
<1>3. /\ i <= j \/ i >= e
      /\ j <= i \/ j >= b
    <2>1. \A x \in Visited(t), y \in Visited(t) : x <= Len(t) => y <= x \/ y >= LexemeEnd(t, x)
        BY VisitedApart
    <2>2. i <= Len(t)
        BY <1>1
    <2> QED BY <2>1, <2>2, <1>1
<1>4. n \in Nat /\ j \in 1..n /\ e \in (j + 1)..(n + 1)
    <2>1. Visited(t) \subseteq 1..(Len(t) + 1)
        BY VisitedGoesOn
    <2>2. j \in 1..Len(t)
        BY <2>1
    <2> QED BY <2>2, LexemeEndFits
<1>5. i \in 1..n
    BY <1>1
<1> HIDE DEF a, b, e, n
<1>6. i = j
    BY <1>2, <1>3, <1>4, <1>5
<1> QED BY <1>1, <1>6

-----------------------------------------------------------------------------
(* Words                                                                   *)

InWord == Letters \cup Digits \cup {"$"}

LEMMA WordEndsAre ==
    ASSUME NEW t, NEW i
    PROVE  /\ Pg!WordEnd(t, i) = Min({j \in i..Len(t) : t[j] \notin InWord} \cup {Len(t) + 1})
           /\ Pg!ParamEnd(t, i) = Min({j \in (i + 1)..Len(t) : t[j] \notin Digits} \cup {Len(t) + 1})
BY SameCharacters DEF Pg!WordEnd, Pg!ParamEnd, Pg!Least, Pg!InWord, Pg!Min, Min, InWord

LEMMA WordsEnd ==
    ASSUME NEW t \in Seq(Chars), NEW i \in 1..Len(t)
    PROVE  Pg!WordEnd(t, i) <= Len(t) => t[Pg!WordEnd(t, i)] \notin InWord
<1> DEFINE n == Len(t)
           S == {j \in i..n : t[j] \notin InWord}
           m == Min(S \cup {n + 1})
<1>1. n \in Nat /\ i \in 1..(n + 1) /\ S \subseteq i..n /\ \A j \in S : t[j] \notin InWord
    OBVIOUS
<1>2. Pg!WordEnd(t, i) = m
    BY WordEndsAre
<1> HIDE DEF n, S
<1>3. m \in i..(n + 1) /\ (m \in S \/ m = n + 1)
    BY <1>1, LeastPlace
<1> HIDE DEF m
<1>4. m <= n => m \in S
    BY <1>1, <1>3
<1> QED BY <1>1, <1>2, <1>4 DEF n

\* What code there is in a lexeme.
CodeKind(t, j, l, k) ==
    \/ l.kind = "EString" /\ k = j /\ t[k] = "E" /\ t[k + 1] = Apostrophe /\ l.start = k + 1
    \/ l.kind = "Word" /\ t[k] \in InWord
    \/ l.kind = "Parameter" /\ (IF k = j THEN t[k] = "$" ELSE t[k] \in Digits)
    \/ l.kind = "Other" /\ k = j /\ t[k] \notin Letters \cup {"$", Apostrophe, Quote} /\ l.end = j + 1

LEMMA CodeKinds ==
    ASSUME NEW t \in Seq(Chars), NEW j \in 1..Len(t), NEW k \in CodeAt(t, j)
    PROVE  CodeKind(t, j, Pg!LexemeAt(t, j), k)
<1> DEFINE n == Len(t)
           l == Pg!LexemeAt(t, j)
<1>1. n \in Nat /\ j \in 1..n
    OBVIOUS
<1>2. /\ l \in LexemesOf(t) /\ KindFits(t, l, j) /\ l.end \in (j + 1)..(n + 1)
      /\ l.start = (IF l.kind = "EString" THEN j + 1 ELSE j)
      /\ (l.kind = "EString" => t[j] = "E" /\ t[j + 1] = Apostrophe)
    BY LexemesFit, KindsFit, LexemesStart
<1>3. CodeBefore(l, j) = IF l.kind \in {"Parameter", "Word", "Other"} THEN l.end ELSE l.start
    <2>1. l.kind \in Kinds
        BY <1>2 DEF LexemesOf
    <2> QED BY <2>1, NamedOne DEF CodeBefore, Kinds
<1>4. k \in j..(CodeBefore(l, j) - 1)
    BY DEF CodeAt
<1>5. Pg!WordEnd(t, j) = l.end => \A i \in j..(l.end - 1) : t[i] \in InWord
    BY WordsFit DEF InWord
<1>6. Pg!ParamEnd(t, j) = l.end => \A i \in (j + 1)..(l.end - 1) : t[i] \in Digits
    BY WordsFit
<1> SUFFICES CodeKind(t, j, l, k)
    OBVIOUS
<1> HIDE DEF l
<1>7. CASE l.kind = "EString"
    <2>1. k \in j..((j + 1) - 1)
        BY <1>2, <1>3, <1>4, <1>7
    <2> HIDE DEF n
    <2>2. k = j
        BY <2>1, <1>1
    <2> QED BY <2>2, <1>2, <1>7 DEF CodeKind
<1>8. CASE l.kind = "Word"
    <2>1. k \in j..(l.end - 1)
        BY <1>3, <1>4, <1>8
    <2>2. t[k] \in InWord
        BY <2>1, <1>2, <1>5, <1>8 DEF KindFits
    <2> QED BY <2>2, <1>8 DEF CodeKind
<1>9. CASE l.kind = "Parameter"
    <2>1. k \in j..(l.end - 1) /\ t[j] = "$" /\ l.end = Pg!ParamEnd(t, j)
        BY <1>2, <1>3, <1>4, <1>9 DEF KindFits
    <2>2. k # j => k \in (j + 1)..(l.end - 1)
        <3> DEFINE e == l.end
        <3>1. k \in j..(e - 1) /\ e \in (j + 1)..(n + 1)
            BY <2>1, <1>2
        <3> HIDE DEF e, n
        <3>2. k # j => k \in (j + 1)..(e - 1)
            BY <3>1, <1>1
        <3> QED BY <3>2 DEF e
    <2> QED BY <2>1, <2>2, <1>6, <1>9 DEF CodeKind
<1>10. CASE l.kind = "Other"
    <2>1. l.end = j + 1 /\ t[j] \notin {Apostrophe, Quote, "$"} \cup Letters
        BY <1>2, <1>10 DEF KindFits
    <2>2. k \in j..((j + 1) - 1)
        BY <2>1, <1>3, <1>4, <1>10
    <2> HIDE DEF n
    <2>3. k = j
        BY <2>2, <1>1
    <2> QED BY <2>1, <2>3, <1>10 DEF CodeKind
<1>11. CASE l.kind \notin {"EString", "Word", "Parameter", "Other"}
    <2>1. k \in j..(j - 1)
        BY <1>2, <1>3, <1>4, <1>11
    <2> HIDE DEF n
    <2>2. FALSE
        BY <2>1, <1>1
    <2> QED BY <2>2
<1> QED BY <1>7, <1>8, <1>9, <1>10, <1>11

\* The scanner's keyword at i, told from its code alone.
KeywordInCode(t, C, i) ==
    /\ i \in C /\ t[i] = "p"
    /\ i + 1 \in C => t[i + 1] \notin InWord
    /\ \A k \in 1..(i - 1) : (\A j \in k..i : j \in C /\ t[j] \in InWord) => t[k] \notin Letters

LEMMA PIsALetter == "p" \in Letters /\ Letters \subseteq InWord /\ "E" # "p" /\ "$" # "p" /\ "p" \notin Digits
BY DEF Letters, InWord, Digits

\* A keyword PostgreSQL sees is a keyword of the scanner, and the other way round.
LEMMA KeywordsAlike ==
    ASSUME NEW t \in Seq(Chars), PlainIn(t, Pg!Lexemes(t)), NEW i \in 1..Len(t)
    PROVE  KeywordInCode(t, CodeIn(Scan(t)), i)
               <=> \E l \in Pg!Lexemes(t) : l.kind = "Word" /\ l.start = i /\ l.end = i + 1 /\ t[i] = "p"
<1> DEFINE n == Len(t)
           C == CodeIn(Scan(t))
<1>1. n \in Nat /\ i \in 1..n
    OBVIOUS
<1>2. PICK j \in Visited(t) : j \in 1..i /\ j <= n /\ i < LexemeEnd(t, j)
    BY VisitedCover
<1> DEFINE m == Pg!LexemeAt(t, j)
           e == LexemeEnd(t, j)
<1>3. j \in 1..Len(t)
    <2>1. j \in 1..n
        <3> HIDE DEF n
        <3> QED BY <1>1, <1>2
    <2> QED BY <2>1
<1>4. /\ m.end = e /\ e \in (j + 1)..(n + 1) /\ KindFits(t, m, j)
      /\ m.start = (IF m.kind = "EString" THEN j + 1 ELSE j)
    BY <1>3, LexemesStart, KindsFit
<1>5. CodeAt(t, j) \subseteq j..(e - 1) /\ \A k \in j..(e - 1) : k \in C <=> k \in CodeAt(t, j)
    BY <1>2, CodeVisited
<1>6. \A k \in CodeAt(t, j) : CodeKind(t, j, m, k)
    BY <1>3, CodeKinds
<1>7. m.kind = "Word" => CodeAt(t, j) = j..(e - 1)
    BY <1>4, NamedOne DEF CodeAt, CodeBefore
<1>8. m \in Pg!Lexemes(t)
    BY <1>2, LexemesVisited
<1>9. m.kind = "Word" => e = Pg!WordEnd(t, j) /\ t[j] \in Letters /\ (e <= n => t[e] \notin InWord)
    <2>1. Pg!WordEnd(t, j) <= n => t[Pg!WordEnd(t, j)] \notin InWord
        BY <1>3, WordsEnd
    <2> QED BY <2>1, <1>4 DEF KindFits
<1>a. \A l \in Pg!Lexemes(t) : l.start = i => l = m
    <2> SUFFICES ASSUME NEW l \in Pg!Lexemes(t), l.start = i PROVE l = m
        OBVIOUS
    <2>1. i \in j..(e - 1)
        <3> HIDE DEF e, n
        <3> QED BY <1>1, <1>2, <1>4 DEF e
    <2> QED BY <2>1, <1>2, LexemesDiffer
<1> HIDE DEF m, e, n, C
<1>b. i \in j..(e - 1) /\ j \in Int /\ e \in Int /\ i \in Int
    BY <1>1, <1>2, <1>4 DEF e
<1>10. ASSUME KeywordInCode(t, C, i)
       PROVE  m.kind = "Word" /\ m.start = i /\ m.end = i + 1 /\ t[i] = "p"
    <2>1. i \in C /\ t[i] = "p"
        BY <1>10 DEF KeywordInCode
    <2>2. CodeKind(t, j, m, i)
        BY <2>1, <1>b, <1>5, <1>6
    <2>3. m.kind = "Word"
        BY <2>1, <2>2, PIsALetter DEF CodeKind
    <2>4. \A k \in j..(e - 1) : k \in C /\ t[k] \in InWord
        <3>1. \A k \in j..(e - 1) : k \in CodeAt(t, j) /\ k \in C
            BY <2>3, <1>5, <1>7
        <3> QED BY <3>1, <2>3, <1>6 DEF CodeKind
    <2>5. i = j
        <3> SUFFICES ASSUME i # j PROVE FALSE
            OBVIOUS
        <3>1. j \in 1..(i - 1)
            BY <1>1, <1>2
        <3>2. \A k \in j..i : k \in j..(e - 1)
            BY <1>b
        <3>3. \A k \in j..i : k \in C /\ t[k] \in InWord
            BY <3>2, <2>4
        <3>4. t[j] \notin Letters
            BY <3>1, <3>3, <1>10 DEF KeywordInCode
        <3> QED BY <3>4, <2>3, <1>9
    <2>6. e = i + 1
        <3>1. i + 1 \in j..(e - 1) => FALSE
            BY <2>4, <1>10 DEF KeywordInCode
        <3> QED BY <3>1, <1>b
    <2> QED BY <2>1, <2>3, <2>5, <2>6, <1>4
<1>11. ASSUME NEW l \in Pg!Lexemes(t), l.kind = "Word" /\ l.start = i /\ l.end = i + 1 /\ t[i] = "p"
       PROVE  KeywordInCode(t, C, i)
    <2>1. m.kind = "Word" /\ j = i /\ e = i + 1 /\ t[i] = "p"
        <3>1. l = m
            BY <1>11, <1>a
        <3> QED BY <3>1, <1>11, <1>4
    <2>2. i \in C
        BY <2>1, <1>b, <1>5, <1>7
    <2>3. i + 1 \in C => t[i + 1] \notin InWord
        <3>1. C \subseteq 1..n
            <4>1. PICK f : ScansFrom(t, f) /\ Scan(t) = f[1]
                BY ScanGoesOn
            <4>2. 1 \in 1..(Len(t) + 1)
                BY <1>1 DEF n
            <4> QED BY <4>1, <4>2, CodeFrom DEF C, n
        <3>2. i + 1 \in C => e <= n
            BY <3>1, <2>1, <1>1
        <3> QED BY <3>2, <2>1, <1>9
    <2>4. ASSUME NEW k \in 1..(i - 1), \A h \in k..i : h \in C /\ t[h] \in InWord, t[k] \in Letters
          PROVE  FALSE
        <3>1. k \in 1..Len(t) /\ k \in k..i /\ k < i
            <4> HIDE DEF n
            <4>1. k \in 1..n
                BY <1>1, <2>4
            <4>2. k \in k..i /\ k < i
                BY <1>1, <2>4
            <4> QED BY <4>1, <4>2 DEF n
        <3>2. PICK h \in Visited(t) : h \in 1..k /\ h <= Len(t) /\ k < LexemeEnd(t, h)
            BY <3>1, VisitedCover
        <3> DEFINE w == Pg!LexemeAt(t, h)
                   x == LexemeEnd(t, h)
        <3>3. h \in 1..Len(t)
            <4>1. h \in 1..n
                BY <3>1, <3>2 DEF n
            <4> QED BY <4>1 DEF n
        <3>4. /\ w.end = x /\ x \in (h + 1)..(n + 1) /\ KindFits(t, w, h)
              /\ w.start = (IF w.kind = "EString" THEN h + 1 ELSE h)
            BY <3>3, LexemesStart, KindsFit DEF n
        <3>5. \A y \in h..(x - 1) : y \in C <=> y \in CodeAt(t, h)
            BY <3>2, CodeVisited DEF C
        <3>6. \A y \in CodeAt(t, h) : CodeKind(t, h, w, y)
            BY <3>3, CodeKinds
        <3>7. w.kind = "Word" => x = Pg!WordEnd(t, h) /\ (x <= n => t[x] \notin InWord)
            <4>1. Pg!WordEnd(t, h) <= Len(t) => t[Pg!WordEnd(t, h)] \notin InWord
                BY <3>3, WordsEnd
            <4> QED BY <4>1, <3>4 DEF KindFits, n
        <3>8. i \in h..(x - 1) => l = w
            <4> HIDE DEF w
            <4> QED BY <3>2, <1>11, LexemesDiffer DEF w
        <3> HIDE DEF w, x
        <3>9. k \in h..(x - 1) /\ h \in Int /\ x \in Int
            BY <3>1, <3>2, <3>4, <1>1 DEF x
        <3>10. CodeKind(t, h, w, k)
            BY <3>1, <3>5, <3>6, <3>9, <2>4
        <3>11. w.kind \in {"Word", "EString"}
            BY <3>10, <2>4 DEF CodeKind, Letters, Digits
        <3>12. w.kind # "EString"
            <4> SUFFICES ASSUME w.kind = "EString" PROVE FALSE
                OBVIOUS
            <4>1. t[k + 1] = Apostrophe
                BY <3>10 DEF CodeKind
            <4>2. k + 1 \in k..i
                BY <3>1, <1>1
            <4>3. Apostrophe \notin InWord
                BY MarksDiffer DEF InWord
            <4> QED BY <4>1, <4>2, <4>3, <2>4
        <3>13. x > i
            <4> SUFFICES ASSUME x <= i PROVE FALSE
                BY <3>9, <1>b
            <4>1. x \in k..i /\ x <= n
                BY <3>9, <1>1
            <4> QED BY <4>1, <3>7, <3>11, <3>12, <2>4
        <3>14. i \in h..(x - 1)
            BY <3>9, <3>13, <3>1, <1>b
        <3>15. w.start = i
            BY <3>8, <3>14, <1>11
        <3> QED BY <3>15, <3>4, <3>12, <3>1, <3>9
    <2>5. \A k \in 1..(i - 1) : (\A h \in k..i : h \in C /\ t[h] \in InWord) => t[k] \notin Letters
        BY <2>4
    <2> QED BY <2>1, <2>2, <2>3, <2>5 DEF KeywordInCode
<1>12. KeywordInCode(t, C, i) => m.kind = "Word" /\ m.start = i /\ m.end = i + 1 /\ t[i] = "p"
    BY <1>10
<1>13. (\E l \in Pg!Lexemes(t) : l.kind = "Word" /\ l.start = i /\ l.end = i + 1 /\ t[i] = "p")
           => KeywordInCode(t, C, i)
    BY <1>11
<1> QED BY <1>8, <1>12, <1>13 DEF C

\* The spans come one after the other.
LEMMA TilesInOrder ==
    ASSUME NEW t \in Seq(Chars), NEW s, Tiles(t, s, 1)
    PROVE  /\ \A k \in 1..Len(s) : /\ s[k].start \in 1..(Len(t) + 1) /\ s[k].end \in 1..(Len(t) + 1)
                                   /\ s[k].start < s[k].end
           /\ \A j \in 1..Len(s), k \in 1..Len(s) : j < k => s[j].end <= s[k].start
<1> DEFINE n == Len(t)
           m == Len(s)
           a(k) == s[k].start
           b(k) == s[k].end
<1>1. n \in Nat /\ m \in Nat
    BY DEF Tiles
<1>2. \A k \in 1..m : a(k) \in 1..(n + 1) /\ b(k) \in 1..(n + 1) /\ a(k) < b(k)
    <2>1. \A k \in 1..m : s[k] \in SpansOf(t)
        BY DEF Tiles
    <2>2. \A k \in 1..m : a(k) < b(k)
        BY DEF Tiles
    <2> QED BY <2>1, <2>2 DEF SpansOf
<1>3. \A k \in 1..(m - 1) : b(k) = a(k + 1)
    BY DEF Tiles
<1> HIDE DEF n, m, a, b
<1>4. ASSUME NEW j \in 1..m, NEW k \in 1..m, j < k
      PROVE  b(j) <= a(k)
    <2> DEFINE Done == {x \in 0..(m - (j + 1)) : b(j) <= a((j + 1) + x)}
    <2>1. 0 \in Done
        <3>1. b(j) = a(j + 1) /\ (j + 1) + 0 = j + 1 /\ 0 \in 0..(m - (j + 1))
            BY <1>1, <1>3, <1>4
        <3>2. b(j) \in Int
            BY <1>2
        <3> QED BY <3>1, <3>2
    <2>2. ASSUME NEW x \in 0..(m - (j + 1)), x \in Done, x < m - (j + 1)
          PROVE  x + 1 \in Done
        <3> DEFINE y == (j + 1) + x
        <3>1. y \in 1..(m - 1) /\ y \in 1..m /\ y + 1 \in 1..m /\ y + 1 = (j + 1) + (x + 1) /\ x + 1 \in 0..(m - (j + 1))
            BY <1>1, <2>2
        <3>2. b(j) <= a(y)
            BY <2>2
        <3> HIDE DEF y
        <3>3. a(y) < b(y) /\ b(y) = a(y + 1)
            BY <3>1, <1>2, <1>3
        <3>4. b(j) \in Int /\ a(y) \in Int /\ b(y) \in Int
            BY <3>1, <1>2
        <3>5. b(j) <= a((j + 1) + (x + 1))
            BY <3>1, <3>2, <3>3, <3>4
        <3> QED BY <3>1, <3>5
    <2>3. m - (j + 1) \in Nat /\ k - (j + 1) \in 0..(m - (j + 1)) /\ (j + 1) + (k - (j + 1)) = k
        BY <1>1, <1>4
    <2> DEFINE y == m - (j + 1)
    <2> HIDE DEF Done
    <2>4. 0..y \subseteq Done
        <3>1. y \in Nat /\ \A x \in 0..y : x \in Done /\ x < y => x + 1 \in Done
            BY <2>2, <2>3
        <3> HIDE DEF y
        <3> QED BY <3>1, <2>1, CountingUp
    <2>5. k - (j + 1) \in Done
        BY <2>3, <2>4
    <2> DEFINE z == k - (j + 1)
    <2>6. b(j) <= a((j + 1) + z)
        BY <2>5 DEF Done
    <2> QED BY <2>3, <2>6
<1> QED BY <1>2, <1>4 DEF n, m, a, b

\* Behind code and in front of it there is none.
LEMMA CodeSpansAreWhole ==
    ASSUME NEW t \in Seq(Chars), NEW s, Tiles(t, s, 1), NEW span \in ToSet(s), span.segment = "Code"
    PROVE  /\ span.start \in 1..Len(t) /\ span.end \in (span.start + 1)..(Len(t) + 1)
           /\ \A k \in span.start..(span.end - 1) : k \in CodeIn(s)
           /\ span.end \notin CodeIn(s)
           /\ span.start - 1 \notin CodeIn(s)
<1> DEFINE n == Len(t)
           m == Len(s)
           a(k) == s[k].start
           b(k) == s[k].end
<1>1. n \in Nat /\ m \in Nat /\ DOMAIN s = 1..m
    BY DEF Tiles
<1>2. /\ \A k \in 1..m : a(k) \in 1..(n + 1) /\ b(k) \in 1..(n + 1) /\ a(k) < b(k)
      /\ \A j \in 1..m, k \in 1..m : j < k => b(j) <= a(k)
    BY TilesInOrder
<1>3. \A k \in 1..(m - 1) : b(k) = a(k + 1) /\ (s[k].segment # "Code" \/ s[k + 1].segment # "Code")
    BY DEF Tiles
<1>4. PICK i \in 1..m : span = s[i]
    BY <1>1 DEF ToSet
<1>5. \A x : x \in CodeIn(s) <=> \E k \in 1..m : s[k].segment = "Code" /\ x \in a(k)..(b(k) - 1)
    <2>1. \A x : x \in CodeIn(s) <=> \E z \in ToSet(s) : z.segment = "Code" /\ x \in Places(z)
        BY PlacesOfCode
    <2>2. \A x : (\E z \in ToSet(s) : z.segment = "Code" /\ x \in Places(z))
                    <=> \E k \in 1..m : s[k].segment = "Code" /\ x \in Places(s[k])
        BY <1>1 DEF ToSet
    <2> QED BY <2>1, <2>2 DEF Places
<1>6. s[i].segment = "Code" /\ span.start = a(i) /\ span.end = b(i)
    BY <1>4
<1> HIDE DEF n, m, a, b
<1>7. a(i) \in 1..n /\ b(i) \in (a(i) + 1)..(n + 1)
    BY <1>1, <1>2
<1>8. \A k \in a(i)..(b(i) - 1) : k \in CodeIn(s)
    BY <1>5, <1>6
<1>9. ASSUME NEW k \in 1..m, s[k].segment = "Code", b(i) \in a(k)..(b(k) - 1)
      PROVE  FALSE
    <2>1. a(k) \in Int /\ b(k) \in Int /\ a(i) \in Int /\ b(i) \in Int
        BY <1>2
    <2>2. k > i
        <3>1. ~ (k < i)
            BY <1>2, <1>9, <2>1
        <3>2. k # i
            BY <1>9, <2>1
        <3> QED BY <3>1, <3>2
    <2>3. i \in 1..(m - 1) /\ i + 1 \in 1..m /\ (k = i + 1 \/ i + 1 < k)
        BY <2>2, <1>1
    <2>4. CASE k = i + 1
        BY <2>3, <2>4, <1>3, <1>6, <1>9
    <2>5. CASE i + 1 < k
        <3>1. b(i) = a(i + 1) /\ a(i + 1) < b(i + 1) /\ b(i + 1) <= a(k)
            BY <2>3, <2>5, <1>2, <1>3
        <3>2. b(i + 1) \in Int
            BY <2>3, <1>2
        <3> QED BY <3>1, <3>2, <2>1, <1>9
    <2> QED BY <2>3, <2>4, <2>5
<1>10. ASSUME NEW k \in 1..m, s[k].segment = "Code", a(i) - 1 \in a(k)..(b(k) - 1)
       PROVE  FALSE
    <2>1. a(k) \in Int /\ b(k) \in Int /\ a(i) \in Int /\ b(i) \in Int
        BY <1>2
    <2>2. k < i
        <3>1. ~ (i < k)
            BY <1>2, <1>10, <2>1
        <3>2. k # i
            BY <1>10, <2>1
        <3> QED BY <3>1, <3>2
    <2> DEFINE h == i - 1
    <2>3. h \in 1..(m - 1) /\ h \in 1..m /\ (k = h \/ k < h) /\ h + 1 = i
        BY <2>2, <1>1
    <2> HIDE DEF h
    <2>4. CASE k = h
        BY <2>3, <2>4, <1>3, <1>6, <1>10
    <2>5. CASE k < h
        <3>1. b(h) = a(i) /\ a(h) < b(h) /\ b(k) <= a(h)
            BY <2>3, <2>5, <1>2, <1>3
        <3>2. b(h) \in Int /\ a(h) \in Int
            BY <2>3, <1>2
        <3> QED BY <3>1, <3>2, <2>1, <1>10
    <2> QED BY <2>3, <2>4, <2>5
<1>11. b(i) \notin CodeIn(s)
    BY <1>5, <1>9
<1>12. a(i) - 1 \notin CodeIn(s)
    <2> DEFINE x == a(i) - 1
    <2>1. \A k \in 1..m : ~ (s[k].segment = "Code" /\ x \in a(k)..(b(k) - 1))
        BY <1>10
    <2> HIDE DEF x
    <2>2. x \notin CodeIn(s)
        BY <2>1, <1>5
    <2> QED BY <2>2 DEF x
<1> QED BY <1>6, <1>7, <1>8, <1>11, <1>12 DEF n

\* A word that is the keyword has one character.
LEMMA OneCharacterWord ==
    ASSUME NEW t \in Seq(Chars), NEW a \in 1..Len(t), NEW b \in (a + 1)..(Len(t) + 1)
    PROVE  SubSeq(t, a, b - 1) = Keyword <=> b = a + 1 /\ t[a] = "p"
<1> DEFINE n == Len(t)
           x == SubSeq(t, a, b - 1)
<1>1. n \in Nat /\ a \in 1..n /\ b \in (a + 1)..(n + 1) /\ \A k \in 1..n : t[k] \in Chars
    OBVIOUS
<1>2. IsSlice(t, a, b - 1)
    <2>1. a \in Int /\ b - 1 \in Int /\ \A k \in a..(b - 1) : k \in 1..n
        <3> HIDE DEF n
        <3> QED BY <1>1
    <2>2. \A k \in a..(b - 1) : t[k] \in Chars
        BY <2>1, <1>1
    <2> QED BY <2>1, <2>2, SlicesAre
<1>3. /\ x \in Seq(Chars) /\ Len(x) = IF a <= b - 1 THEN (b - 1) - a + 1 ELSE 0
      /\ \A k \in 1..((b - 1) - a + 1) : x[k] = t[a + k - 1]
    BY <1>2 DEF IsSlice
<1>4. Keyword \in Seq(Chars) /\ Len(Keyword) = 1 /\ Keyword[1] = "p"
    BY DEF Keyword, Chars
<1> HIDE DEF x, n
<1>5. Len(x) = b - a /\ x[1] = t[a]
    <2>1. a <= b - 1 /\ (b - 1) - a + 1 = b - a /\ 1 \in 1..((b - 1) - a + 1) /\ a + 1 - 1 = a
        BY <1>1
    <2> QED BY <2>1, <1>3
<1>6. ASSUME x = Keyword PROVE b = a + 1 /\ t[a] = "p"
    <2>1. b - a = 1
        BY <1>4, <1>5, <1>6
    <2>2. b = a + 1
        BY <2>1, <1>1
    <2> QED BY <2>2, <1>4, <1>5, <1>6
<1>7. ASSUME b = a + 1, t[a] = "p" PROVE x = Keyword
    <2>1. Len(x) = 1
        BY <1>1, <1>5, <1>7
    <2>2. \A k \in 1..Len(x) : x[k] = Keyword[k]
        BY <2>1, <1>4, <1>5, <1>7
    <2> QED BY <2>1, <2>2, <1>3, <1>4, SeqEqual
<1> QED BY <1>6, <1>7 DEF x

LEMMA WordInSpan ==
    ASSUME NEW t \in Seq(Chars), NEW span, span.start \in 1..Len(t), span.end \in (span.start + 1)..(Len(t) + 1),
           NEW i \in span.start..(span.end - 1), t[i] \in Letters
    PROVE  WordAt(t, span, i) = Keyword
               <=> t[i] = "p" /\ (i + 1 = span.end \/ t[i + 1] \notin InWord)
<1> DEFINE n == Len(t)
           a == span.start
           b == span.end
           S == {j \in i..(b - 1) : t[j] \notin InWord}
           e == WordEnd(t, span, i)
<1>1. n \in Nat /\ a \in 1..n /\ b \in (a + 1)..(n + 1) /\ i \in a..(b - 1)
    OBVIOUS
<1>2. e = Min(S \cup {b})
    BY DEF WordEnd, IsIdentChar, InWord
<1>3. S \subseteq i..(b - 1) /\ \A j \in i..(b - 1) : j \in S <=> t[j] \notin InWord
    OBVIOUS
<1>4. i \notin S
    BY PIsALetter
<1> HIDE DEF n, a, b, S
<1>5. i \in 1..n /\ i \in Int /\ b \in Int
    BY <1>1
<1>6. e \in i..b /\ (e \in S \/ e = b) /\ \A j \in S : e <= j
    <2> DEFINE c == b - 1
    <2>1. c \in Nat /\ i \in 1..(c + 1) /\ S \subseteq i..c /\ c + 1 = b
        BY <1>1, <1>3
    <2> HIDE DEF c, e
    <2>2. LET m == Min(S \cup {c + 1}) IN m \in i..(c + 1) /\ (m \in S \/ m = c + 1) /\ \A j \in S : m <= j
        BY <2>1, LeastPlace
    <2> QED BY <2>1, <2>2, <1>2
<1> HIDE DEF e
<1>7. e \in (i + 1)..b /\ e \in (i + 1)..(n + 1)
    <2>1. e # i
        BY <1>1, <1>4, <1>6
    <2>2. e \in Int
        BY <1>6
    <2> QED BY <2>1, <2>2, <1>1, <1>6
<1>8. e = i + 1 <=> i + 1 = b \/ t[i + 1] \notin InWord
    <2>1. ASSUME e = i + 1 PROVE i + 1 = b \/ t[i + 1] \notin InWord
        BY <2>1, <1>3, <1>6
    <2>2. ASSUME i + 1 = b PROVE e = i + 1
        BY <2>2, <1>5, <1>7
    <2>3. ASSUME i + 1 # b, t[i + 1] \notin InWord PROVE e = i + 1
        <3>1. i + 1 \in i..(b - 1)
            BY <2>3, <1>1
        <3>2. i + 1 \in S
            BY <3>1, <2>3, <1>3
        <3>3. e <= i + 1 /\ e \in (i + 1)..b
            BY <3>2, <1>6, <1>7
        <3> QED BY <3>3, <1>5
    <2> QED BY <2>1, <2>2, <2>3
<1>9. SubSeq(t, i, e - 1) = Keyword <=> e = i + 1 /\ t[i] = "p"
    <2>1. i \in 1..Len(t) /\ e \in (i + 1)..(Len(t) + 1)
        BY <1>5, <1>7 DEF n
    <2> QED BY <2>1, OneCharacterWord
<1> QED BY <1>8, <1>9 DEF WordAt, e, b

\* The scanner's keywords, told from its code alone.
LEMMA KeywordsInSpans ==
    ASSUME NEW t \in Seq(Chars), NEW s, Tiles(t, s, 1), NEW i \in 1..Len(t)
    PROVE  (\E span \in ToSet(s) : /\ span.segment = "Code" /\ i \in WordStarts(t, span)
                                   /\ WordAt(t, span, i) = Keyword)
               <=> KeywordInCode(t, CodeIn(s), i)
<1> DEFINE n == Len(t)
           C == CodeIn(s)
<1>1. n \in Nat /\ i \in 1..n
    OBVIOUS
<1>2. \A z \in ToSet(s) : z.segment = "Code" =>
          /\ z.start \in 1..Len(t) /\ z.end \in (z.start + 1)..(Len(t) + 1)
          /\ \A k \in z.start..(z.end - 1) : k \in C
          /\ z.end \notin C /\ z.start - 1 \notin C
    BY CodeSpansAreWhole
<1>3. \A x : x \in C <=> \E z \in ToSet(s) : z.segment = "Code" /\ x \in Places(z)
    BY PlacesOfCode
<1>4. \A z : i \in WordStarts(t, z) <=>
          /\ i \in z.start..(z.end - 1) /\ t[i] \in Letters
          /\ \A k \in z.start..(i - 1) : t[k] \in Letters => \E j \in k..i : t[j] \notin InWord
    BY DEF WordStarts, Places, IsIdentStart, IsIdentChar, InWord
<1> HIDE DEF C, n
<1>5. ASSUME NEW z \in ToSet(s), z.segment = "Code", i \in WordStarts(t, z), WordAt(t, z, i) = Keyword
      PROVE  KeywordInCode(t, C, i)
    <2> DEFINE a == z.start
               b == z.end
    <2>1. /\ a \in 1..n /\ b \in (a + 1)..(n + 1) /\ i \in a..(b - 1)
          /\ (\A k \in a..(b - 1) : k \in C) /\ b \notin C /\ a - 1 \notin C
          /\ t[i] \in Letters
          /\ \A k \in a..(i - 1) : t[k] \in Letters => \E j \in k..i : t[j] \notin InWord
        BY <1>2, <1>4, <1>5 DEF n
    <2>2. t[i] = "p" /\ (i + 1 = b \/ t[i + 1] \notin InWord)
        BY <2>1, <1>2, <1>5, WordInSpan
    <2> HIDE DEF a, b
    <2>3. ASSUME NEW k \in 1..(i - 1), \A j \in k..i : j \in C /\ t[j] \in InWord
          PROVE  t[k] \notin Letters
        <3>1. CASE k >= a
            <4>1. k \in a..(i - 1)
                BY <3>1, <2>1, <2>3, <1>1
            <4> QED BY <4>1, <2>1, <2>3
        <3>2. CASE ~ (k >= a)
            <4>1. a - 1 \in k..i
                BY <3>2, <2>1, <2>3, <1>1
            <4> DEFINE x == a - 1
            <4> HIDE DEF x
            <4>2. x \in k..i /\ x \notin C
                BY <4>1, <2>1 DEF x
            <4> QED BY <4>2, <2>3
        <3> QED BY <3>1, <3>2
    <2>4. i \in C
        BY <2>1
    <2>5. i + 1 \in C => t[i + 1] \notin InWord
        BY <2>1, <2>2
    <2> QED BY <2>2, <2>3, <2>4, <2>5 DEF KeywordInCode
<1>6. ASSUME KeywordInCode(t, C, i)
      PROVE  \E z \in ToSet(s) : z.segment = "Code" /\ i \in WordStarts(t, z) /\ WordAt(t, z, i) = Keyword
    <2>1. /\ i \in C /\ t[i] = "p" /\ (i + 1 \in C => t[i + 1] \notin InWord)
          /\ \A k \in 1..(i - 1) : (\A j \in k..i : j \in C /\ t[j] \in InWord) => t[k] \notin Letters
        BY <1>6 DEF KeywordInCode
    <2>2. PICK z \in ToSet(s) : z.segment = "Code" /\ i \in Places(z)
        BY <2>1, <1>3
    <2> DEFINE a == z.start
               b == z.end
    <2>3. /\ a \in 1..n /\ b \in (a + 1)..(n + 1) /\ i \in a..(b - 1)
          /\ (\A k \in a..(b - 1) : k \in C)
        BY <2>2, <1>2 DEF n, Places
    <2>4. t[i] \in Letters
        BY <2>1, PIsALetter
    <2> HIDE DEF a, b
    <2>5. ASSUME NEW k \in a..(i - 1), t[k] \in Letters
          PROVE  \E j \in k..i : t[j] \notin InWord
        <3>1. k \in 1..(i - 1) /\ \A j \in k..i : j \in a..(b - 1)
            BY <2>3, <2>5, <1>1
        <3>2. \A j \in k..i : j \in C
            BY <3>1, <2>3
        <3> QED BY <3>1, <3>2, <2>1, <2>5
    <2>6. i \in WordStarts(t, z)
        BY <2>3, <2>4, <2>5, <1>4 DEF a, b
    <2>7. i + 1 = b \/ t[i + 1] \notin InWord
        <3>1. i + 1 = b \/ i + 1 \in a..(b - 1)
            BY <2>3, <1>1
        <3> QED BY <3>1, <2>1, <2>3
    <2>8. WordAt(t, z, i) = Keyword
        <3>1. /\ z.start \in 1..Len(t) /\ z.end \in (z.start + 1)..(Len(t) + 1)
              /\ i \in z.start..(z.end - 1) /\ (i + 1 = z.end \/ t[i + 1] \notin InWord)
            BY <2>3, <2>7 DEF a, b, n
        <3> QED BY <3>1, <2>1, <2>4, WordInSpan
    <2> QED BY <2>2, <2>6, <2>8
<1> QED BY <1>5, <1>6 DEF C

LEMMA ScanTiles ==
    ASSUME NEW t \in Seq(Chars)
    PROVE  Tiles(t, Scan(t), 1)
<1>1. PICK f : ScansFrom(t, f) /\ Scan(t) = f[1]
    BY ScanGoesOn
<1>2. 1 \in 1..(Len(t) + 1)
    OBVIOUS
<1> QED BY <1>1, <1>2, SpansTile

\* Where a lexeme is and what a keyword is among them.
LEMMA KeywordsAreWords ==
    ASSUME NEW t \in Seq(Chars), NEW l \in Pg!Lexemes(t)
    PROVE  /\ l.start \in 1..Len(t) /\ l.end \in (l.start + 1)..(Len(t) + 1)
           /\ IsKeyword(t, l) <=> l.kind = "Word" /\ l.end = l.start + 1 /\ t[l.start] = "p"
<1> DEFINE n == Len(t)
<1>1. PICK j \in Visited(t) : j \in 1..Len(t) /\ l = Pg!LexemeAt(t, j)
    BY LexemesVisited
<1>2. l.end \in (j + 1)..(n + 1) /\ l.start \in j..(l.end - 1)
    BY <1>1, LexemesStart
<1>3. n \in Nat /\ j \in 1..n
    BY <1>1
<1>4. l.start \in 1..n /\ l.end \in (l.start + 1)..(n + 1)
    <2> HIDE DEF n
    <2> QED BY <1>2, <1>3
<1>5. SubSeq(t, l.start, l.end - 1) = Keyword <=> l.end = l.start + 1 /\ t[l.start] = "p"
    BY <1>4, OneCharacterWord
<1> QED BY <1>4, <1>5 DEF IsKeyword, Text

\* The keywords in the scanner's code are those among PostgreSQL's words.
LEMMA KeywordsAreFound ==
    ASSUME NEW t \in Seq(Chars), PlainIn(t, Pg!Lexemes(t)), NEW i
    PROVE  (\E span \in ToSet(Scan(t)) : /\ span.segment = "Code" /\ i \in WordStarts(t, span)
                                         /\ WordAt(t, span, i) = Keyword)
               <=> \E l \in Pg!Lexemes(t) : IsKeyword(t, l) /\ l.start = i
<1> DEFINE s == Scan(t)
<1>1. Tiles(t, s, 1)
    BY ScanTiles
<1>2. ASSUME NEW span \in ToSet(s), span.segment = "Code", i \in WordStarts(t, span)
      PROVE  i \in 1..Len(t)
    <2>1. span.start \in 1..Len(t) /\ span.end \in (span.start + 1)..(Len(t) + 1)
        BY <1>1, <1>2, CodeSpansAreWhole
    <2>2. i \in span.start..(span.end - 1)
        BY <1>2 DEF WordStarts, Places
    <2> DEFINE n == Len(t)
    <2>3. n \in Nat
        OBVIOUS
    <2> HIDE DEF n
    <2>4. i \in 1..n
        BY <2>1, <2>2, <2>3 DEF n
    <2> QED BY <2>4 DEF n
<1>3. ASSUME NEW l \in Pg!Lexemes(t), IsKeyword(t, l), l.start = i
      PROVE  i \in 1..Len(t)
    BY <1>3, KeywordsAreWords
<1>4. ASSUME i \in 1..Len(t)
      PROVE  (\E span \in ToSet(s) : /\ span.segment = "Code" /\ i \in WordStarts(t, span)
                                     /\ WordAt(t, span, i) = Keyword)
                 <=> \E l \in Pg!Lexemes(t) : IsKeyword(t, l) /\ l.start = i
    <2>1. (\E span \in ToSet(s) : /\ span.segment = "Code" /\ i \in WordStarts(t, span)
                                  /\ WordAt(t, span, i) = Keyword)
              <=> KeywordInCode(t, CodeIn(s), i)
        BY <1>1, <1>4, KeywordsInSpans
    <2>2. KeywordInCode(t, CodeIn(s), i)
               <=> \E l \in Pg!Lexemes(t) : l.kind = "Word" /\ l.start = i /\ l.end = i + 1 /\ t[i] = "p"
        BY <1>4, KeywordsAlike
    <2>3. \A l \in Pg!Lexemes(t) : IsKeyword(t, l) <=> l.kind = "Word" /\ l.end = l.start + 1 /\ t[l.start] = "p"
        BY KeywordsAreWords
    <2> QED BY <2>1, <2>2, <2>3
<1> HIDE DEF s
<1>5. CASE i \in 1..Len(t)
    BY <1>4, <1>5 DEF s
<1>6. CASE i \notin 1..Len(t)
    BY <1>2, <1>3, <1>6 DEF s
<1> QED BY <1>5, <1>6

LEMMA WritesAreSeen ==
    ASSUME NEW t \in Seq(Chars), PlainIn(t, Pg!Lexemes(t))
    PROVE  ModifiesData(t) <=> \E l \in Pg!Lexemes(t) : IsKeyword(t, l)
<1>1. \A i : (\E span \in ToSet(Scan(t)) : /\ span.segment = "Code" /\ i \in WordStarts(t, span)
                                           /\ WordAt(t, span, i) = Keyword)
                 <=> \E l \in Pg!Lexemes(t) : IsKeyword(t, l) /\ l.start = i
    BY KeywordsAreFound
<1> QED BY <1>1 DEF ModifiesData

-----------------------------------------------------------------------------
(* What comes first                                                        *)

\* Every place is in one span, and in no other.
LEMMA SpansCover ==
    ASSUME NEW t \in Seq(Chars), NEW s, Tiles(t, s, 1), NEW k \in 1..Len(t)
    PROVE  /\ \E z \in ToSet(s) : k \in Places(z)
           /\ \A y \in ToSet(s), z \in ToSet(s) : k \in Places(y) /\ k \in Places(z) => y = z
<1> DEFINE n == Len(t)
           m == Len(s)
           a(q) == s[q].start
           b(q) == s[q].end
<1>1. n \in Nat /\ k \in 1..n /\ m \in Nat /\ DOMAIN s = 1..m
    BY DEF Tiles
<1>2. /\ \A q \in 1..m : a(q) \in 1..(n + 1) /\ b(q) \in 1..(n + 1) /\ a(q) < b(q)
      /\ \A p \in 1..m, q \in 1..m : p < q => b(p) <= a(q)
    BY TilesInOrder
<1>3. /\ m # 0 /\ a(1) = 1 /\ b(m) = n + 1
      /\ \A q \in 1..(m - 1) : b(q) = a(q + 1)
    <2>1. s # <<>>
        BY <1>1 DEF Tiles
    <2>2. s \in Seq(SpansOf(t))
        BY DEF Tiles
    <2>3. m # 0
        BY <2>1, <2>2
    <2> QED BY <2>1, <2>3 DEF Tiles
<1>4. ToSet(s) = {s[q] : q \in 1..m}
    BY <1>1 DEF ToSet
<1>5. \A q \in 1..m : k \in Places(s[q]) <=> a(q) <= k /\ k < b(q)
    <2> SUFFICES ASSUME NEW q \in 1..m PROVE k \in Places(s[q]) <=> a(q) <= k /\ k < b(q)
        OBVIOUS
    <2>1. Places(s[q]) = a(q)..(b(q) - 1)
        BY DEF Places
    <2>2. a(q) \in Int /\ b(q) \in Int /\ k \in Int
        BY <1>1, <1>2
    <2> HIDE DEF a, b
    <2> QED BY <2>1, <2>2
<1> HIDE DEF n, m, a, b
<1> DEFINE S == {q \in 1..m : b(q) > k}
           c == m - 1
           least == Min(S \cup {c + 1})
<1>6. c + 1 = m /\ c \in Nat /\ m \in S /\ 1 \in 1..(c + 1)
    BY <1>1, <1>2, <1>3
<1>7. least \in 1..m /\ b(least) > k /\ \A q \in 1..m : b(q) > k => least <= q
    <2> DEFINE U == S \ {c + 1}
    <2>1. U \subseteq 1..c /\ S \cup {c + 1} = U \cup {c + 1}
        <3> HIDE DEF c
        <3> QED BY <1>1, <1>6
    <2> HIDE DEF U, c, S
    <2>2. LET z == Min(U \cup {c + 1}) IN z \in 1..(c + 1) /\ (z \in U \/ z = c + 1) /\ \A j \in U : z <= j
        BY <1>6, <2>1, LeastPlace
    <2>3. least \in 1..(c + 1) /\ (least \in U \/ least = c + 1) /\ \A j \in U : least <= j
        BY <2>1, <2>2
    <2> HIDE DEF least
    <2>4. least \in S
        BY <1>6, <2>1, <2>3
    <2>5. \A q \in S : least <= q
        BY <1>1, <1>6, <2>1, <2>3
    <2> QED BY <2>4, <2>5 DEF S
<1> HIDE DEF least, S, c
<1>8. a(least) <= k
    <2>1. CASE least = 1
        BY <2>1, <1>1, <1>3
    <2>2. CASE least # 1
        <3> DEFINE p == least - 1
        <3>1. p \in 1..(m - 1) /\ p \in 1..m /\ p + 1 = least /\ ~ (least <= p)
            BY <2>2, <1>1, <1>7
        <3> HIDE DEF p
        <3>2. ~ (b(p) > k) /\ b(p) = a(least)
            BY <3>1, <1>3, <1>7
        <3> QED BY <3>1, <3>2, <1>1, <1>2
    <2> QED BY <2>1, <2>2
<1>9. k \in Places(s[least]) /\ s[least] \in ToSet(s)
    <2>1. k < b(least)
        BY <1>1, <1>2, <1>7
    <2> QED BY <2>1, <1>4, <1>5, <1>7, <1>8
<1>10. ASSUME NEW p \in 1..m, NEW q \in 1..m, k \in Places(s[p]), k \in Places(s[q])
       PROVE  p = q
    <2>1. a(p) <= k /\ k < b(p) /\ a(q) <= k /\ k < b(q)
        BY <1>5, <1>10
    <2>2. a(p) \in Int /\ b(p) \in Int /\ a(q) \in Int /\ b(q) \in Int
        BY <1>2
    <2>3. (p < q => b(p) <= a(q)) /\ (q < p => b(q) <= a(p))
        BY <1>2
    <2> QED BY <2>1, <2>2, <2>3, <1>1
<1> QED BY <1>4, <1>9, <1>10

\* Nor is a place in two lexemes.
LEMMA LexemesApart ==
    ASSUME NEW t \in Seq(Chars), NEW l \in Pg!Lexemes(t), NEW j \in Visited(t), j <= Len(t),
           NEW k \in j..(LexemeEnd(t, j) - 1), k \in Places(l)
    PROVE  l = Pg!LexemeAt(t, j)
<1> DEFINE n == Len(t)
           a == l.start
           e == LexemeEnd(t, j)
<1>1. PICK i \in Visited(t) : i \in 1..n /\ l = Pg!LexemeAt(t, i)
    BY LexemesVisited
<1> DEFINE b == LexemeEnd(t, i)
<1>2. a \in i..(b - 1) /\ b \in (i + 1)..(n + 1) /\ k \in j..(e - 1) /\ k \in a..(b - 1)
    BY <1>1, LexemesStart DEF Places
<1>3. /\ i <= j \/ i >= e
      /\ j <= i \/ j >= b
    <2>1. \A x \in Visited(t), y \in Visited(t) : x <= Len(t) => y <= x \/ y >= LexemeEnd(t, x)
        BY VisitedApart
    <2>2. i <= Len(t)
        BY <1>1
    <2> QED BY <2>1, <2>2, <1>1
<1>4. n \in Nat /\ j \in 1..n /\ e \in (j + 1)..(n + 1)
    <2>1. Visited(t) \subseteq 1..(Len(t) + 1)
        BY VisitedGoesOn
    <2>2. j \in 1..Len(t)
        BY <2>1
    <2> QED BY <2>2, LexemeEndFits
<1>5. i \in 1..n
    BY <1>1
<1> HIDE DEF a, b, e, n
<1>6. i = j
    BY <1>2, <1>3, <1>4, <1>5
<1> QED BY <1>1, <1>6

LEMMA CharactersOfText ==
    ASSUME NEW t \in Seq(Chars), NEW l, l.start \in 1..(Len(t) + 1), l.end \in 1..(Len(t) + 1)
    PROVE  \A c : c \in ToSet(Text(t, l)) <=> \E k \in Places(l) : t[k] = c
<1> DEFINE n == Len(t)
           a == l.start
           b == l.end - 1
           x == SubSeq(t, a, b)
<1>1. n \in Nat /\ a \in 1..(n + 1) /\ b \in 0..n /\ \A j \in 1..n : t[j] \in Chars
    OBVIOUS
<1>2. ASSUME NEW c, c \notin ToSet(Text(t, l))
      PROVE  \A k \in Places(l) : t[k] # c
    BY <1>2, InText DEF Places
<1>3. IsSlice(t, a, b)
    <2>1. a \in Int /\ b \in Int /\ \A k \in a..b : k \in 1..n
        <3> HIDE DEF n, a, b
        <3> QED BY <1>1
    <2> QED BY <2>1, <1>1, SlicesAre
<1>4. ASSUME NEW c \in ToSet(x) PROVE \E k \in a..b : t[k] = c
    <2>1. /\ x \in Seq(Chars) /\ Len(x) = (IF a <= b THEN b - a + 1 ELSE 0)
          /\ \A k \in 1..(b - a + 1) : x[k] = t[a + k - 1]
        BY <1>3 DEF IsSlice
    <2> HIDE DEF x, a, b, n
    <2>2. PICK q \in 1..Len(x) : x[q] = c
        BY <2>1, <1>4 DEF ToSet
    <2> DEFINE k == a + q - 1
    <2>3. q \in 1..(b - a + 1) /\ k \in a..b
        <3>1. q \in 1..(IF a <= b THEN b - a + 1 ELSE 0) /\ q \in Int
            BY <2>1
        <3> QED BY <3>1, <1>1
    <2>4. t[k] = c
        BY <2>1, <2>2, <2>3
    <2> HIDE DEF k
    <2> QED BY <2>3, <2>4
<1>5. Text(t, l) = x /\ Places(l) = a..b
    BY DEF Text, Places
<1> HIDE DEF x, a, b, n
<1> QED BY <1>2, <1>4, <1>5

LEMMA BlanksDiffer ==
    /\ Apostrophe \notin Blank /\ Quote \notin Blank /\ ";" \notin Blank /\ "$" \notin Blank
    /\ \A c \in Letters : c \notin Blank
BY Zenon DEF Blank, Apostrophe, Quote, Newline, Letters

LEMMA CommentsAgree ==
    ASSUME NEW t \in Seq(Chars), PlainIn(t, Pg!Lexemes(t))
    PROVE  /\ \A s \in ToSet(Scan(t)) : s.segment \in Pg!Comments =>
                  \E m \in Pg!Lexemes(t) : m.kind \in Pg!Comments /\ m.start = s.start /\ m.end = s.end
           /\ \A m \in Pg!Lexemes(t) : m.kind \in Pg!Comments =>
                  \E s \in ToSet(Scan(t)) : s.segment \in Pg!Comments /\ m.start = s.start /\ m.end = s.end
<1> DEFINE S == Scan(t)
           L == Pg!Lexemes(t)
           IsNamed(l) == l.kind \in Pg!Literals \cup Pg!Comments
           Name(l) == IF l.kind = "EString" THEN Span("SingleQuoted", l.start, l.end)
                      ELSE Span(l.kind, l.start, l.end)
<1>1. Apart(S) = Named(L)
    BY LiteralsAndCommentsAgree
<1>2. Named(L) = {Name(l) : l \in {any \in L : IsNamed(any)}}
    BY DEF Named
<1>3. \A l : /\ Name(l).start = l.start /\ Name(l).end = l.end
             /\ Name(l).segment = IF l.kind = "EString" THEN "SingleQuoted" ELSE l.kind
    BY DEF Span
<1>4. \A kind : kind \in Pg!Comments => kind # "EString" /\ kind # "SingleQuoted" /\ kind # "Code"
    BY DEF Pg!Comments
<1>5. \A z : z \in Apart(S) <=> z \in ToSet(S) /\ z.segment # "Code"
    BY DEF Apart
<1>6. \A l : l.kind \in Pg!Comments => IsNamed(l)
    OBVIOUS
<1> HIDE DEF S, L, Name, IsNamed
<1>7. ASSUME NEW s \in ToSet(S), s.segment \in Pg!Comments
      PROVE  \E m \in L : m.kind \in Pg!Comments /\ m.start = s.start /\ m.end = s.end
    <2>1. s \in Named(L)
        BY <1>1, <1>4, <1>5, <1>7
    <2>2. PICK m \in L : s = Name(m)
        BY <2>1, <1>2
    <2> QED BY <2>2, <1>3, <1>4, <1>7
<1>8. ASSUME NEW m \in L, m.kind \in Pg!Comments
      PROVE  \E s \in ToSet(S) : s.segment \in Pg!Comments /\ m.start = s.start /\ m.end = s.end
    <2>1. Name(m) \in Named(L)
        BY <1>2, <1>6, <1>8
    <2>2. Name(m) \in ToSet(S) /\ Name(m).segment \in Pg!Comments
        BY <2>1, <1>1, <1>3, <1>4, <1>5, <1>8
    <2> QED BY <2>2, <1>3
<1> QED BY <1>7, <1>8 DEF S, L

\* Where there are only blanks and comments there is no word, for a place
\* PostgreSQL's lexer comes to.
LEMMA WordsComeAfter ==
    ASSUME NEW t \in Seq(Chars), PlainIn(t, Pg!Lexemes(t)), NEW i \in Visited(t)
    PROVE  BlankBefore(t, i) <=> \A other \in Words(t) : i <= other.start
<1> DEFINE n == Len(t)
           s == Scan(t)
           L == Pg!Lexemes(t)
           E(j) == LexemeEnd(t, j)
<1>1. n \in Nat /\ i \in 1..(n + 1)
    BY VisitedGoesOn
<1>2. Tiles(t, s, 1)
    BY ScanTiles
<1>3. BlankBefore(t, i) <=> \A z \in ToSet(s) : z.segment \in Pg!Comments
                                 \/ \A j \in Places(z) : j < i => t[j] \in Blank
    BY DEF BlankBefore, Pg!Comments
<1>4. \A l : l \in Words(t) <=> l \in L /\ l.kind \notin Pg!Comments /\ ~ (ToSet(Text(t, l)) \subseteq Blank)
    BY DEF Words
<1>5. \A l \in L : ToSet(Text(t, l)) \subseteq Blank <=> \A k \in Places(l) : t[k] \in Blank
    <2> SUFFICES ASSUME NEW l \in L
                 PROVE  ToSet(Text(t, l)) \subseteq Blank <=> \A k \in Places(l) : t[k] \in Blank
        OBVIOUS
    <2>1. l.start \in 1..n /\ l.end \in (l.start + 1)..(n + 1)
        BY KeywordsAreWords
    <2>2. ToSet(Text(t, l)) = {t[k] : k \in Places(l)}
        <3>1. l.start \in 1..(Len(t) + 1) /\ l.end \in 1..(Len(t) + 1)
            <4> HIDE DEF n
            <4>1. l.start \in 1..(n + 1) /\ l.end \in 1..(n + 1)
                BY <2>1, <1>1
            <4> QED BY <4>1 DEF n
        <3>2. \A c : c \in ToSet(Text(t, l)) <=> \E k \in Places(l) : t[k] = c
            BY <3>1, CharactersOfText
        <3> QED BY <3>2
    <2> QED BY <2>2
<1>6. \A j \in Visited(t) : j <= n => j \in 1..n /\ E(j) \in (j + 1)..(n + 1) /\ Pg!LexemeAt(t, j) \in L
    <2> SUFFICES ASSUME NEW j \in Visited(t), j <= n
                 PROVE  j \in 1..n /\ E(j) \in (j + 1)..(n + 1) /\ Pg!LexemeAt(t, j) \in L
        OBVIOUS
    <2>1. j \in 1..(n + 1)
        BY VisitedGoesOn
    <2>2. j \in 1..n
        <3> HIDE DEF n
        <3> QED BY <2>1, <1>1
    <2> QED BY <2>2, LexemeEndFits, LexemesVisited
<1>7. \A j \in Visited(t) : j < i => E(j) <= i
    <2> SUFFICES ASSUME NEW j \in Visited(t), j < i PROVE E(j) <= i
        OBVIOUS
    <2>1. j <= n
        <3>1. j \in 1..(n + 1)
            BY VisitedGoesOn
        <3> HIDE DEF n
        <3> QED BY <3>1, <1>1
    <2>2. i <= j \/ i >= E(j)
        BY <2>1, VisitedApart
    <2>3. j \in 1..n /\ E(j) \in (j + 1)..(n + 1)
        BY <2>1, <1>6
    <2> HIDE DEF n, E
    <2> QED BY <2>2, <2>3, <1>1
<1>8. ASSUME BlankBefore(t, i), NEW o \in Words(t)
      PROVE  i <= o.start
    <2> SUFFICES ASSUME ~ (i <= o.start) PROVE FALSE
        OBVIOUS
    <2>1. o \in L /\ o.kind \notin Pg!Comments /\ ~ (ToSet(Text(t, o)) \subseteq Blank)
        BY <1>4, <1>8
    <2>2. PICK k \in Places(o) : t[k] \notin Blank
        BY <2>1, <1>5
    <2>3. PICK j \in Visited(t) : j \in 1..n /\ o = Pg!LexemeAt(t, j)
        BY <2>1, LexemesVisited
    <2>4. o.end = E(j) /\ o.start \in j..(o.end - 1) /\ o.end \in (j + 1)..(n + 1)
        BY <2>3, LexemesStart
    <2>5. k \in 1..n /\ k \in j..(E(j) - 1) /\ k < i /\ j <= n
        <3>1. k \in o.start..(o.end - 1)
            BY DEF Places
        <3>2. E(j) <= i \/ ~ (j < i)
            BY <1>7
        <3> HIDE DEF n, E
        <3> QED BY <3>1, <3>2, <2>3, <2>4, <1>1
    <2>6. PICK z \in ToSet(s) : k \in Places(z)
        BY <2>5, <1>2, SpansCover
    <2>7. z.segment \in Pg!Comments
        BY <2>2, <2>5, <2>6, <1>3, <1>8
    <2>8. PICK m \in L : m.kind \in Pg!Comments /\ m.start = z.start /\ m.end = z.end
        BY <2>7, CommentsAgree
    <2>9. k \in Places(m)
        BY <2>6, <2>8 DEF Places
    <2>10. m = Pg!LexemeAt(t, j)
        BY <2>5, <2>9, LexemesApart
    <2> QED BY <2>1, <2>3, <2>8, <2>10
<1>9. ASSUME \A other \in Words(t) : i <= other.start,
             NEW z \in ToSet(s), z.segment \notin Pg!Comments, NEW k \in Places(z), k < i
      PROVE  t[k] \in Blank
    <2>1. z.start \in 1..(n + 1) /\ z.end \in 1..(n + 1)
        <3>1. s \in Seq(SpansOf(t))
            BY <1>2 DEF Tiles
        <3>2. z \in SpansOf(t)
            BY <3>1 DEF ToSet
        <3> QED BY <3>2 DEF SpansOf
    <2>2. k \in 1..n /\ k \in Int
        <3>1. k \in z.start..(z.end - 1)
            BY DEF Places
        <3> HIDE DEF n
        <3> QED BY <3>1, <2>1, <1>1
    <2>3. PICK j \in Visited(t) : j \in 1..k /\ j <= n /\ k < E(j)
        BY <2>2, VisitedCover
    <2> DEFINE m == Pg!LexemeAt(t, j)
    <2>4. /\ m \in L /\ m.end = E(j) /\ m.end \in (j + 1)..(n + 1) /\ m.start \in j..(m.end - 1)
          /\ m.start = (IF m.kind = "EString" THEN j + 1 ELSE j)
          /\ (m.kind = "EString" => t[j] = "E" /\ t[j + 1] = Apostrophe)
        <3>1. j \in 1..Len(t)
            BY <2>3, <1>6
        <3> QED BY <3>1, <2>3, LexemesStart, LexemesVisited
    <2>5. m.start < i
        <3>1. j < i => E(j) <= i
            BY <1>7
        <3> HIDE DEF n, E, m
        <3> QED BY <3>1, <2>2, <2>3, <2>4, <1>1, <1>9
    <2>6. m \notin Words(t)
        <3>1. m \in Words(t) => i <= m.start
            BY <1>9
        <3>2. m.start \in Int
            <4> HIDE DEF n, E, m
            <4> QED BY <2>2, <2>3, <2>4
        <3> HIDE DEF n, E, m
        <3> QED BY <3>1, <3>2, <2>5, <1>1
    <2>7. m.kind \notin Pg!Comments
        <3> SUFFICES ASSUME m.kind \in Pg!Comments PROVE FALSE
            OBVIOUS
        <3>1. PICK y \in ToSet(s) : y.segment \in Pg!Comments /\ m.start = y.start /\ m.end = y.end
            BY <2>4, CommentsAgree
        <3>2. m.kind # "EString"
            BY DEF Pg!Comments
        <3>3. k \in Places(m)
            <4>1. m.start = j /\ m.end = E(j) /\ k \in j..(E(j) - 1)
                <5>1. m.start = j
                    BY <2>4, <3>2
                <5>2. E(j) \in Int /\ j \in Int /\ k \in Int /\ j <= k /\ k < E(j)
                    <6> HIDE DEF n, E, m
                    <6> QED BY <2>2, <2>3, <2>4
                <5> HIDE DEF E, m
                <5> QED BY <5>1, <5>2, <2>4
            <4> QED BY <4>1 DEF Places
        <3>4. k \in Places(y)
            BY <3>1, <3>3 DEF Places
        <3>5. y = z
            BY <2>2, <3>4, <1>2, SpansCover
        <3> QED BY <3>1, <3>5, <1>9
    <2>8. \A x \in Places(m) : t[x] \in Blank
        BY <2>4, <2>6, <2>7, <1>4, <1>5
    <2>9. m.kind # "EString"
        <3> SUFFICES ASSUME m.kind = "EString" PROVE FALSE
            OBVIOUS
        <3>1. j + 1 \in Places(m) /\ t[j + 1] = Apostrophe
            <4>1. m.start = j + 1 /\ m.start \in j..(m.end - 1)
                BY <2>4
            <4> QED BY <4>1, <2>4 DEF Places
        <3>2. Apostrophe \notin Blank
            BY BlanksDiffer
        <3> QED BY <3>1, <3>2, <2>8
    <2>10. k \in Places(m)
        <3>1. m.start = j /\ m.end = E(j) /\ k < E(j) /\ j <= k /\ j \in Int /\ k \in Int /\ E(j) \in Int
            <4> HIDE DEF n, E, m
            <4> QED BY <2>2, <2>3, <2>4, <2>9
        <3> HIDE DEF E, m
        <3> QED BY <3>1 DEF Places
    <2> QED BY <2>8, <2>10
<1>10. ASSUME \A other \in Words(t) : i <= other.start PROVE BlankBefore(t, i)
    BY <1>3, <1>9, <1>10
<1> QED BY <1>8, <1>10

LEMMA SchemaChangesAreSeen ==
    ASSUME NEW t \in Seq(Chars), PlainIn(t, Pg!Lexemes(t))
    PROVE  ChangesSchema(t) <=> \E l \in Words(t) : /\ IsKeyword(t, l)
                                                    /\ \A other \in Words(t) : l.start <= other.start
<1> DEFINE L == Pg!Lexemes(t)
           Found(i) == \E span \in ToSet(Scan(t)) : /\ span.segment = "Code" /\ i \in WordStarts(t, span)
                                                    /\ WordAt(t, span, i) = Keyword
<1>1. \A i : Found(i) <=> \E l \in L : IsKeyword(t, l) /\ l.start = i
    BY KeywordsAreFound
<1>2. ChangesSchema(t) <=> \E i : Found(i) /\ BlankBefore(t, i)
    BY DEF ChangesSchema
<1>3. ASSUME NEW l \in L, IsKeyword(t, l)
      PROVE  /\ l \in Words(t)
             /\ BlankBefore(t, l.start) <=> \A other \in Words(t) : l.start <= other.start
    <2>1. l.start \in 1..Len(t) /\ l.end \in (l.start + 1)..(Len(t) + 1) /\ l.kind = "Word" /\ t[l.start] = "p"
        BY <1>3, KeywordsAreWords
    <2>2. l.start \in Visited(t)
        <3>1. PICK j \in Visited(t) : j \in 1..Len(t) /\ l = Pg!LexemeAt(t, j)
            BY LexemesVisited
        <3>2. l.start = j
            BY <2>1, <3>1, LexemesStart
        <3> QED BY <3>1, <3>2
    <2>3. BlankBefore(t, l.start) <=> \A other \in Words(t) : l.start <= other.start
        BY <2>2, WordsComeAfter
    <2>4. ~ (ToSet(Text(t, l)) \subseteq Blank)
        <3> DEFINE n == Len(t)
        <3>1. l.start \in 1..(n + 1) /\ l.end \in 1..(n + 1) /\ l.start \in l.start..(l.end - 1)
            <4>1. n \in Nat /\ l.start \in 1..n /\ l.end \in (l.start + 1)..(n + 1)
                BY <2>1
            <4> HIDE DEF n
            <4> QED BY <4>1
        <3>2. "p" \in ToSet(Text(t, l))
            <4>1. l.start \in 1..(Len(t) + 1) /\ l.end \in 1..(Len(t) + 1)
                BY <3>1
            <4>2. \A c : c \in ToSet(Text(t, l)) <=> \E k \in Places(l) : t[k] = c
                BY <4>1, CharactersOfText
            <4> QED BY <4>2, <3>1, <2>1 DEF Places
        <3>3. "p" \notin Blank
            BY PIsALetter, BlanksDiffer
        <3> QED BY <3>2, <3>3
    <2>5. "Word" \notin Pg!Comments
        BY DEF Pg!Comments
    <2> QED BY <2>1, <2>3, <2>4, <2>5 DEF Words
<1>4. \A l \in Words(t) : l \in L
    BY DEF Words
<1> HIDE DEF L, Found
<1> QED BY <1>1, <1>2, <1>3, <1>4

-----------------------------------------------------------------------------
(* A lexeme is read alike wherever it stands                               *)

\* A string with no backslash before the end the scanner finds ends there.
LEMMA PlainEndsAlike ==
    ASSUME NEW t \in Seq(Chars), NEW i \in 1..(Len(t) + 1),
           NEW end, end = QuotedEnd(t, i, Apostrophe), \A j \in i..(end - 1) : t[j] # Backslash
    PROVE  UnescapedEnd(t, i, Apostrophe) = end
<1> DEFINE n == Len(t)
           U == Unescaped(t, i)
           Q == Quotes(t, i, Apostrophe)
           P == Q \cap U
           e == Min(Ending(t, Apostrophe, P) \cup {n + 1})
           m == Min(Ending(t, Apostrophe, Q) \cup {n + 1})
<1>1. n \in Nat /\ i \in 1..(n + 1) /\ i \in Nat
    OBVIOUS
<1>2. Q \subseteq i..n /\ P \subseteq Q /\ \A j \in Q : j \in U => j \in P
    BY DEF Quotes
<1>3. (i <= n => i \in U) /\ \A j \in i..(n - 1) : t[j] # Backslash => j + 1 \in U
    BY <1>1, EscapingAlternates
<1>4. end = Clipped(t, 1 + e)
    <2> DEFINE literal == Pg!EStringEnd(t, i)
    <2>1. literal = 1 + e
        BY LiteralEndIs
    <2>2. end = Clipped(t, literal)
        BY EStringsEndAlike DEF EscapedEnd
    <2> HIDE DEF literal
    <2> QED BY <2>1, <2>2
<1>5. UnescapedEnd(t, i, Apostrophe) = Clipped(t, 1 + m)
    <2> DEFINE literal == Pg!QuotedEnd(t, i, Apostrophe)
    <2>1. literal = 1 + m
        BY LiteralEndIs
    <2>2. UnescapedEnd(t, i, Apostrophe) = Clipped(t, literal)
        BY DEF UnescapedEnd
    <2> HIDE DEF literal
    <2> QED BY <2>1, <2>2
<1> HIDE DEF U, Q, P
<1>6. Ending(t, Apostrophe, P) \subseteq i..n /\ Ending(t, Apostrophe, Q) \subseteq i..n
    BY <1>2 DEF Ending
<1>7. /\ e \in i..(n + 1) /\ (e \in Ending(t, Apostrophe, P) \/ e = n + 1)
      /\ \A j \in Ending(t, Apostrophe, P) : e <= j
    <2> HIDE DEF n
    <2> QED BY <1>1, <1>6, LeastPlace
<1>8. /\ m \in i..(n + 1) /\ (m \in Ending(t, Apostrophe, Q) \/ m = n + 1)
      /\ \A j \in Ending(t, Apostrophe, Q) : m <= j
    <2> HIDE DEF n
    <2> QED BY <1>1, <1>6, LeastPlace
<1> HIDE DEF e, m
<1>9. end = IF 1 + e > n THEN n + 1 ELSE 1 + e
    BY <1>4 DEF Clipped
<1>10. ASSUME NEW j \in i..n, j <= e PROVE j \in U
    <2>1. CASE j = i
        BY <2>1, <1>1, <1>3
    <2>2. CASE j # i
        <3> DEFINE k == j - 1
        <3>1. k \in i..(n - 1) /\ k \in i..(end - 1) /\ k + 1 = j
            <4> HIDE DEF n
            <4> QED BY <2>2, <1>1, <1>7, <1>9, <1>10
        <3> HIDE DEF k, n
        <3> QED BY <3>1, <1>3
    <2> QED BY <2>1, <2>2
<1>11. \A j \in i..n : j <= e => (j \in P <=> j \in Q)
    BY <1>2, <1>10
<1>12. ASSUME NEW j \in i..n, j <= e
       PROVE  j \in Ending(t, Apostrophe, P) <=> j \in Ending(t, Apostrophe, Q)
    <2>1. \A k : k \in P /\ k < j + 1 <=> k \in Q /\ k < j + 1
        <3> SUFFICES ASSUME NEW k \in i..n, k < j + 1 PROVE k \in P <=> k \in Q
            BY <1>2
        <3>1. k <= e
            <4> HIDE DEF n
            <4> QED BY <1>1, <1>7, <1>12
        <3> QED BY <3>1, <1>11
    <2>2. {k \in P : k < j + 1} = {k \in Q : k < j + 1}
        BY <2>1
    <2>3. CountBefore(P, j + 1) = CountBefore(Q, j + 1)
        BY <2>2 DEF CountBefore
    <2> QED BY <2>3, <1>11, <1>12 DEF Ending
<1> HIDE DEF n
<1>13. e = m
    <2>1. e <= n => e \in Ending(t, Apostrophe, Q)
        BY <1>1, <1>7, <1>12
    <2>2. m <= e
        BY <2>1, <1>1, <1>7, <1>8
    <2>3. m <= n => m \in Ending(t, Apostrophe, P)
        BY <2>2, <1>1, <1>8, <1>12
    <2> QED BY <2>2, <2>3, <1>1, <1>7, <1>8
<1> QED BY <1>4, <1>5, <1>13

\* What PostgreSQL reads where the scanner reads a region, at it or at the E
\* in front of it.
LEMMA LexemeOfRegion ==
    ASSUME NEW r \in Seq(Chars), NEW m \in 1..Len(r), NEW R, R = Region(r, m), R.segment # "Code"
    PROVE  /\ (R.segment = "SingleQuoted" => \A j \in (m + 1)..(R.end - 1) : r[j] # Backslash) =>
                  Pg!LexemeAt(r, m) = [kind |-> R.segment, start |-> m, end |-> R.end]
           /\ \A i \in 1..Len(r) : i + 1 = m /\ Pg!OpensE(r, i) =>
                  Pg!LexemeAt(r, i) = [kind |-> "EString", start |-> m, end |-> R.end]
<1> DEFINE o == Len(r)
<1>1. o \in Nat /\ m \in 1..o /\ m + 1 \in 1..(o + 1)
    OBVIOUS
<1>2. ASSUME NEW kind, NEW start, NEW end
      PROVE  Pg!Lexeme(r, kind, start, end) = [kind |-> kind, start |-> start, end |-> Clipped(r, end)]
    BY DEF Pg!Lexeme, Clipped
<1>3. ASSUME NEW kind, NEW end, R = Span(kind, m, end)
      PROVE  R.segment = kind /\ R.end = end
    BY <1>3 DEF Span
<1>4. r[m] = Apostrophe => R.segment = "SingleQuoted" /\ R.end = QuotedEnd(r, m + 1, Apostrophe)
    <2> DEFINE end == QuotedEnd(r, m + 1, Apostrophe)
    <2>1. r[m] = Apostrophe => R = Span("SingleQuoted", m, end)
        BY RegionsAre
    <2> HIDE DEF end
    <2> QED BY <2>1, <1>3 DEF end
<1>5. ASSUME NEW i \in 1..Len(r), i + 1 = m, Pg!OpensE(r, i)
      PROVE  Pg!LexemeAt(r, i) = [kind |-> "EString", start |-> m, end |-> R.end]
    <2>1. r[m] = Apostrophe /\ i + 1 = m /\ i + 2 = m + 1
        <3>1. r[i + 1] = Apostrophe
            BY <1>5, SameCharacters, CharactersDiffer DEF Pg!OpensE, Pg!At
        <3> HIDE DEF o
        <3> QED BY <3>1, <1>5, <1>1
    <2> DEFINE end == Pg!EStringEnd(r, i + 2)
    <2>2. Pg!LexemeAt(r, i) = Pg!Lexeme(r, "EString", i + 1, end)
        BY <1>5, LexemesAre
    <2>3. Clipped(r, end) = QuotedEnd(r, m + 1, Apostrophe)
        BY <2>1, <1>1, EStringsEndAlike DEF EscapedEnd
    <2> HIDE DEF end
    <2> QED BY <2>1, <2>2, <2>3, <1>2, <1>4
<1>6. ASSUME R.segment = "SingleQuoted" => \A j \in (m + 1)..(R.end - 1) : r[j] # Backslash
      PROVE  Pg!LexemeAt(r, m) = [kind |-> R.segment, start |-> m, end |-> R.end]
    <2>1. CASE r[m] = Apostrophe
        <3> DEFINE end == Pg!QuotedEnd(r, m + 1, Apostrophe)
        <3>1. Pg!LexemeAt(r, m) = Pg!Lexeme(r, "SingleQuoted", m, end)
            BY <2>1, LexemesAre
        <3>2. R.segment = "SingleQuoted" /\ R.end = QuotedEnd(r, m + 1, Apostrophe)
            BY <2>1, <1>4
        <3>3. \A j \in (m + 1)..(R.end - 1) : r[j] # Backslash
            BY <3>2, <1>6
        <3>4. UnescapedEnd(r, m + 1, Apostrophe) = R.end
            BY <3>2, <3>3, <1>1, PlainEndsAlike
        <3>5. Clipped(r, end) = R.end
            BY <3>4 DEF UnescapedEnd
        <3> HIDE DEF end
        <3> QED BY <3>1, <3>2, <3>5, <1>2
    <2>2. CASE r[m] = Quote
        <3> DEFINE end == Pg!QuotedEnd(r, m + 1, Quote)
                   e == QuotedEnd(r, m + 1, Quote)
        <3>1. Pg!LexemeAt(r, m) = Pg!Lexeme(r, "DoubleQuoted", m, end)
            BY <2>2, LexemesAre
        <3>2. R = Span("DoubleQuoted", m, e)
            BY <2>2, RegionsAre
        <3>3. Clipped(r, end) = e
            <4>1. Quote # Apostrophe
                BY CharactersDiffer
            <4> QED BY <4>1, <1>1, UnescapedEndAlike DEF UnescapedEnd
        <3> HIDE DEF end, e
        <3> QED BY <3>1, <3>2, <3>3, <1>2, <1>3
    <2>3. CASE r[m] = "$" /\ DelimiterEnd(r, m) \in DOMAIN r
        <3> DEFINE end == Pg!DollarEnd(r, m)
                   e == DollarQuotedEnd(r, m)
        <3>1. Pg!DollarOpening(r, m) # {}
            BY <2>3, DelimitersEndAlike
        <3>2. Pg!LexemeAt(r, m) = Pg!Lexeme(r, "DollarQuoted", m, end)
            BY <2>3, <3>1, LexemesAre
        <3>3. R = Span("DollarQuoted", m, e)
            BY <2>3, RegionsAre
        <3>4. Clipped(r, end) = e
            BY <2>3, <3>1, DollarQuotesEndAlike
        <3> HIDE DEF end, e
        <3> QED BY <3>2, <3>3, <3>4, <1>2, <1>3
    <2>4. CASE IsPair(r, m, "-", "-")
        <3> DEFINE end == Pg!Least(r, m, LAMBDA j : r[j] = Pg!Newline)
                   e == FirstFrom(r, m, LAMBDA j : r[j] = Newline)
        <3>1. Pg!LexemeAt(r, m) = Pg!Lexeme(r, "LineComment", m, end)
            BY <2>4, LexemesAre
        <3>2. R = Span("LineComment", m, e)
            BY <2>4, RegionsAre
        <3>3. end = e /\ e = Clipped(r, e)
            BY LineCommentsEndAlike
        <3> HIDE DEF end, e
        <3> QED BY <3>1, <3>2, <3>3, <1>2, <1>3
    <2>5. CASE IsPair(r, m, "/", "*")
        <3> DEFINE end == Pg!CommentEnd(r, m)
                   e == BlockCommentEnd(r, m)
        <3>1. Pg!LexemeAt(r, m) = Pg!Lexeme(r, "BlockComment", m, end)
            BY <2>5, LexemesAre
        <3>2. R = Span("BlockComment", m, e)
            BY <2>5, RegionsAre
        <3>3. Clipped(r, end) = e
            BY <2>5, BlockCommentsEndAlike
        <3> HIDE DEF end, e
        <3> QED BY <3>1, <3>2, <3>3, <1>2, <1>3
    <2> QED BY <2>1, <2>2, <2>3, <2>4, <2>5, OpensOne DEF OpensRegion
<1> QED BY <1>5, <1>6

Semicolon == ";"

\* r is what t has from a to before b, where t ends or has a semicolon.  A place
\* of t is d places further on in r.
IsPiece(t, r, a, b, d) ==
    /\ a + d = 1 /\ b + d = Len(r) + 1
    /\ \A k \in a..(b - 1) : r[k + d] = t[k]
    /\ b <= Len(t) => t[b] = Semicolon

Shifted(l, d) == [kind |-> l.kind, start |-> l.start + d, end |-> l.end + d]

LEMMA PiecesAreSame ==
    ASSUME NEW t \in Seq(Chars), NEW r \in Seq(Chars), NEW a \in 1..Len(t), NEW b \in (a + 1)..(Len(t) + 1),
           NEW d \in Int, IsPiece(t, r, a, b, d), NEW j \in a..b, NEW e \in j..b
    PROVE  /\ SameUpTo(t, r, j, e, d)
           /\ j \in 1..(Len(t) + 1) /\ e \in 1..(Len(t) + 1)
           /\ j < b => j \in 1..Len(t) /\ j + d \in 1..Len(r) /\ r[j + d] = t[j]
           /\ j + 1 < b => j + 1 \in 1..Len(t) /\ (j + d) + 1 \in 1..Len(r) /\ r[(j + d) + 1] = t[j + 1]
           /\ j + 1 = b => (j + d) + 1 = Len(r) + 1
<1> DEFINE n == Len(t)
           o == Len(r)
<1>1. /\ n \in Nat /\ o \in Nat /\ a \in 1..n /\ b \in (a + 1)..(n + 1) /\ d \in Int /\ a + d = 1 /\ b + d = o + 1
      /\ \A k \in a..(b - 1) : r[k + d] = t[k]
      /\ b <= n => t[b] = Semicolon
    BY DEF IsPiece
<1> HIDE DEF n, o
<1>3. /\ j \in 1..(n + 1) /\ e \in j..(n + 1) /\ e \in 1..(n + 1)
      /\ j + d \in 1..(o + 1) /\ e + d \in 1..(o + 1)
    BY <1>1
<1>4. \A k \in j..(e - 1) : r[k + d] = t[k]
    <2>1. \A k \in j..(e - 1) : k \in a..(b - 1)
        BY <1>1
    <2> QED BY <2>1, <1>1
<1>5. GoesOnAlike(t, r, e, d)
    <2>1. CASE e < b
        <3>1. e \in a..(b - 1) /\ e <= n /\ e + d <= o
            BY <2>1, <1>1
        <3> QED BY <3>1, <1>1 DEF GoesOnAlike, n, o
    <2>2. CASE ~ (e < b)
        <3>1. e = b
            BY <2>2, <1>1
        <3>2. b + d = o + 1 /\ ~ (o + 1 <= o) /\ (b <= n \/ b = n + 1)
            BY <1>1
        <3>3. b <= n => t[b] \in {"$", ";"}
            BY <1>1, Zenon DEF Semicolon
        <3> QED BY <3>1, <3>2, <3>3, Zenon DEF GoesOnAlike, n, o
    <2> QED BY <2>1, <2>2
<1>6. SameUpTo(t, r, j, e, d)
    BY <1>1, <1>3, <1>4, <1>5 DEF SameUpTo, n, o
<1>7. j < b => j \in a..(b - 1) /\ j \in 1..n /\ j + d \in 1..o
    BY <1>1
<1>8. /\ (j + d) + 1 = (j + 1) + d
      /\ j + 1 < b => j + 1 \in a..(b - 1) /\ j + 1 \in 1..n /\ (j + d) + 1 \in 1..o
      /\ j + 1 = b => (j + d) + 1 = o + 1
    BY <1>1
<1> QED BY <1>1, <1>3, <1>6, <1>7, <1>8 DEF n, o

\* The first place from i on with another character than those of X.
EndOf(t, X, i) == Min({j \in i..Len(t) : t[j] \notin X} \cup {Len(t) + 1})

\* A word or a parameter: it ends where another character comes, or the text.
LEMMA EndsAlike ==
    ASSUME NEW t \in Seq(Chars), NEW r \in Seq(Chars), NEW a \in 1..Len(t), NEW b \in (a + 1)..(Len(t) + 1),
           NEW d \in Int, IsPiece(t, r, a, b, d), NEW X, Semicolon \notin X,
           NEW i \in a..b, NEW e \in i..b, e = EndOf(t, X, i)
    PROVE  EndOf(r, X, i + d) = e + d
<1> DEFINE n == Len(t)
           o == Len(r)
           S == {j \in i..n : t[j] \notin X}
           T == {j \in (i + d)..o : r[j] \notin X}
<1>1. /\ n \in Nat /\ o \in Nat /\ a \in 1..n /\ b \in (a + 1)..(n + 1) /\ d \in Int /\ a + d = 1 /\ b + d = o + 1
      /\ \A k \in a..(b - 1) : r[k + d] = t[k]
      /\ b <= n => t[b] = Semicolon
    BY DEF IsPiece
<1>3. /\ S \subseteq i..n /\ \A j \in i..n : j \in S <=> t[j] \notin X
      /\ T \subseteq (i + d)..o /\ \A j \in (i + d)..o : j \in T <=> r[j] \notin X
    OBVIOUS
<1>4. e = Min(S \cup {n + 1})
    BY DEF EndOf
<1> HIDE DEF S, T, n, o
<1>5. i \in 1..(n + 1) /\ i + d \in 1..(o + 1) /\ e + d \in (i + d)..(o + 1)
    BY <1>1
<1>6. (e \in S \/ e = n + 1) /\ \A j \in S : e <= j
    <2>1. LET z == Min(S \cup {n + 1}) IN z \in i..(n + 1) /\ (z \in S \/ z = n + 1) /\ \A j \in S : z <= j
        <3>1. S \subseteq i..n
            BY <1>3
        <3> QED BY <3>1, <1>1, <1>5, LeastPlace
    <2> QED BY <2>1, <1>4
<1>7. ASSUME NEW k \in (i + d)..((e + d) - 1) PROVE k \notin T
    <2> DEFINE q == k - d
    <2>a. /\ i \in Int /\ e \in Int /\ d \in Int /\ k \in Int /\ a \in Int /\ b \in Int
          /\ a <= i /\ e <= b /\ b <= n + 1 /\ i + d <= k /\ k <= (e + d) - 1 /\ e + d <= o + 1
        BY <1>1, <1>5
    <2>b. q \in Int /\ q + d = k
        BY <2>a
    <2> HIDE DEF q
    <2>1. q \in i..n /\ q \in a..(b - 1) /\ ~ (e <= q) /\ q + d = k /\ k \in (i + d)..o
        BY <2>a, <2>b, <1>1
    <2>2. q \notin S
        BY <2>1, <1>6
    <2>3. t[q] \in X
        BY <2>1, <2>2, <1>3
    <2>4. r[q + d] = t[q]
        BY <2>1, <1>1
    <2> QED BY <2>1, <2>3, <2>4, <1>3
<1>8. e + d \in T \/ e + d = o + 1
    <2>1. CASE e = b
        BY <2>1, <1>1
    <2>2. CASE e # b
        <3>a. i \in Int /\ e \in Int /\ a <= i /\ i <= e /\ e <= b /\ b <= n + 1
            BY <1>1
        <3>1. e \in a..(b - 1) /\ e \in i..n /\ e # n + 1
            BY <2>2, <3>a, <1>1
        <3>b. e + d \in (i + d)..o
            BY <2>2, <3>a, <1>1
        <3>2. t[e] \notin X /\ r[e + d] = t[e]
            BY <3>1, <1>1, <1>3, <1>6
        <3> QED BY <3>b, <3>2, <1>3
    <2> QED BY <2>1, <2>2
<1>9. Min(T \cup {o + 1}) = e + d
    <2> DEFINE g == i + d
               x == e + d
    <2>1. g \in 1..(o + 1) /\ T \subseteq g..o /\ x \in g..(o + 1) /\ (x \in T \/ x = o + 1) /\ \A k \in g..(x - 1) : k \notin T
        BY <1>3, <1>5, <1>7, <1>8
    <2> HIDE DEF g, x
    <2>2. Min(T \cup {o + 1}) = x
        BY <2>1, <1>1, LeastIs
    <2> QED BY <2>2 DEF x
<1> QED BY <1>9 DEF T, o, EndOf

LEMMA CodesDiffer == Semicolon \notin InWord /\ Semicolon \notin Digits /\ Semicolon # "$" /\ Semicolon # "E"
BY Zenon DEF Semicolon, InWord, Letters, Digits

\* What t has from i to before b follows in r too.
LEMMA PiecesFollow ==
    ASSUME NEW t \in Seq(Chars), NEW r \in Seq(Chars), NEW a \in 1..Len(t), NEW b \in (a + 1)..(Len(t) + 1),
           NEW d \in Int, IsPiece(t, r, a, b, d), NEW i \in a..(b - 1)
    PROVE  Follows(t, r, i, d)
<1> DEFINE n == Len(t)
           o == Len(r)
<1>1. /\ n \in Nat /\ o \in Nat /\ a \in 1..n /\ b \in (a + 1)..(n + 1) /\ a + d = 1 /\ b + d = o + 1
      /\ \A k \in a..(b - 1) : r[k + d] = t[k]
    BY DEF IsPiece
<1> HIDE DEF n, o
<1>2. ASSUME NEW k \in (i + d)..o PROVE k - d \in 1..n /\ r[k] = t[k - d]
    <2> DEFINE q == k - d
    <2>1. i \in Int /\ k \in Int /\ a <= i /\ i + d <= k /\ k <= o
        BY <1>1
    <2>2. q \in Int /\ q + d = k
        BY <2>1
    <2> HIDE DEF q
    <2>3. q \in a..(b - 1) /\ q \in 1..n
        BY <2>1, <2>2, <1>1
    <2>4. r[q + d] = t[q]
        BY <2>3, <1>1
    <2> QED BY <2>2, <2>3, <2>4 DEF q
<1>3. \A q \in (i + d)..o : \A k \in (i + d)..q : k \in (i + d)..o
    BY <1>1
<1> QED BY <1>2, <1>3 DEF Follows, n, o

\* A lexeme that ends within a piece is read in it alike.
LEMMA LexemeIsLocal ==
    ASSUME NEW t \in Seq(Chars), NEW r \in Seq(Chars), NEW a \in 1..Len(t), NEW b \in (a + 1)..(Len(t) + 1),
           NEW d \in Int, IsPiece(t, r, a, b, d), NEW i \in a..(b - 1),
           LexemeEnd(t, i) <= b, PlainIn(t, {Pg!LexemeAt(t, i)})
    PROVE  Pg!LexemeAt(r, i + d) = Shifted(Pg!LexemeAt(t, i), d)
<1> DEFINE n == Len(t)
           o == Len(r)
           l == Pg!LexemeAt(t, i)
           m == i + d
<1> SUFFICES Pg!LexemeAt(r, m) = Shifted(l, d)
    OBVIOUS
<1>1. n \in Nat /\ o \in Nat /\ a \in 1..n /\ b \in (a + 1)..(n + 1) /\ b + d = o + 1
    BY DEF IsPiece
<1>2. /\ i \in 1..n /\ i \in a..b /\ i \in Int /\ b \in a..b /\ b \in i..b
      /\ i + 1 \in a..b /\ b \in (i + 1)..b
    <2> HIDE DEF n, o
    <2> QED BY <1>1
<1>3. /\ m \in 1..o /\ r[m] = t[i]
      /\ i + 1 < b => i + 1 \in 1..n /\ m + 1 \in 1..o /\ r[m + 1] = t[i + 1]
      /\ i + 1 = b => m + 1 = o + 1
    <2>1. i < b
        BY <1>1, <1>2
    <2> QED BY <2>1, <1>2, PiecesAreSame
<1>4. /\ l \in LexemesOf(t) /\ l.end \in (i + 1)..b /\ l.end \in i..b /\ l.start \in i..(l.end - 1)
      /\ l.start = (IF l.kind = "EString" THEN i + 1 ELSE i)
      /\ (l.kind = "EString" => t[i] = "E" /\ t[i + 1] = Apostrophe)
    <2>1. l \in LexemesOf(t)
        BY <1>2, LexemesFit
    <2>2. /\ l.end = LexemeEnd(t, i) /\ l.end \in (i + 1)..(n + 1) /\ l.start \in i..(l.end - 1)
          /\ l.start = (IF l.kind = "EString" THEN i + 1 ELSE i)
          /\ (l.kind = "EString" => t[i] = "E" /\ t[i + 1] = Apostrophe)
        BY <1>2, LexemesStart
    <2>3. LexemeEnd(t, i) <= b
        OBVIOUS
    <2> HIDE DEF l, n
    <2>4. l.end \in (i + 1)..b /\ l.end \in i..b
        BY <2>2, <2>3, <1>1, <1>2
    <2> QED BY <2>1, <2>2, <2>4
<1>5. KindFits(t, l, i) /\ Matches(t, l, i)
    BY <1>2, KindsFit, LexemesMatch
<1>6. ASSUME NEW kind, NEW end, Pg!LexemeAt(r, m) = [kind |-> kind, start |-> l.start + d, end |-> end],
             kind = l.kind, end = l.end + d
      PROVE  Pg!LexemeAt(r, m) = Shifted(l, d)
    BY <1>6 DEF Shifted
<1>7. l.end + d \in 1..(o + 1) /\ l.end + d <= o + 1 /\ l.start \in a..(b - 1) /\ l.start \in 1..n /\ l.start \in Int
    <2> HIDE DEF l, n, o
    <2>1. l.end \in Int /\ l.start \in Int /\ i <= l.start /\ l.start <= l.end - 1 /\ i + 1 <= l.end /\ l.end <= b /\ a <= i /\ b <= n + 1
        BY <1>1, <1>2, <1>4
    <2> DEFINE e == l.end
               s == l.start
    <2>2. d \in Int /\ e \in Int /\ s \in Int /\ i <= s /\ s <= e - 1 /\ i + 1 <= e /\ e <= b /\ a <= i /\ b <= n + 1
        BY <2>1
    <2>3. i + d >= 1 /\ i + d \in Int
        BY <1>2, <1>3
    <2> HIDE DEF e, s, m
    <2>4. e + d \in 1..(o + 1) /\ e + d <= o + 1 /\ s \in a..(b - 1) /\ s \in 1..n /\ s \in Int
        BY <2>2, <2>3, <1>1, <1>2
    <2> QED BY <2>4 DEF e, s
<1>8. ASSUME NEW kind, NEW start, NEW end, end = l.end + d
      PROVE  Pg!Lexeme(r, kind, start, end) = [kind |-> kind, start |-> start, end |-> end]
    <2>1. ~ (end > Len(r))  \/ end = Len(r) + 1
        <3>1. end \in 1..(o + 1)
            BY <1>7, <1>8
        <3> HIDE DEF o
        <3>2. ~ (end > o) \/ end = o + 1
            BY <3>1, <1>1
        <3> QED BY <3>2 DEF o
    <2> QED BY <2>1 DEF Pg!Lexeme
<1>9. ASSUME NEW segment, Region(t, l.start) = Span(segment, l.start, l.end), segment # "Code"
      PROVE  /\ l.start + d \in 1..Len(r)
             /\ Region(r, l.start + d) = Span(segment, l.start + d, l.end + d)
             /\ \A k \in l.start..(l.end - 1) : r[k + d] = t[k]
    <2> DEFINE q == l.start
               e == l.end
    <2>1. Region(t, q).segment = segment /\ Region(t, q).end = e
        BY <1>9 DEF Span
    <2>2. q \in a..b /\ e \in q..b /\ q \in 1..Len(t)
        <3> HIDE DEF l
        <3> QED BY <1>1, <1>4, <1>7
    <2> HIDE DEF q, e, l
    <2>3. SameUpTo(t, r, q, e, d)
        BY <2>2, PiecesAreSame
    <2>4. MovedRegion(t, r, q, d)
        BY <2>1, <2>2, <2>3, <1>9, RegionIsLocal
    <2>5. /\ q + d \in 1..Len(r)
          /\ Region(r, q + d) = Span(segment, q + d, e + d)
          /\ \A k \in q..(e - 1) : r[k + d] = t[k]
        BY <2>1, <2>4 DEF MovedRegion
    <2> QED BY <2>5 DEF q, e
<1>10. Named({l}) # {} => Named({l}) = {Region(t, l.start)}
    BY <1>5 DEF Matches
<1>11. Named({l}) = {} => Region(t, i).segment = "Code"
    <2>1. Named({l}) = {} => AllCode(t, i, l.end) \/ Named({l}) = {Region(t, l.start)}
        BY <1>5 DEF Matches
    <2>2. i \in i..(l.end - 1)
        <3> HIDE DEF l
        <3> QED BY <1>2, <1>4
    <2> QED BY <2>1, <2>2 DEF AllCode
<1>12. CASE l.kind \in {"SingleQuoted", "DoubleQuoted", "DollarQuoted", "LineComment", "BlockComment"}
    <2>1. l.start = i /\ l.kind # "EString" /\ l.kind # "Code"
        BY <1>4, <1>12
    <2>2. Named({l}) = {Span(l.kind, l.start, l.end)}
        <3> HIDE DEF l
        <3> QED BY <1>12, <2>1, NamedOne
    <2>3. Region(t, l.start) = Span(l.kind, l.start, l.end)
        <3> HIDE DEF l
        <3> QED BY <2>2, <1>10
    <2>4. /\ Region(r, l.start + d) = Span(l.kind, l.start + d, l.end + d)
          /\ \A k \in l.start..(l.end - 1) : r[k + d] = t[k]
        BY <2>1, <2>3, <1>9
    <2>5. l.kind = "SingleQuoted" => \A j \in (m + 1)..((l.end + d) - 1) : r[j] # Backslash
        <3> SUFFICES ASSUME l.kind = "SingleQuoted", NEW j \in (m + 1)..((l.end + d) - 1) PROVE r[j] # Backslash
            OBVIOUS
        <3>1. Backslash \notin ToSet(Text(t, l))
            BY DEF PlainIn
        <3>2. l.start \in 1..(Len(t) + 1) /\ l.end \in 1..(Len(t) + 1)
            BY <1>4 DEF LexemesOf
        <3> DEFINE e == l.end
                   s == l.start
                   q == j - d
        <3>3. \A k \in s..(e - 1) : t[k] # Backslash
            BY <3>1, <3>2, InText
        <3>4. e \in Int /\ s = i
            BY <2>1, <1>4
        <3>5. \A k \in s..(e - 1) : r[k + d] = t[k]
            BY <2>4
        <3>6. j \in (m + 1)..((e + d) - 1)
            OBVIOUS
        <3> HIDE DEF e, s, l
        <3>7. q \in s..(e - 1) /\ q + d = j
            BY <3>4, <3>6, <1>2
        <3> HIDE DEF q
        <3> QED BY <3>3, <3>5, <3>7
    <2> DEFINE R == Region(r, m)
    <2>6. R.segment = l.kind /\ R.end = l.end + d
        BY <2>1, <2>4 DEF Span
    <2>7. R.segment # "Code" /\ (R.segment = "SingleQuoted" => \A j \in (m + 1)..(R.end - 1) : r[j] # Backslash)
        BY <2>1, <2>5, <2>6
    <2>8. Pg!LexemeAt(r, m) = [kind |-> R.segment, start |-> m, end |-> R.end]
        <3>1. m \in 1..Len(r)
            BY <1>3
        <3> HIDE DEF m
        <3> QED BY <3>1, <2>7, LexemeOfRegion
    <2>9. m = l.start + d
        BY <2>1
    <2> HIDE DEF l, R, m
    <2> QED BY <2>6, <2>8, <2>9 DEF Shifted
<1>13. CASE l.kind = "EString"
    <2>1. l.start = i + 1 /\ t[i] = "E" /\ t[i + 1] = Apostrophe /\ i + 1 < b
        <3>1. l.start = i + 1 /\ t[i] = "E" /\ t[i + 1] = Apostrophe
            BY <1>4, <1>13
        <3>2. l.start < b
            <4> HIDE DEF l
            <4> QED BY <1>1, <1>4
        <3> QED BY <3>1, <3>2
    <2>2. Named({l}) = {Span("SingleQuoted", l.start, l.end)}
        <3> HIDE DEF l
        <3> QED BY <1>13, NamedOne
    <2>3. Region(t, l.start) = Span("SingleQuoted", l.start, l.end)
        <3> HIDE DEF l
        <3> QED BY <2>2, <1>10
    <2> DEFINE g == l.start + d
               R == Region(r, g)
    <2>4. g \in 1..Len(r) /\ R = Span("SingleQuoted", g, l.end + d)
        <3>1. "SingleQuoted" # "Code"
            OBVIOUS
        <3> QED BY <2>3, <3>1, <1>9
    <2>5. R.segment = "SingleQuoted" /\ R.end = l.end + d /\ R.segment # "Code"
        BY <2>4 DEF Span
    <2>6. m + 1 = g /\ r[m] = "E" /\ r[m + 1] = Apostrophe /\ m + 1 \in 1..o
        <3> HIDE DEF l
        <3>1. (i + d) + 1 = (i + 1) + d
            BY <1>2
        <3> QED BY <3>1, <2>1, <1>3
    <2>7. Pg!OpensE(r, m)
        BY <2>6, SameCharacters DEF Pg!OpensE, Pg!At
    <2>8. Pg!LexemeAt(r, m) = [kind |-> "EString", start |-> g, end |-> R.end]
        <3>1. m \in 1..Len(r)
            BY <1>3
        <3> HIDE DEF m, g, l
        <3> QED BY <2>4, <2>5, <2>6, <2>7, <3>1, LexemeOfRegion
    <2> HIDE DEF R, l, m
    <2> QED BY <2>5, <2>8, <1>13 DEF Shifted, g
<1>14. CASE l.kind = "Word"
    <2>1. t[i] \in Letters /\ l.end = Pg!WordEnd(t, i) /\ l.start = i
        BY <1>4, <1>5, <1>14 DEF KindFits
    <2>2. ~ Pg!OpensE(t, i)
        <3> DEFINE end == Pg!EStringEnd(t, i + 2)
        <3>1. Pg!OpensE(t, i) => l = Pg!Lexeme(t, "EString", i + 1, end)
            BY <1>2, LexemesAre
        <3> HIDE DEF end, l, m
        <3> QED BY <3>1, <1>14, LexemesHave
    <2>3. ~ Pg!OpensE(r, m)
        <3> SUFFICES ASSUME Pg!OpensE(r, m) PROVE FALSE
            OBVIOUS
        <3>1. r[m] = "E" /\ m + 1 \in 1..o /\ r[m + 1] = Apostrophe
            BY SameCharacters, CharactersDiffer DEF Pg!OpensE, Pg!At
        <3>2. i + 1 < b
            <4>1. m + 1 # o + 1
                BY <3>1, <1>1
            <4> HIDE DEF n, o, m, l
            <4> QED BY <4>1, <1>1, <1>2, <1>3
        <3>3. t[i] = "E" /\ t[i + 1] = Apostrophe /\ i + 1 \in 1..n
            BY <3>1, <3>2, <1>3
        <3>4. Pg!OpensE(t, i)
            BY <3>3, SameCharacters DEF Pg!OpensE, Pg!At
        <3> QED BY <3>4, <2>2
    <2>4. r[m] \in Letters /\ m \in 1..Len(r)
        BY <2>1, <1>3
    <2> DEFINE end == Pg!WordEnd(r, m)
    <2>5. Pg!LexemeAt(r, m) = Pg!Lexeme(r, "Word", m, end)
        BY <2>3, <2>4, LexemesAre
    <2>6. end = l.end + d
        <3>1. l.end = EndOf(t, InWord, i) /\ end = EndOf(r, InWord, m)
            BY <2>1, WordEndsAre DEF EndOf
        <3>2. Semicolon \notin InWord
            BY CodesDiffer
        <3> DEFINE e == l.end
        <3>3. e \in i..b /\ e = EndOf(t, InWord, i)
            BY <3>1, <1>4
        <3> HIDE DEF e
        <3>4. EndOf(r, InWord, i + d) = e + d
            BY <3>2, <3>3, <1>2, EndsAlike
        <3> QED BY <3>1, <3>4 DEF e
    <2>7. m = l.start + d
        BY <2>1
    <2>8. Pg!Lexeme(r, "Word", m, end) = [kind |-> "Word", start |-> m, end |-> end]
        BY <2>6, <1>8
    <2> HIDE DEF end, l, m
    <2> QED BY <2>5, <2>6, <2>7, <2>8, <1>14 DEF Shifted
<1>15. CASE l.kind \in {"Parameter", "Other"}
    <2>1. Named({l}) = {}
        <3>1. l.kind # "EString" /\ l.kind \notin {"SingleQuoted", "DoubleQuoted", "DollarQuoted", "LineComment", "BlockComment"}
            BY <1>15
        <3> HIDE DEF l
        <3> QED BY <3>1, NamedOne
    <2>2. Region(r, m).segment = "Code"
        <3>1. Follows(t, r, i, d)
            BY PiecesFollow
        <3>2. Region(t, i).segment = "Code"
            BY <2>1, <1>11
        <3> QED BY <3>1, <3>2, <1>2, <1>3, CodeIsLocal
    <2>3. ~ OpensRegion(r, m) /\ m \in 1..Len(r)
        BY <2>2, <1>3, OpensOne
    <2>4. l.start = i
        BY <1>4, <1>15
    <2>5. CASE l.kind = "Parameter"
        <3>1. t[i] = "$" /\ l.end = Pg!ParamEnd(t, i)
            BY <2>5, <1>5 DEF KindFits
        <3>2. r[m] = "$" /\ Pg!DollarOpening(r, m) = {}
            <4>1. r[m] = "$"
                BY <3>1, <1>3
            <4> QED BY <4>1, <2>3, DelimitersEndAlike DEF OpensRegion
        <3> DEFINE end == Pg!ParamEnd(r, m)
        <3>3. Pg!LexemeAt(r, m) = Pg!Lexeme(r, "Parameter", m, end)
            BY <3>2, <2>3, LexemesAre
        <3>4. end = l.end + d
            <4> DEFINE j == i + 1
                       e == l.end
            <4>1. e = EndOf(t, Digits, j) /\ end = EndOf(r, Digits, m + 1)
                BY <3>1, WordEndsAre DEF EndOf
            <4>2. Semicolon \notin Digits
                BY CodesDiffer
            <4>3. e \in j..b /\ j \in a..b /\ m + 1 = j + d
                <5>1. e \in j..b /\ j \in a..b
                    BY <1>2, <1>4
                <5>2. (i + d) + 1 = (i + 1) + d
                    <6> HIDE DEF l
                    <6> QED BY <1>2
                <5> QED BY <5>1, <5>2
            <4> HIDE DEF e, j, m, l, end
            <4>4. EndOf(r, Digits, j + d) = e + d
                BY <4>1, <4>2, <4>3, EndsAlike
            <4> QED BY <4>1, <4>3, <4>4 DEF e
        <3>5. m = l.start + d
            BY <2>4
        <3>6. Pg!Lexeme(r, "Parameter", m, end) = [kind |-> "Parameter", start |-> m, end |-> end]
            BY <3>4, <1>8
        <3> HIDE DEF end, l, m
        <3> QED BY <2>5, <3>3, <3>4, <3>5, <3>6 DEF Shifted
    <2>6. CASE l.kind = "Other"
        <3>1. t[i] \notin {Apostrophe, Quote, "$"} \cup Letters /\ l.end = i + 1
            BY <2>6, <1>5 DEF KindFits
        <3>2. r[m] \notin {Apostrophe, Quote, "$"} \cup Letters /\ ~ OpensComment(r, m)
            BY <3>1, <2>3, <1>3 DEF OpensRegion, OpensComment
        <3>3. Pg!LexemeAt(r, m) = Pg!Lexeme(r, "Other", m, m + 1)
            BY <3>2, <2>3, LexemesAre
        <3>4. m + 1 = l.end + d
            <4>1. (i + d) + 1 = (i + 1) + d
                <5> HIDE DEF l
                <5> QED BY <1>2
            <4> QED BY <4>1, <3>1
        <3>5. m = l.start + d
            BY <2>4
        <3>6. Pg!Lexeme(r, "Other", m, m + 1) = [kind |-> "Other", start |-> m, end |-> m + 1]
            BY <3>4, <1>8
        <3> HIDE DEF l, m
        <3> QED BY <2>6, <3>3, <3>4, <3>5, <3>6 DEF Shifted
    <2> QED BY <1>15, <2>5, <2>6
<1>16. l.kind \in Kinds
    BY <1>4 DEF LexemesOf
<1> HIDE DEF l, m
<1> QED BY <1>12, <1>13, <1>14, <1>15, <1>16 DEF Kinds

-----------------------------------------------------------------------------
(* The empty text                                                          *)

LEMMA NothingIsRead == Scan(<<>>) = <<>> /\ Pg!Lexemes(<<>>) = {} /\ Rewritten(<<>>) = <<>>
<1>1. <<>> \in Seq(Chars) /\ Len(<<>>) = 0
    OBVIOUS
<1>2. Scan(<<>>) = <<>>
    <2> DEFINE s == Scan(<<>>)
    <2>1. PICK f : ScansFrom(<<>>, f) /\ s = f[1]
        BY <1>1, ScanGoesOn
    <2>2. 1 \in 1..(Len(<<>>) + 1)
        BY <1>1
    <2>3. Tiles(<<>>, s, 1)
        BY <2>1, <2>2, <1>1, SpansTile
    <2>4. s \in Seq(SpansOf(<<>>)) /\ \A k \in 1..Len(s) : s[k].start < s[k].end
        BY <2>3 DEF Tiles
    <2> HIDE DEF s
    <2>5. \A k \in 1..Len(s) : s[k].start = 1 /\ s[k].end = 1
        <3>1. \A k \in 1..Len(s) : s[k] \in SpansOf(<<>>)
            BY <2>4
        <3> QED BY <3>1, <1>1 DEF SpansOf
    <2>6. Len(s) = 0
        <3>1. Len(s) \in Nat /\ (Len(s) # 0 => 1 \in 1..Len(s))
            BY <2>4
        <3> QED BY <3>1, <2>4, <2>5
    <2>7. s = <<>>
        BY <2>4, <2>6
    <2> QED BY <2>7 DEF s
<1>3. Pg!Lexemes(<<>>) = {}
    <2>1. PICK g : LexesFrom(<<>>, g) /\ Pg!Lexemes(<<>>) = g[1]
        BY <1>1, LexingGoesOn
    <2> DEFINE G(i) == IF i > Len(<<>>) THEN {}
                       ELSE {Pg!LexemeAt(<<>>, i)} \cup g[Pg!LexemeAt(<<>>, i).end]
    <2>2. g = [i \in 1..(Len(<<>>) + 1) |-> G(i)]
        BY <2>1 DEF LexesFrom
    <2>3. 1 > Len(<<>>) /\ 1 \in 1..(Len(<<>>) + 1)
        BY <1>1
    <2>5. G(1) = {}
        BY <2>3
    <2> HIDE DEF G
    <2>4. g[1] = G(1)
        BY <2>2, <2>3
    <2> QED BY <2>1, <2>4, <2>5
<1>4. Rewritten(<<>>) = <<>>
    <2>1. PICK h : SendsFrom(<<>>, h) /\ Rewritten(<<>>) = h[1]
        BY <1>1, SendingGoesOn
    <2>2. 1 \in 1..(Len(<<>>) + 1) /\ 1 > Len(<<>>)
        BY <1>1
    <2>3. h[1] = <<>>
        BY <1>1, <2>1, <2>2, SendsALead
    <2> QED BY <2>1, <2>3
<1> QED BY <1>2, <1>3, <1>4

-----------------------------------------------------------------------------
(* Statements                                                              *)

LEMMA CutsAre ==
    ASSUME NEW t \in Seq(Chars), NEW i
    PROVE  i \in Cuts(t) <=> (i \in CodeIn(Scan(t)) /\ t[i] = Semicolon) \/ i = Len(t) + 1
BY Zenon DEF Cuts, Semicolon

\* PostgreSQL's lexer comes to the end of the text.
LEMMA EndIsVisited ==
    ASSUME NEW t \in Seq(Chars)
    PROVE  Len(t) + 1 \in Visited(t)
<1> DEFINE n == Len(t)
           V == Visited(t)
           E(i) == LexemeEnd(t, i)
<1>1. n \in Nat /\ V \subseteq 1..(n + 1) /\ 1 \in V /\ \A k \in V : k <= n => E(k) \in V
    BY VisitedGoesOn
<1>2. CASE n = 0
    BY <1>1, <1>2
<1>3. CASE n # 0
    <2>1. n \in 1..Len(t)
        BY <1>1, <1>3
    <2>2. PICK j \in V : j \in 1..n /\ j <= n /\ n < E(j)
        BY <2>1, VisitedCover
    <2> HIDE DEF V, E, n
    <2>3. E(j) \in V /\ E(j) \in 1..(n + 1)
        BY <2>2, <1>1
    <2>4. E(j) = n + 1
        BY <2>2, <2>3, <1>1
    <2> QED BY <2>3, <2>4 DEF V, n
<1> QED BY <1>2, <1>3

\* A semicolon in code is a lexeme, and PostgreSQL's lexer comes to it.
LEMMA SemicolonsAreLexemes ==
    ASSUME NEW t \in Seq(Chars), PlainIn(t, Pg!Lexemes(t)), NEW c \in 1..Len(t), t[c] = Semicolon
    PROVE  c \in CodeIn(Scan(t)) <=> /\ c \in Visited(t)
                                     /\ Pg!LexemeAt(t, c).kind = "Other"
                                     /\ LexemeEnd(t, c) = c + 1
<1> DEFINE n == Len(t)
           V == Visited(t)
           C == CodeIn(Scan(t))
<1>1. n \in Nat /\ V \subseteq 1..(n + 1) /\ c \in 1..n
    BY VisitedGoesOn
<1>2. ASSUME c \in C
      PROVE  c \in V /\ Pg!LexemeAt(t, c).kind = "Other" /\ LexemeEnd(t, c) = c + 1
    <2>1. PICK j \in V : j \in 1..c /\ j <= n /\ c < LexemeEnd(t, j)
        BY VisitedCover
    <2> DEFINE l == Pg!LexemeAt(t, j)
               end == LexemeEnd(t, j)
    <2>2. j \in 1..n /\ c \in j..(end - 1)
        <3>1. end \in Int
            <4>1. j \in 1..Len(t)
                <5> HIDE DEF V
                <5> QED BY <2>1, <1>1
            <4> QED BY <4>1, LexemeEndFits
        <3> HIDE DEF end, V
        <3> QED BY <2>1, <3>1, <1>1 DEF end
    <2>3. c \in CodeAt(t, j)
        BY <2>1, <2>2, <1>2, CodeVisited
    <2>4. CodeKind(t, j, l, c)
        BY <2>2, <2>3, CodeKinds
    <2>5. l.kind = "Other" /\ c = j /\ l.end = j + 1
        <3> HIDE DEF l
        <3>1. Semicolon # "E" /\ Semicolon \notin InWord /\ Semicolon # "$" /\ Semicolon \notin Digits
            BY CodesDiffer
        <3> QED BY <2>4, <3>1 DEF CodeKind
    <2>6. l.end = end
        BY DEF LexemeEnd
    <2> HIDE DEF l
    <2> QED BY <2>1, <2>5, <2>6 DEF l
<1>3. ASSUME c \in V, Pg!LexemeAt(t, c).kind = "Other", LexemeEnd(t, c) = c + 1
      PROVE  c \in C
    <2> DEFINE l == Pg!LexemeAt(t, c)
    <2>1. Named({l}) = {} /\ l.end = c + 1
        <3>1. l.kind = "Other" /\ l.end = c + 1
            BY <1>3 DEF LexemeEnd
        <3> HIDE DEF l
        <3> QED BY <3>1, NamedOne
    <2>2. CodeAt(t, c) = c..c
        <3>1. CodeBefore(l, c) = c + 1
            <4> HIDE DEF l
            <4> QED BY <2>1 DEF CodeBefore
        <3> HIDE DEF l
        <3> QED BY <3>1, <1>1 DEF CodeAt, l
    <2>3. c \in c..(LexemeEnd(t, c) - 1) /\ c <= Len(t)
        BY <1>1, <1>3
    <2> QED BY <2>2, <2>3, <1>3, CodeVisited
<1> QED BY <1>2, <1>3

\* r is a statement of t: what stands between two cuts, or a cut and an end.
IsStatement(t, r, a, b, d) ==
    /\ t \in Seq(Chars) /\ r \in Seq(Chars) /\ d \in Int
    /\ a \in 1..Len(t) /\ b \in (a + 1)..(Len(t) + 1)
    /\ a \in Visited(t) /\ b \in Visited(t)
    /\ IsPiece(t, r, a, b, d)
    /\ PlainIn(t, Pg!Lexemes(t))

\* The scanner's code is within the text.
LEMMA CodeFits ==
    ASSUME NEW t \in Seq(Chars)
    PROVE  CodeIn(Scan(t)) \subseteq 1..Len(t)
<1> DEFINE n == Len(t)
           C == CodeIn(Scan(t))
<1>1. n \in Nat
    OBVIOUS
<1>2. C \subseteq 1..n
    <2>1. Tiles(t, Scan(t), 1)
        BY ScanTiles
    <2> DEFINE S == Scan(t)
    <2>2. \A k \in 1..Len(S) : S[k].start \in 1..(n + 1) /\ S[k].end \in 1..(n + 1)
        BY <2>1, TilesInOrder
    <2>3. \A s \in ToSet(S) : s.start \in 1..(n + 1) /\ s.end \in 1..(n + 1)
        <3>1. ToSet(S) = {S[k] : k \in 1..Len(S)}
            <4>1. DOMAIN S = 1..Len(S)
                BY <2>1 DEF Tiles
            <4> HIDE DEF S
            <4> QED BY <4>1 DEF ToSet
        <3> HIDE DEF S, n
        <3> QED BY <2>2, <3>1
    <2> HIDE DEF S
    <2>4. \A x \in C : x \in 1..n
        <3> SUFFICES ASSUME NEW x \in C PROVE x \in 1..n
            OBVIOUS
        <3>1. PICK s \in ToSet(S) : x \in Places(s)
            BY PlacesOfCode DEF S
        <3> HIDE DEF C, n
        <3> QED BY <3>1, <2>3, <1>1 DEF Places
    <2> QED BY <2>4
<1> QED BY <1>2

\* What stands between a start and a cut.
LEMMA BetweenCuts ==
    ASSUME NEW t \in Seq(Chars), PlainIn(t, Pg!Lexemes(t)),
           NEW a \in {1} \cup {c + 1 : c \in Cuts(t)}, NEW b \in Cuts(t), a < b
    PROVE  IsStatement(t, SubSeq(t, a, b - 1), a, b, 1 - a)
<1> DEFINE n == Len(t)
           V == Visited(t)
           C == CodeIn(Scan(t))
<1>1. n \in Nat /\ V \subseteq 1..(n + 1) /\ 1 \in V /\ (\A k \in V : k <= n => LexemeEnd(t, k) \in V) /\ n + 1 \in V
    BY VisitedGoesOn, EndIsVisited
<1>4. C \subseteq 1..n
    BY CodeFits
<1>5. \A c : c \in Cuts(t) <=> (c \in C /\ t[c] = Semicolon) \/ c = n + 1
    BY CutsAre
<1>6. ASSUME NEW c \in C, t[c] = Semicolon PROVE c \in V /\ c + 1 \in V /\ c \in 1..n
    <2>1. c \in 1..n
        BY <1>4
    <2>2. c \in V /\ LexemeEnd(t, c) = c + 1
        BY <2>1, <1>6, SemicolonsAreLexemes
    <2>3. c <= n
        BY <2>1
    <2> HIDE DEF V, C, n
    <2> QED BY <2>1, <2>2, <2>3, <1>1
<1>7. b \in V /\ b \in 1..(n + 1) /\ (b <= n => t[b] = Semicolon)
    <2>1. (b \in C /\ t[b] = Semicolon) \/ b = n + 1
        BY <1>5
    <2> HIDE DEF V, C, n
    <2> QED BY <2>1, <1>1, <1>6
<1>8. a \in Nat /\ a \in 1..(n + 2) /\ (a <= n + 1 => a \in V)
    <2>1. a = 1 \/ \E c \in Cuts(t) : a = c + 1
        OBVIOUS
    <2>2. CASE a = 1
        <3> HIDE DEF V, n
        <3> QED BY <2>2, <1>1
    <2>3. CASE \E c \in Cuts(t) : a = c + 1
        <3>1. PICK c \in Cuts(t) : a = c + 1
            BY <2>3
        <3>2. (c \in C /\ t[c] = Semicolon) \/ c = n + 1
            BY <1>5
        <3> HIDE DEF V, C, n
        <3> QED BY <3>1, <3>2, <1>1, <1>6
    <2> QED BY <2>1, <2>2, <2>3
<1>10. a \in 1..n /\ b \in (a + 1)..(n + 1) /\ a \in V
    <2> HIDE DEF V, n
    <2> QED BY <1>1, <1>7, <1>8
<1>11. SubSeq(t, a, b - 1) \in Seq(Chars) /\ IsPiece(t, SubSeq(t, a, b - 1), a, b, 1 - a)
    <2> DEFINE h == b - 1
               x == SubSeq(t, a, h)
               d == 1 - a
    <2>1. h \in Int /\ a \in Int /\ a <= h /\ h + 1 = b /\ h <= n /\ b \in Int /\ d \in Int /\ a + d = 1
        <3> HIDE DEF V, n
        <3> QED BY <1>1, <1>10
    <2>2. \A k \in a..h : t[k] \in Chars
        <3>1. \A k \in a..h : k \in 1..n
            <4> HIDE DEF V, n, h
            <4> QED BY <2>1, <1>1, <1>10
        <3> QED BY <3>1
    <2> HIDE DEF h
    <2>3. IsSlice(t, a, h)
        BY <2>1, <2>2, SlicesAre
    <2>4. x \in Seq(Chars) /\ Len(x) = h - a + 1 /\ \A k \in 1..(h - a + 1) : x[k] = t[a + k - 1]
        BY <2>1, <2>3 DEF IsSlice
    <2> HIDE DEF x
    <2>5. b + d = Len(x) + 1
        <3> HIDE DEF n
        <3> QED BY <2>1, <2>4
    <2>6. \A k \in a..h : x[k + d] = t[k]
        <3> SUFFICES ASSUME NEW k \in a..h PROVE x[k + d] = t[k]
            OBVIOUS
        <3> DEFINE q == k + d
        <3>1. q \in 1..(h - a + 1) /\ a + q - 1 = k
            <4> HIDE DEF n
            <4> QED BY <2>1
        <3> HIDE DEF q
        <3>2. x[q] = t[a + q - 1]
            BY <3>1, <2>4
        <3>3. x[q] = t[k]
            BY <3>1, <3>2
        <3> QED BY <3>3 DEF q
    <2>7. b - 1 = h
        BY DEF h
    <2> HIDE DEF d
    <2>8. IsPiece(t, x, a, b, d)
        BY <2>1, <2>5, <2>6, <2>7, <1>7 DEF IsPiece
    <2> QED BY <2>4, <2>8 DEF x, h, d
<1> QED BY <1>1, <1>7, <1>10, <1>11 DEF IsStatement

\* A statement the text is split into.
LEMMA PiecesAreStatements ==
    ASSUME NEW t \in Seq(Chars), PlainIn(t, Pg!Lexemes(t)), NEW p \in Pieces(t)
    PROVE  /\ IsStatement(t, Text(t, p), p.start, p.end, 1 - p.start)
           /\ Places(p) = p.start..(p.end - 1) /\ Places(p) \cap Cuts(t) = {}
<1> DEFINE n == Len(t)
<1>1. n \in Nat /\ CodeIn(Scan(t)) \subseteq 1..n
    BY CodeFits
<1>2. PICK a \in {1} \cup {c + 1 : c \in Cuts(t)}, b \in Cuts(t) :
          /\ p = Span("Code", a, b)
          /\ Places(p) \cap Cuts(t) = {} /\ ~ IsBlankStatement(Text(t, p))
    BY DEF Pieces
<1>3. p.start = a /\ p.end = b /\ Places(p) = a..(b - 1) /\ Text(t, p) = SubSeq(t, a, b - 1)
    BY <1>2 DEF Span, Places, Text
<1>4. Cuts(t) \subseteq 1..(n + 1)
    <2> SUFFICES ASSUME NEW c \in Cuts(t) PROVE c \in 1..(n + 1)
        OBVIOUS
    <2>1. c \in CodeIn(Scan(t)) \/ c = n + 1
        BY CutsAre
    <2>2. c \in CodeIn(Scan(t)) => c \in 1..n
        BY <1>1
    <2> HIDE DEF n
    <2> QED BY <2>1, <2>2, <1>1
<1>7. b \in 1..(n + 1)
    BY <1>4
<1>8. a \in 1..(n + 2)
    <2>1. a = 1 \/ \E c \in Cuts(t) : a = c + 1
        OBVIOUS
    <2>2. ASSUME NEW c \in Cuts(t), a = c + 1 PROVE a \in 1..(n + 2)
        <3>1. c \in 1..(n + 1)
            BY <1>4
        <3> HIDE DEF n
        <3> QED BY <3>1, <2>2, <1>1
    <2>3. 1 \in 1..(n + 2)
        <3> HIDE DEF n
        <3> QED BY <1>1
    <2> QED BY <2>1, <2>2, <2>3
<1>9. a < b
    <2> SUFFICES ASSUME ~ (a < b) PROVE FALSE
        OBVIOUS
    <2>1. SubSeq(t, a, b - 1) = <<>>
        <3> DEFINE h == b - 1
                   x == SubSeq(t, a, h)
        <3>1. h \in Int /\ a \in Int /\ ~ (a <= h)
            <4> HIDE DEF n
            <4> QED BY <1>7, <1>8
        <3> HIDE DEF h
        <3>2. \A k \in a..h : t[k] \in Chars
            BY <3>1
        <3>3. IsSlice(t, a, h)
            BY <3>1, <3>2, SlicesAre
        <3>4. x \in Seq(Chars) /\ Len(x) = 0
            BY <3>1, <3>3 DEF IsSlice
        <3> HIDE DEF x
        <3>5. x = <<>>
            BY <3>4
        <3> QED BY <3>5 DEF x, h
    <2>2. IsBlankStatement(<<>>)
        <3>1. ToSet(<<>>) = {}
            BY DEF ToSet
        <3> QED BY <3>1, NothingIsRead DEF IsBlankStatement, BlankBefore
    <2> QED BY <2>1, <2>2, <1>2, <1>3
<1>10. IsStatement(t, SubSeq(t, a, b - 1), a, b, 1 - a)
    BY <1>9, BetweenCuts
<1> QED BY <1>2, <1>3, <1>10

\* A lexeme that is come to within a statement ends in it and is its own.
LEMMA LexemesOfStatement ==
    ASSUME NEW t, NEW r, NEW a, NEW b, NEW d, IsStatement(t, r, a, b, d),
           NEW j \in Visited(t), j \in a..(b - 1)
    PROVE  /\ j \in 1..Len(t) /\ j + d \in 1..Len(r)
           /\ LexemeEnd(t, j) \in (j + 1)..b
           /\ Pg!LexemeAt(r, j + d) = Shifted(Pg!LexemeAt(t, j), d)
           /\ LexemeEnd(r, j + d) = LexemeEnd(t, j) + d
<1> DEFINE n == Len(t)
           o == Len(r)
           V == Visited(t)
           end == LexemeEnd(t, j)
<1>1. /\ t \in Seq(Chars) /\ r \in Seq(Chars) /\ d \in Int /\ n \in Nat /\ o \in Nat
      /\ a \in 1..n /\ b \in (a + 1)..(n + 1) /\ a \in V /\ b \in V
      /\ IsPiece(t, r, a, b, d) /\ PlainIn(t, Pg!Lexemes(t)) /\ b + d = o + 1 /\ a + d = 1
    BY DEF IsStatement, IsPiece
<1>2. j \in 1..n /\ j <= n /\ j < b /\ j + d \in 1..o
    <2> HIDE DEF n, o, V
    <2> QED BY <1>1
<1>3. end \in (j + 1)..b
    <2>1. end \in (j + 1)..(n + 1)
        BY <1>1, <1>2, LexemeEndFits
    <2>2. b <= j \/ b >= end
        BY <1>1, <1>2, VisitedApart
    <2> HIDE DEF end, n, o, V
    <2> QED BY <2>1, <2>2, <1>1, <1>2
<1>4. PlainIn(t, {Pg!LexemeAt(t, j)})
    <2> DEFINE l == Pg!LexemeAt(t, j)
    <2>1. l \in Pg!Lexemes(t)
        BY <1>1, <1>2, LexemesVisited
    <2> HIDE DEF l
    <2>2. PlainIn(t, {l})
        BY <2>1, <1>1 DEF PlainIn
    <2> QED BY <2>2 DEF l
<1>5. Pg!LexemeAt(r, j + d) = Shifted(Pg!LexemeAt(t, j), d)
    <2>1. end <= b
        <3> HIDE DEF end, n, o, V
        <3> QED BY <1>1, <1>2, <1>3
    <2> QED BY <2>1, <1>1, <1>4, LexemeIsLocal
<1>6. LexemeEnd(r, j + d) = end + d
    BY <1>5 DEF LexemeEnd, Shifted
<1> QED BY <1>2, <1>3, <1>5, <1>6

\* PostgreSQL's lexer comes to the same places in a statement as within the text.
LEMMA VisitedAlike ==
    ASSUME NEW t, NEW r, NEW a, NEW b, NEW d, IsStatement(t, r, a, b, d)
    PROVE  \A j \in a..b : j \in Visited(t) <=> j + d \in Visited(r)
<1> DEFINE n == Len(t)
           o == Len(r)
           V == Visited(t)
           W == Visited(r)
           E(i) == LexemeEnd(t, i)
           F(i) == LexemeEnd(r, i)
           X == {m \in 1..(o + 1) : \E j \in V : j \in a..b /\ j + d = m}
<1>1. /\ t \in Seq(Chars) /\ r \in Seq(Chars) /\ d \in Int /\ n \in Nat /\ o \in Nat
      /\ a \in 1..n /\ b \in (a + 1)..(n + 1) /\ a \in V /\ b \in V
      /\ b + d = o + 1 /\ a + d = 1
    BY DEF IsStatement, IsPiece
<1>2. \A j \in V : j \in a..(b - 1) => E(j) \in (j + 1)..b /\ F(j + d) = E(j) + d /\ j + d \in 1..o
    BY LexemesOfStatement
<1>3. V \subseteq 1..(n + 1) /\ \A k \in V : k <= n => E(k) \in V
    BY <1>1, VisitedGoesOn
<1>4. W \subseteq 1..(o + 1) /\ 1 \in W
    BY <1>1, VisitedGoesOn
<1>5. \A j \in V, k \in V : j <= n => k <= j \/ k >= E(j)
    BY <1>1, VisitedApart
<1>6. \A k \in 1..o : \E j \in W : j \in 1..k /\ j <= o /\ k < F(j)
    BY <1>1, VisitedCover
<1>7. \A Z : Z \subseteq 1..(o + 1) /\ 1 \in Z /\ (\A i \in Z : i <= o => F(i) \in Z) => W \subseteq Z
    BY VisitedWithin DEF ClosedOnwards
<1>8. o + 1 \in W
    BY <1>1, EndIsVisited
<1> HIDE DEF V, W, E, F, n, o
<1>9. W \subseteq X
    <2>1. X \subseteq 1..(o + 1)
        OBVIOUS
    <2>2. 1 \in X
        <3>1. a \in a..b /\ 1 \in 1..(o + 1)
            BY <1>1
        <3> QED BY <3>1, <1>1
    <2>3. ASSUME NEW i \in X, i <= o PROVE F(i) \in X
        <3>1. PICK j \in V : j \in a..b /\ j + d = i
            OBVIOUS
        <3> DEFINE e == E(j)
        <3>2. j \in a..(b - 1) /\ j \in 1..n /\ j <= n
            BY <3>1, <2>3, <1>1
        <3>3. e \in (j + 1)..b /\ F(i) = e + d /\ e \in V
            BY <3>1, <3>2, <1>2, <1>3
        <3> HIDE DEF e
        <3>4. e \in a..b /\ e + d \in 1..(o + 1)
            <4>1. j >= a /\ j \in Int /\ e >= j + 1 /\ e <= b /\ e \in Int
                BY <3>2, <3>3, <1>1
            <4> QED BY <4>1, <1>1
        <3> QED BY <3>3, <3>4
    <2> HIDE DEF X
    <2> QED BY <2>1, <2>2, <2>3, <1>7
<1>10. ASSUME NEW j \in a..b, j + d \in W PROVE j \in V
    <2>1. PICK k \in V : k \in a..b /\ k + d = j + d
        BY <1>9, <1>10
    <2>2. k = j
        BY <2>1, <1>1
    <2> QED BY <2>2
<1>11. ASSUME NEW j \in a..b, j \in V PROVE j + d \in W
    <2>1. CASE j = b
        BY <2>1, <1>1, <1>8
    <2>2. CASE j # b
        <3> DEFINE g == j + d
        <3>1. g \in 1..o /\ j \in a..(b - 1)
            BY <2>2, <1>1
        <3> HIDE DEF g
        <3>2. PICK m \in W : m \in 1..g /\ m <= o /\ g < F(m)
            BY <3>1, <1>6
        <3> HIDE DEF X
        <3>3. m \in X
            BY <1>9
        <3>4. PICK k \in V : k \in a..b /\ k + d = m
            BY <3>3 DEF X
        <3>5. k \in a..(b - 1) /\ k \in 1..n /\ k <= n /\ k <= j
            BY <3>1, <3>2, <3>4, <1>1 DEF g
        <3> DEFINE e == E(k)
        <3>6. e \in (k + 1)..b /\ F(m) = e + d
            BY <3>4, <3>5, <1>2
        <3>7. j <= k \/ j >= e
            BY <3>5, <1>5, <1>11
        <3> HIDE DEF e
        <3>8. ~ (j >= e)
            <4>1. j \in Int /\ e \in Int /\ j + d < e + d
                BY <3>1, <3>2, <3>6, <1>1 DEF g
            <4> QED BY <4>1, <1>1
        <3>9. j = k
            BY <3>5, <3>7, <3>8, <1>1
        <3> QED BY <3>4, <3>9
    <2> QED BY <2>1, <2>2
<1>12. \A j \in a..b : j \in V <=> j + d \in W
    BY <1>10, <1>11
<1> QED BY <1>12 DEF V, W

\* What is read in a statement is what is read at its places in the text.
LEMMA LexemesAlike ==
    ASSUME NEW t, NEW r, NEW a, NEW b, NEW d, IsStatement(t, r, a, b, d)
    PROVE  /\ \A l \in Pg!Lexemes(t) : l.start \in a..(b - 1) => l.end \in l.start..b /\ Shifted(l, d) \in Pg!Lexemes(r)
           /\ \A m \in Pg!Lexemes(r) : \E l \in Pg!Lexemes(t) :
                  l.start \in a..(b - 1) /\ l.end \in l.start..b /\ m = Shifted(l, d)
<1> DEFINE n == Len(t)
           o == Len(r)
           V == Visited(t)
           W == Visited(r)
           L == Pg!Lexemes(t)
           M == Pg!Lexemes(r)
<1>1. /\ t \in Seq(Chars) /\ r \in Seq(Chars) /\ d \in Int /\ n \in Nat /\ o \in Nat
      /\ a \in 1..n /\ b \in (a + 1)..(n + 1) /\ a \in V /\ b \in V
      /\ b + d = o + 1 /\ a + d = 1
    BY DEF IsStatement, IsPiece
<1>2. V \subseteq 1..(n + 1) /\ W \subseteq 1..(o + 1)
    BY <1>1, VisitedGoesOn
<1>3. ASSUME NEW j \in V, j \in a..(b - 1)
      PROVE  LET l == Pg!LexemeAt(t, j) IN
             /\ l \in L /\ l.start \in a..(b - 1) /\ l.end \in l.start..b
             /\ j + d \in W /\ j + d <= o /\ Pg!LexemeAt(r, j + d) = Shifted(l, d)
    <2> DEFINE l == Pg!LexemeAt(t, j)
               end == l.end
               start == l.start
    <2>1. /\ j \in 1..n /\ j + d \in 1..o /\ LexemeEnd(t, j) \in (j + 1)..b
          /\ Pg!LexemeAt(r, j + d) = Shifted(l, d)
        BY <1>3, LexemesOfStatement
    <2>2. j <= n /\ j \in a..b /\ j + d <= o
        <3> HIDE DEF n, o, V, l
        <3> QED BY <2>1, <1>1, <1>3
    <2>3. l \in L
        BY <2>2, <1>1, LexemesVisited
    <2>4. end = LexemeEnd(t, j) /\ start \in j..(end - 1)
        BY <2>1, <1>1, LexemesStart
    <2>5. j + d \in W
        BY <2>2, VisitedAlike
    <2> HIDE DEF end, start
    <2>6. end \in (j + 1)..b
        BY <2>1, <2>4
    <2>7. start \in a..(b - 1) /\ end \in start..b
        <3> HIDE DEF n, o, V, W, L
        <3> QED BY <2>4, <2>6, <1>1, <1>3
    <2> QED BY <2>1, <2>2, <2>3, <2>5, <2>7 DEF end, start
<1>4. ASSUME NEW l \in L, l.start \in a..(b - 1) PROVE l.end \in l.start..b /\ Shifted(l, d) \in M
    <2>1. PICK j \in V : j \in 1..n /\ l = Pg!LexemeAt(t, j)
        BY <1>1, LexemesVisited
    <2> DEFINE start == l.start
               end == l.end
    <2>2. end = LexemeEnd(t, j) /\ start \in j..(end - 1) /\ end \in (j + 1)..(n + 1)
        BY <2>1, <1>1, LexemesStart
    <2>3. a <= j \/ a >= end
        <3>1. j <= Len(t)
            BY <2>1
        <3>2. a <= j \/ a >= LexemeEnd(t, j)
            BY <3>1, <1>1, VisitedApart
        <3> QED BY <3>2, <2>2
    <2>4. start \in a..(b - 1)
        BY <1>4
    <2>5. j \in a..(b - 1)
        <3>1. j \in Int /\ end \in Int /\ start \in Int
            <4> HIDE DEF start, end
            <4> QED BY <2>1, <2>2, <1>1
        <3> HIDE DEF start, end, n, V
        <3> QED BY <3>1, <2>2, <2>3, <2>4, <1>1
    <2>6. l.end \in l.start..b /\ j + d \in W /\ j + d <= o /\ Pg!LexemeAt(r, j + d) = Shifted(l, d)
        BY <2>1, <2>5, <1>3
    <2> DEFINE g == j + d
    <2>7. Pg!LexemeAt(r, g) \in M
        <3>1. g \in W /\ g <= o
            BY <2>6
        <3> HIDE DEF g
        <3> QED BY <3>1, <1>1, LexemesVisited
    <2> QED BY <2>6, <2>7
<1>5. ASSUME NEW m \in M
      PROVE  \E l \in L : l.start \in a..(b - 1) /\ l.end \in l.start..b /\ m = Shifted(l, d)
    <2>1. PICK g \in W : g \in 1..o /\ m = Pg!LexemeAt(r, g)
        BY <1>1, LexemesVisited
    <2> DEFINE j == g - d
    <2>2. j \in a..(b - 1) /\ j \in a..b /\ j + d = g
        <3> HIDE DEF o, n, V, W, L, M
        <3> QED BY <2>1, <1>1
    <2> HIDE DEF j
    <2>3. j \in V
        BY <2>1, <2>2, VisitedAlike
    <2> DEFINE l == Pg!LexemeAt(t, j)
    <2>4. l \in L /\ l.start \in a..(b - 1) /\ l.end \in l.start..b /\ Pg!LexemeAt(r, j + d) = Shifted(l, d)
        BY <2>2, <2>3, <1>3
    <2> QED BY <2>1, <2>2, <2>4
<1> QED BY <1>4, <1>5

\* The text of a lexeme of a statement.
LEMMA TextsOfStatement ==
    ASSUME NEW t, NEW r, NEW a, NEW b, NEW d, IsStatement(t, r, a, b, d),
           NEW l, l.start \in a..(b - 1), l.end \in l.start..b
    PROVE  Text(r, Shifted(l, d)) = Text(t, l)
<1> DEFINE n == Len(t)
           o == Len(r)
           start == l.start
           h == l.end - 1
<1>1. /\ t \in Seq(Chars) /\ r \in Seq(Chars) /\ d \in Int /\ n \in Nat /\ o \in Nat
      /\ a \in 1..n /\ b \in (a + 1)..(n + 1) /\ b + d = o + 1 /\ a + d = 1
      /\ \A k \in a..(b - 1) : r[k + d] = t[k]
    BY DEF IsStatement, IsPiece
<1>2. start \in 1..(n + 1) /\ h \in (start - 1)..n /\ h \in Int /\ h <= b - 1 /\ start >= a /\ start \in Int
    <2> DEFINE end == l.end
    <2>1. start \in a..(b - 1) /\ end \in start..b
        OBVIOUS
    <2>2. h = end - 1
        OBVIOUS
    <2> HIDE DEF n, o, start, end, h
    <2> QED BY <2>1, <2>2, <1>1
<1>3. (l.end + d) - 1 = h + d
    <2> DEFINE end == l.end
    <2>1. end \in start..b /\ start \in Int
        BY <1>2
    <2> HIDE DEF end, start
    <2>2. (end + d) - 1 = (end - 1) + d
        BY <2>1, <1>1
    <2> QED BY <2>2 DEF end
<1>4. Text(t, l) = SubSeq(t, start, h) /\ Text(r, Shifted(l, d)) = SubSeq(r, start + d, h + d)
    BY <1>3 DEF Text, Shifted
<1> HIDE DEF n, o, start, h
<1>5. ASSUME NEW k \in start..h PROVE k + d \in 1..o /\ r[k + d] = t[k]
    <2>1. k \in a..(b - 1) /\ k + d \in 1..o
        BY <1>1, <1>2
    <2> QED BY <2>1, <1>1
<1>6. SubSeq(r, start + d, h + d) = SubSeq(t, start, h)
    BY <1>1, <1>2, <1>5, SliceAlike DEF n, o
<1> QED BY <1>4, <1>6

\* A statement of a plain text is plain.
LEMMA StatementsArePlain ==
    ASSUME NEW t, NEW r, NEW a, NEW b, NEW d, IsStatement(t, r, a, b, d)
    PROVE  PlainIn(r, Pg!Lexemes(r))
<1>1. PlainIn(t, Pg!Lexemes(t))
    BY DEF IsStatement
<1>2. ASSUME NEW m \in Pg!Lexemes(r)
      PROVE  /\ m.kind = "SingleQuoted" => Backslash \notin ToSet(Text(r, m))
             /\ m.kind = "Word" => "$" \notin ToSet(Text(r, m))
    <2>1. PICK l \in Pg!Lexemes(t) : l.start \in a..(b - 1) /\ l.end \in l.start..b /\ m = Shifted(l, d)
        BY LexemesAlike
    <2>2. Text(r, m) = Text(t, l) /\ m.kind = l.kind
        BY <2>1, TextsOfStatement DEF Shifted
    <2> QED BY <2>2, <1>1 DEF PlainIn
<1> QED BY <1>2 DEF PlainIn

\* The name the scanner gives a literal or a comment.
NameOf(l) == IF l.kind = "EString" THEN Span("SingleQuoted", l.start, l.end) ELSE Span(l.kind, l.start, l.end)

LEMMA NamesAre ==
    ASSUME NEW L, NEW z
    PROVE  z \in Named(L) <=> \E l \in L : l.kind \in Pg!Literals \cup Pg!Comments /\ z = NameOf(l)
BY DEF Named, NameOf

LEMMA NamesHave ==
    ASSUME NEW l, NEW t, NEW d
    PROVE  /\ NameOf(l).start = l.start /\ NameOf(l).end = l.end
           /\ Text(t, NameOf(l)) = Text(t, l)
BY DEF NameOf, Span, Text

\* A statement has the literals and comments it had within the text.
LEMMA LiteralsStay ==
    ASSUME NEW t, NEW r, NEW a, NEW b, NEW d, IsStatement(t, r, a, b, d)
    PROVE  {Text(t, s) : s \in {z \in Named(Pg!Lexemes(t)) : z.start \in a..(b - 1)}}
               = {Text(r, s) : s \in Named(Pg!Lexemes(r))}
<1> DEFINE L == Pg!Lexemes(t)
           M == Pg!Lexemes(r)
           N == {z \in Named(L) : z.start \in a..(b - 1)}
<1>1. \A l \in L : l.start \in a..(b - 1) => l.end \in l.start..b /\ Shifted(l, d) \in M
    BY LexemesAlike
<1>2. \A m \in M : \E l \in L : l.start \in a..(b - 1) /\ l.end \in l.start..b /\ m = Shifted(l, d)
    BY LexemesAlike
<1>3. \A l : l.start \in a..(b - 1) /\ l.end \in l.start..b =>
                 Text(r, Shifted(l, d)) = Text(t, l) /\ Shifted(l, d).kind = l.kind
    BY TextsOfStatement DEF Shifted
<1> HIDE DEF L, M
<1>4. ASSUME NEW z \in N PROVE \E s \in Named(M) : Text(t, z) = Text(r, s)
    <2>1. PICK l \in L : l.kind \in Pg!Literals \cup Pg!Comments /\ z = NameOf(l)
        BY NamesAre
    <2>2. l.start \in a..(b - 1)
        BY <2>1, NamesHave
    <2> DEFINE m == Shifted(l, d)
    <2>3. m \in M /\ l.end \in l.start..b /\ Text(r, m) = Text(t, l) /\ m.kind = l.kind
        BY <2>2, <1>1, <1>3
    <2> HIDE DEF m
    <2>4. NameOf(m) \in Named(M)
        BY <2>1, <2>3, NamesAre
    <2>5. Text(t, z) = Text(r, NameOf(m))
        BY <2>1, <2>3, NamesHave
    <2> QED BY <2>4, <2>5
<1>5. ASSUME NEW s \in Named(M) PROVE \E z \in N : Text(t, z) = Text(r, s)
    <2>1. PICK m \in M : m.kind \in Pg!Literals \cup Pg!Comments /\ s = NameOf(m)
        BY NamesAre
    <2>2. PICK l \in L : l.start \in a..(b - 1) /\ l.end \in l.start..b /\ m = Shifted(l, d)
        BY <1>2
    <2>3. Text(r, m) = Text(t, l) /\ m.kind = l.kind
        BY <2>2, <1>3
    <2>4. NameOf(l) \in Named(L) /\ NameOf(l).start = l.start
        BY <2>1, <2>3, NamesAre, NamesHave
    <2>5. NameOf(l) \in N
        BY <2>2, <2>4
    <2>6. Text(t, NameOf(l)) = Text(r, s)
        BY <2>1, <2>3, NamesHave
    <2> QED BY <2>5, <2>6
<1> HIDE DEF N
<1>6. {Text(t, s) : s \in N} = {Text(r, s) : s \in Named(M)}
    BY <1>4, <1>5
<1> QED BY <1>6 DEF N, L, M

\* A statement is not cut again.
LEMMA StatementIsOne ==
    ASSUME NEW t, NEW r, NEW a, NEW b, NEW d, IsStatement(t, r, a, b, d), a..(b - 1) \cap Cuts(t) = {}
    PROVE  Cuts(r) = {Len(r) + 1}
<1> DEFINE n == Len(t)
           o == Len(r)
<1>1. /\ t \in Seq(Chars) /\ r \in Seq(Chars) /\ d \in Int /\ n \in Nat /\ o \in Nat
      /\ a \in 1..n /\ b \in (a + 1)..(n + 1) /\ b + d = o + 1 /\ a + d = 1
      /\ \A k \in a..(b - 1) : r[k + d] = t[k]
    BY DEF IsStatement, IsPiece
<1>2. PlainIn(t, Pg!Lexemes(t)) /\ PlainIn(r, Pg!Lexemes(r))
    BY StatementsArePlain DEF IsStatement
<1>3. o + 1 \in Cuts(r)
    BY <1>1, CutsAre
<1>4. ASSUME NEW i \in Cuts(r), i # o + 1 PROVE FALSE
    <2>1. i \in CodeIn(Scan(r)) /\ r[i] = Semicolon
        BY <1>1, <1>4, CutsAre
    <2>2. i \in 1..o
        BY <2>1, <1>1, CodeFits
    <2>3. i \in Visited(r) /\ Pg!LexemeAt(r, i).kind = "Other" /\ LexemeEnd(r, i) = i + 1
        BY <2>1, <2>2, <1>1, <1>2, SemicolonsAreLexemes
    <2> DEFINE j == i - d
    <2>4. j \in a..(b - 1) /\ j \in a..b /\ j + d = i /\ j \in 1..n
        <3> HIDE DEF o, n
        <3> QED BY <2>2, <1>1
    <2> HIDE DEF j
    <2>5. j \in Visited(t)
        BY <2>3, <2>4, VisitedAlike
    <2>6. /\ LexemeEnd(t, j) \in (j + 1)..b
          /\ Pg!LexemeAt(r, i) = Shifted(Pg!LexemeAt(t, j), d)
          /\ LexemeEnd(r, i) = LexemeEnd(t, j) + d
        BY <2>4, <2>5, LexemesOfStatement
    <2>7. Pg!LexemeAt(t, j).kind = "Other"
        BY <2>3, <2>6 DEF Shifted
    <2> DEFINE e == LexemeEnd(t, j)
    <2>8. e = j + 1
        <3>1. e \in (j + 1)..b /\ e + d = i + 1
            BY <2>3, <2>6
        <3> HIDE DEF e, n, o
        <3> QED BY <3>1, <2>4, <1>1
    <2>9. t[j] = Semicolon
        BY <2>1, <2>4, <1>1
    <2>10. j \in CodeIn(Scan(t))
        BY <2>4, <2>5, <2>7, <2>8, <2>9, <1>1, <1>2, SemicolonsAreLexemes
    <2>11. j \in Cuts(t)
        BY <2>9, <2>10, <1>1, CutsAre
    <2> QED BY <2>4, <2>11
<1> QED BY <1>3, <1>4

\* In a blank statement each place is a blank or in a comment, and it is so
\* within the text too.
LEMMA BlankStatements ==
    ASSUME NEW t, NEW r, NEW a, NEW b, NEW d, IsStatement(t, r, a, b, d), IsBlankStatement(r),
           NEW i \in a..(b - 1)
    PROVE  t[i] \in Blank \/ \E l \in Pg!Lexemes(t) : l.kind \in Pg!Comments /\ i \in Places(l)
<1> DEFINE n == Len(t)
           o == Len(r)
           m == i + d
           S == Scan(r)
<1>1. /\ t \in Seq(Chars) /\ r \in Seq(Chars) /\ d \in Int /\ n \in Nat /\ o \in Nat
      /\ a \in 1..n /\ b \in (a + 1)..(n + 1) /\ b + d = o + 1 /\ a + d = 1
      /\ \A k \in a..(b - 1) : r[k + d] = t[k]
    BY DEF IsStatement, IsPiece
<1>2. PlainIn(r, Pg!Lexemes(r))
    BY StatementsArePlain
<1>3. m \in 1..o /\ r[m] = t[i] /\ m < o + 1
    <2>1. r[m] = t[i]
        BY <1>1
    <2> HIDE DEF n, o
    <2>2. m \in 1..o /\ m < o + 1
        BY <1>1
    <2> QED BY <2>1, <2>2
<1> HIDE DEF m
<1>4. PICK z \in ToSet(S) : m \in Places(z)
    BY <1>1, <1>3, ScanTiles, SpansCover
<1>5. z.segment \in {"LineComment", "BlockComment"} \/ \A j \in Places(z) : j < o + 1 => r[j] \in Blank
    BY DEF IsBlankStatement, BlankBefore
<1>6. CASE \A j \in Places(z) : j < o + 1 => r[j] \in Blank
    <2>1. r[m] \in Blank
        BY <1>3, <1>4, <1>6
    <2> QED BY <2>1, <1>3
<1>7. CASE z.segment \in {"LineComment", "BlockComment"}
    <2>1. z.segment \in Pg!Comments
        BY <1>7 DEF Pg!Comments
    <2>2. PICK x \in Pg!Lexemes(r) : x.kind \in Pg!Comments /\ x.start = z.start /\ x.end = z.end
        BY <2>1, <1>1, <1>2, CommentsAgree
    <2>3. PICK l \in Pg!Lexemes(t) : l.start \in a..(b - 1) /\ l.end \in l.start..b /\ x = Shifted(l, d)
        BY LexemesAlike
    <2>4. l.kind \in Pg!Comments /\ z.start = l.start + d /\ z.end = l.end + d
        BY <2>2, <2>3 DEF Shifted
    <2>5. i \in Places(l)
        <3> DEFINE start == l.start
                   end == l.end
        <3>1. m \in (start + d)..((end + d) - 1) /\ start \in a..(b - 1) /\ end \in start..b
            BY <2>3, <2>4, <1>4 DEF Places
        <3>2. start \in Int /\ end \in Int /\ i \in Int
            <4> HIDE DEF n, o, start, end
            <4> QED BY <3>1, <1>1
        <3> HIDE DEF n, o, start, end
        <3>3. i + d \in (start + d)..((end + d) - 1)
            BY <3>1 DEF m
        <3>4. i \in start..(end - 1)
            BY <3>2, <3>3, <1>1
        <3> QED BY <3>4 DEF Places, start, end
    <2> QED BY <2>4, <2>5
<1> QED BY <1>5, <1>6, <1>7

\* What is in no statement is a blank, a semicolon or in a comment.
LEMMA NothingIsDropped ==
    ASSUME NEW t \in Seq(Chars), PlainIn(t, Pg!Lexemes(t)), NEW i \in 1..Len(t),
           \A p \in Pieces(t) : i \notin Places(p)
    PROVE  \/ t[i] \in Blank \/ t[i] = Semicolon
           \/ \E l \in Pg!Lexemes(t) : l.kind \in Pg!Comments /\ i \in Places(l)
<1> DEFINE n == Len(t)
           K == Cuts(t)
<1>1. n \in Nat /\ i \in 1..n
    OBVIOUS
<1>2. K \subseteq 1..(n + 1) /\ n + 1 \in K
    <2>1. CodeIn(Scan(t)) \subseteq 1..n
        BY CodeFits
    <2>2. \A c : c \in K <=> (c \in CodeIn(Scan(t)) /\ t[c] = Semicolon) \/ c = n + 1
        BY CutsAre
    <2> HIDE DEF n, K
    <2> QED BY <2>1, <2>2, <1>1
<1>3. i \in K => t[i] = Semicolon
    <2>1. i # n + 1
        <3> HIDE DEF n, K
        <3> QED BY <1>1
    <2> QED BY <2>1, CutsAre
<1> SUFFICES ASSUME i \notin K
             PROVE  t[i] \in Blank \/ \E l \in Pg!Lexemes(t) : l.kind \in Pg!Comments /\ i \in Places(l)
    BY <1>3
<1> HIDE DEF K, n
<1>4. PICK b \in K : b > i /\ \A k \in K : k >= i => k >= b
    <2> DEFINE S == {k \in K : k >= i}
    <2>1. LET z == Min(S \cup {n + 1}) IN z \in i..(n + 1) /\ (z \in S \/ z = n + 1) /\ \A k \in S : z <= k
        <3>1. S \subseteq i..(n + 1)
            <4> SUFFICES ASSUME NEW k \in K, k >= i PROVE k \in i..(n + 1)
                OBVIOUS
            <4>1. k \in 1..(n + 1)
                BY <1>2
            <4> QED BY <4>1, <1>1
        <3> DEFINE T == S \cap i..n
        <3>2. T \subseteq i..n /\ S \cup {n + 1} = T \cup {n + 1}
            BY <1>1, <3>1
        <3> HIDE DEF T
        <3>3. i \in 1..(n + 1)
            BY <1>1
        <3>4. LET z == Min(T \cup {n + 1}) IN z \in i..(n + 1) /\ (z \in T \/ z = n + 1) /\ \A k \in T : z <= k
            BY <3>2, <3>3, <1>1, LeastPlace
        <3> DEFINE z == Min(T \cup {n + 1})
        <3>5. z \in i..(n + 1) /\ (z \in T \/ z = n + 1) /\ (\A k \in T : z <= k) /\ z = Min(S \cup {n + 1})
            BY <3>2, <3>4
        <3> HIDE DEF z
        <3>6. \A k \in S : z <= k
            <4>1. \A k \in S : k \in T \/ k = n + 1
                BY <1>1, <3>1 DEF T
            <4> QED BY <4>1, <3>5, <1>1
        <3>7. z \in S \/ z = n + 1
            BY <3>5 DEF T
        <3> QED BY <3>5, <3>6, <3>7
    <2> DEFINE z == Min(S \cup {n + 1})
    <2>2. z \in i..(n + 1) /\ (z \in S \/ z = n + 1) /\ \A k \in S : z <= k
        BY <2>1
    <2> HIDE DEF z
    <2>3. z \in K
        BY <2>2, <1>2
    <2>4. z > i
        <3>1. z # i
            BY <2>3
        <3> QED BY <3>1, <2>2, <1>1
    <2>5. \A k \in K : k >= i => k >= z
        BY <2>2, <1>1, <1>2
    <2> HIDE DEF S
    <2> QED BY <2>3, <2>4, <2>5
<1>5. PICK a \in {1} \cup {c + 1 : c \in K} : a \in 1..i /\ \A k \in K : k < i => k < a
    <2> DEFINE S == {x \in 1..(i - 1) : i - x \in K}
               h == i - 1
    <2>0. h \in Nat /\ 1 \in 1..(h + 1) /\ S \subseteq 1..h /\ h + 1 = i
        BY <1>1
    <2>1. LET x == Min(S \cup {h + 1}) IN x \in 1..(h + 1) /\ (x \in S \/ x = h + 1) /\ \A k \in S : x <= k
        <3> HIDE DEF S, h
        <3> QED BY <2>0, LeastPlace
    <2> DEFINE x == Min(S \cup {h + 1})
    <2>2. x \in 1..(h + 1) /\ (x \in S \/ x = h + 1) /\ \A k \in S : x <= k
        BY <2>1
    <2>3. x \in 1..i /\ (x \in S \/ x = i)
        <3> HIDE DEF x, S, h
        <3> QED BY <2>0, <2>2
    <2> HIDE DEF x
    <2> DEFINE c == i - x
    <2>4. c + 1 \in 1..i /\ (x = i => c + 1 = 1) /\ (x \in S => c \in K)
        BY <2>3, <1>1
    <2>5. ASSUME NEW k \in K, k < i PROVE k < c + 1
        <3> DEFINE q == i - k
        <3>1. q \in 1..(i - 1) /\ i - q = k
            BY <2>5, <1>1, <1>2
        <3>2. q \in S
            BY <3>1
        <3>3. x <= q
            BY <3>2, <2>2
        <3> QED BY <3>1, <3>3, <2>3, <1>1
    <2>6. c + 1 \in {1} \cup {e + 1 : e \in K}
        <3> HIDE DEF c, S
        <3> QED BY <2>3, <2>4
    <2> HIDE DEF c
    <2> QED BY <2>4, <2>5, <2>6
<1>6. a < b /\ b \in 1..(n + 1) /\ i \in a..(b - 1)
    BY <1>1, <1>2, <1>4, <1>5
<1> DEFINE r == SubSeq(t, a, b - 1)
           d == 1 - a
           p == Span("Code", a, b)
<1>7. IsStatement(t, r, a, b, d)
    BY <1>4, <1>5, <1>6, BetweenCuts DEF K
<1>8. Places(p) = a..(b - 1) /\ Text(t, p) = r
    BY DEF Span, Places, Text
<1>9. Places(p) \cap K = {}
    <2> SUFFICES ASSUME NEW k \in a..(b - 1), k \in K PROVE FALSE
        BY <1>8
    <2>1. k \in 1..(n + 1) /\ k >= a /\ k < b
        BY <1>1, <1>2, <1>5, <1>6
    <2>2. k >= i => k >= b
        BY <1>4
    <2>3. k < i => k < a
        BY <1>5
    <2> QED BY <2>1, <2>2, <2>3, <1>1, <1>5, <1>6
<1>10. IsBlankStatement(r)
    <2> SUFFICES ASSUME ~ IsBlankStatement(r) PROVE FALSE
        OBVIOUS
    <2>1. p \in {q \in {Span("Code", start, end) : start \in {1} \cup {c + 1 : c \in K}, end \in K} :
                    Places(q) \cap K = {} /\ ~ IsBlankStatement(Text(t, q))}
        <3>1. p \in {Span("Code", start, end) : start \in {1} \cup {c + 1 : c \in K}, end \in K}
            BY <1>4, <1>5
        <3>2. ~ IsBlankStatement(Text(t, p))
            BY <1>8
        <3> HIDE DEF p
        <3> QED BY <3>1, <3>2, <1>9
    <2>2. p \in Pieces(t)
        BY <2>1 DEF Pieces, K
    <2> QED BY <2>2, <1>6, <1>8
<1> HIDE DEF r, d
<1> QED BY <1>6, <1>7, <1>10, BlankStatements

-----------------------------------------------------------------------------
(* Every text that is read                                                 *)

\* What is known of a text is what the last step read in it.
Read ==
    /\ family \in Families /\ text \in Seq(Chars)
    /\ lexemes = Pg!Lexemes(text)
    /\ spans = Scan(text)
    /\ pieces = Pieces(text)
    /\ rewritten = Rewritten(text)

LEMMA NothingIsCut == Pieces(<<>>) = {}
<1> DEFINE t == <<>>
<1>1. t \in Seq(Chars) /\ Len(t) = 0 /\ Pg!Lexemes(t) = {}
    BY NothingIsRead
<1>2. PlainIn(t, Pg!Lexemes(t))
    <2> HIDE DEF t
    <2> QED BY <1>1 DEF PlainIn
<1> HIDE DEF t
<1>3. ASSUME NEW p \in Pieces(t) PROVE FALSE
    <2>1. IsStatement(t, Text(t, p), p.start, p.end, 1 - p.start)
        BY <1>1, <1>2, PiecesAreStatements
    <2>2. p.start \in 1..Len(t)
        BY <2>1 DEF IsStatement
    <2> QED BY <2>2, <1>1
<1>4. Pieces(t) = {}
    BY <1>3
<1> QED BY <1>4 DEF t

LEMMA TextIsRead == Spec => []Read
<1>1. Init => Read
    BY NothingIsRead, NothingIsCut DEF Init, Read
<1>2. Read /\ [Next]_vars => Read'
    <2> SUFFICES ASSUME Read, [Next]_vars PROVE Read'
        OBVIOUS
    <2>1. CASE UNCHANGED vars
        BY <2>1 DEF Read, vars
    <2>2. CASE Grow
        <3>1. PICK piece \in family :
                  /\ text' = text \o piece
                  /\ lexemes' = Pg!Lexemes(text')
                  /\ spans' = Scan(text')
                  /\ pieces' = Pieces(text')
                  /\ rewritten' = Rewritten(text')
                  /\ family' = family
            BY <2>2 DEF Grow
        <3>2. piece \in Seq(Chars) /\ text \in Seq(Chars) /\ family \in Families
            BY <3>1, ReadingAssumption, CharsFit DEF Read
        <3>3. text \o piece \in Seq(Chars)
            BY <3>2
        <3> QED BY <3>1, <3>2, <3>3 DEF Read
    <2> QED BY <2>1, <2>2 DEF Next
<1> QED BY <1>1, <1>2, PTL DEF Spec

LEMMA CodeIsNeverNextToCode ==
    ASSUME NEW t \in Seq(Chars), NEW s, Tiles(t, s, 1)
    PROVE  /\ \A k \in DOMAIN s : s[k].start < s[k].end
           /\ \A k \in 1..(Len(s) - 1) : {s[k].segment, s[k + 1].segment} # {"Code"}
<1>1. DOMAIN s = 1..Len(s)
    BY DEF Tiles
<1>2. \A k \in DOMAIN s : s[k].start < s[k].end
    BY <1>1 DEF Tiles
<1>3. ASSUME NEW k \in 1..(Len(s) - 1)
      PROVE  {s[k].segment, s[k + 1].segment} # {"Code"}
    <2>1. s[k].segment # "Code" \/ s[k + 1].segment # "Code"
        BY DEF Tiles
    <2> QED BY <2>1
<1> QED BY <1>2, <1>3

\* The scanner sees every literal and every comment where PostgreSQL does, in
\* every plain text of any length, and in every text at all its spans tile it,
\* none empty and code never next to code (scan).
THEOREM ScannerLexesLikePostgres == Spec => []LexesLikePostgres
<1>1. Read => LexesLikePostgres
    <2> SUFFICES ASSUME Read PROVE LexesLikePostgres
        OBVIOUS
    <2>1. text \in Seq(Chars) /\ lexemes = Pg!Lexemes(text) /\ spans = Scan(text)
        BY DEF Read
    <2>2. PICK f : ScansFrom(text, f) /\ spans = f[1]
        BY <2>1, ScanGoesOn
    <2>3. Tiles(text, spans, 1)
        <3>1. 1 \in 1..(Len(text) + 1)
            BY <2>1
        <3> QED BY <2>1, <2>2, <3>1, SpansTile
    <2>4. FlattenSeq([k \in DOMAIN spans |-> Text(text, spans[k])]) = text
        BY <2>1, <2>3, TilesAreTheText
    <2>5. /\ \A k \in DOMAIN spans : spans[k].start < spans[k].end
          /\ \A k \in 1..(Len(spans) - 1) : {spans[k].segment, spans[k + 1].segment} # {"Code"}
        BY <2>1, <2>3, CodeIsNeverNextToCode
    <2>6. IsPlain => Apart(spans) = Named(lexemes)
        <3> SUFFICES ASSUME IsPlain PROVE Apart(spans) = Named(lexemes)
            OBVIOUS
        <3>1. PlainIn(text, Pg!Lexemes(text))
            BY <2>1 DEF IsPlain, PlainIn
        <3> QED BY <2>1, <3>1, LiteralsAndCommentsAgree
    <2> QED BY <2>4, <2>5, <2>6 DEF LexesLikePostgres
<1> QED BY <1>1, TextIsRead, PTL

\* Before a text is sent exactly the parameters PostgreSQL sees in it are
\* replaced, if it is plain; in every text at all no parameter is left and
\* find_hazard reads in what is sent the literals and comments the client
\* wrote, character by character (map_placeholders).
THEOREM ParametersAreSent == Spec => []ParametersAreRewritten
<1>1. Read => ParametersAreRewritten
    <2> SUFFICES ASSUME Read PROVE ParametersAreRewritten
        OBVIOUS
    <2>1. /\ text \in Seq(Chars) /\ lexemes = Pg!Lexemes(text)
          /\ spans = Scan(text) /\ rewritten = Rewritten(text)
        BY DEF Read
    <2>2. IsPlain => Placeholders(text) = {l.start : l \in Pg!Parameters(text, lexemes)}
        <3> SUFFICES ASSUME IsPlain
                     PROVE  Placeholders(text) = {l.start : l \in Pg!Parameters(text, lexemes)}
            OBVIOUS
        <3>1. PlainIn(text, Pg!Lexemes(text))
            BY <2>1 DEF IsPlain, PlainIn
        <3> QED BY <2>1, <3>1, PlaceholdersAreParameters
    <2>3. /\ Placeholders(rewritten) = {}
          /\ ApartTexts(rewritten, Scan(rewritten)) = ApartTexts(text, spans)
        BY <2>1, SentIsAlike
    <2> QED BY <2>2, <2>3 DEF ParametersAreRewritten, ApartTexts
<1> QED BY <1>1, TextIsRead, PTL

\* In what is sent for a plain text no dollar-quoted string holds a name after
\* a colon unless the request is refused: the string stands in it unchanged, so
\* that find_hazard, which scans it again, meets the name (find_hazard).
THEOREM StringsAreNotCorrupted == Spec => []NoStringIsCorrupted
<1>1. Read => NoStringIsCorrupted
    <2> SUFFICES ASSUME Read, IsPlain,
                        NEW l \in lexemes, l.kind = "DollarQuoted",
                        NEW i \in l.start..(l.end - 2),
                        text[i] = ":" /\ text[i + 1] \in Letters
                 PROVE  HasHazard(rewritten)
        BY DEF NoStringIsCorrupted
    <2>1. /\ text \in Seq(Chars) /\ lexemes = Pg!Lexemes(text)
          /\ spans = Scan(text) /\ rewritten = Rewritten(text)
        BY DEF Read
    <2> DEFINE s == Span("DollarQuoted", l.start, l.end)
    <2>2. s \in Apart(Scan(text))
        <3>1. PlainIn(text, Pg!Lexemes(text))
            BY <2>1 DEF IsPlain, PlainIn
        <3>2. Apart(Scan(text)) = Named(lexemes)
            BY <2>1, <3>1, LiteralsAndCommentsAgree
        <3>3. l.kind \in Pg!Literals \cup Pg!Comments /\ l.kind # "EString"
            BY DEF Pg!Literals
        <3>4. s \in Named(lexemes)
            BY <3>3 DEF Named
        <3> QED BY <3>2, <3>4
    <2>3. s.segment = "DollarQuoted" /\ s.start = l.start /\ s.end = l.end
        BY DEF Span
    <2>4. rewritten \in Seq(Chars) /\ ApartTexts(rewritten, Scan(rewritten)) = ApartTexts(text, Scan(text))
        BY <2>1, SentIsAlike
    <2>5. PICK z \in Apart(Scan(rewritten)) : Text(rewritten, z) = Text(text, s)
        BY <2>2, <2>4 DEF ApartTexts
    <2> HIDE DEF s
    <2>6. i \in s.start..(s.end - 2)
        BY <2>3
    <2> QED BY <2>1, <2>2, <2>3, <2>4, <2>5, <2>6, NamesAreSeen
<1> QED BY <1>1, TextIsRead, PTL

\* In every plain text a schema change is seen where its keyword opens a
\* statement, however it is commented, and a write wherever its keyword is a
\* word: those of strings, names and comments are not taken for one
\* (changes_schema, modifies_data).
THEOREM KeywordsAreNotMissed == Spec => []KeywordsAreSeen
<1>1. Read => KeywordsAreSeen
    <2> SUFFICES ASSUME Read, IsPlain PROVE KeywordsAreSeen
        BY DEF KeywordsAreSeen
    <2>1. /\ text \in Seq(Chars) /\ lexemes = Pg!Lexemes(text) /\ pieces = Pieces(text)
        BY DEF Read
    <2>2. PlainIn(text, Pg!Lexemes(text))
        BY <2>1 DEF IsPlain, PlainIn
    <2>3. ASSUME NEW p \in pieces
          PROVE  LET statement == Text(text, p) IN
                 ChangesSchema(statement) <=>
                     \E l \in Words(statement) :
                         /\ IsKeyword(statement, l)
                         /\ \A other \in Words(statement) : l.start <= other.start
        <3> DEFINE r == Text(text, p)
                   a == p.start
                   b == p.end
                   d == 1 - a
        <3>1. IsStatement(text, r, a, b, d)
            BY <2>1, <2>2, PiecesAreStatements
        <3> HIDE DEF r, a, b, d
        <3>2. r \in Seq(Chars) /\ PlainIn(r, Pg!Lexemes(r))
            BY <3>1, StatementsArePlain DEF IsStatement
        <3>3. ChangesSchema(r) <=>
                  \E l \in Words(r) : IsKeyword(r, l) /\ \A other \in Words(r) : l.start <= other.start
            BY <3>2, SchemaChangesAreSeen
        <3> QED BY <3>3 DEF r
    <2>4. ModifiesData(text) <=> \E l \in lexemes : IsKeyword(text, l)
        BY <2>1, <2>2, WritesAreSeen
    <2> QED BY <2>3, <2>4 DEF KeywordsAreSeen
<1> QED BY <1>1, TextIsRead, PTL

\* Every statement cut out of a plain text reads by itself as it did within,
\* is not cut again, and nothing but blanks, comments and semicolons is in no
\* statement (split_statements).
THEOREM PiecesStandAlone == Spec => []StatementsStandAlone
<1>1. Read => StatementsStandAlone
    <2> SUFFICES ASSUME Read, IsPlain PROVE StatementsStandAlone
        BY Zenon DEF StatementsStandAlone
    <2>1. /\ text \in Seq(Chars) /\ lexemes = Pg!Lexemes(text) /\ pieces = Pieces(text)
        BY DEF Read
    <2>2. PlainIn(text, Pg!Lexemes(text))
        BY <2>1 DEF IsPlain, PlainIn
    <2>3. ASSUME NEW p \in pieces
          PROVE  LET statement == Text(text, p) IN
                 /\ {Text(text, s) : s \in {n \in Named(lexemes) : n.start \in Places(p)}}
                      = {Text(statement, s) : s \in Named(Pg!Lexemes(statement))}
                 /\ Cuts(statement) = {Len(statement) + 1}
        <3> DEFINE r == Text(text, p)
                   a == p.start
                   b == p.end
                   d == 1 - a
        <3>1. IsStatement(text, r, a, b, d) /\ Places(p) = a..(b - 1) /\ a..(b - 1) \cap Cuts(text) = {}
            <4>1. IsStatement(text, r, a, b, d) /\ Places(p) = a..(b - 1) /\ Places(p) \cap Cuts(text) = {}
                BY <2>1, <2>2, PiecesAreStatements
            <4> HIDE DEF r, a, b, d
            <4> QED BY <4>1
        <3> HIDE DEF r, a, b, d
        <3>2. {Text(text, s) : s \in {n \in Named(Pg!Lexemes(text)) : n.start \in a..(b - 1)}}
                  = {Text(r, s) : s \in Named(Pg!Lexemes(r))}
            BY <3>1, LiteralsStay
        <3>3. Cuts(r) = {Len(r) + 1}
            BY <3>1, StatementIsOne
        <3> QED BY <3>1, <3>2, <3>3, <2>1, Zenon DEF r
    <2> DEFINE dropped == DOMAIN text \ UNION {Places(p) : p \in pieces}
    <2>4. ASSUME NEW i \in dropped
          PROVE  \/ text[i] \in Blank \/ text[i] = Semicolon
                 \/ \E l \in lexemes : l.kind \in Pg!Comments /\ i \in Places(l)
        <3>1. i \in 1..Len(text) /\ \A p \in Pieces(text) : i \notin Places(p)
            BY <2>1
        <3> HIDE DEF dropped
        <3> QED BY <3>1, <2>1, <2>2, NothingIsDropped
    <2> HIDE DEF dropped
    <2>5. ASSUME NEW i \in dropped
          PROVE  \/ text[i] \in Blank \cup {";"}
                 \/ \E l \in lexemes : l.kind \in Pg!Comments /\ i \in Places(l)
        <3>1. \/ text[i] \in Blank \/ text[i] = Semicolon
              \/ \E l \in lexemes : l.kind \in Pg!Comments /\ i \in Places(l)
            BY <2>4
        <3> QED BY <3>1, Zenon DEF Semicolon
    <2> QED BY <2>3, <2>5, Zenon DEF StatementsStandAlone, dropped
<1> QED BY <1>1, TextIsRead, PTL

=============================================================================
