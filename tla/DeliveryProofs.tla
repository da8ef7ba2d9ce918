--------------------------- MODULE DeliveryProofs ---------------------------
(***************************************************************************)
(* Proofs about Delivery and the conversions it is built from, for every   *)
(* statement, type and value and whatever the Data API returns.            *)
(***************************************************************************)
EXTENDS Delivery, Counting, FiniteSetTheorems, SequenceTheorems, TLAPS

-----------------------------------------------------------------------------
(* Reading an array literal, a character at a time                         *)

\* From state s the parser comes to t by reading w.
Reads(s, w, t) ==
    \E r : /\ r[0] = s /\ r[Len(w)] = t
           /\ \A k \in 1..Len(w) : r[k] = ReadChar(r[k - 1], w[k])

LEMMA ReadingNothing ==
    ASSUME NEW s
    PROVE  Reads(s, <<>>, s)
<1> DEFINE r == [k \in {0} |-> s]
<1>1. r[0] = s /\ Len(<<>>) = 0
    OBVIOUS
<1>2. \A k \in 1..0 : FALSE
    OBVIOUS
<1> HIDE DEF r
<1> QED BY <1>1, <1>2 DEF Reads

LEMMA ReadingOne ==
    ASSUME NEW s, NEW c
    PROVE  Reads(s, <<c>>, ReadChar(s, c))
<1> DEFINE r == [k \in 0..1 |-> IF k = 0 THEN s ELSE ReadChar(s, c)]
<1>1. r[0] = s /\ r[1] = ReadChar(s, c) /\ Len(<<c>>) = 1 /\ <<c>>[1] = c
    OBVIOUS
<1>2. \A k \in 1..1 : k = 1 /\ k - 1 = 0
    OBVIOUS
<1> HIDE DEF r
<1>3. \A k \in 1..Len(<<c>>) : r[k] = ReadChar(r[k - 1], <<c>>[k])
    BY <1>1, <1>2
<1> QED BY <1>1, <1>3 DEF Reads

LEMMA ReadingOn ==
    ASSUME NEW C, NEW u \in Seq(C), NEW v \in Seq(C), NEW s, NEW t, NEW z,
           Reads(s, u, t), Reads(t, v, z)
    PROVE  Reads(s, u \o v, z)
<1>1. PICK p : /\ p[0] = s /\ p[Len(u)] = t
               /\ \A k \in 1..Len(u) : p[k] = ReadChar(p[k - 1], u[k])
    BY DEF Reads
<1>2. PICK q : /\ q[0] = t /\ q[Len(v)] = z
               /\ \A k \in 1..Len(v) : q[k] = ReadChar(q[k - 1], v[k])
    BY DEF Reads
<1> DEFINE m == Len(u)
           n == Len(v)
           w == u \o v
           r == [k \in 0..(m + n) |-> IF k <= m THEN p[k] ELSE q[k - m]]
<1>3. m \in Nat /\ n \in Nat /\ Len(w) = m + n
    OBVIOUS
<1>4. \A k \in 1..(m + n) : w[k] = IF k <= m THEN u[k] ELSE v[k - m]
    OBVIOUS
<1> HIDE DEF m, n, w
<1>5. r[0] = s
    BY <1>1, <1>3
<1>6. r[m + n] = z
    <2>1. CASE n = 0
        BY <2>1, <1>1, <1>2, <1>3 DEF m, n
    <2>2. CASE n # 0
        <3>1. (m + n) - m = n /\ ~ (m + n <= m) /\ m + n \in 0..(m + n)
            BY <2>2, <1>3
        <3> QED BY <3>1, <1>2 DEF n
    <2> QED BY <2>1, <2>2
<1>7. ASSUME NEW k \in 1..(m + n)
      PROVE  r[k] = ReadChar(r[k - 1], w[k])
    <2>1. CASE k <= m
        <3>1. r[k] = p[k] /\ r[k - 1] = p[k - 1] /\ w[k] = u[k] /\ k \in 1..m
            BY <2>1, <1>3, <1>4
        <3>2. p[k] = ReadChar(p[k - 1], u[k])
            BY <3>1, <1>1 DEF m
        <3> QED BY <3>1, <3>2
    <2>2. CASE k = m + 1
        <3>1. r[k] = q[1] /\ r[k - 1] = p[m] /\ w[k] = v[1] /\ 1 \in 1..n
            <4>1. k - m = 1 /\ k - 1 = m /\ ~ (k <= m) /\ 1 \in 1..n /\ k \in 0..(m + n)
                  /\ m \in 0..(m + n)
                BY <2>2, <1>3
            <4> QED BY <4>1, <1>4
        <3>2. q[1] = ReadChar(q[1 - 1], v[1]) /\ 1 - 1 = 0
            BY <3>1, <1>2 DEF n
        <3>3. p[m] = q[0]
            BY <1>1, <1>2 DEF m
        <3> QED BY <3>1, <3>2, <3>3
    <2>3. CASE k > m + 1
        <3>1. r[k] = q[k - m] /\ r[k - 1] = q[(k - m) - 1] /\ w[k] = v[k - m] /\ k - m \in 1..n
            <4>1. ~ (k <= m) /\ ~ (k - 1 <= m) /\ (k - 1) - m = (k - m) - 1 /\ k - m \in 1..n
                  /\ k \in 0..(m + n) /\ k - 1 \in 0..(m + n)
                BY <2>3, <1>3
            <4> QED BY <4>1, <1>4
        <3>2. q[k - m] = ReadChar(q[(k - m) - 1], v[k - m])
            BY <3>1, <1>2 DEF n
        <3> QED BY <3>1, <3>2
    <2>4. k <= m \/ k = m + 1 \/ k > m + 1
        BY <1>3
    <2> QED BY <2>1, <2>2, <2>3, <2>4
<1> HIDE DEF r
<1>8. \A k \in 1..Len(w) : r[k] = ReadChar(r[k - 1], w[k])
    BY <1>3, <1>7
<1>9. r[Len(w)] = z
    BY <1>3, <1>6
<1> QED BY <1>5, <1>8, <1>9 DEF Reads, w

\* A parser's state is what it has come to: reading is a function.
LEMMA ParsingReads ==
    ASSUME NEW C, NEW inner \in Seq(C), inner # <<>>, NEW t, Reads(Between(<<>>), inner, t)
    PROVE  ParseArrayLiteral(<<Opening>> \o inner \o <<Closing>>)
                = Append(t.items, FinishArrayElement(t))
<1> DEFINE n == Len(inner)
           text == <<Opening>> \o inner \o <<Closing>>
           Read(f) == f = [k \in 0..n |-> IF k = 0 THEN Between(<<>>) ELSE ReadChar(f[k - 1], inner[k])]
           read == CHOOSE f : Read(f)
<1>1. SubSeq(text, 2, Len(text) - 1) = inner
    <2> DEFINE CC == C \cup {Opening, Closing}
    <2>1. inner \in Seq(CC) /\ <<Opening>> \in Seq(CC) /\ <<Closing>> \in Seq(CC)
        OBVIOUS
    <2> HIDE DEF CC
    <2>2. text \in Seq(CC) /\ Len(text) = n + 2 /\ n \in Nat
        BY <2>1
    <2>3. \A k \in 1..n : text[k + 1] = inner[k]
        BY <2>1
    <2>4. SubSeq(text, 2, n + 1) \in Seq(CC) /\ Len(SubSeq(text, 2, n + 1)) = n
          /\ \A k \in 1..n : SubSeq(text, 2, n + 1)[k] = text[k + 1]
        <3> HIDE DEF text, n
        <3> QED BY <2>2
    <2>5. Len(text) - 1 = n + 1
        BY <2>2
    <2>6. SubSeq(text, 2, n + 1) = inner
        <3> HIDE DEF text
        <3> QED BY <2>1, <2>3, <2>4, <2>2
    <2> QED BY <2>5, <2>6
<1>2. PICK r : /\ r[0] = Between(<<>>) /\ r[n] = t
               /\ \A k \in 1..n : r[k] = ReadChar(r[k - 1], inner[k])
    BY DEF Reads
<1>3. n \in Nat
    OBVIOUS
<1>4. Read([k \in 0..n |-> r[k]])
    <2> DEFINE f == [k \in 0..n |-> r[k]]
    <2>1. ASSUME NEW k \in 0..n
          PROVE  f[k] = IF k = 0 THEN Between(<<>>) ELSE ReadChar(f[k - 1], inner[k])
        <3> HIDE DEF n
        <3>1. CASE k = 0
            BY <3>1, <1>2
        <3>2. CASE k # 0
            <4>1. k \in 1..n /\ k - 1 \in 0..n
                BY <3>2, <1>3
            <4> QED BY <4>1, <3>2, <1>2
        <3> QED BY <3>1, <3>2
    <2>2. f = [k \in 0..n |-> f[k]]
        OBVIOUS
    <2> HIDE DEF f, n
    <2>3. [k \in 0..n |-> f[k]] = [k \in 0..n |-> IF k = 0 THEN Between(<<>>) ELSE ReadChar(f[k - 1], inner[k])]
        BY <2>1
    <2>4. Read(f)
        BY <2>2, <2>3
    <2> QED BY <2>4 DEF f
<1>5. Read(read)
    <2> HIDE DEF Read
    <2> QED BY <1>4
<1>6. ParseArrayLiteral(text) = Append(read[n].items, FinishArrayElement(read[n]))
    <2> HIDE DEF text
    <2> QED BY <1>1 DEF ParseArrayLiteral
<1>7. \A k \in 0..n : read[k] = IF k = 0 THEN Between(<<>>) ELSE ReadChar(read[k - 1], inner[k])
    <2> HIDE DEF read, n
    <2> QED BY <1>5
<1> HIDE DEF read, n, text
<1>8. read[n] = t
    <2> DEFINE Same == {k \in Nat : read[k] = r[k]}
    <2>1. 0 \in Same
        BY <1>2, <1>3, <1>7
    <2>2. ASSUME NEW k \in 0..n, k \in Same, k < n
          PROVE  k + 1 \in Same
        <3>1. k + 1 \in 1..n /\ k + 1 \in 0..n /\ (k + 1) - 1 = k /\ k + 1 # 0
            BY <1>3, <2>2
        <3>2. read[k + 1] = ReadChar(read[k], inner[k + 1])
            BY <3>1, <1>7
        <3>3. r[k + 1] = ReadChar(r[k], inner[k + 1])
            BY <3>1, <1>2
        <3> QED BY <3>1, <3>2, <3>3, <2>2
    <2>3. 0..n \subseteq Same
        <3> HIDE DEF Same
        <3> QED BY <1>3, <2>1, <2>2, CountingUp
    <2> QED BY <2>3, <1>2, <1>3
<1> QED BY <1>6, <1>8 DEF text

\* What has been read of an element: outside quotes, inside, and behind them.
Outside(items, current) ==
    [items |-> items, current |-> current, quoted |-> FALSE, wasQuoted |-> FALSE, escaped |-> FALSE]
Inside(items, current) ==
    [items |-> items, current |-> current, quoted |-> TRUE, wasQuoted |-> TRUE, escaped |-> FALSE]
PastQuotes(items, current) ==
    [items |-> items, current |-> current, quoted |-> FALSE, wasQuoted |-> TRUE, escaped |-> FALSE]

LEMMA CharactersDiffer ==
    /\ Quote # Backslash /\ Quote # Comma /\ Backslash # Comma /\ Comma # Quote
    /\ "NULL" \notin {Blank, Opening, Closing, Comma, Quote, Backslash}
BY Zenon DEF Quote, Backslash, Comma, Blank, Opening, Closing

\* What one character makes of a state.
LEMMA PlainCharacter ==
    ASSUME NEW items, NEW current, NEW c, c \notin {Quote, Comma}
    PROVE  ReadChar(Outside(items, current), c) = Outside(items, Append(current, c))
BY DEF ReadChar, Outside

LEMMA InnerCharacter ==
    ASSUME NEW items, NEW current, NEW c, c \notin {Quote, Backslash}
    PROVE  ReadChar(Inside(items, current), c) = Inside(items, Append(current, c))
BY DEF ReadChar, Inside

LEMMA QuotesOpenAndClose ==
    ASSUME NEW items, NEW current
    PROVE  /\ ReadChar(Outside(items, current), Quote) = Inside(items, current)
           /\ ReadChar(Inside(items, current), Quote) = PastQuotes(items, current)
BY DEF ReadChar, Outside, Inside, PastQuotes

LEMMA EscapedCharacter ==
    ASSUME NEW items, NEW current, NEW c
    PROVE  ReadChar(ReadChar(Inside(items, current), Backslash), c) = Inside(items, Append(current, c))
<1> DEFINE escaped == [items |-> items, current |-> current, quoted |-> TRUE,
                       wasQuoted |-> TRUE, escaped |-> TRUE]
<1>1. ReadChar(Inside(items, current), Backslash) = escaped
    BY CharactersDiffer DEF ReadChar, Inside
<1>2. ReadChar(escaped, c) = Inside(items, Append(current, c))
    BY DEF ReadChar, Inside
<1> QED BY <1>1, <1>2

\* A comma ends an element.
LEMMA CommasEnd ==
    ASSUME NEW s, s.escaped = FALSE, s.quoted = FALSE
    PROVE  ReadChar(s, Comma) = Between(Append(s.items, FinishArrayElement(s)))
BY CharactersDiffer DEF ReadChar

\* A plain text is read as it is.
LEMMA PlainTextIsRead ==
    ASSUME NEW C, NEW text \in Seq(C), IsPlain(text), NEW items
    PROVE  Reads(Between(items), text, Outside(items, text))
<1> DEFINE n == Len(text)
           r == [k \in 0..n |-> Outside(items, SubSeq(text, 1, k))]
<1>1. n \in Nat /\ DOMAIN text = 1..n /\ SubSeq(text, 1, 0) = <<>> /\ SubSeq(text, 1, n) = text
    OBVIOUS
<1>2. r[0] = Between(items) /\ r[n] = Outside(items, text)
    <2>1. Between(items) = Outside(items, <<>>)
        BY DEF Between, Outside
    <2>2. 0 \in 0..n /\ n \in 0..n
        BY <1>1
    <2>3. r[0] = Outside(items, <<>>) /\ r[n] = Outside(items, text)
        BY <1>1, <2>2
    <2> QED BY <2>1, <2>3
<1>3. ASSUME NEW k \in 1..n
      PROVE  r[k] = ReadChar(r[k - 1], text[k])
    <2>1. r[k] = Outside(items, SubSeq(text, 1, k))
          /\ r[k - 1] = Outside(items, SubSeq(text, 1, k - 1))
        BY <1>1
    <2>2. Append(SubSeq(text, 1, k - 1), text[k]) = SubSeq(text, 1, k)
        BY <1>1
    <2>3. text[k] \notin {Quote, Comma}
        BY <1>1 DEF IsPlain
    <2> QED BY <2>1, <2>2, <2>3, PlainCharacter
<1> HIDE DEF r
<1> QED BY <1>2, <1>3 DEF Reads

LEMMA QuotedTextIsRead ==
    ASSUME NEW C, NEW text \in Seq(C), NEW items
    PROVE  /\ Reads(Between(items), InQuotes(text), PastQuotes(items, text))
           /\ InQuotes(text) \in Seq(C \cup {Quote, Backslash}) /\ InQuotes(text) # <<>>
<1> DEFINE n == Len(text)
           D == C \cup {Quote, Backslash}
           marked == [i \in DOMAIN text |->
                        IF text[i] \in {Quote, Backslash} THEN <<Backslash, text[i]>> ELSE <<text[i]>>]
<1>1. n \in Nat /\ DOMAIN text = 1..n /\ SubSeq(text, 1, 0) = <<>> /\ SubSeq(text, 1, n) = text
    OBVIOUS
<1>2. Between(items) = Outside(items, <<>>)
    BY DEF Between, Outside
<1>3. marked \in Seq(Seq(D)) /\ Len(marked) = n /\ FlattenSeq(marked) \in Seq(D)
      /\ Reads(Inside(items, <<>>), FlattenSeq(marked), Inside(items, text))
    <2>1. \A i \in 1..n : marked[i] \in Seq(D)
        <3> SUFFICES ASSUME NEW i \in 1..n PROVE marked[i] \in Seq(D)
            OBVIOUS
        <3>1. text[i] \in D /\ Backslash \in D
            BY <1>1
        <3>2. marked[i] = IF text[i] \in {Quote, Backslash} THEN <<Backslash, text[i]>> ELSE <<text[i]>>
            BY <1>1
        <3> HIDE DEF D, marked
        <3>3. <<Backslash, text[i]>> \in Seq(D) /\ <<text[i]>> \in Seq(D)
            BY <3>1
        <3> QED BY <3>2, <3>3
    <2>2. marked \in Seq(Seq(D)) /\ Len(marked) = n
        <3> DEFINE Y == Seq(D)
        <3>1. \A i \in 1..n : marked[i] \in Y
            BY <2>1
        <3>2. marked = [i \in 1..n |-> marked[i]]
            BY <1>1
        <3> HIDE DEF Y, marked, n
        <3>3. marked \in Seq(Y) /\ Len(marked) = n
            BY <1>1, <3>1, <3>2
        <3> QED BY <3>3 DEF Y
    <2>3. CASE n = 0
        <3>1. marked = <<>> /\ text = <<>>
            BY <2>3, <2>2
        <3>2. FlattenSeq(marked) = <<>>
            <4> HIDE DEF marked
            <4> QED BY <3>1 DEF FlattenSeq
        <3> HIDE DEF marked
        <3>3. Reads(Inside(items, <<>>), <<>>, Inside(items, <<>>))
            BY ReadingNothing
        <3>4. FlattenSeq(marked) \in Seq(D)
            BY <3>2
        <3> HIDE DEF n, D
        <3> QED BY <2>2, <3>1, <3>2, <3>3, <3>4
    <2>4. CASE n # 0
        <3>a. marked # <<>>
            BY <2>2, <2>4
        <3>1. PICK f \in [1..n -> Seq(D)] : Flattens(marked, f)
            <4> HIDE DEF marked, n, D
            <4> QED BY <2>2, <3>a, FlatteningGoesOn
        <3>2. ASSUME NEW k \in 1..n
              PROVE  Reads(Inside(items, SubSeq(text, 1, k - 1)), marked[k], Inside(items, SubSeq(text, 1, k)))
            <4> DEFINE before == SubSeq(text, 1, k - 1)
            <4>1. Append(before, text[k]) = SubSeq(text, 1, k)
                BY <1>1
            <4> HIDE DEF before
            <4>2. CASE text[k] \in {Quote, Backslash}
                <5>1. marked[k] = <<Backslash>> \o <<text[k]>>
                    BY <1>1, <4>2
                <5>2. ReadChar(ReadChar(Inside(items, before), Backslash), text[k])
                        = Inside(items, SubSeq(text, 1, k))
                    <6>1. ReadChar(ReadChar(Inside(items, before), Backslash), text[k])
                            = Inside(items, Append(before, text[k]))
                        BY EscapedCharacter
                    <6> QED BY <6>1, <4>1
                <5>3. Reads(Inside(items, before), <<Backslash>>, ReadChar(Inside(items, before), Backslash))
                    BY ReadingOne
                <5>4. Reads(ReadChar(Inside(items, before), Backslash), <<text[k]>>,
                            Inside(items, SubSeq(text, 1, k)))
                    BY <5>2, ReadingOne
                <5>5. <<Backslash>> \in Seq(D) /\ <<text[k]>> \in Seq(D)
                    BY <1>1
                <5> HIDE DEF marked, D
                <5> QED BY <5>1, <5>3, <5>4, <5>5, ReadingOn DEF before
            <4>3. CASE text[k] \notin {Quote, Backslash}
                <5>1. marked[k] = <<text[k]>>
                    BY <1>1, <4>3
                <5>2. ReadChar(Inside(items, before), text[k]) = Inside(items, SubSeq(text, 1, k))
                    <6>1. ReadChar(Inside(items, before), text[k])
                            = Inside(items, Append(before, text[k]))
                        BY <4>3, InnerCharacter
                    <6> QED BY <6>1, <4>1
                <5> HIDE DEF marked
                <5> QED BY <5>1, <5>2, ReadingOne DEF before
            <4> QED BY <4>2, <4>3
        <3> DEFINE Read == {k \in Nat : k + 1 \in 1..n =>
                                Reads(Inside(items, <<>>), f[k + 1], Inside(items, SubSeq(text, 1, k + 1)))}
        <3> HIDE DEF marked
        <3>3. 0 \in Read
            <4>1. f[1] = marked[1]
                BY <3>1 DEF Flattens
            <4>2. 1 \in 1..n /\ 0 + 1 = 1 /\ 1 - 1 = 0
                BY <1>1, <2>4
            <4> HIDE DEF n
            <4>3. Reads(Inside(items, <<>>), f[1], Inside(items, SubSeq(text, 1, 1)))
                BY <4>1, <4>2, <3>2, <1>1
            <4> QED BY <4>2, <4>3
        <3>4. ASSUME NEW k \in 0..(n - 1), k \in Read, k < n - 1
              PROVE  k + 1 \in Read
            <4>1. k + 1 \in 1..n /\ k + 2 \in 2..n /\ (k + 2) - 1 = k + 1 /\ k + 2 \in 1..n
                BY <1>1, <3>4
            <4>2. f[k + 2] = f[k + 1] \o marked[k + 2]
                <5>1. \A j \in 2..n : f[j] = f[j - 1] \o marked[j]
                    BY <3>1, <2>2 DEF Flattens
                <5> QED BY <5>1, <4>1
            <4>3. Reads(Inside(items, <<>>), f[k + 1], Inside(items, SubSeq(text, 1, k + 1)))
                BY <4>1, <3>4
            <4>4. Reads(Inside(items, SubSeq(text, 1, k + 1)), marked[k + 2], Inside(items, SubSeq(text, 1, k + 2)))
                BY <4>1, <3>2
            <4>5. f[k + 1] \in Seq(D) /\ marked[k + 2] \in Seq(D)
                <5> HIDE DEF n, D
                <5> QED BY <4>1, <2>1
            <4> HIDE DEF D, n
            <4>6. Reads(Inside(items, <<>>), f[k + 2], Inside(items, SubSeq(text, 1, k + 2)))
                BY <4>2, <4>3, <4>4, <4>5, ReadingOn
            <4> QED BY <4>1, <4>6
        <3>5. 0..(n - 1) \subseteq Read
            <4>1. n - 1 \in Nat
                BY <1>1, <2>4
            <4> HIDE DEF Read, n
            <4> QED BY <4>1, <3>3, <3>4, CountingUp
        <3>6. Reads(Inside(items, <<>>), f[n], Inside(items, text)) /\ f[n] \in Seq(D)
            <4>1. n - 1 \in 0..(n - 1) /\ (n - 1) + 1 = n /\ n \in 1..n
                BY <1>1, <2>4
            <4> HIDE DEF n
            <4> QED BY <4>1, <3>5, <1>1
        <3>7. f[n] = FlattenSeq(marked)
            BY <3>1, <2>2 DEF Flattens
        <3> QED BY <2>2, <3>6, <3>7
    <2> QED BY <2>3, <2>4
<1> HIDE DEF marked, D
<1>4. Reads(Between(items), <<Quote>>, Inside(items, <<>>))
    BY <1>2, QuotesOpenAndClose, ReadingOne
<1>5. Reads(Inside(items, text), <<Quote>>, PastQuotes(items, text))
    BY QuotesOpenAndClose, ReadingOne
<1>6. InQuotes(text) = (<<Quote>> \o FlattenSeq(marked)) \o <<Quote>>
    BY DEF InQuotes, marked
<1>7. <<Quote>> \in Seq(D)
    BY DEF D
<1>8. Reads(Between(items), <<Quote>> \o FlattenSeq(marked), Inside(items, text))
    BY <1>3, <1>4, <1>7, ReadingOn
<1>9. <<Quote>> \o FlattenSeq(marked) \in Seq(D)
    BY <1>3, <1>7
<1>10. InQuotes(text) \in Seq(D) /\ InQuotes(text) # <<>>
    BY <1>3, <1>6, <1>7
<1>11. Reads(Between(items), InQuotes(text), PastQuotes(items, text))
    BY <1>5, <1>6, <1>7, <1>8, <1>9, ReadingOn
<1> QED BY <1>10, <1>11 DEF D

\* An option is a sequence of at most one.
OptionsOf(S) == {<<>>} \cup {<<v>> : v \in S}

Written(option) == IF option = <<>> THEN <<"NULL">> ELSE QuoteArrayElement(option[1])

\* In an array there are marks besides the characters of its elements.
Marked(C) == C \cup {Quote, Backslash, Comma, "NULL"}

LEMMA PlainTextIsNotTrimmed ==
    ASSUME NEW C, NEW text \in Seq(C), text # <<>>, IsPlain(text)
    PROVE  Trim(text) = text
<1> DEFINE n == Len(text)
           kept == {i \in DOMAIN text : text[i] # Blank}
<1>1. n \in Nat \ {0} /\ DOMAIN text = 1..n /\ SubSeq(text, 1, n) = text
    OBVIOUS
<1>2. kept = 1..n
    BY <1>1 DEF IsPlain
<1> HIDE DEF kept, n
<1>3. Min(kept) = 1
    <2>1. Min(kept) \in 1..n /\ \A y \in 1..n : Min(kept) <= y
        <3>1. kept \subseteq Nat /\ kept # {}
            <4>1. 1 \in 1..n /\ 1..n \subseteq Nat
                BY <1>1
            <4> QED BY <4>1, <1>2
        <3>2. Min(kept) \in kept /\ \A y \in kept : Min(kept) <= y
            BY <3>1, MinIsLeast
        <3> QED BY <3>2, <1>2
    <2>2. Min(kept) <= 1
        BY <1>1, <2>1
    <2> QED BY <2>1, <2>2, <1>1
<1>4. Max(kept) = n
    <2>1. Max(kept) \in 1..n /\ \A y \in 1..n : y <= Max(kept)
        <3>1. kept \subseteq 0..n /\ kept # {}
            <4>1. 1 \in 1..n /\ 1..n \subseteq 0..n
                BY <1>1
            <4> QED BY <4>1, <1>2
        <3>2. n \in Nat
            BY <1>1
        <3>3. Max(kept) \in kept /\ \A y \in kept : y <= Max(kept)
            BY <3>1, <3>2, MaxIsLargest
        <3> QED BY <3>3, <1>2
    <2>2. n <= Max(kept)
        BY <1>1, <2>1
    <2> QED BY <2>1, <2>2, <1>1
<1>5. Trim(text) = SubSeq(text, 1, n)
    <2>1. Trim(text) = IF kept = {} THEN <<>> ELSE SubSeq(text, Min(kept), Max(kept))
        BY DEF Trim, kept
    <2> QED BY <2>1, <1>1, <1>2, <1>3, <1>4
<1> QED BY <1>1, <1>5

IsReadAs(option, items) ==
    \E t : /\ Reads(Between(items), Written(option), t)
           /\ t.items = items /\ t.quoted = FALSE /\ t.escaped = FALSE
           /\ FinishArrayElement(t) = option

\* Whatever an element is, it is read as itself.
LEMMA ElementIsRead ==
    ASSUME NEW C, NEW option \in OptionsOf(Seq(C)), NEW items
    PROVE  /\ Written(option) \in Seq(Marked(C)) /\ Written(option) # <<>>
           /\ IsReadAs(option, items)
<1>1. CASE option = <<>>
    <2> DEFINE text == <<"NULL">>
    <2>1. text \in Seq(Marked(C)) /\ text # <<>> /\ Written(option) = text
        BY <1>1 DEF Marked, Written
    <2>2. IsPlain(text)
        <3>1. \A i \in DOMAIN text : text[i] = "NULL"
            OBVIOUS
        <3> QED BY <3>1, CharactersDiffer DEF IsPlain
    <2>3. Reads(Between(items), text, Outside(items, text))
        <3> HIDE DEF text
        <3> QED BY <2>1, <2>2, PlainTextIsRead
    <2>4. FinishArrayElement(Outside(items, text)) = <<>>
        BY DEF FinishArrayElement, Outside, IsNullWord
    <2> HIDE DEF text
    <2>5. Outside(items, text).items = items /\ Outside(items, text).quoted = FALSE
          /\ Outside(items, text).escaped = FALSE
        BY DEF Outside
    <2> QED BY <2>1, <2>3, <2>4, <2>5, <1>1 DEF IsReadAs
<1>2. ASSUME NEW text \in Seq(C), option = <<text>>
      PROVE  /\ Written(option) \in Seq(Marked(C)) /\ Written(option) # <<>>
             /\ IsReadAs(option, items)
    <2>1. Written(option) = QuoteArrayElement(text)
        BY <1>2 DEF Written
    <2>2. CASE text # <<>> /\ ~IsNullWord(text) /\ IsPlain(text)
        <3>1. Written(option) = text /\ text \in Seq(Marked(C))
            BY <2>1, <2>2 DEF QuoteArrayElement, Marked
        <3>2. Reads(Between(items), text, Outside(items, text))
            BY <2>2, PlainTextIsRead
        <3>3. FinishArrayElement(Outside(items, text)) = <<text>>
            BY <2>2, PlainTextIsNotTrimmed DEF FinishArrayElement, Outside
        <3>4. Outside(items, text).items = items /\ Outside(items, text).quoted = FALSE
              /\ Outside(items, text).escaped = FALSE
            BY DEF Outside
        <3> QED BY <3>1, <3>2, <3>3, <3>4, <2>2, <1>2 DEF IsReadAs
    <2>3. CASE ~(text # <<>> /\ ~IsNullWord(text) /\ IsPlain(text))
        <3>1. Written(option) = InQuotes(text)
            BY <2>1, <2>3 DEF QuoteArrayElement
        <3>2. /\ Reads(Between(items), InQuotes(text), PastQuotes(items, text))
              /\ InQuotes(text) \in Seq(C \cup {Quote, Backslash}) /\ InQuotes(text) # <<>>
            BY QuotedTextIsRead
        <3>3. InQuotes(text) \in Seq(Marked(C))
            BY <3>2 DEF Marked
        <3>4. FinishArrayElement(PastQuotes(items, text)) = <<text>>
            BY DEF FinishArrayElement, PastQuotes
        <3>5. PastQuotes(items, text).items = items /\ PastQuotes(items, text).quoted = FALSE
              /\ PastQuotes(items, text).escaped = FALSE
            BY DEF PastQuotes
        <3> QED BY <3>1, <3>2, <3>3, <3>4, <3>5, <1>2 DEF IsReadAs
    <2> QED BY <2>2, <2>3
<1> QED BY <1>1, <1>2 DEF OptionsOf

\* What the parser has come to when it has read this much of k elements.
ComesTo(elements, k, w) ==
    \E t : /\ Reads(Between(<<>>), w, t)
           /\ t.items = SubSeq(elements, 1, k - 1) /\ t.quoted = FALSE /\ t.escaped = FALSE
           /\ FinishArrayElement(t) = elements[k]

\* An array is read as what it was written from, whatever is in its elements.
THEOREM ArraysReturn ==
    ASSUME NEW C, NEW elements \in Seq(OptionsOf(Seq(C)))
    PROVE  ParseArrayLiteral(ArrayLiteral(elements)) = elements
<1> DEFINE n == Len(elements)
           E == OptionsOf(Seq(C))
           M == Marked(C)
           written == [i \in DOMAIN elements |->
                        (IF i > 1 THEN <<Comma>> ELSE <<>>)
                        \o (IF elements[i] = <<>> THEN <<"NULL">> ELSE QuoteArrayElement(elements[i][1]))]
           inner == FlattenSeq(written)
<1>1. n \in Nat /\ DOMAIN elements = 1..n /\ \A i \in 1..n : elements[i] \in E
    OBVIOUS
<1> HIDE DEF E
<1>2. ArrayLiteral(elements) = <<Opening>> \o inner \o <<Closing>>
    BY DEF ArrayLiteral
<1>3. \A i \in 1..n : written[i] = (IF i > 1 THEN <<Comma>> ELSE <<>>) \o Written(elements[i])
    BY <1>1 DEF Written
<1>4. DOMAIN written = 1..n /\ written = [i \in 1..n |-> written[i]]
    BY <1>1
<1> HIDE DEF n, written, M
<1>5. \A i \in 1..n : Written(elements[i]) \in Seq(M) /\ Written(elements[i]) # <<>>
    BY <1>1, ElementIsRead DEF M, E
<1>6. <<Comma>> \in Seq(M) /\ <<>> \in Seq(M)
    BY DEF M, Marked
<1>7. \A i \in 1..n : written[i] \in Seq(M)
    <2>1. \A u, v \in Seq(M) : u \o v \in Seq(M)
        OBVIOUS
    <2> QED BY <1>3, <1>5, <1>6, <2>1
<1>8. written \in Seq(Seq(M)) /\ Len(written) = n
    <2> DEFINE Y == Seq(M)
    <2>1. \A i \in 1..n : written[i] \in Y
        BY <1>7
    <2> HIDE DEF Y
    <2>2. written \in Seq(Y) /\ Len(written) = n
        BY <1>1, <1>4, <2>1
    <2> QED BY <2>2 DEF Y
<1>9. CASE n = 0
    <2>1. elements = <<>> /\ written = <<>>
        BY <1>8, <1>9 DEF n
    <2>2. inner = <<>>
        BY <2>1 DEF FlattenSeq
    <2> DEFINE text == <<Opening>> \o <<>> \o <<Closing>>
    <2>3. ArrayLiteral(elements) = text
        BY <1>2, <2>2
    <2>4. SubSeq(text, 2, Len(text) - 1) = <<>>
        OBVIOUS
    <2> HIDE DEF text
    <2>5. ParseArrayLiteral(text) = <<>>
        BY <2>4 DEF ParseArrayLiteral
    <2> QED BY <2>1, <2>3, <2>5
<1>10. CASE n # 0
    <2>1. written # <<>>
        BY <1>8, <1>10
    <2>2. PICK f \in [1..n -> Seq(M)] : Flattens(written, f)
        BY <1>8, <2>1, FlatteningGoesOn
    <2>3. f[1] = written[1] /\ f[n] = inner
        BY <2>2, <1>8 DEF Flattens
    <2>4. \A k \in 2..n : f[k] = f[k - 1] \o written[k]
        BY <2>2, <1>8 DEF Flattens
    <2>5. \A k \in 1..n : \A items : IsReadAs(elements[k], items)
        <3>1. \A k \in 1..n : elements[k] \in OptionsOf(Seq(C))
            BY <1>1 DEF E
        <3> HIDE DEF n
        <3> QED BY <3>1, ElementIsRead
    <2> DEFINE Read == {k \in Nat : k + 1 \in 1..n => ComesTo(elements, k + 1, f[k + 1]) /\ f[k + 1] # <<>>}
    <2>6. 0 \in Read
        <3>1. 1 \in 1..n /\ 0 + 1 = 1 /\ 1 - 1 = 0 /\ ~ (1 > 1)
            BY <1>1, <1>10
        <3>2. f[1] = Written(elements[1])
            <4>1. f[1] = <<>> \o Written(elements[1]) /\ Written(elements[1]) \in Seq(M)
                BY <1>3, <1>5, <2>3, <3>1
            <4> QED BY <4>1
        <3>3. PICK t : /\ Reads(Between(<<>>), Written(elements[1]), t)
                       /\ t.items = <<>> /\ t.quoted = FALSE /\ t.escaped = FALSE
                       /\ FinishArrayElement(t) = elements[1]
            <4>1. IsReadAs(elements[1], <<>>)
                BY <2>5, <3>1
            <4> QED BY <4>1 DEF IsReadAs
        <3>4. SubSeq(elements, 1, 1 - 1) = <<>>
            OBVIOUS
        <3>5. ComesTo(elements, 1, f[1])
            BY <3>2, <3>3, <3>4 DEF ComesTo
        <3>6. f[1] # <<>>
            BY <3>1, <3>2, <1>5
        <3> QED BY <3>1, <3>5, <3>6
    <2>7. ASSUME NEW k \in 0..(n - 1), k \in Read, k < n - 1
          PROVE  k + 1 \in Read
        <3>1. k + 1 \in 1..n /\ k + 2 \in 2..n /\ k + 2 \in 1..n /\ (k + 2) - 1 = k + 1 /\ (k + 1) + 1 = k + 2
              /\ k + 2 > 1 /\ k + 1 \in Nat
            BY <1>1, <2>7
        <3>2. ComesTo(elements, k + 1, f[k + 1])
            BY <3>1, <2>7
        <3>3. PICK s : /\ Reads(Between(<<>>), f[k + 1], s)
                       /\ s.items = SubSeq(elements, 1, (k + 1) - 1) /\ s.quoted = FALSE /\ s.escaped = FALSE
                       /\ FinishArrayElement(s) = elements[k + 1]
            BY <3>2 DEF ComesTo
        <3> DEFINE items == SubSeq(elements, 1, k + 1)
                   piece == Written(elements[k + 2])
        <3>4. Append(s.items, FinishArrayElement(s)) = items
            <4>1. Append(SubSeq(elements, 1, (k + 1) - 1), elements[k + 1]) = SubSeq(elements, 1, k + 1)
                BY <3>1, <1>1 DEF n
            <4> QED BY <4>1, <3>3
        <3> HIDE DEF items
        <3>5. ReadChar(s, Comma) = Between(items)
            BY <3>3, <3>4, CommasEnd
        <3>6. Reads(s, <<Comma>>, Between(items))
            BY <3>5, ReadingOne
        <3>7. PICK t : /\ Reads(Between(items), piece, t)
                       /\ t.items = items /\ t.quoted = FALSE /\ t.escaped = FALSE
                       /\ FinishArrayElement(t) = elements[k + 2]
            <4>1. IsReadAs(elements[k + 2], items)
                BY <2>5, <3>1
            <4> QED BY <4>1 DEF IsReadAs
        <3>8. written[k + 2] = <<Comma>> \o piece /\ piece \in Seq(M)
            BY <1>3, <1>5, <3>1
        <3>9. Reads(s, written[k + 2], t)
            BY <3>6, <3>7, <3>8, <1>6, ReadingOn
        <3>10. f[k + 2] = f[k + 1] \o written[k + 2] /\ f[k + 1] \in Seq(M) /\ written[k + 2] \in Seq(M)
            BY <2>2, <2>4, <1>7, <3>1
        <3>11. Reads(Between(<<>>), f[k + 2], t)
            BY <3>3, <3>9, <3>10, ReadingOn
        <3>12. ComesTo(elements, k + 2, f[k + 2])
            <4>1. t.items = SubSeq(elements, 1, (k + 2) - 1)
                BY <3>1, <3>7 DEF items
            <4> QED BY <4>1, <3>7, <3>11 DEF ComesTo
        <3>13. f[k + 2] # <<>>
            <4>1. f[k + 1] # <<>>
                BY <3>1, <2>7
            <4> QED BY <4>1, <3>10
        <3> QED BY <3>1, <3>12, <3>13
    <2>8. 0..(n - 1) \subseteq Read
        <3>1. n - 1 \in Nat
            BY <1>1, <1>10
        <3> HIDE DEF Read
        <3> QED BY <3>1, <2>6, <2>7, CountingUp
    <2>9. ComesTo(elements, n, f[n]) /\ f[n] # <<>>
        <3>1. n - 1 \in 0..(n - 1) /\ (n - 1) + 1 = n /\ n \in 1..n
            BY <1>1, <1>10
        <3> QED BY <3>1, <2>8
    <2>10. PICK t : /\ Reads(Between(<<>>), inner, t)
                    /\ t.items = SubSeq(elements, 1, n - 1) /\ FinishArrayElement(t) = elements[n]
        BY <2>3, <2>9 DEF ComesTo
    <2>11. inner \in Seq(M) /\ inner # <<>>
        <3>1. n \in 1..n
            BY <1>1, <1>10
        <3> QED BY <3>1, <2>2, <2>3, <2>9
    <2>12. ParseArrayLiteral(ArrayLiteral(elements)) = Append(t.items, FinishArrayElement(t))
        <3> HIDE DEF inner
        <3> QED BY <1>2, <2>10, <2>11, ParsingReads
    <2>13. Append(SubSeq(elements, 1, n - 1), elements[n]) = elements
        BY <1>1, <1>10 DEF n
    <2> QED BY <2>10, <2>12, <2>13
<1> QED BY <1>9, <1>10

-----------------------------------------------------------------------------
(* PostgreSQL's errors                                                     *)

\* Where the message ends, and what is found behind it.
Unlabelled(parts) == {i \in DOMAIN parts : parts[i].label \notin Labels}
Head1(parts) == Max({1} \cup Unlabelled(parts))
Behind(parts, label) == {i \in (Head1(parts) + 1)..Len(parts) : parts[i].label = label}

LEMMA SingletonMin ==
    ASSUME NEW n \in Nat
    PROVE  Min({n}) = n
BY MinIsLeast

\* The message ends before the SQLSTATE, with a part that has no label.
LEMMA MessageEnds ==
    ASSUME NEW parts, IsError(parts)
    PROVE  /\ Len(parts) \in Nat /\ DOMAIN parts = 1..Len(parts)
           /\ \A i \in DOMAIN parts : parts[i].label \in Labels \cup {NoLabel}
           /\ NoLabel \notin Labels
           /\ Head1(parts) \in Unlabelled(parts)
           /\ \A i \in Unlabelled(parts) : i <= Head1(parts)
           /\ Head1(parts) \in 1..(Len(parts) - 1)
<1>1. /\ Len(parts) \in Nat /\ DOMAIN parts = 1..Len(parts) /\ Len(parts) > 1
      /\ \A i \in DOMAIN parts : parts[i].label \in Labels \cup {NoLabel}
    <2>1. Len(parts) \in Nat /\ DOMAIN parts = 1..Len(parts)
        <3>1. parts \in Seq(ToSet(parts))
            BY DEF IsError
        <3> QED BY <3>1
    <2> QED BY <2>1 DEF IsError
<1>2. NoLabel \notin Labels /\ "SQLState" \in Labels
    BY Zenon DEF Labels, NoLabel
<1>3. 1 \in Unlabelled(parts)
    <2>1. 1 \in DOMAIN parts /\ parts[1].label = NoLabel
        BY <1>1 DEF IsError
    <2> QED BY <2>1, <1>2 DEF Unlabelled
<1>4. {1} \cup Unlabelled(parts) = Unlabelled(parts)
    BY <1>3
<1>5. Unlabelled(parts) \subseteq 0..Len(parts)
    BY <1>1 DEF Unlabelled
<1>6. /\ Head1(parts) \in Unlabelled(parts)
      /\ \A i \in Unlabelled(parts) : i <= Head1(parts)
    BY <1>1, <1>3, <1>4, <1>5, MaxIsLargest DEF Head1
<1>7. Len(parts) \notin Unlabelled(parts)
    <2>1. parts[Len(parts)].label = "SQLState"
        BY <1>1 DEF IsError
    <2> QED BY <2>1, <1>2 DEF Unlabelled
<1> QED BY <1>1, <1>2, <1>6, <1>7 DEF Unlabelled

\* A part behind the message whose label no other has is what its field holds.
LEMMA FieldIsFound ==
    ASSUME NEW parts, IsError(parts),
           NEW i \in (Head1(parts) + 1)..Len(parts),
           \A j \in (Head1(parts) + 1)..Len(parts) : parts[j].label = parts[i].label => j = i
    PROVE  /\ Behind(parts, parts[i].label) # {}
           /\ Min(Behind(parts, parts[i].label)) = i
<1>1. i \in Nat
    BY MessageEnds
<1>2. Behind(parts, parts[i].label) = {i}
    BY DEF Behind
<1> QED BY <1>1, <1>2, SingletonMin

LEMMA ErrorsAreKept ==
    ASSUME NEW parts, IsError(parts)
    PROVE  Keeps(ParseDbError(parts), parts)
<1> DEFINE n == Len(parts)
           head == Head1(parts)
           first == Min({i \in DOMAIN parts : parts[i].label # NoLabel})
           field(label) == IF Behind(parts, label) = {} THEN <<>>
                           ELSE <<parts[Min(Behind(parts, label))].text>>
           error == ParseDbError(parts)
<1>1. /\ error.code = IF field("SQLState") = <<>> THEN "XX000" ELSE field("SQLState")[1]
      /\ error.message = SubSeq(parts, 1, head)
      /\ \A label \in Labels \ {"SQLState"} : error.fields[label] = field(label)
    BY DEF ParseDbError, Head1, Unlabelled, Behind
<1>2. /\ n \in Nat /\ DOMAIN parts = 1..n /\ head \in 1..(n - 1)
      /\ \A i \in DOMAIN parts : parts[i].label = "SQLState" <=> i = n
      /\ NoLabel \notin Labels /\ "SQLState" \in Labels
    BY MessageEnds DEF IsError, Labels
<1>3. error.code = Last(parts).text
    <2>1. /\ Behind(parts, parts[n].label) # {}
          /\ Min(Behind(parts, parts[n].label)) = n
        BY <1>2, FieldIsFound
    <2>2. n \in DOMAIN parts /\ parts[n].label = "SQLState"
        BY <1>2
    <2>3. field("SQLState") = <<parts[n].text>>
        BY <2>1, <2>2
    <2>4. field("SQLState") # <<>> /\ field("SQLState")[1] = parts[n].text
        BY <2>3
    <2> HIDE DEF error, field
    <2> QED BY <1>1, <2>4 DEF Last
<1>4. first \in DOMAIN parts /\ parts[first].label # NoLabel
      /\ \A i \in DOMAIN parts : parts[i].label # NoLabel => first <= i
    <2> DEFINE labelled == {i \in DOMAIN parts : parts[i].label # NoLabel}
    <2>1. n \in labelled
        <3>1. n \in DOMAIN parts /\ parts[n].label = "SQLState"
            BY <1>2
        <3> QED BY <3>1, <1>2
    <2>2. labelled \subseteq Nat
        BY <1>2
    <2>3. Min(labelled) \in labelled /\ \A i \in labelled : Min(labelled) <= i
        <3> HIDE DEF labelled
        <3> QED BY <2>1, <2>2, MinIsLeast
    <2> QED BY <2>3
<1>head. head = Head1(parts)
    OBVIOUS
<1> HIDE DEF first, head, error, field
<1>5. ASSUME \A i \in first..n : parts[i].label # NoLabel,
             \A i, j \in first..n : parts[i].label = parts[j].label => i = j
      PROVE  /\ error.message = SubSeq(parts, 1, first - 1)
             /\ \A i \in (first..n) \ {n} : error.fields[parts[i].label] = <<parts[i].text>>
    <2>1. head = first - 1
        <3>1. head < first
            <4> USE <1>head
            <4>1. head \in DOMAIN parts /\ parts[head].label \notin Labels
                  /\ parts[head].label \in Labels \cup {NoLabel}
                BY <1>2, MessageEnds DEF Unlabelled
            <4>2. head \notin first..n
                BY <4>1, <1>5
            <4> QED BY <4>2, <1>2, <1>4
        <3>2. first > 1 /\ parts[first - 1].label = NoLabel
            <4>1. first > 1 /\ first - 1 \in DOMAIN parts
                BY <1>2, <1>4, <3>1
            <4> QED BY <4>1, <1>2, <1>4
        <3>3. first - 1 \in Unlabelled(parts)
            BY <1>2, <1>4, <3>2, MessageEnds DEF Unlabelled
        <3>4. first - 1 <= head
            BY <3>3, <1>head, MessageEnds
        <3> QED BY <3>1, <3>4, <1>2, <1>4
    <2>2. ASSUME NEW i \in (first..n) \ {n}
          PROVE  error.fields[parts[i].label] = <<parts[i].text>>
        <3>1. i \in (head + 1)..n /\ i \in DOMAIN parts /\ head + 1 = first
            <4>1. first \in 1..n /\ n \in Nat /\ DOMAIN parts = 1..n
                BY <1>2, <1>4
            <4> HIDE DEF n
            <4>2. head + 1 = first /\ i \in first..n /\ i \in 1..n
                BY <4>1, <2>1
            <4> QED BY <4>1, <4>2
        <3> USE <1>head
        <3>2. /\ Behind(parts, parts[i].label) # {}
              /\ Min(Behind(parts, parts[i].label)) = i
            BY <3>1, <1>5, FieldIsFound
        <3>3. parts[i].label \in Labels \ {"SQLState"}
            <4>1. parts[i].label # NoLabel /\ i # n
                BY <1>5
            <4>2. parts[i].label \in Labels \cup {NoLabel}
                BY <3>1, MessageEnds
            <4> QED BY <4>1, <4>2, <3>1, <1>2
        <3>4. error.fields[parts[i].label] = field(parts[i].label)
            BY <3>3, <1>1
        <3> QED BY <3>2, <3>4 DEF field
    <2> QED BY <1>1, <2>1, <2>2
<1> QED BY <1>3, <1>5, <1>2 DEF Keeps, error, first

\* What the proxy makes up when a parameter was not cast is an error, too.
LEMMA MismatchIsError == IsError(Mismatch)
<1>1. /\ Len(Mismatch) = 2 /\ DOMAIN Mismatch = 1..2
      /\ Mismatch[1].label = NoLabel /\ Mismatch[2].label = "SQLState"
    BY DEF Mismatch
<1>2. NoLabel # "SQLState" /\ "SQLState" \in Labels
    BY Zenon DEF NoLabel, Labels
<1>3. Mismatch \in Seq(ToSet(Mismatch))
    BY DEF Mismatch, ToSet
<1>4. \A i \in DOMAIN Mismatch : i = 1 \/ i = 2
    BY <1>1
<1> QED BY <1>1, <1>2, <1>3, <1>4 DEF IsError

\* A statement stays what it is, and what PostgreSQL may make of it.  Before it
\* has been run nothing is known of its errors, and a statement that cannot be
\* returned has none.
ErrorsInv ==
    /\ IsWellFormed(statement)
    /\ step \in {"parsed", "bound"} => runs = 0
    /\ step = "fallback" => statement.error = <<>>
    /\ step \in {"parsed", "bound", "fallback"} => answer = <<>>
    /\ ErrorsKeepTheirFields

LEMMA AllDatabaseErrorsAreErrors ==
    ASSUME IsWellFormed(statement), NEW parts \in DatabaseErrors
    PROVE  IsError(parts)
BY MismatchIsError DEF IsWellFormed, DatabaseErrors

\* PostgreSQL's error reaches the client with its SQLSTATE, its message and its
\* fields, whatever semicolons are in it (dataapi.rs:466-500).
THEOREM ErrorsArrive == Spec => []ErrorsKeepTheirFields
<1>1. Init => ErrorsInv
    BY DEF Init, ErrorsInv, ErrorsKeepTheirFields, Has
<1>2. ErrorsInv /\ [Next]_vars => ErrorsInv'
    <2> SUFFICES ASSUME ErrorsInv, [Next]_vars PROVE ErrorsInv'
        OBVIOUS
    <2>1. CASE UNCHANGED vars
        BY <2>1 DEF vars, ErrorsInv, ErrorsKeepTheirFields, Has, DatabaseErrors
    <2>2. CASE DescribeStatement
        BY <2>2 DEF DescribeStatement, ErrorsInv, ErrorsKeepTheirFields, Has
    <2>3. ASSUME NEW wanted, NEW isBinary, NEW probed, Bind(wanted, isBinary, probed)
          PROVE  ErrorsInv'
        <3>1. step = "parsed" /\ UNCHANGED <<statement, runs>>
            BY <2>3 DEF Bind
        <3>2. (step' = "bound" /\ UNCHANGED answer) \/ step' = "answered"
            BY <2>3 DEF Bind, AnsweredError, Answered
        <3> QED BY <3>1, <3>2 DEF ErrorsInv, ErrorsKeepTheirFields
    <2>4. CASE Run
        <3>1. UNCHANGED <<statement, received>> /\ step = "bound"
            BY <2>4 DEF Run
        <3>2. \/ statement.error = <<>> /\ step' = "answered"
              \/ statement.error = <<>> /\ step' = "fallback" /\ answer' = answer
              \/ \E parts \in DatabaseErrors :
                    AnsweredError(MapSdkError([exception |-> "DatabaseErrorException",
                                               parts |-> parts]))
            BY <2>4 DEF Run, AnsweredError, Answered
        <3>3. ASSUME NEW parts \in DatabaseErrors,
                     AnsweredError(MapSdkError([exception |-> "DatabaseErrorException",
                                                parts |-> parts]))
              PROVE  ErrorsInv'
            <4>1. step' = "answered" /\ answer'[1].error = ParseDbError(parts)
                BY <3>3 DEF AnsweredError, Answered, MapSdkError
            <4>2. Keeps(answer'[1].error, parts)
                BY <4>1, AllDatabaseErrorsAreErrors, ErrorsAreKept DEF ErrorsInv
            <4>3. parts \in DatabaseErrors'
                BY <3>1 DEF DatabaseErrors
            <4> QED BY <4>1, <4>2, <4>3, <3>1 DEF ErrorsInv, ErrorsKeepTheirFields
        <3>4. CASE statement.error = <<>>
                   /\ (step' = "answered" \/ (step' = "fallback" /\ answer' = answer))
            BY <3>1, <3>4 DEF ErrorsInv, ErrorsKeepTheirFields
        <3>5. CASE \E parts \in DatabaseErrors :
                    AnsweredError(MapSdkError([exception |-> "DatabaseErrorException",
                                               parts |-> parts]))
            BY <3>5, <3>3, Zenon
        <3> QED BY <3>2, <3>4, <3>5, Zenon
    <2>5. CASE FallbackFails \/ Fallback
        <3>1. step = "fallback" /\ step' = "answered" /\ UNCHANGED statement
            <4>1. GiveUp => step' = "answered"
                BY DEF GiveUp, AnsweredError, Answered
            <4> QED BY <4>1, <2>5 DEF Fallback, FallbackFails, Answered
        <3> QED BY <3>1 DEF ErrorsInv, ErrorsKeepTheirFields
    <2> QED BY <2>1, <2>2, <2>3, <2>4, <2>5 DEF Next
<1>3. ErrorsInv => ErrorsKeepTheirFields
    BY DEF ErrorsInv
<1> QED BY <1>1, <1>2, <1>3, PTL DEF Spec

-----------------------------------------------------------------------------
(* How often a statement is run                                            *)

\* How often a statement has been run, by how far it has come.
RunsFit ==
    /\ step \in {"parsed", "bound", "fallback", "answered"}
    /\ step \in {"parsed", "bound"} => runs = 0
    /\ step = "fallback" => runs = 1
    /\ step = "answered" => runs \in 0..MostRuns

\* Describing a statement and binding it run nothing.
LEMMA PreparationsFit ==
    ASSUME RunsFit,
           \/ DescribeStatement
           \/ \E wanted, isBinary, probed : Bind(wanted, isBinary, probed)
    PROVE  RunsFit'
<1>1. CASE DescribeStatement
    BY <1>1 DEF DescribeStatement, RunsFit, MostRuns, IsRead
<1>2. ASSUME NEW wanted, NEW isBinary, NEW probed, Bind(wanted, isBinary, probed)
      PROVE  RunsFit'
    <2>1. step = "parsed" /\ UNCHANGED <<statement, runs>>
        BY <1>2 DEF Bind
    <2>2. step' = "bound" \/ step' = "answered"
        <3> DEFINE sent == Prepared(statement.param[1].option, isBinary, probed)
        <3>1. \/ step' = "bound"
              \/ AnsweredError(ErrorInfo("22P02", <<>>))
            BY <1>2 DEF Bind
        <3> QED BY <3>1 DEF AnsweredError, Answered
    <2> QED BY <2>1, <2>2 DEF RunsFit, MostRuns, IsRead
<1> QED BY <1>1, <1>2

\* The first call runs the statement, whatever comes of it.
LEMMA RunFits ==
    ASSUME RunsFit, Run
    PROVE  RunsFit'
<1>1. step = "bound" /\ runs' = runs + 1 /\ UNCHANGED statement
    BY DEF Run
<1>2. step' = "fallback" \/ step' = "answered"
    <2>1. \/ \E what : Answered(what)
          \/ \E error : AnsweredError(error)
          \/ step' = "fallback"
        BY DEF Run
    <2> QED BY <2>1 DEF AnsweredError, Answered
<1> QED BY <1>1, <1>2 DEF RunsFit, MostRuns, IsRead

\* Only a read that can be cast is run again, and the answer follows.
LEMMA FallbacksFit ==
    ASSUME RunsFit, Fallback \/ FallbackFails
    PROVE  RunsFit'
<1>1. step = "fallback" /\ step' = "answered" /\ UNCHANGED statement
    <2>1. GiveUp => step' = "answered"
        BY DEF GiveUp, AnsweredError, Answered
    <2> QED BY <2>1 DEF Fallback, FallbackFails, Answered
<1>2. runs' = runs \/ (IsRead /\ runs' = runs + 1)
    BY DEF Fallback, FallbackFails, CanCast
<1> QED BY <1>1, <1>2 DEF RunsFit, MostRuns, IsRead

\* A write is never run twice, whatever its columns hold and whatever the Data
\* API refuses to return, and a read never more than twice
\* (handlers.rs:209-229 and 326).
THEOREM NoWriteIsRunTwice == Spec => []RunsAreFew
<1>1. Init => RunsFit
    BY DEF Init, RunsFit
<1>2. RunsFit /\ [Next]_vars => RunsFit'
    <2> SUFFICES ASSUME RunsFit, [Next]_vars PROVE RunsFit'
        OBVIOUS
    <2>1. UNCHANGED vars => RunsFit'
        BY DEF vars, RunsFit, MostRuns, IsRead
    <2> QED BY <2>1, PreparationsFit, RunFits, FallbacksFit DEF Next
<1>3. RunsFit => RunsAreFew
    BY DEF RunsFit, RunsAreFew, MostRuns
<1> QED BY <1>1, <1>2, <1>3, PTL DEF Spec

-----------------------------------------------------------------------------
(* What Describe promises                                                  *)

\* What the metadata and a prepared statement make of a type, by its kind.
LEMMA TypesAreKept ==
    ASSUME NEW type, IsType(type), type.array => type.name \notin DOMAIN Serials
    PROVE  /\ Pg!MetadataType(type).array = type.array
           /\ type.name \notin Domains => Pg!MetadataType(type) = type
           /\ type.name \in Domains => Pg!MetadataType(type).name = "int4"
           /\ type.name \in Domains => Pg!PreparedType(type) = type
           /\ type.name \notin Domains \cup DOMAIN Serials => Pg!PreparedType(type) = type
           /\ type.name \in DOMAIN Serials => Pg!PreparedType(type) = Scalar(Serials[type.name])
<1>1. DOMAIN Serials = {"smallserial", "serial", "bigserial"}
    BY DEF Serials
<1>2. Domains \cap DOMAIN Serials = {}
    BY DeliveryAssumption
<1>3. type = [array |-> type.array, name |-> type.name]
    BY DEF IsType
<1>4. \A name : [type EXCEPT !.name = name] = [array |-> type.array, name |-> name]
    BY DEF IsType
<1>5. CASE type.name \in Domains
    <2>1. Pg!BaseType(type) = [array |-> type.array, name |-> "int4"]
        BY <1>1, <1>2, <1>4, <1>5 DEF Pg!BaseType
    <2> QED BY <2>1, <1>2, <1>5 DEF Pg!MetadataType, Pg!PreparedType
<1>6. CASE type.name \in DOMAIN Serials
    <2>1. Pg!BaseType(type) = [array |-> type.array, name |-> Serials[type.name]]
        BY <1>1, <1>2, <1>4, <1>6 DEF Pg!BaseType, Serials
    <2>2. type.array = FALSE
        BY <1>6 DEF IsType
    <2> QED BY <2>1, <2>2, <1>2, <1>6 DEF Pg!MetadataType, Pg!PreparedType, Scalar
<1>7. CASE type.name \notin Domains \cup DOMAIN Serials
    <2>1. Pg!BaseType(type) = type
        BY <1>1, <1>3, <1>4, <1>7 DEF Pg!BaseType
    <2> QED BY <2>1, <1>7 DEF Pg!MetadataType, Pg!PreparedType
<1> QED BY <1>5, <1>6, <1>7

\* A column cast to text is given out as text, or as an array of texts.
LEMMA CastsAreTexts ==
    ASSUME NEW column, IsColumn(column)
    PROVE  FieldOf(AsText(column)).type = TextCast(column.type)
<1>1. AsText(column).type = TextCast(column.type)
    BY DEF AsText, IsColumn
<1>2. IsType(TextCast(column.type)) /\ TextCast(column.type).name = "text"
    BY DEF IsColumn, TextCast, IsType
<1>3. "text" \notin Domains /\ "text" \notin DOMAIN Serials /\ "text" \in Advertised
    BY DeliveryAssumption DEF Advertised, Serials
<1>4. Pg!MetadataType(TextCast(column.type)) = TextCast(column.type)
    BY <1>2, <1>3, TypesAreKept
<1>5. MapType(TextCast(column.type)) = TextCast(column.type)
    BY <1>3 DEF MapType, ArrayOf, TextCast, ArrayType, IsColumn
<1> QED BY <1>1, <1>4, <1>5 DEF FieldOf

\* A column that is cast would have been given out as text anyway, unless it
\* holds dates or timestamps.
LEMMA OnlyTemporalsChange ==
    ASSUME NEW column, IsColumn(column), NEW scope,
           NeedsTextCast(Pg!MetadataType(column.type), scope)
    PROVE  \/ FieldOf(column).type = TextCast(column.type)
           \/ IsTemporal(column.type.name)
<1>1. IsType(column.type) /\ (column.type.array => column.type.name \notin DOMAIN Serials)
    BY DEF IsColumn
<1>2. TextCast(Pg!MetadataType(column.type)) = TextCast(column.type)
    BY <1>1, TypesAreKept DEF TextCast
<1>3. ~IsTemporal("int4")
    BY DEF IsTemporal
<1>4. IsTemporal(Pg!MetadataType(column.type).name) => IsTemporal(column.type.name)
    BY <1>1, <1>3, TypesAreKept
<1> QED BY <1>2, <1>4 DEF NeedsTextCast, FieldOf

\* A prepared statement and a result agree on a type that the proxy knows.
LEMMA PreparedTypesAgree ==
    ASSUME NEW column, IsColumn(column)
    PROVE  \/ TypeFromOid(Pg!PreparedType(column.type), UserTypes) = FieldOf(column).type
           \/ column.type.name \in UserTypes /\ (column.type.array \/ column.type.name \in Domains)
<1> DEFINE type == column.type
<1>1. IsType(type) /\ (type.array => type.name \notin DOMAIN Serials)
    BY DEF IsColumn
<1>2. FieldOf(column).type = MapType(Pg!MetadataType(type))
    BY DEF FieldOf
<1>3. UserTypes \cap (Advertised \cup DOMAIN Serials) = {} /\ Domains \subseteq UserTypes
    BY DeliveryAssumption
<1> HIDE DEF type
<1>4. CASE type.name \in DOMAIN Serials
    <2>1. DOMAIN Serials = {"smallserial", "serial", "bigserial"}
          /\ Serials[type.name] \in Advertised /\ Serials[type.name] \notin DOMAIN Serials
        BY <1>4 DEF Serials, Advertised
    <2>2. Pg!PreparedType(type) = Scalar(Serials[type.name]) /\ Pg!MetadataType(type) = type
        BY <1>1, <1>3, <1>4, TypesAreKept
    <2>3. MapType(type) = Scalar(Serials[type.name])
        BY <1>1, <1>4 DEF MapType
    <2>4. MapType(Scalar(Serials[type.name])) = Scalar(Serials[type.name])
        BY <2>1 DEF MapType, Scalar
    <2> QED BY <1>2, <1>3, <2>1, <2>2, <2>3, <2>4 DEF TypeFromOid, Scalar, type
<1>5. CASE type.name \in UserTypes /\ ~type.array /\ type.name \notin Domains
    <2>1. Pg!PreparedType(type) = type /\ Pg!MetadataType(type) = type
        BY <1>1, <1>3, <1>5, TypesAreKept
    <2>2. MapType(type) = TEXT
        BY <1>3, <1>5 DEF MapType
    <2> QED BY <1>2, <1>5, <2>1, <2>2 DEF TypeFromOid, type
<1>6. CASE type.name \notin UserTypes \cup DOMAIN Serials
    <2>1. Pg!PreparedType(type) = type /\ Pg!MetadataType(type) = type
        BY <1>1, <1>3, <1>6, TypesAreKept
    <2> QED BY <1>2, <1>6, <2>1 DEF TypeFromOid, type
<1> QED BY <1>4, <1>5, <1>6 DEF type

\* What was promised, and what the rows are made of.
Promise == IF IsRead THEN BuildFields(statement.columns) ELSE ReturningFields

RowsOf(columns) == Has("rows") /\ answer[1].fields = BuildFields(columns)

PromiseInv ==
    /\ IsWellFormed(statement)
    /\ told \in {<<>>, <<Promise>>}
    /\ Has("rows") =>
        \/ RowsOf(statement.columns)
        \/ IsRead /\ \E scope : RowsOf(CastColumns(statement.columns, scope))

LEMMA ErrorsAreNoRows ==
    ASSUME NEW error, AnsweredError(error)
    PROVE  ~Has("rows")'
BY DEF AnsweredError, Answered, Has

LEMMA RowsAreOfColumns ==
    ASSUME NEW columns, Answered(Rows(columns))
    PROVE  Has("rows")' => answer'[1].fields = BuildFields(columns)
<1>1. answer'[1] = Rows(columns)
    BY DEF Answered
<1>2. Rows(columns).kind = "rows" => Rows(columns).fields = BuildFields(columns)
    BY DEF Rows
<1> QED BY <1>1, <1>2 DEF Has

\* Rows with the columns' own fields agree with the promise, but for what
\* PostgreSQL says of the user's types.
LEMMA OwnRowsAreAsPromised ==
    ASSUME IsWellFormed(statement), told = <<Promise>>, RowsOf(statement.columns),
           NEW i \in DOMAIN statement.columns
    PROVE  LET type == statement.columns[i].type IN
           \/ told[1][i].type = answer[1].fields[i].type /\ told[1][i].size = answer[1].fields[i].size
           \/ ~IsRead /\ type.name \in UserTypes /\ (type.array \/ type.name \in Domains)
<1> DEFINE column == statement.columns[i]
<1>1. IsColumn(column)
    BY DEF IsWellFormed
<1>2. answer[1].fields[i] = FieldOf(column)
    BY DEF RowsOf, BuildFields
<1>3. FieldOf(column).size = TypeSize(FieldOf(column).type)
    BY DEF FieldOf
<1>4. CASE IsRead
    BY <1>2, <1>4 DEF Promise, BuildFields
<1>5. CASE ~IsRead
    <2>1. /\ told[1][i].type = TypeFromOid(Pg!PreparedType(column.type), UserTypes)
          /\ told[1][i].size = TypeSize(told[1][i].type)
        BY <1>5 DEF Promise, ReturningFields
    <2> HIDE DEF column
    <2> QED BY <2>1, <1>1, <1>2, <1>3, <1>5, PreparedTypesAgree DEF column
<1> QED BY <1>4, <1>5

\* Rows of columns that were cast agree with the promise, but for dates and
\* timestamps.
LEMMA CastRowsAreAsPromised ==
    ASSUME IsWellFormed(statement), told = <<Promise>>, IsRead,
           NEW scope, RowsOf(CastColumns(statement.columns, scope)),
           NEW i \in DOMAIN statement.columns
    PROVE  LET type == statement.columns[i].type IN
           \/ told[1][i].type = answer[1].fields[i].type /\ told[1][i].size = answer[1].fields[i].size
           \/ IsTemporal(type.name) /\ answer[1].fields[i].type = TextCast(type)
<1> DEFINE column == statement.columns[i]
           given == IF NeedsTextCast(Pg!MetadataType(column.type), scope)
                    THEN AsText(column) ELSE column
<1>1. IsColumn(column)
    BY DEF IsWellFormed
<1>2. answer[1].fields[i] = FieldOf(given)
    BY DEF RowsOf, BuildFields, CastColumns
<1>3. told[1][i] = FieldOf(column)
    BY DEF Promise, BuildFields
<1>4. \A c : FieldOf(c).size = TypeSize(FieldOf(c).type)
    BY DEF FieldOf
<1>5. CASE NeedsTextCast(Pg!MetadataType(column.type), scope)
    <2>1. FieldOf(given).type = TextCast(column.type)
        BY <1>1, <1>5, CastsAreTexts
    <2>2. FieldOf(column).type = TextCast(column.type) \/ IsTemporal(column.type.name)
        BY <1>1, <1>5, OnlyTemporalsChange
    <2> HIDE DEF given, column
    <2> QED BY <2>1, <2>2, <1>2, <1>3, <1>4 DEF column
<1>6. CASE ~NeedsTextCast(Pg!MetadataType(column.type), scope)
    BY <1>2, <1>3, <1>6
<1> QED BY <1>5, <1>6

\* A client that reads a row as Describe promised reads it right, but for the
\* dates and timestamps of a retry with casts, and RETURNING of a domain or an
\* array of a user type (handlers.rs:317-379, exec.rs:17-36, probe.rs:331-364).
THEOREM PromisesAreKept == Spec => []MisreadOnlyAfterTemporalCast
<1>1. Init => PromiseInv
    BY DEF Init, PromiseInv, Has
<1>2. PromiseInv /\ [Next]_vars => PromiseInv'
    <2> SUFFICES ASSUME PromiseInv, [Next]_vars PROVE PromiseInv'
        OBVIOUS
    <2>1. CASE UNCHANGED vars
        BY <2>1 DEF vars, PromiseInv, Promise, RowsOf, Has, IsRead, ReturningFields
    <2>2. CASE DescribeStatement
        <3>1. /\ UNCHANGED <<statement, answer>> /\ told' = <<Promise>>
              /\ Promise' = Promise
            BY <2>2 DEF DescribeStatement, Promise, IsRead, ReturningFields
        <3> QED BY <3>1 DEF PromiseInv, RowsOf, Has, IsRead
    <2>3. UNCHANGED <<statement, told>> =>
            (IsWellFormed(statement) /\ told \in {<<>>, <<Promise>>})' /\ IsRead' = IsRead
        BY DEF PromiseInv, Promise, IsRead, ReturningFields
    <2>4. ASSUME NEW wanted, NEW isBinary, NEW probed, Bind(wanted, isBinary, probed)
          PROVE  PromiseInv'
        <3>1. UNCHANGED <<statement, told>>
            BY <2>4 DEF Bind
        <3>2. UNCHANGED answer \/ AnsweredError(ErrorInfo("22P02", <<>>))
            BY <2>4 DEF Bind
        <3> QED BY <3>1, <3>2, <2>3, ErrorsAreNoRows DEF PromiseInv, RowsOf, Has
    <2>5. CASE Run
        <3>1. UNCHANGED <<statement, told>>
            BY <2>5 DEF Run
        <3>2. \/ UNCHANGED answer
              \/ \E error : AnsweredError(error)
              \/ Answered(Rows(statement.columns))
            BY <2>5 DEF Run
        <3> QED BY <3>1, <3>2, <2>3, ErrorsAreNoRows, RowsAreOfColumns
                DEF PromiseInv, RowsOf, Has
    <2>6. CASE FallbackFails \/ Fallback
        <3>1. UNCHANGED <<statement, told>>
            BY <2>6 DEF FallbackFails, Fallback
        <3>2. \/ \E error : AnsweredError(error)
              \/ /\ Answered(Rows(CastColumns(statement.columns, Scope(original[1]))))
                 /\ IsRead
            BY <2>6 DEF FallbackFails, Fallback, GiveUp, CanCast
        <3> QED BY <3>1, <3>2, <2>3, ErrorsAreNoRows, RowsAreOfColumns
                DEF PromiseInv, RowsOf, Has
    <2> QED BY <2>1, <2>2, <2>4, <2>5, <2>6 DEF Next
<1>3. PromiseInv => MisreadOnlyAfterTemporalCast
    <2> SUFFICES ASSUME PromiseInv, told # <<>>, Has("rows"), NEW i \in DOMAIN statement.columns
                 PROVE  LET type == statement.columns[i].type
                            field == answer[1].fields[i]
                        IN \/ told[1][i].type = field.type /\ told[1][i].size = field.size
                           \/ IsTemporal(type.name) /\ field.type = TextCast(type)
                           \/ ~IsRead /\ type.name \in UserTypes
                              /\ (type.array \/ type.name \in Domains)
        BY DEF MisreadOnlyAfterTemporalCast
    <2>1. IsWellFormed(statement) /\ told = <<Promise>>
        BY DEF PromiseInv
    <2>2. CASE RowsOf(statement.columns)
        BY <2>1, <2>2, OwnRowsAreAsPromised
    <2>3. ASSUME NEW scope, IsRead, RowsOf(CastColumns(statement.columns, scope))
          PROVE  \/ told[1][i].type = answer[1].fields[i].type
                    /\ told[1][i].size = answer[1].fields[i].size
                 \/ IsTemporal(statement.columns[i].type.name)
                    /\ answer[1].fields[i].type = TextCast(statement.columns[i].type)
        BY <2>1, <2>3, CastRowsAreAsPromised
    <2> QED BY <2>2, <2>3 DEF PromiseInv
<1> QED BY <1>1, <1>2, <1>3, PTL DEF Spec

-----------------------------------------------------------------------------
(* Times of day                                                            *)

\* A time of day is within its day, and only the end of it is called that.
LEMMA DayEnds ==
    ASSUME NEW micros \in 0..PerDay, Pg!SecondName(micros \div PerSecond) = EndOfDay
    PROVE  micros = PerDay
<1>1. PerSecond \in Nat \ {0} /\ SecondsPerDay \in Nat \ {0} /\ PerDay = SecondsPerDay * PerSecond
    BY ClockTextAssumption, PowerAssumption DEF PerDay
<1> DEFINE s == micros \div PerSecond
<1>2. s \in 0..SecondsPerDay /\ (s = SecondsPerDay => micros = PerDay)
    BY <1>1
<1>3. SecondName(s) = Pg!SecondName(s)
    BY Zenon DEF SecondName, Pg!SecondName, EndOfDay, Pg!EndOfDay
<1>4. s = SecondsPerDay
    <2> HIDE DEF s
    <2>1. SecondName(s) = EndOfDay
        BY <1>3 DEF s
    <2>2. s \notin 0..(SecondsPerDay - 1)
        BY <2>1, SecondNamesAssumption
    <2> QED BY <1>1, <1>2, <2>2
<1> QED BY <1>2, <1>4

\* What the text of a time is made of.
Dot == "."
TimeLetters ==
    {Pg!SecondName(s) : s \in Int} \cup {Dot}
    \cup {ToString((f \div 10 ^ (SubsecondDigits - i)) % 10) : f \in Nat, i \in Nat}

LEMMA FractionsAreTexts ==
    ASSUME NEW f \in Nat
    PROVE  Pg!Fraction(f) \in Seq(TimeLetters)
<1> DEFINE S == {n \in 0..SubsecondDigits : f % (10 ^ (SubsecondDigits - n)) = 0}
           digit(i) == ToString((f \div 10 ^ (SubsecondDigits - i)) % 10)
<1>1. SubsecondDigits \in S
    <2>1. SubsecondDigits \in 0..SubsecondDigits /\ SubsecondDigits - SubsecondDigits = 0
        BY ClockTextAssumption
    <2>2. 10 ^ (SubsecondDigits - SubsecondDigits) = 1
        <3>1. 10 ^ 0 = 1
            OBVIOUS
        <3> QED BY <2>1, <3>1, Zenon
    <2>3. f % 1 = 0
        OBVIOUS
    <2> QED BY <2>1, <2>2, <2>3, Zenon
<1>2. S \subseteq Nat
    BY ClockTextAssumption
<1>3. Min(S) \in Nat
    <2> HIDE DEF S
    <2> QED BY <1>1, <1>2, MinIsLeast
<1>4. \A i \in 1..Min(S) : digit(i) \in TimeLetters
    BY <1>3 DEF TimeLetters
<1>5. Pg!Fraction(f) = [i \in 1..Min(S) |-> digit(i)]
    BY Zenon DEF Pg!Fraction, Pg!Min, Min
<1> HIDE DEF S, digit
<1> QED BY <1>3, <1>4, <1>5

LEMMA TimesAreTexts ==
    ASSUME NEW micros \in 0..PerDay
    PROVE  /\ Pg!TimeText(micros) \in Seq(TimeLetters)
           /\ Pg!TimeText(micros)[1] = Pg!SecondName(micros \div PerSecond)
<1>1. PerSecond \in Nat \ {0} /\ PerDay \in Nat /\ Pg!PerSecond = PerSecond
    BY ClockTextAssumption, PowerAssumption DEF PerDay, Pg!PerSecond, PerSecond
<1> DEFINE first == Pg!SecondName(micros \div PerSecond)
           fraction == Pg!Fraction(micros % PerSecond)
           rest == IF fraction = <<>> THEN <<>> ELSE <<Dot>> \o fraction
<1>2. first \in TimeLetters /\ Dot \in TimeLetters
    <2>1. micros \div PerSecond \in Int
        BY <1>1
    <2> QED BY <2>1 DEF TimeLetters
<1>3. fraction \in Seq(TimeLetters)
    <2>1. micros % PerSecond \in Nat
        BY <1>1
    <2> QED BY <2>1, FractionsAreTexts
<1>4. Pg!TimeText(micros) = <<first>> \o rest
    BY <1>1, Zenon DEF Pg!TimeText, Dot
<1> HIDE DEF first, fraction
<1>5. rest \in Seq(TimeLetters)
    BY <1>2, <1>3
<1> HIDE DEF rest
<1>6. <<first>> \o rest \in Seq(TimeLetters) /\ (<<first>> \o rest)[1] = first
    BY <1>2, <1>5
<1> QED BY <1>4, <1>6 DEF first

-----------------------------------------------------------------------------
(* Values that have no bytes                                               *)

\* Only a time can be one that has no bytes.
LEMMA ScalarsHaveBytes ==
    ASSUME NEW text, NEW type, ScalarToBinary(text, type) = <<>>
    PROVE  type.name = "time" /\ ~IsTime(text)
BY DEF ScalarToBinary


LEMMA TextsHaveBytes ==
    ASSUME NEW text, NEW type, ~IsArray(type), TextToBinary(text, type) = <<>>
    PROVE  type.name = "time" /\ ~IsTime(text)
BY ScalarsHaveBytes DEF TextToBinary

LEMMA ArraysHaveBytes ==
    ASSUME NEW text, NEW type, IsArray(type), TextToBinary(text, type) = <<>>,
           NEW elements, ParseArrayLiteral(text) = elements
    PROVE  /\ type.name = "time"
           /\ \E i \in DOMAIN elements : elements[i] # <<>> /\ ~IsTime(elements[i][1])
<1> DEFINE elem == ElementOf(type)
           items == [i \in DOMAIN elements |->
                        IF elements[i] = <<>> THEN <<>> ELSE ScalarToBinary(elements[i][1], elem)]
<1>2. ArrayToBinary(elements, elem) = <<>>
    BY DEF TextToBinary
<1>3. \E i \in DOMAIN elements : items[i] = <<>> /\ elements[i] # <<>>
    <2> DEFINE bytes == Bytes("array", -1, [of |-> elem.name, items |-> items])
    <2>1. ArrayToBinary(elements, elem)
            = IF \E i \in DOMAIN elements : items[i] = <<>> /\ elements[i] # <<>> THEN <<>> ELSE <<bytes>>
        BY DEF ArrayToBinary
    <2> HIDE DEF bytes, items, elem
    <2> QED BY <1>2, <2>1
<1>4. PICK i \in DOMAIN elements : items[i] = <<>> /\ elements[i] # <<>>
    BY <1>3
<1>5. ScalarToBinary(elements[i][1], elem) = <<>>
    BY <1>4
<1>6. elem.name = "time" /\ ~IsTime(elements[i][1])
    <2> HIDE DEF elem
    <2> QED BY <1>5, ScalarsHaveBytes
<1>7. elem.name = type.name
    BY DEF ElementOf, Scalar
<1> QED BY <1>4, <1>6, <1>7

\* A type that is given out as a time is one.
LEMMA TimesAreTimes ==
    ASSUME NEW column, IsColumn(column), FieldOf(column).type.name = "time"
    PROVE  /\ column.type.name = "time" /\ Pg!MetadataType(column.type) = column.type
           /\ FieldOf(column).type = column.type
           /\ FieldOf(column).type.array = column.type.array
<1> DEFINE type == column.type
           given == Pg!MetadataType(type)
<1>1. IsType(type) /\ (type.array => type.name \notin DOMAIN Serials)
    BY DEF IsColumn
<1>2. FieldOf(column).type = MapType(given)
    BY DEF FieldOf
<1>3. "time" \in Advertised /\ \A name \in DOMAIN Serials : Serials[name] # "time"
    BY DEF Advertised, Serials
<1>4. given.name = "time"
    <2> HIDE DEF given
    <2> QED BY <1>2, <1>3 DEF MapType, ArrayOf, ArrayType, Scalar, TEXT
<1>5. type.name \notin Domains
    BY <1>1, <1>4, TypesAreKept
<1>6. given = type
    BY <1>1, <1>5, TypesAreKept
<1>7. MapType(type) = type
    <2>1. "time" \notin DOMAIN Serials
        BY DEF Serials
    <2>2. type = [array |-> type.array, name |-> "time"]
        BY <1>1, <1>4, <1>6 DEF IsType
    <2> HIDE DEF type
    <2> QED BY <1>1, <1>3, <2>1, <2>2 DEF MapType, ArrayOf, ArrayType, IsType
<1> QED BY <1>2, <1>4, <1>6, <1>7

LEMMA TimesAreStrings ==
    /\ Pg!Variant("time") = "string"
    /\ \A v : Pg!Plain("time", v) = Pg!TimeText(v)
<1>1. "time" \notin Domains
    BY DeliveryAssumption DEF Advertised
<1>2. Pg!Layout("time") = "time"
    BY <1>1 DEF Pg!Layout
<1>3. Pg!Variant("time") = "string"
    BY <1>2 DEF Pg!Variant
<1>4. \A v : Pg!ScalarText("time", v) = Pg!TimeText(v)
    BY <1>2 DEF Pg!ScalarText
<1>5. \A v : Pg!Plain("time", v) = Pg!TimeText(v)
    BY <1>3, <1>4 DEF Pg!Plain
<1> QED BY <1>3, <1>5

LEMMA OneIsFirst ==
    ASSUME NEW S, NEW v \in Seq(S), v # <<>>, Len(v) <= 1
    PROVE  v = <<v[1]>> /\ v[1] \in S
<1>1. Len(v) = 1
    <2>1. Len(v) \in Nat
        OBVIOUS
    <2>2. Len(v) = 0 => v = <<>>
        OBVIOUS
    <2> QED BY <2>1, <2>2
<1> QED BY <1>1

\* What a client is told that a time is.
LEMMA TimesAreCells ==
    ASSUME NEW column, IsColumn(column), FieldOf(column).type.name = "time", column.option # <<>>,
           ~column.type.array
    PROVE  /\ Cell(FieldOf(column), column) = <<Pg!TimeText(column.option[1])>>
           /\ column.option[1] \in 0..PerDay
<1> DEFINE type == column.type
           value == column.option[1]
           field == [kind |-> "string", value |-> Pg!TimeText(value)]
<1>1. type.name = "time" /\ Pg!MetadataType(type) = type /\ FieldOf(column).type = type
    BY TimesAreTimes
<1>2. column.option = <<value>> /\ value \in 0..PerDay
    <2>1. column.option = <<value>>
        BY DEF IsColumn
    <2>2. 1 \in DOMAIN column.option
        BY <2>1
    <2> QED BY <1>1, <2>1, <2>2 DEF IsColumn
<1>3. Pg!Field(type, column.option) = field
    BY <1>1, TimesAreStrings DEF Pg!Field
<1>4. FieldToText(field, type) = <<Pg!TimeText(value)>>
    <2>1. type # Scalar("timestamptz")
        BY <1>1 DEF Scalar
    <2> HIDE DEF type, value
    <2>2. Render("string", Pg!TimeText(value), type) = Pg!TimeText(value)
        BY <2>1 DEF Render, RenderString
    <2> QED BY <2>2 DEF FieldToText
<1> QED BY <1>1, <1>2, <1>3, <1>4 DEF Cell

LEMMA TimeArraysAreCells ==
    ASSUME NEW column, IsColumn(column), FieldOf(column).type.name = "time", column.option # <<>>,
           column.type.array
    PROVE  LET values == column.option[1]
               elements == [i \in DOMAIN values |->
                              IF values[i] = <<>> THEN <<>> ELSE <<Pg!TimeText(values[i][1])>>]
           IN /\ Cell(FieldOf(column), column) = <<ArrayLiteral(elements)>>
              /\ elements \in Seq(OptionsOf(Seq(TimeLetters)))
              /\ \A i \in DOMAIN values : values[i] # <<>> =>
                    values[i] = <<values[i][1]>> /\ values[i][1] \in 0..PerDay
<1> DEFINE type == column.type
           values == column.option[1]
           elements == [i \in DOMAIN values |->
                          IF values[i] = <<>> THEN <<>> ELSE <<Pg!TimeText(values[i][1])>>]
           field == [kind |-> "array", variant |-> "string", values |-> elements]
<1>1. type.name = "time" /\ Pg!MetadataType(type) = type /\ FieldOf(column).type = type
    BY TimesAreTimes
<1>2. /\ column.option = <<values>>
      /\ values \in Seq(Seq(0..PerDay)) /\ \A i \in DOMAIN values : Len(values[i]) <= 1
    <2>1. column.option = <<values>>
        BY DEF IsColumn
    <2>2. 1 \in DOMAIN column.option
        BY <2>1
    <2> QED BY <1>1, <2>1, <2>2 DEF IsColumn
<1>3. ASSUME NEW i \in DOMAIN values, values[i] # <<>>
      PROVE  values[i] = <<values[i][1]>> /\ values[i][1] \in 0..PerDay
    <2>1. values[i] \in Seq(0..PerDay) /\ Len(values[i]) <= 1
        BY <1>2
    <2>2. values[i] \in Seq(0..PerDay) /\ Len(values[i]) <= 1 /\ values[i] # <<>>
        BY <2>1, <1>3
    <2> HIDE DEF values
    <2> QED BY <2>2, OneIsFirst
<1>4. elements \in Seq(OptionsOf(Seq(TimeLetters)))
    <2> DEFINE n == Len(values)
               X == OptionsOf(Seq(TimeLetters))
    <2>1. n \in Nat /\ DOMAIN values = 1..n
        BY <1>2
    <2>2. \A i \in 1..n : elements[i] \in X
        <3> SUFFICES ASSUME NEW i \in 1..n PROVE elements[i] \in X
            OBVIOUS
        <3>1. CASE values[i] = <<>>
            BY <3>1, <2>1 DEF OptionsOf
        <3>2. CASE values[i] # <<>>
            <4>1. Pg!TimeText(values[i][1]) \in Seq(TimeLetters)
                BY <3>2, <2>1, <1>3, TimesAreTexts
            <4>2. elements[i] = <<Pg!TimeText(values[i][1])>>
                BY <3>2, <2>1
            <4> HIDE DEF values, elements
            <4> QED BY <4>1, <4>2 DEF OptionsOf
        <3> QED BY <3>1, <3>2
    <2>3. elements = [i \in 1..n |-> elements[i]]
        BY <2>1
    <2> HIDE DEF n, elements, X
    <2>4. elements \in Seq(X)
        BY <2>1, <2>2, <2>3
    <2> QED BY <2>4 DEF X
<1>5. Pg!Field(type, column.option) = field
    <2>1. [i \in DOMAIN column.option[1] |->
              IF column.option[1][i] = <<>> THEN <<>> ELSE <<Pg!Plain(type.name, column.option[1][i][1])>>]
            = elements
        BY <1>1, TimesAreStrings
    <2>2. Pg!Variant(type.name) = "string" /\ type.array
        BY <1>1, TimesAreStrings
    <2> HIDE DEF elements
    <2> QED BY <2>1, <2>2 DEF Pg!Field
<1>6. FieldToText(field, type) = <<ArrayLiteral(elements)>>
    <2> DEFINE elem == IF IsArray(type) THEN ElementOf(type) ELSE TEXT
               read == [i \in DOMAIN elements |->
                          [k \in DOMAIN elements[i] |-> Render("string", elements[i][k], elem)]]
    <2>1. elem # Scalar("timestamptz")
        BY <1>1 DEF Scalar, ElementOf, TEXT
    <2>2. \A text : Render("string", text, elem) = text
        <3> HIDE DEF elem
        <3> QED BY <2>1 DEF Render, RenderString
    <2>3. read = elements
        <3>1. \A i \in DOMAIN elements : read[i] = elements[i]
            <4> SUFFICES ASSUME NEW i \in DOMAIN elements PROVE read[i] = elements[i]
                OBVIOUS
            <4>1. read[i] = [k \in DOMAIN elements[i] |-> elements[i][k]]
                <5> HIDE DEF elements, elem
                <5> QED BY <2>2
            <4>2. elements[i] = <<>> \/ elements[i] = <<Pg!TimeText(values[i][1])>>
                OBVIOUS
            <4> HIDE DEF elements, read
            <4> QED BY <4>1, <4>2
        <3>2. elements = [i \in DOMAIN elements |-> elements[i]]
            OBVIOUS
        <3>3. read = [i \in DOMAIN elements |-> read[i]]
            OBVIOUS
        <3> HIDE DEF elements, read
        <3> QED BY <3>1, <3>2, <3>3
    <2>4. FieldToText(field, type) = <<ArrayLiteral(read)>>
        BY DEF FieldToText
    <2> HIDE DEF elements, read
    <2> QED BY <2>3, <2>4
<1>7. Cell(FieldOf(column), column) = <<ArrayLiteral(elements)>>
    <2> HIDE DEF elements, field
    <2> QED BY <1>1, <1>5, <1>6 DEF Cell
<1> HIDE DEF elements
<1> QED BY <1>3, <1>4, <1>7 DEF elements

\* Only the end of a day has no bytes.
LEMMA OnlyTheDaysEndHasNoBytes ==
    ASSUME NEW column, IsColumn(column), Cell(FieldOf(column), column) # <<>>,
           TextToBinary(Cell(FieldOf(column), column)[1], FieldOf(column).type) = <<>>
    PROVE  EndsTheDay(column)
<1> DEFINE type == FieldOf(column).type
           text == Cell(FieldOf(column), column)[1]
<1>0. column.option # <<>>
    <2>1. column.option = <<>> => Cell(FieldOf(column), column) = <<>>
        BY DEF Cell, Pg!Field, FieldToText
    <2> QED BY <2>1
<1>1. CASE ~IsArray(type)
    <2>1. type.name = "time" /\ ~IsTime(text)
        <3> HIDE DEF type, text
        <3>1. TextToBinary(text, type) = <<>>
            BY DEF text, type
        <3> QED BY <1>1, <3>1, TextsHaveBytes
    <2>2. column.type.name = "time" /\ type.array = column.type.array
        BY <2>1, TimesAreTimes
    <2>3. ~column.type.array
        <3>1. "time" \in Advertised
            BY DEF Advertised
        <3> QED BY <1>1, <2>1, <2>2, <3>1 DEF IsArray
    <2>4. text = Pg!TimeText(column.option[1]) /\ column.option[1] \in 0..PerDay
        BY <1>0, <2>1, <2>3, TimesAreCells
    <2>5. column.option[1] = PerDay
        <3>1. Pg!SecondName(column.option[1] \div PerSecond) = EndOfDay
            BY <2>1, <2>4, TimesAreTexts DEF IsTime
        <3> QED BY <2>4, <3>1, DayEnds
    <2>6. 1 \in DOMAIN column.option
        <3>1. column.option = <<column.option[1]>>
            BY <1>0 DEF IsColumn
        <3> QED BY <3>1
    <2> QED BY <2>2, <2>3, <2>5, <2>6 DEF EndsTheDay
<1>2. CASE IsArray(type)
    <2> DEFINE values == column.option[1]
               elements == [i \in DOMAIN values |->
                              IF values[i] = <<>> THEN <<>> ELSE <<Pg!TimeText(values[i][1])>>]
    <2>1. type.name = "time"
        <3> HIDE DEF type, text
        <3>1. TextToBinary(text, type) = <<>>
            BY DEF text, type
        <3> QED BY <1>2, <3>1, ArraysHaveBytes
    <2>2. column.type.name = "time" /\ column.type.array
        <3>1. type.array
            BY <1>2 DEF IsArray
        <3> QED BY <2>1, <3>1, TimesAreTimes
    <2>3. /\ text = ArrayLiteral(elements)
          /\ elements \in Seq(OptionsOf(Seq(TimeLetters)))
          /\ \A i \in DOMAIN values : values[i] # <<>> =>
                values[i] = <<values[i][1]>> /\ values[i][1] \in 0..PerDay
        <3>1. Cell(FieldOf(column), column) = <<ArrayLiteral(elements)>>
            BY <1>0, <2>1, <2>2, TimeArraysAreCells
        <3>2. elements \in Seq(OptionsOf(Seq(TimeLetters)))
            BY <1>0, <2>1, <2>2, TimeArraysAreCells
        <3>3. \A i \in DOMAIN values : values[i] # <<>> =>
                values[i] = <<values[i][1]>> /\ values[i][1] \in 0..PerDay
            BY <1>0, <2>1, <2>2, TimeArraysAreCells
        <3> HIDE DEF elements, values
        <3> QED BY <3>1, <3>2, <3>3
    <2>4. PICK i \in DOMAIN elements : elements[i] # <<>> /\ ~IsTime(elements[i][1])
        <3> HIDE DEF elements, type, values
        <3>1. ParseArrayLiteral(text) = elements
            BY <2>3, ArraysReturn
        <3>2. TextToBinary(text, type) = <<>>
            BY DEF type
        <3> HIDE DEF text
        <3> QED BY <1>2, <3>1, <3>2, ArraysHaveBytes
    <2>5. i \in DOMAIN values /\ values[i] # <<>> /\ elements[i][1] = Pg!TimeText(values[i][1])
        BY <2>4
    <2>6. values[i] = <<values[i][1]>> /\ values[i][1] \in 0..PerDay
        BY <2>3, <2>5
    <2>7. values[i][1] = PerDay
        <3> HIDE DEF values, elements
        <3>1. Pg!SecondName(values[i][1] \div PerSecond) = EndOfDay
            BY <2>4, <2>5, <2>6, TimesAreTexts DEF IsTime
        <3> QED BY <2>6, <3>1, DayEnds
    <2>8. 1 \in DOMAIN column.option /\ <<PerDay>> \in ToSet(column.option[1])
        <3>1. column.option = <<column.option[1]>>
            BY <1>0 DEF IsColumn
        <3>2. values[i] = <<PerDay>>
            BY <2>6, <2>7
        <3> QED BY <3>1, <3>2, <2>5 DEF ToSet
    <2> HIDE DEF values, elements
    <2> QED BY <2>2, <2>8 DEF EndsTheDay
<1> QED BY <1>1, <1>2

-----------------------------------------------------------------------------
(* What the Data API refuses, and what a cast does about it                *)

\* What the proxy makes of the two refusals that a cast may help against.
LEMMA RefusalsAreTold ==
    /\ LET error == MapSdkError([exception |-> "UnsupportedResultException"]) IN
       IsUnreturnableType(error) /\ Scope(error) = "Unreturnable"
    /\ LET error == MapSdkError([exception |-> "InternalFailure"]) IN
       IsInternalFailure(error) /\ Scope(error) = "AlsoTemporal"
<1>1. ASSUME NEW e \in {"UnsupportedResultException", "InternalFailure"}
      PROVE  /\ MapSdkError([exception |-> e]).code = SqlStates[e]
             /\ MapSdkError([exception |-> e]).message = <<[label |-> NoLabel, text |-> Says(e)]>>
    <2>1. e \in DOMAIN SqlStates /\ e # "DatabaseErrorException"
        BY DEF SqlStates
    <2> QED BY <2>1 DEF MapSdkError, ErrorInfo
<1>2. /\ SqlStates["UnsupportedResultException"] = "0A000"
      /\ SqlStates["InternalFailure"] = "XX000"
    BY DEF SqlStates
<1>3. /\ Says("UnsupportedResultException") = UnsupportedType
      /\ Says("InternalFailure") = "InternalFailure"
    BY DEF Says
<1>4. ASSUME NEW e \in {"UnsupportedResultException", "InternalFailure"}
      PROVE  MessageContains(MapSdkError([exception |-> e]), Says(e))
    BY <1>1 DEF MessageContains
<1> DEFINE unsupported == MapSdkError([exception |-> "UnsupportedResultException"])
           failure == MapSdkError([exception |-> "InternalFailure"])
<1>5. /\ unsupported.code = "0A000" /\ MessageContains(unsupported, UnsupportedType)
      /\ failure.code = "XX000" /\ MessageContains(failure, "InternalFailure")
    BY <1>1, <1>2, <1>3, <1>4
<1> HIDE DEF unsupported, failure
<1>6. /\ IsUnreturnableType(unsupported) /\ Scope(unsupported) = "Unreturnable"
      /\ IsInternalFailure(failure) /\ Scope(failure) = "AlsoTemporal"
    BY <1>5 DEF IsUnreturnableType, IsInternalFailure, Scope
<1> QED BY <1>6 DEF unsupported, failure

\* What the Data API refuses is what is cast.
LEMMA UnreturnableIsCast ==
    ASSUME NEW column, IsColumn(column), column.type.name \in Unreturnable, NEW scope
    PROVE  NeedsTextCast(Pg!MetadataType(column.type), scope)
<1> DEFINE type == column.type
<1>1. IsType(type) /\ (type.array => type.name \notin DOMAIN Serials)
    BY DEF IsColumn
<1>2. type.name \notin Advertised \cup DOMAIN Serials \cup Domains /\ "text" \in Advertised
    BY DeliveryAssumption DEF Advertised
<1>3. Pg!MetadataType(type) = type
    BY <1>1, <1>2, TypesAreKept
<1>4. MapType(type) = TextCast(type)
    <2> HIDE DEF type
    <2> QED BY <1>1, <1>2 DEF MapType, ArrayOf, ArrayType, TextCast, TEXT, Scalar, IsType
<1> QED BY <1>2, <1>3, <1>4 DEF NeedsTextCast

LEMMA InfinityIsTemporal ==
    ASSUME NEW type, NEW option, Pg!IsInfinite(type, option)
    PROVE  IsTemporal(type.name) /\ type.name \notin Domains
<1>1. type.name = "date" \/ Pg!Layout(type.name) = "stamp"
    BY DEF Pg!IsInfinite
<1>2. \A name : Pg!Layout(name) = "stamp" => name \in {"timestamp", "timestamptz"}
    BY DEF Pg!Layout
<1>3. {"date", "timestamp", "timestamptz"} \subseteq Advertised
    BY DEF Advertised
<1> QED BY <1>1, <1>2, <1>3, DeliveryAssumption DEF IsTemporal

LEMMA InfinityIsCast ==
    ASSUME NEW column, IsColumn(column), Pg!IsInfinite(column.type, column.option)
    PROVE  NeedsTextCast(Pg!MetadataType(column.type), "AlsoTemporal")
<1>1. IsType(column.type) /\ (column.type.array => column.type.name \notin DOMAIN Serials)
    BY DEF IsColumn
<1>2. IsTemporal(column.type.name) /\ column.type.name \notin Domains
    BY InfinityIsTemporal
<1>3. Pg!MetadataType(column.type) = column.type
    BY <1>1, <1>2, TypesAreKept
<1> QED BY <1>2, <1>3 DEF NeedsTextCast

\* A text is never refused.
LEMMA TextsAreReturned ==
    ASSUME NEW column, IsColumn(column)
    PROVE  /\ AsText(column).type.name \notin Unreturnable
           /\ ~Pg!IsInfinite(AsText(column).type, AsText(column).option)
<1>1. AsText(column).type.name = "text"
    <2>1. AsText(column).type = TextCast(column.type)
        BY DEF AsText, IsColumn
    <2> QED BY <2>1 DEF TextCast
<1>2. "text" \in Advertised /\ ~IsTemporal("text")
    BY DEF Advertised, IsTemporal
<1> QED BY <1>1, <1>2, DeliveryAssumption, InfinityIsTemporal

Unsupported(columns) == \E i \in DOMAIN columns : columns[i].type.name \in Unreturnable
Infinite(columns) == \E i \in DOMAIN columns : Pg!IsInfinite(columns[i].type, columns[i].option)

LEMMA ObstaclesAreTwo ==
    ASSUME NEW columns
    PROVE  /\ Obstacles(columns) \subseteq {"UnsupportedResultException", "InternalFailure"}
           /\ "UnsupportedResultException" \in Obstacles(columns) <=> Unsupported(columns)
           /\ "InternalFailure" \in Obstacles(columns) <=> Infinite(columns)
BY DEF Obstacles, Unsupported, Infinite

LEMMA OneObstacle ==
    ASSUME NEW columns, Cardinality(Obstacles(columns)) = 1
    PROVE  Unsupported(columns) <=> ~Infinite(columns)
<1> DEFINE S == Obstacles(columns)
           U == "UnsupportedResultException"
           I == "InternalFailure"
<1>1. S \subseteq {U, I} /\ (U \in S <=> Unsupported(columns)) /\ (I \in S <=> Infinite(columns))
    BY ObstaclesAreTwo
<1>2. IsFiniteSet({U, I})
    <2>1. IsFiniteSet({U})
        BY FS_Singleton
    <2>2. {U, I} = {U} \cup {I}
        OBVIOUS
    <2> QED BY <2>1, <2>2, FS_AddElement
<1>3. IsFiniteSet(S)
    BY <1>1, <1>2, FS_Subset
<1>4. PICK x : S = {x}
    BY <1>3, FS_Singleton
<1> QED BY <1>1, <1>4

\* Casting helps against one obstacle, and there is something to be cast.
LEMMA OneObstacleIsCast ==
    ASSUME IsWellFormed(statement), NEW e \in Obstacles(statement.columns),
           Cardinality(Obstacles(statement.columns)) = 1
    PROVE  LET scope == Scope(MapSdkError([exception |-> e]))
               columns == statement.columns
           IN /\ \E i \in DOMAIN columns : NeedsTextCast(Pg!MetadataType(columns[i].type), scope)
              /\ Obstacles(CastColumns(columns, scope)) = {}
<1> DEFINE columns == statement.columns
           scope == Scope(MapSdkError([exception |-> e]))
           cast == CastColumns(columns, scope)
           Needs(i) == NeedsTextCast(Pg!MetadataType(columns[i].type), scope)
<1>1. \A i \in DOMAIN columns : IsColumn(columns[i])
    BY DEF IsWellFormed
<1>2. DOMAIN cast = DOMAIN columns
      /\ \A i \in DOMAIN columns : cast[i] = IF Needs(i) THEN AsText(columns[i]) ELSE columns[i]
    BY DEF CastColumns
<1>3. \A i \in DOMAIN columns : columns[i].type.name \in Unreturnable => Needs(i)
    BY <1>1, UnreturnableIsCast
<1>4. Infinite(columns) => \A i \in DOMAIN columns :
            Pg!IsInfinite(columns[i].type, columns[i].option) => Needs(i)
    <2> SUFFICES ASSUME Infinite(columns), NEW i \in DOMAIN columns,
                        Pg!IsInfinite(columns[i].type, columns[i].option)
                 PROVE  Needs(i)
        OBVIOUS
    <2>1. ~Unsupported(columns)
        BY OneObstacle
    <2>2. e = "InternalFailure"
        BY <2>1, ObstaclesAreTwo
    <2>3. scope = "AlsoTemporal"
        BY <2>2, RefusalsAreTold
    <2> QED BY <1>1, <2>3, InfinityIsCast
<1>5. \E i \in DOMAIN columns : Needs(i)
    <2> HIDE DEF Needs, columns
    <2>1. CASE Unsupported(columns)
        BY <1>3, <2>1 DEF Unsupported
    <2>2. CASE Infinite(columns)
        BY <1>4, <2>2 DEF Infinite
    <2>3. Unsupported(columns) \/ Infinite(columns)
        BY ObstaclesAreTwo DEF columns
    <2> QED BY <2>1, <2>2, <2>3
<1>6. ASSUME NEW i \in DOMAIN columns
      PROVE  cast[i].type.name \notin Unreturnable /\ ~Pg!IsInfinite(cast[i].type, cast[i].option)
    <2>1. CASE Needs(i)
        <3>1. cast[i] = AsText(columns[i])
            BY <1>2, <2>1
        <3> HIDE DEF cast
        <3> QED BY <1>1, <3>1, TextsAreReturned
    <2>2. CASE ~Needs(i)
        <3>1. cast[i] = columns[i]
            BY <1>2, <2>2
        <3> HIDE DEF cast, Needs, columns
        <3>2. ~Pg!IsInfinite(columns[i].type, columns[i].option)
            BY <1>4, <2>2 DEF Infinite
        <3> QED BY <1>3, <2>2, <3>1, <3>2
    <2> QED BY <2>1, <2>2
<1>7. ~Unsupported(cast) /\ ~Infinite(cast)
    <2> HIDE DEF cast, columns
    <2> QED BY <1>2, <1>6 DEF Unsupported, Infinite
<1>8. Obstacles(cast) = {}
    <2> HIDE DEF cast
    <2>1. /\ Obstacles(cast) \subseteq {"UnsupportedResultException", "InternalFailure"}
          /\ "UnsupportedResultException" \notin Obstacles(cast)
          /\ "InternalFailure" \notin Obstacles(cast)
        BY <1>7, ObstaclesAreTwo
    <2> QED BY <2>1
<1> QED BY <1>5, <1>8

\* Rows that cannot be given as bytes hold the end of a day.
LEMMA OnlyTheDaysEndIsNoRow ==
    ASSUME IsWellFormed(statement), NEW scope,
           Rows(CastColumns(statement.columns, scope)).kind = "error"
    PROVE  format = "binary" /\ \E i \in DOMAIN statement.columns : EndsTheDay(statement.columns[i])
<1> DEFINE columns == statement.columns
           cast == CastColumns(columns, scope)
           text(i) == Cell(FieldOf(cast[i]), cast[i])
<1>1. DOMAIN cast = DOMAIN columns
      /\ \A i \in DOMAIN columns : cast[i] \in {AsText(columns[i]), columns[i]}
    BY DEF CastColumns
<1> HIDE DEF cast
<1>2. format = "binary" /\ \E i \in DOMAIN cast :
            text(i) # <<>> /\ TextToBinary(text(i)[1], FieldOf(cast[i]).type) = <<>>
    <2> DEFINE fields == BuildFields(cast)
               texts == [i \in DOMAIN cast |-> Cell(fields[i], cast[i])]
               bytes == [i \in DOMAIN cast |->
                    IF texts[i] = <<>> THEN <<>> ELSE TextToBinary(texts[i][1], fields[i].type)]
    <2>1. format = "binary" /\ \E i \in DOMAIN cast : bytes[i] = <<>> /\ texts[i] # <<>>
        <3>1. Rows(cast).kind = "error"
            BY DEF cast
        <3> QED BY <3>1 DEF Rows
    <2>2. \A i \in DOMAIN cast : fields[i] = FieldOf(cast[i])
        BY DEF BuildFields
    <2> QED BY <2>1, <2>2
<1>3. PICK i \in DOMAIN columns :
            text(i) # <<>> /\ TextToBinary(text(i)[1], FieldOf(cast[i]).type) = <<>>
    BY <1>1, <1>2
<1>4. IsColumn(columns[i])
    BY DEF IsWellFormed
<1>5. CASE cast[i] = columns[i]
    BY <1>2, <1>3, <1>4, <1>5, OnlyTheDaysEndHasNoBytes
<1>6. cast[i] # AsText(columns[i])
    <2> SUFFICES ASSUME cast[i] = AsText(columns[i]) PROVE FALSE
        OBVIOUS
    <2>1. FieldOf(cast[i]).type.name = "text"
        <3>1. FieldOf(AsText(columns[i])).type = TextCast(columns[i].type)
            BY <1>4, CastsAreTexts
        <3>2. TextCast(columns[i].type).name = "text"
            BY DEF TextCast
        <3> QED BY <3>1, <3>2
    <2>2. FieldOf(cast[i]).type.name = "time"
        BY <1>3, TextsHaveBytes, ArraysHaveBytes
    <2> QED BY <2>1, <2>2
<1> QED BY <1>1, <1>5, <1>6

-----------------------------------------------------------------------------
(* The retry with casts                                                    *)

\* A read that has one obstacle and an error was unlucky.
Recovered ==
    Has("error") /\ runs > 0 /\ DatabaseErrors = {} /\ IsRead
    /\ Cardinality(Obstacles(statement.columns)) = 1 =>
        \/ upset
        \/ ~NamesAreUsable(statement.columns)
        \/ format = "binary" /\ \E i \in DOMAIN statement.columns : EndsTheDay(statement.columns[i])

\* While the fallback is under way, its error is one of the refusals of this
\* statement.
RecoveryInv ==
    /\ IsWellFormed(statement)
    /\ step \in {"parsed", "bound"} => runs = 0
    /\ step \in {"parsed", "bound", "fallback"} => answer = <<>>
    /\ step = "fallback" =>
        \E e \in Obstacles(statement.columns) : original = <<MapSdkError([exception |-> e])>>
    /\ Recovered

LEMMA RunLeadsToRecovery ==
    ASSUME RecoveryInv, Run
    PROVE  RecoveryInv'
<1>1. UNCHANGED <<statement, received, format, upset>> /\ step = "bound" /\ answer = <<>>
    BY DEF Run, RecoveryInv
<1>2. Obstacles(statement.columns)' = Obstacles(statement.columns) /\ DatabaseErrors' = DatabaseErrors
    BY <1>1 DEF DatabaseErrors
<1>3. CASE statement.error = <<>> /\ Obstacles(statement.columns) = {}
           /\ Answered(Rows(statement.columns))
    <2>1. Cardinality(Obstacles(statement.columns)) # 1
        BY <1>3, FS_EmptySet
    <2>2. step' = "answered"
        BY <1>3 DEF Answered
    <2> QED BY <1>1, <1>2, <2>1, <2>2 DEF RecoveryInv, Recovered
<1>4. CASE DatabaseErrors # {} /\ step' = "answered"
    BY <1>1, <1>2, <1>4 DEF RecoveryInv, Recovered
<1>5. ASSUME NEW e \in Obstacles(statement.columns),
             LET error == MapSdkError([exception |-> e]) IN
             IF IsUnreturnableType(error) \/ IsInternalFailure(error)
             THEN step' = "fallback" /\ original' = <<error>> /\ UNCHANGED answer
             ELSE AnsweredError(error) /\ UNCHANGED original
      PROVE  RecoveryInv'
    <2>1. e \in {"UnsupportedResultException", "InternalFailure"}
        BY ObstaclesAreTwo
    <2>2. step' = "fallback" /\ original' = <<MapSdkError([exception |-> e])>> /\ UNCHANGED answer
        BY <1>5, <2>1, RefusalsAreTold
    <2> QED BY <1>1, <1>2, <2>2 DEF RecoveryInv, Recovered, Has
<1>6. \/ statement.error = <<>> /\ Obstacles(statement.columns) = {}
         /\ Answered(Rows(statement.columns))
      \/ DatabaseErrors # {} /\ step' = "answered"
      \/ \E e \in Obstacles(statement.columns) :
            LET error == MapSdkError([exception |-> e]) IN
            IF IsUnreturnableType(error) \/ IsInternalFailure(error)
            THEN step' = "fallback" /\ original' = <<error>> /\ UNCHANGED answer
            ELSE AnsweredError(error) /\ UNCHANGED original
    BY DEF Run, AnsweredError, Answered
<1>7. CASE \E e \in Obstacles(statement.columns) :
            LET error == MapSdkError([exception |-> e]) IN
            IF IsUnreturnableType(error) \/ IsInternalFailure(error)
            THEN step' = "fallback" /\ original' = <<error>> /\ UNCHANGED answer
            ELSE AnsweredError(error) /\ UNCHANGED original
    BY <1>5, <1>7, Zenon
<1> QED BY <1>3, <1>4, <1>6, <1>7, Zenon

LEMMA FallbackRecovers ==
    ASSUME RecoveryInv, Fallback \/ FallbackFails
    PROVE  RecoveryInv'
<1>1. UNCHANGED <<statement, received, format>> /\ step = "fallback"
    BY DEF Fallback, FallbackFails
<1>2. Obstacles(statement.columns)' = Obstacles(statement.columns) /\ DatabaseErrors' = DatabaseErrors
      /\ NamesAreUsable(statement.columns)' = NamesAreUsable(statement.columns)
      /\ IsRead' = IsRead
    BY <1>1 DEF DatabaseErrors, IsRead, NamesAreUsable
<1>3. step' = "answered"
    <2>1. GiveUp => step' = "answered"
        BY DEF GiveUp, AnsweredError, Answered
    <2> QED BY <2>1 DEF Fallback, FallbackFails, Answered
<1>4. PICK e \in Obstacles(statement.columns) : original = <<MapSdkError([exception |-> e])>>
    BY <1>1 DEF RecoveryInv
<1> DEFINE scope == Scope(MapSdkError([exception |-> e]))
<1>5. original[1] = MapSdkError([exception |-> e]) /\ Scope(original[1]) = scope
    BY <1>4
<1> HIDE DEF scope
<1>6. ASSUME Has("error")', DatabaseErrors = {}, IsRead, NamesAreUsable(statement.columns), ~upset',
             Cardinality(Obstacles(statement.columns)) = 1
      PROVE  format = "binary" /\ \E i \in DOMAIN statement.columns : EndsTheDay(statement.columns[i])
    <2>1. /\ \E i \in DOMAIN statement.columns :
                NeedsTextCast(Pg!MetadataType(statement.columns[i].type), scope)
          /\ Obstacles(CastColumns(statement.columns, scope)) = {}
        BY <1>6, OneObstacleIsCast DEF RecoveryInv, scope
    <2>2. CanCast(Scope(original[1]))
        BY <1>5, <1>6, <2>1 DEF CanCast
    <2>3. ~FallbackFails
        BY <1>6, <2>2 DEF FallbackFails
    <2>4. Answered(Rows(CastColumns(statement.columns, scope)))
        BY <1>5, <2>1, <2>3 DEF Fallback
    <2>5. Rows(CastColumns(statement.columns, scope)).kind = "error"
        BY <1>6, <2>4 DEF Answered, Has
    <2> QED BY <2>5, OnlyTheDaysEndIsNoRow DEF RecoveryInv
<1>7. Recovered'
    BY <1>1, <1>2, <1>6 DEF Recovered
<1> QED BY <1>1, <1>3, <1>7 DEF RecoveryInv

\* What the Data API refuses for one reason, a type it cannot return or a date
\* that Java has none for, comes back from the retry with casts, however the
\* columns are mixed: no error is left but the cluster's own, that of names that
\* do not tell the columns apart, and the end of a day in binary
\* (handlers.rs:317-379, exec.rs:17-36, types.rs:132-150).
THEOREM OneObstacleIsOvercome == Spec => []UnreturnableIsRecovered
<1>1. Init => RecoveryInv
    BY DEF Init, RecoveryInv, Recovered, Has
<1>2. RecoveryInv /\ [Next]_vars => RecoveryInv'
    <2> SUFFICES ASSUME RecoveryInv, [Next]_vars PROVE RecoveryInv'
        OBVIOUS
    <2>1. CASE UNCHANGED vars
        <3>1. UNCHANGED <<statement, step, format, received, runs, original, upset, answer>>
            BY <2>1 DEF vars
        <3>2. DatabaseErrors' = DatabaseErrors /\ IsRead' = IsRead /\ Has("error")' = Has("error")
            BY <3>1 DEF DatabaseErrors, IsRead, Has
        <3>3. Recovered'
            BY <3>1, <3>2 DEF RecoveryInv, Recovered
        <3> QED BY <3>1, <3>3 DEF RecoveryInv
    <2>2. CASE DescribeStatement
        <3>1. step = "parsed" /\ UNCHANGED <<statement, step, runs, answer>>
            BY <2>2 DEF DescribeStatement
        <3>2. answer = <<>> /\ runs = 0
            BY <3>1 DEF RecoveryInv
        <3>3. IsWellFormed(statement') /\ ~Has("error")'
            BY <3>1, <3>2 DEF RecoveryInv, Has
        <3> QED BY <3>1, <3>2, <3>3 DEF RecoveryInv, Recovered
    <2>3. ASSUME NEW wanted, NEW isBinary, NEW probed, Bind(wanted, isBinary, probed)
          PROVE  RecoveryInv'
        <3>1. step = "parsed" /\ UNCHANGED <<statement, runs>>
            BY <2>3 DEF Bind
        <3>2. (step' = "bound" /\ UNCHANGED answer) \/ step' = "answered"
            BY <2>3 DEF Bind, AnsweredError, Answered
        <3> QED BY <3>1, <3>2 DEF RecoveryInv, Recovered, Has
    <2> QED BY <2>1, <2>2, <2>3, RunLeadsToRecovery, FallbackRecovers DEF Next
<1>3. RecoveryInv => Recovered
    BY DEF RecoveryInv
<1>4. RunsAreFew /\ Recovered => UnreturnableIsRecovered
    BY DEF UnreturnableIsRecovered, Recovered
<1> QED BY <1>1, <1>2, <1>3, <1>4, NoWriteIsRunTwice, PTL DEF Spec

-----------------------------------------------------------------------------
(* Lengths of parts                                                        *)

\* Sums of numbers that are never larger come to the same only if the numbers
\* do, one by one.
Sums(n, x, sum) ==
    /\ \A k \in 1..n : x[k] \in Nat /\ sum[k] \in Nat
    /\ sum[1] = x[1] /\ \A k \in 2..n : sum[k] = sum[k - 1] + x[k]

NeverLarger(n, x, y) == \A k \in 1..n : x[k] <= y[k]
AreSame(n, x, y) == \A k \in 1..n : x[k] = y[k]

LEMMA SumsAgree ==
    ASSUME NEW n \in Nat \ {0}, NEW x, NEW y, NEW p, NEW q,
           Sums(n, x, p), Sums(n, y, q), NeverLarger(n, x, y), p[n] = q[n]
    PROVE  AreSame(n, x, y) /\ AreSame(n, p, q)
<1>0. \A k \in 1..n : x[k] <= y[k]
    BY DEF NeverLarger
<1>1. \A k \in 1..n : x[k] \in Nat /\ y[k] \in Nat /\ p[k] \in Nat /\ q[k] \in Nat
    BY DEF Sums
<1>2. p[1] = x[1] /\ q[1] = y[1]
    BY DEF Sums
<1>3. \A k \in 1..n : k > 1 => k - 1 \in 1..n /\ p[k] = p[k - 1] + x[k] /\ q[k] = q[k - 1] + y[k]
    <2> SUFFICES ASSUME NEW k \in 1..n, k > 1
                 PROVE  k - 1 \in 1..n /\ p[k] = p[k - 1] + x[k] /\ q[k] = q[k - 1] + y[k]
        OBVIOUS
    <2>1. k \in 2..n /\ k - 1 \in 1..n
        OBVIOUS
    <2> QED BY <2>1 DEF Sums
<1> DEFINE Below == {k \in 0..(n - 1) : p[k + 1] <= q[k + 1]}
           Same == {k \in 1..n : p[k] = q[k] /\ x[k] = y[k]}
<1>4. \A k \in 1..n : p[k] <= q[k]
    <2>1. 0 \in Below
        <3>1. p[1] <= q[1] /\ 0 \in 0..(n - 1) /\ 0 + 1 = 1
            BY <1>0, <1>2
        <3> QED BY <3>1
    <2>2. ASSUME NEW k \in 0..(n - 1), k \in Below, k < n - 1
          PROVE  k + 1 \in Below
        <3> DEFINE h == k + 1
                   i == k + 2
        <3>1. /\ p[h] <= q[h]
              /\ h \in 1..n /\ i \in 1..n /\ i > 1 /\ i - 1 = h /\ h + 1 = i /\ h \in 0..(n - 1)
            BY <2>2
        <3> HIDE DEF h, i, Below
        <3>2. p[i] = p[h] + x[i] /\ q[i] = q[h] + y[i]
            BY <3>1, <1>3
        <3>3. p[i] <= q[i]
            <4>1. /\ p[h] \in Nat /\ q[h] \in Nat /\ x[i] \in Nat /\ y[i] \in Nat /\ x[i] <= y[i]
                BY <3>1, <1>0, <1>1
            <4>2. \A A, B, X, Y \in Nat : A <= B /\ X <= Y => A + X <= B + Y
                OBVIOUS
            <4> QED BY <4>1, <4>2, <3>1, <3>2
        <3>4. h \in Below
            BY <3>1, <3>3 DEF Below
        <3> QED BY <3>4 DEF h
    <2>3. 0..(n - 1) \subseteq Below
        <3>1. n - 1 \in Nat
            OBVIOUS
        <3> HIDE DEF Below
        <3> QED BY <3>1, <2>1, <2>2, CountingUp
    <2> SUFFICES ASSUME NEW k \in 1..n PROVE p[k] <= q[k]
        OBVIOUS
    <2>4. k - 1 \in 0..(n - 1) /\ (k - 1) + 1 = k
        OBVIOUS
    <2>5. k - 1 \in Below
        BY <2>3, <2>4
    <2> QED BY <2>4, <2>5
<1>5. ASSUME NEW i \in 1..n, \A j \in (i + 1)..n : j \in Same
      PROVE  i \in Same
    <2>1. p[i] = q[i]
        <3>1. CASE i = n
            BY <3>1
        <3>2. CASE i # n
            <4> DEFINE h == i + 1
            <4>1. h \in (i + 1)..n /\ h \in 1..n /\ h > 1 /\ h - 1 = i
                BY <3>2
            <4>2. p[h] = q[h] /\ x[h] = y[h]
                BY <4>1, <1>5
            <4> HIDE DEF h, Same
            <4>3. p[h] = p[i] + x[h] /\ q[h] = q[i] + y[h]
                BY <4>1, <1>3
            <4>4. p[i] \in Nat /\ q[i] \in Nat /\ x[h] \in Nat
                BY <4>1, <1>1
            <4>5. \A A, B, X \in Nat : A + X = B + X => A = B
                OBVIOUS
            <4> QED BY <4>2, <4>3, <4>4, <4>5
        <3> QED BY <3>1, <3>2
    <2>2. x[i] = y[i]
        <3>1. CASE i = 1
            BY <3>1, <2>1, <1>2
        <3>2. CASE i # 1
            <4> DEFINE h == i - 1
            <4>1. i > 1 /\ h \in 1..n
                BY <3>2
            <4>2. p[i] = p[h] + x[i] /\ q[i] = q[h] + y[i]
                BY <4>1, <1>3
            <4> HIDE DEF h, Same
            <4>3. p[h] <= q[h] /\ x[i] <= y[i]
                BY <4>1, <1>0, <1>4
            <4>4. p[h] \in Nat /\ q[h] \in Nat /\ x[i] \in Nat /\ y[i] \in Nat
                BY <4>1, <1>1
            <4>5. \A A, B, X, Y \in Nat : A <= B /\ X <= Y /\ A + X = B + Y => X = Y
                OBVIOUS
            <4>6. p[h] + x[i] = q[h] + y[i]
                BY <4>2, <2>1
            <4> QED BY <4>3, <4>4, <4>5, <4>6
        <3> QED BY <3>1, <3>2
    <2> QED BY <2>1, <2>2
<1>6. 1..n \subseteq Same
    <2> HIDE DEF Same
    <2> QED BY <1>5, CountingDown
<1> QED BY <1>6 DEF AreSame

\* Sequences that are put together of parts, those of one never longer than
\* those of the other, are the same part by part if they are as long.
AreParts(a, b, s, t, i) ==
    \E k \in 1..Len(a) : \E j \in 1..Len(a[k]) :
        /\ Len(a[k]) = Len(b[k])
        /\ s[i] = a[k][j] /\ t[i] = b[k][j]

LEMMA FlattenedInParts ==
    ASSUME NEW C, NEW a \in Seq(Seq(C)), NEW b \in Seq(Seq(C)), Len(a) = Len(b),
           \A k \in 1..Len(a) : Len(a[k]) <= Len(b[k]),
           Len(FlattenSeq(a)) = Len(FlattenSeq(b))
    PROVE  \A i \in 1..Len(FlattenSeq(a)) : AreParts(a, b, FlattenSeq(a), FlattenSeq(b), i)
<1> DEFINE n == Len(a)
<1>1. CASE a = <<>>
    <2>1. FlattenSeq(a) = <<>>
        BY <1>1 DEF FlattenSeq
    <2>2. Len(FlattenSeq(a)) = 0
        BY <2>1
    <2> QED BY <2>2
<1>2. CASE a # <<>>
    <2>1. n \in Nat \ {0} /\ b # <<>> /\ Len(b) = n
        BY <1>2
    <2>2. PICK f \in [1..n -> Seq(C)] : Flattens(a, f)
        BY <1>2, FlatteningGoesOn
    <2>3. PICK g \in [1..n -> Seq(C)] : Flattens(b, g)
        BY <2>1, FlatteningGoesOn
    <2> DEFINE x == [k \in 1..n |-> Len(a[k])]
               y == [k \in 1..n |-> Len(b[k])]
               p == [k \in 1..n |-> Len(f[k])]
               q == [k \in 1..n |-> Len(g[k])]
    <2>4. \A k \in 1..n : a[k] \in Seq(C) /\ b[k] \in Seq(C) /\ f[k] \in Seq(C) /\ g[k] \in Seq(C)
        BY <2>1
    <2>5. /\ f[1] = a[1] /\ f[n] = FlattenSeq(a) /\ \A k \in 2..n : f[k] = f[k - 1] \o a[k]
          /\ g[1] = b[1] /\ g[n] = FlattenSeq(b) /\ \A k \in 2..n : g[k] = g[k - 1] \o b[k]
        BY <2>1, <2>2, <2>3 DEF Flattens
    <2> HIDE DEF n
    <2>6. AreSame(n, x, y) /\ AreSame(n, p, q)
        <3>2. /\ \A k \in 1..n : x[k] = Len(a[k]) /\ y[k] = Len(b[k]) /\ p[k] = Len(f[k]) /\ q[k] = Len(g[k])
              /\ 1 \in 1..n /\ n \in 1..n
            BY <2>1
        <3> HIDE DEF x, y, p, q
        <3>3. ASSUME NEW k \in 2..n
              PROVE  p[k] = p[k - 1] + x[k] /\ q[k] = q[k - 1] + y[k]
            <4> DEFINE h == k - 1
            <4>1. k \in 1..n /\ h \in 1..n
                BY <2>1
            <4>2. f[k] = f[h] \o a[k] /\ g[k] = g[h] \o b[k]
                BY <2>5
            <4> HIDE DEF h
            <4>3. f[h] \in Seq(C) /\ a[k] \in Seq(C) /\ g[h] \in Seq(C) /\ b[k] \in Seq(C)
                BY <4>1, <2>4
            <4>4. Len(f[k]) = Len(f[h]) + Len(a[k]) /\ Len(g[k]) = Len(g[h]) + Len(b[k])
                BY <4>2, <4>3
            <4>5. p[k] = p[h] + x[k] /\ q[k] = q[h] + y[k]
                BY <4>1, <4>4, <3>2
            <4> QED BY <4>5 DEF h
        <3>4. p[1] = x[1] /\ q[1] = y[1]
            BY <3>2, <2>5
        <3>1. \A k \in 1..n : x[k] \in Nat /\ y[k] \in Nat /\ p[k] \in Nat /\ q[k] \in Nat
            <4>1. \A s \in Seq(C) : Len(s) \in Nat
                OBVIOUS
            <4> QED BY <4>1, <3>2, <2>4
        <3>5. Sums(n, x, p) /\ Sums(n, y, q)
            BY <3>1, <3>3, <3>4 DEF Sums
        <3>6. p[n] = q[n] /\ NeverLarger(n, x, y)
            BY <3>2, <2>5 DEF n, NeverLarger
        <3> QED BY <3>5, <3>6, <2>1, SumsAgree
    <2>7. \A k \in 1..n : Len(f[k]) = Len(g[k]) /\ Len(a[k]) = Len(b[k])
        BY <2>6 DEF AreSame
    <2> HIDE DEF x, y, p, q
    <2> DEFINE InParts(k) == \A i \in 1..Len(f[k]) : AreParts(a, b, f[k], g[k], i)
               Done == {k \in 0..(n - 1) : InParts(k + 1)}
    <2>8. 0 \in Done
        <3>1. 1 \in 1..n /\ \A i \in 1..Len(f[1]) : i \in 1..Len(a[1])
            BY <2>1, <2>5
        <3>2. InParts(1)
            BY <3>1, <2>5, <2>7 DEF AreParts, n
        <3> HIDE DEF InParts
        <3> QED BY <3>2, <2>1
    <2>9. ASSUME NEW k \in 0..(n - 1), k \in Done, k < n - 1
          PROVE  k + 1 \in Done
        <3> DEFINE h == k + 1
        <3>1. h \in 1..n /\ h + 1 \in 2..n /\ h + 1 \in 1..n /\ (h + 1) - 1 = h /\ InParts(h)
            BY <2>9, <2>1
        <3> HIDE DEF h
        <3>2. f[h + 1] = f[h] \o a[h + 1] /\ g[h + 1] = g[h] \o b[h + 1]
            BY <3>1, <2>5
        <3>3. /\ f[h] \in Seq(C) /\ g[h] \in Seq(C) /\ a[h + 1] \in Seq(C) /\ b[h + 1] \in Seq(C)
              /\ Len(f[h]) = Len(g[h]) /\ Len(a[h + 1]) = Len(b[h + 1])
            BY <3>1, <2>4, <2>7
        <3>4. ASSUME NEW i \in 1..Len(f[h + 1])
              PROVE  AreParts(a, b, f[h + 1], g[h + 1], i)
            <4> DEFINE u == f[h]
                       v == a[h + 1]
                       w == g[h]
                       z == b[h + 1]
            <4>0. /\ u \in Seq(C) /\ v \in Seq(C) /\ w \in Seq(C) /\ z \in Seq(C)
                  /\ Len(u) = Len(w) /\ Len(v) = Len(z)
                  /\ f[h + 1] = u \o v /\ g[h + 1] = w \o z /\ i \in 1..Len(u \o v)
                BY <3>2, <3>3
            <4>1. CASE i <= Len(f[h])
                <5> HIDE DEF u, v, w, z
                <5>3. i \in 1..Len(u) /\ (u \o v)[i] = u[i] /\ (w \o z)[i] = w[i]
                    BY <4>0, <4>1 DEF u
                <5>1. i \in 1..Len(f[h]) /\ f[h + 1][i] = f[h][i] /\ g[h + 1][i] = g[h][i]
                    BY <4>0, <5>3 DEF u, w
                <5>2. AreParts(a, b, f[h], g[h], i)
                    BY <5>1, <3>1
                <5> QED BY <5>1, <5>2 DEF AreParts
            <4>2. CASE i > Len(f[h])
                <5> DEFINE j == i - Len(f[h])
                <5>2. j = i - Len(u) /\ i > Len(u)
                    BY <4>2
                <5> HIDE DEF j, u, v, w, z
                <5>3. j \in 1..Len(v) /\ (u \o v)[i] = v[j] /\ (w \o z)[i] = z[j]
                    BY <4>0, <5>2
                <5>1. /\ j \in 1..Len(a[h + 1])
                      /\ f[h + 1][i] = a[h + 1][j] /\ g[h + 1][i] = b[h + 1][j]
                    BY <4>0, <5>3 DEF v, z
                <5> HIDE DEF j
                <5> QED BY <5>1, <3>1, <3>3 DEF AreParts, n
            <4> QED BY <4>1, <4>2, <3>3
        <3>5. InParts(h + 1)
            BY <3>4
        <3>6. h \in 0..(n - 1)
            BY <2>9, <2>1 DEF h
        <3>7. h \in Done
            <4> HIDE DEF InParts
            <4> QED BY <3>5, <3>6
        <3> HIDE DEF Done
        <3> QED BY <3>7 DEF h
    <2>10. 0..(n - 1) \subseteq Done
        <3>1. n - 1 \in Nat
            BY <2>1
        <3> HIDE DEF Done
        <3> QED BY <3>1, <2>8, <2>9, CountingUp
    <2>11. InParts(n)
        <3>1. n - 1 \in 0..(n - 1) /\ (n - 1) + 1 = n
            BY <2>1
        <3>2. InParts((n - 1) + 1)
            BY <3>1, <2>10
        <3> HIDE DEF InParts
        <3> QED BY <3>1, <3>2
    <2> QED BY <2>11, <2>5
<1> QED BY <1>1, <1>2

-----------------------------------------------------------------------------
(* Cuts of a list                                                          *)

\* Numbers in ascending order, counted from 0.
Ascend(m, q) == \A k \in 0..m : q[k] \in Nat /\ (k < m => q[k] < q[k + 1])

\* They ascend from any to any later one.
LEMMA AscendingOn ==
    ASSUME NEW m \in Nat, NEW q, Ascend(m, q)
    PROVE  \A k \in 0..m : \A i \in 0..m : i < k => q[i] < q[k]
<1> DEFINE Done == {k \in 0..m : \A i \in 0..m : i < k => q[i] < q[k]}
<1>1. 0 \in Done
    OBVIOUS
<1>2. ASSUME NEW k \in 0..m, k \in Done, k < m
      PROVE  k + 1 \in Done
    <2>1. \A i \in 0..m : i < k => q[i] < q[k]
        BY <1>2
    <2> DEFINE h == k + 1
    <2>2. h \in 0..m /\ q[k] < q[h] /\ q[k] \in Nat /\ q[h] \in Nat
        BY <1>2 DEF Ascend
    <2>3. \A i \in 0..m : i < h => i < k \/ i = k
        OBVIOUS
    <2> HIDE DEF h, Done
    <2>4. \A A, B, C \in Nat : A < B /\ B < C => A < C
        OBVIOUS
    <2>5. \A i \in 0..m : q[i] \in Nat
        BY DEF Ascend
    <2>6. \A i \in 0..m : i < h => q[i] < q[h]
        BY <2>1, <2>2, <2>3, <2>4, <2>5
    <2>7. h \in Done
        BY <2>2, <2>6 DEF Done
    <2> QED BY <2>7 DEF h
<1>3. 0..m \subseteq Done
    <2> HIDE DEF Done
    <2> QED BY <1>1, <1>2, CountingUp
<1> QED BY <1>3

\* The one with k below it, the k-th from 0.
Nth(S, k) == CHOOSE c \in S : Cardinality({d \in S : d < c}) = k

\* S is the numbers of q.
IsRange(S, m, q) == S = {q[k] : k \in 0..m}

\* The k-th number of a set is that of the ascending order.
LEMMA CutsAreCounted ==
    ASSUME NEW m \in Nat, NEW q, Ascend(m, q), NEW S, IsRange(S, m, q)
    PROVE  /\ Cardinality(S) = m + 1
           /\ \A k \in 0..m : Nth(S, k) = q[k]
<1> DEFINE B(k) == {q[i] : i \in 0..(k - 1)}
           Done == {k \in 0..m : IsFiniteSet(B(k)) /\ Cardinality(B(k)) = k}
<1>0. S = {q[k] : k \in 0..m}
    BY DEF IsRange
<1>1. \A k \in 0..m : q[k] \in Nat
    BY DEF Ascend
<1>2. \A k, i \in 0..m : i < k => q[i] < q[k]
    BY AscendingOn
<1>3. \A k, i \in 0..m : (q[i] < q[k] <=> i < k) /\ (q[i] = q[k] => i = k)
    <2> SUFFICES ASSUME NEW k \in 0..m, NEW i \in 0..m
                 PROVE  (q[i] < q[k] <=> i < k) /\ (q[i] = q[k] => i = k)
        OBVIOUS
    <2>1. i < k => q[i] < q[k]
        BY <1>2
    <2>2. k < i => q[k] < q[i]
        BY <1>2
    <2>3. q[i] \in Nat /\ q[k] \in Nat
        BY <1>1
    <2>4. \A A, D \in Nat : ~(A < D /\ D < A) /\ (A < D => A # D)
        OBVIOUS
    <2>5. i < k \/ k < i \/ i = k
        OBVIOUS
    <2> QED BY <2>1, <2>2, <2>3, <2>4, <2>5
<1>4. 0 \in Done
    <2>1. B(0) = {}
        OBVIOUS
    <2> HIDE DEF B
    <2> QED BY <2>1, FS_EmptySet
<1>5. ASSUME NEW k \in 0..m, IsFiniteSet(B(k)), Cardinality(B(k)) = k
      PROVE  IsFiniteSet(B(k + 1)) /\ Cardinality(B(k + 1)) = k + 1
    <2>1. B(k + 1) = B(k) \cup {q[k]}
        <3>1. \A i : i \in 0..((k + 1) - 1) <=> i \in 0..(k - 1) \/ i = k
            OBVIOUS
        <3> QED BY <3>1
    <2>2. q[k] \notin B(k)
        <3>1. \A i \in 0..(k - 1) : i \in 0..m /\ i # k
            OBVIOUS
        <3>2. \A i \in 0..(k - 1) : q[i] # q[k]
            BY <3>1, <1>3
        <3> QED BY <3>2
    <2> HIDE DEF B
    <2> QED BY <2>1, <2>2, <1>5, FS_AddElement
<1>6. 0..m \subseteq Done
    <2>1. ASSUME NEW k \in 0..m, k \in Done, k < m
          PROVE  k + 1 \in Done
        <3> HIDE DEF B
        <3> QED BY <2>1, <1>5
    <2> HIDE DEF Done
    <2> QED BY <1>4, <2>1, CountingUp
<1>7. Cardinality(S) = m + 1
    <2>1. S = B(m + 1)
        <3>1. 0..((m + 1) - 1) = 0..m
            OBVIOUS
        <3> QED BY <3>1, <1>0
    <2>2. m \in 0..m
        OBVIOUS
    <2>3. IsFiniteSet(B(m)) /\ Cardinality(B(m)) = m
        BY <1>6, <2>2
    <2> HIDE DEF B, Done
    <2> QED BY <2>1, <2>2, <2>3, <1>5
<1>8. ASSUME NEW k \in 0..m
      PROVE  Cardinality({d \in S : d < q[k]}) = k
    <2>1. {d \in S : d < q[k]} = B(k)
        <3>1. \A i \in 0..m : q[i] < q[k] <=> i \in 0..(k - 1)
            BY <1>3
        <3>2. \A i \in 0..(k - 1) : i \in 0..m
            OBVIOUS
        <3> QED BY <3>1, <3>2, <1>0
    <2>2. Cardinality(B(k)) = k
        BY <1>6
    <2> HIDE DEF B
    <2> QED BY <2>1, <2>2
<1>9. ASSUME NEW k \in 0..m
      PROVE  (CHOOSE c \in S : Cardinality({d \in S : d < c}) = k) = q[k]
    <2>1. q[k] \in S /\ Cardinality({d \in S : d < q[k]}) = k
        BY <1>0, <1>8
    <2>2. ASSUME NEW c \in S, Cardinality({d \in S : d < c}) = k
          PROVE  c = q[k]
        <3>1. PICK j \in 0..m : c = q[j]
            BY <1>0
        <3>2. Cardinality({d \in S : d < q[j]}) = j
            BY <1>8
        <3> QED BY <3>1, <3>2, <2>2
    <2> DEFINE P(c) == Cardinality({d \in S : d < c}) = k
    <2>3. q[k] \in S /\ P(q[k]) /\ \A c \in S : P(c) => c = q[k]
        BY <2>1, <2>2
    <2> HIDE DEF P
    <2>4. (CHOOSE c \in S : P(c)) = q[k]
        BY <2>3
    <2> QED BY <2>4 DEF P
<1>10. ASSUME NEW k \in 0..m
       PROVE  Nth(S, k) = q[k]
    BY <1>9, Zenon DEF Nth
<1> QED BY <1>7, <1>10

-----------------------------------------------------------------------------
(* Depth of brackets                                                       *)

IsAt(t, B, i) == \E b \in B : Is(t[i], b)

\* The depth of brackets changes by the token in front only.
LEMMA DepthGoesOn ==
    ASSUME NEW t, NEW i \in Nat \ {0}, NEW O, NEW C
    PROVE  /\ Depth(t, 1, O, C) = 0
           /\ Depth(t, i, O, C) \in Int
           /\ Depth(t, i + 1, O, C) = Depth(t, i, O, C) + (IF IsAt(t, O, i) THEN 1 ELSE 0)
                                                        - (IF IsAt(t, C, i) THEN 1 ELSE 0)
<1> DEFINE N(B, k) == {j \in 1..(k - 1) : \E b \in B : Is(t[j], b)}
<1>1. ASSUME NEW B, NEW k \in Nat \ {0}
      PROVE  /\ IsFiniteSet(N(B, k)) /\ Cardinality(N(B, k)) \in Nat
             /\ Cardinality(N(B, k + 1)) = Cardinality(N(B, k)) + (IF IsAt(t, B, k) THEN 1 ELSE 0)
    <2>1. N(B, k) \in SUBSET (1..(k - 1)) /\ k - 1 \in Int /\ 1 \in Int
        OBVIOUS
    <2>2. N(B, k + 1) = IF IsAt(t, B, k) THEN N(B, k) \cup {k} ELSE N(B, k)
        <3>1. \A j : j \in 1..((k + 1) - 1) <=> j \in 1..(k - 1) \/ j = k
            OBVIOUS
        <3> QED BY <3>1 DEF IsAt
    <2>3. k \notin N(B, k)
        OBVIOUS
    <2> HIDE DEF N
    <2>4. IsFiniteSet(N(B, k))
        BY <2>1, FS_Interval, FS_Subset
    <2>5. Cardinality(N(B, k)) \in Nat
        BY <2>4, FS_CardinalityType
    <2>6. Cardinality(N(B, k) \cup {k}) = Cardinality(N(B, k)) + 1
        BY <2>3, <2>4, FS_AddElement
    <2> QED BY <2>2, <2>4, <2>5, <2>6
<1>2. \A k : Depth(t, k, O, C) = Cardinality(N(O, k)) - Cardinality(N(C, k))
    BY DEF Depth
<1>3. N(O, 1) = {} /\ N(C, 1) = {}
    OBVIOUS
<1> HIDE DEF N
<1>4. Depth(t, 1, O, C) = 0
    BY <1>2, <1>3, FS_EmptySet
<1>5. /\ Cardinality(N(O, i)) \in Nat /\ Cardinality(N(C, i)) \in Nat
      /\ Cardinality(N(O, i + 1)) = Cardinality(N(O, i)) + (IF IsAt(t, O, i) THEN 1 ELSE 0)
      /\ Cardinality(N(C, i + 1)) = Cardinality(N(C, i)) + (IF IsAt(t, C, i) THEN 1 ELSE 0)
    BY <1>1
<1>6. /\ Depth(t, i, O, C) = Cardinality(N(O, i)) - Cardinality(N(C, i))
      /\ Depth(t, i + 1, O, C) = Cardinality(N(O, i + 1)) - Cardinality(N(C, i + 1))
    BY <1>2
<1> QED BY <1>4, <1>5, <1>6

\* In a list that goes on with an item, the brackets of the item count as they
\* do in it.
IsWithin(s, p, t, n) == \A j \in 1..n : t[j] = s[p + j]

LEMMA DepthWithin ==
    ASSUME NEW s, NEW t, NEW n \in Nat, NEW p \in Nat, IsWithin(s, p, t, n),
           NEW O, NEW C
    PROVE  \A i \in 0..n : Depth(s, p + i + 1, O, C) = Depth(s, p + 1, O, C) + Depth(t, i + 1, O, C)
<1> DEFINE D(x, k) == Depth(x, k, O, C)
           Done == {i \in 0..n : D(s, p + i + 1) = D(s, p + 1) + D(t, i + 1)}
<1>1. \A x, k : k \in Nat \ {0} =>
        /\ D(x, 1) = 0 /\ D(x, k) \in Int
        /\ D(x, k + 1) = D(x, k) + (IF IsAt(x, O, k) THEN 1 ELSE 0) - (IF IsAt(x, C, k) THEN 1 ELSE 0)
    BY DepthGoesOn
<1> HIDE DEF D
<1>2. 0 \in Done
    <2>1. D(t, 1) = 0 /\ D(s, p + 1) \in Int /\ p + 1 \in Nat \ {0} /\ p + 0 + 1 = p + 1
        BY <1>1
    <2> QED BY <2>1
<1>3. ASSUME NEW i \in 0..n, i \in Done, i < n
      PROVE  i + 1 \in Done
    <2> DEFINE k == i + 1
               h == p + i + 1
    <2>1. k \in Nat \ {0} /\ h \in Nat \ {0} /\ k \in 1..n /\ h = p + k /\ p + k + 1 = h + 1 /\ k \in 0..n
          /\ p + 1 \in Nat \ {0}
        BY <1>3
    <2>2. D(s, h) = D(s, p + 1) + D(t, k)
        BY <1>3
    <2> HIDE DEF k, h, Done
    <2>3. t[k] = s[h]
        BY <2>1 DEF IsWithin
    <2>4. (IsAt(t, O, k) <=> IsAt(s, O, h)) /\ (IsAt(t, C, k) <=> IsAt(s, C, h))
        BY <2>3 DEF IsAt
    <2>5. /\ D(s, h) \in Int /\ D(t, k) \in Int /\ D(s, p + 1) \in Int
          /\ D(s, h + 1) = D(s, h) + (IF IsAt(s, O, h) THEN 1 ELSE 0) - (IF IsAt(s, C, h) THEN 1 ELSE 0)
          /\ D(t, k + 1) = D(t, k) + (IF IsAt(t, O, k) THEN 1 ELSE 0) - (IF IsAt(t, C, k) THEN 1 ELSE 0)
        BY <2>1, <1>1
    <2>6. D(s, p + k + 1) = D(s, p + 1) + D(t, k + 1)
        BY <2>1, <2>2, <2>4, <2>5
    <2>7. k \in Done
        BY <2>1, <2>6 DEF Done
    <2> QED BY <2>7 DEF k
<1>4. 0..n \subseteq Done
    <2> HIDE DEF Done
    <2> QED BY <1>2, <1>3, CountingUp
<1> QED BY <1>4 DEF D

-----------------------------------------------------------------------------
(* Splitting a list                                                        *)

Opens == {"(", "["}
Closes == {")", "]"}
IsComma(token) == Is(token, ",")
DepthIn(item, i) == Depth(item, i, Opens, Closes)

\* An item of a list: its brackets match, and its commas are inside of some.
IsItem(item) ==
    /\ DepthIn(item, Len(item) + 1) = 0
    /\ \A i \in DOMAIN item : IsComma(item[i]) => DepthIn(item, i) # 0

\* Items with commas between them, which are at these places; the first one is
\* in front of the list and the last one behind it.
AreBetween(list, items, commas) ==
    /\ commas[0] = 0 /\ commas[Len(items)] = Len(list) + 1
    /\ Ascend(Len(items), commas)
    /\ \A k \in 1..Len(items) :
        /\ items[k] = SubSeq(list, commas[k - 1] + 1, commas[k] - 1)
        /\ k < Len(items) => IsComma(list[commas[k]])
AreItems(list, items) == \E commas : AreBetween(list, items, commas)

\* A comma opens and closes nothing.
LEMMA CommasAreNoBrackets ==
    ASSUME NEW t, NEW i, IsComma(t[i])
    PROVE  ~IsAt(t, Opens, i) /\ ~IsAt(t, Closes, i)
<1>1. "," \notin Opens /\ "," \notin Closes
    BY Zenon DEF Opens, Closes
<1> DEFINE comma == ","
<1>2. Fold(t[i].text) = comma
    BY Zenon DEF IsComma, Is, comma
<1>3. comma \notin Opens /\ comma \notin Closes
    BY <1>1, Zenon DEF comma
<1>4. \A b : Is(t[i], b) => Fold(t[i].text) = b
    BY Zenon DEF Is
<1> HIDE DEF comma
<1> QED BY <1>2, <1>3, <1>4, Zenon DEF IsAt

\* Where the tokens of an item are in its list.
LEMMA ItemsAreBetween ==
    ASSUME NEW X, NEW list \in Seq(X), NEW items, Len(items) \in Nat,
           NEW commas, AreBetween(list, items, commas)
    PROVE  /\ \A k \in 0..Len(items) : commas[k] \in 0..(Len(list) + 1)
           /\ \A k \in 1..Len(items) :
                /\ commas[k - 1] < commas[k]
                /\ items[k] \in Seq(X) /\ Len(items[k]) = (commas[k] - commas[k - 1]) - 1
                /\ \A j \in 1..Len(items[k]) : items[k][j] = list[commas[k - 1] + j]
<1> DEFINE m == Len(items)
           n == Len(list)
<1>1. /\ m \in Nat /\ n \in Nat /\ Ascend(m, commas) /\ commas[0] = 0 /\ commas[m] = n + 1
      /\ \A k \in 1..m : items[k] = SubSeq(list, commas[k - 1] + 1, commas[k] - 1)
    BY DEF AreBetween
<1>2. \A i \in 1..n : list[i] \in X
    OBVIOUS
<1> HIDE DEF m, n
<1>3. \A k \in 0..m : commas[k] \in Nat /\ (k < m => commas[k] < commas[k + 1])
    BY <1>1 DEF Ascend
<1>4. ASSUME NEW k \in 0..m
      PROVE  commas[k] \in 0..(n + 1)
    <2>1. CASE k = m
        BY <2>1, <1>1
    <2>2. CASE k # m
        <3>1. k < m /\ m \in 0..m
            BY <2>2, <1>1
        <3>2. commas[k] < commas[m]
            BY <3>1, <1>1, AscendingOn
        <3>3. commas[k] \in Nat
            BY <1>3
        <3> QED BY <3>2, <3>3, <1>1
    <2> QED BY <2>1, <2>2
<1>5. ASSUME NEW k \in 1..m
      PROVE  /\ commas[k - 1] < commas[k]
             /\ items[k] \in Seq(X) /\ Len(items[k]) = (commas[k] - commas[k - 1]) - 1
             /\ \A j \in 1..Len(items[k]) : items[k][j] = list[commas[k - 1] + j]
    <2> DEFINE a == commas[k - 1]
               b == commas[k]
    <2>1. a \in 0..(n + 1) /\ b \in 0..(n + 1) /\ a < b
        <3>1. k - 1 \in 0..m /\ k \in 0..m /\ k - 1 < m /\ (k - 1) + 1 = k
            BY <1>1
        <3> QED BY <3>1, <1>3, <1>4
    <2>2. items[k] = SubSeq(list, a + 1, b - 1)
        BY <1>1
    <2> HIDE DEF a, b
    <2>3. a + 1 \in Int /\ b - 1 \in Int /\ \A i \in (a + 1)..(b - 1) : i \in 1..n
        BY <2>1, <1>1
    <2>4. \A i \in (a + 1)..(b - 1) : list[i] \in X
        BY <2>3, <1>2
    <2>5. /\ SubSeq(list, a + 1, b - 1) \in Seq(X)
          /\ Len(SubSeq(list, a + 1, b - 1)) = IF a + 1 <= b - 1 THEN (b - 1) - (a + 1) + 1 ELSE 0
          /\ \A j \in 1..((b - 1) - (a + 1) + 1) : SubSeq(list, a + 1, b - 1)[j] = list[(a + 1) + j - 1]
        BY <2>3, <2>4, SubSeqProperties
    <2>6. Len(items[k]) = (b - a) - 1
        <3>1. (IF a + 1 <= b - 1 THEN (b - 1) - (a + 1) + 1 ELSE 0) = (b - a) - 1
            BY <2>1, <1>1
        <3> QED BY <3>1, <2>2, <2>5
    <2>7. ASSUME NEW j \in 1..Len(items[k])
          PROVE  items[k][j] = list[a + j]
        <3>1. j \in 1..((b - 1) - (a + 1) + 1) /\ (a + 1) + j - 1 = a + j
            BY <2>1, <2>6, <1>1
        <3>2. SubSeq(list, a + 1, b - 1)[j] = list[(a + 1) + j - 1]
            BY <3>1, <2>5
        <3> QED BY <3>1, <3>2, <2>2
    <2> QED BY <2>1, <2>2, <2>5, <2>6, <2>7 DEF a, b
<1> QED BY <1>4, <1>5 DEF m, n

\* In front of every item of a list all brackets are closed.
LEMMA ItemsBeginOutside ==
    ASSUME NEW X, NEW list \in Seq(X), NEW items, Len(items) \in Nat,
           NEW commas, AreBetween(list, items, commas), \A k \in 1..Len(items) : IsItem(items[k])
    PROVE  \A k \in 1..Len(items) : /\ DepthIn(list, commas[k - 1] + 1) = 0
                                    /\ DepthIn(list, commas[k]) = 0
<1> DEFINE m == Len(items)
           Done == {k \in 0..m : k < m => DepthIn(list, commas[k] + 1) = 0}
<1>1. /\ m \in Nat /\ commas[0] = 0
      /\ \A k \in 1..m : k < m => IsComma(list[commas[k]])
    BY DEF AreBetween
<1>2. /\ \A k \in 0..m : commas[k] \in 0..(Len(list) + 1)
      /\ \A k \in 1..m : /\ commas[k - 1] < commas[k]
                         /\ items[k] \in Seq(X) /\ Len(items[k]) = (commas[k] - commas[k - 1]) - 1
                         /\ \A j \in 1..Len(items[k]) : items[k][j] = list[commas[k - 1] + j]
    BY ItemsAreBetween
<1>3. \A k \in 1..m : IsItem(items[k])
    OBVIOUS
<1> HIDE DEF m
<1>4. ASSUME NEW k \in 1..m, DepthIn(list, commas[k - 1] + 1) = 0
      PROVE  DepthIn(list, commas[k]) = 0
    <2> DEFINE a == commas[k - 1]
               b == commas[k]
               item == items[k]
               l == Len(item)
    <2>1. a \in Nat /\ b \in Nat /\ l \in Nat /\ l = (b - a) - 1 /\ \A j \in 1..l : item[j] = list[a + j]
        <3>1. k - 1 \in 0..m /\ k \in 0..m
            BY <1>1
        <3>2. item \in Seq(X)
            BY <1>2
        <3>3. l \in Nat
            BY <3>2
        <3> QED BY <3>1, <3>3, <1>2
    <2>2. DepthIn(item, l + 1) = 0
        BY <1>3 DEF IsItem
    <2>3. DepthIn(list, a + 1) = 0
        BY <1>4
    <2> HIDE DEF a, b, item, l
    <2>4. Depth(list, a + l + 1, Opens, Closes)
            = Depth(list, a + 1, Opens, Closes) + Depth(item, l + 1, Opens, Closes)
        <3>1. l \in 0..l
            BY <2>1
        <3>2. IsWithin(list, a, item, l)
            BY <2>1 DEF IsWithin
        <3>3. \A i \in 0..l : Depth(list, a + i + 1, Opens, Closes)
                = Depth(list, a + 1, Opens, Closes) + Depth(item, i + 1, Opens, Closes)
            BY <3>2, <2>1, DepthWithin
        <3> QED BY <3>1, <3>3
    <2>5. a + l + 1 = b
        BY <2>1
    <2> QED BY <2>2, <2>3, <2>4, <2>5 DEF DepthIn, b
<1>5. 0 \in Done
    <2>1. DepthIn(list, 1) = 0
        <3>1. 1 \in Nat \ {0}
            OBVIOUS
        <3> QED BY <3>1, DepthGoesOn DEF DepthIn
    <2>2. commas[0] + 1 = 1 /\ 0 \in 0..m
        BY <1>1
    <2> QED BY <2>1, <2>2
<1>6. ASSUME NEW k \in 0..m, k \in Done, k < m
      PROVE  k + 1 \in Done
    <2> DEFINE h == k + 1
    <2>1. h \in 1..m /\ h - 1 = k /\ DepthIn(list, commas[k] + 1) = 0
        BY <1>6, <1>1
    <2> HIDE DEF h, Done
    <2>2. DepthIn(list, commas[h]) = 0
        BY <2>1, <1>4
    <2>3. CASE h < m
        <3>1. IsComma(list[commas[h]])
            BY <2>1, <2>3, <1>1
        <3>2. ~IsAt(list, Opens, commas[h]) /\ ~IsAt(list, Closes, commas[h])
            BY <3>1, CommasAreNoBrackets
        <3>3. commas[h] \in Nat \ {0}
            <4>1. h \in 0..m /\ k \in 0..m /\ commas[h] \in Nat /\ commas[k] \in Nat
                BY <2>1, <1>1, <1>2
            <4>2. commas[k] < commas[h]
                BY <2>1, <1>2
            <4> QED BY <4>1, <4>2
        <3>4. DepthIn(list, commas[h] + 1) = 0
            <4>1. DepthIn(list, commas[h] + 1) = DepthIn(list, commas[h]) + 0 - 0
                BY <3>2, <3>3, DepthGoesOn DEF DepthIn
            <4> QED BY <4>1, <2>2
        <3>5. h \in Done
            BY <3>4, <2>1 DEF Done
        <3> QED BY <3>5 DEF h
    <2>4. CASE ~(h < m)
        <3>1. h \in Done
            BY <2>4, <2>1 DEF Done
        <3> QED BY <3>1 DEF h
    <2> QED BY <2>3, <2>4
<1>7. 0..m \subseteq Done
    <2> HIDE DEF Done
    <2> QED BY <1>1, <1>5, <1>6, CountingUp
<1>8. ASSUME NEW k \in 1..m
      PROVE  DepthIn(list, commas[k - 1] + 1) = 0 /\ DepthIn(list, commas[k]) = 0
    <2> DEFINE h == k - 1
    <2>1. h \in 0..m /\ h < m
        BY <1>1
    <2>2. h \in Done
        BY <2>1, <1>7
    <2>3. DepthIn(list, commas[h] + 1) = 0
        BY <2>1, <2>2
    <2> QED BY <2>3, <1>4
<1> QED BY <1>8 DEF m

\* Every place of a list is that of an item, or of the comma behind it.
LEMMA PlaceOfAnItem ==
    ASSUME NEW m \in Nat, NEW q, Ascend(m, q), q[0] = 0, NEW i \in Nat \ {0}, i < q[m]
    PROVE  \E k \in 1..m : q[k - 1] < i /\ i <= q[k]
<1> DEFINE T == {k \in 0..m : i <= q[k]}
<1>1. \A k \in 0..m : q[k] \in Nat
    BY DEF Ascend
<1>2. m \in T
    <2>1. m \in 0..m
        OBVIOUS
    <2> QED BY <2>1, <1>1
<1>3. PICK k \in T : \A j \in T : k <= j
    <2>1. T \subseteq Nat /\ T # {}
        BY <1>2
    <2> HIDE DEF T
    <2> QED BY <2>1, SomeNumberIsLeast
<1>4. k \in 0..m /\ i <= q[k]
    OBVIOUS
<1>5. k # 0
    BY <1>4
<1> DEFINE h == k - 1
<1>6. h \in 0..m /\ h < k
    BY <1>4, <1>5
<1>7. ~(i <= q[h])
    <2>1. h \notin T
        <3> HIDE DEF T, h
        <3>1. k \in Nat /\ h \in Nat
            BY <1>4, <1>6
        <3> QED BY <3>1, <1>3, <1>6
    <2> HIDE DEF h
    <2> QED BY <2>1, <1>6
<1>8. q[h] < i
    <2> HIDE DEF h
    <2>1. q[h] \in Nat
        BY <1>1, <1>6
    <2> QED BY <2>1, <1>7
<1> QED BY <1>4, <1>5, <1>8

\* The places split_select_list cuts a list at.
Cuts(list) ==
    {0, Len(list) + 1}
    \cup {i \in DOMAIN list : Is(list[i], ",") /\ Depth(list, i, {"(", "["}, {")", "]"}) = 0}

\* split_select_list finds the items of a list.
LEMMA ItemsAreSplit ==
    ASSUME NEW X, NEW list \in Seq(X), NEW items \in Seq(Seq(X)),
           AreItems(list, items), \A k \in 1..Len(items) : IsItem(items[k])
    PROVE  SplitSelectList(list) = items
<1> DEFINE m == Len(items)
           n == Len(list)
<1>1. PICK commas : AreBetween(list, items, commas)
    BY DEF AreItems
<1>2. /\ m \in Nat /\ n \in Nat /\ Ascend(m, commas) /\ commas[0] = 0 /\ commas[m] = n + 1
      /\ \A k \in 1..m : /\ items[k] = SubSeq(list, commas[k - 1] + 1, commas[k] - 1)
                         /\ k < m => IsComma(list[commas[k]])
    BY <1>1 DEF AreBetween
<1>3. /\ \A k \in 0..m : commas[k] \in 0..(n + 1)
      /\ \A k \in 1..m : /\ commas[k - 1] < commas[k]
                         /\ items[k] \in Seq(X) /\ Len(items[k]) = (commas[k] - commas[k - 1]) - 1
                         /\ \A j \in 1..Len(items[k]) : items[k][j] = list[commas[k - 1] + j]
    BY <1>1, <1>2, ItemsAreBetween
<1>4. \A k \in 1..m : DepthIn(list, commas[k - 1] + 1) = 0 /\ DepthIn(list, commas[k]) = 0
    BY <1>1, <1>2, ItemsBeginOutside
<1> DEFINE Bare == {i \in 1..n : IsComma(list[i]) /\ DepthIn(list, i) = 0}
<1>5. Cuts(list) = {0, n + 1} \cup Bare
    <2>1. DOMAIN list = 1..n
        OBVIOUS
    <2>2. \A i : DepthIn(list, i) = Depth(list, i, {"(", "["}, {")", "]"})
        BY Zenon DEF DepthIn, Opens, Closes
    <2>3. \A i : IsComma(list[i]) <=> Is(list[i], ",")
        BY Zenon DEF IsComma
    <2>4. Bare = {i \in DOMAIN list : Is(list[i], ",") /\ Depth(list, i, {"(", "["}, {")", "]"}) = 0}
        BY <2>1, <2>2, <2>3, Zenon
    <2> HIDE DEF Bare
    <2> QED BY <2>4, Zenon DEF Cuts, n
<1>10. \A k \in 1..m : IsItem(items[k])
    OBVIOUS
<1> HIDE DEF m, n
<1>6. ASSUME NEW k \in 1..m, k < m
      PROVE  commas[k] \in Bare
    <2>1. k \in 0..m /\ k - 1 \in 0..m /\ m \in 0..m
        BY <1>2
    <2>2. commas[k] < commas[m] /\ commas[k - 1] < commas[k]
        BY <2>1, <1>2, <1>3, <1>6, AscendingOn
    <2>3. commas[k] \in 1..n
        <3>1. commas[k] \in 0..(n + 1) /\ commas[k - 1] \in 0..(n + 1)
            BY <2>1, <1>3
        <3> QED BY <2>2, <3>1, <1>2
    <2> QED BY <2>3, <1>2, <1>4, <1>6
<1>7. ASSUME NEW i \in Bare
      PROVE  \E k \in 0..m : i = commas[k]
    <2>1. i \in 1..n /\ IsComma(list[i]) /\ DepthIn(list, i) = 0
        OBVIOUS
    <2> HIDE DEF Bare
    <2>2. i \in Nat \ {0} /\ i < commas[m]
        BY <2>1, <1>2
    <2>3. PICK k \in 1..m : commas[k - 1] < i /\ i <= commas[k]
        BY <2>2, <1>2, PlaceOfAnItem
    <2> SUFFICES ASSUME i # commas[k] PROVE FALSE
        <3>1. k \in 0..m
            BY <1>2
        <3> QED BY <3>1
    <2> DEFINE a == commas[k - 1]
               b == commas[k]
               item == items[k]
               l == Len(item)
               j == i - a
    <2>4. a \in Nat /\ b \in Nat /\ a < i /\ i < b
        <3>1. k - 1 \in 0..m /\ k \in 0..m
            BY <1>2
        <3>2. a \in 0..(n + 1) /\ b \in 0..(n + 1)
            BY <3>1, <1>3
        <3>3. a < i /\ i <= b /\ i # b
            BY <2>3
        <3> HIDE DEF a, b
        <3> QED BY <3>2, <3>3, <2>2, <1>2
    <2>5. /\ item \in Seq(X) /\ l = (b - a) - 1 /\ \A d \in 1..l : item[d] = list[a + d]
          /\ IsItem(item) /\ DepthIn(list, a + 1) = 0
        BY <1>3, <1>4, <1>10
    <2>6. DOMAIN item = 1..l
        BY <2>5
    <2> HIDE DEF a, b, item, l
    <2>7. j \in 1..l /\ a + j = i /\ j \in Nat /\ l \in Nat /\ j - 1 \in 0..l /\ a + (j - 1) + 1 = i
          /\ (j - 1) + 1 = j
        BY <2>2, <2>4, <2>5
    <2> HIDE DEF j
    <2>8. IsComma(item[j])
        BY <2>1, <2>5, <2>7
    <2>9. DepthIn(item, j) # 0
        BY <2>5, <2>6, <2>7, <2>8 DEF IsItem
    <2>10. Depth(list, a + (j - 1) + 1, Opens, Closes)
             = Depth(list, a + 1, Opens, Closes) + Depth(item, (j - 1) + 1, Opens, Closes)
        <3>1. IsWithin(list, a, item, l)
            BY <2>5 DEF IsWithin
        <3>2. \A d \in 0..l : Depth(list, a + d + 1, Opens, Closes)
                = Depth(list, a + 1, Opens, Closes) + Depth(item, d + 1, Opens, Closes)
            BY <3>1, <2>4, <2>7, DepthWithin
        <3> QED BY <3>2, <2>7
    <2>11. DepthIn(list, i) = DepthIn(list, a + 1) + DepthIn(item, j)
        BY <2>7, <2>10 DEF DepthIn
    <2>12. DepthIn(item, j) \in Int
        <3>1. j \in Nat \ {0}
            BY <2>7
        <3> QED BY <3>1, DepthGoesOn DEF DepthIn
    <2> QED BY <2>1, <2>5, <2>9, <2>11, <2>12
<1>8. Cuts(list) = {commas[k] : k \in 0..m}
    <2>1. ASSUME NEW k \in 0..m
          PROVE  commas[k] \in {0, n + 1} \cup Bare
        <3>1. k = 0 \/ k = m \/ (k \in 1..m /\ k < m)
            BY <1>2
        <3> HIDE DEF Bare
        <3> QED BY <3>1, <1>2, <1>6
    <2>2. \E k \in 0..m : 0 = commas[k]
        <3>1. 0 \in 0..m
            BY <1>2
        <3> QED BY <3>1, <1>2
    <2>3. \E k \in 0..m : n + 1 = commas[k]
        <3>1. m \in 0..m
            BY <1>2
        <3> QED BY <3>1, <1>2
    <2> HIDE DEF Bare
    <2> QED BY <2>1, <2>2, <2>3, <1>5, <1>7
<1> HIDE DEF Bare
<1> DEFINE cuts == Cuts(list)
<1>9. Cardinality(cuts) = m + 1 /\ \A k \in 0..m : Nth(cuts, k) = commas[k]
    <2>1. IsRange(cuts, m, commas)
        BY <1>8 DEF IsRange
    <2> HIDE DEF cuts
    <2> QED BY <2>1, <1>2, CutsAreCounted
<1>11. SplitSelectList(list) = [k \in 1..(Cardinality(cuts) - 1) |-> 
                                    SubSeq(list, Nth(cuts, k - 1) + 1, Nth(cuts, k) - 1)]
    BY Zenon DEF SplitSelectList, Cuts, Nth
<1>12. (m + 1) - 1 = m /\ \A k \in 1..m : k - 1 \in 0..m /\ k \in 0..m
    BY <1>2
<1>13. \A k \in 1..m : SubSeq(list, Nth(cuts, k - 1) + 1, Nth(cuts, k) - 1) = items[k]
    BY <1>2, <1>9, <1>12
<1>14. SplitSelectList(list) = [k \in 1..m |-> items[k]]
    <2> HIDE DEF cuts
    <2> QED BY <1>9, <1>11, <1>12, <1>13
<1>15. items = [k \in 1..m |-> items[k]]
    BY DEF m
<1> QED BY <1>14, <1>15

-----------------------------------------------------------------------------
(* The names of RETURNING                                                  *)

\* What a RETURNING item looks like.
IsConstant(item) == Len(item) = 1 /\ \E word \in {"null", "true", "false"} : Is(item[1], word)
IsStar(item) == Is(Last(item), "*")
IsAliased(item) == Len(item) >= 2 /\ Is(item[Len(item) - 1], "as") /\ IsNameToken(Last(item))
IsOfTarget(tokens, item) ==
    Len(item) = 1 \/ <<SubSeq(item, 1, Len(item) - 2)>> = DmlTargetTable(tokens)

\* The names PostgreSQL gives the columns that an item makes, which are one at
\* least: an alias; of a column its name; of * all of the target table's, and
\* of * alone those of other tables with them.
MakesColumns(tokens, item, labels) ==
    /\ labels # <<>>
    /\ item # <<>> /\ IsStar(item) /\ IsOfTarget(tokens, item) =>
        \A columns \in ToSet(StarColumns(tokens)) :
            Len(columns) <= Len(labels) /\ (Len(columns) = Len(labels) => columns = labels)
    /\ item # <<>> /\ (IsAliased(item) \/ (IsColumnReference(item) /\ ~IsConstant(item))) =>
        labels = <<NormaliseName(Last(item))>>

\* The first RETURNING outside of parentheses, or none.
IsReturning(tokens, i) == Is(tokens[i], "returning") /\ Depth(tokens, i, {"("}, {")"}) = 0
IsClause(tokens, at) ==
    /\ at \in DOMAIN tokens /\ IsReturning(tokens, at)
    /\ \A i \in 1..(at - 1) : ~IsReturning(tokens, i)

\* The list behind RETURNING has these items, which make columns of these names.
AreReturned(s, at, items, labels) ==
    /\ IsClause(s.tokens, at)
    /\ items \in Seq(Seq(ToSet(s.tokens))) /\ AreItems(SubSeq(s.tokens, at + 1, Len(s.tokens)), items)
    /\ \A k \in 1..Len(items) : IsItem(items[k])
    /\ labels \in Seq(Seq(STRING)) /\ Len(labels) = Len(items)
    /\ \A k \in 1..Len(items) : MakesColumns(s.tokens, items[k], labels[k])
    /\ Len(s.columns) = Len(FlattenSeq(labels))
    /\ \A i \in DOMAIN s.columns : s.columns[i].label = FlattenSeq(labels)[i]

\* A write as PostgreSQL has it: what follows RETURNING is a list of items, and
\* its columns have the names of what they make.
ReturnsItems(s) ==
    /\ s.tokens \in Seq(ToSet(s.tokens))
    /\ Len(s.columns) \in Nat /\ DOMAIN s.columns = 1..Len(s.columns)
    /\ \/ \A i \in DOMAIN s.tokens : ~IsReturning(s.tokens, i)
       \/ \E at, items, labels : AreReturned(s, at, items, labels)

\* What a column without a name is called.
Nameless == "?column?"

\* What the names of an item are to those of its columns.
AreNamesOf(names, labels) ==
    /\ Len(names) <= Len(labels)
    /\ Len(names) = Len(labels) => \A j \in 1..Len(names) : names[j] \in {labels[j], Nameless}

\* names(item) of ExpandReturning.
NamesOf(class, columns) ==
    CASE class.kind = "Named"   -> <<class.name>>
      [] class.kind = "Unnamed" -> <<"?column?">>
      [] class.kind = "Star"    -> columns[1]

\* IsMisnamed, of any statement.
Misnamed(tokens, item) ==
    \/ Len(item) > 1 /\ IsStar(item) /\ ~IsOfTarget(tokens, item)
    \/ IsConstant(item)

\* The names of the three classes of items.
LEMMA Classes ==
    /\ \A name, columns : NamesOf(Named(name), columns) = <<name>>
    /\ \A columns : NamesOf(Unnamed, columns) = <<Nameless>>
    /\ \A columns : NamesOf(Star, columns) = columns[1]
    /\ \A name : Named(name) # Star
    /\ Unnamed # Star
<1>1. "Named" # "Unnamed" /\ "Named" # "Star" /\ "Unnamed" # "Star"
    BY Zenon
<1>2. /\ \A name : Named(name).kind = "Named" /\ Named(name).name = name
      /\ Unnamed.kind = "Unnamed" /\ Star.kind = "Star"
    BY DEF Named, Unnamed, Star
<1>3. \A name, columns : NamesOf(Named(name), columns) = <<name>>
    BY <1>1, <1>2 DEF NamesOf
<1>4. \A columns : NamesOf(Unnamed, columns) = <<Nameless>>
    BY <1>1, <1>2 DEF NamesOf, Nameless
<1>5. \A columns : NamesOf(Star, columns) = columns[1]
    BY <1>1, <1>2 DEF NamesOf
<1> QED BY <1>1, <1>2, <1>3, <1>4, <1>5

\* One name, the column's or none, is a name of its item.
LEMMA OneName ==
    ASSUME NEW X, NEW labels \in Seq(X), labels # <<>>, NEW name, name \in {labels[1], Nameless}
    PROVE  AreNamesOf(<<name>>, labels)
<1>1. Len(labels) \in Nat /\ Len(labels) >= 1 /\ Len(<<name>>) = 1 /\ <<name>>[1] = name
    OBVIOUS
<1> QED BY <1>1 DEF AreNamesOf

\* classify_returning_item gives an item no more names than it makes columns,
\* and if as many, theirs.
LEMMA ItemIsNamed ==
    ASSUME NEW tokens, NEW X, NEW item \in Seq(X), NEW labels \in Seq(STRING), MakesColumns(tokens, item, labels),
           ~Misnamed(tokens, item),
           ClassifyReturningItem(item) = Star => StarColumns(tokens) # <<>>
    PROVE  LET names == NamesOf(ClassifyReturningItem(item), StarColumns(tokens))
           IN  names \in Seq(STRING \cup {Nameless}) /\ AreNamesOf(names, labels)
<1>1. labels # <<>> /\ labels \in Seq(STRING \cup {Nameless}) /\ labels[1] \in STRING
    <2>1. labels # <<>>
        BY DEF MakesColumns
    <2>2. Len(labels) \in Nat /\ \A k \in 1..Len(labels) : labels[k] \in STRING \cup {Nameless}
        OBVIOUS
    <2> QED BY <2>1, <2>2
<1>2. ASSUME NEW name \in {labels[1], Nameless}
      PROVE  <<name>> \in Seq(STRING \cup {Nameless}) /\ AreNamesOf(<<name>>, labels)
    <2>1. name \in STRING \cup {Nameless}
        BY <1>1
    <2> QED BY <2>1, <1>1, OneName
<1>3. CASE ClassifyReturningItem(item) = Unnamed
    BY <1>2, <1>3, Classes
<1>4. CASE item # <<>> /\ IsStar(item) /\ ClassifyReturningItem(item) = Star
    <2>1. StarColumns(tokens) # <<>>
        BY <1>4
    <2>2. PICK table \in DOMAIN Tables : StarColumns(tokens) = <<Tables[table]>>
        BY <2>1 DEF StarColumns
    <2> DEFINE columns == Tables[table]
    <2>3. columns \in Seq(STRING) /\ columns \in ToSet(StarColumns(tokens)) /\ StarColumns(tokens)[1] = columns
        <3>1. columns \in Seq(STRING)
            BY DeliveryAssumption
        <3>2. columns \in ToSet(<<columns>>)
            <4>1. DOMAIN <<columns>> = {1} /\ <<columns>>[1] = columns
                OBVIOUS
            <4> QED BY <4>1 DEF ToSet
        <3> QED BY <3>1, <3>2, <2>2
    <2>4. IsOfTarget(tokens, item)
        <3>2. Len(item) \in Nat /\ Len(item) # 0
            BY <1>4, EmptySeq
        <3>3. \A l \in Nat : l # 0 => l = 1 \/ l > 1
            OBVIOUS
        <3>1. Len(item) = 1 \/ Len(item) > 1
            BY <3>2, <3>3
        <3> QED BY <3>1, <1>4 DEF Misnamed, IsOfTarget
    <2>5. Len(columns) <= Len(labels) /\ (Len(columns) = Len(labels) => columns = labels)
        BY <1>4, <2>3, <2>4 DEF MakesColumns
    <2>6. AreNamesOf(columns, labels)
        BY <2>5, <2>3 DEF AreNamesOf
    <2>7. columns \in Seq(STRING \cup {Nameless})
        <3>1. Len(columns) \in Nat /\ \A k \in 1..Len(columns) : columns[k] \in STRING \cup {Nameless}
            BY <2>3
        <3> QED BY <3>1, <2>3
    <2> QED BY <1>4, <2>3, <2>6, <2>7, Classes
<1>5. CASE item # <<>> /\ (IsAliased(item) \/ IsColumnReference(item))
           /\ ClassifyReturningItem(item) = Named(NormaliseName(Last(item)))
    <2>1. labels = <<NormaliseName(Last(item))>>
        BY <1>5 DEF MakesColumns, Misnamed
    <2>2. NormaliseName(Last(item)) = labels[1]
        BY <2>1
    <2> QED BY <2>2, <1>2, <1>5, Classes
<1>6. \/ ClassifyReturningItem(item) = Unnamed
      \/ item # <<>> /\ IsStar(item) /\ ClassifyReturningItem(item) = Star
      \/ /\ item # <<>> /\ (IsAliased(item) \/ IsColumnReference(item))
         /\ ClassifyReturningItem(item) = Named(NormaliseName(Last(item)))
    BY Zenon DEF ClassifyReturningItem, IsStar, IsAliased
<1> QED BY <1>3, <1>4, <1>5, <1>6

\* The items of a statement's RETURNING list, as returning_items has them.
LEMMA ItemsAreRead ==
    ASSUME NEW tokens, tokens \in Seq(ToSet(tokens)), NEW at, IsClause(tokens, at),
           NEW items \in Seq(Seq(ToSet(tokens))),
           AreItems(SubSeq(tokens, at + 1, Len(tokens)), items),
           \A k \in 1..Len(items) : IsItem(items[k])
    PROVE  /\ ReturningOffset(tokens) = <<at>>
           /\ SplitSelectList(SubSeq(tokens, at + 1, Len(tokens))) = items
           /\ ReturningItems(tokens) = <<[k \in DOMAIN items |-> ClassifyReturningItem(items[k])]>>
<1> DEFINE X == ToSet(tokens)
           n == Len(tokens)
           Places == {i \in DOMAIN tokens : IsReturning(tokens, i)}
<1>1. n \in Nat /\ DOMAIN tokens = 1..n /\ at \in 1..n /\ \A i \in 1..n : tokens[i] \in X
    BY DEF IsClause
<1> HIDE DEF X, n
<1>2. Min(Places) = at
    <2>1. at \in Places /\ \A i \in Places : i \in 1..n /\ ~(i \in 1..(at - 1))
        BY <1>1 DEF IsClause
    <2>2. Places \subseteq Nat /\ Places # {}
        BY <2>1, <1>1
    <2> HIDE DEF Places
    <2>3. Min(Places) \in Places /\ \A i \in Places : Min(Places) <= i
        BY <2>2, MinIsLeast
    <2> DEFINE least == Min(Places)
    <2>4. least <= at /\ least \in 1..n /\ ~(least \in 1..(at - 1))
        BY <2>1, <2>3
    <2> HIDE DEF least
    <2>5. least = at
        BY <2>4, <1>1
    <2> QED BY <2>5 DEF least
<1>3. at \in Places
    BY <1>1 DEF IsClause
<1>4. ReturningOffset(tokens) = IF Places = {} THEN <<>> ELSE <<Min(Places)>>
    BY Zenon DEF ReturningOffset, IsReturning
<1> HIDE DEF Places
<1>5. ReturningOffset(tokens) = <<at>>
    BY <1>2, <1>3, <1>4
<1> DEFINE list == SubSeq(tokens, at + 1, Len(tokens))
<1>6. list \in Seq(X)
    <2>1. at + 1 \in Int /\ n \in Int /\ \A i \in (at + 1)..n : tokens[i] \in X
        BY <1>1
    <2>2. SubSeq(tokens, at + 1, n) \in Seq(X)
        BY <2>1, SubSeqProperties
    <2> QED BY <2>2 DEF n
<1>7. SplitSelectList(list) = items
    <2>1. items \in Seq(Seq(X)) /\ AreItems(list, items)
        BY DEF X
    <2> HIDE DEF list
    <2> QED BY <2>1, <1>6, ItemsAreSplit
<1>8. ReturningOffset(tokens) # <<>> /\ ReturningOffset(tokens)[1] = at
    BY <1>5
<1>9. ReturningItems(tokens)
        = <<[k \in DOMAIN SplitSelectList(list) |-> ClassifyReturningItem(SplitSelectList(list)[k])]>>
    BY <1>8, Zenon DEF ReturningItems
<1> HIDE DEF list
<1> QED BY <1>5, <1>7, <1>9 DEF list

\* A column's name, no name, or its place.
Fits(name, label, i) == name \in {label, Nameless, "column" \o ToString(i)}

\* A place fits its column.
LEMMA PlacesFit ==
    ASSUME NEW n, NEW i \in 1..n, NEW label
    PROVE  Fits(Positional(n)[i], label, i)
<1>1. Positional(n)[i] = "column" \o ToString(i)
    BY Zenon DEF Positional
<1> QED BY <1>1, Zenon DEF Fits

\* returning_fields: as many names as types are theirs, one by one, for no item
\* has more names than columns.
LEMMA NamesFit ==
    ASSUME NEW s, ReturnsItems(s),
           NEW offset, offset = ReturningOffset(s.tokens),
           NEW items, items = IF offset = <<>> THEN <<>>
                              ELSE SplitSelectList(SubSeq(s.tokens, offset[1] + 1, Len(s.tokens))),
           \A k \in DOMAIN items : ~Misnamed(s.tokens, items[k])
    PROVE  \A i \in DOMAIN s.columns :
                Fits(ReturningNames(s.tokens, StarColumns(s.tokens), Len(s.columns))[i],
                     s.columns[i].label, i)
<1> DEFINE tokens == s.tokens
           columns == StarColumns(tokens)
           n == Len(s.columns)
           read == ReturningItems(tokens)
           names == IF read = <<>> THEN <<>> ELSE ExpandReturning(read[1], columns)
           all == ReturningNames(tokens, columns, n)
<1>1. n \in Nat /\ DOMAIN s.columns = 1..n /\ tokens \in Seq(ToSet(tokens))
    BY DEF ReturnsItems
<1>2. all = IF Len(names) # n THEN Positional(n) ELSE names
    BY Zenon DEF ReturningNames
<1> SUFFICES ASSUME NEW i \in 1..n PROVE Fits(all[i], s.columns[i].label, i)
    BY <1>1
<1>3. CASE Len(names) # n
    BY <1>2, <1>3, PlacesFit
<1>4. CASE Len(names) = n
    <2>1. all = names
        BY <1>2, <1>4
    <2>2. read # <<>>
        <3>1. Len(<<>>) = 0
            OBVIOUS
        <3>2. n # 0
            BY <1>1
        <3> HIDE DEF n, read
        <3> QED BY <1>4, <3>1, <3>2
    <2>3. names = ExpandReturning(read[1], columns)
        BY <2>2
    <2>4. \E at, its, labels : AreReturned(s, at, its, labels)
        <3>1. CASE \A j \in DOMAIN tokens : ~IsReturning(tokens, j)
            <4>1. ReturningOffset(tokens) = <<>>
                <5>1. {j \in DOMAIN tokens : IsReturning(tokens, j)} = {}
                    BY <3>1
                <5> QED BY <5>1, Zenon DEF ReturningOffset, IsReturning
            <4>2. read = <<>>
                BY <4>1, Zenon DEF ReturningItems
            <4> QED BY <2>2, <4>2
        <3> QED BY <3>1 DEF ReturnsItems
    <2>5. PICK at, its, labels : AreReturned(s, at, its, labels)
        BY <2>4
    <2>6. /\ IsClause(tokens, at) /\ its \in Seq(Seq(ToSet(tokens)))
          /\ AreItems(SubSeq(tokens, at + 1, Len(tokens)), its) /\ \A k \in 1..Len(its) : IsItem(its[k])
          /\ labels \in Seq(Seq(STRING)) /\ Len(labels) = Len(its)
          /\ \A k \in 1..Len(its) : MakesColumns(tokens, its[k], labels[k])
          /\ n = Len(FlattenSeq(labels))
          /\ \A j \in DOMAIN s.columns : s.columns[j].label = FlattenSeq(labels)[j]
        BY <2>5 DEF AreReturned
    <2> DEFINE m == Len(its)
               classes == [k \in DOMAIN its |-> ClassifyReturningItem(its[k])]
               parts == [k \in DOMAIN classes |-> NamesOf(classes[k], columns)]
    <2> HIDE DEF n, tokens
    <2>7. ReturningOffset(tokens) = <<at>> /\ SplitSelectList(SubSeq(tokens, at + 1, Len(tokens))) = its
          /\ read = <<classes>>
        BY <1>1, <2>6, ItemsAreRead
    <2>8. m \in Nat /\ DOMAIN its = 1..m /\ DOMAIN classes = 1..m /\ DOMAIN parts = 1..m
          /\ \A k \in 1..m : its[k] \in Seq(ToSet(tokens)) /\ labels[k] \in Seq(STRING)
        BY <2>6
    <2>9. \A k \in 1..m : ~Misnamed(tokens, its[k])
        <3>1. offset # <<>> /\ offset[1] = at
            BY <2>7 DEF tokens
        <3>2. items = its
            BY <3>1, <2>7 DEF tokens
        <3> QED BY <3>2, <2>8 DEF tokens
    <2>10. names = IF columns = <<>> /\ \E k \in DOMAIN classes : classes[k] = Star THEN <<>>
                   ELSE FlattenSeq(parts)
        <3>1. read[1] = classes
            BY <2>7
        <3> HIDE DEF classes, read, columns, names
        <3>2. names = ExpandReturning(classes, columns)
            BY <2>3, <3>1, Zenon
        <3>3. ExpandReturning(classes, columns)
                = IF columns = <<>> /\ \E k \in DOMAIN classes : classes[k] = Star THEN <<>>
                  ELSE FlattenSeq(parts)
            BY Zenon DEF ExpandReturning, NamesOf
        <3> QED BY <3>2, <3>3, Zenon
    <2>11. ~(columns = <<>> /\ \E k \in DOMAIN classes : classes[k] = Star)
        <3>1. Len(<<>>) = 0 /\ n # 0
            BY <1>1
        <3> HIDE DEF names, columns, classes
        <3> QED BY <3>1, <2>10, <1>4
    <2>12. names = FlattenSeq(parts)
        BY <2>10, <2>11
    <2> DEFINE C == STRING \cup {Nameless}
    <2>13. ASSUME NEW k \in 1..m
           PROVE  parts[k] \in Seq(C) /\ AreNamesOf(parts[k], labels[k])
        <3>1. classes[k] = ClassifyReturningItem(its[k]) /\ parts[k] = NamesOf(classes[k], columns)
            BY <2>8
        <3>2. its[k] \in Seq(ToSet(tokens)) /\ labels[k] \in Seq(STRING) /\ ~Misnamed(tokens, its[k])
              /\ MakesColumns(tokens, its[k], labels[k])
            BY <2>6, <2>8, <2>9
        <3>3. classes[k] = Star => columns # <<>>
            BY <2>8, <2>11
        <3> HIDE DEF classes, parts
        <3> QED BY <3>1, <3>2, <3>3, ItemIsNamed
    <2> HIDE DEF classes, names, all
    <2>14. parts \in Seq(Seq(C)) /\ labels \in Seq(Seq(C)) /\ Len(parts) = m
        <3>1. parts = [k \in 1..m |-> parts[k]]
            BY <2>8
        <3> HIDE DEF parts, C
        <3>2. parts \in [1..m -> Seq(C)]
            BY <3>1, <2>13
        <3>3. \A k \in 1..m : labels[k] \in Seq(C)
            <4>1. \A l \in Seq(STRING) : l \in Seq(C)
                <5> SUFFICES ASSUME NEW l \in Seq(STRING) PROVE l \in Seq(C)
                    OBVIOUS
                <5>1. Len(l) \in Nat /\ l = [j \in 1..Len(l) |-> l[j]] /\ \A j \in 1..Len(l) : l[j] \in C
                    BY DEF C
                <5> QED BY <5>1
            <4> QED BY <4>1, <2>8
        <3>4. labels = [k \in 1..m |-> labels[k]]
            BY <2>6
        <3> QED BY <3>2, <3>3, <3>4, <2>8
    <2>15. \A k \in 1..Len(parts) : Len(parts[k]) <= Len(labels[k])
        BY <2>13, <2>14 DEF AreNamesOf
    <2>16. Len(FlattenSeq(parts)) = Len(FlattenSeq(labels)) /\ i \in 1..Len(FlattenSeq(parts))
        BY <1>4, <2>6, <2>12
    <2>17. AreParts(parts, labels, FlattenSeq(parts), FlattenSeq(labels), i)
        <3>1. Len(parts) = Len(labels)
            BY <2>6, <2>14
        <3> HIDE DEF parts, C
        <3> QED BY <3>1, <2>14, <2>15, <2>16, FlattenedInParts
    <2>18. PICK k \in 1..m : \E j \in 1..Len(parts[k]) :
                /\ Len(parts[k]) = Len(labels[k])
                /\ FlattenSeq(parts)[i] = parts[k][j] /\ FlattenSeq(labels)[i] = labels[k][j]
        BY <2>14, <2>17 DEF AreParts
    <2> HIDE DEF parts
    <2>19. FlattenSeq(parts)[i] \in {FlattenSeq(labels)[i], Nameless}
        BY <2>13, <2>18 DEF AreNamesOf
    <2>20. s.columns[i].label = FlattenSeq(labels)[i]
        BY <1>1, <2>6
    <2>21. all[i] \in {s.columns[i].label, Nameless}
        BY <2>1, <2>12, <2>19, <2>20
    <2> QED BY <2>21, Zenon DEF Fits
<1> QED BY <1>3, <1>4

\* For every write whose RETURNING list is PostgreSQL's, of any length, Describe
\* never gives a column another one's name: it has its own, "?column?" or its
\* place (returning_fields, expand_returning, split_select_list), an item of
\* IsMisnamed in the list aside.
THEOREM NamesAreTheirOwn ==
    ASSUME \A s : IsStatement(s) /\ s.kind # "read" => ReturnsItems(s)
    PROVE  Spec => []NamesAreNotMispaired
<1> DEFINE NInv == /\ ~IsRead => ReturnsItems(statement)
                   /\ told # <<>> /\ ~IsRead => told = <<ReturningFields>>
<1>1. Init => NInv
    BY DEF Init, IsRead
<1>2. NInv /\ [Next]_vars => NInv'
    <2> SUFFICES ASSUME NInv, [Next]_vars PROVE NInv'
        OBVIOUS
    <2>1. CASE DescribeStatement
        <3>1. statement' = statement /\ told' = <<IF IsRead THEN BuildFields(statement.columns) ELSE ReturningFields>>
            BY <2>1 DEF DescribeStatement
        <3>2. IsRead' = IsRead /\ ReturningFields' = ReturningFields
            BY <3>1 DEF IsRead, ReturningFields
        <3> QED BY <3>1, <3>2
    <2>2. CASE UNCHANGED <<statement, told>>
        <3>1. IsRead' = IsRead /\ ReturningFields' = ReturningFields
            BY <2>2 DEF IsRead, ReturningFields
        <3> QED BY <2>2, <3>1
    <2>3. DescribeStatement \/ UNCHANGED <<statement, told>>
        BY DEF Next, vars, Bind, Run, Fallback, FallbackFails, GiveUp
    <2> QED BY <2>1, <2>2, <2>3
<1>3. NInv => NamesAreNotMispaired
    <2> SUFFICES ASSUME NInv, told # <<>>, ~IsRead PROVE NamesAreNotMispaired
        BY DEF NamesAreNotMispaired
    <2> DEFINE tokens == statement.tokens
               offset == ReturningOffset(tokens)
               items == IF offset = <<>> THEN <<>>
                        ELSE SplitSelectList(SubSeq(tokens, offset[1] + 1, Len(tokens)))
               names == ReturningNames(tokens, StarColumns(tokens), Len(statement.columns))
    <2>1. ASSUME \A k \in DOMAIN items : ~IsMisnamed(items[k]), NEW i \in DOMAIN statement.columns
          PROVE  told[1][i].name \in {statement.columns[i].label, "?column?", "column" \o ToString(i)}
        <3>1. told[1] = ReturningFields
            OBVIOUS
        <3>2. ReturningFields[i].name = names[i]
            BY DEF ReturningFields
        <3>3. \A item : Misnamed(tokens, item) => IsMisnamed(item)
            BY Zenon DEF Misnamed, IsMisnamed, IsStar, IsOfTarget, IsConstant
        <3>4. \A k \in DOMAIN items : ~Misnamed(tokens, items[k])
            BY <2>1, <3>3
        <3>5. Fits(names[i], statement.columns[i].label, i)
            <4>1. ReturnsItems(statement)
                OBVIOUS
            <4> HIDE DEF NInv
            <4> QED BY <3>4, <4>1, NamesFit
        <3>6. told[1][i].name = names[i]
            BY <3>1, <3>2
        <3> HIDE DEF names
        <3> QED BY <3>5, <3>6, Zenon DEF Fits, Nameless
    <2> QED BY <2>1, Zenon DEF NamesAreNotMispaired
<1> QED BY <1>1, <1>2, <1>3, PTL DEF Spec

=============================================================================
