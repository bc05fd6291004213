--------------------------- MODULE DocumentsProofs ----------------------------
(***************************************************************************)
(* What holds of the way from texts to chunks and vectors, for any files,  *)
(* settings, parsers and vocabularies.                                     *)
(***************************************************************************)
EXTENDS Documents, ListsProofs


(***************************************************************************)
(* Numbers and words.                                                      *)
(***************************************************************************)

\* The least of some natural numbers, and the greatest where there is a bound.
LEMMA MinIsLeast ==
    ASSUME NEW S \in SUBSET Nat, S # {} PROVE Min(S) \in S /\ \A n \in S : Min(S) <= n
<1>1. \E n \in S : \A m \in S : n <= m
  BY LeastNumber
<1> QED BY <1>1 DEF Min

LEMMA MaxIsGreatest ==
    ASSUME NEW N \in Nat, NEW S \in SUBSET (0..N), S # {}
    PROVE  Max(S) \in S /\ \A n \in S : n <= Max(S)
<1> DEFINE T == {N - n : n \in S}
<1>1. T \in SUBSET Nat /\ T # {}
  <2>1. \A n \in S : N - n \in Nat
    OBVIOUS
  <2> QED BY <2>1, Zenon
<1>2. PICK t \in T : \A m \in T : t <= m
  BY <1>1, LeastNumber
<1>3. PICK x \in S : t = N - x
  BY <1>2
<1>4. \A n \in S : x >= n
  <2> SUFFICES ASSUME NEW n \in S PROVE x >= n
    OBVIOUS
  <2>1. N - n \in T
    OBVIOUS
  <2> HIDE DEF T
  <2>2. N - x <= N - n
    BY <1>2, <1>3, <2>1
  <2> QED BY <2>2
<1>5. Max(S) \in S /\ \A n \in S : Max(S) >= n
  BY <1>3, <1>4 DEF Max
<1> QED BY <1>5

Black(text, i) == i \in DOMAIN text /\ ~IsWhite(text[i])

\* A word begins at each start and has no whitespace in it; after it is some, or the end.
LEMMA WordIs ==
    ASSUME NEW text \in Seq(STRING), NEW s \in WordStarts(text)
    PROVE  LET e == WordEnd(text, s)
           IN  /\ e \in s..Len(text) /\ \A i \in s..e : Black(text, i)
               /\ e = Len(text) \/ IsWhite(text[e + 1])
<1> DEFINE S == {i \in s..Len(text) : i = Len(text) \/ IsWhite(text[i + 1])}
           e == WordEnd(text, s)
<1>1. Len(text) \in Nat /\ DOMAIN text = 1..Len(text)
  OBVIOUS
<1>2. s \in 1..Len(text) /\ Black(text, s)
  BY <1>1 DEF WordStarts, Black
<1>3. S \in SUBSET Nat /\ Len(text) \in S
  BY <1>1, <1>2
<1>4. e \in S /\ \A n \in S : e <= n
  BY <1>3, MinIsLeast DEF WordEnd
<1> HIDE DEF e
<1>7. e \in s..Len(text) /\ s \in Nat
  BY <1>2, <1>4
<1>8. e = Len(text) \/ IsWhite(text[e + 1])
  BY <1>4
<1> DEFINE P == {i \in 0..Len(text) : i <= e - s => Black(text, s + i)}
<1>5. 0..Len(text) \subseteq P
  <2>1. 0 \in P
    BY <1>1, <1>2
  <2>2. ASSUME NEW k \in 1..Len(text), k - 1 \in P PROVE k \in P
    <3> SUFFICES ASSUME k <= e - s PROVE Black(text, s + k)
      OBVIOUS
    <3>1. s + k - 1 \in s..Len(text) /\ s + k - 1 < e
      <4> HIDE DEF S, P
      <4>1. s \in Nat /\ e \in Nat /\ Len(text) \in Nat /\ k \in Nat /\ e <= Len(text) /\ 1 <= k /\ k <= e - s
        BY <1>1, <1>7
      <4> QED BY <4>1
    <3>2. s + k - 1 \notin S
      BY <1>4, <3>1
    <3>3. ~IsWhite(text[(s + k - 1) + 1]) /\ (s + k - 1) + 1 = s + k
      BY <1>1, <1>2, <3>1, <3>2
    <3>4. s + k \in DOMAIN text
      BY <1>1, <1>7, <3>1
    <3> QED BY <3>3, <3>4 DEF Black
  <2> HIDE DEF P
  <2> QED BY <1>1, <2>1, <2>2, Induction
<1>6. ASSUME NEW i \in s..e PROVE Black(text, i)
  <2>1. i - s \in 0..Len(text) /\ i - s <= e - s /\ s + (i - s) = i
    <3> HIDE DEF P, S
    <3> QED BY <1>1, <1>7
  <2>2. \A j \in 0..Len(text) : j <= e - s => Black(text, s + j)
    BY <1>5
  <2> QED BY <2>1, <2>2
<1> QED BY <1>6, <1>7, <1>8 DEF e

\* Each character of a word is in the word of some start.
LEMMA WordHasStart ==
    ASSUME NEW text \in Seq(STRING), NEW i, Black(text, i)
    PROVE  \E s \in WordStarts(text) : s <= i /\ i <= WordEnd(text, s)
<1> DEFINE S == {s \in 1..i : \A j \in s..i : Black(text, j)}
<1>1. Len(text) \in Nat /\ DOMAIN text = 1..Len(text) /\ i \in 1..Len(text)
  BY DEF Black
<1>2. S \in SUBSET Nat /\ i \in S
  BY <1>1
<1>3. PICK s \in S : \A m \in S : s <= m
  BY <1>2, LeastNumber
<1>4. s \in 1..i /\ \A j \in s..i : Black(text, j)
  BY <1>3
<1>5. s = 1 \/ IsWhite(text[s - 1])
  <2> SUFFICES ASSUME s # 1, ~IsWhite(text[s - 1]) PROVE FALSE
    OBVIOUS
  <2>1. s - 1 \in 1..i /\ s - 1 \in DOMAIN text /\ ~(s <= s - 1)
    BY <1>1, <1>4
  <2>2. Black(text, s - 1)
    BY <2>1 DEF Black
  <2>3. ASSUME NEW j \in s - 1..i PROVE Black(text, j)
    <3>1. j = s - 1 \/ j \in s..i
      BY <1>1, <1>4
    <3> QED BY <1>4, <2>2, <3>1
  <2>4. s - 1 \in S
    BY <2>1, <2>3
  <2> QED BY <1>3, <2>1, <2>4
<1>6. s \in WordStarts(text)
  BY <1>1, <1>4, <1>5 DEF WordStarts, Black
<1> DEFINE e == WordEnd(text, s)
<1>7. e \in s..Len(text)
  BY <1>6, WordIs
<1>8. e = Len(text) \/ IsWhite(text[e + 1])
  BY <1>6, WordIs
<1> HIDE DEF e, S
<1>9. i <= e
  <2> SUFFICES ASSUME e < i PROVE FALSE
    BY <1>1, <1>4, <1>7
  <2>2. s \in 1..i
    BY <1>4
  <2>3. s \in Nat /\ i \in Nat /\ e \in Nat
    BY <1>1, <1>7, <2>2
  <2>4. s <= e
    BY <1>7, <2>3
  <2>5. e + 1 \in s..i
    BY <2>3, <2>4
  <2>1. e + 1 \in s..i /\ e # Len(text)
    BY <1>1, <2>5
  <2> QED BY <1>4, <1>8, <2>1 DEF Black
<1> QED BY <1>4, <1>6, <1>9 DEF e

\* The words of a text: places of it that are not empty, in order, apart, and all that is
\* not whitespace.
Words(text, spans) ==
    /\ spans \in Seq(Nat \X Nat)
    /\ \A k \in 1..Len(spans) : spans[k][1] < spans[k][2] /\ spans[k][2] <= Len(text)
    /\ \A i : Black(text, i) => \E k \in 1..Len(spans) : spans[k][1] < i /\ i <= spans[k][2]
    /\ \A j, k \in 1..Len(spans) : j < k => spans[j][2] <= spans[k][1]

\* What the k-th of the words is, and that it ends before a later one begins.
LEMMA WordOf ==
    ASSUME NEW text, NEW spans, Words(text, spans), NEW k \in 1..Len(spans)
    PROVE  /\ spans[k] \in Nat \X Nat /\ spans[k][1] \in Nat /\ spans[k][2] \in Nat
           /\ spans[k][1] < spans[k][2] /\ spans[k][2] <= Len(text)
<1>1. spans[k][1] < spans[k][2] /\ spans[k][2] <= Len(text)
  BY DEF Words
<1> DEFINE Pairs == Nat \X Nat
<1>2. spans \in Seq(Pairs)
  BY DEF Words
<1> HIDE DEF Pairs
<1>3. spans[k] \in Pairs
  BY <1>2
<1>4. spans[k][1] \in Nat /\ spans[k][2] \in Nat
  BY <1>3 DEF Pairs
<1> QED BY <1>1, <1>3, <1>4 DEF Pairs

LEMMA WordsAreApart ==
    ASSUME NEW text, NEW spans, Words(text, spans),
           NEW j \in 1..Len(spans), NEW k \in 1..Len(spans), j < k
    PROVE  spans[j][2] <= spans[k][1]
BY DEF Words

LEMMA SpansAreWords == ASSUME NEW text \in Seq(STRING) PROVE Words(text, word_spans(text))
<1> DEFINE starts == Sorted(WordStarts(text))
           n == Cardinality(WordStarts(text))
           spans == word_spans(text)
           e(s) == WordEnd(text, s)
<1>1. Len(text) \in Nat /\ DOMAIN text = 1..Len(text)
  OBVIOUS
<1>2. WordStarts(text) \subseteq 1..Len(text)
  BY <1>1 DEF WordStarts
<1>3. IsFiniteSet(WordStarts(text))
  <2>1. IsFiniteSet(1..Len(text))
    BY <1>1, FS_Interval
  <2> QED BY <1>2, <2>1, FS_Subset
<1>4. Rises(WordStarts(text), starts)
  BY <1>1, <1>2, <1>3, SortedLists
<1>5. n \in Nat /\ starts \in [1..n -> WordStarts(text)]
  BY <1>4 DEF Rises
<1>6. spans = [k \in 1..n |-> <<starts[k] - 1, e(starts[k])>>]
  BY <1>5 DEF word_spans
<1>7. \A s \in WordStarts(text) : s \in 1..Len(text) /\ e(s) \in s..Len(text)
  BY <1>2, WordIs
<1> HIDE DEF starts, n, spans, e
<1>8. \A k \in 1..n : starts[k] \in WordStarts(text) /\ spans[k] = <<starts[k] - 1, e(starts[k])>>
  BY <1>5, <1>6
<1>9. ASSUME NEW k \in 1..n
      PROVE  spans[k] \in Nat \X Nat /\ spans[k][1] < spans[k][2] /\ spans[k][2] <= Len(text)
  <2>1. starts[k] \in 1..Len(text) /\ e(starts[k]) \in starts[k]..Len(text)
    BY <1>7, <1>8
  <2>2. starts[k] - 1 \in Nat /\ e(starts[k]) \in Nat /\ starts[k] - 1 < e(starts[k]) /\ e(starts[k]) <= Len(text)
    BY <1>1, <2>1
  <2>3. spans[k] = <<starts[k] - 1, e(starts[k])>>
    BY <1>8
  <2> QED BY <2>2, <2>3
<1>10. spans \in Seq(Nat \X Nat) /\ Len(spans) = n
  <2>1. spans \in [1..n -> Nat \X Nat]
    BY <1>6, <1>9
  <2> QED BY <1>5, <2>1
<1>11. ASSUME NEW i, Black(text, i) PROVE \E k \in 1..n : spans[k][1] < i /\ i <= spans[k][2]
  <2>1. PICK s \in WordStarts(text) : s <= i /\ i <= e(s)
    BY <1>11, WordHasStart DEF e
  <2>2. PICK k \in 1..n : starts[k] = s
    BY <1>4, <1>5 DEF Rises, n, starts
  <2>3. spans[k] = <<s - 1, e(s)>>
    BY <1>8, <2>2
  <2>4. s - 1 < i
    BY <1>1, <1>7, <1>11, <2>1 DEF Black
  <2> QED BY <2>1, <2>3, <2>4
<1>12. ASSUME NEW j \in 1..n, NEW k \in 1..n, j < k PROVE spans[j][2] <= spans[k][1]
  <2> DEFINE s == starts[j]
             t == starts[k]
  <2>1. s < t
    BY <1>4, <1>12 DEF Rises, n, starts
  <2>2. s \in WordStarts(text) /\ t \in WordStarts(text)
    BY <1>8
  <2>3. s \in 1..Len(text) /\ t \in 1..Len(text) /\ e(s) \in s..Len(text)
    BY <1>7, <2>2
  <2>4. spans[j] = <<s - 1, e(s)>> /\ spans[k] = <<t - 1, e(t)>>
    BY <1>8
  <2> HIDE DEF s, t
  <2>5. e(s) < t
    <3> SUFFICES ASSUME t <= e(s) PROVE FALSE
      BY <1>1, <2>3
    <3>1. t - 1 \in s..e(s) /\ t # 1
      BY <1>1, <2>1, <2>3
    <3>2. Black(text, t - 1)
      BY <2>2, <3>1, WordIs DEF e
    <3> QED BY <2>2, <3>1, <3>2 DEF WordStarts, Black
  <2>6. e(s) <= t - 1
    BY <1>1, <2>3, <2>5
  <2> QED BY <2>4, <2>6
<1> QED BY <1>9, <1>10, <1>11, <1>12 DEF Words, spans

(***************************************************************************)
(* Sentences.                                                              *)
(***************************************************************************)

\* What is trimmed off is whitespace.
LEMMA TrimKeepsWords ==
    ASSUME NEW text \in Seq(STRING), NEW from \in Nat, NEW to \in Nat, from <= to, to <= Len(text)
    PROVE  LET r == TrimRange(text, from, to)
           IN  /\ r \in Nat \X Nat /\ from <= r[1] /\ r[1] <= r[2] /\ r[2] <= to
               /\ \A i \in from + 1..to : ~IsWhite(text[i]) => r[1] < i /\ i <= r[2]
<1> DEFINE kept == {i \in from + 1..to : ~IsWhite(text[i])}
           r == TrimRange(text, from, to)
<1>1. CASE kept = {}
  <2>1. r = <<to, to>>
    BY <1>1 DEF TrimRange
  <2> QED BY <1>1, <2>1
<1>2. CASE kept # {}
  <2>1. kept \in SUBSET Nat /\ kept \in SUBSET (0..to)
    OBVIOUS
  <2>2. Min(kept) \in kept /\ \A n \in kept : Min(kept) <= n
    BY <1>2, <2>1, MinIsLeast
  <2>3. Max(kept) \in kept /\ \A n \in kept : n <= Max(kept)
    BY <1>2, <2>1, MaxIsGreatest
  <2>4. r = <<Min(kept) - 1, Max(kept)>>
    BY <1>2 DEF TrimRange
  <2> DEFINE a == Min(kept)
             b == Max(kept)
  <2> HIDE DEF a, b
  <2>5. a \in from + 1..to /\ b \in from + 1..to /\ a <= b
    BY <2>2, <2>3 DEF a, b
  <2>6. \A i \in from + 1..to : ~IsWhite(text[i]) => a <= i /\ i <= b
    BY <2>2, <2>3 DEF a, b
  <2>7. a \in Nat /\ b \in Nat /\ a - 1 \in Nat /\ from <= a - 1 /\ a - 1 <= b /\ b <= to
    BY <2>5
  <2>8. r = <<a - 1, b>>
    BY <2>4 DEF a, b
  <2>9. \A i \in from + 1..to : a <= i => a - 1 < i
    BY <2>7
  <2> QED BY <2>6, <2>7, <2>8, <2>9
<1> QED BY <1>1, <1>2

\* Where sentences are cut, with the ends of the text.
Bounds(text) == <<0>> \o Sorted({i \in DOMAIN text : EndsHere(text, i)}) \o <<Len(text)>>

LEMMA BoundsAre ==
    ASSUME NEW text \in Seq(STRING)
    PROVE  \E n \in Nat :
              /\ Bounds(text) \in Seq(Nat) /\ Len(Bounds(text)) = n + 2
              /\ Len(Sorted({i \in DOMAIN text : EndsHere(text, i)})) = n
              /\ Bounds(text)[1] = 0 /\ Bounds(text)[n + 2] = Len(text)
              /\ \A k \in 1..n + 1 : Bounds(text)[k] <= Bounds(text)[k + 1]
              /\ \A k \in 1..n + 2 : Bounds(text)[k] <= Len(text)
<1> DEFINE cuts == {i \in DOMAIN text : EndsHere(text, i)}
           n == Cardinality(cuts)
           list == Sorted(cuts)
           b == Bounds(text)
<1>1. Len(text) \in Nat /\ DOMAIN text = 1..Len(text)
  OBVIOUS
<1>2. cuts \subseteq 1..Len(text) /\ cuts \in SUBSET Int
  BY <1>1
<1>3. IsFiniteSet(cuts)
  <2>1. IsFiniteSet(1..Len(text))
    BY <1>1, FS_Interval
  <2> QED BY <1>2, <2>1, FS_Subset
<1> HIDE DEF cuts
<1>4. Rises(cuts, list)
  BY <1>2, <1>3, SortedLists
<1> HIDE DEF list, n
<1>5. n \in Nat /\ list \in [1..n -> cuts] /\ \A i, j \in 1..n : i < j => list[i] < list[j]
  BY <1>4 DEF Rises, n
<1>6. list \in [1..n -> Nat] /\ \A k \in 1..n : list[k] \in 1..Len(text)
  <2>1. \A k \in 1..n : list[k] \in 1..Len(text)
    BY <1>2, <1>5
  <2> QED BY <1>5, <2>1
<1>7. list \in Seq(Nat) /\ Len(list) = n
  BY <1>5, <1>6
<1>8. b = <<0>> \o list \o <<Len(text)>>
  BY DEF Bounds, list, cuts
<1> HIDE DEF b
<1>9. <<0>> \in Seq(Nat) /\ Len(<<0>>) = 1 /\ <<Len(text)>> \in Seq(Nat) /\ Len(<<Len(text)>>) = 1
  BY <1>1
<1>10. /\ <<0>> \o list \in Seq(Nat) /\ Len(<<0>> \o list) = n + 1
       /\ (<<0>> \o list)[1] = 0 /\ \A k \in 1..n : (<<0>> \o list)[k + 1] = list[k]
  BY <1>5, <1>7
<1> DEFINE c == <<0>> \o list
<1> HIDE DEF c
<1>11. /\ b \in Seq(Nat) /\ Len(b) = n + 2 /\ b[n + 2] = Len(text)
       /\ \A k \in 1..n + 1 : b[k] = c[k]
  BY <1>1, <1>5, <1>8, <1>10 DEF c
<1>12. b[1] = 0 /\ \A k \in 1..n : b[k + 1] = list[k]
  BY SMTT(30), <1>5, <1>10, <1>11 DEF c
<1>13. \A k \in 2..n + 1 : b[k] = list[k - 1] /\ b[k] \in 1..Len(text)
  <2> SUFFICES ASSUME NEW k \in 2..n + 1 PROVE b[k] = list[k - 1] /\ b[k] \in 1..Len(text)
    OBVIOUS
  <2>1. k - 1 \in 1..n /\ (k - 1) + 1 = k
    BY <1>5
  <2> QED BY <1>6, <1>12, <2>1
<1>14. ASSUME NEW k \in 1..n + 1 PROVE b[k] <= b[k + 1]
  <2>1. CASE k = 1
    <3>1. b[2] \in Nat
      BY <1>5, <1>11
    <3> QED BY <1>12, <2>1, <3>1
  <2>2. CASE k = n + 1 /\ k # 1
    <3>1. k \in 2..n + 1 /\ k + 1 = n + 2
      BY <1>5, <2>2
    <3>2. b[k] \in 1..Len(text) /\ b[k + 1] = Len(text)
      BY <1>11, <1>13, <3>1
    <3> QED BY <1>1, <3>2
  <2>3. CASE k # 1 /\ k # n + 1
    <3>1. k \in 2..n + 1 /\ k + 1 \in 2..n + 1 /\ k - 1 \in 1..n /\ k \in 1..n /\ (k + 1) - 1 = k
      BY <1>5, <2>3
    <3>2. b[k] = list[k - 1] /\ b[k + 1] = list[k]
      BY <1>13, <3>1
    <3>3. list[k - 1] < list[k] /\ list[k - 1] \in Nat /\ list[k] \in Nat
      BY <1>5, <1>6, <3>1
    <3> QED BY <3>2, <3>3
  <2> QED BY <2>1, <2>2, <2>3
<1>15. ASSUME NEW k \in 1..n + 2 PROVE b[k] <= Len(text)
  <2>1. k = 1 \/ k = n + 2 \/ k \in 2..n + 1
    BY <1>5
  <2> QED BY <1>1, <1>11, <1>12, <1>13, <2>1
<1> QED BY <1>5, <1>7, <1>11, <1>12, <1>14, <1>15 DEF b, list, cuts

\* A place of the text is between two cuts.
LEMMA BoundsMeet ==
    ASSUME NEW n \in Nat, NEW b \in Seq(Nat), Len(b) = n + 2, b[1] = 0, NEW i \in Nat, 0 < i, i <= b[n + 2]
    PROVE  \E k \in 1..n + 1 : b[k] < i /\ i <= b[k + 1]
<1> DEFINE S == {k \in 1..n + 1 : i <= b[k + 1]}
<1>1. n + 1 \in S /\ S \in SUBSET Nat
  OBVIOUS
<1>2. PICK k \in S : \A m \in S : k <= m
  BY <1>1, LeastNumber
<1>3. k \in 1..n + 1 /\ i <= b[k + 1]
  BY <1>2
<1>4. b[k] < i
  <2>1. CASE k = 1
    BY <2>1
  <2>2. CASE k # 1
    <3>1. k - 1 \in 1..n + 1 /\ ~(k <= k - 1) /\ (k - 1) + 1 = k
      BY <1>3, <2>2
    <3>2. k - 1 \notin S
      BY <1>2, <3>1
    <3>3. ~(i <= b[k])
      BY <3>1, <3>2
    <3>4. b[k] \in Nat
      BY <1>3
    <3> QED BY <3>3, <3>4
  <2> QED BY <2>1, <2>2
<1> QED BY <1>3, <1>4

\* In a list that does not fall, what is later is not less.
LEMMA NeverFalls ==
    ASSUME NEW N \in Nat, NEW b \in Seq(Nat), N <= Len(b), \A k \in 1..N - 1 : b[k] <= b[k + 1]
    PROVE  \A j, k \in 1..N : j <= k => b[j] <= b[k]
<1> DEFINE P == {m \in 0..N : \A j \in 1..N : j <= m => b[j] <= b[m]}
<1>1. 0 \in P
  OBVIOUS
<1>2. ASSUME NEW m \in 1..N, m - 1 \in P PROVE m \in P
  <2> SUFFICES ASSUME NEW j \in 1..N, j <= m PROVE b[j] <= b[m]
    OBVIOUS
  <2>1. b[m] \in Nat /\ b[j] \in Nat
    OBVIOUS
  <2>2. CASE j # m
    <3> DEFINE p == m - 1
    <3>1. j <= p /\ p \in 1..N - 1 /\ p + 1 = m /\ p \in P
      BY <1>2, <2>2
    <3> HIDE DEF p
    <3>2. b[j] <= b[p] /\ b[p] <= b[m] /\ b[p] \in Nat
      BY SMTT(30), <3>1
    <3> QED BY <2>1, <3>2
  <2> QED BY <2>1, <2>2
<1> HIDE DEF P
<1>3. 0..N \subseteq P
  BY <1>1, <1>2, Induction
<1> QED BY <1>3 DEF P

\* A text is all of its sentences and the whitespace between them.
LEMMA SentencesAreWords ==
    ASSUME NEW text \in Seq(STRING) PROVE Words(text, split_sentences(text))
<1> DEFINE b == Bounds(text)
           r == SentenceRanges(text)
           t == split_sentences(text)
<1>1. PICK n \in Nat :
              /\ b \in Seq(Nat) /\ Len(b) = n + 2
              /\ Len(Sorted({i \in DOMAIN text : EndsHere(text, i)})) = n
              /\ b[1] = 0 /\ b[n + 2] = Len(text)
              /\ \A k \in 1..n + 1 : b[k] <= b[k + 1]
              /\ \A k \in 1..n + 2 : b[k] <= Len(text)
  BY BoundsAre
<1>2. r = [k \in 1..n + 1 |-> TrimRange(text, b[k], b[k + 1])]
  BY <1>1 DEF SentenceRanges, Bounds
<1> HIDE DEF b, r, t
<1>3. Len(text) \in Nat /\ DOMAIN text = 1..Len(text)
  OBVIOUS
<1>4. ASSUME NEW k \in 1..n + 1
      PROVE  /\ b[k] \in Nat /\ b[k + 1] \in Nat /\ b[k + 1] <= Len(text)
             /\ r[k] \in Nat \X Nat /\ b[k] <= r[k][1] /\ r[k][1] <= r[k][2] /\ r[k][2] <= b[k + 1]
             /\ \A i \in b[k] + 1..b[k + 1] : ~IsWhite(text[i]) => r[k][1] < i /\ i <= r[k][2]
  <2>1. k \in 1..n + 2 /\ k + 1 \in 1..n + 2
    OBVIOUS
  <2>2. b[k] \in Nat /\ b[k + 1] \in Nat /\ b[k + 1] <= Len(text) /\ b[k] <= b[k + 1]
    BY SMTT(30), <1>1, <2>1
  <2>3. r[k] = TrimRange(text, b[k], b[k + 1])
    BY <1>2
  <2> QED BY <2>2, <2>3, TrimKeepsWords
<1>5. r \in Seq(Nat \X Nat) /\ Len(r) = n + 1
  <2>1. \A k \in 1..n + 1 : r[k] \in Nat \X Nat
    BY <1>4
  <2>2. r \in [1..n + 1 -> Nat \X Nat]
    BY <1>2, <2>1
  <2> QED BY <2>2
<1> DEFINE places == {k \in DOMAIN r : r[k][1] < r[k][2]}
           c == Cardinality(places)
<1>6. places \in SUBSET (DOMAIN r) /\ DOMAIN r = 1..n + 1
  BY <1>5
<1>7. t = At(r, places)
  BY DEF t, r, split_sentences
<1>8. \A k \in places : k \in 1..n + 1 /\ r[k][1] < r[k][2]
  BY <1>6
<1>9. \A k \in 1..n + 1 : r[k][1] < r[k][2] => k \in places
  BY <1>6
<1> HIDE DEF places, c
<1>10. t \in Seq(Nat \X Nat) /\ Len(t) = c
  BY <1>5, <1>6, <1>7, AtIs DEF c
<1>11. PICK at : Keeps(r, places, t, at)
  BY <1>5, <1>6, <1>7, AtIs
<1>12. /\ c \in Nat /\ \A k \in 1..c : at[k] \in places /\ t[k] = r[at[k]]
       /\ \A x \in places : \E k \in 1..c : at[k] = x
       /\ \A j, k \in 1..c : j < k => at[j] < at[k]
  BY <1>11 DEF Keeps, c
<1>13. ASSUME NEW k \in 1..c PROVE t[k][1] < t[k][2] /\ t[k][2] <= Len(text)
  <2>1. at[k] \in 1..n + 1 /\ t[k] = r[at[k]] /\ r[at[k]][1] < r[at[k]][2]
    BY <1>8, <1>12
  <2> DEFINE a == at[k]
  <2> HIDE DEF a
  <2>2. a \in 1..n + 1
    BY <2>1 DEF a
  <2>3. r[a] \in Nat \X Nat /\ r[a][2] <= b[a + 1] /\ b[a + 1] <= Len(text) /\ b[a + 1] \in Nat
    BY <1>4, <2>2
  <2>4. r[a][2] <= Len(text)
    BY <1>3, <2>3
  <2> QED BY <2>1, <2>4 DEF a
<1>14. ASSUME NEW i, Black(text, i) PROVE \E k \in 1..c : t[k][1] < i /\ i <= t[k][2]
  <2>1. i \in 1..Len(text) /\ ~IsWhite(text[i])
    BY <1>3, <1>14 DEF Black
  <2>2. i \in Nat /\ 0 < i /\ i <= b[n + 2]
    BY <1>1, <2>1
  <2>3. PICK m \in 1..n + 1 : b[m] < i /\ i <= b[m + 1]
    BY <1>1, <2>2, BoundsMeet
  <2>4. b[m] \in Nat /\ b[m + 1] \in Nat /\ r[m] \in Nat \X Nat
    BY <1>4
  <2>5. i \in b[m] + 1..b[m + 1]
    BY <2>2, <2>3, <2>4
  <2>6. r[m][1] < i /\ i <= r[m][2]
    BY <1>4, <2>1, <2>5
  <2>7. m \in places
    BY <1>9, <2>2, <2>4, <2>6
  <2>8. PICK k \in 1..c : at[k] = m
    BY <1>12, <2>7
  <2> QED BY <1>12, <2>6, <2>8
<1>15. ASSUME NEW j \in 1..c, NEW k \in 1..c, j < k PROVE t[j][2] <= t[k][1]
  <2> DEFINE x == at[j]
             y == at[k]
  <2>1. x \in 1..n + 1 /\ y \in 1..n + 1 /\ x < y /\ t[j] = r[x] /\ t[k] = r[y]
    BY <1>8, <1>12, <1>15
  <2> HIDE DEF x, y
  <2>2. r[x] \in Nat \X Nat /\ r[x][2] <= b[x + 1] /\ b[x + 1] \in Nat
    BY <1>4, <2>1
  <2>3. r[y] \in Nat \X Nat /\ b[y] <= r[y][1] /\ b[y] \in Nat
    BY <1>4, <2>1
  <2>4. b[x + 1] <= b[y]
    <3>1. n + 2 \in Nat /\ n + 2 <= Len(b) /\ \A m \in 1..(n + 2) - 1 : b[m] <= b[m + 1]
      BY <1>1
    <3>2. x + 1 \in 1..n + 2 /\ y \in 1..n + 2 /\ x + 1 <= y
      BY <2>1
    <3> QED BY <1>1, <3>1, <3>2, NeverFalls
  <2> QED BY SMTT(30), <2>1, <2>2, <2>3, <2>4
<1> QED BY <1>10, <1>13, <1>14, <1>15 DEF Words, t

(***************************************************************************)
(* SemanticChunker.                                                        *)
(***************************************************************************)

\* What Append and SubSeq give.
LEMMA AppendIs ==
    ASSUME NEW S, NEW list \in Seq(S), NEW e \in S
    PROVE  /\ Append(list, e) \in Seq(S) /\ Len(Append(list, e)) = Len(list) + 1 /\ Len(list) \in Nat
           /\ Append(list, e)[Len(list) + 1] = e
           /\ \A k \in 1..Len(list) : Append(list, e)[k] = list[k]
           /\ Append(list, e) # <<>>
OBVIOUS

LEMMA FrontIs ==
    ASSUME NEW S, NEW list \in Seq(S), NEW n \in 1..Len(list)
    PROVE  /\ SubSeq(list, 1, n - 1) \in Seq(S) /\ Len(SubSeq(list, 1, n - 1)) = n - 1
           /\ \A k \in 1..n - 1 : SubSeq(list, 1, n - 1)[k] = list[k]
OBVIOUS

LEMMA NotEmpty ==
    ASSUME NEW S, NEW list \in Seq(S), list # <<>>
    PROVE  Len(list) \in Nat /\ Len(list) # 0 /\ list[Len(list)] \in S /\ list[1] \in S
OBVIOUS

\* The chunks have the first m sentences, and nothing after the last of them.
Merges(sentences, m, list) ==
    /\ list \in Seq(Nat \X Nat) /\ list # <<>>
    /\ \A j \in 1..m : \E k \in 1..Len(list) :
          list[k][1] <= sentences[j][1] /\ sentences[j][2] <= list[k][2]
    /\ list[Len(list)][1] <= sentences[m][1]
    /\ \A k \in 1..Len(list) : list[k][2] <= sentences[m][2]

LEMMA MergedMerges ==
    ASSUME NEW text \in Seq(STRING), NEW sentences, Words(text, sentences),
           NEW m \in 1..Len(sentences) - 1, NEW list, Merges(sentences, m, list), NEW min
    PROVE  Merges(sentences, m + 1, Merged(text, min, list, sentences[m + 1]))
<1> DEFINE s == sentences[m + 1]
           n == Len(list)
           l == list[n]
           new == Merged(text, min, list, s)
<1>1. sentences \in Seq(Nat \X Nat) /\ Len(sentences) \in Nat /\ m + 1 \in 1..Len(sentences)
      /\ m \in 1..Len(sentences) /\ m < m + 1
  <2> DEFINE c == Len(sentences)
  <2>1. sentences \in Seq(Nat \X Nat)
    BY DEF Words
  <2>2. c \in Nat /\ m \in 1..c - 1
    BY <2>1
  <2> HIDE DEF c
  <2>3. m + 1 \in 1..c /\ m \in 1..c /\ m < m + 1
    BY <2>2
  <2> QED BY <2>1, <2>2, <2>3 DEF c
<1>2. list \in Seq(Nat \X Nat) /\ n \in Nat /\ n # 0 /\ l \in Nat \X Nat /\ s \in Nat \X Nat
  <2>1. list \in Seq(Nat \X Nat) /\ list # <<>>
    BY DEF Merges
  <2> DEFINE Pairs == Nat \X Nat
  <2>2. list \in Seq(Pairs)
    BY <2>1
  <2>3. s \in Pairs
    BY <1>1
  <2> HIDE DEF Pairs, s
  <2>4. n \in Nat /\ n # 0 /\ l \in Pairs
    BY <2>1, <2>2, NotEmpty
  <2> QED BY <2>2, <2>3, <2>4 DEF Pairs
<1>3. /\ sentences[m] \in Nat \X Nat /\ sentences[m][1] < sentences[m][2]
      /\ sentences[m][2] <= s[1] /\ s[1] < s[2]
  BY <1>1, WordOf, WordsAreApart
<1>4. l[1] <= sentences[m][1] /\ \A k \in 1..n : list[k][2] <= sentences[m][2]
  BY DEF Merges
<1>12. l[2] <= sentences[m][2]
  <2>1. n \in 1..n
    BY <1>2
  <2> QED BY <1>4, <2>1
<1>5. l[1] <= s[1] /\ l[2] <= s[2]
  BY SMTT(30), <1>2, <1>3, <1>4, <1>12
<1>13. ASSUME NEW k \in 1..n PROVE list[k] \in Nat \X Nat /\ list[k][2] <= s[2]
  <2>1. list[k] \in Nat \X Nat
    BY <1>2
  <2> DEFINE x == list[k][2]
             y == sentences[m][2]
  <2>2. x <= y /\ y <= s[1] /\ s[1] < s[2]
    BY <1>3, <1>4
  <2>3. x \in Nat /\ y \in Nat /\ s[1] \in Nat /\ s[2] \in Nat
    BY <1>2, <1>3, <2>1
  <2> HIDE DEF x, y
  <2>4. x <= s[2]
    BY SMTT(30), <2>2, <2>3
  <2> QED BY <2>1, <2>4 DEF x
<1>6. \A j \in 1..m : \E k \in 1..n : list[k][1] <= sentences[j][1] /\ sentences[j][2] <= list[k][2]
  BY DEF Merges
<1>7. Last(list) = l /\ Front(list) = SubSeq(list, 1, n - 1)
  BY DEF Last, Front
<1>8. new = Append(SubSeq(list, 1, n - 1), <<l[1], s[2]>>) \/ new = Append(list, s)
  BY <1>7 DEF Merged
<1> HIDE DEF s, n, l, new
<1>9. \A j \in 1..m : sentences[j] \in Nat \X Nat
  BY SMTT(30), <1>1
<1>10. CASE new = Append(SubSeq(list, 1, n - 1), <<l[1], s[2]>>)
  <2> DEFINE front == SubSeq(list, 1, n - 1)
             e == <<l[1], s[2]>>
  <2>1. front \in Seq(Nat \X Nat) /\ Len(front) = n - 1 /\ \A k \in 1..n - 1 : front[k] = list[k]
    <3> DEFINE Pairs == Nat \X Nat
    <3>1. list \in Seq(Pairs) /\ n \in 1..Len(list)
      BY <1>2 DEF n
    <3> HIDE DEF Pairs
    <3>2. front \in Seq(Pairs) /\ Len(front) = n - 1 /\ \A k \in 1..n - 1 : front[k] = list[k]
      BY <3>1, FrontIs
    <3> QED BY <3>2 DEF Pairs
  <2>2. e \in Nat \X Nat /\ e[1] = l[1] /\ e[2] = s[2]
    BY <1>2
  <2> HIDE DEF front, e
  <2>3. new \in Seq(Nat \X Nat) /\ Len(new) = n /\ new[n] = e /\ \A k \in 1..n - 1 : new[k] = list[k]
    BY SMTT(30), <1>2, <1>10, <2>1, <2>2 DEF front, e
  <2>4. ASSUME NEW j \in 1..m
        PROVE  \E k \in 1..n : new[k][1] <= sentences[j][1] /\ sentences[j][2] <= new[k][2]
    <3>1. PICK k \in 1..n : list[k][1] <= sentences[j][1] /\ sentences[j][2] <= list[k][2]
      BY <1>6
    <3>2. CASE k # n
      <4>1. k \in 1..n - 1
        BY <1>2, <3>2
      <4> QED BY <2>3, <3>1, <4>1
    <3>3. CASE k = n
      <4>1. l[1] <= sentences[j][1] /\ sentences[j][2] <= l[2]
        BY <3>1, <3>3 DEF l
      <4>2. sentences[j][2] <= s[2]
        BY <1>2, <1>5, <1>9, <4>1
      <4> QED BY SMTT(30), <1>2, <2>2, <2>3, <4>1, <4>2
    <3> QED BY <3>2, <3>3
  <2>5. new[n][1] <= s[1] /\ s[2] <= new[n][2] /\ new[n][2] <= s[2]
    BY <1>2, <1>5, <2>2, <2>3
  <2>10. ASSUME NEW k \in 1..n PROVE new[k][2] <= s[2]
    <3>1. k = n \/ (k \in 1..n - 1 /\ k \in 1..n)
      BY <1>2
    <3> QED BY <1>13, <2>3, <2>5, <3>1
  <2>6. \A j \in 1..m + 1 : j \in 1..m \/ j = m + 1
    OBVIOUS
  <2>9. n \in 1..n /\ s[1] = sentences[m + 1][1] /\ s[2] = sentences[m + 1][2]
    BY <1>2 DEF s
  <2>7. \A j \in 1..m + 1 : \E k \in 1..n : new[k][1] <= sentences[j][1] /\ sentences[j][2] <= new[k][2]
    BY <2>4, <2>5, <2>6, <2>9
  <2>8. new # <<>>
    BY <1>2, <2>3
  <2> QED BY <2>3, <2>5, <2>7, <2>8, <2>10 DEF Merges, new, s
<1>11. CASE new = Append(list, s)
  <2>1. new \in Seq(Nat \X Nat) /\ Len(new) = n + 1 /\ new[n + 1] = s /\ \A k \in 1..n : new[k] = list[k]
    BY <1>2, <1>11 DEF n
  <2>2. ASSUME NEW j \in 1..m
        PROVE  \E k \in 1..n + 1 : new[k][1] <= sentences[j][1] /\ sentences[j][2] <= new[k][2]
    <3>1. PICK k \in 1..n : list[k][1] <= sentences[j][1] /\ sentences[j][2] <= list[k][2]
      BY <1>6
    <3>2. k \in 1..n + 1
      BY <1>2
    <3> QED BY <2>1, <3>1, <3>2
  <2>3. new[n + 1][1] <= s[1] /\ s[2] <= new[n + 1][2] /\ new[n + 1][2] <= s[2]
    BY <1>2, <2>1
  <2>8. ASSUME NEW k \in 1..n + 1 PROVE new[k][2] <= s[2]
    <3>1. k = n + 1 \/ k \in 1..n
      BY <1>2
    <3> QED BY <1>13, <2>1, <2>3, <3>1
  <2>4. \A j \in 1..m + 1 : j \in 1..m \/ j = m + 1
    OBVIOUS
  <2>5. n + 1 \in 1..n + 1
    BY <1>2
  <2>6. \A j \in 1..m + 1 :
            \E k \in 1..n + 1 : new[k][1] <= sentences[j][1] /\ sentences[j][2] <= new[k][2]
    BY <2>2, <2>3, <2>4, <2>5 DEF s
  <2>7. new # <<>>
    BY <1>2, <2>1
  <2> QED BY <2>1, <2>3, <2>6, <2>7, <2>8 DEF Merges, new, s
<1> QED BY <1>8, <1>10, <1>11 DEF new, s

\* What merge_all is: a sentence after the other.
LEMMA MergesFollow ==
    ASSUME NEW text \in Seq(STRING), NEW min, NEW sentences, Words(text, sentences), sentences # <<>>
    PROVE  LET f == merge_all(text, min, sentences)
           IN  /\ f[0] = <<sentences[1]>>
               /\ \A k \in 1..Len(sentences) - 1 : f[k] = Merged(text, min, f[k - 1], sentences[k + 1])
<1> DEFINE N == Len(sentences) - 1
           a == <<sentences[1]>>
           next(k, t) == Merged(text, min, t, sentences[k + 1])
           V == Seq(Nat \X Nat) \ {<<>>}
           G == [k \in 1..N |-> [t \in V |-> next(k, t)]]
           f == merge_all(text, min, sentences)
           Is(g) == g = [k \in 0..N |-> IF k = 0 THEN a ELSE next(k, g[k - 1])]
<1>1. sentences \in Seq(Nat \X Nat) /\ N \in Nat /\ sentences[1] \in Nat \X Nat
      /\ \A k \in 1..N : sentences[k + 1] \in Nat \X Nat
  BY DEF Words
<1>2. a \in V
  BY <1>1
<1>3. ASSUME NEW k \in 1..N, NEW t \in V PROVE next(k, t) \in V
  <2> DEFINE s == sentences[k + 1]
             n == Len(t)
             e == <<t[n][1], s[2]>>
  <2>1. s \in Nat \X Nat /\ t \in Seq(Nat \X Nat) /\ n \in Nat /\ n # 0 /\ t[n] \in Nat \X Nat
    BY SMTT(30), <1>1
  <2>2. next(k, t) = Append(SubSeq(t, 1, n - 1), e) \/ next(k, t) = Append(t, s)
    BY DEF Merged, Last, Front
  <2>3. e \in Nat \X Nat /\ SubSeq(t, 1, n - 1) \in Seq(Nat \X Nat)
    BY SMTT(30), <2>1
  <2> HIDE DEF next, s, e, n
  <2>4. /\ Append(SubSeq(t, 1, n - 1), e) \in Seq(Nat \X Nat) /\ Append(SubSeq(t, 1, n - 1), e) # <<>>
        /\ Append(t, s) \in Seq(Nat \X Nat) /\ Append(t, s) # <<>>
    <3> DEFINE Pairs == Nat \X Nat
               front == SubSeq(t, 1, n - 1)
    <3>1. s \in Pairs /\ e \in Pairs /\ t \in Seq(Pairs) /\ front \in Seq(Pairs)
      BY <2>1, <2>3
    <3> HIDE DEF Pairs, front
    <3>2. /\ Append(front, e) \in Seq(Pairs) /\ Append(front, e) # <<>>
          /\ Append(t, s) \in Seq(Pairs) /\ Append(t, s) # <<>>
      BY <3>1, AppendIs
    <3> QED BY <3>2 DEF Pairs, front
  <2> QED BY <2>2, <2>4
<1> HIDE DEF next
<1>4. G \in [1..N -> [V -> V]] /\ \A k \in 1..N, t \in V : G[k][t] = next(k, t)
  BY <1>3
<1>5. f = CHOOSE g : Is(g)
  BY DEF merge_all, next
<1> HIDE DEF N, V, G, f, a
<1>6. PICK h : h \in [0..N -> V] /\ h[0] = a /\ \A k \in 1..N : h[k] = G[k][h[k - 1]]
  <2>1. \E h : Follows(N, V, a, G, h)
    BY <1>1, <1>2, <1>4, Recursion
  <2> QED BY <2>1 DEF Follows
<1>7. \A k \in 1..N : k - 1 \in 0..N /\ h[k] = next(k, h[k - 1])
  BY <1>1, <1>4, <1>6
<1>8. Is(h)
  <2> DEFINE e(k) == IF k = 0 THEN a ELSE next(k, h[k - 1])
  <2>1. \A k \in 0..N : h[k] = e(k)
    <3>1. \A k \in 0..N : k = 0 \/ k \in 1..N
      BY <1>1
    <3> QED BY <1>6, <1>7, <3>1
  <2> HIDE DEF e
  <2>2. h = [k \in 0..N |-> e(k)]
    BY <1>6, <2>1
  <2> QED BY <2>2 DEF e
<1>9. Is(f)
  <2> HIDE DEF Is
  <2> QED BY <1>5, <1>8
<1>10. f[0] = a
  BY <1>1, <1>9
<1>11. ASSUME NEW k \in 1..N PROVE f[k] = next(k, f[k - 1])
  <2>1. k \in 0..N /\ k # 0
    BY <1>1
  <2> QED BY <1>9, <2>1
<1> QED BY <1>10, <1>11 DEF f, N, a, next

\* Every word is in a chunk, however sentences are merged.
LEMMA SemanticCovers ==
    ASSUME NEW text \in Seq(STRING), NEW min
    PROVE  LET r == SemanticChunks(text, min)
           IN  /\ r \in Seq(Nat \X Nat)
               /\ \A i : Black(text, i) => \E k \in 1..Len(r) : r[k][1] < i /\ i <= r[k][2]
               /\ \A k \in 1..Len(r) : r[k][2] <= Len(text)
<1> DEFINE t == split_sentences(text)
           f == merge_all(text, min, t)
           r == SemanticChunks(text, min)
           N == Len(t) - 1
<1>1. Words(text, t)
  BY SentencesAreWords
<1> HIDE DEF t
<1>2. t \in Seq(Nat \X Nat) /\ Len(t) \in Nat
  BY <1>1 DEF Words
<1>3. CASE t = <<>>
  <2>1. Len(t) = 0 /\ r = <<>>
    BY <1>3 DEF SemanticChunks, t
  <2>2. r \in Seq(Nat \X Nat) /\ Len(r) = 0
    BY <2>1
  <2>3. \A i : ~Black(text, i)
    BY <1>1, <2>1 DEF Words
  <2> HIDE DEF r
  <2> QED BY <2>2, <2>3 DEF r
<1>4. CASE t # <<>>
  <2>1. N \in Nat /\ t[1] \in Nat \X Nat
    BY <1>2, <1>4
  <2>2. r = f[N]
    BY <1>4 DEF SemanticChunks, t
  <2>3. f[0] = <<t[1]>> /\ \A k \in 1..N : f[k] = Merged(text, min, f[k - 1], t[k + 1])
    BY <1>1, <1>4, MergesFollow
  <2> HIDE DEF f, r
  <2> DEFINE P == {k \in 0..N : Merges(t, k + 1, f[k])}
  <2>4. 0 \in P
    <3> DEFINE l == <<t[1]>>
    <3>1. l \in Seq(Nat \X Nat) /\ l # <<>> /\ Len(l) = 1 /\ l[1] = t[1]
      BY <2>1
    <3> HIDE DEF l
    <3>2. t[1][1] <= t[1][1] /\ t[1][2] <= t[1][2]
      BY <2>1
    <3>5. \A k \in 1..Len(l) : l[k][2] <= t[1][2]
      <4>1. \A k \in 1..1 : k = 1
        OBVIOUS
      <4> QED BY <3>1, <3>2, <4>1
    <3>3. Merges(t, 1, l)
      BY <3>1, <3>2, <3>5 DEF Merges
    <3>4. Merges(t, 0 + 1, f[0])
      BY <2>3, <3>3 DEF l
    <3> QED BY <2>1, <3>4
  <2>5. ASSUME NEW k \in 1..N, k - 1 \in P PROVE k \in P
    <3>1. Merges(t, k, f[k - 1]) /\ k \in 0..N /\ k \in 1..Len(t) - 1
      BY <2>1, <2>5
    <3>2. Merges(t, k + 1, f[k])
      BY <1>1, <2>3, <3>1, MergedMerges
    <3> QED BY <3>1, <3>2
  <2> HIDE DEF P
  <2>6. 0..N \subseteq P
    BY <2>1, <2>4, <2>5, Induction
  <2>7. N \in 0..N /\ N + 1 = Len(t)
    BY <1>2, <2>1
  <2>8. Merges(t, Len(t), r)
    BY <2>2, <2>6, <2>7 DEF P
  <2>9. r \in Seq(Nat \X Nat)
    BY <2>8 DEF Merges
  <2>10. ASSUME NEW i, Black(text, i) PROVE \E k \in 1..Len(r) : r[k][1] < i /\ i <= r[k][2]
    <3>1. PICK j \in 1..Len(t) : t[j][1] < i /\ i <= t[j][2]
      BY <1>1, <2>10 DEF Words
    <3>2. PICK k \in 1..Len(r) : r[k][1] <= t[j][1] /\ t[j][2] <= r[k][2]
      BY <2>8 DEF Merges
    <3>3. i \in Nat
      BY <2>10 DEF Black
    <3>4. r[k] \in Nat \X Nat /\ t[j] \in Nat \X Nat
      <4>1. r[k] \in Nat \X Nat
        BY <2>9
      <4>2. t[j] \in Nat \X Nat
        BY <1>2
      <4> QED BY <4>1, <4>2
    <3> QED BY <3>1, <3>2, <3>3, <3>4
  <2>11. ASSUME NEW k \in 1..Len(r) PROVE r[k][2] <= Len(text)
    <3>1. r[k] \in Nat \X Nat /\ Len(t) \in 1..Len(t) /\ Len(t) \in Nat
      BY <1>2, <1>4, <2>9
    <3>2. t[Len(t)] \in Nat \X Nat /\ Len(text) \in Nat
      BY <1>2, <3>1
    <3>3. r[k][2] <= t[Len(t)][2] /\ t[Len(t)][2] <= Len(text)
      BY <1>1, <2>8, <3>1 DEF Merges, Words
    <3> QED BY <3>1, <3>2, <3>3
  <2> QED BY <2>9, <2>10, <2>11 DEF r
<1> QED BY <1>3, <1>4

(***************************************************************************)
(* chunk_document and Chunker::chunk.                                      *)
(***************************************************************************)

\* A chunk has at least a word of its window, and none after it.
LEMMA BoundaryIsInWindow ==
    ASSUME NEW S, NEW words \in Seq(S), words # <<>>, NEW min
    PROVE  find_sentence_boundary(words, min) \in 1..Len(words)
<1> DEFINE ends == {i \in DOMAIN words : i > min /\ ends_sentence(words[i])}
<1>1. Len(words) \in Nat /\ Len(words) # 0 /\ ends \in SUBSET (0..Len(words)) /\ ends \subseteq 1..Len(words)
  OBVIOUS
<1>2. ends # {} => Max(ends) \in ends
  BY <1>1, MaxIsGreatest
<1> QED BY <1>1, <1>2 DEF find_sentence_boundary

\* The first section starts with the text.
LEMMA FirstSection ==
    ASSUME NEW d, IsDocument(d)
    PROVE  /\ SectionStarts(d) \in Seq(Nat) /\ SectionStarts(d) # <<>> /\ SectionStarts(d)[1] = 0
<1> DEFINE O == {0} \cup Offsets(d)
           n == Cardinality(O)
           s == SectionStarts(d)
<1>1. O \in SUBSET Nat /\ O \in SUBSET Int /\ 0 \in O
  BY DEF IsDocument
<1>2. IsFiniteSet(O)
  <2>1. O = Offsets(d) \cup {0} /\ IsFiniteSet(Offsets(d))
    BY DEF IsDocument
  <2> HIDE DEF O
  <2> QED BY <2>1, FS_AddElement
<1>3. s = Sorted(O)
  BY DEF SectionStarts
<1> HIDE DEF O, n, s
<1>4. Rises(O, s)
  BY <1>1, <1>2, <1>3, SortedLists
<1>5. /\ n \in Nat /\ s \in [1..n -> O] /\ \A x \in O : \E k \in 1..n : s[k] = x
      /\ \A i, j \in 1..n : i < j => s[i] < s[j]
  BY <1>4 DEF Rises, n
<1>6. PICK k \in 1..n : s[k] = 0
  BY <1>1, <1>5
<1>7. s \in [1..n -> Nat]
  BY <1>1, <1>5
<1>8. s \in Seq(Nat) /\ Len(s) = n /\ s # <<>>
  BY <1>5, <1>6, <1>7
<1>9. k = 1
  <2> SUFFICES ASSUME k # 1 PROVE FALSE
    OBVIOUS
  <2>1. 1 \in 1..n /\ 1 < k
    BY <1>5
  <2>2. s[1] < s[k] /\ s[1] \in Nat
    BY <1>5, <1>7, <2>1
  <2> QED BY <1>6, <2>2
<1> QED BY <1>6, <1>8, <1>9 DEF s

(***************************************************************************)
(* The invariant.                                                          *)
(***************************************************************************)
AllCalls == UNION {Range(batch) : batch \in Batches}

\* A sequence, of whatever it has.
IsList(s) == s \in Seq({s[k] : k \in DOMAIN s})

TypesOk ==
    /\ config \in Configs
    /\ pc \in {"open", "refused", "call", "sections", "window", "panicked"}
    /\ pc \notin {"open", "refused"} => ConfigWorks
    /\ todo \in Seq(AllCalls)
    /\ pc \in {"sections", "window"} => todo # <<>>
    /\ document.text \in Seq(STRING)
    /\ sections \in Seq(Nat)
    /\ start \in Nat
    /\ IsList(chunks)

\* What is not whitespace, up to a place, is in a chunk.
Covered(n) ==
    \A i \in DOMAIN document.text : i <= n => IsWhite(document.text[i]) \/
        \E k \in DOMAIN chunks : chunks[k].from < i /\ i <= chunks[k].to

\* Where the section begins that is taken next.
TakenFrom == IF sections = <<>> THEN Len(document.text) ELSE sections[1]

\* The sections before the one that is taken have their chunks, and in it the words before
\* the one that the next window begins with.
Progress ==
    /\ pc = "sections" => Covered(TakenFrom)
    /\ pc = "window" => /\ sections # <<>> /\ InText
                        /\ start < Len(Spans)
                        /\ Covered(sections[1] + Spans[start + 1][1])

DInv == TypesOk /\ Progress
-----------------------------------------------------------------------------
\* A list with one more is a list.
LEMMA ListGrows ==
    ASSUME NEW s, IsList(s), NEW e
    PROVE  /\ IsList(Append(s, e)) /\ Len(s) \in Nat /\ DOMAIN s = 1..Len(s)
           /\ DOMAIN Append(s, e) = 1..Len(s) + 1 /\ Append(s, e)[Len(s) + 1] = e
           /\ \A k \in 1..Len(s) : Append(s, e)[k] = s[k]
<1> DEFINE S == {s[k] : k \in DOMAIN s}
           n == Len(s)
           t == Append(s, e)
           T == {t[k] : k \in DOMAIN t}
<1>1. s \in Seq(S)
  BY DEF IsList
<1>2. n \in Nat /\ DOMAIN s = 1..n /\ \A k \in 1..n : s[k] \in S
  BY <1>1
<1> HIDE DEF S
<1>3. s \in Seq(S \cup {e}) /\ e \in S \cup {e}
  BY <1>1, SeqOfMore
<1> DEFINE U == S \cup {e}
<1> HIDE DEF U
<1>4. t \in Seq(U) /\ Len(t) = n + 1 /\ t[n + 1] = e /\ \A k \in 1..n : t[k] = s[k]
  BY <1>3, AppendIs DEF U
<1> HIDE DEF t
<1>5. DOMAIN t = 1..n + 1 /\ t \in [1..n + 1 -> U]
  BY <1>2, <1>4
<1>6. t \in [1..n + 1 -> T]
  BY <1>5
<1>7. t \in Seq(T)
  BY <1>2, <1>6
<1> QED BY <1>2, <1>4, <1>5, <1>7 DEF IsList, t

\* With a chunk for the places between, more is covered.
LEMMA CoverGrows ==
    ASSUME IsList(chunks), NEW n, NEW m, NEW c, Covered(n), document' = document,
           chunks' = Append(chunks, c),
           \A i \in DOMAIN document.text : i <= m /\ ~(i <= n) =>
               IsWhite(document.text[i]) \/ (c.from < i /\ i <= c.to)
    PROVE  Covered(m)' /\ IsList(chunks)'
<1>1. /\ IsList(chunks') /\ Len(chunks) \in Nat /\ DOMAIN chunks = 1..Len(chunks)
      /\ DOMAIN chunks' = 1..Len(chunks) + 1 /\ chunks'[Len(chunks) + 1] = c
      /\ \A k \in 1..Len(chunks) : chunks'[k] = chunks[k]
  BY ListGrows
<1>2. ASSUME NEW i \in DOMAIN document.text, i <= m
      PROVE  IsWhite(document.text[i]) \/
                \E k \in DOMAIN chunks' : chunks'[k].from < i /\ i <= chunks'[k].to
  <2>1. CASE i <= n
    <3>1. CASE ~IsWhite(document.text[i])
      <4>1. PICK k \in DOMAIN chunks : chunks[k].from < i /\ i <= chunks[k].to
        BY <2>1, <3>1 DEF Covered
      <4>2. k \in DOMAIN chunks' /\ chunks'[k] = chunks[k]
        BY <1>1
      <4> QED BY <4>1, <4>2
    <3> QED BY <3>1
  <2>2. CASE ~(i <= n)
    <3>1. Len(chunks) + 1 \in DOMAIN chunks'
      BY <1>1
    <3> QED BY <1>1, <1>2, <2>2, <3>1
  <2> QED BY <2>1, <2>2
<1> QED BY <1>1, <1>2 DEF Covered, IsList

\* What is covered stays so while the chunks and the text do, and where the rest is white.
LEMMA CoverStays ==
    ASSUME NEW n, NEW m, Covered(n), document' = document, chunks' = chunks,
           \A i \in DOMAIN document.text : i <= m /\ ~(i <= n) => IsWhite(document.text[i])
    PROVE  Covered(m)'
BY DEF Covered

-----------------------------------------------------------------------------
\* Any list of calls of a batch has its types.
LEMMA CallsAreTyped == \A c \in AllCalls : HasItsTypes(c)
BY BatchesAssumption DEF AllCalls

LEMMA NextCall ==
    ASSUME TypesOk, todo # <<>>
    PROVE  HasItsTypes(todo[1]) /\ Tail(todo) \in Seq(AllCalls)
<1>1. todo \in Seq(AllCalls)
  BY DEF TypesOk
<1>2. todo[1] \in AllCalls /\ Tail(todo) \in Seq(AllCalls)
  BY <1>1
<1> QED BY <1>2, CallsAreTyped

LEMMA PlainIsDocument == ASSUME NEW text, IsText(text) PROVE IsDocument(Plain(text))
<1>1. Offsets(Plain(text)) = {}
  BY DEF Offsets, Plain, Document
<1> QED BY <1>1, FS_EmptySet DEF IsDocument, Plain, Document

LEMMA InitOk == Init => DInv
<1> SUFFICES ASSUME Init PROVE DInv
  OBVIOUS
<1>1. todo \in Seq(AllCalls)
  <2>1. todo \in Seq(Range(todo)) /\ Range(todo) \subseteq AllCalls
    BY BatchesAssumption DEF Init, AllCalls
  <2> QED BY <2>1, SeqOfMore
<1>2. IsList(<<>>) /\ <<>> \in Seq(STRING) /\ <<>> \in Seq(Nat)
  BY DEF IsList
<1> QED BY <1>1, <1>2 DEF Init, DInv, TypesOk, Progress, Plain, Document

LEMMA OpenOk == ASSUME DInv, Open PROVE DInv'
<1>1. collect_files(todo) \in Seq(AllCalls)
  BY AtIs DEF DInv, TypesOk, collect_files
<1> QED BY <1>1 DEF Open, DInv, TypesOk, Progress, ConfigWorks

LEMMA AnsweredOk ==
    ASSUME DInv, pc \notin {"open", "refused"}, todo # <<>>, NEW outcome, NEW embedded,
           Answered(outcome, embedded)
    PROVE  DInv'
BY NextCall DEF Answered, DInv, TypesOk, Progress, ConfigWorks

LEMMA ChunkingOk ==
    ASSUME DInv, pc = "call", todo # <<>>, NEW d, IsDocument(d), Chunking(d)
    PROVE  DInv'
<1>1. sections' \in Seq(Nat) /\ sections' # <<>> /\ sections'[1] = 0
  BY FirstSection DEF Chunking
<1>2. document'.text \in Seq(STRING)
  BY DEF Chunking, IsDocument, IsText
<1>3. IsList(chunks')
  BY DEF Chunking, IsList
<1>4. TypesOk'
  BY <1>1, <1>2, <1>3 DEF Chunking, DInv, TypesOk, ConfigWorks
<1>5. Covered(0)'
  BY <1>2 DEF Covered
<1> QED BY <1>1, <1>4, <1>5 DEF DInv, Progress, Chunking, TakenFrom

LEMMA CallsOk ==
    ASSUME DInv, Fails \/ HasNoText \/ Parses \/ Plan \/ AddText
    PROVE  DInv'
<1>1. pc = "call" /\ todo # <<>>
  BY DEF Fails, HasNoText, Parses, Plan, AddText, AddsFile, Call
<1>2. HasItsTypes(todo[1])
  BY <1>1, NextCall DEF DInv
<1>3. ASSUME NEW outcome, Answered(outcome, vectors) PROVE DInv'
  BY <1>1, <1>3, AnsweredOk
<1>4. CASE Fails
  BY <1>3, <1>4 DEF Fails
<1>5. CASE HasNoText
  BY <1>3, <1>5 DEF HasNoText
<1>6. CASE Parses
  <2> DEFINE d == Parsed(Format(todo[1]), todo[1].body)
  <2>1. todo[1].call \in {"add_document", "add_directory"} /\ ParseError(todo[1]) = "none" /\ Chunking(d)
    BY <1>6 DEF Parses, AddsFile, Call
  <2>2. IsDocument(d)
    BY <1>2, <2>1 DEF HasItsTypes
  <2> QED BY <1>1, <2>1, <2>2, ChunkingOk
<1>7. CASE Plan
  <2> DEFINE d == parse_content(todo[1].ext, todo[1].body)
  <2>1. CASE todo[1].ext \in PageKinds /\ ~IsBlank(d.text)
    <3>1. Chunking(d)
      BY <1>7, <2>1 DEF Plan
    <3>2. IsDocument(d)
      BY <1>2, <1>7, <2>1 DEF HasItsTypes, Plan, Call
    <3> QED BY <1>1, <3>1, <3>2, ChunkingOk
  <2>2. CASE ~(todo[1].ext \in PageKinds /\ ~IsBlank(d.text))
    <3>1. Answered("UnsupportedFormat", vectors) \/ Answered("EmptyDocument", vectors)
      BY <1>7, <2>2 DEF Plan
    <3> QED BY <1>3, <3>1
  <2> QED BY <2>1, <2>2
<1>8. CASE AddText
  <2>1. IsText(todo[1].body)
    BY <1>2, <1>8 DEF HasItsTypes, AddText, Call
  <2>2. Answered("added", vectors) \/ Chunking(Plain(todo[1].body))
    BY <1>8 DEF AddText
  <2> QED BY <1>1, <1>3, <2>1, <2>2, PlainIsDocument, ChunkingOk
<1> QED BY <1>4, <1>5, <1>6, <1>7, <1>8

LEMMA SemanticOk == ASSUME DInv, Semantic PROVE DInv'
<1> DEFINE text == todo[1].body
           r == SemanticChunks(text, config.min_chunk_size)
<1>1. pc = "call" /\ todo # <<>> /\ todo[1].call = "semantic"
  BY DEF Semantic, Call
<1>2. text \in Seq(STRING)
  BY <1>1, NextCall DEF DInv, HasItsTypes, IsText
<1>3. /\ document' = Plain(text) /\ pc' = "sections" /\ sections' = <<>>
      /\ chunks' = [k \in DOMAIN r |-> [from |-> r[k][1], to |-> r[k][2], section |-> NoSection]]
      /\ UNCHANGED <<config, todo, start>>
  BY DEF Semantic
<1>4. /\ r \in Seq(Nat \X Nat)
      /\ \A i : Black(text, i) => \E k \in 1..Len(r) : r[k][1] < i /\ i <= r[k][2]
  BY <1>2, SemanticCovers
<1> HIDE DEF text, r
<1>5. DOMAIN r = 1..Len(r) /\ Len(r) \in Nat
  BY <1>4
<1>6. /\ DOMAIN chunks' = 1..Len(r)
      /\ \A k \in 1..Len(r) : chunks'[k].from = r[k][1] /\ chunks'[k].to = r[k][2]
  BY <1>3, <1>5
<1>7. IsList(chunks')
  <2>1. chunks' \in [1..Len(r) -> {chunks'[k] : k \in DOMAIN chunks'}]
    BY <1>3, <1>5
  <2> QED BY <1>5, <2>1 DEF IsList
<1>8. document'.text = text
  BY <1>3 DEF Plain, Document
<1>9. Covered(Len(document.text))'
  BY <1>4, <1>6, <1>8 DEF Covered, Black
<1>10. TypesOk'
  BY <1>1, <1>2, <1>3, <1>7, <1>8 DEF DInv, TypesOk, ConfigWorks
<1> QED BY <1>3, <1>8, <1>9, <1>10 DEF DInv, Progress, TakenFrom

-----------------------------------------------------------------------------
\* Up to the word after the first m there is no more than those and whitespace.
LEMMA GapIsWhite ==
    ASSUME NEW text \in Seq(STRING), NEW spans, Words(text, spans), NEW m \in 0..Len(spans) - 1,
           NEW i, Black(text, i), i <= spans[m + 1][1]
    PROVE  m # 0 /\ i <= spans[m][2]
<1>1. i \in Nat /\ Len(spans) \in Nat /\ spans \in Seq(Nat \X Nat)
  BY DEF Black, Words
<1>2. PICK k \in 1..Len(spans) : spans[k][1] < i /\ i <= spans[k][2]
  BY DEF Words
<1>3. \A j \in 1..Len(spans) : spans[j] \in Nat \X Nat
  BY <1>1
<1>4. m + 1 \in 1..Len(spans)
  BY <1>1
<1>5. k <= m
  <2> SUFFICES ASSUME m < k PROVE FALSE
    BY <1>1
  <2>1. k = m + 1 \/ m + 1 < k
    BY <1>1
  <2>2. spans[m + 1][1] <= spans[k][1]
    <3>1. CASE m + 1 < k
      <4>1. spans[m + 1][2] <= spans[k][1] /\ spans[m + 1][1] < spans[m + 1][2]
        BY <1>4, <3>1 DEF Words
      <4> QED BY <1>3, <1>4, <4>1
    <3>2. CASE k = m + 1
      BY <1>3, <3>2
    <3> QED BY <2>1, <3>1, <3>2
  <2> QED BY SMTT(30), <1>1, <1>2, <1>3, <1>4, <2>2
<1>6. m # 0 /\ m \in 1..Len(spans)
  BY SMTT(30), <1>1, <1>5
<1>7. spans[k][2] <= spans[m][2]
  <2>1. CASE k = m
    BY <1>3, <2>1
  <2>2. CASE k < m
    <3>1. spans[k][2] <= spans[m][1] /\ spans[m][1] < spans[m][2]
      BY <1>6, <2>2 DEF Words
    <3> QED BY <1>3, <1>6, <3>1
  <2> QED BY <1>1, <1>5, <2>1, <2>2
<1> DEFINE x == spans[k][2]
           y == spans[m][2]
<1>8. x \in Nat /\ y \in Nat
  BY <1>3, <1>6
<1>9. i <= x /\ x <= y
  BY <1>2, <1>7
<1> HIDE DEF x, y
<1>10. i <= y
  BY <1>1, <1>8, <1>9
<1> QED BY <1>6, <1>10 DEF y

\* The section that is taken, and its words.
LEMMA SectionIs ==
    ASSUME TypesOk, sections # <<>>, InText
    PROVE  /\ Section \in Seq(STRING) /\ Words(Section, Spans)
           /\ sections[1] \in Nat /\ SectionEnd \in Nat /\ Len(document.text) \in Nat
           /\ Len(Section) = SectionEnd - sections[1]
           /\ \A i \in DOMAIN document.text : sections[1] < i /\ i <= SectionEnd =>
                 /\ i - sections[1] \in DOMAIN Section
                 /\ Section[i - sections[1]] = document.text[i]
<1> DEFINE text == document.text
           a == sections[1]
           b == SectionEnd
<1>1. text \in Seq(STRING) /\ sections \in Seq(Nat)
  BY DEF TypesOk
<1>2. a \in Nat /\ Len(text) \in Nat /\ DOMAIN text = 1..Len(text)
  BY <1>1
<1>3. b \in Nat
  BY <1>1, <1>2 DEF SectionEnd
<1>4. a <= b /\ b <= Len(text)
  BY DEF InText
<1>5. Section = SubSeq(text, a + 1, b)
  BY DEF Section, Slice
<1> HIDE DEF text, a, b
<1>6. a + 1 \in 1..Len(text) + 1 /\ b \in 0..Len(text)
  BY <1>2, <1>3, <1>4
<1>7. Section \in Seq(STRING) /\ Len(Section) = b - a /\ \A k \in 1..b - a : Section[k] = text[a + k]
  BY <1>1, <1>2, <1>3, <1>4, <1>5, <1>6
<1>8. Words(Section, Spans)
  BY <1>7, SpansAreWords DEF Spans
<1>9. ASSUME NEW i \in DOMAIN text, a < i, i <= b
      PROVE  i - a \in DOMAIN Section /\ Section[i - a] = text[i]
  <2>1. i - a \in 1..b - a /\ a + (i - a) = i
    BY <1>2, <1>3, <1>9
  <2> QED BY <1>7, <2>1
<1> QED BY <1>2, <1>3, <1>7, <1>8, <1>9 DEF text, a, b

LEMMA TailIs ==
    ASSUME NEW S, NEW list \in Seq(S), list # <<>>
    PROVE  /\ Tail(list) \in Seq(S)
           /\ Len(list) > 1 => Tail(list) # <<>> /\ Tail(list)[1] = list[2]
           /\ ~(Len(list) > 1) => Tail(list) = <<>>
<1>1. Len(list) \in Nat /\ Len(list) # 0 /\ Tail(list) \in Seq(S) /\ Len(Tail(list)) = Len(list) - 1
  BY NotEmpty
<1>2. \A k \in 1..Len(list) - 1 : Tail(list)[k] = list[k + 1]
  OBVIOUS
<1>3. CASE Len(list) > 1
  <2>1. Len(Tail(list)) # 0 /\ 1 \in 1..Len(list) - 1
    BY SMTT(30), <1>1, <1>3
  <2>2. Tail(list)[1] = list[1 + 1]
    BY <1>2, <2>1
  <2>3. Tail(list)[1] = list[2]
    <3>1. 1 + 1 = 2
      OBVIOUS
    <3> QED BY <2>2, <3>1, Zenon
  <2>4. Tail(list) # <<>>
    <3>1. Len(<<>>) = 0
      OBVIOUS
    <3> QED BY <2>1, <3>1, Zenon
  <2> QED BY <1>1, <1>3, <2>3, <2>4, Zenon
<1>4. CASE ~(Len(list) > 1)
  <2>1. Len(Tail(list)) = 0
    BY <1>1, <1>4
  <2> QED BY <1>1, <1>4, <2>1, NotEmpty
<1> QED BY <1>1, <1>3, <1>4

\* The next section begins where this one ends.
LEMMA CutMoves ==
    ASSUME TypesOk, sections # <<>>, sections' = Tail(sections), document' = document
    PROVE  TakenFrom' = SectionEnd /\ sections' \in Seq(Nat)
<1>1. sections \in Seq(Nat)
  BY DEF TypesOk
<1>2. /\ Tail(sections) \in Seq(Nat)
      /\ Len(sections) > 1 => Tail(sections) # <<>> /\ Tail(sections)[1] = sections[2]
      /\ ~(Len(sections) > 1) => Tail(sections) = <<>>
  BY <1>1, TailIs
<1> QED BY <1>2 DEF TakenFrom, SectionEnd

LEMMA WholeSectionOk == ASSUME DInv, WholeSection PROVE DInv'
<1> DEFINE a == sections[1]
           b == SectionEnd
           c == Chunk(a, b)
<1>1. TypesOk /\ pc = "sections" /\ sections # <<>> /\ InText
  BY DEF DInv, WholeSection, TakesSection
<1>2. /\ Section \in Seq(STRING) /\ Words(Section, Spans)
      /\ a \in Nat /\ b \in Nat
      /\ \A i \in DOMAIN document.text : a < i /\ i <= b =>
            i - a \in DOMAIN Section /\ Section[i - a] = document.text[i]
  BY <1>1, SectionIs
<1>3. DOMAIN document.text = 1..Len(document.text) /\ Len(document.text) \in Nat
  BY <1>1 DEF TypesOk
<1>4. /\ sections' = Tail(sections)
      /\ UNCHANGED <<config, todo, pc, document, start, vectors, report>>
  BY DEF WholeSection
<1>5. TakenFrom' = b /\ sections' \in Seq(Nat)
  BY <1>1, <1>4, CutMoves
<1>6. Covered(a) /\ IsList(chunks)
  BY <1>1 DEF DInv, Progress, TakenFrom, TypesOk
<1>7. PICK m : m = b
  OBVIOUS
<1> HIDE DEF a, b, c
<1>8. CASE Spans = <<>>
  <2>1. chunks' = chunks
    BY <1>8 DEF WholeSection
  <2>2. ASSUME NEW i \in DOMAIN document.text, i <= m, ~(i <= a) PROVE IsWhite(document.text[i])
    <3>1. i - a \in DOMAIN Section /\ Section[i - a] = document.text[i]
      BY <1>2, <1>3, <1>7, <2>2
    <3>2. Len(Spans) = 0
      BY <1>8
    <3>3. ~Black(Section, i - a)
      BY <1>2, <3>2 DEF Words
    <3> QED BY <3>1, <3>3 DEF Black
  <2>3. Covered(m)'
    BY <1>4, <1>6, <2>1, <2>2, CoverStays
  <2> QED BY <1>1, <1>4, <1>5, <1>7, <2>1, <2>3 DEF DInv, TypesOk, Progress, ConfigWorks
<1>9. CASE Spans # <<>>
  <2>1. chunks' = Append(chunks, c)
    BY <1>9 DEF WholeSection, a, b, c
  <2>2. c.from = a /\ c.to = b
    BY DEF Chunk, c
  <2>3. \A i \in DOMAIN document.text : i <= m /\ ~(i <= a) => c.from < i /\ i <= c.to
    BY <1>2, <1>3, <1>7, <2>2
  <2>4. Covered(m)' /\ IsList(chunks)'
    BY <1>4, <1>6, <2>1, <2>3, CoverGrows
  <2> QED BY <1>1, <1>4, <1>5, <1>7, <2>4 DEF DInv, TypesOk, Progress, ConfigWorks
<1> QED BY <1>8, <1>9

LEMMA SplitSectionOk == ASSUME DInv, SplitSection PROVE DInv'
<1> DEFINE a == sections[1]
<1>1. TypesOk /\ pc = "sections" /\ sections # <<>> /\ InText
  BY DEF DInv, SplitSection, TakesSection
<1>2. /\ start' = 0 /\ pc' = "window" /\ Len(Spans) > config.window_size
      /\ UNCHANGED <<config, todo, document, sections, chunks, vectors, report>>
  BY DEF SplitSection
<1>3. /\ Section \in Seq(STRING) /\ Words(Section, Spans)
      /\ a \in Nat /\ SectionEnd \in Nat
      /\ \A i \in DOMAIN document.text : a < i /\ i <= SectionEnd =>
            i - a \in DOMAIN Section /\ Section[i - a] = document.text[i]
      /\ Len(Section) = SectionEnd - a
  BY <1>1, SectionIs
<1>4. Len(Spans) \in Nat /\ config.window_size \in Nat
  BY <1>1, <1>3, ConfigsAssumption DEF TypesOk, Words
<1>5. 0 < Len(Spans) /\ 0 + 1 \in 1..Len(Spans)
  BY <1>2, <1>4
<1>6. Spans[1] \in Nat \X Nat /\ Spans[1][1] < Spans[1][2] /\ Spans[1][2] <= Len(Section)
  BY <1>3, <1>5 DEF Words
<1>7. Covered(a)
  BY <1>1 DEF DInv, Progress, TakenFrom
<1>8. DOMAIN document.text = 1..Len(document.text) /\ Len(document.text) \in Nat
  BY <1>1 DEF TypesOk
<1> HIDE DEF a
<1>9. PICK m : m = a + Spans[1][1]
  OBVIOUS
<1>10. ASSUME NEW i \in DOMAIN document.text, i <= m, ~(i <= a) PROVE IsWhite(document.text[i])
  <2>1. i \in Nat /\ m \in Nat /\ m <= SectionEnd /\ m - a = Spans[1][1]
    BY <1>3, <1>6, <1>8, <1>9
  <2>2. i - a \in DOMAIN Section /\ Section[i - a] = document.text[i]
    BY <1>3, <1>10, <2>1
  <2>3. i - a <= Spans[0 + 1][1]
    BY <1>3, <1>10, <2>1
  <2>4. 0 \in 0..Len(Spans) - 1
    BY <1>4, <1>5
  <2>5. ~Black(Section, i - a)
    BY <1>3, <2>3, <2>4, GapIsWhite
  <2> QED BY <2>2, <2>5 DEF Black
<1>11. Covered(m)'
  BY <1>2, <1>7, <1>10, CoverStays
<1>12. Spans' = Spans /\ InText'
  BY <1>1, <1>2 DEF Spans, Section, SectionEnd, InText
<1>13. sections'[1] + Spans'[start' + 1][1] = m
  BY <1>2, <1>9, <1>12 DEF a
<1>14. TypesOk'
  BY <1>1, <1>2 DEF TypesOk, ConfigWorks
<1>15. Covered(sections[1] + Spans[start + 1][1])'
  BY <1>11, <1>13 DEF Covered
<1> QED BY <1>1, <1>2, <1>5, <1>12, <1>14, <1>15 DEF DInv, Progress

\* No text follows the last word.
LEMMA LastWord ==
    ASSUME NEW text \in Seq(STRING), NEW spans, Words(text, spans), NEW i, Black(text, i)
    PROVE  Len(spans) # 0 /\ i <= spans[Len(spans)][2]
<1> DEFINE n == Len(spans)
<1>1. i \in Nat /\ n \in Nat /\ \A j \in 1..n : spans[j] \in Nat \X Nat
  BY DEF Black, Words
<1>2. PICK k \in 1..n : spans[k][1] < i /\ i <= spans[k][2]
  BY DEF Words
<1>3. n \in 1..n /\ (k = n \/ k < n)
  BY <1>1
<1> DEFINE x == spans[k][2]
           y == spans[n][2]
           z == spans[n][1]
<1>4. x \in Nat /\ y \in Nat /\ z \in Nat
  BY <1>1, <1>3
<1>5. k < n => x <= z /\ z < y
  BY <1>3 DEF Words
<1>6. k = n => x = y
  OBVIOUS
<1>7. i <= x
  BY <1>2
<1> HIDE DEF x, y, z
<1>8. i <= y
  BY <1>1, <1>3, <1>4, <1>5, <1>6, <1>7
<1> QED BY <1>3, <1>8 DEF y

\* A word is no later than the ones after it.
LEMMA WordsInOrder ==
    ASSUME NEW text \in Seq(STRING), NEW spans, Words(text, spans),
           NEW j \in 1..Len(spans), NEW k \in 1..Len(spans), j <= k
    PROVE  spans[j] \in Nat \X Nat /\ spans[k] \in Nat \X Nat /\ spans[j][2] <= spans[k][2]
<1>1. Len(spans) \in Nat /\ spans[j] \in Nat \X Nat /\ spans[k] \in Nat \X Nat
  BY DEF Words
<1> DEFINE x == spans[j][2]
           y == spans[k][2]
           z == spans[k][1]
<1>2. x \in Nat /\ y \in Nat /\ z \in Nat
  BY <1>1
<1>3. j < k => x <= z /\ z < y
  BY DEF Words
<1>4. j = k => x = y
  OBVIOUS
<1> HIDE DEF x, y, z
<1>5. x <= y
  BY <1>1, <1>2, <1>3, <1>4
<1> QED BY <1>1, <1>5 DEF x, y

\* A window has a word at least, and no more than the section.
LEMMA WindowIs ==
    ASSUME TypesOk, pc = "window", sections # <<>>, InText, start < Len(Spans)
    PROVE  Len(Spans) \in Nat /\ WindowEnd \in start + 1..Len(Spans)
<1> DEFINE n    == Len(Spans)
           W    == config.window_size
           end  == Min({start + W, n})
           S    == {WordsOf(Section)[k] : k \in 1..n}
           window == SubSeq(WordsOf(Section), start + 1, end)
           len  == find_sentence_boundary(window, config.min_chunk_size)
<1>1. Words(Section, Spans)
  BY SectionIs
<1>2. n \in Nat /\ Spans \in Seq(Nat \X Nat) /\ DOMAIN Spans = 1..n
  BY <1>1 DEF Words
<1>3. start \in Nat /\ W \in Nat /\ W > 0
  BY ConfigsAssumption DEF TypesOk, ConfigWorks
<1>4. WordsOf(Section) \in Seq(S) /\ Len(WordsOf(Section)) = n
  <2>1. DOMAIN WordsOf(Section) = 1..n /\ WordsOf(Section) \in [1..n -> S]
    BY <1>2 DEF WordsOf, Spans
  <2> QED BY <1>2, <2>1
<1>5. WindowEnd = start + len
  BY <1>4 DEF WindowEnd
<1> HIDE DEF S, n, W
<1>6. end \in start + 1..n
  <2> DEFINE T == {start + W, n}
  <2>1. T \in SUBSET Nat /\ T # {}
    BY <1>2, <1>3
  <2>2. Min(T) \in T
    <3> HIDE DEF T
    <3> QED BY <2>1, MinIsLeast
  <2>3. Min(T) <= n
    <3>1. \A x \in T : Min(T) <= x
      <4> HIDE DEF T
      <4> QED BY <2>1, MinIsLeast
    <3> QED BY <3>1
  <2>4. start < n
    BY DEF n
  <2> HIDE DEF T
  <2>5. Min(T) \in {start + W, n}
    BY <2>2 DEF T
  <2>6. Min(T) \in start + 1..n
    BY <1>2, <1>3, <2>3, <2>4, <2>5
  <2> QED BY <2>6 DEF T
<1> HIDE DEF end, len
<1>7. window \in Seq(S) /\ Len(window) = end - start
  <2> DEFINE words == WordsOf(Section)
  <2> HIDE DEF words
  <2>1. words \in Seq(S) /\ Len(words) = n
    BY <1>4 DEF words
  <2>2. SubSeq(words, start + 1, end) \in Seq(S) /\ Len(SubSeq(words, start + 1, end)) = end - start
    BY <1>2, <1>3, <1>6, <2>1
  <2> QED BY <2>2 DEF words
<1> HIDE DEF window
<1>8. window # <<>>
  BY <1>3, <1>6, <1>7
<1>9. len \in 1..end - start
  BY <1>7, <1>8, BoundaryIsInWindow DEF len
<1> QED BY <1>2, <1>3, <1>5, <1>6, <1>9 DEF n

\* The next window begins after this one does, and no later than this one ends.
LEMMA NextStartIs ==
    ASSUME TypesOk, NEW last \in Nat, start < last
    PROVE  NextStart(last) \in start + 1..last
<1> DEFINE x    == last - config.overlap
           next == Max({0, x})
<1>1. start \in Nat /\ config.overlap \in Nat
  BY ConfigsAssumption DEF TypesOk
<1>2. x \in Int /\ x <= last
  BY <1>1
<1>3. NextStart(last) = IF next > start THEN next ELSE start + 1
  BY DEF NextStart
<1> HIDE DEF x
<1>4. next \in Int /\ next <= last
  <2> DEFINE y == IF x > 0 THEN x ELSE 0
  <2>1. y \in {0, x} /\ y >= 0 /\ y >= x
    BY <1>2
  <2> HIDE DEF y
  <2>2. next \in {0, x}
    BY <2>1 DEF Max
  <2> HIDE DEF next
  <2> QED BY <1>2, <2>2
<1> HIDE DEF next
<1> QED BY <1>1, <1>3, <1>4

LEMMA WindowOk ==
    ASSUME DInv, Window
    PROVE  DInv' /\ (pc' = "window" => start < start' /\ start' <= WindowEnd)
<1> DEFINE a    == sections[1]
           n    == Len(Spans)
           last == WindowEnd
           c    == Chunk(a + Spans[start + 1][1], a + Spans[last][2])
           from == Spans[start + 1][1]
           to   == Spans[last][2]
<1>1. TypesOk /\ pc = "window" /\ sections # <<>> /\ InText /\ start < n /\ Covered(a + from)
  BY DEF DInv, Progress, Window
<1>2. /\ Section \in Seq(STRING) /\ Words(Section, Spans)
      /\ a \in Nat /\ SectionEnd \in Nat
      /\ \A i \in DOMAIN document.text : a < i /\ i <= SectionEnd =>
            i - a \in DOMAIN Section /\ Section[i - a] = document.text[i]
      /\ Len(Section) = SectionEnd - a
  BY <1>1, SectionIs
<1>3. n \in Nat /\ last \in start + 1..n /\ start \in Nat
  BY <1>1, WindowIs DEF TypesOk
<1>4. start + 1 \in 1..n /\ last \in 1..n
  BY <1>1, <1>3
<1>5. from \in Nat /\ to \in Nat
  BY <1>2, <1>4, WordOf
<1>6. DOMAIN document.text = 1..Len(document.text) /\ Len(document.text) \in Nat /\ IsList(chunks)
  BY <1>1 DEF TypesOk
<1>7. /\ chunks' = Append(chunks, c) /\ document' = document
      /\ UNCHANGED <<config, todo, document, vectors, report>>
      /\ IF last >= n THEN pc' = "sections" /\ sections' = Tail(sections) /\ start' = 0
         ELSE start' = NextStart(last) /\ UNCHANGED <<pc, sections>>
  BY DEF Window
<1>8. c.from = a + from /\ c.to = a + to
  BY DEF Chunk
\* Up to a place in the section, what is not covered is in this chunk or white.
<1>9. ASSUME NEW m, m <= SectionEnd, m \in Nat,
             \A i : Black(Section, i) /\ i <= m - a => i <= to
      PROVE  Covered(m)' /\ IsList(chunks)'
  <2>1. PICK f : f = a + from
    OBVIOUS
  <2> HIDE DEF a, n, last, c, from, to
  <2>2. ASSUME NEW i \in DOMAIN document.text, i <= m, ~(i <= f)
        PROVE  IsWhite(document.text[i]) \/ (c.from < i /\ i <= c.to)
    <3>1. i \in Nat /\ a < i /\ i <= SectionEnd /\ f < i
      BY <1>2, <1>5, <1>6, <1>9, <2>1, <2>2
    <3>2. i - a \in DOMAIN Section /\ Section[i - a] = document.text[i]
      BY <1>2, <3>1
    <3>3. CASE ~IsWhite(document.text[i])
      <4>1. Black(Section, i - a) /\ i - a <= m - a
        BY <1>2, <1>9, <2>2, <3>1, <3>2, <3>3 DEF Black
      <4>2. i - a <= to
        BY <1>9, <4>1
      <4>3. i <= a + to
        BY <1>2, <1>5, <3>1, <4>2
      <4> QED BY <1>8, <2>1, <3>1, <4>3
    <3> QED BY <3>3
  <2>3. Covered(f)
    BY <1>1, <2>1
  <2> QED BY <1>6, <1>7, <2>2, <2>3, CoverGrows
<1>10. CASE last >= n
  <2>1. last = n
    BY <1>3, <1>10
  <2>2. \A i : Black(Section, i) => i <= to
    BY <1>2, <2>1, LastWord
  <2>3. PICK m : m = SectionEnd
    OBVIOUS
  <2>4. Covered(m)' /\ IsList(chunks)'
    BY <1>2, <1>9, <2>2, <2>3
  <2>5. pc' = "sections" /\ sections' = Tail(sections) /\ start' = 0
    BY <1>7, <1>10
  <2>6. TakenFrom' = m /\ sections' \in Seq(Nat)
    BY <1>1, <1>7, <2>3, <2>5, CutMoves
  <2>7. Covered(TakenFrom)'
    BY <2>4, <2>6 DEF Covered
  <2>8. TypesOk'
    BY <1>1, <1>7, <2>4, <2>5, <2>6 DEF TypesOk, ConfigWorks
  <2> QED BY <2>5, <2>7, <2>8 DEF DInv, Progress
<1>11. CASE ~(last >= n)
  <2>1. start' = NextStart(last) /\ pc' = "window" /\ sections' = sections
    BY <1>1, <1>7, <1>11
  <2>2. last < n /\ last \in Nat /\ start < last
    BY <1>3, <1>11
  <2>3. start' \in start + 1..last
    BY <1>1, <2>1, <2>2, NextStartIs
  <2>4. start' \in 0..n - 1 /\ start' \in 1..n /\ start' + 1 \in 1..n
    <3> HIDE DEF n, last
    <3>1. PICK s : s = start'
      OBVIOUS
    <3>2. s \in Nat /\ s >= 1 /\ s <= last /\ last < n /\ last \in Nat /\ n \in Nat
      BY <1>3, <2>2, <2>3, <3>1
    <3>3. s \in 0..n - 1 /\ s \in 1..n
      BY <3>2
    <3>4. s + 1 \in 1..n
      BY <3>2
    <3> QED BY <3>1, <3>3, <3>4
  <2>5. PICK s : s = start'
    OBVIOUS
  <2> DEFINE next == Spans[s + 1][1]
             till == Spans[s][2]
             g    == Spans[s + 1][2]
  <2>6. next \in Nat /\ till \in Nat /\ g \in Nat
    <3>1. \A j \in 1..n : Spans[j] \in Nat \X Nat
      BY <1>2 DEF Words
    <3>2. s \in 1..n /\ s + 1 \in 1..n
      BY <2>4, <2>5
    <3>3. Spans[s] \in Nat \X Nat /\ Spans[s + 1] \in Nat \X Nat
      BY <3>1, <3>2, Zenon
    <3> QED BY <3>3
  <2>7. next < g /\ g <= Len(Section)
    BY <1>2, <2>4, <2>5 DEF Words
  <2>8. till <= to
    BY <1>2, <1>3, <1>4, <2>3, <2>4, <2>5, WordsInOrder
  <2>9. ASSUME NEW i, Black(Section, i), i <= next PROVE i <= to
    <3>1. i <= till
      BY <1>2, <2>4, <2>5, <2>9, GapIsWhite
    <3>2. i \in Nat
      BY <1>2, <2>9 DEF Black
    <3> HIDE DEF till, to
    <3> QED BY <1>5, <2>6, <2>8, <3>1, <3>2
  <2>10. PICK m : m = a + next
    OBVIOUS
  <2>11. m \in Nat /\ m <= SectionEnd /\ m - a = next
    <3> HIDE DEF a, next, g
    <3> QED BY <1>2, <2>6, <2>7, <2>10
  <2>12. Covered(m)' /\ IsList(chunks)'
    <3> HIDE DEF a, to, next
    <3> QED BY <1>9, <2>9, <2>11
  <2>13. Spans' = Spans /\ InText'
    BY <1>1, <1>7, <2>1 DEF Spans, Section, SectionEnd, InText
  <2>14. sections'[1] + Spans'[start' + 1][1] = m
    BY <2>1, <2>5, <2>10, <2>13
  <2>15. Covered(sections[1] + Spans[start + 1][1])'
    BY <2>12, <2>14 DEF Covered
  <2>16. TypesOk'
    BY <1>1, <1>3, <1>7, <2>1, <2>4, <2>12 DEF TypesOk, ConfigWorks
  <2>17. start' < Len(Spans')
    BY <1>3, <2>4, <2>13
  <2>18. start < start' /\ start' <= last
    BY <1>3, <2>3
  <2> QED BY <1>1, <2>1, <2>13, <2>15, <2>16, <2>17, <2>18 DEF DInv, Progress
<1> QED BY <1>10, <1>11

LEMMA StepOk == ASSUME DInv, [Next]_vars PROVE DInv'
<1>1. CASE Open
  BY <1>1, OpenOk
<1>2. CASE Fails \/ HasNoText \/ Parses \/ Plan \/ AddText
  BY <1>2, CallsOk
<1>3. CASE Semantic
  BY <1>3, SemanticOk
<1>4. CASE Panics
  BY <1>4 DEF Panics, TakesSection, DInv, TypesOk, Progress, ConfigWorks
<1>5. CASE WholeSection
  BY <1>5, WholeSectionOk
<1>6. CASE SplitSection
  BY <1>6, SplitSectionOk
<1>7. CASE Window
  BY <1>7, WindowOk
<1>8. CASE Ingest \/ HandOver
  <2>1. pc = "sections"
    BY <1>8 DEF Ingest, HandOver
  <2>2. todo # <<>>
    BY <2>1 DEF DInv, TypesOk
  <2>3. PICK outcome, embedded : Answered(outcome, embedded)
    BY <1>8 DEF Ingest, HandOver
  <2> QED BY <2>1, <2>2, <2>3, AnsweredOk
<1>9. CASE Ended \/ UNCHANGED vars
  <2>1. UNCHANGED vars
    BY <1>9 DEF Ended
  <2> QED BY <2>1 DEF vars, DInv, TypesOk, Progress, ConfigWorks, IsList, Covered, TakenFrom,
                      InText, SectionEnd, Spans, Section
<1> QED BY <1>1, <1>2, <1>3, <1>4, <1>5, <1>6, <1>7, <1>8, <1>9 DEF Next

\* The invariant of the way from texts to chunks (Documents.tla).
THEOREM Invariance == Spec => []DInv
<1>1. Init => DInv
  BY InitOk
<1>2. DInv /\ [Next]_vars => DInv'
  BY StepOk
<1> QED BY <1>1, <1>2, PTL DEF Spec

\* Nothing of a text is lost, whatever the sizes, the sentences and the sections
\* (ChunksCoverTheText; Chunker::chunk, chunk_document, SemanticChunker::chunk).
THEOREM Coverage == Spec => []ChunksCoverTheText
<1>1. DInv => ChunksCoverTheText
  <2> SUFFICES ASSUME DInv, Chunked PROVE Covered(Len(document.text)) /\ document.text \in Seq(STRING)
    BY DEF ChunksCoverTheText, Covered
  <2> QED BY DEF DInv, TypesOk, Progress, TakenFrom, Chunked
<1> QED BY <1>1, Invariance, PTL

\* Each window begins after the one before it, and no later than that one ended, so that
\* chunking comes to an end and leaves no word out (WindowsMoveOn; Chunker::chunk).
THEOREM WindowSteps == Spec => WindowsMoveOn
<1> DEFINE moves == pc = "window" /\ pc' = "window" => start < start' /\ start' <= WindowEnd
<1>1. DInv /\ [Next]_vars => [moves]_vars
  <2> SUFFICES ASSUME DInv, Next, pc = "window", pc' = "window", vars' # vars
               PROVE  start < start' /\ start' <= WindowEnd
    BY DEF vars
  <2>1. Window
    BY DEF Next, Open, Fails, HasNoText, Parses, Plan, AddText, Semantic, Panics, WholeSection,
           SplitSection, Ingest, HandOver, Ended, AddsFile, Call, TakesSection
  <2> QED BY <2>1, WindowOk
<1> QED BY <1>1, Invariance, PTL DEF Spec, WindowsMoveOn

(***************************************************************************)
(* Tokens.                                                                 *)
(***************************************************************************)
Ids == 0..Len(Vocabulary) - 1

\* The characters of words: those of texts, and the one that is made of a capital, which no
\* prover here knows to be a string.
Chars == STRING \cup {"b"}
IsWord(word) == word \in Seq(Chars) /\ \A i \in DOMAIN word : word[i] # "##"

LEMMA TextIsWord == ASSUME NEW text, IsText(text) PROVE IsWord(text)
BY SeqOfMore DEF IsText, IsWord, Chars

\* An id is the number of a line that has its token.
LEMMA IdIs ==
    ASSUME NEW token, Known(token)
    PROVE  Id(token) \in Ids /\ Vocabulary[Id(token) + 1] = token
<1> DEFINE N == Len(Vocabulary)
           L == Lines(token)
<1>1. N \in Nat /\ DOMAIN Vocabulary = 1..N
  BY EncodingAssumption
<1>2. L \in SUBSET (0..N) /\ L # {} /\ 0 \notin L
  BY <1>1 DEF Lines, Known
<1>3. Max(L) \in L
  <2> HIDE DEF L, N
  <2> QED BY <1>1, <1>2, MaxIsGreatest
<1>4. Max(L) \in 1..N /\ Vocabulary[Max(L)] = token
  BY <1>1, <1>3 DEF Lines
<1>5. Id(token) = Max(L) - 1
  BY DEF Id
<1> HIDE DEF L
<1>6. Id(token) \in Ids /\ Id(token) + 1 = Max(L)
  BY <1>1, <1>4, <1>5 DEF Ids
<1> QED BY <1>4, <1>6

LEMMA SpecialIds ==
    ASSUME from_vocab
    PROVE  /\ unk_id \in Ids /\ cls_id \in Ids /\ sep_id \in Ids
           /\ SpelledToken(unk_id) = <<"[UNK]">> /\ pad_id \in Nat
<1>1. Known(<<"[UNK]">>) /\ Known(<<"[CLS]">>) /\ Known(<<"[SEP]">>)
  BY DEF from_vocab
<1>2. unk_id \in Ids /\ cls_id \in Ids /\ sep_id \in Ids /\ Vocabulary[unk_id + 1] = <<"[UNK]">>
  BY <1>1, IdIs DEF unk_id, cls_id, sep_id
<1>3. SpelledToken(unk_id) = <<"[UNK]">>
  BY <1>2 DEF SpelledToken
<1>4. pad_id \in Nat
  <2>1. CASE Known(<<"[PAD]">>)
    <3>1. Id(<<"[PAD]">>) \in Ids
      BY <2>1, IdIs
    <3> QED BY <2>1, <3>1 DEF pad_id, Ids
  <2>2. CASE ~Known(<<"[PAD]">>)
    BY <2>2 DEF pad_id
  <2> QED BY <2>1, <2>2
<1> QED BY <1>2, <1>3, <1>4

LEMMA TailIsSeq ==
    ASSUME NEW S, NEW s \in Seq(S), s # <<>>
    PROVE  Tail(s) \in Seq(S) /\ Len(Tail(s)) = Len(s) - 1
OBVIOUS

LEMMA TokensAreSpelled == ASSUME NEW id \in Ids PROVE SpelledToken(id) \in Seq(Chars)
<1> DEFINE C == STRING
           T == Seq(C) \ {<<>>}
           token == Vocabulary[id + 1]
<1>1. Vocabulary \in Seq(T)
  BY EncodingAssumption
<1> HIDE DEF T
<1>2. id + 1 \in 1..Len(Vocabulary)
  BY <1>1 DEF Ids
<1>3. token \in T
  BY <1>1, <1>2
<1> HIDE DEF C
<1>4. token \in Seq(C) /\ token # <<>>
  BY <1>3 DEF T
<1> HIDE DEF token
<1>5. Tail(token) \in Seq(C)
  BY <1>4, TailIsSeq
<1>6. SpelledToken(id) \in Seq(C)
  BY <1>4, <1>5 DEF SpelledToken, token
<1>7. C \subseteq Chars
  BY DEF C, Chars
<1> QED BY <1>6, <1>7, SeqOfMore

\* The rows whose sequence is Spelled.
Rows(ids) == [i \in DOMAIN ids |-> SpelledToken(ids[i])]

LEMMA RowsAre ==
    ASSUME NEW ids \in Seq(Ids)
    PROVE  Rows(ids) \in Seq(Seq(Chars)) /\ Len(Rows(ids)) = Len(ids)
<1> DEFINE T == Seq(Chars)
<1>1. \A i \in DOMAIN ids : SpelledToken(ids[i]) \in T
  BY TokensAreSpelled
<1> HIDE DEF T
<1>2. DOMAIN ids = 1..Len(ids) /\ Len(ids) \in Nat
  OBVIOUS
<1>3. Rows(ids) \in [1..Len(ids) -> T]
  BY <1>1, <1>2 DEF Rows
<1>4. Rows(ids) \in Seq(T) /\ Len(Rows(ids)) = Len(ids)
  BY <1>2, <1>3
<1> QED BY <1>4 DEF T

LEMMA SpelledConcat ==
    ASSUME NEW a \in Seq(Ids), NEW b \in Seq(Ids)
    PROVE  /\ Spelled(a \o b) = Spelled(a) \o Spelled(b)
           /\ Spelled(a) \in Seq(Chars)
<1>1. /\ a \o b \in Seq(Ids) /\ Len(a \o b) = Len(a) + Len(b)
      /\ \A i \in 1 .. Len(a) + Len(b) : (a \o b)[i] = IF i <= Len(a) THEN a[i] ELSE b[i - Len(a)]
  BY ConcatProperties
<1> DEFINE T == Seq(Chars)
           m == Len(a)
           n == Len(b)
           c == a \o b
<1>2. Rows(a) \in Seq(T) /\ Rows(b) \in Seq(T) /\ Rows(c) \in Seq(T)
      /\ Len(Rows(a)) = m /\ Len(Rows(b)) = n /\ Len(Rows(c)) = m + n
  BY <1>1, RowsAre
<1>3. m \in Nat /\ n \in Nat /\ DOMAIN a = 1..m /\ DOMAIN b = 1..n /\ DOMAIN c = 1..m + n
  BY <1>1
<1>4. \A i \in 1..m + n : c[i] = IF i <= m THEN a[i] ELSE b[i - m]
  BY <1>1
<1> HIDE DEF T, m, n, c
<1>5. /\ Rows(a) \o Rows(b) \in Seq(T) /\ Len(Rows(a) \o Rows(b)) = m + n
      /\ \A i \in 1..m + n : (Rows(a) \o Rows(b))[i] = IF i <= m THEN Rows(a)[i] ELSE Rows(b)[i - m]
  BY <1>2, ConcatProperties
<1>6. ASSUME NEW i \in 1..m + n PROVE Rows(c)[i] = (Rows(a) \o Rows(b))[i]
  <2>1. Rows(c)[i] = SpelledToken(c[i])
    BY <1>3 DEF Rows
  <2>2. CASE i <= m
    <3>1. i \in 1..m /\ c[i] = a[i] /\ (Rows(a) \o Rows(b))[i] = Rows(a)[i]
      BY <1>3, <1>4, <1>5, <2>2
    <3>2. Rows(a)[i] = SpelledToken(a[i])
      BY <1>3, <3>1 DEF Rows
    <3> QED BY <2>1, <3>1, <3>2
  <2>3. CASE ~(i <= m)
    <3> DEFINE j == i - m
    <3>1. j \in 1..n
      BY <1>3, <2>3
    <3>2. c[i] = b[j] /\ (Rows(a) \o Rows(b))[i] = Rows(b)[j]
      BY <1>4, <1>5, <2>3
    <3> HIDE DEF j
    <3>3. Rows(b)[j] = SpelledToken(b[j])
      BY <1>3, <3>1 DEF Rows
    <3> QED BY <2>1, <3>2, <3>3
  <2> QED BY <2>2, <2>3
<1>7. Rows(c) = Rows(a) \o Rows(b)
  BY <1>2, <1>5, <1>6, SeqEqual
<1>8. Flat(Rows(a) \o Rows(b)) = Flat(Rows(a)) \o Flat(Rows(b))
  BY <1>2, FlatConcat DEF T
<1>9. Flat(Rows(a)) \in Seq(Chars)
  BY <1>2, FlatIsSeq, SeqIsSeqs DEF T
<1>10. Spelled(a) = Flat(Rows(a)) /\ Spelled(b) = Flat(Rows(b)) /\ Spelled(c) = Flat(Rows(c))
  BY DEF Spelled, Rows
<1> QED BY <1>7, <1>8, <1>9, <1>10 DEF c

\* A piece of a word is spelled as the word is there.
LEMMA PieceIsSpelled ==
    ASSUME NEW word, IsWord(word), NEW from \in 0..Len(word) - 1, NEW to \in from + 1..Len(word),
           Known(Piece(word, from, to))
    PROVE  /\ Id(Piece(word, from, to)) \in Ids
           /\ SpelledToken(Id(Piece(word, from, to))) = SubSeq(word, from + 1, to)
<1> DEFINE C == Chars \cup {"##"}
           slice == SubSeq(word, from + 1, to)
           piece == Piece(word, from, to)
           mark == <<"##">>
<1>1. Id(piece) \in Ids /\ Vocabulary[Id(piece) + 1] = piece
  BY IdIs
<1>2. piece = (IF from > 0 THEN <<"##">> ELSE <<>>) \o slice
  BY DEF Piece, Slice
<1>3. SpelledToken(Id(piece)) = IF piece[1] = "##" THEN Tail(piece) ELSE piece
  BY <1>1 DEF SpelledToken
<1>4. word \in Seq(C) /\ \A i \in DOMAIN word : word[i] # "##"
  BY SeqOfMore DEF IsWord
<1>5. mark \in Seq(C) /\ Len(mark) = 1 /\ mark[1] = "##"
  <2>1. "##" \in C
    OBVIOUS
  <2> HIDE DEF C
  <2> QED BY <2>1
<1> HIDE DEF C, mark
<1>6. slice \in Seq(C) /\ Len(slice) = to - from /\ to - from \in Nat \ {0}
      /\ \A i \in 1..to - from : slice[i] = word[from + i]
  BY <1>4
<1> HIDE DEF slice, piece
<1>7. CASE from > 0
  <2>1. piece = mark \o slice
    BY <1>2, <1>7 DEF mark
  <2>2. /\ piece \in Seq(C) /\ Len(piece) = 1 + Len(slice)
        /\ \A i \in 1..1 + Len(slice) : piece[i] = IF i <= 1 THEN mark[i] ELSE slice[i - 1]
    <3>1. /\ mark \o slice \in Seq(C) /\ Len(mark \o slice) = Len(mark) + Len(slice)
          /\ \A i \in 1..Len(mark) + Len(slice) :
                (mark \o slice)[i] = IF i <= Len(mark) THEN mark[i] ELSE slice[i - Len(mark)]
      BY <1>5, <1>6, ConcatProperties
    <3> QED BY <1>5, <2>1, <3>1
  <2>3. piece[1] = "##" /\ piece # <<>>
    BY <1>5, <1>6, <2>2
  <2>4. /\ Tail(piece) \in Seq(C) /\ Len(Tail(piece)) = Len(slice)
        /\ \A i \in 1..Len(slice) : Tail(piece)[i] = piece[i + 1]
    BY <1>6, <2>2, <2>3, HeadTailProperties
  <2>5. ASSUME NEW i \in 1..Len(slice) PROVE Tail(piece)[i] = slice[i]
    <3> DEFINE j == i + 1
    <3>1. j \in 1..1 + Len(slice) /\ ~(j <= 1) /\ j - 1 = i /\ Tail(piece)[i] = piece[j]
      BY <1>6, <2>4
    <3> HIDE DEF j
    <3>2. piece[j] = slice[j - 1]
      BY <2>2, <3>1
    <3> QED BY <3>1, <3>2
  <2>6. Tail(piece) = slice
    BY <1>6, <2>4, <2>5, SeqEqual
  <2> QED BY <1>1, <1>3, <2>3, <2>6 DEF piece, slice
<1>8. CASE ~(from > 0)
  <2>1. piece = slice
    BY <1>2, <1>6, <1>8, ConcatEmptySeq
  <2>2. 1 \in 1..to - from /\ from + 1 \in DOMAIN word /\ word[from + 1] # "##"
    BY <1>4, <1>6
  <2>3. piece[1] # "##"
    BY <1>6, <2>1, <2>2
  <2> QED BY <1>1, <1>3, <2>1, <2>3 DEF piece, slice
<1> QED BY <1>7, <1>8

(* split: the pieces of a word are spelled as the word is, up to where the next one starts. *)
Pieces == [start : Int, pieces : Seq(Ids)]

SplitWell(word, s) ==
    /\ s \in Pieces
    /\ s.start # -1 => s.start \in 0..Len(word) /\ Spelled(s.pieces) = SubSeq(word, 1, s.start)

LEMMA SpelledOne ==
    ASSUME NEW id \in Ids PROVE <<id>> \in Seq(Ids) /\ Spelled(<<id>>) = SpelledToken(id)
<1> DEFINE one == <<id>>
           s == SpelledToken(id)
<1>1. one \in Seq(Ids) /\ DOMAIN one = 1..1 /\ one[1] = id
  OBVIOUS
<1>2. s \in Seq(Chars)
  BY TokensAreSpelled
<1> HIDE DEF one
<1>3. Rows(one) = [i \in 1..1 |-> s]
  BY <1>1 DEF Rows
<1> HIDE DEF s
<1>4. Rows(one) = <<s>>
  BY <1>3
<1>5. Spelled(one) = Flat(<<s>>)
  BY <1>4 DEF Spelled, Rows
<1> QED BY <1>1, <1>2, <1>5, FlatOfOne DEF one, s

LEMMA SpelledNone == Spelled(<<>>) = <<>> /\ <<>> \in Seq(Ids)
<1> DEFINE none == <<>>
<1>1. DOMAIN none = {}
  OBVIOUS
<1> HIDE DEF none
<1>2. [i \in DOMAIN none |-> SpelledToken(none[i])] = <<>>
  BY <1>1
<1>3. Spelled(none) = <<>>
  BY <1>2, FlatOfNone DEF Spelled
<1> QED BY <1>3 DEF none

LEMMA TakesPiece ==
    ASSUME NEW word, IsWord(word), NEW s \in Pieces
    PROVE  /\ TakePiece(word, s) \in Pieces
           /\ SplitWell(word, s) => SplitWell(word, TakePiece(word, s))
           /\ s.start = -1 => TakePiece(word, s).start = -1
           /\ s.start \in 0..Len(word) - 1 =>
                TakePiece(word, s).start = -1 \/ TakePiece(word, s).start > s.start
           /\ s.start \notin 0..Len(word) - 1 => TakePiece(word, s) = s
<1> DEFINE n == Len(word)
           t == TakePiece(word, s)
           ends == PieceEnds(word, s.start)
           end == Max(ends)
           id == Id(Piece(word, s.start, end))
<1>1. n \in Nat /\ s.start \in Int /\ s.pieces \in Seq(Ids) /\ word \in Seq(Chars)
  BY DEF IsWord, Pieces
<1>2. CASE s.start \notin 0..n - 1
  <2>1. t = s
    BY <1>2 DEF TakePiece
  <2> QED BY <1>2, <2>1
<1>3. CASE s.start \in 0..n - 1 /\ ends = {}
  <2>1. t = [s EXCEPT !.start = -1]
    BY <1>3 DEF TakePiece
  <2>2. t \in Pieces /\ t.start = -1
    BY <1>1, <2>1 DEF Pieces
  <2> QED BY <1>3, <2>2 DEF SplitWell
<1>4. CASE s.start \in 0..n - 1 /\ ends # {}
  <2>1. ends \in SUBSET (0..n) /\ \A to \in ends : to \in s.start + 1..n /\ Known(Piece(word, s.start, to))
    BY <1>1, <1>4 DEF PieceEnds
  <2>2. end \in ends
    <3> HIDE DEF ends, n
    <3> QED BY <1>1, <1>4, <2>1, MaxIsGreatest
  <2>3. end \in s.start + 1..n /\ Known(Piece(word, s.start, end))
    BY <2>1, <2>2
  <2>4. t = [start |-> end, pieces |-> Append(s.pieces, id)]
    BY <1>4 DEF TakePiece
  <2> HIDE DEF end, ends, t
  <2>5. id \in Ids /\ SpelledToken(id) = SubSeq(word, s.start + 1, end)
    BY <1>4, <2>3, PieceIsSpelled
  <2> HIDE DEF id
  <2>6. Append(s.pieces, id) = s.pieces \o <<id>> /\ Append(s.pieces, id) \in Seq(Ids)
    BY <1>1, <2>5, AppendIsConcat, AppendProperties
  <2>7. t.start = end /\ t.pieces = s.pieces \o <<id>> /\ t \in Pieces /\ end \in Int
    BY <1>1, <2>3, <2>4, <2>6 DEF Pieces
  <2>8. ASSUME SplitWell(word, s) PROVE SplitWell(word, t)
    <3>1. Spelled(s.pieces) = SubSeq(word, 1, s.start)
      BY <1>1, <1>4, <2>8 DEF SplitWell
    <3>2. Spelled(t.pieces) = SubSeq(word, 1, s.start) \o SubSeq(word, s.start + 1, end)
      BY <1>1, <2>5, <2>7, <3>1, SpelledConcat, SpelledOne
    <3>3. SubSeq(word, 1, s.start) \o SubSeq(word, s.start + 1, end) = SubSeq(word, 1, end)
      <4>1. 1 \in 1..Len(word) + 1 /\ s.start \in 1 - 1..Len(word) /\ end \in s.start..Len(word)
        BY <1>1, <1>4, <2>3
      <4> QED BY <1>1, <4>1, ConcatAdjacentSubSeq
    <3>4. end \in 0..n
      BY <1>1, <1>4, <2>3
    <3> QED BY <2>7, <3>2, <3>3, <3>4 DEF SplitWell
  <2>9. end > s.start /\ s.start # -1
    BY <1>1, <1>4, <2>3
  <2> QED BY <1>4, <2>7, <2>8, <2>9 DEF t
<1> QED BY <1>2, <1>3, <1>4

\* What split is, turn by turn.
LEMMA SplitTurns ==
    ASSUME NEW word, IsWord(word)
    PROVE  LET f == split(word)
           IN  /\ f[0] = [start |-> 0, pieces |-> <<>>]
               /\ \A n \in 1..Len(word) : f[n] = TakePiece(word, f[n - 1])
<1> DEFINE N == Len(word)
           a == [start |-> 0, pieces |-> <<>>]
           f == split(word)
           G == [k \in 1..N |-> [s \in Pieces |-> TakePiece(word, s)]]
           Is(g) == g = [n \in 0..N |-> IF n = 0 THEN a ELSE TakePiece(word, g[n - 1])]
<1>1. N \in Nat /\ a \in Pieces /\ \A s \in Pieces : TakePiece(word, s) \in Pieces
  BY TakesPiece DEF IsWord, Pieces
<1>2. f = CHOOSE g : Is(g)
  BY DEF split
<1> HIDE DEF N, a, f
<1>3. G \in [1..N -> [Pieces -> Pieces]] /\ \A k \in 1..N, s \in Pieces : G[k][s] = TakePiece(word, s)
  BY <1>1
<1> HIDE DEF G
<1>4. PICK h : h \in [0..N -> Pieces] /\ h[0] = a /\ \A k \in 1..N : h[k] = G[k][h[k - 1]]
  <2>1. \E h : Follows(N, Pieces, a, G, h)
    BY <1>1, <1>3, Recursion
  <2> QED BY <2>1 DEF Follows
<1>5. ASSUME NEW k \in 1..N PROVE h[k] = TakePiece(word, h[k - 1])
  <2>1. h[k - 1] \in Pieces
    BY <1>1, <1>4
  <2> QED BY <1>3, <1>4, <2>1
<1>6. Is(h)
  <2> DEFINE e(k) == IF k = 0 THEN a ELSE TakePiece(word, h[k - 1])
  <2>1. \A k \in 0..N : h[k] = e(k)
    <3>1. \A k \in 0..N : k = 0 \/ k \in 1..N
      BY <1>1
    <3> QED BY <1>4, <1>5, <3>1
  <2> HIDE DEF e
  <2>2. h = [k \in 0..N |-> e(k)]
    BY <1>4, <2>1
  <2> QED BY <2>2 DEF e
<1>7. Is(f)
  <2> HIDE DEF Is
  <2> QED BY <1>2, <1>6
<1>8. f[0] = a
  BY <1>1, <1>7
<1>9. ASSUME NEW k \in 1..N PROVE f[k] = TakePiece(word, f[k - 1])
  <2>1. k \in 0..N /\ k # 0
    BY <1>1
  <2> QED BY <1>7, <2>1
<1> QED BY <1>8, <1>9 DEF N, a, f

LEMMA WordpieceIs ==
    ASSUME from_vocab, NEW word, IsWord(word)
    PROVE  /\ wordpiece(word) \in Seq(Ids)
           /\ Spelled(wordpiece(word)) = IF wordpiece(word) = <<unk_id>> THEN <<"[UNK]">> ELSE word
<1> DEFINE N == Len(word)
           f == split(word)
           P == {k \in 0..N : /\ SplitWell(word, f[k])
                              /\ f[k].start = -1 \/ f[k].start >= k \/ f[k].start = N}
           unk == <<unk_id>>
<1>1. /\ f[0] = [start |-> 0, pieces |-> <<>>]
      /\ \A n \in 1..N : f[n] = TakePiece(word, f[n - 1])
  BY SplitTurns
<1>2. N \in Nat /\ word \in Seq(Chars)
  BY DEF IsWord
<1> HIDE DEF f
<1>3. 0 \in P
  <2>1. SubSeq(word, 1, 0) = <<>>
    BY SubSeqEmpty
  <2>2. SplitWell(word, f[0]) /\ f[0].start = 0
    <3>1. f[0] \in Pieces /\ f[0].start = 0 /\ f[0].pieces = <<>>
      BY <1>1, SpelledNone DEF Pieces
    <3>2. Spelled(f[0].pieces) = SubSeq(word, 1, f[0].start)
      BY <2>1, <3>1, SpelledNone
    <3> QED BY <1>2, <3>1, <3>2 DEF SplitWell
  <2> QED BY <1>2, <2>2
<1>4. ASSUME NEW k \in 1..N, k - 1 \in P PROVE k \in P
  <2> DEFINE s == f[k - 1]
             t == f[k]
  <2>1. t = TakePiece(word, s) /\ SplitWell(word, s) /\ k \in 0..N
        /\ (s.start = -1 \/ s.start >= k - 1 \/ s.start = N)
    BY <1>1, <1>2, <1>4
  <2> HIDE DEF s, t
  <2>2. s \in Pieces /\ s.start \in Int /\ (s.start # -1 => s.start \in 0..N)
    BY <2>1 DEF SplitWell, Pieces
  <2>3. /\ SplitWell(word, t)
        /\ s.start = -1 => t.start = -1
        /\ s.start \in 0..N - 1 => t.start = -1 \/ t.start > s.start
        /\ s.start \notin 0..N - 1 => t = s
    BY <2>1, <2>2, TakesPiece
  <2>4. t.start \in Int
    BY <2>3 DEF SplitWell, Pieces
  <2>5. t.start = -1 \/ t.start >= k \/ t.start = N
    BY <1>2, <2>1, <2>2, <2>3, <2>4
  <2> QED BY <2>1, <2>3, <2>5 DEF t
<1> HIDE DEF P
<1>5. N \in P
  <2>1. 0..N \subseteq P
    BY <1>2, <1>3, <1>4, Induction
  <2> QED BY <1>2, <2>1
<1> DEFINE s == f[N]
<1>6. SplitWell(word, s) /\ (s.start = -1 \/ s.start >= N)
  BY <1>2, <1>5 DEF P
<1>7. wordpiece(word) = IF N > MAX_WORD_CHARS \/ s.start = -1 THEN unk ELSE s.pieces
  BY DEF wordpiece, f
<1>8. unk \in Seq(Ids) /\ Spelled(unk) = <<"[UNK]">>
  BY SpecialIds, SpelledOne
<1> HIDE DEF s, N, unk
<1>9. CASE wordpiece(word) = unk
  BY <1>8, <1>9 DEF unk
<1>10. CASE wordpiece(word) # unk
  <2>1. wordpiece(word) = s.pieces /\ s.start # -1
    BY <1>7, <1>10
  <2>2. s.start = N /\ s.pieces \in Seq(Ids) /\ Spelled(s.pieces) = SubSeq(word, 1, N)
    BY <1>2, <1>6, <2>1 DEF SplitWell, Pieces, N
  <2>3. SubSeq(word, 1, N) = word
    BY <1>2, SubSeqFull DEF N
  <2> QED BY <1>10, <2>1, <2>2, <2>3 DEF unk
<1> QED BY <1>9, <1>10

(* basic_tokenize: the words have the letters of the text, in order. *)
ReadStates == [words : Seq(Seq(Chars)), current : Seq(Chars)]

WordsAreTexts(s) ==
    /\ s \in ReadStates
    /\ \A w \in DOMAIN s.words : IsWord(s.words[w])
    /\ IsWord(s.current)

\* The letters read so far.
ReadOf(s) == Flat(s.words) \o s.current

LEMMA AppendedText ==
    ASSUME NEW text, IsWord(text), NEW c \in Chars, c # "##"
    PROVE  IsWord(Append(text, c)) /\ Append(text, c) = text \o <<c>> /\ <<c>> \in Seq(Chars)
           /\ IsWord(<<c>>)
<1> DEFINE C == Chars
           t == Append(text, c)
           one == <<c>>
<1>1. text \in Seq(C) /\ c \in C /\ \A i \in DOMAIN text : text[i] # "##"
  BY DEF IsWord
<1> HIDE DEF C
<1>2. /\ t \in Seq(C) /\ Len(t) = Len(text) + 1 /\ t[Len(text) + 1] = c
      /\ \A k \in 1..Len(text) : t[k] = text[k]
      /\ t = text \o one
  BY <1>1, AppendProperties, AppendIsConcat
<1>3. one \in Seq(C) /\ DOMAIN one = 1..1 /\ one[1] = c
  BY <1>1
<1> HIDE DEF t, one
<1>4. Len(text) \in Nat /\ DOMAIN text = 1..Len(text) /\ DOMAIN t = 1..Len(text) + 1
  BY <1>1, <1>2
<1>5. \A i \in DOMAIN t : t[i] # "##"
  <2> SUFFICES ASSUME NEW i \in DOMAIN t PROVE t[i] # "##"
    OBVIOUS
  <2>1. i \in 1..Len(text) \/ i = Len(text) + 1
    BY <1>4
  <2> QED BY <1>1, <1>2, <1>4, <2>1
<1>6. \A i \in DOMAIN one : one[i] # "##"
  BY <1>3
<1> QED BY <1>2, <1>3, <1>5, <1>6 DEF IsWord, C, t, one

LEMMA Flushes ==
    ASSUME NEW s, WordsAreTexts(s)
    PROVE  /\ WordsAreTexts(flush(s)) /\ flush(s).current = <<>>
           /\ Flat(flush(s).words) = ReadOf(s)
<1> DEFINE T == Seq(Chars)
           t == flush(s)
<1>1. /\ s.words \in Seq(T) /\ s.current \in T /\ s \in ReadStates /\ IsWord(s.current)
      /\ \A w \in DOMAIN s.words : IsWord(s.words[w])
  BY DEF WordsAreTexts, ReadStates
<1>2. Flat(s.words) \in T
  BY <1>1, SeqIsSeqs, FlatIsSeq
<1>3. CASE s.current = <<>>
  <2>1. t = s
    BY <1>3 DEF flush
  <2>2. ReadOf(s) = Flat(s.words)
    BY <1>2, <1>3, ConcatEmptySeq DEF ReadOf
  <2> QED BY <1>3, <2>1, <2>2
<1>4. CASE s.current # <<>>
  <2> DEFINE words == Append(s.words, s.current)
             n == Len(s.words)
  <2>1. t = [words |-> words, current |-> <<>>]
    BY <1>4 DEF flush
  <2>2. Flat(words) = ReadOf(s)
    BY <1>1, FlatGrows DEF ReadOf
  <2>3. IsWord(<<>>) /\ <<>> \in T
    BY DEF IsWord
  <2> HIDE DEF T
  <2>4. /\ words \in Seq(T) /\ Len(words) = n + 1 /\ words[n + 1] = s.current
        /\ \A k \in 1..n : words[k] = s.words[k]
    BY <1>1, AppendProperties
  <2>5. n \in Nat /\ DOMAIN s.words = 1..n
    BY <1>1
  <2> HIDE DEF n, words
  <2>6. DOMAIN words = 1..n + 1
    BY <2>4
  <2>7. \A w \in DOMAIN words : IsWord(words[w])
    <3> SUFFICES ASSUME NEW w \in DOMAIN words PROVE IsWord(words[w])
      OBVIOUS
    <3>1. w \in 1..n \/ w = n + 1
      BY <2>5, <2>6
    <3> QED BY <1>1, <2>4, <2>5, <3>1
  <2>8. t \in ReadStates /\ t.words = words /\ t.current = <<>>
    BY <2>1, <2>3, <2>4 DEF ReadStates, T
  <2> QED BY <2>2, <2>3, <2>7, <2>8 DEF WordsAreTexts
<1> QED BY <1>3, <1>4

LEMMA ReadsChar ==
    ASSUME NEW s, WordsAreTexts(s), NEW c \in Chars, c # "##"
    PROVE  /\ WordsAreTexts(ReadChar(s, c))
           /\ ReadOf(ReadChar(s, c)) = ReadOf(s) \o LetterOf(c)
<1> DEFINE T == Seq(Chars)
           t == ReadChar(s, c)
           u == flush(s)
<1>1. s.words \in Seq(T) /\ s.current \in T /\ s \in ReadStates
  BY DEF WordsAreTexts, ReadStates
<1>2. Flat(s.words) \in T /\ ReadOf(s) \in T
  <2>1. Flat(s.words) \in T
    BY <1>1, SeqIsSeqs, FlatIsSeq
  <2> QED BY <1>1, <2>1, ConcatProperties DEF ReadOf
<1>3. ReadOf(s) \o <<>> = ReadOf(s)
  BY <1>2, ConcatEmptySeq
<1>4. WordsAreTexts(u) /\ u.current = <<>> /\ Flat(u.words) = ReadOf(s)
  BY Flushes
<1> HIDE DEF u
<1>5. CASE is_combining_mark(c)
  <2>1. t = s /\ LetterOf(c) = <<>>
    BY <1>5 DEF ReadChar, LetterOf
  <2> QED BY <1>3, <2>1
<1>6. CASE ~is_combining_mark(c) /\ IsWhite(c)
  <2>1. t = u /\ LetterOf(c) = <<>>
    BY <1>6 DEF ReadChar, LetterOf, u
  <2>2. ReadOf(u) = ReadOf(s)
    BY <1>2, <1>4, ConcatEmptySeq DEF ReadOf
  <2> QED BY <1>3, <1>4, <2>1, <2>2
<1>7. CASE ~is_combining_mark(c) /\ ~IsWhite(c) /\ is_punctuation(c)
  <2> DEFINE one == <<c>>
             words == Append(u.words, one)
             n == Len(u.words)
  <2>1. c # "B"
    BY <1>7 DEF is_punctuation
  <2>2. t = [u EXCEPT !.words = words] /\ LetterOf(c) = one
    BY <1>7, <2>1 DEF ReadChar, LetterOf, Lowercase, u
  <2>3. one \in T /\ IsWord(one)
    <3>1. IsWord(<<>>)
      BY DEF IsWord
    <3> QED BY <3>1, AppendedText
  <2>4. u.words \in Seq(T) /\ u \in ReadStates /\ \A w \in DOMAIN u.words : IsWord(u.words[w])
    BY <1>4 DEF WordsAreTexts, ReadStates
  <2>5. Flat(words) = ReadOf(s) \o one
    BY <1>4, <2>3, <2>4, FlatGrows
  <2> HIDE DEF one
  <2>6. /\ words \in Seq(T) /\ Len(words) = n + 1 /\ words[n + 1] = one
        /\ \A k \in 1..n : words[k] = u.words[k]
        /\ n \in Nat /\ DOMAIN u.words = 1..n
    <3> HIDE DEF T
    <3> QED BY <2>3, <2>4, AppendProperties
  <2> HIDE DEF n, words
  <2>7. DOMAIN words = 1..n + 1
    BY <2>6
  <2>8. \A w \in DOMAIN words : IsWord(words[w])
    <3> SUFFICES ASSUME NEW w \in DOMAIN words PROVE IsWord(words[w])
      OBVIOUS
    <3>1. w \in 1..n \/ w = n + 1
      BY <2>6, <2>7
    <3> QED BY <2>3, <2>4, <2>6, <3>1
  <2> HIDE DEF t
  <2>9. t \in ReadStates /\ t.words = words /\ t.current = <<>>
    BY <1>4, <2>2, <2>4, <2>6 DEF ReadStates
  <2>10. WordsAreTexts(t)
    BY <1>4, <2>8, <2>9 DEF WordsAreTexts
  <2>11. ReadOf(s) \o one \in T
    BY <1>2, <2>3, ConcatProperties
  <2>12. ReadOf(t) = ReadOf(s) \o one
    BY <2>5, <2>9, <2>11, ConcatEmptySeq DEF ReadOf
  <2> QED BY <2>2, <2>10, <2>12 DEF t
<1>8. CASE ~is_combining_mark(c) /\ ~IsWhite(c) /\ ~is_punctuation(c)
  <2> DEFINE l == Lowercase(c)
  <2>1. l \in Chars /\ l # "##"
    BY DEF Lowercase, Chars
  <2>2. LetterOf(c) = <<l>> /\ t = [s EXCEPT !.current = Append(s.current, l)]
    BY <1>8 DEF ReadChar, LetterOf
  <2> HIDE DEF l
  <2>3. IsWord(s.current) /\ \A w \in DOMAIN s.words : IsWord(s.words[w])
    BY DEF WordsAreTexts
  <2>4. IsWord(Append(s.current, l)) /\ Append(s.current, l) = s.current \o <<l>> /\ <<l>> \in T
    BY <2>1, <2>3, AppendedText
  <2> HIDE DEF t
  <2>5. t \in ReadStates /\ t.words = s.words /\ t.current = s.current \o <<l>> /\ IsWord(t.current)
    BY <1>1, <2>2, <2>4 DEF ReadStates, IsWord
  <2> DEFINE one == <<l>>
             a == Flat(s.words)
             b == s.current
  <2>6. (a \o b) \o one = a \o (b \o one)
    <3>1. a \in T /\ b \in T /\ one \in T
      BY <1>1, <1>2, <2>4
    <3> HIDE DEF a, b, one
    <3> QED BY <3>1, ConcatAssociative
  <2>7. ReadOf(t) = ReadOf(s) \o LetterOf(c)
    BY <2>2, <2>5, <2>6 DEF ReadOf, one
  <2> QED BY <2>3, <2>5, <2>7 DEF WordsAreTexts, t
<1> QED BY <1>5, <1>6, <1>7, <1>8

LEMMA NoneIsRead ==
    LET none == [words |-> <<>>, current |-> <<>>] IN WordsAreTexts(none) /\ ReadOf(none) = <<>>
<1> DEFINE none == [words |-> <<>>, current |-> <<>>]
<1>1. none \in ReadStates /\ none.words = <<>> /\ none.current = <<>> /\ IsWord(<<>>)
  BY DEF ReadStates, IsWord
<1>2. WordsAreTexts(none)
  BY <1>1 DEF WordsAreTexts
<1>3. ReadOf(none) = <<>>
  BY <1>1, FlatOfNone DEF ReadOf
<1> QED BY <1>2, <1>3

\* The states of reading a text.
LEMMA ReadTurns ==
    ASSUME NEW text, IsWord(text)
    PROVE  LET f == read(text)
           IN  /\ f[0] = [words |-> <<>>, current |-> <<>>]
               /\ \A n \in 1..Len(text) : f[n] = ReadChar(f[n - 1], text[n])
<1> DEFINE N == Len(text)
           a == [words |-> <<>>, current |-> <<>>]
           V == {s \in ReadStates : WordsAreTexts(s)}
           f == read(text)
           G == [k \in 1..N |-> [s \in V |-> ReadChar(s, text[k])]]
           Is(g) == g = [n \in 0..N |-> IF n = 0 THEN a ELSE ReadChar(g[n - 1], text[n])]
<1>1. N \in Nat /\ a \in V /\ \A k \in 1..N, s \in V : ReadChar(s, text[k]) \in V
  <2>1. N \in Nat /\ \A k \in 1..N : text[k] \in Chars /\ text[k] # "##"
    BY DEF IsWord
  <2>2. a \in V
    BY NoneIsRead DEF WordsAreTexts
  <2>3. \A k \in 1..N, s \in V : ReadChar(s, text[k]) \in V
    BY <2>1, ReadsChar DEF WordsAreTexts
  <2> QED BY <2>1, <2>2, <2>3
<1>2. f = CHOOSE g : Is(g)
  BY DEF read
<1> HIDE DEF N, a, f, V
<1>3. G \in [1..N -> [V -> V]] /\ \A k \in 1..N, s \in V : G[k][s] = ReadChar(s, text[k])
  BY <1>1
<1> HIDE DEF G
<1>4. PICK h : h \in [0..N -> V] /\ h[0] = a /\ \A k \in 1..N : h[k] = G[k][h[k - 1]]
  <2>1. \E h : Follows(N, V, a, G, h)
    BY <1>1, <1>3, Recursion
  <2> QED BY <2>1 DEF Follows
<1>5. ASSUME NEW k \in 1..N PROVE h[k] = ReadChar(h[k - 1], text[k])
  <2>1. h[k - 1] \in V
    BY <1>1, <1>4
  <2> QED BY <1>3, <1>4, <2>1
<1>6. Is(h)
  <2> DEFINE e(k) == IF k = 0 THEN a ELSE ReadChar(h[k - 1], text[k])
  <2>1. \A k \in 0..N : h[k] = e(k)
    <3>1. \A k \in 0..N : k = 0 \/ k \in 1..N
      BY <1>1
    <3> QED BY <1>4, <1>5, <3>1
  <2> HIDE DEF e
  <2>2. h = [k \in 0..N |-> e(k)]
    BY <1>4, <2>1
  <2> QED BY <2>2 DEF e
<1>7. Is(f)
  <2> HIDE DEF Is
  <2> QED BY <1>2, <1>6
<1>8. f[0] = a
  BY <1>1, <1>7
<1>9. ASSUME NEW k \in 1..N PROVE f[k] = ReadChar(f[k - 1], text[k])
  <2>1. k \in 0..N /\ k # 0
    BY <1>1
  <2> QED BY <1>7, <2>1
<1> QED BY <1>8, <1>9 DEF N, a, f

\* The words of a text have its letters.
LEMMA WordsAreLetters ==
    ASSUME NEW text, IsWord(text)
    PROVE  /\ basic_tokenize(text) \in Seq(Seq(Chars))
           /\ \A w \in DOMAIN basic_tokenize(text) : IsWord(basic_tokenize(text)[w])
           /\ Flat(basic_tokenize(text)) = LettersOf(text)
<1> DEFINE N == Len(text)
           f == read(text)
           row == [i \in DOMAIN text |-> LetterOf(text[i])]
           g == flat(row)
           P == {k \in 0..N : WordsAreTexts(f[k]) /\ ReadOf(f[k]) = g[k]}
<1>1. /\ f[0] = [words |-> <<>>, current |-> <<>>]
      /\ \A n \in 1..N : f[n] = ReadChar(f[n - 1], text[n])
  BY ReadTurns
<1>2. N \in Nat /\ DOMAIN text = 1..N /\ \A k \in 1..N : text[k] \in Chars /\ text[k] # "##"
  BY DEF IsWord
<1>3. Len(row) = N /\ \A k \in 1..N : row[k] = LetterOf(text[k])
  BY <1>2
<1>4. \A k \in 1..N : LetterOf(text[k]) \in Seq(Chars)
  <2>1. \A c \in Chars : Lowercase(c) \in Chars
    BY DEF Lowercase, Chars
  <2>2. ASSUME NEW c \in Chars PROVE LetterOf(c) \in Seq(Chars)
    <3>1. LetterOf(c) = <<>> \/ LetterOf(c) = <<Lowercase(c)>>
      BY DEF LetterOf
    <3>2. Lowercase(c) \in Chars
      BY <2>1
    <3> DEFINE l == Lowercase(c)
    <3> HIDE DEF l
    <3>3. <<>> \in Seq(Chars) /\ <<l>> \in Seq(Chars)
      BY <3>2 DEF l
    <3> QED BY <3>1, <3>3 DEF l
  <2> QED BY <1>2, <2>2
<1> HIDE DEF f, row, N
<1>5. SeqsOf(Chars, row)
  BY <1>2, <1>3, <1>4 DEF SeqsOf
<1>6. Joins(Chars, row, g)
  BY <1>5, FlatJoins
<1> HIDE DEF g
<1>7. /\ g[0] = <<>> /\ \A k \in 1..N : g[k] = g[k - 1] \o LetterOf(text[k])
      /\ Flat(row) = g[N]
  BY <1>3, <1>6 DEF Joins
<1>8. 0 \in P
  BY <1>1, <1>2, <1>7, NoneIsRead
<1>9. ASSUME NEW k \in 1..N, k - 1 \in P PROVE k \in P
  <2>1. WordsAreTexts(f[k - 1]) /\ ReadOf(f[k - 1]) = g[k - 1]
    BY <1>9
  <2>2. text[k] \in Chars /\ text[k] # "##" /\ k \in 0..N
    BY <1>2
  <2>3. f[k] = ReadChar(f[k - 1], text[k])
    BY <1>1 DEF N
  <2>4. WordsAreTexts(f[k]) /\ ReadOf(f[k]) = g[k - 1] \o LetterOf(text[k])
    BY <2>1, <2>2, <2>3, ReadsChar
  <2> QED BY <1>7, <2>2, <2>4
<1> HIDE DEF P
<1>10. N \in P
  <2>1. 0..N \subseteq P
    BY <1>2, <1>8, <1>9, Induction
  <2> QED BY <1>2, <2>1
<1>11. WordsAreTexts(f[N]) /\ ReadOf(f[N]) = Flat(row)
  BY <1>7, <1>10 DEF P
<1>12. WordsAreTexts(flush(f[N])) /\ Flat(flush(f[N]).words) = Flat(row)
  BY <1>11, Flushes
<1>13. basic_tokenize(text) = flush(f[N]).words /\ LettersOf(text) = Flat(row)
  BY DEF basic_tokenize, LettersOf, f, row, N
<1> QED BY <1>12, <1>13 DEF WordsAreTexts, ReadStates

\* The tokens of a text are spelled as its words are, but for those that the vocabulary
\* does not have.
LEMMA WordIdsAre ==
    ASSUME from_vocab, NEW text, IsWord(text)
    PROVE  /\ word_ids(text) \in Seq(Ids) /\ Len(word_ids(text)) \in Nat
           /\ Spelled(word_ids(text)) = Readable(basic_tokenize(text))
           /\ Readable(basic_tokenize(text)) \in Seq(Chars)
<1> DEFINE words == basic_tokenize(text)
           N == Len(words)
           ids == [i \in DOMAIN words |-> wordpiece(words[i])]
           shown == [i \in DOMAIN words |->
                        IF wordpiece(words[i]) = <<unk_id>> THEN <<"[UNK]">> ELSE words[i]]
           f == flat(ids)
           g == flat(shown)
           P == {k \in 0..N : Spelled(f[k]) = g[k]}
<1>1. words \in Seq(Seq(Chars)) /\ \A w \in DOMAIN words : IsWord(words[w])
  BY WordsAreLetters
<1>2. N \in Nat /\ DOMAIN words = 1..N
  <2> DEFINE T == Seq(Chars)
  <2>1. words \in Seq(T)
    BY <1>1
  <2> HIDE DEF T
  <2> QED BY <2>1
<1>3. word_ids(text) = Flat(ids) /\ Readable(words) = Flat(shown)
  BY DEF word_ids, Readable
<1> HIDE DEF words, N
<1>4. /\ Len(ids) = N /\ Len(shown) = N
      /\ \A k \in 1..N : /\ ids[k] = wordpiece(words[k])
                         /\ shown[k] = IF ids[k] = <<unk_id>> THEN <<"[UNK]">> ELSE words[k]
  BY <1>2
<1> HIDE DEF ids, shown
<1>5. ASSUME NEW k \in 1..N
      PROVE  ids[k] \in Seq(Ids) /\ Spelled(ids[k]) = shown[k] /\ shown[k] \in Seq(Chars)
  <2>1. IsWord(words[k])
    BY <1>1, <1>2
  <2>2. ids[k] \in Seq(Ids) /\ Spelled(ids[k]) = shown[k]
    BY <1>4, <2>1, WordpieceIs
  <2> QED BY <2>2, SpelledConcat
<1>6. SeqsOf(Ids, ids) /\ SeqsOf(Chars, shown)
  BY <1>2, <1>4, <1>5 DEF SeqsOf
<1>7. Joins(Ids, ids, f) /\ Joins(Chars, shown, g) /\ Flat(ids) \in Seq(Ids) /\ Flat(shown) \in Seq(Chars)
  BY <1>6, FlatJoins, FlatIsSeq
<1> HIDE DEF f, g
<1>8. /\ f[0] = <<>> /\ \A k \in 1..N : f[k] = f[k - 1] \o ids[k]
      /\ g[0] = <<>> /\ \A k \in 1..N : g[k] = g[k - 1] \o shown[k]
      /\ \A k \in 0..N : f[k] \in Seq(Ids)
      /\ Flat(ids) = f[N] /\ Flat(shown) = g[N]
  BY <1>4, <1>7 DEF Joins
<1>9. 0 \in P
  BY <1>2, <1>8, SpelledNone
<1>10. ASSUME NEW k \in 1..N, k - 1 \in P PROVE k \in P
  <2>1. /\ f[k] = f[k - 1] \o ids[k] /\ g[k] = g[k - 1] \o shown[k]
        /\ Spelled(f[k - 1]) = g[k - 1] /\ f[k - 1] \in Seq(Ids) /\ k \in 0..N
    <3>1. k - 1 \in 0..N /\ k \in 0..N
      BY <1>2
    <3> QED BY <1>8, <1>10, <3>1
  <2>2. Spelled(f[k]) = Spelled(f[k - 1]) \o Spelled(ids[k])
    BY <1>5, <2>1, SpelledConcat
  <2> QED BY <1>5, <2>1, <2>2
<1> HIDE DEF P
<1>11. N \in P
  <2>1. 0..N \subseteq P
    BY <1>2, <1>9, <1>10, Induction
  <2> QED BY <1>2, <2>1
<1>12. Spelled(Flat(ids)) = Flat(shown)
  BY <1>8, <1>11 DEF P
<1>13. \A s \in Seq(Ids) : Len(s) \in Nat
  OBVIOUS
<1> QED BY <1>3, <1>7, <1>12, <1>13 DEF words

(* encode: the first tokens of a text, between [CLS] and [SEP]. *)
LEMMA UptoIs ==
    ASSUME NEW S, NEW s \in Seq(S), NEW n \in Nat
    PROVE  /\ Upto(s, n) \in Seq(S) /\ Len(Upto(s, n)) \in Nat /\ Len(Upto(s, n)) <= n
           /\ Upto(s, n) = SubSeq(s, 1, Len(Upto(s, n))) /\ Len(Upto(s, n)) \in 0..Len(s)
           /\ Len(Upto(s, n)) < n => Upto(s, n) = s
<1> DEFINE M == {n, Len(s)}
           m == Min(M)
<1>1. Len(s) \in Nat
  OBVIOUS
<1>2. m \in M /\ m <= n /\ m <= Len(s)
  <2>1. M \in SUBSET Nat /\ M # {}
    BY <1>1
  <2>2. n \in M /\ Len(s) \in M
    OBVIOUS
  <2> HIDE DEF M
  <2> QED BY <2>1, <2>2, MinIsLeast
<1>3. Upto(s, n) = SubSeq(s, 1, m)
  BY DEF Upto
<1>4. m \in 0..Len(s) /\ (m < n => m = Len(s))
  BY <1>1, <1>2
<1> HIDE DEF m
<1>5. SubSeq(s, 1, m) \in Seq(S) /\ Len(SubSeq(s, 1, m)) = m
  BY <1>1, <1>4
<1>6. SubSeq(s, 1, Len(s)) = s
  BY SubSeqFull
<1> QED BY <1>1, <1>2, <1>3, <1>4, <1>5, <1>6

LEMMA AtLeast0Is ==
    ASSUME NEW n \in Nat PROVE AtLeast0(n) = n
<1>1. Max({0, n}) = n
  <2>1. \A x \in {0, n} : n >= x
    OBVIOUS
  <2>2. \E x \in {0, n} : \A y \in {0, n} : x >= y
    BY <2>1
  <2>3. Max({0, n}) \in {0, n} /\ \A y \in {0, n} : Max({0, n}) >= y
    BY <2>2 DEF Max
  <2> QED BY <2>3
<1> QED BY <1>1 DEF AtLeast0

\* What is between the first and the last of a sequence.
Encloses(S, a, s, b, t) ==
    /\ t \in Seq(S) /\ Len(t) = Len(s) + 2 /\ Tail(Front(t)) = s
    /\ t[1] = a /\ t[Len(s) + 2] = b /\ \A i \in 1..Len(s) : t[i + 1] = s[i]

LEMMA Between ==
    ASSUME NEW S, NEW a \in S, NEW s \in Seq(S), NEW b \in S
    PROVE  Encloses(S, a, s, b, <<a>> \o s \o <<b>>)
<1> DEFINE first == <<a>>
           last == <<b>>
           u == first \o s
           t == u \o last
           n == Len(s)
<1>1. first \in Seq(S) /\ Len(first) = 1 /\ first[1] = a /\ last \in Seq(S) /\ Len(last) = 1 /\ last[1] = b
  OBVIOUS
<1>2. n \in Nat
  OBVIOUS
<1> HIDE DEF first, last
<1>3. u \in Seq(S) /\ Len(u) = n + 1 /\ \A i \in 1..n + 1 : u[i] = IF i <= 1 THEN first[i] ELSE s[i - 1]
  <2>1. /\ u \in Seq(S) /\ Len(u) = Len(first) + Len(s)
        /\ \A i \in 1..Len(first) + Len(s) : u[i] = IF i <= Len(first) THEN first[i] ELSE s[i - Len(first)]
    BY <1>1, ConcatProperties
  <2> QED BY <1>1, <1>2, <2>1
<1> HIDE DEF u
<1>4. t \in Seq(S) /\ Len(t) = n + 2 /\ \A i \in 1..n + 2 : t[i] = IF i <= n + 1 THEN u[i] ELSE last[i - (n + 1)]
  <2>1. /\ t \in Seq(S) /\ Len(t) = Len(u) + Len(last)
        /\ \A i \in 1..Len(u) + Len(last) : t[i] = IF i <= Len(u) THEN u[i] ELSE last[i - Len(u)]
    BY <1>1, <1>3, ConcatProperties
  <2> QED BY <1>1, <1>2, <1>3, <2>1
<1> HIDE DEF t
<1>5. t[1] = a /\ t[n + 2] = b
  <2>1. 1 \in 1..n + 2 /\ 1 <= n + 1 /\ 1 \in 1..n + 1
    BY <1>2
  <2>2. n + 2 \in 1..n + 2 /\ ~(n + 2 <= n + 1) /\ n + 2 - (n + 1) = 1
    BY <1>2
  <2>3. t[1] = a
    BY <1>1, <1>3, <1>4, <2>1
  <2>4. t[n + 2] = b
    BY <1>1, <1>4, <2>2
  <2> QED BY <2>3, <2>4
<1>6. ASSUME NEW i \in 1..n PROVE t[i + 1] = s[i]
  <2> DEFINE j == i + 1
  <2>1. j \in 1..n + 2 /\ j \in 1..n + 1 /\ j <= n + 1 /\ ~(j <= 1) /\ j - 1 = i
    BY <1>2
  <2> HIDE DEF j
  <2>2. t[j] = u[j] /\ u[j] = s[j - 1]
    BY <1>3, <1>4, <2>1
  <2> QED BY <2>1, <2>2 DEF j
<1> DEFINE v == Front(t)
           w == Tail(v)
<1>7. v = SubSeq(t, 1, n + 1)
  <2>1. Len(t) - 1 = n + 1
    BY <1>2, <1>4
  <2> QED BY <2>1 DEF Front
<1>8. v \in Seq(S) /\ Len(v) = n + 1 /\ v # <<>> /\ \A i \in 1..n + 1 : v[i] = t[i]
  BY <1>2, <1>4, <1>7
<1> HIDE DEF v
<1>9. w \in Seq(S) /\ Len(w) = n /\ \A i \in 1..n : w[i] = v[i + 1]
  BY <1>2, <1>8
<1> HIDE DEF w
<1>10. w = s
  <2>1. \A i \in 1..n : i + 1 \in 1..n + 1
    BY <1>2
  <2>2. \A i \in 1..n : w[i] = s[i]
    BY <1>6, <1>8, <1>9, <2>1
  <2> HIDE DEF n
  <2>3. w \in Seq(S) /\ s \in Seq(S) /\ Len(w) = Len(s)
    BY <1>9 DEF n
  <2> QED BY <2>2, <2>3, SeqEqual DEF n
<1> QED BY <1>4, <1>5, <1>6, <1>10 DEF Encloses, w, v, t, u, first, last, n

LEMMA EncodeIs ==
    ASSUME from_vocab, NEW text, IsWord(text)
    PROVE  LET t == encode(text, MAX_SEQ_LEN)
               body == Tail(Front(t))
           IN  /\ t \in Seq(Ids) /\ Len(t) \in Nat /\ Len(t) >= 2
               /\ IsPrefix(Spelled(body), Readable(basic_tokenize(text)))
               /\ Len(body) < MAX_SEQ_LEN - 2 => Spelled(body) = Readable(basic_tokenize(text))
<1> DEFINE ids == word_ids(text)
           n == MAX_SEQ_LEN - 2
           body == Upto(ids, n)
           t == encode(text, MAX_SEQ_LEN)
           r == Readable(basic_tokenize(text))
           k == Len(body)
<1>1. ids \in Seq(Ids) /\ Len(ids) \in Nat /\ Spelled(ids) = r /\ r \in Seq(Chars)
  BY WordIdsAre
<1>2. n \in Nat /\ AtLeast0(n) = n
  BY EncodingAssumption, AtLeast0Is
<1>3. cls_id \in Ids /\ sep_id \in Ids
  BY SpecialIds
<1>4. t = <<cls_id>> \o body \o <<sep_id>>
  BY <1>2 DEF encode
<1> HIDE DEF ids, n
<1>5. /\ body \in Seq(Ids) /\ k \in 0..Len(ids) /\ body = SubSeq(ids, 1, k) /\ k \in Nat
      /\ k < n => body = ids
  BY <1>1, <1>2, UptoIs
<1> HIDE DEF body, t, r, k
<1>6. t \in Seq(Ids) /\ Len(t) = k + 2 /\ Tail(Front(t)) = body
  <2> DEFINE u == <<cls_id>> \o body \o <<sep_id>>
  <2>1. u \in Seq(Ids) /\ Len(u) = Len(body) + 2 /\ Tail(Front(u)) = body
    <3>1. Encloses(Ids, cls_id, body, sep_id, u)
      BY <1>3, <1>5, Between
    <3> QED BY <3>1 DEF Encloses
  <2>2. t = u
    BY <1>4
  <2> HIDE DEF u
  <2> QED BY <2>1, <2>2 DEF k
<1>7. IsPrefix(Spelled(body), r)
  <2> DEFINE rest == SubSeq(ids, k + 1, Len(ids))
             a == Spelled(body)
             b == Spelled(rest)
  <2>1. SubSeq(ids, 1, k) \o rest = ids
    <3>1. /\ 1 \in 1..Len(ids) + 1 /\ k \in 1 - 1..Len(ids) /\ Len(ids) \in k..Len(ids)
      BY <1>1, <1>5
    <3>2. SubSeq(ids, 1, Len(ids)) = ids
      BY <1>1, SubSeqFull
    <3> QED BY <1>1, <3>1, <3>2, ConcatAdjacentSubSeq
  <2>2. rest \in Seq(Ids)
    <3>1. \A i \in k + 1..Len(ids) : ids[i] \in Ids
      BY <1>1, <1>5
    <3>2. k + 1 \in Int /\ Len(ids) \in Int
      BY <1>1, <1>5
    <3> QED BY <3>1, <3>2, SubSeqProperties
  <2>3. body \o rest = ids
    BY <1>5, <2>1
  <2> HIDE DEF rest
  <2>4. r = a \o b /\ a \in Seq(Chars) /\ b \in Seq(Chars)
    BY <1>1, <1>5, <2>2, <2>3, SpelledConcat
  <2> HIDE DEF a, b
  <2>5. /\ Len(a \o b) = Len(a) + Len(b) /\ Len(a) \in Nat /\ Len(b) \in Nat
        /\ SubSeq(a \o b, 1, Len(a)) = SubSeq(a, 1, Len(a))
    <3>1. Len(a \o b) = Len(a) + Len(b) /\ Len(a) \in Nat /\ Len(b) \in Nat
      BY <2>4, ConcatProperties, LenProperties
    <3>2. CASE Len(a) = 0
      <4>1. SubSeq(a \o b, 1, 0) = <<>> /\ SubSeq(a, 1, 0) = <<>>
        BY SubSeqEmpty
      <4> QED BY <3>1, <3>2, <4>1
    <3>3. CASE Len(a) # 0
      <4>1. 1 \in 1..Len(a) /\ Len(a) \in 1..Len(a)
        BY <3>1, <3>3
      <4> QED BY <2>4, <3>1, <4>1, SubSeqOfConcat1
    <3> QED BY <3>2, <3>3
  <2>6. IsPrefix(a, r)
    BY <2>4, <2>5 DEF IsPrefix
  <2> QED BY <2>6 DEF a
<1>8. k < n => Spelled(body) = r
  BY <1>1, <1>5
<1>9. Len(t) \in Nat /\ Len(t) >= 2
  BY <1>5, <1>6
<1> DEFINE c == Tail(Front(t))
<1>10. IsPrefix(Spelled(c), r) /\ (Len(c) < n => Spelled(c) = r)
  BY <1>6, <1>7, <1>8 DEF k
<1> QED BY <1>6, <1>9, <1>10 DEF n, t, r

(***************************************************************************)
(* Batches.                                                                *)
(***************************************************************************)

\* A list of lists of numbers.
IsBatch(seqs) == SeqsOf(Nat, seqs) /\ DOMAIN seqs = 1..Len(seqs)

LEMMA Bounded ==
    ASSUME NEW m \in Nat, NEW f \in [1..m -> Nat] PROVE \E N \in Nat : \A r \in 1..m : f[r] <= N
<1> DEFINE Bound(k) == \E N \in Nat : \A r \in 1..k : f[r] <= N
           P == {k \in 0..m : Bound(k)}
<1>1. 0 \in P
  <2>1. Bound(0)
    OBVIOUS
  <2> HIDE DEF Bound
  <2> QED BY <2>1
<1>2. ASSUME NEW k \in 1..m, k - 1 \in P PROVE k \in P
  <2>1. PICK N \in Nat : \A r \in 1..k - 1 : f[r] <= N
    BY <1>2
  <2> DEFINE M == IF f[k] <= N THEN N ELSE f[k]
  <2>2. M \in Nat /\ f[k] <= M /\ N <= M
    OBVIOUS
  <2>3. \A r \in 1..k : f[r] <= M
    <3> SUFFICES ASSUME NEW r \in 1..k PROVE f[r] <= M
      OBVIOUS
    <3> HIDE DEF M
    <3>1. r = k \/ r \in 1..k - 1
      OBVIOUS
    <3>2. f[r] \in Nat
      OBVIOUS
    <3> QED BY <2>1, <2>2, <3>1, <3>2
  <2>4. Bound(k) /\ k \in 0..m
    BY <2>2, <2>3
  <2> QED BY <2>4
<1> HIDE DEF P
<1>3. m \in P
  <2>1. 0..m \subseteq P
    BY <1>1, <1>2, Induction
  <2> QED BY <2>1
<1> QED BY <1>3 DEF P

LEMMA LongestIs ==
    ASSUME NEW seqs, IsBatch(seqs)
    PROVE  Longest(seqs) \in Nat /\ \A r \in 1..Len(seqs) : Len(seqs[r]) \in 0..Longest(seqs)
<1> DEFINE m == Len(seqs)
           f == [r \in 1..m |-> Len(seqs[r])]
           S == {0} \cup {Len(seqs[i]) : i \in DOMAIN seqs}
<1>1. m \in Nat /\ DOMAIN seqs = 1..m /\ \A r \in 1..m : Len(seqs[r]) \in Nat
  BY DEF IsBatch, SeqsOf
<1> HIDE DEF m
<1>2. f \in [1..m -> Nat]
  BY <1>1
<1>3. PICK N \in Nat : \A r \in 1..m : f[r] <= N
  BY <1>1, <1>2, Bounded
<1>4. S \in SUBSET (0..N) /\ S # {} /\ \A r \in 1..m : Len(seqs[r]) \in S
  BY SMTT(30), <1>1, <1>3
<1>5. Longest(seqs) = Max(S)
  BY DEF Longest
<1> HIDE DEF S
<1>6. Max(S) \in S /\ \A n \in S : n <= Max(S)
  BY <1>4, MaxIsGreatest
<1>7. Max(S) \in Nat
  <2>1. S \subseteq Nat
    BY <1>3, <1>4
  <2> QED BY <1>6, <2>1
<1>8. \A r \in 1..m : Len(seqs[r]) \in 0..Max(S)
  BY <1>1, <1>4, <1>6, <1>7
<1> QED BY <1>5, <1>7, <1>8 DEF m

LEMMA SameLengths ==
    ASSUME NEW a, NEW b, DOMAIN a = DOMAIN b, \A i \in DOMAIN a : Len(a[i]) = Len(b[i])
    PROVE  Longest(a) = Longest(b)
<1>1. {Len(a[i]) : i \in DOMAIN a} = {Len(b[i]) : i \in DOMAIN b}
  OBVIOUS
<1> QED BY <1>1 DEF Longest

\* The rows of a batch are laid one after the other, each with the filler at its end.
PadsTo(seqs, filler, n, t) ==
    /\ t \in Seq(Nat) /\ Len(t) = Len(seqs) * n
    /\ \A r \in 1..Len(seqs), j \in 1..n :
          /\ (r - 1) * n + j \in 1..Len(seqs) * n
          /\ t[(r - 1) * n + j] = IF j <= Len(seqs[r]) THEN seqs[r][j] ELSE filler

LEMMA PaddedIs ==
    ASSUME NEW seqs, IsBatch(seqs), NEW filler \in Nat
    PROVE  PadsTo(seqs, filler, Longest(seqs), Padded(seqs, filler))
<1> DEFINE n == Longest(seqs)
           m == Len(seqs)
           rows == [i \in DOMAIN seqs |-> seqs[i] \o [j \in 1..n - Len(seqs[i]) |-> filler]]
<1>1. Padded(seqs, filler) = Flat(rows)
  BY DEF Padded
<1>2. n \in Nat /\ \A r \in 1..m : Len(seqs[r]) \in 0..n
  BY LongestIs
<1>3. m \in Nat /\ DOMAIN seqs = 1..m /\ \A r \in 1..m : seqs[r] \in Seq(Nat)
  BY DEF IsBatch, SeqsOf
<1> HIDE DEF n, m
<1>4. Len(rows) = m
  BY <1>3
<1>5. ASSUME NEW r \in 1..m
      PROVE  /\ rows[r] \in Seq(Nat) /\ Len(rows[r]) = n
             /\ \A j \in 1..n : rows[r][j] = IF j <= Len(seqs[r]) THEN seqs[r][j] ELSE filler
  <2> DEFINE s == seqs[r]
             k == n - Len(s)
             fill == [j \in 1..k |-> filler]
  <2>1. rows[r] = s \o fill
    BY <1>3
  <2>2. s \in Seq(Nat) /\ Len(s) \in Nat /\ k \in Nat /\ Len(s) + k = n
    BY <1>2, <1>3
  <2> HIDE DEF s, k
  <2>3. fill \in Seq(Nat) /\ Len(fill) = k /\ \A j \in 1..k : fill[j] = filler
    BY <2>2
  <2> HIDE DEF fill
  <2>4. /\ s \o fill \in Seq(Nat) /\ Len(s \o fill) = Len(s) + Len(fill)
        /\ \A i \in 1..Len(s) + Len(fill) :
              (s \o fill)[i] = IF i <= Len(s) THEN s[i] ELSE fill[i - Len(s)]
    BY <2>2, <2>3, ConcatProperties
  <2>5. ASSUME NEW j \in 1..n PROVE (s \o fill)[j] = IF j <= Len(s) THEN s[j] ELSE filler
    <3>1. (s \o fill)[j] = IF j <= Len(s) THEN s[j] ELSE fill[j - Len(s)]
      BY <2>2, <2>3, <2>4
    <3>2. ~(j <= Len(s)) => fill[j - Len(s)] = filler
      <4> SUFFICES ASSUME ~(j <= Len(s)) PROVE fill[j - Len(s)] = filler
        OBVIOUS
      <4>1. j - Len(s) \in 1..k
        BY <1>2, <2>2
      <4> QED BY <2>3, <4>1
    <3> QED BY <3>1, <3>2
  <2>6. Len(s \o fill) = n
    BY <2>2, <2>3, <2>4
  <2> QED BY <2>1, <2>4, <2>5, <2>6 DEF s
<1> HIDE DEF rows
<1>6. Lays(Nat, m, n, rows, Flat(rows))
  <2>1. RowsOfSize(Nat, m, n, rows)
    BY <1>4, <1>5 DEF RowsOfSize
  <2> QED BY <1>2, <1>3, <2>1, FlatRows
<1>7. PadsTo(seqs, filler, n, Flat(rows))
  BY SMTT(30), <1>5, <1>6 DEF PadsTo, Lays, m
<1> QED BY <1>1, <1>7 DEF n

\* What a row attends to: its own tokens, if the mask is that of its batch.
LEMMA AttendedIs ==
    ASSUME NEW seqs, IsBatch(seqs), NEW r \in 1..Len(seqs), NEW S, NEW row \in Seq(S),
           Len(row) = Longest(seqs), NEW data,
           \A j \in 1..Longest(seqs) : data[(r - 1) * Longest(seqs) + j] = row[j]
    PROVE  Attended(data, Padded(Ones(seqs), 0), r - 1, Longest(seqs)) = SubSeq(row, 1, Len(seqs[r]))
<1> DEFINE n == Longest(seqs)
           ones == Ones(seqs)
           mask == Padded(ones, 0)
           len == Len(seqs[r])
           places == {j \in 1..n : mask[(r - 1) * n + j] = 1}
<1>1. Len(seqs) \in Nat /\ DOMAIN seqs = 1..Len(seqs)
      /\ \A i \in 1..Len(seqs) : seqs[i] \in Seq(Nat) /\ DOMAIN seqs[i] = 1..Len(seqs[i]) /\ Len(seqs[i]) \in Nat
  BY DEF IsBatch, SeqsOf
<1>2. n \in Nat /\ len \in 0..n
  BY LongestIs
<1>3. /\ DOMAIN ones = DOMAIN seqs /\ Len(ones) = Len(seqs)
      /\ \A i \in 1..Len(seqs) : /\ Len(ones[i]) = Len(seqs[i]) /\ ones[i] \in Seq(Nat)
                                 /\ \A j \in 1..Len(seqs[i]) : ones[i][j] = 1
  <2>1. DOMAIN ones = 1..Len(seqs) /\ Len(ones) = Len(seqs)
    BY <1>1 DEF Ones
  <2>2. \A i \in 1..Len(seqs) : ones[i] = [j \in 1..Len(seqs[i]) |-> 1]
    BY <1>1 DEF Ones
  <2>3. ASSUME NEW i \in 1..Len(seqs)
        PROVE  /\ Len(ones[i]) = Len(seqs[i]) /\ ones[i] \in Seq(Nat)
               /\ \A j \in 1..Len(seqs[i]) : ones[i][j] = 1
    <3> DEFINE k == Len(seqs[i])
    <3>1. k \in Nat /\ ones[i] = [j \in 1..k |-> 1]
      BY <1>1, <2>2
    <3> HIDE DEF k, ones
    <3> QED BY <3>1 DEF k
  <2> QED BY <1>1, <2>1, <2>3
<1> HIDE DEF ones
<1>4. IsBatch(ones) /\ Longest(ones) = n
  BY <1>1, <1>3, SameLengths DEF IsBatch, SeqsOf
<1>5. PadsTo(ones, 0, n, mask)
  BY <1>4, PaddedIs
<1>6. \A j \in 1..n : mask[(r - 1) * n + j] = IF j <= len THEN ones[r][j] ELSE 0
  BY <1>3, <1>5 DEF PadsTo
<1> HIDE DEF n, mask, len
<1>7. places = 1..len
  <2>1. ASSUME NEW j \in 1..n PROVE mask[(r - 1) * n + j] = 1 <=> j <= len
    <3>1. j <= len => ones[r][j] = 1
      BY <1>2, <1>3 DEF len
    <3> QED BY <1>6, <3>1
  <2>2. \A j : j \in 1..len <=> j \in 1..n /\ j <= len
    BY <1>2
  <2>3. \A j : j \in places <=> j \in 1..n /\ j <= len
    BY <2>1
  <2> HIDE DEF places
  <2> QED BY <2>2, <2>3
<1> HIDE DEF places
<1>8. [j \in 1..n |-> data[(r - 1) * n + j]] = row
  <2>1. row = [j \in 1..n |-> row[j]]
    BY DEF n
  <2> QED BY <2>1 DEF n
<1>9. Attended(data, mask, r - 1, n) = At(row, 1..len)
  BY <1>7, <1>8 DEF Attended, places
<1>10. At(row, 1..len) = SubSeq(row, 1, len)
  <2>1. 1 \in 1..Len(row) + 1 /\ len \in 1 - 1..Len(row)
    BY <1>2 DEF n
  <2> QED BY <2>1, AtInterval
<1> QED BY <1>9, <1>10 DEF n, mask, ones, len

\* A row attends to its tokens, and to nothing else.
LEMMA RowsReadAlone ==
    ASSUME NEW seqs, IsBatch(seqs), NEW r \in 1..Len(seqs), NEW filler \in Nat
    PROVE  Attended(Padded(seqs, filler), Padded(Ones(seqs), 0), r - 1, Longest(seqs)) = seqs[r]
<1> DEFINE n == Longest(seqs)
           data == Padded(seqs, filler)
           s == seqs[r]
           row == [j \in 1..n |-> IF j <= Len(s) THEN s[j] ELSE filler]
<1>1. PadsTo(seqs, filler, n, data)
  BY PaddedIs
<1>2. n \in Nat /\ Len(s) \in 0..n /\ s \in Seq(Nat)
  BY LongestIs DEF IsBatch, SeqsOf
<1>3. \A j \in 1..n : data[(r - 1) * n + j] = IF j <= Len(s) THEN s[j] ELSE filler
  BY <1>1 DEF PadsTo
<1> HIDE DEF n, data, s
<1>4. row \in Seq(Nat) /\ Len(row) = n /\ \A j \in 1..n : row[j] = IF j <= Len(s) THEN s[j] ELSE filler
  BY <1>2
<1> HIDE DEF row
<1>5. \A j \in 1..n : data[(r - 1) * n + j] = row[j]
  BY <1>3, <1>4
<1>6. Attended(data, Padded(Ones(seqs), 0), r - 1, n) = SubSeq(row, 1, Len(s))
  BY <1>4, <1>5, AttendedIs DEF n, s
<1>7. SubSeq(row, 1, Len(s)) = s
  <2>1. /\ SubSeq(row, 1, Len(s)) \in Seq(Nat) /\ Len(SubSeq(row, 1, Len(s))) = Len(s)
        /\ \A j \in 1..Len(s) : SubSeq(row, 1, Len(s))[j] = row[j]
    BY <1>2, <1>4
  <2>2. \A j \in 1..Len(s) : row[j] = s[j]
    BY <1>2, <1>4
  <2> QED BY <1>2, <2>1, <2>2, SeqEqual
<1> QED BY <1>6, <1>7 DEF n, data, s

(***************************************************************************)
(* Pairs.                                                                  *)
(***************************************************************************)
Pairs == [a : Seq(Ids), b : Seq(Ids)]

\* What is left of two sequences after k turns of cutting them to a budget: their beginnings,
\* none of them shorter than it must be, and neither cut below the other.
CutWell(a, b, budget, k, s) ==
    /\ s \in Pairs
    /\ s.a = SubSeq(a, 1, Len(s.a)) /\ Len(s.a) \in 0..Len(a)
    /\ s.b = SubSeq(b, 1, Len(s.b)) /\ Len(s.b) \in 0..Len(b)
    /\ Len(s.a) + Len(s.b) <= budget \/ Len(s.a) + Len(s.b) = Len(a) + Len(b) - k
    /\ Len(s.a) + Len(s.b) >= budget \/ Len(s.a) + Len(s.b) = Len(a) + Len(b)
    /\ Len(s.a) < Len(a) => Len(s.a) + 1 >= Len(s.b)
    /\ Len(s.b) < Len(b) => Len(s.b) >= Len(s.a)

LEMMA FrontOf ==
    ASSUME NEW S, NEW s \in Seq(S), NEW t \in Seq(S), s # <<>>, s = SubSeq(t, 1, Len(s)),
           Len(s) \in 0..Len(t)
    PROVE  /\ Front(s) \in Seq(S) /\ Len(Front(s)) = Len(s) - 1
           /\ Front(s) = SubSeq(t, 1, Len(s) - 1) /\ Len(s) \in Nat \ {0}
<1> DEFINE n == Len(s)
<1>1. n \in Nat \ {0} /\ Len(t) \in Nat
  OBVIOUS
<1>2. Front(s) = SubSeq(s, 1, n - 1)
  BY DEF Front
<1>3. SubSeq(s, 1, n - 1) \in Seq(S) /\ Len(SubSeq(s, 1, n - 1)) = n - 1
      /\ \A i \in 1..n - 1 : SubSeq(s, 1, n - 1)[i] = s[i]
  BY <1>1
<1> HIDE DEF n
<1>4. SubSeq(t, 1, n - 1) \in Seq(S) /\ Len(SubSeq(t, 1, n - 1)) = n - 1
      /\ \A i \in 1..n - 1 : SubSeq(t, 1, n - 1)[i] = t[i]
  BY <1>1 DEF n
<1>5. \A i \in 1..n : s[i] = t[i]
  BY <1>1 DEF n
<1>6. \A i \in 1..n - 1 : i \in 1..n
  BY <1>1
<1>7. SubSeq(s, 1, n - 1) = SubSeq(t, 1, n - 1)
  BY <1>3, <1>4, <1>5, <1>6, SeqEqual
<1> QED BY <1>1, <1>2, <1>3, <1>7 DEF n

LEMMA Pops ==
    ASSUME NEW s \in Pairs, NEW budget \in Nat
    PROVE  Pop(s, budget) \in Pairs
<1>1. s.a \in Seq(Ids) /\ s.b \in Seq(Ids)
  BY DEF Pairs
<1>2. \A t \in Seq(Ids) : Front(t) \in Seq(Ids)
  <2> SUFFICES ASSUME NEW t \in Seq(Ids) PROVE Front(t) \in Seq(Ids)
    OBVIOUS
  <2>1. \A i \in 1..Len(t) - 1 : t[i] \in Ids
    OBVIOUS
  <2> QED BY <2>1, SubSeqProperties DEF Front
<1> QED BY <1>1, <1>2 DEF Pop, Pairs

LEMMA PopsWell ==
    ASSUME NEW a \in Seq(Ids), NEW b \in Seq(Ids), NEW budget \in Nat, NEW k \in Nat, NEW s,
           CutWell(a, b, budget, k, s)
    PROVE  CutWell(a, b, budget, k + 1, Pop(s, budget))
<1> DEFINE A == Len(a)
           B == Len(b)
           la == Len(s.a)
           lb == Len(s.b)
           t == Pop(s, budget)
<1>1. /\ s \in Pairs /\ s.a \in Seq(Ids) /\ s.b \in Seq(Ids)
      /\ s.a = SubSeq(a, 1, la) /\ s.b = SubSeq(b, 1, lb)
      /\ A \in Nat /\ B \in Nat /\ la \in 0..A /\ lb \in 0..B
      /\ la + lb <= budget \/ la + lb = A + B - k
      /\ la + lb >= budget \/ la + lb = A + B
      /\ la < A => la + 1 >= lb
      /\ lb < B => lb >= la
  BY DEF CutWell, Pairs
<1>2. CASE la + lb <= budget
  <2>1. t = s
    BY <1>2 DEF Pop
  <2> HIDE DEF A, B, la, lb
  <2>2. la + lb <= budget \/ la + lb = A + B - (k + 1)
    BY <1>2
  <2> QED BY <1>1, <2>1, <2>2 DEF CutWell, A, B, la, lb
<1>3. CASE ~(la + lb <= budget) /\ la >= lb
  <2>1. t = [s EXCEPT !.a = Front(s.a)] /\ s.a # <<>>
    <3>1. la # 0
      <4> HIDE DEF A, B, la, lb
      <4>1. la \in Nat /\ lb \in Nat
        BY <1>1
      <4> QED BY <1>3, <4>1
    <3> QED BY <1>3, <3>1 DEF Pop
  <2> DEFINE x == Front(s.a)
  <2>2. x \in Seq(Ids) /\ Len(x) = la - 1 /\ x = SubSeq(a, 1, la - 1) /\ la \in Nat \ {0}
    BY <1>1, <2>1, FrontOf
  <2> HIDE DEF x, A, B, la, lb, t
  <2>3. t \in Pairs /\ t.a = x /\ t.b = s.b
    BY <1>1, <2>1, <2>2 DEF Pairs, x
  <2>4. /\ la - 1 \in 0..A
        /\ (la - 1) + lb = A + B - (k + 1)
        /\ (la - 1) + lb >= budget
        /\ (la - 1) + 1 >= lb
        /\ lb < B => lb >= la - 1
    BY <1>1, <1>3, <2>2
  <2>5. Len(t.a) = la - 1 /\ Len(t.b) = lb /\ t.a = SubSeq(a, 1, la - 1) /\ t.b = SubSeq(b, 1, lb)
    BY <1>1, <2>2, <2>3 DEF lb
  <2> QED BY <1>1, <2>3, <2>4, <2>5 DEF CutWell, A, B, t
<1>4. CASE ~(la + lb <= budget) /\ ~(la >= lb)
  <2>1. t = [s EXCEPT !.b = Front(s.b)] /\ s.b # <<>>
    <3>1. lb # 0
      BY <1>1, <1>4
    <3> QED BY <1>4, <3>1 DEF Pop
  <2> DEFINE x == Front(s.b)
  <2>2. x \in Seq(Ids) /\ Len(x) = lb - 1 /\ x = SubSeq(b, 1, lb - 1) /\ lb \in Nat \ {0}
    BY <1>1, <2>1, FrontOf
  <2> HIDE DEF x, A, B, la, lb, t
  <2>3. t \in Pairs /\ t.b = x /\ t.a = s.a
    BY <1>1, <2>1, <2>2 DEF Pairs, x
  <2>4. /\ lb - 1 \in 0..B
        /\ la + (lb - 1) = A + B - (k + 1)
        /\ la + (lb - 1) >= budget
        /\ la < A => la + 1 >= lb - 1
        /\ lb - 1 >= la
    BY <1>1, <1>4, <2>2
  <2>5. Len(t.b) = lb - 1 /\ Len(t.a) = la /\ t.b = SubSeq(b, 1, lb - 1) /\ t.a = SubSeq(a, 1, la)
    BY <1>1, <2>2, <2>3 DEF la
  <2> QED BY <1>1, <2>3, <2>4, <2>5 DEF CutWell, A, B, t
<1> QED BY <1>2, <1>3, <1>4

LEMMA PopTurns ==
    ASSUME NEW a \in Seq(Ids), NEW b \in Seq(Ids), NEW budget \in Nat
    PROVE  LET f == pops(a, b, budget)
           IN  /\ f[0] = [a |-> a, b |-> b]
               /\ \A n \in 1..Len(a) + Len(b) : f[n] = Pop(f[n - 1], budget)
<1> DEFINE N == Len(a) + Len(b)
           first == [a |-> a, b |-> b]
           f == pops(a, b, budget)
           G == [k \in 1..N |-> [s \in Pairs |-> Pop(s, budget)]]
           Is(g) == g = [n \in 0..N |-> IF n = 0 THEN first ELSE Pop(g[n - 1], budget)]
<1>1. N \in Nat /\ first \in Pairs /\ \A s \in Pairs : Pop(s, budget) \in Pairs
  BY Pops DEF Pairs
<1>2. f = CHOOSE g : Is(g)
  BY DEF pops
<1> HIDE DEF N, first, f
<1>3. G \in [1..N -> [Pairs -> Pairs]] /\ \A k \in 1..N, s \in Pairs : G[k][s] = Pop(s, budget)
  BY <1>1
<1> HIDE DEF G
<1>4. PICK h : h \in [0..N -> Pairs] /\ h[0] = first /\ \A k \in 1..N : h[k] = G[k][h[k - 1]]
  <2>1. \E h : Follows(N, Pairs, first, G, h)
    BY <1>1, <1>3, Recursion
  <2> QED BY <2>1 DEF Follows
<1>5. ASSUME NEW k \in 1..N PROVE h[k] = Pop(h[k - 1], budget)
  <2>1. h[k - 1] \in Pairs
    BY <1>1, <1>4
  <2> QED BY <1>3, <1>4, <2>1
<1>6. Is(h)
  <2> DEFINE e(k) == IF k = 0 THEN first ELSE Pop(h[k - 1], budget)
  <2>1. \A k \in 0..N : h[k] = e(k)
    <3>1. \A k \in 0..N : k = 0 \/ k \in 1..N
      BY <1>1
    <3> QED BY <1>4, <1>5, <3>1
  <2> HIDE DEF e
  <2>2. h = [k \in 0..N |-> e(k)]
    BY <1>4, <2>1
  <2> QED BY <2>2 DEF e
<1>7. Is(f)
  <2> HIDE DEF Is
  <2> QED BY <1>2, <1>6
<1>8. f[0] = first
  BY <1>1, <1>7
<1>9. ASSUME NEW k \in 1..N PROVE f[k] = Pop(f[k - 1], budget)
  <2>1. k \in 0..N /\ k # 0
    BY <1>1
  <2> QED BY <1>7, <2>1
<1> QED BY <1>8, <1>9 DEF N, first, f

LEMMA CutIs ==
    ASSUME NEW a \in Seq(Ids), NEW b \in Seq(Ids), NEW budget \in Nat
    PROVE  CutWell(a, b, budget, Len(a) + Len(b), Cut(a, b, budget))
<1> DEFINE N == Len(a) + Len(b)
           f == pops(a, b, budget)
           P == {k \in 0..N : CutWell(a, b, budget, k, f[k])}
<1>1. f[0] = [a |-> a, b |-> b] /\ \A k \in 1..N : f[k] = Pop(f[k - 1], budget)
  BY PopTurns
<1>2. N \in Nat /\ Len(a) \in Nat /\ Len(b) \in Nat
  OBVIOUS
<1>3. Cut(a, b, budget) = f[N]
  BY DEF Cut
<1> HIDE DEF f, N
<1>4. 0 \in P
  <2>1. SubSeq(a, 1, Len(a)) = a /\ SubSeq(b, 1, Len(b)) = b
    BY SubSeqFull
  <2>2. f[0] \in Pairs /\ f[0].a = a /\ f[0].b = b
    BY <1>1 DEF Pairs
  <2>3. CutWell(a, b, budget, 0, f[0])
    BY <1>2, <2>1, <2>2 DEF CutWell
  <2> QED BY <1>2, <2>3
<1>5. ASSUME NEW k \in 1..N, k - 1 \in P PROVE k \in P
  <2>1. k - 1 \in Nat /\ k \in 0..N /\ k - 1 + 1 = k
    BY <1>2
  <2>2. CutWell(a, b, budget, k - 1, f[k - 1]) /\ f[k] = Pop(f[k - 1], budget)
    BY <1>1, <1>5
  <2>3. CutWell(a, b, budget, k - 1 + 1, f[k])
    BY <2>1, <2>2, PopsWell
  <2> QED BY <2>1, <2>3
<1> HIDE DEF P
<1>6. N \in P
  <2>1. 0..N \subseteq P
    BY <1>2, <1>4, <1>5, Induction
  <2> QED BY <1>2, <2>1
<1> QED BY <1>3, <1>6 DEF P, N

\* What the pair of a query and a passage is made of.
IsPair(query, passage, p, a, b) ==
    /\ a \in Seq(Ids) /\ Len(a) \in Nat /\ b \in Seq(Ids) /\ Len(b) \in Nat
    /\ CutWell(query, passage, MAX_SEQ_LEN - 3, Len(query) + Len(passage), [a |-> a, b |-> b])
    /\ p.ids \in Seq(Nat) /\ Len(p.ids) = Len(a) + 2 + (Len(b) + 1)
    /\ p.types \in Seq(Nat) /\ Len(p.types) = Len(p.ids)
    /\ \A i \in 1..Len(a) + 2 : p.types[i] = 0 /\ p.ids[i] = (<<cls_id>> \o a \o <<sep_id>>)[i]
    /\ \A i \in 1..Len(b) + 1 : /\ p.types[Len(a) + 2 + i] = 1
                                /\ p.ids[Len(a) + 2 + i] = Append(b, sep_id)[i]

LEMMA PairIs ==
    ASSUME from_vocab, NEW first, IsWord(first), NEW second, IsWord(second)
    PROVE  \E a, b : IsPair(word_ids(first), word_ids(second), encode_pair(first, second, MAX_SEQ_LEN), a, b)
<1> DEFINE q == word_ids(first)
           w == word_ids(second)
           n == MAX_SEQ_LEN - 3
           s == Cut(q, w, n)
           a == s.a
           b == s.b
           x == <<cls_id>> \o a \o <<sep_id>>
           y == Append(b, sep_id)
           zeros == [i \in 1..Len(a) + 2 |-> 0]
           ones == [i \in 1..Len(b) + 1 |-> 1]
           p == encode_pair(first, second, MAX_SEQ_LEN)
<1>1. q \in Seq(Ids) /\ w \in Seq(Ids)
  BY WordIdsAre
<1>2. n \in Nat /\ AtLeast0(n) = n
  BY EncodingAssumption, AtLeast0Is
<1>3. cls_id \in Ids /\ sep_id \in Ids /\ Ids \subseteq Nat
  BY SpecialIds DEF Ids
<1>4. p = [ids |-> x \o b \o <<sep_id>>, types |-> zeros \o ones]
  BY <1>2 DEF encode_pair
<1> HIDE DEF q, w, n
<1>5. CutWell(q, w, n, Len(q) + Len(w), s)
  BY <1>1, <1>2, CutIs
<1> HIDE DEF s
<1>6. s \in Pairs
  BY <1>5 DEF CutWell
<1>7. s = [a |-> a, b |-> b] /\ a \in Seq(Ids) /\ b \in Seq(Ids)
  BY <1>6 DEF Pairs
<1> HIDE DEF a, b, p
<1>8. Len(a) \in Nat /\ Len(b) \in Nat
  BY <1>7
<1>9. x \in Seq(Ids) /\ Len(x) = Len(a) + 2
  <2>1. Encloses(Ids, cls_id, a, sep_id, x)
    BY <1>3, <1>7, Between
  <2> QED BY <2>1 DEF Encloses
<1> HIDE DEF x
<1>10. y = b \o <<sep_id>> /\ y \in Seq(Ids) /\ Len(y) = Len(b) + 1 /\ <<sep_id>> \in Seq(Ids)
  BY <1>3, <1>7, AppendIsConcat, AppendProperties
<1>11. x \o b \o <<sep_id>> = x \o y
  BY <1>7, <1>9, <1>10, ConcatAssociative
<1> HIDE DEF y
<1>12. zeros \in Seq(Nat) /\ Len(zeros) = Len(a) + 2 /\ (\A i \in 1..Len(a) + 2 : zeros[i] = 0)
       /\ ones \in Seq(Nat) /\ Len(ones) = Len(b) + 1 /\ (\A i \in 1..Len(b) + 1 : ones[i] = 1)
  BY <1>8
<1> HIDE DEF zeros, ones
<1>13. p.ids = x \o y /\ p.types = zeros \o ones
  BY <1>4, <1>11
<1> DEFINE m == Len(a) + 2
           k == Len(b) + 1
<1>14. m \in Nat /\ k \in Nat
  BY <1>8
<1> HIDE DEF m, k
<1>15. /\ p.ids \in Seq(Ids) /\ Len(p.ids) = m + k
       /\ \A i \in 1..m + k : p.ids[i] = IF i <= m THEN x[i] ELSE y[i - m]
  <2>1. /\ x \o y \in Seq(Ids) /\ Len(x \o y) = Len(x) + Len(y)
        /\ \A i \in 1..Len(x) + Len(y) : (x \o y)[i] = IF i <= Len(x) THEN x[i] ELSE y[i - Len(x)]
    BY <1>9, <1>10, ConcatProperties
  <2>2. Len(x) = m /\ Len(y) = k
    BY <1>9, <1>10 DEF m, k
  <2> QED BY <1>13, <2>1, <2>2
<1>16. /\ p.types \in Seq(Nat) /\ Len(p.types) = m + k
       /\ \A i \in 1..m + k : p.types[i] = IF i <= m THEN zeros[i] ELSE ones[i - m]
  <2> DEFINE z == zeros \o ones
  <2>1. /\ z \in Seq(Nat) /\ Len(z) = Len(zeros) + Len(ones)
        /\ \A i \in 1..Len(zeros) + Len(ones) :
              z[i] = IF i <= Len(zeros) THEN zeros[i] ELSE ones[i - Len(zeros)]
    BY <1>12, ConcatProperties
  <2>2. Len(zeros) = m /\ Len(ones) = k
    BY <1>12 DEF m, k
  <2> HIDE DEF z
  <2>3. p.types = z
    BY <1>13 DEF z
  <2> QED BY <2>1, <2>2, <2>3
<1>17. \A i \in 1..m : p.types[i] = 0 /\ p.ids[i] = x[i]
  <2>1. \A i \in 1..m : i \in 1..m + k /\ i <= m
    BY <1>14
  <2>2. \A i \in 1..m : zeros[i] = 0
    BY <1>12 DEF m
  <2> QED BY <1>15, <1>16, <2>1, <2>2
<1>18. ASSUME NEW i \in 1..k PROVE p.types[m + i] = 1 /\ p.ids[m + i] = y[i]
  <2> DEFINE j == m + i
  <2>1. j \in 1..m + k /\ ~(j <= m) /\ j - m = i
    BY <1>14
  <2> HIDE DEF j
  <2>2. p.ids[j] = y[j - m] /\ p.types[j] = ones[j - m]
    BY <1>15, <1>16, <2>1
  <2>3. ones[i] = 1
    BY <1>12 DEF k
  <2> QED BY <2>1, <2>2, <2>3 DEF j
<1>19. p.ids \in Seq(Nat)
  BY <1>3, <1>15, SeqOfMore
<1>20. CutWell(q, w, n, Len(q) + Len(w), [a |-> a, b |-> b])
  BY <1>5, <1>7
<1>21. IsPair(q, w, p, a, b)
  BY <1>7, <1>8, <1>15, <1>16, <1>17, <1>18, <1>19, <1>20 DEF IsPair, n, m, k, x, y
<1> QED BY <1>21 DEF q, w, p

\* The score of a passage is made of the ids and types of its pair, and of nothing else.
ScoreOf(p) == [j \in 1..Len(p.ids) |-> <<p.ids[j], p.types[j]>>]

LEMMA ScoresAre ==
    ASSUME from_vocab, NEW query, IsWord(query), NEW texts, Len(texts) \in Nat,
           DOMAIN texts = 1..Len(texts), \A k \in 1..Len(texts) : IsWord(texts[k]),
           NEW k \in 1..Len(texts)
    PROVE  score_batch(query, texts)[k] = ScoreOf(encode_pair(query, texts[k], MAX_SEQ_LEN))
<1> DEFINE m == Len(texts)
           e == [i \in 1..m |-> encode_pair(query, texts[i], MAX_SEQ_LEN)]
           pairs == Flat([i \in DOMAIN texts |-> <<encode_pair(query, texts[i], MAX_SEQ_LEN)>>])
           idsOf == [i \in DOMAIN pairs |-> pairs[i].ids]
           typesOf == [i \in DOMAIN pairs |-> pairs[i].types]
           n == Longest(idsOf)
           ids == Padded(idsOf, pad_id)
           types == Padded(typesOf, 0)
           mask == Padded(Ones(idsOf), 0)
           typed == [i \in DOMAIN ids |-> <<ids[i], types[i]>>]
<1>1. m \in Nat /\ DOMAIN texts = 1..m /\ k \in 1..m
  OBVIOUS
<1>2. score_batch(query, texts)[k] = Attended(typed, mask, k - 1, n)
  BY DEF score_batch, pad_batch
<1>3. ASSUME NEW i \in 1..m
      PROVE  /\ e[i].ids \in Seq(Nat) /\ e[i].types \in Seq(Nat) /\ Len(e[i].types) = Len(e[i].ids)
             /\ e[i] = encode_pair(query, texts[i], MAX_SEQ_LEN)
  <2>1. PICK a, b : IsPair(word_ids(query), word_ids(texts[i]), e[i], a, b)
    BY PairIs
  <2> QED BY <2>1 DEF IsPair
<1> HIDE DEF m
<1>4. pairs = e /\ DOMAIN pairs = 1..m /\ Len(pairs) = m
  <2> DEFINE S == {e[i] : i \in 1..m}
             rows == [i \in 1..m |-> <<e[i]>>]
  <2>1. e \in [1..m -> S]
    OBVIOUS
  <2>2. [i \in DOMAIN texts |-> <<encode_pair(query, texts[i], MAX_SEQ_LEN)>>] = rows
    BY <1>1
  <2>3. Flat(rows) = e /\ Len(e) = m
    <3> HIDE DEF e, S
    <3> QED BY <1>1, <2>1, FlatOfEach
  <2> QED BY <2>2, <2>3
<1> HIDE DEF pairs, e
<1>5. /\ DOMAIN idsOf = 1..m /\ Len(idsOf) = m /\ \A i \in 1..m : idsOf[i] = e[i].ids
      /\ DOMAIN typesOf = 1..m /\ Len(typesOf) = m /\ \A i \in 1..m : typesOf[i] = e[i].types
  BY <1>1, <1>4
<1> HIDE DEF idsOf, typesOf
<1>6. IsBatch(idsOf) /\ IsBatch(typesOf) /\ Longest(typesOf) = n
  <2>1. IsBatch(idsOf)
    BY <1>1, <1>3, <1>5 DEF IsBatch, SeqsOf
  <2>2. IsBatch(typesOf)
    BY <1>1, <1>3, <1>5 DEF IsBatch, SeqsOf
  <2>3. Longest(typesOf) = n
    BY <1>3, <1>5, SameLengths
  <2> QED BY <2>1, <2>2, <2>3
<1>7. pad_id \in Nat /\ n \in Nat /\ Len(idsOf[k]) \in 0..n
  BY <1>1, <1>5, <1>6, LongestIs, SpecialIds
<1>8. PadsTo(idsOf, pad_id, n, ids) /\ PadsTo(typesOf, 0, n, types)
  <2>1. PadsTo(idsOf, pad_id, n, ids)
    BY <1>6, <1>7, PaddedIs
  <2>2. PadsTo(typesOf, 0, n, types)
    BY <1>6, PaddedIs
  <2> QED BY <2>1, <2>2
<1> DEFINE len == Len(idsOf[k])
           row == [j \in 1..n |-> <<IF j <= len THEN idsOf[k][j] ELSE pad_id,
                                    IF j <= len THEN typesOf[k][j] ELSE 0>>]
           S == {row[j] : j \in 1..n}
<1> HIDE DEF n, ids, types
<1>9. /\ DOMAIN ids = 1..m * n
      /\ \A j \in 1..n : (k - 1) * n + j \in 1..m * n
      /\ \A j \in 1..n : ids[(k - 1) * n + j] = IF j <= len THEN idsOf[k][j] ELSE pad_id
      /\ \A j \in 1..n : types[(k - 1) * n + j] = IF j <= len THEN typesOf[k][j] ELSE 0
  <2>1. ids \in Seq(Nat) /\ Len(ids) = m * n
    BY <1>5, <1>8 DEF PadsTo
  <2>2. Len(typesOf[k]) = len
    BY <1>1, <1>3, <1>5
  <2>3. ASSUME NEW j \in 1..n
        PROVE  /\ (k - 1) * n + j \in 1..m * n
               /\ ids[(k - 1) * n + j] = IF j <= len THEN idsOf[k][j] ELSE pad_id
               /\ types[(k - 1) * n + j] = IF j <= len THEN typesOf[k][j] ELSE 0
    <3>1. /\ (k - 1) * n + j \in 1..Len(idsOf) * n
          /\ ids[(k - 1) * n + j] = IF j <= Len(idsOf[k]) THEN idsOf[k][j] ELSE pad_id
      BY <1>1, <1>5, <1>8 DEF PadsTo
    <3>2. types[(k - 1) * n + j] = IF j <= Len(typesOf[k]) THEN typesOf[k][j] ELSE 0
      BY <1>1, <1>5, <1>8 DEF PadsTo
    <3> QED BY <1>5, <2>2, <3>1, <3>2
  <2>4. DOMAIN ids = 1..Len(ids)
    BY <2>1
  <2> QED BY <2>1, <2>3, <2>4
<1>10. row \in Seq(S) /\ Len(row) = n
  <2>1. n \in Nat /\ row \in [1..n -> S]
    BY <1>7
  <2> HIDE DEF row, S
  <2> QED BY <2>1
<1>11. ASSUME NEW j \in 1..n PROVE typed[(k - 1) * n + j] = row[j]
  <2> DEFINE at == (k - 1) * n + j
  <2>1. at \in DOMAIN ids
    BY <1>9
  <2>2. typed[at] = <<ids[at], types[at]>>
    BY <2>1
  <2> HIDE DEF typed
  <2> QED BY <1>9, <2>2
<1> HIDE DEF typed, row, S
<1>12. Attended(typed, mask, k - 1, n) = SubSeq(row, 1, len)
  BY <1>1, <1>5, <1>6, <1>10, <1>11, AttendedIs DEF n
<1>13. SubSeq(row, 1, len) = ScoreOf(e[k])
  <2>1. len \in 0..n /\ n \in Nat /\ e[k].ids = idsOf[k] /\ e[k].types = typesOf[k]
    BY <1>1, <1>5, <1>7
  <2> HIDE DEF len
  <2>2. SubSeq(row, 1, len) = [j \in 1..len |-> row[j]]
    BY <2>1
  <2>3. \A j \in 1..len : row[j] = <<idsOf[k][j], typesOf[k][j]>>
    BY <2>1 DEF row
  <2> QED BY <2>1, <2>2, <2>3 DEF ScoreOf, len
<1>14. e[k] = encode_pair(query, texts[k], MAX_SEQ_LEN)
  BY <1>1, <1>3
<1> QED BY <1>2, <1>12, <1>13, <1>14

\* The parts of a score by their types: the query's, and the passage's.
LEMMA ScoreParts ==
    ASSUME NEW query, NEW passage, NEW p, NEW a, NEW b, IsPair(query, passage, p, a, b),
           cls_id \in Ids, sep_id \in Ids
    PROVE  /\ OfType(ScoreOf(p), 0) = <<cls_id>> \o a \o <<sep_id>>
           /\ OfType(ScoreOf(p), 1) = Append(b, sep_id)
<1> DEFINE x == <<cls_id>> \o a \o <<sep_id>>
           y == Append(b, sep_id)
           m == Len(a) + 2
           k == Len(b) + 1
           score == ScoreOf(p)
           S == {score[j] : j \in 1..m + k}
<1>1. /\ a \in Seq(Ids) /\ b \in Seq(Ids) /\ m \in Nat /\ k \in Nat
      /\ Len(p.ids) = m + k
      /\ \A i \in 1..m : p.types[i] = 0 /\ p.ids[i] = x[i]
      /\ \A i \in 1..k : p.types[m + i] = 1 /\ p.ids[m + i] = y[i]
  <2>1. /\ a \in Seq(Ids) /\ b \in Seq(Ids) /\ Len(a) \in Nat /\ Len(b) \in Nat
        /\ Len(p.ids) = m + k
    BY DEF IsPair
  <2>2. m \in Nat /\ k \in Nat
    BY <2>1
  <2>3. \A i \in 1..m : p.types[i] = 0 /\ p.ids[i] = x[i]
    BY DEF IsPair
  <2>4. \A i \in 1..k : p.types[m + i] = 1 /\ p.ids[m + i] = y[i]
    BY DEF IsPair
  <2> QED BY <2>1, <2>2, <2>3, <2>4
<1>2. x \in Seq(Ids) /\ Len(x) = m
  <2>1. Encloses(Ids, cls_id, a, sep_id, x)
    BY <1>1, Between
  <2> QED BY <2>1 DEF Encloses
<1>3. y \in Seq(Ids) /\ Len(y) = k
  BY <1>1, AppendProperties
<1> HIDE DEF x, y, m, k
<1>4. DOMAIN score = 1..m + k /\ \A j \in 1..m + k : score[j] = <<p.ids[j], p.types[j]>>
  BY <1>1 DEF ScoreOf
<1>5. score \in Seq(S) /\ Len(score) = m + k
  <2>1. score = [j \in 1..m + k |-> score[j]]
    BY <1>1 DEF ScoreOf
  <2> HIDE DEF score
  <2>2. score \in [1..m + k -> S]
    BY <2>1
  <2> HIDE DEF S
  <2> QED BY <1>1, <2>2
<1> HIDE DEF score, S
<1>6. \A i \in 1..m : i \in 1..m + k /\ score[i][1] = x[i] /\ score[i][2] = 0
  <2> SUFFICES ASSUME NEW i \in 1..m PROVE i \in 1..m + k /\ score[i][1] = x[i] /\ score[i][2] = 0
    OBVIOUS
  <2>1. i \in 1..m + k
    BY <1>1
  <2>2. score[i] = <<p.ids[i], p.types[i]>> /\ p.types[i] = 0 /\ p.ids[i] = x[i]
    BY <1>1, <1>4, <2>1
  <2> QED BY <2>1, <2>2
<1>7. ASSUME NEW i \in 1..k PROVE m + i \in 1..m + k /\ score[m + i][1] = y[i] /\ score[m + i][2] = 1
  <2> DEFINE j == m + i
  <2>1. j \in 1..m + k
    BY <1>1
  <2>2. p.types[j] = 1 /\ p.ids[j] = y[i]
    BY <1>1
  <2> HIDE DEF j
  <2>3. score[j] = <<p.ids[j], p.types[j]>>
    BY <1>4, <2>1
  <2>4. j \in 1..m + k /\ score[j][1] = y[i] /\ score[j][2] = 1
    BY <2>1, <2>2, <2>3
  <2> QED BY <2>4 DEF j
<1>8. {i \in DOMAIN score : score[i][2] = 0} = 1..m
  <2>1. ASSUME NEW i \in 1..m + k, ~(i <= m) PROVE score[i][2] = 1
    <3> DEFINE j == i - m
    <3>1. j \in 1..k /\ m + j = i
      BY <1>1, <2>1
    <3> HIDE DEF j
    <3> QED BY <1>7, <3>1
  <2>2. \A i : i \in DOMAIN score /\ score[i][2] = 0 => i \in 1..m
    BY <1>1, <1>4, <2>1
  <2>3. \A i : i \in 1..m => i \in DOMAIN score /\ score[i][2] = 0
    BY <1>4, <1>6
  <2> QED BY <2>2, <2>3
<1>9. {i \in DOMAIN score : score[i][2] = 1} = m + 1..m + k
  <2>1. ASSUME NEW i \in m + 1..m + k PROVE score[i][2] = 1 /\ i \in 1..m + k
    <3> DEFINE j == i - m
    <3>1. j \in 1..k /\ m + j = i
      BY <1>1
    <3> HIDE DEF j
    <3> QED BY <1>7, <3>1
  <2>2. \A i : i \in DOMAIN score /\ score[i][2] = 1 => i \in m + 1..m + k
    <3> SUFFICES ASSUME NEW i \in 1..m + k, score[i][2] = 1, i \notin m + 1..m + k PROVE FALSE
      BY <1>4
    <3>1. i \in 1..m
      BY <1>1
    <3> QED BY <1>6, <3>1
  <2> QED BY <1>4, <2>1, <2>2
<1>10. OfType(score, 0) = x
  <2>1. 1 \in 1..Len(score) + 1 /\ m \in 1 - 1..Len(score)
    BY <1>1, <1>5
  <2> DEFINE part == At(score, {i \in DOMAIN score : score[i][2] = 0})
  <2>2. part = SubSeq(score, 1, m)
    BY <1>5, <1>8, <2>1, AtInterval
  <2>3. DOMAIN part = 1..m /\ \A i \in 1..m : part[i] = score[i]
    BY <1>1, <1>5, <2>2
  <2>4. OfType(score, 0) = [i \in DOMAIN part |-> part[i][1]]
    BY DEF OfType
  <2> HIDE DEF part
  <2>5. OfType(score, 0) = [i \in 1..m |-> x[i]]
    BY <1>6, <2>3, <2>4
  <2> QED BY <1>2, <2>5
<1>11. OfType(score, 1) = y
  <2> DEFINE part == At(score, {i \in DOMAIN score : score[i][2] = 1})
             from == m + 1
             to == m + k
  <2>1. /\ from \in 1..Len(score) + 1 /\ to \in from - 1..Len(score)
        /\ from \in Int /\ to \in Int
        /\ to - from + 1 = k /\ (from <= to <=> k # 0)
        /\ \A i \in 1..k : from + i - 1 = m + i
    BY <1>1, <1>5
  <2>2. {i \in DOMAIN score : score[i][2] = 1} = from..to
    BY <1>9
  <2> HIDE DEF from, to
  <2>3. DOMAIN part = 1..k /\ \A i \in 1..k : part[i] = score[m + i]
    <3>1. part = SubSeq(score, from, to)
      BY <1>5, <2>1, <2>2, AtInterval
    <3>2. \A i \in from..to : score[i] \in S
      BY <1>5, <2>1
    <3> HIDE DEF part
    <3>3. /\ part \in Seq(S) /\ Len(part) = IF from <= to THEN to - from + 1 ELSE 0
          /\ \A i \in 1..to - from + 1 : part[i] = score[from + i - 1]
      BY <2>1, <3>1, <3>2, SubSeqProperties
    <3>4. Len(part) = k
      BY <1>1, <2>1, <3>3
    <3> QED BY <2>1, <3>3, <3>4
  <2>4. OfType(score, 1) = [i \in DOMAIN part |-> part[i][1]]
    BY DEF OfType
  <2> HIDE DEF part
  <2>5. OfType(score, 1) = [i \in 1..k |-> y[i]]
    BY <1>7, <2>3, <2>4
  <2> QED BY <1>3, <2>5
<1> QED BY <1>10, <1>11 DEF score, x, y

LEMMA ReadsAlone ==
    ASSUME NEW query \in Seq(Ids), NEW passage \in Seq(Ids), NEW p, NEW a, NEW b,
           IsPair(query, passage, p, a, b), from_vocab
    PROVE  ReadAlone(OfType(ScoreOf(p), 0), OfType(ScoreOf(p), 1), query, passage)
<1> DEFINE x == <<cls_id>> \o a \o <<sep_id>>
           y == Append(b, sep_id)
           A == Len(query)
           B == Len(passage)
           la == Len(a)
           lb == Len(b)
           n == MAX_SEQ_LEN - 3
           s == [a |-> a, b |-> b]
<1>1. cls_id \in Ids /\ sep_id \in Ids
  BY SpecialIds
<1>2. OfType(ScoreOf(p), 0) = x /\ OfType(ScoreOf(p), 1) = y
  BY <1>1, ScoreParts
<1>3. a \in Seq(Ids) /\ b \in Seq(Ids) /\ la \in Nat /\ lb \in Nat /\ CutWell(query, passage, n, A + B, s)
  BY DEF IsPair
<1>4. s.a = a /\ s.b = b
  OBVIOUS
<1>5. n \in Nat /\ MAX_SEQ_LEN = n + 3 /\ A \in Nat /\ B \in Nat
  BY EncodingAssumption
<1> HIDE DEF s, n
<1>6. /\ a = SubSeq(query, 1, la) /\ la \in 0..A /\ b = SubSeq(passage, 1, lb) /\ lb \in 0..B
      /\ la + lb <= n \/ la + lb = A + B - (A + B)
      /\ la + lb >= n \/ la + lb = A + B
      /\ la < A => la + 1 >= lb
      /\ lb < B => lb >= la
  BY <1>3, <1>4 DEF CutWell
<1>7. Encloses(Ids, cls_id, a, sep_id, x)
  BY <1>1, <1>3, Between
<1>8. x \in Seq(Ids) /\ Len(x) = la + 2 /\ Tail(Front(x)) = a /\ x[1] = cls_id /\ x[la + 2] = sep_id
  BY <1>7 DEF Encloses
<1> HIDE DEF x
<1>9. y \in Seq(Ids) /\ Len(y) = lb + 1 /\ y[lb + 1] = sep_id /\ \A i \in 1..lb : y[i] = b[i]
  BY <1>1, <1>3, AppendProperties
<1> HIDE DEF y, A, B, la, lb
<1>10. Head(x) = cls_id /\ Last(x) = sep_id /\ Last(y) = sep_id
  BY <1>3, <1>8, <1>9 DEF Last
<1>11. Front(y) = b
  <2>1. Front(y) = SubSeq(y, 1, lb)
    <3>1. Len(y) - 1 = lb
      BY <1>3, <1>9
    <3> QED BY <3>1 DEF Front
  <2>2. SubSeq(y, 1, lb) \in Seq(Ids) /\ Len(SubSeq(y, 1, lb)) = lb
        /\ \A i \in 1..lb : SubSeq(y, 1, lb)[i] = y[i]
    BY <1>3, <1>9
  <2>3. Len(SubSeq(y, 1, lb)) = Len(b) /\ \A i \in 1..Len(b) : SubSeq(y, 1, lb)[i] = b[i]
    BY <1>9, <2>2 DEF lb
  <2>4. SubSeq(y, 1, lb) = b
    BY <1>3, <2>2, <2>3, SeqEqual
  <2> QED BY <2>1, <2>4
<1>12. IsPrefix(a, query) /\ IsPrefix(b, passage)
  <2>1. SubSeq(a, 1, la) = a /\ SubSeq(b, 1, lb) = b
    BY <1>3, SubSeqFull DEF la, lb
  <2>2. la <= A /\ lb <= B
    BY <1>5, <1>6
  <2> QED BY <1>6, <2>1, <2>2 DEF IsPrefix, la, lb, A, B
<1>13. la + lb <= n /\ (la + lb = n \/ la + lb = A + B) /\ la + lb <= A + B
  BY <1>3, <1>5, <1>6
<1>14. Len(x) + Len(y) = Min({MAX_SEQ_LEN, A + B + 3})
  <2> DEFINE M == {MAX_SEQ_LEN, A + B + 3}
             t == la + lb + 3
  <2>1. M \in SUBSET Nat /\ M # {} /\ Len(x) + Len(y) = t
    BY <1>3, <1>5, <1>8, <1>9
  <2>2. t \in M /\ t \in Nat /\ \A v \in M : v \in Nat /\ t <= v
    BY <1>3, <1>5, <1>13
  <2> HIDE DEF M, t
  <2>3. Min(M) \in M /\ \A v \in M : Min(M) <= v
    BY <2>1, MinIsLeast
  <2>4. Min(M) = t
    <3> DEFINE v == Min(M)
    <3>1. v \in Nat /\ t <= v /\ v <= t
      BY <2>2, <2>3
    <3> HIDE DEF v
    <3>2. v = t
      BY <2>2, <3>1
    <3> QED BY <3>2 DEF v
  <2> QED BY <2>1, <2>4 DEF M
<1>15. /\ Len(x) < A + 2 => Len(x) >= Len(y)
       /\ Len(y) < B + 1 => Len(y) + 1 >= Len(x)
  BY <1>3, <1>5, <1>6, <1>8, <1>9
<1>16. ReadAlone(x, y, query, passage)
  BY <1>8, <1>10, <1>11, <1>12, <1>14, <1>15 DEF ReadAlone, A, B
<1> QED BY <1>2, <1>16

\* Any texts are scored by themselves.
LEMMA TextsAreReadAlone ==
    ASSUME from_vocab, NEW texts, Len(texts) \in Nat \ {0}, DOMAIN texts = 1..Len(texts),
           \A k \in 1..Len(texts) : IsWord(texts[k])
    PROVE  ScoresReadAlone(texts, score_batch(texts[1], texts))
<1>1. 1 \in 1..Len(texts)
  OBVIOUS
<1>2. IsWord(texts[1])
  BY <1>1
<1>3. ASSUME NEW k \in DOMAIN texts
      PROVE  LET score == score_batch(texts[1], texts)[k]
             IN  ReadAlone(OfType(score, 0), OfType(score, 1), word_ids(texts[1]), word_ids(texts[k]))
  <2> DEFINE p == encode_pair(texts[1], texts[k], MAX_SEQ_LEN)
  <2>1. IsWord(texts[k]) /\ k \in 1..Len(texts)
    OBVIOUS
  <2>2. PICK a, b : IsPair(word_ids(texts[1]), word_ids(texts[k]), p, a, b)
    BY <1>2, <2>1, PairIs
  <2>3. word_ids(texts[1]) \in Seq(Ids) /\ word_ids(texts[k]) \in Seq(Ids)
    BY <1>2, <2>1, WordIdsAre
  <2> HIDE DEF p
  <2>4. ReadAlone(OfType(ScoreOf(p), 0), OfType(ScoreOf(p), 1), word_ids(texts[1]), word_ids(texts[k]))
    BY <2>2, <2>3, ReadsAlone
  <2>5. score_batch(texts[1], texts)[k] = ScoreOf(p)
    BY <1>2, <2>1, ScoresAre DEF p
  <2> QED BY <2>4, <2>5
<1> QED BY <1>3 DEF ScoresReadAlone

(***************************************************************************)
(* Vectors.                                                                *)
(***************************************************************************)

\* The vector of a text, by its tokens.
StateOf(tokens, place) == [of |-> tokens, at |-> place]
VectorOf(kind, tokens) ==
    [unit |-> IF kind = "tokens" THEN [i \in 1..Len(tokens) |-> StateOf(tokens, i - 1)]
              ELSE <<StateOf(tokens, "text")>>]

LEMMA BatchIs ==
    ASSUME from_vocab, NEW texts, Len(texts) \in Nat, DOMAIN texts = 1..Len(texts),
           \A k \in 1..Len(texts) : IsWord(texts[k])
    PROVE  LET seqs == Flat([i \in DOMAIN texts |-> <<encode(texts[i], MAX_SEQ_LEN)>>])
           IN  /\ IsBatch(seqs) /\ Len(seqs) = Len(texts)
               /\ \A r \in 1..Len(texts) : seqs[r] = encode(texts[r], MAX_SEQ_LEN)
<1> DEFINE m == Len(texts)
           e == [i \in 1..m |-> encode(texts[i], MAX_SEQ_LEN)]
           S == {e[i] : i \in 1..m}
           rows == [i \in 1..m |-> <<e[i]>>]
<1>1. m \in Nat /\ DOMAIN texts = 1..m
  OBVIOUS
<1>2. ASSUME NEW i \in 1..m PROVE e[i] \in Seq(Nat) /\ e[i] = encode(texts[i], MAX_SEQ_LEN)
  <2> DEFINE t == encode(texts[i], MAX_SEQ_LEN)
  <2>1. t \in Seq(Ids)
    BY EncodeIs
  <2>2. Ids \subseteq Nat
    BY DEF Ids
  <2> HIDE DEF t
  <2>3. t \in Seq(Nat)
    BY <2>1, <2>2, SeqOfMore
  <2> QED BY <2>3 DEF t
<1>3. [i \in DOMAIN texts |-> <<encode(texts[i], MAX_SEQ_LEN)>>] = rows
  BY <1>1
<1>4. e \in [1..m -> S] /\ DOMAIN e = 1..m
  OBVIOUS
<1> HIDE DEF m, e
<1>5. Flat(rows) = e /\ Len(e) = m
  <2> HIDE DEF S
  <2> QED BY <1>1, <1>4, FlatOfEach
<1>6. IsBatch(e)
  BY <1>1, <1>2, <1>4, <1>5 DEF IsBatch, SeqsOf
<1> QED BY <1>2, <1>3, <1>5, <1>6 DEF m

LEMMA SessionOfTokens ==
    ASSUME NEW seqs, IsBatch(seqs), pad_id \in Nat
    PROVE  LET n    == Longest(seqs)
               m    == Len(seqs)
               mask == Padded(Ones(seqs), 0)
               data == Session("tokens", Padded(seqs, pad_id), mask, m, n).data
           IN  /\ Len(data) = m * n
               /\ \A r \in 1..m : Attended(data, mask, r - 1, n)
                                    = [i \in 1..Len(seqs[r]) |-> StateOf(seqs[r], i - 1)]
<1> DEFINE n == Longest(seqs)
           m == Len(seqs)
           ids == Padded(seqs, pad_id)
           mask == Padded(Ones(seqs), 0)
           rows == [r \in 1..m |-> [i \in 1..n |-> [of |-> Attended(ids, mask, r - 1, n), at |-> i - 1]]]
           data == Session("tokens", ids, mask, m, n).data
           S == {StateOf(seqs[r], i - 1) : r \in 1..m, i \in 1..n}
<1>1. data = Flat(rows)
  BY DEF Session
<1>2. n \in Nat /\ m \in Nat /\ \A r \in 1..m : Len(seqs[r]) \in 0..n
  BY LongestIs DEF IsBatch, SeqsOf
<1>3. \A r \in 1..m : Attended(ids, mask, r - 1, n) = seqs[r]
  BY RowsReadAlone
<1> HIDE DEF n, m, ids, mask, data
<1>4. Len(rows) = m
  BY <1>2
<1>5. ASSUME NEW r \in 1..m
      PROVE  /\ rows[r] \in Seq(S) /\ Len(rows[r]) = n
             /\ \A i \in 1..n : rows[r][i] = StateOf(seqs[r], i - 1)
  <2> DEFINE row == [i \in 1..n |-> StateOf(seqs[r], i - 1)]
  <2>1. rows[r] = row
    BY <1>3 DEF StateOf
  <2>2. row \in [1..n -> S]
    OBVIOUS
  <2> HIDE DEF S
  <2>3. row \in Seq(S) /\ Len(row) = n
    BY <1>2, <2>2
  <2> QED BY <2>1, <2>3
<1> HIDE DEF rows, S
<1>6. Lays(S, m, n, rows, data)
  <2>1. RowsOfSize(S, m, n, rows)
    BY <1>4, <1>5 DEF RowsOfSize
  <2> QED BY <1>1, <1>2, <2>1, FlatRows
<1>7. Len(data) = m * n
  BY <1>6 DEF Lays
<1>8. ASSUME NEW r \in 1..m
      PROVE  Attended(data, mask, r - 1, n) = [i \in 1..Len(seqs[r]) |-> StateOf(seqs[r], i - 1)]
  <2> DEFINE row == rows[r]
             len == Len(seqs[r])
  <2>1. row \in Seq(S) /\ Len(row) = n /\ \A i \in 1..n : row[i] = StateOf(seqs[r], i - 1)
    BY <1>5
  <2>2. \A i \in 1..n : data[(r - 1) * n + i] = row[i]
    BY <1>6 DEF Lays
  <2>3. len \in 0..n
    BY <1>2
  <2> HIDE DEF row, len
  <2>4. Attended(data, mask, r - 1, n) = SubSeq(row, 1, len)
    BY <2>1, <2>2, AttendedIs DEF n, m, mask, len
  <2>5. SubSeq(row, 1, len) = [i \in 1..len |-> row[i]]
    BY <1>2, <2>1, <2>3
  <2>6. \A i \in 1..len : row[i] = StateOf(seqs[r], i - 1)
    BY <1>2, <2>1, <2>3
  <2>7. SubSeq(row, 1, len) = [i \in 1..len |-> StateOf(seqs[r], i - 1)]
    BY <2>5, <2>6
  <2> QED BY <2>4, <2>7 DEF len
<1> QED BY <1>7, <1>8 DEF n, m, ids, mask, data

LEMMA RunBatchIs ==
    ASSUME from_vocab, NEW kind \in {"tokens", "texts"}, NEW texts, Len(texts) \in Nat \ {0},
           DOMAIN texts = 1..Len(texts), \A k \in 1..Len(texts) : IsWord(texts[k]),
           NEW r \in 1..Len(texts)
    PROVE  run_batch(kind, texts).vectors[r] = VectorOf(kind, encode(texts[r], MAX_SEQ_LEN))
<1> DEFINE seqs == Flat([i \in DOMAIN texts |-> <<encode(texts[i], MAX_SEQ_LEN)>>])
           m == Len(texts)
           n == Longest(seqs)
           ids == Padded(seqs, pad_id)
           mask == Padded(Ones(seqs), 0)
           output == Session(kind, ids, mask, m, n)
           pooled == pool_output(output, m, n, mask)
           t == seqs[r]
<1>1. m \in Nat \ {0} /\ texts # <<>> /\ r \in 1..m
  OBVIOUS
<1>2. IsBatch(seqs) /\ Len(seqs) = m /\ \A i \in 1..m : seqs[i] = encode(texts[i], MAX_SEQ_LEN)
  BY BatchIs
<1>3. run_batch(kind, texts) = IF Failed(pooled) THEN pooled
                               ELSE [vectors |-> [i \in 1..m |-> normalize(pooled.vectors[i])]]
  BY <1>1 DEF run_batch, pad_batch
<1> HIDE DEF seqs
<1>4. n \in Nat /\ pad_id \in Nat
  BY <1>2, LongestIs, SpecialIds
<1>5. ASSUME NEW v, pooled = [vectors |-> [i \in 1..m |-> v[i]]],
             [unit |-> v[r]] = VectorOf(kind, t)
      PROVE  run_batch(kind, texts).vectors[r] = VectorOf(kind, t)
  <2> HIDE DEF pooled, m
  <2>1. ~Failed(pooled)
    BY <1>5 DEF Failed
  <2>2. pooled.vectors[r] = v[r]
    BY <1>1, <1>5
  <2>3. run_batch(kind, texts).vectors[r] = normalize(pooled.vectors[r])
    BY <1>1, <1>3, <2>1
  <2> QED BY <1>5, <2>2, <2>3 DEF normalize
<1>6. CASE kind = "tokens"
  <2> DEFINE data == output.data
             v == [i \in 1..m |-> Attended(data, mask, i - 1, n)]
  <2>1. output.shape = <<m, n, 1>>
    BY <1>6 DEF Session
  <2>2. Len(data) = m * n /\ v[r] = [i \in 1..Len(t) |-> StateOf(t, i - 1)]
    <3> DEFINE session == Session("tokens", ids, mask, m, n).data
    <3>1. Len(seqs) = m
      BY <1>2
    <3>2. data = session
      BY <1>6
    <3>3. /\ Len(session) = Len(seqs) * n
          /\ \A i \in 1..Len(seqs) : Attended(session, mask, i - 1, n)
                                       = [j \in 1..Len(seqs[i]) |-> StateOf(seqs[i], j - 1)]
      <4>1. IsBatch(seqs) /\ pad_id \in Nat
        BY <1>2, <1>4
      <4> HIDE DEF m
      <4>2. Session("tokens", Padded(seqs, pad_id), Padded(Ones(seqs), 0), m, Longest(seqs)).data = session
        OBVIOUS
      <4> QED BY <3>1, <4>1, <4>2, SessionOfTokens
    <3> HIDE DEF session, data, n, m, mask
    <3> QED BY <1>1, <3>1, <3>2, <3>3
  <2> HIDE DEF n, mask, ids, m
  <2>3. m * n \in Nat /\ m * n >= m * 1 * n
    BY <1>1, <1>4
  <2>4. pooled = [vectors |-> [i \in 1..m |-> v[i]]]
    <3> HIDE DEF output
    <3>1. Len(output.shape) = 3 /\ output.shape[1] = m /\ output.shape[2] = n /\ Last(output.shape) = 1
      BY <2>1 DEF Last
    <3>2. Len(output.data) >= m * Last(output.shape) * n
      BY <2>2, <2>3, <3>1
    <3> QED BY <3>1, <3>2 DEF pool_output
  <2>5. [unit |-> v[r]] = VectorOf(kind, t)
    BY <1>6, <2>2 DEF VectorOf
  <2> HIDE DEF v, pooled
  <2> QED BY <1>2, <1>5, <2>4, <2>5 DEF m
<1>7. CASE kind = "texts"
  <2> DEFINE data == output.data
             v == [i \in 1..m |-> Slice(data, (i - 1) * 1, (i - 1 + 1) * 1)]
  <2>1. output.shape = <<m, 1>> /\ data = [i \in 1..m |-> StateOf(Attended(ids, mask, i - 1, n), "text")]
    BY <1>7 DEF Session, StateOf
  <2>2. Attended(ids, mask, r - 1, n) = t
    BY <1>2, <1>4, RowsReadAlone
  <2> HIDE DEF n, mask, ids, m
  <2>3. Len(data) = m /\ data[r] = StateOf(t, "text")
    BY <1>1, <2>1, <2>2
  <2>4. pooled = [vectors |-> [i \in 1..m |-> v[i]]]
    <3> HIDE DEF output
    <3>1. Len(output.shape) = 2 /\ output.shape[1] = m /\ output.shape[2] = 1 /\ Last(output.shape) = 1
      BY <2>1 DEF Last
    <3>2. Len(output.data) >= m * Last(output.shape) * 1
      BY <1>1, <2>3, <3>1
    <3>3. ASSUME NEW i \in 1..m
          PROVE  Slice(output.data, (i - 1) * output.shape[2], (i - 1 + 1) * output.shape[2]) = v[i]
      BY <3>1
    <3> DEFINE w == [i \in 1..m |->
                       Slice(output.data, (i - 1) * output.shape[2], (i - 1 + 1) * output.shape[2])]
    <3>4. pooled = [vectors |-> w]
      BY <3>1, <3>2 DEF pool_output
    <3>5. w = [i \in 1..m |-> v[i]]
      <4> HIDE DEF v
      <4> QED BY <3>3
    <3> HIDE DEF w, v, pooled
    <3> QED BY <3>4, <3>5
  <2>5. v[r] = <<StateOf(t, "text")>>
    <3> HIDE DEF data
    <3>1. v[r] = SubSeq(data, r, r)
      <4>1. (r - 1) * 1 + 1 = r /\ (r - 1 + 1) * 1 = r
        BY <1>1
      <4> QED BY <1>1, <4>1 DEF Slice
    <3>2. SubSeq(data, r, r) = <<data[r]>>
      <4> DEFINE S == {data[i] : i \in 1..m}
      <4>1. data \in [1..m -> S]
        BY <2>1 DEF data
      <4> HIDE DEF S
      <4>2. data \in Seq(S) /\ Len(data) = m
        BY <1>1, <4>1
      <4> DEFINE one == SubSeq(data, r, r)
      <4>3. one \in Seq(S) /\ Len(one) = 1 /\ one[1] = data[r]
        <5>1. \A i \in r..r : data[i] \in S
          BY <1>1, <4>1
        <5> QED BY <1>1, <5>1, SubSeqProperties
      <4>4. one = <<data[r]>>
        <5> HIDE DEF one
        <5> QED BY <4>3
      <4> QED BY <4>4
    <3> QED BY <2>3, <3>1, <3>2
  <2>6. [unit |-> v[r]] = VectorOf(kind, t)
    BY <1>7, <2>5 DEF VectorOf
  <2> HIDE DEF v, pooled
  <2> QED BY <1>2, <1>5, <2>4, <2>6 DEF m
<1> QED BY <1>1, <1>2, <1>6, <1>7

\* A model that was loaded has an output for each token or for each text.
LEMMA LoadedIs ==
    ASSUME NEW kind \in OutputKinds, from_loaded(kind)
    PROVE  from_vocab /\ kind \in {"tokens", "texts"}
<1> DEFINE texts == <<Probe>>
           seqs == Flat([i \in DOMAIN texts |-> <<encode(texts[i], MAX_SEQ_LEN)>>])
           n == Longest(seqs)
           ids == Padded(seqs, pad_id)
           mask == Padded(Ones(seqs), 0)
           output == Session(kind, ids, mask, 1, n)
           pooled == pool_output(output, 1, n, mask)
           probe == run_batch(kind, texts)
<1>1. Len(texts) = 1 /\ texts # <<>>
  OBVIOUS
<1> HIDE DEF texts
<1>2. probe = IF Failed(pooled) THEN pooled
              ELSE [vectors |-> [i \in 1..1 |-> normalize(pooled.vectors[i])]]
  BY <1>1 DEF run_batch, pad_batch
<1>3. from_vocab /\ ~Failed(probe) /\ Head(probe.vectors).unit # <<>>
  BY DEF from_loaded, texts
<1> HIDE DEF probe, n, mask
<1>4. CASE kind = "other"
  <2>1. output.shape = <<1>>
    BY <1>4 DEF Session
  <2> HIDE DEF output
  <2>2. Len(output.shape) = 1
    BY <2>1
  <2>3. pooled = [error |-> "Onnx"]
    BY <2>2 DEF pool_output
  <2> HIDE DEF pooled
  <2>4. Failed(pooled)
    BY <2>3 DEF Failed
  <2> QED BY <1>2, <1>3, <2>4
<1>5. CASE kind = "empty"
  <2>1. output = [shape |-> <<1, 0>>, data |-> <<>>]
    BY <1>5 DEF Session
  <2> HIDE DEF output
  <2>2. Len(output.shape) = 2 /\ output.shape[2] = 0 /\ output.data = <<>>
    BY <2>1
  <2>3. Slice(<<>>, 0 * 0, (0 + 1) * 0) = <<>>
    <3>1. 0 * 0 + 1 = 1 /\ (0 + 1) * 0 = 0
      OBVIOUS
    <3>2. SubSeq(<<>>, 1, 0) = <<>>
      BY SubSeqEmpty
    <3> QED BY <3>1, <3>2 DEF Slice
  <2>4. CASE Failed(pooled)
    BY <1>2, <1>3, <2>4
  <2>5. CASE ~Failed(pooled)
    <3>1. pooled # [error |-> "Onnx"]
      <4>1. Failed([error |-> "Onnx"])
        BY DEF Failed
      <4> HIDE DEF pooled
      <4> QED BY <2>5, <4>1
    <3> DEFINE v == [r \in 1..1 |-> Slice(output.data, (r - 1) * output.shape[2], (r - 1 + 1) * output.shape[2])]
    <3>2. pooled = [vectors |-> v]
      BY <2>2, <3>1 DEF pool_output
    <3>3. v[1] = <<>>
      BY <2>2, <2>3
    <3> HIDE DEF pooled, v
    <3>4. pooled.vectors[1] = <<>>
      BY <3>2, <3>3
    <3>5. probe.vectors = [i \in 1..1 |-> normalize(pooled.vectors[i])]
      BY <1>2, <2>5
    <3>6. Head(probe.vectors) = normalize(pooled.vectors[1])
      BY <3>5
    <3> QED BY <1>3, <3>4, <3>6 DEF normalize
  <2> QED BY <2>4, <2>5
<1> QED BY <1>3, <1>4, <1>5 DEF OutputKinds

(***************************************************************************)
(* Groups.                                                                 *)
(***************************************************************************)
LEMMA QuotientIs ==
    ASSUME NEW a \in Nat, NEW b \in Nat \ {0}
    PROVE  /\ a \div b \in Nat /\ (a \div b) * b \in Nat
           /\ (a \div b) * b <= a /\ a < (a \div b) * b + b
OBVIOUS

LEMMA Multiples ==
    ASSUME NEW x \in Nat, NEW y \in Nat, NEW b \in Nat, x <= y
    PROVE  /\ x * b \in Nat /\ y * b \in Nat /\ x * b <= y * b
           /\ (x + 1) * b = x * b + b
<1>1. PICK d \in Nat : y = x + d
  <2>1. y - x \in Nat /\ y = x + (y - x)
    OBVIOUS
  <2> QED BY <2>1
<1>2. (x + d) * b = x * b + d * b /\ d * b \in Nat /\ x * b \in Nat
  OBVIOUS
<1>3. (x + 1) * b = x * b + b
  OBVIOUS
<1> DEFINE p == x * b
           q == d * b
           r == (x + d) * b
<1>4. p \in Nat /\ q \in Nat /\ r = p + q
  BY <1>2
<1> HIDE DEF p, q, r
<1>5. r \in Nat /\ p <= r
  BY <1>4
<1> QED BY <1>1, <1>3, <1>4, <1>5 DEF p, r

\* The groups of a list have its members, and have them all.
Grouped(S, order, groups) ==
    /\ Len(groups) \in Nat
    /\ \A g \in 1..Len(groups) : groups[g] \in Seq(S) /\ groups[g] # <<>>
    /\ \A i \in DOMAIN order : \E g \in 1..Len(groups) : \E at \in DOMAIN groups[g] : groups[g][at] = order[i]

LEMMA GroupsAre ==
    ASSUME NEW S, NEW order \in Seq(S)
    PROVE  Grouped(S, order, Groups(order))
<1> DEFINE m == Len(order)
           b == BATCH_SIZE
           N == (m + b - 1) \div b
           first(g) == (g - 1) * b + 1
           last(g) == Min({g * b, m})
           part(g) == SubSeq(order, first(g), last(g))
           groups == Groups(order)
<1>1. m \in Nat /\ b \in Nat \ {0} /\ DOMAIN order = 1..m /\ \A i \in 1..m : order[i] \in S
  BY EncodingAssumption
<1>2. groups = [g \in 1..N |-> part(g)]
  BY DEF Groups
<1> HIDE DEF m, b, groups
<1>3. N \in Nat /\ N * b \in Nat /\ N * b <= m + b - 1 /\ m + b - 1 < N * b + b
  <2>1. m + b - 1 \in Nat
    BY <1>1
  <2> QED BY <1>1, <2>1, QuotientIs
<1> HIDE DEF N
<1>4. ASSUME NEW g \in 1..N
      PROVE  /\ first(g) \in 1..m /\ last(g) \in first(g)..m
             /\ last(g) = g * b \/ last(g) = m
             /\ g * b = (g - 1) * b + b /\ (g - 1) * b \in Nat
  <2> DEFINE p == (g - 1) * b
             q == g * b
             w == N * b
  <2>1. g - 1 \in Nat /\ g \in Nat /\ g - 1 <= g /\ g <= N /\ (g - 1) + 1 = g
    BY <1>3
  <2>2. p \in Nat /\ q \in Nat /\ ((g - 1) + 1) * b = p + b
    BY <1>1, <2>1, Multiples
  <2>3. q <= w
    BY <1>1, <1>3, <2>1, Multiples
  <2>4. q = p + b /\ w <= m + b - 1 /\ w \in Nat
    BY <1>3, <2>1, <2>2
  <2>5. last(g) = Min({q, m}) /\ first(g) = p + 1
    OBVIOUS
  <2> HIDE DEF p, q, w, first, last
  <2>6. p + 1 \in 1..m /\ q > p
    BY <1>1, <2>2, <2>3, <2>4
  <2>7. Min({q, m}) \in {q, m} /\ Min({q, m}) <= q /\ Min({q, m}) <= m
    BY <1>1, <2>2, MinIsLeast
  <2>8. last(g) \in p + 1..m
    BY <1>1, <2>2, <2>5, <2>6, <2>7
  <2> QED BY <2>2, <2>4, <2>5, <2>6, <2>7, <2>8 DEF p, q
<1>5. Len(groups) = N /\ \A g \in 1..N : groups[g] = part(g)
  <2> HIDE DEF part
  <2> QED BY <1>2, <1>3
<1>6. ASSUME NEW g \in 1..N
      PROVE  /\ part(g) \in Seq(S) /\ Len(part(g)) = last(g) - first(g) + 1 /\ part(g) # <<>>
             /\ \A at \in 1..last(g) - first(g) + 1 : part(g)[at] = order[first(g) + at - 1]
  <2>1. first(g) \in 1..m /\ last(g) \in first(g)..m
    BY <1>4
  <2> DEFINE x == first(g)
             y == last(g)
             s == SubSeq(order, x, y)
  <2>2. x \in 1..m /\ y \in x..m
    BY <2>1
  <2> HIDE DEF x, y
  <2>3. /\ s \in Seq(S) /\ Len(s) = y - x + 1
        /\ \A at \in 1..y - x + 1 : s[at] = order[x + at - 1]
    <3>1. x \in Int /\ y \in Int /\ x <= y /\ \A i \in x..y : order[i] \in S
      BY <1>1, <2>2
    <3> QED BY <3>1, SubSeqProperties
  <2>4. s # <<>>
    <3>1. Len(s) # 0
      BY <1>1, <2>2, <2>3
    <3> HIDE DEF s
    <3> QED BY <3>1
  <2> QED BY <2>3, <2>4 DEF x, y
<1>7. ASSUME NEW i \in 1..m
      PROVE  \E g \in 1..N : \E at \in DOMAIN part(g) : part(g)[at] = order[i]
  <2> DEFINE d == (i - 1) \div b
             g == d + 1
             at == i - d * b
  <2>1. i - 1 \in Nat /\ i \in Nat
    BY <1>1
  <2>2. d \in Nat /\ d * b \in Nat /\ d * b <= i - 1 /\ i - 1 < d * b + b
    BY <1>1, <2>1, QuotientIs
  <2> HIDE DEF d
  <2>3. (d + 1) * b = d * b + b /\ g - 1 = d /\ g \in Nat \ {0}
    BY <1>1, <2>2, Multiples
  <2> DEFINE p == d * b
             w == N * b
  <2>4. /\ p \in Nat /\ p <= i - 1 /\ i - 1 < p + b /\ (d + 1) * b = p + b
        /\ w \in Nat /\ w <= m + b - 1 /\ m + b - 1 < w + b
    BY <1>3, <2>2, <2>3
  <2>5. g <= N
    <3> SUFFICES ASSUME N <= d PROVE FALSE
      BY <1>3, <2>2
    <3>1. w <= p
      BY <1>1, <1>3, <2>2, Multiples
    <3> HIDE DEF p, w
    <3>2. m + b - 1 < p + b /\ p <= i - 1 /\ i <= m
      BY <1>1, <2>1, <2>4, <3>1
    <3> QED BY <1>1, <2>1, <2>4, <3>2
  <2>6. g \in 1..N
    BY <1>3, <2>3, <2>5
  <2>7. first(g) = p + 1 /\ (last(g) = p + b \/ last(g) = m)
    <3>1. g * b = p + b /\ (g - 1) * b = p
      BY <2>3, <2>4
    <3>2. last(g) = g * b \/ last(g) = m
      BY <1>4, <2>6
    <3>3. first(g) = (g - 1) * b + 1
      OBVIOUS
    <3> HIDE DEF first, last, p
    <3> QED BY <3>1, <3>2, <3>3
  <2>8. at = i - p
    OBVIOUS
  <2> DEFINE x == first(g)
             y == last(g)
             s == part(g)
  <2>9. /\ s \in Seq(S) /\ Len(s) = y - x + 1
        /\ \A k \in 1..y - x + 1 : s[k] = order[x + k - 1]
    BY <1>6, <2>6
  <2>10. x = p + 1 /\ (y = p + b \/ y = m)
    BY <2>7
  <2> HIDE DEF x, y, s, p, w, at, g
  <2>11. at \in 1..y - x + 1 /\ x + at - 1 = i
    BY <1>1, <2>1, <2>4, <2>8, <2>10
  <2>12. at \in DOMAIN s /\ s[at] = order[i]
    BY <1>1, <2>9, <2>11
  <2>13. s = part(g)
    BY DEF s
  <2> HIDE DEF part
  <2> QED BY <2>6, <2>12, <2>13
<1> HIDE DEF part
<1>8. /\ Len(groups) \in Nat
      /\ \A g \in 1..Len(groups) : groups[g] \in Seq(S) /\ groups[g] # <<>>
  BY <1>3, <1>5, <1>6
<1>9. \A i \in DOMAIN order : \E g \in 1..Len(groups) :
         \E at \in DOMAIN groups[g] : groups[g][at] = order[i]
  <2> SUFFICES ASSUME NEW i \in 1..m
               PROVE  \E g \in 1..N : \E at \in DOMAIN groups[g] : groups[g][at] = order[i]
    BY <1>1, <1>5
  <2>1. PICK g \in 1..N : \E at \in DOMAIN part(g) : part(g)[at] = order[i]
    BY <1>7
  <2>2. groups[g] = part(g)
    BY <1>5
  <2> QED BY <2>1, <2>2
<1> QED BY <1>8, <1>9 DEF Grouped, groups

\* Texts of the model, and the place of each in the batches.
AreTexts(texts) ==
    /\ Len(texts) \in Nat /\ DOMAIN texts = 1..Len(texts)
    /\ \A k \in 1..Len(texts) : IsWord(texts[k])
PlacesIn(m, order) == order \in Seq(1..m) /\ \A i \in 1..m : \E k \in DOMAIN order : order[k] = i

LEMMA ByLengthHasAll ==
    ASSUME NEW texts, AreTexts(texts)
    PROVE  PlacesIn(Len(texts), ByLength(texts))
<1> DEFINE m == Len(texts)
           S == 1..m
           len(i) == Len(texts[i])
           before == {p \in S \X S : \/ len(p[1]) < len(p[2])
                                     \/ len(p[1]) = len(p[2]) /\ p[1] < p[2]}
           list == InOrder(S, before)
<1>1. m \in Nat /\ DOMAIN texts = S
  BY DEF AreTexts
<1>2. ByLength(texts) = list
  BY <1>1 DEF ByLength
<1>3. \A i \in S : len(i) \in Nat
  BY DEF AreTexts, IsWord
<1>4. IsFiniteSet(S) /\ Cardinality(S) = m
  <2> HIDE DEF m
  <2> QED BY <1>1, FS_Interval
<1> HIDE DEF len
<1>5. \A x, y \in S : <<x, y>> \in before <=> len(x) < len(y) \/ (len(x) = len(y) /\ x < y)
  OBVIOUS
<1> HIDE DEF before
<1>6. \A x \in S : x \in Int
  BY <1>1
<1> HIDE DEF m
<1>7. Orders(S, before)
  <2> HIDE DEF S
  <2>1. \A x \in S : <<x, x>> \notin before
    BY <1>3, <1>5, <1>6
  <2>2. \A x, y \in S : x # y => <<x, y>> \in before \/ <<y, x>> \in before
    BY <1>3, <1>5, <1>6
  <2>3. \A x, y, z \in S : <<x, y>> \in before /\ <<y, z>> \in before => <<x, z>> \in before
    BY <1>3, <1>5, <1>6
  <2> QED BY <1>4, <2>1, <2>2, <2>3 DEF Orders
<1>8. /\ list \in [1..m -> S] /\ \A x \in S : \E k \in 1..m : list[k] = x
  BY <1>4, <1>7, InOrderLists DEF Enumerates
<1> HIDE DEF list
<1>9. PlacesIn(m, list)
  BY <1>1, <1>8 DEF PlacesIn
<1> QED BY <1>2, <1>9 DEF m

\* What each text is to have.
Wanted(kind, text) == VectorOf(kind, encode(text, MAX_SEQ_LEN))

LEMMA StoredIs ==
    ASSUME from_vocab, NEW kind \in {"tokens", "texts"}, NEW texts, AreTexts(texts),
           NEW group \in Seq(1..Len(texts)), group # <<>>, NEW results
    PROVE  /\ DOMAIN Stored(kind, texts, results, group) = 1..Len(texts)
           /\ \A i \in 1..Len(texts) :
                 Stored(kind, texts, results, group)[i] =
                    IF \E at \in DOMAIN group : group[at] = i THEN Wanted(kind, texts[i]) ELSE results[i]
<1> DEFINE m == Len(texts)
           l == Len(group)
           part == [i \in DOMAIN group |-> texts[group[i]]]
           batch == run_batch(kind, part).vectors
           place(i) == CHOOSE at \in DOMAIN group : group[at] = i
           t == Stored(kind, texts, results, group)
<1>1. m \in Nat /\ DOMAIN texts = 1..m /\ \A k \in 1..m : IsWord(texts[k])
  BY DEF AreTexts
<1>2. l \in Nat \ {0} /\ DOMAIN group = 1..l /\ \A k \in 1..l : group[k] \in 1..m
  <2>1. l # 0
    OBVIOUS
  <2> QED BY <2>1
<1>3. t = [i \in 1..m |-> IF \E at \in DOMAIN group : group[at] = i THEN batch[place(i)] ELSE results[i]]
  BY <1>1 DEF Stored
<1> HIDE DEF t, m, l
<1>4. Len(part) = l /\ DOMAIN part = 1..l /\ \A k \in 1..l : part[k] = texts[group[k]] /\ IsWord(part[k])
  BY <1>1, <1>2
<1>5. ASSUME NEW k \in 1..l PROVE batch[k] = Wanted(kind, texts[group[k]])
  <2> HIDE DEF part
  <2>1. run_batch(kind, part).vectors[k] = VectorOf(kind, encode(part[k], MAX_SEQ_LEN))
    <3>1. /\ Len(part) \in Nat \ {0} /\ DOMAIN part = 1..Len(part) /\ k \in 1..Len(part)
          /\ \A i \in 1..Len(part) : IsWord(part[i])
      BY <1>2, <1>4
    <3> QED BY <3>1, RunBatchIs
  <2> QED BY <1>4, <2>1 DEF Wanted
<1> HIDE DEF batch
<1>6. ASSUME NEW i \in 1..m, \E at \in DOMAIN group : group[at] = i
      PROVE  batch[place(i)] = Wanted(kind, texts[i])
  <2>1. place(i) \in 1..l /\ group[place(i)] = i
    BY <1>2, <1>6
  <2> HIDE DEF place
  <2> QED BY <1>5, <2>1
<1> HIDE DEF place
<1>7. \A i \in 1..m : t[i] = IF \E at \in DOMAIN group : group[at] = i
                               THEN Wanted(kind, texts[i]) ELSE results[i]
  BY <1>3, <1>6
<1>8. DOMAIN t = 1..m
  BY <1>3
<1> QED BY <1>7, <1>8 DEF t, m

LEMMA EmbedBatchIs ==
    ASSUME from_vocab, NEW kind \in {"tokens", "texts"}, NEW texts, AreTexts(texts)
    PROVE  /\ DOMAIN embed_batch(kind, texts) = 1..Len(texts)
           /\ \A i \in 1..Len(texts) : embed_batch(kind, texts)[i] = Wanted(kind, texts[i])
<1> DEFINE m == Len(texts)
           order == ByLength(texts)
           groups == Groups(order)
           N == Len(groups)
           want(i) == Wanted(kind, texts[i])
           W == {want(i) : i \in 1..m} \cup {<<>>}
           V == [1..m -> W]
           first == [i \in 1..m |-> <<>>]
           turn(k, s) == Stored(kind, texts, s, groups[k])
           G == [k \in 1..N |-> [s \in V |-> turn(k, s)]]
           f == stored(kind, texts)
           Is(g) == g = [n \in 0..N |-> IF n = 0 THEN first ELSE turn(n, g[n - 1])]
<1>1. m \in Nat /\ DOMAIN texts = 1..m
  BY DEF AreTexts
<1>2. order \in Seq(1..m) /\ \A i \in 1..m : \E k \in DOMAIN order : order[k] = i
  BY ByLengthHasAll DEF PlacesIn
<1>3. Grouped(1..m, order, groups)
  BY <1>2, GroupsAre
<1>4. f = CHOOSE g : Is(g)
  BY <1>1 DEF stored
<1>5. embed_batch(kind, texts) = f[N]
  BY DEF embed_batch
<1> HIDE DEF groups, order, m, f, turn
<1>6. N \in Nat /\ \A g \in 1..N : groups[g] \in Seq(1..m) /\ groups[g] # <<>>
  BY <1>3 DEF Grouped
<1>7. \A i \in 1..m : \E g \in 1..N : \E at \in DOMAIN groups[g] : groups[g][at] = i
  BY <1>2, <1>3 DEF Grouped
<1> DEFINE In(i, g) == \E at \in DOMAIN groups[g] : groups[g][at] = i
<1> HIDE DEF N
<1>8. ASSUME NEW k \in 1..N, NEW s
      PROVE  /\ DOMAIN turn(k, s) = 1..m
             /\ \A i \in 1..m : turn(k, s)[i] = IF In(i, k) THEN want(i) ELSE s[i]
  BY <1>6, StoredIs DEF turn, m
<1> HIDE DEF In, want
<1>9. ASSUME NEW k \in 1..N, NEW s \in V PROVE turn(k, s) \in V
  <2>1. \A i \in 1..m : turn(k, s)[i] \in W
    BY <1>8
  <2>2. turn(k, s) = [i \in 1..m |-> turn(k, s)[i]]
    <3>1. turn(k, s) \in [1..m -> {turn(k, s)[i] : i \in 1..m}]
      BY <1>8 DEF turn, Stored
    <3> QED BY <3>1
  <2> HIDE DEF W
  <2> QED BY <2>1, <2>2
<1>10. first \in V
  OBVIOUS
<1> HIDE DEF V, first
<1>11. G \in [1..N -> [V -> V]] /\ \A k \in 1..N, s \in V : G[k][s] = turn(k, s)
  BY <1>9
<1> HIDE DEF G
<1>12. PICK h : h \in [0..N -> V] /\ h[0] = first /\ \A k \in 1..N : h[k] = G[k][h[k - 1]]
  <2>1. \E h : Follows(N, V, first, G, h)
    BY <1>6, <1>10, <1>11, Recursion
  <2> QED BY <2>1 DEF Follows
<1>13. ASSUME NEW k \in 1..N PROVE h[k] = turn(k, h[k - 1])
  <2>1. h[k - 1] \in V
    BY <1>6, <1>12
  <2> QED BY <1>11, <1>12, <2>1
<1>14. Is(h)
  <2> DEFINE e(k) == IF k = 0 THEN first ELSE turn(k, h[k - 1])
  <2>1. \A k \in 0..N : h[k] = e(k)
    <3>1. \A k \in 0..N : k = 0 \/ k \in 1..N
      BY <1>6
    <3> QED BY <1>12, <1>13, <3>1
  <2> HIDE DEF e
  <2>2. h = [k \in 0..N |-> e(k)]
    BY <1>12, <2>1
  <2> QED BY <2>2 DEF e
<1>15. Is(f)
  <2> HIDE DEF Is
  <2> QED BY <1>4, <1>14
<1>16. f[0] = first /\ \A k \in 1..N : f[k] = turn(k, f[k - 1])
  <2>1. f[0] = first
    BY <1>6, <1>15
  <2>2. ASSUME NEW k \in 1..N PROVE f[k] = turn(k, f[k - 1])
    <3>1. k \in 0..N /\ k # 0
      BY <1>6
    <3> QED BY <1>15, <3>1
  <2> QED BY <2>1, <2>2
<1> DEFINE Done(n) == /\ DOMAIN f[n] = 1..m
                      /\ \A i \in 1..m : (\E g \in 1..n : In(i, g)) => f[n][i] = want(i)
           P == {n \in 0..N : Done(n)}
<1>17. 0 \in P
  <2>1. DOMAIN first = 1..m
    BY DEF first
  <2> QED BY <1>6, <1>16, <2>1
<1>18. ASSUME NEW k \in 1..N, k - 1 \in P PROVE k \in P
  <2> DEFINE s == f[k - 1]
  <2>1. f[k] = turn(k, s)
    BY <1>16
  <2>2. Done(k - 1)
    BY <1>18
  <2>3. /\ DOMAIN f[k] = 1..m
        /\ \A i \in 1..m : f[k][i] = IF In(i, k) THEN want(i) ELSE s[i]
    BY <1>8, <2>1
  <2>4. ASSUME NEW i \in 1..m, NEW g \in 1..k, In(i, g), ~In(i, k) PROVE s[i] = want(i)
    <3>1. g # k
      BY <2>4
    <3>2. g \in 1..k - 1
      BY <1>6, <3>1
    <3> QED BY <2>2, <2>4, <3>2
  <2> HIDE DEF s
  <2>5. Done(k)
    BY <2>3, <2>4
  <2> QED BY <1>6, <2>5
<1> HIDE DEF P
<1>19. N \in P
  <2>1. 0..N \subseteq P
    BY <1>6, <1>17, <1>18, Induction
  <2> QED BY <1>6, <2>1
<1>20. Done(N)
  BY <1>19 DEF P
<1>21. DOMAIN f[N] = 1..m /\ \A i \in 1..m : f[N][i] = want(i)
  <2>1. \A i \in 1..m : \E g \in 1..N : In(i, g)
    BY <1>7 DEF In
  <2> QED BY <1>20, <2>1
<1> QED BY <1>5, <1>21 DEF want, m

(***************************************************************************)
(* What the models read of the chunks.                                     *)
(***************************************************************************)

\* The texts of the chunks are parts of a text without the mark of a piece.
ChunksOfText ==
    /\ IsText(document.text)
    /\ \A k \in DOMAIN chunks : chunks[k].from \in Nat /\ chunks[k].to \in 0..Len(document.text)

ChunkTexts == [k \in DOMAIN chunks |-> ChunkText(k)]

\* Vectors are those that a model that works has for the chunks.
VectorsOfChunks ==
    /\ pc \notin {"open", "refused"} => from_loaded(config.model)
    /\ pc \in {"sections", "window"} => vectors = <<>>
    /\ vectors # <<>> => /\ pc \notin {"open", "refused"}
                         /\ vectors = embed_batch(config.model, ChunkTexts)

EInv == DInv /\ ChunksOfText /\ VectorsOfChunks
-----------------------------------------------------------------------------
\* One more chunk of the text.
LEMMA ChunkOfText ==
    ASSUME IsList(chunks), ChunksOfText, document' = document, NEW c, chunks' = Append(chunks, c),
           c.from \in Nat, c.to \in 0..Len(document.text)
    PROVE  ChunksOfText'
<1>1. /\ Len(chunks) \in Nat /\ DOMAIN chunks = 1..Len(chunks)
      /\ DOMAIN chunks' = 1..Len(chunks) + 1 /\ chunks'[Len(chunks) + 1] = c
      /\ \A k \in 1..Len(chunks) : chunks'[k] = chunks[k]
  BY ListGrows
<1>2. ASSUME NEW k \in DOMAIN chunks'
      PROVE  chunks'[k].from \in Nat /\ chunks'[k].to \in 0..Len(document.text)
  <2>1. k = Len(chunks) + 1 \/ k \in DOMAIN chunks
    BY <1>1
  <2>2. CASE k \in DOMAIN chunks
    <3>1. chunks'[k] = chunks[k]
      BY <1>1, <2>2
    <3> QED BY <2>2, <3>1 DEF ChunksOfText
  <2>3. CASE k = Len(chunks) + 1
    BY <1>1, <2>3
  <2> QED BY <2>1, <2>2, <2>3
<1> QED BY <1>2 DEF ChunksOfText

LEMMA ChunksStayOfText ==
    ASSUME ChunksOfText, document' = document, chunks' = chunks
    PROVE  ChunksOfText'
BY DEF ChunksOfText

\* While there are none, and the configuration stays.
LEMMA NoVectorsYet ==
    ASSUME VectorsOfChunks, pc \notin {"open", "refused"}, config' = config, vectors' = <<>>
    PROVE  VectorsOfChunks'
BY DEF VectorsOfChunks

LEMMA VectorsStay ==
    ASSUME VectorsOfChunks, pc \notin {"open", "refused"}, pc' \notin {"open", "refused", "sections", "window"},
           UNCHANGED <<config, document, chunks, vectors>>
    PROVE  VectorsOfChunks'
BY DEF VectorsOfChunks, ChunkTexts, ChunkText

LEMMA CallsKeepVectors ==
    ASSUME EInv, Fails \/ HasNoText \/ Parses \/ Plan \/ AddText
    PROVE  ChunksOfText' /\ VectorsOfChunks'
<1>1. pc = "call" /\ todo # <<>> /\ ChunksOfText /\ VectorsOfChunks
  BY DEF Fails, HasNoText, Parses, Plan, AddText, AddsFile, Call, EInv
<1>2. HasItsTypes(todo[1])
  BY <1>1, NextCall DEF EInv, DInv
<1>3. ASSUME NEW outcome, Answered(outcome, vectors) PROVE ChunksOfText' /\ VectorsOfChunks'
  <2>1. pc' = "call" /\ UNCHANGED <<config, document, chunks, vectors>>
    BY <1>3 DEF Answered
  <2> QED BY <1>1, <2>1, ChunksStayOfText, VectorsStay
<1>4. ASSUME NEW d, IsDocument(d), Chunking(d) PROVE ChunksOfText' /\ VectorsOfChunks'
  <2>1. document' = d /\ chunks' = <<>> /\ vectors' = <<>> /\ config' = config
    BY <1>4 DEF Chunking
  <2>2. ChunksOfText'
    BY <1>4, <2>1 DEF ChunksOfText, IsDocument
  <2> QED BY <1>1, <2>1, <2>2, NoVectorsYet
<1>5. CASE Fails
  BY <1>3, <1>5 DEF Fails
<1>6. CASE HasNoText
  BY <1>3, <1>6 DEF HasNoText
<1>7. CASE Parses
  <2> DEFINE d == Parsed(Format(todo[1]), todo[1].body)
  <2>1. todo[1].call \in {"add_document", "add_directory"} /\ ParseError(todo[1]) = "none" /\ Chunking(d)
    BY <1>7 DEF Parses, AddsFile, Call
  <2>2. IsDocument(d)
    BY <1>2, <2>1 DEF HasItsTypes
  <2> QED BY <1>4, <2>1, <2>2
<1>8. CASE Plan
  <2> DEFINE d == parse_content(todo[1].ext, todo[1].body)
  <2>1. CASE todo[1].ext \in PageKinds /\ ~IsBlank(d.text)
    <3>1. Chunking(d)
      BY <1>8, <2>1 DEF Plan
    <3>2. IsDocument(d)
      BY <1>2, <1>8, <2>1 DEF HasItsTypes, Plan, Call
    <3> QED BY <1>4, <3>1, <3>2
  <2>2. CASE ~(todo[1].ext \in PageKinds /\ ~IsBlank(d.text))
    <3>1. Answered("UnsupportedFormat", vectors) \/ Answered("EmptyDocument", vectors)
      BY <1>8, <2>2 DEF Plan
    <3> QED BY <1>3, <3>1
  <2> QED BY <2>1, <2>2
<1>9. CASE AddText
  <2>1. IsText(todo[1].body)
    BY <1>2, <1>9 DEF HasItsTypes, AddText, Call
  <2>2. Answered("added", vectors) \/ Chunking(Plain(todo[1].body))
    BY <1>9 DEF AddText
  <2> QED BY <1>3, <1>4, <2>1, <2>2, PlainIsDocument
<1> QED BY <1>5, <1>6, <1>7, <1>8, <1>9

LEMMA SemanticKeepsVectors == ASSUME EInv, Semantic PROVE ChunksOfText' /\ VectorsOfChunks'
<1> DEFINE text == todo[1].body
           r == SemanticChunks(text, config.min_chunk_size)
<1>1. pc = "call" /\ todo # <<>> /\ todo[1].call = "semantic" /\ VectorsOfChunks
  BY DEF Semantic, Call, EInv
<1>2. IsText(text)
  BY <1>1, NextCall DEF EInv, DInv, HasItsTypes
<1>3. /\ document' = Plain(text) /\ vectors' = <<>> /\ config' = config
      /\ chunks' = [k \in DOMAIN r |-> [from |-> r[k][1], to |-> r[k][2], section |-> NoSection]]
  BY DEF Semantic
<1>4. r \in Seq(Nat \X Nat) /\ \A k \in 1..Len(r) : r[k][2] <= Len(text)
  BY <1>2, SemanticCovers DEF IsText
<1>5. Len(text) \in Nat
  BY <1>2 DEF IsText
<1> HIDE DEF text, r
<1>6. DOMAIN r = 1..Len(r) /\ Len(r) \in Nat
  BY <1>4
<1>7. document'.text = text
  BY <1>3 DEF Plain, Document
<1>8. ASSUME NEW k \in DOMAIN chunks'
      PROVE  chunks'[k].from \in Nat /\ chunks'[k].to \in 0..Len(document'.text)
  <2>1. k \in 1..Len(r) /\ chunks'[k].from = r[k][1] /\ chunks'[k].to = r[k][2]
    BY <1>3, <1>6
  <2>2. r[k] \in Nat \X Nat /\ r[k][2] <= Len(text)
    BY <1>4, <2>1
  <2> QED BY <1>5, <1>7, <2>1, <2>2
<1>9. ChunksOfText'
  BY <1>2, <1>7, <1>8 DEF ChunksOfText
<1> QED BY <1>1, <1>3, <1>9, NoVectorsYet

LEMMA WholeSectionKeepsVectors == ASSUME EInv, WholeSection PROVE ChunksOfText' /\ VectorsOfChunks'
<1> DEFINE c == Chunk(sections[1], SectionEnd)
<1>1. TypesOk /\ pc = "sections" /\ sections # <<>> /\ InText /\ ChunksOfText /\ VectorsOfChunks
  BY DEF EInv, DInv, WholeSection, TakesSection
<1>2. sections[1] \in Nat /\ SectionEnd \in 0..Len(document.text)
  <2>1. sections[1] \in Nat /\ SectionEnd \in Nat /\ Len(document.text) \in Nat
    BY <1>1, SectionIs
  <2> QED BY <1>1, <2>1 DEF InText
<1>3. c.from \in Nat /\ c.to \in 0..Len(document.text)
  BY <1>2 DEF Chunk
<1>4. document' = document /\ config' = config /\ vectors' = vectors /\ vectors = <<>>
  BY <1>1 DEF WholeSection, VectorsOfChunks
<1>5. chunks' = chunks \/ chunks' = Append(chunks, c)
  BY DEF WholeSection
<1> HIDE DEF c
<1>6. ChunksOfText'
  <2>1. IsList(chunks)
    BY <1>1 DEF TypesOk
  <2> QED BY <1>1, <1>3, <1>4, <1>5, <2>1, ChunkOfText, ChunksStayOfText
<1> QED BY <1>1, <1>4, <1>6, NoVectorsYet

LEMMA WindowKeepsVectors == ASSUME EInv, Window PROVE ChunksOfText' /\ VectorsOfChunks'
<1> DEFINE a    == sections[1]
           n    == Len(Spans)
           last == WindowEnd
           from == Spans[start + 1][1]
           to   == Spans[last][2]
           c    == Chunk(a + from, a + to)
<1>1. /\ TypesOk /\ pc = "window" /\ sections # <<>> /\ InText /\ start < n
      /\ ChunksOfText /\ VectorsOfChunks
  BY DEF EInv, DInv, Progress, Window
<1>2. /\ Words(Section, Spans)
      /\ a \in Nat /\ SectionEnd \in Nat /\ Len(document.text) \in Nat
      /\ Len(Section) = SectionEnd - a
  BY <1>1, SectionIs
<1>3. n \in Nat /\ last \in start + 1..n /\ start \in Nat
  BY <1>1, WindowIs DEF TypesOk
<1>4. start + 1 \in 1..n /\ last \in 1..n
  BY <1>1, <1>3
<1>5. from \in Nat /\ to \in Nat /\ to <= Len(Section)
  BY <1>2, <1>4, WordOf
<1>6. SectionEnd <= Len(document.text)
  BY <1>1 DEF InText
<1>7. chunks' = Append(chunks, c) /\ document' = document /\ config' = config
      /\ vectors' = vectors /\ vectors = <<>>
  BY <1>1 DEF Window, VectorsOfChunks
<1>8. c.from = a + from /\ c.to = a + to
  BY DEF Chunk
<1> HIDE DEF a, n, last, from, to, c
<1>9. c.from \in Nat /\ c.to \in 0..Len(document.text)
  BY <1>2, <1>5, <1>6, <1>8
<1>10. ChunksOfText'
  <2>1. IsList(chunks)
    BY <1>1 DEF TypesOk
  <2> QED BY <1>1, <1>7, <1>9, <2>1, ChunkOfText
<1> QED BY <1>1, <1>7, <1>10, NoVectorsYet

LEMMA InitHasVectors == Init => EInv
<1> SUFFICES ASSUME Init PROVE EInv
  OBVIOUS
<1>1. DInv
  BY InitOk
<1>2. ChunksOfText
  <2>1. document.text = <<>> /\ chunks = <<>>
    BY DEF Init, Plain, Document
  <2>2. IsText(<<>>)
    BY DEF IsText
  <2> QED BY <2>1, <2>2 DEF ChunksOfText
<1> QED BY <1>1, <1>2 DEF EInv, VectorsOfChunks, Init

LEMMA StepKeepsVectors == ASSUME EInv, [Next]_vars PROVE EInv'
<1>1. DInv' /\ ChunksOfText /\ VectorsOfChunks
  BY StepOk DEF EInv
<1> SUFFICES ChunksOfText' /\ VectorsOfChunks'
  BY <1>1 DEF EInv
<1>2. CASE Open
  <2>1. pc = "open" /\ vectors' = vectors /\ vectors = <<>>
    BY <1>1, <1>2 DEF Open, VectorsOfChunks
  <2>2. ChunksOfText'
    BY <1>1, <1>2, ChunksStayOfText DEF Open
  <2> QED BY <1>2, <2>1, <2>2 DEF Open, VectorsOfChunks
<1>3. CASE Fails \/ HasNoText \/ Parses \/ Plan \/ AddText
  BY <1>3, CallsKeepVectors
<1>4. CASE Semantic
  BY <1>4, SemanticKeepsVectors
<1>5. CASE Panics \/ SplitSection
  <2>1. pc = "sections" /\ UNCHANGED <<config, document, chunks, vectors>> /\ vectors = <<>>
    BY <1>1, <1>5 DEF Panics, SplitSection, TakesSection, VectorsOfChunks
  <2> QED BY <1>1, <2>1, ChunksStayOfText, NoVectorsYet
<1>6. CASE WholeSection
  BY <1>6, WholeSectionKeepsVectors
<1>7. CASE Window
  BY <1>7, WindowKeepsVectors
<1>8. CASE Ingest
  <2>1. pc = "sections" /\ pc' = "call" /\ UNCHANGED <<config, document, chunks>>
    BY <1>8 DEF Ingest, Answered
  <2>2. vectors' = <<>> \/ vectors' = embed_batch(config.model, ChunkTexts)
    BY <1>8 DEF Ingest, Answered, ChunkTexts
  <2>3. ChunksOfText'
    BY <1>1, <2>1, ChunksStayOfText
  <2>4. ChunkTexts' = ChunkTexts
    BY <2>1 DEF ChunkTexts, ChunkText
  <2> QED BY <1>1, <2>1, <2>2, <2>3, <2>4 DEF VectorsOfChunks
<1>9. CASE HandOver
  <2>1. pc = "sections" /\ vectors' = <<>> /\ UNCHANGED <<config, document, chunks>>
    BY <1>9 DEF HandOver, Answered
  <2> QED BY <1>1, <2>1, ChunksStayOfText, NoVectorsYet
<1>10. CASE Ended \/ UNCHANGED vars
  <2>1. UNCHANGED vars
    BY <1>10 DEF Ended
  <2>2. ChunksOfText' /\ ChunkTexts' = ChunkTexts
    BY <1>1, <2>1, ChunksStayOfText DEF vars, ChunkTexts, ChunkText
  <2> QED BY <1>1, <2>1, <2>2 DEF vars, VectorsOfChunks
<1> QED BY <1>2, <1>3, <1>4, <1>5, <1>6, <1>7, <1>8, <1>9, <1>10 DEF Next

-----------------------------------------------------------------------------
LEMMA ChunkTextsAre ==
    ASSUME EInv
    PROVE  /\ AreTexts(ChunkTexts) /\ DOMAIN ChunkTexts = DOMAIN chunks
           /\ DOMAIN chunks = 1..Len(chunks) /\ Len(ChunkTexts) = Len(chunks)
           /\ \A k \in DOMAIN chunks : ChunkTexts[k] = ChunkText(k) /\ IsText(ChunkText(k))
<1> DEFINE text == document.text
           n == Len(chunks)
<1>1. IsText(text) /\ text \in Seq(STRING) /\ Len(text) \in Nat /\ DOMAIN text = 1..Len(text)
  BY DEF EInv, ChunksOfText, IsText
<1>2. n \in Nat /\ DOMAIN chunks = 1..n
  BY DEF EInv, DInv, TypesOk, IsList
<1>3. ASSUME NEW k \in 1..n PROVE IsText(ChunkText(k))
  <2> DEFINE a == chunks[k].from
             b == chunks[k].to
             t == SubSeq(text, a + 1, b)
  <2>1. a \in Nat /\ b \in 0..Len(text)
    BY <1>2, <1>3 DEF EInv, ChunksOfText
  <2> HIDE DEF a, b, text
  <2>2. \A i \in a + 1..b : i \in 1..Len(text) /\ text[i] \in STRING
    BY <1>1, <2>1
  <2>3. /\ t \in Seq(STRING) /\ Len(t) = (IF a + 1 <= b THEN b - (a + 1) + 1 ELSE 0)
        /\ \A i \in 1..b - (a + 1) + 1 : t[i] = text[a + 1 + i - 1]
    <3>1. a + 1 \in Int /\ b \in Int
      BY <1>1, <2>1
    <3> QED BY <2>2, <3>1, SubSeqProperties
  <2>4. ASSUME NEW i \in DOMAIN t PROVE t[i] # "##"
    <3>1. i \in 1..Len(t)
      BY <2>3
    <3> HIDE DEF t
    <3> DEFINE j == a + 1 + i - 1
    <3>2. i \in 1..b - (a + 1) + 1 /\ j \in a + 1..b
      BY <1>1, <2>1, <2>3, <3>1
    <3>3. t[i] = text[j]
      BY <2>3, <3>2
    <3> HIDE DEF j
    <3>4. j \in 1..Len(text)
      BY <2>2, <3>2
    <3> QED BY <1>1, <3>3, <3>4 DEF IsText
  <2>5. IsText(t)
    BY <2>3, <2>4 DEF IsText
  <2> QED BY <2>5 DEF ChunkText, Slice, t, a, b, text
<1> HIDE DEF n
<1>4. DOMAIN ChunkTexts = 1..n /\ Len(ChunkTexts) = n /\ \A k \in 1..n : ChunkTexts[k] = ChunkText(k)
  BY <1>2 DEF ChunkTexts
<1>5. \A k \in 1..n : IsWord(ChunkTexts[k])
  BY <1>3, <1>4, TextIsWord
<1>6. AreTexts(ChunkTexts)
  BY <1>2, <1>4, <1>5 DEF AreTexts
<1> QED BY <1>2, <1>3, <1>4, <1>6 DEF n

\* What ReadsItsChunk says, of a text.
Reads(kind, text, states) ==
    LET tokens == states[1].of
        body   == Tail(Front(tokens))
        places == IF kind = "tokens" THEN 0..Len(tokens) - 1 ELSE {"text"}
    IN  /\ Flat(basic_tokenize(text)) = LettersOf(text)
        /\ {states[i] : i \in DOMAIN states} = {[of |-> tokens, at |-> p] : p \in places}
        /\ IsPrefix(Spelled(body), Readable(basic_tokenize(text)))
        /\ Len(body) < MAX_SEQ_LEN - 2 => Spelled(body) = Readable(basic_tokenize(text))

LEMMA VectorReads ==
    ASSUME from_vocab, NEW kind \in {"tokens", "texts"}, NEW text, IsWord(text)
    PROVE  Reads(kind, text, Wanted(kind, text).unit)
<1> DEFINE t == encode(text, MAX_SEQ_LEN)
           states == Wanted(kind, text).unit
           body == Tail(Front(t))
           n == Len(t)
<1>1. n \in Nat /\ n >= 2
  BY EncodeIs
<1>2. /\ IsPrefix(Spelled(body), Readable(basic_tokenize(text)))
      /\ Len(body) < MAX_SEQ_LEN - 2 => Spelled(body) = Readable(basic_tokenize(text))
  BY EncodeIs
<1>3. Flat(basic_tokenize(text)) = LettersOf(text)
  BY WordsAreLetters
<1>4. states = IF kind = "tokens" THEN [i \in 1..n |-> StateOf(t, i - 1)] ELSE <<StateOf(t, "text")>>
  BY DEF Wanted, VectorOf
<1> HIDE DEF t, states, n
<1>5. states[1].of = t
  <2>1. states[1] = StateOf(t, 0) \/ states[1] = StateOf(t, "text")
    BY <1>1, <1>4
  <2> QED BY <2>1 DEF StateOf
<1> DEFINE places == IF kind = "tokens" THEN 0..n - 1 ELSE {"text"}
           S == {states[i] : i \in DOMAIN states}
           T == {StateOf(t, p) : p \in places}
<1>6. S = T
  <2>1. CASE kind = "tokens"
    <3>1. DOMAIN states = 1..n /\ \A i \in 1..n : states[i] = StateOf(t, i - 1)
      BY <1>4, <2>1
    <3>2. \A i \in 1..n : i - 1 \in 0..n - 1
      BY <1>1
    <3>3. \A p \in 0..n - 1 : p + 1 \in 1..n /\ (p + 1) - 1 = p
      BY <1>1
    <3>4. \A p \in 0..n - 1 : states[p + 1] = StateOf(t, p)
      BY <3>1, <3>3
    <3>5. places = 0..n - 1
      BY <2>1
    <3> HIDE DEF places
    <3>6. S \subseteq T
      BY <3>1, <3>2, <3>5
    <3>7. T \subseteq S
      BY <3>1, <3>3, <3>4, <3>5
    <3> QED BY <3>6, <3>7
  <2>2. CASE kind # "tokens"
    <3>1. states = <<StateOf(t, "text")>> /\ places = {"text"}
      BY <1>4, <2>2
    <3> QED BY <3>1
  <2> QED BY <2>1, <2>2
<1> HIDE DEF S, T
<1>7. {states[i] : i \in DOMAIN states} = {[of |-> t, at |-> p] : p \in places}
  BY <1>6 DEF S, T, StateOf
<1> HIDE DEF places
<1> QED BY <1>2, <1>3, <1>5, <1>7 DEF Reads, states, places, n

\* The invariant of the way from texts to vectors (Documents.tla).
THEOREM VectorInvariance == Spec => []EInv
<1>1. Init => EInv
  BY InitHasVectors
<1>2. EInv /\ [Next]_vars => EInv'
  BY StepKeepsVectors
<1> QED BY <1>1, <1>2, PTL DEF Spec

\* What a model reads for a vector are the words of its chunk, in order, and nothing of the
\* other texts of the batch or of the padding (VectorsReadTheirChunk; basic_tokenize,
\* wordpiece, encode, pad_batch, pool_output, embed_batch).
THEOREM VectorsOfChunksOnly == Spec => []VectorsReadTheirChunk
<1>1. EInv => VectorsReadTheirChunk
  <2> SUFFICES ASSUME EInv, vectors # <<>>
               PROVE  DOMAIN vectors = DOMAIN chunks /\ \A k \in DOMAIN chunks : ReadsItsChunk(k)
    BY DEF VectorsReadTheirChunk
  <2> DEFINE kind == config.model
             texts == ChunkTexts
  <2>1. from_loaded(kind) /\ vectors = embed_batch(kind, texts)
    BY DEF EInv, VectorsOfChunks
  <2>2. kind \in OutputKinds
    BY ConfigsAssumption DEF EInv, DInv, TypesOk
  <2>3. from_vocab /\ kind \in {"tokens", "texts"}
    BY <2>1, <2>2, LoadedIs
  <2>4. /\ AreTexts(texts) /\ DOMAIN chunks = 1..Len(texts)
        /\ \A k \in DOMAIN chunks : texts[k] = ChunkText(k) /\ IsText(ChunkText(k))
    BY ChunkTextsAre
  <2> HIDE DEF kind, texts
  <2>5. DOMAIN vectors = 1..Len(texts) /\ \A k \in 1..Len(texts) : vectors[k] = Wanted(kind, texts[k])
    BY <2>1, <2>3, <2>4, EmbedBatchIs
  <2>6. ASSUME NEW k \in DOMAIN chunks PROVE ReadsItsChunk(k)
    <3>1. vectors[k].unit = Wanted(kind, ChunkText(k)).unit /\ IsWord(ChunkText(k))
      BY <2>4, <2>5, TextIsWord
    <3>2. Reads(kind, ChunkText(k), vectors[k].unit)
      BY <2>3, <3>1, VectorReads
    <3> QED BY <3>2 DEF Reads, ReadsItsChunk, kind
  <2> QED BY <2>4, <2>5, <2>6
<1> QED BY <1>1, VectorInvariance, PTL

\* A passage is scored by its own tokens and the query's, as much of both as fits, each with
\* its type, and nothing of the other passages (PassagesAreReadAlone; encode_pair,
\* score_batch).
THEOREM PassagesOfPairsOnly == Spec => []PassagesAreReadAlone
<1>1. EInv => PassagesAreReadAlone
  <2> SUFFICES ASSUME EInv, vectors # <<>>
               PROVE  ScoresReadAlone(ChunkTexts, score_batch(ChunkTexts[1], ChunkTexts))
    BY DEF PassagesAreReadAlone, ChunkTexts
  <2> DEFINE texts == ChunkTexts
  <2>1. from_vocab
    BY DEF EInv, VectorsOfChunks, from_loaded
  <2>2. AreTexts(texts)
    BY ChunkTextsAre
  <2> HIDE DEF texts
  <2>3. CASE Len(texts) = 0
    <3>1. DOMAIN texts = {}
      BY <2>2, <2>3 DEF AreTexts
    <3> QED BY <3>1 DEF ScoresReadAlone, texts
  <2>4. CASE Len(texts) # 0
    <3>1. /\ Len(texts) \in Nat \ {0} /\ DOMAIN texts = 1..Len(texts)
          /\ \A k \in 1..Len(texts) : IsWord(texts[k])
      BY <2>2, <2>4 DEF AreTexts
    <3> QED BY <2>1, <3>1, TextsAreReadAlone DEF texts
  <2> QED BY <2>3, <2>4
<1> QED BY <1>1, VectorInvariance, PTL

(***************************************************************************)
(* Sections.                                                               *)
(***************************************************************************)

\* A chunk is of one section: every place in it is under the heading that the chunk names,
\* and no boundary is inside it.
ChunkHasOneSection ==
    \A k \in DOMAIN chunks : \A i \in chunks[k].from..chunks[k].to - 1 :
        /\ section_at(document, i) = chunks[k].section
        /\ i \in Offsets(document) => i = chunks[k].from

\* Where nothing is cut, between two places.
Uncut(from, to) == \A o \in Offsets(document) : o <= from \/ to <= o

\* The starts ahead are in order, and every offset is behind them or one of them.
StartsAhead ==
    /\ \A i, j \in DOMAIN sections : i < j => sections[i] < sections[j]
    /\ sections # <<>> => \A o \in Offsets(document) :
          o <= sections[1] \/ \E j \in 2..Len(sections) : o = sections[j]

ChunksOfSections ==
    /\ IsDocument(document)
    /\ \A k \in DOMAIN chunks : /\ chunks[k].section = section_at(document, chunks[k].from)
                                /\ Uncut(chunks[k].from, chunks[k].to)

SInv == EInv /\ StartsAhead /\ ChunksOfSections
-----------------------------------------------------------------------------
\* Ahead of a document are all its offsets.
LEMMA StartsAre ==
    ASSUME NEW d, IsDocument(d), document' = d, sections' = SectionStarts(d)
    PROVE  StartsAhead'
<1> DEFINE O == {0} \cup Offsets(d)
           n == Cardinality(O)
           s == SectionStarts(d)
<1>1. O \in SUBSET Int /\ \A x \in O : x >= 0
  BY DEF IsDocument
<1>2. IsFiniteSet(O)
  <2>1. O = Offsets(d) \cup {0} /\ IsFiniteSet(Offsets(d))
    BY DEF IsDocument
  <2> HIDE DEF O
  <2> QED BY <2>1, FS_AddElement
<1>3. s = Sorted(O)
  BY DEF SectionStarts
<1>4. Offsets(d) \subseteq O
  OBVIOUS
<1> HIDE DEF O, n, s
<1>5. Rises(O, s)
  BY <1>1, <1>2, <1>3, SortedLists
<1>6. /\ n \in Nat /\ s \in [1..n -> O] /\ \A x \in O : \E k \in 1..n : s[k] = x
      /\ \A i, j \in 1..n : i < j => s[i] < s[j]
  BY <1>5 DEF Rises, n
<1>7. DOMAIN s = 1..n /\ Len(s) = n
  BY <1>6
<1>8. ASSUME NEW o \in Offsets(d) PROVE o <= s[1] \/ \E j \in 2..n : o = s[j]
  <2>1. PICK k \in 1..n : s[k] = o
    BY <1>4, <1>6
  <2>2. k = 1 \/ k \in 2..n
    BY <1>6
  <2>3. CASE k = 1
    <3>1. o \in Int /\ s[1] = o
      BY <1>1, <1>4, <2>1, <2>3
    <3> QED BY <3>1
  <2> QED BY <2>1, <2>2, <2>3
<1>9. sections' = s /\ document' = d
  BY DEF s
<1> QED BY <1>6, <1>7, <1>8, <1>9 DEF StartsAhead

\* No offset is inside of the section that is taken.
LEMMA SectionIsUncut ==
    ASSUME TypesOk, ChunksOfSections, StartsAhead, sections # <<>>
    PROVE  Uncut(sections[1], SectionEnd)
<1> DEFINE n == Len(sections)
<1>1. sections \in Seq(Nat) /\ n \in Nat /\ DOMAIN sections = 1..n
  BY DEF TypesOk
<1>2. ASSUME NEW o \in Offsets(document), ~(o <= sections[1]) PROVE SectionEnd <= o
  <2>1. PICK j \in 2..n : o = sections[j]
    BY <1>2 DEF StartsAhead
  <2>2. n > 1 /\ 2 \in 1..n /\ j \in 1..n
    BY <1>1
  <2>3. SectionEnd = sections[2]
    BY <2>2 DEF SectionEnd
  <2>4. sections[2] \in Nat /\ sections[j] \in Nat
    BY <1>1, <2>2
  <2>5. 2 < j => sections[2] < sections[j]
    BY <1>1, <2>2 DEF StartsAhead
  <2>6. j = 2 => sections[2] = sections[j]
    OBVIOUS
  <2>7. j = 2 \/ 2 < j
    BY <1>1
  <2> QED BY <2>1, <2>3, <2>4, <2>5, <2>6, <2>7
<1> QED BY <1>2 DEF Uncut

\* The starts that are left when a section is done.
LEMMA StartsLeft ==
    ASSUME TypesOk, StartsAhead, ChunksOfSections, sections # <<>>, sections' = Tail(sections),
           document' = document
    PROVE  StartsAhead'
<1> DEFINE n == Len(sections)
           t == Tail(sections)
<1>1. sections \in Seq(Nat) /\ n \in Nat /\ n # 0 /\ DOMAIN sections = 1..n
  BY NotEmpty DEF TypesOk
<1>2. t \in Seq(Nat) /\ Len(t) = n - 1 /\ \A i \in 1..n - 1 : t[i] = sections[i + 1]
  BY <1>1, HeadTailProperties
<1> HIDE DEF t, n
<1>3. DOMAIN t = 1..n - 1
  BY <1>2
<1>4. ASSUME NEW i \in 1..n - 1, NEW j \in 1..n - 1, i < j PROVE t[i] < t[j]
  <2> DEFINE x == i + 1
             y == j + 1
  <2>1. x \in 1..n /\ y \in 1..n /\ x < y
    BY <1>1, <1>4
  <2>2. t[i] = sections[x] /\ t[j] = sections[y]
    BY <1>2
  <2> HIDE DEF x, y
  <2> QED BY <1>1, <2>1, <2>2 DEF StartsAhead
<1>5. ASSUME t # <<>>, NEW o \in Offsets(document)
      PROVE  o <= t[1] \/ \E j \in 2..n - 1 : o = t[j]
  <2>1. 1 \in 1..n - 1 /\ 2 \in 1..n /\ 1 \in 1..n
    <3>1. n - 1 # 0
      BY <1>2, <1>5
    <3> QED BY <1>1, <3>1
  <2>2. t[1] = sections[2] /\ sections[2] \in Nat /\ sections[1] \in Nat
    <3>1. t[1] = sections[1 + 1] /\ 1 + 1 = 2
      BY <1>2, <2>1
    <3>2. t[1] = sections[2]
      BY <3>1
    <3> QED BY <1>1, <2>1, <3>2
  <2>3. sections[1] < sections[2] /\ o \in Nat
    BY <1>1, <2>1 DEF StartsAhead, ChunksOfSections, IsDocument
  <2>4. CASE o <= sections[1]
    BY <2>2, <2>3, <2>4
  <2>5. CASE \E j \in 2..n : o = sections[j]
    <3>1. PICK j \in 2..n : o = sections[j]
      BY <2>5
    <3>2. CASE j = 2
      BY <2>2, <2>3, <3>1, <3>2
    <3>3. CASE j # 2
      <4> DEFINE i == j - 1
      <4>1. i \in 2..n - 1 /\ i \in 1..n - 1 /\ i + 1 = j
        BY <1>1, <3>3
      <4>2. t[i] = sections[j]
        BY <1>2, <4>1
      <4> QED BY <3>1, <4>1, <4>2
    <3> QED BY <3>2, <3>3
  <2>6. sections # <<>>
    OBVIOUS
  <2> QED BY <2>4, <2>5, <2>6 DEF StartsAhead, n
<1>6. sections' = t
  BY DEF t
<1>7. \A i, j \in DOMAIN t : i < j => t[i] < t[j]
  BY <1>3, <1>4
<1>8. t # <<>> => \A o \in Offsets(document) : o <= t[1] \/ \E j \in 2..Len(t) : o = t[j]
  <2>1. Len(t) = n - 1
    BY <1>2
  <2> QED BY <1>5, <2>1
<1>9. Offsets(document') = Offsets(document)
  OBVIOUS
<1> QED BY <1>6, <1>7, <1>8, <1>9 DEF StartsAhead

LEMMA ChunkOfSection ==
    ASSUME IsList(chunks), ChunksOfSections, document' = document, NEW c, chunks' = Append(chunks, c),
           c.section = section_at(document, c.from), Uncut(c.from, c.to)
    PROVE  ChunksOfSections'
<1>1. /\ Len(chunks) \in Nat /\ DOMAIN chunks = 1..Len(chunks)
      /\ DOMAIN chunks' = 1..Len(chunks) + 1 /\ chunks'[Len(chunks) + 1] = c
      /\ \A k \in 1..Len(chunks) : chunks'[k] = chunks[k]
  BY ListGrows
<1>2. ASSUME NEW k \in DOMAIN chunks'
      PROVE  /\ chunks'[k].section = section_at(document, chunks'[k].from)
             /\ Uncut(chunks'[k].from, chunks'[k].to)
  <2>1. k = Len(chunks) + 1 \/ k \in DOMAIN chunks
    BY <1>1
  <2>2. CASE k \in DOMAIN chunks
    <3>1. chunks'[k] = chunks[k]
      BY <1>1, <2>2
    <3> QED BY <2>2, <3>1 DEF ChunksOfSections
  <2>3. CASE k = Len(chunks) + 1
    BY <1>1, <2>3
  <2> QED BY <2>1, <2>2, <2>3
<1> QED BY <1>2 DEF ChunksOfSections, Uncut

LEMMA SectionsStay ==
    ASSUME StartsAhead, ChunksOfSections, UNCHANGED <<document, sections, chunks>>
    PROVE  StartsAhead' /\ ChunksOfSections'
BY DEF StartsAhead, ChunksOfSections, Uncut

LEMMA NewDocument ==
    ASSUME NEW d, IsDocument(d), Chunking(d)
    PROVE  StartsAhead' /\ ChunksOfSections'
<1>1. document' = d /\ sections' = SectionStarts(d) /\ chunks' = <<>>
  BY DEF Chunking
<1> QED BY <1>1, StartsAre DEF ChunksOfSections

LEMMA CallsKeepSections ==
    ASSUME SInv, Fails \/ HasNoText \/ Parses \/ Plan \/ AddText
    PROVE  StartsAhead' /\ ChunksOfSections'
<1>1. todo # <<>> /\ StartsAhead /\ ChunksOfSections
  BY DEF Fails, HasNoText, Parses, Plan, AddText, AddsFile, Call, SInv
<1>2. HasItsTypes(todo[1])
  BY <1>1, NextCall DEF SInv, EInv, DInv
<1>3. ASSUME NEW outcome, Answered(outcome, vectors) PROVE StartsAhead' /\ ChunksOfSections'
  BY <1>1, <1>3, SectionsStay DEF Answered
<1>4. CASE Fails
  BY <1>3, <1>4 DEF Fails
<1>5. CASE HasNoText
  BY <1>3, <1>5 DEF HasNoText
<1>6. CASE Parses
  <2> DEFINE d == Parsed(Format(todo[1]), todo[1].body)
  <2>1. todo[1].call \in {"add_document", "add_directory"} /\ ParseError(todo[1]) = "none" /\ Chunking(d)
    BY <1>6 DEF Parses, AddsFile, Call
  <2>2. IsDocument(d)
    BY <1>2, <2>1 DEF HasItsTypes
  <2> QED BY <2>1, <2>2, NewDocument
<1>7. CASE Plan
  <2> DEFINE d == parse_content(todo[1].ext, todo[1].body)
  <2>1. CASE todo[1].ext \in PageKinds /\ ~IsBlank(d.text)
    <3>1. Chunking(d)
      BY <1>7, <2>1 DEF Plan
    <3>2. IsDocument(d)
      BY <1>2, <1>7, <2>1 DEF HasItsTypes, Plan, Call
    <3> QED BY <3>1, <3>2, NewDocument
  <2>2. CASE ~(todo[1].ext \in PageKinds /\ ~IsBlank(d.text))
    <3>1. Answered("UnsupportedFormat", vectors) \/ Answered("EmptyDocument", vectors)
      BY <1>7, <2>2 DEF Plan
    <3> QED BY <1>3, <3>1
  <2> QED BY <2>1, <2>2
<1>8. CASE AddText
  <2>1. IsText(todo[1].body)
    BY <1>2, <1>8 DEF HasItsTypes, AddText, Call
  <2>2. Answered("added", vectors) \/ Chunking(Plain(todo[1].body))
    BY <1>8 DEF AddText
  <2> QED BY <1>3, <2>1, <2>2, PlainIsDocument, NewDocument
<1> QED BY <1>4, <1>5, <1>6, <1>7, <1>8

LEMMA SemanticHasNoSections == ASSUME SInv, Semantic PROVE StartsAhead' /\ ChunksOfSections'
<1> DEFINE text == todo[1].body
           r == SemanticChunks(text, config.min_chunk_size)
<1>1. todo # <<>> /\ todo[1].call = "semantic"
  BY DEF Semantic, Call
<1>2. IsText(text)
  BY <1>1, NextCall DEF SInv, EInv, DInv, HasItsTypes
<1>3. /\ document' = Plain(text) /\ sections' = <<>>
      /\ chunks' = [k \in DOMAIN r |-> [from |-> r[k][1], to |-> r[k][2], section |-> NoSection]]
  BY DEF Semantic
<1> HIDE DEF text, r
<1>4. IsDocument(Plain(text)) /\ Offsets(Plain(text)) = {}
  BY <1>2, PlainIsDocument DEF Plain, Document, Offsets
<1>5. \A at : section_at(Plain(text), at) = NoSection
  BY DEF section_at, Plain, Document
<1>6. ASSUME NEW k \in DOMAIN chunks' PROVE chunks'[k].section = NoSection
  BY <1>3
<1>7. ChunksOfSections'
  BY <1>3, <1>4, <1>5, <1>6 DEF ChunksOfSections, Uncut
<1>8. StartsAhead'
  BY <1>3 DEF StartsAhead
<1> QED BY <1>7, <1>8

LEMMA WholeSectionIsOne == ASSUME SInv, WholeSection PROVE StartsAhead' /\ ChunksOfSections'
<1> DEFINE c == Chunk(sections[1], SectionEnd)
<1>1. TypesOk /\ sections # <<>> /\ StartsAhead /\ ChunksOfSections /\ IsList(chunks)
  BY DEF SInv, EInv, DInv, TypesOk, WholeSection, TakesSection
<1>2. document' = document /\ sections' = Tail(sections) /\ (chunks' = chunks \/ chunks' = Append(chunks, c))
  BY DEF WholeSection
<1>3. c.section = section_at(document, c.from) /\ Uncut(c.from, c.to)
  <2>1. Uncut(sections[1], SectionEnd)
    BY <1>1, SectionIsUncut
  <2> QED BY <2>1 DEF Chunk
<1> HIDE DEF c
<1>4. StartsAhead'
  BY <1>1, <1>2, StartsLeft
<1>5. CASE chunks' = chunks
  BY <1>1, <1>2, <1>4, <1>5 DEF ChunksOfSections, Uncut
<1>6. CASE chunks' = Append(chunks, c)
  BY <1>1, <1>2, <1>3, <1>4, <1>6, ChunkOfSection
<1> QED BY <1>2, <1>5, <1>6

LEMMA WindowIsOfOne == ASSUME SInv, Window PROVE StartsAhead' /\ ChunksOfSections'
<1> DEFINE a    == sections[1]
           n    == Len(Spans)
           last == WindowEnd
           from == Spans[start + 1][1]
           to   == Spans[last][2]
           c    == Chunk(a + from, a + to)
<1>1. /\ TypesOk /\ pc = "window" /\ sections # <<>> /\ InText /\ start < n /\ IsList(chunks)
      /\ StartsAhead /\ ChunksOfSections
  BY DEF SInv, EInv, DInv, TypesOk, Progress, Window
<1>2. /\ Words(Section, Spans) /\ a \in Nat /\ SectionEnd \in Nat /\ Len(Section) = SectionEnd - a
  BY <1>1, SectionIs
<1>3. n \in Nat /\ last \in start + 1..n /\ start \in Nat
  BY <1>1, WindowIs DEF TypesOk
<1>4. start + 1 \in 1..n /\ last \in 1..n
  BY <1>1, <1>3
<1>5. from \in Nat /\ to \in Nat /\ to <= Len(Section)
  BY <1>2, <1>4, WordOf
<1>6. /\ chunks' = Append(chunks, c) /\ document' = document
      /\ sections' = Tail(sections) \/ sections' = sections
  BY DEF Window
<1>7. c.from = a + from /\ c.to = a + to /\ c.section = section_at(document, c.from)
  BY DEF Chunk
<1>8. Uncut(a, SectionEnd) /\ Offsets(document) \subseteq Nat
  BY <1>1, SectionIsUncut DEF ChunksOfSections, IsDocument
<1> HIDE DEF n, last, from, to, c
<1>9. Uncut(c.from, c.to)
  <2> SUFFICES ASSUME NEW o \in Offsets(document) PROVE o <= a + from \/ a + to <= o
    BY <1>7 DEF Uncut
  <2>1. o <= a \/ SectionEnd <= o
    BY <1>8 DEF Uncut
  <2>2. o \in Nat
    BY <1>8
  <2> HIDE DEF a
  <2> QED BY <1>2, <1>5, <2>1, <2>2
<1>10. ChunksOfSections'
  BY <1>1, <1>6, <1>7, <1>9, ChunkOfSection
<1>11. StartsAhead'
  <2>1. CASE sections' = Tail(sections)
    BY <1>1, <1>6, <2>1, StartsLeft
  <2>2. CASE sections' = sections
    BY <1>1, <1>6, <2>2 DEF StartsAhead
  <2> QED BY <1>6, <2>1, <2>2
<1> QED BY <1>10, <1>11

LEMMA InitHasSections == Init => SInv
<1> SUFFICES ASSUME Init PROVE SInv
  OBVIOUS
<1>1. EInv
  BY InitHasVectors
<1>2. IsDocument(document)
  <2>1. IsText(<<>>)
    BY DEF IsText
  <2> QED BY <2>1, PlainIsDocument DEF Init
<1> QED BY <1>1, <1>2 DEF SInv, StartsAhead, ChunksOfSections, Init

LEMMA StepKeepsSections == ASSUME SInv, [Next]_vars PROVE SInv'
<1>1. EInv' /\ StartsAhead /\ ChunksOfSections
  BY StepKeepsVectors DEF SInv
<1> SUFFICES StartsAhead' /\ ChunksOfSections'
  BY <1>1 DEF SInv
<1>2. CASE Fails \/ HasNoText \/ Parses \/ Plan \/ AddText
  BY <1>2, CallsKeepSections
<1>3. CASE Semantic
  BY <1>3, SemanticHasNoSections
<1>4. CASE WholeSection
  BY <1>4, WholeSectionIsOne
<1>5. CASE Window
  BY <1>5, WindowIsOfOne
<1>6. CASE Open \/ Panics \/ SplitSection \/ Ingest \/ HandOver \/ Ended \/ UNCHANGED vars
  <2>1. UNCHANGED <<document, sections, chunks>>
    BY <1>6 DEF Open, Panics, SplitSection, Ingest, HandOver, Ended, Answered, vars
  <2> QED BY <1>1, <2>1, SectionsStay
<1> QED BY <1>2, <1>3, <1>4, <1>5, <1>6 DEF Next

\* Between the offsets of two headings the section is the same.
LEMMA SectionIsKept ==
    ASSUME IsDocument(document), NEW from \in Nat, NEW to \in Nat, Uncut(from, to), NEW i \in from..to - 1
    PROVE  /\ section_at(document, i) = section_at(document, from)
           /\ i \in Offsets(document) => i = from
<1>1. i \in Nat /\ from <= i /\ i < to
  OBVIOUS
<1>2. ASSUME NEW o \in Offsets(document) PROVE o \in Nat /\ (o <= i <=> o <= from)
  <2>1. o \in Nat /\ (o <= from \/ to <= o)
    BY DEF IsDocument, Uncut
  <2> QED BY <1>1, <2>1
<1>3. \A h \in DOMAIN document.headings : document.headings[h].offset \in Offsets(document)
  BY DEF Offsets
<1>4. {h \in DOMAIN document.headings : document.headings[h].offset <= i}
        = {h \in DOMAIN document.headings : document.headings[h].offset <= from}
  BY <1>2, <1>3
<1>5. section_at(document, i) = section_at(document, from)
  BY <1>4 DEF section_at
<1>6. i \in Offsets(document) => i = from
  BY <1>1, <1>2
<1> QED BY <1>5, <1>6

\* A chunk has text of one section only: no heading, page or edge of a code block is inside
\* it, and all of it is in the section it names (chunk_document, section_at).
THEOREM OneSection == Spec => []ChunkHasOneSection
<1>1. Init => SInv
  BY InitHasSections
<1>2. SInv /\ [Next]_vars => SInv'
  BY StepKeepsSections
<1>3. SInv => ChunkHasOneSection
  <2> SUFFICES ASSUME SInv, NEW k \in DOMAIN chunks, NEW i \in chunks[k].from..chunks[k].to - 1
               PROVE  /\ section_at(document, i) = chunks[k].section
                      /\ i \in Offsets(document) => i = chunks[k].from
    BY DEF ChunkHasOneSection
  <2> DEFINE from == chunks[k].from
             to == chunks[k].to
  <2>1. /\ chunks[k].section = section_at(document, from) /\ Uncut(from, to) /\ IsDocument(document)
    BY DEF SInv, ChunksOfSections
  <2>2. from \in Nat /\ to \in Nat
    <3>1. from \in Nat /\ to \in 0..Len(document.text)
      BY DEF SInv, EInv, ChunksOfText
    <3> QED BY <3>1
  <2>3. i \in from..to - 1
    OBVIOUS
  <2> HIDE DEF from, to
  <2>4. section_at(document, i) = section_at(document, from) /\ (i \in Offsets(document) => i = from)
    BY <2>1, <2>2, <2>3, SectionIsKept
  <2> QED BY <2>1, <2>4 DEF from
<1> QED BY <1>1, <1>2, <1>3, PTL DEF Spec
=============================================================================
