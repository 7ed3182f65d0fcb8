------------------------- MODULE LookupTableProofs --------------------------
(* The word index finds what it should, for every list of names, every      *)
(* query and every set of characters: what the loops that divide names and  *)
(* queries take, what lower_bound and the loop behind it reach, what is     *)
(* reduced and intersected.                                                 *)
EXTENDS LookupTable, CollectionProofs, SequenceTheorems

Text == Seq(Char)
-----------------------------------------------------------------------------
(* The loop that takes pieces, and what it has taken from a position on.    *)
PieceStep(piece, next, g, i) ==
  <<piece[i]>> \o (IF next[i] \in DOMAIN piece THEN g[next[i]] ELSE <<>>)

PiecesFrom(piece, next) ==
  CHOOSE g : g = [i \in DOMAIN piece |-> PieceStep(piece, next, g, i)]

(* The loop goes forward, so there is a function that says what it takes,   *)
(* built up from the end.                                                   *)
LEMMA PiecesFromExists ==
  ASSUME NEW n \in Nat, NEW piece, DOMAIN piece = 1 .. n,
         NEW next \in [1 .. n -> Nat], \A i \in 1 .. n : i < next[i]
  PROVE  \A i \in 1 .. n :
           PiecesFrom(piece, next)[i]
             = PieceStep(piece, next, PiecesFrom(piece, next), i)
<1> DEFINE Takes(g, d) ==
             g = [i \in n - d + 1 .. n |-> PieceStep(piece, next, g, i)]
           Bad == {d \in 0 .. n : ~ \E g : Takes(g, d)}
<1>1. ASSUME Bad # {} PROVE FALSE
  <2> DEFINE m == Min(Bad)
  <2>1. m \in Bad /\ \A d \in Bad : m <= d
    <3>1. Bad \in SUBSET Nat
      OBVIOUS
    <3> QED
      BY <1>1, <3>1, MinFound
  <2>2. m \in 0 .. n /\ ~ \E g : Takes(g, m)
    BY <2>1
  <2> HIDE DEF m
  <2>3. ASSUME m # 0 PROVE \E g : Takes(g, m - 1)
    <3>1. m - 1 \in 0 .. n /\ ~ (m <= m - 1)
      BY <2>2, <2>3
    <3>2. m - 1 \notin Bad
      BY <2>1, <3>1
    <3> QED
      BY <3>1, <3>2
  <2>4. CASE m = 0
    <3> DEFINE g == [i \in n - 0 + 1 .. n |-> <<>>]
    <3>1. n - 0 + 1 .. n = {}
      OBVIOUS
    <3>2. g = [i \in n - 0 + 1 .. n |-> PieceStep(piece, next, g, i)]
      BY <3>1
    <3> QED
      BY <2>2, <2>4, <3>2
  <2>5. CASE m # 0
    <3>1. PICK h : Takes(h, m - 1)
      BY <2>3, <2>5
    <3> DEFINE b == n - m + 1
               g == [i \in b .. n |-> PieceStep(piece, next, h, i)]
    <3>2. b \in 1 .. n /\ n - (m - 1) + 1 = b + 1
      BY <2>2, <2>5
    <3>3. h = [i \in b + 1 .. n |-> PieceStep(piece, next, h, i)]
      BY <3>1, <3>2
    <3> HIDE DEF b
    <3>4. \A i \in b + 1 .. n : i \in b .. n /\ g[i] = h[i]
      BY <3>2, <3>3
    <3>5. ASSUME NEW i \in b .. n
          PROVE  PieceStep(piece, next, h, i) = PieceStep(piece, next, g, i)
      <4>1. i \in 1 .. n /\ i < next[i] /\ next[i] \in Nat
        BY <3>2
      <4>2. CASE next[i] \in 1 .. n
        <5>1. next[i] \in b + 1 .. n
          BY <3>2, <4>1, <4>2
        <5>2. g[next[i]] = h[next[i]]
          BY <3>4, <5>1
        <5> HIDE DEF g
        <5> QED
          BY <5>2 DEF PieceStep
      <4>3. CASE next[i] \notin 1 .. n
        BY <4>3 DEF PieceStep
      <4> QED
        BY <4>2, <4>3
    <3>6. g = [i \in b .. n |-> PieceStep(piece, next, g, i)]
      BY <3>5
    <3> QED
      BY <2>2, <3>6 DEF b
  <2> QED
    BY <2>4, <2>5
<1>2. PICK g : Takes(g, n)
  <2> HIDE DEF Takes
  <2>1. n \in 0 .. n
    OBVIOUS
  <2> QED
    BY <1>1, <2>1
<1>3. n - n + 1 = 1
  OBVIOUS
<1>4. g = [i \in DOMAIN piece |-> PieceStep(piece, next, g, i)]
  BY <1>2, <1>3
<1> DEFINE k == PiecesFrom(piece, next)
<1>5. k = [i \in DOMAIN piece |-> PieceStep(piece, next, k, i)]
  BY <1>4 DEF PiecesFrom
<1> HIDE DEF k
<1>6. \A i \in 1 .. n : k[i] = PieceStep(piece, next, k, i)
  BY <1>5
<1> QED
  BY <1>6 DEF k

(* The positions the loop visits: the first one, and where it goes on.      *)
Closed(next, n, Q) ==
  /\ Q \in SUBSET (1 .. n) /\ 1 \in Q
  /\ \A i \in Q : next[i] \in 1 .. n => next[i] \in Q

Visited(next, n) == {i \in 1 .. n : \A Q : Closed(next, n, Q) => i \in Q}

(* They are the least set of positions the loop does not leave.             *)
LEMMA VisitedClosed ==
  ASSUME NEW n \in Nat \ {0}, NEW next \in [1 .. n -> Nat]
  PROVE  /\ Closed(next, n, Visited(next, n))
         /\ \A Q : Closed(next, n, Q) => Visited(next, n) \in SUBSET Q
BY DEF Closed, Visited

(* The pieces that are taken are those at the visited positions.            *)
LEMMA PiecesAre ==
  ASSUME NEW n \in Nat \ {0}, NEW piece \in [1 .. n -> Text],
         NEW next \in [1 .. n -> Nat], \A i \in 1 .. n : i < next[i]
  PROVE  /\ Pieces(piece, next) \in Seq(Text) /\ Pieces(piece, next) # <<>>
         /\ \A p : p \in ToSet(Pieces(piece, next))
                     <=> \E i \in Visited(next, n) : p = piece[i]
<1> DEFINE k == PiecesFrom(piece, next)
           V == Visited(next, n)
<1>1. DOMAIN piece = 1 .. n /\ 1 \in 1 .. n
  OBVIOUS
<1>2. \A i \in 1 .. n : k[i] = PieceStep(piece, next, k, i)
  BY <1>1, PiecesFromExists
<1>3. Pieces(piece, next) = k[1]
  BY DEF Pieces, PiecesFrom, PieceStep
<1>4. Closed(next, n, V) /\ \A Q : Closed(next, n, Q) => V \in SUBSET Q
  BY VisitedClosed
<1> HIDE DEF k, V
<1> DEFINE Good(i) == /\ k[i] \in Seq(Text) /\ k[i] # <<>> /\ piece[i] \in ToSet(k[i])
                      /\ next[i] \in 1 .. n => ToSet(k[next[i]]) \in SUBSET ToSet(k[i])
                      /\ i \in V => ToSet(k[i]) \in SUBSET {piece[j] : j \in V}
           Bad == {i \in 1 .. n : ~ Good(i)}
<1>5. ASSUME NEW i \in 1 .. n, next[i] \in 1 .. n => Good(next[i])
      PROVE  Good(i)
  <2>1. piece[i] \in Text
    OBVIOUS
  <2>2. <<piece[i]>> \in Seq(Text) /\ ToSet(<<piece[i]>>) = {piece[i]}
    BY <2>1 DEF ToSet
  <2>3. CASE next[i] \in 1 .. n
    <3>1. k[i] = <<piece[i]>> \o k[next[i]] /\ k[next[i]] \in Seq(Text)
      BY <1>1, <1>2, <1>5, <2>3 DEF PieceStep
    <3> DEFINE one == <<piece[i]>>
               rest == k[next[i]]
    <3>5. /\ one \in Seq(Text) /\ ToSet(one) = {piece[i]}
          /\ rest \in Seq(Text) /\ k[i] = one \o rest
      BY <2>2, <3>1
    <3> HIDE DEF one
    <3>2. ToSet(k[i]) = {piece[i]} \cup ToSet(k[next[i]])
      BY <3>5, ConcatSet
    <3>3. k[i] \in Seq(Text) /\ k[i] # <<>>
      <4>1. k[i] \in Seq(Text)
        BY <3>5
      <4>2. piece[i] \in ToSet(k[i])
        BY <3>2
      <4>3. k[i] # <<>>
        BY <4>2 DEF ToSet
      <4> QED
        BY <4>1, <4>3
    <3>4. i \in V => next[i] \in V
      BY <1>4, <2>3 DEF Closed
    <3> QED
      BY <1>5, <2>3, <3>2, <3>3, <3>4
  <2>4. CASE next[i] \notin 1 .. n
    <3>1. k[i] = <<piece[i]>> \o <<>>
      BY <1>1, <1>2, <2>4 DEF PieceStep
    <3>2. k[i] = <<piece[i]>>
      BY <2>2, <3>1
    <3> QED
      BY <2>2, <2>4, <3>2
  <2> QED
    BY <2>3, <2>4
<1> HIDE DEF Good
<1>6. ASSUME Bad # {} PROVE FALSE
  <2>1. PICK m \in Bad : \A i \in Bad : i <= m
    <3>1. Bad \in SUBSET (0 .. n)
      OBVIOUS
    <3> QED
      BY <1>6, <3>1, MaxFound
  <2>2. m \in 1 .. n /\ ~ Good(m)
    BY <2>1
  <2>3. next[m] \in 1 .. n => Good(next[m])
    <3>1. m < next[m] /\ next[m] \in Nat
      BY <2>2
    <3>2. ~ (next[m] <= m)
      BY <2>2, <3>1
    <3> QED
      BY <2>1, <3>2
  <2> QED
    BY <1>5, <2>2, <2>3
<1>7. \A i \in 1 .. n : Good(i)
  BY <1>6
<1>8. ToSet(k[1]) \in SUBSET {piece[i] : i \in V}
  BY <1>1, <1>4, <1>7 DEF Good, Closed
<1>9. ASSUME NEW i \in V PROVE piece[i] \in ToSet(k[1])
  <2> DEFINE Q == {j \in 1 .. n : ToSet(k[j]) \in SUBSET ToSet(k[1])}
  <2>1. Closed(next, n, Q)
    BY <1>1, <1>7 DEF Good, Closed
  <2>2. i \in Q /\ i \in 1 .. n
    BY <1>4, <2>1
  <2> QED
    BY <1>7, <2>2 DEF Good
<1>10. \A p : p \in ToSet(k[1]) <=> \E i \in V : p = piece[i]
  BY <1>8, <1>9
<1>11. k[1] \in Seq(Text) /\ k[1] # <<>>
  BY <1>1, <1>7 DEF Good
<1> QED
  BY <1>3, <1>10, <1>11 DEF V
-----------------------------------------------------------------------------
(* The characters of a text are codes.                                      *)
LEMMA CodesOf ==
  ASSUME NEW text \in Text
  PROVE  /\ Len(text) \in Nat /\ DOMAIN text = 1 .. Len(text)
         /\ \A k \in 1 .. Len(text) : text[k] \in Char /\ text[k] \in Nat
<1>1. /\ Len(text) \in Nat /\ DOMAIN text = 1 .. Len(text)
      /\ \A k \in 1 .. Len(text) : text[k] \in Char
  BY DEF Text
<1>2. \A c \in Char : c \in Nat
  BY CharAssumption
<1> QED
  BY <1>1, <1>2

(* What lies between two positions of a text.                               *)
LEMMA BetweenIs ==
  ASSUME NEW text \in Text, NEW a \in 1 .. Len(text) + 1,
         NEW b \in a .. Len(text) + 1
  PROVE  /\ SubSeq(text, a, b - 1) \in Text
         /\ Len(SubSeq(text, a, b - 1)) = b - a
         /\ \A i \in 1 .. b - a : SubSeq(text, a, b - 1)[i] = text[a + i - 1]
<1> DEFINE c == b - 1
           n == Len(text)
<1>1. n \in Nat /\ \A i \in 1 .. n : text[i] \in Char
  BY DEF Text
<1>2. a \in 1 .. n + 1 /\ b \in a .. n + 1
  OBVIOUS
<1> HIDE DEF n
<1>3. c \in Int /\ a \in Int /\ \A i \in a .. c : text[i] \in Char
  BY <1>1, <1>2
<1>4. /\ SubSeq(text, a, c) \in Seq(Char)
      /\ Len(SubSeq(text, a, c)) = IF a <= c THEN c - a + 1 ELSE 0
      /\ \A i \in 1 .. c - a + 1 : SubSeq(text, a, c)[i] = text[a + i - 1]
  <2> HIDE DEF c
  <2> QED
    BY <1>3, SubSeqProperties
<1> DEFINE part == SubSeq(text, a, c)
<1> HIDE DEF part
<1>5. /\ part \in Text /\ Len(part) = b - a
      /\ \A i \in 1 .. b - a : part[i] = text[a + i - 1]
  BY <1>1, <1>2, <1>4 DEF part, Text
<1> QED
  BY <1>5 DEF part

(* The search for a character stops at the first one, or behind the text.   *)
LEMMA FirstFromFound ==
  ASSUME NEW text \in Text, NEW p \in 1 .. Len(text) + 1, NEW chars
  PROVE  LET e == FirstFrom(text, p, chars)
         IN  /\ e \in p .. Len(text) + 1
             /\ \A k \in p .. e - 1 : text[k] \notin chars
             /\ e <= Len(text) => text[e] \in chars
<1> DEFINE n == Len(text)
           I == {i \in p .. n : text[i] \in chars}
           e == FirstFrom(text, p, chars)
<1>1. n \in Nat /\ p \in 1 .. n + 1
  BY DEF Text
<1>2. e = LET k == IF I # {} THEN Min(I) ELSE 0
          IN  IF k = 0 THEN n + 1 ELSE k
  BY DEF FirstFrom, SelectInSubSeq
<1> HIDE DEF e, n
<1> DEFINE Goal ==
             /\ e \in p .. n + 1
             /\ \A k \in p .. e - 1 : text[k] \notin chars
             /\ e <= n => text[e] \in chars
<1>3. ASSUME I = {} PROVE Goal
  <2>1. e = n + 1
    BY <1>2, <1>3
  <2>2. \A k \in p .. n : text[k] \notin chars
    BY <1>3
  <2>3. e - 1 = n /\ ~ (e <= n)
    BY <1>1, <2>1
  <2> QED
    BY <1>1, <2>1, <2>2, <2>3
<1>4. ASSUME I # {} PROVE Goal
  <2>1. I \in SUBSET Nat
    BY <1>1
  <2>2. Min(I) \in I /\ \A x \in I : Min(I) <= x
    BY <1>4, <2>1, MinFound
  <2> HIDE DEF I
  <2>3. Min(I) # 0 /\ Min(I) \in p .. n
    BY <1>1, <2>2 DEF I
  <2>4. e = Min(I)
    BY <1>2, <1>4, <2>3
  <2>5. ASSUME NEW k \in p .. e - 1 PROVE text[k] \notin chars
    <3>1. k \in p .. n /\ ~ (e <= k)
      BY <1>1, <2>3, <2>4
    <3>2. k \notin I
      BY <2>2, <2>4, <3>1
    <3> QED
      BY <3>1, <3>2 DEF I
  <2>6. e \in p .. n + 1 /\ text[e] \in chars
    <3>1. text[Min(I)] \in chars
      BY <2>2 DEF I
    <3> QED
      BY <1>1, <2>3, <2>4, <3>1
  <2> QED
    BY <2>5, <2>6
<1>5. Goal
  <2> HIDE DEF I, Goal
  <2> QED
    BY <1>3, <1>4
<1> QED
  BY <1>5 DEF e, n
-----------------------------------------------------------------------------
(* A prefix, character by character.                                        *)
LEMMA PrefixAt ==
  ASSUME NEW s \in Text, NEW t \in Text
  PROVE  IsPrefix(s, t)
           <=> Len(s) <= Len(t) /\ \A k \in 1 .. Len(s) : s[k] = t[k]
<1> DEFINE m == Len(s)
           n == Len(t)
<1>1. m \in Nat /\ n \in Nat
  BY DEF Text
<1>2. IsPrefix(s, t) <=> m <= n /\ SubSeq(s, 1, m) = SubSeq(t, 1, m)
  BY DEF IsPrefix
<1>3. ASSUME m <= n
      PROVE  SubSeq(s, 1, m) = SubSeq(t, 1, m)
               <=> \A k \in 1 .. m : s[k] = t[k]
  <2> DEFINE b == m + 1
             u == SubSeq(s, 1, b - 1)
             v == SubSeq(t, 1, b - 1)
  <2>1. /\ 1 \in 1 .. Len(s) + 1 /\ b \in 1 .. Len(s) + 1
        /\ 1 \in 1 .. Len(t) + 1 /\ b \in 1 .. Len(t) + 1
    BY <1>1, <1>3
  <2>2. b - 1 = m
    BY <1>1
  <2> HIDE DEF b, u, v
  <2>3. /\ u \in Text /\ Len(u) = m /\ \A i \in 1 .. m : u[i] = s[1 + i - 1]
        /\ v \in Text /\ Len(v) = m /\ \A i \in 1 .. m : v[i] = t[1 + i - 1]
    BY <2>1, <2>2, BetweenIs DEF u, v
  <2>4. \A i \in 1 .. m : 1 + i - 1 = i
    BY <1>1
  <2>5. \A i \in 1 .. m : u[i] = s[i] /\ v[i] = t[i]
    BY <2>3, <2>4
  <2> HIDE DEF m
  <2>6. (\A i \in 1 .. m : u[i] = v[i]) => u = v
    BY <2>3, SeqEqual DEF Text
  <2>7. u = v <=> \A k \in 1 .. m : s[k] = t[k]
    BY <2>5, <2>6
  <2>8. u = SubSeq(s, 1, m) /\ v = SubSeq(t, 1, m)
    BY <2>2 DEF u, v
  <2> QED
    BY <2>7, <2>8
<1> QED
  BY <1>2, <1>3

(* The words from lower_bound on that are reached before one that does not  *)
(* start with the keyword are those that start with it: in the order of the *)
(* map they are together, and lower_bound finds the first.                  *)
LEMMA RangeIsExact ==
  ASSUME NEW table, DOMAIN table \in SUBSET Text, NEW keyword \in Text
  PROVE  MatchingWords(table, keyword)
           = {w \in DOMAIN table : IsPrefix(keyword, w)}
<1>1. ASSUME NEW w \in DOMAIN table, IsPrefix(keyword, w)
      PROVE  ~ LessThan(w, keyword)
  <2> DEFINE m == Len(keyword)
             n == Len(w)
  <2>1. w \in Text
    OBVIOUS
  <2>2. /\ m \in Nat /\ n \in Nat /\ DOMAIN keyword = 1 .. m /\ DOMAIN w = 1 .. n
        /\ \A k \in 1 .. m : keyword[k] \in Nat
    BY <2>1, CodesOf
  <2>3. m <= n /\ \A k \in 1 .. m : keyword[k] = w[k]
    BY <1>1, <2>1, PrefixAt
  <2>4. ~ IsStrictPrefix(w, keyword)
    <3>1. ASSUME IsStrictPrefix(w, keyword) PROVE FALSE
      <4>1. n <= m /\ w # keyword
        BY <2>1, <3>1, PrefixAt DEF IsStrictPrefix
      <4>2. m = n
        <5>1. m \in Nat /\ n \in Nat /\ m <= n /\ n <= m
          BY <2>2, <2>3, <4>1
        <5> HIDE DEF m, n
        <5> QED
          BY <5>1
      <4>3. w = keyword
        BY <2>1, <2>2, <2>3, <4>2, SeqEqual DEF Text
      <4> QED
        BY <4>1, <4>3
    <3> QED
      BY <3>1
  <2>5. \A k \in DOMAIN w \cap DOMAIN keyword : ~ (w[k] < keyword[k])
    <3>1. ASSUME NEW k \in 1 .. m PROVE ~ (w[k] < keyword[k])
      <4>1. w[k] = keyword[k] /\ keyword[k] \in Nat
        BY <2>2, <2>3
      <4> QED
        BY <4>1
    <3> QED
      BY <2>2, <3>1
  <2> QED
    BY <2>4, <2>5 DEF LessThan
<1>2. ASSUME NEW w \in DOMAIN table, IsPrefix(keyword, w),
             NEW v \in DOMAIN table, ~ LessThan(v, keyword),
             ~ IsPrefix(keyword, v)
      PROVE  LessThan(w, v)
  <2> DEFINE m == Len(keyword)
             D == {k \in 1 .. m : k <= Len(v) /\ v[k] # keyword[k]}
  <2>1. w \in Text /\ v \in Text
    OBVIOUS
  <2>2. /\ m \in Nat /\ DOMAIN keyword = 1 .. m /\ DOMAIN w = 1 .. Len(w)
        /\ Len(w) \in Nat /\ Len(v) \in Nat /\ DOMAIN v = 1 .. Len(v)
        /\ \A k \in 1 .. m : keyword[k] \in Nat
        /\ \A k \in 1 .. Len(v) : v[k] \in Nat
    BY <2>1, CodesOf
  <2>3. m <= Len(w) /\ \A k \in 1 .. m : keyword[k] = w[k]
    BY <1>2, <2>1, PrefixAt
  <2>4. D # {}
    <3>1. ASSUME D = {} PROVE FALSE
      <4>1. \A k \in 1 .. m : k <= Len(v) => v[k] = keyword[k]
        BY <3>1
      <4>2. ~ (m <= Len(v))
        <5>1. ASSUME m <= Len(v) PROVE \A k \in 1 .. m : keyword[k] = v[k]
          <6>1. \A k \in 1 .. m : k <= Len(v)
            BY <2>2, <5>1
          <6> QED
            BY <4>1, <6>1
        <5> QED
          BY <1>2, <2>1, <5>1, PrefixAt
      <4>3. \A k \in 1 .. Len(v) : k \in 1 .. m /\ v[k] = keyword[k]
        BY <2>2, <4>1, <4>2
      <4>4. IsPrefix(v, keyword)
        BY <2>1, <2>2, <4>2, <4>3, PrefixAt
      <4>5. v # keyword
        BY <4>2, <2>2
      <4> QED
        BY <1>2, <4>4, <4>5 DEF LessThan, IsStrictPrefix
    <3> QED
      BY <3>1
  <2> DEFINE k == Min(D)
  <2>5. k \in D /\ \A x \in D : k <= x
    <3>1. D \in SUBSET Nat
      BY <2>2
    <3> QED
      BY <2>4, <3>1, MinFound
  <2> HIDE DEF k
  <2>6. k \in 1 .. m /\ k \in 1 .. Len(v) /\ k \in 1 .. Len(w) /\ v[k] # keyword[k]
    BY <2>2, <2>3, <2>5
  <2>7. \A j \in 1 .. k - 1 : v[j] = keyword[j] /\ keyword[j] = w[j]
    <3>1. ASSUME NEW j \in 1 .. k - 1 PROVE v[j] = keyword[j]
      <4>1. j \in 1 .. m /\ j <= Len(v) /\ ~ (k <= j)
        BY <2>2, <2>6
      <4>2. j \notin D
        BY <2>5, <4>1
      <4> QED
        BY <4>1, <4>2
    <3>2. \A j \in 1 .. k - 1 : j \in 1 .. m
      BY <2>2, <2>6
    <3> QED
      BY <2>3, <3>1, <3>2
  <2>8. ~ (v[k] < keyword[k])
    BY <1>2, <2>2, <2>6, <2>7 DEF LessThan
  <2>9. w[k] < v[k]
    <3>1. w[k] = keyword[k] /\ keyword[k] \in Nat /\ v[k] \in Nat
      BY <2>2, <2>3, <2>6
    <3> QED
      BY <2>6, <2>8, <3>1
  <2> QED
    BY <2>2, <2>6, <2>7, <2>9 DEF LessThan
<1>3. ASSUME NEW w \in DOMAIN table PROVE ~ LessThan(w, w)
  <2>1. w \in Text
    OBVIOUS
  <2>2. \A k \in DOMAIN w : w[k] \in Nat
    BY <2>1, CodesOf
  <2>3. \A k \in DOMAIN w : ~ (w[k] < w[k])
    BY <2>2
  <2> QED
    BY <2>3 DEF LessThan, IsStrictPrefix
<1> QED
  BY <1>1, <1>2, <1>3 DEF MatchingWords
-----------------------------------------------------------------------------
(* The word of a name that is found from a position on, and where the loop  *)
(* goes on.                                                                 *)
WordAt(name, i) == SubSeq(name, WordBegin(name, i), WordEnd(name, i) - 1)

AfterWord(name, i) == WordEnd(name, i) + 1

(* It is the next run of letters and digits, and something else ends it.    *)
LEMMA WordFound ==
  ASSUME NEW name \in Text, NEW i \in 1 .. Len(name) + 1
  PROVE  LET b == WordBegin(name, i)
             e == WordEnd(name, i)
         IN  /\ b \in i .. Len(name) + 1 /\ e \in b .. Len(name) + 1
             /\ \A k \in i .. b - 1 : name[k] \notin Alnum
             /\ \A k \in b .. e - 1 : name[k] \in Alnum
             /\ e <= Len(name) => name[e] \notin Alnum
             /\ WordAt(name, i) \in Text /\ Len(WordAt(name, i)) = e - b
             /\ \A k \in 1 .. e - b : WordAt(name, i)[k] = name[b + k - 1]
<1> DEFINE b == WordBegin(name, i)
           e == WordEnd(name, i)
           n == Len(name)
<1>1. n \in Nat /\ \A k \in 1 .. n : name[k] \in Char
  BY CodesOf
<1>2. /\ b \in i .. n + 1 /\ \A k \in i .. b - 1 : name[k] \notin Alnum
      /\ b <= n => name[b] \in Alnum
  BY FirstFromFound DEF WordBegin
<1>3. b \in 1 .. Len(name) + 1
  BY <1>1, <1>2
<1>4. e = FirstFrom(name, b, Char \ Alnum)
  BY DEF WordEnd
<1> HIDE DEF b, e
<1>5. /\ e \in b .. n + 1 /\ \A k \in b .. e - 1 : name[k] \notin Char \ Alnum
      /\ e <= n => name[e] \in Char \ Alnum
  BY <1>3, <1>4, FirstFromFound
<1>6. \A k \in b .. e - 1 : name[k] \in Alnum
  <2>1. \A k \in b .. e - 1 : k \in 1 .. n
    BY <1>1, <1>3, <1>5
  <2> QED
    BY <1>1, <1>5, <2>1
<1>7. WordAt(name, i) = SubSeq(name, b, e - 1)
  BY DEF WordAt, b, e
<1>8. /\ WordAt(name, i) \in Text /\ Len(WordAt(name, i)) = e - b
      /\ \A k \in 1 .. e - b : WordAt(name, i)[k] = name[b + k - 1]
  <2>1. e \in b .. Len(name) + 1
    BY <1>5
  <2> QED
    BY <1>3, <1>7, <2>1, BetweenIs
<1> QED
  BY <1>2, <1>5, <1>6, <1>8 DEF b, e, n

(* The words of a name are those at these positions: the first one, and     *)
(* those behind a character that ended a word.                              *)
Divides(name, V) ==
  /\ V \in SUBSET (1 .. Len(name) + 1) /\ 1 \in V
  /\ \A w : w \in ToSet(Words(name)) <=> \E i \in V : w = WordAt(name, i)
  /\ \A i \in V : i = 1 \/ name[i - 1] \notin Alnum
  /\ \A i \in V : AfterWord(name, i) <= Len(name) + 1 => AfterWord(name, i) \in V

(* The loop visits such positions, if the name is not empty.                *)
LEMMA WordsAre ==
  ASSUME NEW name \in Text
  PROVE  /\ Words(name) \in Seq(Text)
         /\ name = <<>> => Words(name) = <<>>
         /\ name # <<>> => Words(name) # <<>> /\ \E V : Divides(name, V)
<1> DEFINE n == Len(name) + 1
           piece == [i \in 1 .. n |-> WordAt(name, i)]
           next == [i \in 1 .. n |-> AfterWord(name, i)]
           V == Visited(next, n)
           Q == {i \in 1 .. n : i = 1 \/ name[i - 1] \notin Alnum}
<1>1. n \in Nat \ {0} /\ Len(name) \in Nat
  BY CodesOf
<1>2. \A i \in 1 .. n : /\ WordAt(name, i) \in Text /\ AfterWord(name, i) \in Nat
                        /\ i < AfterWord(name, i)
                        /\ AfterWord(name, i) <= n
                             => name[AfterWord(name, i) - 1] \notin Alnum
  <2> SUFFICES ASSUME NEW i \in 1 .. n
               PROVE  /\ WordAt(name, i) \in Text /\ AfterWord(name, i) \in Nat
                      /\ i < AfterWord(name, i)
                      /\ AfterWord(name, i) <= n
                           => name[AfterWord(name, i) - 1] \notin Alnum
    OBVIOUS
  <2> DEFINE b == WordBegin(name, i)
             e == WordEnd(name, i)
  <2>1. /\ b \in i .. n /\ e \in b .. n /\ WordAt(name, i) \in Text
        /\ e <= Len(name) => name[e] \notin Alnum
    BY WordFound
  <2>2. AfterWord(name, i) = e + 1
    BY DEF AfterWord
  <2> HIDE DEF b, e
  <2>3. e \in Nat /\ i <= e /\ e + 1 - 1 = e
    BY <1>1, <2>1
  <2>4. e + 1 <= n => e <= Len(name)
    BY <1>1, <2>3
  <2> QED
    BY <2>1, <2>2, <2>3, <2>4
<1>3. /\ piece \in [1 .. n -> Text] /\ next \in [1 .. n -> Nat]
      /\ \A i \in 1 .. n : i < next[i]
  BY <1>2
<1>4. Words(name) = IF name = <<>> THEN <<>> ELSE Pieces(piece, next)
  BY DEF Words, WordAt, AfterWord
<1>5. Closed(next, n, Q)
  BY <1>1, <1>2 DEF Closed
<1>6. \A i \in 1 .. n : next[i] = AfterWord(name, i) /\ piece[i] = WordAt(name, i)
  OBVIOUS
<1> HIDE DEF n, piece, next
<1>7. /\ Pieces(piece, next) \in Seq(Text) /\ Pieces(piece, next) # <<>>
      /\ \A p : p \in ToSet(Pieces(piece, next)) <=> \E i \in V : p = piece[i]
  <2> HIDE DEF V
  <2>1. Pieces(piece, next) \in Seq(Text) /\ Pieces(piece, next) # <<>>
    BY <1>1, <1>3, PiecesAre
  <2>2. ASSUME NEW p
        PROVE  p \in ToSet(Pieces(piece, next))
                 <=> \E i \in Visited(next, n) : p = piece[i]
    BY <1>1, <1>3, PiecesAre
  <2> QED
    BY <2>1, <2>2 DEF V
<1>8. Closed(next, n, V) /\ V \in SUBSET Q
  BY <1>1, <1>3, <1>5, VisitedClosed
<1> HIDE DEF V
<1>9. /\ V \in SUBSET (1 .. n) /\ 1 \in V
      /\ \A i \in V : next[i] \in 1 .. n => next[i] \in V
      /\ \A i \in V : i = 1 \/ name[i - 1] \notin Alnum
  BY <1>8 DEF Closed
<1>10. \A i \in V : AfterWord(name, i) <= n => AfterWord(name, i) \in V
  <2> SUFFICES ASSUME NEW i \in V, AfterWord(name, i) <= n
               PROVE  AfterWord(name, i) \in V
    OBVIOUS
  <2>1. i \in 1 .. n /\ next[i] = AfterWord(name, i)
    BY <1>6, <1>9
  <2>2. AfterWord(name, i) \in Nat /\ i < AfterWord(name, i)
    BY <1>2, <2>1
  <2>3. AfterWord(name, i) \in 1 .. n
    BY <1>1, <2>1, <2>2
  <2> QED
    BY <1>9, <2>1, <2>3
<1>11. \A i \in V : piece[i] = WordAt(name, i)
  BY <1>6, <1>9
<1>12. CASE name = <<>>
  BY <1>4, <1>12
<1>13. CASE name # <<>>
  <2>1. Words(name) = Pieces(piece, next)
    BY <1>4, <1>13
  <2>2. \A w : w \in ToSet(Words(name)) <=> \E i \in V : w = WordAt(name, i)
    BY <1>7, <1>9, <1>11, <2>1
  <2>3. Divides(name, V)
    BY <1>9, <1>10, <2>2 DEF n, Divides
  <2> QED
    BY <1>7, <1>13, <2>1, <2>3
<1> QED
  BY <1>12, <1>13
(* A run of letters and digits somewhere in a name begins with these        *)
(* characters.                                                              *)
RunBegins(name, key) ==
  \E p \in 1 .. Len(name) :
    /\ p = 1 \/ name[p - 1] \notin Alnum
    /\ p + Len(key) - 1 <= Len(name)
    /\ \A k \in 1 .. Len(key) :
         name[p + k - 1] \in Alnum /\ name[p + k - 1] = key[k]

(* Every word that is found is such a run, and every run is found, as the   *)
(* loop neither begins inside one nor steps over one.                       *)
LEMMA WordsBegin ==
  ASSUME NEW name \in Text, NEW key \in Text, key # <<>>
  PROVE  (\E w \in ToSet(Words(name)) : IsPrefix(key, w)) <=> RunBegins(name, key)
<1> DEFINE n == Len(name)
           m == Len(key)
<1>1. n \in Nat /\ m \in Nat \ {0} /\ 1 \in 1 .. m
  <2>1. n \in Nat /\ m \in Nat
    BY CodesOf
  <2>2. m # 0
    BY DEF Text
  <2> QED
    BY <2>1, <2>2
<1>2. CASE name = <<>>
  <2>1. ToSet(Words(name)) = {}
    BY <1>2, WordsAre DEF ToSet
  <2>2. n = 0
    BY <1>2
  <2>3. ~ RunBegins(name, key)
    BY <2>2 DEF RunBegins
  <2> QED
    BY <2>1, <2>3
<1>3. ASSUME name # <<>>,
             NEW w \in ToSet(Words(name)), IsPrefix(key, w)
      PROVE  RunBegins(name, key)
  <2>1. PICK i \in 1 .. n + 1 :
          w = WordAt(name, i) /\ (i = 1 \/ name[i - 1] \notin Alnum)
    BY <1>3, WordsAre DEF Divides
  <2> DEFINE b == WordBegin(name, i)
             e == WordEnd(name, i)
  <2>2. /\ b \in i .. n + 1 /\ e \in b .. n + 1
        /\ \A k \in i .. b - 1 : name[k] \notin Alnum
        /\ \A k \in b .. e - 1 : name[k] \in Alnum
        /\ w \in Text /\ Len(w) = e - b
        /\ \A k \in 1 .. e - b : w[k] = name[b + k - 1]
    BY <2>1, WordFound
  <2> HIDE DEF b, e, n, m
  <2>3. m <= e - b /\ \A k \in 1 .. m : key[k] = w[k]
    BY <1>3, <2>2, PrefixAt DEF m
  <2>4. b \in 1 .. n /\ b + m - 1 <= n
    BY <1>1, <2>1, <2>2, <2>3
  <2>5. b = 1 \/ name[b - 1] \notin Alnum
    <3>1. CASE b = i
      BY <2>1, <3>1
    <3>2. CASE b # i
      <4>1. b - 1 \in i .. b - 1
        BY <1>1, <2>1, <2>2, <3>2
      <4> QED
        BY <2>2, <4>1
    <3> QED
      BY <3>1, <3>2
  <2>6. \A k \in 1 .. m : name[b + k - 1] \in Alnum /\ name[b + k - 1] = key[k]
    <3>1. \A k \in 1 .. m : k \in 1 .. e - b /\ b + k - 1 \in b .. e - 1
      BY <1>1, <2>1, <2>2, <2>3
    <3> QED
      BY <2>2, <2>3, <3>1
  <2> QED
    BY <2>4, <2>5, <2>6 DEF RunBegins, n, m
<1>4. ASSUME name # <<>>, RunBegins(name, key)
      PROVE  \E w \in ToSet(Words(name)) : IsPrefix(key, w)
  <2>1. PICK p \in 1 .. n :
          /\ p = 1 \/ name[p - 1] \notin Alnum
          /\ p + m - 1 <= n
          /\ \A k \in 1 .. m :
               name[p + k - 1] \in Alnum /\ name[p + k - 1] = key[k]
    BY <1>4 DEF RunBegins
  <2>2. PICK V : Divides(name, V)
    BY <1>4, WordsAre
  <2>15. /\ V \in SUBSET (1 .. n + 1) /\ 1 \in V
    BY <2>2 DEF Divides
  <2>16. \A j \in V : AfterWord(name, j) <= n + 1 => AfterWord(name, j) \in V
    BY <2>2 DEF Divides
  <2>17. \A w : w \in ToSet(Words(name)) <=> \E j \in V : w = WordAt(name, j)
    BY <2>2 DEF Divides
  <2> DEFINE U == {i \in V : i <= p}
  <2>3. PICK i \in U : \A x \in U : x <= i
    <3>1. p \in Nat /\ 1 <= p
      BY <1>1, <2>1
    <3>2. \A x \in U : x \in 0 .. p
      BY <1>1, <2>15, <3>1
    <3>3. U \in SUBSET (0 .. p) /\ 1 \in U
      BY <2>15, <3>1, <3>2
    <3> QED
      BY <3>1, <3>3, MaxFound
  <2>4. i \in V /\ i \in 1 .. n + 1 /\ i <= p
    BY <2>15, <2>3
  <2> DEFINE b == WordBegin(name, i)
             e == WordEnd(name, i)
             w == WordAt(name, i)
  <2>5. /\ b \in i .. n + 1 /\ e \in b .. n + 1
        /\ \A k \in i .. b - 1 : name[k] \notin Alnum
        /\ \A k \in b .. e - 1 : name[k] \in Alnum
        /\ e <= n => name[e] \notin Alnum
        /\ w \in Text /\ Len(w) = e - b
        /\ \A k \in 1 .. e - b : w[k] = name[b + k - 1]
    BY <2>4, WordFound
  <2>6. e + 1 <= n + 1 => e + 1 \in V
    <3>1. AfterWord(name, i) = e + 1
      BY DEF AfterWord
    <3>2. AfterWord(name, i) <= n + 1 => AfterWord(name, i) \in V
      BY <2>16, <2>4
    <3> HIDE DEF b, e, w, n, m, U
    <3> QED
      BY <3>1, <3>2
  <2> HIDE DEF b, e, w, n, m, U
  <2>7. name[p] \in Alnum
    <3>1. p + 1 - 1 = p
      BY <1>1, <2>1
    <3> QED
      BY <1>1, <2>1, <3>1
  <2>8. b <= p
    <3>1. ~ (p \in i .. b - 1)
      BY <2>5, <2>7
    <3> QED
      BY <1>1, <2>1, <2>4, <2>5, <3>1
  <2>9. p < e
    <3>1. e + 1 \in V => ~ (e + 1 <= p)
      <4>1. ASSUME e + 1 \in V, e + 1 <= p PROVE FALSE
        <5>1. e + 1 \in U
          BY <4>1 DEF U
        <5>2. e + 1 <= i
          BY <2>3, <5>1
        <5> QED
          BY <1>1, <2>4, <2>5, <5>2
      <4> QED
        BY <4>1
    <3>2. e # p
      BY <1>1, <2>1, <2>5, <2>7
    <3> QED
      BY <1>1, <2>1, <2>4, <2>5, <2>6, <3>1, <3>2
  <2>10. b = p
    <3>1. ASSUME b < p PROVE FALSE
      <4>1. p - 1 \in b .. e - 1 /\ p # 1
        BY <1>1, <2>1, <2>4, <2>5, <2>9, <3>1
      <4> QED
        BY <2>1, <2>5, <4>1
    <3> QED
      BY <1>1, <2>1, <2>4, <2>5, <2>8, <3>1
  <2>11. m <= e - b
    <3>1. ASSUME e - b < m PROVE FALSE
      <4>1. /\ e - p + 1 \in 1 .. m /\ p + (e - p + 1) - 1 = e /\ e <= n
        BY <1>1, <2>1, <2>4, <2>5, <2>9, <2>10, <3>1
      <4>2. name[e] \in Alnum
        BY <2>1, <4>1
      <4> QED
        BY <2>5, <4>1, <4>2
    <3> QED
      BY <1>1, <2>1, <2>5, <3>1
  <2>12. \A k \in 1 .. m : key[k] = w[k]
    <3>1. \A k \in 1 .. m : k \in 1 .. e - b
      BY <1>1, <2>1, <2>5, <2>11
    <3> QED
      BY <2>1, <2>5, <2>10, <3>1
  <2>13. IsPrefix(key, w)
    BY <2>5, <2>11, <2>12, PrefixAt DEF m
  <2>14. w \in ToSet(Words(name))
    <3>1. \E j \in V : w = WordAt(name, j)
      BY <2>4 DEF w
    <3> QED
      BY <2>17, <3>1
  <2> QED
    BY <2>13, <2>14
<1> QED
  BY <1>2, <1>3, <1>4
-----------------------------------------------------------------------------
(* The keyword of a query that begins at a position, and the keywords as    *)
(* those at the positions the loop visits.                                  *)
KeywordAt(text, i) == SubSeq(text, i, KeywordEnd(text, i) - 1)

AfterKeyword(text, i) == KeywordEnd(text, i) + 1

Cuts(text, V) ==
  /\ V \in SUBSET (1 .. Len(text) + 1) /\ 1 \in V
  /\ \A i \in V : i = 1 \/ text[i - 1] = Space
  /\ \A i \in V : AfterKeyword(text, i) <= Len(text) + 1
                    => AfterKeyword(text, i) \in V
  /\ \A p : p \in ToSet(Keywords(text)) <=> \E i \in V : p = KeywordAt(text, i)

(* A keyword goes on until the next space.                                  *)
LEMMA KeywordFound ==
  ASSUME NEW text \in Text, NEW i \in 1 .. Len(text) + 1
  PROVE  LET e == KeywordEnd(text, i)
         IN  /\ e \in i .. Len(text) + 1
             /\ \A k \in i .. e - 1 : text[k] # Space
             /\ e <= Len(text) => text[e] = Space
             /\ KeywordAt(text, i) \in Text
<1> DEFINE e == KeywordEnd(text, i)
<1>1. /\ e \in i .. Len(text) + 1
      /\ \A k \in i .. e - 1 : text[k] \notin {Space}
      /\ e <= Len(text) => text[e] \in {Space}
  BY FirstFromFound DEF KeywordEnd
<1>2. KeywordAt(text, i) = SubSeq(text, i, e - 1)
  BY DEF KeywordAt
<1> HIDE DEF e
<1>3. KeywordAt(text, i) \in Text
  BY <1>1, <1>2, BetweenIs
<1> QED
  BY <1>1, <1>3 DEF e

(* The loop visits the first position and those behind a space.             *)
LEMMA KeywordsCut ==
  ASSUME NEW text \in Text
  PROVE  /\ Keywords(text) \in Seq(Text) /\ Keywords(text) # <<>>
         /\ \E V : Cuts(text, V)
<1> DEFINE n == Len(text) + 1
           piece == [i \in 1 .. n |-> KeywordAt(text, i)]
           next == [i \in 1 .. n |-> AfterKeyword(text, i)]
           V == Visited(next, n)
           Q == {i \in 1 .. n : i = 1 \/ text[i - 1] = Space}
<1>1. n \in Nat \ {0} /\ Len(text) \in Nat
  BY CodesOf
<1>2. \A i \in 1 .. n : /\ KeywordAt(text, i) \in Text
                        /\ AfterKeyword(text, i) \in Nat
                        /\ i < AfterKeyword(text, i)
                        /\ AfterKeyword(text, i) <= n
                             => text[AfterKeyword(text, i) - 1] = Space
  <2> SUFFICES ASSUME NEW i \in 1 .. n
               PROVE  /\ KeywordAt(text, i) \in Text
                      /\ AfterKeyword(text, i) \in Nat
                      /\ i < AfterKeyword(text, i)
                      /\ AfterKeyword(text, i) <= n
                           => text[AfterKeyword(text, i) - 1] = Space
    OBVIOUS
  <2> DEFINE e == KeywordEnd(text, i)
  <2>1. /\ e \in i .. n /\ KeywordAt(text, i) \in Text
        /\ e <= Len(text) => text[e] = Space
    BY KeywordFound
  <2>2. AfterKeyword(text, i) = e + 1
    BY DEF AfterKeyword
  <2> HIDE DEF e
  <2>3. e \in Nat /\ i <= e /\ e + 1 - 1 = e
    BY <1>1, <2>1
  <2>4. e + 1 <= n => e <= Len(text)
    BY <1>1, <2>3
  <2> QED
    BY <2>1, <2>2, <2>3, <2>4
<1>3. /\ piece \in [1 .. n -> Text] /\ next \in [1 .. n -> Nat]
      /\ \A i \in 1 .. n : i < next[i]
  BY <1>2
<1>4. Keywords(text) = Pieces(piece, next)
  BY DEF Keywords, KeywordAt, AfterKeyword
<1>5. Closed(next, n, Q)
  BY <1>1, <1>2 DEF Closed
<1>6. \A i \in 1 .. n : next[i] = AfterKeyword(text, i) /\ piece[i] = KeywordAt(text, i)
  OBVIOUS
<1> HIDE DEF n, piece, next
<1>7. Keywords(text) \in Seq(Text) /\ Keywords(text) # <<>>
  BY <1>1, <1>3, <1>4, PiecesAre
<1>8. \A p : p \in ToSet(Keywords(text)) <=> \E i \in V : p = piece[i]
  <2>1. ASSUME NEW p
        PROVE  p \in ToSet(Pieces(piece, next))
                 <=> \E i \in Visited(next, n) : p = piece[i]
    BY <1>1, <1>3, PiecesAre
  <2> QED
    BY <1>4, <2>1 DEF V
<1>9. Closed(next, n, V) /\ V \in SUBSET Q
  BY <1>1, <1>3, <1>5, VisitedClosed
<1> HIDE DEF V
<1>10. /\ V \in SUBSET (1 .. n) /\ 1 \in V
       /\ \A i \in V : i = 1 \/ text[i - 1] = Space
  BY <1>9 DEF Closed
<1>11. \A i \in V : AfterKeyword(text, i) <= n => AfterKeyword(text, i) \in V
  <2> SUFFICES ASSUME NEW i \in V, AfterKeyword(text, i) <= n
               PROVE  AfterKeyword(text, i) \in V
    OBVIOUS
  <2>1. i \in 1 .. n /\ next[i] = AfterKeyword(text, i)
    BY <1>6, <1>10
  <2>2. AfterKeyword(text, i) \in Nat /\ i < AfterKeyword(text, i)
    BY <1>2, <2>1
  <2>3. AfterKeyword(text, i) \in 1 .. n
    BY <1>1, <2>1, <2>2
  <2>4. next[i] \in 1 .. n => next[i] \in V
    BY <1>9 DEF Closed
  <2> QED
    BY <2>1, <2>3, <2>4
<1>12. \A i \in V : piece[i] = KeywordAt(text, i)
  BY <1>6, <1>10
<1>13. \A p : p \in ToSet(Keywords(text)) <=> \E i \in V : p = KeywordAt(text, i)
  BY <1>8, <1>12
<1>14. Cuts(text, V)
  BY <1>10, <1>11, <1>13 DEF n, Cuts
<1> QED
  BY <1>7, <1>14

(* These are the longest pieces of the query without a space, and the empty *)
(* ones next to a space that has nothing there.                             *)
LEMMA KeywordsAre ==
  ASSUME NEW text \in Text
  PROVE  \A p : p \in ToSet(Keywords(text))
                  <=> \E from, to \in 0 .. Len(text) + 1 :
                        KeywordIn(text, from, to) /\ p = SubSeq(text, from, to)
<1> DEFINE n == Len(text)
<1>1. n \in Nat
  BY CodesOf
<1>2. PICK V : Cuts(text, V)
  BY KeywordsCut
<1>3. /\ V \in SUBSET (1 .. n + 1) /\ 1 \in V
      /\ \A i \in V : i = 1 \/ text[i - 1] = Space
  BY <1>2 DEF Cuts
<1>4. \A i \in V : AfterKeyword(text, i) <= n + 1 => AfterKeyword(text, i) \in V
  BY <1>2 DEF Cuts
<1>5. \A p : p \in ToSet(Keywords(text)) <=> \E i \in V : p = KeywordAt(text, i)
  BY <1>2 DEF Cuts
<1>6. ASSUME NEW i \in V
      PROVE  \E from, to \in 0 .. n + 1 :
               KeywordIn(text, from, to) /\ KeywordAt(text, i) = SubSeq(text, from, to)
  <2> DEFINE e == KeywordEnd(text, i)
             to == e - 1
  <2>1. i \in 1 .. n + 1
    BY <1>3
  <2>2. /\ e \in i .. n + 1 /\ \A k \in i .. e - 1 : text[k] # Space
        /\ e <= n => text[e] = Space
    BY <2>1, KeywordFound
  <2>3. KeywordAt(text, i) = SubSeq(text, i, to)
    BY DEF KeywordAt
  <2> HIDE DEF e
  <2>4. to \in i - 1 .. n /\ to + 1 = e /\ i \in 0 .. n + 1 /\ to \in 0 .. n + 1
    BY <1>1, <2>1, <2>2
  <2>5. to = n \/ text[to + 1] = Space
    BY <1>1, <2>1, <2>2, <2>4
  <2>6. i = 1 \/ text[i - 1] = Space
    BY <1>3
  <2>7. KeywordIn(text, i, to)
    BY <2>1, <2>2, <2>4, <2>5, <2>6 DEF KeywordIn
  <2> HIDE DEF to
  <2> QED
    BY <2>3, <2>4, <2>7
<1>7. ASSUME NEW from \in 0 .. n + 1, NEW to \in 0 .. n + 1, KeywordIn(text, from, to)
      PROVE  \E i \in V : SubSeq(text, from, to) = KeywordAt(text, i)
  <2>1. /\ from \in 1 .. n + 1 /\ to \in from - 1 .. n
        /\ from = 1 \/ text[from - 1] = Space
        /\ to = n \/ text[to + 1] = Space
        /\ \A k \in from .. to : text[k] # Space
    BY <1>7 DEF KeywordIn
  <2> DEFINE U == {j \in V : j <= from}
  <2>2. PICK i \in U : \A x \in U : x <= i
    <3>1. from \in Nat /\ 1 <= from
      BY <1>1, <2>1
    <3>2. \A x \in U : x \in 0 .. from
      BY <1>1, <1>3, <3>1
    <3>3. U \in SUBSET (0 .. from) /\ 1 \in U
      BY <1>3, <3>1, <3>2
    <3> QED
      BY <3>1, <3>3, MaxFound
  <2>3. i \in V /\ i \in 1 .. n + 1 /\ i <= from
    BY <1>3, <2>2
  <2> DEFINE e == KeywordEnd(text, i)
  <2>4. /\ e \in i .. n + 1 /\ \A k \in i .. e - 1 : text[k] # Space
        /\ e <= n => text[e] = Space
    BY <2>3, KeywordFound
  <2>5. AfterKeyword(text, i) = e + 1 /\ KeywordAt(text, i) = SubSeq(text, i, e - 1)
    BY DEF AfterKeyword, KeywordAt
  <2>6. e + 1 <= n + 1 => e + 1 \in V
    <3> HIDE DEF e, n, U
    <3>1. AfterKeyword(text, i) <= n + 1 => AfterKeyword(text, i) \in V
      BY <1>4, <2>3
    <3> QED
      BY <2>5, <3>1
  <2> HIDE DEF e, n
  <2>7. i = from
    <3>1. ASSUME i < from PROVE FALSE
      <4>1. text[from - 1] = Space /\ from - 1 \in i .. n
        BY <1>1, <2>1, <2>3, <3>1
      <4>2. ~ (from - 1 \in i .. e - 1)
        BY <2>4, <4>1
      <4>3. e + 1 <= from /\ e + 1 <= n + 1
        BY <1>1, <2>1, <2>3, <2>4, <4>1, <4>2
      <4>4. e + 1 \in U
        BY <2>6, <4>3
      <4>5. e + 1 <= i
        BY <2>2, <4>4
      <4> QED
        BY <1>1, <2>3, <2>4, <4>5
    <3> QED
      BY <1>1, <2>1, <2>3, <3>1
  <2>8. e - 1 = to
    <3>1. ASSUME e <= to PROVE FALSE
      <4>1. e \in from .. to /\ e <= n
        BY <1>1, <2>1, <2>3, <2>4, <2>7, <3>1
      <4> QED
        BY <2>1, <2>4, <4>1
    <3>2. ASSUME to + 1 < e PROVE FALSE
      <4>1. to + 1 \in i .. e - 1 /\ to # n
        BY <1>1, <2>1, <2>3, <2>4, <2>7, <3>2
      <4> QED
        BY <2>1, <2>4, <4>1
    <3> QED
      BY <1>1, <2>1, <2>4, <3>1, <3>2
  <2>9. SubSeq(text, from, to) = KeywordAt(text, i)
    BY <2>5, <2>7, <2>8
  <2> QED
    BY <2>3, <2>9
<1>8. ASSUME NEW p
      PROVE  p \in ToSet(Keywords(text))
               <=> \E from, to \in 0 .. n + 1 :
                     KeywordIn(text, from, to) /\ p = SubSeq(text, from, to)
  <2>1. ASSUME p \in ToSet(Keywords(text))
        PROVE  \E from, to \in 0 .. n + 1 :
                 KeywordIn(text, from, to) /\ p = SubSeq(text, from, to)
    <3>1. PICK i \in V : p = KeywordAt(text, i)
      BY <1>5, <2>1
    <3> QED
      BY <1>6, <3>1
  <2>2. ASSUME NEW from \in 0 .. n + 1, NEW to \in 0 .. n + 1,
               KeywordIn(text, from, to), p = SubSeq(text, from, to)
        PROVE  p \in ToSet(Keywords(text))
    <3>1. \E i \in V : p = KeywordAt(text, i)
      BY <1>7, <2>2
    <3> QED
      BY <1>5, <3>1
  <2> QED
    BY <2>1, <2>2
<1> QED
  BY <1>8
-----------------------------------------------------------------------------
(* The index as often as the word occurs in the name.                       *)
Times(list, word, i) ==
  LET words == Words(list[i])
  IN  [k \in 1 .. Cardinality({j \in DOMAIN words : words[j] = word}) |-> i]

(* It is there at all if the word does occur.                               *)
LEMMA TimesAre ==
  ASSUME NEW list \in Seq(Text), NEW word, NEW i \in DOMAIN list
  PROVE  /\ Times(list, word, i) \in Seq(DOMAIN list)
         /\ \A x : x \in ToSet(Times(list, word, i))
                     <=> x = i /\ word \in ToSet(Words(list[i]))
<1> DEFINE words == Words(list[i])
           J == {j \in DOMAIN words : words[j] = word}
           c == Cardinality(J)
           t == Times(list, word, i)
<1>1. list[i] \in Text
  OBVIOUS
<1>2. words \in Seq(Text)
  BY <1>1, WordsAre
<1>3. t = [k \in 1 .. c |-> i]
  BY DEF Times
<1>4. IsFiniteSet(J)
  <2>1. J \in SUBSET (1 .. Len(words)) /\ Len(words) \in Nat
    BY <1>2
  <2>2. IsFiniteSet(1 .. Len(words))
    BY <2>1, FS_Interval
  <2> QED
    BY <2>1, <2>2, FS_Subset
<1>5. c \in Nat /\ (c = 0 <=> J = {})
  BY <1>4, FS_CardinalityType, FS_EmptySet
<1>6. J # {} <=> word \in ToSet(words)
  BY DEF ToSet
<1> HIDE DEF words, c, t, J
<1>7. t \in Seq(DOMAIN list) /\ DOMAIN t = 1 .. c
  BY <1>3, <1>5
<1>8. c # 0 <=> \E k \in 1 .. c : TRUE
  <2>1. c # 0 => 1 \in 1 .. c
    BY <1>5
  <2> QED
    BY <1>5, <2>1
<1>9. \A x : x \in ToSet(t) <=> x = i /\ c # 0
  BY <1>3, <1>7, <1>8 DEF ToSet
<1> QED
  BY <1>5, <1>6, <1>7, <1>9 DEF t, words

(* The products of a word in the index are those with the word.             *)
LEMMA OccurrencesAre ==
  ASSUME NEW list \in Seq(Text), NEW word
  PROVE  /\ Occurrences(list, word) \in Seq(DOMAIN list)
         /\ \A i : i \in ToSet(Occurrences(list, word))
                     <=> i \in DOMAIN list /\ word \in ToSet(Words(list[i]))
<1> DEFINE s == [i \in DOMAIN list |-> Times(list, word, i)]
           D == DOMAIN list
<1>1. Occurrences(list, word) = FlattenSeq(s)
  BY DEF Occurrences, Times
<1>2. D = 1 .. Len(list) /\ Len(list) \in Nat
  OBVIOUS
<1>3. \A i \in D : Times(list, word, i) \in Seq(D)
  BY TimesAre
<1>4. s \in Seq(Seq(D)) /\ DOMAIN s = D /\ \A i \in D : s[i] = Times(list, word, i)
  <2>1. s = [i \in 1 .. Len(list) |-> Times(list, word, i)]
    BY <1>2
  <2> HIDE DEF s, D
  <2> QED
    BY <1>2, <1>3, <2>1
<1>5. \A i \in D : \A x : x \in ToSet(Times(list, word, i))
                             <=> x = i /\ word \in ToSet(Words(list[i]))
  BY TimesAre
<1> HIDE DEF s, D
<1>6. FlattenSeq(s) \in Seq(D)
  BY <1>4, FlattenType
<1>7. ToSet(FlattenSeq(s)) = UNION {ToSet(s[i]) : i \in D}
  BY <1>4, FlattenElements
<1>8. \A x : x \in ToSet(FlattenSeq(s)) <=> \E i \in D : x \in ToSet(Times(list, word, i))
  BY <1>4, <1>7
<1>9. \A x : x \in ToSet(FlattenSeq(s)) <=> x \in D /\ word \in ToSet(Words(list[x]))
  BY <1>5, <1>8
<1> QED
  BY <1>1, <1>6, <1>9 DEF D

(* The index has the words of the names, and nothing else.                  *)
LEMMA GenerateIs ==
  ASSUME NEW list \in Seq(Text)
  PROVE  /\ DOMAIN Generate(list) \in SUBSET Text
         /\ \A i \in DOMAIN list : ToSet(Words(list[i])) \in SUBSET DOMAIN Generate(list)
         /\ \A w \in DOMAIN Generate(list) :
              /\ Generate(list)[w] \in Seq(DOMAIN list)
              /\ \A i : i \in ToSet(Generate(list)[w])
                          <=> i \in DOMAIN list /\ w \in ToSet(Words(list[i]))
<1> DEFINE W == UNION {ToSet(Words(list[i])) : i \in DOMAIN list}
           g == Generate(list)
<1>1. DOMAIN g = W /\ \A w \in W : g[w] = Occurrences(list, w)
  BY DEF Generate
<1>2. \A i \in DOMAIN list : Words(list[i]) \in Seq(Text)
  BY WordsAre
<1>3. \A i \in DOMAIN list : ToSet(Words(list[i])) \in SUBSET Text
  BY <1>2 DEF ToSet
<1>4. W \in SUBSET Text /\ \A i \in DOMAIN list : ToSet(Words(list[i])) \in SUBSET W
  BY <1>3
<1> HIDE DEF g, W
<1>5. \A w \in W : /\ g[w] \in Seq(DOMAIN list)
                   /\ \A i : i \in ToSet(g[w])
                               <=> i \in DOMAIN list /\ w \in ToSet(Words(list[i]))
  BY <1>1, OccurrencesAre
<1> QED
  BY <1>1, <1>4, <1>5 DEF g
-----------------------------------------------------------------------------
(* A keyword in upper case.                                                 *)
LEMMA UpperIs ==
  ASSUME NEW text \in Text
  PROVE  /\ UpperOf(text) \in Text /\ Len(UpperOf(text)) = Len(text)
         /\ \A k \in 1 .. Len(text) : UpperOf(text)[k] = Upper[text[k]]
         /\ UpperOf(text) = <<>> <=> text = <<>>
<1> DEFINE n == Len(text)
           u == UpperOf(text)
<1>1. n \in Nat /\ DOMAIN text = 1 .. n /\ \A k \in 1 .. n : text[k] \in Char
  BY CodesOf
<1>2. u = [k \in 1 .. n |-> Upper[text[k]]]
  BY <1>1 DEF UpperOf
<1>3. \A k \in 1 .. n : Upper[text[k]] \in Char
  BY <1>1, CharAssumption
<1>4. text = <<>> <=> n = 0
  BY DEF Text
<1> HIDE DEF n, u
<1>5. u \in Text /\ Len(u) = n /\ \A k \in 1 .. n : u[k] = Upper[text[k]]
  BY <1>1, <1>2, <1>3 DEF Text
<1>6. u = <<>> <=> Len(u) = 0
  BY <1>5 DEF Text
<1> QED
  BY <1>4, <1>5, <1>6 DEF n, u

(* The products a keyword is about, and a vector without duplicates.        *)
Having(list, keyword) ==
  {i \in DOMAIN list : IF keyword = <<>> THEN list[i] # <<>>
                       ELSE BeginsWord(list[i], keyword)}

Increasing(s) == \A j, k \in DOMAIN s : j < k => s[j] < s[k]

(* A run in the name begins with the upper case keyword.                    *)
LEMMA BeginsWordIs ==
  ASSUME NEW name \in Text, NEW keyword \in Text
  PROVE  BeginsWord(name, keyword) <=> RunBegins(name, UpperOf(keyword))
<1> DEFINE u == UpperOf(keyword)
           m == Len(keyword)
<1>1. Len(u) = m /\ \A k \in 1 .. m : u[k] = Upper[keyword[k]]
  BY UpperIs
<1>2. DOMAIN keyword = 1 .. m
  BY CodesOf
<1> HIDE DEF u, m
<1>3. BeginsWord(name, keyword) <=> RunBegins(name, u)
  <2>1. RunBegins(name, u) <=>
          \E p \in 1 .. Len(name) :
            /\ p = 1 \/ name[p - 1] \notin Alnum
            /\ p + m - 1 <= Len(name)
            /\ \A k \in 1 .. m :
                 name[p + k - 1] \in Alnum /\ name[p + k - 1] = Upper[keyword[k]]
    BY <1>1 DEF RunBegins
  <2>2. BeginsWord(name, keyword) <=>
          \E p \in 1 .. Len(name) :
            /\ p = 1 \/ name[p - 1] \notin Alnum
            /\ p + m - 1 <= Len(name)
            /\ \A k \in 1 .. m :
                 name[p + k - 1] \in Alnum /\ name[p + k - 1] = Upper[keyword[k]]
    BY <1>2 DEF BeginsWord, m
  <2> QED
    BY <2>1, <2>2
<1> QED
  BY <1>3 DEF u

(* What a keyword is reduced to: the products it is about, in order.        *)
LEMMA ReductionIs ==
  ASSUME NEW list \in Seq(Text), NEW keyword \in Text
  PROVE  LET r == Reduce(Generate(list),
                         MatchingWords(Generate(list), UpperOf(keyword)))
         IN  /\ r \in Seq(DOMAIN list) /\ ToSet(r) = Having(list, keyword)
             /\ Increasing(r)
<1> DEFINE g == Generate(list)
           u == UpperOf(keyword)
           M == MatchingWords(g, u)
           S == UNION {ToSet(g[w]) : w \in M}
           r == Reduce(g, M)
<1>1. u \in Text /\ (u = <<>> <=> keyword = <<>>)
  BY UpperIs
<1>2. DOMAIN g \in SUBSET Text
  BY GenerateIs
<1>3. /\ \A i \in DOMAIN list : ToSet(Words(list[i])) \in SUBSET DOMAIN g
      /\ \A w \in DOMAIN g :
           \A i : i \in ToSet(g[w]) <=> i \in DOMAIN list /\ w \in ToSet(Words(list[i]))
  BY GenerateIs
<1>4. r = Ascending(S)
  BY DEF Reduce
<1> HIDE DEF g, u
<1>5. M = {w \in DOMAIN g : IsPrefix(u, w)}
  BY <1>1, <1>2, RangeIsExact
<1> HIDE DEF M
<1>6. \A i : i \in S <=> i \in DOMAIN list /\ \E w \in ToSet(Words(list[i])) : IsPrefix(u, w)
  <2>1. ASSUME NEW i \in S
        PROVE  i \in DOMAIN list /\ \E w \in ToSet(Words(list[i])) : IsPrefix(u, w)
    <3>1. PICK w \in M : i \in ToSet(g[w])
      OBVIOUS
    <3> QED
      BY <1>3, <1>5, <3>1
  <2>2. ASSUME NEW i \in DOMAIN list, NEW w \in ToSet(Words(list[i])), IsPrefix(u, w)
        PROVE  i \in S
    <3>1. w \in M /\ i \in ToSet(g[w])
      BY <1>3, <1>5, <2>2
    <3> QED
      BY <3>1
  <2> QED
    BY <2>1, <2>2
<1> HIDE DEF S
<1>7. ASSUME NEW i \in DOMAIN list
      PROVE  (\E w \in ToSet(Words(list[i])) : IsPrefix(u, w))
               <=> IF keyword = <<>> THEN list[i] # <<>> ELSE BeginsWord(list[i], keyword)
  <2>1. list[i] \in Text
    OBVIOUS
  <2>2. CASE keyword = <<>>
    <3>1. u = <<>>
      BY <1>1, <2>2
    <3>2. \A w \in Text : IsPrefix(u, w)
      <4>1. SUFFICES ASSUME NEW w \in Text PROVE IsPrefix(u, w)
        OBVIOUS
      <4>2. Len(u) = 0 /\ Len(w) \in Nat
        BY <3>1, CodesOf
      <4>3. Len(u) <= Len(w) /\ \A k \in 1 .. Len(u) : u[k] = w[k]
        BY <4>2
      <4> QED
        BY <1>1, <4>3, PrefixAt
    <3>3. Words(list[i]) \in Seq(Text)
      BY <2>1, WordsAre
    <3>4. ToSet(Words(list[i])) \in SUBSET Text
      BY <3>3 DEF ToSet
    <3>5. ToSet(Words(list[i])) # {} <=> Words(list[i]) # <<>>
      <4> DEFINE ws == Words(list[i])
      <4>1. ws \in Seq(Text)
        BY <3>3
      <4> HIDE DEF ws
      <4>2. /\ Len(ws) \in Nat /\ DOMAIN ws = 1 .. Len(ws)
            /\ (ws = <<>> <=> Len(ws) = 0)
        BY <4>1
      <4>3. Len(ws) # 0 => 1 \in DOMAIN ws
        BY <4>2
      <4>4. ToSet(ws) # {} <=> ws # <<>>
        BY <4>2, <4>3 DEF ToSet
      <4> QED
        BY <4>4 DEF ws
    <3>6. Words(list[i]) # <<>> <=> list[i] # <<>>
      BY <2>1, WordsAre
    <3> QED
      BY <2>2, <3>2, <3>4, <3>5, <3>6
  <2>3. CASE keyword # <<>>
    <3>1. (\E w \in ToSet(Words(list[i])) : IsPrefix(u, w)) <=> RunBegins(list[i], u)
      BY <1>1, <2>1, <2>3, WordsBegin
    <3>2. BeginsWord(list[i], keyword) <=> RunBegins(list[i], u)
      BY <2>1, BeginsWordIs DEF u
    <3> QED
      BY <2>3, <3>1, <3>2
  <2> QED
    BY <2>2, <2>3
<1>8. S = Having(list, keyword)
  BY <1>6, <1>7 DEF Having
<1>9. S \in SUBSET Nat /\ S \in SUBSET DOMAIN list /\ IsFiniteSet(S)
  <2>1. DOMAIN list = 1 .. Len(list) /\ Len(list) \in Nat
    OBVIOUS
  <2>2. IsFiniteSet(1 .. Len(list))
    BY <2>1, FS_Interval
  <2>3. S \in SUBSET (1 .. Len(list))
    BY <1>6, <2>1
  <2>4. S \in SUBSET Nat
    BY <2>1, <2>3
  <2> QED
    BY <2>1, <2>2, <2>3, <2>4, FS_Subset
<1> HIDE DEF r
<1>10. r \in Seq(S) /\ ToSet(r) = S /\ Increasing(r)
  BY <1>4, <1>9, AscendingIs DEF Increasing
<1>11. r \in Seq(DOMAIN list)
  <2> DEFINE D == DOMAIN list
  <2>1. S \in SUBSET D
    BY <1>9
  <2> HIDE DEF D
  <2>2. Len(r) \in Nat /\ DOMAIN r = 1 .. Len(r) /\ \A k \in 1 .. Len(r) : r[k] \in S
    BY <1>10
  <2>3. r = [k \in 1 .. Len(r) |-> r[k]]
    BY <1>10
  <2>4. \A k \in 1 .. Len(r) : r[k] \in D
    BY <2>1, <2>2
  <2>5. r \in Seq(D)
    BY <2>2, <2>3, <2>4
  <2> QED
    BY <2>5 DEF D
<1> QED
  BY <1>8, <1>10, <1>11 DEF r, M, g, u
-----------------------------------------------------------------------------
(* The intersection of two vectors of products is one of them again.        *)
LEMMA IntersectIs ==
  ASSUME NEW L \in Nat, NEW v \in Seq(1 .. L), NEW w \in Seq(1 .. L)
  PROVE  /\ Intersect(v, w) \in Seq(1 .. L) /\ Increasing(Intersect(v, w))
         /\ ToSet(Intersect(v, w)) = ToSet(v) \cap ToSet(w)
<1> DEFINE S == ToSet(v) \cap ToSet(w)
           D == 1 .. L
           r == Intersect(v, w)
<1>1. S \in SUBSET D
  BY DEF ToSet
<1>2. r = Ascending(S)
  BY DEF Intersect
<1>3. D \in SUBSET Nat /\ IsFiniteSet(D)
  BY FS_Interval
<1> HIDE DEF S, D, r
<1>4. S \in SUBSET Nat /\ IsFiniteSet(S)
  BY <1>1, <1>3, FS_Subset
<1>5. r \in Seq(S) /\ ToSet(r) = S /\ Increasing(r)
  BY <1>2, <1>4, AscendingIs DEF Increasing
<1>6. r \in Seq(D)
  <2>1. Len(r) \in Nat /\ DOMAIN r = 1 .. Len(r) /\ \A k \in 1 .. Len(r) : r[k] \in S
    BY <1>5
  <2>2. r = [k \in 1 .. Len(r) |-> r[k]]
    BY <1>5
  <2>3. \A k \in 1 .. Len(r) : r[k] \in D
    BY <1>1, <2>1
  <2> QED
    BY <2>1, <2>2, <2>3
<1> QED
  BY <1>5, <1>6 DEF S, D, r

(* The products of the keywords up to one of them.                          *)
CommonStep(reds, g, k) ==
  IF k = 1 THEN reds[1] ELSE Intersect(g[k - 1], reds[k])

Common(reds, K) == CHOOSE g : g = [k \in K |-> CommonStep(reds, g, k)]

(* The loop of search defines them for every keyword.                       *)
LEMMA CommonExists ==
  ASSUME NEW N \in Nat, NEW reds
  PROVE  \A k \in 1 .. N :
           Common(reds, 1 .. N)[k] = CommonStep(reds, Common(reds, 1 .. N), k)
<1> DEFINE Commons(g, n) == g = [k \in 1 .. n |-> CommonStep(reds, g, k)]
           Bad == {n \in Nat : ~ \E g : Commons(g, n)}
<1>1. ASSUME Bad # {} PROVE FALSE
  <2> DEFINE m == Min(Bad)
  <2>1. m \in Bad /\ \A n \in Bad : m <= n
    BY <1>1, MinFound
  <2>2. m \in Nat /\ ~ \E g : Commons(g, m)
    BY <2>1
  <2> HIDE DEF m
  <2>3. ASSUME m # 0 PROVE \E g : Commons(g, m - 1)
    <3>1. m - 1 \in Nat /\ ~ (m <= m - 1)
      BY <2>2, <2>3
    <3>2. m - 1 \notin Bad
      BY <2>1, <3>1
    <3> QED
      BY <3>1, <3>2
  <2>4. CASE m = 0
    <3> DEFINE g == [k \in 1 .. 0 |-> <<>>]
    <3>1. g = [k \in 1 .. 0 |-> CommonStep(reds, g, k)]
      OBVIOUS
    <3> QED
      BY <2>2, <2>4, <3>1
  <2>5. CASE m # 0
    <3>1. PICK h : Commons(h, m - 1)
      BY <2>3, <2>5
    <3> DEFINE g == [k \in 1 .. m |-> CommonStep(reds, h, k)]
    <3>2. \A k \in 1 .. m - 1 : k \in 1 .. m /\ h[k] = CommonStep(reds, h, k)
      BY <2>2, <2>5, <3>1
    <3>3. \A k \in 1 .. m - 1 : g[k] = h[k]
      BY <3>2
    <3>4. ASSUME NEW k \in 1 .. m
          PROVE  CommonStep(reds, h, k) = CommonStep(reds, g, k)
      <4>1. CASE k = 1
        BY <4>1 DEF CommonStep
      <4>2. CASE k # 1
        <5>1. k - 1 \in 1 .. m - 1
          BY <2>2, <4>2
        <5>2. g[k - 1] = h[k - 1]
          BY <3>3, <5>1
        <5> HIDE DEF g
        <5> QED
          BY <5>2 DEF CommonStep
      <4> QED
        BY <4>1, <4>2
    <3>5. g = [k \in 1 .. m |-> CommonStep(reds, g, k)]
      BY <3>4
    <3> QED
      BY <2>2, <3>5
  <2> QED
    BY <2>4, <2>5
<1>2. PICK g : Commons(g, N)
  BY <1>1
<1> DEFINE c == Common(reds, 1 .. N)
<1>3. c = [k \in 1 .. N |-> CommonStep(reds, c, k)]
  BY <1>2 DEF Common
<1> HIDE DEF c
<1>4. \A k \in 1 .. N : c[k] = CommonStep(reds, c, k)
  BY <1>3
<1> QED
  BY <1>4 DEF c

(* They are the products every keyword so far is about, in order.           *)
LEMMA CommonIs ==
  ASSUME NEW L \in Nat, NEW N \in Nat, NEW reds,
         \A k \in 1 .. N : reds[k] \in Seq(1 .. L) /\ Increasing(reds[k])
  PROVE  \A k \in 1 .. N :
           LET r == Common(reds, 1 .. N)[k]
           IN  /\ r \in Seq(1 .. L) /\ Increasing(r)
               /\ \A i : i \in ToSet(r) <=> \A j \in 1 .. k : i \in ToSet(reds[j])
<1> DEFINE c == Common(reds, 1 .. N)
           Shared(k) == \A i : i \in ToSet(c[k]) <=> \A j \in 1 .. k : i \in ToSet(reds[j])
           Good(k) == c[k] \in Seq(1 .. L) /\ Increasing(c[k]) /\ Shared(k)
           Bad == {k \in 1 .. N : ~ Good(k)}
<1>1. \A k \in 1 .. N : c[k] = CommonStep(reds, c, k)
  BY CommonExists
<1> HIDE DEF c
<1>2. ASSUME Bad # {} PROVE FALSE
  <2> DEFINE m == Min(Bad)
  <2>1. m \in Bad /\ \A k \in Bad : m <= k
    <3>1. Bad \in SUBSET Nat
      OBVIOUS
    <3> QED
      BY <1>2, <3>1, MinFound
  <2> HIDE DEF m
  <2>2. m \in 1 .. N /\ ~ Good(m)
    BY <2>1
  <2> HIDE DEF Good
  <2>3. CASE m = 1
    <3>1. c[1] = reds[1]
      BY <1>1, <2>2, <2>3 DEF CommonStep
    <3>2. Shared(1)
      <4>1. 1 .. 1 = {1}
        OBVIOUS
      <4> QED
        BY <3>1, <4>1
    <3> QED
      BY <2>2, <2>3, <3>1, <3>2 DEF Good
  <2>4. CASE m # 1
    <3>1. m - 1 \in 1 .. N /\ ~ (m <= m - 1)
      BY <2>2, <2>4
    <3>2. Good(m - 1)
      BY <2>1, <3>1
    <3>3. c[m - 1] \in Seq(1 .. L) /\ Shared(m - 1)
      BY <3>2 DEF Good
    <3>4. c[m] = Intersect(c[m - 1], reds[m])
      BY <1>1, <2>2, <2>4 DEF CommonStep
    <3>5. /\ c[m] \in Seq(1 .. L) /\ Increasing(c[m])
          /\ ToSet(c[m]) = ToSet(c[m - 1]) \cap ToSet(reds[m])
      BY <2>2, <3>3, <3>4, IntersectIs
    <3>6. 1 .. m = (1 .. m - 1) \cup {m}
      BY <2>2
    <3>7. Shared(m)
      BY <3>3, <3>5, <3>6
    <3> QED
      BY <2>2, <3>5, <3>7 DEF Good
  <2> QED
    BY <2>3, <2>4
<1>3. \A k \in 1 .. N : Good(k)
  BY <1>2
<1> QED
  BY <1>3 DEF c

(* A search finds the products every keyword of the query is about.         *)
LEMMA SearchForIs ==
  ASSUME NEW list \in Seq(Text), NEW text \in Text
  PROVE  LET r == SearchFor(Generate(list), text)
         IN  /\ r \in Seq(DOMAIN list) /\ Increasing(r)
             /\ \A i : i \in ToSet(r)
                         <=> \A p \in ToSet(Keywords(text)) : i \in Having(list, p)
<1> DEFINE ks == Keywords(text)
           N == Len(ks)
           L == Len(list)
           g == Generate(list)
           Red(k) == Reduce(g, MatchingWords(g, UpperOf(ks[k])))
           reds == [k \in DOMAIN ks |-> Red(k)]
           r == SearchFor(g, text)
<1>1. r = Common(reds, DOMAIN ks)[N]
  BY DEF SearchFor, Common, CommonStep
<1>2. ks \in Seq(Text) /\ ks # <<>>
  BY KeywordsCut
<1> HIDE DEF ks
<1>3. /\ N \in Nat /\ DOMAIN ks = 1 .. N /\ N \in 1 .. N
      /\ \A k \in 1 .. N : ks[k] \in Text
  BY <1>2
<1>4. L \in Nat /\ DOMAIN list = 1 .. L
  OBVIOUS
<1>5. \A k \in 1 .. N : /\ Red(k) \in Seq(DOMAIN list) /\ Increasing(Red(k))
                        /\ ToSet(Red(k)) = Having(list, ks[k])
  BY <1>3, ReductionIs
<1> HIDE DEF Red, g, r, N, L
<1>6. \A k \in 1 .. N : /\ reds[k] \in Seq(1 .. L) /\ Increasing(reds[k])
                        /\ ToSet(reds[k]) = Having(list, ks[k])
  BY <1>3, <1>4, <1>5
<1>7. r = Common(reds, 1 .. N)[N]
  BY <1>1, <1>3
<1> HIDE DEF reds
<1>8. /\ r \in Seq(1 .. L) /\ Increasing(r)
      /\ \A i : i \in ToSet(r) <=> \A j \in 1 .. N : i \in ToSet(reds[j])
  <2> DEFINE c == Common(reds, 1 .. N)
  <2>1. \A k \in 1 .. N :
          /\ c[k] \in Seq(1 .. L) /\ Increasing(c[k])
          /\ \A i : i \in ToSet(c[k]) <=> \A j \in 1 .. k : i \in ToSet(reds[j])
    BY <1>3, <1>4, <1>6, CommonIs
  <2> HIDE DEF c
  <2>2. /\ c[N] \in Seq(1 .. L) /\ Increasing(c[N])
        /\ \A i : i \in ToSet(c[N]) <=> \A j \in 1 .. N : i \in ToSet(reds[j])
    BY <1>3, <2>1
  <2>3. r = c[N]
    BY <1>7 DEF c
  <2> QED
    BY <2>2, <2>3
<1>9. \A p : p \in ToSet(ks) <=> \E k \in 1 .. N : p = ks[k]
  BY <1>3 DEF ToSet
<1>10. \A i : i \in ToSet(r) <=> \A p \in ToSet(ks) : i \in Having(list, p)
  BY <1>6, <1>8, <1>9
<1> QED
  BY <1>4, <1>8, <1>10 DEF r, g, ks
-----------------------------------------------------------------------------
(* What the property asks of a product: every keyword that can be cut out   *)
(* of the query is found in its name.                                       *)
Fits(list, text, i) ==
  \A from, to \in 0 .. Len(text) + 1 :
    KeywordIn(text, from, to) =>
      IF to < from THEN list[i] # <<>>
      ELSE BeginsWord(list[i], SubSeq(text, from, to))

(* Those products, and no others, are found.                                *)
LEMMA SearchForExact ==
  ASSUME NEW list \in Seq(Text), NEW text \in Text
  PROVE  LET r == SearchFor(Generate(list), text)
         IN  /\ r \in Seq(DOMAIN list) /\ Increasing(r)
             /\ ToSet(r) = {i \in DOMAIN list : Fits(list, text, i)}
<1> DEFINE r == SearchFor(Generate(list), text)
           n == Len(text)
           ks == ToSet(Keywords(text))
<1>1. /\ r \in Seq(DOMAIN list) /\ Increasing(r)
      /\ \A i : i \in ToSet(r) <=> \A p \in ks : i \in Having(list, p)
  BY SearchForIs
<1>2. \A p : p \in ks <=> \E from, to \in 0 .. n + 1 :
                            KeywordIn(text, from, to) /\ p = SubSeq(text, from, to)
  BY KeywordsAre
<1>3. n \in Nat
  BY CodesOf
<1> HIDE DEF r, ks
<1>4. ASSUME NEW from \in 0 .. n + 1, NEW to \in 0 .. n + 1, KeywordIn(text, from, to)
      PROVE  SubSeq(text, from, to) = <<>> <=> to < from
  <2> DEFINE b == to + 1
             part == SubSeq(text, from, b - 1)
  <2>1. from \in 1 .. n + 1 /\ b \in from .. n + 1 /\ b - 1 = to
    BY <1>3, <1>4 DEF KeywordIn
  <2> HIDE DEF b
  <2>2. part \in Text /\ Len(part) = b - from
    BY <2>1, BetweenIs
  <2>3. part = SubSeq(text, from, to)
    BY <2>1
  <2> HIDE DEF part
  <2>4. part = <<>> <=> Len(part) = 0
    BY <2>2 DEF Text
  <2>5. b - from = 0 <=> to < from
    BY <1>3, <2>1
  <2> QED
    BY <2>2, <2>3, <2>4, <2>5
<1>5. ks # {}
  <2> DEFINE words == Keywords(text)
  <2>1. words \in Seq(Text) /\ words # <<>>
    BY KeywordsCut
  <2> HIDE DEF words
  <2>2. 1 \in DOMAIN words
    BY <2>1
  <2> QED
    BY <2>2 DEF ks, words, ToSet
<1>6. \A i \in ToSet(r) : i \in DOMAIN list
  BY <1>1, <1>5 DEF Having
<1>7. ASSUME NEW i \in DOMAIN list
      PROVE  (\A p \in ks : i \in Having(list, p)) <=> Fits(list, text, i)
  <2> DEFINE Has(p) == IF p = <<>> THEN list[i] # <<>> ELSE BeginsWord(list[i], p)
  <2>1. \A p : i \in Having(list, p) <=> Has(p)
    BY DEF Having
  <2> HIDE DEF Has
  <2>2. (\A p \in ks : Has(p))
          <=> \A from, to \in 0 .. n + 1 :
                KeywordIn(text, from, to) => Has(SubSeq(text, from, to))
    <3>1. ASSUME \A p \in ks : Has(p),
                 NEW from \in 0 .. n + 1, NEW to \in 0 .. n + 1,
                 KeywordIn(text, from, to)
          PROVE  Has(SubSeq(text, from, to))
      <4>1. SubSeq(text, from, to) \in ks
        BY <1>2, <3>1
      <4> QED
        BY <3>1, <4>1
    <3>2. ASSUME \A from, to \in 0 .. n + 1 :
                   KeywordIn(text, from, to) => Has(SubSeq(text, from, to)),
                 NEW p \in ks
          PROVE  Has(p)
      <4>1. PICK from, to \in 0 .. n + 1 :
              KeywordIn(text, from, to) /\ p = SubSeq(text, from, to)
        BY <1>2, <3>2
      <4>2. Has(SubSeq(text, from, to))
        BY <3>2, <4>1
      <4> QED
        BY <4>1, <4>2
    <3> QED
      BY <3>1, <3>2
  <2>3. \A from, to \in 0 .. n + 1 :
          KeywordIn(text, from, to) =>
            (Has(SubSeq(text, from, to))
               <=> IF to < from THEN list[i] # <<>>
                   ELSE BeginsWord(list[i], SubSeq(text, from, to)))
    BY <1>4 DEF Has
  <2>4. Fits(list, text, i)
          <=> \A from, to \in 0 .. n + 1 :
                KeywordIn(text, from, to) => Has(SubSeq(text, from, to))
    BY <2>3 DEF Fits
  <2> QED
    BY <2>1, <2>2, <2>4
<1>8. ToSet(r) = {i \in DOMAIN list : Fits(list, text, i)}
  BY <1>1, <1>6, <1>7
<1> QED
  BY <1>1, <1>8 DEF r
-----------------------------------------------------------------------------
(* The index is the one of the names, and the results are those of the      *)
(* query that is shown.                                                     *)
IndexOfNames == index = Generate(names)

ResultOfQuery ==
  \/ query = NoQuery /\ result = <<>>
  \/ query \in Queries /\ result = SearchFor(index, query)

IInv == names \in Lists /\ IndexOfNames /\ ResultOfQuery

(* Every search shows the results of the index as it was generated, and     *)
(* nothing changes the index after that.                                    *)
THEOREM Invariance == Spec => []IInv
<1>1. Init => IInv
  BY DEF Init, IInv, IndexOfNames, ResultOfQuery
<1>2. IInv /\ [Next]_vars => IInv'
  <2> SUFFICES ASSUME IInv, [Next]_vars PROVE IInv'
    OBVIOUS
  <2> USE DEF IInv, IndexOfNames, ResultOfQuery
  <2>1. ASSUME NEW text \in Queries, Search(text) PROVE IInv'
    BY <2>1 DEF Search
  <2>2. CASE Leave
    BY <2>2 DEF Leave
  <2>3. CASE UNCHANGED vars
    BY <2>3 DEF vars
  <2> QED
    BY <2>1, <2>2, <2>3 DEF Next
<1> QED
  BY <1>1, <1>2, PTL DEF Spec

(* The names and the query are texts.                                       *)
LEMMA TextsAre ==
  ASSUME IInv
  PROVE  /\ names \in Seq(Text)
         /\ query # NoQuery => query \in Text /\ result = SearchFor(Generate(names), query)
BY ListAssumption, QueryAssumption DEF IInv, IndexOfNames, ResultOfQuery, Text

(* Every index in the table and in the results is one of a product of the   *)
(* stock table, so the screen that shows them reads no others.              *)
THEOREM ResultsAreProducts == Spec => []TypeOK
<1>1. ASSUME IInv PROVE TypeOK
  <2>1. names \in Seq(Text) /\ index = Generate(names)
    BY <1>1, TextsAre DEF IInv, IndexOfNames
  <2>2. /\ DOMAIN index \in SUBSET Text
        /\ \A word \in DOMAIN index : index[word] \in Seq(DOMAIN names)
    BY <2>1, GenerateIs
  <2>3. query \in Text \cup {NoQuery} /\ result \in Seq(DOMAIN names)
    <3>1. CASE query = NoQuery
      <4>1. result = <<>>
        BY <1>1, <3>1, QueryAssumption DEF IInv, ResultOfQuery
      <4> QED
        BY <3>1, <4>1
    <3>2. CASE query # NoQuery
      <4>1. query \in Text /\ result = SearchFor(Generate(names), query)
        BY <1>1, <3>2, TextsAre
      <4> QED
        BY <2>1, <4>1, SearchForExact
    <3> QED
      BY <3>1, <3>2
  <2> QED
    BY <2>1, <2>2, <2>3 DEF TypeOK, Text
<1> QED
  BY <1>1, Invariance, PTL

(* A search returns the products in whose names every keyword begins a      *)
(* word, each once and in the order of the table, and no others.            *)
THEOREM FindsExactly == Spec => []SearchIsExact
<1>1. ASSUME IInv PROVE SearchIsExact
  <2>1. names \in Seq(Text)
    BY <1>1, TextsAre
  <2>2. ASSUME query # NoQuery
        PROVE  /\ Increasing(result)
               /\ ToSet(result) = {i \in DOMAIN names : Fits(names, query, i)}
    <3>1. query \in Text /\ result = SearchFor(Generate(names), query)
      BY <1>1, <2>2, TextsAre
    <3> QED
      BY <2>1, <3>1, SearchForExact
  <2> QED
    BY <2>2 DEF SearchIsExact, Increasing, Fits
<1> QED
  BY <1>1, Invariance, PTL

(* A name of letters, digits and spaces finds its own product: what is      *)
(* between its spaces begins a word of it, and it is in upper case already. *)
THEOREM FindsByOwnName == Spec => []FoundByOwnName
<1>1. ASSUME IInv PROVE FoundByOwnName
  <2>1. names \in Seq(Text) /\ index = Generate(names) /\ names \in Lists
    BY <1>1, TextsAre DEF IInv, IndexOfNames
  <2>2. ASSUME NEW i \in DOMAIN names, names[i] # <<>>,
               ToSet(names[i]) \subseteq Alnum \cup {Space}
        PROVE  i \in ToSet(SearchFor(index, names[i]))
    <3> DEFINE name == names[i]
               n == Len(name)
    <3>1. name \in Text
      BY <2>1
    <3>2. \A k \in DOMAIN name : name[k] \in {Upper[c] : c \in Char}
      BY <2>1, ListAssumption
    <3> HIDE DEF name
    <3>3. /\ n \in Nat /\ DOMAIN name = 1 .. n
          /\ \A k \in 1 .. n : name[k] \in Alnum \cup {Space}
      BY <2>2, <3>1, CodesOf DEF name, ToSet
    <3>4. \A k \in 1 .. n : Upper[name[k]] = name[k]
      BY <3>2, <3>3, CharAssumption
    <3>5. ASSUME NEW from \in 0 .. n + 1, NEW to \in 0 .. n + 1,
                 KeywordIn(name, from, to), ~ (to < from)
          PROVE  BeginsWord(name, SubSeq(name, from, to))
      <4> DEFINE b == to + 1
                 part == SubSeq(name, from, b - 1)
      <4>1. /\ from \in 1 .. n /\ to \in from .. n
            /\ from = 1 \/ name[from - 1] = Space
            /\ \A k \in from .. to : name[k] # Space
        <5>1. /\ from \in 1 .. n + 1 /\ to \in from - 1 .. n
              /\ from = 1 \/ name[from - 1] = Space
              /\ \A k \in from .. to : name[k] # Space
          BY <3>5 DEF KeywordIn, n
        <5> HIDE DEF n
        <5>2. from \in 1 .. n /\ to \in from .. n
          BY <3>3, <3>5, <5>1
        <5> QED
          BY <5>1, <5>2
      <4>2. from \in 1 .. n + 1 /\ b \in from .. n + 1 /\ b - 1 = to
        BY <3>3, <4>1
      <4> HIDE DEF b
      <4>3. /\ part \in Text /\ Len(part) = b - from
            /\ \A k \in 1 .. b - from : part[k] = name[from + k - 1]
        BY <3>1, <4>2, BetweenIs
      <4>4. part = SubSeq(name, from, to)
        BY <4>2
      <4> HIDE DEF part
      <4>5. DOMAIN part = 1 .. b - from
        BY <4>3, CodesOf
      <4>6. \A k \in 1 .. b - from :
              from + k - 1 \in from .. to /\ from + k - 1 \in 1 .. n
        BY <3>3, <4>1, <4>2
      <4>7. \A k \in DOMAIN part :
              name[from + k - 1] \in Alnum
                /\ name[from + k - 1] = Upper[part[k]]
        BY <3>3, <3>4, <4>1, <4>3, <4>5, <4>6
      <4>8. from + Len(part) - 1 <= n
        BY <3>3, <4>1, <4>2, <4>3
      <4>9. from = 1 \/ name[from - 1] \notin Alnum
        BY <4>1, CharAssumption
      <4>10. BeginsWord(name, part)
        BY <4>1, <4>7, <4>8, <4>9 DEF BeginsWord, n
      <4> QED
        BY <4>4, <4>10
    <3>6. Fits(names, name, i)
      BY <2>2, <3>5 DEF Fits, name, n
    <3>7. ToSet(SearchFor(index, name)) = {j \in DOMAIN names : Fits(names, name, j)}
      BY <2>1, <3>1, SearchForExact
    <3> QED
      BY <3>6, <3>7 DEF name
  <2> QED
    BY <2>2 DEF FoundByOwnName
<1> QED
  BY <1>1, Invariance, PTL
=============================================================================
