--------------------------- MODULE CsvTextProofs ----------------------------
(* What holds of the CSV files character by character, for every set of     *)
(* lines and locations: a table read from any text is addressable, tidy     *)
(* never meets a name it is undefined for, and a save is read back as the   *)
(* table it was made of exactly when the texts of the table allow it.  Of   *)
(* plain texts in marks, StockFile's cells say the same.                    *)
EXTENDS CsvText, StockFileProofs, SequenceTheorems

(* A line has characters and, printed by the exporter, numbers.             *)
Letter == Char \cup Int

String == Seq(Letter)

IInv ==
  /\ GoodOver(String, String, table)
  /\ result \in FileError \cup {Aborted}
-----------------------------------------------------------------------------
(* The ends of the fields of a line are positions of it, or the one behind. *)
Ends(line) == Separators(line) \cup {Len(line) + 1}

(* The ends are a finite set of positions, and the end of the line is one.  *)
LEMMA EndsType ==
  ASSUME NEW line \in String
  PROVE  /\ Len(line) \in Nat
         /\ Ends(line) \in SUBSET Nat /\ IsFiniteSet(Ends(line))
         /\ Cardinality(Ends(line)) \in Nat \ {0}
         /\ \A i \in Ends(line) : i \in 1 .. Len(line) + 1
<1>1. Len(line) \in Nat /\ DOMAIN line = 1 .. Len(line)
  BY DEF String
<1>2. Ends(line) \in SUBSET (1 .. Len(line) + 1)
  BY <1>1 DEF Ends, Separators
<1>3. IsFiniteSet(1 .. Len(line) + 1)
  BY <1>1, FS_Interval
<1>4. IsFiniteSet(Ends(line)) /\ Cardinality(Ends(line)) \in Nat
  BY <1>2, <1>3, FS_Subset, FS_CardinalityType
<1>5. Cardinality(Ends(line)) # 0
  BY <1>4, FS_EmptySet DEF Ends
<1> QED
  BY <1>1, <1>2, <1>4, <1>5

(* The characters of a field. *)
FieldBegin(line, k) == IF k = 1 THEN 1 ELSE Nth(Ends(line), k - 1) + 1

FieldText(line, k) == SubSeq(line, FieldBegin(line, k), Nth(Ends(line), k) - 1)

(* A field lies between two ends. *)
LEMMA FieldPlace ==
  ASSUME NEW line \in String, NEW k \in 1 .. Cardinality(Ends(line))
  PROVE  LET a == FieldBegin(line, k)
             b == Nth(Ends(line), k)
         IN  /\ a \in 1 .. Len(line) + 1 /\ b \in 1 .. Len(line) + 1 /\ a <= b
             /\ FieldText(line, k) \in String
             /\ Len(FieldText(line, k)) = b - a
             /\ \A i \in 1 .. b - a : FieldText(line, k)[i] = line[a + i - 1]
<1> DEFINE a == FieldBegin(line, k)
           b == Nth(Ends(line), k)
           n == Len(line)
<1>1. /\ n \in Nat /\ \A i \in 1 .. n : line[i] \in Letter
      /\ Ends(line) \in SUBSET Nat /\ IsFiniteSet(Ends(line))
      /\ \A i \in Ends(line) : i \in 1 .. n + 1
  BY EndsType DEF String
<1>2. b \in 1 .. n + 1
  BY <1>1, NthFound
<1>3. a \in 1 .. n + 1 /\ a <= b
  <2>1. CASE k = 1
    BY <1>1, <1>2, <2>1 DEF FieldBegin
  <2>2. CASE k # 1
    <3>1. /\ Nth(Ends(line), k - 1) \in 1 .. n + 1
          /\ Nth(Ends(line), k - 1) < b
      BY <1>1, <2>2, NthOrder
    <3>2. a = Nth(Ends(line), k - 1) + 1
      BY <2>2 DEF FieldBegin
    <3> HIDE DEF a, b
    <3> QED
      BY <1>1, <1>2, <3>1, <3>2
  <2> QED
    BY <2>1, <2>2
<1>4. FieldText(line, k) = SubSeq(line, a, b - 1)
  BY DEF FieldText
<1> HIDE DEF a, b, n
<1> DEFINE c == b - 1
<1>5. a \in Int /\ c \in Int /\ \A i \in a .. c : line[i] \in Letter
  BY <1>1, <1>2, <1>3
<1>6. /\ SubSeq(line, a, c) \in Seq(Letter)
      /\ Len(SubSeq(line, a, c)) = IF a <= c THEN c - a + 1 ELSE 0
      /\ \A i \in 1 .. c - a + 1 : SubSeq(line, a, c)[i] = line[a + i - 1]
  <2> HIDE DEF c
  <2> QED
    BY <1>5, SubSeqProperties
<1> DEFINE text == SubSeq(line, a, c)
<1> HIDE DEF text
<1>7. /\ text \in String /\ Len(text) = b - a
      /\ \A i \in 1 .. b - a : text[i] = line[a + i - 1]
  BY <1>1, <1>2, <1>3, <1>6 DEF text, String
<1> QED
  BY <1>2, <1>3, <1>4, <1>7 DEF a, b, n, text

(* What is inside a pair of marks. *)
LEMMA InsideType ==
  ASSUME NEW s \in String
  PROVE  Inside(s) \in String
<1>1. CASE Wrapped(s)
  <2>1. Len(s) >= 2 /\ Len(s) \in Nat
    BY <1>1 DEF Wrapped, String
  <2>2. /\ Front(s) \in Seq(Letter) /\ Front(s) # <<>>
    <3> DEFINE n == Len(s) - 1
    <3>1. n \in Int /\ 1 <= n /\ \A i \in 1 .. n : s[i] \in Letter
      BY <2>1 DEF String
    <3> HIDE DEF n
    <3>2. /\ SubSeq(s, 1, n) \in Seq(Letter)
          /\ Len(SubSeq(s, 1, n)) = n - 1 + 1
      BY <3>1, SubSeqProperties
    <3> DEFINE front == SubSeq(s, 1, n)
    <3> HIDE DEF front
    <3>3. front \in Seq(Letter) /\ front # <<>>
      <4>1. Len(front) # 0 /\ front \in Seq(Letter)
        BY <3>1, <3>2 DEF front
      <4> QED
        BY <4>1
    <3> QED
      BY <3>3 DEF Front, front, n
  <2> QED
    BY <1>1, <2>2 DEF Inside, String
<1>2. CASE ~ Wrapped(s)
  BY <1>2 DEF Inside
<1> QED
  BY <1>1, <1>2

(* The fields, in terms of the above. *)
LEMMA FieldsAre ==
  ASSUME NEW line \in String
  PROVE  LET n == Cardinality(Ends(line))
         IN  /\ Fields(line) \in Seq(String)
             /\ Len(Fields(line)) \in {n, n - 1}
             /\ \A k \in 1 .. Len(Fields(line)) :
                  Fields(line)[k] = Inside(FieldText(line, k))
<1> DEFINE n == Cardinality(Ends(line))
           all == [k \in 1 .. n |-> Inside(FieldText(line, k))]
<1>1. n \in Nat \ {0}
  BY EndsType
<1>2. \A k \in 1 .. n : Inside(FieldText(line, k)) \in String
  BY FieldPlace, InsideType
<1>3. /\ all \in Seq(String) /\ Len(all) = n
      /\ \A k \in 1 .. n : all[k] = Inside(FieldText(line, k))
  BY <1>1, <1>2
<1>4. Fields(line) = IF Len(line) \in Separators(line) THEN Front(all) ELSE all
  BY DEF Fields, Ends, FieldText, FieldBegin
<1> HIDE DEF all, n
<1>5. /\ Front(all) \in Seq(String) /\ Len(Front(all)) = n - 1
      /\ \A k \in 1 .. n - 1 : Front(all)[k] = all[k]
  <2> DEFINE m == Len(all) - 1
  <2>1. m = n - 1 /\ m \in Nat /\ \A i \in 1 .. m : all[i] \in String
    BY <1>1, <1>3
  <2> HIDE DEF m
  <2>2. /\ SubSeq(all, 1, m) \in Seq(String)
        /\ Len(SubSeq(all, 1, m)) = IF 1 <= m THEN m - 1 + 1 ELSE 0
        /\ \A i \in 1 .. m - 1 + 1 : SubSeq(all, 1, m)[i] = all[1 + i - 1]
    BY <2>1, SubSeqProperties
  <2> DEFINE front == SubSeq(all, 1, m)
  <2> HIDE DEF front
  <2>3. /\ front \in Seq(String) /\ Len(front) = n - 1
        /\ \A k \in 1 .. n - 1 : front[k] = all[k]
    BY <2>1, <2>2 DEF front
  <2> QED
    BY <2>3 DEF Front, front, m
<1>6. CASE Len(line) \in Separators(line)
  BY <1>1, <1>3, <1>4, <1>5, <1>6 DEF n
<1>7. CASE Len(line) \notin Separators(line)
  BY <1>1, <1>3, <1>4, <1>7 DEF n
<1> QED
  BY <1>6, <1>7
-----------------------------------------------------------------------------
(* The marks before a position. *)
LEMMA QuotesCount ==
  ASSUME NEW line, NEW i \in Nat \ {0}
  PROVE  /\ QuotesBefore(line, 1) = 0
         /\ QuotesBefore(line, i) \in Nat
         /\ QuotesBefore(line, i + 1)
              = QuotesBefore(line, i) + (IF line[i] = Quote THEN 1 ELSE 0)
<1> DEFINE P(m) == {k \in 1 .. m - 1 : line[k] = Quote}
<1>1. ASSUME NEW m \in Nat \ {0}
      PROVE  IsFiniteSet(P(m)) /\ Cardinality(P(m)) \in Nat
  <2>1. IsFiniteSet(1 .. m - 1) /\ P(m) \in SUBSET (1 .. m - 1)
    BY FS_Interval
  <2> QED
    BY <2>1, FS_Subset, FS_CardinalityType
<1>2. P(1) = {}
  OBVIOUS
<1>3. P(i + 1) = P(i) \cup (IF line[i] = Quote THEN {i} ELSE {})
  OBVIOUS
<1>4. i \notin P(i)
  OBVIOUS
<1>5. \A m : QuotesBefore(line, m) = Cardinality(P(m))
  BY DEF QuotesBefore
<1> HIDE DEF P
<1>6. Cardinality(P(i + 1))
        = Cardinality(P(i)) + (IF line[i] = Quote THEN 1 ELSE 0)
  <2>1. CASE line[i] = Quote
    BY <1>1, <1>3, <1>4, <2>1, FS_AddElement
  <2>2. CASE line[i] # Quote
    <3>1. P(i + 1) = P(i) /\ Cardinality(P(i)) \in Nat
      BY <1>1, <1>3, <2>2
    <3> QED
      BY <2>2, <3>1
  <2> QED
    BY <2>1, <2>2
<1> QED
  BY <1>1, <1>2, <1>5, <1>6, FS_EmptySet

(* One mark alone. *)
LEMMA OneMark ==
  ASSUME NEW s, s = <<Quote>>
  PROVE  Len(s) = 1 /\ s[1] = Quote
OBVIOUS

(* The rest of a sequence. *)
LEMMA TailAt ==
  ASSUME NEW S, NEW s \in Seq(S), NEW i \in 1 .. Len(s) - 1
  PROVE  Tail(s)[i] = s[i + 1]
OBVIOUS

(* Marks come in pairs up to every separator, so a field that ends at one   *)
(* has pairs of them, and is neither one mark nor three.                    *)
LEMMA MarksPaired ==
  ASSUME NEW line \in String, NEW k \in 1 .. Cardinality(Ends(line)) - 1
  PROVE  ~ PopsEmpty(Inside(FieldText(line, k)))
<1> DEFINE a == FieldBegin(line, k)
           b == Nth(Ends(line), k)
           n == Len(line)
           Q(i) == QuotesBefore(line, i)
           text == FieldText(line, k)
<1>1. /\ n \in Nat
      /\ Ends(line) \in SUBSET Nat /\ IsFiniteSet(Ends(line))
      /\ Cardinality(Ends(line)) \in Nat \ {0}
      /\ \A i \in Ends(line) : i \in 1 .. n + 1
  BY EndsType
<1>2. k \in 1 .. Cardinality(Ends(line)) /\ k # Cardinality(Ends(line))
  BY <1>1
<1>3. /\ a \in 1 .. n + 1 /\ b \in 1 .. n + 1 /\ a <= b
      /\ text \in String /\ Len(text) = b - a
      /\ \A i \in 1 .. b - a : text[i] = line[a + i - 1]
  BY <1>2, FieldPlace
<1>4. b \in Separators(line) /\ b <= n
  <2>1. n + 1 \in Ends(line) /\ \A j \in Ends(line) : j <= n + 1
    BY <1>1 DEF Ends
  <2>2. b # n + 1
    BY <1>1, <1>2, <2>1, NthOrder
  <2>3. b \in Ends(line)
    BY <1>1, <1>2, NthFound
  <2> QED
    BY <1>1, <1>3, <2>2, <2>3 DEF Ends
<1>5. \A i \in Separators(line) : line[i] = Comma /\ Q(i) % 2 = 0
  BY DEF Separators
<1>6. \A i \in Nat \ {0} :
        /\ Q(i) \in Nat /\ Q(1) = 0
        /\ Q(i + 1) = Q(i) + (IF line[i] = Quote THEN 1 ELSE 0)
  BY QuotesCount
<1> HIDE DEF Q
<1>7. Q(a) % 2 = 0
  <2>1. CASE k = 1
    BY <1>6, <2>1 DEF FieldBegin
  <2>2. CASE k # 1
    <3> DEFINE c == Nth(Ends(line), k - 1)
    <3>1. c \in Ends(line) /\ c < b /\ a = c + 1
      BY <1>1, <1>2, <2>2, NthOrder DEF FieldBegin
    <3> HIDE DEF c, a, b
    <3>2. c \in Nat \ {0} /\ c # n + 1
      BY <1>1, <1>3, <3>1
    <3>3. c \in Separators(line)
      BY <3>1, <3>2 DEF Ends
    <3>4. Q(c + 1) = Q(c)
      <4>1. line[c] # Quote
        BY <1>5, <3>3, CharAssumption
      <4>2. Q(c) \in Nat /\ Q(c + 1) = Q(c) + 0
        BY <1>6, <3>2, <4>1
      <4> QED
        BY <4>2
    <3> QED
      BY <1>5, <3>1, <3>3, <3>4
  <2> QED
    BY <2>1, <2>2
<1>8. Q(b) % 2 = 0
  BY <1>4, <1>5
<1> HIDE DEF a, b, n, text
<1>9. ASSUME b = a + 1, text[1] = Quote PROVE FALSE
  <2>1. line[a] = Quote /\ a \in Nat \ {0}
    BY <1>1, <1>3, <1>9
  <2>2. Q(b) = Q(a) + 1 /\ Q(a) \in Nat
    BY <1>6, <1>9, <2>1
  <2> QED
    BY <1>7, <1>8, <2>2
<1>10. ASSUME b = a + 3, text[1] = Quote, text[2] = Quote, text[3] = Quote
       PROVE  FALSE
  <2>1. /\ line[a] = Quote /\ line[a + 1] = Quote /\ line[a + 2] = Quote
        /\ a \in Nat \ {0} /\ a + 1 \in Nat \ {0} /\ a + 2 \in Nat \ {0}
    BY <1>1, <1>3, <1>10
  <2>2. /\ Q(a + 1) = Q(a) + 1 /\ Q(a + 1 + 1) = Q(a + 1) + 1
        /\ Q(a + 2 + 1) = Q(a + 2) + 1 /\ Q(a) \in Nat
    BY <1>6, <2>1
  <2>3. a + 1 + 1 = a + 2 /\ a + 2 + 1 = b
    BY <1>10, <2>1
  <2>4. Q(b) = Q(a) + 3
    BY <2>2, <2>3
  <2> QED
    BY <1>7, <1>8, <2>2, <2>4
<1>11. ASSUME Inside(text) = <<Quote>> PROVE FALSE
  <2>1. CASE ~ Wrapped(text)
    <3>1. text = <<Quote>>
      BY <1>11, <2>1 DEF Inside
    <3>2. Len(text) = 1 /\ text[1] = Quote
      BY <3>1
    <3> QED
      <4>1. b - a = 1
        BY <1>3, <3>2
      <4>2. a \in Int /\ b \in Int
        BY <1>1, <1>3
      <4>3. b = a + 1
        BY <4>1, <4>2
      <4> QED
        BY <1>9, <3>2, <4>3
  <2>2. CASE Wrapped(text)
    <3>1. /\ Len(text) \in Nat /\ Len(text) >= 2
          /\ text[1] = Quote /\ text[Len(text)] = Quote
      BY <1>3, <2>2 DEF Wrapped, String, Last
    <3> DEFINE m == Len(text) - 1
               front == SubSeq(text, 1, m)
    <3>2. m \in Int /\ 1 <= m /\ \A i \in 1 .. m : text[i] \in Letter
      BY <1>3, <3>1 DEF String
    <3> HIDE DEF m
    <3>3. /\ SubSeq(text, 1, m) \in Seq(Letter)
          /\ Len(SubSeq(text, 1, m)) = IF 1 <= m THEN m - 1 + 1 ELSE 0
          /\ \A i \in 1 .. m - 1 + 1 : SubSeq(text, 1, m)[i] = text[1 + i - 1]
      BY <3>2, SubSeqProperties
    <3> HIDE DEF front
    <3>4. /\ front \in Seq(Letter) /\ Len(front) = m
          /\ \A i \in 1 .. m : front[i] = text[i]
      BY <3>2, <3>3 DEF front
    <3>5. Tail(front) = <<Quote>>
      BY <1>11, <2>2 DEF Inside, Front, front, m
    <3>6. Len(Tail(front)) = m - 1 /\ Tail(front)[1] = front[2]
      <4>1. Len(front) # 0 /\ front # <<>>
        BY <3>2, <3>4
      <4>2. Len(Tail(front)) = m - 1
        BY <3>2, <3>4, <4>1
      <4>3. Len(Tail(front)) = 1
        BY <3>5, OneMark
      <4>4. 1 \in 1 .. Len(front) - 1
        BY <3>2, <3>4, <4>2, <4>3
      <4>5. Tail(front)[1] = front[1 + 1]
        BY <3>4, <4>4, TailAt
      <4>6. 1 + 1 = 2
        OBVIOUS
      <4> QED
        BY <4>2, <4>5, <4>6
    <3>7. m = 2 /\ text[2] = Quote
      <4>1. Len(Tail(front)) = 1 /\ Tail(front)[1] = Quote
        BY <3>5, OneMark
      <4>2. m - 1 = 1 /\ m \in Int
        BY <3>2, <3>6, <4>1
      <4>3. m = 2
        BY <4>2
      <4> QED
        BY <3>4, <3>6, <4>1, <4>3
    <3> QED
      BY <1>1, <1>3, <1>10, <3>1, <3>7 DEF m
  <2> QED
    BY <2>1, <2>2
<1> QED
  BY <1>11 DEF PopsEmpty, text
-----------------------------------------------------------------------------
(* One line: its fields and its counts. *)
LEMMA RowOfType ==
  ASSUME NEW line \in String
  PROVE  LET row == RowOf(line, 3)
         IN  /\ row.fields = Fields(line)
             /\ ~ row.short => Len(Fields(line)) >= 3
             /\ row.counts \in Seq(Int \cup {NoNumber})
<1> DEFINE n == Len(Fields(line)) - 3
           counts == [u \in 1 .. n |-> Number(Fields(line)[3 + u])]
<1>1. Fields(line) \in Seq(String)
  BY FieldsAre
<1>2. n \in Int
  BY <1>1
<1>3. \A field : Number(field) \in Int \cup {NoNumber}
  BY DEF Number
<1>4. RowOf(line, 3) = [fields |-> Fields(line), short |-> n < 0, counts |-> counts]
  BY DEF RowOf
<1>5. counts \in Seq(Int \cup {NoNumber})
  <2> HIDE DEF n
  <2>1. CASE n < 0
    <3>1. 1 .. n = 1 .. 0
      BY <1>2, <2>1
    <3> QED
      BY <1>3, <3>1, FunctionIsSeq
  <2>2. CASE n >= 0
    BY <1>2, <1>3, <2>2, FunctionIsSeq
  <2> QED
    BY <1>2, <2>1, <2>2
<1> HIDE DEF counts, n
<1>6. RowOf(line, 3).short = (n < 0)
  BY <1>4
<1>7. Len(Fields(line)) < 3 => n < 0
  BY <1>1 DEF n
<1>8. Len(Fields(line)) \in Nat
  BY <1>1
<1>9. ASSUME ~ RowOf(line, 3).short PROVE Len(Fields(line)) >= 3
  <2>1. ~ (n < 0)
    BY <1>6, <1>9, Zenon
  <2>2. ~ (Len(Fields(line)) < 3)
    BY <1>7, <2>1
  <2> QED
    BY <1>8, <2>2
<1>10. RowOf(line, 3).fields = Fields(line) /\ RowOf(line, 3).counts = counts
  BY <1>4
<1> QED
  BY <1>5, <1>9, <1>10

(* The element of a line. *)
TextElement(line, name, n) ==
  [name   |-> RowOf(line, 3).fields[name],
   size   |-> RowOf(line, 3).fields[name + 1],
   counts |-> [u \in 1 .. n |->
                 [location |-> u, count |-> RowOf(line, 3).counts[u]]]]

(* A line that is taken has a count for every column, and a name that is    *)
(* followed by other fields.                                                *)
LEMMA LineTaken ==
  ASSUME NEW line \in String, NEW name \in {1, 2}, NEW n \in Nat,
         RowResult(RowOf(line, 3), n) = "none"
  PROVE  /\ TextElement(line, name, n) \in ElementOver(String)
         /\ ElementAddressable(TextElement(line, name, n), n)
         /\ ~ PopsEmpty(TextElement(line, name, n).name)
<1> DEFINE row == RowOf(line, 3)
           fields == Fields(line)
           counts == [u \in 1 .. n |-> [location |-> u, count |-> row.counts[u]]]
           elem == TextElement(line, name, n)
<1>1. /\ row.fields = fields /\ (~ row.short => Len(fields) >= 3)
      /\ row.counts \in Seq(Int \cup {NoNumber})
  BY RowOfType
<1> HIDE DEF row
<1>2. /\ ~ row.short /\ ~ (Len(row.counts) < n)
      /\ \A u \in 1 .. n : ~ (u \in DOMAIN row.counts /\ row.counts[u] = NoNumber)
  BY DEF RowResult, row, Aborted
<1>3. \A u \in 1 .. n : row.counts[u] \in Int
  <2>1. Len(row.counts) \in Nat /\ DOMAIN row.counts = 1 .. Len(row.counts)
    BY <1>1
  <2>2. \A u \in 1 .. n : u \in DOMAIN row.counts
    BY <1>2, <2>1
  <2> QED
    BY <1>1, <1>2, <2>2
<1>4. /\ fields \in Seq(String)
      /\ Len(fields) \in {Cardinality(Ends(line)), Cardinality(Ends(line)) - 1}
      /\ \A k \in 1 .. Len(fields) : fields[k] = Inside(FieldText(line, k))
      /\ Cardinality(Ends(line)) \in Nat
  BY FieldsAre, EndsType
<1> HIDE DEF fields
<1>5. Len(fields) >= 3 /\ Len(fields) \in Nat
  BY <1>1, <1>2, <1>4
<1>6. /\ name \in 1 .. Len(fields) /\ name + 1 \in 1 .. Len(fields)
      /\ name \in 1 .. Cardinality(Ends(line)) - 1
  BY <1>4, <1>5
<1>7. fields[name] \in String /\ fields[name + 1] \in String
  BY <1>4, <1>6
<1>8. ~ PopsEmpty(fields[name])
  BY <1>4, <1>6, MarksPaired
<1>9. /\ counts \in Seq(Count) /\ DOMAIN counts = 1 .. n
      /\ \A u \in 1 .. n : counts[u].location = u
  <2>1. \A u \in 1 .. n : [location |-> u, count |-> row.counts[u]] \in Count
    BY <1>3 DEF Count
  <2> QED
    BY <2>1
<1>10. elem = [name |-> fields[name], size |-> fields[name + 1], counts |-> counts]
  BY <1>1 DEF TextElement, row
<1> HIDE DEF counts, elem
<1>11. elem \in ElementOver(String)
  BY <1>7, <1>9, <1>10 DEF ElementOver
<1>12. ElementAddressable(elem, n)
  BY <1>9, <1>10 DEF ElementAddressable
<1>13. ~ PopsEmpty(elem.name)
  BY <1>8, <1>10
<1> QED
  BY <1>11, <1>12, <1>13 DEF elem

(* Lines that are all taken. *)
LEMMA LinesTaken ==
  ASSUME NEW lines \in Seq(String), NEW name \in {1, 2}, NEW n \in Nat,
         \A i \in DOMAIN lines : RowResult(RowOf(lines[i], 3), n) = "none"
  PROVE  LET elements == TextElements(lines, name, 3, n)
         IN  /\ elements \in Seq(ElementOver(String))
             /\ \A i \in DOMAIN elements :
                  /\ ElementAddressable(elements[i], n)
                  /\ ~ PopsEmpty(elements[i].name)
<1> DEFINE elements == TextElements(lines, name, 3, n)
<1>1. elements = [i \in 1 .. Len(lines) |-> TextElement(lines[i], name, n)]
  BY DEF TextElements, TextElement
<1>2. \A i \in 1 .. Len(lines) :
        /\ TextElement(lines[i], name, n) \in ElementOver(String)
        /\ ElementAddressable(TextElement(lines[i], name, n), n)
        /\ ~ PopsEmpty(TextElement(lines[i], name, n).name)
  BY LineTaken
<1>3. Len(lines) \in Nat
  OBVIOUS
<1> HIDE DEF elements
<1>4. /\ elements \in Seq(ElementOver(String))
      /\ DOMAIN elements = 1 .. Len(lines)
      /\ \A i \in 1 .. Len(lines) : elements[i] = TextElement(lines[i], name, n)
  BY <1>1, <1>2, <1>3
<1> QED
  BY <1>2, <1>4 DEF elements

(* tidy leaves texts where they were. *)
LEMMA TidyTextsKeep ==
  ASSUME NEW elements \in Seq(ElementOver(String)), NEW n \in Nat,
         \A i \in DOMAIN elements : ElementAddressable(elements[i], n)
  PROVE  /\ TidyTexts(elements) \in Seq(ElementOver(String))
         /\ \A i \in DOMAIN TidyTexts(elements) :
              ElementAddressable(TidyTexts(elements)[i], n)
<1> DEFINE tidied == TidyTexts(elements)
           new(i) == [elements[i] EXCEPT !.name = TidyText(@)]
<1>1. ASSUME NEW i \in 1 .. Len(elements)
      PROVE  new(i) \in ElementOver(String) /\ ElementAddressable(new(i), n)
  <2>1. /\ elements[i] \in ElementOver(String)
        /\ ElementAddressable(elements[i], n)
    OBVIOUS
  <2>2. elements[i].name \in String
    BY <2>1 DEF ElementOver
  <2> DEFINE name == TidyText(elements[i].name)
  <2>3. name \in String
    BY <2>2, InsideType DEF TidyText
  <2>4. new(i) = [elements[i] EXCEPT !.name = name]
    BY <2>1 DEF ElementOver
  <2> HIDE DEF name, new
  <2>5. new(i) \in ElementOver(String) /\ new(i).counts = elements[i].counts
    BY <2>1, <2>3, <2>4 DEF ElementOver
  <2> QED
    BY <2>1, <2>5 DEF ElementAddressable
<1>2. tidied = [i \in 1 .. Len(elements) |-> new(i)]
  BY DEF TidyTexts
<1> HIDE DEF tidied, new
<1>3. Len(elements) \in Nat
  OBVIOUS
<1>4. /\ tidied \in Seq(ElementOver(String))
      /\ DOMAIN tidied = 1 .. Len(elements)
      /\ \A i \in 1 .. Len(elements) : tidied[i] = new(i)
  BY <1>1, <1>2, <1>3
<1> QED
  BY <1>1, <1>4 DEF tidied

(* What a load makes of any lines. *)
Good(load) ==
  /\ GoodOver(String, String, load.table)
  /\ load.result \in FileError \cup {Aborted}

(* Whatever the lines are, a load leaves a good table and one of its codes. *)
LEMMA ReadLinesGood ==
  ASSUME NEW lines \in Seq(String), NEW name \in {1, 2},
         NEW locations \in Seq(String)
  PROVE  Good(ReadLines(lines, name, 3, locations))
<1> DEFINE n == Len(locations)
           rows == [i \in DOMAIN lines |-> RowOf(lines[i], 3)]
           S == {RowOf(line, 3) : line \in String}
           bad == FailingRow(rows, n)
           all == TextElements(lines, name, 3, n)
           load == ReadLines(lines, name, 3, locations)
<1>1. n \in Nat /\ Len(lines) \in Nat /\ DOMAIN lines = 1 .. Len(lines)
  OBVIOUS
<1>2. /\ rows \in Seq(S) /\ DOMAIN rows = 1 .. Len(lines)
      /\ \A i \in 1 .. Len(lines) : rows[i] = RowOf(lines[i], 3)
  BY <1>1
<1>3. IF bad = 0
      THEN \A j \in DOMAIN rows : RowResult(rows[j], n) = "none"
      ELSE /\ bad \in DOMAIN rows
           /\ RowResult(rows[bad], n) # "none"
           /\ \A j \in 1 .. bad - 1 : RowResult(rows[j], n) = "none"
  <2> HIDE DEF rows, S
  <2> QED
    BY <1>1, <1>2, FailingRowFound
<1>4. \A code : Refused(code).table = EmptyTable /\ Refused(code).result = code
  BY DEF Refused
<1>5. GoodOver(String, String, EmptyTable)
  BY DEF GoodOver, TableOver, EmptyTable, TableAddressable, FirstOfItsName
<1>6. load = IF bad = 0
             THEN IF \E i \in DOMAIN all : PopsEmpty(all[i].name)
                  THEN Refused(Undefined)
                  ELSE Loaded("none", TidyTexts(all), locations)
             ELSE IF RowResult(RowOf(lines[bad], 3), n) = Aborted
             THEN Refused(Aborted)
             ELSE Loaded("unable_to_parse_count",
                         TextElements(SubSeq(lines, 1, bad - 1), name, 3, n),
                         locations)
  BY DEF ReadLines
<1> HIDE DEF bad, rows, S, all, load
<1>7. CASE bad = 0
  <2>1. \A i \in DOMAIN lines : RowResult(RowOf(lines[i], 3), n) = "none"
    BY <1>1, <1>2, <1>3, <1>7
  <2>2. /\ all \in Seq(ElementOver(String))
        /\ \A i \in DOMAIN all :
             ElementAddressable(all[i], n) /\ ~ PopsEmpty(all[i].name)
    BY <1>1, <2>1, LinesTaken DEF all
  <2>3. load = Loaded("none", TidyTexts(all), locations)
    BY <1>6, <1>7, <2>2
  <2>4. /\ TidyTexts(all) \in Seq(ElementOver(String))
        /\ \A i \in DOMAIN TidyTexts(all) :
             ElementAddressable(TidyTexts(all)[i], n)
    BY <1>1, <2>2, TidyTextsKeep
  <2>5. GoodOver(String, String, load.table)
    BY <2>3, <2>4, LoadedOver
  <2>6. load.result = "none"
    BY <2>3 DEF Loaded
  <2> QED
    BY <2>5, <2>6 DEF Good, FileError, load
<1>8. CASE bad # 0 /\ RowResult(RowOf(lines[bad], 3), n) = Aborted
  BY <1>4, <1>5, <1>6, <1>8 DEF Good, load
<1>9. CASE bad # 0 /\ RowResult(RowOf(lines[bad], 3), n) # Aborted
  <2> DEFINE taken == SubSeq(lines, 1, bad - 1)
             some == TextElements(taken, name, 3, n)
  <2>1. bad \in 1 .. Len(lines) /\ bad - 1 \in Nat
    BY <1>1, <1>2, <1>3, <1>9
  <2>2. /\ taken \in Seq(String) /\ Len(taken) = bad - 1
        /\ \A i \in 1 .. bad - 1 : taken[i] = lines[i]
    <3> DEFINE m == bad - 1
    <3>1. m \in Nat /\ \A i \in 1 .. m : lines[i] \in String
      BY <1>1, <2>1
    <3> HIDE DEF m
    <3>2. /\ SubSeq(lines, 1, m) \in Seq(String)
          /\ Len(SubSeq(lines, 1, m)) = IF 1 <= m THEN m - 1 + 1 ELSE 0
          /\ \A i \in 1 .. m - 1 + 1 : SubSeq(lines, 1, m)[i] = lines[1 + i - 1]
      BY <3>1, SubSeqProperties
    <3> DEFINE begun == SubSeq(lines, 1, m)
    <3> HIDE DEF begun
    <3>3. /\ begun \in Seq(String) /\ Len(begun) = m
          /\ \A i \in 1 .. m : begun[i] = lines[i]
      BY <3>1, <3>2 DEF begun
    <3> QED
      BY <3>3 DEF begun, m
  <2> HIDE DEF taken
  <2>3. \A i \in DOMAIN taken : RowResult(RowOf(taken[i], 3), n) = "none"
    <3>1. \A i \in 1 .. bad - 1 : i \in 1 .. Len(lines)
      BY <1>1, <2>1
    <3>2. DOMAIN taken = 1 .. bad - 1
      BY <2>2
    <3> QED
      BY <1>2, <1>3, <1>9, <2>2, <3>1, <3>2
  <2>4. /\ some \in Seq(ElementOver(String))
        /\ \A i \in DOMAIN some : ElementAddressable(some[i], n)
    BY <1>1, <2>2, <2>3, LinesTaken
  <2>5. load = Loaded("unable_to_parse_count", some, locations)
    BY <1>6, <1>9 DEF taken
  <2> HIDE DEF some
  <2>6. GoodOver(String, String, load.table)
    BY <2>4, <2>5, LoadedOver
  <2>7. load.result = "unable_to_parse_count"
    BY <2>5 DEF Loaded
  <2> QED
    BY <2>6, <2>7 DEF Good, FileError, load
<1> QED
  BY <1>7, <1>8, <1>9 DEF load
-----------------------------------------------------------------------------
(* What is written of a product, and of the locations, is a line.           *)
LEMMA QuotedType ==
  ASSUME NEW s \in String
  PROVE  /\ Quoted(s) \in String
         /\ <<Comma>> \o Quoted(s) \in String
<1>1. Quote \in Letter /\ Comma \in Letter
  BY CharAssumption DEF Letter
<1>2. <<Quote>> \in Seq(Letter) /\ <<Comma>> \in Seq(Letter)
  BY <1>1
<1>3. s \in Seq(Letter)
  BY DEF String
<1>4. <<Quote>> \o s \in Seq(Letter)
  BY <1>2, <1>3
<1>5. (<<Quote>> \o s) \o <<Quote>> \in Seq(Letter)
  BY <1>2, <1>4
<1> DEFINE q == Quoted(s)
<1>6. q \in Seq(Letter)
  BY <1>5 DEF Quoted
<1> HIDE DEF q
<1>7. <<Comma>> \o q \in Seq(Letter)
  BY <1>2, <1>6
<1> QED
  BY <1>6, <1>7 DEF String, q

(* The sum of a product is a number. *)
LEMMA SumCountsOver ==
  ASSUME NEW elem \in ElementOver(String)
  PROVE  SumCounts(elem) \in Int
<1> DEFINE I == DOMAIN elem.counts
           g == [k \in I |-> elem.counts[k].count]
<1>1. elem.counts \in Seq(Count)
  BY DEF ElementOver
<1>2. IsFiniteSet(I)
  BY <1>1, FS_Interval
<1>3. \A k \in I : g[k] \in Int
  <2>1. \A k \in I : elem.counts[k] \in Count
    BY <1>1
  <2>2. \A pair \in Count : pair.count \in Int
    BY DEF Count
  <2> QED
    BY <2>1, <2>2
<1>4. SumCounts(elem) = SumFunctionOnSet(g, I)
  BY DEF SumCounts, SumFunction
<1> HIDE DEF g
<1> QED
  BY <1>2, <1>3, <1>4, SumType

(* A product is written as a line. *)
LEMMA ExportLineType ==
  ASSUME NEW elem \in ElementOver(String), NEW n \in Nat
  PROVE  ExportLine(elem, n) \in String
<1> DEFINE cell(u) == <<Comma, Printed(GetCount(elem, u))>>
           cells == [u \in 1 .. n |-> cell(u)]
           total == <<Comma, Printed(SumCounts(elem))>>
<1>1. elem.name \in String /\ elem.size \in String /\ elem.counts \in Seq(Count)
  BY DEF ElementOver
<1>2. Comma \in Letter /\ \A c \in Int : c \in Letter
  BY CharAssumption DEF Letter
<1>3. \A u \in 1 .. n : cell(u) \in Seq(Letter)
  <2>1. \A u \in 1 .. n : Printed(GetCount(elem, u)) \in Letter
    BY <1>2, GetCountOver, PrintedType
  <2> QED
    BY <1>2, <2>1
<1>4. SumCounts(elem) \in Int
  BY SumCountsOver
<1>5. total \in Seq(Letter)
  <2>1. Printed(SumCounts(elem)) \in Letter
    BY <1>2, <1>4, PrintedType
  <2> QED
    BY <1>2, <2>1
<1>6. cells \in Seq(Seq(Letter))
  <2> HIDE DEF cell
  <2> QED
    BY <1>3
<1> DEFINE name == Quoted(elem.name)
           size == Quoted(elem.size)
           flat == FlattenSeq(cells)
           comma == <<Comma>>
<1>7. /\ name \in Seq(Letter) /\ size \in Seq(Letter) /\ flat \in Seq(Letter)
      /\ comma \in Seq(Letter)
  <2>1. flat \in Seq(Letter)
    <3> HIDE DEF cells
    <3> QED
      BY <1>6, FlattenType
  <2>2. name \in Seq(Letter) /\ size \in Seq(Letter)
    BY <1>1, QuotedType DEF String
  <2>3. comma \in Seq(Letter)
    BY <1>2
  <2> QED
    BY <2>1, <2>2, <2>3
<1>8. ExportLine(elem, n) = (((name \o comma) \o size) \o total) \o flat
  BY DEF ExportLine
<1> HIDE DEF name, size, flat, total, comma
<1>9. (((name \o comma) \o size) \o total) \o flat \in Seq(Letter)
  BY <1>5, <1>7
<1> QED
  BY <1>8, <1>9 DEF String

(* The locations are written as a header. *)
LEMMA ExportHeaderType ==
  ASSUME NEW locations \in Seq(String)
  PROVE  ExportHeader(locations) \in String
<1> DEFINE cell(u) == IF u = 1 THEN Quoted(locations[u])
                      ELSE <<Comma>> \o Quoted(locations[u])
           cells == [u \in DOMAIN locations |-> cell(u)]
<1>1. DOMAIN locations = 1 .. Len(locations) /\ Len(locations) \in Nat
  OBVIOUS
<1>2. \A u \in 1 .. Len(locations) : cell(u) \in Seq(Letter)
  <2> SUFFICES ASSUME NEW u \in 1 .. Len(locations)
               PROVE  cell(u) \in Seq(Letter)
    OBVIOUS
  <2> DEFINE body == Quoted(locations[u])
             comma == <<Comma>>
  <2>1. locations[u] \in String
    BY <1>1
  <2>2. body \in Seq(Letter)
    BY <2>1, QuotedType DEF String
  <2>3. comma \in Seq(Letter)
    BY CharAssumption DEF Letter
  <2>4. comma \o body \in Seq(Letter)
    <3> HIDE DEF body, comma
    <3> QED
      BY <2>2, <2>3
  <2>5. CASE u = 1
    BY <2>2, <2>5
  <2>6. CASE u # 1
    BY <2>4, <2>6
  <2> QED
    BY <2>5, <2>6
<1>3. cells \in Seq(Seq(Letter))
  <2> HIDE DEF cell
  <2> QED
    BY <1>1, <1>2
<1>4. ExportHeader(locations) = FlattenSeq(cells)
  BY DEF ExportHeader
<1> HIDE DEF cells
<1> QED
  BY <1>3, <1>4, FlattenType DEF String
-----------------------------------------------------------------------------
(* A stock list may be any lines of characters. *)
LEMMA ImportGood ==
  ASSUME NEW lines \in Lists
  PROVE  Good(ParseText(lines))
<1>1. lines \in Seq(Seq(Char))
  BY TextAssumption
<1>2. \A s \in Seq(Char) : s \in String
  BY DEF String, Letter
<1>3. lines \in Seq(String)
  BY <1>1, <1>2
<1>4. <<>> \in Seq(String)
  OBVIOUS
<1> QED
  BY <1>3, <1>4, ReadLinesGood DEF ParseText

(* A save of a good table is a file of lines again. *)
LEMMA ReuseGoodText ==
  ASSUME GoodOver(String, String, table)
  PROVE  Good(ReuseText(ExportText(table)))
<1> DEFINE n == Len(table.locationIndices)
           lines == [i \in DOMAIN table.elements |-> ExportLine(table.elements[i], n)]
           header == ExportHeader(table.locationIndices)
           locations == IF header = <<>> THEN <<>> ELSE Fields(header)
<1>1. /\ table.locationIndices \in Seq(String)
      /\ table.elements \in Seq(ElementOver(String))
  BY DEF GoodOver, TableOver
<1>2. lines \in Seq(String)
  <2>1. n \in Nat
    BY <1>1
  <2>2. /\ DOMAIN table.elements = 1 .. Len(table.elements)
        /\ Len(table.elements) \in Nat
        /\ \A i \in 1 .. Len(table.elements) :
             table.elements[i] \in ElementOver(String)
    BY <1>1
  <2> HIDE DEF n
  <2>3. \A i \in 1 .. Len(table.elements) :
          ExportLine(table.elements[i], n) \in String
    BY <2>1, <2>2, ExportLineType
  <2> QED
    BY <2>2, <2>3
<1>3. header \in String
  BY <1>1, ExportHeaderType
<1>4. locations \in Seq(String)
  <2> HIDE DEF header
  <2> QED
    BY <1>3, FieldsAre
<1>5. ReuseText(ExportText(table)) = ReadLines(lines, 1, 3, locations)
  BY DEF ReuseText, ExportText
<1> HIDE DEF lines, locations
<1> QED
  BY <1>2, <1>4, <1>5, ReadLinesGood

(* The inductive invariant. *)
LEMMA Induction == IInv /\ [Next]_vars => IInv'
<1> SUFFICES ASSUME IInv, [Next]_vars
             PROVE  IInv'
  OBVIOUS
<1>1. GoodOver(String, String, table) /\ result \in FileError \cup {Aborted}
  BY DEF IInv
<1>2. ASSUME NEW load, Good(load), Becomes(load)
      PROVE  IInv'
  BY <1>2 DEF Good, Becomes, IInv
<1>3. ASSUME NEW lines \in Lists, Import(lines)
      PROVE  IInv'
  BY <1>2, <1>3, ImportGood DEF Import
<1>4. CASE SaveAndReuse
  BY <1>1, <1>2, <1>4, ReuseGoodText DEF SaveAndReuse
<1>5. \A name \in Location : name \in String
  <2>1. \A s \in Seq(Char) : s \in String
    BY DEF String, Letter
  <2> QED
    BY <2>1, TextAssumption
<1>6. ASSUME NEW name \in Location, SetLocation(name)
      PROVE  IInv'
  <2>1. GoodOver(String, String, SetTableLocation(table, name))
    BY <1>1, <1>5, SetTableLocationOver
  <2> QED
    BY <1>1, <1>6, <2>1 DEF SetLocation, IInv
<1>7. ASSUME NEW idx \in DOMAIN table.elements, Alter(idx)
      PROVE  IInv'
  <2>1. GoodOver(String, String, AlterTable(table, idx, 1))
    BY <1>1, <1>5, AlterTableOver, GlobalAssumption
  <2> QED
    BY <1>1, <1>7, <2>1 DEF Alter, IInv
<1>8. CASE UNCHANGED vars
  BY <1>1, <1>8 DEF vars, IInv
<1> QED
  BY <1>3, <1>4, <1>6, <1>7, <1>8 DEF Next

(* Whatever the stock lists and the locations say, the table stays one of   *)
(* texts that is addressable, and every load ends in one of its codes.      *)
THEOREM Invariance == Spec => []IInv
<1>1. Init => IInv
  BY DEF Init, IInv, GoodOver, TableOver, EmptyTable, TableAddressable,
         FirstOfItsName, FileError
<1> QED
  BY <1>1, Induction, PTL DEF Spec

(* Names, sizes and locations with any quotation marks and commas in them,  *)
(* read back as whatever fields they make, leave every count addressable.   *)
THEOREM TextAddressable == Spec => []TypeOK
<1>1. IInv => TypeOK
  BY DEF IInv, GoodOver, TypeOK
<1> QED
  BY <1>1, Invariance, PTL

(* tidy is never given one quotation mark alone, by no stock list and by no *)
(* save: pop_back is not called on an empty string.                         *)
THEOREM TidyNeverPopsEmpty == Spec => []TidyIsDefined
<1>1. IInv => TidyIsDefined
  BY DEF IInv, TidyIsDefined, FileError, Aborted, Undefined
<1> QED
  BY <1>1, Invariance, PTL
-----------------------------------------------------------------------------
(* Texts are equal when their characters are. *)
LEMMA SameText ==
  ASSUME NEW s \in String, NEW t \in String, Len(s) = Len(t),
         \A i \in 1 .. Len(s) : s[i] = t[i]
  PROVE  s = t
BY DEF String

(* The marks of a text that stands in a line behind its first a characters. *)
StandsAt(s, line, a) == \A i \in 1 .. Len(s) : line[a + i] = s[i]

LEMMA QuotesAt ==
  ASSUME NEW line, NEW s \in String, NEW a \in Nat, StandsAt(s, line, a)
  PROVE  \A i \in 1 .. Len(s) + 1 :
           QuotesBefore(line, a + i) = QuotesBefore(line, a + 1) + QuotesBefore(s, i)
<1> DEFINE n == Len(s)
<1>0. n \in Nat /\ \A i \in 1 .. n : line[a + i] = s[i]
  BY DEF StandsAt, String
<1> HIDE DEF n
<1> DEFINE P(i) == QuotesBefore(line, a + i)
                     = QuotesBefore(line, a + 1) + QuotesBefore(s, i)
           Bad == {i \in 1 .. n + 1 : ~ P(i)}
<1>1. ASSUME Bad # {} PROVE FALSE
  <2> DEFINE m == Min(Bad)
  <2>1. m \in Bad /\ \A i \in Bad : m <= i
    BY <1>0, <1>1, MinFound
  <2> HIDE DEF m
  <2>2. m \in 1 .. n + 1 /\ ~ P(m)
    BY <2>1
  <2>3. CASE m = 1
    <3>1. QuotesBefore(s, 1) = 0 /\ QuotesBefore(line, a + 1) \in Nat
      BY QuotesCount
    <3> QED
      BY <2>2, <2>3, <3>1
  <2>4. CASE m # 1
    <3> DEFINE i == m - 1
    <3>1. i \in 1 .. n /\ i \in 1 .. n + 1 /\ ~ (m <= i) /\ m = i + 1
      BY <1>0, <2>2, <2>4
    <3> HIDE DEF i
    <3>2. P(i)
      BY <2>1, <3>1
    <3>3. a + i \in Nat \ {0} /\ a + m = (a + i) + 1 /\ i \in Nat \ {0}
          /\ a + 1 \in Nat \ {0}
      BY <3>1
    <3>4. QuotesBefore(line, (a + i) + 1)
            = QuotesBefore(line, a + i) + (IF line[a + i] = Quote THEN 1 ELSE 0)
      BY <3>3, QuotesCount
    <3>5. QuotesBefore(s, i + 1)
            = QuotesBefore(s, i) + (IF s[i] = Quote THEN 1 ELSE 0)
      BY <3>3, QuotesCount
    <3>6. /\ QuotesBefore(line, a + 1) \in Nat /\ QuotesBefore(s, i) \in Nat
          /\ line[a + i] = s[i]
      BY <1>0, <3>1, <3>3, QuotesCount
    <3> HIDE DEF Bad
    <3>7. P(m)
      BY <3>1, <3>2, <3>3, <3>4, <3>5, <3>6
    <3> QED
      BY <2>2, <3>7
  <2> QED
    BY <2>3, <2>4
<1> QED
  BY <1>1 DEF n

(* A text without the marks around it. *)
LEMMA InsideIs ==
  ASSUME NEW t \in String, Wrapped(t)
  PROVE  /\ Len(t) >= 2 /\ t[1] = Quote /\ t[Len(t)] = Quote
         /\ Inside(t) \in String /\ Len(Inside(t)) = Len(t) - 2
         /\ \A i \in 1 .. Len(t) - 2 : Inside(t)[i] = t[i + 1]
<1> DEFINE m == Len(t) - 1
           front == SubSeq(t, 1, m)
<1>1. /\ Len(t) \in Nat /\ Len(t) >= 2
      /\ t[1] = Quote /\ t[Len(t)] = Quote
  BY DEF Wrapped, String, Last
<1>2. m \in Int /\ 1 <= m /\ m = Len(t) - 1 /\ \A i \in 1 .. m : t[i] \in Letter
  BY <1>1 DEF String
<1> HIDE DEF m
<1>3. /\ SubSeq(t, 1, m) \in Seq(Letter)
      /\ Len(SubSeq(t, 1, m)) = IF 1 <= m THEN m - 1 + 1 ELSE 0
      /\ \A i \in 1 .. m - 1 + 1 : SubSeq(t, 1, m)[i] = t[1 + i - 1]
  BY <1>2, SubSeqProperties
<1> HIDE DEF front
<1>4. /\ front \in Seq(Letter) /\ Len(front) = m
      /\ \A i \in 1 .. m : front[i] = t[i]
  BY <1>2, <1>3 DEF front
<1>5. Inside(t) = Tail(front)
  BY DEF Inside, Front, front, m
<1>6. front # <<>>
  BY <1>2, <1>4
<1>7. Tail(front) \in Seq(Letter) /\ Len(Tail(front)) = m - 1
  BY <1>2, <1>4, <1>6
<1>8. \A i \in 1 .. Len(t) - 2 : Tail(front)[i] = t[i + 1]
  <2> TAKE i \in 1 .. Len(t) - 2
  <2>1. i \in 1 .. Len(front) - 1 /\ i + 1 \in 1 .. m
    BY <1>1, <1>2, <1>4
  <2>2. Tail(front)[i] = front[i + 1]
    BY <1>4, <2>1, TailAt
  <2> QED
    BY <1>4, <2>1, <2>2
<1>9. m - 1 = Len(t) - 2
  BY <1>1, <1>2
<1> QED
  BY <1>1, <1>5, <1>7, <1>8, <1>9 DEF String

(* A text behind another. *)
LEMMA ConcatIs ==
  ASSUME NEW s \in Seq(Letter), NEW t \in Seq(Letter)
  PROVE  /\ s \o t \in Seq(Letter) /\ Len(s \o t) = Len(s) + Len(t)
         /\ \A i \in 1 .. Len(s) : (s \o t)[i] = s[i]
         /\ \A i \in 1 .. Len(t) : (s \o t)[Len(s) + i] = t[i]
OBVIOUS

(* A text between two marks.                                                *)
LEMMA QuotedIs ==
  ASSUME NEW s \in String
  PROVE  LET q == Quoted(s)
         IN  /\ q \in String /\ Len(q) = Len(s) + 2
             /\ q[1] = Quote /\ q[Len(s) + 2] = Quote
             /\ \A i \in 1 .. Len(s) : q[i + 1] = s[i]
             /\ Inside(q) = s
<1> DEFINE q == Quoted(s)
           mark == <<Quote>>
           n == Len(s)
<1>1. q = (mark \o s) \o mark
  BY DEF Quoted
<1>2. mark \in Seq(Letter) /\ Len(mark) = 1 /\ mark[1] = Quote
  BY OneMark, CharAssumption DEF Letter
<1>3. s \in Seq(Letter) /\ n \in Nat
  BY DEF String
<1> HIDE DEF mark, n, q
<1> DEFINE r == mark \o s
<1>4. /\ r \in Seq(Letter) /\ Len(r) = 1 + n /\ r[1] = Quote
      /\ \A i \in 1 .. n : r[1 + i] = s[i]
  <2>1. 1 \in 1 .. Len(mark)
    BY <1>2
  <2> QED
    BY <1>2, <1>3, <2>1, ConcatIs DEF n
<1>5. q = r \o mark
  BY <1>1
<1> HIDE DEF r
<1>6. /\ q \in Seq(Letter) /\ Len(q) = n + 2
      /\ \A i \in 1 .. n + 1 : q[i] = r[i]
      /\ q[n + 2] = Quote
  <2>a. /\ r \o mark \in Seq(Letter) /\ Len(r \o mark) = Len(r) + Len(mark)
        /\ \A i \in 1 .. Len(r) : (r \o mark)[i] = r[i]
        /\ \A i \in 1 .. Len(mark) : (r \o mark)[Len(r) + i] = mark[i]
    BY <1>2, <1>4, ConcatIs
  <2>1. /\ r \o mark \in Seq(Letter) /\ Len(r \o mark) = (1 + n) + 1
        /\ \A i \in 1 .. 1 + n : (r \o mark)[i] = r[i]
        /\ \A i \in 1 .. 1 : (r \o mark)[(1 + n) + i] = mark[i]
    BY <1>2, <1>4, <2>a
  <2>2. (1 + n) + 1 = n + 2 /\ 1 + n = n + 1 /\ 1 \in 1 .. 1
    BY <1>3
  <2> QED
    BY <1>2, <1>5, <2>1, <2>2
<1>7. q[1] = Quote /\ \A i \in 1 .. n : q[i + 1] = s[i]
  BY <1>3, <1>4, <1>6
<1>8. Wrapped(q)
  BY <1>3, <1>6, <1>7 DEF Wrapped, Last
<1>9. q \in String
  BY <1>6 DEF String
<1>10. /\ Inside(q) \in String /\ Len(Inside(q)) = Len(q) - 2
       /\ \A i \in 1 .. Len(q) - 2 : Inside(q)[i] = q[i + 1]
  BY <1>8, <1>9, InsideIs
<1>11. Len(Inside(q)) = n /\ \A i \in 1 .. n : Inside(q)[i] = s[i]
  BY <1>3, <1>6, <1>7, <1>10
<1>12. Inside(q) = s
  BY <1>10, <1>11, SameText DEF n
<1> QED
  BY <1>6, <1>7, <1>9, <1>12 DEF q, n

(* A cell of a line that ends no field, and one that leaves no mark open.   *)
Closed(cell) == QuotesBefore(cell, Len(cell) + 1) % 2 = 0

LEMMA QuotedMarks ==
  ASSUME NEW s \in String
  PROVE  /\ Separators(Quoted(s)) = {} <=> LastContained(s)
         /\ Closed(Quoted(s)) <=> QuotesBefore(s, Len(s) + 1) % 2 = 0
         /\ Contained(s) <=> /\ Separators(Quoted(s)) = {}
                             /\ Closed(Quoted(s))
<1> DEFINE q == Quoted(s)
           n == Len(s)
<1>1. /\ q \in String /\ Len(q) = n + 2
      /\ q[1] = Quote /\ q[n + 2] = Quote
      /\ \A i \in 1 .. n : q[i + 1] = s[i]
  BY QuotedIs
<1>2. n \in Nat /\ DOMAIN s = 1 .. n
  BY DEF String
<1>3. DOMAIN q = 1 .. n + 2
  BY <1>1, <1>2 DEF String
<1> HIDE DEF q, n
<1>4. QuotesBefore(q, 1) = 0 /\ QuotesBefore(q, 1 + 1) = 1
  <2>1. 1 \in Nat \ {0}
    OBVIOUS
  <2>2. QuotesBefore(q, 1) = 0
    BY <2>1, QuotesCount
  <2>3. QuotesBefore(q, 1 + 1) = QuotesBefore(q, 1) + (IF q[1] = Quote THEN 1 ELSE 0)
    BY <2>1, QuotesCount
  <2> QED
    BY <1>1, <2>2, <2>3
<1>5. \A i \in 1 .. n + 1 : QuotesBefore(q, 1 + i) = 1 + QuotesBefore(s, i)
  <2>1. StandsAt(s, q, 1)
    BY <1>1, <1>2 DEF StandsAt, n
  <2>2. 1 \in Nat
    OBVIOUS
  <2>3. \A i \in 1 .. n + 1 :
          QuotesBefore(q, 1 + i) = QuotesBefore(q, 1 + 1) + QuotesBefore(s, i)
    BY <2>1, <2>2, QuotesAt DEF n
  <2> QED
    BY <1>4, <2>3
<1>6. \A i \in 1 .. n + 1 : QuotesBefore(s, i) \in Nat
  BY QuotesCount
<1>7. ASSUME NEW i \in 1 .. n
      PROVE  i + 1 \in Separators(q) <=> s[i] = Comma /\ QuotesBefore(s, i) % 2 # 0
  <2>1. i + 1 \in DOMAIN q /\ q[i + 1] = s[i]
    BY <1>1, <1>2, <1>3
  <2>2. QuotesBefore(q, i + 1) = 1 + QuotesBefore(s, i) /\ QuotesBefore(s, i) \in Nat
    <3>1. i \in 1 .. n + 1 /\ 1 + i = i + 1
      BY <1>2
    <3>2. QuotesBefore(q, 1 + i) = 1 + QuotesBefore(s, i)
      BY <1>5, <3>1
    <3> QED
      BY <1>6, <3>1, <3>2
  <2>3. QuotesBefore(q, i + 1) % 2 = 0 <=> QuotesBefore(s, i) % 2 # 0
    BY <2>2
  <2> QED
    BY <2>1, <2>3 DEF Separators
<1>8. ASSUME NEW j \in Separators(q)
      PROVE  \E i \in 1 .. n : j = i + 1
  <2>1. j \in 1 .. n + 2 /\ q[j] = Comma
    BY <1>3 DEF Separators
  <2>2. j # 1 /\ j # n + 2
    BY <1>1, <2>1, CharAssumption
  <2>3. j - 1 \in 1 .. n /\ j = (j - 1) + 1
    BY <1>2, <2>1, <2>2
  <2> QED
    BY <2>3
<1>9. Separators(q) = {} <=> \A i \in 1 .. n : i + 1 \notin Separators(q)
  BY <1>8
<1>10. Separators(q) = {} <=> LastContained(s)
  BY <1>2, <1>7, <1>9 DEF LastContained
<1>11. Closed(q) <=> QuotesBefore(s, n + 1) % 2 = 0
  <2> DEFINE x == QuotesBefore(s, n + 1)
  <2>1. QuotesBefore(q, 1 + (n + 1)) = 1 + x /\ x \in Nat
    BY <1>2, <1>5, <1>6
  <2>2. 1 + (n + 1) = n + 2 /\ n + 2 \in Nat \ {0}
    BY <1>2
  <2>3. QuotesBefore(q, (n + 2) + 1) = QuotesBefore(q, n + 2) + 1
    BY <1>1, <2>2, QuotesCount
  <2> HIDE DEF x
  <2>4. QuotesBefore(q, (n + 2) + 1) = x + 2
    BY <2>1, <2>2, <2>3
  <2>5. (x + 2) % 2 = 0 <=> x % 2 = 0
    BY <2>1
  <2> QED
    BY <1>1, <2>4, <2>5 DEF Closed, x
<1>12. Contained(s) <=> LastContained(s) /\ QuotesBefore(s, n + 1) % 2 = 0
  BY DEF Contained, LastContained, n
<1> QED
  BY <1>10, <1>11, <1>12 DEF q, n
-----------------------------------------------------------------------------
(* The line has these cells, p[k] is where the comma behind the k-th is, or *)
(* would be.                                                                *)
Cut(line, cells, p) ==
  /\ line \in String /\ cells \in Seq(String) /\ cells # <<>>
  /\ p \in [0 .. Len(cells) -> Nat]
  /\ p[0] = 0 /\ p[Len(cells)] = Len(line) + 1
  /\ \A k \in 1 .. Len(cells) :
       /\ p[k] = p[k - 1] + Len(cells[k]) + 1 /\ p[k] <= Len(line) + 1
       /\ StandsAt(cells[k], line, p[k - 1])
       /\ k # Len(cells) => line[p[k]] = Comma

(* No comma in the cell ends a field, and the one behind it does.           *)
Passes(cells, k) ==
  Separators(cells[k]) = {} /\ (k = Len(cells) \/ Closed(cells[k]))

(* What the line has between two commas, when the marks in front are pairs. *)
LEMMA CutStep ==
  ASSUME NEW line, NEW cells, NEW p, Cut(line, cells, p),
         NEW k \in 1 .. Len(cells), QuotesBefore(line, p[k - 1] + 1) % 2 = 0
  PROVE  LET c == cells[k]
         IN  /\ \A i \in 1 .. Len(c) :
                  p[k - 1] + i \in Ends(line) <=> i \in Separators(c)
             /\ p[k] \in Ends(line) <=> k = Len(cells) \/ Closed(c)
             /\ k # Len(cells) /\ Closed(c) => QuotesBefore(line, p[k] + 1) % 2 = 0
<1> DEFINE c == cells[k]
           a == p[k - 1]
           b == p[k]
           m == Len(cells)
           n == Len(line)
           Q(i) == QuotesBefore(line, i)
<1>1. /\ line \in String /\ cells \in Seq(String) /\ m \in Nat /\ n \in Nat
      /\ DOMAIN line = 1 .. n /\ c \in String /\ Len(c) \in Nat /\ DOMAIN c = 1 .. Len(c)
  BY DEF Cut, String
<1>2. /\ a \in Nat /\ b \in Nat /\ b = a + Len(c) + 1 /\ b <= n + 1
      /\ StandsAt(c, line, a) /\ (k # m => line[b] = Comma) /\ p[m] = n + 1
  <2>1. k - 1 \in 0 .. m /\ k \in 0 .. m
    BY <1>1
  <2>2. p \in [0 .. m -> Nat]
    BY DEF Cut
  <2>3. a \in Nat /\ b \in Nat
    BY <2>1, <2>2
  <2> QED
    BY <2>3 DEF Cut
<1>3. Q(a + 1) % 2 = 0 /\ Q(a + 1) \in Nat
  <2> DEFINE x == a + 1
  <2>1. x \in Nat \ {0}
    BY <1>2
  <2> HIDE DEF x
  <2>2. QuotesBefore(line, x) \in Nat
    BY <2>1, QuotesCount
  <2> QED
    BY <2>2 DEF x
<1>4. \A i \in 1 .. Len(c) + 1 : Q(a + i) = Q(a + 1) + QuotesBefore(c, i)
  BY <1>1, <1>2, QuotesAt
<1>5. \A i \in 1 .. Len(c) + 1 : QuotesBefore(c, i) \in Nat
  <2>1. \A i \in 1 .. Len(c) + 1 : i \in Nat \ {0}
    BY <1>1
  <2> HIDE DEF c
  <2> QED
    BY <2>1, QuotesCount
<1> HIDE DEF c, a, b, m, n, Q
<1>6. \A i \in 1 .. Len(c) + 1 : Q(a + i) % 2 = 0 <=> QuotesBefore(c, i) % 2 = 0
  <2> TAKE i \in 1 .. Len(c) + 1
  <2> DEFINE x == Q(a + 1)
             y == QuotesBefore(c, i)
  <2>1. x \in Nat /\ y \in Nat /\ x % 2 = 0 /\ Q(a + i) = x + y
    BY <1>3, <1>4, <1>5
  <2> HIDE DEF x, y
  <2>2. (x + y) % 2 = 0 <=> y % 2 = 0
    BY <2>1
  <2> QED
    BY <2>1, <2>2 DEF y
<1>7. ASSUME NEW i \in 1 .. Len(c)
      PROVE  a + i \in Ends(line) <=> i \in Separators(c)
  <2>1. a + i \in 1 .. n /\ i \in 1 .. Len(c) + 1 /\ a + i # n + 1
    BY <1>1, <1>2
  <2>2. line[a + i] = c[i]
    BY <1>2 DEF StandsAt
  <2>3. Q(a + i) % 2 = 0 <=> QuotesBefore(c, i) % 2 = 0
    BY <1>6, <2>1
  <2> QED
    BY <1>1, <2>1, <2>2, <2>3 DEF Ends, Separators, Q, n
<1>8. Q(b) % 2 = 0 <=> Closed(c)
  <2>1. Len(c) + 1 \in 1 .. Len(c) + 1 /\ a + (Len(c) + 1) = b
    BY <1>1, <1>2
  <2> QED
    BY <1>6, <2>1 DEF Closed
<1>9. b \in Ends(line) <=> k = m \/ Closed(c)
  <2>1. CASE k = m
    BY <1>2, <2>1 DEF Ends, b, n
  <2>2. CASE k # m
    <3>1. b <= n
      <4>1. k + 1 \in 1 .. m
        BY <1>1, <2>2 DEF m
      <4>2. k + 1 - 1 = k
        BY <1>1
      <4> DEFINE j == k + 1
      <4>3. p[j] = p[j - 1] + Len(cells[j]) + 1 /\ p[j] <= n + 1
        BY <4>1 DEF Cut, m, n
      <4>4. cells[j] \in String
        BY <1>1, <4>1 DEF m
      <4>5. Len(cells[j]) \in Nat
        BY <4>4 DEF String
      <4>6. p[j - 1] = b
        BY <4>2 DEF b
      <4> DEFINE l == Len(cells[j])
      <4>7. p[j] = b + l + 1 /\ p[j] <= n + 1 /\ l \in Nat
        BY <4>3, <4>5, <4>6
      <4> HIDE DEF j, l
      <4> QED
        BY <1>1, <1>2, <4>7
    <3>2. b \in 1 .. n /\ line[b] = Comma /\ b # n + 1
      BY <1>1, <1>2, <2>2, <3>1
    <3> QED
      BY <1>1, <1>8, <2>2, <3>2 DEF Ends, Separators, Q, n
  <2> QED
    BY <2>1, <2>2
<1>10. k # m /\ Closed(c) => Q(b + 1) % 2 = 0
  <2> SUFFICES ASSUME k # m, Closed(c)
               PROVE  Q(b + 1) % 2 = 0
    OBVIOUS
  <2>1. b \in Nat \ {0} /\ line[b] # Quote
    BY <1>1, <1>2, CharAssumption
  <2>2. Q(b + 1) = Q(b) + 0 /\ Q(b) \in Nat
    BY <2>1, QuotesCount DEF Q
  <2> QED
    BY <1>8, <2>2
<1> QED
  BY <1>7, <1>9, <1>10 DEF c, a, b, m, Q

(* Every cell begins behind pairs of marks, when those in front pass.       *)
LEMMA CutBegins ==
  ASSUME NEW line, NEW cells, NEW p, Cut(line, cells, p),
         NEW u \in 0 .. Len(cells), \A k \in 1 .. u : Passes(cells, k)
  PROVE  \A k \in 0 .. u :
           k # Len(cells) => QuotesBefore(line, p[k] + 1) % 2 = 0
<1> DEFINE m == Len(cells)
           P(k) == k # m => QuotesBefore(line, p[k] + 1) % 2 = 0
           Bad == {k \in 0 .. u : ~ P(k)}
<1>1. m \in Nat
  BY DEF Cut
<1>2. ASSUME Bad # {} PROVE FALSE
  <2> DEFINE k == Min(Bad)
  <2>1. k \in Bad /\ \A j \in Bad : k <= j
    <3>1. Bad \in SUBSET Nat
      OBVIOUS
    <3> HIDE DEF Bad
    <3> QED
      BY <1>2, <3>1, MinFound
  <2> HIDE DEF k
  <2>2. k \in 0 .. u /\ ~ P(k) /\ k # m
    BY <2>1
  <2>3. CASE k = 0
    <3>1. p[0] = 0 /\ QuotesBefore(line, 1) = 0
      <4>1. 1 \in Nat \ {0}
        OBVIOUS
      <4> QED
        BY <4>1, QuotesCount DEF Cut
    <3> QED
      BY <2>2, <2>3, <3>1
  <2>4. CASE k # 0
    <3>1. /\ k - 1 \in 0 .. u /\ ~ (k <= k - 1) /\ k - 1 # m
          /\ k \in 1 .. m /\ k \in 1 .. u
      BY <1>1, <2>2, <2>4
    <3>2. P(k - 1)
      BY <2>1, <3>1
    <3>3. Closed(cells[k])
      BY <2>2, <3>1 DEF Passes
    <3>4. QuotesBefore(line, p[k] + 1) % 2 = 0
      BY <2>2, <3>1, <3>2, <3>3, CutStep
    <3> QED
      BY <2>2, <3>4
  <2> QED
    BY <2>3, <2>4
<1> QED
  BY <1>2

(* The cells that pass are the first fields.                                *)
LEMMA CutEnds ==
  ASSUME NEW line, NEW cells, NEW p, Cut(line, cells, p),
         NEW u \in 0 .. Len(cells), \A k \in 1 .. u : Passes(cells, k)
  PROVE  /\ \A k \in 1 .. u : Nth(Ends(line), k) = p[k]
         /\ u # Len(cells) => u + 1 <= Cardinality(Ends(line))
         /\ u = Len(cells) => u = Cardinality(Ends(line))
<1> DEFINE m == Len(cells)
           n == Len(line)
           S == Ends(line)
           N == Cardinality(S)
<1>1. /\ m \in Nat /\ n \in Nat /\ line \in String
      /\ \A k \in 1 .. m : cells[k] \in String
  BY DEF Cut, String
<1>2. /\ S \in SUBSET Nat /\ IsFiniteSet(S) /\ N \in Nat \ {0}
      /\ \A i \in S : i \in 1 .. n + 1
  BY <1>1, EndsType
<1>3. \A k \in 0 .. m : p[k] \in Nat
  BY DEF Cut
<1>4. p[0] = 0 /\ p[m] = n + 1
  BY DEF Cut
<1>5. ASSUME NEW k \in 1 .. m
      PROVE  /\ Len(cells[k]) \in Nat /\ k - 1 \in 0 .. m /\ k \in 0 .. m
             /\ p[k] = p[k - 1] + Len(cells[k]) + 1
             /\ p[k - 1] < p[k] /\ p[k] <= n + 1
  <2>1. cells[k] \in String
    BY <1>1
  <2>2. Len(cells[k]) \in Nat
    BY <2>1 DEF String
  <2>3. k - 1 \in 0 .. m /\ k \in 0 .. m
    BY <1>1
  <2>4. p[k] = p[k - 1] + Len(cells[k]) + 1 /\ p[k] <= n + 1
    BY DEF Cut
  <2>5. p[k] \in Nat /\ p[k - 1] \in Nat
    BY <1>3, <2>3
  <2> QED
    BY <2>2, <2>3, <2>4, <2>5
<1>6. ASSUME NEW k \in 1 .. u
      PROVE  /\ p[k] \in S
             /\ \A i \in S : i <= p[k] <=> i = p[k] \/ (k # 1 /\ i <= p[k - 1])
  <2>1. k \in 1 .. m /\ k - 1 \in 0 .. u /\ k - 1 # m
    BY <1>1
  <2>2. QuotesBefore(line, p[k - 1] + 1) % 2 = 0
    BY <2>1, CutBegins
  <2>3. Separators(cells[k]) = {} /\ (k = m \/ Closed(cells[k]))
    BY DEF Passes
  <2>4. p[k] \in S
    BY <2>1, <2>2, <2>3, CutStep
  <2>5. \A j \in 1 .. Len(cells[k]) : p[k - 1] + j \notin S
    BY <2>1, <2>2, <2>3, CutStep
  <2>6. ASSUME NEW i \in S
        PROVE  i <= p[k] <=> i = p[k] \/ (k # 1 /\ i <= p[k - 1])
    <3> DEFINE a == p[k - 1]
               b == p[k]
               l == Len(cells[k])
    <3>1. /\ a \in Nat /\ b \in Nat /\ l \in Nat /\ b = a + l + 1
          /\ i \in Nat /\ i # 0
      BY <1>2, <1>3, <1>5, <2>1
    <3>2. k = 1 => a = 0
      BY <1>4
    <3>3. \A j \in 1 .. l : a + j # i
      BY <2>5
    <3> HIDE DEF a, b, l
    <3>4. ASSUME i <= b, i # b PROVE i <= a
      <4>1. CASE a < i
        <5>1. i - a \in 1 .. l /\ a + (i - a) = i
          BY <3>1, <3>4, <4>1
        <5> QED
          BY <3>3, <5>1
      <4>2. CASE ~ (a < i)
        BY <3>1, <4>2
      <4> QED
        BY <4>1, <4>2
    <3>5. i <= b <=> i = b \/ (k # 1 /\ i <= a)
      BY <3>1, <3>2, <3>4
    <3> QED
      BY <3>5 DEF a, b
  <2> QED
    BY <2>4, <2>6
<1>7. \A k \in 1 .. u : k # 1 => p[k - 1] < p[k]
  <2>1. \A k \in 1 .. u : k \in 1 .. m
    BY <1>1
  <2> QED
    BY <1>5, <2>1
<1>8. u \in Nat
  BY <1>1
<1> HIDE DEF S
<1>9. u <= N /\ \A k \in 1 .. u : Nth(S, k) = p[k]
  <2>1. \A k \in 1 .. u : p[k] \in S
    BY <1>6
  <2>2. \A k \in 1 .. u : \A i \in S :
          i <= p[k] <=> i = p[k] \/ (k # 1 /\ i <= p[k - 1])
    BY <1>6
  <2> QED
    BY <1>2, <1>7, <1>8, <2>1, <2>2, NthIs
<1>10. n + 1 \in S /\ \A i \in S : i <= n + 1
  BY <1>1, <1>2 DEF S, Ends
<1>11. ASSUME u # m PROVE u + 1 <= N
  <2>1. ASSUME u = N PROVE FALSE
    <3>1. PICK r \in 1 .. N : Nth(S, r) = n + 1
      BY <1>2, <1>10, NthOfRank
    <3>2. r \in 1 .. u /\ r \in 1 .. m /\ r + 1 \in 1 .. m /\ (r + 1) - 1 = r
      BY <1>1, <1>2, <1>11, <2>1
    <3>3. p[r] = n + 1
      BY <1>9, <3>1, <3>2
    <3>4. p[r] < p[r + 1] /\ p[r + 1] <= n + 1
      BY <1>5, <3>2
    <3>5. p[r + 1] \in Nat
      BY <1>3, <1>5, <3>2
    <3> QED
      BY <1>1, <3>3, <3>4, <3>5
  <2> QED
    BY <1>2, <1>8, <1>9, <2>1
<1>12. ASSUME u = m PROVE u = N
  <2>1. m # 0
    BY DEF Cut
  <2>2. u \in 1 .. u /\ u \in 1 .. N
    BY <1>1, <1>2, <1>9, <1>12, <2>1
  <2>3. Nth(S, u) = n + 1
    BY <1>4, <1>9, <1>12, <2>2
  <2> QED
    BY <1>2, <1>10, <2>2, <2>3, NthOrder
<1> QED
  BY <1>9, <1>11, <1>12 DEF S

(* A field that ends where a cell does is the cell.                         *)
LEMMA CutField ==
  ASSUME NEW line, NEW cells, NEW p, Cut(line, cells, p),
         NEW u \in 1 .. Len(cells), \A k \in 1 .. u - 1 : Passes(cells, k)
  PROVE  /\ u \in 1 .. Cardinality(Ends(line))
         /\ FieldBegin(line, u) = p[u - 1] + 1
         /\ Nth(Ends(line), u) = p[u] => FieldText(line, u) = cells[u]
<1> DEFINE m == Len(cells)
           n == Len(line)
           N == Cardinality(Ends(line))
           v == u - 1
<1>1. m \in Nat /\ line \in String /\ cells[u] \in String
  BY DEF Cut
<1>2. v \in 0 .. m /\ v # m
  BY <1>1
<1>3. N \in Nat \ {0}
  BY <1>1, EndsType
<1>4. (\A k \in 1 .. v : Nth(Ends(line), k) = p[k]) /\ v + 1 <= N
  <2> HIDE DEF v, N
  <2>1. \A k \in 1 .. v : Passes(cells, k)
    BY DEF v
  <2> QED
    BY <1>2, <2>1, CutEnds DEF N
<1>5. u \in 1 .. N
  BY <1>1, <1>3, <1>4
<1>6. FieldBegin(line, u) = p[u - 1] + 1
  <2>1. CASE u = 1
    BY <2>1 DEF FieldBegin, Cut
  <2>2. CASE u # 1
    <3>1. u - 1 \in 1 .. v
      BY <1>1, <2>2
    <3> QED
      BY <1>4, <2>2, <3>1 DEF FieldBegin
  <2> QED
    BY <2>1, <2>2
<1>7. ASSUME Nth(Ends(line), u) = p[u] PROVE FieldText(line, u) = cells[u]
  <2> DEFINE t == FieldText(line, u)
             c == cells[u]
             a == p[u - 1] + 1
             b == p[u]
  <2>1. /\ t \in String /\ Len(t) = b - a
        /\ \A i \in 1 .. b - a : t[i] = line[a + i - 1]
    BY <1>1, <1>5, <1>6, <1>7, FieldPlace
  <2>2. b = p[u - 1] + Len(c) + 1 /\ \A i \in 1 .. Len(c) : line[p[u - 1] + i] = c[i]
    BY DEF Cut, StandsAt
  <2>3. p[u - 1] \in Nat /\ Len(c) \in Nat
    <3>1. u - 1 \in 0 .. m
      BY <1>1
    <3>2. p \in [0 .. m -> Nat]
      BY DEF Cut
    <3> QED
      BY <1>1, <3>1, <3>2 DEF String
  <2>4. Len(t) = Len(c)
    BY <2>1, <2>2, <2>3
  <2>5. \A i \in 1 .. Len(t) : t[i] = c[i]
    <3> TAKE i \in 1 .. Len(t)
    <3>1. i \in 1 .. b - a /\ i \in 1 .. Len(c)
      BY <2>1, <2>4
    <3>2. a + i - 1 = p[u - 1] + i
      BY <2>3, <3>1
    <3> QED
      BY <2>1, <2>2, <3>1, <3>2
  <2> HIDE DEF t, c
  <2>6. t = c
    BY <1>1, <2>1, <2>4, <2>5, SameText DEF c
  <2> QED
    BY <2>6 DEF t, c
<1> QED
  BY <1>5, <1>6, <1>7

(* A line whose cells all pass is read as these cells.                      *)
LEMMA CutFields ==
  ASSUME NEW line, NEW cells, NEW p, Cut(line, cells, p),
         \A k \in 1 .. Len(cells) : Passes(cells, k),
         line[Len(line)] # Comma
  PROVE  /\ Len(Fields(line)) = Len(cells)
         /\ \A k \in 1 .. Len(cells) : Fields(line)[k] = Inside(cells[k])
<1> DEFINE m == Len(cells)
           N == Cardinality(Ends(line))
<1>1. m \in Nat /\ line \in String
  BY DEF Cut
<1>2. m = N /\ \A k \in 1 .. m : Nth(Ends(line), k) = p[k]
  <2>1. m \in 0 .. m
    BY <1>1
  <2> QED
    BY <2>1, CutEnds
<1>3. \A k \in 1 .. m : FieldText(line, k) = cells[k]
  <2> TAKE k \in 1 .. m
  <2>1. \A j \in 1 .. k - 1 : Passes(cells, j)
    BY <1>1
  <2> QED
    BY <1>2, <2>1, CutField
<1>4. Len(line) \notin Separators(line)
  BY DEF Separators
<1>5. Fields(line) = [k \in 1 .. N |-> Inside(FieldText(line, k))]
  BY <1>4 DEF Fields, Ends, FieldText, FieldBegin
<1> HIDE DEF m, N
<1>6. Fields(line) = [k \in 1 .. m |-> Inside(cells[k])]
  BY <1>2, <1>3, <1>5
<1>7. Len(Fields(line)) = m
  BY <1>1, <1>6
<1> QED
  BY <1>6, <1>7 DEF m
-----------------------------------------------------------------------------
(* The cells of a header are its locations between marks. *)
HeaderCells(locations) == [u \in DOMAIN locations |-> Quoted(locations[u])]

LEMMA HeaderCut ==
  ASSUME NEW locations \in Seq(String), locations # <<>>
  PROVE  \E p : Cut(ExportHeader(locations), HeaderCells(locations), p)
<1> DEFINE m == Len(locations)
           cell(u) == Quoted(locations[u])
           cells == HeaderCells(locations)
           seq(u) == IF u = 1 THEN cell(u) ELSE <<Comma>> \o cell(u)
           seqs == [u \in DOMAIN locations |-> seq(u)]
           k == Flat(seqs)
           line == ExportHeader(locations)
           p == [u \in 0 .. m |-> IF u = 0 THEN 0 ELSE Len(k[u]) + 1]
<1>1. /\ m \in Nat \ {0} /\ DOMAIN locations = 1 .. m
      /\ \A u \in 1 .. m : locations[u] \in String
  BY EmptySeq
<1>2. ASSUME NEW u \in 1 .. m
      PROVE  /\ cell(u) \in String /\ seq(u) \in Seq(Letter) /\ Len(cell(u)) \in Nat
             /\ u = 1 => seq(u) = cell(u)
             /\ u # 1 => /\ Len(seq(u)) = Len(cell(u)) + 1 /\ seq(u)[1] = Comma
                         /\ \A i \in 1 .. Len(cell(u)) : seq(u)[i + 1] = cell(u)[i]
  <2> DEFINE c == cell(u)
             comma == <<Comma>>
  <2>1. locations[u] \in String
    BY <1>1
  <2>2. c \in String
    BY <2>1, QuotedIs
  <2>3. comma \in Seq(Letter) /\ Len(comma) = 1 /\ comma[1] = Comma
    BY CharAssumption DEF Letter
  <2> HIDE DEF c, comma
  <2>4. c \in Seq(Letter) /\ Len(c) \in Nat
    BY <2>2 DEF String
  <2>5. /\ comma \o c \in Seq(Letter) /\ Len(comma \o c) = Len(comma) + Len(c)
        /\ \A i \in 1 .. Len(comma) : (comma \o c)[i] = comma[i]
        /\ \A i \in 1 .. Len(c) : (comma \o c)[Len(comma) + i] = c[i]
    BY <2>3, <2>4, ConcatIs
  <2>6. seq(u) = IF u = 1 THEN c ELSE comma \o c
    BY DEF c, comma
  <2> HIDE DEF seq
  <2>7. CASE u = 1
    BY <2>2, <2>4, <2>6, <2>7 DEF c
  <2>8. CASE u # 1
    <3>1. /\ seq(u) \in Seq(Letter) /\ Len(seq(u)) = 1 + Len(c)
          /\ \A i \in 1 .. 1 : seq(u)[i] = comma[i]
          /\ \A i \in 1 .. Len(c) : seq(u)[1 + i] = c[i]
      BY <2>3, <2>5, <2>6, <2>8
    <3>2. seq(u)[1] = Comma /\ Len(seq(u)) = Len(c) + 1
      BY <2>3, <2>4, <3>1
    <3>3. \A i \in 1 .. Len(c) : seq(u)[i + 1] = c[i]
      <4> TAKE i \in 1 .. Len(c)
      <4>1. 1 + i = i + 1
        OBVIOUS
      <4> QED
        BY <3>1, <4>1
    <3> QED
      BY <2>2, <2>4, <2>8, <3>1, <3>2, <3>3 DEF c
  <2> QED
    BY <2>7, <2>8
<1>3. /\ cells \in Seq(String) /\ Len(cells) = m /\ cells # <<>>
      /\ \A u \in 1 .. m : cells[u] = cell(u)
  <2> HIDE DEF cell
  <2>1. cells = [u \in 1 .. m |-> cell(u)]
    BY <1>1 DEF HeaderCells, cell
  <2>2. cells \in Seq(String) /\ Len(cells) = m /\ \A u \in 1 .. m : cells[u] = cell(u)
    BY <1>1, <1>2, <2>1
  <2> HIDE DEF cells
  <2> QED
    BY <1>1, <2>2
<1>4. /\ seqs \in Seq(Seq(Letter)) /\ Len(seqs) = m
      /\ \A u \in 1 .. m : seqs[u] = seq(u)
  <2> HIDE DEF seq
  <2> QED
    BY <1>1, <1>2
<1>5. line = FlattenSeq(seqs)
  BY DEF ExportHeader
<1>6. line \in String
  BY ExportHeaderType
<1>7. ASSUME NEW u \in 1 .. m
      PROVE  LET a == IF u = 1 THEN 0 ELSE Len(k[u - 1])
                 b == Len(k[u])
             IN  /\ a \in Nat /\ b = a + Len(seq(u))
                 /\ b <= Len(line) /\ (u = m => b = Len(line))
                 /\ \A i \in 1 .. Len(seq(u)) : line[a + i] = seq(u)[i]
  <2> DEFINE a == IF u = 1 THEN 0 ELSE Len(k[u - 1])
             b == Len(k[u])
             all == FlattenSeq(seqs)
  <2>1. seqs \in Seq(Seq(Letter)) /\ u \in 1 .. Len(seqs)
    BY <1>4
  <2> HIDE DEF seqs, seq, cell
  <2>2. /\ a \in Nat /\ b = a + Len(seqs[u])
        /\ b <= Len(all) /\ (u = Len(seqs) => b = Len(all))
        /\ \A i \in 1 .. Len(seqs[u]) : all[a + i] = seqs[u][i]
    BY <2>1, FlatPlace
  <2>3. seqs[u] = seq(u) /\ all = line /\ Len(seqs) = m
    BY <1>4, <1>5
  <2> HIDE DEF a, b, all, line
  <2> QED
    BY <2>2, <2>3 DEF a, b
<1> HIDE DEF seqs, seq, cell, k, line, cells, m
<1>8. ASSUME NEW u \in 1 .. m
      PROVE  /\ p[u] \in Nat /\ p[u] = p[u - 1] + Len(cell(u)) + 1
             /\ p[u] <= Len(line) + 1 /\ (u = m => p[u] = Len(line) + 1)
             /\ StandsAt(cell(u), line, p[u - 1])
             /\ u # 1 => line[p[u - 1]] = Comma
  <2> DEFINE a == IF u = 1 THEN 0 ELSE Len(k[u - 1])
             b == Len(k[u])
             s == seq(u)
             l == Len(cell(u))
  <2>1. /\ a \in Nat /\ b = a + Len(s)
        /\ b <= Len(line) /\ (u = m => b = Len(line))
        /\ \A i \in 1 .. Len(s) : line[a + i] = s[i]
    BY <1>7
  <2>2. s \in Seq(Letter) /\ Len(s) \in Nat /\ l \in Nat
    BY <1>2
  <2>3. Len(line) \in Nat
    BY <1>6 DEF String
  <2>4. p[u] = b + 1 /\ p[u - 1] = IF u = 1 THEN 0 ELSE a + 1
    <3>1. u \in 0 .. m /\ u - 1 \in 0 .. m /\ u # 0 /\ (u - 1 = 0 <=> u = 1)
      BY <1>1
    <3> QED
      BY <3>1
  <2>5. b \in Nat
    <3> HIDE DEF a, b, s
    <3> QED
      BY <2>1, <2>2
  <2>6. u = 1 => a = 0
    OBVIOUS
  <2> HIDE DEF a, b, p, s, l
  <2>7. CASE u = 1
    <3>1. s = cell(u) /\ Len(s) = l
      BY <1>2, <2>7 DEF s, l
    <3>2. p[u - 1] = 0 /\ a = 0 /\ b = l /\ p[u] = l + 1
      BY <2>1, <2>2, <2>4, <2>6, <2>7, <3>1
    <3>3. \A i \in 1 .. l : line[0 + i] = s[i]
      BY <2>1, <3>1, <3>2
    <3>4. StandsAt(cell(u), line, p[u - 1])
      BY <3>1, <3>2, <3>3 DEF StandsAt
    <3>5. p[u] \in Nat /\ p[u] = p[u - 1] + l + 1 /\ p[u] <= Len(line) + 1
          /\ (u = m => p[u] = Len(line) + 1)
      BY <2>1, <2>2, <2>3, <2>4, <2>5, <3>2
    <3> QED
      BY <2>7, <3>4, <3>5 DEF l
  <2>8. CASE u # 1
    <3>1. /\ Len(s) = l + 1 /\ s[1] = Comma
          /\ \A i \in 1 .. l : s[i + 1] = cell(u)[i]
      BY <1>2, <2>8 DEF s, l
    <3>2. p[u - 1] = a + 1 /\ p[u] = p[u - 1] + l + 1 /\ p[u] \in Nat
          /\ p[u] <= Len(line) + 1 /\ (u = m => p[u] = Len(line) + 1)
      <4>1. p[u - 1] = a + 1 /\ p[u] = b + 1
        BY <2>4, <2>8
      <4>2. b = a + (l + 1)
        BY <2>1, <3>1
      <4>3. b + 1 = (a + 1) + l + 1 /\ b + 1 \in Nat
            /\ b + 1 <= Len(line) + 1 /\ (u = m => b + 1 = Len(line) + 1)
        BY <2>1, <2>2, <2>3, <2>5, <4>2
      <4> QED
        BY <4>1, <4>3
    <3>3. line[p[u - 1]] = Comma
      <4>1. 1 \in 1 .. Len(s)
        BY <2>2, <3>1
      <4> QED
        BY <2>1, <3>1, <3>2, <4>1
    <3>4. \A i \in 1 .. l : line[p[u - 1] + i] = cell(u)[i]
      <4> TAKE i \in 1 .. l
      <4>1. i + 1 \in 1 .. Len(s) /\ a + (i + 1) = p[u - 1] + i
        BY <2>1, <2>2, <3>1, <3>2
      <4> QED
        BY <2>1, <3>1, <4>1
    <3> QED
      BY <3>2, <3>3, <3>4 DEF StandsAt, l
  <2> QED
    BY <2>7, <2>8
<1>9. p[0] = 0 /\ p \in [0 .. m -> Nat]
  <2>1. 0 \in 0 .. m /\ \A u \in 0 .. m : u # 0 => u \in 1 .. m
    BY <1>1
  <2>2. \A u \in 1 .. m : Len(k[u]) + 1 \in Nat
    <3> TAKE u \in 1 .. m
    <3>1. p[u] = Len(k[u]) + 1
      BY <1>1
    <3> QED
      BY <1>8, <3>1
  <2> QED
    BY <2>1, <2>2
<1> HIDE DEF p
<1>10. \A u \in 1 .. m : u # m => line[p[u]] = Comma
  <2> TAKE u \in 1 .. m
  <2>1. u # m => u + 1 \in 1 .. m /\ u + 1 # 1 /\ (u + 1) - 1 = u
    BY <1>1
  <2> QED
    BY <1>8, <2>1
<1>11. p[m] = Len(line) + 1
  <2>1. m \in 1 .. m
    BY <1>1
  <2> QED
    BY <1>8, <2>1
<1>12. Cut(line, cells, p)
  BY <1>3, <1>6, <1>8, <1>9, <1>10, <1>11 DEF Cut
<1> QED
  BY <1>12 DEF line, cells
-----------------------------------------------------------------------------
(* Where the field of a cell is, and what it begins with.                   *)
LEMMA CutPlace ==
  ASSUME NEW line, NEW cells, NEW p, Cut(line, cells, p),
         NEW u \in 1 .. Len(cells), \A k \in 1 .. u - 1 : Passes(cells, k)
  PROVE  LET a == p[u - 1]
             e == Nth(Ends(line), u)
             f == FieldText(line, u)
             c == cells[u]
         IN  /\ a \in Nat /\ e \in Ends(line) /\ e \in a + 1 .. Len(line) + 1
             /\ f \in String /\ Len(f) = e - a - 1
             /\ \A i \in 1 .. Len(f) : f[i] = line[a + i]
             /\ p[u] = a + Len(c) + 1 /\ p[u] <= Len(line) + 1
             /\ c \in String /\ Len(c) \in Nat
             /\ \A i \in 1 .. Len(c) : line[a + i] = c[i]
             /\ QuotesBefore(line, a + 1) % 2 = 0
<1> DEFINE m == Len(cells)
           a == p[u - 1]
           e == Nth(Ends(line), u)
           f == FieldText(line, u)
           c == cells[u]
<1>1. /\ m \in Nat /\ line \in String /\ c \in String /\ Len(line) \in Nat
      /\ Len(c) \in Nat
  BY DEF Cut, String
<1>2. u \in 1 .. Cardinality(Ends(line)) /\ FieldBegin(line, u) = a + 1
  BY CutField
<1>3. /\ e \in a + 1 .. Len(line) + 1
      /\ f \in String /\ Len(f) = e - (a + 1)
      /\ \A i \in 1 .. e - (a + 1) : f[i] = line[(a + 1) + i - 1]
      /\ a + 1 \in 1 .. Len(line) + 1
  BY <1>1, <1>2, FieldPlace
<1>4. u - 1 \in 0 .. m /\ u - 1 # m
  BY <1>1
<1>5. a \in Nat
  BY <1>4 DEF Cut
<1>6. e \in Ends(line)
  BY <1>1, <1>2, EndsType, NthFound
<1>7. p[u] = a + Len(c) + 1 /\ p[u] <= Len(line) + 1 /\ StandsAt(c, line, a)
  BY DEF Cut
<1>8. QuotesBefore(line, a + 1) % 2 = 0
  <2> DEFINE v == u - 1
  <2>1. v \in 0 .. m /\ v # m /\ v \in 0 .. v
    BY <1>4
  <2>2. \A k \in 1 .. v : Passes(cells, k)
    OBVIOUS
  <2> HIDE DEF v
  <2>3. QuotesBefore(line, p[v] + 1) % 2 = 0
    BY <2>1, <2>2, CutBegins
  <2> QED
    BY <2>3 DEF v
<1> HIDE DEF a, e, f, c
<1>9. Len(f) = e - a - 1
  BY <1>3, <1>5
<1>10. \A i \in 1 .. Len(f) : f[i] = line[a + i]
  <2> TAKE i \in 1 .. Len(f)
  <2>1. (a + 1) + i - 1 = a + i /\ i \in 1 .. e - (a + 1)
    BY <1>3, <1>5
  <2> QED
    BY <1>3, <2>1
<1> QED
  BY <1>1, <1>3, <1>5, <1>6, <1>7, <1>8, <1>9, <1>10 DEF a, e, f, c, StandsAt

(* A field that ends where its cell does: the cell passes.                  *)
LEMMA EndsWithCell ==
  ASSUME NEW line, NEW cells, NEW p, Cut(line, cells, p),
         NEW u \in 1 .. Len(cells), \A k \in 1 .. u - 1 : Passes(cells, k),
         Nth(Ends(line), u) = p[u]
  PROVE  Passes(cells, u)
<1> DEFINE m == Len(cells)
           a == p[u - 1]
           c == cells[u]
           v == u - 1
<1>1. /\ a \in Nat /\ Len(c) \in Nat /\ p[u] = a + Len(c) + 1
      /\ p[u] \in Ends(line) /\ QuotesBefore(line, a + 1) % 2 = 0
      /\ c \in String /\ line \in String
  <2>1. line \in String
    BY DEF Cut
  <2> QED
    BY <2>1, CutPlace
<1>2. p[u] \in Ends(line) <=> u = m \/ Closed(c)
  BY <1>1, CutStep
<1>3. \A i \in 1 .. Len(c) : a + i \in Ends(line) <=> i \in Separators(c)
  BY <1>1, CutStep
<1>4. ASSUME NEW i \in Separators(c) PROVE FALSE
  <2>1. i \in 1 .. Len(c)
    BY <1>1 DEF Separators, String
  <2> DEFINE b == a + i
  <2>2. b \in Ends(line) /\ b < Nth(Ends(line), u) /\ ~ (b <= a)
    BY <1>1, <1>3, <2>1
  <2> HIDE DEF b
  <2>3. u \in 1 .. Cardinality(Ends(line))
    BY CutField
  <2>4. u # 1 /\ b <= Nth(Ends(line), u - 1)
    BY <1>1, <2>2, <2>3, EndsType, NthNone
  <2>5. Nth(Ends(line), u - 1) = a
    <3>1. m \in Nat
      BY DEF Cut
    <3>2. v \in 0 .. m /\ v \in 1 .. v
      BY <2>4, <3>1
    <3>3. \A k \in 1 .. v : Passes(cells, k)
      OBVIOUS
    <3> HIDE DEF v
    <3>4. Nth(Ends(line), v) = p[v]
      BY <3>2, <3>3, CutEnds
    <3> QED
      BY <3>4 DEF v
  <2> QED
    BY <2>2, <2>4, <2>5
<1>5. Separators(c) = {}
  BY <1>4
<1> QED
  BY <1>1, <1>2, <1>5 DEF Passes

(* A field is never the text whose first mark it begins with: the text      *)
(* would be marks only, and then the field ends at one.                     *)
LEMMA FieldIsNot ==
  ASSUME NEW line, NEW cells, NEW p, Cut(line, cells, p),
         NEW u \in 1 .. Len(cells), \A k \in 1 .. u - 1 : Passes(cells, k),
         NEW s \in String, cells[u] = Quoted(s)
  PROVE  FieldText(line, u) # s
<1> DEFINE a == p[u - 1]
           e == Nth(Ends(line), u)
           f == FieldText(line, u)
           c == cells[u]
           n == Len(s)
<1>1. /\ a \in Nat /\ e \in Ends(line) /\ e \in a + 1 .. Len(line) + 1
      /\ Len(f) = e - a - 1
      /\ \A i \in 1 .. Len(f) : f[i] = line[a + i]
      /\ p[u] = a + Len(c) + 1 /\ p[u] <= Len(line) + 1
      /\ \A i \in 1 .. Len(c) : line[a + i] = c[i]
  BY CutPlace
<1>2. /\ Len(c) = n + 2 /\ c[1] = Quote
      /\ \A i \in 1 .. n : c[i + 1] = s[i]
  BY QuotedIs
<1>3. n \in Nat /\ Len(line) \in Nat
  BY DEF Cut, String
<1> SUFFICES ASSUME f = s PROVE FALSE
  OBVIOUS
<1> HIDE DEF a, e, f, c, n
<1>4. e = a + n + 1
  <2>1. n = e - a - 1
    BY <1>1 DEF n
  <2> QED
    BY <1>1, <1>3, <2>1
<1>5. \A i \in 1 .. n : s[i] = c[i]
  <2> TAKE i \in 1 .. n
  <2>1. i \in 1 .. Len(f) /\ i \in 1 .. Len(c)
    BY <1>2, <1>3 DEF n
  <2> QED
    BY <1>1, <2>1
<1> DEFINE Bad == {i \in 1 .. n : s[i] # Quote}
<1>6. ASSUME Bad # {} PROVE FALSE
  <2> DEFINE i == Min(Bad)
  <2>1. i \in Bad /\ \A j \in Bad : i <= j
    <3>1. Bad \in SUBSET Nat
      BY <1>3
    <3> HIDE DEF Bad
    <3> QED
      BY <1>6, <3>1, MinFound
  <2> HIDE DEF i
  <2>2. i \in 1 .. n /\ s[i] # Quote
    BY <2>1
  <2>3. CASE i = 1
    BY <1>2, <1>5, <2>2, <2>3
  <2>4. CASE i # 1
    <3>1. i - 1 \in 1 .. n /\ ~ (i <= i - 1) /\ (i - 1) + 1 = i
      BY <1>3, <2>2, <2>4
    <3>2. s[i - 1] = Quote
      BY <2>1, <3>1
    <3>3. c[(i - 1) + 1] = s[i - 1]
      BY <1>2, <3>1
    <3> QED
      BY <1>5, <2>2, <3>1, <3>2, <3>3
  <2> QED
    BY <2>3, <2>4
<1>7. c[n + 1] = Quote
  <2>1. CASE n = 0
    BY <1>2, <2>1
  <2>2. CASE n # 0
    <3>1. n \in 1 .. n
      BY <1>3, <2>2
    <3>2. s[n] = Quote
      BY <1>6, <3>1
    <3> QED
      BY <1>2, <3>1, <3>2
  <2> QED
    BY <2>1, <2>2
<1>8. line[e] = Quote
  <2>1. n + 1 \in 1 .. Len(c) /\ a + (n + 1) = e
    BY <1>1, <1>2, <1>3, <1>4
  <2> QED
    BY <1>1, <1>7, <2>1
<1>9. e # Len(line) + 1
  BY <1>1, <1>2, <1>3, <1>4
<1>10. line[e] = Comma
  BY <1>1, <1>9 DEF Ends, Separators
<1> QED
  BY <1>8, <1>10, CharAssumption

(* A text between marks that is read back has no comma that ends its field, *)
(* and pairs of marks in front of the next one.                             *)
LEMMA QuotedField ==
  ASSUME NEW line, NEW cells, NEW p, Cut(line, cells, p),
         NEW u \in 1 .. Len(cells), \A k \in 1 .. u - 1 : Passes(cells, k),
         NEW s \in String, cells[u] = Quoted(s),
         Inside(FieldText(line, u)) = s
  PROVE  Passes(cells, u)
<1> DEFINE a == p[u - 1]
           e == Nth(Ends(line), u)
           f == FieldText(line, u)
           c == cells[u]
           n == Len(s)
<1>1. /\ a \in Nat /\ e \in a + 1 .. Len(line) + 1
      /\ f \in String /\ Len(f) = e - a - 1
      /\ p[u] = a + Len(c) + 1
  BY CutPlace
<1>2. Len(c) = n + 2
  BY QuotedIs
<1>3. n \in Nat /\ Len(line) \in Nat
  BY DEF Cut, String
<1>4. f # s
  BY FieldIsNot
<1>5. Wrapped(f)
  BY <1>4 DEF Inside
<1>6. Len(s) = Len(f) - 2
  BY <1>1, <1>5, InsideIs
<1> HIDE DEF a, e, f, c
<1>7. n = (e - a - 1) - 2
  BY <1>1, <1>6
<1> HIDE DEF n
<1>8. e = p[u]
  BY <1>1, <1>2, <1>3, <1>7
<1> QED
  BY <1>8, EndsWithCell DEF e

(* The same of a name, whose field tidy acts on once more.                  *)
LEMMA NameField ==
  ASSUME NEW line, NEW cells, NEW p, Cut(line, cells, p),
         NEW u \in 1 .. Len(cells), u # Len(cells),
         \A k \in 1 .. u - 1 : Passes(cells, k),
         NEW s \in String, cells[u] = Quoted(s),
         Inside(Inside(FieldText(line, u))) = s
  PROVE  Passes(cells, u) /\ ~ Wrapped(s)
<1> DEFINE a == p[u - 1]
           e == Nth(Ends(line), u)
           f == FieldText(line, u)
           g == Inside(f)
           c == cells[u]
           n == Len(s)
<1>1. /\ a \in Nat /\ e \in a + 1 .. Len(line) + 1
      /\ f \in String /\ Len(f) = e - a - 1
      /\ \A i \in 1 .. Len(f) : f[i] = line[a + i]
      /\ p[u] = a + Len(c) + 1
  BY CutPlace
<1>2. Len(c) = n + 2
  BY QuotedIs
<1>3. n \in Nat /\ Len(line) \in Nat /\ line[p[u]] = Comma
  BY DEF Cut, String
<1>4. f # s
  BY FieldIsNot
<1>5. Wrapped(f)
  <2>1. CASE ~ Wrapped(f)
    <3>1. g = f
      BY <2>1 DEF Inside
    <3>2. Inside(g) = s
      OBVIOUS
    <3> HIDE DEF g, f
    <3>3. Inside(f) = f
      BY <2>1 DEF Inside
    <3> QED
      BY <1>4, <3>1, <3>2, <3>3
  <2> QED
    BY <2>1
<1> HIDE DEF f
<1>6. /\ g \in String /\ Len(g) = Len(f) - 2
      /\ \A i \in 1 .. Len(f) - 2 : g[i] = f[i + 1]
  BY <1>1, <1>5, InsideIs
<1>7. Inside(g) = s
  BY DEF f
<1> HIDE DEF a, e, g, c
<1>8. CASE ~ Wrapped(g)
  <2>1. g = s
    BY <1>7, <1>8 DEF Inside
  <2>2. n = (e - a - 1) - 2
    BY <1>1, <1>6, <2>1
  <2> HIDE DEF n
  <2>3. e = p[u]
    BY <1>1, <1>2, <1>3, <2>2
  <2>4. Passes(cells, u)
    BY <2>3, EndsWithCell DEF e
  <2> QED
    BY <1>8, <2>1, <2>4
<1>9. CASE Wrapped(g)
  <2>1. Len(s) = Len(g) - 2 /\ g[Len(g)] = Quote
    BY <1>6, <1>7, <1>9, InsideIs
  <2>2. Len(g) \in Nat /\ Len(f) \in Nat
    BY <1>1, <1>6 DEF String
  <2>3. Len(g) = n + 2 /\ Len(f) = n + 4
    BY <1>3, <1>6, <2>1, <2>2
  <2> HIDE DEF n
  <2>4. f[n + 3] = Quote
    <3>1. n + 2 \in 1 .. Len(f) - 2 /\ (n + 2) + 1 = n + 3
      BY <1>3, <2>3
    <3>2. g[n + 2] = f[(n + 2) + 1]
      BY <1>6, <3>1
    <3> QED
      BY <2>1, <2>3, <3>1, <3>2
  <2>5. line[p[u]] = f[n + 3]
    <3>1. n + 3 \in 1 .. Len(f) /\ a + (n + 3) = p[u]
      BY <1>1, <1>2, <1>3, <2>3
    <3> QED
      BY <1>1, <3>1
  <2> QED
    BY <1>3, <2>4, <2>5, CharAssumption
<1> QED
  BY <1>8, <1>9
-----------------------------------------------------------------------------
(* Lists of texts are equal when the texts are. *)
LEMMA SameTexts ==
  ASSUME NEW s \in Seq(String), NEW t \in Seq(String), Len(s) = Len(t),
         \A i \in 1 .. Len(s) : s[i] = t[i]
  PROVE  s = t
OBVIOUS

(* A line ends with its last cell.                                          *)
LEMMA CutLast ==
  ASSUME NEW line, NEW cells, NEW p, Cut(line, cells, p),
         Len(cells[Len(cells)]) # 0
  PROVE  /\ line # <<>>
         /\ line[Len(line)] = cells[Len(cells)][Len(cells[Len(cells)])]
<1> DEFINE m == Len(cells)
           c == cells[m]
           l == Len(c)
           a == p[m - 1]
<1>1. m \in Nat \ {0} /\ line \in String
  BY EmptySeq DEF Cut
<1>2. m \in 1 .. m /\ m - 1 \in 0 .. m
  BY <1>1
<1>3. c \in String /\ a \in Nat
  BY <1>2 DEF Cut
<1>4. l \in Nat \ {0} /\ Len(line) \in Nat
  BY <1>1, <1>3 DEF String
<1>5. /\ p[m] = a + l + 1 /\ p[m] = Len(line) + 1
      /\ \A i \in 1 .. l : line[a + i] = c[i]
  BY <1>2 DEF Cut, StandsAt
<1> HIDE DEF a, l, c, m
<1>6. a + l = Len(line) /\ l \in 1 .. l /\ Len(line) # 0
  BY <1>3, <1>4, <1>5
<1>7. line[Len(line)] = c[l]
  BY <1>5, <1>6
<1>8. line # <<>>
  BY <1>6
<1> QED
  BY <1>7, <1>8 DEF l, c, m

(* The locations a header is read as are the ones it was written for        *)
(* exactly when they are contained.                                         *)
LEMMA HeaderReads ==
  ASSUME NEW locations \in Seq(String)
  PROVE  LET header == ExportHeader(locations)
             read   == IF header = <<>> THEN <<>> ELSE Fields(header)
         IN  read = locations
               <=> \A l \in DOMAIN locations :
                     \/ Contained(locations[l])
                     \/ l = Len(locations) /\ LastContained(locations[l])
<1> DEFINE m == Len(locations)
           header == ExportHeader(locations)
           cells == HeaderCells(locations)
           read == IF header = <<>> THEN <<>> ELSE Fields(header)
           Fits(l) == \/ Contained(locations[l])
                      \/ l = m /\ LastContained(locations[l])
<1>1. m \in Nat /\ DOMAIN locations = 1 .. m /\ \A l \in 1 .. m : locations[l] \in String
  OBVIOUS
<1>2. CASE locations = <<>>
  <2>1. DOMAIN locations = {} /\ m = 0
    BY <1>2
  <2>2. header = <<>>
    <3> DEFINE seqs == [u \in DOMAIN locations |->
                          IF u = 1 THEN Quoted(locations[u])
                          ELSE <<Comma>> \o Quoted(locations[u])]
    <3>1. seqs = <<>>
      BY <2>1
    <3> HIDE DEF seqs
    <3>2. FlattenSeq(seqs) = <<>>
      BY <3>1 DEF FlattenSeq
    <3> QED
      BY <3>2 DEF ExportHeader, seqs
  <2> QED
    BY <1>2, <2>1, <2>2
<1>3. CASE locations # <<>>
  <2>1. PICK p : Cut(header, cells, p)
    BY <1>3, HeaderCut
  <2>2. /\ Len(cells) = m /\ m # 0
        /\ \A l \in 1 .. m : cells[l] = Quoted(locations[l])
    <3>1. m # 0
      BY <1>3, EmptySeq
    <3>2. cells = [l \in 1 .. m |-> Quoted(locations[l])]
      BY <1>1 DEF HeaderCells
    <3> HIDE DEF cells
    <3> QED
      BY <1>1, <3>1, <3>2
  <2>3. header \in String
    BY ExportHeaderType
  <2> HIDE DEF header, cells, m
  <2>4. header # <<>> /\ header[Len(header)] # Comma
    <3> DEFINE c == cells[m]
    <3>1. m \in 1 .. m
      BY <1>1, <2>2
    <3>2. locations[m] \in String /\ c = Quoted(locations[m])
      BY <1>1, <2>2, <3>1
    <3>3. Len(c) = Len(locations[m]) + 2 /\ c[Len(locations[m]) + 2] = Quote
      BY <3>2, QuotedIs
    <3>4. Len(locations[m]) \in Nat
      BY <3>2 DEF String
    <3>5. c[Len(c)] = Quote /\ Len(c) # 0
      BY <3>3, <3>4
    <3> HIDE DEF c
    <3>6. header # <<>> /\ header[Len(header)] = c[Len(c)]
      BY <2>1, <2>2, <3>5, CutLast DEF c
    <3> QED
      BY <3>5, <3>6, CharAssumption
  <2>5. read = Fields(header)
    BY <2>4
  <2>6. /\ Fields(header) \in Seq(String)
        /\ \A k \in 1 .. Len(Fields(header)) :
             Fields(header)[k] = Inside(FieldText(header, k))
    BY <2>3, FieldsAre
  <2>7. \A l \in 1 .. m : Passes(cells, l) <=> Fits(l)
    <3> TAKE l \in 1 .. m
    <3>1. locations[l] \in String /\ cells[l] = Quoted(locations[l])
      BY <1>1, <2>2
    <3> QED
      BY <2>2, <3>1, QuotedMarks DEF Passes
  <2>8. ASSUME \A l \in 1 .. m : Fits(l) PROVE read = locations
    <3>1. /\ Len(Fields(header)) = m
          /\ \A k \in 1 .. m : Fields(header)[k] = Inside(cells[k])
      BY <2>1, <2>2, <2>4, <2>7, <2>8, CutFields
    <3>2. \A k \in 1 .. m : Fields(header)[k] = locations[k]
      BY <1>1, <2>2, <3>1, QuotedIs
    <3> QED
      BY <2>5, <2>6, <3>1, <3>2, SameTexts DEF m
  <2>9. ASSUME read = locations PROVE \A l \in 1 .. m : Fits(l)
    <3> DEFINE Bad == {l \in 1 .. m : ~ Passes(cells, l)}
    <3>1. ASSUME Bad # {} PROVE FALSE
      <4> DEFINE l == Min(Bad)
      <4>1. l \in Bad /\ \A j \in Bad : l <= j
        <5>1. Bad \in SUBSET Nat
          BY <1>1
        <5> HIDE DEF Bad
        <5> QED
          BY <3>1, <5>1, MinFound
      <4> HIDE DEF l
      <4>2. l \in 1 .. m /\ ~ Passes(cells, l)
        BY <4>1
      <4>3. \A k \in 1 .. l - 1 : Passes(cells, k)
        <5> TAKE k \in 1 .. l - 1
        <5>1. k \in 1 .. m /\ ~ (l <= k)
          BY <1>1, <4>2
        <5> QED
          BY <4>1, <5>1
      <4>4. Inside(FieldText(header, l)) = locations[l]
        <5>1. Len(Fields(header)) = m /\ Fields(header)[l] = locations[l]
          BY <2>5, <2>9 DEF m
        <5> QED
          BY <2>6, <4>2, <5>1
      <4> DEFINE s == locations[l]
      <4>5. s \in String /\ cells[l] = Quoted(s) /\ l \in 1 .. Len(cells)
        BY <1>1, <2>2, <4>2
      <4> HIDE DEF s, read, Bad
      <4>6. Passes(cells, l)
        BY <2>1, <4>3, <4>4, <4>5, QuotedField DEF s
      <4> QED
        BY <4>2, <4>6
    <3> QED
      BY <2>7, <3>1
  <2> QED
    BY <1>1, <2>8, <2>9 DEF header, m
<1> QED
  BY <1>2, <1>3
-----------------------------------------------------------------------------
(* The cells of a product's line.                                           *)
LineCells(elem, n) ==
  [k \in 1 .. 3 + n |->
     IF k = 1 THEN Quoted(elem.name)
     ELSE IF k = 2 THEN Quoted(elem.size)
     ELSE IF k = 3 THEN <<Printed(SumCounts(elem))>>
     ELSE <<Printed(GetCount(elem, k - 3))>>]

(* The counts behind each other, each with its comma.                       *)
LEMMA CountsAre ==
  ASSUME NEW f, NEW n \in Nat, \A u \in 1 .. n : f[u] \in Letter
  PROVE  LET seqs == [u \in 1 .. n |-> <<Comma, f[u]>>]
             all  == FlattenSeq(seqs)
         IN  /\ all \in Seq(Letter) /\ Len(all) = 2 * n
             /\ \A u \in 1 .. n : /\ all[2 * u - 1] = Comma
                                  /\ all[2 * u] = f[u]
<1> DEFINE seqs == [u \in 1 .. n |-> <<Comma, f[u]>>]
           all == FlattenSeq(seqs)
           k == Flat(seqs)
<1>1. \A u \in 1 .. n : /\ <<Comma, f[u]>> \in Seq(Letter) /\ Len(<<Comma, f[u]>>) = 2
                        /\ <<Comma, f[u]>>[1] = Comma /\ <<Comma, f[u]>>[2] = f[u]
  <2>1. Comma \in Letter
    BY CharAssumption DEF Letter
  <2> QED
    BY <2>1
<1>2. /\ seqs \in Seq(Seq(Letter)) /\ Len(seqs) = n
      /\ \A u \in 1 .. n : /\ seqs[u] \in Seq(Letter) /\ Len(seqs[u]) = 2
                           /\ seqs[u][1] = Comma /\ seqs[u][2] = f[u]
  BY <1>1
<1> HIDE DEF seqs
<1>3. all \in Seq(Letter)
  BY <1>2, FlattenType
<1>4. ASSUME NEW u \in 1 .. n
      PROVE  LET a == IF u = 1 THEN 0 ELSE Len(k[u - 1])
                 b == Len(k[u])
             IN  /\ a \in Nat /\ b = a + Len(seqs[u])
                 /\ b <= Len(all) /\ (u = Len(seqs) => b = Len(all))
                 /\ \A i \in 1 .. Len(seqs[u]) : all[a + i] = seqs[u][i]
  <2>1. seqs \in Seq(Seq(Letter)) /\ u \in 1 .. Len(seqs)
    BY <1>2
  <2> QED
    BY <2>1, FlatPlace
<1> DEFINE Bad == {u \in 1 .. n : Len(k[u]) # 2 * u}
<1> HIDE DEF k, all
<1>5. ASSUME Bad # {} PROVE FALSE
  <2> DEFINE u == Min(Bad)
  <2>1. u \in Bad /\ \A j \in Bad : u <= j
    <3>1. Bad \in SUBSET Nat
      OBVIOUS
    <3> HIDE DEF Bad
    <3> QED
      BY <1>5, <3>1, MinFound
  <2> HIDE DEF u
  <2>2. u \in 1 .. n /\ Len(k[u]) # 2 * u
    BY <2>1
  <2>3. Len(k[u]) = (IF u = 1 THEN 0 ELSE Len(k[u - 1])) + 2
    BY <1>2, <1>4, <2>2
  <2>4. CASE u = 1
    BY <2>2, <2>3, <2>4
  <2>5. CASE u # 1
    <3>1. u - 1 \in 1 .. n /\ ~ (u <= u - 1)
      BY <2>2, <2>5
    <3>2. Len(k[u - 1]) = 2 * (u - 1)
      BY <2>1, <3>1
    <3>3. Len(k[u]) = 2 * (u - 1) + 2
      BY <2>3, <2>5, <3>2
    <3> QED
      BY <2>2, <3>3
  <2> QED
    BY <2>4, <2>5
<1>6. Len(all) = 2 * n
  <2>1. CASE n = 0
    <3>1. seqs = <<>>
      BY <1>2, <2>1, EmptySeq
    <3>2. all = <<>>
      BY <3>1 DEF FlattenSeq, all
    <3> QED
      BY <2>1, <3>2
  <2>2. CASE n # 0
    <3>1. n \in 1 .. n
      BY <2>2
    <3>2. Len(k[n]) = 2 * n
      BY <1>5, <3>1
    <3> QED
      BY <1>2, <1>4, <3>1, <3>2
  <2> QED
    BY <2>1, <2>2
<1>7. ASSUME NEW u \in 1 .. n PROVE all[2 * u - 1] = Comma /\ all[2 * u] = f[u]
  <2> DEFINE a == IF u = 1 THEN 0 ELSE Len(k[u - 1])
  <2>1. a = 2 * u - 2
    <3>1. CASE u = 1
      BY <3>1
    <3>2. CASE u # 1
      <4>1. u - 1 \in 1 .. n
        BY <3>2
      <4>2. Len(k[u - 1]) = 2 * (u - 1)
        BY <1>5, <4>1
      <4> QED
        BY <3>2, <4>2
    <3> QED
      BY <3>1, <3>2
  <2>2. \A i \in 1 .. 2 : all[a + i] = seqs[u][i]
    BY <1>2, <1>4
  <2> HIDE DEF a
  <2>3. all[a + 1] = Comma /\ all[a + 2] = f[u]
    BY <1>2, <2>2
  <2>4. a + 1 = 2 * u - 1 /\ a + 2 = 2 * u
    BY <2>1
  <2> QED
    BY <2>3, <2>4
<1> QED
  BY <1>3, <1>6, <1>7 DEF all, seqs
-----------------------------------------------------------------------------
(* A product's line is cut at the commas between its cells.                 *)
LEMMA LineCut ==
  ASSUME NEW elem \in ElementOver(String), NEW n \in Nat
  PROVE  /\ LineCells(elem, n) \in Seq(String)
         /\ Len(LineCells(elem, n)) = 3 + n
         /\ \E p : Cut(ExportLine(elem, n), LineCells(elem, n), p)
<1> DEFINE f == [u \in 1 .. n |-> Printed(GetCount(elem, u))]
           sum == Printed(SumCounts(elem))
           seqs == [u \in 1 .. n |-> <<Comma, f[u]>>]
           flat == FlattenSeq(seqs)
           name == Quoted(elem.name)
           size == Quoted(elem.size)
           total == <<Comma, sum>>
           comma == <<Comma>>
           line == ExportLine(elem, n)
           cells == LineCells(elem, n)
           x == Len(name) + 1
           y == x + Len(size) + 1
           p == [k \in 0 .. 3 + n |-> IF k = 0 THEN 0 ELSE IF k = 1 THEN x
                                      ELSE y + 2 * (k - 2)]
<1>1. elem.name \in String /\ elem.size \in String
  BY DEF ElementOver
<1>2. /\ sum \in Int /\ sum \in Letter
      /\ \A u \in 1 .. n : f[u] \in Int /\ f[u] \in Letter
  <2>1. SumCounts(elem) \in Int
    BY SumCountsOver
  <2>2. \A c \in Int : c \in Letter
    BY DEF Letter
  <2>3. \A u \in 1 .. n : Printed(GetCount(elem, u)) \in Int
    BY GetCountOver, PrintedType
  <2> QED
    BY <2>1, <2>2, <2>3, PrintedType
<1>3. /\ flat \in Seq(Letter) /\ Len(flat) = 2 * n
      /\ \A u \in 1 .. n : flat[2 * u - 1] = Comma /\ flat[2 * u] = f[u]
  <2> HIDE DEF f
  <2> QED
    BY <1>2, CountsAre
<1>4. /\ name \in Seq(Letter) /\ size \in Seq(Letter) /\ name \in String /\ size \in String
      /\ Len(name) \in Nat /\ Len(size) \in Nat
  <2>1. name \in String /\ size \in String
    BY <1>1, QuotedIs
  <2> HIDE DEF name, size
  <2> QED
    BY <2>1 DEF String
<1>5. /\ comma \in Seq(Letter) /\ Len(comma) = 1 /\ comma[1] = Comma
      /\ total \in Seq(Letter) /\ Len(total) = 2 /\ total[1] = Comma /\ total[2] = sum
  <2>1. Comma \in Letter
    BY CharAssumption DEF Letter
  <2> QED
    BY <1>2, <2>1
<1>6. line = (((name \o comma) \o size) \o total) \o flat
  BY DEF ExportLine
<1> HIDE DEF name, size, total, comma, flat, seqs, line, sum
<1> DEFINE r == name \o comma
           s == r \o size
           t == s \o total
<1>7. /\ r \in Seq(Letter) /\ Len(r) = x
      /\ (\A i \in 1 .. Len(name) : r[i] = name[i]) /\ r[x] = Comma
  <2>1. /\ r \in Seq(Letter) /\ Len(r) = Len(name) + Len(comma)
        /\ \A i \in 1 .. Len(name) : r[i] = name[i]
        /\ \A i \in 1 .. Len(comma) : r[Len(name) + i] = comma[i]
    BY <1>4, <1>5, ConcatIs
  <2>2. 1 \in 1 .. Len(comma)
    BY <1>5
  <2> QED
    BY <1>5, <2>1, <2>2
<1> HIDE DEF r
<1>8. /\ s \in Seq(Letter) /\ Len(s) = y - 1
      /\ \A i \in 1 .. x : s[i] = r[i]
      /\ \A i \in 1 .. Len(size) : s[x + i] = size[i]
  <2>1. /\ s \in Seq(Letter) /\ Len(s) = Len(r) + Len(size)
        /\ \A i \in 1 .. Len(r) : s[i] = r[i]
        /\ \A i \in 1 .. Len(size) : s[Len(r) + i] = size[i]
    BY <1>4, <1>7, ConcatIs
  <2> QED
    BY <1>4, <1>7, <2>1
<1> HIDE DEF s
<1>9. x \in Nat /\ y \in Nat /\ x < y /\ y = x + Len(size) + 1 /\ x = Len(name) + 1
  BY <1>4
<1> HIDE DEF x, y
<1>10. /\ t \in Seq(Letter) /\ Len(t) = y + 1
       /\ \A i \in 1 .. y - 1 : t[i] = s[i]
       /\ t[y] = Comma /\ t[y + 1] = sum
  <2>1. /\ t \in Seq(Letter) /\ Len(t) = Len(s) + Len(total)
        /\ \A i \in 1 .. Len(s) : t[i] = s[i]
        /\ \A i \in 1 .. Len(total) : t[Len(s) + i] = total[i]
    BY <1>5, <1>8, ConcatIs
  <2>2. 1 \in 1 .. Len(total) /\ 2 \in 1 .. Len(total)
    BY <1>5
  <2>3. Len(s) + 1 = y /\ Len(s) + 2 = y + 1
    BY <1>8, <1>9
  <2>4. t[Len(s) + 1] = Comma /\ t[Len(s) + 2] = sum
    BY <1>5, <2>1, <2>2
  <2>5. Len(t) = y + 1
    BY <1>5, <2>1, <2>3
  <2> QED
    BY <1>8, <2>1, <2>3, <2>4, <2>5
<1> HIDE DEF t
<1>11. /\ line \in Seq(Letter) /\ Len(line) = y + 1 + 2 * n
       /\ \A i \in 1 .. y + 1 : line[i] = t[i]
       /\ \A i \in 1 .. 2 * n : line[(y + 1) + i] = flat[i]
  <2>1. line = t \o flat
    BY <1>6 DEF t, s, r
  <2>2. /\ t \o flat \in Seq(Letter) /\ Len(t \o flat) = Len(t) + Len(flat)
        /\ \A i \in 1 .. Len(t) : (t \o flat)[i] = t[i]
        /\ \A i \in 1 .. Len(flat) : (t \o flat)[Len(t) + i] = flat[i]
    BY <1>3, <1>10, ConcatIs
  <2> HIDE DEF t
  <2> QED
    BY <1>3, <1>10, <2>1, <2>2
<1>12. \A i \in 1 .. Len(name) : line[i] = name[i]
  <2> TAKE i \in 1 .. Len(name)
  <2>1. i \in 1 .. x /\ i \in 1 .. y - 1 /\ i \in 1 .. y + 1
    BY <1>4, <1>9
  <2> QED
    BY <1>7, <1>8, <1>10, <1>11, <2>1
<1>13. line[x] = Comma
  <2>1. x \in 1 .. x /\ x \in 1 .. y - 1 /\ x \in 1 .. y + 1
    BY <1>4, <1>9
  <2> QED
    BY <1>7, <1>8, <1>10, <1>11, <2>1
<1>14. \A i \in 1 .. Len(size) : line[x + i] = size[i]
  <2> TAKE i \in 1 .. Len(size)
  <2>1. x + i \in 1 .. y - 1 /\ x + i \in 1 .. y + 1
    BY <1>4, <1>9
  <2> QED
    BY <1>8, <1>10, <1>11, <2>1
<1>15. line[y] = Comma /\ line[y + 1] = sum
  <2>1. y \in 1 .. y + 1 /\ y + 1 \in 1 .. y + 1
    BY <1>4, <1>9
  <2> QED
    BY <1>10, <1>11, <2>1
<1>16. \A u \in 1 .. n : line[y + 2 * u] = Comma /\ line[y + 2 * u + 1] = f[u]
  <2> TAKE u \in 1 .. n
  <2>1. /\ 2 * u - 1 \in 1 .. 2 * n /\ (y + 1) + (2 * u - 1) = y + 2 * u
        /\ 2 * u \in 1 .. 2 * n /\ (y + 1) + 2 * u = y + 2 * u + 1
    BY <1>9
  <2> HIDE DEF f
  <2> QED
    BY <1>3, <1>11, <2>1
<1> HIDE DEF f
<1>17. \A k \in 1 .. 3 + n :
         /\ k # 1 /\ k # 2 /\ k # 3 => k - 3 \in 1 .. n
         /\ cells[k] = IF k = 1 THEN name ELSE IF k = 2 THEN size
                       ELSE IF k = 3 THEN <<sum>> ELSE <<f[k - 3]>>
  <2> TAKE k \in 1 .. 3 + n
  <2>1. k # 1 /\ k # 2 /\ k # 3 => k - 3 \in 1 .. n
    OBVIOUS
  <2>2. cells[k] = IF k = 1 THEN name ELSE IF k = 2 THEN size
                   ELSE IF k = 3 THEN <<sum>> ELSE <<Printed(GetCount(elem, k - 3))>>
    BY DEF LineCells, name, size, sum
  <2>3. \A u \in 1 .. n : f[u] = Printed(GetCount(elem, u))
    BY DEF f
  <2> HIDE DEF cells
  <2> QED
    BY <2>1, <2>2, <2>3
<1>18. \A v \in Letter : <<v>> \in String /\ Len(<<v>>) = 1 /\ <<v>>[1] = v
  BY DEF String
<1>19. /\ cells \in Seq(String) /\ Len(cells) = 3 + n /\ cells # <<>>
  <2>1. \A k \in 1 .. 3 + n : cells[k] \in String
    <3> TAKE k \in 1 .. 3 + n
    <3>1. k # 1 /\ k # 2 /\ k # 3 => <<f[k - 3]>> \in String
      BY <1>2, <1>17, <1>18
    <3>2. <<sum>> \in String
      BY <1>2, <1>18
    <3> HIDE DEF cells
    <3> QED
      BY <1>4, <1>17, <3>1, <3>2
  <2>2. cells = [k \in 1 .. 3 + n |-> cells[k]]
    BY DEF LineCells
  <2> HIDE DEF cells
  <2>3. cells \in Seq(String) /\ Len(cells) = 3 + n
    BY <2>1, <2>2
  <2> QED
    BY <2>3
<1> HIDE DEF cells
<1>20. /\ p \in [0 .. 3 + n -> Nat] /\ p[0] = 0 /\ p[1] = x
       /\ \A k \in 2 .. 3 + n : p[k] = y + 2 * (k - 2)
  <2>1. \A k \in 0 .. 3 + n : k # 0 /\ k # 1 => y + 2 * (k - 2) \in Nat
    BY <1>9
  <2> QED
    BY <1>9, <2>1
<1> HIDE DEF p
<1>21. ASSUME NEW k \in 1 .. 3 + n
       PROVE  /\ p[k] = p[k - 1] + Len(cells[k]) + 1 /\ p[k] <= Len(line) + 1
              /\ StandsAt(cells[k], line, p[k - 1])
              /\ k # 3 + n => line[p[k]] = Comma
  <2>1. CASE k = 1
    <3>1. cells[k] = name /\ p[k] = x /\ p[k - 1] = 0
      <4>1. k - 1 = 0
        BY <2>1
      <4>2. cells[k] = name
        BY <1>17, <2>1
      <4> QED
        BY <1>20, <2>1, <4>1, <4>2
    <3>2. x = 0 + Len(name) + 1 /\ x <= Len(line) + 1
      BY <1>4, <1>9, <1>11
    <3>3. \A i \in 1 .. Len(name) : line[0 + i] = name[i]
      BY <1>12
    <3> QED
      BY <1>13, <3>1, <3>2, <3>3 DEF StandsAt
  <2>2. CASE k = 2
    <3>1. cells[k] = size /\ p[k] = y /\ p[k - 1] = x
      <4>1. k \in 2 .. 3 + n /\ k - 1 = 1 /\ y + 2 * (k - 2) = y
        BY <1>9, <2>2
      <4>2. cells[k] = size
        <5>1. cells[k] = IF k = 1 THEN name ELSE IF k = 2 THEN size
                         ELSE IF k = 3 THEN <<sum>> ELSE <<f[k - 3]>>
          BY <1>17
        <5> HIDE DEF cells
        <5> QED
          BY <2>2, <5>1
      <4>3. p[k] = y
        BY <1>20, <4>1
      <4> QED
        BY <1>20, <4>1, <4>2, <4>3
    <3>2. y = x + Len(size) + 1 /\ y <= Len(line) + 1
      BY <1>4, <1>9, <1>11
    <3> QED
      BY <1>14, <1>15, <3>1, <3>2 DEF StandsAt
  <2>3. CASE k # 1 /\ k # 2
    <3> DEFINE c == cells[k]
               v == IF k = 3 THEN sum ELSE f[k - 3]
               a == p[k - 1]
               b == p[k]
    <3>1. c = <<v>> /\ v \in Letter
      BY <1>2, <1>17, <2>3
    <3>2. Len(c) = 1 /\ c[1] = v
      BY <1>18, <3>1
    <3>3. a = y + 2 * (k - 3) /\ b = y + 2 * (k - 2)
      <4>1. k \in 2 .. 3 + n /\ k - 1 \in 2 .. 3 + n
            /\ (k - 1) - 2 = k - 3
        BY <2>3
      <4> QED
        BY <1>20, <4>1
    <3>4. line[a + 1] = v
      <4>1. CASE k = 3
        <5>1. a + 1 = y + 1
          BY <1>9, <3>3, <4>1
        <5> QED
          BY <1>15, <4>1, <5>1
      <4>2. CASE k # 3
        <5>1. k - 3 \in 1 .. n
          BY <1>17, <2>3, <4>2
        <5>2. line[y + 2 * (k - 3) + 1] = f[k - 3]
          BY <1>16, <5>1
        <5> QED
          BY <3>3, <4>2, <5>2
      <4> QED
        BY <4>1, <4>2
    <3>5. k # 3 + n => line[b] = Comma
      <4>1. k # 3 + n => k - 2 \in 1 .. n
        BY <2>3
      <4> QED
        BY <1>16, <3>3, <4>1
    <3> HIDE DEF a, b, c, v
    <3>6. b = a + 1 + 1 /\ b <= Len(line) + 1
      BY <1>9, <1>11, <3>3
    <3>7. StandsAt(c, line, a)
      BY <3>2, <3>4 DEF StandsAt
    <3> QED
      BY <3>2, <3>5, <3>6, <3>7 DEF a, b, c
  <2> QED
    BY <2>1, <2>2, <2>3
<1>22. p[3 + n] = Len(line) + 1
  <2>1. 3 + n \in 2 .. 3 + n /\ y + 2 * ((3 + n) - 2) = (y + 1 + 2 * n) + 1
    BY <1>9
  <2> QED
    BY <1>11, <1>20, <2>1
<1>23. Cut(line, cells, p)
  BY <1>11, <1>19, <1>20, <1>21, <1>22 DEF Cut, String
<1> QED
  BY <1>19, <1>23 DEF line, cells
-----------------------------------------------------------------------------
(* A number alone in its cell passes and is read as that number. *)
LEMMA NumberCell ==
  ASSUME NEW v \in Int
  PROVE  /\ <<v>> \in String /\ Len(<<v>>) = 1 /\ <<v>>[1] = v
         /\ Separators(<<v>>) = {} /\ Closed(<<v>>)
         /\ Inside(<<v>>) = <<v>> /\ Number(<<v>>) = v
         /\ v # Comma
<1> DEFINE c == <<v>>
<1>1. v \in Letter /\ v # Quote /\ v # Comma
  BY CharAssumption DEF Letter
<1>2. /\ c \in String /\ Len(c) = 1 /\ c[1] = v /\ DOMAIN c = 1 .. 1
      /\ Head(c) = v /\ c # <<>>
  BY <1>1 DEF String
<1> HIDE DEF c
<1>3. Separators(c) = {}
  BY <1>1, <1>2 DEF Separators
<1>4. Closed(c)
  <2>1. 1 \in Nat \ {0}
    OBVIOUS
  <2>2. QuotesBefore(c, 1) = 0
    BY <2>1, QuotesCount
  <2>3. QuotesBefore(c, 1 + 1) = QuotesBefore(c, 1) + (IF c[1] = Quote THEN 1 ELSE 0)
    BY <2>1, QuotesCount
  <2>4. QuotesBefore(c, Len(c) + 1) = 0
    BY <1>1, <1>2, <2>2, <2>3
  <2> QED
    BY <2>4 DEF Closed
<1>5. Inside(c) = c
  BY <1>2 DEF Inside, Wrapped
<1>6. Number(c) = v
  BY <1>2 DEF Number
<1> QED
  BY <1>1, <1>2, <1>3, <1>4, <1>5, <1>6 DEF c

(* A line whose texts are contained is taken and read as it was written.    *)
LEMMA LineReads ==
  ASSUME NEW elem \in ElementOver(String), NEW n \in Nat,
         Contained(elem.name), Contained(elem.size)
  PROVE  LET row == RowOf(ExportLine(elem, n), 3)
         IN  /\ RowResult(row, n) = "none"
             /\ row.fields[1] = elem.name /\ row.fields[2] = elem.size
             /\ \A u \in 1 .. n : row.counts[u] = Printed(GetCount(elem, u))
<1> DEFINE line == ExportLine(elem, n)
           cells == LineCells(elem, n)
           row == RowOf(line, 3)
           fields == Fields(line)
           m == 3 + n
           v(k) == IF k = 3 THEN Printed(SumCounts(elem))
                   ELSE Printed(GetCount(elem, k - 3))
<1>1. elem.name \in String /\ elem.size \in String /\ line \in String
  BY ExportLineType DEF ElementOver
<1>2. cells \in Seq(String) /\ Len(cells) = m
  BY LineCut
<1>3. PICK p : Cut(line, cells, p)
  BY LineCut
<1>4. /\ cells[1] = Quoted(elem.name) /\ cells[2] = Quoted(elem.size)
      /\ \A k \in 3 .. m : cells[k] = <<v(k)>>
  <2>1. 1 \in 1 .. m /\ 2 \in 1 .. m /\ \A k \in 3 .. m : k \in 1 .. m /\ k # 1 /\ k # 2
    OBVIOUS
  <2> QED
    BY <2>1 DEF LineCells
<1>5. \A k \in 3 .. m : v(k) \in Int
  <2>1. SumCounts(elem) \in Int
    BY SumCountsOver
  <2>2. \A k \in 3 .. m : GetCount(elem, k - 3) \in Int
    BY GetCountOver
  <2> QED
    BY <2>1, <2>2, PrintedType
<1> HIDE DEF v, cells, line
<1>6. \A k \in 3 .. m : /\ Separators(cells[k]) = {} /\ Closed(cells[k])
                        /\ Inside(cells[k]) = cells[k] /\ Number(cells[k]) = v(k)
                        /\ Len(cells[k]) = 1 /\ cells[k][1] = v(k) /\ v(k) # Comma
  <2> TAKE k \in 3 .. m
  <2> DEFINE w == v(k)
  <2>1. cells[k] = <<w>> /\ w \in Int
    BY <1>4, <1>5
  <2> HIDE DEF w
  <2>2. /\ Separators(cells[k]) = {} /\ Closed(cells[k])
        /\ Inside(cells[k]) = cells[k] /\ Number(cells[k]) = w
        /\ Len(cells[k]) = 1 /\ cells[k][1] = w /\ w # Comma
    BY <2>1, NumberCell
  <2> QED
    BY <2>2 DEF w
<1>7. \A k \in 1 .. m : Passes(cells, k)
  <2> TAKE k \in 1 .. m
  <2>1. CASE k = 1
    BY <1>1, <1>4, <2>1, QuotedMarks DEF Passes
  <2>2. CASE k = 2
    BY <1>1, <1>4, <2>2, QuotedMarks DEF Passes
  <2>3. CASE k # 1 /\ k # 2
    <3>1. k \in 3 .. m
      BY <2>3
    <3> QED
      BY <1>6, <3>1 DEF Passes
  <2> QED
    BY <2>1, <2>2, <2>3
<1>8. line[Len(line)] # Comma
  <2>1. m \in 3 .. m
    OBVIOUS
  <2>2. Len(cells[m]) = 1 /\ cells[m][1] # Comma
    BY <1>6, <2>1
  <2>3. line[Len(line)] = cells[m][Len(cells[m])]
    BY <1>2, <1>3, <2>2, CutLast
  <2> QED
    BY <2>2, <2>3
<1>9. Len(fields) = m /\ \A k \in 1 .. m : fields[k] = Inside(cells[k])
  BY <1>2, <1>3, <1>7, <1>8, CutFields
<1>10. fields[1] = elem.name /\ fields[2] = elem.size
  <2>1. 1 \in 1 .. m /\ 2 \in 1 .. m
    OBVIOUS
  <2> QED
    BY <1>1, <1>4, <1>9, <2>1, QuotedIs
<1>11. \A u \in 1 .. n : /\ Number(fields[3 + u]) = Printed(GetCount(elem, u))
                         /\ Printed(GetCount(elem, u)) \in Int
  <2> TAKE u \in 1 .. n
  <2>1. 3 + u \in 3 .. m /\ 3 + u \in 1 .. m /\ 3 + u # 3 /\ (3 + u) - 3 = u
    OBVIOUS
  <2>2. v(3 + u) = Printed(GetCount(elem, u))
    BY <2>1 DEF v
  <2> QED
    BY <1>5, <1>6, <1>9, <2>1, <2>2
<1>12. row = [fields |-> fields, short |-> m - 3 < 0,
              counts |-> [u \in 1 .. m - 3 |-> Number(fields[3 + u])]]
  BY <1>9 DEF RowOf
<1>13. m - 3 = n /\ ~ (n < 0)
  OBVIOUS
<1> HIDE DEF m, fields
<1> DEFINE counts == [u \in 1 .. n |-> Number(fields[3 + u])]
<1>14. row = [fields |-> fields, short |-> n < 0, counts |-> counts]
  BY <1>12, <1>13
<1>15. counts \in Seq(Int) /\ Len(counts) = n
       /\ \A u \in 1 .. n : counts[u] = Printed(GetCount(elem, u)) /\ counts[u] \in Int
  BY <1>11
<1> HIDE DEF counts, row
<1>16. row.fields = fields /\ row.counts = counts
  BY <1>14
<1>17. ~ row.short
  <2>1. row.short = (n < 0)
    BY <1>14
  <2> QED
    BY <1>13, <2>1, Zenon
<1>18. RowResult(row, n) = "none"
  <2>1. \A u \in 1 .. n : row.counts[u] # NoNumber
    BY <1>15, <1>16, NoNumberAssumption
  <2>2. ~ (Len(row.counts) < n)
    BY <1>15, <1>16
  <2> QED
    BY <1>17, <2>1, <2>2 DEF RowResult
<1> QED
  BY <1>10, <1>15, <1>16, <1>18 DEF row, line

(* A line that is read as it was written has contained texts, and no marks  *)
(* around its name.                                                         *)
LEMMA LineNeeds ==
  ASSUME NEW elem \in ElementOver(String), NEW n \in Nat,
         RowResult(RowOf(ExportLine(elem, n), 3), n) = "none",
         Inside(RowOf(ExportLine(elem, n), 3).fields[1]) = elem.name,
         RowOf(ExportLine(elem, n), 3).fields[2] = elem.size
  PROVE  /\ Contained(elem.name) /\ ~ Wrapped(elem.name)
         /\ Contained(elem.size)
<1> DEFINE line == ExportLine(elem, n)
           cells == LineCells(elem, n)
           fields == Fields(line)
<1>1. elem.name \in String /\ elem.size \in String /\ line \in String
  BY ExportLineType DEF ElementOver
<1>2. cells \in Seq(String) /\ Len(cells) = 3 + n
  BY LineCut
<1>3. PICK p : Cut(line, cells, p)
  BY LineCut
<1>4. cells[1] = Quoted(elem.name) /\ cells[2] = Quoted(elem.size)
  <2>1. 1 \in 1 .. 3 + n /\ 2 \in 1 .. 3 + n
    OBVIOUS
  <2> QED
    BY <2>1 DEF LineCells
<1> HIDE DEF cells, line
<1>5. /\ fields \in Seq(String)
      /\ \A k \in 1 .. Len(fields) : fields[k] = Inside(FieldText(line, k))
  BY <1>1, FieldsAre
<1>6. Inside(fields[1]) = elem.name /\ fields[2] = elem.size
  BY <1>1, RowOfType DEF line
<1>7. Len(fields) >= 3 /\ Len(fields) \in Nat
  <2>1. ~ RowOf(line, 3).short
    BY DEF RowResult, Aborted, line
  <2> QED
    BY <1>1, <1>5, <2>1, RowOfType
<1> HIDE DEF fields
<1>8. /\ Inside(Inside(FieldText(line, 1))) = elem.name
      /\ Inside(FieldText(line, 2)) = elem.size
  <2>1. 1 \in 1 .. Len(fields) /\ 2 \in 1 .. Len(fields)
    BY <1>7
  <2> QED
    BY <1>5, <1>6, <2>1
<1>9. /\ 1 \in 1 .. Len(cells) /\ 2 \in 1 .. Len(cells)
      /\ 1 # Len(cells) /\ 2 # Len(cells)
      /\ \A k \in 1 .. 1 - 1 : Passes(cells, k)
  BY <1>2
<1>10. Passes(cells, 1) /\ ~ Wrapped(elem.name)
  BY <1>1, <1>3, <1>4, <1>8, <1>9, NameField
<1>11. \A k \in 1 .. 2 - 1 : Passes(cells, k)
  BY <1>10
<1>12. Passes(cells, 2)
  BY <1>1, <1>3, <1>4, <1>8, <1>9, <1>11, QuotedField
<1> QED
  BY <1>1, <1>4, <1>9, <1>10, <1>12, QuotedMarks DEF Passes
-----------------------------------------------------------------------------
(* A load ends well exactly when every line of the file is taken.           *)
LEMMA ReadLinesNone ==
  ASSUME NEW lines \in Seq(String), NEW name \in {1, 2},
         NEW locations \in Seq(String)
  PROVE  LET load == ReadLines(lines, name, 3, locations)
             n    == Len(locations)
         IN  /\ load.result = "none"
                  <=> \A i \in DOMAIN lines : RowResult(RowOf(lines[i], 3), n) = "none"
             /\ load.result = "none"
                  => load = Loaded("none", TidyTexts(TextElements(lines, name, 3, n)),
                                   locations)
<1> DEFINE n == Len(locations)
           rows == [i \in DOMAIN lines |-> RowOf(lines[i], 3)]
           S == {RowOf(line, 3) : line \in String}
           bad == FailingRow(rows, n)
           all == TextElements(lines, name, 3, n)
           load == ReadLines(lines, name, 3, locations)
           Taken(i) == RowResult(RowOf(lines[i], 3), n) = "none"
<1>1. n \in Nat /\ Len(lines) \in Nat /\ DOMAIN lines = 1 .. Len(lines)
  OBVIOUS
<1>2. /\ rows \in Seq(S) /\ DOMAIN rows = 1 .. Len(lines)
      /\ \A i \in 1 .. Len(lines) : rows[i] = RowOf(lines[i], 3)
  BY <1>1
<1>3. IF bad = 0
      THEN \A j \in DOMAIN rows : RowResult(rows[j], n) = "none"
      ELSE /\ bad \in DOMAIN rows
           /\ RowResult(rows[bad], n) # "none"
           /\ \A j \in 1 .. bad - 1 : RowResult(rows[j], n) = "none"
  <2> HIDE DEF rows, S
  <2> QED
    BY <1>1, <1>2, FailingRowFound
<1>4. load = IF bad = 0
             THEN IF \E i \in DOMAIN all : PopsEmpty(all[i].name)
                  THEN Refused(Undefined)
                  ELSE Loaded("none", TidyTexts(all), locations)
             ELSE IF RowResult(RowOf(lines[bad], 3), n) = Aborted
             THEN Refused(Aborted)
             ELSE Loaded("unable_to_parse_count",
                         TextElements(SubSeq(lines, 1, bad - 1), name, 3, n),
                         locations)
  BY DEF ReadLines
<1>5. /\ \A code : Refused(code).result = code
      /\ \A code, elements : Loaded(code, elements, locations).result = code
  BY DEF Refused, Loaded
<1> HIDE DEF rows, S, all, load
<1>6. CASE bad = 0
  <2>1. \A i \in DOMAIN lines : Taken(i)
    <3> HIDE DEF bad
    <3> QED
      BY <1>1, <1>2, <1>3, <1>6
  <2>2. \A i \in DOMAIN all : ~ PopsEmpty(all[i].name)
    BY <1>1, <2>1, LinesTaken DEF all
  <2>3. load = Loaded("none", TidyTexts(all), locations)
    BY <1>4, <1>6, <2>2
  <2>4. load.result = "none"
    BY <1>5, <2>3
  <2> QED
    BY <2>1, <2>3, <2>4 DEF load, all
<1>7. CASE bad # 0
  <2>1. bad \in DOMAIN lines /\ ~ Taken(bad)
    BY <1>1, <1>2, <1>3, <1>7
  <2>2. load.result \in {Aborted, "unable_to_parse_count"}
    <3>1. CASE RowResult(RowOf(lines[bad], 3), n) = Aborted
      BY <1>4, <1>5, <1>7, <3>1
    <3>2. CASE RowResult(RowOf(lines[bad], 3), n) # Aborted
      <4> DEFINE some == TextElements(SubSeq(lines, 1, bad - 1), name, 3, n)
      <4>1. load = Loaded("unable_to_parse_count", some, locations)
        BY <1>4, <1>7, <3>2
      <4> HIDE DEF some
      <4>2. load.result = "unable_to_parse_count"
        BY <1>5, <4>1
      <4> QED
        BY <4>2
    <3> QED
      BY <3>1, <3>2
  <2>3. load.result # "none"
    BY <2>2 DEF Aborted
  <2> QED
    BY <2>1, <2>3 DEF load
<1> QED
  BY <1>6, <1>7

(* What a save and a load of it are. *)
LEMMA ReuseIs ==
  ASSUME NEW t, GoodOver(String, String, t)
  PROVE  LET n         == Len(t.locationIndices)
             lines     == [i \in DOMAIN t.elements |-> ExportLine(t.elements[i], n)]
             header    == ExportHeader(t.locationIndices)
             locations == IF header = <<>> THEN <<>> ELSE Fields(header)
         IN  /\ t.locationIndices \in Seq(String) /\ n \in Nat
             /\ t.elements \in Seq(ElementOver(String))
             /\ lines \in Seq(String) /\ Len(lines) = Len(t.elements)
             /\ locations \in Seq(String)
             /\ ReuseText(ExportText(t)) = ReadLines(lines, 1, 3, locations)
<1> DEFINE n == Len(t.locationIndices)
           lines == [i \in DOMAIN t.elements |-> ExportLine(t.elements[i], n)]
           header == ExportHeader(t.locationIndices)
           locations == IF header = <<>> THEN <<>> ELSE Fields(header)
<1>1. /\ t.locationIndices \in Seq(String)
      /\ t.elements \in Seq(ElementOver(String))
  BY DEF GoodOver, TableOver
<1>2. n \in Nat
  BY <1>1
<1>3. lines \in Seq(String) /\ Len(lines) = Len(t.elements)
  <2>1. /\ DOMAIN t.elements = 1 .. Len(t.elements)
        /\ Len(t.elements) \in Nat
        /\ \A i \in 1 .. Len(t.elements) : t.elements[i] \in ElementOver(String)
    BY <1>1
  <2> HIDE DEF n
  <2>2. \A i \in 1 .. Len(t.elements) : ExportLine(t.elements[i], n) \in String
    BY <1>2, <2>1, ExportLineType
  <2> QED
    BY <2>1, <2>2
<1>4. header \in String
  BY <1>1, ExportHeaderType
<1>5. locations \in Seq(String)
  <2> HIDE DEF header
  <2> QED
    BY <1>4, FieldsAre
<1>6. ReuseText(ExportText(t)) = ReadLines(lines, 1, 3, locations)
  BY DEF ReuseText, ExportText
<1> HIDE DEF lines, locations, n
<1> QED
  BY <1>1, <1>2, <1>3, <1>5, <1>6 DEF lines, locations, n, header

(* What a save and a load make of a product.                                *)
ReadText(elem, n) ==
  [name   |-> Inside(elem.name),
   size   |-> elem.size,
   counts |-> [u \in 1 .. n |->
                 [location |-> u, count |-> Printed(GetCount(elem, u))]]]

Fits(locations) ==
  \A l \in DOMAIN locations :
    \/ Contained(locations[l])
    \/ l = Len(locations) /\ LastContained(locations[l])

(* A table of contained texts comes back, but for what tidy does to the     *)
(* names and what printing does to the counts.                              *)
LEMMA ReuseReads ==
  ASSUME NEW t, GoodOver(String, String, t), Fits(t.locationIndices),
         \A i \in DOMAIN t.elements :
           Contained(t.elements[i].name) /\ Contained(t.elements[i].size)
  PROVE  ReuseText(ExportText(t))
           = Loaded("none",
                    [i \in DOMAIN t.elements |->
                       ReadText(t.elements[i], Len(t.locationIndices))],
                    t.locationIndices)
<1> DEFINE n == Len(t.locationIndices)
           lines == [i \in DOMAIN t.elements |-> ExportLine(t.elements[i], n)]
           header == ExportHeader(t.locationIndices)
           locations == IF header = <<>> THEN <<>> ELSE Fields(header)
           all == TextElements(lines, 1, 3, n)
<1>1. /\ t.locationIndices \in Seq(String) /\ n \in Nat
      /\ t.elements \in Seq(ElementOver(String))
      /\ lines \in Seq(String) /\ Len(lines) = Len(t.elements)
      /\ ReuseText(ExportText(t)) = ReadLines(lines, 1, 3, locations)
  BY ReuseIs
<1>2. locations = t.locationIndices
  BY <1>1, HeaderReads DEF Fits
<1>3. DOMAIN lines = DOMAIN t.elements
  OBVIOUS
<1>4. ASSUME NEW i \in DOMAIN t.elements
      PROVE  LET row == RowOf(lines[i], 3)
             IN  /\ RowResult(row, n) = "none"
                 /\ row.fields[1] = t.elements[i].name
                 /\ row.fields[2] = t.elements[i].size
                 /\ \A u \in 1 .. n :
                      row.counts[u] = Printed(GetCount(t.elements[i], u))
  <2> DEFINE elem == t.elements[i]
  <2>1. elem \in ElementOver(String) /\ Contained(elem.name) /\ Contained(elem.size)
    BY <1>1
  <2>2. lines[i] = ExportLine(elem, n)
    OBVIOUS
  <2> HIDE DEF elem, lines, n
  <2> QED
    BY <1>1, <2>1, <2>2, LineReads DEF elem
<1> HIDE DEF lines, n, locations
<1>5. ReadLines(lines, 1, 3, locations) = Loaded("none", TidyTexts(all), t.locationIndices)
  <2>1. \A i \in DOMAIN lines : RowResult(RowOf(lines[i], 3), Len(t.locationIndices)) = "none"
    BY <1>3, <1>4 DEF n
  <2>2. 1 \in {1, 2}
    OBVIOUS
  <2> HIDE DEF all
  <2> QED
    BY <1>1, <1>2, <2>1, <2>2, ReadLinesNone DEF all, n
<1>6. TidyTexts(all) = [i \in DOMAIN t.elements |-> ReadText(t.elements[i], n)]
  <2> DEFINE el(i) == [name |-> t.elements[i].name, size |-> t.elements[i].size,
                       counts |-> [u \in 1 .. n |->
                         [location |-> u, count |-> Printed(GetCount(t.elements[i], u))]]]
  <2>1. ASSUME NEW i \in DOMAIN t.elements PROVE all[i] = el(i)
    <3> DEFINE row == RowOf(lines[i], 3)
    <3>1. all[i] = [name |-> row.fields[1], size |-> row.fields[1 + 1],
                    counts |-> [u \in 1 .. n |->
                                  [location |-> u, count |-> row.counts[u]]]]
      BY <1>3 DEF TextElements
    <3>2. /\ row.fields[1] = t.elements[i].name
          /\ row.fields[1 + 1] = t.elements[i].size
          /\ \A u \in 1 .. n : row.counts[u] = Printed(GetCount(t.elements[i], u))
      BY <1>4
    <3> HIDE DEF row, all
    <3>3. [u \in 1 .. n |-> [location |-> u, count |-> row.counts[u]]]
            = [u \in 1 .. n |->
                 [location |-> u, count |-> Printed(GetCount(t.elements[i], u))]]
      BY <3>2
    <3> QED
      BY <3>1, <3>2, <3>3
  <2>2. DOMAIN all = DOMAIN t.elements
    BY <1>3 DEF TextElements
  <2> HIDE DEF all
  <2>3. TidyTexts(all) = [i \in DOMAIN t.elements |->
                            [all[i] EXCEPT !.name = TidyText(@)]]
    BY <2>2 DEF TidyTexts
  <2>4. ASSUME NEW i \in DOMAIN t.elements
        PROVE  [all[i] EXCEPT !.name = TidyText(@)] = ReadText(t.elements[i], n)
    <3> DEFINE counts == [u \in 1 .. n |->
                 [location |-> u, count |-> Printed(GetCount(t.elements[i], u))]]
    <3>1. all[i] = [name |-> t.elements[i].name, size |-> t.elements[i].size,
                    counts |-> counts]
      BY <2>1
    <3>2. ReadText(t.elements[i], n)
            = [name |-> Inside(t.elements[i].name), size |-> t.elements[i].size,
               counts |-> counts]
      BY DEF ReadText
    <3> HIDE DEF counts, el
    <3> QED
      BY <3>1, <3>2 DEF TidyText
  <2> HIDE DEF el
  <2> QED
    BY <2>3, <2>4
<1> QED
  BY <1>1, <1>5, <1>6 DEF n

(* A printed count is printed as itself.                                    *)
LEMMA PrintedTwice ==
  ASSUME NEW c \in Int
  PROVE  Printed(Printed(c)) = Printed(c)
<1> DEFINE q == (2 * c + Grain) \div (2 * Grain)
           b == 2 * Grain
<1>1. Grain \in Nat /\ Grain # 0
  BY GrainAssumption
<1>2. q \in Int
  <2> DEFINE x == 2 * c + Grain
             y == 2 * Grain
  <2>1. x \in Int /\ y \in Nat \ {0}
    BY <1>1
  <2> HIDE DEF x, y
  <2>2. x \div y \in Int
    BY <2>1
  <2> QED
    BY <2>2 DEF x, y
<1>3. Printed(c) = Grain * q
  BY DEF Printed
<1> HIDE DEF q
<1> DEFINE d == (2 * (Grain * q) + Grain) \div b
           r == b * q
<1>4. r \in Int /\ 2 * (Grain * q) = r
  BY <1>1, <1>2
<1>5. b \in Nat \ {0} /\ Grain < b
  BY <1>1
<1>6. (r + Grain) \div b = q
  <2>1. ASSUME NEW x \in Int, NEW y \in Nat \ {0}, NEW g \in Nat, g < y
        PROVE  (y * x + g) \div y = x
    <3> DEFINE z == (y * x + g) \div y
    <3>1. /\ y * x \in Int /\ z \in Int
          /\ y * z <= y * x + g /\ y * x + g < y * z + y
      <4> DEFINE w == y * x + g
      <4>1. w \in Int
        BY <2>1
      <4> HIDE DEF w
      <4>2. w \div y \in Int /\ y * (w \div y) <= w /\ w < y * (w \div y) + y
        BY <4>1
      <4> QED
        BY <2>1, <4>2 DEF w
    <3> HIDE DEF z
    <3>2. ~ (z < x)
      <4> SUFFICES ASSUME z < x PROVE FALSE
        OBVIOUS
      <4>1. y * (z + 1) <= y * x
        BY <3>1
      <4>2. y * (z + 1) = y * z + y
        BY <3>1
      <4> QED
        BY <2>1, <3>1, <4>1, <4>2
    <3>3. ~ (x < z)
      <4> SUFFICES ASSUME x < z PROVE FALSE
        OBVIOUS
      <4>1. y * (x + 1) <= y * z
        BY <3>1
      <4>2. y * (x + 1) = y * x + y
        OBVIOUS
      <4> QED
        BY <2>1, <3>1, <4>1, <4>2
    <3> QED
      BY <3>1, <3>2, <3>3 DEF z
  <2> HIDE DEF b
  <2> QED
    BY <1>1, <1>2, <1>5, <2>1
<1>7. Printed(Grain * q) = Grain * q
  <2>1. Printed(Grain * q) = Grain * ((2 * (Grain * q) + Grain) \div (2 * Grain))
    BY DEF Printed
  <2>2. (2 * (Grain * q) + Grain) \div (2 * Grain) = q
    BY <1>4, <1>6
  <2> QED
    BY <2>1, <2>2
<1> QED
  BY <1>3, <1>7
-----------------------------------------------------------------------------
(* A save and a load show the same table exactly when its texts are         *)
(* contained.                                                               *)
LEMMA ReuseSame ==
  ASSUME NEW t, GoodOver(String, String, t)
  PROVE  LET load == ReuseText(ExportText(t))
         IN  load.result = "none" /\ Texts(load.table) = Texts(t) <=> Readable(t)
<1> DEFINE load == ReuseText(ExportText(t))
           n == Len(t.locationIndices)
           Shows(table1) ==
             /\ table1.locationIndices = t.locationIndices
             /\ DOMAIN table1.elements = DOMAIN t.elements
             /\ \A i \in DOMAIN t.elements :
                  /\ table1.elements[i].name = t.elements[i].name
                  /\ table1.elements[i].size = t.elements[i].size
                  /\ \A l \in DOMAIN t.locationIndices :
                       Printed(GetCount(table1.elements[i], l))
                         = Printed(GetCount(t.elements[i], l))
<1>1. ASSUME NEW table1 PROVE Texts(table1) = Texts(t) <=> Shows(table1)
  <2> DEFINE counts(s, i) == [l \in DOMAIN s.locationIndices |->
                                Printed(GetCount(s.elements[i], l))]
             row(s, i) == <<s.elements[i].name, s.elements[i].size, counts(s, i)>>
             rows(s) == [i \in DOMAIN s.elements |-> row(s, i)]
  <2>1. \A s : Texts(s) = <<s.locationIndices, rows(s)>>
    BY DEF Texts
  <2>2. Texts(table1) = Texts(t)
          <=> table1.locationIndices = t.locationIndices /\ rows(table1) = rows(t)
    <3> HIDE DEF rows
    <3> QED
      BY <2>1
  <2>3. rows(table1) = rows(t)
          <=> /\ DOMAIN table1.elements = DOMAIN t.elements
              /\ \A i \in DOMAIN t.elements : row(table1, i) = row(t, i)
    <3> HIDE DEF row
    <3>1. /\ DOMAIN rows(table1) = DOMAIN table1.elements
          /\ DOMAIN rows(t) = DOMAIN t.elements
          /\ \A i \in DOMAIN table1.elements : rows(table1)[i] = row(table1, i)
          /\ \A i \in DOMAIN t.elements : rows(t)[i] = row(t, i)
      OBVIOUS
    <3>2. ASSUME DOMAIN table1.elements = DOMAIN t.elements,
                 \A i \in DOMAIN t.elements : row(table1, i) = row(t, i)
          PROVE  rows(table1) = rows(t)
      BY <3>2
    <3>3. ASSUME rows(table1) = rows(t)
          PROVE  /\ DOMAIN table1.elements = DOMAIN t.elements
                 /\ \A i \in DOMAIN t.elements : row(table1, i) = row(t, i)
      <4> HIDE DEF rows
      <4> QED
        BY <3>1, <3>3
    <3> QED
      BY <3>2, <3>3
  <2>4. ASSUME table1.locationIndices = t.locationIndices, NEW i
        PROVE  row(table1, i) = row(t, i)
                 <=> /\ table1.elements[i].name = t.elements[i].name
                     /\ table1.elements[i].size = t.elements[i].size
                     /\ \A l \in DOMAIN t.locationIndices :
                          Printed(GetCount(table1.elements[i], l))
                            = Printed(GetCount(t.elements[i], l))
    <3>1. row(table1, i) = row(t, i)
            <=> /\ table1.elements[i].name = t.elements[i].name
                /\ table1.elements[i].size = t.elements[i].size
                /\ counts(table1, i) = counts(t, i)
      <4> HIDE DEF counts
      <4> QED
        OBVIOUS
    <3>2. counts(table1, i) = counts(t, i)
            <=> \A l \in DOMAIN t.locationIndices :
                  Printed(GetCount(table1.elements[i], l))
                    = Printed(GetCount(t.elements[i], l))
      <4> DEFINE v(l) == Printed(GetCount(table1.elements[i], l))
                 w(l) == Printed(GetCount(t.elements[i], l))
                 D == DOMAIN t.locationIndices
      <4>1. counts(table1, i) = [l \in D |-> v(l)] /\ counts(t, i) = [l \in D |-> w(l)]
        BY <2>4
      <4> HIDE DEF v, w, D, counts
      <4>2. [l \in D |-> v(l)] = [l \in D |-> w(l)] <=> \A l \in D : v(l) = w(l)
        <5>1. ASSUME [l \in D |-> v(l)] = [l \in D |-> w(l)], NEW l \in D
              PROVE  v(l) = w(l)
          <6>1. [k \in D |-> v(k)][l] = [k \in D |-> w(k)][l]
            BY <5>1
          <6> QED
            BY <6>1
        <5> QED
          BY <5>1
      <4> QED
        BY <4>1, <4>2 DEF v, w, D
    <3> QED
      BY <3>1, <3>2
  <2> HIDE DEF row, rows
  <2>5. CASE table1.locationIndices = t.locationIndices
    BY <2>2, <2>3, <2>4, <2>5
  <2>6. CASE table1.locationIndices # t.locationIndices
    BY <2>2, <2>6
  <2> QED
    BY <2>5, <2>6
<1>2. /\ t.locationIndices \in Seq(String) /\ n \in Nat
      /\ t.elements \in Seq(ElementOver(String))
      /\ DOMAIN t.locationIndices = 1 .. n
  <2>1. /\ t.locationIndices \in Seq(String)
        /\ t.elements \in Seq(ElementOver(String))
    BY DEF GoodOver, TableOver
  <2> QED
    BY <2>1
<1> HIDE DEF n, load
<1>3. ASSUME Readable(t)
      PROVE  load.result = "none" /\ Shows(load.table)
  <2> DEFINE elements == [i \in DOMAIN t.elements |-> ReadText(t.elements[i], n)]
  <2>1. /\ Fits(t.locationIndices)
        /\ \A i \in DOMAIN t.elements :
             /\ Contained(t.elements[i].name) /\ ~ Wrapped(t.elements[i].name)
             /\ Contained(t.elements[i].size)
    BY <1>3 DEF Readable, Fits
  <2>2. load = Loaded("none", elements, t.locationIndices)
    BY <2>1, ReuseReads DEF load, n
  <2>3. DOMAIN elements = DOMAIN t.elements
        /\ \A i \in DOMAIN t.elements : elements[i] = ReadText(t.elements[i], n)
    OBVIOUS
  <2> HIDE DEF elements
  <2>4. /\ load.result = "none" /\ load.table.elements = elements
        /\ load.table.locationIndices = t.locationIndices
    BY <2>2 DEF Loaded
  <2>5. ASSUME NEW i \in DOMAIN t.elements
        PROVE  /\ elements[i].name = t.elements[i].name
               /\ elements[i].size = t.elements[i].size
               /\ \A l \in DOMAIN t.locationIndices :
                    Printed(GetCount(elements[i], l))
                      = Printed(GetCount(t.elements[i], l))
    <3> DEFINE elem == t.elements[i]
               new == elements[i]
               f == [u \in 1 .. n |-> Printed(GetCount(elem, u))]
               counts == [u \in 1 .. n |-> [location |-> u, count |-> f[u]]]
    <3>1. elem \in ElementOver(String)
      BY <1>2
    <3>2. \A u \in 1 .. n : f[u] = Printed(GetCount(elem, u)) /\ f[u] \in Int
                            /\ GetCount(elem, u) \in Int
      <4> HIDE DEF elem
      <4> QED
        BY <3>1, GetCountOver, PrintedType
    <3>3. new = [name |-> Inside(elem.name), size |-> elem.size, counts |-> counts]
      <4>1. ReadText(elem, n)
              = [name |-> Inside(elem.name), size |-> elem.size,
                 counts |-> [u \in 1 .. n |->
                   [location |-> u, count |-> Printed(GetCount(elem, u))]]]
        BY DEF ReadText
      <4>2. counts = [u \in 1 .. n |->
                   [location |-> u, count |-> Printed(GetCount(elem, u))]]
        OBVIOUS
      <4>3. new = ReadText(elem, n)
        BY <2>3
      <4> HIDE DEF counts, elem, new
      <4> QED
        BY <4>1, <4>2, <4>3
    <3>4. Inside(elem.name) = elem.name
      BY <2>1 DEF Inside
    <3>5. new.counts = [u \in 1 .. n |-> [location |-> u, count |-> f[u]]]
      <4> HIDE DEF new, counts
      <4>1. new.counts = counts
        BY <3>3
      <4> QED
        BY <4>1 DEF counts
    <3> HIDE DEF new, counts, elem, f
    <3>6. new.name = elem.name /\ new.size = elem.size
      BY <3>3, <3>4
    <3>7. \A u \in 1 .. n : GetCount(new, u) = f[u]
      <4>1. n \in Nat /\ HasColumns(new, n, f)
        BY <1>2, <3>2, <3>5 DEF HasColumns
      <4> QED
        BY <4>1, ColumnCounts
    <3>8. \A u \in 1 .. n : Printed(GetCount(new, u)) = Printed(GetCount(elem, u))
      BY <3>2, <3>7, PrintedTwice
    <3> QED
      BY <1>2, <3>6, <3>8 DEF new, elem
  <2>6. Shows(load.table)
    BY <2>3, <2>4, <2>5
  <2> QED
    BY <2>4, <2>6
<1>4. ASSUME load.result = "none", Shows(load.table)
      PROVE  Readable(t)
  <2> DEFINE lines == [i \in DOMAIN t.elements |-> ExportLine(t.elements[i], n)]
             header == ExportHeader(t.locationIndices)
             locations == IF header = <<>> THEN <<>> ELSE Fields(header)
             all == TextElements(lines, 1, 3, n)
  <2>1. /\ lines \in Seq(String) /\ DOMAIN lines = DOMAIN t.elements
        /\ locations \in Seq(String)
        /\ load = ReadLines(lines, 1, 3, locations)
    BY ReuseIs DEF load, n
  <2>2. \A i \in DOMAIN lines : lines[i] = ExportLine(t.elements[i], n)
    OBVIOUS
  <2>3. locations = t.locationIndices <=> Fits(t.locationIndices)
    BY <1>2, HeaderReads DEF Fits
  <2> HIDE DEF lines, locations, all
  <2>4. 1 \in {1, 2}
    OBVIOUS
  <2>5. /\ \A i \in DOMAIN lines :
             RowResult(RowOf(lines[i], 3), Len(locations)) = "none"
        /\ load = Loaded("none", TidyTexts(TextElements(lines, 1, 3, Len(locations))),
                         locations)
    BY <1>4, <2>1, <2>4, ReadLinesNone
  <2>6. locations = t.locationIndices
    <3>1. load.table.locationIndices = locations
      BY <2>5 DEF Loaded
    <3> QED
      BY <1>4, <3>1
  <2>7. load.table.elements = TidyTexts(all)
    <3>1. load = Loaded("none", TidyTexts(all), locations)
      BY <2>5, <2>6 DEF all, n
    <3> QED
      BY <3>1 DEF Loaded
  <2>8. ASSUME NEW i \in DOMAIN t.elements
        PROVE  /\ Contained(t.elements[i].name) /\ ~ Wrapped(t.elements[i].name)
               /\ Contained(t.elements[i].size)
    <3> DEFINE elem == t.elements[i]
               row == RowOf(lines[i], 3)
               counts == [u \in 1 .. n |-> [location |-> u, count |-> row.counts[u]]]
    <3>1. elem \in ElementOver(String)
      BY <1>2
    <3>2. lines[i] = ExportLine(elem, n) /\ i \in DOMAIN lines
      BY <2>1, <2>2
    <3>3. RowResult(row, n) = "none"
      BY <2>5, <2>6, <3>2 DEF n
    <3>4. /\ all[i] = [name |-> row.fields[1], size |-> row.fields[1 + 1],
                       counts |-> counts]
          /\ DOMAIN all = DOMAIN lines
      BY <3>2 DEF all, TextElements
    <3> HIDE DEF counts, row
    <3>5. TidyTexts(all)[i] = [all[i] EXCEPT !.name = TidyText(@)]
      BY <3>2, <3>4 DEF TidyTexts
    <3>6. /\ TidyTexts(all)[i].name = Inside(row.fields[1])
          /\ TidyTexts(all)[i].size = row.fields[2]
      BY <3>4, <3>5 DEF TidyText
    <3>7. Inside(row.fields[1]) = elem.name /\ row.fields[2] = elem.size
      BY <1>4, <2>7, <3>6
    <3> HIDE DEF elem
    <3> QED
      BY <1>2, <3>1, <3>2, <3>3, <3>7, LineNeeds DEF row, elem
  <2> QED
    BY <2>3, <2>6, <2>8 DEF Readable, Fits
<1> HIDE DEF Shows
<1> QED
  BY <1>1, <1>3, <1>4 DEF load

(* Whatever the locations are and the stock list said, a save and a load    *)
(* show the table they began with exactly when every text in it has its     *)
(* commas outside marks and its marks in pairs, and no name has marks       *)
(* around it.                                                               *)
THEOREM SavesAreReadBack == Spec => SavesReadBack
<1>1. ASSUME IInv, SaveAndReuse
      PROVE  result' = "none" /\ Texts(table') = Texts(table) <=> Readable(table)
  <2> DEFINE load == ReuseText(ExportText(table))
  <2>1. load.result = "none" /\ Texts(load.table) = Texts(table) <=> Readable(table)
    BY <1>1, ReuseSame DEF IInv
  <2>2. table' = load.table /\ result' = load.result
    BY <1>1 DEF SaveAndReuse, Becomes
  <2> HIDE DEF load
  <2>3. Texts(table') = Texts(load.table)
    BY <2>2
  <2> QED
    BY <2>1, <2>2, <2>3
<1>2. IInv /\ [Next]_vars
        => [SaveAndReuse =>
              (result' = "none" /\ Texts(table') = Texts(table)
                 <=> Readable(table))]_vars
  BY <1>1
<1> QED
  BY <1>2, Invariance, PTL DEF Spec, SavesReadBack
-----------------------------------------------------------------------------
(* Marks alone. *)
LEMMA MarksAre ==
  ASSUME NEW q \in Nat
  PROVE  /\ Marks(q) \in Seq(Letter) /\ Len(Marks(q)) = q
         /\ \A i \in 1 .. q : Marks(q)[i] = Quote
<1>1. Quote \in Letter
  BY CharAssumption DEF Letter
<1> QED
  BY <1>1 DEF Marks

(* The characters of a cell's text, and how many of them are marks.         *)
MarkedText(s, text, q) ==
  LET m == Len(text)
  IN  /\ s \in String /\ m \in Nat /\ Len(s) = q + m + q
      /\ \A i \in 1 .. q : s[i] = Quote
      /\ \A i \in 1 .. m : /\ s[q + i] = text[i]
                           /\ text[i] # Quote /\ text[i] # Comma
      /\ \A i \in 1 .. q : s[q + m + i] = Quote

LEMMA CellTextIs ==
  ASSUME NEW text \in Text, NEW q \in Nat
  PROVE  MarkedText(TextOf([text |-> text, quotes |-> q]), text, q)
<1> DEFINE marks == Marks(q)
           m == Len(text)
           r == marks \o text
           s == r \o marks
<1>1. text \in Seq(Char \ {Quote, Comma})
  BY PlainAssumption
<1>2. /\ text \in Seq(Letter) /\ m \in Nat
      /\ \A i \in 1 .. m : text[i] # Quote /\ text[i] # Comma
  <2>1. \A i \in 1 .. Len(text) : text[i] \in Char \ {Quote, Comma}
    BY <1>1
  <2>2. m \in Nat /\ DOMAIN text = 1 .. m
    BY <1>1
  <2>3. text \in Seq(Letter)
    BY <1>1 DEF Letter
  <2> QED
    BY <2>1, <2>2, <2>3
<1>3. /\ marks \in Seq(Letter) /\ Len(marks) = q
      /\ \A i \in 1 .. q : marks[i] = Quote
  BY MarksAre
<1>4. TextOf([text |-> text, quotes |-> q]) = s
  BY DEF TextOf
<1> HIDE DEF marks, m
<1>5. /\ r \in Seq(Letter) /\ Len(r) = q + m
      /\ \A i \in 1 .. q : r[i] = marks[i]
      /\ \A i \in 1 .. m : r[q + i] = text[i]
  <2>1. /\ r \in Seq(Letter) /\ Len(r) = Len(marks) + Len(text)
        /\ \A i \in 1 .. Len(marks) : r[i] = marks[i]
        /\ \A i \in 1 .. Len(text) : r[Len(marks) + i] = text[i]
    BY <1>2, <1>3, ConcatIs
  <2> QED
    BY <1>3, <2>1 DEF m
<1> HIDE DEF r
<1>6. /\ s \in Seq(Letter) /\ Len(s) = q + m + q
      /\ \A i \in 1 .. q + m : s[i] = r[i]
      /\ \A i \in 1 .. q : s[q + m + i] = marks[i]
  <2>1. /\ s \in Seq(Letter) /\ Len(s) = Len(r) + Len(marks)
        /\ \A i \in 1 .. Len(r) : s[i] = r[i]
        /\ \A i \in 1 .. Len(marks) : s[Len(r) + i] = marks[i]
    BY <1>3, <1>5, ConcatIs
  <2> QED
    BY <1>3, <1>5, <2>1
<1> HIDE DEF s
<1>7. /\ \A i \in 1 .. q : s[i] = Quote
      /\ \A i \in 1 .. q : s[q + m + i] = Quote
  <2>1. \A i \in 1 .. q : i \in 1 .. q + m
    BY <1>2
  <2> QED
    BY <1>3, <1>5, <1>6, <2>1
<1>8. \A i \in 1 .. m : s[q + i] = text[i]
  <2> TAKE i \in 1 .. m
  <2> DEFINE j == q + i
  <2>1. j \in 1 .. q + m
    BY <1>2
  <2>2. r[j] = text[i]
    BY <1>5
  <2> HIDE DEF j
  <2>3. s[j] = r[j]
    BY <1>6, <2>1
  <2> QED
    BY <2>2, <2>3 DEF j
<1>9. MarkedText(s, text, q)
  BY <1>2, <1>6, <1>7, <1>8 DEF MarkedText, m, String
<1> QED
  BY <1>4, <1>9

(* Every place of such a text is in the marks before, the text, or the      *)
(* marks behind.                                                            *)
LEMMA MarkedAt ==
  ASSUME NEW s, NEW text, NEW q \in Nat, MarkedText(s, text, q),
         NEW i \in 1 .. Len(s)
  PROVE  /\ s[i] = Quote <=> i \in 1 .. q \/ i \in q + Len(text) + 1 .. Len(s)
         /\ s[i] # Comma
<1> DEFINE m == Len(text)
<1>1. /\ m \in Nat /\ Len(s) = q + m + q /\ i \in Nat /\ i >= 1 /\ i <= q + m + q
      /\ \A k \in 1 .. q : s[k] = Quote
      /\ \A k \in 1 .. m : s[q + k] # Quote /\ s[q + k] # Comma
      /\ \A k \in 1 .. q : s[q + m + k] = Quote
  BY DEF MarkedText
<1> HIDE DEF m
<1>2. CASE i <= q
  BY <1>1, <1>2, CharAssumption DEF m
<1>3. CASE q < i /\ i <= q + m
  <2> DEFINE k == i - q
  <2>1. k \in 1 .. m /\ i = q + k
    BY <1>1, <1>3
  <2>2. s[q + k] # Quote /\ s[q + k] # Comma
    BY <1>1, <2>1
  <2> HIDE DEF k
  <2>3. s[i] # Quote /\ s[i] # Comma
    BY <2>1, <2>2
  <2>4. ~ (i \in 1 .. q \/ i \in q + m + 1 .. Len(s))
    BY <1>1, <1>3
  <2> QED
    BY <2>3, <2>4 DEF m
<1>4. CASE q + m < i
  <2> DEFINE k == i - (q + m)
  <2>1. k \in 1 .. q /\ i = q + m + k
    BY <1>1, <1>4
  <2>2. s[q + m + k] = Quote
    BY <1>1, <2>1
  <2> HIDE DEF k
  <2>3. s[i] = Quote
    BY <2>1, <2>2
  <2>4. i \in q + m + 1 .. Len(s)
    BY <1>1, <1>4
  <2> QED
    BY <2>3, <2>4, CharAssumption DEF m
<1> QED
  BY <1>1, <1>2, <1>3, <1>4

(* The text of a cell is contained: it has no commas, and a mark behind it  *)
(* for each one in front.                                                   *)
LEMMA MarkedContained ==
  ASSUME NEW s, NEW text, NEW q \in Nat, MarkedText(s, text, q)
  PROVE  Contained(s)
<1> DEFINE m == Len(text)
           n == Len(s)
           S == 1 .. q
           T == q + m + 1 .. n
           Q == {k \in 1 .. (n + 1) - 1 : s[k] = Quote}
<1>1. m \in Nat /\ n = q + m + q /\ n \in Nat /\ DOMAIN s = 1 .. n
  BY DEF MarkedText, String
<1>2. \A k \in 1 .. n : s[k] # Comma /\ (s[k] = Quote <=> k \in S \/ k \in T)
  BY MarkedAt
<1>3. S \subseteq 1 .. n /\ T \subseteq 1 .. n /\ S \cap T = {}
  BY <1>1
<1>4. (n + 1) - 1 = n
  BY <1>1
<1>5. Q = S \cup T
  <2>1. Q = {k \in 1 .. n : s[k] = Quote}
    BY <1>4
  <2> HIDE DEF S, T, Q, n
  <2> QED
    BY <1>2, <1>3, <2>1
<1>6. IsFiniteSet(S) /\ Cardinality(S) = q
  <2>1. 1 \in Int /\ q \in Int
    OBVIOUS
  <2>2. IsFiniteSet(S) /\ Cardinality(S) = IF 1 > q THEN 0 ELSE q - 1 + 1
    BY <2>1, FS_Interval
  <2> QED
    BY <2>2
<1>7. IsFiniteSet(T) /\ Cardinality(T) = q
  <2> DEFINE a == q + m + 1
  <2>1. a \in Int /\ n \in Int /\ n - a + 1 = q /\ (a > n <=> q = 0)
    BY <1>1
  <2> HIDE DEF a
  <2>2. IsFiniteSet(a .. n) /\ Cardinality(a .. n) = IF a > n THEN 0 ELSE n - a + 1
    BY <2>1, FS_Interval
  <2>3. Cardinality(a .. n) = q
    BY <2>1, <2>2
  <2> QED
    BY <2>2, <2>3 DEF a
<1> HIDE DEF S, T, Q, n
<1>8. Cardinality({}) = 0
  BY FS_EmptySet
<1>9. Cardinality(Q) = q + q
  <2>1. Cardinality(S \cup T) = Cardinality(S) + Cardinality(T) - Cardinality(S \cap T)
    BY <1>6, <1>7, FS_Union
  <2>2. Cardinality(S \cup T) = q + q - 0
    BY <1>3, <1>6, <1>7, <1>8, <2>1
  <2> QED
    BY <1>5, <2>2
<1>10. QuotesBefore(s, n + 1) = q + q
  BY <1>9 DEF QuotesBefore, Q
<1>11. (q + q) % 2 = 0
  OBVIOUS
<1> QED
  BY <1>1, <1>2, <1>10, <1>11 DEF Contained, n

(* What is inside the marks of a cell's text is the text of a cell with one *)
(* pair less, if it has any.                                                *)
LEMMA MarkedInside ==
  ASSUME NEW s, NEW t, NEW text, NEW q \in Nat, MarkedText(s, text, q),
         MarkedText(t, text, IF q = 0 THEN 0 ELSE q - 1)
  PROVE  Inside(s) = t
<1> DEFINE m == Len(text)
           n == Len(s)
           p == IF q = 0 THEN 0 ELSE q - 1
<1>1. /\ s \in String /\ m \in Nat /\ n = q + m + q /\ n \in Nat
      /\ t \in String /\ p \in Nat /\ Len(t) = p + m + p
  BY DEF MarkedText
<1>2. CASE q = 0
  <2>1. n = m /\ Len(t) = m
    BY <1>1, <1>2
  <2>2. \A i \in 1 .. m : s[0 + i] = text[i] /\ t[0 + i] = text[i]
    BY <1>2 DEF MarkedText
  <2>3. \A i \in 1 .. m : 0 + i = i
    BY <1>1
  <2>4. \A i \in 1 .. n : s[i] = t[i]
    BY <2>1, <2>2, <2>3
  <2>5. s = t
    BY <1>1, <2>1, <2>4, SameText
  <2>6. ~ Wrapped(s)
    <3>1. ASSUME n >= 2 PROVE s[1] # Quote
      <4>1. 1 \in 1 .. m /\ 0 + 1 = 1
        BY <1>1, <2>1, <3>1
      <4>2. text[1] # Quote
        BY <4>1 DEF MarkedText
      <4> QED
        BY <2>2, <4>1, <4>2
    <3> QED
      BY <3>1 DEF Wrapped
  <2> QED
    BY <2>5, <2>6 DEF Inside
<1>3. CASE q # 0
  <2>1. p = q - 1 /\ q = p + 1 /\ n >= 2 /\ Len(t) = n - 2
    BY <1>1, <1>3
  <2>2. 1 \in 1 .. n /\ n \in 1 .. n /\ 1 \in 1 .. q /\ n \in q + m + 1 .. n
    BY <1>1, <1>3, <2>1
  <2> HIDE DEF m, n, p
  <2>3. s[1] = Quote /\ s[n] = Quote
    <3>1. s[1] = Quote
      BY <2>2 DEF MarkedText
    <3>2. s[n] = Quote <=> n \in 1 .. q \/ n \in q + m + 1 .. n
      BY <2>2, MarkedAt DEF n, m
    <3> QED
      BY <2>2, <3>1, <3>2
  <2>4. Wrapped(s)
    BY <1>1, <2>1, <2>3 DEF Wrapped, String, Last, n
  <2>5. /\ Inside(s) \in String /\ Len(Inside(s)) = n - 2
        /\ \A i \in 1 .. n - 2 : Inside(s)[i] = s[i + 1]
    BY <1>1, <2>4, InsideIs DEF n
  <2>6. ASSUME NEW i \in 1 .. n - 2
        PROVE  s[i + 1] = t[i]
    <3>1. i \in Nat /\ i >= 1 /\ i <= p + m + p /\ n - 2 = p + m + p
      BY <1>1, <2>1
    <3>2. /\ \A k \in 1 .. q : s[k] = Quote
          /\ \A k \in 1 .. m : s[q + k] = text[k]
          /\ \A k \in 1 .. q : s[q + m + k] = Quote
      BY DEF MarkedText, m
    <3>3. /\ \A k \in 1 .. p : t[k] = Quote
          /\ \A k \in 1 .. m : t[p + k] = text[k]
          /\ \A k \in 1 .. p : t[p + m + k] = Quote
      BY DEF MarkedText, m, p
    <3>4. CASE i <= p
      <4>1. i \in 1 .. p /\ i + 1 \in 1 .. q
        BY <1>1, <2>1, <3>1, <3>4
      <4>2. s[i + 1] = Quote
        BY <3>2, <4>1
      <4>3. t[i] = Quote
        BY <3>3, <4>1
      <4> QED
        BY <4>2, <4>3
    <3>5. CASE p < i /\ i <= p + m
      <4> DEFINE k == i - p
      <4>1. k \in 1 .. m /\ i = p + k /\ i + 1 = q + k
        BY <1>1, <2>1, <3>1, <3>5
      <4> HIDE DEF k
      <4>2. s[q + k] = text[k]
        BY <3>2, <4>1
      <4>3. t[p + k] = text[k]
        BY <3>3, <4>1
      <4> QED
        BY <4>1, <4>2, <4>3
    <3>6. CASE p + m < i
      <4> DEFINE k == i - (p + m)
      <4>1. k \in 1 .. p /\ k \in 1 .. q /\ i = p + m + k /\ i + 1 = q + m + k
        BY <1>1, <2>1, <3>1, <3>6
      <4> HIDE DEF k
      <4>2. s[q + m + k] = Quote
        BY <3>2, <4>1
      <4>3. t[p + m + k] = Quote
        BY <3>3, <4>1
      <4> QED
        BY <4>1, <4>2, <4>3
    <3> QED
      BY <1>1, <3>1, <3>4, <3>5, <3>6
  <2>7. \A i \in 1 .. n - 2 : Inside(s)[i] = t[i]
    BY <2>5, <2>6
  <2> QED
    BY <1>1, <2>1, <2>5, <2>7, SameText
<1> QED
  BY <1>2, <1>3
-----------------------------------------------------------------------------
(* The cell that is chosen for a text is one of it.                         *)
LEMMA CellOfIs ==
  ASSUME NEW s, IsCell(s)
  PROVE  CellOf(s) \in Cell /\ TextOf(CellOf(s)) = s
<1>1. CellOf(s) \in CellsFor(s)
  BY DEF IsCell, CellOf
<1>2. 0 .. Len(s) \div 2 \subseteq Nat
  OBVIOUS
<1> QED
  BY <1>1, <1>2 DEF CellsFor, Cell

(* The text of a cell is contained, and tidy does to it what it does to the *)
(* cell.                                                                    *)
LEMMA CellTexts ==
  ASSUME NEW cell \in Cell
  PROVE  /\ Contained(TextOf(cell))
         /\ Inside(TextOf(cell)) = TextOf(TidyName(cell))
<1>1. PICK text \in Text, q \in Nat : cell = [text |-> text, quotes |-> q]
  BY DEF Cell
<1> DEFINE p == IF q = 0 THEN 0 ELSE q - 1
           less == [text |-> text, quotes |-> p]
<1>2. p \in Nat
  OBVIOUS
<1>3. MarkedText(TextOf(cell), text, q)
  BY <1>1, CellTextIs
<1>4. MarkedText(TextOf(less), text, p)
  <2> HIDE DEF p
  <2> QED
    BY <1>2, CellTextIs
<1>5. TidyName(cell) = less
  <2>1. /\ cell.text = text /\ cell.quotes = q
        /\ Unwrap(cell) = [text |-> text, quotes |-> p]
    BY <1>1 DEF Unwrap
  <2>2. Unwrap(cell).quotes = p
    BY <2>1
  <2>3. Upper[text] = text
    BY PlainAssumption
  <2> HIDE DEF p
  <2> QED
    BY <2>1, <2>2, <2>3 DEF TidyName
<1>6. Inside(TextOf(cell)) = TextOf(less)
  <2> HIDE DEF less
  <2> QED
    BY <1>3, <1>4, MarkedInside
<1> QED
  BY <1>3, <1>5, <1>6, MarkedContained

(* A plain text is contained.                                               *)
LEMMA PlainContained ==
  ASSUME NEW text \in Text
  PROVE  Contained(text)
<1> DEFINE s == TextOf([text |-> text, quotes |-> 0])
<1>1. MarkedText(s, text, 0)
  BY CellTextIs
<1>2. text \in Seq(Char \ {Quote, Comma})
  BY PlainAssumption
<1>3. text \in String /\ Len(text) \in Nat
  BY <1>2 DEF String, Letter
<1> HIDE DEF s
<1>4. s \in String /\ Len(s) = Len(text)
      /\ \A i \in 1 .. Len(text) : s[0 + i] = text[i]
  BY <1>1, <1>3 DEF MarkedText
<1>5. \A i \in 1 .. Len(s) : 0 + i = i
  BY <1>3, <1>4
<1>6. \A i \in 1 .. Len(s) : s[i] = text[i]
  BY <1>4, <1>5
<1>7. s = text
  BY <1>3, <1>4, <1>6, SameText
<1> QED
  BY <1>1, <1>7, MarkedContained

(* A save and a load of a table of cells, done with the cells.              *)
CellsReused(t) ==
  ReuseFromStream(ExportToStream(WithTexts(t, CellOf), FALSE), "FILE")

(* They come to the same.                                                  *)
LEMMA CellsReusedSame ==
  ASSUME NEW t, GoodOver(String, String, t), AllCells(t)
  PROVE  LET load  == ReuseText(ExportText(t))
             cells == CellsReused(t)
         IN  /\ load.result = cells.result
             /\ load.table = WithTexts(cells.table, TextOf)
<1> DEFINE n == Len(t.locationIndices)
           load == ReuseText(ExportText(t))
           cells == CellsReused(t)
           cellElem(elem) == [name |-> CellOf(elem.name), size |-> CellOf(elem.size),
                              counts |-> elem.counts]
           textElem(elem) == [name |-> TextOf(elem.name), size |-> TextOf(elem.size),
                              counts |-> elem.counts]
           t2 == WithTexts(t, CellOf)
           read(i) == Reread(cellElem(t.elements[i]), n)
           reread == [i \in DOMAIN t.elements |-> read(i)]
<1>1. /\ t.locationIndices \in Seq(String) /\ n \in Nat
      /\ t.elements \in Seq(ElementOver(String))
      /\ DOMAIN t = {"elements", "locationIndices", "location"}
      /\ DOMAIN t.locationIndices = 1 .. n
  <2>1. /\ t.locationIndices \in Seq(String)
        /\ t.elements \in Seq(ElementOver(String))
        /\ DOMAIN t = {"elements", "locationIndices", "location"}
    BY DEF GoodOver, TableOver
  <2> QED
    BY <2>1
<1>2. \A i \in DOMAIN t.elements :
        /\ t.elements[i] \in ElementOver(String)
        /\ IsCell(t.elements[i].name) /\ IsCell(t.elements[i].size)
  BY <1>1 DEF AllCells
<1>3. \A i \in DOMAIN t.elements :
        /\ Contained(t.elements[i].name) /\ Contained(t.elements[i].size)
  BY <1>2, CellOfIs, CellTexts
<1>4. Fits(t.locationIndices)
  BY PlainContained DEF AllCells, Fits
<1>5. load = Loaded("none", [i \in DOMAIN t.elements |-> ReadText(t.elements[i], n)],
                    t.locationIndices)
  BY <1>3, <1>4, ReuseReads
<1>6. /\ t2.elements = [i \in DOMAIN t.elements |-> cellElem(t.elements[i])]
      /\ t2.locationIndices = t.locationIndices
  BY <1>1 DEF WithTexts
<1>7. \A i \in DOMAIN t.elements : cellElem(t.elements[i]) \in Element
  <2> TAKE i \in DOMAIN t.elements
  <2> DEFINE elem == t.elements[i]
  <2>1. CellOf(elem.name) \in Cell /\ CellOf(elem.size) \in Cell
    BY <1>2, CellOfIs
  <2>2. elem.counts \in Seq(Count)
    BY <1>2 DEF ElementOver
  <2> HIDE DEF elem
  <2>3. cellElem(elem) \in Element
    BY <2>1, <2>2 DEF Element
  <2> QED
    BY <2>3 DEF elem
<1>8. t2.elements \in Seq(Element) /\ DOMAIN t2.elements = DOMAIN t.elements
  <2> DEFINE c(i) == cellElem(t.elements[i])
  <2>1. t2.elements = [i \in DOMAIN t.elements |-> c(i)]
    BY <1>6
  <2>2. \A i \in DOMAIN t.elements : c(i) \in Element
    BY <1>7
  <2>3. DOMAIN t.elements = 1 .. Len(t.elements) /\ Len(t.elements) \in Nat
    BY <1>1
  <2> HIDE DEF c, t2
  <2> QED
    BY <2>1, <2>2, <2>3
<1>9. cells = Loaded("none", reread, t.locationIndices)
  <2> HIDE DEF t2
  <2>1. ReuseFromStream(ExportToStream(t2, FALSE), "FILE")
          = Loaded("none", [i \in DOMAIN t2.elements |-> Reread(t2.elements[i], n)],
                   t.locationIndices)
    BY <1>1, <1>6, <1>8, SavedReread
  <2>2. \A i \in DOMAIN t.elements : t2.elements[i] = cellElem(t.elements[i])
    <3> HIDE DEF cellElem
    <3> QED
      BY <1>6
  <2>3. [i \in DOMAIN t2.elements |-> Reread(t2.elements[i], n)] = reread
    <3> HIDE DEF cellElem, n
    <3> QED
      BY <1>8, <2>2
  <2>4. cells = ReuseFromStream(ExportToStream(t2, FALSE), "FILE")
    BY DEF CellsReused, t2
  <2> HIDE DEF reread, cells
  <2> QED
    BY <2>1, <2>3, <2>4
<1>10. ASSUME NEW i \in DOMAIN t.elements
       PROVE  textElem(read(i)) = ReadText(t.elements[i], n)
  <2> DEFINE elem == t.elements[i]
             cell == cellElem(elem)
             counts == [u \in 1 .. n |->
                          [location |-> u, count |-> Printed(GetCount(elem, u))]]
             counts2 == [u \in 1 .. n |->
                          [location |-> u, count |-> Printed(GetCount(cell, u))]]
  <2>1. cell \in Element
    BY <1>7
  <2>2. /\ cell.name = CellOf(elem.name) /\ cell.size = CellOf(elem.size)
        /\ cell.counts = elem.counts
    OBVIOUS
  <2>3. /\ CellOf(elem.name) \in Cell /\ TextOf(CellOf(elem.name)) = elem.name
        /\ TextOf(CellOf(elem.size)) = elem.size
    BY <1>2, CellOfIs
  <2> HIDE DEF elem, cell
  <2>4. \A u \in 1 .. n : GetCount(cell, u) = GetCount(elem, u)
    BY <2>2 DEF GetCount
  <2>5. counts2 = counts
    BY <2>4
  <2> HIDE DEF counts
  <2>6. Reread(cell, n) = [name |-> TidyName(cell.name), size |-> cell.size,
                           counts |-> counts2]
    BY <1>1, <2>1, RereadIs
  <2> HIDE DEF counts2
  <2>7. textElem(Reread(cell, n))
          = [name |-> TextOf(TidyName(cell.name)), size |-> TextOf(cell.size),
             counts |-> counts]
    BY <2>5, <2>6
  <2>8. TextOf(TidyName(cell.name)) = Inside(elem.name)
        /\ TextOf(cell.size) = elem.size
    BY <2>2, <2>3, CellTexts
  <2>9. ReadText(elem, n) = [name |-> Inside(elem.name), size |-> elem.size,
                             counts |-> counts]
    BY DEF ReadText, counts
  <2> HIDE DEF textElem
  <2>10. textElem(Reread(cell, n)) = ReadText(elem, n)
    BY <2>7, <2>8, <2>9
  <2> QED
    BY <2>10 DEF elem, cell
<1>11. /\ cells.result = "none"
       /\ cells.table = [elements |-> reread, locationIndices |-> t.locationIndices,
                         location |-> 1]
  <2> HIDE DEF reread, cells
  <2> QED
    BY <1>9 DEF Loaded
<1> HIDE DEF cells, load
<1>12. WithTexts(cells.table, TextOf)
         = [elements |-> [i \in DOMAIN t.elements |-> textElem(read(i))],
            locationIndices |-> t.locationIndices, location |-> 1]
  <2> HIDE DEF read
  <2> DEFINE s == cells.table
             new == [i \in DOMAIN s.elements |-> textElem(s.elements[i])]
  <2>1. s.elements = reread /\ DOMAIN s.elements = DOMAIN t.elements
        /\ \A i \in DOMAIN t.elements : s.elements[i] = read(i)
    BY <1>11
  <2>2. WithTexts(s, TextOf) = [s EXCEPT !.elements = new]
    BY DEF WithTexts
  <2>3. new = [i \in DOMAIN t.elements |-> textElem(read(i))]
    <3> HIDE DEF s, textElem
    <3> QED
      BY <2>1
  <2> HIDE DEF new, reread
  <2>4. [s EXCEPT !.elements = new]
          = [elements |-> new, locationIndices |-> t.locationIndices, location |-> 1]
    BY <1>11
  <2> QED
    BY <2>2, <2>3, <2>4
<1>13. [i \in DOMAIN t.elements |-> textElem(read(i))]
         = [i \in DOMAIN t.elements |-> ReadText(t.elements[i], n)]
  <2> HIDE DEF textElem, read
  <2> QED
    BY <1>10
<1> HIDE DEF textElem, read
<1> QED
  BY <1>5, <1>11, <1>12, <1>13 DEF Loaded, load, cells

(* For every set of plain texts in upper case: where a table's locations    *)
(* are such texts and its names and sizes are such texts in marks, a save   *)
(* and a load of the cells of StockFile stand for a save and a load         *)
(* character by character.                                                  *)
THEOREM CellsAreEnough == Spec => CellsSuffice
<1>1. ASSUME IInv, SaveAndReuse, AllCells(table)
      PROVE  LET saved == ExportToStream(WithTexts(table, CellOf), FALSE)
                 cells == ReuseFromStream(saved, "FILE")
             IN  /\ result' = cells.result
                 /\ table' = WithTexts(cells.table, TextOf)
  <2> DEFINE load == ReuseText(ExportText(table))
             cells == CellsReused(table)
  <2>1. load.result = cells.result /\ load.table = WithTexts(cells.table, TextOf)
    BY <1>1, CellsReusedSame DEF IInv
  <2>2. table' = load.table /\ result' = load.result
    BY <1>1 DEF SaveAndReuse, Becomes
  <2>3. cells = ReuseFromStream(ExportToStream(WithTexts(table, CellOf), FALSE), "FILE")
    BY DEF CellsReused
  <2> QED
    BY <2>1, <2>2, <2>3
<1>2. IInv /\ [Next]_vars
        => [SaveAndReuse /\ AllCells(table) =>
              LET saved == ExportToStream(WithTexts(table, CellOf), FALSE)
                  cells == ReuseFromStream(saved, "FILE")
              IN  /\ result' = cells.result
                  /\ table' = WithTexts(cells.table, TextOf)]_vars
  BY <1>1
<1> QED
  BY <1>2, Invariance, PTL DEF Spec, CellsSuffice
=============================================================================
