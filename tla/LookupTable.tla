---------------------------- MODULE LookupTable -----------------------------
(* The word index of lookupTable.cpp and its search.  A name is a sequence  *)
(* of character codes, because the search is about prefixes: the index maps *)
(* every word to the products whose names have it, and a keyword finds the  *)
(* range of the sorted words that start with it.                            *)
EXTENDS Positions, Sequences, SequencesExt

CONSTANTS
  Char,       \* the codes of characters
  Alnum,      \* those for which isalnum holds
  Space,      \* the one keywords are separated by
  Upper,      \* toupper
  Lists,      \* the names of the products of a stock table
  Queries,    \* what a user may search for
  NoQuery     \* no results are shown

ASSUME CharAssumption ==
  /\ Char \subseteq Nat /\ Alnum \subseteq Char
  /\ Space \in Char \ Alnum
  /\ Upper \in [Char -> Char]
  /\ \A c \in Char : Upper[c] \in Alnum <=> c \in Alnum
  /\ \A c \in Char : Upper[Upper[c]] = Upper[c]

(* The index is generated after a load that succeeded, and that one ends    *)
(* with tidy: the names are in upper case.                                  *)
ASSUME ListAssumption ==
  /\ Lists \subseteq Seq(Seq(Char))
  /\ \A list \in Lists : \A i \in DOMAIN list : \A k \in DOMAIN list[i] :
       list[i][k] \in {Upper[c] : c \in Char}

ASSUME QueryAssumption == Queries \subseteq Seq(Char) /\ NoQuery \notin Seq(Char)

VARIABLES
  names,    \* the names the table was generated from
  index,    \* lookupTable::table
  query,    \* the search whose results are shown
  result    \* and the indices it returned

vars == <<names, index, query, result>>

TypeOK ==
  /\ names \in Seq(Seq(Char))
  /\ DOMAIN index \subseteq Seq(Char)
  /\ \A word \in DOMAIN index : index[word] \in Seq(DOMAIN names)
  /\ query \in Seq(Char) \cup {NoQuery}
  /\ result \in Seq(DOMAIN names)
-----------------------------------------------------------------------------
(* The first position from p on with one of these characters, or the end.   *)
FirstFrom(text, p, chars) ==
  LET k == SelectInSubSeq(text, p, Len(text), LAMBDA c : c \in chars)
  IN  IF k = 0 THEN Len(text) + 1 ELSE k

(* The pieces a loop takes one after another: the one that begins at a      *)
(* position, and where the loop goes on behind it until that is nowhere.    *)
Pieces(piece, next) ==
  LET from[left \in DOMAIN piece] ==
        <<piece[left]>>
          \o IF next[left] \in DOMAIN piece THEN from[next[left]] ELSE <<>>
  IN  from[1]

WordBegin(name, left) == FirstFrom(name, left, Alnum)

WordEnd(name, left) == FirstFrom(name, WordBegin(name, left), Char \ Alnum)

(* The words generate_generic divides a name into.  The loop ends when a    *)
(* word reaches the end of the name; a name that ends otherwise has an      *)
(* empty word at its end, and the empty name has none at all.               *)
Words(name) ==
  IF name = <<>> THEN <<>>
  ELSE Pieces([left \in 1 .. Len(name) + 1 |->
                 SubSeq(name, WordBegin(name, left), WordEnd(name, left) - 1)],
              [left \in 1 .. Len(name) + 1 |-> WordEnd(name, left) + 1])

\* Mutant: the products of a word are assigned, not appended.
OccurrencesLast(list, word) ==
  <<Max({i \in DOMAIN list : word \in ToSet(Words(list[i]))})>>

(* The products that have the word, as often as they have it. *)
Occurrences(list, word) ==
  FlattenSeq([i \in DOMAIN list |->
    LET words == Words(list[i])
    IN  [k \in 1 .. Cardinality({j \in DOMAIN words : words[j] = word}) |-> i]])

(* generate_generic: table[str].push_back(i), product after product. *)
Generate(list) ==
  [word \in UNION {ToSet(Words(list[i])) : i \in DOMAIN list} |->
     Occurrences(list, word)]

(* The order of the keys of std::map<std::string, ...>. *)
LessThan(v, w) ==
  \/ IsStrictPrefix(v, w)
  \/ \E k \in DOMAIN v \cap DOMAIN w :
       v[k] < w[k] /\ \A j \in 1 .. k - 1 : v[j] = w[j]

(* Keywords end at a space, and at a space only; two spaces have an empty   *)
(* keyword between them.                                                    *)
KeywordEnd(text, pos) == FirstFrom(text, pos, {Space})

Keywords(text) ==
  Pieces([pos \in 1 .. Len(text) + 1 |->
            SubSeq(text, pos, KeywordEnd(text, pos) - 1)],
         [pos \in 1 .. Len(text) + 1 |-> KeywordEnd(text, pos) + 1])

UpperOf(text) == [k \in DOMAIN text |-> Upper[text[k]]]

\* Mutant: the sizes the comment in the loop warns of, words are compared
\* with the keyword as a whole.
MatchingWordsWhole(table, keyword) ==
  LET from == {w \in DOMAIN table : ~LessThan(w, keyword)}
  IN  {w \in from : \A v \in from : LessThan(w, v) \/ v = keyword}

(* The words from lower_bound on, until one does not start with the         *)
(* keyword.                                                                 *)
MatchingWords(table, keyword) ==
  LET from == {w \in DOMAIN table : ~LessThan(w, keyword)}
  IN  {w \in from : \A v \in from : LessThan(w, v) \/ IsPrefix(keyword, v)}

\* Mutant: indices are counted from zero and from one.
ReduceOffByOne(table, words) ==
  Ascending({i + 1 : i \in UNION {ToSet(table[w]) : w \in words}})

(* reduce: the products of a range of words, sorted and each once. *)
Reduce(table, words) == Ascending(UNION {ToSet(table[w]) : w \in words})

(* std::set_intersection of two sorted vectors. *)
Intersect(v, w) == Ascending(ToSet(v) \cap ToSet(w))

(* splitSearch and search *)
SearchFor(table, text) ==
  LET keywords  == Keywords(text)
      reduction == [k \in DOMAIN keywords |->
                      Reduce(table, MatchingWords(table, UpperOf(keywords[k])))]
      common[k \in DOMAIN keywords] ==
        IF k = 1 THEN reduction[1]
        ELSE Intersect(common[k - 1], reduction[k])
  IN  common[Len(keywords)]
-----------------------------------------------------------------------------
Init ==
  /\ names \in Lists
  /\ index = Generate(names)
  /\ query = NoQuery
  /\ result = <<>>

(* SearchResultActivity.onCreate *)
Search(text) ==
  /\ query = NoQuery
  /\ query' = text
  /\ result' = SearchFor(index, text)
  /\ UNCHANGED <<names, index>>

(* The activity is left and its LookupResult goes with it. *)
Leave ==
  /\ query # NoQuery
  /\ query' = NoQuery
  /\ result' = <<>>
  /\ UNCHANGED <<names, index>>

Next == (\E text \in Queries : Search(text)) \/ Leave

Spec == Init /\ [][Next]_vars
-----------------------------------------------------------------------------
(* Somewhere in the name a word begins with the keyword in upper case.      *)
BeginsWord(name, keyword) ==
  \E p \in 1 .. Len(name) :
    /\ p = 1 \/ name[p - 1] \notin Alnum
    /\ p + Len(keyword) - 1 <= Len(name)
    /\ \A k \in DOMAIN keyword :
         name[p + k - 1] \in Alnum /\ name[p + k - 1] = Upper[keyword[k]]

(* The spaces of the query cut it into keywords. *)
KeywordIn(text, from, to) ==
  /\ from \in 1 .. Len(text) + 1 /\ to \in from - 1 .. Len(text)
  /\ from = 1 \/ text[from - 1] = Space
  /\ to = Len(text) \/ text[to + 1] = Space
  /\ \A k \in from .. to : text[k] # Space

(* A search returns the indices of the products in whose names every        *)
(* keyword begins a word, in the order of the table, each once; the empty   *)
(* keyword stands for every product that has a name.                        *)
SearchIsExact ==
  query # NoQuery =>
    /\ ToSet(result) =
         {i \in DOMAIN names :
            \A from, to \in 0 .. Len(query) + 1 :
              KeywordIn(query, from, to) =>
                IF to < from THEN names[i] # <<>>
                ELSE BeginsWord(names[i], SubSeq(query, from, to))}
    /\ \A j, k \in DOMAIN result : j < k => result[j] < result[k]

(* A product whose name has only letters, digits and spaces is found by     *)
(* typing the name as it is shown, in either case.                          *)
FoundByOwnName ==
  \A i \in DOMAIN names :
    (names[i] # <<>> /\ ToSet(names[i]) \subseteq Alnum \cup {Space}) =>
      i \in ToSet(SearchFor(index, names[i]))
=============================================================================
