------------------------------ MODULE CsvText -------------------------------
(* The lines of the CSV files, character by character: what getField and    *)
(* clearQuotes of stockTable.h make of quotation marks and commas, and the  *)
(* exporter's quotation marks of them.  StockFile has cells instead; the    *)
(* property CellsSuffice says what that is worth.  A table's names, sizes   *)
(* and locations are sequences of characters here, and a printed count is   *)
(* one character, the number itself.                                        *)
EXTENDS StockFile, FiniteSets, Positions

CONSTANTS
  Char,        \* the characters of texts, numbers apart
  Quote, Comma,
  Lists,       \* the lines of the stock lists that are imported
  MaxHeader,   \* bound: the characters of the locations in a header
  MaxTotal     \* bound: the counts of a product together

ASSUME CharAssumption ==
  /\ Char \cap Int = {}
  /\ Quote \in Char /\ Comma \in Char /\ Quote # Comma

ASSUME TextAssumption == Location \subseteq Seq(Char) /\ Lists \subseteq Seq(Seq(Char))

VARIABLES
  table,
  result       \* what the last load returned, or Aborted, or Undefined

vars == <<table, result>>

(* pop_back on an empty string: anything may happen. *)
Undefined == "undefined"

Init == table = EmptyTable /\ result = "none"
-----------------------------------------------------------------------------
(* The quotation marks before position i. *)
QuotesBefore(s, i) == Cardinality({k \in 1 .. i - 1 : s[k] = Quote})

Wrapped(s) == Len(s) >= 2 /\ Head(s) = Quote /\ Last(s) = Quote

Inside(s) == IF Wrapped(s) THEN Tail(Front(s)) ELSE s

\* Mutant: every comma ends a field.
EveryComma(line) == {i \in DOMAIN line : line[i] = Comma}

(* The commas that end a field.  A field ends where isQuoted is false, so   *)
(* the marks can be counted from the beginning of the line.                 *)
Separators(line) ==
  {i \in DOMAIN line : line[i] = Comma /\ QuotesBefore(line, i) % 2 = 0}

(* The fields getField returns until it says that the line has ended: a     *)
(* comma at its very end starts no field.                                   *)
Fields(line) ==
  LET ends     == Separators(line) \cup {Len(line) + 1}
      Begin(k) == IF k = 1 THEN 1 ELSE Nth(ends, k - 1) + 1
      all      == [k \in 1 .. Cardinality(ends) |->
                     Inside(SubSeq(line, Begin(k), Nth(ends, k) - 1))]
  IN  IF Len(line) \in Separators(line) THEN Front(all) ELSE all

\* Mutant: the marks stay.
TidyTextKeeps(name) == name

(* tidy: the first and the last character of a name go when both are marks. *)
(* An empty name has none: front() is the NUL behind it.                    *)
TidyText(name) == Inside(name)

(* One mark is the first character and the last: tidy would remove two.     *)
PopsEmpty(name) == name = <<Quote>>

(* strtof of one field. *)
Number(field) ==
  IF field # <<>> /\ Head(field) \in Int THEN Head(field) ELSE NoNumber

(* One line of a file whose counts start behind this many fields: a Row     *)
(* with all its fields instead of the two cells.                            *)
RowOf(line, before) ==
  LET fields == Fields(line)
      n      == Len(fields) - before
  IN  [fields |-> fields, short |-> n < 0,
       counts |-> [u \in 1 .. n |-> Number(fields[before + u])]]

(* The elements of these lines, their names in the field name and their     *)
(* sizes in the next, and the tidied ones.                                  *)
TextElements(lines, name, before, n) ==
  [i \in DOMAIN lines |->
     LET row == RowOf(lines[i], before)
     IN  [name   |-> row.fields[name],
          size   |-> row.fields[name + 1],
          counts |-> [u \in 1 .. n |->
                        [location |-> u, count |-> row.counts[u]]]]]

TidyTexts(elements) ==
  [i \in DOMAIN elements |-> [elements[i] EXCEPT !.name = TidyText(@)]]

(* The loop over the lines: it stops at the first row that fails. *)
ReadLines(lines, name, before, locations) ==
  LET n   == Len(locations)
      bad == FailingRow([i \in DOMAIN lines |-> RowOf(lines[i], before)], n)
  IN  IF bad = 0
      THEN LET elements == TextElements(lines, name, before, n)
           IN  IF \E i \in DOMAIN elements : PopsEmpty(elements[i].name)
               THEN Refused(Undefined)
               ELSE Loaded("none", TidyTexts(elements), locations)
      ELSE IF RowResult(RowOf(lines[bad], before), n) = Aborted
      THEN Refused(Aborted)
      ELSE Loaded("unable_to_parse_count",
                  TextElements(SubSeq(lines, 1, bad - 1), name, before, n),
                  locations)

(* Three fields are read of a stock list's line, the first is thrown away. *)
ParseText(lines) == ReadLines(lines, 2, 3, <<>>)

(* The header is what follows "Name,Size,Total" and its comma. *)
ReuseText(file) ==
  ReadLines(file.lines, 1, 3,
            IF file.header = <<>> THEN <<>> ELSE Fields(file.header))
-----------------------------------------------------------------------------
Quoted(s) == <<Quote>> \o s \o <<Quote>>

\* Mutant: a name is written as it is.
ExportLineBare(elem, n) ==
  elem.name \o <<Comma>> \o Quoted(elem.size)
    \o <<Comma, Printed(SumCounts(elem))>>
    \o FlattenSeq([u \in 1 .. n |-> <<Comma, Printed(GetCount(elem, u))>>])

ExportLine(elem, n) ==
  Quoted(elem.name) \o <<Comma>> \o Quoted(elem.size)
    \o <<Comma, Printed(SumCounts(elem))>>
    \o FlattenSeq([u \in 1 .. n |-> <<Comma, Printed(GetCount(elem, u))>>])

ExportHeader(locations) ==
  FlattenSeq([u \in DOMAIN locations |->
                IF u = 1 THEN Quoted(locations[u])
                ELSE <<Comma>> \o Quoted(locations[u])])

ExportText(t) ==
  [header |-> ExportHeader(t.locationIndices),
   lines  |-> [i \in DOMAIN t.elements |->
                 ExportLine(t.elements[i], Len(t.locationIndices))]]
-----------------------------------------------------------------------------
Becomes(load) == table' = load.table /\ result' = load.result

(* Bound: only over an empty table, as a load resets the table before it    *)
(* reads, and ends the same over any other.                                 *)
Import(lines) == table = EmptyTable /\ Becomes(ParseText(lines))

(* A save and, with nothing in between, a load of it. *)
SaveAndReuse == Becomes(ReuseText(ExportText(table)))

(* A location the user types. *)
SetLocation(name) ==
  /\ table' = SetTableLocation(table, name)
  /\ Len(ExportHeader(table'.locationIndices)) <= MaxHeader
  /\ UNCHANGED result

Alter(idx) ==
  /\ SumCounts(table.elements[idx]) < MaxTotal
  /\ table' = AlterTable(table, idx, 1)
  /\ UNCHANGED result

Next ==
  \/ \E lines \in Lists : Import(lines)
  \/ SaveAndReuse
  \/ \E name \in Location : SetLocation(name)
  \/ \E idx \in DOMAIN table.elements : Alter(idx)

Spec == Init /\ [][Next]_vars
-----------------------------------------------------------------------------
(* A table of texts is addressable like any other.                          *)
TypeOK ==
  /\ result \in FileError \cup {Aborted, Undefined}
  /\ TableAddressable(table)

(* Whatever a line says, tidy never meets a name that is one quotation mark *)
(* alone, of which it would remove two: a field with another behind it has  *)
(* an even number of them.                                                  *)
TidyIsDefined == result # Undefined

(* A text between quotation marks is read back as one field: no comma of it *)
(* is seen outside them, and none behind it is seen inside.                 *)
Contained(s) ==
  /\ \A i \in DOMAIN s : s[i] = Comma => QuotesBefore(s, i) % 2 = 0
  /\ QuotesBefore(s, Len(s) + 1) % 2 = 0

(* The last location has nothing behind it. *)
LastContained(s) ==
  \A i \in DOMAIN s : s[i] = Comma => QuotesBefore(s, i) % 2 = 0

Readable(t) ==
  /\ \A l \in DOMAIN t.locationIndices :
       \/ Contained(t.locationIndices[l])
       \/ l = Len(t.locationIndices) /\ LastContained(t.locationIndices[l])
  /\ \A i \in DOMAIN t.elements :
       /\ Contained(t.elements[i].name) /\ ~Wrapped(t.elements[i].name)
       /\ Contained(t.elements[i].size)

(* What a file tells of a table: of its counts what the exporter prints.   *)
Texts(t) ==
  <<t.locationIndices,
    [i \in DOMAIN t.elements |->
       <<t.elements[i].name, t.elements[i].size,
         [l \in DOMAIN t.locationIndices |->
            Printed(GetCount(t.elements[i], l))]>>]>>

(* Which tables survive a save: exactly those whose texts are contained and *)
(* whose names have no marks around them.  Any other one comes back with    *)
(* other products, columns or counts, or ends the process.                  *)
SavesReadBack ==
  [][SaveAndReuse =>
       (result' = "none" /\ Texts(table') = Texts(table)
          <=> Readable(table))]_vars
-----------------------------------------------------------------------------
(* The texts of cells are those in between; there is no case here.          *)
ASSUME PlainAssumption ==
  /\ Text \subseteq Seq(Char \ {Quote, Comma})
  /\ \A t \in Text : Upper[t] = t

Marks(n) == [k \in 1 .. n |-> Quote]

(* The text a cell of StockFile stands for, and the cells of a table. *)
TextOf(cell) == Marks(cell.quotes) \o cell.text \o Marks(cell.quotes)

CellsFor(s) ==
  {cell \in [text : Text, quotes : 0 .. Len(s) \div 2] : TextOf(cell) = s}

IsCell(s) == CellsFor(s) # {}

CellOf(s) == CHOOSE cell \in CellsFor(s) : TRUE

WithTexts(t, F(_)) ==
  [t EXCEPT !.elements = [i \in DOMAIN @ |->
     [name |-> F(@[i].name), size |-> F(@[i].size), counts |-> @[i].counts]]]

AllCells(t) ==
  /\ \A l \in DOMAIN t.locationIndices : t.locationIndices[l] \in Text
  /\ \A i \in DOMAIN t.elements :
       IsCell(t.elements[i].name) /\ IsCell(t.elements[i].size)

(* Where names and sizes are plain texts in marks, and locations plain      *)
(* texts, the parsers and the exporter of StockFile do what these do.       *)
CellsSuffice ==
  [][SaveAndReuse /\ AllCells(table) =>
       LET saved == ExportToStream(WithTexts(table, CellOf), FALSE)
           cells == ReuseFromStream(saved, "FILE")
       IN  /\ result' = cells.result
           /\ table' = WithTexts(cells.table, TextOf)]_vars
=============================================================================
