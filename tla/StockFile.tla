----------------------------- MODULE StockFile ------------------------------
(* The CSV files of the stock table and its two parsers and one exporter,   *)
(* stockTable::parseFromStream, reuseFromStream and exportToStream.         *)
(*                                                                          *)
(* A cell is [text, quotes]: its characters without the pairs of quotation  *)
(* marks around it, and how many such pairs there are.  clearQuotes, tidy   *)
(* and the exporter act on the pairs one at a time, so the number matters;  *)
(* the characters matter only through stringToUpper.  Blank lines, which    *)
(* both parsers skip, and the CR of a CRLF, which they remove, are not rows *)
(* of a file.  A table is the record of the three members elements,         *)
(* locationIndices and location (the C++ index plus 1).                     *)
EXTENDS StockElement

CONSTANTS
  Text,        \* the texts of names and sizes
  Upper,       \* stringToUpper on them
  Location,    \* the names of locations
  Global,      \* the default location's name
  NoNumber,    \* a count cell strtof finds no number in
  Grain        \* steps of a count per step std::to_string can print

ASSUME UpperAssumption ==
  /\ Upper \in [Text -> Text]
  /\ \A t \in Text : Upper[Upper[t]] = Upper[t]

ASSUME GlobalAssumption == Global \in Location

ASSUME NoNumberAssumption == NoNumber \notin Int

\* An odd number of steps: no count is half way between two printed values.
ASSUME GrainAssumption == Grain \in Nat /\ Grain % 2 = 1

Cell == [text : Text, quotes : Nat]

Element == [name : Cell, size : Cell, counts : Seq(Count)]

Table == [elements : Seq(Element), locationIndices : Seq(Location),
          location : Nat \ {0}]

(* What the first line of a file looks like to the parsers: one of the two  *)
(* layouts, a line that stops before the layout is complete, a byte order   *)
(* mark followed by anything else, or anything else.                        *)
Header == {"import_layout", "import_prefix", "bom_other",
           "reuse_layout", "reuse_prefix", "other"}

(* A row has the cells in front of the counts (the import layout has none   *)
(* of these) and is short when one of them is missing.  A count cell holds  *)
(* a number or NoNumber; the columns a row does not reach are not in counts *)
Row == [name : Cell, size : Cell, short : BOOLEAN,
        counts : Seq(Int \cup {NoNumber})]

(* terminated: the last row ends with a line break. *)
File == [header : Header, locations : Seq(Location), rows : Seq(Row),
         terminated : BOOLEAN]

(* FILE is what the app reads through; stream is std::istream. *)
Source == {"FILE", "stream"}

FileError == {"none", "unable_to_open", "bad_BOM", "bad_header",
              "unable_to_parse_count"}

(* getField past the end of its line: std::string::substr throws, nothing   *)
(* catches it on the way to the JNI boundary and the process is aborted.    *)
Aborted == "aborted"
-----------------------------------------------------------------------------
\* Mutant: the first and the last character go, whatever they are.
UnwrapUnchecked(cell) == [cell EXCEPT !.quotes = @ - 1]

(* A pair of quotation marks is removed when there is one. *)
Unwrap(cell) ==
  [cell EXCEPT !.quotes = IF @ = 0 THEN 0 ELSE @ - 1]

(* clearQuotes: one pair of wrapping quotation marks. *)
ClearQuotes(cell) == Unwrap(cell)

(* What tidy makes of one name. *)
TidyName(cell) ==
  [text |-> Upper[cell.text], quotes |-> Unwrap(cell).quotes]

TidyElement(elem) == [elem EXCEPT !.name = TidyName(@)]

(* tidy *)
Tidy(elements) == [i \in DOMAIN elements |-> TidyElement(elements[i])]

(* reset, and the members a table is constructed with. *)
EmptyTable == [elements |-> <<>>, locationIndices |-> <<>>, location |-> 1]

\* Mutant: the stream is good until a read finds nothing at all.
RowsReadAll(file, source) == file.rows

(* The rows the loop `while (stream.getLine(line))` runs its body for.      *)
(* inputFILE turns false as soon as it has met the end of the file, so a    *)
(* last row without a line break is read and then left out.                 *)
RowsRead(file, source) ==
  IF source = "FILE" /\ ~file.terminated /\ file.rows # <<>>
  THEN Front(file.rows)
  ELSE file.rows

(* What becomes of one row of a file with n location columns. *)
RowResult(row, n) ==
  IF row.short THEN Aborted
  ELSE IF \E u \in 1..n : u \in DOMAIN row.counts /\ row.counts[u] = NoNumber
       THEN "unable_to_parse_count"
       ELSE IF Len(row.counts) < n THEN Aborted ELSE "none"

(* The first row that ends the loop early, 0 when all of them are taken. *)
FailingRow(rows, n) ==
  SelectInSeq(rows, LAMBDA row : RowResult(row, n) # "none")

ElementOf(row, n) ==
  [name   |-> ClearQuotes(row.name),
   size   |-> ClearQuotes(row.size),
   counts |-> [u \in 1..n |-> [location |-> u, count |-> row.counts[u]]]]

Elements(rows, n) == [i \in DOMAIN rows |-> ElementOf(rows[i], n)]

Loaded(result, elements, locations) ==
  [result |-> result,
   table  |-> [elements |-> elements, locationIndices |-> locations,
               location |-> 1]]

(* A load that has nothing to show: the header is wrong, or the process is  *)
(* aborted and the next one constructs its table anew.                      *)
Refused(result) == [result |-> result, table |-> EmptyTable]

(* The two loops over the rows: they return at the first row that fails     *)
(* with what they have built so far, untidied, or tidy it at the end.       *)
ReadRows(rows, locations) ==
  LET n   == Len(locations)
      bad == FailingRow(rows, n)
  IN  CASE bad = 0 -> Loaded("none", Tidy(Elements(rows, n)), locations)
        [] bad # 0 /\ RowResult(rows[bad], n) = Aborted -> Refused(Aborted)
        [] OTHER -> Loaded("unable_to_parse_count",
                           Elements(SubSeq(rows, 1, bad - 1), n), locations)

(* parseFromStream: a stock list, which has no counts and no locations. *)
ParseFromStream(file, source) ==
  CASE file.header = "import_layout" -> ReadRows(RowsRead(file, source), <<>>)
    [] file.header = "import_prefix" -> Refused(Aborted)
    [] file.header = "bom_other"     -> Refused("bad_header")
    [] OTHER                         -> Refused("bad_BOM")

(* reuseFromStream: a file exportToStream wrote, or a user edited. *)
ReuseFromStream(file, source) ==
  CASE file.header = "reuse_layout" ->
         ReadRows(RowsRead(file, source), file.locations)
    [] file.header = "reuse_prefix" -> Refused(Aborted)
    [] OTHER                        -> Refused("bad_header")
-----------------------------------------------------------------------------
(* std::to_string(float): the nearest value with six decimals. *)
Printed(count) == Grain * ((2 * count + Grain) \div (2 * Grain))

Wrap(cell) == [cell EXCEPT !.quotes = @ + 1]

\* Mutant: the counts are written in the order they were recorded in.
ExportRowAsRecorded(elem, n) ==
  [name   |-> Wrap(elem.name),
   size   |-> Wrap(elem.size),
   short  |-> FALSE,
   counts |-> [k \in DOMAIN elem.counts |-> Printed(elem.counts[k].count)]]

(* One line of the export; getCount finds the count of each column. *)
ExportRow(elem, n) ==
  [name   |-> Wrap(elem.name),
   size   |-> Wrap(elem.size),
   short  |-> FALSE,
   counts |-> [u \in 1..n |-> Printed(GetCount(elem, u))]]

\* Mutant: the first count stands for all of them.
FirstIsZero(elem) == elem.counts = <<>> \/ elem.counts[1].count = 0

(* What a minimal save leaves out. *)
IsEmpty(elem) == SumCounts(elem) = 0

(* The loop over the products of a minimal save.                            *)
Counted(elements) ==
  LET kept[i \in 0 .. Len(elements)] ==
        IF i = 0 THEN <<>>
        ELSE IF IsEmpty(elements[i]) THEN kept[i - 1]
             ELSE Append(kept[i - 1], elements[i])
  IN  kept[Len(elements)]

(* exportToStream *)
ExportToStream(table, skipEmpty) ==
  LET n    == Len(table.locationIndices)
      kept == IF skipEmpty THEN Counted(table.elements) ELSE table.elements
  IN  [header     |-> "reuse_layout",
       locations  |-> table.locationIndices,
       rows       |-> [i \in DOMAIN kept |-> ExportRow(kept[i], n)],
       terminated |-> TRUE]
-----------------------------------------------------------------------------
(* The std::find of setLocation: 0 stands for cend(). *)
LocationIndex(locations, name) ==
  SelectInSeq(locations, LAMBDA l : l = name)

\* Mutant: the search of setLocation is forgotten.
SetTableLocationAppends(table, name) ==
  [table EXCEPT !.location = Len(table.locationIndices) + 1,
                !.locationIndices = Append(@, name)]

(* setLocation: choose the first location of that name, or append it. *)
SetTableLocation(table, name) ==
  LET k == LocationIndex(table.locationIndices, name)
  IN  IF k # 0
      THEN [table EXCEPT !.location = k]
      ELSE [table EXCEPT !.location = Len(table.locationIndices) + 1,
                         !.locationIndices = Append(@, name)]

\* Mutant: the first count does not make the default location.
AlterTableUnplaced(table, idx, delta) ==
  [table EXCEPT !.elements[idx] = AlterElement(@, table.location, delta)]

(* stockTable::alter: the first count of a table without locations makes    *)
(* the default location.  The index is not checked; callers keep it valid.  *)
AlterTable(table, idx, delta) ==
  [table EXCEPT
     !.locationIndices = IF @ = <<>> THEN <<Global>> ELSE @,
     !.elements[idx]   = AlterElement(@, table.location, delta)]
-----------------------------------------------------------------------------
(* The counts of one product in a table of n locations. *)
ElementAddressable(elem, n) ==
  /\ \A k \in DOMAIN elem.counts : elem.counts[k].location \in 1 .. n
  /\ \A j, k \in DOMAIN elem.counts :
       elem.counts[j].location = elem.counts[k].location => j = k

TableAddressable(t) ==
  /\ IF t.locationIndices = <<>>
     THEN t.location = 1
     ELSE t.location \in 1 .. Len(t.locationIndices)
  /\ \A i \in DOMAIN t.elements :
       ElementAddressable(t.elements[i], Len(t.locationIndices))

FirstOfItsName(t) ==
  \A l \in 1 .. Len(t.locationIndices) :
    t.locationIndices[l] = t.locationIndices[t.location] => t.location <= l
=============================================================================
