--------------------------- MODULE StockFileProofs ---------------------------
(* What the parsers, setLocation, alter and the exporter do to a table, for *)
(* every file, name, delta and grain: TableGood says of one table what the  *)
(* invariants of StockTable say of theirs.                                  *)
EXTENDS StockFile, CollectionProofs

(* A function on 1 .. n is a sequence. *)
LEMMA FunctionIsSeq ==
  ASSUME NEW S, NEW n \in Nat, NEW f \in [1 .. n -> S]
  PROVE  f \in Seq(S)
OBVIOUS

(* CountIndex finds the first pair of a location, if there is one. *)
LEMMA CountIndexFound ==
  ASSUME NEW counts \in Seq(Count), NEW location
  PROVE  LET k == CountIndex(counts, location)
         IN  IF k = 0
             THEN \A j \in DOMAIN counts : counts[j].location # location
             ELSE k \in DOMAIN counts /\ counts[k].location = location
<1> DEFINE I == {i \in 1 .. Len(counts) : counts[i].location = location}
<1>1. CountIndex(counts, location) = IF I # {} THEN Min(I) ELSE 0
  BY DEF CountIndex, SelectInSeq
<1>2. I # {} => Min(I) \in I
  BY MinFound
<1> QED
  BY <1>1, <1>2

(* LocationIndex finds the first location of a name, if there is one. *)
LEMMA LocationIndexFound ==
  ASSUME NEW L, NEW locations \in Seq(L), NEW name
  PROVE  LET k == LocationIndex(locations, name)
         IN  IF k = 0
             THEN \A j \in DOMAIN locations : locations[j] # name
             ELSE /\ k \in DOMAIN locations
                  /\ locations[k] = name
                  /\ \A j \in DOMAIN locations : locations[j] = name => k <= j
<1> DEFINE I == {i \in 1 .. Len(locations) : locations[i] = name}
<1>1. LocationIndex(locations, name) = IF I # {} THEN Min(I) ELSE 0
  BY DEF LocationIndex, SelectInSeq
<1>2. I \in SUBSET Nat
  OBVIOUS
<1> HIDE DEF I
<1>3. I # {} => Min(I) \in I /\ \A j \in I : Min(I) <= j
  BY <1>2, MinFound
<1>4. CASE I = {}
  BY <1>1, <1>4 DEF I
<1>5. CASE I # {}
  BY <1>1, <1>3, <1>5 DEF I
<1> QED
  BY <1>4, <1>5

(* FailingRow finds a row that fails, or every row is taken. *)
LEMMA FailingRowFound ==
  ASSUME NEW S, NEW rows \in Seq(S), NEW n \in Nat
  PROVE  LET k == FailingRow(rows, n)
         IN  IF k = 0
             THEN \A j \in DOMAIN rows : RowResult(rows[j], n) = "none"
             ELSE /\ k \in DOMAIN rows
                  /\ RowResult(rows[k], n) # "none"
                  /\ \A j \in 1 .. k - 1 : RowResult(rows[j], n) = "none"
<1> DEFINE I == {i \in 1 .. Len(rows) : RowResult(rows[i], n) # "none"}
<1>1. FailingRow(rows, n) = IF I # {} THEN Min(I) ELSE 0
  BY DEF FailingRow, SelectInSeq
<1>2. I \in SUBSET Nat
  OBVIOUS
<1> HIDE DEF I
<1>3. I # {} => Min(I) \in I /\ \A j \in I : Min(I) <= j
  BY <1>2, MinFound
<1>4. CASE I = {}
  BY <1>1, <1>4 DEF I
<1>5. CASE I # {}
  <2> DEFINE k == FailingRow(rows, n)
  <2>1. k \in I /\ \A j \in I : k <= j
    BY <1>1, <1>3, <1>5
  <2>2. k \in 1 .. Len(rows) /\ RowResult(rows[k], n) # "none"
    BY <2>1 DEF I
  <2>3. ASSUME NEW j \in 1 .. k - 1
        PROVE  RowResult(rows[j], n) = "none"
    <3>1. j \in 1 .. Len(rows) /\ ~ (k <= j)
      BY <2>2
    <3> QED
      BY <2>1, <3>1 DEF I
  <2>4. k # 0 /\ k \in DOMAIN rows
    BY <2>2
  <2> QED
    BY <2>2, <2>3, <2>4
<1> QED
  BY <1>4, <1>5

-----------------------------------------------------------------------------
(* A good table: the three parts need each other only in alter, which must  *)
(* know that the current location is a column.                              *)
TableGood(t) == t \in Table /\ TableAddressable(t) /\ FirstOfItsName(t)

(* The same for tables of other texts than cells.                           *)
ElementOver(C) == [name : C, size : C, counts : Seq(Count)]

TableOver(C, L) == [elements : Seq(ElementOver(C)), locationIndices : Seq(L),
                    location : Nat \ {0}]

GoodOver(C, L, t) ==
  t \in TableOver(C, L) /\ TableAddressable(t) /\ FirstOfItsName(t)

(* A good table is one of cells and locations.                              *)
LEMMA GoodIsOver ==
  ASSUME NEW t
  PROVE  TableGood(t) <=> GoodOver(Cell, Location, t)
BY DEF TableGood, GoodOver, Table, TableOver, Element, ElementOver

(* A table that was constructed or reset is good. *)
LEMMA EmptyTableGood == TableGood(EmptyTable)
BY DEF TableGood, Table, EmptyTable, TableAddressable, FirstOfItsName

(* A row that is taken becomes an element with one count per location. *)
LEMMA ElementOfGood ==
  ASSUME NEW row \in Row, NEW n \in Nat, RowResult(row, n) = "none"
  PROVE  ElementOf(row, n) \in Element /\ ElementAddressable(ElementOf(row, n), n)
<1>1. /\ Len(row.counts) \in Nat
      /\ ~ Len(row.counts) < n
      /\ DOMAIN row.counts = 1 .. Len(row.counts)
      /\ \A u \in DOMAIN row.counts : row.counts[u] \in Int \cup {NoNumber}
      /\ \A u \in 1 .. n : u \in DOMAIN row.counts => row.counts[u] # NoNumber
  BY DEF Row, RowResult, Aborted
<1>2. \A u \in 1 .. n : row.counts[u] \in Int
  BY <1>1
<1>3. [u \in 1 .. n |-> [location |-> u, count |-> row.counts[u]]] \in Seq(Count)
  BY <1>2 DEF Count
<1>4. ClearQuotes(row.name) \in Cell /\ ClearQuotes(row.size) \in Cell
  BY DEF Row, Cell, ClearQuotes, Unwrap
<1>5. ElementOf(row, n) \in Element
  BY <1>3, <1>4 DEF ElementOf, Element
<1>6. ElementAddressable(ElementOf(row, n), n)
  BY DEF ElementOf, ElementAddressable
<1> QED
  BY <1>5, <1>6

(* tidy changes names only. *)
LEMMA TidyElementGood ==
  ASSUME NEW elem \in Element, NEW n \in Nat, ElementAddressable(elem, n)
  PROVE  TidyElement(elem) \in Element /\ ElementAddressable(TidyElement(elem), n)
<1>1. elem.name \in Cell /\ Unwrap(elem.name) \in Cell
  BY DEF Element, Cell, Unwrap
<1>2. TidyName(elem.name) \in Cell
  BY <1>1, UpperAssumption DEF Cell, TidyName
<1>3. /\ TidyElement(elem) \in Element
      /\ TidyElement(elem).counts = elem.counts
  BY <1>2 DEF TidyElement, Element
<1> QED
  BY <1>3 DEF ElementAddressable

(* Products that were read have one count per location, tidied or not. *)
LEMMA ElementsGood ==
  ASSUME NEW rows \in Seq(Row), NEW n \in Nat,
         \A j \in DOMAIN rows : RowResult(rows[j], n) = "none"
  PROVE  /\ Elements(rows, n) \in Seq(Element)
         /\ Tidy(Elements(rows, n)) \in Seq(Element)
         /\ \A i \in DOMAIN Elements(rows, n) :
              ElementAddressable(Elements(rows, n)[i], n)
         /\ \A i \in DOMAIN Tidy(Elements(rows, n)) :
              ElementAddressable(Tidy(Elements(rows, n))[i], n)
<1> DEFINE raw == Elements(rows, n)
<1>1. DOMAIN rows = 1 .. Len(rows) /\ Len(rows) \in Nat
  OBVIOUS
<1>2. DOMAIN raw = DOMAIN rows /\ DOMAIN Tidy(raw) = DOMAIN rows
  BY DEF Elements, Tidy
<1>3. \A i \in DOMAIN rows : raw[i] = ElementOf(rows[i], n)
  BY DEF Elements
<1>4. \A i \in DOMAIN rows : raw[i] \in Element /\ ElementAddressable(raw[i], n)
  BY <1>3, ElementOfGood
<1>5. \A i \in DOMAIN rows : Tidy(raw)[i] = TidyElement(raw[i])
  BY <1>2 DEF Tidy
<1>6. \A i \in DOMAIN rows :
        Tidy(raw)[i] \in Element /\ ElementAddressable(Tidy(raw)[i], n)
  BY <1>4, <1>5, TidyElementGood
<1>7. raw \in Seq(Element)
  BY <1>1, <1>2, <1>4 DEF Elements
<1>8. Tidy(raw) \in Seq(Element)
  BY <1>1, <1>2, <1>6 DEF Tidy
<1> QED
  BY <1>2, <1>4, <1>6, <1>7, <1>8

(* A table that takes its locations from a file stands at the first. *)
LEMMA LoadedOver ==
  ASSUME NEW C, NEW L,
         NEW elements \in Seq(ElementOver(C)), NEW locations \in Seq(L),
         NEW result,
         \A i \in DOMAIN elements :
           ElementAddressable(elements[i], Len(locations))
  PROVE  GoodOver(C, L, Loaded(result, elements, locations).table)
<1> DEFINE t == Loaded(result, elements, locations).table
<1>1. t = [elements |-> elements, locationIndices |-> locations, location |-> 1]
  BY DEF Loaded
<1>2. t \in TableOver(C, L)
  BY <1>1 DEF TableOver
<1>3. TableAddressable(t)
  BY <1>1 DEF TableAddressable
<1>4. FirstOfItsName(t)
  BY <1>1 DEF FirstOfItsName
<1> QED
  BY <1>2, <1>3, <1>4 DEF GoodOver

(* The same of a table of cells. *)
LEMMA LoadedGood ==
  ASSUME NEW elements \in Seq(Element), NEW locations \in Seq(Location),
         NEW result,
         \A i \in DOMAIN elements :
           ElementAddressable(elements[i], Len(locations))
  PROVE  TableGood(Loaded(result, elements, locations).table)
<1>1. Element = ElementOver(Cell)
  BY DEF Element, ElementOver
<1> QED
  BY <1>1, LoadedOver, GoodIsOver

(* Whatever the rows are, the loops return a good table and a code. *)
LEMMA ReadRowsGood ==
  ASSUME NEW rows \in Seq(Row), NEW locations \in Seq(Location)
  PROVE  /\ TableGood(ReadRows(rows, locations).table)
         /\ ReadRows(rows, locations).result \in FileError \cup {Aborted}
<1> DEFINE n == Len(locations)
           bad == FailingRow(rows, n)
<1>0. n \in Nat
  OBVIOUS
<1>1. CASE bad = 0
  <2>1. \A j \in DOMAIN rows : RowResult(rows[j], n) = "none"
    BY <1>0, <1>1, FailingRowFound
  <2>2. ReadRows(rows, locations)
          = Loaded("none", Tidy(Elements(rows, n)), locations)
    BY <1>1 DEF ReadRows
  <2>3. TableGood(Loaded("none", Tidy(Elements(rows, n)), locations).table)
    BY <1>0, <2>1, ElementsGood, LoadedGood
  <2> QED
    BY <2>2, <2>3 DEF Loaded, FileError
<1>2. CASE bad # 0 /\ RowResult(rows[bad], n) = Aborted
  <2>1. ReadRows(rows, locations) = Refused(Aborted)
    BY <1>2 DEF ReadRows
  <2> QED
    BY <2>1, EmptyTableGood DEF Refused
<1>3. CASE bad # 0 /\ RowResult(rows[bad], n) # Aborted
  <2> DEFINE read == SubSeq(rows, 1, bad - 1)
  <2>1. /\ bad \in DOMAIN rows
        /\ \A j \in 1 .. bad - 1 : RowResult(rows[j], n) = "none"
    BY <1>0, <1>3, FailingRowFound
  <2>2. /\ read \in Seq(Row)
        /\ \A j \in DOMAIN read : RowResult(read[j], n) = "none"
    BY <2>1
  <2>3. ReadRows(rows, locations)
          = Loaded("unable_to_parse_count", Elements(read, n), locations)
    BY <1>3 DEF ReadRows
  <2> HIDE DEF read
  <2>4. TableGood(Loaded("unable_to_parse_count", Elements(read, n),
                         locations).table)
    BY <1>0, <2>2, ElementsGood, LoadedGood
  <2> QED
    BY <2>3, <2>4 DEF Loaded, FileError
<1> QED
  BY <1>1, <1>2, <1>3

(* A row that is left out leaves a sequence of rows. *)
LEMMA RowsReadType ==
  ASSUME NEW file \in File, NEW source
  PROVE  RowsRead(file, source) \in Seq(Row)
BY DEF File, RowsRead, Front

(* Whatever the stock list is, a load leaves a good table and a code. *)
LEMMA ParseGood ==
  ASSUME NEW file \in File, NEW source
  PROVE  LET parsed == ParseFromStream(file, source)
         IN  TableGood(parsed.table) /\ parsed.result \in FileError \cup {Aborted}
<1>0. <<>> \in Seq(Location)
  OBVIOUS
<1>1. /\ TableGood(ReadRows(RowsRead(file, source), <<>>).table)
      /\ ReadRows(RowsRead(file, source), <<>>).result
           \in FileError \cup {Aborted}
  BY <1>0, RowsReadType, ReadRowsGood
<1>2. \A result : Refused(result).table = EmptyTable
                  /\ Refused(result).result = result
  BY DEF Refused
<1>3. ParseFromStream(file, source)
        \in {ReadRows(RowsRead(file, source), <<>>), Refused(Aborted),
            Refused("bad_header"), Refused("bad_BOM")}
  BY DEF ParseFromStream
<1> QED
  BY <1>1, <1>2, <1>3, EmptyTableGood DEF FileError

(* Whatever the reused file is, a load leaves a good table and a code. *)
LEMMA ReuseGood ==
  ASSUME NEW file \in File, NEW source
  PROVE  LET parsed == ReuseFromStream(file, source)
         IN  TableGood(parsed.table) /\ parsed.result \in FileError \cup {Aborted}
<1>0. file.locations \in Seq(Location)
  BY DEF File
<1>1. /\ TableGood(ReadRows(RowsRead(file, source), file.locations).table)
      /\ ReadRows(RowsRead(file, source), file.locations).result
           \in FileError \cup {Aborted}
  BY <1>0, RowsReadType, ReadRowsGood
<1>2. \A result : Refused(result).table = EmptyTable
                  /\ Refused(result).result = result
  BY DEF Refused
<1>3. ReuseFromStream(file, source)
        \in {ReadRows(RowsRead(file, source), file.locations),
            Refused(Aborted), Refused("bad_header")}
  BY DEF ReuseFromStream
<1> QED
  BY <1>1, <1>2, <1>3, EmptyTableGood DEF FileError

(* Altering a product keeps its counts in range and apart. *)
LEMMA AlterElementOver ==
  ASSUME NEW C, NEW elem \in ElementOver(C), NEW n \in Nat, ElementAddressable(elem, n),
         NEW location \in 1 .. n, NEW delta \in Int
  PROVE  /\ AlterElement(elem, location, delta) \in ElementOver(C)
         /\ ElementAddressable(AlterElement(elem, location, delta), n)
<1> DEFINE k   == CountIndex(elem.counts, location)
           new == AlterElement(elem, location, delta)
<1>1. elem.counts \in Seq(Count)
  BY DEF ElementOver
<1>2. CASE k # 0
  <2>1. k \in DOMAIN elem.counts
    BY <1>1, <1>2, CountIndexFound
  <2>2. new = [elem EXCEPT !.counts[k].count = @ + delta]
    BY <1>2 DEF AlterElement
  <2> HIDE DEF k
  <2>3. elem.counts[k] \in Count
    BY <1>1, <2>1
  <2>4. [elem.counts[k] EXCEPT !.count = @ + delta] \in Count
    BY <2>3 DEF Count
  <2>5. /\ new.counts = [elem.counts EXCEPT ![k].count = @ + delta]
        /\ new.name = elem.name /\ new.size = elem.size
        /\ DOMAIN new = DOMAIN elem
    BY <2>2 DEF ElementOver
  <2>6. new.counts \in Seq(Count)
    BY <1>1, <2>1, <2>4, <2>5
  <2>7. new \in ElementOver(C)
    BY <2>2, <2>6, <2>5 DEF ElementOver
  <2>8. /\ DOMAIN new.counts = DOMAIN elem.counts
        /\ \A j \in DOMAIN elem.counts :
             new.counts[j].location = elem.counts[j].location
    BY <1>1, <2>3, <2>5 DEF Count
  <2> QED
    BY <2>7, <2>8 DEF ElementAddressable
<1>3. CASE k = 0
  <2> DEFINE pair == [location |-> location, count |-> delta]
  <2>1. \A j \in DOMAIN elem.counts : elem.counts[j].location # location
    BY <1>1, <1>3, CountIndexFound
  <2>2. new = [elem EXCEPT !.counts = Append(@, pair)]
    BY <1>3 DEF AlterElement
  <2>3. pair \in Count
    BY DEF Count
  <2>4. /\ new.counts = Append(elem.counts, pair)
        /\ new.counts \in Seq(Count)
    BY <1>1, <2>2, <2>3 DEF ElementOver
  <2>5. new \in ElementOver(C)
    BY <2>2, <2>4 DEF ElementOver
  <2>6. /\ Len(new.counts) = Len(elem.counts) + 1
        /\ DOMAIN new.counts = 1 .. Len(elem.counts) + 1
        /\ DOMAIN elem.counts = 1 .. Len(elem.counts)
        /\ Len(elem.counts) \in Nat
        /\ \A j \in 1 .. Len(elem.counts) : new.counts[j] = elem.counts[j]
        /\ new.counts[Len(elem.counts) + 1].location = location
    BY <1>1, <2>3, <2>4
  <2> HIDE DEF new, k
  <2>7. \A j \in DOMAIN new.counts : new.counts[j].location \in 1 .. n
    <3>1. \A j \in 1 .. Len(elem.counts) : elem.counts[j].location \in 1 .. n
      BY <2>6 DEF ElementAddressable
    <3> QED
      BY <2>6, <3>1
  <2>8. ASSUME NEW i \in DOMAIN new.counts, NEW j \in DOMAIN new.counts,
               new.counts[i].location = new.counts[j].location
        PROVE  i = j
    <3>1. i \in 1 .. Len(elem.counts) + 1 /\ j \in 1 .. Len(elem.counts) + 1
      BY <2>6
    <3>2. \A l \in 1 .. Len(elem.counts) : new.counts[l].location # location
      BY <2>1, <2>6
    <3>3. CASE i \in 1 .. Len(elem.counts) /\ j \in 1 .. Len(elem.counts)
      BY <2>6, <2>8, <3>3 DEF ElementAddressable
    <3>4. CASE i = Len(elem.counts) + 1 \/ j = Len(elem.counts) + 1
      BY <2>6, <2>8, <3>1, <3>2, <3>4
    <3> QED
      BY <2>6, <3>1, <3>3, <3>4
  <2>9. ElementAddressable(new, n)
    BY <2>7, <2>8 DEF ElementAddressable
  <2> QED
    BY <2>5, <2>9 DEF new
<1> QED
  BY <1>2, <1>3

(* setLocation chooses the first location of the name. *)
LEMMA SetTableLocationOver ==
  ASSUME NEW C, NEW L, NEW t, GoodOver(C, L, t), NEW name \in L
  PROVE  GoodOver(C, L, SetTableLocation(t, name))
<1> DEFINE locations == t.locationIndices
           k == LocationIndex(locations, name)
           new == SetTableLocation(t, name)
<1>1. /\ t \in TableOver(C, L) /\ locations \in Seq(L)
      /\ t.elements \in Seq(ElementOver(C)) /\ t.location \in Nat \ {0}
  BY DEF GoodOver, TableOver
<1>2. CASE k # 0
  <2>1. /\ k \in 1 .. Len(locations)
        /\ locations[k] = name
        /\ \A j \in 1 .. Len(locations) : locations[j] = name => k <= j
    BY <1>1, <1>2, LocationIndexFound
  <2>2. new = [t EXCEPT !.location = k]
    BY <1>2 DEF SetTableLocation
  <2> HIDE DEF k
  <2>3. /\ new \in TableOver(C, L) /\ new.location = k
        /\ new.elements = t.elements /\ new.locationIndices = locations
    BY <1>1, <2>1, <2>2 DEF TableOver
  <2>4. locations # <<>>
    BY <1>1, <2>1
  <2> QED
    BY <2>1, <2>3, <2>4 DEF GoodOver, TableAddressable, FirstOfItsName
<1>3. CASE k = 0
  <2>1. \A j \in 1 .. Len(locations) : locations[j] # name
    BY <1>1, <1>3, LocationIndexFound
  <2>2. new = [t EXCEPT !.location = Len(locations) + 1,
                        !.locationIndices = Append(@, name)]
    BY <1>3 DEF SetTableLocation
  <2> DEFINE longer == Append(locations, name)
  <2>2a. longer \in Seq(L) /\ Len(locations) + 1 \in Nat \ {0}
    BY <1>1
  <2>2b. new = [t EXCEPT !.location = Len(locations) + 1,
                         !.locationIndices = longer]
    BY <1>1, <2>2 DEF TableOver
  <2> HIDE DEF longer, new
  <2>3a. /\ new \in TableOver(C, L) /\ new.location = Len(locations) + 1
         /\ new.elements = t.elements
         /\ new.locationIndices = longer
    BY <1>1, <2>2a, <2>2b DEF TableOver
  <2>3. /\ new \in TableOver(C, L) /\ new.location = Len(locations) + 1
        /\ new.elements = t.elements
        /\ new.locationIndices = Append(locations, name)
    BY <2>3a DEF longer
  <2>4. /\ Len(new.locationIndices) = Len(locations) + 1
        /\ Len(locations) \in Nat
        /\ new.locationIndices # <<>>
        /\ \A j \in 1 .. Len(locations) : new.locationIndices[j] = locations[j]
        /\ new.locationIndices[Len(locations) + 1] = name
    BY <1>1, <2>3
  <2>5. \A i \in DOMAIN t.elements :
          ElementAddressable(t.elements[i], Len(locations) + 1)
    BY <2>4 DEF GoodOver, TableAddressable, ElementAddressable
  <2>6. TableAddressable(new)
    BY <2>3, <2>4, <2>5 DEF TableAddressable
  <2>7. FirstOfItsName(new)
    BY <2>1, <2>3, <2>4 DEF FirstOfItsName
  <2> QED
    BY <2>3, <2>6, <2>7 DEF GoodOver, new
<1> QED
  BY <1>2, <1>3

(* alter makes the column it records in, if there is none yet. *)
LEMMA AlterTableOver ==
  ASSUME NEW C, NEW L, Global \in L, NEW t, GoodOver(C, L, t),
         NEW idx \in DOMAIN t.elements, NEW delta \in Int
  PROVE  GoodOver(C, L, AlterTable(t, idx, delta))
<1> DEFINE locations == IF t.locationIndices = <<>> THEN <<Global>>
                        ELSE t.locationIndices
           n    == Len(locations)
           elem == AlterElement(t.elements[idx], t.location, delta)
           new  == AlterTable(t, idx, delta)
<1>1. /\ t \in TableOver(C, L) /\ t.locationIndices \in Seq(L)
      /\ t.elements \in Seq(ElementOver(C)) /\ t.location \in Nat \ {0}
  BY DEF GoodOver, TableOver
<1>2. locations \in Seq(L) /\ n \in Nat /\ locations # <<>>
  BY <1>1
<1>3. t.location \in 1 .. n
  BY <1>1, <1>2 DEF GoodOver, TableAddressable
<1>4. \A i \in DOMAIN t.elements :
        t.elements[i] \in ElementOver(C) /\ ElementAddressable(t.elements[i], n)
  <2>1. Len(t.locationIndices) <= n
    BY <1>1
  <2>2. Len(t.locationIndices) \in Nat
    BY <1>1
  <2> QED
    BY <1>1, <1>2, <2>1, <2>2 DEF GoodOver, TableAddressable, ElementAddressable
<1>5. elem \in ElementOver(C) /\ ElementAddressable(elem, n)
  BY <1>2, <1>3, <1>4, AlterElementOver
<1>6. new = [t EXCEPT !.locationIndices = locations, !.elements[idx] = elem]
  BY DEF AlterTable
<1> HIDE DEF elem
<1>7. /\ new.elements = [t.elements EXCEPT ![idx] = elem]
      /\ new.locationIndices = locations /\ new.location = t.location
      /\ new.elements \in Seq(ElementOver(C))
  BY <1>1, <1>2, <1>5, <1>6 DEF TableOver
<1>8. new \in TableOver(C, L)
  BY <1>1, <1>2, <1>6, <1>7 DEF TableOver
<1>9. TableAddressable(new)
  BY <1>1, <1>2, <1>3, <1>4, <1>5, <1>7 DEF TableAddressable
<1>10. FirstOfItsName(new)
  BY <1>1, <1>3, <1>7 DEF GoodOver, FirstOfItsName
<1> QED
  BY <1>8, <1>9, <1>10 DEF GoodOver

(* The same of a table of cells. *)
LEMMA AlterElementGood ==
  ASSUME NEW elem \in Element, NEW n \in Nat, ElementAddressable(elem, n),
         NEW location \in 1 .. n, NEW delta \in Int
  PROVE  /\ AlterElement(elem, location, delta) \in Element
         /\ ElementAddressable(AlterElement(elem, location, delta), n)
<1>1. Element = ElementOver(Cell)
  BY DEF Element, ElementOver
<1> QED
  BY <1>1, AlterElementOver

(* The same of a table of cells. *)
LEMMA SetTableLocationGood ==
  ASSUME NEW t, TableGood(t), NEW name \in Location
  PROVE  TableGood(SetTableLocation(t, name))
BY GoodIsOver, SetTableLocationOver

(* The same of a table of cells. *)
LEMMA AlterTableGood ==
  ASSUME NEW t, TableGood(t), NEW idx \in DOMAIN t.elements, NEW delta \in Int
  PROVE  TableGood(AlterTable(t, idx, delta))
BY GoodIsOver, AlterTableOver, GlobalAssumption
-----------------------------------------------------------------------------
(* setLocation leaves the table at a location of that name, and makes a new *)
(* column only for a new name.                                              *)
LEMMA SetTableLocationFinds ==
  ASSUME NEW t, TableGood(t), NEW name \in Location
  PROVE  LET new == SetTableLocation(t, name)
         IN  /\ new.elements = t.elements
             /\ new.locationIndices # <<>>
             /\ new.location \in DOMAIN new.locationIndices
             /\ new.locationIndices[new.location] = name
             /\ new.locationIndices
                  = IF \E j \in DOMAIN t.locationIndices :
                         t.locationIndices[j] = name
                    THEN t.locationIndices
                    ELSE Append(t.locationIndices, name)
<1> DEFINE locations == t.locationIndices
           k   == LocationIndex(locations, name)
           new == SetTableLocation(t, name)
<1>1. t \in Table /\ locations \in Seq(Location) /\ t.elements \in Seq(Element)
  BY DEF TableGood, Table
<1>2. CASE k # 0
  <2>1. k \in DOMAIN locations /\ locations[k] = name
    BY <1>1, <1>2, LocationIndexFound
  <2>2. new = [t EXCEPT !.location = k]
    BY <1>2 DEF SetTableLocation
  <2> HIDE DEF k
  <2>3. /\ new.elements = t.elements /\ new.location = k
        /\ new.locationIndices = locations
    BY <1>1, <2>2 DEF Table
  <2> QED
    BY <1>1, <2>1, <2>3
<1>3. CASE k = 0
  <2>1. \A j \in DOMAIN locations : locations[j] # name
    BY <1>1, <1>3, LocationIndexFound
  <2> DEFINE longer == Append(locations, name)
  <2>2. new = [t EXCEPT !.location = Len(locations) + 1,
                        !.locationIndices = longer]
    BY <1>1, <1>3 DEF SetTableLocation, Table
  <2>3. /\ longer # <<>> /\ Len(locations) + 1 \in DOMAIN longer
        /\ longer[Len(locations) + 1] = name
    BY <1>1
  <2> HIDE DEF longer, k
  <2>4. /\ new.elements = t.elements /\ new.location = Len(locations) + 1
        /\ new.locationIndices = longer
    BY <1>1, <2>2 DEF Table
  <2> QED
    BY <1>1, <2>1, <2>3, <2>4 DEF longer
<1> QED
  BY <1>2, <1>3

(* alter keeps the list of products, where the table stands and, but for    *)
(* the default one, its locations.                                          *)
LEMMA AlterTableKeeps ==
  ASSUME NEW t, TableGood(t), NEW idx \in DOMAIN t.elements, NEW delta \in Int
  PROVE  LET new == AlterTable(t, idx, delta)
         IN  /\ DOMAIN new.elements = DOMAIN t.elements
             /\ \A i \in DOMAIN t.elements :
                  new.elements[i].name = t.elements[i].name
             /\ new.location = t.location
             /\ new.locationIndices = IF t.locationIndices = <<>>
                                      THEN <<Global>> ELSE t.locationIndices
<1> DEFINE locations == IF t.locationIndices = <<>> THEN <<Global>>
                        ELSE t.locationIndices
           elem == AlterElement(t.elements[idx], t.location, delta)
           new  == AlterTable(t, idx, delta)
<1>1. t \in Table /\ t.elements \in Seq(Element)
  BY DEF TableGood, Table
<1>2. elem.name = t.elements[idx].name
  <2>1. t.elements[idx] \in Element
    BY <1>1
  <2> QED
    BY <2>1 DEF AlterElement, Element
<1>3. new = [t EXCEPT !.locationIndices = locations, !.elements[idx] = elem]
  BY DEF AlterTable
<1> HIDE DEF elem, locations
<1>4. /\ new.elements = [t.elements EXCEPT ![idx] = elem]
      /\ new.locationIndices = locations /\ new.location = t.location
  BY <1>1, <1>3 DEF Table
<1> QED
  BY <1>1, <1>2, <1>4 DEF locations

(* A stock list brings no locations. *)
LEMMA ParseBringsNoLocations ==
  ASSUME NEW file, NEW source, ParseFromStream(file, source).result = "none"
  PROVE  ParseFromStream(file, source).table.locationIndices = <<>>
<1>1. ParseFromStream(file, source)
        \in {ReadRows(RowsRead(file, source), <<>>), Refused(Aborted),
             Refused("bad_header"), Refused("bad_BOM")}
  BY DEF ParseFromStream
<1>2. ReadRows(RowsRead(file, source), <<>>).table.locationIndices = <<>>
  BY DEF ReadRows, Loaded, Refused, EmptyTable
<1> QED
  BY <1>1, <1>2 DEF Refused, EmptyTable

(* Counts are numbers. *)
LEMMA GetCountOver ==
  ASSUME NEW C, NEW elem \in ElementOver(C), NEW c
  PROVE  GetCount(elem, c) \in Int
<1>1. elem.counts \in Seq(Count)
  BY DEF ElementOver
<1>2. CountIndex(elem.counts, c) # 0
        => elem.counts[CountIndex(elem.counts, c)] \in Count
  BY <1>1, CountIndexFound
<1> QED
  BY <1>2 DEF GetCount, Count

(* The same of a table of cells. *)
LEMMA GetCountType ==
  ASSUME NEW elem \in Element, NEW c
  PROVE  GetCount(elem, c) \in Int
<1>1. Element = ElementOver(Cell)
  BY DEF Element, ElementOver
<1> QED
  BY <1>1, GetCountOver

(* What is printed of a count is a whole number of steps. *)
LEMMA PrintedType ==
  ASSUME NEW c \in Int
  PROVE  Printed(c) \in Int
<1> DEFINE a == 2 * c + Grain
           b == 2 * Grain
<1>1. a \in Int /\ b \in Nat \ {0} /\ Grain \in Int
  BY GrainAssumption
<1> HIDE DEF a, b
<1>2. a \div b \in Int
  BY <1>1
<1>3. Grain * (a \div b) \in Int
  BY <1>1, <1>2
<1> QED
  BY <1>3 DEF Printed, a, b

(* A save of a good table is a file. *)
LEMMA ExportType ==
  ASSUME NEW t, TableGood(t)
  PROVE  ExportToStream(t, FALSE) \in File
<1> DEFINE n == Len(t.locationIndices)
           rows == [i \in DOMAIN t.elements |-> ExportRow(t.elements[i], n)]
<1>1. t.elements \in Seq(Element) /\ t.locationIndices \in Seq(Location)
  BY DEF TableGood, Table
<1>2. ASSUME NEW i \in DOMAIN t.elements
      PROVE  ExportRow(t.elements[i], n) \in Row
  <2>1. t.elements[i] \in Element
    BY <1>1, <1>2
  <2>2. \A u \in 1 .. n : Printed(GetCount(t.elements[i], u)) \in Int
    BY <2>1, GetCountType, PrintedType
  <2> DEFINE counts == [u \in 1 .. n |-> Printed(GetCount(t.elements[i], u))]
  <2>3. counts \in Seq(Int \cup {NoNumber})
    BY <1>1, <2>2
  <2>4. Wrap(t.elements[i].name) \in Cell /\ Wrap(t.elements[i].size) \in Cell
    BY <2>1 DEF Wrap, Element, Cell
  <2> HIDE DEF counts
  <2>5. ExportRow(t.elements[i], n)
          = [name   |-> Wrap(t.elements[i].name),
             size   |-> Wrap(t.elements[i].size),
             short  |-> FALSE,
             counts |-> counts]
    BY DEF ExportRow, counts
  <2> QED
    BY <2>3, <2>4, <2>5 DEF Row
<1>3. rows \in Seq(Row)
  BY <1>1, <1>2
<1> HIDE DEF rows
<1>4. ExportToStream(t, FALSE)
        = [header |-> "reuse_layout", locations |-> t.locationIndices,
           rows |-> rows, terminated |-> TRUE]
  BY DEF ExportToStream, rows
<1>5. ASSUME NEW header \in Header, NEW locations \in Seq(Location),
             NEW read \in Seq(Row), NEW terminated \in BOOLEAN
      PROVE  [header |-> header, locations |-> locations, rows |-> read,
              terminated |-> terminated] \in File
  BY DEF File
<1>6. "reuse_layout" \in Header /\ TRUE \in BOOLEAN
  BY DEF Header
<1>7. [header |-> "reuse_layout", locations |-> t.locationIndices,
       rows |-> rows, terminated |-> TRUE] \in File
  BY <1>1, <1>3, <1>5, <1>6
<1> QED
  BY <1>4, <1>7
-----------------------------------------------------------------------------
(* A save and a load.  The printed value of a count is the nearest one: the *)
(* grain is odd, so no count is half way between two.                       *)
LEMMA PrintedClose ==
  ASSUME NEW c \in Int
  PROVE  2 * (Printed(c) - c) < Grain /\ -Grain < 2 * (Printed(c) - c)
<1> DEFINE a == 2 * c + Grain
           b == 2 * Grain
           q == a \div b
           p == Grain * q
<1>1. Grain \in Nat /\ Grain # 0 /\ Grain % 2 = 1
  BY GrainAssumption
<1>2. a \in Int /\ b \in Nat \ {0}
  BY <1>1
<1>3. ASSUME NEW x \in Int, NEW y \in Nat \ {0}
      PROVE  /\ x \div y \in Int
             /\ y * (x \div y) <= x /\ x < y * (x \div y) + y
  OBVIOUS
<1>4. q \in Int /\ b * q <= a /\ a < b * q + b
  BY <1>2, <1>3
<1> HIDE DEF q
<1>5. p \in Int /\ b * q = 2 * p
  BY <1>1, <1>4
<1> HIDE DEF p
<1>6. 2 * (p - c) <= Grain /\ -Grain < 2 * (p - c)
  BY <1>1, <1>4, <1>5
<1>7. 2 * (p - c) # Grain
  <2>1. p - c \in Int
    BY <1>5
  <2>2. ASSUME NEW k \in Int PROVE 2 * k # Grain
    BY <1>1
  <2> QED
    BY <2>1, <2>2
<1>8. 2 * (p - c) < Grain /\ -Grain < 2 * (p - c)
  BY <1>1, <1>5, <1>6, <1>7
<1> QED
  BY <1>8 DEF Printed, p, q

(* What a reload makes of a product.                                        *)
Reread(elem, n) == TidyElement(ElementOf(ExportRow(elem, n), n))

(* Every line of a save is taken, and read back as it was, but for what     *)
(* tidy does to its name and what printing does to its counts.              *)
LEMMA RowTaken ==
  ASSUME NEW elem \in Element, NEW n \in Nat
  PROVE  RowResult(ExportRow(elem, n), n) = "none"
<1> DEFINE counts == [u \in 1 .. n |-> Printed(GetCount(elem, u))]
<1>1. \A u \in 1 .. n : counts[u] \in Int
  BY GetCountType, PrintedType
<1>2. counts \in Seq(Int) /\ Len(counts) = n
  BY <1>1
<1> HIDE DEF counts
<1>3. \A u \in 1 .. n : counts[u] # NoNumber
  BY <1>1, NoNumberAssumption
<1>4. ExportRow(elem, n).short = FALSE /\ ExportRow(elem, n).counts = counts
  BY DEF ExportRow, counts
<1> QED
  BY <1>2, <1>3, <1>4 DEF RowResult

(* One count for each column, in their order.                               *)
HasColumns(elem, n, f) ==
  /\ \A u \in 1 .. n : f[u] \in Int
  /\ elem.counts = [u \in 1 .. n |-> [location |-> u, count |-> f[u]]]

(* Such a product's count in a column is the one at its place.              *)
LEMMA ColumnCounts ==
  ASSUME NEW elem, NEW n \in Nat, NEW f, HasColumns(elem, n, f),
         NEW u \in 1 .. n
  PROVE  GetCount(elem, u) = f[u]
<1> DEFINE counts == elem.counts
           k == CountIndex(counts, u)
<1>1. counts \in Seq(Count)
  <2> DEFINE pair(v) == [location |-> v, count |-> f[v]]
  <2>1. \A v \in 1 .. n : pair(v) \in Count
    BY DEF HasColumns, Count
  <2>2. counts = [v \in 1 .. n |-> pair(v)]
    BY DEF HasColumns
  <2> HIDE DEF pair, counts
  <2> QED
    BY <2>1, <2>2
<1>2. /\ DOMAIN counts = 1 .. n
      /\ \A v \in 1 .. n : counts[v].location = v /\ counts[v].count = f[v]
  BY DEF HasColumns
<1> HIDE DEF counts
<1>3. k \in DOMAIN counts /\ counts[k].location = u /\ k # 0
  <2>1. counts[u].location = u /\ u \in DOMAIN counts
    BY <1>2
  <2> QED
    BY <1>1, <1>2, <2>1, CountIndexFound
<1> HIDE DEF k
<1>4. k = u /\ counts[k].count = f[u]
  BY <1>2, <1>3
<1> QED
  BY <1>3, <1>4 DEF GetCount, k, counts

(* What exactly is read of a product that was saved.                         *)
LEMMA RereadIs ==
  ASSUME NEW elem \in Element, NEW n \in Nat
  PROVE  Reread(elem, n)
           = [name   |-> TidyName(elem.name),
              size   |-> elem.size,
              counts |-> [u \in 1 .. n |->
                            [location |-> u, count |-> Printed(GetCount(elem, u))]]]
<1> DEFINE row == ExportRow(elem, n)
           raw == ElementOf(row, n)
           new == Reread(elem, n)
<1>1. elem.name \in Cell /\ elem.size \in Cell
  BY DEF Element
<1>2. /\ raw.size = Unwrap(Wrap(elem.size))
      /\ raw.name = Unwrap(Wrap(elem.name))
      /\ raw.counts = [u \in 1 .. n |-> [location |-> u,
                                         count |-> Printed(GetCount(elem, u))]]
  BY DEF ElementOf, ExportRow, ClearQuotes
<1>3. ASSUME NEW cell \in Cell PROVE Unwrap(Wrap(cell)) = cell
  <2>1. PICK x \in Text, q \in Nat : cell = [text |-> x, quotes |-> q]
    BY DEF Cell
  <2>2. Wrap(cell) = [text |-> x, quotes |-> q + 1]
    BY <2>1 DEF Wrap
  <2> DEFINE wrapped == Wrap(cell)
  <2>3. Unwrap(wrapped) = [text |-> x, quotes |-> (q + 1) - 1]
    <3>1. wrapped = [text |-> x, quotes |-> q + 1] /\ q + 1 # 0
      BY <2>2, q \in Nat
    <3> HIDE DEF wrapped
    <3> QED
      BY <3>1 DEF Unwrap
  <2> QED
    BY <2>1, <2>3
<1>4. raw.size = elem.size /\ raw.name = elem.name
  BY <1>1, <1>2, <1>3
<1>5. new = [name |-> TidyName(raw.name), size |-> raw.size, counts |-> raw.counts]
  <2>1. raw = [name |-> raw.name, size |-> raw.size, counts |-> raw.counts]
    BY DEF ElementOf
  <2> HIDE DEF raw
  <2>2. TidyElement(raw)
          = [name |-> TidyName(raw.name), size |-> raw.size, counts |-> raw.counts]
    BY <2>1 DEF TidyElement
  <2> QED
    BY <2>2 DEF Reread, raw
<1> HIDE DEF new
<1> QED
  BY <1>2, <1>4, <1>5 DEF new

(* What a product read back has of the one that was saved.                  *)
LEMMA RereadKeeps ==
  ASSUME NEW elem \in Element, NEW n \in Nat
  PROVE  LET new == Reread(elem, n)
         IN  /\ new.size = elem.size
             /\ new.name.text = Upper[elem.name.text]
             /\ elem.name.quotes - new.name.quotes \in {0, 1}
             /\ \A u \in 1 .. n : GetCount(new, u) = Printed(GetCount(elem, u))
<1> DEFINE new == Reread(elem, n)
           f == [u \in 1 .. n |-> Printed(GetCount(elem, u))]
           counts == [u \in 1 .. n |-> [location |-> u, count |-> f[u]]]
<1>1. elem.name \in Cell /\ elem.size \in Cell
  BY DEF Element
<1>2. \A u \in 1 .. n : f[u] = Printed(GetCount(elem, u)) /\ f[u] \in Int
  BY GetCountType, PrintedType
<1>3. new = [name |-> TidyName(elem.name), size |-> elem.size, counts |-> counts]
  BY RereadIs
<1> HIDE DEF new, f
<1>4. HasColumns(new, n, f)
  BY <1>2, <1>3 DEF HasColumns
<1> HIDE DEF counts
<1>5. /\ new.size = elem.size
      /\ new.name = [text   |-> Upper[elem.name.text],
                     quotes |-> Unwrap(elem.name).quotes]
  BY <1>3 DEF TidyName
<1>6. elem.name.quotes - Unwrap(elem.name).quotes \in {0, 1}
  BY <1>1 DEF Cell, Unwrap
<1>7. \A u \in 1 .. n : GetCount(new, u) = Printed(GetCount(elem, u))
  BY <1>2, <1>4, ColumnCounts
<1> QED
  BY <1>5, <1>6, <1>7 DEF new

(* Rows of a save, all of them or the first m, are read without an error.   *)
LEMMA ReadSaved ==
  ASSUME NEW t, TableGood(t), NEW m \in 0 .. Len(t.elements),
         NEW rows \in Seq(Row), Len(rows) = m,
         \A i \in 1 .. m :
           rows[i] = ExportRow(t.elements[i], Len(t.locationIndices))
  PROVE  LET read == ReadRows(rows, t.locationIndices)
         IN  /\ read.result = "none"
             /\ read.table.locationIndices = t.locationIndices
             /\ read.table.elements
                  = [i \in 1 .. m |->
                       Reread(t.elements[i], Len(t.locationIndices))]
<1> DEFINE n == Len(t.locationIndices)
           bad == FailingRow(rows, n)
<1>1. /\ t.elements \in Seq(Element) /\ n \in Nat /\ m \in Nat
      /\ DOMAIN rows = 1 .. m
      /\ \A i \in 1 .. m : t.elements[i] \in Element
  BY DEF TableGood, Table
<1>2. \A i \in 1 .. m : RowResult(rows[i], n) = "none"
  BY <1>1, RowTaken
<1>3. bad = 0
  BY <1>1, <1>2, FailingRowFound
<1>4. ReadRows(rows, t.locationIndices)
        = Loaded("none", Tidy(Elements(rows, n)), t.locationIndices)
  BY <1>3 DEF ReadRows
<1>5. Tidy(Elements(rows, n)) = [i \in 1 .. m |-> Reread(t.elements[i], n)]
  <2> DEFINE raw == Elements(rows, n)
  <2>1. raw = [i \in 1 .. m |-> ElementOf(ExportRow(t.elements[i], n), n)]
    BY <1>1 DEF Elements
  <2> HIDE DEF raw
  <2>2. Tidy(raw) = [i \in 1 .. m |-> TidyElement(raw[i])]
    BY <2>1 DEF Tidy
  <2>3. \A i \in 1 .. m : TidyElement(raw[i]) = Reread(t.elements[i], n)
    BY <2>1 DEF Reread
  <2>4. Tidy(raw) = [i \in 1 .. m |-> Reread(t.elements[i], n)]
    BY <2>2, <2>3
  <2> QED
    BY <2>4 DEF raw
<1> QED
  BY <1>4, <1>5 DEF Loaded

(* A save of products of cells is read back product by product.             *)
LEMMA SavedReread ==
  ASSUME NEW t, t.elements \in Seq(Element), Len(t.locationIndices) \in Nat
  PROVE  ReuseFromStream(ExportToStream(t, FALSE), "FILE")
           = Loaded("none",
                    [i \in DOMAIN t.elements |->
                       Reread(t.elements[i], Len(t.locationIndices))],
                    t.locationIndices)
<1> DEFINE n == Len(t.locationIndices)
           saved == ExportToStream(t, FALSE)
           rows == [i \in DOMAIN t.elements |-> ExportRow(t.elements[i], n)]
           S == {ExportRow(elem, n) : elem \in Element}
           raw == Elements(rows, n)
<1>1. saved = [header |-> "reuse_layout", locations |-> t.locationIndices,
               rows |-> rows, terminated |-> TRUE]
  BY DEF ExportToStream
<1>2. DOMAIN t.elements = 1 .. Len(t.elements) /\ Len(t.elements) \in Nat
      /\ \A i \in DOMAIN t.elements : t.elements[i] \in Element
  OBVIOUS
<1>3. rows \in Seq(S) /\ DOMAIN rows = DOMAIN t.elements
      /\ \A i \in DOMAIN rows : rows[i] = ExportRow(t.elements[i], n)
  BY <1>2
<1>4. n \in Nat /\ \A i \in DOMAIN rows : RowResult(rows[i], n) = "none"
  BY <1>2, <1>3, RowTaken
<1> HIDE DEF rows, S, n, saved
<1>5. FailingRow(rows, n) = 0
  BY <1>3, <1>4, FailingRowFound
<1>6. /\ saved.header = "reuse_layout" /\ saved.terminated = TRUE
      /\ saved.locations = t.locationIndices /\ saved.rows = rows
  BY <1>1
<1>7. RowsRead(saved, "FILE") = rows
  BY <1>6 DEF RowsRead
<1>8. ReuseFromStream(saved, "FILE") = ReadRows(rows, t.locationIndices)
  BY <1>6, <1>7 DEF ReuseFromStream
<1>9. ReadRows(rows, t.locationIndices)
        = Loaded("none", Tidy(raw), t.locationIndices)
  BY <1>5 DEF ReadRows, n
<1>10. Tidy(raw) = [i \in DOMAIN t.elements |-> Reread(t.elements[i], n)]
  <2>1. raw = [i \in DOMAIN t.elements |-> ElementOf(ExportRow(t.elements[i], n), n)]
    BY <1>3 DEF Elements
  <2> HIDE DEF raw
  <2>2. Tidy(raw) = [i \in DOMAIN t.elements |-> TidyElement(raw[i])]
    BY <2>1 DEF Tidy
  <2>3. \A i \in DOMAIN t.elements : TidyElement(raw[i]) = Reread(t.elements[i], n)
    BY <2>1 DEF Reread
  <2> QED
    BY <2>2, <2>3
<1> QED
  BY <1>8, <1>9, <1>10 DEF saved, n

(* The rows of a save.                                                      *)
LEMMA SavedRows ==
  ASSUME NEW t, TableGood(t)
  PROVE  LET saved == ExportToStream(t, FALSE)
         IN  /\ saved.header = "reuse_layout" /\ saved.terminated = TRUE
             /\ saved.locations = t.locationIndices
             /\ saved.rows \in Seq(Row) /\ Len(saved.rows) = Len(t.elements)
             /\ \A i \in 1 .. Len(t.elements) :
                  saved.rows[i] = ExportRow(t.elements[i], Len(t.locationIndices))
<1> DEFINE saved == ExportToStream(t, FALSE)
           n == Len(t.locationIndices)
<1>1. t.elements \in Seq(Element)
  BY DEF TableGood, Table
<1>2. saved \in File
  BY ExportType
<1> DEFINE rows == [i \in DOMAIN t.elements |-> ExportRow(t.elements[i], n)]
<1>3. saved = [header |-> "reuse_layout", locations |-> t.locationIndices,
               rows |-> rows, terminated |-> TRUE]
  BY DEF ExportToStream
<1>4. /\ DOMAIN rows = 1 .. Len(t.elements)
      /\ \A i \in 1 .. Len(t.elements) : rows[i] = ExportRow(t.elements[i], n)
  BY <1>1
<1> HIDE DEF rows, n
<1> HIDE DEF saved
<1>5. /\ saved.header = "reuse_layout" /\ saved.terminated = TRUE
      /\ saved.locations = t.locationIndices /\ saved.rows = rows
  BY <1>3
<1>6. saved.rows \in Seq(Row)
  BY <1>2 DEF File
<1>7. Len(t.elements) \in Nat
  BY <1>1
<1>8. Len(rows) = Len(t.elements)
  BY <1>4, <1>5, <1>6, <1>7
<1> QED
  BY <1>4, <1>5, <1>6, <1>8 DEF saved, n
-----------------------------------------------------------------------------
(* The products of a minimal save.  The loop's function is a CHOOSE; it     *)
(* exists because each of its values follows from the one before.           *)
KeepStep(elements, g, i) ==
  IF i = 0 THEN <<>>
  ELSE IF IsEmpty(elements[i]) THEN g[i - 1]
       ELSE Append(g[i - 1], elements[i])

Kept(elements) ==
  CHOOSE g : g = [i \in 0 .. Len(elements) |-> KeepStep(elements, g, i)]

(* The end of the loop. *)
LEMMA CountedIsKept ==
  ASSUME NEW elements
  PROVE  Counted(elements) = Kept(elements)[Len(elements)]
BY DEF Counted, Kept, KeepStep

(* After every turn of the loop there is the list of what was kept so far.  *)
LEMMA KeptExists ==
  ASSUME NEW elements \in Seq(Element)
  PROVE  \A i \in 0 .. Len(elements) :
           Kept(elements)[i] = KeepStep(elements, Kept(elements), i)
<1> DEFINE Keeps(g, n) == g = [i \in 0 .. n |-> KeepStep(elements, g, i)]
           Bad == {n \in Nat : ~ \E g : Keeps(g, n)}
<1>1. ASSUME Bad # {} PROVE FALSE
  <2> DEFINE m == Min(Bad)
  <2>1. m \in Bad /\ \A n \in Bad : m <= n
    BY <1>1, MinFound
  <2>2. m \in Nat /\ ~ \E g : Keeps(g, m)
    BY <2>1
  <2> HIDE DEF m
  <2>3. ASSUME m # 0 PROVE \E g : Keeps(g, m - 1)
    <3>1. m - 1 \in Nat /\ ~ (m <= m - 1)
      BY <2>2, <2>3
    <3>2. m - 1 \notin Bad
      BY <2>1, <3>1
    <3> QED
      BY <3>1, <3>2
  <2>4. CASE m = 0
    <3> DEFINE g == [i \in 0 .. 0 |-> <<>>]
    <3>1. \A i \in 0 .. 0 : KeepStep(elements, g, i) = <<>>
      BY DEF KeepStep
    <3>2. g = [i \in 0 .. 0 |-> KeepStep(elements, g, i)]
      BY <3>1
    <3> QED
      BY <2>2, <2>4, <3>2
  <2>5. CASE m # 0
    <3>1. PICK h : Keeps(h, m - 1)
      BY <2>3, <2>5
    <3> DEFINE g == [i \in 0 .. m |-> KeepStep(elements, h, i)]
    <3>2. \A i \in 0 .. m - 1 : i \in 0 .. m /\ h[i] = KeepStep(elements, h, i)
      BY <2>2, <2>5, <3>1
    <3>3. \A i \in 0 .. m - 1 : g[i] = h[i]
      BY <3>2
    <3>4. ASSUME NEW i \in 0 .. m
          PROVE  KeepStep(elements, h, i) = KeepStep(elements, g, i)
      <4>1. CASE i = 0
        BY <4>1 DEF KeepStep
      <4>2. CASE i # 0
        <5>1. i - 1 \in 0 .. m - 1
          BY <2>2, <4>2
        <5>2. g[i - 1] = h[i - 1]
          BY <3>3, <5>1
        <5> HIDE DEF g
        <5> QED
          BY <5>2 DEF KeepStep
      <4> QED
        BY <4>1, <4>2
    <3>5. g = [i \in 0 .. m |-> KeepStep(elements, g, i)]
      BY <3>4
    <3> QED
      BY <2>2, <3>5
  <2> QED
    BY <2>4, <2>5
<1>2. Len(elements) \in Nat
  OBVIOUS
<1>3. PICK g : Keeps(g, Len(elements))
  BY <1>1, <1>2
<1> DEFINE k == Kept(elements)
<1>4. k = [i \in 0 .. Len(elements) |-> KeepStep(elements, k, i)]
  BY <1>3 DEF Kept
<1> HIDE DEF k
<1>5. \A i \in 0 .. Len(elements) : k[i] = KeepStep(elements, k, i)
  BY <1>4
<1> QED
  BY <1>5 DEF k

(* What the loop has kept are products of the table, and every one it has   *)
(* passed whose counts do not sum up to 0.                                  *)
LEMMA CountedKeeps ==
  ASSUME NEW elements \in Seq(Element)
  PROVE  /\ Counted(elements) \in Seq(Element)
         /\ \A j \in DOMAIN elements :
              ~ IsEmpty(elements[j])
                => \E p \in DOMAIN Counted(elements) :
                     Counted(elements)[p] = elements[j]
<1> DEFINE k == Kept(elements)
           n == Len(elements)
           Holds(i) == /\ k[i] \in Seq(Element)
                       /\ \A j \in 1 .. i :
                            ~ IsEmpty(elements[j])
                              => \E p \in DOMAIN k[i] : k[i][p] = elements[j]
           Bad == {i \in 0 .. n : ~ Holds(i)}
<1>1. n \in Nat /\ DOMAIN elements = 1 .. n
  OBVIOUS
<1>2. \A i \in 0 .. n : k[i] = KeepStep(elements, k, i)
  BY KeptExists
<1> HIDE DEF k, n
<1>3. Holds(0)
  <2>1. k[0] = <<>>
    BY <1>1, <1>2 DEF KeepStep
  <2> QED
    BY <2>1
<1>4. ASSUME NEW i \in 1 .. n, Holds(i - 1) PROVE Holds(i)
  <2>1. /\ i - 1 \in Nat /\ elements[i] \in Element
        /\ 1 .. i = 1 .. (i - 1) \cup {i}
    BY <1>1
  <2>2. k[i] = IF IsEmpty(elements[i]) THEN k[i - 1]
               ELSE Append(k[i - 1], elements[i])
    BY <1>1, <1>2 DEF KeepStep
  <2>3. CASE IsEmpty(elements[i])
    BY <1>4, <2>1, <2>2, <2>3
  <2>4. CASE ~ IsEmpty(elements[i])
    <3> DEFINE s == k[i - 1]
               e == elements[i]
    <3>1. s \in Seq(Element) /\ e \in Element /\ k[i] = Append(s, e)
      BY <1>4, <2>1, <2>2, <2>4
    <3> HIDE DEF s, e
    <3>2. /\ k[i] \in Seq(Element)
          /\ \A p \in DOMAIN s : p \in DOMAIN k[i] /\ k[i][p] = s[p]
          /\ Len(s) + 1 \in DOMAIN k[i] /\ k[i][Len(s) + 1] = e
      BY <3>1
    <3>3. ASSUME NEW j \in 1 .. i, ~ IsEmpty(elements[j])
          PROVE  \E p \in DOMAIN k[i] : k[i][p] = elements[j]
      <4>1. CASE j = i
        BY <3>2, <4>1 DEF e
      <4>2. CASE j # i
        <5>1. PICK p \in DOMAIN s : s[p] = elements[j]
          BY <1>4, <2>1, <3>3, <4>2 DEF s
        <5> QED
          BY <3>2, <5>1
      <4> QED
        BY <4>1, <4>2
    <3> QED
      BY <3>2, <3>3
  <2> QED
    BY <2>3, <2>4
<1>5. ASSUME Bad # {} PROVE FALSE
  <2> DEFINE m == Min(Bad)
  <2>1. m \in Bad /\ \A i \in Bad : m <= i
    <3>1. Bad \in SUBSET Nat
      BY <1>1
    <3> QED
      BY <1>5, <3>1, MinFound
  <2> HIDE DEF m
  <2>2. m \in 0 .. n /\ ~ Holds(m) /\ m # 0
    BY <1>3, <2>1
  <2>3. m \in 1 .. n /\ m - 1 \in 0 .. n /\ ~ (m <= m - 1)
    BY <1>1, <2>2
  <2>4. Holds(m - 1)
    BY <2>1, <2>3
  <2> QED
    BY <1>4, <2>2, <2>3, <2>4
<1>6. Holds(n)
  BY <1>1, <1>5
<1>7. k[n] = Counted(elements)
  BY CountedIsKept DEF k, n
<1> QED
  BY <1>1, <1>6, <1>7
=============================================================================
