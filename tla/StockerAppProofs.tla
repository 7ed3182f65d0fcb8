-------------------------- MODULE StockerAppProofs --------------------------
(* What holds of the session for every set of files, names and deltas and   *)
(* for every length of the history: the indices, the lookups and the        *)
(* spinner agree with the table.  The spinner's layout may come late, so    *)
(* the invariant says what it will find when it comes.                      *)
EXTENDS StockerApp, StockFileProofs, SequenceTheorems

(* The globals, and a file that a parser can be given. *)
Globals ==
  /\ TableGood(table)
  /\ lookups \in Seq(Cell)
  /\ history \in Seq(Nat \ {0})
  /\ enabled \in BOOLEAN /\ unsaved \in BOOLEAN
  /\ disk \in File \cup {NoFile}

(* The spinner always has an entry, and shows one once it is laid out.      *)
Entered ==
  /\ spinner \in [items : Seq(Location), next : Nat, old : Nat,
                  pending : BOOLEAN]
  /\ spinner.items # <<>>
  /\ ~spinner.pending => spinner.old \in DOMAIN spinner.items

(* Which activity may be on its way while which is shown: a product is     *)
(* asked for from the results while they are on top, and what is asked for  *)
(* from the main activity is asked for while that one is.                   *)
Screens ==
  /\ screen \in Activity \cup {Undefined} /\ asked \in Activity
  /\ screen.at = "main" => screen = Main
  /\ asked.at = "main" => asked = Main
  /\ asked.from = "results" => screen = Results
  /\ screen.at = "alter" => asked = Main

(* When the layout will notify nothing, the table is at the entry shown.    *)
Follows ==
  enabled /\ table.locationIndices # <<>>
    /\ (spinner.pending => Position = spinner.old)
  => spinner.items[spinner.old] = table.locationIndices[table.location]

SpinnerInv == Entered /\ SpinnerMirrorsTable /\ Follows

IInv ==
  Globals /\ Screens /\ IndicesInTable /\ LookupsCurrent /\ SpinnerInv
-----------------------------------------------------------------------------
(* A row that is cut is a row. *)
LEMMA CutRowsType ==
  ASSUME NEW row \in Row, NEW cut \in CutRows(row)
  PROVE  cut \in Row
<1>1. /\ row.counts \in Seq(Int \cup {NoNumber})
      /\ row.name \in Cell /\ row.size \in Cell /\ row.short \in BOOLEAN
  BY DEF Row
<1>2. ASSUME NEW n \in 0 .. Len(row.counts),
             cut = [row EXCEPT !.counts = SubSeq(@, 1, n)]
      PROVE  cut \in Row
  <2> DEFINE counts == SubSeq(row.counts, 1, n)
  <2>1. counts \in Seq(Int \cup {NoNumber})
    BY <1>1, SubSeqProperties
  <2>2. cut = [row EXCEPT !.counts = counts]
    BY <1>2 DEF Row
  <2> HIDE DEF counts
  <2> QED
    BY <2>1, <2>2 DEF Row
<1>3. ASSUME NEW n \in DOMAIN row.counts, NEW v \in {0, NoNumber},
             cut = [row EXCEPT !.counts[n] = v]
      PROVE  cut \in Row
  <2> DEFINE counts == [row.counts EXCEPT ![n] = v]
  <2>1. counts \in Seq(Int \cup {NoNumber})
    BY <1>1
  <2>2. cut = [row EXCEPT !.counts = counts]
    BY <1>3 DEF Row
  <2> HIDE DEF counts
  <2> QED
    BY <2>1, <2>2 DEF Row
<1>4. ASSUME cut = [row EXCEPT !.short = TRUE, !.counts = <<>>]
      PROVE  cut \in Row
  <2>1. <<>> \in Seq(Int \cup {NoNumber})
    OBVIOUS
  <2> QED
    BY <1>4, <2>1 DEF Row
<1>5. ASSUME NEW n \in DOMAIN row.counts \cap {Len(row.counts)},
             NEW v \in {0, NoNumber}, cut = [row EXCEPT !.counts[n] = v]
      PROVE  cut \in Row
  BY <1>3, <1>5
<1> DEFINE shorter  == {[row EXCEPT !.counts = SubSeq(@, 1, n)] :
                         n \in 0 .. Len(row.counts)}
           replaced == {[row EXCEPT !.counts[n] = v] :
                         n \in DOMAIN row.counts \cap {Len(row.counts)},
                         v \in {0, NoNumber}}
           stopped  == [row EXCEPT !.short = TRUE, !.counts = <<>>]
<1>6. cut \in shorter \/ cut \in replaced \/ cut = stopped
  <2> HIDE DEF shorter, replaced, stopped
  <2>1. CutRows(row) = shorter \cup replaced \cup {stopped}
    BY DEF CutRows, shorter, replaced, stopped
  <2> QED
    BY <2>1
<1>7. CASE cut \in shorter
  BY <1>2, <1>7
<1>8. CASE cut \in replaced
  BY <1>5, <1>8
<1> QED
  BY <1>4, <1>6, <1>7, <1>8

(* What is left of a file is a file: the parsers may meet it. *)
LEMMA TornType ==
  ASSUME NEW file \in File, NEW torn \in Torn(file)
  PROVE  torn \in File
<1>1. /\ file.header \in Header /\ file.locations \in Seq(Location)
      /\ file.rows \in Seq(Row) /\ file.terminated \in BOOLEAN
      /\ <<>> \in Seq(Location) /\ <<>> \in Seq(Row)
  BY DEF File
<1>2. ASSUME NEW header \in {"other", "reuse_prefix"},
             torn = [file EXCEPT !.header = header, !.locations = <<>>,
                                 !.rows = <<>>, !.terminated = FALSE]
      PROVE  torn \in File
  BY <1>1, <1>2 DEF File, Header
<1>3. ASSUME NEW locations \in Seq(Location),
             torn = [file EXCEPT !.locations = locations, !.rows = <<>>,
                                 !.terminated = FALSE]
      PROVE  torn \in File
  BY <1>1, <1>3 DEF File
<1>4. ASSUME NEW n \in 0 .. Len(file.locations)
      PROVE  SubSeq(file.locations, 1, n) \in Seq(Location)
  BY <1>1, SubSeqProperties
<1>5. ASSUME NEW n \in DOMAIN file.locations
      PROVE  Append(SubSeq(file.locations, 1, n - 1), CutName) \in Seq(Location)
  <2>1. n - 1 \in 0 .. Len(file.locations)
    BY <1>1
  <2>2. SubSeq(file.locations, 1, n - 1) \in Seq(Location)
    BY <1>4, <2>1
  <2> QED
    BY <2>2, AppAssumption
<1>6. ASSUME torn \in CutHeaders(file) PROVE torn \in File
  <2> DEFINE begun == {SubSeq(file.locations, 1, n) :
                         n \in 0 .. Len(file.locations)}
             cut   == {Append(SubSeq(file.locations, 1, n - 1), CutName) :
                         n \in DOMAIN file.locations}
  <2>1. begun \cup cut \subseteq Seq(Location)
    BY <1>4, <1>5
  <2>2. CASE \E header \in {"other", "reuse_prefix"} :
               torn = [file EXCEPT !.header = header, !.locations = <<>>,
                                   !.rows = <<>>, !.terminated = FALSE]
    BY <1>2, <2>2
  <2>3. CASE \E locations \in begun \cup cut :
               torn = [file EXCEPT !.locations = locations, !.rows = <<>>,
                                   !.terminated = FALSE]
    BY <1>3, <2>1, <2>3
  <2> QED
    BY <1>6, <2>2, <2>3, Zenon DEF CutHeaders
<1>7. ASSUME NEW n \in 0 .. Len(file.rows),
             torn = [file EXCEPT !.rows = SubSeq(@, 1, n)]
      PROVE  torn \in File
  <2> DEFINE rows == SubSeq(file.rows, 1, n)
  <2>1. rows \in Seq(Row)
    BY <1>1, SubSeqProperties
  <2>2. torn = [file EXCEPT !.rows = rows]
    BY <1>7 DEF File
  <2> HIDE DEF rows
  <2> QED
    BY <2>1, <2>2 DEF File
<1>8. ASSUME NEW n \in DOMAIN file.rows, NEW cut \in CutRows(file.rows[n]),
             torn = [file EXCEPT !.rows = Append(SubSeq(@, 1, n - 1), cut),
                                 !.terminated = FALSE]
      PROVE  torn \in File
  <2> DEFINE whole == SubSeq(file.rows, 1, n - 1)
             rows  == Append(whole, cut)
  <2>1. file.rows[n] \in Row /\ n \in 1 .. Len(file.rows)
    BY <1>1
  <2>2. cut \in Row
    BY <2>1, CutRowsType
  <2>3. whole \in Seq(Row)
    BY <1>1, <2>1, SubSeqProperties
  <2>4. rows \in Seq(Row)
    BY <2>2, <2>3
  <2>5. torn = [file EXCEPT !.rows = rows, !.terminated = FALSE]
    BY <1>8 DEF File
  <2> HIDE DEF rows
  <2> QED
    BY <2>4, <2>5 DEF File
<1> QED
  BY <1>6, <1>7, <1>8 DEF Torn

(* What quick save writes, or leaves of it. *)
LEMMA SavedType ==
  ASSUME TableGood(table)
  PROVE  Saved \in File /\ Torn(Saved) \subseteq File
BY ExportType, TornType DEF Saved
-----------------------------------------------------------------------------
(* Nothing is a list of whatever the globals hold. *)
LEMMA EmptyLists == <<>> \in Seq(Cell) /\ <<>> \in Seq(Nat \ {0})
OBVIOUS

(* Initially there is nothing to be out of step with. *)
LEMMA InitInvariant == Init => IInv
<1> SUFFICES ASSUME Init PROVE IInv
  OBVIOUS
<1>1. Globals
  BY EmptyTableGood, EmptyLists DEF Init, Globals
<1>2. Screens
  BY DEF Init, Screens, Activity, Main
<1>3. IndicesInTable
  BY DEF Init, IndicesInTable, Main
<1>4. Entered
  BY GlobalAssumption DEF Init, Entered, NewSpinner
<1>5. LookupsCurrent /\ SpinnerMirrorsTable /\ Follows
  BY DEF Init, LookupsCurrent, SpinnerMirrorsTable, Follows
<1> QED
  BY <1>1, <1>2, <1>3, <1>4, <1>5 DEF IInv, SpinnerInv

(* A new process starts like the first, over whatever file there is. *)
LEMMA NewProcessKeeps ==
  ASSUME NewProcess, disk' \in File \cup {NoFile}
  PROVE  IInv'
<1>1. Globals'
  <2>1. TableGood(table')
    BY EmptyTableGood DEF NewProcess
  <2> QED
    BY <2>1, EmptyLists DEF NewProcess, Globals
<1>2. screen' \in {Main, Results, Undefined} /\ asked' = Main
  BY DEF NewProcess, Restored
<1>3. Screens' /\ IndicesInTable'
  <2>1. history' = <<>>
    BY DEF NewProcess
  <2> QED
    BY <1>2, <2>1 DEF Screens, IndicesInTable, Activity, Main, Results,
                      Undefined
<1>4. Entered'
  BY GlobalAssumption DEF NewProcess, Entered, NewSpinner
<1>5. LookupsCurrent' /\ SpinnerMirrorsTable' /\ Follows'
  BY DEF NewProcess, LookupsCurrent, SpinnerMirrorsTable, Follows
<1> QED
  BY <1>1, <1>2, <1>3, <1>4, <1>5 DEF IInv, SpinnerInv

(* A history that is left empty, and what is on its way from the main       *)
(* activity, are as good in any table.                                      *)
LEMMA EmptiedHistoryKeeps ==
  ASSUME IInv, OnMain, UNCHANGED activities, history' = <<>>
  PROVE  Screens' /\ IndicesInTable'
<1>1. screen = Main /\ UNCHANGED <<screen, asked>> /\ Screens
  BY DEF OnMain, activities, IInv
<1>2. asked.at = "alter" => asked.from = "main"
  BY <1>1 DEF Screens, Activity, Main, Results
<1> QED
  BY <1>1, <1>2 DEF Screens, IndicesInTable, Main

(* While search is disabled little is asked of the spinner. *)
LEMMA DisabledKeeps ==
  ASSUME Globals', Screens', IndicesInTable', ~enabled', Entered'
  PROVE  IInv'
<1>1. LookupsCurrent' /\ SpinnerMirrorsTable' /\ Follows'
  BY DEF LookupsCurrent, SpinnerMirrorsTable, Follows
<1> QED
  BY <1>1 DEF IInv, SpinnerInv

(* A load that fails. *)
LEMMA LoadFailsKeeps ==
  ASSUME IInv, OnMain, NEW parsed, TableGood(parsed.table), LoadFails(parsed),
         UNCHANGED disk
  PROVE  IInv'
<1>1. CASE parsed.result = Aborted
  <2>1. NewProcess
    BY <1>1 DEF LoadFails
  <2>2. disk' \in File \cup {NoFile}
    BY DEF IInv, Globals
  <2> QED
    BY <2>1, <2>2, NewProcessKeeps
<1>2. CASE parsed.result # Aborted
  <2>1. /\ table' = parsed.table /\ history' = <<>> /\ enabled' = FALSE
        /\ unsaved' = FALSE /\ UNCHANGED <<lookups, spinner, activities>>
    BY <1>2 DEF LoadFails, HistoryAfter
  <2>2. Globals'
    <3>1. TableGood(table')
      BY <2>1
    <3> QED
      BY <2>1, <3>1, EmptyLists DEF IInv, Globals
  <2>3. Entered'
    BY <2>1 DEF IInv, SpinnerInv, Entered
  <2> QED
    BY <2>1, <2>2, <2>3, EmptiedHistoryKeeps, DisabledKeeps
<1> QED
  BY <1>1, <1>2

(* The names a lookup table is built from. *)
LEMMA NamesType ==
  ASSUME NEW t, TableGood(t)
  PROVE  Names(t) \in Seq(Cell)
<1>1. t.elements \in Seq(Element)
  BY DEF TableGood, Table
<1>2. ASSUME NEW i \in DOMAIN t.elements PROVE t.elements[i].name \in Cell
  <2>1. t.elements[i] \in Element
    BY <1>1
  <2> QED
    BY <2>1 DEF Element
<1>3. DOMAIN t.elements = 1 .. Len(t.elements) /\ Len(t.elements) \in Nat
  BY <1>1
<1>4. Names(t) \in [1 .. Len(t.elements) -> Cell]
  BY <1>2, <1>3 DEF Names
<1> QED
  BY <1>3, <1>4, FunctionIsSeq

(* What the layout will make of an adapter and a selection. *)
LEMMA Showing ==
  ASSUME Entered, NEW items \in Seq(Location), items # <<>>, NEW next \in Nat,
         Show(items, next)
  PROVE  /\ Entered'
         /\ spinner'.items = items /\ spinner'.pending = TRUE
         /\ spinner'.old = spinner.old
         /\ Position' = IF next = 0 THEN 1
                        ELSE IF next > Len(items) THEN Len(items) ELSE next
         /\ Position' \in DOMAIN items
<1>1. /\ spinner'.items = items /\ spinner'.pending = TRUE
      /\ spinner'.old = spinner.old /\ spinner'.next = next
      /\ spinner' \in [items : Seq(Location), next : Nat, old : Nat,
                       pending : BOOLEAN]
  BY DEF Show, Entered
<1>2. Entered'
  BY <1>1 DEF Entered
<1>3. Position' = IF next = 0 THEN 1
                  ELSE IF next > Len(items) THEN Len(items) ELSE next
  BY <1>1 DEF Position
<1>4. Len(items) \in Nat /\ Len(items) >= 1 /\ DOMAIN items = 1 .. Len(items)
  OBVIOUS
<1> QED
  BY <1>1, <1>2, <1>3, <1>4

(* The position a layout would choose is an entry. *)
LEMMA PositionInRange ==
  ASSUME Entered
  PROVE  Position \in DOMAIN spinner.items
<1>1. /\ spinner.items \in Seq(Location) /\ spinner.next \in Nat
      /\ spinner.items # <<>>
  BY DEF Entered
<1>2. Len(spinner.items) \in Nat /\ Len(spinner.items) >= 1
      /\ DOMAIN spinner.items = 1 .. Len(spinner.items)
  BY <1>1
<1> QED
  BY <1>1, <1>2 DEF Position
-----------------------------------------------------------------------------
(* A stock list, read or refused: the table loses its locations, and the    *)
(* spinner with them.                                                       *)
LEMMA ImportKeeps ==
  ASSUME IInv, NEW file \in Files, Import(file)
  PROVE  IInv'
<1> DEFINE parsed == ParseFromStream(file, "FILE")
<1>1. TableGood(parsed.table)
  BY AppAssumption, ParseGood
<1>2. parsed.result = "none" => parsed.table.locationIndices = <<>>
  BY ParseBringsNoLocations
<1>3. OnMain /\ UNCHANGED disk
  BY DEF Import, Picked
<1>4. CASE LoadFails(parsed)
  BY <1>1, <1>3, <1>4, LoadFailsKeeps
<1>5. CASE /\ parsed.result = "none"
           /\ table' = parsed.table /\ lookups' = Names(parsed.table)
           /\ history' = <<>> /\ enabled' = TRUE /\ unsaved' = FALSE
           /\ Show(<<Global>>, spinner.next) /\ UNCHANGED activities
  <2> HIDE DEF parsed
  <2>1. TableGood(table') /\ table'.locationIndices = <<>>
        /\ lookups' = Names(table')
    BY <1>1, <1>2, <1>5
  <2>2. Globals'
    BY <1>3, <1>5, <2>1, NamesType, EmptyLists DEF IInv, Globals
  <2>3. Screens' /\ IndicesInTable'
    BY <1>3, <1>5, EmptiedHistoryKeeps
  <2>4. Entered' /\ spinner'.items = <<Global>>
    <3>1. <<Global>> \in Seq(Location) /\ <<Global>> # <<>>
      BY GlobalAssumption
    <3>2. Entered /\ spinner.next \in Nat /\ Show(<<Global>>, spinner.next)
      BY <1>5 DEF IInv, SpinnerInv, Entered
    <3> QED
      BY <3>1, <3>2, Showing
  <2>5. LookupsCurrent' /\ SpinnerMirrorsTable' /\ Follows'
    BY <2>1, <2>4 DEF LookupsCurrent, SpinnerMirrorsTable, Follows
  <2> QED
    BY <2>2, <2>3, <2>4, <2>5 DEF IInv, SpinnerInv
<1> QED
  BY <1>4, <1>5 DEF Import

(* A count that is loaded: the spinner is given the locations of the file,  *)
(* at the last of them, and the table has moved there.                      *)
LEMMA ReuseFileKeeps ==
  ASSUME IInv, NEW file \in File, OnMain, ReuseFile(file), UNCHANGED disk
  PROVE  IInv'
<1> DEFINE parsed == ReuseFromStream(file, "FILE")
           locations == parsed.table.locationIndices
           items  == IF locations = <<>> THEN <<Global>> ELSE locations
<1>1. TableGood(parsed.table)
  BY ReuseGood
<1>2. CASE LoadFails(parsed)
  BY <1>1, <1>2, LoadFailsKeeps
<1>3. CASE /\ parsed.result = "none"
           /\ table' = MovedToLast(parsed.table, items)
           /\ lookups' = LookupsFor(Names(parsed.table))
           /\ history' = <<>> /\ enabled' = TRUE /\ unsaved' = FALSE
           /\ Show(items, Len(items)) /\ UNCHANGED activities
  <2> HIDE DEF parsed
  <2>1. /\ items \in Seq(Location) /\ items # <<>>
        /\ Len(items) \in DOMAIN items /\ Len(items) \in Nat /\ Len(items) # 0
        /\ Last(items) = items[Len(items)] /\ Last(items) \in Location
    <3>1. locations \in Seq(Location)
      BY <1>1 DEF TableGood, Table
    <3>2. items \in Seq(Location) /\ items # <<>>
      BY <3>1, GlobalAssumption
    <3> HIDE DEF items
    <3> QED
      BY <3>2 DEF Last
  <2>2. /\ TableGood(table')
        /\ table'.elements = parsed.table.elements
        /\ table'.locationIndices = items
        /\ items[table'.location] = Last(items)
    <3>1. table' = SetTableLocation(parsed.table, Last(items))
      BY <1>3 DEF MovedToLast
    <3>2. CASE locations = <<>>
      <4>1. /\ Append(locations, Last(items)) = items
            /\ ~ \E j \in DOMAIN locations : locations[j] = Last(items)
        BY <2>1, <3>2
      <4> HIDE DEF items
      <4> DEFINE last == Last(items)
      <4>2. last \in Location
        BY <2>1
      <4> HIDE DEF last
      <4>3. /\ SetTableLocation(parsed.table, last).elements
                 = parsed.table.elements
            /\ SetTableLocation(parsed.table, last).locationIndices
                  [SetTableLocation(parsed.table, last).location] = last
            /\ SetTableLocation(parsed.table, last).locationIndices
                 = IF \E j \in DOMAIN locations : locations[j] = last
                   THEN locations ELSE Append(locations, last)
        BY <1>1, <4>2, SetTableLocationFinds
      <4>4. TableGood(SetTableLocation(parsed.table, last))
        BY <1>1, <4>2, SetTableLocationGood
      <4> QED
        BY <3>1, <4>1, <4>3, <4>4 DEF last
    <3>3. CASE locations # <<>>
      <4>1. items = locations
        BY <3>3
      <4>2. \E j \in DOMAIN locations : locations[j] = Last(items)
        BY <2>1, <4>1
      <4> HIDE DEF items
      <4> QED
        BY <1>1, <2>1, <3>1, <4>1, <4>2, SetTableLocationGood,
           SetTableLocationFinds
    <3> QED
      BY <3>2, <3>3
  <2> HIDE DEF items
  <2>3. lookups' = Names(table')
    BY <1>3, <2>2 DEF LookupsFor, Names
  <2>4. Globals'
    BY <1>3, <2>2, <2>3, NamesType, EmptyLists DEF IInv, Globals
  <2>5. Screens' /\ IndicesInTable'
    BY <1>3, EmptiedHistoryKeeps
  <2>6. Entered' /\ spinner'.items = items /\ Position' = Len(items)
        /\ spinner'.pending = TRUE
    <3>1. Entered /\ Show(items, Len(items))
      BY <1>3 DEF IInv, SpinnerInv
    <3> DEFINE last == Len(items)
    <3>2. /\ Entered' /\ spinner'.items = items /\ spinner'.pending = TRUE
          /\ Position' = IF last = 0 THEN 1
                         ELSE IF last > last THEN last ELSE last
      BY <2>1, <3>1, Showing
    <3> QED
      BY <2>1, <3>2
  <2>7. LookupsCurrent' /\ SpinnerMirrorsTable'
    BY <2>1, <2>2, <2>3, <2>6 DEF LookupsCurrent, SpinnerMirrorsTable
  <2>8. Follows'
    BY <2>1, <2>2, <2>6 DEF Follows
  <2> QED
    BY <2>4, <2>5, <2>6, <2>7, <2>8 DEF IInv, SpinnerInv
<1> QED
  BY <1>2, <1>3 DEF ReuseFile

(* Quick load, with and without a file. *)
LEMMA QuickLoadKeeps ==
  ASSUME IInv, OnMain, QuickLoad
  PROVE  IInv'
<1>1. CASE disk = NoFile
  <2>1. /\ history' = <<>> /\ enabled' = FALSE
        /\ UNCHANGED <<table, lookups, spinner, activities, unsaved, disk>>
    BY <1>1 DEF QuickLoad, NothingToLoad
  <2>2. Globals'
    BY <2>1, EmptyLists DEF IInv, Globals
  <2>3. Entered'
    BY <2>1 DEF IInv, SpinnerInv, Entered
  <2> QED
    BY <2>1, <2>2, <2>3, EmptiedHistoryKeeps, DisabledKeeps
<1>2. CASE disk # NoFile
  <2>1. disk \in File
    BY <1>2 DEF IInv, Globals
  <2> QED
    BY <1>2, <2>1, ReuseFileKeeps DEF QuickLoad
<1> QED
  BY <1>1, <1>2
-----------------------------------------------------------------------------
(* A step that leaves everything but the file alone. *)
LEMMA OnlyDiskKeeps ==
  ASSUME IInv,
         UNCHANGED <<table, lookups, history, enabled, spinner, activities>>,
         disk' \in File \cup {NoFile}, unsaved' \in BOOLEAN
  PROVE  IInv'
<1>1. Globals'
  BY DEF IInv, Globals
<1>2. Screens' /\ IndicesInTable' /\ LookupsCurrent'
  BY DEF IInv, Screens, IndicesInTable, LookupsCurrent, activities
<1>3. Entered' /\ SpinnerMirrorsTable' /\ Follows'
  BY DEF IInv, SpinnerInv, Entered, SpinnerMirrorsTable, Follows, Position
<1> QED
  BY <1>1, <1>2, <1>3 DEF IInv, SpinnerInv

(* A save touches nothing but the file, whether or not it succeeds. *)
LEMMA SavesKeep ==
  ASSUME IInv, QuickSave \/ Save
  PROVE  IInv'
<1>1. Saved \in File /\ Torn(Saved) \subseteq File
  BY SavedType DEF IInv, Globals
<1>2. unsaved \in BOOLEAN /\ disk \in File \cup {NoFile}
  BY DEF IInv, Globals
<1>3. CASE QuickSave
  <2>1. disk' \in File \cup {NoFile} /\ unsaved' \in BOOLEAN
    BY <1>1, <1>2, <1>3 DEF QuickSave
  <2> QED
    BY <1>3, <2>1, OnlyDiskKeeps DEF QuickSave
<1>4. CASE Save
  <2>1. disk' \in File \cup {NoFile} /\ unsaved' \in BOOLEAN
    BY <1>2, <1>4 DEF Save
  <2> QED
    BY <1>4, <2>1, OnlyDiskKeeps DEF Save
<1> QED
  BY <1>3, <1>4

(* The process ends, in the middle of a save or not. *)
LEMMA KillsKeep ==
  ASSUME IInv, KilledWhileSaving \/ Killed
  PROVE  IInv'
<1>1. Torn(Saved) \subseteq File /\ disk \in File \cup {NoFile}
  BY SavedType DEF IInv, Globals
<1>2. NewProcess /\ disk' \in File \cup {NoFile}
  BY <1>1 DEF KilledWhileSaving, Killed
<1> QED
  BY <1>2, NewProcessKeeps

(* A re-created activity knows one entry, and has search disabled. *)
LEMMA RecreateKeeps ==
  ASSUME IInv, Recreate
  PROVE  IInv'
<1>1. Globals'
  BY DEF IInv, Globals, Recreate
<1>2. Entered'
  BY GlobalAssumption DEF Recreate, Entered, NewSpinner
<1>3. Screens' /\ IndicesInTable'
  BY DEF Recreate, activities, IInv, Screens, IndicesInTable
<1> QED
  BY <1>1, <1>2, <1>3, DisabledKeeps DEF Recreate

(* A choice of the user waits for its layout. *)
LEMMA SelectItemKeeps ==
  ASSUME IInv, NEW position \in DOMAIN spinner.items, SelectItem(position)
  PROVE  IInv'
<1>1. /\ enabled /\ ~spinner.pending /\ Show(spinner.items, position)
      /\ UNCHANGED <<table, lookups, history, enabled, activities, disk,
                     unsaved>>
  BY DEF SelectItem
<1>2. /\ spinner.items \in Seq(Location) /\ spinner.items # <<>>
      /\ position \in 1 .. Len(spinner.items) /\ position \in Nat
  BY DEF IInv, SpinnerInv, Entered
<1>3. /\ Entered' /\ spinner'.items = spinner.items
      /\ spinner'.pending = TRUE /\ spinner'.old = spinner.old
      /\ Position' = IF position = 0 THEN 1
                     ELSE IF position > Len(spinner.items)
                          THEN Len(spinner.items) ELSE position
  BY <1>1, <1>2, Showing DEF IInv, SpinnerInv
<1>4. Globals' /\ Screens' /\ IndicesInTable' /\ LookupsCurrent'
  BY <1>1
  DEF IInv, Globals, Screens, IndicesInTable, LookupsCurrent, activities
<1>5. SpinnerMirrorsTable'
  BY <1>1, <1>3 DEF IInv, SpinnerInv, SpinnerMirrorsTable
<1>6. Follows'
  BY <1>1, <1>3 DEF IInv, SpinnerInv, Follows
<1> QED
  BY <1>3, <1>4, <1>5, <1>6 DEF IInv, SpinnerInv

(* Another location of the same table: its products are what they were. *)
LEMMA SameElementsKeep ==
  ASSUME IInv, TableGood(table'), table'.elements = table.elements,
         UNCHANGED <<lookups, history, enabled, activities, disk, unsaved>>
  PROVE  Globals' /\ Screens' /\ IndicesInTable' /\ LookupsCurrent'
<1>1. Globals' /\ Screens' /\ IndicesInTable'
  BY DEF IInv, Globals, Screens, IndicesInTable, activities
<1>2. Names(table') = Names(table)
  BY DEF Names
<1> QED
  BY <1>1, <1>2 DEF IInv, LookupsCurrent

(* A layout notifies a new position, and the table moves to its entry. *)
LEMMA SpinnerLayoutKeeps ==
  ASSUME IInv, SpinnerLayout
  PROVE  IInv'
<1>1. /\ Position \in DOMAIN spinner.items /\ Position \in Nat
      /\ spinner.items \in Seq(Location) /\ spinner.items # <<>>
      /\ spinner.items[Position] \in Location
  <2>1. Position \in DOMAIN spinner.items /\ spinner.items \in Seq(Location)
        /\ spinner.items # <<>>
    BY PositionInRange DEF IInv, SpinnerInv, Entered
  <2> HIDE DEF Position
  <2> QED
    BY <2>1
<1>2. /\ spinner'.items = spinner.items /\ spinner'.pending = FALSE
      /\ spinner'.old = Position /\ Entered'
  BY <1>1 DEF SpinnerLayout, IInv, SpinnerInv, Entered
<1>3. TableGood(table) /\ spinner.pending
      /\ UNCHANGED <<lookups, history, enabled, activities, disk, unsaved>>
  BY DEF SpinnerLayout, IInv, Globals
<1>4. CASE Position # spinner.old /\ table.locationIndices # <<>>
  <2> DEFINE name == spinner.items[Position]
  <2>1. table' = SetTableLocation(table, name)
    BY <1>4 DEF SpinnerLayout
  <2>2. name \in Location
    BY <1>1
  <2>3. enabled => \E j \in DOMAIN table.locationIndices :
                     table.locationIndices[j] = name
    BY <1>1, <1>4 DEF IInv, SpinnerInv, SpinnerMirrorsTable
  <2>4. spinner'.items[spinner'.old] = name
    BY <1>2
  <2> HIDE DEF name
  <2>5. /\ TableGood(table') /\ table'.elements = table.elements
        /\ table'.locationIndices # <<>>
        /\ table'.locationIndices[table'.location] = name
        /\ enabled => table'.locationIndices = table.locationIndices
    BY <1>3, <2>1, <2>2, <2>3, SetTableLocationGood, SetTableLocationFinds
  <2>6. Globals' /\ Screens' /\ IndicesInTable' /\ LookupsCurrent'
    BY <1>3, <2>5, SameElementsKeep
  <2>7. SpinnerMirrorsTable'
    BY <1>2, <1>3, <2>5 DEF IInv, SpinnerInv, SpinnerMirrorsTable
  <2>8. Follows'
    BY <2>4, <2>5 DEF Follows
  <2> QED
    BY <1>2, <2>6, <2>7, <2>8 DEF IInv, SpinnerInv
<1>5. CASE ~(Position # spinner.old /\ table.locationIndices # <<>>)
  <2>1. table' = table
    BY <1>5 DEF SpinnerLayout
  <2>2. Globals' /\ Screens' /\ IndicesInTable' /\ LookupsCurrent'
    BY <1>3, <2>1, SameElementsKeep
  <2>3. SpinnerMirrorsTable'
    BY <1>2, <1>3, <2>1 DEF IInv, SpinnerInv, SpinnerMirrorsTable
  <2>4. Follows'
    BY <1>2, <1>3, <1>5, <2>1 DEF IInv, SpinnerInv, Follows
  <2> QED
    BY <1>2, <2>2, <2>3, <2>4 DEF IInv, SpinnerInv
<1> QED
  BY <1>4, <1>5

(* The table is at the location just added, the spinner asks for one past   *)
(* its end: the layout brings the two together.                             *)
LEMMA AddLocationKeeps ==
  ASSUME IInv, NEW name \in Location, AddLocation(name)
  PROVE  IInv'
<1> DEFINE new == SetTableLocation(table, name)
           locations == table.locationIndices
<1>1. /\ enabled /\ table' = new
      /\ UNCHANGED <<lookups, history, enabled, activities, disk, unsaved>>
  BY DEF AddLocation
<1>2. TableGood(table) /\ locations \in Seq(Location) /\ Entered
  BY DEF IInv, Globals, SpinnerInv, TableGood, Table
<1>3. /\ TableGood(new) /\ new.elements = table.elements
      /\ new.locationIndices # <<>>
      /\ new.location \in DOMAIN new.locationIndices
      /\ new.locationIndices[new.location] = name
      /\ new.locationIndices
           = IF \E j \in DOMAIN locations : locations[j] = name
             THEN locations ELSE Append(locations, name)
      /\ new.locationIndices \in Seq(Location)
  <2>1. TableGood(new)
    BY <1>2, SetTableLocationGood
  <2>2. new.locationIndices \in Seq(Location)
    BY <2>1 DEF TableGood, Table
  <2> QED
    BY <1>2, <2>1, <2>2, SetTableLocationFinds
<1>4. Entries = locations
  <2>1. CASE locations = <<>>
    <3>1. spinner.items = <<Global>>
      BY <1>1, <2>1 DEF IInv, SpinnerInv, SpinnerMirrorsTable
    <3> QED
      BY <2>1, <3>1 DEF Entries
  <2>2. CASE locations # <<>>
    BY <1>1, <2>2 DEF IInv, SpinnerInv, SpinnerMirrorsTable, Entries
  <2> QED
    BY <2>1, <2>2
<1> DEFINE next == IF Len(new.locationIndices) # Len(locations)
                   THEN Len(locations) + 2 ELSE new.location
<1>5. /\ Show(new.locationIndices, next) /\ next \in Nat
      /\ new.locationIndices[IF next = 0 THEN 1
                             ELSE IF next > Len(new.locationIndices)
                                  THEN Len(new.locationIndices) ELSE next]
           = name
  <2>1. CASE \E j \in DOMAIN locations : locations[j] = name
    <3>1. new.locationIndices = locations /\ next = new.location
      BY <1>3, <2>1
    <3>2. Show(locations, new.location)
      BY <1>4, <3>1 DEF AddLocation
    <3>3. new.location \in 1 .. Len(new.locationIndices)
      BY <1>3
    <3> HIDE DEF new, next
    <3> QED
      BY <1>3, <3>1, <3>2, <3>3
  <2>2. CASE ~ \E j \in DOMAIN locations : locations[j] = name
    <3>1. new.locationIndices = Append(locations, name)
      BY <1>3, <2>2
    <3> HIDE DEF new
    <3>2. /\ Len(new.locationIndices) = Len(locations) + 1
          /\ Len(locations) \in Nat
          /\ new.locationIndices[Len(locations) + 1] = name
      BY <1>2, <3>1
    <3>3. next = Len(locations) + 2
      BY <3>2
    <3>4. Show(Append(locations, name), Len(locations) + 2)
      BY <1>4, <3>2 DEF AddLocation, new
    <3> HIDE DEF next
    <3> QED
      BY <3>1, <3>2, <3>3, <3>4
  <2> QED
    BY <2>1, <2>2
<1> HIDE DEF new, next
<1>6. /\ Entered' /\ spinner'.items = new.locationIndices
      /\ spinner'.pending = TRUE
      /\ Position' = IF next = 0 THEN 1
                     ELSE IF next > Len(new.locationIndices)
                          THEN Len(new.locationIndices) ELSE next
  BY <1>2, <1>3, <1>5, Showing
<1>7. Globals' /\ Screens' /\ IndicesInTable' /\ LookupsCurrent'
  BY <1>1, <1>3, SameElementsKeep
<1>8. SpinnerMirrorsTable'
  BY <1>1, <1>3, <1>6 DEF SpinnerMirrorsTable
<1>9. Follows'
  BY <1>1, <1>3, <1>5, <1>6 DEF Follows
<1> QED
  BY <1>6, <1>7, <1>8, <1>9 DEF IInv, SpinnerInv
-----------------------------------------------------------------------------
(* The history is of elements, whatever its limit. *)
LEMMA HistoryType ==
  ASSUME NEW S, history \in Seq(S), NEW id \in S, AddToHistory(id)
  PROVE  history' \in Seq(S)
<1> DEFINE longer == <<id>> \o history
           m == IF Len(history) < HistoryLimit THEN Len(history) + 1
                ELSE HistoryLimit
<1>1. longer \in Seq(S) /\ Len(longer) = Len(history) + 1 /\ Len(history) \in Nat
  OBVIOUS
<1>2. m \in Nat /\ m <= Len(longer)
  BY <1>1, AppAssumption
<1>3. history' = SubSeq(longer, 1, m)
  BY DEF AddToHistory
<1> HIDE DEF longer, m
<1> QED
  BY <1>1, <1>2, <1>3

(* A count makes the default location at most, which the spinner offers     *)
(* already.                                                                 *)
LEMMA ConfirmKeeps ==
  ASSUME IInv, NEW delta \in Delta, Confirm(delta)
  PROVE  IInv'
<1> DEFINE locations == table.locationIndices
<1>1. /\ screen.at = "alter" /\ screen.id \in DOMAIN table.elements
      /\ delta \in Int /\ TableGood(table)
      /\ AddToHistory(screen.id) /\ unsaved' = TRUE
      /\ table' = AlterTable(table, screen.id, delta)
      /\ UNCHANGED <<lookups, enabled, spinner, screen, asked, disk>>
      /\ asked = Main
  BY AppAssumption
  DEF Confirm, IInv, Globals, Screens, IndicesInTable, activities
<1>2. /\ TableGood(table')
      /\ DOMAIN table'.elements = DOMAIN table.elements
      /\ \A i \in DOMAIN table.elements :
           table'.elements[i].name = table.elements[i].name
      /\ table'.location = table.location
      /\ table'.locationIndices = IF locations = <<>> THEN <<Global>>
                                  ELSE locations
  BY <1>1, AlterTableGood, AlterTableKeeps
<1>3. history' \in Seq(Nat \ {0}) /\ history' \in Seq(DOMAIN table.elements)
  <2>1. history \in Seq(Nat \ {0}) /\ history \in Seq(DOMAIN table.elements)
    BY DEF IInv, Globals, IndicesInTable
  <2>2. screen.id \in Nat \ {0}
    BY <1>1 DEF TableGood, Table
  <2> QED
    BY <1>1, <2>1, <2>2, HistoryType
<1>4. Globals' /\ Screens' /\ IndicesInTable'
  <2>1. \A k \in DOMAIN history' : history'[k] \in DOMAIN table.elements
    BY <1>3
  <2> QED
    BY <1>1, <1>2, <1>3, <2>1
    DEF IInv, Globals, Screens, IndicesInTable, Main
<1>5. LookupsCurrent'
  <2>1. Names(table') = Names(table)
    BY <1>2 DEF Names
  <2> QED
    BY <1>1, <2>1 DEF IInv, LookupsCurrent
<1>6. Entered'
  BY <1>1 DEF IInv, SpinnerInv, Entered
<1>7. SpinnerMirrorsTable'
  BY <1>1, <1>2 DEF IInv, SpinnerInv, SpinnerMirrorsTable
<1>8. Follows'
  <2>1. UNCHANGED Position
    BY <1>1 DEF Position
  <2>2. CASE locations # <<>>
    BY <1>1, <1>2, <2>1, <2>2 DEF IInv, SpinnerInv, Follows
  <2>3. CASE locations = <<>>
    <3>1. table'.locationIndices = <<Global>> /\ table'.location = 1
      BY <1>1, <1>2, <2>3 DEF TableGood, TableAddressable
    <3>2. ASSUME enabled, spinner.pending => Position = spinner.old
          PROVE  spinner.items[spinner.old] = Global
      <4>1. spinner.items = <<Global>>
        BY <2>3, <3>2 DEF IInv, SpinnerInv, SpinnerMirrorsTable
      <4>2. spinner.old \in DOMAIN spinner.items
        BY <3>2, PositionInRange DEF IInv, SpinnerInv, Entered
      <4> QED
        BY <4>1, <4>2
    <3> QED
      BY <1>1, <2>1, <3>1, <3>2 DEF Follows
  <2> QED
    BY <2>2, <2>3
<1> QED
  BY <1>4, <1>5, <1>6, <1>7, <1>8 DEF IInv, SpinnerInv

(* Asking for an activity, its arrival, and going back.                     *)
LEMMA MovesKeep ==
  ASSUME IInv, Screens', IndicesInTable',
         UNCHANGED <<table, lookups, history, enabled, spinner, disk, unsaved>>
  PROVE  IInv'
<1>1. Globals' /\ LookupsCurrent'
  BY DEF IInv, Globals, LookupsCurrent
<1>2. Entered' /\ SpinnerMirrorsTable' /\ Follows'
  BY DEF IInv, SpinnerInv, Entered, SpinnerMirrorsTable, Follows, Position
<1> QED
  BY <1>1, <1>2 DEF IInv, SpinnerInv

(* A product is asked for by an index of the lookups or of the history,     *)
(* either of which is in the table at that moment.                          *)
LEMMA AsksKeep ==
  ASSUME IInv,
         \/ Search
         \/ \E id \in DOMAIN lookups : OpenResult(id)
         \/ \E k \in DOMAIN history : OpenHistory(k)
  PROVE  IInv'
<1>1. table.elements \in Seq(Element) /\ Screens /\ IndicesInTable
  BY DEF IInv, Globals, TableGood, Table
<1>2. ASSUME NEW id \in DOMAIN table.elements,
             NEW from \in {"main", "results"},
             screen = IF from = "main" THEN Main ELSE Results,
             Ask(Alter(id, from))
      PROVE  IInv'
  <2>1. /\ asked' = [at |-> "alter", id |-> id, from |-> from]
        /\ UNCHANGED <<table, lookups, history, enabled, spinner, screen,
                       disk, unsaved>>
    BY <1>2 DEF Ask, Alter
  <2>2. id \in Nat
    BY <1>1
  <2>3. Screens'
    BY <1>1, <1>2, <2>1, <2>2 DEF Screens, Activity, Main, Results
  <2>4. IndicesInTable'
    BY <1>1, <2>1 DEF IndicesInTable
  <2> QED
    BY <2>1, <2>3, <2>4, MovesKeep
<1>3. ASSUME NEW id \in DOMAIN lookups, OpenResult(id) PROVE IInv'
  BY <1>2, <1>3 DEF OpenResult
<1>4. ASSUME NEW k \in DOMAIN history, OpenHistory(k) PROVE IInv'
  <2>1. history[k] \in DOMAIN table.elements
    BY <1>1 DEF IndicesInTable
  <2> QED
    BY <1>2, <1>4, <2>1 DEF OpenHistory, OnMain
<1>5. CASE Search
  <2>1. /\ asked' = Results /\ screen = Main
        /\ UNCHANGED <<table, lookups, history, enabled, spinner, screen,
                       disk, unsaved>>
    BY <1>5 DEF Search, OnMain, Ask
  <2>2. Screens' /\ IndicesInTable'
    BY <1>1, <2>1 DEF Screens, IndicesInTable, Activity, Main, Results
  <2> QED
    BY <2>1, <2>2, MovesKeep
<1> QED
  BY <1>3, <1>4, <1>5

(* What arrives is what was asked for, or an activity that reads past the   *)
(* table and is not one that shows a product.                               *)
LEMMA ArrivalsKeep ==
  ASSUME IInv, Arrive \/ ArriveStale
  PROVE  IInv'
<1>1. Screens /\ IndicesInTable
  BY DEF IInv
<1>2. /\ asked' = Main
      /\ UNCHANGED <<table, lookups, history, enabled, spinner, disk, unsaved>>
  BY DEF Arrive, ArriveStale
<1>3. CASE Arrive
  <2>1. /\ screen' = asked
        /\ asked.at = "alter" => asked.id \in DOMAIN table.elements
    BY <1>3 DEF Arrive
  <2>2. Screens' /\ IndicesInTable'
    BY <1>1, <1>2, <2>1 DEF Screens, IndicesInTable, Activity, Main
  <2> QED
    BY <1>2, <2>2, MovesKeep
<1>4. CASE ArriveStale
  <2>1. screen' = Undefined
    BY <1>4 DEF ArriveStale
  <2>2. Screens' /\ IndicesInTable'
    BY <1>1, <1>2, <2>1
    DEF Screens, IndicesInTable, Activity, Main, Undefined
  <2> QED
    BY <1>2, <2>2, MovesKeep
<1> QED
  BY <1>3, <1>4

(* The ways back from a product. *)
LEMMA ReturnsKeep ==
  ASSUME IInv, BackToSearch \/ BackToResults
  PROVE  IInv'
<1>1. /\ screen' \in {Main, Results} /\ asked = Main /\ asked' = Main
      /\ UNCHANGED <<table, lookups, history, enabled, spinner, disk, unsaved>>
  BY DEF BackToSearch, BackToResults, Back
<1>2. Screens' /\ IndicesInTable'
  BY <1>1 DEF IInv, Screens, IndicesInTable, Activity, Main, Results
<1> QED
  BY <1>1, <1>2, MovesKeep
-----------------------------------------------------------------------------
(* Every step of the session keeps the invariant. *)
LEMMA NextInvariant == IInv /\ [Next]_vars => IInv'
<1> SUFFICES ASSUME IInv, [Next]_vars PROVE IInv'
  OBVIOUS
<1>1. ASSUME NEW file \in Files, Import(file) \/ Reuse(file) PROVE IInv'
  <2>1. file \in File
    BY AppAssumption
  <2> QED
    BY <1>1, <2>1, ImportKeeps, ReuseFileKeeps DEF Reuse, Picked
<1>2. CASE QuickLoadConfirmed \/ QuickLoadUnasked
  BY <1>2, QuickLoadKeeps DEF QuickLoadConfirmed, QuickLoadUnasked
<1>3. CASE QuickSave \/ Save
  BY <1>3, SavesKeep
<1>4. CASE KilledWhileSaving \/ Killed
  BY <1>4, KillsKeep
<1>5. CASE Recreate
  BY <1>5, RecreateKeeps
<1>6. ASSUME NEW position \in DOMAIN spinner.items, SelectItem(position)
      PROVE  IInv'
  BY <1>6, SelectItemKeeps
<1>7. CASE SpinnerLayout
  BY <1>7, SpinnerLayoutKeeps
<1>8. ASSUME NEW name \in Location, AddLocation(name) PROVE IInv'
  BY <1>8, AddLocationKeeps
<1>9. CASE \/ Search
           \/ \E id \in DOMAIN lookups : OpenResult(id)
           \/ \E k \in DOMAIN history : OpenHistory(k)
  BY <1>9, AsksKeep
<1>10. ASSUME NEW delta \in Delta, Confirm(delta) PROVE IInv'
  BY <1>10, ConfirmKeeps
<1>11. CASE Arrive \/ ArriveStale
  BY <1>11, ArrivalsKeep
<1>12. CASE BackToSearch \/ BackToResults
  BY <1>12, ReturnsKeep
<1>13. CASE UNCHANGED vars
  <2>1. disk' \in File \cup {NoFile} /\ unsaved' \in BOOLEAN
    BY <1>13 DEF vars, IInv, Globals
  <2> QED
    BY <1>13, <2>1, OnlyDiskKeeps DEF vars
<1> QED
  BY <1>1, <1>2, <1>3, <1>4, <1>5, <1>6, <1>7, <1>8, <1>9, <1>10, <1>11, <1>12,
     <1>13
  DEF Next

(* In every session, whatever the files, the names, the deltas and the      *)
(* order in which the framework calls back.                                 *)
THEOREM Invariance == Spec => []IInv
<1> QED
  BY InitInvariant, NextInvariant, PTL DEF Spec

(* The globals, the spinner and the screen keep their types.                *)
THEOREM TypeCorrect == Spec => []TypeOK
<1>1. IInv => TypeOK
  BY DEF IInv, Globals, Screens, SpinnerInv, Entered, TypeOK, TableGood
<1> QED
  BY <1>1, Invariance, PTL

(* The indices in the history and in the open dialog are of products the    *)
(* table has, whatever was loaded since they were taken.  One on its way to *)
(* a dialog may be past the table, but only from a tap on the history that  *)
(* a load has followed; never from a tap on a result.                       *)
THEOREM NoStaleIndex == Spec => []IndicesInTable
<1>1. IInv => IndicesInTable
  BY DEF IInv
<1> QED
  BY <1>1, Invariance, PTL

(* What can be searched are the names the table has.                        *)
THEOREM SearchesPresentTable == Spec => []LookupsCurrent
<1>1. IInv => LookupsCurrent
  BY DEF IInv
<1> QED
  BY <1>1, Invariance, PTL

(* What can be chosen are the table's locations, in its order.              *)
THEOREM OffersLocations == Spec => []SpinnerMirrorsTable
<1>1. IInv => SpinnerMirrorsTable
  BY DEF IInv, SpinnerInv
<1> QED
  BY <1>1, Invariance, PTL

(* What is shown is where counts are recorded.                              *)
THEOREM ShowsCurrentLocation == Spec => []SpinnerShowsLocation
<1>1. IInv => SpinnerShowsLocation
  BY DEF IInv, SpinnerInv, Follows, SpinnerShowsLocation
<1> QED
  BY <1>1, Invariance, PTL
-----------------------------------------------------------------------------
(* What the parser sees of a save that was torn.  A part of a last line is  *)
(* a row without a line break, which the loop reads and leaves out.         *)
LEMMA FrontOfAppend ==
  ASSUME NEW rows \in Seq(Row), NEW row \in Row
  PROVE  Front(Append(rows, row)) = rows
<1> DEFINE all == Append(rows, row)
<1>1. /\ all \in Seq(Row) /\ Len(all) = Len(rows) + 1 /\ Len(rows) \in Nat
      /\ \A i \in 1 .. Len(rows) : all[i] = rows[i] /\ rows[i] \in Row
  OBVIOUS
<1> HIDE DEF all
<1> DEFINE front == SubSeq(all, 1, Len(all) - 1)
<1>2. /\ front \in Seq(Row) /\ Len(front) = Len(rows)
      /\ \A i \in 1 .. Len(rows) : front[i] = rows[i]
  <2> DEFINE last == Len(all) - 1
  <2>1. last = Len(rows) /\ last \in Int /\ \A i \in 1 .. last : all[i] \in Row
    BY <1>1
  <2> HIDE DEF last
  <2>2. /\ SubSeq(all, 1, last) \in Seq(Row)
        /\ Len(SubSeq(all, 1, last)) = IF 1 <= last THEN last - 1 + 1 ELSE 0
        /\ \A i \in 1 .. last - 1 + 1 : SubSeq(all, 1, last)[i] = all[1 + i - 1]
    BY <2>1, SubSeqProperties
  <2> DEFINE cut == SubSeq(all, 1, last)
  <2> HIDE DEF cut
  <2>3. cut \in Seq(Row) /\ Len(cut) = Len(rows)
    BY <1>1, <2>1, <2>2 DEF cut
  <2>4. \A i \in 1 .. Len(rows) : cut[i] = rows[i]
    BY <1>1, <2>1, <2>2 DEF cut
  <2> QED
    BY <2>3, <2>4 DEF cut, last
<1> HIDE DEF front
<1>3. front = rows
  BY <1>2
<1> QED
  BY <1>3 DEF Front, front, all

(* Nothing of the rows is read, or whole rows from the first one on.        *)
LEMMA TornReads ==
  ASSUME NEW file \in File, file.header = "reuse_layout",
         file.terminated = TRUE, NEW torn \in Torn(file)
  PROVE  \/ torn.header # "reuse_layout"
         \/ RowsRead(torn, "FILE") = <<>>
         \/ /\ torn.header = "reuse_layout"
            /\ torn.locations = file.locations
            /\ \E m \in 0 .. Len(file.rows) :
                 RowsRead(torn, "FILE") = SubSeq(file.rows, 1, m)
<1>1. /\ file \in [header : Header, locations : Seq(Location),
                   rows : Seq(Row), terminated : BOOLEAN]
      /\ file.rows \in Seq(Row)
  BY DEF File
<1>2. ASSUME torn \in CutHeaders(file)
      PROVE  RowsRead(torn, "FILE") = <<>>
  <2>1. torn.rows = <<>>
    BY <1>1, <1>2 DEF CutHeaders
  <2> QED
    BY <2>1 DEF RowsRead
<1>3. ASSUME NEW m \in 0 .. Len(file.rows),
             torn = [file EXCEPT !.rows = SubSeq(@, 1, m)]
      PROVE  /\ torn.header = "reuse_layout"
             /\ torn.locations = file.locations
             /\ RowsRead(torn, "FILE") = SubSeq(file.rows, 1, m)
  <2> DEFINE rows == SubSeq(file.rows, 1, m)
  <2>1. torn = [file EXCEPT !.rows = rows]
    BY <1>1, <1>3
  <2> HIDE DEF rows
  <2>2. /\ torn.header = "reuse_layout" /\ torn.terminated = TRUE
        /\ torn.locations = file.locations /\ torn.rows = rows
    BY <1>1, <2>1
  <2> QED
    BY <2>2 DEF RowsRead, rows
<1>4. ASSUME NEW n \in DOMAIN file.rows, NEW cut \in CutRows(file.rows[n]),
             torn = [file EXCEPT !.rows = Append(SubSeq(@, 1, n - 1), cut),
                                 !.terminated = FALSE]
      PROVE  /\ torn.header = "reuse_layout"
             /\ torn.locations = file.locations
             /\ n - 1 \in 0 .. Len(file.rows)
             /\ RowsRead(torn, "FILE") = SubSeq(file.rows, 1, n - 1)
  <2> DEFINE whole == SubSeq(file.rows, 1, n - 1)
             rows  == Append(whole, cut)
  <2>1. /\ file.rows[n] \in Row /\ n \in 1 .. Len(file.rows)
        /\ n - 1 \in 0 .. Len(file.rows)
    BY <1>1
  <2>2. cut \in Row /\ whole \in Seq(Row)
    BY <1>1, <2>1, CutRowsType, SubSeqProperties
  <2>3. Front(rows) = whole
    BY <2>2, FrontOfAppend
  <2>4. rows # <<>>
    <3> HIDE DEF whole
    <3> QED
      BY <2>2
  <2>5. torn = [file EXCEPT !.rows = rows, !.terminated = FALSE]
    BY <1>1, <1>4
  <2> HIDE DEF rows, whole
  <2>6. /\ torn.header = "reuse_layout" /\ torn.terminated = FALSE
        /\ torn.locations = file.locations /\ torn.rows = rows
    BY <1>1, <2>5
  <2>7. RowsRead(torn, "FILE") = whole
    BY <2>3, <2>4, <2>6 DEF RowsRead
  <2> QED
    BY <2>1, <2>6, <2>7 DEF whole
<1> QED
  BY <1>2, <1>3, <1>4 DEF Torn

(* Without rows there is nothing to build.                                  *)
LEMMA NoRows ==
  ASSUME NEW locations \in Seq(Location)
  PROVE  ReadRows(<<>>, locations).table.elements = <<>>
<1> DEFINE n == Len(locations)
           bad == FailingRow(<<>>, n)
<1>1. <<>> \in Seq(Row) /\ n \in Nat /\ DOMAIN <<>> = {}
  OBVIOUS
<1>2. bad = 0
  BY <1>1, FailingRowFound
<1>3. Elements(<<>>, n) = <<>>
  BY <1>1 DEF Elements
<1>4. Tidy(Elements(<<>>, n)) = <<>>
  BY <1>1, <1>3 DEF Tidy
<1> QED
  BY <1>2, <1>4 DEF ReadRows, Loaded

(* Any number of whole rows from the first one on is read as that many      *)
(* products of the whole save.                                              *)
LEMMA RowsReadBack ==
  ASSUME NEW t, TableGood(t), NEW m \in 0 .. Len(t.elements)
  PROVE  LET saved == ExportToStream(t, FALSE)
             n     == Len(t.locationIndices)
         IN  ReadRows(SubSeq(saved.rows, 1, m), t.locationIndices).table.elements
               = [i \in 1 .. m |-> Reread(t.elements[i], n)]
<1> DEFINE saved == ExportToStream(t, FALSE)
           n     == Len(t.locationIndices)
           rows  == SubSeq(saved.rows, 1, m)
<1>1. /\ saved.rows \in Seq(Row) /\ Len(saved.rows) = Len(t.elements)
      /\ \A i \in 1 .. Len(t.elements) :
           saved.rows[i] = ExportRow(t.elements[i], n)
  BY SavedRows
<1>2. Len(t.elements) \in Nat
  BY DEF TableGood, Table
<1> HIDE DEF saved
<1>3. \A i \in 1 .. m : saved.rows[i] \in Row
  BY <1>1, <1>2
<1>4. /\ SubSeq(saved.rows, 1, m) \in Seq(Row)
      /\ Len(SubSeq(saved.rows, 1, m)) = IF 1 <= m THEN m - 1 + 1 ELSE 0
      /\ \A i \in 1 .. m - 1 + 1 :
           SubSeq(saved.rows, 1, m)[i] = saved.rows[1 + i - 1]
  BY <1>2, <1>3, SubSeqProperties
<1> HIDE DEF rows
<1>5. /\ rows \in Seq(Row) /\ Len(rows) = m
      /\ \A i \in 1 .. m : rows[i] = saved.rows[i]
  BY <1>2, <1>4 DEF rows
<1>6. \A i \in 1 .. m : rows[i] = ExportRow(t.elements[i], n)
  BY <1>1, <1>2, <1>5
<1>7. ReadRows(rows, t.locationIndices).table.elements
        = [i \in 1 .. m |-> Reread(t.elements[i], n)]
  BY <1>5, <1>6, ReadSaved
<1> QED
  BY <1>7 DEF rows, saved

(* The first values of a sequence are a prefix of it.                       *)
LEMMA FirstArePrefix ==
  ASSUME NEW S, NEW s \in Seq(S), NEW t \in Seq(S), Len(s) <= Len(t),
         \A i \in 1 .. Len(s) : s[i] = t[i]
  PROVE  IsPrefix(s, t)
<1> DEFINE m == Len(s)
           p == SubSeq(s, 1, m)
           q == SubSeq(t, 1, m)
<1>1. /\ m \in Nat /\ m \in Int
      /\ \A i \in 1 .. m : s[i] \in S /\ t[i] \in S
  OBVIOUS
<1> HIDE DEF m
<1>2. /\ p \in Seq(S) /\ Len(p) = IF 1 <= m THEN m - 1 + 1 ELSE 0
      /\ \A i \in 1 .. m - 1 + 1 : p[i] = s[1 + i - 1]
  BY <1>1, SubSeqProperties
<1>3. /\ q \in Seq(S) /\ Len(q) = IF 1 <= m THEN m - 1 + 1 ELSE 0
      /\ \A i \in 1 .. m - 1 + 1 : q[i] = t[1 + i - 1]
  BY <1>1, SubSeqProperties
<1> HIDE DEF p, q
<1>4. /\ Len(p) = m /\ Len(q) = m
      /\ \A i \in 1 .. m : p[i] = q[i]
  BY <1>1, <1>2, <1>3 DEF m
<1>5. p = q
  BY <1>2, <1>3, <1>4
<1> QED
  BY <1>5 DEF IsPrefix, p, q, m

(* What can be loaded from what quick save has left of a table.             *)
LEMMA BeginsAsSaved ==
  ASSUME NEW t, TableGood(t), NEW file,
         file \in {ExportToStream(t, FALSE)} \cup Torn(ExportToStream(t, FALSE))
  PROVE  LET found == ReuseFromStream(file, "FILE")
             whole == ReuseFromStream(ExportToStream(t, FALSE), "FILE")
         IN  found.result = "none" =>
               IsPrefix(found.table.elements, whole.table.elements)
<1> DEFINE saved == ExportToStream(t, FALSE)
           found == ReuseFromStream(file, "FILE")
           whole == ReuseFromStream(saved, "FILE")
           n == Len(t.locationIndices)
           k == Len(t.elements)
           S == {Reread(t.elements[i], n) : i \in 1 .. k}
           First(m) == [i \in 1 .. m |-> Reread(t.elements[i], n)]
<1>1. /\ t.locationIndices \in Seq(Location) /\ k \in Nat
  BY DEF TableGood, Table
<1>2. /\ saved.header = "reuse_layout" /\ saved.terminated = TRUE
      /\ saved.locations = t.locationIndices
      /\ saved.rows \in Seq(Row) /\ Len(saved.rows) = k
  BY SavedRows
<1>3. saved \in File
  BY ExportType
<1>4. ASSUME NEW m \in 0 .. k
      PROVE  ReadRows(SubSeq(saved.rows, 1, m), t.locationIndices).table.elements
               = First(m)
  BY <1>4, RowsReadBack
<1> HIDE DEF saved
<1>5. SubSeq(saved.rows, 1, k) = saved.rows
  BY <1>1, <1>2
<1>6. whole.table.elements = First(k)
  <2>1. RowsRead(saved, "FILE") = saved.rows
    BY <1>2 DEF RowsRead
  <2>2. whole = ReadRows(saved.rows, t.locationIndices)
    BY <1>2, <2>1 DEF ReuseFromStream
  <2>3. k \in 0 .. k
    BY <1>1
  <2>4. ReadRows(SubSeq(saved.rows, 1, k), t.locationIndices).table.elements
          = First(k)
    BY <1>4, <2>3
  <2> QED
    BY <1>5, <2>2, <2>4
<1>7. ASSUME NEW m \in 0 .. k PROVE IsPrefix(First(m), First(k))
  <2>1. \A i \in 1 .. k : Reread(t.elements[i], n) \in S
    OBVIOUS
  <2> HIDE DEF S
  <2>2. First(m) \in Seq(S) /\ Len(First(m)) = m
    BY <1>1, <2>1
  <2>3. First(k) \in Seq(S) /\ Len(First(k)) = k
    BY <1>1, <2>1
  <2>4. \A i \in 1 .. m : First(m)[i] = First(k)[i]
    BY <1>1
  <2>5. m <= k
    BY <1>1
  <2> HIDE DEF First
  <2> QED
    BY <2>2, <2>3, <2>4, <2>5, FirstArePrefix
<1> HIDE DEF First, whole
<1>8. CASE file = saved
  <2>1. found.table.elements = First(k)
    BY <1>6, <1>8 DEF whole
  <2>2. k \in 0 .. k
    BY <1>1
  <2> QED
    BY <1>6, <1>7, <2>1, <2>2 DEF saved, whole
<1>9. ASSUME file \in Torn(saved), file.header # "reuse_layout"
      PROVE  found.result # "none"
  BY <1>9 DEF ReuseFromStream, Refused, Aborted
<1>10. ASSUME file \in Torn(saved), file.header = "reuse_layout",
              RowsRead(file, "FILE") = <<>>
       PROVE  found.table.elements = First(0)
  <2>1. file.locations \in Seq(Location)
    BY <1>3, <1>10, TornType DEF File
  <2>2. found = ReadRows(<<>>, file.locations)
    BY <1>10 DEF ReuseFromStream
  <2>3. First(0) = <<>>
    BY DEF First
  <2> QED
    BY <2>1, <2>2, <2>3, NoRows
<1>11. ASSUME NEW m \in 0 .. k, file.header = "reuse_layout",
              file.locations = t.locationIndices,
              RowsRead(file, "FILE") = SubSeq(saved.rows, 1, m)
       PROVE  found.table.elements = First(m)
  <2>1. found = ReadRows(SubSeq(saved.rows, 1, m), t.locationIndices)
    BY <1>11 DEF ReuseFromStream
  <2> QED
    BY <1>4, <2>1
<1>12. CASE file \in Torn(saved)
  <2>1. CASE file.header # "reuse_layout"
    BY <1>9, <1>12, <2>1
  <2>2. CASE file.header = "reuse_layout" /\ RowsRead(file, "FILE") = <<>>
    <3>1. 0 \in 0 .. k
      BY <1>1
    <3> QED
      BY <1>6, <1>7, <1>10, <1>12, <2>2, <3>1 DEF saved, whole
  <2>3. CASE /\ file.header = "reuse_layout"
             /\ file.locations = saved.locations
             /\ \E m \in 0 .. Len(saved.rows) :
                  RowsRead(file, "FILE") = SubSeq(saved.rows, 1, m)
    <3>1. PICK m \in 0 .. k : RowsRead(file, "FILE") = SubSeq(saved.rows, 1, m)
      BY <1>2, <2>3
    <3> QED
      BY <1>2, <1>6, <1>7, <1>11, <2>3, <3>1 DEF saved, whole
  <2> QED
    BY <1>2, <1>3, <1>12, <2>1, <2>2, <2>3, TornReads
<1> QED
  BY <1>8, <1>12 DEF saved

(* A quick save that is cut short at any character, or killed, leaves a     *)
(* file that loads as a beginning of the table or not at all, for every     *)
(* table a session can reach: a product or a number is never made up.       *)
THEOREM TornSaveIsABeginning == Spec => TornSaveInventsNothing
<1> DEFINE Begins ==
      disk' # disk =>
        LET found == ReuseFromStream(disk', "FILE")
            whole == ReuseFromStream(Saved, "FILE")
        IN  found.result = "none" =>
              IsPrefix(found.table.elements, whole.table.elements)
<1>1. ASSUME IInv, [Next]_vars, disk' # disk
      PROVE  disk' \in {Saved} \cup Torn(Saved)
  <2>1. CASE QuickSave \/ KilledWhileSaving
    BY <1>1, <2>1 DEF QuickSave, KilledWhileSaving
  <2>2. CASE \E file \in Files : Import(file) \/ Reuse(file)
    BY <1>1, <2>2 DEF Import, Reuse
  <2>3. CASE QuickLoadConfirmed \/ QuickLoadUnasked
    BY <1>1, <2>3 DEF QuickLoadConfirmed, QuickLoadUnasked, QuickLoad
  <2>4. CASE Save \/ Killed \/ Recreate \/ SpinnerLayout
    BY <1>1, <2>4 DEF Save, Killed, Recreate, SpinnerLayout
  <2>5. CASE \/ \E position \in DOMAIN spinner.items : SelectItem(position)
             \/ \E name \in Location : AddLocation(name)
    BY <1>1, <2>5 DEF SelectItem, AddLocation
  <2>6. CASE \/ Search \/ Arrive \/ ArriveStale
             \/ BackToSearch \/ BackToResults
             \/ \E id \in DOMAIN lookups : OpenResult(id)
             \/ \E j \in DOMAIN history : OpenHistory(j)
    BY <1>1, <2>6
    DEF Search, OpenResult, OpenHistory, Ask, Arrive, ArriveStale,
        BackToSearch, BackToResults, Back
  <2>7. CASE \E delta \in Delta : Confirm(delta)
    BY <1>1, <2>7 DEF Confirm
  <2>8. CASE UNCHANGED vars
    BY <1>1, <2>8 DEF vars
  <2> QED
    BY <1>1, <2>1, <2>2, <2>3, <2>4, <2>5, <2>6, <2>7, <2>8 DEF Next
<1>2. IInv /\ [Next]_vars => Begins
  <2> SUFFICES ASSUME IInv, [Next]_vars, disk' # disk
               PROVE  LET found == ReuseFromStream(disk', "FILE")
                          whole == ReuseFromStream(Saved, "FILE")
                      IN  found.result = "none" =>
                            IsPrefix(found.table.elements, whole.table.elements)
    OBVIOUS
  <2>1. disk' \in {ExportToStream(table, FALSE)}
                     \cup Torn(ExportToStream(table, FALSE))
    BY <1>1 DEF Saved
  <2>2. TableGood(table)
    BY DEF IInv, Globals
  <2> QED
    BY <2>1, <2>2, BeginsAsSaved DEF Saved
<1>3. IInv /\ [Next]_vars => [Begins]_vars
  BY <1>2
<1>4. Spec => [][Begins]_vars
  BY <1>3, Invariance, PTL DEF Spec
<1> QED
  BY <1>4 DEF TornSaveInventsNothing
=============================================================================
