-------------------------- MODULE StockTableProofs --------------------------
(* What holds of StockTable for every file, name, delta and grain.  The     *)
(* inductive invariant IInv is the conjunction of three invariants the run  *)
(* checks, TableGood of the table.  The last part shows that StockTable     *)
(* implements Ledger, from IInv.                                            *)
EXTENDS StockTable, StockFileProofs

IInv == TypeOK /\ CountsAddressable /\ CurrentIsFirst

(* The inductive invariant is kept by every call. *)
LEMMA Induction == IInv /\ [Next]_vars => IInv'
<1> SUFFICES ASSUME IInv, [Next]_vars
             PROVE  IInv'
  OBVIOUS
<1>0. TableGood(table) /\ call \in Call
  BY DEF IInv, TypeOK, CountsAddressable, CurrentIsFirst, TableGood
<1>1. SUFFICES TableGood(table)' /\ call' \in Call
  BY DEF IInv, TypeOK, CountsAddressable, CurrentIsFirst, TableGood
<1>2. ASSUME NEW file \in Files, NEW source \in Source, Import(file, source)
      PROVE  TableGood(table)' /\ call' \in Call
  <2>1. file \in File
    BY FilesAssumption
  <2>2. TableGood(ParseFromStream(file, source).table)
    BY <2>1, ParseGood
  <2>3. ParseFromStream(file, source).result \in FileError \cup {Aborted}
    BY <2>1, ParseGood
  <2> QED
    BY <1>2, <2>2, <2>3 DEF Import, Call, Load
<1>3. ASSUME NEW file \in Files, NEW source \in Source, Reuse(file, source)
      PROVE  TableGood(table)' /\ call' \in Call
  <2>1. file \in File
    BY FilesAssumption
  <2>2. TableGood(ReuseFromStream(file, source).table)
    BY <2>1, ReuseGood
  <2>3. ReuseFromStream(file, source).result \in FileError \cup {Aborted}
    BY <2>1, ReuseGood
  <2> QED
    BY <1>3, <2>2, <2>3 DEF Reuse, Call, Load
<1>4. ASSUME NEW op \in Load, OpenFails(op)
      PROVE  TableGood(table)' /\ call' \in Call
  BY <1>0, <1>4 DEF OpenFails, Call, FileError
<1>5. ASSUME NEW name \in Location, SetLocation(name)
      PROVE  TableGood(table)' /\ call' \in Call
  BY <1>0, <1>5, SetTableLocationGood DEF SetLocation, Call
<1>6. ASSUME NEW idx \in DOMAIN table.elements, NEW delta \in Delta,
             Alter(idx, delta)
      PROVE  TableGood(table)' /\ call' \in Call
  BY <1>0, <1>6, DeltaAssumption, AlterTableGood DEF Alter, Call
<1>7. CASE UNCHANGED vars
  BY <1>0, <1>7 DEF vars
<1> QED
  BY <1>2, <1>3, <1>4, <1>5, <1>6, <1>7 DEF Next

(* The invariant holds of every behaviour, for every set of files, names    *)
(* and deltas.                                                              *)
THEOREM Invariance == Spec => []IInv
<1>1. Init => IInv
  BY EmptyTableGood
  DEF Init, IInv, TypeOK, CountsAddressable, CurrentIsFirst, TableGood, Call
<1> QED
  BY <1>1, Induction, PTL DEF Spec

(* stockTable's members keep their types: indices are positive, names and   *)
(* sizes never lose more quotation marks than they have.                    *)
THEOREM TypeCorrect == Spec => []TypeOK
<1>1. IInv => TypeOK
  BY DEF IInv
<1> QED
  BY <1>1, Invariance, PTL

(* However the calls are ordered and whatever the files hold, every count   *)
(* belongs to a column of the table and to one only, and the column counts  *)
(* are recorded in is one of the table's.                                   *)
THEOREM Addressable == Spec => []CountsAddressable
<1>1. IInv => CountsAddressable
  BY DEF IInv
<1> QED
  BY <1>1, Invariance, PTL

(* Counts are never recorded in the second of two columns of one name, for  *)
(* every file, also one with repeated location names.                       *)
THEOREM RecordsInFirstColumn == Spec => []CurrentIsFirst
<1>1. IInv => CurrentIsFirst
  BY DEF IInv
<1> QED
  BY <1>1, Invariance, PTL
-----------------------------------------------------------------------------
(* Lemmas for the ledger: what a column holds, and where a name is found.   *)
(* The position with no earlier one of its name is LocationIndex. *)
LEMMA LocationIndexIs ==
  ASSUME NEW locations \in Seq(Location), NEW k \in DOMAIN locations,
         \A j \in DOMAIN locations : locations[j] = locations[k] => k <= j
  PROVE  LocationIndex(locations, locations[k]) = k
<1> DEFINE name == locations[k]
           l == LocationIndex(locations, name)
<1>1. l # 0 => l \in DOMAIN locations /\ locations[l] = name /\ l <= k
  BY LocationIndexFound
<1>2. l # 0
  BY LocationIndexFound
<1> HIDE DEF l
<1>3. l <= k /\ k <= l
  BY <1>1, <1>2
<1>4. l \in Nat /\ k \in Nat
  BY <1>1, <1>2
<1> QED
  BY <1>3, <1>4 DEF l

(* In counts for distinct locations a pair is where CountIndex finds it. *)
LEMMA CountIndexIs ==
  ASSUME NEW counts \in Seq(Count), NEW k \in DOMAIN counts,
         \A i, j \in DOMAIN counts : counts[i].location = counts[j].location => i = j
  PROVE  CountIndex(counts, counts[k].location) = k
<1> DEFINE l == CountIndex(counts, counts[k].location)
<1>1. IF l = 0
      THEN \A j \in DOMAIN counts : counts[j].location # counts[k].location
      ELSE l \in DOMAIN counts /\ counts[l].location = counts[k].location
  BY CountIndexFound
<1> QED
  BY <1>1

(* A location no pair belongs to has the count 0. *)
LEMMA GetCountAbsent ==
  ASSUME NEW elem \in Element, NEW c,
         \A j \in DOMAIN elem.counts : elem.counts[j].location # c
  PROVE  GetCount(elem, c) = 0
<1>1. elem.counts \in Seq(Count)
  BY DEF Element
<1>2. CountIndex(elem.counts, c) = 0
  BY <1>1, CountIndexFound
<1> QED
  BY <1>2 DEF GetCount

(* A location a pair belongs to has the count of that pair. *)
LEMMA GetCountPresent ==
  ASSUME NEW elem \in Element, NEW n \in Nat, ElementAddressable(elem, n),
         NEW k \in DOMAIN elem.counts
  PROVE  GetCount(elem, elem.counts[k].location) = elem.counts[k].count
<1>1. elem.counts \in Seq(Count)
  BY DEF Element
<1>2. CountIndex(elem.counts, elem.counts[k].location) = k
  BY <1>1, CountIndexIs DEF ElementAddressable
<1>3. k # 0
  BY <1>1
<1> QED
  BY <1>2, <1>3 DEF GetCount

(* alter adds to one location and leaves what the others hold alone. *)
LEMMA GetCountAltered ==
  ASSUME NEW elem \in Element, NEW n \in Nat, ElementAddressable(elem, n),
         NEW location \in 1 .. n, NEW delta \in Int, NEW c
  PROVE  GetCount(AlterElement(elem, location, delta), c)
           = GetCount(elem, c) + (IF c = location THEN delta ELSE 0)
<1> DEFINE k   == CountIndex(elem.counts, location)
           new == AlterElement(elem, location, delta)
<1>1. elem.counts \in Seq(Count)
  BY DEF Element
<1>2. new \in Element /\ ElementAddressable(new, n)
  BY AlterElementGood
<1>3. GetCount(elem, c) \in Int
  BY GetCountType
<1>4. CASE k # 0
  <2>1. k \in DOMAIN elem.counts /\ elem.counts[k].location = location
    BY <1>1, <1>4, CountIndexFound
  <2>2. new.counts = [elem.counts EXCEPT ![k].count = @ + delta]
    BY <1>4 DEF AlterElement, Element
  <2> HIDE DEF k, new
  <2>3. /\ DOMAIN new.counts = DOMAIN elem.counts
        /\ \A j \in DOMAIN elem.counts :
             /\ elem.counts[j] \in Count
             /\ new.counts[j].location = elem.counts[j].location
             /\ j # k => new.counts[j].count = elem.counts[j].count
        /\ new.counts[k].count = elem.counts[k].count + delta
    <3>1. /\ DOMAIN new.counts = DOMAIN elem.counts
          /\ \A j \in DOMAIN elem.counts :
               j # k => new.counts[j] = elem.counts[j]
          /\ new.counts[k] = [elem.counts[k] EXCEPT !.count = @ + delta]
      BY <2>1, <2>2
    <3>2. \A j \in DOMAIN elem.counts : elem.counts[j] \in Count
      BY <1>1
    <3>3. /\ new.counts[k].count = elem.counts[k].count + delta
          /\ new.counts[k].location = elem.counts[k].location
      BY <2>1, <3>1, <3>2 DEF Count
    <3> QED
      BY <3>1, <3>2, <3>3
  <2>4. CASE c = location
    <3>1. GetCount(elem, location) = elem.counts[k].count
      BY <2>1, GetCountPresent
    <3>2. GetCount(new, location) = new.counts[k].count
      BY <1>2, <2>1, <2>3, GetCountPresent
    <3> QED
      BY <2>3, <2>4, <3>1, <3>2 DEF new
  <2>5. CASE c # location /\ \E j \in DOMAIN elem.counts : elem.counts[j].location = c
    <3>1. PICK j \in DOMAIN elem.counts : elem.counts[j].location = c
      BY <2>5
    <3>2. GetCount(elem, c) = elem.counts[j].count
      BY <3>1, GetCountPresent
    <3>3. GetCount(new, c) = new.counts[j].count
      BY <1>2, <2>3, <3>1, GetCountPresent
    <3> QED
      BY <1>3, <2>1, <2>3, <2>5, <3>1, <3>2, <3>3 DEF new
  <2>6. CASE c # location /\ \A j \in DOMAIN elem.counts : elem.counts[j].location # c
    <3>1. GetCount(elem, c) = 0 /\ GetCount(new, c) = 0
      BY <1>2, <2>3, <2>6, GetCountAbsent
    <3> QED
      BY <2>6, <3>1 DEF new
  <2> QED
    BY <2>4, <2>5, <2>6
<1>5. CASE k = 0
  <2> DEFINE pair == [location |-> location, count |-> delta]
             m    == Len(elem.counts)
  <2>1. \A j \in DOMAIN elem.counts : elem.counts[j].location # location
    BY <1>1, <1>5, CountIndexFound
  <2>2. new.counts = Append(elem.counts, pair)
    BY <1>5 DEF AlterElement, Element
  <2> HIDE DEF new, k
  <2>3. /\ m \in Nat
        /\ DOMAIN elem.counts = 1 .. m
        /\ DOMAIN new.counts = 1 .. m + 1
        /\ \A j \in 1 .. m : new.counts[j] = elem.counts[j]
        /\ new.counts[m + 1] = pair
    BY <1>1, <2>2
  <2>4. CASE c = location
    <3>1. GetCount(elem, c) = 0
      BY <2>1, <2>4, GetCountAbsent
    <3>2. GetCount(new, new.counts[m + 1].location) = new.counts[m + 1].count
      BY <1>2, <2>3, GetCountPresent
    <3> QED
      BY <2>3, <2>4, <3>1, <3>2 DEF new
  <2>5. CASE c # location /\ \E j \in DOMAIN elem.counts : elem.counts[j].location = c
    <3>1. PICK j \in DOMAIN elem.counts : elem.counts[j].location = c
      BY <2>5
    <3>2. GetCount(elem, c) = elem.counts[j].count
      BY <3>1, GetCountPresent
    <3>3. j \in DOMAIN new.counts /\ new.counts[j] = elem.counts[j]
      BY <2>3
    <3>4. GetCount(new, c) = elem.counts[j].count
      BY <1>2, <3>1, <3>3, GetCountPresent
    <3> QED
      BY <1>3, <2>5, <3>2, <3>4 DEF new
  <2>6. CASE c # location /\ \A j \in DOMAIN elem.counts : elem.counts[j].location # c
    <3>1. \A j \in DOMAIN new.counts : new.counts[j].location # c
      BY <2>3, <2>6
    <3>2. GetCount(elem, c) = 0 /\ GetCount(new, c) = 0
      BY <1>2, <2>6, <3>1, GetCountAbsent
    <3> QED
      BY <2>6, <3>2 DEF new
  <2> QED
    BY <2>4, <2>5, <2>6
<1> QED
  BY <1>4, <1>5
-----------------------------------------------------------------------------
(* What a table holds of a product at a place is a number. *)
LEMMA CountAtType ==
  ASSUME NEW t, NEW elem \in Element, NEW name
  PROVE  CountAt(t, elem, name) \in Int
BY GetCountType DEF CountAt

(* Every good table is a ledger's state. *)
LEMMA LedgerState ==
  ASSUME NEW t, TableGood(t)
  PROVE  /\ ProductsOf(t) \in Seq([name : Cell, size : Cell])
         /\ PlacesOf(t) \in SUBSET Location
         /\ HereOf(t) \in IF PlacesOf(t) = {} THEN {NoLocation} ELSE PlacesOf(t)
         /\ StockOf(t) \in [DOMAIN ProductsOf(t) -> [Location -> Int]]
         /\ \A i \in DOMAIN ProductsOf(t), p \in Location \ PlacesOf(t) :
              StockOf(t)[i][p] = 0
<1>1. /\ t \in Table /\ t.locationIndices \in Seq(Location)
      /\ t.elements \in Seq(Element)
  BY DEF TableGood, Table
<1>2. \A i \in DOMAIN t.elements : t.elements[i] \in Element
  BY <1>1
<1>3. ProductsOf(t) \in Seq([name : Cell, size : Cell])
  <2>1. \A i \in DOMAIN t.elements :
          [name |-> t.elements[i].name, size |-> t.elements[i].size]
             \in [name : Cell, size : Cell]
    BY <1>2 DEF Element
  <2>2. DOMAIN t.elements = 1 .. Len(t.elements) /\ Len(t.elements) \in Nat
    BY <1>1
  <2>3. /\ DOMAIN ProductsOf(t) = 1 .. Len(t.elements)
        /\ ProductsOf(t)
             \in [1 .. Len(t.elements) -> [name : Cell, size : Cell]]
    BY <2>1, <2>2 DEF ProductsOf
  <2> QED
    BY <2>2, <2>3, FunctionIsSeq
<1>4. PlacesOf(t) \in SUBSET Location
  BY <1>1 DEF PlacesOf, ToSet
<1>5. HereOf(t) \in IF PlacesOf(t) = {} THEN {NoLocation} ELSE PlacesOf(t)
  <2>1. CASE t.locationIndices = <<>>
    BY <2>1 DEF HereOf, PlacesOf, ToSet
  <2>2. CASE t.locationIndices # <<>>
    <3>1. t.location \in DOMAIN t.locationIndices
      BY <1>1, <2>2 DEF TableGood, TableAddressable
    <3> QED
      BY <2>2, <3>1 DEF HereOf, PlacesOf, ToSet
  <2> QED
    BY <2>1, <2>2
<1>6. DOMAIN ProductsOf(t) = DOMAIN t.elements
  BY DEF ProductsOf
<1>7. StockOf(t) \in [DOMAIN ProductsOf(t) -> [Location -> Int]]
  BY <1>2, <1>6, CountAtType DEF StockOf
<1>8. ASSUME NEW i \in DOMAIN t.elements, NEW p \in Location \ PlacesOf(t)
      PROVE  StockOf(t)[i][p] = 0
  <2>1. \A j \in DOMAIN t.locationIndices : t.locationIndices[j] # p
    BY DEF PlacesOf, ToSet
  <2>2. LocationIndex(t.locationIndices, p) = 0
    BY <1>1, <2>1, LocationIndexFound
  <2> QED
    BY <2>2 DEF StockOf, CountAt
<1> QED
  BY <1>3, <1>4, <1>5, <1>6, <1>7, <1>8

(* setLocation moves: it changes where the user stands and nothing else. *)
LEMMA SetLocationMoves ==
  ASSUME NEW t, TableGood(t), NEW name \in Location,
         NEW new, new = SetTableLocation(t, name)
  PROVE  /\ HereOf(new) = name
         /\ PlacesOf(new) = PlacesOf(t) \cup {name}
         /\ ProductsOf(new) = ProductsOf(t)
         /\ StockOf(new) = StockOf(t)
<1> DEFINE locations == t.locationIndices
           k == LocationIndex(locations, name)
<1>1. /\ t \in Table /\ locations \in Seq(Location)
      /\ t.elements \in Seq(Element)
  BY DEF TableGood, Table
<1>2. CASE k # 0
  <2>1. k \in DOMAIN locations /\ locations[k] = name
    BY <1>1, <1>2, LocationIndexFound
  <2>2. new = [t EXCEPT !.location = k]
    BY <1>2 DEF SetTableLocation
  <2> HIDE DEF k
  <2>3. /\ new.location = k /\ new.elements = t.elements
        /\ new.locationIndices = locations
    BY <1>1, <2>2 DEF Table
  <2>4. locations # <<>>
    BY <2>1
  <2>5. HereOf(new) = name
    BY <2>1, <2>3, <2>4 DEF HereOf
  <2>6. PlacesOf(new) = PlacesOf(t) \cup {name}
    BY <2>1, <2>3 DEF PlacesOf, ToSet
  <2> QED
    BY <2>3, <2>5, <2>6 DEF ProductsOf, StockOf, CountAt
<1>3. CASE k = 0
  <2> DEFINE m == Len(locations)
  <2>1. \A j \in DOMAIN locations : locations[j] # name
    BY <1>1, <1>3, LocationIndexFound
  <2>2. new = [t EXCEPT !.location = m + 1, !.locationIndices = Append(@, name)]
    BY <1>3 DEF SetTableLocation
  <2>3. /\ new.location = m + 1 /\ new.elements = t.elements
        /\ new.locationIndices = Append(locations, name)
    BY <1>1, <2>2 DEF Table
  <2>4. /\ new.locationIndices \in Seq(Location)
        /\ m \in Nat /\ DOMAIN locations = 1 .. m
        /\ DOMAIN new.locationIndices = 1 .. m + 1
        /\ new.locationIndices # <<>>
        /\ \A j \in 1 .. m : new.locationIndices[j] = locations[j]
        /\ new.locationIndices[m + 1] = name
    BY <1>1, <2>3
  <2>5. HereOf(new) = name
    BY <2>3, <2>4 DEF HereOf
  <2>6. PlacesOf(new) = PlacesOf(t) \cup {name}
    BY <2>4 DEF PlacesOf, ToSet
  <2>7. ASSUME NEW elem \in Element, ElementAddressable(elem, m),
               NEW p \in Location
        PROVE  CountAt(new, elem, p) = CountAt(t, elem, p)
    <3> DEFINE c == LocationIndex(locations, p)
               d == LocationIndex(new.locationIndices, p)
    <3>1. CASE p = name
      <4>1. c = 0
        BY <1>3, <3>1
      <4>2. d = m + 1
        <5>1. \A j \in DOMAIN new.locationIndices :
                new.locationIndices[j] = new.locationIndices[m + 1]
                  => m + 1 <= j
          BY <2>1, <2>4
        <5>2. m + 1 \in DOMAIN new.locationIndices
          BY <2>4
        <5> QED
          BY <2>4, <3>1, <5>1, <5>2, LocationIndexIs
      <4>3. GetCount(elem, m + 1) = 0
        <5>1. \A j \in DOMAIN elem.counts : elem.counts[j].location # m + 1
          BY <2>4, <2>7 DEF ElementAddressable
        <5> QED
          BY <5>1, GetCountAbsent
      <4> QED
        BY <4>1, <4>2, <4>3 DEF CountAt
    <3>2. CASE p # name /\ c = 0
      <4>1. \A j \in DOMAIN locations : locations[j] # p
        BY <1>1, <3>2, LocationIndexFound
      <4>2. \A j \in DOMAIN new.locationIndices : new.locationIndices[j] # p
        BY <2>4, <3>2, <4>1
      <4>3. d = 0
        BY <2>4, <4>2, LocationIndexFound
      <4> QED
        BY <3>2, <4>3 DEF CountAt
    <3>3. CASE p # name /\ c # 0
      <4>1. /\ c \in DOMAIN locations /\ locations[c] = p
            /\ \A j \in DOMAIN locations : locations[j] = p => c <= j
        BY <1>1, <3>3, LocationIndexFound
      <4> HIDE DEF c
      <4>2. /\ c \in DOMAIN new.locationIndices /\ new.locationIndices[c] = p
            /\ \A j \in DOMAIN new.locationIndices :
                 new.locationIndices[j] = p => c <= j
        BY <2>4, <3>3, <4>1
      <4>3. d = c
        BY <2>4, <4>2, LocationIndexIs
      <4> QED
        BY <4>3 DEF CountAt, c
    <3> QED
      BY <3>1, <3>2, <3>3
  <2>8. \A i \in DOMAIN t.elements :
          t.elements[i] \in Element /\ ElementAddressable(t.elements[i], m)
    BY <1>1 DEF TableGood, TableAddressable
  <2>9. StockOf(new) = StockOf(t)
    BY <2>3, <2>7, <2>8 DEF StockOf
  <2>10. ProductsOf(new) = ProductsOf(t)
    BY <2>3 DEF ProductsOf
  <2> QED
    BY <2>5, <2>6, <2>9, <2>10
<1> QED
  BY <1>2, <1>3

(* alter records: one number of one product, where the user stands, or at   *)
(* the default place when there is none yet.                                *)
LEMMA AlterRecords ==
  ASSUME NEW t, TableGood(t), NEW idx \in DOMAIN t.elements, NEW delta \in Int,
         NEW new, new = AlterTable(t, idx, delta)
  PROVE  /\ HereOf(new) = IF HereOf(t) = NoLocation THEN Global ELSE HereOf(t)
         /\ PlacesOf(new) = PlacesOf(t) \cup {HereOf(new)}
         /\ ProductsOf(new) = ProductsOf(t)
         /\ StockOf(new) = [StockOf(t) EXCEPT ![idx][HereOf(new)] = @ + delta]
<1> DEFINE locations == IF t.locationIndices = <<>> THEN <<Global>>
                        ELSE t.locationIndices
           n    == Len(locations)
           elem == AlterElement(t.elements[idx], t.location, delta)
<1>1. /\ t \in Table /\ t.locationIndices \in Seq(Location)
      /\ t.elements \in Seq(Element)
  BY DEF TableGood, Table
<1>2. locations \in Seq(Location) /\ n \in Nat /\ locations # <<>>
  BY <1>1, GlobalAssumption
<1>3. t.location \in 1 .. n
  BY <1>1, <1>2 DEF TableGood, TableAddressable
<1>4. \A i \in DOMAIN t.elements :
        t.elements[i] \in Element /\ ElementAddressable(t.elements[i], n)
  <2>1. Len(t.locationIndices) <= n /\ Len(t.locationIndices) \in Nat
    BY <1>1
  <2> QED
    BY <1>1, <1>2, <2>1 DEF TableGood, TableAddressable, ElementAddressable
<1>5. new = [t EXCEPT !.locationIndices = locations, !.elements[idx] = elem]
  BY DEF AlterTable
<1>6. elem \in Element /\ elem.name = t.elements[idx].name
      /\ elem.size = t.elements[idx].size
  <2>1. elem \in Element
    BY <1>2, <1>3, <1>4, AlterElementGood
  <2> QED
    BY <1>4, <2>1 DEF AlterElement, Element
<1>7. \A c : GetCount(elem, c)
              = GetCount(t.elements[idx], c) + (IF c = t.location THEN delta ELSE 0)
  BY <1>2, <1>3, <1>4, GetCountAltered
<1> HIDE DEF elem
<1>8. /\ new.elements = [t.elements EXCEPT ![idx] = elem]
      /\ new.locationIndices = locations /\ new.location = t.location
  BY <1>1, <1>5 DEF Table
<1>9. ProductsOf(new) = ProductsOf(t)
  BY <1>1, <1>6, <1>8 DEF ProductsOf
<1>10. HereOf(new) = locations[t.location]
  BY <1>2, <1>8 DEF HereOf
<1>11. HereOf(new) = IF HereOf(t) = NoLocation THEN Global ELSE HereOf(t)
  <2>1. CASE t.locationIndices = <<>>
    BY <1>10, <2>1 DEF HereOf, TableGood, TableAddressable
  <2>2. CASE t.locationIndices # <<>>
    <3>1. HereOf(t) \in Location
      BY <1>1, <1>3, <2>2 DEF HereOf
    <3> QED
      BY <1>10, <2>2, <3>1, NoLocationAssumption DEF HereOf
  <2> QED
    BY <2>1, <2>2
<1>12. PlacesOf(new) = PlacesOf(t) \cup {HereOf(new)}
  <2>1. CASE t.locationIndices = <<>>
    BY <1>8, <1>10, <2>1 DEF PlacesOf, ToSet, TableGood, TableAddressable
  <2>2. CASE t.locationIndices # <<>>
    BY <1>1, <1>3, <1>8, <1>10, <2>2 DEF PlacesOf, ToSet
  <2> QED
    BY <2>1, <2>2
<1>13. \A j \in DOMAIN locations :
         locations[j] = locations[t.location] => t.location <= j
  BY <1>1, <1>3 DEF TableGood, FirstOfItsName
<1>14. LocationIndex(locations, HereOf(new)) = t.location
  <2>1. t.location \in DOMAIN locations
    BY <1>2, <1>3
  <2> QED
    BY <1>2, <1>10, <1>13, <2>1, LocationIndexIs
<1>15. ASSUME NEW p \in Location, p # HereOf(new)
       PROVE  LocationIndex(locations, p) # t.location
  <2> HIDE DEF locations
  <2>1. LocationIndex(locations, p) # 0 => locations[LocationIndex(locations, p)] = p
    BY <1>2, LocationIndexFound
  <2>2. t.location # 0
    BY <1>3
  <2> QED
    BY <1>10, <1>15, <2>1, <2>2
(* The default place appears with nothing counted at it. *)
<1>16. ASSUME NEW e \in Element, NEW i \in DOMAIN t.elements,
              e = t.elements[i], NEW p \in Location
       PROVE  CountAt(t, e, p)
                = IF LocationIndex(locations, p) = 0 THEN 0
                  ELSE GetCount(e, LocationIndex(locations, p))
  <2>1. CASE t.locationIndices # <<>>
    BY <2>1 DEF CountAt
  <2>2. CASE t.locationIndices = <<>>
    <3>0. DOMAIN t.locationIndices = {}
      BY <2>2
    <3>1. LocationIndex(t.locationIndices, p) = 0
      BY <1>1, <3>0, LocationIndexFound
    <3>2. \A c : \A j \in DOMAIN e.counts : e.counts[j].location # c
      BY <1>16, <2>2 DEF TableGood, TableAddressable, ElementAddressable
    <3>3. \A c : GetCount(e, c) = 0
      BY <3>2, GetCountAbsent
    <3> QED
      BY <3>1, <3>3 DEF CountAt
  <2> QED
    BY <2>1, <2>2
<1>17. ASSUME NEW i \in DOMAIN t.elements, NEW p \in Location
       PROVE  CountAt(new, new.elements[i], p)
                = CountAt(t, t.elements[i], p)
                    + (IF i = idx /\ p = HereOf(new) THEN delta ELSE 0)
  <2> DEFINE c == LocationIndex(locations, p)
             old == t.elements[i]
  <2>1. CountAt(t, old, p) = IF c = 0 THEN 0 ELSE GetCount(old, c)
    BY <1>4, <1>16
  <2>2. CountAt(new, new.elements[i], p)
          = IF c = 0 THEN 0 ELSE GetCount(new.elements[i], c)
    BY <1>8 DEF CountAt
  <2>3. CountAt(t, old, p) \in Int
    BY <1>4, CountAtType
  <2>4. c = t.location <=> p = HereOf(new)
    BY <1>14, <1>15
  <2>5. t.location # 0
    BY <1>3
  <2> HIDE DEF c
  <2>6. CASE i # idx
    BY <1>1, <1>8, <2>1, <2>2, <2>3, <2>6
  <2>7. CASE i = idx
    <3>1. new.elements[i] = elem
      BY <1>1, <1>8, <2>7
    <3>2. GetCount(elem, c) = GetCount(old, c) + (IF c = t.location THEN delta ELSE 0)
      BY <1>7, <2>7
    <3> QED
      BY <2>1, <2>2, <2>3, <2>4, <2>5, <2>7, <3>1, <3>2
  <2> QED
    BY <2>6, <2>7
<1>18. HereOf(new) \in Location
  BY <1>2, <1>3, <1>10
<1>19. StockOf(new) = [StockOf(t) EXCEPT ![idx][HereOf(new)] = @ + delta]
  <2> DEFINE f == StockOf(new)
             g == [StockOf(t) EXCEPT ![idx][HereOf(new)] = @ + delta]
  <2>1. DOMAIN new.elements = DOMAIN t.elements
    BY <1>1, <1>8
  <2>2. /\ f = [i \in DOMAIN t.elements |->
                 [p \in Location |-> CountAt(new, new.elements[i], p)]]
        /\ StockOf(t) = [i \in DOMAIN t.elements |->
                 [p \in Location |-> CountAt(t, t.elements[i], p)]]
    BY <2>1 DEF StockOf
  <2>3. \A i \in DOMAIN t.elements, p \in Location : CountAt(t, t.elements[i], p) \in Int
    BY <1>4, CountAtType
  <2>4. g = [i \in DOMAIN t.elements |->
              [p \in Location |->
                 CountAt(t, t.elements[i], p)
                   + (IF i = idx /\ p = HereOf(new) THEN delta ELSE 0)]]
    <3>1. g = [i \in DOMAIN t.elements |->
                IF i = idx
                THEN [StockOf(t)[idx] EXCEPT ![HereOf(new)] = @ + delta]
                ELSE StockOf(t)[i]]
      BY <2>2
    <3>2. \A i \in DOMAIN t.elements :
            StockOf(t)[i] = [p \in Location |-> CountAt(t, t.elements[i], p)]
      BY <2>2
    <3>3. [StockOf(t)[idx] EXCEPT ![HereOf(new)] = @ + delta]
            = [p \in Location |->
                 CountAt(t, t.elements[idx], p)
                   + (IF p = HereOf(new) THEN delta ELSE 0)]
      <4>1. StockOf(t)[idx] = [p \in Location |-> CountAt(t, t.elements[idx], p)]
        BY <3>2
      <4>2. \A p \in Location : CountAt(t, t.elements[idx], p) \in Int
        BY <2>3
      <4> HIDE DEF locations, f, g
      <4> QED
        BY <1>18, <4>1, <4>2
    <3>4. \A i \in DOMAIN t.elements : i # idx =>
            StockOf(t)[i] = [p \in Location |->
              CountAt(t, t.elements[i], p)
                + (IF i = idx /\ p = HereOf(new) THEN delta ELSE 0)]
      BY <2>3, <3>2
    <3> QED
      BY <3>1, <3>3, <3>4
  <2> QED
    BY <1>17, <2>2, <2>4
<1> QED
  BY <1>9, <1>11, <1>12, <1>19

(* A parser that throws leaves no table; no parser says it found no file. *)
LEMMA RowsResults ==
  ASSUME NEW rows, NEW locations
  PROVE  LET read == ReadRows(rows, locations)
         IN  /\ read.result # "unable_to_open"
             /\ read.result = Aborted => read.table = EmptyTable
<1>1. ReadRows(rows, locations).result
        \in {"none", "unable_to_parse_count"}
      \/ ReadRows(rows, locations) = Refused(Aborted)
  BY DEF ReadRows, Loaded
<1>2. Refused(Aborted).result = Aborted /\ Refused(Aborted).table = EmptyTable
  BY DEF Refused
<1> QED
  BY <1>1, <1>2 DEF Aborted

(* The same of a stock list. *)
LEMMA ParseResults ==
  ASSUME NEW file, NEW source
  PROVE  LET parsed == ParseFromStream(file, source)
         IN  /\ parsed.result # "unable_to_open"
             /\ parsed.result = Aborted => parsed.table = EmptyTable
<1>1. ParseFromStream(file, source)
        \in {ReadRows(RowsRead(file, source), <<>>), Refused(Aborted),
            Refused("bad_header"), Refused("bad_BOM")}
  BY DEF ParseFromStream
<1>2. \A r : Refused(r).result = r /\ Refused(r).table = EmptyTable
  BY DEF Refused
<1> QED
  BY <1>1, <1>2, RowsResults DEF Aborted

(* The same of a reused file. *)
LEMMA ReuseResults ==
  ASSUME NEW file, NEW source
  PROVE  LET parsed == ReuseFromStream(file, source)
         IN  /\ parsed.result # "unable_to_open"
             /\ parsed.result = Aborted => parsed.table = EmptyTable
<1>1. ReuseFromStream(file, source)
        \in {ReadRows(RowsRead(file, source), file.locations),
            Refused(Aborted), Refused("bad_header")}
  BY DEF ReuseFromStream
<1>2. \A r : Refused(r).result = r /\ Refused(r).table = EmptyTable
  BY DEF Refused
<1> QED
  BY <1>1, <1>2, RowsResults DEF Aborted

(* The stock table implements the ledger: counting changes the one number   *)
(* it should, at the place the user stands at, moving between places        *)
(* changes none, a file that is refused costs nothing and only a load, or   *)
(* the abort of the process, replaces the list.                             *)
THEOREM ImplementsLedger == Spec => KeepsLedger
<1>1. Init => Book!Init
  <2>1. Init => EventOf(call) = "start"
    BY DEF Init, EventOf, Load
  <2>2. ProductsOf(EmptyTable) = <<>> /\ StockOf(EmptyTable) = <<>>
    BY DEF EmptyTable, ProductsOf, StockOf
  <2>3. PlacesOf(EmptyTable) = {} /\ HereOf(EmptyTable) = NoLocation
    BY DEF EmptyTable, PlacesOf, HereOf, ToSet
  <2> QED
    BY <2>1, <2>2, <2>3 DEF Init, Book!Init, Book!Empty
<1>2. IInv /\ IInv' /\ [Next]_vars => [Book!Next]_(Book!vars)
  <2> SUFFICES ASSUME IInv, IInv', [Next]_vars
               PROVE  [Book!Next]_(Book!vars)
    OBVIOUS
  <2>1. TableGood(table) /\ TableGood(table') /\ call' \in Call
    BY DEF IInv, TypeOK, CountsAddressable, CurrentIsFirst, TableGood
  <2>2. ASSUME NEW op \in Load, NEW result \in FileError \cup {Aborted},
               call' = [op |-> op, result |-> result],
               result = "unable_to_open" => UNCHANGED table,
               result = Aborted => table' = EmptyTable
        PROVE  Book!Next
    <3>1. EventOf(call') = LoadEvent(result)
      BY <2>2 DEF EventOf
    <3>2. CASE result = "unable_to_open"
      <4>1. EventOf(call') = "refused"
        BY <3>1, <3>2 DEF LoadEvent
      <4>2. Book!Refuse
        BY <2>2, <3>2, <4>1 DEF Book!Refuse
      <4> QED
        BY <4>2 DEF Book!Next
    <3>3. CASE result = Aborted
      <4>1. EventOf(call') = "aborted"
        BY <3>1, <3>3 DEF LoadEvent, Aborted
      <4>2. ProductsOf(EmptyTable) = <<>> /\ StockOf(EmptyTable) = <<>>
        BY DEF EmptyTable, ProductsOf, StockOf
      <4>3. PlacesOf(EmptyTable) = {} /\ HereOf(EmptyTable) = NoLocation
        BY DEF EmptyTable, PlacesOf, HereOf, ToSet
      <4>4. Book!Abort
        BY <2>2, <3>3, <4>1, <4>2, <4>3 DEF Book!Abort, Book!Empty
      <4> QED
        BY <4>4 DEF Book!Next
    <3>4. CASE result # "unable_to_open" /\ result # Aborted
      <4>1. EventOf(call') \in {"load", "failed_load"}
        BY <3>1, <3>4 DEF LoadEvent
      <4>2. Book!Load
        BY <2>1, <4>1, LedgerState DEF Book!Load
      <4> QED
        BY <4>2 DEF Book!Next
    <3> QED
      BY <3>2, <3>3, <3>4
  <2>3. ASSUME NEW file \in Files, NEW source \in Source, Import(file, source)
        PROVE  Book!Next
    <3> DEFINE parsed == ParseFromStream(file, source)
    <3>1. file \in File
      BY FilesAssumption
    <3>2. /\ parsed.result \in FileError \cup {Aborted}
          /\ parsed.result # "unable_to_open"
          /\ parsed.result = Aborted => parsed.table = EmptyTable
      BY <3>1, ParseGood, ParseResults
    <3>3. /\ table' = parsed.table
          /\ call' = [op |-> "import", result |-> parsed.result]
      BY <2>3 DEF Import
    <3> HIDE DEF parsed
    <3> QED
      BY <2>2, <3>2, <3>3 DEF Load
  <2>4. ASSUME NEW file \in Files, NEW source \in Source, Reuse(file, source)
        PROVE  Book!Next
    <3> DEFINE parsed == ReuseFromStream(file, source)
    <3>1. file \in File
      BY FilesAssumption
    <3>2. /\ parsed.result \in FileError \cup {Aborted}
          /\ parsed.result # "unable_to_open"
          /\ parsed.result = Aborted => parsed.table = EmptyTable
      BY <3>1, ReuseGood, ReuseResults
    <3>3. /\ table' = parsed.table
          /\ call' = [op |-> "reuse", result |-> parsed.result]
      BY <2>4 DEF Reuse
    <3> HIDE DEF parsed
    <3> QED
      BY <2>2, <3>2, <3>3 DEF Load
  <2>5. ASSUME NEW op \in Load, OpenFails(op)
        PROVE  Book!Next
    <3>1. /\ call' = [op |-> op, result |-> "unable_to_open"]
          /\ UNCHANGED table
      BY <2>5 DEF OpenFails
    <3>2. "unable_to_open" \in FileError \cup {Aborted}
      BY DEF FileError
    <3> QED
      BY <2>2, <3>1, <3>2 DEF Aborted
  <2>6. ASSUME NEW name \in Location, SetLocation(name)
        PROVE  Book!Next
    <3>1. EventOf(call') = "move"
      BY <2>6 DEF SetLocation, EventOf, Load
    <3>2. table' = SetTableLocation(table, name)
      BY <2>6 DEF SetLocation
    <3>3. Book!Move
      BY <2>1, <3>1, <3>2, SetLocationMoves DEF Book!Move
    <3> QED
      BY <3>3 DEF Book!Next
  <2>7. ASSUME NEW idx \in DOMAIN table.elements, NEW delta \in Delta,
               Alter(idx, delta)
        PROVE  Book!Next
    <3>1. EventOf(call') = "record"
      BY <2>7 DEF Alter, EventOf, Load
    <3>2. table' = AlterTable(table, idx, delta) /\ delta \in Int
      BY <2>7, DeltaAssumption DEF Alter
    <3>3. idx \in DOMAIN ProductsOf(table)
      BY DEF ProductsOf
    <3>4. Book!Record
      BY <2>1, <3>1, <3>2, <3>3, AlterRecords DEF Book!Record
    <3> QED
      BY <3>4 DEF Book!Next
  <2>8. CASE UNCHANGED vars
    BY <2>8 DEF vars, Book!vars
  <2> QED
    BY <2>3, <2>4, <2>5, <2>6, <2>7, <2>8 DEF Next
<1> QED
  BY <1>1, <1>2, Invariance, PTL DEF Spec, KeepsLedger, Book!Spec
-----------------------------------------------------------------------------
(* What a save of a good table is read back as. *)
LEMMA ReloadKeeps ==
  ASSUME TableGood(table)
  PROVE  ReloadKeepsTable
<1> DEFINE saved    == ExportToStream(table, FALSE)
           loaded   == ReuseFromStream(saved, "FILE")
           n        == Len(table.locationIndices)
           elements == table.elements
           m        == Len(elements)
<1>1. elements \in Seq(Element) /\ table.locationIndices \in Seq(Location)
  BY DEF TableGood, Table
<1>2. m \in Nat /\ n \in Nat /\ DOMAIN elements = 1 .. m
  BY <1>1
<1>3. /\ saved.header = "reuse_layout" /\ saved.terminated = TRUE
      /\ saved.locations = table.locationIndices
      /\ saved.rows \in Seq(Row) /\ Len(saved.rows) = m
      /\ \A i \in 1 .. m : saved.rows[i] = ExportRow(elements[i], n)
  BY SavedRows
<1> HIDE DEF saved
<1>4. loaded = ReadRows(saved.rows, table.locationIndices)
  BY <1>3 DEF ReuseFromStream, RowsRead
<1>5. /\ loaded.result = "none"
      /\ loaded.table.locationIndices = table.locationIndices
      /\ loaded.table.elements = [i \in 1 .. m |-> Reread(elements[i], n)]
  BY <1>2, <1>3, <1>4, ReadSaved
<1> HIDE DEF loaded
<1>6. ASSUME NEW i \in 1 .. m
      PROVE  LET old == elements[i]
                 new == loaded.table.elements[i]
             IN  /\ new.size = old.size
                 /\ new.name.text = Upper[old.name.text]
                 /\ old.name.quotes - new.name.quotes \in {0, 1}
                 /\ \A u \in 1 .. n :
                      LET error == GetCount(new, u) - GetCount(old, u)
                      IN  2 * error < Grain /\ -Grain < 2 * error
  <2> DEFINE old == elements[i]
             new == Reread(old, n)
  <2>1. old \in Element
    BY <1>1, <1>2
  <2> HIDE DEF old
  <2>2. /\ new.size = old.size
        /\ new.name.text = Upper[old.name.text]
        /\ old.name.quotes - new.name.quotes \in {0, 1}
        /\ \A u \in 1 .. n : GetCount(new, u) = Printed(GetCount(old, u))
    BY <1>2, <2>1, RereadKeeps
  <2> HIDE DEF new
  <2>3. ASSUME NEW u \in 1 .. n
        PROVE  LET error == GetCount(new, u) - GetCount(old, u)
               IN  2 * error < Grain /\ -Grain < 2 * error
    <3>1. GetCount(old, u) \in Int
      BY <2>1, GetCountType
    <3> QED
      BY <2>2, <3>1, PrintedClose
  <2>4. loaded.table.elements[i] = new
    BY <1>5 DEF new, old
  <2> QED
    BY <2>2, <2>3, <2>4 DEF old
<1>7. DOMAIN loaded.table.elements = DOMAIN elements
  BY <1>2, <1>5
<1> QED
  BY <1>2, <1>5, <1>6, <1>7 DEF ReloadKeepsTable, loaded, saved

(* A table saved with exportToStream and read with reuseFromStream is the   *)
(* table it was: for every file it came from, every sequence of calls, any  *)
(* number of products, locations and nested quotation marks.                *)
THEOREM SavesAreReread == Spec => []ReloadKeepsTable
<1>1. IInv => ReloadKeepsTable
  BY ReloadKeeps
  DEF IInv, TypeOK, CountsAddressable, CurrentIsFirst, TableGood
<1> QED
  BY <1>1, Invariance, PTL
-----------------------------------------------------------------------------
(* The counts of a product, summed in the order they were recorded in, are  *)
(* its counts summed column by column.                                      *)
LEMMA SumByColumn ==
  ASSUME NEW elem \in Element, NEW n \in Nat, ElementAddressable(elem, n)
  PROVE  SumCounts(elem)
           = SumFunctionOnSet([u \in 1 .. n |-> GetCount(elem, u)], 1 .. n)
<1> DEFINE counts == elem.counts
           I == DOMAIN counts
           f == [k \in I |-> counts[k].count]
           h == [k \in I |-> counts[k].location]
           g == [u \in 1 .. n |-> GetCount(elem, u)]
           K == {h[i] : i \in I}
<1>1. counts \in Seq(Count)
  BY DEF Element
<1>2. I = 1 .. Len(counts) /\ Len(counts) \in Nat
  BY <1>1
<1>3. IsFiniteSet(I) /\ IsFiniteSet(1 .. n)
  BY <1>2, FS_Interval
<1>4. \A i \in I : f[i] = counts[i].count /\ f[i] \in Int
  <2>1. \A i \in I : counts[i] \in Count
    BY <1>1
  <2>2. \A pair \in Count : pair.count \in Int
    BY DEF Count
  <2> QED
    BY <2>1, <2>2
<1>5. \A i \in I : h[i] = counts[i].location /\ h[i] \in 1 .. n
  BY DEF ElementAddressable
<1>6. \A u \in 1 .. n : g[u] = GetCount(elem, u) /\ g[u] \in Int
  BY GetCountType
<1>7. \A i \in I : g[h[i]] = f[i]
  BY <1>4, <1>5, <1>6, GetCountPresent
<1>8. \A i, j \in I : h[i] = h[j] => i = j
  BY <1>5 DEF ElementAddressable
<1>9. SumCounts(elem) = SumFunctionOnSet(f, I)
  BY DEF SumCounts, SumFunction
<1> HIDE DEF f, h, g
<1>10. SumFunctionOnSet(f, I) = SumFunctionOnSet(g, K)
  BY <1>3, <1>4, <1>7, <1>8, SumReorder
<1>11. K \in SUBSET (1 .. n)
  BY <1>5
<1>12. ASSUME NEW u \in (1 .. n) \ K PROVE g[u] = 0
  <2>1. \A j \in I : counts[j].location # u
    BY <1>5
  <2> QED
    BY <1>6, <2>1, GetCountAbsent
<1>13. SumFunctionOnSet(g, 1 .. n) = SumFunctionOnSet(g, K)
  <2> HIDE DEF K
  <2> QED
    BY <1>3, <1>6, <1>11, <1>12, SumZeros
<1> QED
  BY <1>9, <1>10, <1>13 DEF g

(* The Total column of an export is the sum of the columns next to it, for  *)
(* any number of locations and in whatever order they were counted in.      *)
THEOREM TotalAddsUp == Spec => []TotalIsColumnSum
<1>1. IInv => TotalIsColumnSum
  <2> SUFFICES ASSUME IInv, NEW i \in DOMAIN table.elements
               PROVE  SumCounts(table.elements[i])
                        = SumFunction([u \in 1 .. Len(table.locationIndices) |->
                                         GetCount(table.elements[i], u)])
    BY DEF TotalIsColumnSum
  <2> DEFINE elem == table.elements[i]
             n == Len(table.locationIndices)
             g == [u \in 1 .. n |-> GetCount(elem, u)]
  <2>1. elem \in Element /\ n \in Nat /\ ElementAddressable(elem, n)
    BY DEF IInv, TypeOK, Table, CountsAddressable, TableAddressable
  <2>2. SumFunction(g) = SumFunctionOnSet(g, 1 .. n)
    BY DEF SumFunction
  <2> QED
    BY <2>1, <2>2, SumByColumn
<1> QED
  BY <1>1, Invariance, PTL
-----------------------------------------------------------------------------
(* The rows of a minimal save. *)
LEMMA MinimalRows ==
  ASSUME NEW t, TableGood(t), NEW i \in DOMAIN t.elements,
         ~ IsEmpty(t.elements[i])
  PROVE  ExportToStream(t, FALSE).rows[i] \in ToSet(ExportToStream(t, TRUE).rows)
<1> DEFINE n == Len(t.locationIndices)
           kept == Counted(t.elements)
           rows == [j \in DOMAIN kept |-> ExportRow(kept[j], n)]
<1>1. t.elements \in Seq(Element)
  BY DEF TableGood, Table
<1>2. PICK p \in DOMAIN kept : kept[p] = t.elements[i]
  BY <1>1, CountedKeeps
<1> DEFINE minimal == ExportToStream(t, TRUE)
           full == ExportToStream(t, FALSE)
<1>3. minimal = [header |-> "reuse_layout", locations |-> t.locationIndices,
                 rows |-> rows, terminated |-> TRUE]
  BY DEF ExportToStream
<1>4. \A j \in 1 .. Len(t.elements) : full.rows[j] = ExportRow(t.elements[j], n)
  BY SavedRows
<1>5. p \in DOMAIN rows /\ rows[p] = ExportRow(t.elements[i], n)
  BY <1>2
<1> HIDE DEF rows, minimal, full, n
<1>6. minimal.rows = rows
  BY <1>3
<1>7. full.rows[i] = ExportRow(t.elements[i], n)
  BY <1>1, <1>4
<1>8. full.rows[i] \in ToSet(minimal.rows)
  BY <1>5, <1>6, <1>7 DEF ToSet
<1> QED
  BY <1>8 DEF full, minimal

(* A product whose counts sum up to 0 has none, or some of both signs.      *)
LEMMA EmptyHasNoCounts ==
  ASSUME NEW elem \in Element, NEW n \in Nat, ElementAddressable(elem, n),
         IsEmpty(elem)
  PROVE  \/ \A u \in 1 .. n : GetCount(elem, u) = 0
         \/ \E u, v \in 1 .. n : GetCount(elem, u) < 0 /\ GetCount(elem, v) > 0
<1> DEFINE g == [u \in 1 .. n |-> GetCount(elem, u)]
<1>1. IsFiniteSet(1 .. n)
  BY FS_Interval
<1>2. \A u \in 1 .. n : g[u] = GetCount(elem, u) /\ g[u] \in Int
  BY GetCountType
<1>3. SumFunctionOnSet(g, 1 .. n) = 0
  BY SumByColumn DEF IsEmpty
<1> HIDE DEF g
<1>4. (\A u \in 1 .. n : g[u] >= 0) \/ (\A u \in 1 .. n : g[u] <= 0)
        => \A u \in 1 .. n : g[u] = 0
  BY <1>1, <1>2, <1>3, SumShows
<1>5. CASE \E u, v \in 1 .. n : g[u] < 0 /\ g[v] > 0
  BY <1>2, <1>5
<1>6. CASE ~ \E u, v \in 1 .. n : g[u] < 0 /\ g[v] > 0
  <2>1. (\A u \in 1 .. n : g[u] >= 0) \/ (\A u \in 1 .. n : g[u] <= 0)
    BY <1>2, <1>6
  <2> QED
    BY <1>2, <1>4, <2>1
<1> QED
  BY <1>5, <1>6

(* A minimal save has the row of every product that was counted, unless its *)
(* counts cancel: whatever the numbers and however many products there are. *)
THEOREM MinimalSaveKeepsCounts == Spec => []MinimalSaveLosesNoCount
<1>1. IInv => MinimalSaveLosesNoCount
  <2> SUFFICES ASSUME IInv, NEW i \in DOMAIN table.elements
               PROVE  LET full    == ExportToStream(table, FALSE).rows
                          minimal == ExportToStream(table, TRUE).rows
                          At(u)  == GetCount(table.elements[i], u)
                          column == 1 .. Len(table.locationIndices)
                      IN  \/ full[i] \in ToSet(minimal)
                          \/ \A u \in column : At(u) = 0
                          \/ \E u, v \in column : At(u) < 0 /\ At(v) > 0
    BY DEF MinimalSaveLosesNoCount
  <2> DEFINE elem == table.elements[i]
             n == Len(table.locationIndices)
  <2>1. TableGood(table)
    BY DEF IInv, TypeOK, CountsAddressable, CurrentIsFirst, TableGood
  <2>2. elem \in Element /\ n \in Nat /\ ElementAddressable(elem, n)
    BY <2>1 DEF TableGood, Table, TableAddressable
  <2>3. CASE IsEmpty(elem)
    BY <2>2, <2>3, EmptyHasNoCounts
  <2>4. CASE ~ IsEmpty(elem)
    BY <2>1, <2>4, MinimalRows
  <2> QED
    BY <2>3, <2>4
<1> QED
  BY <1>1, Invariance, PTL
=============================================================================
