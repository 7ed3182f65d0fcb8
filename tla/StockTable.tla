----------------------------- MODULE StockTable -----------------------------
(* The stock table as its callers drive it: class stockTable of             *)
(* stockTable.h behind the calls of stockTable.cpp.  Every call runs to its *)
(* end on the thread that made it, so one call is one action.               *)
EXTENDS StockFile

CONSTANTS
  Files,         \* the files a caller may hand over
  Delta,         \* what a count may be altered by
  MaxCount,      \* bound: the largest absolute count that is reached
  MaxLocations,  \* bound: the number of locations that is reached
  NoLocation     \* getCurrentLocation without locations

ASSUME FilesAssumption == Files \subseteq File

ASSUME DeltaAssumption == Delta \subseteq Int

ASSUME BoundAssumption == MaxCount \in Nat /\ MaxLocations \in Nat

ASSUME NoLocationAssumption == NoLocation \notin Location

VARIABLES
  table,   \* elements, locationIndices and location
  call     \* the last call and the code it returned

vars == <<table, call>>

Load == {"import", "reuse"}

Call == [op : Load, result : FileError \cup {Aborted}]
          \cup [op : {"new", "setLocation", "alter"}, result : {"none"}]

TypeOK ==
  /\ table \in Table
  /\ call \in Call
-----------------------------------------------------------------------------
Init ==
  /\ table = EmptyTable
  /\ call = [op |-> "new", result |-> "none"]

(* loadFromFILE and its two siblings.  When the parser throws, the process  *)
(* is aborted and the next one constructs an empty table.                   *)
Import(file, source) ==
  LET parsed == ParseFromStream(file, source)
  IN  /\ table' = parsed.table
      /\ call' = [op |-> "import", result |-> parsed.result]

(* reuseFromFILE and its two siblings. *)
Reuse(file, source) ==
  LET parsed == ReuseFromStream(file, source)
  IN  /\ table' = parsed.table
      /\ call' = [op |-> "reuse", result |-> parsed.result]

\* Mutant: the table is reset before the file is looked at.
OpenFailsLate(op) ==
  /\ call' = [op |-> op, result |-> "unable_to_open"]
  /\ table' = EmptyTable

(* The six of them when there is no file: they return before the reset. *)
OpenFails(op) ==
  /\ call' = [op |-> op, result |-> "unable_to_open"]
  /\ UNCHANGED table

SetLocation(name) ==
  /\ Len(SetTableLocation(table, name).locationIndices) <= MaxLocations
  /\ table' = SetTableLocation(table, name)
  /\ call' = [op |-> "setLocation", result |-> "none"]

(* The dialog and the lists only hold indices of the table's elements. *)
Alter(idx, delta) ==
  /\ GetCount(table.elements[idx], table.location) + delta
       \in -MaxCount .. MaxCount
  /\ table' = AlterTable(table, idx, delta)
  /\ call' = [op |-> "alter", result |-> "none"]

Next ==
  \/ \E file \in Files, source \in Source :
       Import(file, source) \/ Reuse(file, source)
  \/ \E op \in Load : OpenFails(op)
  \/ \E name \in Location : SetLocation(name)
  \/ \E idx \in DOMAIN table.elements, delta \in Delta : Alter(idx, delta)

Spec == Init /\ [][Next]_vars
-----------------------------------------------------------------------------
(* Every count can be reached: the current location and the location of     *)
(* every count are columns of the table, and no product has two counts for  *)
(* one location.  In particular a table without locations has no counts,    *)
(* which AlterStockActivity.onCreate relies on.                             *)
CountsAddressable == TableAddressable(table)

(* The location in use is the first of its name: counts are recorded in the *)
(* column that setLocation and the spinner's labels can choose again, even  *)
(* when a reused file has two columns of one name.                          *)
CurrentIsFirst == FirstOfItsName(table)

(* The Total column exportToStream writes, which is stockElement::sum, is   *)
(* the sum of the columns it writes next to it with getCount.               *)
TotalIsColumnSum ==
  \A i \in DOMAIN table.elements :
    SumCounts(table.elements[i])
      = SumFunction([u \in 1 .. Len(table.locationIndices) |->
                       GetCount(table.elements[i], u)])

(* A minimal save, which is also what is broadcast, leaves a counted        *)
(* product out only if it has counts of both signs, which cancel.           *)
MinimalSaveLosesNoCount ==
  LET full    == ExportToStream(table, FALSE).rows
      minimal == ExportToStream(table, TRUE).rows
  IN  \A i \in DOMAIN table.elements :
        LET At(u)  == GetCount(table.elements[i], u)
            column == 1 .. Len(table.locationIndices)
        IN  \/ full[i] \in ToSet(minimal)
            \/ \A u \in column : At(u) = 0
            \/ \E u, v \in column : At(u) < 0 /\ At(v) > 0

(* Saving and reusing gives the table back: same products in the same       *)
(* order, same sizes and locations, every count at its location to within   *)
(* the printed precision; only a name may lose a pair of wrapping quotes.   *)
ReloadKeepsTable ==
  LET saved  == ExportToStream(table, FALSE)
      loaded == ReuseFromStream(saved, "FILE")
      n      == Len(table.locationIndices)
  IN  /\ loaded.result = "none"
      /\ loaded.table.locationIndices = table.locationIndices
      /\ DOMAIN loaded.table.elements = DOMAIN table.elements
      /\ \A i \in DOMAIN table.elements :
           LET old == table.elements[i]
               new == loaded.table.elements[i]
           IN  /\ new.size = old.size
               /\ new.name.text = Upper[old.name.text]
               /\ old.name.quotes - new.name.quotes \in {0, 1}
               /\ \A u \in 1 .. n :
                    LET error == GetCount(new, u) - GetCount(old, u)
                    IN  2 * error < Grain /\ -Grain < 2 * error
-----------------------------------------------------------------------------
(* A table as a ledger.  Two columns of one name are one place: the first   *)
(* of them, the one the code finds.                                         *)
ProductsOf(t) ==
  [i \in DOMAIN t.elements |->
     [name |-> t.elements[i].name, size |-> t.elements[i].size]]

PlacesOf(t) == ToSet(t.locationIndices)

HereOf(t) ==
  IF t.locationIndices = <<>> THEN NoLocation
  ELSE t.locationIndices[t.location]

CountAt(t, elem, name) ==
  LET column == LocationIndex(t.locationIndices, name)
  IN  IF column = 0 THEN 0 ELSE GetCount(elem, column)

StockOf(t) ==
  [i \in DOMAIN t.elements |->
     [name \in Location |-> CountAt(t, t.elements[i], name)]]

LoadEvent(result) ==
  IF result = "none" THEN "load"
  ELSE IF result = "unable_to_open" THEN "refused"
  ELSE IF result = Aborted THEN "aborted" ELSE "failed_load"

EventOf(c) ==
  IF c.op \in Load THEN LoadEvent(c.result)
  ELSE IF c.op = "setLocation" THEN "move"
  ELSE IF c.op = "alter" THEN "record" ELSE "start"

Book == INSTANCE Ledger WITH
          Product  <- [name : Cell, size : Cell],
          Place    <- Location,
          Nowhere  <- NoLocation,
          Amount   <- Delta,
          event    <- EventOf(call),
          products <- ProductsOf(table),
          places   <- PlacesOf(table),
          here     <- HereOf(table),
          stock    <- StockOf(table)

(* Whatever files it is given and in whatever order it is called, the table *)
(* is a ledger: counting changes the one number it should, at the place the *)
(* user stands at, moving changes none, a refused file costs nothing.       *)
KeepsLedger == Book!Spec

(* The parser verifies the header against its template and has an error for *)
(* every file that does not fit: a load always returns a code.              *)
LoadAlwaysReports == call.result # Aborted
=============================================================================
