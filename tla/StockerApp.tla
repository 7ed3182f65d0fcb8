----------------------------- MODULE StockerApp -----------------------------
(* The app around the stock table: MainActivity with its spinner, its       *)
(* history and its quick save, and the two activities that reach the table  *)
(* by index, SearchResultActivity and AlterStockActivity.  Everything runs  *)
(* on the main thread, one callback after another; what is concurrent is    *)
(* the order of the callbacks.  The layout pass of the spinner, the arrival *)
(* of another activity, the re-creation of MainActivity (a rotation, or     *)
(* back and start again) and the end of the process come when the framework *)
(* sends them.  table, lookups and history are Kotlin globals: they outlive *)
(* the activity and end with the process.                                   *)
EXTENDS StockFile

CONSTANTS
  Files,         \* the files a user may pick
  Delta,         \* what the user may enter as a change of stock
  CutName,       \* a location's name that lost its end
  NoFile,        \* there is no quickdata.csv
  HistoryLimit,  \* addToHistory keeps this many entries
  MaxCount,      \* bound: the largest absolute count that is reached
  MaxLocations   \* bound: the number of locations that is reached

ASSUME AppAssumption ==
  /\ Files \subseteq File
  /\ Delta \subseteq Int
  /\ CutName \in Location
  /\ NoFile \notin File
  /\ HistoryLimit \in Nat
  /\ MaxCount \in Nat /\ MaxLocations \in Nat

VARIABLES
  table,     \* the global stockTable
  lookups,   \* the global lookupTable: the names it was built from
  history,   \* indices of the last altered products, newest first
  enabled,   \* setSearch: search, spinner and add location are enabled
  spinner,   \* the location spinner of the present MainActivity
  screen,    \* the activity on top, and the product it shows
  asked,     \* the activity that was asked for and has not arrived, or Main;
             \* bound: one at a time
  disk,      \* quickdata.csv
  unsaved    \* counts were altered since a load or a full save that worked

activities == <<screen, asked>>

vars ==
  <<table, lookups, history, enabled, spinner, activities, disk, unsaved>>

Activity ==
  [at : {"main", "results", "alter"}, id : Nat, from : {"main", "results"}]

Main == [at |-> "main", id |-> 0, from |-> "main"]
Results == [Main EXCEPT !.at = "results"]
Alter(id, from) == [at |-> "alter", id |-> id, from |-> from]

(* An index past the table was read.  Nothing is claimed of what follows    *)
(* but that the process ends some day.                                      *)
Undefined == [Main EXCEPT !.at = "undefined"]

TypeOK ==
  /\ table \in Table
  /\ lookups \in Seq(Cell)
  /\ history \in Seq(Nat \ {0})
  /\ enabled \in BOOLEAN /\ unsaved \in BOOLEAN
  /\ spinner \in [items : Seq(Location), next : Nat, old : Nat,
                  pending : BOOLEAN]
  /\ screen \in Activity \cup {Undefined} /\ asked \in Activity
  /\ disk \in File \cup {NoFile}
-----------------------------------------------------------------------------
(* onCreate: the adapter holds the default location, nothing is selected    *)
(* and nothing has been notified yet (0); a layout pass is on its way.      *)
NewSpinner ==
  [items |-> <<Global>>, next |-> 0, old |-> 0, pending |-> TRUE]

(* Adapter and selection change at once, the spinner follows in its layout. *)
Show(items, next) ==
  spinner' = [spinner EXCEPT !.items = items, !.next = next, !.pending = TRUE]

(* The system may bring back the activity that was on top or on its way,    *)
(* with its intent: the search finds nothing, and AlterStockActivity reads  *)
(* its product out of an empty table.                                       *)
Restored ==
  LET top == IF asked = Main THEN screen ELSE asked
  IN  IF top.at = "alter" THEN Undefined
      ELSE IF top.at = "results" THEN Results ELSE Main

NewProcess ==
  /\ table' = EmptyTable
  /\ lookups' = <<>>
  /\ history' = <<>>
  /\ enabled' = FALSE
  /\ spinner' = NewSpinner
  /\ screen' \in {Main, Restored} /\ asked' = Main
  /\ unsaved' = FALSE

Init ==
  /\ table = EmptyTable
  /\ lookups = <<>>
  /\ history = <<>>
  /\ enabled = FALSE
  /\ spinner = NewSpinner
  /\ screen = Main /\ asked = Main
  /\ disk = NoFile
  /\ unsaved = FALSE

Names(t) == [i \in DOMAIN t.elements |-> t.elements[i].name]

(* MainActivity takes taps as long as it is on top, also while the activity *)
(* it has asked for is on its way.                                          *)
OnMain == screen = Main

(* The file picker has answered: what was asked for before it is gone. *)
Picked == OnMain /\ asked = Main
-----------------------------------------------------------------------------
\* Mutant: the history is cleared after a load that succeeded only.
HistoryAfterSuccess(result) == IF result = "none" THEN <<>> ELSE history

HistoryAfter(result) == <<>>

(* Importing and reusing.  A file that makes the parser throw ends the      *)
(* process; a failed load leaves the spinner and the lookups as they were   *)
(* and disables them.                                                       *)
LoadFails(parsed) ==
  /\ parsed.result # "none"
  /\ IF parsed.result = Aborted
     THEN NewProcess
     ELSE /\ table' = parsed.table
          /\ history' = HistoryAfter(parsed.result)
          /\ enabled' = FALSE
          /\ unsaved' = FALSE
          /\ UNCHANGED <<lookups, spinner, activities>>

(* getFileForImport *)
Import(file) ==
  LET parsed == ParseFromStream(file, "FILE")
  IN  /\ Picked
      /\ UNCHANGED disk
      /\ \/ LoadFails(parsed)
         \/ /\ parsed.result = "none"
            /\ table' = parsed.table
            /\ lookups' = Names(parsed.table)
            /\ history' = <<>>
            /\ enabled' = TRUE
            /\ unsaved' = FALSE
            /\ Show(<<Global>>, spinner.next)
            /\ UNCHANGED activities

\* Mutant: generate is called by the import only.
LookupsKept(names) == lookups

LookupsFor(names) == names

\* Mutant: the location is left to the spinner's callback.
MovedByCallback(t, items) == t

(* setLocation with the last entry. *)
MovedToLast(t, items) == SetTableLocation(t, Last(items))

(* What getFileForReuse and quickLoad have in common.  The last location is *)
(* selected; a file without any gets the default one.                       *)
ReuseFile(file) ==
  LET parsed == ReuseFromStream(file, "FILE")
      items  == IF parsed.table.locationIndices = <<>> THEN <<Global>>
                ELSE parsed.table.locationIndices
  IN  \/ LoadFails(parsed)
      \/ /\ parsed.result = "none"
         /\ table' = MovedToLast(parsed.table, items)
         /\ lookups' = LookupsFor(Names(parsed.table))
         /\ history' = <<>>
         /\ enabled' = TRUE
         /\ unsaved' = FALSE
         /\ Show(items, Len(items))
         /\ UNCHANGED activities

Reuse(file) == Picked /\ ReuseFile(file) /\ UNCHANGED disk

(* Without a file the table is kept, and yet search is disabled. *)
NothingToLoad ==
  /\ history' = <<>>
  /\ enabled' = FALSE
  /\ UNCHANGED <<table, lookups, spinner, activities, unsaved>>

QuickLoad ==
  /\ IF disk = NoFile THEN NothingToLoad ELSE ReuseFile(disk)
  /\ UNCHANGED disk

(* quickLoadQuery: the dialog is shown only while search is enabled. *)
QuickLoadConfirmed == OnMain /\ enabled /\ QuickLoad

QuickLoadUnasked == OnMain /\ ~enabled /\ QuickLoad
-----------------------------------------------------------------------------
(* What is left of a file when its writing ends early: a part of its first  *)
(* line, or some whole rows and perhaps a part of the next.  A number that  *)
(* is cut loses its last digits, or all of them.                            *)
CutRows(row) ==
  {[row EXCEPT !.counts = SubSeq(@, 1, n)] : n \in 0 .. Len(row.counts)}
    \cup {[row EXCEPT !.counts[n] = v] :
            n \in DOMAIN row.counts \cap {Len(row.counts)},
            v \in {0, NoNumber}}
    \cup {[row EXCEPT !.short = TRUE, !.counts = <<>>]}

CutHeaders(file) ==
  {[file EXCEPT !.header = h, !.locations = <<>>, !.rows = <<>>,
                !.terminated = FALSE] : h \in {"other", "reuse_prefix"}}
    \cup {[file EXCEPT !.locations = ls, !.rows = <<>>, !.terminated = FALSE] :
            ls \in {SubSeq(file.locations, 1, n) : n \in 0 .. Len(file.locations)}
                     \cup {Append(SubSeq(file.locations, 1, n - 1), CutName) :
                             n \in DOMAIN file.locations}}

Torn(file) ==
  CutHeaders(file)
    \cup {[file EXCEPT !.rows = SubSeq(@, 1, n)] : n \in 0 .. Len(file.rows)}
    \cup UNION {{[file EXCEPT !.rows = Append(SubSeq(@, 1, n - 1), cut),
                              !.terminated = FALSE] :
                   cut \in CutRows(file.rows[n])} : n \in DOMAIN file.rows}

Saved == ExportToStream(table, FALSE)

(* quickSave says that the file was saved, whether or not it could be       *)
(* opened and all of it was written.                                        *)
QuickSave ==
  /\ OnMain
  /\ disk' \in {Saved, disk} \cup Torn(Saved)
  /\ unsaved' = (unsaved /\ disk' # Saved)
  /\ UNCHANGED <<table, lookups, history, enabled, spinner, activities>>

(* A save of everything to a file of the user's. *)
Save ==
  /\ Picked
  /\ unsaved' \in {unsaved, FALSE}
  /\ UNCHANGED <<table, lookups, history, enabled, spinner, activities, disk>>

(* The process ends while quickSave writes: fopen has emptied the old file. *)
KilledWhileSaving ==
  /\ OnMain
  /\ disk' \in Torn(Saved)
  /\ NewProcess

Killed == NewProcess /\ UNCHANGED disk

(* MainActivity is destroyed and created again; the globals stay.  (The new *)
(* spinner may add the default location: the bound is checked here.)        *)
Recreate ==
  /\ OnMain
  /\ Len(SetTableLocation(table, Global).locationIndices) <= MaxLocations
  /\ enabled' = FALSE
  /\ spinner' = NewSpinner
  /\ UNCHANGED <<table, lookups, history, activities, disk, unsaved>>
-----------------------------------------------------------------------------
(* The user picks an entry of the spinner, from the drop-down window that   *)
(* opens over the laid out spinner.                                         *)
SelectItem(position) ==
  /\ OnMain /\ enabled /\ ~spinner.pending
  /\ Show(spinner.items, position)
  /\ UNCHANGED <<table, lookups, history, enabled, activities, disk, unsaved>>

(* The wanted position, brought into the range of the adapter. *)
Position ==
  LET count == Len(spinner.items)
  IN  IF spinner.next = 0 THEN 1
      ELSE IF spinner.next > count THEN count ELSE spinner.next

(* The spinner's layout: onItemSelected is called when the position differs *)
(* from the one notified last.                                              *)
SpinnerLayout ==
  /\ spinner.pending
  /\ spinner' = [spinner EXCEPT !.next = Position, !.old = Position,
                                !.pending = FALSE]
  /\ table' = IF Position # spinner.old /\ table.locationIndices # <<>>
              THEN SetTableLocation(table, spinner.items[Position])
              ELSE table
  /\ UNCHANGED <<lookups, history, enabled, activities, disk, unsaved>>

\* Mutant: the default entry stays when the first location comes.
EntriesKept == spinner.items

(* The entries addLocation keeps: the default one goes. *)
Entries ==
  IF table.locationIndices = <<>> THEN Tail(spinner.items) ELSE spinner.items

(* addLocation: the default entry makes way for the first location; a new   *)
(* one is selected by a position one past the end, which the layout brings  *)
(* into range.                                                              *)
AddLocation(name) ==
  LET new == SetTableLocation(table, name)
  IN  /\ OnMain /\ enabled
      /\ Len(new.locationIndices) <= MaxLocations
      /\ table' = new
      /\ IF Len(new.locationIndices) # Len(table.locationIndices)
         THEN Show(Append(Entries, name), Len(Entries) + 2)
         ELSE Show(Entries, new.location)
      /\ UNCHANGED <<lookups, history, enabled, activities, disk, unsaved>>
-----------------------------------------------------------------------------
(* startActivity only asks for the next activity. *)
Ask(activity) ==
  /\ asked = Main
  /\ asked' = activity
  /\ UNCHANGED <<table, lookups, history, enabled, spinner, screen, disk,
                 unsaved>>

Search == OnMain /\ enabled /\ Ask(Results)

(* The history list can be tapped whether or not search is enabled. *)
OpenHistory(k) == OnMain /\ Ask(Alter(history[k], "main"))

(* A result that is shown is one whose name the table had. *)
OpenResult(id) ==
  /\ screen = Results /\ id \in DOMAIN table.elements
  /\ Ask(Alter(id, "results"))

(* The products an arriving activity may read: its own, or those its search *)
(* finds with the lookup table of that moment.                              *)
Reads(activity) ==
  IF activity.at = "alter" THEN {activity.id} ELSE DOMAIN lookups

(* onCreate of AlterStockActivity and of SearchResultActivity. *)
Arrive ==
  /\ asked # Main
  /\ asked.at = "alter" => asked.id \in DOMAIN table.elements
  /\ screen' = asked /\ asked' = Main
  /\ UNCHANGED <<table, lookups, history, enabled, spinner, disk, unsaved>>

(* The table was replaced between asking and arriving. *)
ArriveStale ==
  /\ asked # Main
  /\ ~(Reads(asked) \subseteq DOMAIN table.elements)
  /\ screen' = Undefined /\ asked' = Main
  /\ UNCHANGED <<table, lookups, history, enabled, spinner, disk, unsaved>>

(* addToHistory: newest first, the oldest entries beyond the limit go. *)
AddToHistory(id) ==
  history' = SubSeq(<<id>> \o history, 1,
                    IF Len(history) < HistoryLimit THEN Len(history) + 1
                    ELSE HistoryLimit)

(* confirmAlter, and confirmAndBackToResult.  Both only ask for the next    *)
(* activity: until it arrives this one still takes taps and Enter keys.     *)
Confirm(delta) ==
  /\ screen.at = "alter"
  /\ GetCount(table.elements[screen.id], table.location) + delta
       \in -MaxCount .. MaxCount
  /\ table' = AlterTable(table, screen.id, delta)
  /\ AddToHistory(screen.id)
  /\ unsaved' = TRUE
  /\ UNCHANGED <<lookups, enabled, spinner, activities, disk>>

(* The next activity arrives, after a Confirm or because the user goes back *)
(* without one.                                                             *)
Back(activity) ==
  /\ asked = Main
  /\ screen' = activity
  /\ UNCHANGED <<table, lookups, history, enabled, spinner, asked, disk,
                 unsaved>>

BackToSearch == screen.at \in {"results", "alter"} /\ Back(Main)

BackToResults ==
  screen.at = "alter" /\ screen.from = "results" /\ Back(Results)

Next ==
  \/ QuickLoadConfirmed
  \/ QuickLoadUnasked
  \/ \E file \in Files : Import(file) \/ Reuse(file)
  \/ QuickSave
  \/ Save
  \/ KilledWhileSaving
  \/ Killed
  \/ Recreate
  \/ \E position \in DOMAIN spinner.items : SelectItem(position)
  \/ SpinnerLayout
  \/ \E name \in Location : AddLocation(name)
  \/ Search
  \/ \E id \in DOMAIN lookups : OpenResult(id)
  \/ \E k \in DOMAIN history : OpenHistory(k)
  \/ Arrive
  \/ ArriveStale
  \/ \E delta \in Delta : Confirm(delta)
  \/ BackToSearch
  \/ BackToResults

Spec == Init /\ [][Next]_vars
-----------------------------------------------------------------------------
(* get and alter do not check an index.  Those in the history and in the    *)
(* open dialog are in the table whatever was loaded since they were taken.  *)
(* An index on its way to a dialog can only be past the table because of a  *)
(* load after the tap on the history, which has left no history to tap.     *)
IndicesInTable ==
  /\ \A k \in DOMAIN history : history[k] \in DOMAIN table.elements
  /\ screen.at = "alter" => screen.id \in DOMAIN table.elements
  /\ asked.at = "alter" /\ asked.id \notin DOMAIN table.elements =>
       asked.from = "main" /\ history = <<>>

(* A product found is the product altered: whenever a search can be made,   *)
(* the lookup table was built from the names the table has now.             *)
LookupsCurrent == enabled => lookups = Names(table)

(* While locations can be chosen the spinner offers the table's locations   *)
(* in the table's order, or the default one when it has none.               *)
SpinnerMirrorsTable ==
  enabled =>
    spinner.items = IF table.locationIndices = <<>> THEN <<Global>>
                    ELSE table.locationIndices

(* Once the layout has been done, the location the spinner shows is the one *)
(* counts are recorded at, also after it was given a position past its end. *)
SpinnerShowsLocation ==
  (enabled /\ ~spinner.pending /\ table.locationIndices # <<>>) =>
    spinner.items[spinner.old] = table.locationIndices[table.location]

(* However a quick save ends, what can be loaded from its file is a         *)
(* beginning of what was saved: no product and no count is made up from     *)
(* a part of a line.                                                        *)
TornSaveInventsNothing ==
  [][disk' # disk =>
       LET found == ReuseFromStream(disk', "FILE")
           whole == ReuseFromStream(Saved, "FILE")
       IN  found.result = "none" =>
             IsPrefix(found.table.elements, whole.table.elements)]_vars

(* A location comes from the user or from a file: the spinner's callback    *)
(* chooses among the table's locations.  addLocation's comment has the      *)
(* default location only as long as there is no other.                      *)
SelectingAddsNothing ==
  [][SpinnerLayout => Len(table'.locationIndices)
                        = Len(table.locationIndices)]_vars

(* Loading over counts that were not saved is announced first.              *)
LossIsConfirmed ==
  [][QuickLoadUnasked => (unsaved => table' = table)]_vars
=============================================================================
