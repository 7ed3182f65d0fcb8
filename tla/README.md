# Verification of StockerAndroid

StockerAndroid is an Android app for counting stock. It imports a list of
products (CSV), lets the user find products by words of their names, record
changes of stock at named locations, save and reuse the count as CSV, and send
it to another device in the local network. The parts that carry its logic are a
C++ library behind JNI and a few Kotlin activities. Paths below are relative to
`src/app/src/main/`; `stockTable.h` is
`cpp/StockerNatives/include/stockTable.h`, the Kotlin files are in
`java/com/example/cppapp/`.

The repository's own tests are the placeholders of the project template, and
its README promises nothing about behaviour. What the program is held to here is
what its comments, its messages and its error codes say, what one part assumes
of another, and an abstract specification of the stock table.

## 1. Inventory

| Part | State | Operations | Used by |
|---|---|---|---|
| Stock table, `stockTable.h` | `elements` (name, size, list of (location, count) pairs), `locationIndices`, `location` | load a stock list, reuse a saved count (each from a path, a FILE or a string), `setLocation`, `alter`, `exportToCSV`, `exportToString`, getters | MainActivity, AlterStockActivity, SearchResultActivity, broadcastCount |
| Word index, `lookupTable.cpp` | sorted map from words to product indices | built from a table, `splitSearch` | MainActivity builds it, SearchResultActivity searches |
| MainActivity | the Kotlin globals `table`, `lookups`, `history`; per instance the spinner, its adapter, which views are enabled; `quickdata.csv` on disk | import, reuse, quick save, quick load, save, minimal save, add location, choose location, search, open from history, broadcast | the user, the framework's life cycle |
| SearchResultActivity, AlterStockActivity | an index into the table each | list results, show a product, confirm a delta, go back | started by intents that carry the index as text |
| UDPSender, `UDPSender.h` | a socket with one outstanding receive, `data`, `responder`, its own `io_service` | `requestAddress`, `requestLink`, `awaitResponse` | broadcastCount |
| TCPSender, `TCPSender.h` | a socket, `isConnected` | `connect` with a time-out, `send`, `disconnect` | broadcastCount |
| broadcastCount in `MainActivity.kt` | two counters of time-outs | find a device, ask it for a link, connect, send the count | the menu |
| JNI layer, interfaces, Kotlin wrappers | pointers | forwards calls | all of the above |
| asio (vendored), template fragments, resources, build files | | | |

All of the app's code runs on the main thread, native calls included. What is
concurrent is the order of callbacks (user events, layout passes, activity
results, activity re-creation), the end of the process at any moment, other
devices' datagrams, and the kernel under asio's edge-triggered epoll.

What makes each part correct:

* **Stock table**: whatever files it is given and in whatever order it is
  called, every count belongs to one existing column, counts are recorded where
  the user believes to be, a count changes one number and a move none, a file
  that is refused costs nothing, a save can be reused without loss.
* **Word index**: a search returns exactly the products in whose names every
  keyword begins a word.
* **Activities**: the indices they hold are indices of the present table and
  those on their way can only be overtaken by a load in one known way, the
  lookups are those of the present table, the spinner shows what the table has
  and the location the table records at, an interrupted save makes nothing up.
* **UDPSender**: it never goes deaf, an empty answer means silence, the latest
  datagram is reported.
* **TCPSender**: a connection is not reported that was not made, one that was
  made late is not lost, a retry waits for its time.
* **broadcastCount**: the call ends once the other devices stop sending, its
  requests are bounded, the count goes to the device asked and on an acceptance.

`PROJECT.json` lists the hazards line by line, with the properties that cover
each or the reason none does yet.

## 2. Modules

| Module | Role |
|---|---|
| `StockElement` | `struct stockElement`: `AlterElement`, `SumCounts`, `GetCount` on the list of pairs |
| `StockFile` | the CSV files as the parsers see them; `ParseFromStream`, `ReuseFromStream`, `ExportToStream`, `Tidy`, `SetTableLocation`, `AlterTable` as pure operators on a table record |
| `CsvText` | the lines of the files character by character: `getField`, `clearQuotes`, `tidy`, the exporter's quotation marks; and that cells are enough where `StockFile` has them |
| `StockTable` | the class as a state machine, one action per native call; its invariants; the refinement mapping to `Ledger` |
| `Ledger` | the abstract specification: products, places, a number for each product at each place, and where the user stands |
| `StockerApp` | the session: the globals, the spinner, the history, the activities, quick save, re-creation and the end of the process, around the operators of `StockFile` |
| `LookupTable` | building the word index and searching it |
| `UdpSender` | UDPSender, asio's scheduler queue and the edge-triggered epoll, with datagrams arriving between any two steps; the refinement mapping to `Mailbox` |
| `Mailbox` | the abstract specification of UDPSender: what `awaitResponse` promises its caller |
| `TcpSender` | TCPSender, its scheduler queue, the reactor's pending connects, the kernel's socket and what the other device does to it |
| `Broadcast` | broadcastCount, composed of a `Mailbox` and a `TcpSender`, among devices that send and connect as they like |
| `Positions` | a set of positions in order: the n-th of them, all of them |
| `CollectionProofs` | lemmas about sums of finite sets, concatenations of many sequences, and the positions of `Positions` |
| `StockFileProofs` | lemmas about the operators of `StockFile`, for the next three |
| `StockTableProofs`, `StockerAppProofs`, `CsvTextProofs`, `LookupTableProofs`, `UdpSenderProofs`, `BroadcastProofs` | the theorems about the modules they are named for |
| `MCStockTable`, `MCCsvText`, `MCStockerApp`, `MCLookupTable` | values for the constants that TLC uses |

`StockTable` and `StockerApp` are both built from the operators of `StockFile`,
so what the app does to its table is what the proofs are about, and the table is
not modelled a second time.

`Broadcast` does not contain the detailed `UdpSender` but its abstraction.
`UdpSenderProofs!ImplementsMailbox` is the theorem that justifies it: a property
of `Broadcast` that holds over every `Mailbox` holds over the real sender. The
TCPSender has no such abstraction, because what it does with left-over attempts
is what the properties are about; it is composed as it is.

### How the model corresponds to the code

* An index `n` of the model is the C++ index `n - 1`.
* A **cell** of a file is a text and the number of pairs of quotation marks
  around it. `clearQuotes`, `tidy` and the exporter's `'"' << name << '"'`
  remove or add one pair. Quotation marks and commas that do not wrap a whole
  cell are abstracted away in `StockFile`; `CsvText` is about them, and its property
  `CellsSuffice` says that for the texts `StockFile` has the two agree.
* In `CsvText` a name, a size or a location is a sequence of characters, of which
  quotation marks and commas are told apart from all others. `Fields` is what
  `getField` returns call after call: a field ends at a comma with an even number
  of marks before it, and as `isQuoted` is false there the marks can be counted from
  the beginning of the line. A printed count is one character. A line break inside
  a cell is left out.
* A **file** is its header's kind, its location names, its rows and whether the
  last row ends with a line break. `inputFILE` turns false when it has met the
  end of the file, so it drops a last row without a line break; `inputStream`
  keeps it (`RowsRead`).
* A parser that runs past the end of a line throws out of `getField`; nothing
  catches the exception and the process is aborted. The model's result is
  `Aborted` and the table is that of the next process.
* A **count** is an integer number of steps. `Grain` is how many steps the last
  digit of `std::to_string` is worth; `Printed` rounds to it. `Grain` is odd so
  that no count is half way between two printed values. Rounding of float
  additions, infinities and NaN are not modelled.
* In `LookupTable` the loop over a name and the loop over a query are `Pieces`: what
  is taken at a position, and the position it goes on from, until that is behind
  the end. `Words` has the empty word `generate_generic` inserts when a name ends in
  a character that is not part of a word. The iterators `lower` and `end` of
  `search` are a set of words: those not less than the keyword, up to the first
  that does not start with it. The order in which `reduce` copies the indices is
  lost in its `std::sort`, so it takes the set of them.
* In `StockTable` a load returns a code in `call`; `OpenFails` stands for the
  null FILE or the stream that did not open, which return before the reset.
* In `StockerApp` the **spinner** is its adapter's items, the position that was
  asked for, the one that was last notified and whether a layout is pending.
  `SpinnerLayout` is what AdapterView does with them: it brings the position
  into range and calls `onItemSelected` when it differs from the last one
  notified. This part is Android's, modelled from how MainActivity uses it.
* `Recreate` is a new MainActivity over the same globals: a rotation, or leaving
  the app with Back and starting it again. `Killed` is a new process.
* `KilledWhileSaving` leaves a torn `quickdata.csv` (`Torn`): part of the header,
  or some whole rows and a part of one more. A cut location name becomes
  `CutName`, a cut number loses its last digits (another number) or all of them
  (no number).
* `startActivity` only asks for an activity. `Search`, `OpenHistory` and `OpenResult`
  put it in `asked`; it comes with `Arrive`, which is the `onCreate` of
  SearchResultActivity or AlterStockActivity. In between the activity on top still
  takes taps: quick load and quick save are buttons of MainActivity's action bar.
  The answer of a file picker is different (`Picked`), as the picker was on top and
  whatever was asked for before it has come. One activity is asked for at a time.
* `ArriveStale` is an `onCreate` that reads an index past a table that was replaced
  meanwhile: AlterStockActivity its own, SearchResultActivity those it finds in the
  lookups of that moment. It is undefined behaviour, so the model goes to the
  screen `Undefined`, claims nothing of what follows and waits for the process to
  end. A process that starts again after its end may be given back the activity
  it had on top, or the one on its way (`Restored`): AlterStockActivity then reads
  its index in an empty table, which is `Undefined` again.
* `Confirm` does not leave the screen: the code only asks for the next activity,
  and until that arrives (`Back`) another tap or Enter confirms again.
* `UdpSender` splits `awaitResponse` where a datagram can arrive between two
  system calls: looking at epoll (`RunTask`), receiving for the waiting
  operation (`RunDescriptor`), the speculative receive when the handler starts
  the next one (`HandleRecieve`), and the return. The lines of asio it stands
  for are in the map.
* A datagram may be **empty**: it completes the receive like any other, and
  `handle_recieve` does not look at the number of bytes. It replaces `responder`
  and leaves the bytes that an earlier one has put in `data`. So the model numbers
  the datagrams and has two of them: the one whose sender is in the buffer and the
  one whose request is (`buffer`), and the same of what `awaitResponse` returned
  (`latest`, `said`). 0 is the buffer before the first byte, whose request is
  `undefined`. A datagram of one or two bytes still carries its whole request.
* `Position` is where a layout of the spinner will put its selection: the wanted
  position brought into the range of the adapter.
* `QuickSave` and `Save` may fail while the process lives: afterwards the file is
  what should have been written, what was there before (it could not be opened),
  or any torn form of it (the disk is full). The app reports success in each case.
* In `TcpSender` the **socket** is the kernel's: `connecting`, then `established`
  or `failed` when the other device has answered and nobody has asked the socket
  since; `connected` once a second `connect(2)` was told so; `reset`, `shut`.
  `error` is SO_ERROR, which `getsockopt` in `non_blocking_connect` and a failing
  `connect(2)` both read and clear. `pending` counts the attempts that wait with the
  descriptor, `ops` is the scheduler's queue. One event ends `run_one_for`.
* In `Broadcast` a datagram is its sender and whether it accepts, denies, says
  something else or is empty. `LinkAnswer` compares the sender of `latest` with the
  device asked and takes the request of `said`, as broadcastCount does with the two
  fields of the message it is given. `Abort` is an exception of a native call, which nothing catches:
  a request that cannot be sent, `asio::write` or `shutdown` on a socket without a
  connection.

## 3. Runs

| Run | Config | Checks | Distinct states |
|---|---|---|---|
| `stock_table` | `StockTable.cfg` | `TypeOK`, `CountsAddressable`, `CurrentIsFirst`, `TotalIsColumnSum`, `ReloadKeepsTable`, `MinimalSaveLosesNoCount`, `KeepsLedger` | 61 168 |
| `csv_text` | `CsvText.cfg` | `TypeOK`, `TidyIsDefined`, `SavesReadBack`, `CellsSuffice` | 108 794 |
| `app` | `StockerApp.cfg` | `TypeOK`, `IndicesInTable`, `LookupsCurrent`, `SpinnerMirrorsTable`, `SpinnerShowsLocation`, `TornSaveInventsNothing` | 717 419 |
| `lookup` | `LookupTable.cfg` | `TypeOK`, `SearchIsExact`, `FoundByOwnName` | 80 872 |
| `udp_sender` | `UdpSender.cfg` | `TypeOK`, `OneReceive`, `NoLostWakeup`, `KeepsMailbox`, `AwaitReturns`, `LatestIsAnswered` | 25 118 |
| `broadcast` | `Broadcast.cfg` | `TypeOK`, `RequestsBounded`, `SentOnAcceptance`, `LateAnswerCounts`, `EarlyConnectionsAreReal`, `OnlyFirstConnectWaits`, `CallEnds` | 175 088 |
| `stock_table_loads` | `StockTableLoads.cfg` | `LoadAlwaysReports` | violated |
| `app_select` | `StockerAppSelect.cfg` | `SelectingAddsNothing` | violated |
| `app_loss` | `StockerAppLoss.cfg` | `LossIsConfirmed` | violated |
| `udp_sender_events` | `UdpSenderEvents.cfg` | `OnlyReceivesRun` | violated |
| `broadcast_connected` | `BroadcastConnected.cfg` | `ConnectionIsReal` | violated |
| `broadcast_accepter` | `BroadcastAccepter.cfg` | `PeerHasAccepted` | violated |

Run one with `tlc -workers 2 -config StockTable.cfg MCStockTable.tla`.

**Bounds.** Each is a named constant.

* `stock_table`: two products, of which one is wrapped in three pairs of quotes;
  two location names and up to three columns, so that a file with two columns of
  one name and a third location fit; deltas -1 and 2 and counts up to 2 in absolute value
  (`MaxCount`), so that counts cancel; `Grain` 3, so that counts lose precision in
  a save; one file for every way a load can end, with and without the final line
  break. Every state is reached by all orders of calls, so a longer sequence of
  calls adds nothing new.
* `csv_text`: every line of up to four characters (a mark, a comma, a letter) behind
  its first comma, and those other programs write for a cell with commas and marks;
  every location of up to two characters and four longer ones, as many as a header
  of nine characters (`MaxHeader`) takes: one that has another behind it and one
  that has none; counts up to 2 (`MaxTotal`), so that the total differs from a
  count. A list is imported over an empty table only, as a load resets
  the table before it reads.
* `app`: two location names, two products, a history of two entries instead of
  five, counts up to 1. The history and the counts must be able to overflow, to
  outlive a load and to make the default location; they do. Files of one and of
  two products make an index stale: quick loads overtake taps on the history,
  activities arrive past the table, new processes restore them. Two locations are the smallest number at which
  the spinner can show the wrong one; for every other number there is the proof.
* `lookup`: every name of up to four characters over a space, a hyphen and two
  letters on its own, every pair of short names, one list of three; every query of up to three
  characters over a space, two letters and a lower-case one. A word range has a
  first, a last and a longer neighbour within these.
* `udp_sender`: six datagrams (`MaxDatagrams`), each of them empty or not. The scheduler's queue holds at
  most three operations, and three datagrams in the socket are enough for every
  combination of them; the rest show that the counts of repeated answers do not
  grow with the number of datagrams.
* `broadcast`: two devices, so that answers of the wrong one arrive; two datagrams
  (`MaxDatagrams`), each of which can be returned three times; four time-outs
  (`MaxTimeouts`) instead of ten. Four are enough for a false connection, which
  takes three connects, and for a limit that is reached by link requests and by
  connects. `broadcast_connected` needs one device only, `broadcast_accepter` two and
  two datagrams.

**Fairness.** `UdpSender` and `Broadcast` state liveness. `WF_vars(AwaitStep)` says that a
call of `awaitResponse` runs on: it is a loop on a thread that nothing blocks
but `epoll_wait` with a time-out, and the time passes. The caller is not assumed
to call it: `LatestIsAnswered` has "it is called again and again" as its
hypothesis, which is broadcastCount inside its loop. Arrivals are not fair.
In `Broadcast`, `WF_vars(CallStep)` is the same for the whole call: it is one
sequence of statements on the main thread whose waits all have a time-out but
one, and `WF_vars(TcpStep(Refuse))` covers that one: `asio::write` on a socket that
is still connecting waits until the kernel gives up the attempt, which it does.
The bound on the datagrams is, for `CallEnds`, the assumption that the other
devices stop sending; without it the call need not end, as only time-outs are
counted.

**Deadlock** is checked in every run but the three of `Broadcast`, where the call
ends and nothing is left to do.

**What the passing runs show.** The table keeps every count addressable through
failed loads, duplicated columns and the implicit default location; the Total
column agrees with its columns; a save is reused without loss but for digits
beyond the sixth and one pair of quotes around a name, as far as its texts are
cells. `SavesReadBack` says for which texts
that is so in general: exactly when no comma of a name, size or location stands behind an odd
number of its marks, the number of marks is even (the last location may have any),
and the name has no marks around it. Lists that escape marks by doubling them
mostly keep to that, as nothing ever undoes the doubling; a name that is quoted as
a whole and has a comma in it does not, because `tidy` takes its own marks, too.
Then the next load divides it, skips the size as the total, and takes the total
for the first count ("Discard global count, use subcounts instead",
`stockTable.h:408`). A location typed with an inch sign swallows the one behind it
and its counts in silence; a size with an odd mark makes the load end the process.
`IndicesInTable`: nothing checks an index, and yet those in the history and in the
open dialog are always of products the table has, because every load clears the
history and none is possible with the dialog on top. An index on its way to the
dialog is not safe: after a tap on the history, and until the dialog has arrived,
a quick load may replace the table, which asks nothing while search is disabled.
The property says that this is the only way, and that a tap on a search result
never goes wrong; the run contains the read past the table itself (`ArriveStale`).
The off-by-one position in `addLocation` is
harmless: the layout clamps it and the callback finds the table moved already. A
quick save that is interrupted can lose products but does not invent counts,
and it is `inputFILE`'s dropping of the unterminated last line that ensures
it. UDPSender loses an
earlier datagram when a later one is waiting, and may return one datagram up to
three times, but never goes deaf and never reports a time-out over a datagram
that is there: `KeepsMailbox` says all of this at once. A minimal save leaves out
only products whose counts cancel. broadcastCount sends the count to the device
it asked, on an answer of that device, also when others answer, or answer late or
twice; and that answer is an acceptance, or it is empty and comes with nothing but
empty datagrams after an acceptance (`SentOnAcceptance`; whose acceptance, see the
last violated property below);
it sends at most `maxTimeouts` and three requests for every
datagram. A device that accepts after the connect that reached it has timed out
is still found by a later one (`LateAnswerCounts`); the first two connects report
only real connections (`EarlyConnectionsAreReal`). `OnlyFirstConnectWaits` is what
the code does rather than what it seems to intend: every retry meets an attempt
that is complete already, so the message "Link accept timed out" comes after
one time-out of 300 ms however large `maxTimeouts` is. Stating it keeps a change of
the retries from going unnoticed.

**What the violated properties show** (`findings` in `PROJECT.json`).

1. `LoadAlwaysReports`: a header or a row that stops early aborts the process.
   `stockTable.h:315` verifies "fields against template" and has codes for both.
2. `SelectingAddsNothing`: the spinner's first callback adds "Global" to a table
   that has another location, and makes it the current one
   (`MainActivity.kt:426-427` against the comment at `:463`). In the trace a reused
   count fails at a row: its location is in the table already, search is disabled
   and the spinner still offers its default entry, which the layout then notifies.
   A picker that answers an activity which was created again while it was open
   answers before that layout.
3. `LossIsConfirmed`: quick load replaces unsaved counts without the warning of
   `MainActivity.kt:287`, because search is disabled in an activity that was created
   again. The trace has a quick save, whole or cut short, before the count that is
   lost, so that there is something to load.
4. `OnlyReceivesRun`: the comment at `UDPSender.h:66` is wrong about asio: an
   event without a receive can run, and the old datagram is returned again.
5. `ConnectionIsReal`: `TCPSender.h:16` says that `isConnected` is set only if the
   event is called without an error. A third `connect(2)` on the socket reads and clears the
   error of a refused first attempt; that attempt then finds SO_ERROR 0 and its
   handler is called without an error. `send` throws, and the process ends. The
   trace has sixteen states.
6. `PeerHasAccepted`: `UDPSender.h:62` says that the data "indicates which request is
   being responded to". In the trace shop's `acceptLink` and an empty datagram
   of store have come before the first answer; that answer has store's address, store
   is asked, and the same datagram, returned again, passes for its acceptance. Store is
   dialled and, if it listens, is sent the count.

Every property of a passing run has a mutant: a changed definition (marked
`Mutant:` in the modules) under which TLC finds that property violated.

## 4. Proofs

Eight modules hold theorems; each is checked with `tlapm <module>.tla` and needs
a minute or two at most. Every state invariant and every action property of the
passing runs is proved.

**The stock table** (`StockTableProofs`), for every set of files, texts, locations,
deltas and every odd grain:

* `Invariance`: `Spec => []IInv`, where `IInv` is `TypeOK /\ CountsAddressable /\
  CurrentIsFirst`. None of the three is inductive alone: `Alter` appends a pair
  for the current location, which is a column only by `CountsAddressable`, and
  the ranges it speaks of need `TypeOK`; `CurrentIsFirst` says of the same current
  location that it is the first of its name.
* `TypeCorrect`, `Addressable`, `RecordsInFirstColumn`: its three parts.
* `ImplementsLedger`: `Spec => KeepsLedger`, that is, `StockTable` implements
  `Ledger` under the mapping at the end of `StockTable.tla`. Initial states map to
  initial states; a load maps to `Load`, `Refuse` or `Abort` by its code, `SetLocation`
  to `Move`, `Alter` to `Record`. The hard step is `Alter`: only the pair of the
  current location changes (`GetCountAltered`), and the column the mapping reads
  for a place is the one the code writes because it is the first of its name
  (`LocationIndexIs`, from `CurrentIsFirst`).

The argument goes operator by operator (`StockFileProofs`): what a search from
the front finds (`CountIndexFound`, `LocationIndexFound`, `FailingRowFound`, from
`MinFound`), what one row becomes (`ElementOfGood`), what the loops return
(`ReadRowsGood`), what `setLocation` and `alter` preserve (`SetTableLocationFinds`,
`AlterTableKeeps`), that what the exporter writes is a file again (`ExportType`);
then one step per action.

Three more theorems say what a save and a total are worth, for any number of
products, columns and counts:

* `TotalAddsUp` (`TotalIsColumnSum`): `SumCounts` adds the pairs of a product in the
  order in which they were recorded, the columns regroup them. `CollectionProofs`
  shows that a sum over a finite set does not depend on the order in which the
  library's fold takes the elements (`SumTake`), so that it can be taken column by column
  (`SumReorder`); every pair is in one column because of `CountsAddressable`.
* `SavesAreReread` (`ReloadKeepsTable`): the file that is written parses (`ReadRowsGood` applies,
  as its rows have as many numbers as its header has columns), and a number that was printed
  is read as itself (`Printed` is idempotent because `Grain` is odd).
* `MinimalSaveKeepsCounts` (`MinimalSaveLosesNoCount`): a product is left out when its
  total is zero; a sum of numbers of one sign is zero only if all of them are (`SumSign`,
  `SumZeros`).

**The text of the files** (`CsvTextProofs`), for every set of characters, lists and
locations. `Invariance` proves that the table is always one of texts whose counts are
addressable: what `StockFileProofs` shows for cells it shows for any texts, so what is
left is that fields are texts. `TextAddressable` is the type invariant.
`TidyNeverPopsEmpty` is about `tidy`, which calls `pop_back` twice on a name
that begins and ends with a mark: a name that is one mark alone would make that
undefined. It never is one, because another field follows the name: a field that
ends at a separating comma has an even number of marks, as the parities of the
marks before its two ends are equal (`QuotesBefore` is additive), and
`clearQuotes` takes none or two of them.

`SavesAreReadBack` (`SavesReadBack`) says exactly which tables survive a save, in both directions.
A line that is written is its cells with commas between them, and `Cut` names
the places of those commas (`LineCut`, `HeaderCut`; `FlatPlace` says where a part of a
joined sequence is). A cell between marks passes when its text is contained, so
that every comma of the line up to a cell separates only if it is one of `Cut`'s
(`CutBegins`, `CutEnds`), and the k-th field is the k-th cell without its marks
(`CutFields`). The other direction goes from cell to cell: when
the cells before it pass, a field that is read back as the text of its cell ends where the
cell ends, as it lost one pair of marks or none and cannot have lost none (`FieldIsNot`), and
then the cell passes too (`EndsWithCell`, `QuotedField`; `NameField` for a name, of which
`tidy` takes another pair). The counts come back because each is one cell
that is read as its number (`NumberCell`, `LineReads`), and because a printed number is printed
as itself (`PrintedTwice`).

`CellsAreEnough` (`CellsSuffice`) justifies the abstraction of `StockFile`: the text of a cell is its plain
text in `quotes` pairs of marks, so it has no commas and an even number of marks (`MarkedContained`), and
what is inside it is the text of the cell that `TidyName` returns (`MarkedInside`). Of a table of such
texts `SavesAreReadBack`'s lemmas give what is read of the characters and `SavedReread` what is read of
the cells; that is the same. `PlainAssumption` says which texts cells are for: those without
marks and commas and, as `CsvText` has no case, in upper case. Nothing else uses it.

**The word index** (`LookupTableProofs`), for every set of characters, every list
of names in upper case and every query. `FindsExactly` is the correctness of
search: the products returned are those in whose names every keyword begins a run
of letters and digits, in order and each once. The argument follows the code.
The positions a loop visits are the least set that holds the first one and is
closed under going on (`VisitedClosed`, `PiecesAre`), which replaces an
induction over the loop. So what holds of the first position and is kept by going on
holds of each: it is behind a character that ends a piece. In the other
direction, the greatest visited position before a run is one whose word is that run,
as the loop neither begins inside a run nor steps over one (`WordsBegin`;
`KeywordsAre` is the same for queries). `RangeIsExact`: among the words in the map's order, those
from `lower_bound` on up to the first that does not start with the keyword are those
that start with it. `ReductionIs` and `CommonIs` are `reduce` and the
loop of intersections. `FindsByOwnName` follows: the keywords of a name of
letters, digits and spaces are its own runs. `ResultsAreProducts` says that no search
returns an index past the table.

**The session** (`StockerAppProofs`) uses the same lemmas: `Invariance` proves `IInv`,
and `TypeCorrect`, `NoStaleIndex`, `SearchesPresentTable`, `OffersLocations` and
`ShowsCurrentLocation` are the five state properties of the `app` run, for every
set of files and every length of the history. `SpinnerShowsLocation` speaks of
states in which the layout is done; what makes it inductive is `Follows`, which
says of the states before it what the layout will find: whenever it will notify
nothing, because the position it brings into range is the one notified last, the
table is at that entry already. That is what makes `addLocation`'s position past
the end harmless. `Screens` says which activity may be on its way to which screen: a
product asked for from the results only while the results are on top, where nothing
loads, and nothing at all while a dialog is open. With it `IndicesInTable` is
inductive: a load leaves no history (`EmptiedHistoryKeeps`) and can only overtake
what was asked for from the main activity, `Arrive` lets nothing past the table
become a dialog. `TornSaveIsABeginning` proves
`TornSaveInventsNothing` of every step: the rows of a torn file that `inputFILE` keeps, all
but an unterminated one, are the first rows of the save, and a header that is cut
within a name is refused or belongs to a file without rows.

**The sender of datagrams** (`UdpSenderProofs`), for every number of datagrams: the
scheduler's queue only ever has the six forms named in the module, the receive is
outstanding in exactly one place (`Queues`), a descriptor is not behind what is in
the socket (`Reports`), the form of the queue says how often the datagram in
the buffer can still be returned (`Buffer`), and between the request and the sender
in the buffer there are only empty datagrams (`Content`). From these follow `ReceivesOnce`,
`WakesUp` and `ImplementsMailbox`: every return maps to `Answer` or `Nothing`, every
other step to a stutter.

**The call** (`BroadcastProofs`), for every number of devices, datagrams and
time-outs. `Invariance` counts: an answer is a new copy of a datagram, of which
there are at most `3 * (latest - 1) + times` (`Copies`), so every request but
the one under way was met by a time-out or by a copy. `BoundedRequests` and
`GoesOnAcceptance` (`SentOnAcceptance`) follow. `ConnectionInvariance` is about the scheduler's queue of the
TCPSender: when a retry starts, it holds a completed connect or a descriptor, so
that nothing waits; `TypeCorrect` and `RetriesDoNotWait` follow from it.
`QueueInvariance` goes on from there to what the handlers in the queue will say: it relates each
to whether the device has accepted, to SO_ERROR, and to the number of connects that
were begun. `TimedOutIsTimedOut` (`LateAnswerCounts`) needs that an attempt which
was told of a connection is never overwritten, `FirstTwoAreReal`
(`EarlyConnectionsAreReal`) that SO_ERROR is only cleared unseen by a third `connect(2)`.

Assumptions, all named in the modules and evaluated by TLC in the runs:
`UpperAssumption` (upper case is idempotent), `GlobalAssumption`,
`NoNumberAssumption`, `GrainAssumption`, `FilesAssumption`, `DeltaAssumption`,
`BoundAssumption`, `NoLocationAssumption`, `AppAssumption`,
`MaxDatagramsAssumption`, `BroadcastAssumption`; for the texts `CharAssumption` of
`CsvText` (a mark and a comma are two characters, and no printed count is either),
`TextAssumption` and, for `CellsAreEnough` alone, `PlainAssumption`; for the index `CharAssumption` of `LookupTable` (`toupper` keeps letters
letters and is idempotent, a space is no letter or digit), `ListAssumption` (names are in upper case, as
the index is only generated after a load that succeeded, which ends in `tidy`) and
`QueryAssumption`. The bounds (`MaxCount`, `MaxLocations`, `MaxDatagrams`, the length of the
history) are arbitrary natural numbers.

Only model-checked: liveness (`AwaitReturns`, `LatestIsAnswered`, `CallEnds`), which is out of the
prover's reach.

## 5. Not modelled

Most of the repository by lines is not the program: all but a few thousand of
its lines of C++ are the vendored asio, whose templates, sockets, streams,
signals, serial ports and executors this app never calls. Of it the map names
the lines that a connect, a receive, a timed wait and their handlers run
through, and no more. A share of the lines that counts the library as part of
the implementation therefore stays near zero however much of the app is
modelled. What the app itself does is covered but for this:

* **JNI, pointers, file descriptors** (`Export.h`, `cpp/*.cpp`): no state of their own
  but memory and handles. That a descriptor is handed over as
  `/proc/self/fd/N` while its owner may be collected (`MainActivity.kt:160`), and
  that `fopen_fd` rewinds a null FILE, is below this model.
* **Line breaks and encodings in cells**; `stringToUpper` on single characters.
* **The bytes of datagrams and of the count that is sent**: the two bytes of a
  datagram's addition are only ever sent; what a count contains is an export,
  which `StockTable` has.
* **Hazards without a property**: a delta that is confirmed twice before the next
  activity arrives, a query with a hyphen, a device that resets the connection
  after the count was sent, so that `close` throws. The actions are modelled, but
  nothing in the repository says what should happen.
* **Starts by other apps**: AlterStockActivity and SearchResultActivity are exported
  in the manifest; an intent from elsewhere may carry any index at any moment. The
  session is the app's own navigation. Of an index that was read past the table
  nothing further is modelled.
* **A message that is shown whatever happened**: `quickSave` and `export` report success
  unconditionally (`MainActivity.kt:221`, `:246`; `stockTableInterface.h:60-68` drops the
  result). The failures are in `QuickSave` and `Save`; a property of the message would
  only repeat its line.
* **What a load leaves, in the abstraction**: `Ledger!Load` allows any list after a load,
  also after one that failed, because the ledger does not know what is in a file
  and the program promises nothing of a failed load. `KeepsLedger` is therefore
  about what comes before and after loads. What `StockTable` leaves is modelled line by
  line, and `CountsAddressable` and `IndicesInTable` are about it.
* **Unused code**: `stockTableFullSearch`, `operator<`.
* **Permissions, keyboard, toasts, layout, template fragments, build files.**
* **asio** beyond the scheduler and the reactor for one descriptor and one thread.
  The reactor's interrupter, which wakes the first `epoll_wait` once for nothing,
  is left out: `run_one_until` only looks again.

## 6. Plan

Done: the stock table and the session with their proofs, the word index, the UDP
sender and its abstraction, the TCP sender, the call that composes them, the text of
the files; and a proof of every safety property of the passing runs.

What would come next:

* properties for the hazards that have none, once the repository says what
  should happen in them.
