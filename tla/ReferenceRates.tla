--------------------------- MODULE ReferenceRates ---------------------------
(***************************************************************************)
(* The INR reference rates: core/reference_rates.go and                    *)
(* core/reference_rates_crud.go. An import is one deferred transaction     *)
(* that inserts cell by cell and may fail at each; saves by hand are       *)
(* single statements. What reports read is in RateReports.                 *)
(***************************************************************************)
EXTENDS Naturals, Sequences, FiniteSets

CONSTANTS
    Requests,            \* requests in progress
    Dates,               \* days, in their order
    Currencies,          \* three-letter codes other than INR
    Units, Rates,        \* of a quote: rate INR for so many units
    Files,               \* workbooks: functions from sheet names to worksheets
    SavedQuotes,         \* bound: the quotes that are entered by hand
    Empty, Bad,          \* a cell without text, and text that does not parse
    NoQuote, None        \* no row; no request, or no sheet name

Column == [currency: Currencies, units: Units]
Key == Dates \X Currencies
Quote == [units: Units, rate: Rates, source: {"manual", "workbook"}]
\* A worksheet: the header after Date, and the rows below it.
Worksheet == [dated: BOOLEAN, columns: Seq(Column \cup {Bad}),
              rows: Seq([date: Dates \cup {Empty, Bad}, cells: Seq(Rates \cup {Empty, Bad})])]

ASSUME RatesAssumption ==
    /\ Dates \subseteq Nat \ {0} /\ Units \subseteq Nat \ {0} /\ Rates \subseteq Nat \ {0}
    /\ SavedQuotes \subseteq [units: Units, rate: Rates]
    /\ \A file \in Files : \A name \in DOMAIN file : file[name] \in Worksheet
ASSUME MarksAssumption ==
    /\ Empty # Bad /\ {Empty, Bad} \cap (Rates \cup Dates) = {}
    /\ Bad \notin Column /\ NoQuote \notin Quote
    /\ None \notin Requests /\ \A file \in Files : None \notin DOMAIN file
    /\ None \notin [sheet: Worksheet, row: Nat, column: Nat, inserted: Nat, skipped: Nat, empty: Nat]

VARIABLES
    rates,      \* reference_rates, as committed
    request,    \* the imports in progress
    writer,     \* the request whose transaction has the write lock
    draft       \* the table as the writer's transaction sees it

vars == <<rates, request, writer, draft>>

Worksheets == UNION {{file[name] : name \in DOMAIN file} : file \in Files}

TypeOK ==
    /\ rates \in [Key -> Quote \cup {NoQuote}]
    /\ draft \in [Key -> Quote \cup {NoQuote}]
    /\ writer \in Requests \cup {None}
    /\ request \in [Requests -> {None} \cup
          [sheet: Worksheets, row: Nat, column: Nat, inserted: Nat, skipped: Nat, empty: Nat]]
    /\ \A r \in Requests : writer = r => request[r] # None

---------------------------------------------------------------------------
(* Worksheets *)

\* referenceRateColumns: headers such as USD (INR / 1 USD), a currency once.
HeaderOK(sheet) ==
    /\ sheet.dated /\ Len(sheet.columns) > 0
    /\ Bad \notin {sheet.columns[c] : c \in DOMAIN sheet.columns}
    /\ \A c, d \in DOMAIN sheet.columns :
          sheet.columns[c].currency = sheet.columns[d].currency => c = d

\* The sheet that is asked for, or else the only one with such a header.
MeansSheet(file, asked, name) ==
    IF asked = None
    THEN {n \in DOMAIN file : HeaderOK(file[n])} = {name}
    ELSE name = asked

BlankRow(row) ==
    /\ row.date = Empty
    /\ \A c \in DOMAIN row.cells : row.cells[c] = Empty

Cell(row, c) == IF c <= Len(row.cells) THEN row.cells[c] ELSE Empty

---------------------------------------------------------------------------
(* Imports *)

Columns(r) == request[r].sheet.columns
AtEnd(r) == request[r].row > Len(request[r].sheet.rows)
Row(r) == request[r].sheet.rows[request[r].row]
InRow(r) == request[r] # None /\ ~AtEnd(r) /\ request[r].column > 0
CellKey(r) == <<Row(r).date, Columns(r)[request[r].column].currency>>
CellQuote(r) == [units |-> Columns(r)[request[r].column].units,
                 rate |-> Cell(Row(r), request[r].column), source |-> "workbook"]

Finish(r) ==
    /\ request' = [request EXCEPT ![r] = None]
    /\ writer' = IF writer = r THEN None ELSE writer

Counted(r, what) == [request[r] EXCEPT ![what] = @ + 1]

\* After the last column comes the next row.
Advanced(r, counted) ==
    IF counted.column < Len(Columns(r)) THEN [counted EXCEPT !.column = @ + 1]
    ELSE [counted EXCEPT !.row = @ + 1, !.column = 0]

\* Up to db.Begin, a deferred transaction without a lock.
ImportReferenceRates(r, file, asked) ==
    /\ request[r] = None
    /\ \E name \in DOMAIN file :
          /\ MeansSheet(file, asked, name)
          /\ HeaderOK(file[name]) /\ Len(file[name].rows) > 0
          /\ request' = [request EXCEPT ![r] =
                [sheet |-> file[name], row |-> 1, column |-> 0,
                 inserted |-> 0, skipped |-> 0, empty |-> 0]]
    /\ UNCHANGED <<rates, writer, draft>>

StartRow(r) ==
    /\ request[r] # None /\ ~AtEnd(r) /\ request[r].column = 0
    /\ \/ /\ BlankRow(Row(r))
          /\ request' = [request EXCEPT ![r].row = @ + 1]
       \/ /\ ~BlankRow(Row(r))
          /\ Len(Row(r).cells) <= Len(Columns(r)) /\ Row(r).date \in Dates
          /\ request' = [request EXCEPT ![r].column = 1]
    /\ UNCHANGED <<rates, writer, draft>>

SkipEmptyCell(r) ==
    /\ InRow(r) /\ Cell(Row(r), request[r].column) = Empty
    /\ request' = [request EXCEPT ![r] = Advanced(r, Counted(r, "empty"))]
    /\ UNCHANGED <<rates, writer, draft>>

IsRate(value) == value \in Rates

Seen(r) == IF writer = r THEN draft ELSE rates
\* ON CONFLICT DO NOTHING, and what it would do otherwise.
Kept(table, key, quote) == table
Replaced(table, key, quote) == [table EXCEPT ![key] = quote]
OnConflict(table, key, quote) == Kept(table, key, quote)

IsRepeat(stored, quote) == stored.units = quote.units /\ stored.rate = quote.rate

\* INSERT, which takes the write lock, and the comparison with what was there.
InsertCell(r) ==
    /\ InRow(r) /\ IsRate(Cell(Row(r), request[r].column))
    /\ writer \in {None, r}
    /\ writer' = r
    /\ LET key == CellKey(r)  quote == CellQuote(r)  table == Seen(r)
       IN  \/ /\ table[key] = NoQuote
              /\ draft' = [table EXCEPT ![key] = quote]
              /\ request' = [request EXCEPT ![r] = Advanced(r, Counted(r, "inserted"))]
           \/ /\ table[key] # NoQuote /\ IsRepeat(table[key], quote)
              /\ draft' = OnConflict(table, key, quote)
              /\ request' = [request EXCEPT ![r] = Advanced(r, Counted(r, "skipped"))]
    /\ UNCHANGED rates

\* A sheet of blank rows alone is an error.
Commit(r) ==
    /\ request[r] # None /\ AtEnd(r)
    /\ request[r].inserted + request[r].skipped + request[r].empty > 0
    /\ rates' = Seen(r)
    /\ Finish(r)
    /\ UNCHANGED draft

KeptSoFar(r) == Seen(r)
\* The deferred tx.Rollback().
Undone(r) == rates

\* A cell that is no rate, a date that is none, a conflict, a busy database, a
\* client that has gone, the end of the process.
Fail(r) ==
    /\ request[r] # None
    /\ rates' = Undone(r)
    /\ Finish(r)
    /\ UNCHANGED draft

---------------------------------------------------------------------------
(* Saves by hand *)

Manual(quote) == [units |-> quote.units, rate |-> quote.rate, source |-> "manual"]

Taken(key) == rates[key] # NoQuote

CreateReferenceRate(key, quote) ==
    /\ writer = None /\ ~Taken(key)
    /\ rates' = [rates EXCEPT ![key] = Manual(quote)]
    /\ UNCHANGED <<request, writer, draft>>

\* PUT: the row of the original key, which may get another.
UpdateReferenceRate(old, key, quote) ==
    /\ writer = None
    /\ rates[old] # NoQuote /\ (key = old \/ ~Taken(key))
    /\ rates' = [rates EXCEPT ![old] = NoQuote, ![key] = Manual(quote)]
    /\ UNCHANGED <<request, writer, draft>>

---------------------------------------------------------------------------
Init ==
    /\ rates = [key \in Key |-> NoQuote]
    /\ draft = rates
    /\ request = [r \in Requests |-> None]
    /\ writer = None

Next ==
    \/ \E r \in Requests :
          \/ \E file \in Files : \E asked \in DOMAIN file \cup {None} :
                ImportReferenceRates(r, file, asked)
          \/ StartRow(r) \/ SkipEmptyCell(r) \/ InsertCell(r) \/ Commit(r) \/ Fail(r)
    \/ \E key \in Key, quote \in SavedQuotes :
          \/ CreateReferenceRate(key, quote)
          \/ \E old \in Key : UpdateReferenceRate(old, key, quote)

Spec == Init /\ [][Next]_vars

---------------------------------------------------------------------------
(* Properties *)

\* The quotes of a worksheet: <<key, quote>> for each cell with a rate.
QuotesOf(sheet) ==
    UNION {{<< <<sheet.rows[i].date, sheet.columns[c].currency>>,
               [units |-> sheet.columns[c].units, rate |-> sheet.rows[i].cells[c],
                source |-> "workbook"] >> :
               c \in {n \in DOMAIN sheet.rows[i].cells : sheet.rows[i].cells[n] \in Rates}}
           : i \in DOMAIN sheet.rows}

\* No header, date or cell that does not parse, no cell without a column.
Readable(sheet) ==
    /\ HeaderOK(sheet)
    /\ \A row \in {sheet.rows[i] : i \in DOMAIN sheet.rows} : ~BlankRow(row) =>
          /\ row.date \in Dates /\ Len(row.cells) <= Len(sheet.columns)
          /\ Bad \notin {row.cells[c] : c \in DOMAIN row.cells}

\* Imports are merged whole, one after the other, and replace nothing, although
\* each goes cell by cell and may fail at any.
Table == INSTANCE ReferenceTable WITH
    Batches <- {QuotesOf(sheet) : sheet \in {s \in Worksheets : Readable(s)}}
ImplementsTable == Table!Spec

\* The tables keep their types, and the summary of an import counts what it
\* does: at each cell, the rates it calls inserted are those its transaction has
\* added to the committed ones, which nobody changes under it, and each cell it
\* has passed is counted once.
CountsAreTrue ==
    /\ TypeOK
    /\ \A r \in Requests : request[r] # None =>
        LET added == {key \in Key : Seen(r)[key] # rates[key]}
            done == {i \in 1 .. request[r].row - 1 : ~BlankRow(request[r].sheet.rows[i])}
            inRow == IF request[r].column = 0 THEN 0 ELSE request[r].column - 1
        IN  /\ request[r].inserted = Cardinality(added)
            /\ \A key \in added : rates[key] = NoQuote
            /\ request[r].inserted + request[r].skipped + request[r].empty
                  = Cardinality(done) * Len(Columns(r)) + inRow
=============================================================================
