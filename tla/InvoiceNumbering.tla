-------------------------- MODULE InvoiceNumbering --------------------------
(***************************************************************************)
(* The numbers of sales invoices: core/invoice_number.go, with the parts   *)
(* of CreateSalesInvoice and UpdateSalesInvoice (core/db.go) that draw and *)
(* keep them. Numbers count up within a financial year. Requests run       *)
(* concurrently in deferred SQLite transactions: they read first, and take *)
(* the write lock with the statement that draws the number. Every start    *)
(* numbers the blank invoices of older servers.                            *)
(*                                                                         *)
(* The rest of an invoice is in Subledger and Partners.                    *)
(***************************************************************************)
EXTENDS Naturals, FiniteSets

CONSTANTS
    Invoices,        \* ids of sales_invoices, in the order they are created
    Requests,        \* requests in progress, one goroutine and connection each
    Years, Months,   \* what the dates of invoices are made of
    MaxNumber,       \* bound: the last number of a year
    OldDatabases,    \* sales_invoices as older servers left it
    Blank, None      \* a blank invoice_number; no row, or no request

Date == [year: Years, month: Months]
\* invoice_date as it is stored: a date, or a text that is none.
StoredDate == Date \cup {None}
\* A number such as 007/2026-2027, whose year is the first one.
Number == [seq: 1 .. MaxNumber, year: Nat]
Invoice == [number: Number \cup {Blank}, date: StoredDate]
\* What a request saves: of which invoice, and the number it has drawn, or 0.
Request == [id: Invoices \cup {None}, date: Date, new: BOOLEAN, seq: 0 .. MaxNumber]

ASSUME CalendarAssumption ==
    /\ Invoices \subseteq Nat /\ IsFiniteSet(Invoices) /\ MaxNumber \in Nat
    /\ Years \subseteq Nat \ {0} /\ Months \subseteq 1 .. 12
ASSUME BlankAssumption ==
    /\ Blank \notin Number
    /\ None \notin Date \cup Invoice \cup Invoices \cup Request
ASSUME OldAssumption == \A old \in OldDatabases :
    /\ old \in [Invoices -> Invoice \cup {None}]
    /\ \A i, j \in Invoices :    \* UNIQUE
          old[i] # None /\ old[j] # None /\ old[i].number = old[j].number
          /\ old[i].number # Blank => i = j

VARIABLES
    server,     \* "stopped", "starting" inside InitDB, or "serving"
    invoice,    \* sales_invoices
    sequence,   \* invoice_sequences.last_number of each year, 0 without a row
    request,    \* the request in progress: what it saves and has drawn
    lock        \* of its connection: "none", "shared" or "reserved"

vars == <<server, invoice, sequence, request, lock>>

---------------------------------------------------------------------------
(* Dates and numbers *)

\* From April through March.
FinancialYear(d) == IF d.month < 4 THEN d.year - 1 ELSE d.year
AllYears == {FinancialYear(d) : d \in Date}

Stored(i) == invoice[i] # None
Numbered(i) == Stored(i) /\ invoice[i].number # Blank
BlankInvoices == {i \in Invoices : Stored(i) /\ invoice[i].number = Blank}
NumbersOf(year) ==
    {invoice[i].number.seq : i \in {j \in Invoices : Numbered(j) /\ invoice[j].number.year = year}}

\* MAX(last_number + 1, the highest stored number + 1) is one more than this.
IsBound(year, m) == sequence[year] <= m /\ \A n \in NumbersOf(year) : n <= m
Highest(year) == CHOOSE m \in 0 .. MaxNumber :
    IsBound(year, m) /\ \A k \in 0 .. MaxNumber : IsBound(year, k) => m <= k

SequenceOnly(year) == sequence[year] + 1
NextInvoiceNumber(year) == Highest(year) + 1

TypeOK ==
    /\ server \in {"stopped", "starting", "serving"}
    /\ invoice \in [Invoices -> Invoice \cup {None}]
    /\ sequence \in [AllYears -> 0 .. MaxNumber]
    /\ request \in [Requests -> Request \cup {None}]
    /\ lock \in [Requests -> {"none", "shared", "reserved"}]

---------------------------------------------------------------------------
(* Requests *)

Others(r) == Requests \ {r}
MayReserve(r) == \A other \in Others(r) : lock[other] # "reserved"
MayCommit(r) == \A other \in Others(r) : lock[other] = "none"

Finish(r) ==
    /\ request' = [request EXCEPT ![r] = None]
    /\ lock' = [lock EXCEPT ![r] = "none"]

\* CreateSalesInvoice up to the reads of validateInvoiceAddress and
\* invoiceGSTContext. A text that is not a date is refused before.
CreateSalesInvoice(r, date) ==
    /\ server = "serving" /\ request[r] = None
    /\ request' = [request EXCEPT ![r] = [id |-> None, date |-> date, new |-> TRUE, seq |-> 0]]
    /\ lock' = [lock EXCEPT ![r] = "shared"]
    /\ UNCHANGED <<server, invoice, sequence>>

AnyYear(i, date) == TRUE
\* The date of an invoice stays within its financial year.
KeepsYear(i, date) ==
    invoice[i].date # None /\ FinancialYear(date) = FinancialYear(invoice[i].date)

\* UpdateSalesInvoice up to its checks.
UpdateSalesInvoice(r, i, date) ==
    /\ server = "serving" /\ request[r] = None
    /\ Stored(i) /\ KeepsYear(i, date)
    /\ request' = [request EXCEPT ![r] = [id |-> i, date |-> date, new |-> FALSE, seq |-> 0]]
    /\ lock' = [lock EXCEPT ![r] = "shared"]
    /\ UNCHANGED <<server, invoice, sequence>>

Sequenced(year, seq) == [sequence EXCEPT ![year] = seq]
\* The sequence is written by a transaction of its own.
DrawnAtOnce(year, seq) == Sequenced(year, seq)
DrawnInTransaction(year, seq) == sequence

\* nextInvoiceNumber, one INSERT ... RETURNING that takes the write lock.
DrawNumber(r) ==
    /\ request[r] # None /\ request[r].new /\ request[r].seq = 0
    /\ MayReserve(r)
    /\ LET year == FinancialYear(request[r].date)
           seq == NextInvoiceNumber(year)
       IN  /\ seq <= MaxNumber
           /\ request' = [request EXCEPT ![r].seq = seq]
           /\ sequence' = DrawnInTransaction(year, seq)
    /\ lock' = [lock EXCEPT ![r] = "reserved"]
    /\ UNCHANGED <<server, invoice>>

\* UPDATE sales_invoices: every column but the number.
WriteEdit(r) ==
    /\ request[r] # None /\ ~request[r].new /\ lock[r] = "shared"
    /\ MayReserve(r)
    /\ lock' = [lock EXCEPT ![r] = "reserved"]
    /\ UNCHANGED <<server, invoice, sequence, request>>

\* AUTOINCREMENT
NextId(i) == ~Stored(i) /\ \A other \in Invoices : ~Stored(other) => i <= other

Commit(r) ==
    LET saved == request[r]
        year == FinancialYear(saved.date)
    IN  /\ lock[r] = "reserved" /\ MayCommit(r)
        /\ \/ /\ saved.new
              /\ \E i \in Invoices :
                    /\ NextId(i)
                    /\ invoice' = [invoice EXCEPT ![i] =
                          [number |-> [seq |-> saved.seq, year |-> year], date |-> saved.date]]
              /\ sequence' = Sequenced(year, saved.seq)
           \/ /\ ~saved.new
              /\ invoice' = [invoice EXCEPT ![saved.id].date = saved.date]
              /\ UNCHANGED sequence
        /\ Finish(r)
        /\ UNCHANGED server

\* A statement fails - a partner that is missing, a database that is busy - and
\* the deferred tx.Rollback() undoes the others.
RollBack(r) ==
    /\ request[r] # None
    /\ Finish(r)
    /\ UNCHANGED <<server, invoice, sequence>>

---------------------------------------------------------------------------
(* The process *)

Start ==
    /\ server = "stopped"
    /\ server' = "starting"
    /\ UNCHANGED <<invoice, sequence, request, lock>>

\* ORDER BY invoice_date, id
Earlier(i, j) ==
    LET d == invoice[i].date  e == invoice[j].date
    IN  \/ d.year < e.year
        \/ d.year = e.year /\ d.month < e.month
        \/ d = e /\ i < j

BlanksOf(year) == {i \in BlankInvoices : FinancialYear(invoice[i].date) = year}

\* Each blank invoice draws the next number when its turn comes.
RepairedNumber(i) ==
    LET year == FinancialYear(invoice[i].date)
        before == {j \in BlanksOf(year) : Earlier(j, i)}
    IN  [seq |-> NextInvoiceNumber(year) + Cardinality(before), year |-> year]

\* repairBlankInvoiceNumbers, one transaction with nobody else around.
RepairBlankInvoiceNumbers ==
    /\ server = "starting"
    /\ \A i \in BlankInvoices : invoice[i].date # None /\ RepairedNumber(i) \in Number
    /\ invoice' = [i \in Invoices |->
          IF i \in BlankInvoices THEN [invoice[i] EXCEPT !.number = RepairedNumber(i)]
          ELSE invoice[i]]
    /\ sequence' = [year \in AllYears |->
          IF BlanksOf(year) = {} THEN sequence[year]
          ELSE Highest(year) + Cardinality(BlanksOf(year))]
    /\ server' = "serving"
    /\ UNCHANGED <<request, lock>>

\* A blank invoice without a valid date: InitDB returns the error.
FailStart ==
    /\ server = "starting"
    /\ \E i \in BlankInvoices : invoice[i].date = None
    /\ server' = "stopped"
    /\ UNCHANGED <<invoice, sequence, request, lock>>

\* The process dies; SQLite rolls back what was not committed.
Stop ==
    /\ server' = "stopped"
    /\ request' = [r \in Requests |-> None]
    /\ lock' = [r \in Requests |-> "none"]
    /\ UNCHANGED <<invoice, sequence>>

---------------------------------------------------------------------------
Init ==
    /\ server = "stopped"
    /\ invoice \in OldDatabases
    /\ sequence = [year \in AllYears |-> 0]
    /\ request = [r \in Requests |-> None]
    /\ lock = [r \in Requests |-> "none"]

Next ==
    \/ Start \/ RepairBlankInvoiceNumbers \/ FailStart \/ Stop
    \/ \E r \in Requests :
          \/ \E date \in Date :
                \/ CreateSalesInvoice(r, date)
                \/ \E i \in Invoices : UpdateSalesInvoice(r, i, date)
          \/ DrawNumber(r) \/ WriteEdit(r) \/ Commit(r) \/ RollBack(r)

Spec == Init /\ [][Next]_vars

---------------------------------------------------------------------------
(* Properties *)

\* However requests interleave, fail and crash, and whatever older servers have
\* left, no two invoices have the same number.
NumbersAreUnique ==
    \A i, j \in Invoices :
        Numbered(i) /\ Numbered(j) /\ invoice[i].number = invoice[j].number => i = j

\* The tables keep their types, and above the numbers that older servers gave,
\* those of a year have no gap: a request that fails gives its number back.
NoGaps ==
    /\ TypeOK
    /\ \A year \in AllYears, n \in 1 .. MaxNumber :
          (\A i \in Invoices, old \in OldDatabases :
              old[i] # None /\ Numbered(i) /\ old[i].number = invoice[i].number
              /\ old[i].number.year = year => old[i].number.seq < n)
          => (n \in NumbersOf(year) <=> n <= sequence[year])

\* An invoice that has a number keeps it, and a new number is of the year of
\* its date and higher than every other of that year. Dates may be edited, and
\* still the number names the year of the date. A repair numbers the blank
\* invoices of a year in the order of their dates.
NumbersFollowTheYear ==
    [][/\ \A i \in Invoices : Stored(i)' =>
             /\ Numbered(i) => invoice'[i].number = invoice[i].number
             /\ Numbered(i) /\ invoice[i].date # None =>
                   FinancialYear(invoice'[i].date) = FinancialYear(invoice[i].date)
             /\ ~Numbered(i) /\ invoice'[i].number # Blank =>
                   /\ invoice'[i].number.year = FinancialYear(invoice'[i].date)
                   /\ \A j \in Invoices :
                         Numbered(j) /\ invoice[j].number.year = invoice'[i].number.year =>
                             invoice[j].number.seq < invoice'[i].number.seq
       /\ \A i, j \in BlankInvoices :
             /\ server = "starting" /\ server' = "serving"
             /\ FinancialYear(invoice[i].date) = FinancialYear(invoice[j].date)
             /\ Earlier(i, j)
             => invoice'[i].number.seq < invoice'[j].number.seq]_vars
=============================================================================
