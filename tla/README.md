# selectq: verification project

selectq is a bookkeeping program: a Go server over one SQLite file, and an Angular
front end. It imports bank statements, issues sales invoices with GST, records purchase
invoices, and matches money with invoices in two subledgers. This directory holds TLA+
modules that model its core, TLC configurations that check them on small instances, and
theorems that TLAPS proves for every value of the constants.

    tlc -config SubledgerReceipts.cfg MCSubledger
    tlapm LedgerProofs.tla

## Inventory

The server (`gst.go`) opens the database, creates and migrates its tables, and serves
HTTP. Each request is a goroutine; `database/sql` gives it connections of a pool. The
operations are functions of `core/`, most of them one transaction each; `handlers/`
decodes requests and turns errors into status codes. The components share only the
tables, except sign-in, whose state is in memory behind a mutex.

| component | state | operations | what is hard | what makes it correct |
|---|---|---|---|---|
| receipt subledger (`core/allocations.go`, `db.go`) | `bank_transactions`, `sales_invoices`, line items, `invoice_allocations` | AllocateTransaction, CreateSalesInvoice, UpdateSalesInvoice | concurrent requests that check a balance and then write; derived text stored apart from links; TDS and currencies; edits of invoices that have receipts | no invoice receives more than is expected, no receipt is spent twice, links agree in partner, currency and classification |
| payment subledger (`purchase_allocations.go`, `purchase_invoices.go`, `purchase_parties.go`) | `purchase_invoices`, `purchase_allocations`, `purchase_party_cache` | SavePurchaseInvoice, ReplacePurchaseAllocations, LinkPurchaseInvoice, the migrations of a start | two generations of clients with two tables for one fact; reclassification of a withdrawal under its payments; every start migrates again | no bill is overpaid, no withdrawal overspent, a restart changes nothing |
| partners and addresses (`bp_addresses.go`, `db.go`) | `business_partners`, contacts, `bp_addresses`, references to them | create, update, delete | a deletion is four statements; stale clients edit old versions | nothing dangles; an invoice prints the address it was issued with |
| sign-in (`handlers/auth.go`) | `pending`, `sessions`, cookies | login, callback, logout, Require | callbacks overlap across the exchange with Google; answers are lost; the process restarts | an attempt is used once, by the browser that made it; sign-out is final |
| SQLite connections (`connection.go`) | locks and transactions of pooled connections | begin, read, write, commit | deferred transactions, nested reads, SQLITE_BUSY | committed requests are serial; every request is answered |
| statements (`parse.go`, `rules.go`, StoreInDB, `statement_download.go`) | `imports`, `statement_workbooks`, `bank_transactions` | upload, download | one row of many fails; a download parses a file again that may be another by now | a statement is stored whole; a classification stays on its row |
| invoice numbering (`invoice_number.go`) | `invoice_sequences` | next number, repair of blanks | numbers drawn inside a transaction that may roll back; year changes | numbers are unique and in order within a year |
| GST (`gst_tax.go`) | seller snapshot of an invoice | treatment, tax, split | rounding of paise, snapshots | parts add up to the tax |
| reference rates (`reference_rates*.go`, the import command) | `reference_rates` | import, save, list, download | a conflict in the middle of a file; units per currency | an import is all or nothing; a download can be imported |
| GSTR-3B (`gstr3b.go`) | none | summary of a year | rates that are missing, or entered later | a value comes from the latest rate before the invoice |
| database browser (`db_browser.go`) | its connection | run a query or a script | deadlines, unfinished transactions; semicolons inside comments and quotes | nothing uncommitted remains, and the answer says so; a query is one statement |
| start (`db.go`, `gst.go`) | the schema | InitDB | a crash between migrations, a lock that another process holds, errors that are ignored | a start continues what any other left, on the database of any release |
| company profile, PDFs | one row; none | read, replace, render | – | – |
| screens (`frontend/src/app`) | edited rows, drafts, requests under way | grid edits, fetches, lookups, saves, pages of rows | answers and PUTs out of order, lost answers, stale forms | the screen ends with what the server holds, a draft is not lost, late answers are dropped |

## Modules

| module | models | checked by | proved in |
|---|---|---|---|
| `Subledger` | both subledgers, one action per committed request, with starts and stops | `MCSubledger`, two configurations | `LedgerProofs` |
| `LedgerTransactions` | the same requests as statements of concurrent SQLite transactions; refines `Subledger` | `MCLedgerTransactions` | `LedgerProofs` |
| `Partners` | partners, contacts, address versions; deletion statement by statement | two configurations | `PartnersProofs` |
| `Auth` | sign-in with overlapping callbacks and time | `Auth.cfg` | `AuthProofs` |
| `InvoiceNumbering` | numbers of sales invoices in concurrent transactions, and their repair at start | `MCInvoiceNumbering` | `InvoiceNumberingProofs` |
| `GstTax` | treatment and split of GST, the seller's snapshot, the migration of older invoices | through `Startup` | `StartupProofs` |
| `Startup` | the statements of InitDB over schemas of older releases, with failures and crashes; refines `GstTax` | `MCStartup` | `StartupProofs` |
| `Statements` | upload, classification rules and download of bank statements | `MCStatements` | `StatementsProofs` |
| `ReferenceTable` | the table of rates as its readers may think of it: a workbook is merged whole | – | `ReferenceRatesProofs` |
| `ReferenceRates` | imports cell by cell and saves by hand; refines `ReferenceTable` | `MCReferenceRates` | `ReferenceRatesProofs` |
| `RateReports` | GSTR-3B values and the download, over `ReferenceRates` | `MCReferenceRates` | `ReferenceRatesProofs` |
| `Ascending` | the numbers of a finite set in order, as ORDER BY returns them | through `Statements` and `RateReports` | with them |
| `StatementScanner` | the scan that tells whether a text is one SQL statement, and what SQLite makes of the text | through `DBBrowser` | `DBBrowserProofs` |
| `DBBrowser` | queries and scripts of the database browser on pooled connections, under a deadline | `MCDBBrowser` | `DBBrowserProofs` |
| `PurchaseForm` | the purchase screen and the answers it waits for | through `Screens` | `LedgerProofs` |
| `StatementGrid` | the statement screen and its requests, over `Subledger` | through `Screens` | `LedgerProofs` |
| `BrowserScreen` | the screen of the database browser | through `Screens` | `LedgerProofs` |
| `Screens` | the three screens behind the router | `MCScreens` | `LedgerProofs` |

### Subledger

State: the tables, one variable each; an allocation table is a matrix in which 0 means
"no row". `server` tells whether the process serves, is stopped or is inside InitDB.
Each action is a whole request: its checks are the guard (a refused request rolls back,
which is no step), its statements are the primed variables. So `AllocateTransaction`
checks eligibility, partner, currency, closed invoices and outstanding amounts, replaces
the receipts and rewrites classification, sub head and invoice numbers, as the function
does. `MayAllocate`, `FitsReceipt`, `StoredRow` and `KeepsPurchases` are its parts.

Abstractions: money is in paise as naturals; the name of a partner is the partner (a
partner renamed later leaves the old name in stored sub heads, which nothing reads back);
a list of line items is its net amount and its GST, in hundredths of a paisa since only
the sum is rounded, and the factor .9 is exact; an invoice number text is blank, typed,
or the set of invoices it names; purchase numbers are compared up to case and spaces as the
unique index does. A database of an older release has single links without amounts;
`LegacyAssumption` says what such a database satisfies: at most one link per withdrawal,
of an invoice and a row that exist. How the row is classified by now it does not say: the
guard of `core/allocations.go:119` counts allocations, which an old link does not have yet, so its
withdrawal could be reclassified before the migration.

### LedgerTransactions

Each handler has a connection, a deferred transaction and a view of what it has read.
`Read` reads one table at a time and keeps the SHARED lock, `Write` needs RESERVED,
`Commit` needs every reader gone and waits in PENDING, which keeps new readers out.
Checks and effects are those of `Subledger`, evaluated over the *view*, by
`INSTANCE Subledger WITH`. A wait may end with SQLITE_BUSY, and the handler rolls
back. `list` is GetSalesInvoices, which reads line items and balances on other
connections while its own rows are open. GetSalesInvoiceByID, GetTransactions and
GetBusinessPartners hold nothing between their statements; they promise no snapshot and
are left out. COMMIT that answers SQLITE_BUSY is a rollback here.

The refinement is `CommitsAreRequests == Spec`: read and check steps stutter, a commit
is one `Subledger` request legal in the state in which it commits.

### Partners

Saves are one transaction, hence one action. `DeleteBusinessPartner` is a sequence of
steps with others between them: count the transactions, count the invoices, delete the
contacts, delete the partner; only the foreign keys stand between it and dangling
references, and the process may die anywhere. `EntryOf` is what an older client, which sends one
address text, is taken to mean. A save carries at most one new contact and one address
entry, since the code treats entries one by one; unique names and e-mails, and the
company profile, are left out. Receipts, which freeze the partner of an invoice, are in
`Subledger`.

### Auth

`pending` and `sessions` are the maps of the server; a browser holds a state cookie and
a session cookie. `StartCallback` is everything up to the request to Google, under one hold
of the mutex; then Google answers or does not, and `SignIn` stores the session. Random
values are drawn once; a cookie is set together with its answer, and the answer may be
lost. Time is a counter, and expiry compares with it.

### InvoiceNumbering

A request is a deferred transaction: it reads under SHARED, and `DrawNumber`, one INSERT
with RETURNING, takes RESERVED, so that the maximum it computes is read under the same
lock. The sequence is written by `Commit` and forgotten by `RollBack`. `Highest` is the larger of
the stored sequence and the highest number of the year, which an older server may
have left without a sequence. `RepairBlankInvoiceNumbers` is the transaction of a
start: a blank invoice gets the next number plus the count of blank ones of its year before
it, in the order of date and id; `FailStart` is the start that meets an
invalid date, after which the server does not serve. `MaxNumber` bounds `DrawNumber` and the repair.

### GstTax

An invoice has its currency, lines in paise, the seller's GSTIN of when it was created and
the treatment of when it was last saved. `Save` is invoiceGSTContext; `PopulateInvoiceGST`
computes the tax and its parts for every reader. GSTINs are a state code and whether the
text is clean, malformed or missing. `InitGST` is the migration, which takes the profile of that
day for invoices without a snapshot. `MayTax` refuses percentages outside 0 to 100. `ExactTax` adds amounts times percentages before
the one division, which is exact as the rationals of the code are.

### Startup

`Steps` is the sequence of the statements of InitDB: the script and the columns of createTables, then
the init functions, one statement for each that is a transaction. A statement names what it
creates and what it needs; `schema` is what exists. IF NOT EXISTS keeps what exists, so the columns
of a CREATE TABLE come only with the table (`Extended`). `Execute` takes the next one, `ScriptFails` is
an error inside the script, which still tries the columns and returns the error
after them, `ColumnFails` an ALTER whose error is ignored, `Exit` any other error or a crash.
`skipped` is a history variable: the columns that this start was refused. The variables of
`GstTax` are extended, so that the statements that migrate data, the addresses and the tax of
older invoices, do. `OldDatabases` are the schemas that releases left, read off the statements
that the source keeps for them.

`ImplementsGstTax` maps an invoice whose address column does not exist yet to the one it will
have: then a start with all its crashes is the single step that `GstTax` takes. It is where the
order of initBPAddresses and initGST matters, and where a backfill that ran at each start would show.

### Statements

A workbook is a sequence of lines; a line has what stops the parser, what its narration
matches, whether money is withdrawn, and a balance that stands for the amounts.
`ParseStatement` and `ClassifyTransaction` are pure; `Rules` is the table of rules in their
order, with branches of one rule that give the same head merged. An upload
takes the write lock with its first INSERT and inserts row by row; it may fail anywhere. A
download reads the import, then the rows, then the numbers of purchase invoices,
while others classify, and while the database browser deletes and alters rows. `touched`
records which statements it has changed. Amounts that do not parse and the
account's metadata are left out, and so are the receipts linked to sales invoices: the names that
statement_download.go:59-73 takes from such invoices when the row has no partner of its own, or
another head, are not among what `Annotation` writes, and no property speaks of them.

### ReferenceTable, ReferenceRates, RateReports

`ReferenceTable` has three actions: merge a batch whole, create a rate, edit a rate.
`ReferenceRates` imports cell by cell in a transaction: `draft` is the table as the
writer sees it, and `rates` as everyone else does. `Undone` is the rollback.
`ImplementsTable` maps `rates` to the abstract table, the batches being what the good
workbooks contain. `RateReports` adds the two readers: `GetGSTR3BSummary` and
`DownloadReferenceRates`, whose result is a worksheet in the sense of `ReferenceRates`,
so that the property can import it. A value is computed as the code does, by five
roundings of doubles in the code's order: amount, rate, rate of one unit, product, paise. `Nearest` is
what one of them gives. `FloatAssumption` asks no more of it than a relative error of one in
`Precision`: for normal numbers of float64 that is 2^53, with 1/`One` the smallest double, and `Limit`
can be 500 trillion paise; in the run `Nearest` rounds to 9 bits, and TLC evaluates the assumption. Amounts
and rates are decimals, parsed or rounded to their nearest double.

### DBBrowser

A connection of the pool runs a script statement by statement. `Expire` is the deadline, which may
pass between any two calls; then every call fails with the context's error,
the final ROLLBACK too. `AfterClose` is what closing does to the connection: it
is discarded, with its settings and its transaction. Writers of the application share the
pool (`ApplicationRequest`). Statements are those that matter here: begin, write,
commit, rollback, a setting, one that fails and one that never ends.

### StatementScanner

`SingleBrowserStatement` is the scan of the code, as a recursive function of its variables: the
place in the text, `ended` and `token`. A text is a sequence of named characters.
Against it stands what SQLite makes of the same text, composed of lexical pieces:
`StatementsOf` cuts at the semicolons that are no part of a comment or of a quoted name. A query
of `DBBrowser` is such a text; the scanner decides whether it runs and the driver runs all its
statements, so that `QueriesAreSingle` compares the two where it matters. Two refusals are
narrower than SQLite: a second semicolon that ends nothing, and a first one before the statement.

### PurchaseForm

The flags of the component, the draft in the editor with an identity of its own
(JavaScript compares objects), the lookup with what its callback captured, and the
requests under way. Guards come from the component and from the template, which disables
buttons and fields. `entered` is a history variable for LookupsKeepEdits. Lists that only
refresh are left out, and so is linkExisting, which the template does not offer.

### StatementGrid

It extends `Subledger`, whose tables are the server's, with the state of transactions.component.ts:
`grid` (the rows), `panel` (the receipt that is being allocated) and `allocating` (its flag).
`wire` holds the requests under way. A PUT is sent, carried out or refused by the server
(`ServePut`, which is `AllocateTransaction` of the subledger), and answered, and any of these
answers may be an error; two PUTs may be carried out in either order. A PUT whose connection
broke may still go on in the server (`GoesOn`: handlers/api.go:74 does not hand the request's context down),
and commit after the browser has fetched again. A fetch reads rows and then
allocations, as GetTransactions does. `Visit` destroys the component: the PUTs that the server has not
seen go on, the answers find nobody.

Each edit sends all of the row's fields, and nothing in the code serialises edits. So the grid may differ from the
ledger after requests overlapped: `disturbed` records this, and a fetch that ran alone
ends it. What is claimed is the rest: `StatementShowsLedger` when nothing overlapped, and `PartnersAreOfReceipts`
always. A deposit cannot get purchase allocations, and one user edits one statement.

### BrowserScreen and Screens

`BrowserScreen` has the selection, the page, the flags, and `selectionRequest`, the requests whose answers
the subscription would still deliver; a reset empties it. Objects may go away at any refresh.

`Screens` is the router: a behaviour shows one of the three screens, which share no
state of the browser. It extends `StatementGrid` and has an instance of each of the other two,
`Purchase` and `Browser`. The forms of sales invoices, partners, rates and settings hold a draft and send one
request; they are not modelled. Reading the first showed three weaknesses that no text of the
repository denies: its Cancel stays active while it saves, a save whose answer was lost is a second
invoice when it is repeated, and a currency changed to dollars and back leaves the GST at 0.

## What the runs check

| run | instance | what it shows |
|---|---|---|
| receipts | a receipt of 1 dollar, two of 1 and 2 rupees, 2 invoices that expect 2 rupees or 1 dollar, 2 partners | receipts compete for invoices: none is overpaid, in its own currency; links and derived texts agree, closed invoices only lose receipts, invoices with receipts keep partner, currency and items |
| purchases | 2 withdrawals, 2 bills, an empty database and two with an old link, on a withdrawal that may pay or was reclassified | no order of replacing, linking, editing, reclassifying, migrating and restarting overspends or overpays; only a migration leaves payments of what may not pay |
| concurrent_requests | 2 handlers, 3 transactions, an invoice, a bill | stale checks never commit, commits are serial, every request is answered |
| partners | 2 partners, a contact, 2 address ids, an invoice, a transaction, a deletion, old and new clients | nothing dangles; the history of addresses |
| partner_deletion_race | the same | *finding*: a linked partner loses its contacts |
| sign_in | 2 browsers, 2 callbacks at once, 4 random values, 2 ticks | attempts, sessions and sign-out; every callback is answered |
| invoice_numbers | 2 requests, 5 invoices, 3 financial years, over nothing or over a number and two blanks, once with an invalid date | numbers are unique, without gaps, in their year; repairs follow dates |
| startup_and_tax | schemas of 5 older releases, a failure or crash at every statement; 2 invoices, one of an older server, 2 states, odd amounts of paise | any start completes the schema and finds the tables it needs; parts of the tax add up, the treatment is that of the last save, the seller that of the first |
| statements | 2 uploads, a download, an older statement, 6 files, 2 changes by hand | statements are whole; classifications stay on their rows, and new statements are never refused |
| reference_rates | 2 imports of 6 workbooks, good, disputed and spoilt, among saves by hand; 3 invoices, 2 dates | merged whole or not at all; values follow quotes; downloads import back |
| db_browser | 2 requests, 6 scripts, the queries of up to 3 pieces and an unclosed one, 3 connections | a query is one statement, the pool is clean, batches are whole, locks are released |
| screens | 2 GSTINs, 3 drafts; a receipt, an invoice, 2 partners, 2 requests at once, 3 PUTs; 2 objects, 2 pages | the statement shows the ledger, partners belong to receipts, one save at a time, drafts and edits are kept, late answers are dropped, buttons come back |

Bounds. Amounts are 0 to 2 or 3: enough for an invoice to be paid in parts, exactly and too
much, for a payment to be split, and for the 90% of TDS to round. Two of each actor are
needed for competition; a third adds no new pair, since every check is about one
transaction and one invoice against the sum of the others, and the theorem
`NoInvoiceIsOverpaid` covers any number. Two address ids let a version be replaced, or a
partner have two addresses; that longer lines stay lines is the theorem `LinesOfVersions`. In
`Auth` four random values give two attempts with their
sessions; an id that has been used up is never drawn again. No state constraint is used:
sets of ids are the only bounds, and they bound by guards (`AddsRow`, `Random`, `NextId`).
Symmetry permutes what nothing tells apart: the uploads of `Statements`, the partners of `receipts`,
the requests of `invoice_numbers` and `reference_rates`; none of these runs has a
liveness property. Deadlock is checked wherever the system has a step in every state; the
imports of rates may end, and say so.

`MaxNumber` 5 lets all invoices be of one year, or a repair go on after a highest number. The
workbooks of `reference_rates` meet each check once: a blank row, a short row, a repeat that
agrees, one that does not, a cell that is no number, a row too wide, a date that is none. They
quote the yen by tens or one by one, at the same price, at which the two values differ by the
one paisa that `ValuesFollowQuotes` allows. The tax amounts include an odd
number of paise, and two lines whose halves of a paisa only add up together. `Connections`
bounds how many connections a process opens: three, since a closed one is not reused.
`MaxDrafts` 3 lets an answer find its draft, another one, or none. `Slots` {1, 2} lets two PUTs, or a PUT and a
fetch, overtake each other, and `MaxPuts` 3 lets a third meet what they left. `Texts(3)` puts a comment or a quoted
name before, between and after two semicolons, and an unclosed one at the end. `MaxImports` and `MaxEdits`
2: an older and a new statement, and a row deleted and another changed in either.

Type invariants. The module of each component has one. Those of `Auth` and `Partners` are part
of the proved `IInv`, and elsewhere it is the first conjunct of an invariant of the run.

Fairness. `LedgerSpec` is weakly fair for each handler: goroutines are scheduled, and a busy
wait ends, by success or by SQLITE_BUSY. Clients, crashes and starts have no fairness.
`DBBrowser` is weakly fair for each request and its deadline, which Go's context delivers
whatever SQLite does. `Screens` is weakly fair for the answers of saves of purchases and of SQL: a browser answers every
request, if only with an error. That the panel of a statement gets its buttons back is
part of a safety property, `PanelKeepsDraft`: the flag is up exactly while its save is under way. `FairSpec` of `Auth` is weakly fair for each callback: the HTTP
client has a timeout, so a silent Google ends as a failed exchange.

The finding is the deletion of a linked partner (`core/db.go:507`); `PROJECT.json` quotes both
sides. Smaller disagreements between code and text are part of the modules, without a run:

- `core/purchase_allocations.go:40` says that a single-link request allocates the available payment.
  `LegacyAllocations` takes the lesser of the total and the whole withdrawal, as line 43 does, so
  a withdrawal that is used in part is refused.
- `docs/purchase-payment-allocation.md:16` says that salary and personal transactions cannot receive
  purchase allocations. `core/purchase_allocations.go:21` carries an old link over whatever its
  withdrawal is classified as by now: `CarriedOver`, the exception of `PurchasePaymentsStayEligible`.
- `docs/reference-rates.md:48` gives amount * rate_inr / units. `core/gstr3b.go:78` divides first, in
  doubles, so 2.50 at 0.23 for 1 is 0.58 and at 2.3 for 10 it is 0.57. `UnitsMatter` in
  `MCReferenceRates` shows the same with 9 bits, and `ValuesFollowQuotes` allows a paisa.
- `docs/business-partner-addresses.md:36` says that clearing a selected address is rejected.
  `ValidAddress` accepts it when the invoice moves to a partner that has no addresses.
- `docs/db-browser.md:63` says that an unfinished transaction is reported. When the deadline
  passes before the final ROLLBACK of `core/db_browser.go:241` has ended, the answer is success:
  `TimelySuccessIsFinished` is about requests whose deadline has not passed.
- `core/db.go:273` says that errors of ALTER TABLE can be ignored if the column is there. The code ignores
  all of them, so a start that meets a lock serves without the column; `SchemaIsComplete` excepts
  the columns that were refused in this very start, and the next start adds them.
- `docs/bank-statement-classification-erd.md:109` says that links that are present stay visible.
  `AvailableInvoices` shows a settled invoice while the panel allocates to it, and no longer
  when its amount is set to 0.

## What is proved

`LedgerProofs` has three parts: the tables, the transactions, and the screens.

The first proves every property that the runs check of `Subledger`, for any sets
of transactions, invoices, bills, partners and amounts. `TypeCorrect` gives the types, with the
fact that a linked bill exists. The assumption about arithmetic is `SumAssumption`, what SQL's
SUM means on a column: zero for no rows, and a row adds its amount to the sum of the others.
TLC evaluates it for the instances. Three arguments carry the rest:

- `NoInvoiceIsOverpaid`: only an allocation raises a column, and it raises it in one row to
  what the sum of the other rows leaves; an edit cannot lower the total of an invoice that has
  receipts, because a positive row makes the sum positive.
- ReceiptsMatchTheirInvoices contains the types and is inductive as it stands
  (`ReceiptsMatch`): AllocateTransaction replaces a row, its texts and its allocations
  at once, and an edit may not change the partner or the currency of a linked invoice.
  That fixes the currency in which a receipt is counted, hence `NoReceiptIsOverspent`
  (`CurrenciesStay`); `SettledInvoicesStay` follows step by step.
- The payments need `PaymentsInv`, because the migration of a start inserts allocations
  without any of the checks that requests make. The invariant says when this is harmless:
  before the first start nothing is allocated and a withdrawal has at most one link
  (`Unmigrated`); from then on every single link already has its allocation
  (`LinksAreAllocated`), so that later migrations select nothing. Every request of either
  generation must keep this: replacing allocations removes the withdrawal's link, and a link made by
  an older request brings a positive allocation (`LesserIsPositive`). With the
  party of every supplier GSTIN in the cache (`CacheIsComplete`) the same invariant gives
  `RestartsChangeNothing`, and `NoBillIsOverpaid` is part of it. `PaymentsStayEligible` is about
  steps, for what a migration carries over need not be eligible: a request that replaces or
  reclassifies a payment checks it, and the only other step that adds payments finds
  the database `Unmigrated`.

`AuthProofs`. Three theorems from one inductive invariant `IInv`. It says where a random
value can be: a value in a cookie, a pending attempt, a running callback or a session was drawn;
an attempt is pending or taken or has its session, never two of these; a session of a
browser stems from an attempt of that browser. OneSessionPerAttempt alone is not
inductive: it does not exclude two callbacks that hold the same attempt.

`PartnersProofs`. `IInv` adds to ReferencesExist and VersionsFormLines that ids in use were
drawn from their sequence (`IdsWereDrawn`), so that a new row takes an id that nothing refers
to. `KeptRow`, what a save does to a row that exists, carries the lines of versions and
`InvoicesKeepTheirAddress`. The deletion needs the foreign keys (`Unreferenced`) only: the
counts before it play no part in the proof, which is why their race is harmless to references
and harmful to contacts. `LeastId` derives the least active address from the well-foundedness of
the naturals.

The second part of `LedgerProofs` is about any number of handlers. `LockInv` says what a lock is good
for: a handler that has read holds SHARED or more, at most one has executed its statements, and what
it is about to commit is legal now. Since a commit waits until no other handler holds SHARED, the view of each
agrees with the tables wherever it has read them (ReadsAreCurrent). A check that was passed on the view is then a check
on the tables, and a commit is a step of `Subledger` (CommitsAreSerial, the refinement). With
the theorems of the first part this gives ConcurrentRequestsFit: requests that run at once overpay
and overspend nothing.

The third part is about the screens, with any number of rows, drafts, pages and requests under way.

- `GridInv` of the statement. What is stored and what travels is well formed
  (`RowsAreSound`, `RequestsAreSound`): a row that is linked to invoices carries their numbers and
  their partner, and no PUT, however late, carries a partner under another head. It is
  inductive since `AllocateTransaction` refuses an edit that would part a linked row from its
  partner, and gives PartnersAreOfReceipts. `SaveIsAlone` is what the flag of the panel stands for. While nothing is
  `disturbed` at most one request is under way, and the grid shows what the tables
  will be once it is answered (`Undisturbed`): every row but the edited one agrees already, and
  that one shows the PUT before the server has carried it out. StatementShowsLedger is the case in
  which nothing is under way.
- `PurchaseInv`: `saving` holds exactly while one save is under way, which disables whatever
  replaces the draft, and a lookup under way holds the name and the address as they were last entered.
- `BrowserInv`: while an object is shown, the one request whose answer is still delivered is for what the
  selection, the tab and the page call for now (`Wanted`). Every change of these cancels the
  subscription before it sends its own.

`InvoiceNumberingProofs`. NoGaps is about what is committed; `NumberingInv` adds that the number
a request has drawn is the next of its year as long as it holds the write lock (`RequestsHold`,
`OneWriter`), which holds because nobody else draws in between, and a start repairs only when no request runs.
That one more number leaves no gap is `GapFreeGrows`. The repair of a start numbers all blank
invoices at once: `RanksCount` says that their ranks are 1 to their count, each once, and
`AllNumbersGiven` that together with the older ones they fill the year. The order of a repair,
NumbersNameTheYear, comes from the ranks.

`ReferenceRatesProofs`. `RatesInv`: the writer's draft is the committed table merged with the
quotes of the cells read so far, and who does not write has read none. So a commit is the merge of a
whole worksheet, and everything else is a stutter (ImportsAreMerges); that the merge
replaces nothing follows because a cell with another quote ends the import. The counts of the summary
are those of the cells read (SummariesAreTrue). The two readers of `RateReports`: the value of an
invoice depends on the latest quote before its date and on nothing else, except for a paisa on its
units (ValuesFollow): the five errors add up to 9 parts in `Precision` (`PaiseAreClose`), so two
quotes of one price are less than a paisa apart before they are rounded (`PriceGivesPaise`); and a
download, which is the table in the order of dates and currencies, read again cell by cell
gives exactly the quotes it was made of (DownloadsImport). This needs no induction:
`AscendingHasAll` says that each row of the table has its place in the list, by the least rank that
would be missing, and `ReadToTheEnd` is `ReadQuotes`, the lemma of the import.

`StatementsProofs`. `StatementsInv`: ids of rows only grow, and the rows of a statement that nobody
touched are consecutive and hold the lines of its workbook in order (`IsWhole`). An
upload takes its ids under the write lock, so that no other row comes between (StatementsAreWhole).
A download has read an import, perhaps its rows, and never both from the same state; `ReadingInv` says that
what it has read still belongs together, unless the statement is among the `touched`. Sorting rows by id
therefore pairs them with lines, and ClassificationsStayOnTheirRows follows for the answer, whatever was
classified between the reads. That the heads are among those of the table is `RulesHold`.

`DBBrowserProofs`. `BrowserInv`: a connection is of one request at most, only a request that runs
leaves a transaction open on it, and after BEGIN the writes of a batch are pending together
until COMMIT, and committed or gone together afterwards. `OpenInside` connects the position
in the script with the state of the connection; `KeepsBatches` is what each of the five kinds of
statements must do for it. The deadline may cut in everywhere, which is why closing
the connection has to end its transaction.

QueriesAreSingle needs what the scan computes for any text, which is an induction over the text
that the theorems of the library cannot state. `DBBrowserProofs` makes it of sets
and of the well-foundedness of the naturals:

- A function defined from the end of a text exists (`BackwardsExists`), so the recursive functions
  of `StatementScanner` have the values that they are defined by (`ClosesExist`, `ScansExist`).
- `Reads` is the set of the places that the scan reads from a place on, neither blank nor passed over.
- `ReadsPieces`: each piece is read as what it is, wherever it stands. Two strings in a
  row are the hard case, because a quote after a quote is a doubled one; `StringsEnd` shows that
  such strings are passed over together, up to the last of them.
- `KnowsAll` puts the pieces together, from the last one to the first: the semicolons that the scan reads
  are the pieces that end a statement, and the other places it reads are words and tokens.
- The scan accepts by `Reads` (`ScanAccepts`), and SQLite's statements are counted by the
  pieces (`StatementsAreSingle`); the two are the same, ScanKnowsStatements.
- `Asked`, an invariant, carries the decision to the answer: a text of one
  statement is not refused, and any other has run nothing when it is answered.

`StartupProofs` proves all properties of the run startup_and_tax, for any older databases,
invoices, addresses and amounts. `StepsAre` states what `Steps` is, statement by statement.
`StartInv` says that while a start has not failed, what the statements before its step create
exists, except columns that were refused; a script that failed goes on among the columns only.
`TaxInv` is about the data: an invoice's address exists, its treatment is the one of its own
GSTINs, and the columns of the tax come after those of addresses. From these:

- `MigrationDecides`: the SQL of the migration, which compares lengths and prefixes,
  decides as the Go code does on new invoices.
- The tax is split once for any number of lines. This needs that `ExactTax` is an integer for each
  sequence of lines; there is no induction over sequences, but the least length of a
  counterexample has a line that can be removed (`ExactTaxIsInt`, well-foundedness of the
  naturals).
- StartsAreOneStep, the refinement: until the columns of addresses exist nothing can be taxed
  and nothing is served, so the addresses that an older invoice will get may be given to it from the
  beginning, and the backfill of initBPAddresses is a stutter.

Proving brought facts about the data into the assumptions, where the models had taken them for
granted: there is at least one address id, and null is none of the records (`GstAssumption`, `BlankAssumption`,
`StatementsAssumption`, `FormAssumption`); the heads that rules give are texts (`TextsAssumption`); there are finitely many
currencies; the rows of an older bank statement are as a rule or this screen has saved
them, a partner only under the head of receipts (`GridAssumption`); nothing follows a comment or a string
that the text does not close (`BrowserAssumption`).

Only model-checked is liveness (RequestsAreAnswered, CallbacksAreAnswered, LocksAreReleased, ScreensSavesEnd):
TLAPS has no rules for fairness and ENABLED.

## Not modelled, and the plan

1. Linking, saving bills and storing statements as requests of `LedgerTransactions`.
2. The sales invoice form: due dates, the retained archived address, totals.

PDFs, the landing page and the texts of the company profile keep no state worth a module.
Lists, details and settings of the database browser only read.
