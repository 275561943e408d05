--------------------------- MODULE StatementGrid ---------------------------
(***************************************************************************)
(* The statement screen in a browser, transactions.component.ts with the   *)
(* conditions of its template, against the subledger of the server. Every  *)
(* edit of a cell is a PUT of its own, the allocation panel is another,    *)
(* and nothing keeps them, or the fetches that follow some of them, in     *)
(* order. Requests are lost, refused, or carried out and their answers     *)
(* lost; the user may leave and come back before they end.                 *)
(*                                                                         *)
(* One user, and receipts only: a withdrawal is edited alike, and its      *)
(* invoices belong to another screen. Downloads only read.                 *)
(***************************************************************************)
EXTENDS Subledger

CONSTANTS
    Slots,          \* bound: the requests under way at once
    MaxPuts         \* bound: the PUTs of a behaviour

VARIABLES
    grid,        \* the rows of the component; None before they come
    panel,       \* selected and allocations; None when the panel is closed
    allocating,  \* the flag saving
    wire,        \* the requests under way
    puts,        \* how many PUTs there have been
    disturbed    \* history: a PUT and another request overlapped, or the grid
                 \* could not be fetched again

ledger == <<server, bank, invoice, salesAlloc, bill, link, billAlloc, partyCache>>
screenVars == <<grid, panel, allocating>>
gridVars == <<ledger, screenVars, wire, puts, disturbed>>

Allocation == [Invoices -> Amounts]
GridRow == [class: BankRow, alloc: Allocation]
\* The panel's copy of a row: its partner and allocations are edited in it.
Panel == [of: Transactions, class: BankRow, alloc: Allocation]
\* An edit keeps the allocations of the server, which None stands for.
\* An edit that the server has handled has nothing left but its answer.
Put == [kind: {"edit", "save"}, of: Transactions, class: BankRow \cup {None},
        alloc: Allocation \cup {None}, mine: BOOLEAN,
        status: {"sent", "stored", "refused"}]
Fetch == [kind: {"rows"}, status: {"sent", "read", "complete"},
          classes: [Transactions -> BankRow] \cup {None},
          rows: [Transactions -> GridRow] \cup {None}]

\* A grid holds the rows of the bank as the rules classify them, or as this
\* screen has saved them before: only a sales receipt has a partner.
ASSUME GridAssumption ==
    /\ Slots \subseteq Nat /\ MaxPuts \in Nat /\ SalesHead \in Heads
    /\ None \notin Panel \cup Put \cup Fetch
    /\ None \notin [Transactions -> GridRow] \cup [Transactions -> BankRow]
    /\ \A db \in LegacyDatabases :
          /\ db.bank \in [Transactions -> BankRow]
          /\ \A t \in Transactions : db.bank[t].partner # None =>
                db.bank[t].head = SalesHead /\ db.bank[t].sub = db.bank[t].partner

GridTypeOK ==
    /\ TypeOK
    /\ grid \in [Transactions -> GridRow] \cup {None}
    /\ panel \in Panel \cup {None}
    /\ {allocating, disturbed} \subseteq BOOLEAN
    /\ puts \in 0 .. MaxPuts
    /\ wire \in [Slots -> Put \cup Fetch \cup {None}]

---------------------------------------------------------------------------
(* Requests *)

Free == {s \in Slots : wire[s] = None}
Quiet == Free = Slots
PutsUnderWay == {s \in Slots \ Free : wire[s].kind # "rows"}

NewFetch == [kind |-> "rows", status |-> "sent", classes |-> None, rows |-> None]

\* A request joins those under way.
SendPut(put) ==
    /\ puts < MaxPuts /\ puts' = puts + 1
    /\ \E s \in Free : (\A other \in Free : s <= other) /\ wire' = [wire EXCEPT ![s] = put]
    /\ disturbed' = (disturbed \/ ~Quiet)

\* fetchTransactions, in the place of a request that was answered.
FetchTransactions(s) ==
    /\ wire' = [wire EXCEPT ![s] = NewFetch]
    /\ disturbed' = (Free # Slots \ {s})

End(s) == wire' = [wire EXCEPT ![s] = None]

\* What the server has yet to carry out goes on without the component.
Abandoned(s) ==
    IF s \in PutsUnderWay /\ wire[s].status = "sent" THEN [wire[s] EXCEPT !.mine = FALSE] ELSE None

\* The connection breaks, but the server carries on.
GoesOn(s) == Abandoned(s) # None /\ disturbed' = TRUE

---------------------------------------------------------------------------
(* The server *)

\* UpdateTransaction
ServePut(s) ==
    /\ s \in PutsUnderWay /\ wire[s].status = "sent"
    /\ UNCHANGED <<server, screenVars, puts, disturbed>>
    /\ LET put == wire[s]
           kept(status) == IF ~put.mine THEN None
                           ELSE [put EXCEPT !.status = status,
                                            !.class = IF put.kind = "edit" THEN None ELSE @]
       IN  \/ /\ AllocateTransaction(put.of, put.class, put.alloc)
              /\ wire' = [wire EXCEPT ![s] = kept("stored")]
           \/ /\ ~AcceptsAllocation(put.of, put.class, put.alloc)
              /\ wire' = [wire EXCEPT ![s] = kept("refused")]
              /\ UNCHANGED <<bank, invoice, salesAlloc, bill, link, billAlloc, partyCache>>

\* GetTransactions: the rows, then their allocations.
ServeFetch(s) ==
    /\ s \notin Free \cup PutsUnderWay
    /\ UNCHANGED <<ledger, screenVars, puts, disturbed>>
    /\ LET fetch == wire[s]
       IN  \/ /\ fetch.status = "sent"
              /\ wire' = [wire EXCEPT ![s] = [@ EXCEPT !.status = "read", !.classes = bank]]
           \/ /\ fetch.status = "read"
              /\ wire' = [wire EXCEPT ![s] = [@ EXCEPT !.status = "complete", !.classes = None,
                    !.rows = [t \in Transactions |->
                        [class |-> fetch.classes[t], alloc |-> salesAlloc[t]]]]]

---------------------------------------------------------------------------
(* The grid *)

\* Leaving a sales head takes the partner along.
KeepsPartner(class) == class
WithoutPartner(class) == [class EXCEPT !.partner = IF class.head = SalesHead THEN @ ELSE None]
AfterHead(class) == WithoutPartner(class)

\* The classes one edit of a cell makes of a row.
Edits(class) ==
    {AfterHead([class EXCEPT !.head = head]) : head \in Heads \ {class.head}}
    \cup (IF class.head \in SalesHeads THEN {} ELSE
             {[class EXCEPT !.sub = sub] : sub \in Subs \ {class.sub}})
    \cup (IF class.head # SalesHead THEN {} ELSE
             {[class EXCEPT !.partner = p] : p \in (Partners \cup {None}) \ {class.partner}})

EditsOf(t) == IF grid = None THEN {} ELSE Edits(grid[t].class)

\* onCellValueChanged
EditCell(t, class) ==
    /\ grid # None
    /\ grid' = [grid EXCEPT ![t].class = class]
    /\ SendPut([kind |-> "edit", of |-> t, class |-> class, alloc |-> None,
                mine |-> TRUE, status |-> "sent"])
    /\ UNCHANGED <<ledger, panel, allocating>>

\* An error, also of a request that was carried out, fetches the rows again.
ShowsAlert(s) == End(s) /\ UNCHANGED disturbed
FetchesAgain(s) == FetchTransactions(s)
AfterEditError(s) == FetchesAgain(s)

EditAnswered(s) ==
    /\ s \in PutsUnderWay /\ wire[s].kind = "edit" /\ wire[s].mine
    /\ UNCHANGED <<ledger, screenVars, puts>>
    /\ \/ wire[s].status = "stored" /\ End(s) /\ UNCHANGED disturbed
       \/ AfterEditError(s)
       \/ /\ GoesOn(s)
          /\ \E f \in Free : /\ \A other \in Free : f <= other
                            /\ wire' = [wire EXCEPT ![s] = Abandoned(s), ![f] = NewFetch]

\* The rows come, or do not.
RowsAnswered(s) ==
    /\ s \notin Free \cup PutsUnderWay /\ End(s)
    /\ UNCHANGED <<ledger, panel, allocating, puts>>
    /\ \/ wire[s].status = "complete" /\ grid' = wire[s].rows /\ UNCHANGED disturbed
       \/ disturbed' = TRUE /\ UNCHANGED grid

---------------------------------------------------------------------------
(* The allocation panel *)

CanAllocateSales(t) ==
    /\ grid[t].class.head \in SalesHeads
    /\ Deposit[t] > 0 /\ Withdrawal[t] = 0

\* onCellClicked, openAllocation
OpenAllocation(t) ==
    /\ grid # None /\ ~allocating /\ CanAllocateSales(t)
    /\ panel' = [of |-> t, class |-> grid[t].class, alloc |-> grid[t].alloc]
    /\ UNCHANGED <<ledger, grid, allocating, wire, puts, disturbed>>

\* is_closed, is_settled
IsOpen(i) == ~invoice[i].closed /\ Sum(InvoiceColumn(i)) < ExpectedReceipt(invoice[i])

\* Of the list that openAllocation asks for. Its age is left out: the server checks
\* what is saved.
AvailableInvoices ==
    {i \in Invoices : /\ invoice[i] # None
                      /\ invoice[i].partner = panel.class.partner
                      /\ IsOpen(i) \/ panel.alloc[i] > 0}

\* The partner, and the amount of an invoice.
EditPanel ==
    /\ panel # None /\ ~allocating
    /\ \/ \E p \in (Partners \cup {None}) \ {panel.class.partner} :
             panel' = [panel EXCEPT !.class.partner = p, !.alloc = Nothing(Invoices)]
       \/ \E i \in AvailableInvoices, amount \in Amounts :
             /\ ~invoice[i].closed
             /\ panel' = [panel EXCEPT !.alloc[i] = amount]
    /\ UNCHANGED <<ledger, grid, allocating, wire, puts, disturbed>>

CancelPanel ==
    /\ panel # None /\ ~allocating
    /\ panel' = None
    /\ UNCHANGED <<ledger, grid, allocating, wire, puts, disturbed>>

\* saveAllocations
SaveAllocations ==
    /\ panel # None /\ panel.class.partner # None /\ ~allocating
    /\ allocating' = TRUE
    /\ SendPut([kind |-> "save", of |-> panel.of, class |-> [panel.class EXCEPT !.head = SalesHead],
                alloc |-> panel.alloc, mine |-> TRUE, status |-> "sent"])
    /\ UNCHANGED <<ledger, grid, panel>>

\* A save that succeeds closes the panel and fetches the rows; after an error the
\* panel stays, and the grid with it, though the save may have been carried out, or
\* will be.
SaveAnswered(s) ==
    /\ s \in PutsUnderWay /\ wire[s].kind = "save" /\ wire[s].mine
    /\ allocating' = FALSE
    /\ \/ /\ wire[s].status = "stored"
          /\ panel' = None /\ FetchTransactions(s)
       \/ /\ End(s) /\ UNCHANGED panel
          /\ disturbed' = (disturbed \/ wire[s].status = "stored")
       \/ GoesOn(s) /\ wire' = [wire EXCEPT ![s] = Abandoned(s)] /\ UNCHANGED panel
    /\ UNCHANGED <<ledger, grid, puts>>

---------------------------------------------------------------------------
(* Visits *)

\* The component is destroyed, and that of the next visit fetches its rows.
Visit ==
    /\ grid' = None /\ panel' = None /\ allocating' = FALSE
    /\ \E s \in Slots :
          /\ Abandoned(s) = None
          /\ \A other \in Slots : Abandoned(other) = None => s <= other
          /\ wire' = [other \in Slots |-> IF other = s THEN NewFetch ELSE Abandoned(other)]
          /\ disturbed' = (\E other \in Slots : Abandoned(other) # None)
    /\ UNCHANGED <<ledger, puts>>

\* A database as the start of the server leaves it, before any allocation.
GridInit ==
    /\ server = "serving"
    /\ \E db \in LegacyDatabases :
          bank = db.bank /\ invoice = db.invoice /\ bill = db.bill /\ link = db.link
    /\ salesAlloc = [t \in Transactions |-> Nothing(Invoices)]
    /\ billAlloc = [t \in Transactions |-> Nothing(Bills)]
    /\ partyCache = [g \in Gstins |-> None]
    /\ grid = None /\ panel = None /\ allocating = FALSE
    /\ wire = [s \in Slots |-> None] /\ puts = 0 /\ disturbed = FALSE

Progress(s) == ServePut(s) \/ ServeFetch(s) \/ EditAnswered(s) \/ RowsAnswered(s) \/ SaveAnswered(s)

GridNext ==
    \/ \E t \in Transactions : 
          OpenAllocation(t) \/ \E class \in EditsOf(t) : EditCell(t, class)
    \/ EditPanel \/ CancelPanel \/ SaveAllocations \/ Visit
    \/ \E s \in Slots : Progress(s)

---------------------------------------------------------------------------
(* Properties *)

\* Of a sales row the grid shows the partner's name as sub head.
Shown(row) ==
    [class |-> [row.class EXCEPT !.sub =
        IF row.class.head \in SalesHeads /\ row.class.partner # None
        THEN row.class.partner ELSE @],
     alloc |-> row.alloc]

\* Unless requests overlapped or an answer was lost, the grid shows what is
\* stored once all is answered: what the server derived from an edit, and what an
\* edit that was refused has left, included.
GridShowsLedger ==
    ~disturbed /\ Quiet /\ grid # None =>
        \A t \in Transactions : Shown(grid[t]) = [class |-> bank[t], alloc |-> salesAlloc[t]]

\* However the requests of the screen overlap and overtake each other, only a
\* sales receipt has a partner, and its allocations are of that partner.
PartnersAreOfReceipts ==
    \A t \in Transactions :
        /\ bank[t].partner # None => bank[t].head = SalesHead /\ bank[t].sub = bank[t].partner
        /\ \A i \in Links(salesAlloc[t]) : invoice[i].partner = bank[t].partner

\* While a panel is saved, and no longer, its fields are disabled and show what
\* was sent, so that a refusal finds it.
PanelKeepsDraft ==
    LET saves == {s \in PutsUnderWay : wire[s].kind = "save" /\ wire[s].mine}
    IN  /\ allocating <=> saves # {}
        /\ \A s \in saves : /\ panel # None
                           /\ panel.alloc = wire[s].alloc
                           /\ [panel.class EXCEPT !.head = SalesHead] = wire[s].class
=============================================================================
