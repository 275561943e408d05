------------------------- MODULE LedgerTransactions -------------------------
(***************************************************************************)
(* Requests of the two subledgers running concurrently. Each runs on its   *)
(* own pooled connection, in a deferred SQLite transaction: the first read *)
(* takes a SHARED lock, the first write RESERVED, and COMMIT waits in      *)
(* PENDING for the readers to leave. A handler checks and writes from what *)
(* it has read, one table at a time; a wait that does not end in time      *)
(* answers SQLITE_BUSY and the handler rolls back.                         *)
(*                                                                         *)
(* The tables are those of Subledger, whose specification this one has to  *)
(* implement: every interleaving commits as some order of whole requests.  *)
(***************************************************************************)
EXTENDS Subledger, FiniteSets, Sequences

CONSTANTS
    Handlers,      \* requests in progress, one goroutine and connection each
    Requests       \* what clients send

ASSUME RequestAssumption ==
    Requests \subseteq
        [op: {"allocate"}, t: Transactions, row: Classification,
         allocations: [Invoices -> Amounts] \cup {None}]
        \cup [op: {"pay"}, t: Transactions, allocations: [Bills -> Amounts]]
        \cup [op: {"update"}, i: Invoices, inv: SalesInvoice]
        \cup [op: {"list"}]

VARIABLES
    request,       \* the request of each handler, None when it is idle
    view,          \* the tables it has read, as they were then
    written,       \* it has executed its statements and is about to commit
    lock           \* what its connection holds: "none", "shared", "reserved", "pending"

handlerVars == <<request, view, written, lock>>
allVars == <<vars, handlerVars>>

Tables == [bank |-> bank, invoice |-> invoice, salesAlloc |-> salesAlloc,
           bill |-> bill, billAlloc |-> billAlloc]

\* The tables a request reads, in the order of its statements.
Reads(r) ==
    CASE r.op = "allocate" -> <<"bank", "billAlloc", "salesAlloc", "invoice">>
      [] r.op = "pay" -> <<"bank", "salesAlloc", "bill", "billAlloc">>
      [] r.op \in {"update", "list"} -> <<"invoice", "salesAlloc">>

NextTable(h) == Reads(request[h])[Cardinality(DOMAIN view[h]) + 1]
HasRead(h) == Cardinality(DOMAIN view[h]) = Len(Reads(request[h]))

\* The checks and effects of Subledger on the tables a handler has read.
Seen(h) == [table \in DOMAIN Tables |->
               IF table \in DOMAIN view[h] THEN view[h][table] ELSE Tables[table]]
At(v) == INSTANCE Subledger WITH
    bank <- v.bank, invoice <- v.invoice, salesAlloc <- v.salesAlloc,
    bill <- v.bill, billAlloc <- v.billAlloc

HandlersTypeOK ==
    /\ TypeOK
    /\ request \in [Handlers -> Requests \cup {None}]
    /\ written \in [Handlers -> BOOLEAN]
    /\ lock \in [Handlers -> {"none", "shared", "reserved", "pending"}]
    /\ \A h \in Handlers : DOMAIN view[h] \subseteq DOMAIN Tables

---------------------------------------------------------------------------
(* Locks *)

Others(h) == Handlers \ {h}
MayShare(h) == \A other \in Others(h) : lock[other] # "pending"
MayReserve(h) == \A other \in Others(h) : lock[other] \notin {"reserved", "pending"}
MayCommit(h) == \A other \in Others(h) : lock[other] = "none"

\* A statement outside the transaction gives its lock back when it ends.
ReadOutsideTransaction(h) == lock
\* The lock of a read stays until the transaction, or the open row cursor, ends.
ReadInTransaction(h) == IF lock[h] = "none" THEN [lock EXCEPT ![h] = "shared"] ELSE lock

\* GetSalesInvoices reads line items and balances on other connections while
\* its rows are open, so each of its reads asks for a lock of its own.
NeedsShare(h) == lock[h] = "none" \/ request[h].op = "list"

---------------------------------------------------------------------------
(* Handlers *)

Finish(h) ==
    /\ request' = [request EXCEPT ![h] = None]
    /\ view' = [view EXCEPT ![h] = <<>>]
    /\ written' = [written EXCEPT ![h] = FALSE]
    /\ lock' = [lock EXCEPT ![h] = "none"]

Receive(h, r) ==
    /\ server = "serving"
    /\ request[h] = None
    /\ request' = [request EXCEPT ![h] = r]
    /\ UNCHANGED <<vars, view, written, lock>>

Read(h) ==
    /\ request[h] # None
    /\ ~HasRead(h)
    /\ NeedsShare(h) => MayShare(h)
    /\ view' = [view EXCEPT ![h] =
           [table \in DOMAIN view[h] \cup {NextTable(h)} |->
               IF table \in DOMAIN view[h] THEN view[h][table] ELSE Tables[table]]]
    /\ lock' = ReadInTransaction(h)
    /\ UNCHANGED <<vars, request, written>>

AcceptsAllUpdates(h) ==
    LET r == request[h]
        v == Seen(h)
    IN  CASE r.op = "allocate" -> At(v)!AcceptsAllocation(r.t, r.row, r.allocations)
          [] r.op = "pay" -> At(v)!MayReplacePayment(r.t, r.allocations, v.bill)
          [] r.op = "update" -> v.invoice[r.i] # None

\* The checks, on what was read.
Accepts(h) ==
    LET r == request[h]
        v == Seen(h)
    IN  CASE r.op = "allocate" -> At(v)!AcceptsAllocation(r.t, r.row, r.allocations)
          [] r.op = "pay" -> At(v)!MayReplacePayment(r.t, r.allocations, v.bill)
          [] r.op = "update" -> v.invoice[r.i] # None /\ At(v)!KeepsFinancials(r.i, r.inv)

\* The first write: DELETE or UPDATE.
Write(h) ==
    /\ request[h] # None /\ request[h].op # "list"
    /\ HasRead(h) /\ ~written[h]
    /\ Accepts(h)
    /\ MayReserve(h)
    /\ written' = [written EXCEPT ![h] = TRUE]
    /\ lock' = [lock EXCEPT ![h] = "reserved"]
    /\ UNCHANGED <<vars, request, view>>

\* The error answers, with the deferred tx.Rollback().
Refuse(h) ==
    /\ request[h] # None /\ request[h].op # "list"
    /\ HasRead(h) /\ ~written[h]
    /\ ~Accepts(h)
    /\ Finish(h)
    /\ UNCHANGED vars

AnswerList(h) ==
    /\ request[h] # None /\ request[h].op = "list"
    /\ HasRead(h)
    /\ Finish(h)
    /\ UNCHANGED vars

\* COMMIT finds readers: no new reader may start.
AwaitReaders(h) ==
    /\ written[h] /\ lock[h] = "reserved"
    /\ ~MayCommit(h)
    /\ lock' = [lock EXCEPT ![h] = "pending"]
    /\ UNCHANGED <<vars, request, view, written>>

Effect(r, v) ==
    CASE r.op = "allocate" ->
            LET allocations == At(v)!Requested(r.t, r.allocations) IN
            /\ salesAlloc' = [salesAlloc EXCEPT ![r.t] = allocations]
            /\ bank' = [bank EXCEPT ![r.t] =
                   StoredRow(r.row, v.salesAlloc[r.t], Links(allocations))]
            /\ UNCHANGED <<server, invoice, bill, link, billAlloc, partyCache>>
      [] r.op = "pay" ->
            /\ billAlloc' = [billAlloc EXCEPT ![r.t] = r.allocations]
            /\ link' = LinksWithout(r.t)
            /\ UNCHANGED <<server, bank, invoice, salesAlloc, bill, partyCache>>
      [] r.op = "update" ->
            /\ invoice' = [invoice EXCEPT ![r.i] = r.inv]
            /\ UNCHANGED <<server, bank, salesAlloc, bill, link, billAlloc, partyCache>>

Commit(h) ==
    /\ written[h]
    /\ MayCommit(h)
    /\ Effect(request[h], Seen(h))
    /\ Finish(h)

WaitsForever(h) == FALSE
\* Waits that a busy timeout ends.
Blocked(h) ==
    \/ ~HasRead(h) /\ NeedsShare(h) /\ ~MayShare(h)
    \/ HasRead(h) /\ ~written[h] /\ request[h].op # "list" /\ ~MayReserve(h)
    \/ written[h] /\ ~MayCommit(h)

\* SQLITE_BUSY: the handler answers an error and rolls back.
Busy(h) ==
    /\ request[h] # None
    /\ Blocked(h)
    /\ Finish(h)
    /\ UNCHANGED vars

---------------------------------------------------------------------------
(* The system *)

LedgerInit ==
    /\ Init
    /\ request = [h \in Handlers |-> None]
    /\ view = [h \in Handlers |-> <<>>]
    /\ written = [h \in Handlers |-> FALSE]
    /\ lock = [h \in Handlers |-> "none"]

Start == (InitPurchaseInvoices \/ InitPurchaseParties) /\ UNCHANGED handlerVars

\* The process dies: its locks and uncommitted statements go with it.
Crash ==
    /\ Stop
    /\ request' = [h \in Handlers |-> None]
    /\ view' = [h \in Handlers |-> <<>>]
    /\ written' = [h \in Handlers |-> FALSE]
    /\ lock' = [h \in Handlers |-> "none"]

HandlerStep(h) ==
    \/ Read(h) \/ Write(h) \/ Refuse(h) \/ AnswerList(h)
    \/ AwaitReaders(h) \/ Commit(h) \/ Busy(h)

LedgerNext ==
    \/ Start
    \/ Crash
    \/ \E h \in Handlers : HandlerStep(h) \/ \E r \in Requests : Receive(h, r)

\* Goroutines are scheduled and a busy wait ends; clients and crashes are free.
LedgerSpec ==
    /\ LedgerInit /\ [][LedgerNext]_allVars
    /\ \A h \in Handlers : WF_allVars(HandlerStep(h))

---------------------------------------------------------------------------
(* Properties *)

\* The handlers keep their types, and what an open transaction, or an open row
\* cursor, has read is still what the database holds: no check is made and no
\* list is built from stale rows.
ReadsStayCurrent ==
    /\ HandlersTypeOK
    /\ \A h \in Handlers : \A table \in DOMAIN view[h] : view[h][table] = Tables[table]

\* However handlers interleave, wait, fail and crash, what they commit is a
\* sequence of whole requests of Subledger, each legal when it commits.
CommitsAreRequests == Spec

\* No pattern of waiting handlers keeps a request from its answer, not even a
\* list that waits for a COMMIT that waits for the list.
RequestsAreAnswered == \A h \in Handlers : request[h] # None ~> request[h] = None
=============================================================================
