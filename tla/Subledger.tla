---------------------------- MODULE Subledger ----------------------------
(***************************************************************************)
(* The receipt and payment subledgers of core/: bank transactions, sales   *)
(* and purchase invoices, and the two allocation tables that match them.   *)
(* Every exported operation of core runs in one database transaction, so   *)
(* one action here is one committed operation; a request that is refused   *)
(* rolls back and is not a step. LedgerTransactions shows that this is    *)
(* what concurrent database transactions amount to.                        *)
(*                                                                         *)
(* An allocation table is a matrix: amount 0 means that there is no row.   *)
(***************************************************************************)
EXTENDS Integers

CONSTANTS
    Transactions,       \* ids of bank_transactions
    Invoices,           \* ids of sales_invoices, in the order they are created
    Bills,              \* ids of purchase_invoices, in the order they are created
    Partners,           \* business partners; the name of a partner is the partner
    Amounts,            \* money, in the smallest unit the program keeps (paise)
    Currencies,         \* currencies of sales invoices
    LineItems,          \* line item lists: net amount, and GST in hundredths of a paisa
    Heads, Subs,        \* account heads and sub heads a client may send
    Restricted,         \* the heads and sub heads that contain "salary" or "personal"
    TypedNumbers,       \* nonblank invoice_number texts, typed by a client or a rule
    BillNumbers,        \* purchase invoice numbers, up to case and spaces
    Gstins, Parties,    \* supplier GSTINs, and supplier names with addresses
    None,               \* SQL NULL: no partner, no row, no GSTIN, no number

    Deposit, Withdrawal, Forex,  \* columns of a statement row, fixed at import
    Currency,                    \* its recorded currency, "" when there is none
    Rule,                        \* the classification ClassifyTransaction gives it
    LegacyDatabases,             \* the databases of older releases found at startup
    Sum(_)                       \* SQL's COALESCE(SUM(amount), 0) over a column

SalesHead == "Sales Invoice"
\* The spellings strings.EqualFold(strings.TrimSpace(head), ...) accepts.
SalesHeads == {SalesHead, "sales invoice"}

Text == {{}} \cup {{text} : text \in TypedNumbers}   \* invoice_number: blank, or some text
Classification == [head: Heads, sub: Subs, number: Text, partner: Partners \cup {None}]
\* A stored invoice_number is a typed text or the set of invoices it names.
BankRow == [head: Heads, sub: Subs \cup Partners,
            number: Text \cup SUBSET Invoices, partner: Partners \cup {None}]
SalesInvoice == [partner: Partners, currency: Currencies,
                 items: LineItems, closed: BOOLEAN]
Bill == [total: Amounts \ {0}, number: BillNumbers \cup {None},
         gstin: Gstins \cup {None}, party: Parties]

ASSUME AmountAssumption == Amounts \subseteq Nat /\ 0 \in Amounts
ASSUME StatementAssumption ==
    /\ Deposit \in [Transactions -> Amounts]
    /\ Withdrawal \in [Transactions -> Amounts]
    /\ Forex \in [Transactions -> Amounts]
    /\ Currency \in [Transactions -> Currencies \cup {""}]
    /\ Rule \in [Transactions -> [head: Heads, sub: Subs, number: Text, partner: {None}]]
ASSUME IdAssumption ==
    /\ Invoices \subseteq Nat /\ Bills \subseteq Nat
    /\ \A S \in SUBSET Bills : S # {} => \E newest \in S : \A b \in S : b <= newest
ASSUME LineItemAssumption == LineItems \subseteq [net: Nat, gst: Nat]
ASSUME NullAssumption ==
    /\ None \notin Partners \cup Transactions \cup Gstins \cup BillNumbers \cup Parties
    /\ None \notin BankRow \cup SalesInvoice \cup Bill
    /\ None \notin [Invoices -> Amounts] \cup [Bills -> Amounts]
ASSUME TypedAssumption == TypedNumbers \cap Invoices = {}
(***************************************************************************)
(* What SUM means on a column with one row per element of S: no rows sum   *)
(* to 0, and a row adds its amount to the sum of the others.               *)
(***************************************************************************)
ASSUME SumAssumption ==
    \A S \in {Transactions, Invoices, Bills} : \A f \in [S -> Amounts] :
        /\ Sum(f) \in Nat
        /\ (\A x \in S : f[x] = 0) => Sum(f) = 0
        /\ \A x \in S : Sum(f) = Sum([f EXCEPT ![x] = 0]) + f[x]

VARIABLES
    server,      \* "stopped", "starting" inside InitDB, or "serving" requests
    bank,        \* bank_transactions: classification of each stored row
    invoice,     \* sales_invoices with sales_invoice_line_items
    salesAlloc,  \* invoice_allocations
    bill,        \* purchase_invoices
    link,        \* purchase_invoices.bank_transaction_id, the older single link
    billAlloc,   \* purchase_allocations
    partyCache   \* purchase_party_cache

vars == <<server, bank, invoice, salesAlloc, bill, link, billAlloc, partyCache>>

Nothing(S) == [x \in S |-> 0]
Links(allocations) == {x \in DOMAIN allocations : allocations[x] > 0}
InvoiceColumn(i) == [t \in Transactions |-> salesAlloc[t][i]]
BillColumn(b) == [t \in Transactions |-> billAlloc[t][b]]
\* AUTOINCREMENT: the id of the row that an INSERT adds.
NextId(id, table) == \A other \in DOMAIN table : table[other] = None => id <= other
Lesser(a, b) == IF a <= b THEN a ELSE b

TypeOK ==
    /\ server \in {"stopped", "starting", "serving"}
    /\ bank \in [Transactions -> BankRow \cup {None}]
    /\ invoice \in [Invoices -> SalesInvoice \cup {None}]
    /\ salesAlloc \in [Transactions -> [Invoices -> Amounts]]
    /\ bill \in [Bills -> Bill \cup {None}]
    /\ link \in [Bills -> Transactions \cup {None}]
    /\ billAlloc \in [Transactions -> [Bills -> Amounts]]
    /\ partyCache \in [Gstins -> Parties \cup {None}]

---------------------------------------------------------------------------
(* Pure parts: eligibility and balances *)

\* A withdrawal that purchase invoices may be matched with.
PurchaseEligible(t, row) ==
    /\ Withdrawal[t] > 0
    /\ row.number = {}
    /\ {row.head, row.sub} \cap Restricted = {}
    /\ row.head \notin SalesHeads

(***************************************************************************)
(* A database of an older release has links without amounts, at most one   *)
(* per withdrawal (UNIQUE). Nothing is known of how the linked withdrawals *)
(* are classified by now.                                                  *)
(***************************************************************************)
ASSUME LegacyAssumption == \A db \in LegacyDatabases :
    /\ db.bank \in [Transactions -> BankRow \cup {None}]
    /\ db.invoice \in [Invoices -> SalesInvoice \cup {None}]
    /\ db.bill \in [Bills -> Bill \cup {None}]
    /\ db.link \in [Bills -> Transactions \cup {None}]
    /\ \A b \in Bills : db.link[b] # None =>
          /\ db.bill[b] # None
          /\ db.bank[db.link[b]] # None
          /\ \A other \in Bills : db.link[other] = db.link[b] => other = b

\* Expected INR cash: 90% of the net amount (10% is TDS) plus the GST, which is not
\* rounded before the sum is.
ExpectedReceipt(inv) ==
    IF inv.currency = "INR"
    THEN (90 * inv.items.net + inv.items.gst + 50) \div 100
    ELSE inv.items.net

\* What other payments already allocate to an invoice.
ReceivedFromOthers(t, i) == Sum([InvoiceColumn(i) EXCEPT ![t] = 0])
PaidByOthers(t, b) == Sum([BillColumn(b) EXCEPT ![t] = 0])

---------------------------------------------------------------------------
(* Receipts against sales invoices: core/allocations.go *)

CurrencyMatches(t, inv) ==
    IF inv.currency = "INR" THEN Currency[t] \in {"", "INR"}
    ELSE Currency[t] = inv.currency /\ Forex[t] > 0

MayAllocateAlone(t, partner, inv, old, paid, amount) ==
    /\ inv # None
    /\ inv.partner = partner
    /\ inv.closed => old = amount
    /\ CurrencyMatches(t, inv)
    /\ amount <= ExpectedReceipt(inv)

MayAllocateAcrossPartners(t, partner, inv, old, paid, amount) ==
    /\ inv # None
    /\ inv.closed => old = amount
    /\ CurrencyMatches(t, inv)
    /\ paid + amount <= ExpectedReceipt(inv)

MayAllocateToClosed(t, partner, inv, old, paid, amount) ==
    /\ inv # None
    /\ inv.partner = partner
    /\ inv.closed => old > 0
    /\ CurrencyMatches(t, inv)
    /\ paid + amount <= ExpectedReceipt(inv)

\* The checks of one requested allocation, in the loop of AllocateTransaction;
\* old is what t allocated to the invoice before, paid what the others do.
MayAllocate(t, partner, inv, old, paid, amount) ==
    /\ inv # None
    /\ inv.partner = partner
    /\ inv.closed => old = amount
    /\ CurrencyMatches(t, inv)
    /\ paid + amount <= ExpectedReceipt(inv)

\* The money a receipt can distribute, in the currency of its invoices.
ReceiptValue(t, chosen, invoices) ==
    IF \E i \in chosen : invoices[i].currency # "INR" THEN Forex[t] ELSE Deposit[t]

FitsDeposit(t, allocations, invoices) == Sum(allocations) <= Deposit[t]
\* What a receipt allocates in total fits its amount.
FitsReceipt(t, allocations, invoices) ==
    Sum(allocations) <= ReceiptValue(t, Links(allocations), invoices)

\* Only a receipt classified exactly as a sale to a partner may have allocations.
SalesReceipt(t, row) ==
    row.head = SalesHead /\ row.partner # None /\ Deposit[t] > 0 /\ Withdrawal[t] = 0

KeepsPurchasesUnlessEmptied(t, row, request) ==
    Links(billAlloc[t]) # {} =>
        Deposit[t] = 0 /\ (request # None => Links(request) = {})

\* A withdrawal with purchase allocations must stay an eligible withdrawal.
KeepsPurchases(t, row, request) ==
    Links(billAlloc[t]) # {} =>
        /\ PurchaseEligible(t, row)
        /\ Deposit[t] = 0
        /\ request # None => Links(request) = {}

\* The invoice_number text that replaces the client's.
NumberText(row, old, chosen) ==
    IF chosen # {} THEN chosen
    ELSE IF Links(old) # {} THEN {} ELSE row.number

\* A sales receipt carries the name of its partner as sub head.
SubText(row) == IF row.head \in SalesHeads /\ row.partner # None THEN row.partner ELSE row.sub

StoredRow(row, old, chosen) ==
    [row EXCEPT !.number = NumberText(row, old, chosen), !.sub = SubText(row)]

\* A request of None keeps the links it finds.
Requested(t, request) == IF request = None THEN salesAlloc[t] ELSE request

AcceptsAllocation(t, row, request) ==
    LET allocations == Requested(t, request)
        chosen == Links(allocations)
    IN  /\ bank[t] # None
        /\ KeepsPurchases(t, row, request)
        /\ chosen # {} => SalesReceipt(t, row)
        /\ \A i \in chosen : MayAllocate(t, row.partner, invoice[i], salesAlloc[t][i],
                                        ReceivedFromOthers(t, i), allocations[i])
        /\ FitsReceipt(t, allocations, invoice)

\* PUT /transactions/{id}
AllocateTransaction(t, row, request) ==
    LET allocations == Requested(t, request)
    IN  /\ AcceptsAllocation(t, row, request)
        /\ salesAlloc' = [salesAlloc EXCEPT ![t] = allocations]
        /\ bank' = [bank EXCEPT ![t] = StoredRow(row, salesAlloc[t], Links(allocations))]
        /\ UNCHANGED <<invoice, bill, link, billAlloc, partyCache>>

---------------------------------------------------------------------------
(* Withdrawals against purchase invoices: core/purchase_allocations.go and *)
(* core/purchase_invoices.go. `bills` are the purchase invoices as the     *)
(* running database transaction sees them.                                 *)

\* The checks of allocatePurchasePayment.
MayReplacePayment(t, allocations, bills) ==
    /\ bank[t] # None
    /\ PurchaseEligible(t, bank[t]) /\ Deposit[t] = 0
    /\ Links(salesAlloc[t]) = {}
    /\ \A b \in Links(allocations) :
          /\ bills[b] # None
          /\ PaidByOthers(t, b) + allocations[b] <= bills[b].total
    /\ Sum(allocations) <= Withdrawal[t]

LinksKept(t) == link

\* The rows it replaces also own the older link of the withdrawal.
LinksWithout(t) == [b \in Bills |-> IF link[b] = t THEN None ELSE link[b]]

\* PUT /transactions/{id}/purchase-allocations
AllocatePurchasePayment(t, allocations) ==
    /\ MayReplacePayment(t, allocations, bill)
    /\ billAlloc' = [billAlloc EXCEPT ![t] = allocations]
    /\ link' = LinksWithout(t)
    /\ UNCHANGED <<bank, invoice, salesAlloc, bill, partyCache>>

\* allocateLegacyPurchase: the linked invoice gets the lesser of its total and
\* the withdrawal, and the other allocations of the withdrawal stay.
LegacyAllocations(b, t, bills) ==
    [billAlloc[t] EXCEPT ![b] = Lesser(bills[b].total, Withdrawal[t])]

AllocateLegacyPurchase(b, t, bills) ==
    LET allocations == LegacyAllocations(b, t, bills)
    IN  /\ MayReplacePayment(t, allocations, bills)
        /\ billAlloc' = [billAlloc EXCEPT ![t] = allocations]
        /\ link' = [LinksWithout(t) EXCEPT ![b] = t]

\* The checks of a link that SavePurchaseInvoice and LinkPurchaseInvoice share.
MayLink(b, t) ==
    /\ bank[t] # None
    /\ PurchaseEligible(t, bank[t])
    /\ \A other \in Bills \ {b} : link[other] # t
    /\ Links(salesAlloc[t]) = {}

\* The triggers purchase_invoice_number_unique_insert and _update.
NumberFree(b, number) ==
    \/ number = None
    \/ bill[b] # None /\ bill[b].number = number
    \/ \A other \in Bills \ {b} : bill[other] # None => bill[other].number # number

AnyTotal(b, total) == TRUE

\* An edit may not bring the total below what is already paid.
TotalCoversPayments(b, total) == bill[b] # None => Sum(BillColumn(b)) <= total

\* The upsert of purchase_party_cache.
CacheParty(b, details) ==
    IF details.gstin = None THEN partyCache
    ELSE [partyCache EXCEPT ![details.gstin] = details.party]

\* POST /purchase-invoices and PUT /purchase-invoices/{id}; t is the withdrawal
\* named by the request, None when there is none.
SavePurchaseInvoice(b, details, t) ==
    LET bills == [bill EXCEPT ![b] = details]
    IN  /\ bill[b] = None => NextId(b, bill)
        /\ TotalCoversPayments(b, details.total)
        /\ bill[b] # None => link[b] = t
        /\ NumberFree(b, details.number)
        /\ bill' = bills
        /\ partyCache' = CacheParty(b, details)
        /\ IF t = None THEN UNCHANGED <<link, billAlloc>>
           ELSE MayLink(b, t) /\ AllocateLegacyPurchase(b, t, bills)
        /\ UNCHANGED <<bank, invoice, salesAlloc>>

\* POST /purchase-invoices/{id}/link
LinkPurchaseInvoice(b, t) ==
    /\ bill[b] # None
    /\ link[b] \in {None, t}
    /\ MayLink(b, t)
    /\ AllocateLegacyPurchase(b, t, bill)
    /\ UNCHANGED <<bank, invoice, salesAlloc, bill, partyCache>>

---------------------------------------------------------------------------
(* Statements and sales invoices: core/db.go *)

\* POST /upload: all the rows of a statement, classified by the rules.
StoreInDB(batch) ==
    /\ \A t \in batch : bank[t] = None
    /\ bank' = [t \in Transactions |-> IF t \in batch THEN Rule[t] ELSE bank[t]]
    /\ UNCHANGED <<invoice, salesAlloc, bill, link, billAlloc, partyCache>>

CreateSalesInvoice(i, inv) ==
    /\ invoice[i] = None /\ NextId(i, invoice)
    /\ invoice' = [invoice EXCEPT ![i] = inv]
    /\ UNCHANGED <<bank, salesAlloc, bill, link, billAlloc, partyCache>>

Linked(i) == \E t \in Transactions : salesAlloc[t][i] > 0

\* A linked invoice keeps its partner, currency and line items.
KeepsFinancials(i, inv) ==
    Linked(i) => [inv EXCEPT !.closed = invoice[i].closed] = invoice[i]

UpdateSalesInvoice(i, inv) ==
    /\ invoice[i] # None
    /\ KeepsFinancials(i, inv)
    /\ invoice' = [invoice EXCEPT ![i] = inv]
    /\ UNCHANGED <<bank, salesAlloc, bill, link, billAlloc, partyCache>>

SaveLineItems(i, items) ==
    /\ invoice[i] # None
    /\ ~Linked(i)
    /\ invoice' = [invoice EXCEPT ![i].items = items]
    /\ UNCHANGED <<bank, salesAlloc, bill, link, billAlloc, partyCache>>

---------------------------------------------------------------------------
(* Startup and shutdown *)

\* initPurchaseAllocations: INSERT OR IGNORE of the older single links.
MigratedAllocations ==
    [t \in Transactions |-> [b \in Bills |->
        IF billAlloc[t][b] = 0 /\ link[b] = t /\ Withdrawal[t] > 0
        THEN Lesser(bill[b].total, Withdrawal[t])
        ELSE billAlloc[t][b]]]

OfGstin(g) == {b \in Bills : bill[b] # None /\ bill[b].gstin = g}

\* initPurchaseParties: INSERT OR IGNORE of the newest invoice of each GSTIN.
MigratedCache ==
    [g \in Gstins |->
        IF partyCache[g] # None \/ OfGstin(g) = {} THEN partyCache[g]
        ELSE bill[CHOOSE newest \in OfGstin(g) : \A b \in OfGstin(g) : b <= newest].party]

\* The transaction of InitDB that ends with initPurchaseAllocations.
InitPurchaseInvoices ==
    /\ server = "stopped"
    /\ server' = "starting"
    /\ billAlloc' = MigratedAllocations
    /\ UNCHANGED <<bank, invoice, salesAlloc, bill, link, partyCache>>

\* The last statement of InitDB, committed on its own.
InitPurchaseParties ==
    /\ server = "starting"
    /\ server' = "serving"
    /\ partyCache' = MigratedCache
    /\ UNCHANGED <<bank, invoice, salesAlloc, bill, link, billAlloc>>

\* A crash or a shutdown: what is committed survives it.
Stop ==
    /\ server # "stopped"
    /\ server' = "stopped"
    /\ UNCHANGED <<bank, invoice, salesAlloc, bill, link, billAlloc, partyCache>>

Init ==
    /\ server = "stopped"
    /\ \E db \in LegacyDatabases :
          /\ bank = db.bank
          /\ invoice = db.invoice
          /\ bill = db.bill
          /\ link = db.link
    /\ salesAlloc = [t \in Transactions |-> Nothing(Invoices)]
    /\ billAlloc = [t \in Transactions |-> Nothing(Bills)]
    /\ partyCache = [g \in Gstins |-> None]

SalesRequest ==
    \/ \E i \in Invoices, inv \in SalesInvoice :
          CreateSalesInvoice(i, inv) \/ UpdateSalesInvoice(i, inv)
    \/ \E i \in Invoices, items \in LineItems : SaveLineItems(i, items)
    \/ \E t \in Transactions, row \in Classification,
          request \in [Invoices -> Amounts] \cup {None} : AllocateTransaction(t, row, request)

PurchaseRequest ==
    \/ \E t \in Transactions, allocations \in [Bills -> Amounts] :
          AllocatePurchasePayment(t, allocations)
    \/ \E b \in Bills, details \in Bill, t \in Transactions \cup {None} :
          SavePurchaseInvoice(b, details, t)
    \/ \E b \in Bills, t \in Transactions : LinkPurchaseInvoice(b, t)

Request ==
    /\ server = "serving"
    /\ UNCHANGED server
    /\ \/ \E batch \in SUBSET Transactions \ {{}} : StoreInDB(batch)
       \/ SalesRequest
       \/ PurchaseRequest

Next == InitPurchaseInvoices \/ InitPurchaseParties \/ Stop \/ Request

Spec == Init /\ [][Next]_vars

---------------------------------------------------------------------------
(* Properties *)

\* The receipts allocated to an invoice never exceed the cash it expects,
\* whatever sequence of allocations, edits and unlinkings led there.
InvoicesNotOverpaid ==
    \A i \in Invoices :
        Sum(InvoiceColumn(i)) <= IF invoice[i] = None THEN 0 ELSE ExpectedReceipt(invoice[i])

\* A receipt is never distributed twice: what it allocates stays within its own
\* amount in the currency of its invoices, though these are edited meanwhile.
ReceiptsNotOverspent ==
    \A t \in Transactions :
        Sum(salesAlloc[t]) <= ReceiptValue(t, Links(salesAlloc[t]), invoice)

\* The tables keep their types. Allocation rows, classification and derived text
\* are written by different requests but agree: an allocated receipt is a sales
\* receipt of the partner of all its invoices, and its invoice_number text names
\* exactly these.
ReceiptsMatchTheirInvoices ==
    TypeOK /\ \A t \in Transactions : Links(salesAlloc[t]) # {} =>
        /\ bank[t] # None
        /\ bank[t].head = SalesHead
        /\ bank[t].partner # None /\ bank[t].sub = bank[t].partner
        /\ bank[t].number = Links(salesAlloc[t])
        /\ Deposit[t] > 0 /\ Withdrawal[t] = 0
        /\ \A i \in Links(salesAlloc[t]) :
              /\ invoice[i] # None
              /\ invoice[i].partner = bank[t].partner
              /\ CurrencyMatches(t, invoice[i])

MayPay(t) == bank[t] # None /\ PurchaseEligible(t, bank[t]) /\ Deposit[t] = 0

\* Of an older link, which has no allocation yet, as a start finds it.
CarriedOver(t) ==
    /\ server = "stopped" /\ Links(billAlloc[t]) = {} /\ bank'[t] = bank[t]
    /\ \A b \in Links(billAlloc'[t]) : link[b] = t

\* Whatever replaces, adds to or reclassifies a payment of purchase invoices leaves
\* a withdrawal that may pay them, and one without sales allocations. Only the
\* links of an older release are carried over without that check; such a payment
\* stays as it is until its withdrawal is reclassified to one that may pay.
PurchasePaymentsStayEligible ==
    [][\A t \in Transactions : Links(billAlloc'[t]) # {} =>
          /\ Links(salesAlloc'[t]) = {}
          /\ \/ MayPay(t)'
             \/ CarriedOver(t)
             \/ bank'[t] = bank[t] /\ billAlloc'[t] = billAlloc[t]]_vars

\* The tables keep their types. The payments of a purchase invoice never exceed its
\* total, edits included, nor what a withdrawal pays its amount, whichever
\* generation of requests made them.
BillsNotOverpaid ==
    /\ TypeOK
    /\ \A b \in Bills : Sum(BillColumn(b)) <= IF bill[b] = None THEN 0 ELSE bill[b].total
    /\ \A t \in Transactions : Sum(billAlloc[t]) <= Withdrawal[t]

\* Once the server serves, a restart finds nothing to migrate: no older link
\* outlives its allocation, and every saved supplier GSTIN is in the cache.
RestartChangesNothing ==
    server = "serving" => MigratedAllocations = billAlloc /\ MigratedCache = partyCache

\* What an invoice with receipts is worth and to whom never changes under them,
\* and while an invoice is closed its receipts can only be removed.
SettledInvoicesAreFrozen ==
    [][\A i \in Invoices :
          /\ Linked(i) =>
                /\ invoice'[i].partner = invoice[i].partner
                /\ invoice'[i].currency = invoice[i].currency
                /\ invoice'[i].items = invoice[i].items
          /\ invoice[i] # None /\ invoice[i].closed =>
                \A t \in Transactions : salesAlloc'[t][i] \in {salesAlloc[t][i], 0}]_vars
=============================================================================
