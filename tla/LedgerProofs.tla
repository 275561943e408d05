---------------------------- MODULE LedgerProofs ----------------------------
(***************************************************************************)
(* Theorems of the ledger, for every value of the constants: of its tables *)
(* (Subledger), of the database transactions that change them              *)
(* (LedgerTransactions) and of the screens that edit them (Screens).       *)
(***************************************************************************)
EXTENDS LedgerTransactions, Screens, FiniteSetTheorems, TLAPS

(***************************************************************************)
(* The tables                                                              *)
(***************************************************************************)

---------------------------------------------------------------------------
(* Type correctness *)

LEMMA LesserType == \A a, b \in Amounts : Lesser(a, b) \in Amounts /\ Lesser(a, b) <= a /\ Lesser(a, b) <= b
  BY AmountAssumption DEF Lesser

LEMMA AllocateLegacyType ==
  ASSUME TypeOK, NEW b \in Bills, NEW t \in Transactions,
         NEW bills \in [Bills -> Bill \cup {None}], bills[b] # None,
         AllocateLegacyPurchase(b, t, bills)
  PROVE  /\ billAlloc' \in [Transactions -> [Bills -> Amounts]]
         /\ link' \in [Bills -> Transactions \cup {None}]
  <1>1. bills[b].total \in Amounts
    BY DEF Bill
  <1>2. Lesser(bills[b].total, Withdrawal[t]) \in Amounts
    BY <1>1, LesserType, StatementAssumption
  <1>3. QED
    BY <1>2 DEF AllocateLegacyPurchase, LegacyAllocations, TypeOK, LinksWithout

LEMMA SavedParty ==
  ASSUME TypeOK, NEW b \in Bills, NEW details \in Bill
  PROVE  CacheParty(b, details) \in [Gstins -> Parties \cup {None}]
  BY NullAssumption DEF TypeOK, CacheParty, Bill

LEMMA MigratedCacheType ==
  ASSUME TypeOK
  PROVE  MigratedCache \in [Gstins -> Parties \cup {None}]
  <1> SUFFICES ASSUME NEW g \in Gstins, OfGstin(g) # {}
               PROVE  bill[CHOOSE newest \in OfGstin(g) :
                              \A b \in OfGstin(g) : b <= newest].party \in Parties
    BY DEF MigratedCache, TypeOK
  <1> DEFINE newest == CHOOSE newest \in OfGstin(g) : \A b \in OfGstin(g) : b <= newest
  <1>1. newest \in OfGstin(g)
    BY IdAssumption DEF OfGstin
  <1>2. bill[newest] \in Bill
    BY <1>1 DEF OfGstin, TypeOK
  <1> QED
    BY <1>2 DEF Bill

\* The type invariant needs one fact more: only an invoice that exists has a link.
LinkedBillsExist == \A b \in Bills : link[b] # None => bill[b] # None

LEMMA InitType == Init => TypeOK /\ LinkedBillsExist
  <1> SUFFICES ASSUME Init PROVE TypeOK /\ LinkedBillsExist
    OBVIOUS
  <1>1. PICK db \in LegacyDatabases :
          bank = db.bank /\ invoice = db.invoice /\ bill = db.bill /\ link = db.link
    BY DEF Init
  <1>2. bank \in [Transactions -> BankRow \cup {None}]
        /\ invoice \in [Invoices -> SalesInvoice \cup {None}]
        /\ bill \in [Bills -> Bill \cup {None}]
        /\ link \in [Bills -> Transactions \cup {None}]
    BY <1>1, LegacyAssumption
  <1>3. \A b \in Bills : link[b] # None => bill[b] # None
    BY <1>1, LegacyAssumption
  <1>4. salesAlloc \in [Transactions -> [Invoices -> Amounts]]
        /\ billAlloc \in [Transactions -> [Bills -> Amounts]]
    BY AmountAssumption DEF Init, Nothing
  <1> QED
    BY <1>2, <1>3, <1>4 DEF Init, TypeOK, LinkedBillsExist

LEMMA StoredType ==
  ASSUME TypeOK, NEW t \in Transactions, NEW row \in Classification,
         NEW allocations \in [Invoices -> Amounts]
  PROVE  StoredRow(row, salesAlloc[t], Links(allocations)) \in BankRow
  <1> DEFINE chosen == Links(allocations)
  <1>1. chosen \subseteq Invoices
    BY DEF Links
  <1>2. NumberText(row, salesAlloc[t], chosen) \in Text \cup SUBSET Invoices
    BY <1>1 DEF NumberText, Classification
  <1>3. SubText(row) \in Subs \cup Partners
    BY DEF Classification, SubText
  <1> QED
    BY <1>2, <1>3 DEF Classification, BankRow, StoredRow

LEMMA RowType ==
  ASSUME TypeOK, NEW t \in Transactions, NEW row \in Classification,
         NEW asked \in [Invoices -> Amounts] \cup {None}, AllocateTransaction(t, row, asked)
  PROVE  /\ bank' \in [Transactions -> BankRow \cup {None}]
         /\ salesAlloc' \in [Transactions -> [Invoices -> Amounts]]
  <1>1. Requested(t, asked) \in [Invoices -> Amounts]
    BY DEF TypeOK, Requested
  <1> QED
    BY <1>1, StoredType DEF TypeOK, AllocateTransaction

LEMMA NextType == TypeOK /\ LinkedBillsExist /\ [Next]_vars => (TypeOK /\ LinkedBillsExist)'
  <1> SUFFICES ASSUME TypeOK, LinkedBillsExist, [Next]_vars
               PROVE  (TypeOK /\ LinkedBillsExist)'
    OBVIOUS
  <1> USE DEF TypeOK, LinkedBillsExist
  <1>1. CASE InitPurchaseInvoices \/ InitPurchaseParties
    <2>1. MigratedAllocations \in [Transactions -> [Bills -> Amounts]]
      <3> SUFFICES ASSUME NEW t \in Transactions, NEW b \in Bills, link[b] = t
                   PROVE  Lesser(bill[b].total, Withdrawal[t]) \in Amounts
        BY DEF MigratedAllocations
      <3>1. bill[b] \in Bill
        BY NullAssumption
      <3> QED
        BY <3>1, LesserType, StatementAssumption DEF Bill
    <2> QED
      BY <1>1, <2>1, MigratedCacheType DEF InitPurchaseInvoices, InitPurchaseParties
  <1>2. CASE Stop
    BY <1>2 DEF Stop
  <1>3. ASSUME NEW batch \in SUBSET Transactions, UNCHANGED server, StoreInDB(batch)
        PROVE  (TypeOK /\ LinkedBillsExist)'
    <2>1. \A t \in batch : Rule[t] \in BankRow
      BY StatementAssumption DEF BankRow
    <2> QED
      BY <1>3, <2>1 DEF StoreInDB
  <1>4. ASSUME NEW i \in Invoices, NEW inv \in SalesInvoice, UNCHANGED server,
               CreateSalesInvoice(i, inv) \/ UpdateSalesInvoice(i, inv)
        PROVE  (TypeOK /\ LinkedBillsExist)'
    BY <1>4 DEF CreateSalesInvoice, UpdateSalesInvoice
  <1>5. ASSUME NEW i \in Invoices, NEW items \in LineItems, UNCHANGED server,
               SaveLineItems(i, items)
        PROVE  (TypeOK /\ LinkedBillsExist)'
    <2>1. [invoice[i] EXCEPT !.items = items] \in SalesInvoice
      BY <1>5 DEF SaveLineItems, SalesInvoice
    <2> QED
      BY <1>5, <2>1 DEF SaveLineItems
  <1>6. ASSUME NEW t \in Transactions, NEW row \in Classification, UNCHANGED server,
               NEW asked \in [Invoices -> Amounts] \cup {None},
               AllocateTransaction(t, row, asked)
        PROVE  (TypeOK /\ LinkedBillsExist)'
    <2>1. UNCHANGED <<invoice, bill, link, billAlloc, partyCache>>
      BY <1>6 DEF AllocateTransaction
    <2> QED
      BY <1>6, <2>1, RowType
  <1>7. ASSUME NEW t \in Transactions, NEW allocations \in [Bills -> Amounts], UNCHANGED server,
               AllocatePurchasePayment(t, allocations)
        PROVE  (TypeOK /\ LinkedBillsExist)'
    BY <1>7 DEF AllocatePurchasePayment, LinksWithout
  <1>8. ASSUME NEW b \in Bills, NEW details \in Bill, NEW t \in Transactions \cup {None},
               UNCHANGED server, SavePurchaseInvoice(b, details, t)
        PROVE  (TypeOK /\ LinkedBillsExist)'
    <2> DEFINE bills == [bill EXCEPT ![b] = details]
    <2>1. bills \in [Bills -> Bill \cup {None}] /\ bills[b] # None
      BY NullAssumption
    <2>2. bill' = bills /\ partyCache' = CacheParty(b, details)
          /\ UNCHANGED <<bank, invoice, salesAlloc>>
      BY <1>8 DEF SavePurchaseInvoice
    <2>3. CASE t = None
      BY <1>8, <2>1, <2>2, <2>3, SavedParty, NullAssumption DEF SavePurchaseInvoice
    <2>4. CASE t # None
      <3>1. AllocateLegacyPurchase(b, t, bills)
        BY <1>8, <2>4 DEF SavePurchaseInvoice
      <3>2. link' = [LinksWithout(t) EXCEPT ![b] = t]
        BY <3>1 DEF AllocateLegacyPurchase
      <3>3. LinkedBillsExist'
        BY <2>1, <2>2, <3>2, NullAssumption DEF LinksWithout
      <3> QED
        BY <1>8, <2>1, <2>2, <2>4, <3>1, <3>3, SavedParty, AllocateLegacyType
    <2> QED
      BY <2>3, <2>4
  <1>9. ASSUME NEW b \in Bills, NEW t \in Transactions, UNCHANGED server, LinkPurchaseInvoice(b, t)
        PROVE  (TypeOK /\ LinkedBillsExist)'
    <2>1. bill[b] # None /\ AllocateLegacyPurchase(b, t, bill)
          /\ UNCHANGED <<bank, invoice, salesAlloc, bill, partyCache>>
      BY <1>9 DEF LinkPurchaseInvoice
    <2>2. link' = [LinksWithout(t) EXCEPT ![b] = t]
      BY <2>1 DEF AllocateLegacyPurchase
    <2>3. LinkedBillsExist'
      BY <2>1, <2>2 DEF LinksWithout
    <2> QED
      BY <1>9, <2>1, <2>3, AllocateLegacyType
  <1>10. CASE UNCHANGED vars
    BY <1>10 DEF vars
  <1> QED
    BY <1>1, <1>2, <1>3, <1>4, <1>5, <1>6, <1>7, <1>8, <1>9, <1>10
    DEF Next, Request, SalesRequest, PurchaseRequest

\* Every table keeps its type, whatever requests, crashes and restarts occur.
THEOREM TypeCorrect == Spec => [](TypeOK /\ LinkedBillsExist)
  BY InitType, NextType, PTL DEF Spec

---------------------------------------------------------------------------
(* Sums of columns and rows *)

LEMMA SumOfNothing ==
  ASSUME NEW S \in {Transactions, Invoices, Bills}, NEW f \in [S -> Amounts],
         \A x \in S : f[x] = 0
  PROVE  Sum(f) = 0
  BY SumAssumption

\* Replacing one entry: the other entries count as they did.
LEMMA SumOfReplaced ==
  ASSUME NEW S \in {Transactions, Invoices, Bills}, NEW f \in [S -> Amounts],
         NEW x \in S, NEW amount \in Amounts
  PROVE  /\ Sum([f EXCEPT ![x] = amount]) = Sum([f EXCEPT ![x] = 0]) + amount
         /\ Sum([f EXCEPT ![x] = 0]) \in Nat
         /\ Sum([f EXCEPT ![x] = 0]) <= Sum(f)
         /\ Sum(f) \in Nat
  <1> DEFINE g == [f EXCEPT ![x] = amount]
             z == [f EXCEPT ![x] = 0]
  <1>1. g \in [S -> Amounts] /\ z \in [S -> Amounts]
    BY AmountAssumption
  <1>2. [g EXCEPT ![x] = 0] = z /\ g[x] = amount
    BY <1>1
  <1>3. Sum(g) = Sum([g EXCEPT ![x] = 0]) + g[x]
    BY <1>1, SumAssumption
  <1>4. Sum(f) = Sum(z) + f[x] /\ Sum(z) \in Nat /\ Sum(f) \in Nat
    BY <1>1, SumAssumption
  <1>5. f[x] \in Nat
    BY AmountAssumption
  <1> QED
    BY <1>2, <1>3, <1>4, <1>5

LEMMA ExpectedIsNat == \A inv \in SalesInvoice : ExpectedReceipt(inv) \in Nat
  <1> SUFFICES ASSUME NEW inv \in SalesInvoice PROVE ExpectedReceipt(inv) \in Nat
    OBVIOUS
  <1>1. inv.items.net \in Nat /\ inv.items.gst \in Nat
    BY LineItemAssumption DEF SalesInvoice
  <1>2. \A n \in Nat : n \div 100 \in Nat
    OBVIOUS
  <1> QED
    BY <1>1, <1>2 DEF ExpectedReceipt

\* The column of an invoice after the allocations of one transaction are replaced.
LEMMA ReplacedColumn ==
  ASSUME TypeOK, NEW t \in Transactions, NEW allocations \in [Invoices -> Amounts],
         salesAlloc' = [salesAlloc EXCEPT ![t] = allocations], NEW i \in Invoices
  PROVE  /\ InvoiceColumn(i) \in [Transactions -> Amounts]
         /\ InvoiceColumn(i)' = [InvoiceColumn(i) EXCEPT ![t] = allocations[i]]
  BY DEF TypeOK, InvoiceColumn

LEMMA ReplacedBillColumn ==
  ASSUME TypeOK, NEW t \in Transactions, NEW allocations \in [Bills -> Amounts],
         billAlloc' = [billAlloc EXCEPT ![t] = allocations], NEW b \in Bills
  PROVE  /\ BillColumn(b) \in [Transactions -> Amounts]
         /\ BillColumn(b)' = [BillColumn(b) EXCEPT ![t] = allocations[b]]
  BY DEF TypeOK, BillColumn

---------------------------------------------------------------------------
(* Receipts *)

LEMMA InvoicesNotOverpaidInit == Init => InvoicesNotOverpaid
  <1> SUFFICES ASSUME Init, NEW i \in Invoices
               PROVE  Sum(InvoiceColumn(i)) <= IF invoice[i] = None THEN 0 ELSE ExpectedReceipt(invoice[i])
    BY DEF InvoicesNotOverpaid
  <1>1. TypeOK
    BY InitType
  <1>2. InvoiceColumn(i) \in [Transactions -> Amounts] /\ \A t \in Transactions : InvoiceColumn(i)[t] = 0
    BY <1>1, AmountAssumption DEF Init, InvoiceColumn, Nothing
  <1>3. Sum(InvoiceColumn(i)) = 0
    BY <1>2, SumOfNothing
  <1>4. invoice[i] # None => ExpectedReceipt(invoice[i]) \in Nat
    BY <1>1, ExpectedIsNat DEF TypeOK
  <1> QED
    BY <1>3, <1>4

LEMMA InvoicesNotOverpaidNext ==
  TypeOK /\ InvoicesNotOverpaid /\ [Next]_vars => InvoicesNotOverpaid'
  <1> SUFFICES ASSUME TypeOK, InvoicesNotOverpaid, [Next]_vars
               PROVE  InvoicesNotOverpaid'
    OBVIOUS
  <1>1. CASE UNCHANGED <<salesAlloc, invoice>>
    BY <1>1 DEF InvoicesNotOverpaid, InvoiceColumn
  <1>2. ASSUME NEW i \in Invoices, NEW inv \in SalesInvoice, invoice' = [invoice EXCEPT ![i] = inv],
               UNCHANGED salesAlloc,
               \/ invoice[i] = None \/ ~Linked(i)
               \/ ExpectedReceipt(inv) = ExpectedReceipt(invoice[i])
        PROVE  InvoicesNotOverpaid'
    <2> SUFFICES ASSUME NEW j \in Invoices
                 PROVE  Sum(InvoiceColumn(j)) <=
                          IF invoice'[j] = None THEN 0 ELSE ExpectedReceipt(invoice'[j])
      BY <1>2 DEF InvoicesNotOverpaid, InvoiceColumn
    <2>1. CASE j # i
      BY <2>1, <1>2 DEF InvoicesNotOverpaid, TypeOK
    <2>2. CASE j = i
      <3>1. invoice'[i] = inv /\ inv # None
        BY <1>2, NullAssumption DEF TypeOK
      <3>2. ExpectedReceipt(inv) \in Nat
        BY ExpectedIsNat
      <3>3. InvoiceColumn(i) \in [Transactions -> Amounts]
        BY DEF TypeOK, InvoiceColumn
      <3>4. Sum(InvoiceColumn(i)) \in Nat
        BY <3>3, SumAssumption
      <3>5. CASE invoice[i] = None
        BY <3>1, <3>2, <3>4, <3>5, <2>2 DEF InvoicesNotOverpaid
      <3>6. CASE ~Linked(i)
        <4>1. \A t \in Transactions : salesAlloc[t][i] \in Nat
          BY AmountAssumption DEF TypeOK
        <4>2. \A t \in Transactions : salesAlloc[t][i] = 0
          BY <3>6, <4>1 DEF Linked
        <4>3. \A t \in Transactions : InvoiceColumn(i)[t] = 0
          BY <4>2 DEF InvoiceColumn
        <4> QED
          BY <4>3, <3>1, <3>2, <3>3, <2>2, SumOfNothing
      <3>7. CASE invoice[i] # None /\ ExpectedReceipt(inv) = ExpectedReceipt(invoice[i])
        BY <3>1, <3>7, <2>2 DEF InvoicesNotOverpaid
      <3> QED
        BY <1>2, <3>5, <3>6, <3>7
    <2> QED
      BY <2>1, <2>2
  <1>3. ASSUME NEW i \in Invoices, NEW inv \in SalesInvoice,
               CreateSalesInvoice(i, inv) \/ UpdateSalesInvoice(i, inv)
        PROVE  InvoicesNotOverpaid'
    <2>1. CASE CreateSalesInvoice(i, inv)
      BY <2>1, <1>2 DEF CreateSalesInvoice
    <2>2. CASE UpdateSalesInvoice(i, inv)
      <3>1. CASE Linked(i)
        <4>1. invoice[i] \in SalesInvoice
          BY <2>2 DEF UpdateSalesInvoice, TypeOK
        <4>2. inv.items = invoice[i].items /\ inv.currency = invoice[i].currency
          BY <2>2, <3>1, <4>1 DEF UpdateSalesInvoice, KeepsFinancials, SalesInvoice
        <4>3. ExpectedReceipt(inv) = ExpectedReceipt(invoice[i])
          BY <4>2 DEF ExpectedReceipt
        <4> QED
          BY <2>2, <4>3, <1>2 DEF UpdateSalesInvoice
      <3>2. CASE ~Linked(i)
        BY <2>2, <3>2, <1>2 DEF UpdateSalesInvoice
      <3> QED
        BY <3>1, <3>2
    <2> QED
      BY <1>3, <2>1, <2>2
  <1>4. ASSUME NEW i \in Invoices, NEW items \in LineItems, SaveLineItems(i, items)
        PROVE  InvoicesNotOverpaid'
    <2>1. [invoice[i] EXCEPT !.items = items] \in SalesInvoice
      BY <1>4 DEF SaveLineItems, TypeOK, SalesInvoice
    <2> QED
      BY <1>4, <2>1, <1>2 DEF SaveLineItems
  <1>5. ASSUME NEW t \in Transactions, NEW row \in Classification,
               NEW asked \in [Invoices -> Amounts] \cup {None},
               AllocateTransaction(t, row, asked)
        PROVE  InvoicesNotOverpaid'
    <2> DEFINE allocations == Requested(t, asked)
    <2>1. /\ allocations \in [Invoices -> Amounts]
          /\ salesAlloc' = [salesAlloc EXCEPT ![t] = allocations]
          /\ \A i \in Links(allocations) :
                MayAllocate(t, row.partner, invoice[i], salesAlloc[t][i],
                            ReceivedFromOthers(t, i), allocations[i])
          /\ UNCHANGED invoice
      BY <1>5 DEF AllocateTransaction, AcceptsAllocation, Requested, TypeOK
    <2> HIDE DEF allocations
    <2> SUFFICES ASSUME NEW i \in Invoices
                 PROVE  Sum(InvoiceColumn(i)') <=
                          IF invoice[i] = None THEN 0 ELSE ExpectedReceipt(invoice[i])
      BY <2>1 DEF InvoicesNotOverpaid
    <2> DEFINE column == InvoiceColumn(i)
    <2>2. column \in [Transactions -> Amounts] /\ column' = [column EXCEPT ![t] = allocations[i]]
      BY <2>1, ReplacedColumn
    <2>3. allocations[i] \in Amounts /\ allocations[i] \in Nat
      BY <2>1, AmountAssumption
    <2>4. /\ Sum([column EXCEPT ![t] = allocations[i]]) = Sum([column EXCEPT ![t] = 0]) + allocations[i]
          /\ Sum([column EXCEPT ![t] = 0]) <= Sum(column)
          /\ Sum([column EXCEPT ![t] = 0]) \in Nat /\ Sum(column) \in Nat
      <3> HIDE DEF column
      <3> QED
        BY <2>2, <2>3, SumOfReplaced
    <2>4a. Sum(column') = Sum([column EXCEPT ![t] = 0]) + allocations[i]
      BY <2>2, <2>4
    <2>5. CASE allocations[i] > 0
      <3>1. MayAllocate(t, row.partner, invoice[i], salesAlloc[t][i],
                        ReceivedFromOthers(t, i), allocations[i])
        BY <2>1, <2>5 DEF Links
      <3> QED
        BY <3>1, <2>4a DEF MayAllocate, ReceivedFromOthers
    <2>6. CASE allocations[i] = 0
      <3>1. Sum(column') <= Sum(column)
        BY <2>4, <2>4a, <2>6
      <3>2. IF invoice[i] = None THEN Sum(column) <= 0 ELSE Sum(column) <= ExpectedReceipt(invoice[i])
        BY DEF InvoicesNotOverpaid
      <3>3. invoice[i] # None => ExpectedReceipt(invoice[i]) \in Nat
        BY ExpectedIsNat DEF TypeOK
      <3>4. Sum(column') \in Nat
        BY <2>3, <2>4, <2>4a
      <3> QED
        BY <2>4, <3>1, <3>2, <3>3, <3>4
    <2> QED
      BY <2>3, <2>5, <2>6
  <1> QED
    BY <1>1, <1>3, <1>4, <1>5
    DEF Next, Request, SalesRequest, PurchaseRequest, InitPurchaseInvoices, InitPurchaseParties, Stop, StoreInDB,
        AllocatePurchasePayment, SavePurchaseInvoice, LinkPurchaseInvoice, vars

\* No sequence of requests allocates more to an invoice than the cash it expects.
THEOREM NoInvoiceIsOverpaid == Spec => []InvoicesNotOverpaid
  BY TypeCorrect, InvoicesNotOverpaidInit, InvoicesNotOverpaidNext, PTL DEF Spec

---------------------------------------------------------------------------
(* Receipts and the invoices they are allocated to *)

LEMMA ReceiptsMatchInit == Init => ReceiptsMatchTheirInvoices
  <1> SUFFICES ASSUME Init PROVE ReceiptsMatchTheirInvoices
    OBVIOUS
  <1>1. ASSUME NEW t \in Transactions PROVE Links(salesAlloc[t]) = {}
    <2>1. salesAlloc[t] = [i \in Invoices |-> 0]
      BY DEF Init, Nothing
    <2>2. \A i \in Invoices : ~([j \in Invoices |-> 0][i] > 0)
      OBVIOUS
    <2> QED
      BY <2>1, <2>2 DEF Links
  <1> QED
    BY <1>1, InitType DEF ReceiptsMatchTheirInvoices

\* What an edit of an invoice may change while receipts are allocated to it.
LEMMA EditKeepsReceipts ==
  ASSUME ReceiptsMatchTheirInvoices, NEW i \in Invoices, NEW inv \in SalesInvoice,
         invoice' = [invoice EXCEPT ![i] = inv], TypeOK', UNCHANGED <<bank, salesAlloc>>,
         Linked(i) /\ invoice[i] # None =>
            inv.partner = invoice[i].partner /\ inv.currency = invoice[i].currency
  PROVE  ReceiptsMatchTheirInvoices'
  <1>1. ASSUME NEW t \in Transactions, NEW j \in Links(salesAlloc[t])
        PROVE  /\ invoice'[j] # None
               /\ invoice'[j].partner = bank[t].partner
               /\ CurrencyMatches(t, invoice'[j])
    <2>1. j \in Invoices /\ salesAlloc[t][j] > 0
      BY DEF Links, ReceiptsMatchTheirInvoices, TypeOK
    <2>2. Linked(j)
      BY <2>1 DEF Linked
    <2>3. /\ invoice[j] # None
          /\ invoice[j].partner = bank[t].partner
          /\ CurrencyMatches(t, invoice[j])
      BY DEF ReceiptsMatchTheirInvoices
    <2>4. CASE j # i
      BY <2>1, <2>3, <2>4 DEF ReceiptsMatchTheirInvoices, TypeOK
    <2>5. CASE j = i
      <3>1. invoice'[j] = inv /\ inv # None
        BY <2>1, <2>5, NullAssumption DEF ReceiptsMatchTheirInvoices, TypeOK
      <3> QED
        BY <2>2, <2>3, <2>5, <3>1 DEF CurrencyMatches
    <2> QED
      BY <2>4, <2>5
  <1> QED
    BY <1>1 DEF ReceiptsMatchTheirInvoices

LEMMA AllocationMatches ==
  ASSUME ReceiptsMatchTheirInvoices, TypeOK', NEW t \in Transactions, NEW row \in Classification,
         NEW asked \in [Invoices -> Amounts] \cup {None}, AllocateTransaction(t, row, asked)
  PROVE  ReceiptsMatchTheirInvoices'
  <1> DEFINE allocations == Requested(t, asked)
             chosen == Links(allocations)
             stored == StoredRow(row, salesAlloc[t], chosen)
  <1>1. TypeOK /\ allocations \in [Invoices -> Amounts]
    BY DEF ReceiptsMatchTheirInvoices, TypeOK, Requested
  <1>2. stored # None
    BY <1>1, StoredType, NullAssumption
  <1>3. /\ bank' = [bank EXCEPT ![t] = stored] /\ salesAlloc' = [salesAlloc EXCEPT ![t] = allocations]
        /\ invoice' = invoice
        /\ chosen # {} => SalesReceipt(t, row)
        /\ \A i \in chosen : MayAllocate(t, row.partner, invoice[i], salesAlloc[t][i],
                                         ReceivedFromOthers(t, i), allocations[i])
    BY DEF AllocateTransaction, AcceptsAllocation
  <1>4. bank'[t] = stored /\ salesAlloc'[t] = allocations
    BY <1>1, <1>3 DEF TypeOK
  <1>5. ASSUME chosen # {}
        PROVE  /\ stored.head = SalesHead /\ stored.partner # None
               /\ stored.sub = stored.partner /\ stored.number = chosen
               /\ Deposit[t] > 0 /\ Withdrawal[t] = 0
               /\ \A i \in chosen : /\ invoice[i] # None
                                    /\ invoice[i].partner = stored.partner
                                    /\ CurrencyMatches(t, invoice[i])
    <2>1. SalesReceipt(t, row)
      BY <1>3, <1>5
    <2>2. stored.head = SalesHead /\ stored.partner = row.partner /\ row.partner # None
          /\ stored.sub = row.partner /\ stored.number = chosen
      BY <1>5, <2>1 DEF SalesReceipt, StoredRow, NumberText, SubText, SalesHeads, Classification
    <2> HIDE DEF stored, chosen, allocations
    <2> QED
      BY <1>3, <2>1, <2>2 DEF SalesReceipt, MayAllocate
  <1> HIDE DEF stored, allocations
  <1>6. ASSUME NEW s \in Transactions, s # t
        PROVE  bank'[s] = bank[s] /\ salesAlloc'[s] = salesAlloc[s]
    BY <1>1, <1>3, <1>6 DEF TypeOK
  <1> QED
    BY <1>2, <1>3, <1>4, <1>5, <1>6 DEF ReceiptsMatchTheirInvoices

LEMMA ReceiptsMatchNext ==
  ReceiptsMatchTheirInvoices /\ TypeOK' /\ [Next]_vars => ReceiptsMatchTheirInvoices'
  <1> SUFFICES ASSUME ReceiptsMatchTheirInvoices, TypeOK', [Next]_vars
               PROVE  ReceiptsMatchTheirInvoices'
    OBVIOUS
  <1>0. TypeOK
    BY DEF ReceiptsMatchTheirInvoices
  <1>1. CASE UNCHANGED <<bank, invoice, salesAlloc>>
    BY <1>1 DEF ReceiptsMatchTheirInvoices, CurrencyMatches
  <1>2. ASSUME NEW batch \in SUBSET Transactions, StoreInDB(batch)
        PROVE  ReceiptsMatchTheirInvoices'
    <2>1. \A t \in Transactions : Links(salesAlloc[t]) # {} => bank'[t] = bank[t]
      BY <1>2 DEF StoreInDB, ReceiptsMatchTheirInvoices
    <2> QED
      BY <1>2, <2>1 DEF StoreInDB, ReceiptsMatchTheirInvoices
  <1>3. ASSUME NEW i \in Invoices, NEW inv \in SalesInvoice,
               CreateSalesInvoice(i, inv) \/ UpdateSalesInvoice(i, inv)
        PROVE  ReceiptsMatchTheirInvoices'
    <2>1. invoice' = [invoice EXCEPT ![i] = inv] /\ UNCHANGED <<bank, salesAlloc>>
      BY <1>3 DEF CreateSalesInvoice, UpdateSalesInvoice
    <2>2. ASSUME Linked(i), invoice[i] # None
          PROVE  inv.partner = invoice[i].partner /\ inv.currency = invoice[i].currency
      <3>1. [inv EXCEPT !.closed = invoice[i].closed] = invoice[i]
        BY <1>3, <2>2 DEF CreateSalesInvoice, UpdateSalesInvoice, KeepsFinancials
      <3> QED
        BY <3>1 DEF SalesInvoice
    <2> QED
      BY <2>1, <2>2, EditKeepsReceipts
  <1>4. ASSUME NEW i \in Invoices, NEW items \in LineItems, SaveLineItems(i, items)
        PROVE  ReceiptsMatchTheirInvoices'
    <2>1. [invoice[i] EXCEPT !.items = items] \in SalesInvoice
      BY <1>0, <1>4 DEF SaveLineItems, TypeOK, SalesInvoice
    <2>2. invoice' = [invoice EXCEPT ![i] = [invoice[i] EXCEPT !.items = items]]
          /\ UNCHANGED <<bank, salesAlloc>> /\ ~Linked(i)
      BY <1>0, <1>4 DEF SaveLineItems, TypeOK
    <2> QED
      BY <2>1, <2>2, EditKeepsReceipts
  <1>5. ASSUME NEW t \in Transactions, NEW row \in Classification,
               NEW asked \in [Invoices -> Amounts] \cup {None},
               AllocateTransaction(t, row, asked)
        PROVE  ReceiptsMatchTheirInvoices'
    BY <1>5, AllocationMatches
  <1> QED
    BY <1>1, <1>2, <1>3, <1>4, <1>5
    DEF Next, Request, SalesRequest, PurchaseRequest, InitPurchaseInvoices, InitPurchaseParties, Stop,
        AllocatePurchasePayment, SavePurchaseInvoice, LinkPurchaseInvoice, vars

\* Receipts, invoices and the texts that the classification derives from them agree
\* after every sequence of requests.
THEOREM ReceiptsMatch == Spec => []ReceiptsMatchTheirInvoices
  BY TypeCorrect, ReceiptsMatchInit, ReceiptsMatchNext, PTL DEF Spec

---------------------------------------------------------------------------
(* What receipts spend, and invoices under their receipts *)

LEMMA ReceiptsNotOverspentInit == Init => ReceiptsNotOverspent
  <1> SUFFICES ASSUME Init, NEW t \in Transactions
               PROVE  Sum(salesAlloc[t]) <= ReceiptValue(t, Links(salesAlloc[t]), invoice)
    BY DEF ReceiptsNotOverspent
  <1>1. salesAlloc[t] \in [Invoices -> Amounts] /\ \A i \in Invoices : salesAlloc[t][i] = 0
    BY AmountAssumption DEF Init, Nothing
  <1>2. Sum(salesAlloc[t]) = 0
    BY <1>1, SumOfNothing
  <1>3. Forex[t] \in Nat /\ Deposit[t] \in Nat
    BY AmountAssumption, StatementAssumption
  <1>4. ReceiptValue(t, Links(salesAlloc[t]), invoice) \in Nat
    BY <1>3 DEF ReceiptValue
  <1> QED
    BY <1>2, <1>4

\* The currencies of the invoices of a receipt do not change under it.
LEMMA CurrenciesStay ==
  ASSUME TypeOK, ReceiptsMatchTheirInvoices, NEW t \in Transactions, UNCHANGED salesAlloc,
         \A i \in Invoices : Linked(i) /\ invoice[i] # None => invoice'[i].currency = invoice[i].currency
  PROVE  ReceiptValue(t, Links(salesAlloc[t]), invoice') = ReceiptValue(t, Links(salesAlloc[t]), invoice)
  <1>1. \A i \in Links(salesAlloc[t]) : i \in Invoices /\ Linked(i) /\ invoice[i] # None
    BY DEF Links, Linked, TypeOK, ReceiptsMatchTheirInvoices
  <1> QED
    BY <1>1 DEF ReceiptValue

LEMMA InvoiceStepsKeepSettled ==
  ASSUME TypeOK, [Next]_vars, ReceiptsMatchTheirInvoices, NEW i \in Invoices, Linked(i)
  PROVE  /\ invoice'[i].partner = invoice[i].partner
         /\ invoice'[i].currency = invoice[i].currency
         /\ invoice'[i].items = invoice[i].items
  <1>1. invoice[i] # None
    <2>1. PICK t \in Transactions : salesAlloc[t][i] > 0
      BY DEF Linked
    <2>2. i \in Links(salesAlloc[t])
      BY <2>1 DEF Links, TypeOK
    <2> QED
      BY <2>2 DEF ReceiptsMatchTheirInvoices
  <1>2. CASE UNCHANGED invoice
    BY <1>2
  <1>3. ASSUME NEW j \in Invoices, NEW inv \in SalesInvoice,
               CreateSalesInvoice(j, inv) \/ UpdateSalesInvoice(j, inv), j = i
        PROVE  /\ invoice'[i] = inv
               /\ [inv EXCEPT !.closed = invoice[i].closed] = invoice[i]
    BY <1>1, <1>3 DEF CreateSalesInvoice, UpdateSalesInvoice, KeepsFinancials, TypeOK
  <1>4. ASSUME NEW j \in Invoices, NEW inv \in SalesInvoice,
               CreateSalesInvoice(j, inv) \/ UpdateSalesInvoice(j, inv)
        PROVE  /\ invoice'[i].partner = invoice[i].partner
               /\ invoice'[i].currency = invoice[i].currency
               /\ invoice'[i].items = invoice[i].items
    <2>1. CASE j = i
      BY <1>3, <1>4, <2>1 DEF SalesInvoice
    <2>2. CASE j # i
      BY <1>4, <2>2 DEF CreateSalesInvoice, UpdateSalesInvoice, TypeOK
    <2> QED
      BY <2>1, <2>2
  <1>5. ASSUME NEW j \in Invoices, NEW items \in LineItems, SaveLineItems(j, items)
        PROVE  invoice'[i] = invoice[i]
    BY <1>5 DEF SaveLineItems, TypeOK
  <1> QED
    BY <1>2, <1>4, <1>5
    DEF Next, Request, SalesRequest, PurchaseRequest, InitPurchaseInvoices, InitPurchaseParties, Stop, StoreInDB,
        AllocateTransaction, AllocatePurchasePayment, SavePurchaseInvoice, LinkPurchaseInvoice, vars

LEMMA ReceiptsNotOverspentNext ==
  TypeOK /\ ReceiptsMatchTheirInvoices /\ ReceiptsNotOverspent /\ [Next]_vars => ReceiptsNotOverspent'
  <1> SUFFICES ASSUME TypeOK, ReceiptsMatchTheirInvoices, ReceiptsNotOverspent, [Next]_vars
               PROVE  ReceiptsNotOverspent'
    OBVIOUS
  <1>1. CASE UNCHANGED salesAlloc
    BY <1>1, CurrenciesStay, InvoiceStepsKeepSettled DEF ReceiptsNotOverspent
  <1>2. ASSUME NEW t \in Transactions, NEW row \in Classification,
               NEW asked \in [Invoices -> Amounts] \cup {None},
               AllocateTransaction(t, row, asked)
        PROVE  ReceiptsNotOverspent'
    <2> DEFINE allocations == Requested(t, asked)
    <2>1. /\ salesAlloc' = [salesAlloc EXCEPT ![t] = allocations]
          /\ invoice' = invoice
          /\ Sum(allocations) <= ReceiptValue(t, Links(allocations), invoice)
      BY <1>2 DEF AllocateTransaction, AcceptsAllocation, FitsReceipt
    <2> HIDE DEF allocations
    <2> QED
      BY <2>1 DEF ReceiptsNotOverspent, TypeOK
  <1> QED
    BY <1>1, <1>2
    DEF Next, Request, SalesRequest, PurchaseRequest, InitPurchaseInvoices, InitPurchaseParties, Stop, StoreInDB,
        CreateSalesInvoice, UpdateSalesInvoice, SaveLineItems,
        AllocatePurchasePayment, SavePurchaseInvoice, LinkPurchaseInvoice, vars

\* No receipt is distributed beyond its amount, in the currency of its invoices.
THEOREM NoReceiptIsOverspent == Spec => []ReceiptsNotOverspent
  BY TypeCorrect, ReceiptsMatch, ReceiptsNotOverspentInit, ReceiptsNotOverspentNext, PTL DEF Spec

LEMMA ClosedKeepReceipts ==
  ASSUME TypeOK, [Next]_vars, NEW i \in Invoices, invoice[i] # None, invoice[i].closed,
         NEW t \in Transactions
  PROVE  salesAlloc'[t][i] \in {salesAlloc[t][i], 0}
  <1>1. CASE UNCHANGED salesAlloc
    BY <1>1
  <1>2. ASSUME NEW s \in Transactions, NEW row \in Classification,
               NEW asked \in [Invoices -> Amounts] \cup {None},
               AllocateTransaction(s, row, asked)
        PROVE  salesAlloc'[t][i] \in {salesAlloc[t][i], 0}
    <2> DEFINE allocations == Requested(s, asked)
    <2>1. /\ allocations \in [Invoices -> Amounts]
          /\ salesAlloc' = [salesAlloc EXCEPT ![s] = allocations]
          /\ \A j \in Links(allocations) :
                MayAllocate(s, row.partner, invoice[j], salesAlloc[s][j],
                            ReceivedFromOthers(s, j), allocations[j])
      BY <1>2 DEF AllocateTransaction, AcceptsAllocation, Requested, TypeOK
    <2> HIDE DEF allocations
    <2>2. CASE t # s
      BY <2>1, <2>2 DEF TypeOK
    <2>3. CASE t = s /\ i \in Links(allocations)
      BY <2>1, <2>3 DEF MayAllocate, TypeOK
    <2>4. CASE t = s /\ i \notin Links(allocations)
      <3>1. allocations[i] \in Nat
        BY <2>1, AmountAssumption
      <3>2. ~(allocations[i] > 0)
        BY <2>1, <2>4 DEF Links
      <3>3. salesAlloc'[s][i] = allocations[i]
        BY <2>1 DEF TypeOK
      <3> QED
        BY <2>4, <3>1, <3>2, <3>3
    <2> QED
      BY <2>2, <2>3, <2>4
  <1> QED
    BY <1>1, <1>2
    DEF Next, Request, SalesRequest, PurchaseRequest, InitPurchaseInvoices, InitPurchaseParties, Stop, StoreInDB,
        CreateSalesInvoice, UpdateSalesInvoice, SaveLineItems,
        AllocatePurchasePayment, SavePurchaseInvoice, LinkPurchaseInvoice, vars

\* An invoice with receipts keeps what it is worth and to whom, and a closed one
\* only loses receipts.
THEOREM SettledInvoicesStay == Spec => SettledInvoicesAreFrozen
  <1>1. TypeOK /\ ReceiptsMatchTheirInvoices /\ [Next]_vars =>
          [\A i \in Invoices :
              /\ Linked(i) =>
                    /\ invoice'[i].partner = invoice[i].partner
                    /\ invoice'[i].currency = invoice[i].currency
                    /\ invoice'[i].items = invoice[i].items
              /\ invoice[i] # None /\ invoice[i].closed =>
                    \A t \in Transactions : salesAlloc'[t][i] \in {salesAlloc[t][i], 0}]_vars
    BY InvoiceStepsKeepSettled, ClosedKeepReceipts
  <1> QED
    BY <1>1, TypeCorrect, ReceiptsMatch, PTL DEF Spec, SettledInvoicesAreFrozen

---------------------------------------------------------------------------
(* Payments of purchase invoices *)

\* Once a start has migrated it, a single link stands for a payment.
LinksAreAllocated ==
    \A b \in Bills : link[b] # None /\ Withdrawal[link[b]] > 0 => billAlloc[link[b]][b] > 0

\* Purchase allocations are on stored rows, apart from sales allocations.
PaymentsAreUnmixed ==
    \A t \in Transactions : Links(billAlloc[t]) # {} =>
        bank[t] # None /\ Links(salesAlloc[t]) = {}

\* Before its first start an older database has links and no allocations.
Unmigrated ==
    /\ server = "stopped"
    /\ salesAlloc = [t \in Transactions |-> Nothing(Invoices)]
    /\ billAlloc = [t \in Transactions |-> Nothing(Bills)]
    /\ \A b \in Bills : link[b] # None =>
          /\ bill[b] # None /\ bank[link[b]] # None
          /\ \A other \in Bills : link[other] = link[b] => other = b

CacheIsComplete == \A g \in Gstins : OfGstin(g) # {} => partyCache[g] # None

\* The inductive invariant of the payments.
PaymentsInv ==
    /\ TypeOK /\ LinkedBillsExist
    /\ PaymentsAreUnmixed /\ BillsNotOverpaid
    /\ Unmigrated \/ LinksAreAllocated
    /\ server = "serving" => LinksAreAllocated /\ CacheIsComplete

LEMMA NothingIsLinked == \A S : Links(Nothing(S)) = {}
  <1> SUFFICES ASSUME NEW S PROVE Links(Nothing(S)) = {}
    OBVIOUS
  <1>1. \A x \in S : ~([y \in S |-> 0][x] > 0)
    OBVIOUS
  <1> QED
    BY <1>1 DEF Links, Nothing

LEMMA NothingIsSpent == \A S \in {Transactions, Invoices, Bills} : Sum(Nothing(S)) = 0
  <1> SUFFICES ASSUME NEW S \in {Transactions, Invoices, Bills} PROVE Sum(Nothing(S)) = 0
    OBVIOUS
  <1>1. Nothing(S) \in [S -> Amounts] /\ \A x \in S : Nothing(S)[x] = 0
    BY AmountAssumption DEF Nothing
  <1> QED
    BY <1>1, SumOfNothing

\* A sum with a single entry.
LEMMA SumOfOne ==
  ASSUME NEW S \in {Transactions, Invoices, Bills}, NEW f \in [S -> Amounts], NEW x \in S,
         \A y \in S : y # x => f[y] = 0
  PROVE  Sum(f) = f[x]
  <1>1. [f EXCEPT ![x] = 0] \in [S -> Amounts] /\ \A y \in S : [f EXCEPT ![x] = 0][y] = 0
    BY AmountAssumption
  <1>2. Sum([f EXCEPT ![x] = 0]) = 0
    BY <1>1, SumOfNothing
  <1>3. Sum(f) = Sum([f EXCEPT ![x] = 0]) + f[x] /\ f[x] \in Nat
    BY SumAssumption, AmountAssumption
  <1> QED
    BY <1>2, <1>3

LEMMA LesserIsPositive ==
  ASSUME NEW b \in Bills, NEW t \in Transactions, NEW bills \in [Bills -> Bill \cup {None}],
         bills[b] # None, Withdrawal[t] > 0
  PROVE  /\ Lesser(bills[b].total, Withdrawal[t]) \in Amounts
         /\ Lesser(bills[b].total, Withdrawal[t]) > 0
         /\ Lesser(bills[b].total, Withdrawal[t]) <= bills[b].total
         /\ Lesser(bills[b].total, Withdrawal[t]) <= Withdrawal[t]
  <1>1. bills[b].total \in Amounts \ {0}
    BY DEF Bill
  <1>2. bills[b].total \in Nat /\ bills[b].total > 0
    <2>1. \A n \in Amounts \ {0} : n \in Nat /\ n > 0
      BY AmountAssumption
    <2> QED
      BY <1>1, <2>1
  <1>3. Withdrawal[t] \in Amounts
    BY StatementAssumption
  <1> QED
    BY <1>1, <1>2, <1>3, LesserType DEF Lesser

LEMMA PaymentsInit == Init => PaymentsInv
  <1> SUFFICES ASSUME Init PROVE PaymentsInv
    OBVIOUS
  <1>1. TypeOK /\ LinkedBillsExist
    BY InitType
  <1>2. /\ salesAlloc = [t \in Transactions |-> Nothing(Invoices)]
        /\ billAlloc = [t \in Transactions |-> Nothing(Bills)]
        /\ server = "stopped"
    BY DEF Init
  <1>3. \A t \in Transactions : Links(billAlloc[t]) = {} /\ Sum(billAlloc[t]) = 0
    BY <1>2, NothingIsLinked, NothingIsSpent
  <1>4. PaymentsAreUnmixed
    BY <1>3 DEF PaymentsAreUnmixed
  <1>5. BillsNotOverpaid
    <2>1. ASSUME NEW b \in Bills
          PROVE  Sum(BillColumn(b)) = 0
      <3>1. BillColumn(b) = Nothing(Transactions)
        BY <1>2 DEF BillColumn, Nothing
      <3> QED
        BY <3>1, NothingIsSpent
    <2>2. \A b \in Bills : bill[b] # None => bill[b].total \in Nat
      BY <1>1, AmountAssumption DEF TypeOK, Bill
    <2>3. \A t \in Transactions : Withdrawal[t] \in Nat
      BY StatementAssumption, AmountAssumption
    <2> QED
      BY <1>1, <1>3, <2>1, <2>2, <2>3 DEF BillsNotOverpaid
  <1>6. PICK db \in LegacyDatabases :
          bank = db.bank /\ invoice = db.invoice /\ bill = db.bill /\ link = db.link
    BY DEF Init
  <1>7. Unmigrated
    BY <1>2, <1>6, LegacyAssumption DEF Unmigrated
  <1> QED
    BY <1>1, <1>2, <1>4, <1>5, <1>7 DEF PaymentsInv

---------------------------------------------------------------------------
(* A payment that is replaced *)

LEMMA PaymentIsEligible ==
  ASSUME TypeOK, PaymentsAreUnmixed, TypeOK', NEW t \in Transactions,
         NEW allocations \in [Bills -> Amounts], NEW bills, MayReplacePayment(t, allocations, bills),
         billAlloc' = [billAlloc EXCEPT ![t] = allocations], UNCHANGED <<bank, salesAlloc>>
  PROVE  PaymentsAreUnmixed'
  BY DEF PaymentsAreUnmixed, MayReplacePayment, TypeOK

\* The invoices that a payment leaves alone keep their totals, or get higher ones.
LEMMA PaymentFits ==
  ASSUME TypeOK, TypeOK', BillsNotOverpaid, NEW t \in Transactions,
         NEW allocations \in [Bills -> Amounts], NEW bills \in [Bills -> Bill \cup {None}],
         MayReplacePayment(t, allocations, bills),
         billAlloc' = [billAlloc EXCEPT ![t] = allocations], bill' = bills,
         \A b \in Bills : ~(allocations[b] > 0) => bills[b] = bill[b]
  PROVE  BillsNotOverpaid'
  <1>1. ASSUME NEW s \in Transactions PROVE Sum(billAlloc'[s]) <= Withdrawal[s]
    <2>1. CASE s = t
      <3>1. billAlloc'[s] = allocations
        BY <2>1 DEF TypeOK
      <3> QED
        BY <2>1, <3>1 DEF MayReplacePayment
    <2>2. CASE s # t
      BY <2>2 DEF TypeOK, BillsNotOverpaid
    <2> QED
      BY <2>1, <2>2
  <1>2. ASSUME NEW b \in Bills
        PROVE  Sum(BillColumn(b)') <= IF bills[b] = None THEN 0 ELSE bills[b].total
    <2> DEFINE column == BillColumn(b)
    <2>1. column \in [Transactions -> Amounts] /\ column' = [column EXCEPT ![t] = allocations[b]]
      BY ReplacedBillColumn
    <2>2. allocations[b] \in Amounts /\ allocations[b] \in Nat
      BY AmountAssumption
    <2>3. /\ Sum([column EXCEPT ![t] = allocations[b]]) = Sum([column EXCEPT ![t] = 0]) + allocations[b]
          /\ Sum([column EXCEPT ![t] = 0]) <= Sum(column)
          /\ Sum([column EXCEPT ![t] = 0]) \in Nat /\ Sum(column) \in Nat
      <3> HIDE DEF column
      <3> QED
        BY <2>1, <2>2, SumOfReplaced
    <2>4. Sum(column') = Sum([column EXCEPT ![t] = 0]) + allocations[b]
      BY <2>1, <2>3
    <2>5. CASE allocations[b] > 0
      <3>1. bills[b] # None /\ PaidByOthers(t, b) + allocations[b] <= bills[b].total
        BY <2>5 DEF MayReplacePayment, Links
      <3> QED
        BY <3>1, <2>4 DEF PaidByOthers
    <2>6. CASE ~(allocations[b] > 0)
      <3>1. allocations[b] = 0 /\ bills[b] = bill[b]
        BY <2>2, <2>6
      <3>2. Sum(column') <= Sum(column) /\ Sum(column') \in Nat
        BY <2>3, <2>4, <3>1
      <3>3. Sum(column) <= IF bill[b] = None THEN 0 ELSE bill[b].total
        BY DEF BillsNotOverpaid
      <3>4. bill[b] # None => bill[b].total \in Nat
        BY AmountAssumption DEF TypeOK, Bill
      <3> QED
        BY <2>3, <3>1, <3>2, <3>3, <3>4
    <2> QED
      BY <2>5, <2>6
  <1> QED
    BY <1>1, <1>2 DEF BillsNotOverpaid

LEMMA LegacyPayment ==
  ASSUME PaymentsInv, TypeOK', LinkedBillsExist', LinksAreAllocated, NEW b \in Bills, NEW t \in Transactions,
         NEW bills \in [Bills -> Bill \cup {None}], bills[b] # None,
         \A other \in Bills : other # b => bills[other] = bill[other],
         AllocateLegacyPurchase(b, t, bills), bill' = bills, UNCHANGED <<bank, salesAlloc>>
  PROVE  PaymentsAreUnmixed' /\ BillsNotOverpaid' /\ LinksAreAllocated'
  <1> DEFINE allocations == LegacyAllocations(b, t, bills)
  <1>0. TypeOK /\ PaymentsAreUnmixed /\ BillsNotOverpaid
    BY DEF PaymentsInv
  <1>1. /\ MayReplacePayment(t, allocations, bills)
        /\ billAlloc' = [billAlloc EXCEPT ![t] = allocations]
        /\ link' = [LinksWithout(t) EXCEPT ![b] = t]
    BY DEF AllocateLegacyPurchase
  <1>2. Withdrawal[t] > 0
    BY <1>1 DEF MayReplacePayment, PurchaseEligible
  <1>3. Lesser(bills[b].total, Withdrawal[t]) \in Amounts /\ Lesser(bills[b].total, Withdrawal[t]) > 0
    BY <1>2, LesserIsPositive
  <1>4. /\ allocations \in [Bills -> Amounts]
        /\ allocations[b] > 0
        /\ \A other \in Bills : other # b => allocations[other] = billAlloc[t][other]
    BY <1>0, <1>3 DEF LegacyAllocations, TypeOK
  <1> HIDE DEF allocations
  <1>5. PaymentsAreUnmixed'
    BY <1>0, <1>1, <1>4, PaymentIsEligible
  <1>6. BillsNotOverpaid'
    BY <1>0, <1>1, <1>4, PaymentFits
  <1>7. ASSUME NEW other \in Bills, link'[other] # None, Withdrawal[link'[other]] > 0
        PROVE  billAlloc'[link'[other]][other] > 0
    <2>1. CASE other = b
      BY <1>0, <1>1, <1>4, <2>1 DEF TypeOK, LinksWithout
    <2>2. CASE other # b
      <3>1. link'[other] = link[other] /\ link[other] # t /\ link[other] \in Transactions
        BY <1>0, <1>1, <1>7, <2>2 DEF TypeOK, LinksWithout
      <3>2. billAlloc'[link[other]] = billAlloc[link[other]]
        BY <1>0, <1>1, <3>1 DEF TypeOK
      <3> QED
        BY <1>7, <3>1, <3>2 DEF LinksAreAllocated
    <2> QED
      BY <2>1, <2>2
  <1> QED
    BY <1>5, <1>6, <1>7 DEF LinksAreAllocated

---------------------------------------------------------------------------
(* Starts *)

LEMMA NothingLeftToMigrate ==
  ASSUME TypeOK, LinksAreAllocated
  PROVE  MigratedAllocations = billAlloc
  <1>1. \A t \in Transactions, b \in Bills :
           billAlloc[t][b] = 0 /\ link[b] = t /\ Withdrawal[t] > 0 => FALSE
    <2> SUFFICES ASSUME NEW t \in Transactions, NEW b \in Bills,
                        billAlloc[t][b] = 0, link[b] = t, Withdrawal[t] > 0
                 PROVE  FALSE
      OBVIOUS
    <2>1. link[b] # None
      BY NullAssumption
    <2> QED
      BY <2>1 DEF LinksAreAllocated
  <1> QED
    BY <1>1 DEF MigratedAllocations, TypeOK

\* The migration of an older database gives each link of a withdrawal the one
\* payment of this withdrawal and of its invoice.
LEMMA FirstMigration ==
  ASSUME TypeOK, LinkedBillsExist, Unmigrated, InitPurchaseInvoices, TypeOK'
  PROVE  PaymentsAreUnmixed' /\ BillsNotOverpaid' /\ LinksAreAllocated'
  <1> DEFINE paid(b) == Lesser(bill[b].total, Withdrawal[link[b]])
             Pays(t, b) == link[b] = t /\ Withdrawal[t] > 0
  <1>1. /\ billAlloc' = MigratedAllocations
        /\ UNCHANGED <<bank, salesAlloc, bill, link>>
    BY DEF InitPurchaseInvoices
  <1>2. ASSUME NEW t \in Transactions, NEW b \in Bills, Pays(t, b)
        PROVE  /\ link[b] # None /\ bill[b] # None
               /\ paid(b) \in Amounts /\ paid(b) > 0
               /\ paid(b) <= bill[b].total /\ paid(b) <= Withdrawal[t]
    <2>1. link[b] = t /\ Withdrawal[t] > 0
      BY <1>2
    <2>2. link[b] # None /\ bill[b] # None
      BY <2>1, NullAssumption DEF Unmigrated
    <2> QED
      BY <2>1, <2>2, LesserIsPositive DEF TypeOK
  <1>3. ASSUME NEW t \in Transactions, NEW b \in Bills
        PROVE  billAlloc'[t][b] = IF Pays(t, b) THEN paid(b) ELSE 0
    <2>1. billAlloc[t][b] = 0
      BY DEF Unmigrated, Nothing
    <2> QED
      BY <1>1, <2>1 DEF MigratedAllocations
  <1>4. LinksAreAllocated'
    <2> SUFFICES ASSUME NEW b \in Bills, link[b] # None, Withdrawal[link[b]] > 0
                 PROVE  billAlloc'[link[b]][b] > 0
      BY <1>1 DEF LinksAreAllocated
    <2>1. link[b] \in Transactions
      BY DEF TypeOK
    <2> QED
      BY <1>2, <1>3, <2>1
  <1> DEFINE column(b) == BillColumn(b)'
  <1>5. \A b \in Bills : /\ column(b) \in [Transactions -> Amounts]
                         /\ \A t \in Transactions : column(b)[t] = billAlloc'[t][b]
    BY DEF BillColumn, TypeOK
  <1>6. \A t \in Transactions : billAlloc'[t] \in [Bills -> Amounts]
    BY DEF TypeOK
  <1> HIDE DEF paid, Pays, column
  <1>7. PaymentsAreUnmixed'
    <2> SUFFICES ASSUME NEW t \in Transactions, Links(billAlloc'[t]) # {}
                 PROVE  bank[t] # None /\ Links(salesAlloc[t]) = {}
      BY <1>1 DEF PaymentsAreUnmixed
    <2>1. PICK b \in Bills : billAlloc'[t][b] > 0
      BY DEF Links, TypeOK
    <2>2. link[b] = t /\ link[b] # None
      BY <1>2, <1>3, <2>1 DEF Pays
    <2>3. Links(salesAlloc[t]) = {}
      BY NothingIsLinked DEF Unmigrated
    <2> QED
      BY <2>2, <2>3 DEF Unmigrated
  <1>8. ASSUME NEW b \in Bills
        PROVE  Sum(column(b)) <= IF bill[b] = None THEN 0 ELSE bill[b].total
    <2>1. CASE \A t \in Transactions : ~Pays(t, b)
      <3>1. Sum(column(b)) = 0
        BY <1>3, <1>5, <2>1, SumOfNothing
      <3>2. bill[b] # None => bill[b].total \in Nat
        BY AmountAssumption DEF TypeOK, Bill
      <3> QED
        BY <3>1, <3>2
    <2>2. ASSUME NEW t \in Transactions, Pays(t, b)
          PROVE  Sum(column(b)) <= IF bill[b] = None THEN 0 ELSE bill[b].total
      <3>1. \A other \in Transactions : other # t => ~Pays(other, b)
        BY <2>2 DEF Pays
      <3>2. Sum(column(b)) = column(b)[t]
        BY <1>3, <1>5, <3>1, SumOfOne
      <3> QED
        BY <1>2, <1>3, <1>5, <2>2, <3>2
    <2> QED
      BY <2>1, <2>2
  <1>9. ASSUME NEW t \in Transactions
        PROVE  Sum(billAlloc'[t]) <= Withdrawal[t]
    <2>1. CASE \A b \in Bills : ~Pays(t, b)
      <3>1. Sum(billAlloc'[t]) = 0
        BY <1>3, <1>6, <2>1, SumOfNothing
      <3>2. Withdrawal[t] \in Nat
        BY StatementAssumption, AmountAssumption
      <3> QED
        BY <3>1, <3>2
    <2>2. ASSUME NEW b \in Bills, Pays(t, b)
          PROVE  Sum(billAlloc'[t]) <= Withdrawal[t]
      <3>1. \A other \in Bills : other # b => ~Pays(t, other)
        BY <2>2, NullAssumption DEF Pays, Unmigrated
      <3>2. Sum(billAlloc'[t]) = billAlloc'[t][b]
        BY <1>3, <1>6, <3>1, SumOfOne
      <3> QED
        BY <1>2, <1>3, <2>2, <3>2
    <2> QED
      BY <2>1, <2>2
  <1> QED
    BY <1>1, <1>4, <1>7, <1>8, <1>9 DEF BillsNotOverpaid, column

LEMMA CacheAfterStart ==
  ASSUME TypeOK, InitPurchaseParties
  PROVE  CacheIsComplete'
  <1> SUFFICES ASSUME NEW g \in Gstins, OfGstin(g) # {}, partyCache[g] = None
               PROVE  MigratedCache[g] # None
    BY DEF CacheIsComplete, InitPurchaseParties, MigratedCache, OfGstin
  <1> DEFINE newest == CHOOSE newest \in OfGstin(g) : \A b \in OfGstin(g) : b <= newest
  <1>1. newest \in OfGstin(g)
    BY IdAssumption DEF OfGstin
  <1>2. bill[newest] \in Bill
    BY <1>1 DEF OfGstin, TypeOK
  <1>3. MigratedCache[g] = bill[newest].party
    BY DEF MigratedCache
  <1> QED
    BY <1>2, <1>3, NullAssumption DEF Bill

LEMMA CacheAfterSave ==
  ASSUME TypeOK, CacheIsComplete, NEW b \in Bills, NEW details \in Bill,
         bill' = [bill EXCEPT ![b] = details], partyCache' = CacheParty(b, details)
  PROVE  CacheIsComplete'
  <1> SUFFICES ASSUME NEW g \in Gstins, OfGstin(g)' # {}
               PROVE  partyCache'[g] # None
    BY DEF CacheIsComplete
  <1>1. CASE g = details.gstin
    BY <1>1, NullAssumption DEF CacheParty, TypeOK, Bill
  <1>2. CASE g # details.gstin
    <2>1. PICK other \in Bills : bill'[other] # None /\ bill'[other].gstin = g
      BY DEF OfGstin
    <2>2. other # b
      BY <1>2, <2>1 DEF TypeOK
    <2>3. other \in OfGstin(g)
      BY <2>1, <2>2 DEF OfGstin, TypeOK
    <2> QED
      BY <1>2, <2>3 DEF CacheIsComplete, CacheParty, TypeOK
  <1> QED
    BY <1>1, <1>2

---------------------------------------------------------------------------
(* The steps *)

LEMMA ClassificationKeepsPayments ==
  ASSUME TypeOK, PaymentsAreUnmixed, TypeOK', NEW t \in Transactions, NEW row \in Classification,
         NEW asked \in [Invoices -> Amounts] \cup {None}, AllocateTransaction(t, row, asked)
  PROVE  PaymentsAreUnmixed'
  <1> DEFINE allocations == Requested(t, asked)
             stored == StoredRow(row, salesAlloc[t], Links(allocations))
  <1>1. /\ bank' = [bank EXCEPT ![t] = stored] /\ salesAlloc' = [salesAlloc EXCEPT ![t] = allocations]
        /\ billAlloc' = billAlloc
        /\ KeepsPurchases(t, row, asked)
    BY DEF AllocateTransaction, AcceptsAllocation
  <1>2. allocations \in [Invoices -> Amounts]
    BY DEF Requested, TypeOK
  <1>3. stored # None
    BY <1>2, StoredType, NullAssumption
  <1>4. ASSUME Links(billAlloc[t]) # {}
        PROVE  Links(allocations) = {}
    <2>1. Links(salesAlloc[t]) = {}
      BY <1>4 DEF PaymentsAreUnmixed
    <2> QED
      BY <1>1, <1>4, <2>1 DEF KeepsPurchases, Requested
  <1> HIDE DEF allocations, stored
  <1> QED
    BY <1>1, <1>2, <1>3, <1>4 DEF PaymentsAreUnmixed, TypeOK

LEMMA PaymentsNext == PaymentsInv /\ (TypeOK /\ LinkedBillsExist)' /\ [Next]_vars => PaymentsInv'
  <1> SUFFICES ASSUME PaymentsInv, TypeOK', LinkedBillsExist', [Next]_vars
               PROVE  PaymentsInv'
    OBVIOUS
  <1>0. TypeOK /\ LinkedBillsExist /\ PaymentsAreUnmixed /\ BillsNotOverpaid
    BY DEF PaymentsInv
  <1>1. CASE InitPurchaseInvoices
    <2>1. CASE Unmigrated
      BY <1>0, <1>1, <2>1, FirstMigration DEF PaymentsInv, InitPurchaseInvoices
    <2>2. CASE LinksAreAllocated
      <3>1. UNCHANGED <<bank, salesAlloc, bill, link, billAlloc>> /\ server' = "starting"
        BY <1>0, <1>1, <2>2, NothingLeftToMigrate DEF InitPurchaseInvoices
      <3> QED
        BY <1>0, <2>2, <3>1
        DEF PaymentsInv, PaymentsAreUnmixed, BillsNotOverpaid, BillColumn, LinksAreAllocated
    <2> QED
      BY <2>1, <2>2 DEF PaymentsInv
  <1>2. CASE InitPurchaseParties
    <2>1. UNCHANGED <<bank, salesAlloc, bill, link, billAlloc>> /\ LinksAreAllocated
      BY <1>2 DEF InitPurchaseParties, PaymentsInv, Unmigrated
    <2> QED
      BY <1>0, <1>2, <2>1, CacheAfterStart
      DEF PaymentsInv, PaymentsAreUnmixed, BillsNotOverpaid, BillColumn, LinksAreAllocated
  <1>3. CASE Stop
    <2>1. UNCHANGED <<bank, salesAlloc, bill, link, billAlloc>> /\ server' = "stopped" /\ LinksAreAllocated
      BY <1>3 DEF Stop, PaymentsInv, Unmigrated
    <2> QED
      BY <1>0, <2>1
      DEF PaymentsInv, PaymentsAreUnmixed, BillsNotOverpaid, BillColumn, LinksAreAllocated
  <1>4. CASE Request
    <2>1. server = "serving" /\ server' = "serving" /\ LinksAreAllocated /\ CacheIsComplete
      BY <1>4 DEF Request, PaymentsInv
    <2> SUFFICES PaymentsAreUnmixed' /\ BillsNotOverpaid' /\ LinksAreAllocated' /\ CacheIsComplete'
      BY <2>1 DEF PaymentsInv
    <2>2. ASSUME NEW batch \in SUBSET Transactions, StoreInDB(batch)
          PROVE  PaymentsAreUnmixed' /\ BillsNotOverpaid' /\ LinksAreAllocated' /\ CacheIsComplete'
      <3>1. UNCHANGED <<salesAlloc, bill, link, billAlloc, partyCache>>
        BY <2>2 DEF StoreInDB
      <3>2. \A t \in Transactions : Links(billAlloc[t]) # {} => bank'[t] = bank[t]
        BY <1>0, <2>2 DEF StoreInDB, PaymentsAreUnmixed
      <3> QED
        BY <1>0, <2>1, <3>1, <3>2
        DEF PaymentsAreUnmixed, BillsNotOverpaid, BillColumn, LinksAreAllocated, CacheIsComplete, OfGstin
    <2>3. CASE UNCHANGED <<bank, salesAlloc, bill, link, billAlloc, partyCache>>
      BY <1>0, <2>1, <2>3
      DEF PaymentsAreUnmixed, BillsNotOverpaid, BillColumn, LinksAreAllocated, CacheIsComplete, OfGstin
    <2>4. ASSUME NEW t \in Transactions, NEW row \in Classification,
                 NEW asked \in [Invoices -> Amounts] \cup {None}, AllocateTransaction(t, row, asked)
          PROVE  PaymentsAreUnmixed' /\ BillsNotOverpaid' /\ LinksAreAllocated' /\ CacheIsComplete'
      <3>1. UNCHANGED <<bill, link, billAlloc, partyCache>>
        BY <2>4 DEF AllocateTransaction
      <3>2. PaymentsAreUnmixed'
        BY <1>0, <2>4, ClassificationKeepsPayments
      <3> QED
        BY <1>0, <2>1, <3>1, <3>2
        DEF BillsNotOverpaid, BillColumn, LinksAreAllocated, CacheIsComplete, OfGstin
    <2>5. ASSUME NEW t \in Transactions, NEW allocations \in [Bills -> Amounts],
                 AllocatePurchasePayment(t, allocations)
          PROVE  PaymentsAreUnmixed' /\ BillsNotOverpaid' /\ LinksAreAllocated' /\ CacheIsComplete'
      <3>1. /\ MayReplacePayment(t, allocations, bill)
            /\ billAlloc' = [billAlloc EXCEPT ![t] = allocations]
            /\ link' = LinksWithout(t)
            /\ UNCHANGED <<bank, salesAlloc, bill, partyCache>>
        BY <2>5 DEF AllocatePurchasePayment
      <3>2. bill \in [Bills -> Bill \cup {None}]
        BY <1>0 DEF TypeOK
      <3>3. PaymentsAreUnmixed'
        BY <1>0, <3>1, PaymentIsEligible
      <3>4. BillsNotOverpaid'
        BY <1>0, <3>1, <3>2, PaymentFits
      <3>5. ASSUME NEW b \in Bills, link'[b] # None, Withdrawal[link'[b]] > 0
            PROVE  billAlloc'[link'[b]][b] > 0
        <4>1. link'[b] = link[b] /\ link[b] # t /\ link[b] \in Transactions
          BY <1>0, <3>1, <3>5 DEF TypeOK, LinksWithout
        <4>2. billAlloc'[link[b]] = billAlloc[link[b]]
          BY <1>0, <3>1, <4>1 DEF TypeOK
        <4> QED
          BY <2>1, <3>5, <4>1, <4>2 DEF LinksAreAllocated
      <3> QED
        BY <2>1, <3>1, <3>3, <3>4, <3>5 DEF LinksAreAllocated, CacheIsComplete, OfGstin
    <2>6. ASSUME NEW b \in Bills, NEW details \in Bill, NEW t \in Transactions \cup {None},
                 SavePurchaseInvoice(b, details, t)
          PROVE  PaymentsAreUnmixed' /\ BillsNotOverpaid' /\ LinksAreAllocated' /\ CacheIsComplete'
      <3> DEFINE bills == [bill EXCEPT ![b] = details]
      <3>1. /\ bill' = bills /\ partyCache' = CacheParty(b, details)
            /\ TotalCoversPayments(b, details.total)
            /\ UNCHANGED <<bank, salesAlloc>>
        BY <2>6 DEF SavePurchaseInvoice
      <3>2. /\ bills \in [Bills -> Bill \cup {None}] /\ bills[b] = details /\ details # None
            /\ \A other \in Bills : other # b => bills[other] = bill[other]
        BY <1>0, NullAssumption DEF TypeOK
      <3>3. CacheIsComplete'
        BY <1>0, <2>1, <3>1, CacheAfterSave
      <3> HIDE DEF bills
      <3>4. CASE t = None
        <4>1. UNCHANGED <<link, billAlloc>>
          BY <2>6, <3>4 DEF SavePurchaseInvoice
        <4>2. PaymentsAreUnmixed' /\ LinksAreAllocated'
          BY <1>0, <2>1, <3>1, <4>1 DEF PaymentsAreUnmixed, LinksAreAllocated
        <4>3. Sum(BillColumn(b)) <= details.total
          <5>1. details.total \in Nat
            BY AmountAssumption DEF Bill
          <5>2. BillColumn(b) \in [Transactions -> Amounts]
            BY <1>0 DEF BillColumn, TypeOK
          <5>3. Sum(BillColumn(b)) \in Nat
            BY <5>2, SumAssumption
          <5>4. bill[b] = None => Sum(BillColumn(b)) <= 0
            BY <1>0 DEF BillsNotOverpaid
          <5> QED
            BY <3>1, <5>1, <5>3, <5>4 DEF TotalCoversPayments
        <4>4. BillsNotOverpaid'
          BY <1>0, <3>1, <3>2, <4>1, <4>3 DEF BillsNotOverpaid, BillColumn
        <4> QED
          BY <3>3, <4>2, <4>4
      <3>5. CASE t \in Transactions
        <4>1. AllocateLegacyPurchase(b, t, bills)
          BY <2>6, <3>5, NullAssumption DEF SavePurchaseInvoice, bills
        <4> QED
          BY <2>1, <3>1, <3>2, <3>3, <3>5, <4>1, LegacyPayment
      <3> QED
        BY <3>4, <3>5
    <2>7. ASSUME NEW b \in Bills, NEW t \in Transactions, LinkPurchaseInvoice(b, t)
          PROVE  PaymentsAreUnmixed' /\ BillsNotOverpaid' /\ LinksAreAllocated' /\ CacheIsComplete'
      <3>1. bill[b] # None /\ AllocateLegacyPurchase(b, t, bill)
            /\ UNCHANGED <<bank, salesAlloc, bill, partyCache>>
        BY <2>7 DEF LinkPurchaseInvoice
      <3>2. bill \in [Bills -> Bill \cup {None}]
        BY <1>0 DEF TypeOK
      <3>3. CacheIsComplete'
        BY <2>1, <3>1 DEF CacheIsComplete, OfGstin
      <3> QED
        BY <2>1, <3>1, <3>2, <3>3, LegacyPayment
    <2> QED
      BY <1>4, <2>2, <2>3, <2>4, <2>5, <2>6, <2>7
      DEF Request, SalesRequest, PurchaseRequest, CreateSalesInvoice, UpdateSalesInvoice, SaveLineItems
  <1>5. CASE UNCHANGED vars
    BY <1>0, <1>5
    DEF PaymentsInv, PaymentsAreUnmixed, BillsNotOverpaid, BillColumn, LinksAreAllocated,
        Unmigrated, CacheIsComplete, OfGstin, vars
  <1> QED
    BY <1>1, <1>2, <1>3, <1>4, <1>5 DEF Next

LEMMA PaymentsHold == Spec => []PaymentsInv
  BY TypeCorrect, PaymentsInit, PaymentsNext, PTL DEF Spec

\* No invoice is paid beyond its total and no withdrawal pays beyond its amount,
\* through either generation of requests, edits of totals and migrations.
THEOREM NoBillIsOverpaid == Spec => []BillsNotOverpaid
  <1>1. PaymentsInv => BillsNotOverpaid
    BY DEF PaymentsInv
  <1> QED
    BY <1>1, PaymentsHold, PTL

\* The effect of a reclassification on a withdrawal that pays purchase invoices.
LEMMA ReclassifiedMayPay ==
  ASSUME TypeOK, PaymentsAreUnmixed, NEW t \in Transactions, NEW row \in Classification,
         NEW asked \in [Invoices -> Amounts] \cup {None}, AllocateTransaction(t, row, asked),
         Links(billAlloc[t]) # {}
  PROVE  MayPay(t)'
  <1> DEFINE allocations == Requested(t, asked)
             stored == StoredRow(row, salesAlloc[t], Links(allocations))
  <1>1. bank'[t] = stored /\ KeepsPurchases(t, row, asked)
    BY DEF AllocateTransaction, AcceptsAllocation, TypeOK
  <1>2. PurchaseEligible(t, row) /\ Deposit[t] = 0
    BY <1>1 DEF KeepsPurchases
  <1>3. Links(salesAlloc[t]) = {}
    BY DEF PaymentsAreUnmixed
  <1>4. Links(allocations) = {}
    BY <1>1, <1>3 DEF KeepsPurchases, Requested
  <1>5. stored.head = row.head /\ stored.sub = row.sub /\ stored.number = row.number
    BY <1>2, <1>3, <1>4 DEF StoredRow, NumberText, SubText, PurchaseEligible, Classification
  <1>6. stored # None
    BY StoredType, NullAssumption DEF Requested, TypeOK
  <1> HIDE DEF stored
  <1> QED
    BY <1>1, <1>2, <1>5, <1>6 DEF MayPay, PurchaseEligible

\* A step leaves the payments of t alone, or t is a withdrawal that may pay.
PaymentStaysEligible(t) ==
    Links(billAlloc'[t]) # {} =>
        \/ MayPay(t)'
        \/ CarriedOver(t)
        \/ bank'[t] = bank[t] /\ billAlloc'[t] = billAlloc[t]

\* A payment that is replaced was checked, and the others stay as they are.
LEMMA ReplacedMayPay ==
  ASSUME TypeOK, NEW s \in Transactions, NEW allocations, NEW bills,
         MayReplacePayment(s, allocations, bills), UNCHANGED bank,
         billAlloc' = [billAlloc EXCEPT ![s] = allocations]
  PROVE  \A t \in Transactions : PaymentStaysEligible(t)
  <1>1. MayPay(s)'
    BY DEF MayPay, MayReplacePayment, PurchaseEligible
  <1>2. \A t \in Transactions : t # s => bank'[t] = bank[t] /\ billAlloc'[t] = billAlloc[t]
    BY DEF TypeOK
  <1> QED
    BY <1>1, <1>2 DEF PaymentStaysEligible

LEMMA PaymentStepsStayEligible ==
  ASSUME PaymentsInv, [Next]_vars
  PROVE  \A t \in Transactions : PaymentStaysEligible(t)
  <1>0. TypeOK /\ PaymentsAreUnmixed
    BY DEF PaymentsInv
  <1>1. CASE InitPurchaseInvoices
    <2>1. /\ server = "stopped" /\ bank' = bank /\ billAlloc' = MigratedAllocations
      BY <1>1 DEF InitPurchaseInvoices
    <2>2. CASE LinksAreAllocated
      <3>1. billAlloc' = billAlloc
        BY <1>0, <2>1, <2>2, NothingLeftToMigrate
      <3> QED
        BY <2>1, <3>1 DEF PaymentStaysEligible
    <2>3. CASE Unmigrated
      <3> SUFFICES ASSUME NEW t \in Transactions PROVE CarriedOver(t)
        BY DEF PaymentStaysEligible
      <3>1. Links(billAlloc[t]) = {} /\ \A b \in Bills : billAlloc[t][b] = 0
        BY <2>3, NothingIsLinked DEF Unmigrated, Nothing
      <3>2. DOMAIN billAlloc'[t] = Bills
        BY <2>1 DEF MigratedAllocations
      <3>3. \A b \in Bills : billAlloc'[t][b] > 0 => link[b] = t
        BY <2>1, <3>1 DEF MigratedAllocations
      <3> QED
        BY <2>1, <3>1, <3>2, <3>3 DEF CarriedOver, Links
    <2> QED
      BY <2>2, <2>3 DEF PaymentsInv
  <1>2. CASE UNCHANGED <<bank, billAlloc>>
    BY <1>2 DEF PaymentStaysEligible
  <1>3. CASE Request
    <2>1. ASSUME NEW batch \in SUBSET Transactions, StoreInDB(batch)
          PROVE  \A t \in Transactions : PaymentStaysEligible(t)
      <3>1. billAlloc' = billAlloc
        BY <2>1 DEF StoreInDB
      <3>2. \A t \in Transactions : Links(billAlloc[t]) # {} => bank'[t] = bank[t]
        BY <1>0, <2>1 DEF StoreInDB, PaymentsAreUnmixed
      <3> QED
        BY <3>1, <3>2 DEF PaymentStaysEligible
    <2>2. ASSUME NEW s \in Transactions, NEW row \in Classification,
                 NEW asked \in [Invoices -> Amounts] \cup {None}, AllocateTransaction(s, row, asked)
          PROVE  \A t \in Transactions : PaymentStaysEligible(t)
      <3>1. billAlloc' = billAlloc /\ \A t \in Transactions : t # s => bank'[t] = bank[t]
        BY <1>0, <2>2 DEF AllocateTransaction, TypeOK
      <3>2. Links(billAlloc[s]) # {} => MayPay(s)'
        BY <1>0, <2>2, ReclassifiedMayPay
      <3> QED
        BY <3>1, <3>2 DEF PaymentStaysEligible
    <2>3. ASSUME NEW s \in Transactions, NEW allocations \in [Bills -> Amounts],
                 AllocatePurchasePayment(s, allocations)
          PROVE  \A t \in Transactions : PaymentStaysEligible(t)
      BY <1>0, <2>3, ReplacedMayPay DEF AllocatePurchasePayment
    <2>4. ASSUME NEW b \in Bills, NEW details \in Bill, NEW s \in Transactions \cup {None},
                 SavePurchaseInvoice(b, details, s)
          PROVE  \A t \in Transactions : PaymentStaysEligible(t)
      <3>1. CASE s = None
        BY <2>4, <3>1 DEF SavePurchaseInvoice, PaymentStaysEligible
      <3>2. CASE s # None
        <4>1. AllocateLegacyPurchase(b, s, [bill EXCEPT ![b] = details]) /\ UNCHANGED bank
          BY <2>4, <3>2 DEF SavePurchaseInvoice
        <4> QED
          BY <1>0, <3>2, <4>1, ReplacedMayPay DEF AllocateLegacyPurchase
      <3> QED
        BY <3>1, <3>2
    <2>5. ASSUME NEW b \in Bills, NEW s \in Transactions, LinkPurchaseInvoice(b, s)
          PROVE  \A t \in Transactions : PaymentStaysEligible(t)
      BY <1>0, <2>5, ReplacedMayPay DEF LinkPurchaseInvoice, AllocateLegacyPurchase
    <2> QED
      BY <1>2, <1>3, <2>1, <2>2, <2>3, <2>4, <2>5
      DEF Request, SalesRequest, PurchaseRequest, CreateSalesInvoice, UpdateSalesInvoice, SaveLineItems
  <1> QED
    BY <1>1, <1>2, <1>3 DEF Next, InitPurchaseParties, Stop, vars

\* Whoever changes a payment of purchase invoices or reclassifies its withdrawal
\* leaves one that may pay and has no sales allocations; only the links of an older
\* release are carried over unchecked, by the start that finds them.
THEOREM PaymentsStayEligible == Spec => PurchasePaymentsStayEligible
  <1>1. PaymentsInv /\ PaymentsInv' /\ [Next]_vars =>
            [\A t \in Transactions : Links(billAlloc'[t]) # {} =>
                /\ Links(salesAlloc'[t]) = {}
                /\ \/ MayPay(t)'
                   \/ CarriedOver(t)
                   \/ bank'[t] = bank[t] /\ billAlloc'[t] = billAlloc[t]]_vars
    <2> SUFFICES ASSUME PaymentsInv, PaymentsInv', [Next]_vars, NEW t \in Transactions,
                        Links(billAlloc'[t]) # {}
                 PROVE  /\ Links(salesAlloc'[t]) = {}
                        /\ \/ MayPay(t)'
                           \/ CarriedOver(t)
                           \/ bank'[t] = bank[t] /\ billAlloc'[t] = billAlloc[t]
      OBVIOUS
    <2>1. Links(salesAlloc'[t]) = {}
      BY DEF PaymentsInv, PaymentsAreUnmixed, Links
    <2> QED
      BY <2>1, PaymentStepsStayEligible DEF PaymentStaysEligible
  <1> QED
    BY <1>1, PaymentsHold, PTL DEF Spec, PurchasePaymentsStayEligible

\* A server that serves has nothing left to migrate, whatever requests of either
\* generation it has served.
THEOREM RestartsChangeNothing == Spec => []RestartChangesNothing
  <1>1. PaymentsInv => RestartChangesNothing
    <2> SUFFICES ASSUME PaymentsInv, server = "serving"
                 PROVE  MigratedAllocations = billAlloc /\ MigratedCache = partyCache
      BY DEF RestartChangesNothing
    <2>1. TypeOK /\ LinksAreAllocated /\ CacheIsComplete
      BY DEF PaymentsInv
    <2>2. MigratedCache = partyCache
      BY <2>1 DEF MigratedCache, CacheIsComplete, TypeOK
    <2> QED
      BY <2>1, <2>2, NothingLeftToMigrate
  <1> QED
    BY <1>1, PaymentsHold, PTL

(***************************************************************************)
(* Concurrent transactions commit whole requests of Subledger, one after   *)
(* the other, for any number of handlers and any requests.                 *)
(***************************************************************************)

---------------------------------------------------------------------------
(* The inductive invariant *)

\* What Accepts means when the handler has read what is in the database.
AcceptsNow(r) ==
    CASE r.op = "allocate" -> AcceptsAllocation(r.t, r.row, r.allocations)
      [] r.op = "pay" -> MayReplacePayment(r.t, r.allocations, bill)
      [] r.op = "update" -> invoice[r.i] # None /\ KeepsFinancials(r.i, r.inv)

ViewIsCurrent(h) == \A table \in DOMAIN view[h] : view[h][table] = Tables[table]

\* An idle handler has nothing, and there are others only while the server serves.
IdleHasNothing(h) ==
    IF request[h] = None THEN DOMAIN view[h] = {} /\ ~written[h] /\ lock[h] = "none"
    ELSE server = "serving" /\ IsFiniteSet(DOMAIN view[h])
         /\ Cardinality(DOMAIN view[h]) <= Len(Reads(request[h]))

\* Who has read holds a lock, who is about to commit the one for writing, and
\* what he is about to commit is legal now.
LocksProtect(h) ==
    /\ DOMAIN view[h] # {} => lock[h] # "none"
    /\ lock[h] \in {"reserved", "pending"} <=> written[h]
    /\ written[h] => /\ request[h] # None /\ request[h].op # "list"
                     /\ HasRead(h) /\ AcceptsNow(request[h])

OneWriter == \A h, k \in Handlers : written[h] /\ written[k] => h = k

LockInv ==
    /\ HandlersTypeOK /\ LinkedBillsExist
    /\ view = [h \in Handlers |-> view[h]]
    /\ \A h \in Handlers : ViewIsCurrent(h) /\ IdleHasNothing(h) /\ LocksProtect(h)
    /\ OneWriter

---------------------------------------------------------------------------
(* Operators *)

LEMMA RequestTypes ==
  ASSUME NEW r \in Requests
  PROVE  /\ r.op \in {"allocate", "pay", "update", "list"}
         /\ r.op = "allocate" => /\ r.t \in Transactions /\ r.row \in Classification
                                 /\ r.allocations \in [Invoices -> Amounts] \cup {None}
         /\ r.op = "pay" => r.t \in Transactions /\ r.allocations \in [Bills -> Amounts]
         /\ r.op = "update" => r.i \in Invoices /\ r.inv \in SalesInvoice
  <1>1. CASE r \in [op: {"allocate"}, t: Transactions, row: Classification,
                    allocations: [Invoices -> Amounts] \cup {None}]
    BY <1>1
  <1>2. CASE r \in [op: {"pay"}, t: Transactions, allocations: [Bills -> Amounts]]
    BY <1>2
  <1>3. CASE r \in [op: {"update"}, i: Invoices, inv: SalesInvoice]
    BY <1>3
  <1>4. CASE r \in [op: {"list"}]
    BY <1>4
  <1> QED
    BY <1>1, <1>2, <1>3, <1>4, RequestAssumption

TableNames == {"bank", "invoice", "salesAlloc", "bill", "billAlloc"}

LEMMA TablesByName ==
  /\ DOMAIN Tables = TableNames
  /\ Tables["bank"] = bank /\ Tables["invoice"] = invoice /\ Tables["salesAlloc"] = salesAlloc
  /\ Tables["bill"] = bill /\ Tables["billAlloc"] = billAlloc
  BY DEF Tables, TableNames

\* A handler whose reads are current sees the database.
LEMMA SeenIsCurrent ==
  ASSUME NEW h \in Handlers, ViewIsCurrent(h)
  PROVE  /\ Seen(h).bank = bank /\ Seen(h).invoice = invoice /\ Seen(h).salesAlloc = salesAlloc
         /\ Seen(h).bill = bill /\ Seen(h).billAlloc = billAlloc
  BY TablesByName DEF Seen, ViewIsCurrent, TableNames

LEMMA ReadsAreTables ==
  ASSUME NEW r \in Requests
  PROVE  /\ Len(Reads(r)) \in Nat
         /\ \A n \in 1 .. Len(Reads(r)) : Reads(r)[n] \in TableNames
  BY RequestTypes DEF Reads, TableNames

\* The checks on what was read are the checks on what there is.
LEMMA AcceptsWhatIs ==
  ASSUME NEW h \in Handlers, ViewIsCurrent(h), request[h] \in Requests, request[h].op # "list",
         Accepts(h)
  PROVE  AcceptsNow(request[h])
  <1> DEFINE r == request[h]
  <1> DEFINE v == Seen(h)
  <1>1. v.bank = bank /\ v.invoice = invoice /\ v.salesAlloc = salesAlloc
        /\ v.bill = bill /\ v.billAlloc = billAlloc
    BY SeenIsCurrent
  <1>2. CASE r.op = "allocate"
    <2>1. At(v)!AcceptsAllocation(r.t, r.row, r.allocations)
      BY <1>2 DEF Accepts
    <2> HIDE DEF v
    <2>2. AcceptsAllocation(r.t, r.row, r.allocations)
      BY <1>1, <2>1
      DEF At!AcceptsAllocation, AcceptsAllocation, At!Requested, Requested, At!Links, Links,
          At!KeepsPurchases, KeepsPurchases, At!PurchaseEligible, PurchaseEligible,
          At!SalesReceipt, SalesReceipt, At!MayAllocate, MayAllocate, At!CurrencyMatches, CurrencyMatches,
          At!ReceivedFromOthers, ReceivedFromOthers, At!InvoiceColumn, InvoiceColumn,
          At!ExpectedReceipt, ExpectedReceipt, At!FitsReceipt, FitsReceipt, At!ReceiptValue, ReceiptValue,
          At!SalesHead, SalesHead, At!SalesHeads, SalesHeads
    <2> QED
      BY <1>2, <2>2 DEF AcceptsNow
  <1>3. CASE r.op = "pay"
    <2>1. At(v)!MayReplacePayment(r.t, r.allocations, v.bill)
      BY <1>3 DEF Accepts
    <2> HIDE DEF v
    <2>2. MayReplacePayment(r.t, r.allocations, bill)
      BY <1>1, <2>1
      DEF At!MayReplacePayment, MayReplacePayment, At!Links, Links, At!PurchaseEligible, PurchaseEligible,
          At!PaidByOthers, PaidByOthers, At!BillColumn, BillColumn, At!SalesHead, SalesHead, At!SalesHeads, SalesHeads
    <2> QED
      BY <1>3, <2>2 DEF AcceptsNow
  <1>4. CASE r.op = "update"
    <2>1. v.invoice[r.i] # None /\ At(v)!KeepsFinancials(r.i, r.inv)
      BY <1>4 DEF Accepts
    <2> HIDE DEF v
    <2>2. invoice[r.i] # None /\ KeepsFinancials(r.i, r.inv)
      BY <1>1, <2>1 DEF At!KeepsFinancials, KeepsFinancials, At!Linked, Linked
    <2> QED
      BY <1>4, <2>2 DEF AcceptsNow
  <1> QED
    BY <1>2, <1>3, <1>4, RequestTypes

\* Requests are accepted on the strength of the tables alone.
LEMMA AcceptanceStays ==
  ASSUME NEW r \in Requests, r.op # "list", AcceptsNow(r),
         UNCHANGED <<bank, invoice, salesAlloc, bill, billAlloc>>
  PROVE  AcceptsNow(r)'
  <1>1. CASE r.op = "allocate"
    <2>1. AcceptsAllocation(r.t, r.row, r.allocations)
      BY <1>1 DEF AcceptsNow
    <2>2. AcceptsAllocation(r.t, r.row, r.allocations)'
      BY <2>1
      DEF AcceptsAllocation, Requested, Links, KeepsPurchases, PurchaseEligible, SalesReceipt, MayAllocate,
          CurrencyMatches, ReceivedFromOthers, InvoiceColumn, ExpectedReceipt, FitsReceipt, ReceiptValue
    <2> QED
      BY <1>1, <2>2 DEF AcceptsNow
  <1>2. CASE r.op = "pay"
    <2>1. MayReplacePayment(r.t, r.allocations, bill)
      BY <1>2 DEF AcceptsNow
    <2>2. MayReplacePayment(r.t, r.allocations, bill)'
      BY <2>1 DEF MayReplacePayment, Links, PurchaseEligible, PaidByOthers, BillColumn
    <2> QED
      BY <1>2, <2>2 DEF AcceptsNow
  <1>3. CASE r.op = "update"
    <2>1. invoice[r.i] # None /\ KeepsFinancials(r.i, r.inv)
      BY <1>3 DEF AcceptsNow
    <2>2. (invoice[r.i] # None /\ KeepsFinancials(r.i, r.inv))'
      BY <2>1 DEF KeepsFinancials, Linked
    <2> QED
      BY <1>3, <2>2 DEF AcceptsNow
  <1> QED
    BY <1>1, <1>2, <1>3, RequestTypes

---------------------------------------------------------------------------
(* Steps map to steps of Subledger *)

LEMMA CommitIsRequest ==
  ASSUME LockInv, NEW h \in Handlers, Commit(h)
  PROVE  Request
  <1> DEFINE r == request[h]
  <1> DEFINE v == Seen(h)
  <1>1. r \in Requests /\ r.op # "list" /\ AcceptsNow(r) /\ server = "serving"
    BY DEF Commit, LockInv, HandlersTypeOK, LocksProtect, IdleHasNothing
  <1>2. v.salesAlloc = salesAlloc /\ Effect(r, v)
    BY SeenIsCurrent DEF Commit, LockInv
  <1> HIDE DEF v, r
  <1>3. CASE r.op = "allocate"
    <2>1. /\ r.t \in Transactions /\ r.row \in Classification
          /\ r.allocations \in [Invoices -> Amounts] \cup {None}
      BY <1>1, <1>3, RequestTypes
    <2>2. At(v)!Requested(r.t, r.allocations) = Requested(r.t, r.allocations)
      BY <1>2 DEF At!Requested, Requested
    <2>3. /\ salesAlloc' = [salesAlloc EXCEPT ![r.t] = Requested(r.t, r.allocations)]
          /\ bank' = [bank EXCEPT ![r.t] =
                StoredRow(r.row, salesAlloc[r.t], Links(Requested(r.t, r.allocations)))]
          /\ UNCHANGED <<server, invoice, bill, link, billAlloc, partyCache>>
      BY <1>2, <1>3, <2>2 DEF Effect
    <2>4. AllocateTransaction(r.t, r.row, r.allocations)
      BY <1>1, <1>3, <2>3 DEF AllocateTransaction, AcceptsNow
    <2> QED
      BY <1>1, <2>1, <2>3, <2>4 DEF Request, SalesRequest
  <1>4. CASE r.op = "pay"
    <2>1. r.t \in Transactions /\ r.allocations \in [Bills -> Amounts]
      BY <1>1, <1>4, RequestTypes
    <2>2. AllocatePurchasePayment(r.t, r.allocations) /\ UNCHANGED server
      BY <1>1, <1>2, <1>4 DEF AllocatePurchasePayment, AcceptsNow, Effect
    <2> QED
      BY <1>1, <2>1, <2>2 DEF Request, PurchaseRequest
  <1>5. CASE r.op = "update"
    <2>1. r.i \in Invoices /\ r.inv \in SalesInvoice
      BY <1>1, <1>5, RequestTypes
    <2>2. UpdateSalesInvoice(r.i, r.inv) /\ UNCHANGED server
      BY <1>1, <1>2, <1>5 DEF UpdateSalesInvoice, AcceptsNow, Effect
    <2> QED
      BY <1>1, <2>1, <2>2 DEF Request, SalesRequest
  <1> QED
    BY <1>1, <1>3, <1>4, <1>5, RequestTypes

LEMMA StepsAreRequests == LockInv /\ [LedgerNext]_allVars => [Next]_vars
  <1> SUFFICES ASSUME LockInv, [LedgerNext]_allVars
               PROVE  [Next]_vars
    OBVIOUS
  <1>1. ASSUME NEW h \in Handlers, Commit(h)
        PROVE  Next
    BY <1>1, CommitIsRequest DEF Next
  <1>2. ASSUME NEW h \in Handlers,
               \/ Read(h) \/ Write(h) \/ Refuse(h) \/ AnswerList(h) \/ AwaitReaders(h) \/ Busy(h)
               \/ \E r \in Requests : Receive(h, r)
        PROVE  UNCHANGED vars
    BY <1>2 DEF Read, Write, Refuse, AnswerList, AwaitReaders, Busy, Receive
  <1>3. CASE Start \/ Crash
    BY <1>3 DEF Start, Crash, Next
  <1>4. CASE UNCHANGED allVars
    BY <1>4 DEF allVars
  <1> QED
    BY <1>1, <1>2, <1>3, <1>4 DEF LedgerNext, HandlerStep

---------------------------------------------------------------------------
(* The invariant holds *)

HandlerInv(h) == ViewIsCurrent(h) /\ IdleHasNothing(h) /\ LocksProtect(h)

LEMMA IdleHandler ==
  ASSUME NEW k \in Handlers,
         request'[k] = None, DOMAIN view'[k] = {}, written'[k] = FALSE, lock'[k] = "none"
  PROVE  HandlerInv(k)'
  BY DEF HandlerInv, ViewIsCurrent, IdleHasNothing, LocksProtect

\* A step that commits nothing leaves the other handlers as they were.
LEMMA UnmovedHandler ==
  ASSUME LockInv, NEW k \in Handlers, UNCHANGED vars,
         request'[k] = request[k], view'[k] = view[k], written'[k] = written[k], lock'[k] = lock[k]
  PROVE  HandlerInv(k)'
  <1>1. HandlerInv(k)
    BY DEF LockInv, HandlerInv
  <1>2. Tables' = Tables
    BY DEF vars, Tables
  <1>3. ViewIsCurrent(k)'
    BY <1>1, <1>2 DEF HandlerInv, ViewIsCurrent
  <1>4. IdleHasNothing(k)'
    BY <1>1 DEF HandlerInv, IdleHasNothing, vars, Reads
  <1>5. ASSUME written[k]
        PROVE  AcceptsNow(request[k])'
    <2>1. request[k] \in Requests /\ request[k].op # "list" /\ AcceptsNow(request[k])
      BY <1>1, <1>5 DEF HandlerInv, LocksProtect, LockInv, HandlersTypeOK
    <2>2. ASSUME NEW r \in Requests, r = request[k]
          PROVE  AcceptsNow(r)'
      BY <2>1, <2>2, AcceptanceStays DEF vars
    <2>3. PICK r \in Requests : r = request[k]
      BY <2>1
    <2> QED
      BY <2>2, <2>3
  <1>6. LocksProtect(k)'
    BY <1>1, <1>5 DEF HandlerInv, LocksProtect, HasRead, Reads
  <1> QED
    BY <1>3, <1>4, <1>6 DEF HandlerInv

\* The typing that is about handlers.
HandlerTypes ==
    /\ request \in [Handlers -> Requests \cup {None}]
    /\ written \in [Handlers -> BOOLEAN]
    /\ lock \in [Handlers -> {"none", "shared", "reserved", "pending"}]
    /\ view = [h \in Handlers |-> view[h]]
    /\ \A h \in Handlers : DOMAIN view[h] \subseteq TableNames

LEMMA FinishIdles ==
  ASSUME HandlerTypes, NEW h \in Handlers, Finish(h)
  PROVE  /\ HandlerTypes'
         /\ request'[h] = None /\ DOMAIN view'[h] = {} /\ written'[h] = FALSE /\ lock'[h] = "none"
         /\ \A k \in Handlers \ {h} :
               request'[k] = request[k] /\ view'[k] = view[k] /\ written'[k] = written[k] /\ lock'[k] = lock[k]
  <1>1. DOMAIN <<>> = {}
    OBVIOUS
  <1> QED
    BY <1>1 DEF Finish, HandlerTypes

LEMMA ReadKeeps ==
  ASSUME LockInv, HandlerTypes, NEW h \in Handlers, Read(h)
  PROVE  /\ HandlerTypes' /\ HandlerInv(h)'
         /\ UNCHANGED vars
         /\ \A k \in Handlers \ {h} :
               request'[k] = request[k] /\ view'[k] = view[k] /\ written'[k] = written[k] /\ lock'[k] = lock[k]
  <1> DEFINE now == DOMAIN view[h] \cup {NextTable(h)}
  <1>1. /\ request[h] \in Requests /\ HandlerInv(h)
        /\ IsFiniteSet(DOMAIN view[h]) /\ Cardinality(DOMAIN view[h]) <= Len(Reads(request[h]))
    BY DEF Read, LockInv, HandlerInv, IdleHasNothing, HandlersTypeOK
  <1>2. /\ request' = request /\ written' = written /\ UNCHANGED vars
        /\ view' = [view EXCEPT ![h] = [table \in now |->
               IF table \in DOMAIN view[h] THEN view[h][table] ELSE Tables[table]]]
        /\ lock' = IF lock[h] = "none" THEN [lock EXCEPT ![h] = "shared"] ELSE lock
        /\ Cardinality(DOMAIN view[h]) # Len(Reads(request[h])) /\ request[h] # None
    BY DEF Read, HasRead, ReadInTransaction
  <1>3. Cardinality(DOMAIN view[h]) \in Nat /\ Len(Reads(request[h])) \in Nat
    BY <1>1, FS_CardinalityType, ReadsAreTables
  <1>4. NextTable(h) \in TableNames
    BY <1>1, <1>2, <1>3, ReadsAreTables DEF NextTable
  <1>5. IsFiniteSet(now) /\ Cardinality(now) <= Len(Reads(request[h]))
    <2>1. /\ IsFiniteSet(now)
          /\ \/ Cardinality(now) = Cardinality(DOMAIN view[h])
             \/ Cardinality(now) = Cardinality(DOMAIN view[h]) + 1
      BY <1>1, FS_AddElement
    <2> HIDE DEF now
    <2> QED
      BY <1>1, <1>2, <1>3, <2>1
  <1>6. Tables' = Tables
    BY <1>2 DEF vars, Tables
  <1> HIDE DEF now
  <1>7. DOMAIN view'[h] = now /\ \A table \in now : view'[h][table] =
            IF table \in DOMAIN view[h] THEN view[h][table] ELSE Tables[table]
    BY <1>2 DEF HandlerTypes
  <1>8. now \subseteq TableNames
    BY <1>4 DEF HandlerTypes, now
  <1>9. HandlerTypes'
    <2>1. /\ request' \in [Handlers -> Requests \cup {None}] /\ written' \in [Handlers -> BOOLEAN]
          /\ lock' \in [Handlers -> {"none", "shared", "reserved", "pending"}]
      BY <1>2 DEF HandlerTypes
    <2>2. view' = [k \in Handlers |-> view'[k]] /\ \A k \in Handlers \ {h} : view'[k] = view[k]
      BY <1>2 DEF HandlerTypes
    <2>3. \A k \in Handlers : DOMAIN view'[k] \subseteq TableNames
      BY <1>7, <1>8, <2>2 DEF HandlerTypes
    <2> QED
      BY <2>1, <2>2, <2>3 DEF HandlerTypes
  <1>10. ViewIsCurrent(h)'
    BY <1>1, <1>6, <1>7 DEF HandlerInv, ViewIsCurrent
  <1>11. IdleHasNothing(h)'
    BY <1>1, <1>2, <1>5, <1>7 DEF HandlerInv, IdleHasNothing, vars
  <1>12. ~written[h]
    BY <1>2 DEF LockInv, LocksProtect, HasRead
  <1>13. LocksProtect(h)'
    BY <1>1, <1>2, <1>12 DEF LocksProtect, HandlerInv, HandlerTypes
  <1> QED
    BY <1>2, <1>9, <1>10, <1>11, <1>13 DEF HandlerInv, HandlerTypes

\* Receiving a request, and the steps that only change a lock.
LEMMA LockStepsKeep ==
  ASSUME LockInv, HandlerTypes, NEW h \in Handlers,
         Write(h) \/ AwaitReaders(h) \/ \E r \in Requests : Receive(h, r)
  PROVE  /\ HandlerTypes' /\ HandlerInv(h)'
         /\ UNCHANGED vars
         /\ \A k \in Handlers \ {h} :
               request'[k] = request[k] /\ view'[k] = view[k] /\ written'[k] = written[k] /\ lock'[k] = lock[k]
  <1>1. HandlerInv(h) /\ UNCHANGED vars /\ view' = view
    BY DEF LockInv, HandlerInv, Write, AwaitReaders, Receive
  <1>2. HandlerTypes'
    BY <1>1 DEF HandlerTypes, Write, AwaitReaders, Receive
  <1>3. \A k \in Handlers \ {h} :
            request'[k] = request[k] /\ view'[k] = view[k] /\ written'[k] = written[k] /\ lock'[k] = lock[k]
    BY DEF HandlerTypes, Write, AwaitReaders, Receive
  <1>4. Tables' = Tables
    BY <1>1 DEF vars, Tables
  <1>5. ViewIsCurrent(h)'
    BY <1>1, <1>4 DEF HandlerInv, ViewIsCurrent
  <1>6. CASE \E r \in Requests : Receive(h, r)
    <2>1. PICK r \in Requests : Receive(h, r)
      BY <1>6
    <2>2. /\ DOMAIN view'[h] = {} /\ server' = "serving" /\ request'[h] = r
          /\ written'[h] = FALSE /\ lock'[h] = "none"
      BY <1>1, <2>1 DEF Receive, HandlerInv, IdleHasNothing, vars, HandlerTypes
    <2>3. IsFiniteSet({}) /\ Cardinality({}) = 0 /\ Len(Reads(r)) \in Nat
      BY FS_EmptySet, ReadsAreTables
    <2>4. IdleHasNothing(h)'
      <3>1. Len(Reads(request[h]))' = Len(Reads(r))
        BY <2>2 DEF Reads
      <3> QED
        BY <2>2, <2>3, <3>1 DEF IdleHasNothing
    <2>5. LocksProtect(h)'
      BY <2>2 DEF LocksProtect
    <2> QED
      BY <1>1, <1>2, <1>3, <1>5, <2>4, <2>5 DEF HandlerInv
  <1>7. CASE Write(h) \/ AwaitReaders(h)
    <2>1. /\ request' = request /\ request[h] \in Requests /\ request[h] # None /\ request[h].op # "list"
          /\ written'[h] = TRUE /\ lock'[h] \in {"reserved", "pending"} /\ HasRead(h)
      BY <1>1, <1>7 DEF Write, AwaitReaders, HandlerTypes, HandlerInv, LocksProtect
    <2>2. AcceptsNow(request[h])
      BY <1>1, <1>7, <2>1, AcceptsWhatIs DEF Write, AwaitReaders, HandlerInv, LocksProtect
    <2>3. ASSUME NEW r \in Requests, r = request[h]
          PROVE  AcceptsNow(r)'
      BY <1>1, <2>1, <2>2, <2>3, AcceptanceStays DEF vars
    <2>4. AcceptsNow(request[h])'
      BY <2>1, <2>3
    <2>5. request'[h] = request[h] /\ view'[h] = view[h] /\ server' = server
          /\ Len(Reads(request[h]))' = Len(Reads(request[h]))
      BY <1>1, <2>1 DEF vars, Reads
    <2>6. IdleHasNothing(h)'
      BY <1>1, <2>1, <2>5 DEF HandlerInv, IdleHasNothing
    <2>7. LocksProtect(h)'
      BY <2>1, <2>4, <2>5 DEF LocksProtect, HasRead
    <2> QED
      BY <1>1, <1>2, <1>3, <1>5, <2>6, <2>7 DEF HandlerInv
  <1> QED
    BY <1>6, <1>7

\* A commit finds nobody else with a lock, so nobody who has read anything.
LEMMA CommitKeeps ==
  ASSUME LockInv, HandlerTypes, NEW h \in Handlers, Commit(h), NEW k \in Handlers
  PROVE  HandlerInv(k)'
  <1>1. Finish(h)
    BY DEF Commit
  <1>2. CASE k = h
    BY <1>1, <1>2, FinishIdles, IdleHandler
  <1>3. CASE k # h
    <2>1. /\ request'[k] = request[k] /\ view'[k] = view[k]
          /\ written'[k] = written[k] /\ lock'[k] = lock[k]
      BY <1>1, <1>3, FinishIdles
    <2>2. HandlerInv(k) /\ lock[k] = "none"
      BY <1>3 DEF Commit, MayCommit, Others, LockInv, HandlerInv
    <2>3. DOMAIN view[k] = {} /\ ~written[k]
      BY <2>2 DEF HandlerInv, LocksProtect
    <2>4. server' = server
      BY CommitIsRequest DEF Request
    <2>5. ViewIsCurrent(k)' /\ LocksProtect(k)'
      BY <2>1, <2>2, <2>3 DEF ViewIsCurrent, LocksProtect
    <2>6. IdleHasNothing(k)'
      BY <2>1, <2>2, <2>4 DEF HandlerInv, IdleHasNothing, Reads
    <2> QED
      BY <2>5, <2>6 DEF HandlerInv
  <1> QED
    BY <1>2, <1>3

LEMMA InvByParts ==
  LockInv <=> /\ TypeOK /\ LinkedBillsExist /\ HandlerTypes
              /\ \A h \in Handlers : HandlerInv(h)
              /\ OneWriter
  BY TablesByName DEF LockInv, HandlersTypeOK, HandlerTypes, HandlerInv

LEMMA LockInvInit == LedgerInit => LockInv
  <1> SUFFICES ASSUME LedgerInit PROVE LockInv
    OBVIOUS
  <1>1. DOMAIN <<>> = {}
    OBVIOUS
  <1>2. TypeOK /\ LinkedBillsExist
    BY InitType DEF LedgerInit
  <1>3. HandlerTypes /\ OneWriter /\ \A h \in Handlers : HandlerInv(h)
    BY <1>1 DEF LedgerInit, HandlerTypes, OneWriter, HandlerInv, ViewIsCurrent, IdleHasNothing, LocksProtect
  <1> QED
    BY <1>2, <1>3, InvByParts

LEMMA LockInvNext == LockInv /\ [LedgerNext]_allVars => LockInv'
  <1> SUFFICES ASSUME LockInv, [LedgerNext]_allVars
               PROVE  LockInv'
    OBVIOUS
  <1> SUFFICES HandlerTypes' /\ (\A k \in Handlers : HandlerInv(k)') /\ OneWriter'
    <2>1. (TypeOK /\ LinkedBillsExist)'
      BY StepsAreRequests, NextType DEF LockInv, HandlersTypeOK
    <2>2. DOMAIN Tables' = TableNames
      BY DEF Tables, TableNames
    <2> QED
      BY <2>1, <2>2 DEF LockInv, HandlersTypeOK, HandlerTypes, HandlerInv
  <1>0. HandlerTypes /\ OneWriter /\ \A h \in Handlers : HandlerInv(h)
    BY InvByParts
  <1> DEFINE Unmoved(k) == /\ request'[k] = request[k] /\ view'[k] = view[k]
                           /\ written'[k] = written[k] /\ lock'[k] = lock[k]
  <1>1. ASSUME NEW h \in Handlers,
               Read(h) \/ Write(h) \/ AwaitReaders(h) \/ \E r \in Requests : Receive(h, r)
        PROVE  HandlerTypes' /\ (\A k \in Handlers : HandlerInv(k)') /\ OneWriter'
    <2>1. HandlerTypes' /\ HandlerInv(h)' /\ UNCHANGED vars /\ \A k \in Handlers \ {h} : Unmoved(k)
      BY <1>0, <1>1, ReadKeeps, LockStepsKeep
    <2>2. \A k \in Handlers : HandlerInv(k)'
      BY <2>1, UnmovedHandler
    <2>3. CASE Write(h)
      <3>1. \A k \in Handlers \ {h} : ~written[k]
        BY <1>0, <2>3 DEF Write, MayReserve, Others, HandlerInv, LocksProtect
      <3> QED
        BY <2>1, <2>2, <3>1 DEF OneWriter
    <2>4. CASE ~Write(h)
      <3>1. written' = written
        BY <1>1, <2>4 DEF Read, AwaitReaders, Receive
      <3> QED
        BY <1>0, <2>1, <2>2, <3>1 DEF OneWriter
    <2> QED
      BY <2>3, <2>4
  <1>2. ASSUME NEW h \in Handlers, Refuse(h) \/ AnswerList(h) \/ Busy(h)
        PROVE  HandlerTypes' /\ (\A k \in Handlers : HandlerInv(k)') /\ OneWriter'
    <2>1. Finish(h) /\ UNCHANGED vars
      BY <1>2 DEF Refuse, AnswerList, Busy
    <2>2. HandlerTypes' /\ (\A k \in Handlers \ {h} : Unmoved(k)) /\ written'[h] = FALSE
      BY <1>0, <2>1, FinishIdles
    <2>3. HandlerInv(h)'
      BY <1>0, <2>1, FinishIdles, IdleHandler
    <2>4. \A k \in Handlers \ {h} : HandlerInv(k)'
      BY <2>1, <2>2, UnmovedHandler
    <2> QED
      BY <1>0, <2>2, <2>3, <2>4 DEF OneWriter
  <1>3. ASSUME NEW h \in Handlers, Commit(h)
        PROVE  HandlerTypes' /\ (\A k \in Handlers : HandlerInv(k)') /\ OneWriter'
    <2>1. Finish(h)
      BY <1>3 DEF Commit
    <2>2. HandlerTypes' /\ (\A k \in Handlers \ {h} : Unmoved(k)) /\ written'[h] = FALSE
      BY <1>0, <2>1, FinishIdles
    <2> QED
      BY <1>0, <1>3, <2>2, CommitKeeps DEF OneWriter
  <1>4. CASE Start
    <2>1. server # "serving" /\ UNCHANGED handlerVars
      BY <1>4 DEF Start, InitPurchaseInvoices, InitPurchaseParties
    <2>2. \A k \in Handlers :
             request[k] = None /\ DOMAIN view[k] = {} /\ written[k] = FALSE /\ lock[k] = "none"
      BY <1>0, <2>1 DEF HandlerInv, IdleHasNothing, HandlerTypes
    <2>3. HandlerTypes' /\ OneWriter'
      BY <1>0, <2>1 DEF handlerVars, HandlerTypes, OneWriter
    <2>4. \A k \in Handlers : HandlerInv(k)'
      BY <2>1, <2>2, IdleHandler DEF handlerVars
    <2> QED
      BY <2>3, <2>4
  <1>5. CASE Crash
    <2>1. DOMAIN <<>> = {}
      OBVIOUS
    <2>2. \A k \in Handlers : request'[k] = None /\ DOMAIN view'[k] = {} /\ written'[k] = FALSE /\ lock'[k] = "none"
      BY <1>5, <2>1 DEF Crash
    <2>3. HandlerTypes' /\ OneWriter'
      BY <1>5, <2>1 DEF Crash, HandlerTypes, OneWriter
    <2> QED
      BY <2>2, <2>3, IdleHandler
  <1>6. CASE UNCHANGED allVars
    <2>1. UNCHANGED vars /\ UNCHANGED handlerVars
      BY <1>6 DEF allVars
    <2>2. HandlerTypes' /\ OneWriter' /\ \A k \in Handlers : Unmoved(k)
      BY <1>0, <2>1 DEF handlerVars, HandlerTypes, OneWriter
    <2> QED
      BY <2>1, <2>2, UnmovedHandler
  <1> QED
    BY <1>1, <1>2, <1>3, <1>4, <1>5, <1>6 DEF LedgerNext, HandlerStep

---------------------------------------------------------------------------
(* Theorems *)

LEMMA LockInvHolds == LedgerSpec => []LockInv
  BY LockInvInit, LockInvNext, PTL DEF LedgerSpec

\* What an open transaction has read is what the database holds.
THEOREM ReadsAreCurrent == LedgerSpec => []ReadsStayCurrent
  <1>1. LockInv => ReadsStayCurrent
    BY DEF LockInv, ReadsStayCurrent, ViewIsCurrent
  <1> QED
    BY <1>1, LockInvHolds, PTL

\* Concurrent transactions implement whole requests, one after the other.
THEOREM CommitsAreSerial == LedgerSpec => CommitsAreRequests
  <1>1. LedgerInit => Init
    BY DEF LedgerInit
  <1> QED
    BY <1>1, StepsAreRequests, LockInvHolds, PTL DEF LedgerSpec, Spec, CommitsAreRequests

\* So money that is allocated by requests that run at once is never more than
\* there is, or than is due.
THEOREM ConcurrentRequestsFit ==
  LedgerSpec => [](InvoicesNotOverpaid /\ ReceiptsNotOverspent /\ BillsNotOverpaid)
  BY CommitsAreSerial, NoInvoiceIsOverpaid, NoReceiptIsOverspent, NoBillIsOverpaid, PTL
  DEF CommitsAreRequests

(***************************************************************************)
(* The screens                                                             *)
(***************************************************************************)

---------------------------------------------------------------------------
(* The purchase form *)

\* A form that loads has nothing under way, an upload no save beside it, and a
\* lookup the fields as they were when its GSTIN was entered.
PurchaseInv ==
    /\ Purchase!TypeOK /\ Purchase!ScreenKeepsDrafts
    /\ \A one, other \in inFlight : one = other
    /\ saving <=> inFlight # {}
    /\ loading => draft = None /\ ~source /\ ~saving /\ ~parsing
    /\ parsing => ~saving
    /\ lookup # None => Purchase!Names(lookup) = entered /\ lookup.gstin \in Gstins

LEMMA NoPartyIsParty ==
  /\ Purchase!NoParty \in Purchase!Party
  /\ \A name \in {Blank, Typed} : [Purchase!NoParty EXCEPT !.name = name] \in Purchase!Party
  /\ Purchase!Names(Purchase!NoParty) \in [name: Purchase!Words, address: Purchase!Words]
  BY DEF Purchase!NoParty, Purchase!Party, Purchase!Words, Purchase!Names

LEMMA PurchaseInit == Purchase!Init => PurchaseInv
  <1> SUFFICES ASSUME Purchase!Init PROVE PurchaseInv
    OBVIOUS
  <1>0. 0 \in 0 .. MaxDrafts
    BY FormAssumption
  <1>1. Purchase!TypeOK
    BY <1>0, NoPartyIsParty DEF Purchase!Init, Purchase!TypeOK
  <1> QED
    BY <1>1 DEF Purchase!Init, PurchaseInv, Purchase!ScreenKeepsDrafts

\* The editor gets a draft of its own number.
LEMMA OpenedDraft ==
  ASSUME Purchase!TypeOK, NEW party \in Purchase!Party, Purchase!Open(party)
  PROVE  /\ draft' \in Purchase!Draft /\ draft'.no = opened + 1
         /\ opened' = opened + 1 /\ opened' \in 0 .. MaxDrafts
         /\ lookup' = None
         /\ entered' \in [name: Purchase!Words, address: Purchase!Words]
  BY FormAssumption DEF Purchase!TypeOK, Purchase!Open, Purchase!DraftOf, Purchase!Draft, Purchase!Party, Purchase!Names

\* What opens a draft: no save and no upload is under way.
LEMMA OpeningKeeps ==
  ASSUME PurchaseInv, NEW party \in Purchase!Party, Purchase!Open(party), ~saving,
         UNCHANGED <<saving, inFlight>>,
         loading' = FALSE, parsing' = FALSE, source' \in BOOLEAN
  PROVE  PurchaseInv'
  <1>1. Purchase!TypeOK'
    <2>1. Purchase!TypeOK
      BY DEF PurchaseInv
    <2>2. draft'.no <= opened'
      <3>1. draft'.no = opened + 1 /\ opened' = opened + 1 /\ opened \in Nat
        BY <2>1, OpenedDraft, FormAssumption DEF Purchase!TypeOK
      <3> QED
        BY <3>1
    <2>3. {loading', saving', parsing', source'} \subseteq BOOLEAN
      BY <2>1 DEF Purchase!TypeOK
    <2> QED
      BY <2>1, <2>2, <2>3, OpenedDraft DEF Purchase!TypeOK
  <1> QED
    BY <1>1, OpenedDraft DEF PurchaseInv, Purchase!ScreenKeepsDrafts

LEMMA PurchaseNext == PurchaseInv /\ [Purchase!Next]_purchaseVars => PurchaseInv'
  <1> SUFFICES ASSUME PurchaseInv, [Purchase!Next]_purchaseVars PROVE PurchaseInv'
    OBVIOUS
  <1>t. Purchase!TypeOK
    BY DEF PurchaseInv
  <1>d. draft # None => draft \in Purchase!Draft
    BY <1>t DEF Purchase!TypeOK
  <1>l. loading \in BOOLEAN /\ saving \in BOOLEAN /\ parsing \in BOOLEAN /\ source \in BOOLEAN
    BY <1>t DEF Purchase!TypeOK
  <1>1. CASE Purchase!Load
    <2>1. CASE UNCHANGED <<source, draft, opened, lookup, entered>>
      BY <1>1, <2>1 DEF PurchaseInv, Purchase!TypeOK, Purchase!Load, Purchase!ScreenKeepsDrafts
    <2>2. ASSUME NEW party \in Register, Purchase!Open(party), UNCHANGED source
          PROVE  PurchaseInv'
      <3>1. party \in Purchase!Party
        BY FormAssumption
      <3> QED
        BY <1>1, <2>2, <3>1, <1>l, OpeningKeeps DEF PurchaseInv, Purchase!Load
    <2>3. ASSUME NEW name \in {Blank, Typed}, Purchase!Open([Purchase!NoParty EXCEPT !.name = name]),
                 source' = TRUE
          PROVE  PurchaseInv'
      <3>1. [Purchase!NoParty EXCEPT !.name = name] \in Purchase!Party
        BY NoPartyIsParty
      <3> QED
        BY <1>1, <2>3, <3>1, <1>l, OpeningKeeps DEF PurchaseInv, Purchase!Load
    <2> QED
      BY <1>1, <2>1, <2>2, <2>3 DEF Purchase!Load
  <1>2. CASE Purchase!Add
    BY <1>2, <1>l, NoPartyIsParty, OpeningKeeps DEF Purchase!Add, Purchase!Idle
  <1>3. ASSUME NEW party \in Register, Purchase!Edit(party) PROVE PurchaseInv'
    <2>1. party \in Purchase!Party
      BY FormAssumption
    <2>2. ~parsing
      BY <1>3 DEF Purchase!Edit, Purchase!MayEdit, Purchase!NotParsing
    <2> QED
      BY <1>3, <1>l, <2>1, <2>2, OpeningKeeps DEF Purchase!Edit
  <1>4. CASE Purchase!Cancel
    BY <1>4 DEF PurchaseInv, Purchase!TypeOK, Purchase!Cancel, Purchase!ScreenKeepsDrafts
  <1>5. CASE Purchase!Leave
    <2>1. 0 \in 0 .. MaxDrafts
      BY FormAssumption
    <2>2. Purchase!TypeOK'
      BY <1>5, <2>1, NoPartyIsParty DEF Purchase!TypeOK, Purchase!Leave, Purchase!FirstDraft
    <2> QED
      BY <1>5, <2>2 DEF PurchaseInv, Purchase!Leave, Purchase!FirstDraft, Purchase!ScreenKeepsDrafts
  <1>6. CASE Purchase!TypeName
    <2>1. draft' \in Purchase!Draft /\ draft'.no = draft.no
      BY <1>6, <1>d DEF Purchase!TypeName, Purchase!Draft, Purchase!Words
    <2> QED
      BY <1>6, <2>1 DEF PurchaseInv, Purchase!TypeOK, Purchase!TypeName, Purchase!ScreenKeepsDrafts
  <1>7. ASSUME NEW gstin \in Gstins \cup {Partial}, Purchase!GstinChanged(gstin) PROVE PurchaseInv'
    <2>1. /\ draft' \in Purchase!Draft /\ draft'.no = draft.no
          /\ Purchase!Names(draft') = Purchase!Names(draft)
          /\ Purchase!Names(draft) \in [name: Purchase!Words, address: Purchase!Words]
      BY <1>7, <1>d DEF Purchase!GstinChanged, Purchase!Draft, Purchase!Names
    <2>2. lookup' \in {draft', None} /\ entered' = Purchase!Names(draft)
      BY <1>7 DEF Purchase!GstinChanged
    <2>3. Purchase!TypeOK'
      BY <1>7, <2>1, <2>2, <1>t DEF Purchase!TypeOK, Purchase!GstinChanged
    <2>4. lookup' # None => Purchase!Names(lookup') = entered' /\ lookup'.gstin \in Gstins
      BY <1>7, <2>1, <2>2, <1>d DEF Purchase!GstinChanged, Purchase!Names, Purchase!Draft
    <2> QED
      BY <1>7, <2>3, <2>4 DEF PurchaseInv, Purchase!GstinChanged, Purchase!ScreenKeepsDrafts
  <1>8. CASE Purchase!LookupFound
    <2>1. lookup \in Purchase!Draft
      BY <1>8, <1>t DEF Purchase!LookupFound, Purchase!TypeOK
    <2>2. CASE Purchase!IsWanted /\ Purchase!MayFill
      <3>0. draft # None /\ draft \in Purchase!Draft /\ draft.gstin = lookup.gstin /\ ~saving
        BY <2>2, <1>d DEF Purchase!IsWanted, Purchase!Belongs
      <3>1. draft' = [draft EXCEPT !.name = lookup.gstin, !.address = lookup.gstin]
        BY <1>8, <2>2 DEF Purchase!LookupFound
      <3>2. draft' \in Purchase!Draft /\ draft'.no = draft.no
        BY <3>0, <3>1, <1>8 DEF PurchaseInv, Purchase!LookupFound, Purchase!Draft, Purchase!Words
      <3> QED
        BY <1>8, <3>0, <3>2 DEF Purchase!LookupFound, PurchaseInv, Purchase!TypeOK, Purchase!ScreenKeepsDrafts
    <2>3. CASE ~(Purchase!IsWanted /\ Purchase!MayFill)
      BY <1>8, <2>3 DEF Purchase!LookupFound, PurchaseInv, Purchase!TypeOK, Purchase!ScreenKeepsDrafts
    <2> QED
      BY <2>2, <2>3
  <1>9. CASE Purchase!LookupFails
    BY <1>9 DEF PurchaseInv, Purchase!TypeOK, Purchase!LookupFails, Purchase!ScreenKeepsDrafts
  <1>10. CASE Purchase!ParseInvoice
    BY <1>10 DEF PurchaseInv, Purchase!TypeOK, Purchase!ParseInvoice, Purchase!ScreenKeepsDrafts, Purchase!Idle
  <1>11. CASE Purchase!ParseAnswered
    <2>1. ASSUME NEW gstin \in Gstins,
                 Purchase!Open([gstin |-> gstin, name |-> Typed, address |-> Typed])
          PROVE  PurchaseInv'
      <3>1. [gstin |-> gstin, name |-> Typed, address |-> Typed] \in Purchase!Party
        BY DEF Purchase!Party, Purchase!Words
      <3> QED
        BY <1>11, <2>1, <3>1, <1>l, OpeningKeeps DEF Purchase!ParseAnswered, PurchaseInv
    <2>2. CASE UNCHANGED <<draft, opened, lookup, entered>>
      BY <1>11, <2>2 DEF PurchaseInv, Purchase!TypeOK, Purchase!ParseAnswered, Purchase!ScreenKeepsDrafts
    <2> QED
      BY <1>11, <2>1, <2>2 DEF Purchase!ParseAnswered
  <1>12. ASSUME NEW sent \in Purchase!Request, ~saving, ~parsing, ~loading, Purchase!Send(sent),
                sent.kind = "invoice" => draft = sent.sent
         PROVE  PurchaseInv'
    BY <1>12 DEF PurchaseInv, Purchase!TypeOK, Purchase!Send, Purchase!ScreenKeepsDrafts
  <1>13. CASE Purchase!Save
    <2>1. [kind |-> "invoice", sent |-> draft] \in Purchase!Request
      BY <1>13, <1>d DEF Purchase!Save, Purchase!Request
    <2> QED
      BY <1>12, <1>13, <2>1 DEF Purchase!Save, Purchase!MaySave, PurchaseInv
  <1>14. CASE Purchase!SavePaymentAllocations
    <2>1. [kind |-> "payments", sent |-> None] \in Purchase!Request
      BY DEF Purchase!Request
    <2> QED
      BY <1>12, <1>14, <2>1 DEF Purchase!SavePaymentAllocations, Purchase!MaySave, PurchaseInv
  <1>15. CASE Purchase!Answer
    <2> PICK sent \in inFlight :
            \/ Purchase!SaveAnswered(sent) \/ Purchase!PaymentsAnswered(sent)
            \/ Purchase!BalancesAnswered(sent)
      BY <1>15 DEF Purchase!Answer
    <2>1. inFlight = {sent}
      BY DEF PurchaseInv
    <2> USE DEF PurchaseInv, Purchase!TypeOK, Purchase!ScreenKeepsDrafts, Purchase!AfterError, Purchase!Cleared
    <2>2. CASE Purchase!SaveAnswered(sent)
      BY <2>1, <2>2 DEF Purchase!SaveAnswered
    <2>3. CASE Purchase!PaymentsAnswered(sent)
      <3>1. [kind |-> "balances", sent |-> None] \in Purchase!Request
        BY DEF Purchase!Request
      <3>2. CASE inFlight' = inFlight \ {sent} /\ saving' = FALSE
        BY <2>1, <2>3, <3>2 DEF Purchase!PaymentsAnswered
      <3>3. CASE inFlight' = {[kind |-> "balances", sent |-> None]} /\ UNCHANGED saving
        BY <2>1, <2>3, <3>1, <3>3 DEF Purchase!PaymentsAnswered
      <3> QED
        BY <2>1, <2>3, <3>2, <3>3 DEF Purchase!PaymentsAnswered
    <2>4. CASE Purchase!BalancesAnswered(sent)
      BY <2>1, <2>4 DEF Purchase!BalancesAnswered
    <2> QED
      BY <2>2, <2>3, <2>4
  <1>16. CASE UNCHANGED purchaseVars
    BY <1>16 DEF purchaseVars, PurchaseInv, Purchase!TypeOK, Purchase!ScreenKeepsDrafts, Purchase!Names
  <1> QED
    BY <1>1, <1>2, <1>3, <1>4, <1>5, <1>6, <1>7, <1>8, <1>9, <1>10, <1>11, <1>13, <1>14, <1>15, <1>16
    DEF Purchase!Next

LEMMA OneSave == PurchaseInv => Purchase!OneSaveAtATime
  BY DEF PurchaseInv, Purchase!OneSaveAtATime

\* What a step may fill in.
FilledIn ==
    draft # None /\ draft' # None /\ draft'.no = draft.no =>
        /\ draft'.name # draft.name /\ draft'.name # Typed =>
              draft'.name = draft.gstin /\ Purchase!Names(draft) = entered
        /\ draft'.address # draft.address /\ draft'.address # Typed =>
              draft'.address = draft.gstin /\ Purchase!Names(draft) = entered

LEMMA OnlyLookupsFill == PurchaseInv /\ [Purchase!Next]_purchaseVars => FilledIn
  <1> SUFFICES ASSUME PurchaseInv, [Purchase!Next]_purchaseVars,
                      draft # None, draft' # None, draft'.no = draft.no
               PROVE  FilledIn
    BY DEF FilledIn
  <1>t. Purchase!TypeOK /\ draft \in Purchase!Draft /\ draft.no <= opened
    BY DEF PurchaseInv, Purchase!TypeOK
  <1>1. ASSUME NEW party \in Purchase!Party, Purchase!Open(party) PROVE FALSE
    <2>1. draft'.no = opened + 1 /\ opened \in Nat /\ draft.no \in Nat
      BY <1>1, <1>t, OpenedDraft, FormAssumption DEF Purchase!TypeOK, Purchase!Draft
    <2> QED
      BY <2>1, <1>t
  <1>2. CASE Purchase!TypeName
    BY <1>2, <1>t DEF Purchase!TypeName, Purchase!Draft, FilledIn
  <1>3. ASSUME NEW gstin \in Gstins \cup {Partial}, Purchase!GstinChanged(gstin) PROVE FilledIn
    BY <1>3, <1>t DEF Purchase!GstinChanged, Purchase!Draft, FilledIn
  <1>4. CASE Purchase!LookupFound
    <2>1. CASE Purchase!IsWanted /\ Purchase!MayFill
      <3>1. /\ draft' = [draft EXCEPT !.name = lookup.gstin, !.address = lookup.gstin]
            /\ draft.gstin = lookup.gstin /\ Purchase!Names(draft) = entered
        BY <1>4, <2>1 DEF Purchase!LookupFound, Purchase!IsWanted, Purchase!Belongs, Purchase!MayFill, PurchaseInv
      <3> QED
        BY <3>1, <1>t DEF Purchase!Draft, FilledIn
    <2> QED
      BY <1>4, <2>1 DEF Purchase!LookupFound, FilledIn
  <1>5. CASE UNCHANGED draft
    BY <1>5 DEF FilledIn
  <1>6. CASE Purchase!Load
    <2>1. ASSUME NEW party \in Register, Purchase!Open(party) PROVE FALSE
      BY <1>1, <2>1, FormAssumption
    <2>2. ASSUME NEW name \in {Blank, Typed}, Purchase!Open([Purchase!NoParty EXCEPT !.name = name])
          PROVE  FALSE
      BY <1>1, <2>2, NoPartyIsParty
    <2> QED
      BY <1>5, <1>6, <2>1, <2>2 DEF Purchase!Load
  <1>7. CASE Purchase!Add
    BY <1>1, <1>7, NoPartyIsParty DEF Purchase!Add
  <1>8. ASSUME NEW party \in Register, Purchase!Edit(party) PROVE FALSE
    BY <1>1, <1>8, FormAssumption DEF Purchase!Edit
  <1>9. CASE Purchase!ParseAnswered
    <2>1. ASSUME NEW gstin \in Gstins,
                 Purchase!Open([gstin |-> gstin, name |-> Typed, address |-> Typed])
          PROVE  FALSE
      <3>1. [gstin |-> gstin, name |-> Typed, address |-> Typed] \in Purchase!Party
        BY DEF Purchase!Party, Purchase!Words
      <3> QED
        BY <1>1, <2>1, <3>1
    <2> QED
      BY <1>5, <1>9, <2>1 DEF Purchase!ParseAnswered
  <1>10. CASE Purchase!Answer
    BY <1>5, <1>10 DEF Purchase!Answer, Purchase!SaveAnswered, Purchase!PaymentsAnswered, Purchase!BalancesAnswered
  <1>11. CASE Purchase!Save \/ Purchase!SavePaymentAllocations \/ Purchase!LookupFails \/ Purchase!ParseInvoice
    BY <1>5, <1>11 DEF Purchase!Save, Purchase!SavePaymentAllocations, Purchase!Send, Purchase!LookupFails,
        Purchase!ParseInvoice
  <1>12. CASE Purchase!Cancel \/ Purchase!Leave
    BY <1>12 DEF Purchase!Cancel, Purchase!Leave, Purchase!FirstDraft
  <1> QED
    BY <1>2, <1>3, <1>4, <1>5, <1>6, <1>7, <1>8, <1>9, <1>10, <1>11, <1>12 DEF Purchase!Next, purchaseVars

---------------------------------------------------------------------------
(* The database browser *)

\* What an object on the screen asks for, and shows when it has come.
Wanted == [tab |-> IF tab = "rows" /\ selected \in Browsable THEN "rows" ELSE "structure",
           of |-> selected, offset |-> offset]
BrowserInv ==
    /\ Browser!BrowserTypeOK
    /\ Browser!ObjectIsShown =>
          /\ tab = "rows" => selected \in Browsable
          /\ selectionRequest \subseteq {Wanted}
          /\ result # None => result.of = selected
          /\ detail # None => detail.of = selected
          /\ ~fetching /\ ~failed /\ tab = "rows" /\ result # None => result = Wanted

LEMMA BrowserInitHolds == Browser!BrowserInit => BrowserInv
  <1> SUFFICES ASSUME Browser!BrowserInit PROVE BrowserInv
    OBVIOUS
  <1>1. 0 \in 0 .. MaxOffset
    BY PagesAssumption
  <1> QED
    BY <1>1 DEF Browser!BrowserInit, BrowserInv, Browser!BrowserTypeOK, Browser!ObjectIsShown

\* What is asked for is of the object that is then selected.
LEMMA LoadIsWanted ==
  ASSUME selected' \in Objects, offset' \in 0 .. MaxOffset, Browser!LoadSelection
  PROVE  /\ selectionRequest' = {Wanted'} /\ Wanted' \in Browser!Content
         /\ fetching' = TRUE /\ failed' = FALSE
  BY DEF Browser!LoadSelection, Browser!AfterReset, Browser!Unsubscribed, Wanted, Browser!Content

LEMMA BrowserNextHolds == BrowserInv /\ [Browser!BrowserNext]_browserVars => BrowserInv'
  <1> SUFFICES ASSUME BrowserInv, [Browser!BrowserNext]_browserVars PROVE BrowserInv'
    OBVIOUS
  <1>0. 0 \in 0 .. MaxOffset
    BY PagesAssumption
  <1>t. Browser!BrowserTypeOK
    BY DEF BrowserInv
  <1>1. ASSUME NEW object \in Objects, Browser!SelectObject(object) PROVE BrowserInv'
    <2>1. selected' = object /\ offset' = 0 /\ Browser!LoadSelection
      BY <1>1 DEF Browser!SelectObject
    <2>2. /\ selectionRequest' = {Wanted'} /\ Wanted' \in Browser!Content
          /\ fetching' = TRUE /\ failed' = FALSE
      BY <1>0, <2>1, LoadIsWanted
    <2> QED
      BY <1>0, <1>1, <1>t, <2>2 DEF BrowserInv, Browser!BrowserTypeOK, Browser!SelectObject, Browser!ObjectIsShown
  <1>2. ASSUME NEW to \in {"rows", "structure"}, Browser!ChangeTab(to) PROVE BrowserInv'
    <2>1. /\ selected' \in Objects /\ offset' \in 0 .. MaxOffset /\ Browser!LoadSelection
          /\ selected' = selected /\ Browser!ObjectIsShown
      BY <1>2, <1>t DEF Browser!ChangeTab, Browser!ObjectIsShown, Browser!BrowserTypeOK
    <2>2. /\ selectionRequest' = {Wanted'} /\ Wanted' \in Browser!Content
          /\ fetching' = TRUE /\ failed' = FALSE
      BY <2>1, LoadIsWanted
    <2> QED
      BY <1>2, <1>t, <2>1, <2>2 DEF BrowserInv, Browser!BrowserTypeOK, Browser!ChangeTab, Browser!ObjectIsShown,
          Browser!CanBrowse
  <1>3. ASSUME NEW to \in 0 .. MaxOffset, Browser!Page(to) PROVE BrowserInv'
    <2>1. /\ selected' \in Objects /\ offset' \in 0 .. MaxOffset /\ Browser!LoadSelection
          /\ selected' = selected /\ Browser!ObjectIsShown
      BY <1>3, <1>t DEF Browser!Page, Browser!ContentIsShown, Browser!ObjectIsShown, Browser!BrowserTypeOK
    <2>2. /\ selectionRequest' = {Wanted'} /\ Wanted' \in Browser!Content
          /\ fetching' = TRUE /\ failed' = FALSE
      BY <2>1, LoadIsWanted
    <2> QED
      BY <1>3, <1>t, <2>1, <2>2 DEF BrowserInv, Browser!BrowserTypeOK, Browser!Page, Browser!ObjectIsShown
  <1>4. ASSUME NEW asked \in Browser!Content, Browser!SelectionAnswered(asked) PROVE BrowserInv'
    <2>1. Browser!BrowserTypeOK'
      BY <1>4, <1>t DEF Browser!BrowserTypeOK, Browser!SelectionAnswered
    <2>2. Browser!ObjectIsShown' = Browser!ObjectIsShown /\ Wanted' = Wanted
      BY <1>4 DEF Browser!SelectionAnswered, Browser!ObjectIsShown, Wanted
    <2>3. Browser!ObjectIsShown => asked = Wanted
      BY <1>4 DEF Browser!SelectionAnswered, BrowserInv
    <2>4. Browser!ObjectIsShown /\ tab = "rows" => Wanted.tab = "rows"
      BY DEF BrowserInv, Wanted
    <2>5. Wanted.of = selected
      BY DEF Wanted
    <2> QED
      BY <1>4, <2>1, <2>2, <2>3, <2>4, <2>5 DEF BrowserInv, Browser!SelectionAnswered
  <1>5. ASSUME NEW objects \in SUBSET Objects, Browser!CatalogAnswered(objects) PROVE BrowserInv'
    <2>1. Browser!BrowserTypeOK'
      BY <1>5, <1>t DEF Browser!BrowserTypeOK, Browser!CatalogAnswered
    <2> QED
      BY <1>5, <2>1 DEF BrowserInv, Browser!CatalogAnswered, Browser!ObjectIsShown, Wanted
  <1>6. CASE Browser!LeaveObject
    BY <1>6, <1>t DEF BrowserInv, Browser!LeaveObject, Browser!ObjectIsShown, Browser!BrowserTypeOK,
        Browser!AfterReset, Browser!Unsubscribed
  <1>7. CASE Browser!RunSQL \/ Browser!SQLAnswered
    BY <1>7, <1>t DEF BrowserInv, Browser!RunSQL, Browser!SQLAnswered, Browser!ObjectIsShown,
        Browser!BrowserTypeOK, Wanted
  <1>8. CASE Browser!ComeBack
    BY <1>0, <1>8 DEF BrowserInv, Browser!ComeBack, Browser!ObjectIsShown, Browser!BrowserTypeOK
  <1>9. CASE UNCHANGED browserVars
    BY <1>9 DEF BrowserInv, browserVars, Browser!ObjectIsShown, Browser!BrowserTypeOK, Wanted
  <1> QED
    BY <1>1, <1>2, <1>3, <1>4, <1>5, <1>6, <1>7, <1>8, <1>9 DEF Browser!BrowserNext

LEMMA ResultsBelong == BrowserInv => Browser!ResultsBelongToSelection
  BY DEF BrowserInv, Browser!ResultsBelongToSelection, Browser!ContentIsShown, Browser!ObjectIsShown, Wanted

---------------------------------------------------------------------------
(* The statement screen: its invariant *)

\* Only a sales receipt has a partner, and a stored one is named by it.
WellFormed(class) == class.partner # None => class.head = SalesHead
Saved(class) == class.partner # None => class.head = SalesHead /\ class.sub = class.partner

IsPut(w) == w # None /\ w.kind # "rows"
IsFetch(w) == w # None /\ w.kind = "rows"
IsSave(w) == IsPut(w) /\ w.kind = "save" /\ w.mine

\* Until the server has handled it, a PUT is as it was sent; what a fetch has read
\* is as it was stored.
PutIsSound(w) ==
    /\ w.class # None => WellFormed(w.class)
    /\ w.class = None => w.kind = "edit" /\ w.status # "sent"
    /\ w.alloc # None <=> w.kind = "save"
    /\ ~w.mine => w.status = "sent"
FetchIsSound(w) ==
    /\ w.status = "read" =>
          w.classes # None /\ \A t \in Transactions : Saved(w.classes[t])
    /\ w.status = "complete" =>
          w.rows # None /\ \A t \in Transactions : Saved(w.rows[t].class)
RequestsAreSound ==
    \A s \in Slots : /\ IsPut(wire[s]) => PutIsSound(wire[s])
                     /\ IsFetch(wire[s]) => FetchIsSound(wire[s])

RowsAreSound ==
    /\ \A t \in Transactions : bank[t] \in BankRow /\ Saved(bank[t])
    /\ grid # None => \A t \in Transactions : WellFormed(grid[t].class)
    /\ \A t \in Transactions : Links(salesAlloc[t]) # {} =>
          /\ bank[t].number = Links(salesAlloc[t])
          /\ \A i \in Links(salesAlloc[t]) : invoice[i].partner = bank[t].partner

\* One panel is saved at a time, and shows what was sent.
PanelIsSaved(w) ==
    /\ panel # None /\ panel.alloc = w.alloc
    /\ [panel.class EXCEPT !.head = SalesHead] = w.class
SaveIsAlone ==
    /\ \A s, r \in Slots : IsSave(wire[s]) /\ IsSave(wire[r]) => s = r
    /\ allocating <=> \E s \in Slots : IsSave(wire[s])
    /\ \A s \in Slots : IsSave(wire[s]) => PanelIsSaved(wire[s])

Agrees(t) == Shown(grid[t]) = [class |-> bank[t], alloc |-> salesAlloc[t]]
AllAgree == grid # None => \A t \in Transactions : Agrees(t)

\* What an undisturbed screen waits for, and what it shows meanwhile.
EditIsShown(w) ==
    /\ \A t \in Transactions \ {w.of} : Agrees(t)
    /\ grid[w.of].class = w.class
    /\ grid[w.of].alloc = salesAlloc[w.of]
    /\ Links(salesAlloc[w.of]) # {} => w.class.number = Links(salesAlloc[w.of])
PutIsAwaited(w) ==
    /\ w.mine
    /\ w.kind = "edit" /\ w.status = "sent" => grid # None /\ EditIsShown(w)
    /\ w.kind = "edit" /\ w.status = "stored" => AllAgree
    /\ w.kind = "save" /\ w.status # "stored" => AllAgree
FetchIsAwaited(w) ==
    /\ w.status = "read" => w.classes = bank
    /\ w.status = "complete" =>
          w.rows = [t \in Transactions |-> [class |-> bank[t], alloc |-> salesAlloc[t]]]
Undisturbed ==
    /\ \A s, r \in Slots : wire[s] # None /\ wire[r] # None => s = r
    /\ \A s \in Slots : /\ IsPut(wire[s]) => PutIsAwaited(wire[s])
                        /\ IsFetch(wire[s]) => FetchIsAwaited(wire[s])
    /\ (\A s \in Slots : wire[s] = None) => AllAgree

GridInv ==
    /\ GridTypeOK /\ RowsAreSound /\ RequestsAreSound /\ SaveIsAlone
    /\ ~disturbed => Undisturbed

LEMMA BankHolds ==
  ASSUME GridInv
  PROVE  /\ bank \in [Transactions -> BankRow]
         /\ salesAlloc \in [Transactions -> Allocation]
         /\ grid # None => grid \in [Transactions -> GridRow]
         /\ panel # None => panel \in Panel
         /\ wire \in [Slots -> Put \cup Fetch \cup {None}]
         /\ allocating \in BOOLEAN /\ disturbed \in BOOLEAN
  BY DEF GridInv, GridTypeOK, RowsAreSound, TypeOK, Allocation

\* What is in a slot is a PUT, a fetch or nothing.
LEMMA RequestKinds ==
  ASSUME NEW w \in Put \cup Fetch \cup {None}
  PROVE  /\ IsPut(w) <=> w \in Put
         /\ IsFetch(w) <=> w \in Fetch
         /\ IsSave(w) => w \in Put
  <1>1. \A x \in Put : x # None /\ x.kind \in {"edit", "save"}
    BY GridAssumption DEF Put
  <1>2. \A x \in Fetch : x # None /\ x.kind = "rows"
    BY GridAssumption DEF Fetch
  <1> QED
    BY <1>1, <1>2 DEF IsPut, IsFetch, IsSave

LEMMA SlotsHold ==
  ASSUME GridInv, NEW s \in Slots
  PROVE  /\ s \in Free <=> wire[s] = None
         /\ s \in PutsUnderWay <=> IsPut(wire[s])
         /\ s \notin Free \cup PutsUnderWay <=> IsFetch(wire[s])
  BY BankHolds DEF Free, PutsUnderWay, IsPut, IsFetch

\* Two rows of the bank are the same when their fields are.
LEMMA SameClass ==
  ASSUME NEW class \in BankRow, NEW row \in BankRow,
         class.head = row.head, class.sub = row.sub, class.number = row.number,
         class.partner = row.partner
  PROVE  class = row
  BY DEF BankRow

LEMMA ShownClass ==
  ASSUME NEW row \in GridRow
  PROVE  /\ Shown(row).class \in BankRow
         /\ Shown(row).class.head = row.class.head
         /\ Shown(row).class.sub = SubText(row.class)
         /\ Shown(row).class.number = row.class.number
         /\ Shown(row).class.partner = row.class.partner
         /\ Shown(row).alloc = row.alloc
  <1>1. row.class \in BankRow
    BY DEF GridRow
  <1>2. SubText(row.class) \in Subs \cup Partners
    BY <1>1 DEF SubText, BankRow
  <1>3. Shown(row) = [class |-> [row.class EXCEPT !.sub = SubText(row.class)], alloc |-> row.alloc]
    BY DEF Shown, SubText
  <1>4. \A sub \in Subs \cup Partners : LET class == [row.class EXCEPT !.sub = sub] IN
           /\ class \in BankRow /\ class.head = row.class.head /\ class.sub = sub
           /\ class.number = row.class.number /\ class.partner = row.class.partner
    BY <1>1 DEF BankRow
  <1>5. Shown(row).class = [row.class EXCEPT !.sub = SubText(row.class)] /\ Shown(row).alloc = row.alloc
    BY <1>3
  <1> QED
    BY <1>2, <1>4, <1>5

\* When a row of the grid shows what is stored.
LEMMA AgreesMeans ==
  ASSUME NEW row \in GridRow, NEW stored \in BankRow, NEW allocations \in Allocation
  PROVE  Shown(row) = [class |-> stored, alloc |-> allocations] <=>
            /\ row.class.head = stored.head /\ SubText(row.class) = stored.sub
            /\ row.class.number = stored.number /\ row.class.partner = stored.partner
            /\ row.alloc = allocations
  <1>1. ASSUME Shown(row) = [class |-> stored, alloc |-> allocations]
        PROVE  Shown(row).class = stored /\ Shown(row).alloc = allocations
    BY <1>1
  <1>2. ASSUME Shown(row).class = stored, Shown(row).alloc = allocations
        PROVE  Shown(row) = [class |-> stored, alloc |-> allocations]
    BY <1>2 DEF Shown
  <1>3. Shown(row).class = stored <=>
            /\ row.class.head = stored.head /\ SubText(row.class) = stored.sub
            /\ row.class.number = stored.number /\ row.class.partner = stored.partner
    BY ShownClass, SameClass
  <1> QED
    BY <1>1, <1>2, <1>3, ShownClass

LEMMA StoredClass ==
  ASSUME NEW class \in BankRow, WellFormed(class), NEW old \in Allocation, NEW chosen \in SUBSET Invoices
  PROVE  /\ StoredRow(class, old, chosen) \in BankRow
         /\ Saved(StoredRow(class, old, chosen))
         /\ StoredRow(class, old, chosen).head = class.head
         /\ StoredRow(class, old, chosen).sub = SubText(class)
         /\ StoredRow(class, old, chosen).number = NumberText(class, old, chosen)
         /\ StoredRow(class, old, chosen).partner = class.partner
  <1>1. SubText(class) \in Subs \cup Partners
    BY DEF SubText, BankRow
  <1>2. NumberText(class, old, chosen) \in Text \cup SUBSET Invoices
    BY DEF NumberText, BankRow, Text
  <1>3. \A sub \in Subs \cup Partners, number \in Text \cup SUBSET Invoices :
           LET row == [class EXCEPT !.number = number, !.sub = sub] IN
           /\ row \in BankRow /\ row.head = class.head /\ row.sub = sub
           /\ row.number = number /\ row.partner = class.partner
    BY DEF BankRow
  <1> DEFINE row == StoredRow(class, old, chosen)
  <1>4. /\ row \in BankRow /\ row.head = class.head /\ row.sub = SubText(class)
        /\ row.number = NumberText(class, old, chosen) /\ row.partner = class.partner
    BY <1>1, <1>2, <1>3 DEF StoredRow
  <1> HIDE DEF row
  <1>5. Saved(row)
    BY <1>4 DEF Saved, WellFormed, SubText, SalesHeads
  <1> QED
    BY <1>4, <1>5 DEF row

LEMMA SavedIsShown == \A class \in BankRow : Saved(class) => SubText(class) = class.sub /\ WellFormed(class)
  BY DEF Saved, SubText, WellFormed, SalesHeads

\* What an edit makes of a row may be stored, and keeps its text of invoices.
LEMMA EditedClass ==
  ASSUME NEW class \in BankRow, WellFormed(class), NEW edited \in Edits(class)
  PROVE  /\ edited \in BankRow /\ WellFormed(edited) /\ edited.number = class.number
  <1>1. ASSUME NEW head \in Heads, edited = AfterHead([class EXCEPT !.head = head])
        PROVE  /\ edited \in BankRow /\ WellFormed(edited) /\ edited.number = class.number
    <2> DEFINE moved == [class EXCEPT !.head = head]
    <2>1. moved \in BankRow /\ moved.head = head /\ moved.number = class.number
      BY DEF BankRow
    <2>2. edited = [moved EXCEPT !.partner = IF head = SalesHead THEN @ ELSE None]
      BY <1>1, <2>1 DEF AfterHead, WithoutPartner
    <2> HIDE DEF moved
    <2> QED
      BY <2>1, <2>2 DEF BankRow, WellFormed
  <1>2. ASSUME class.head \notin SalesHeads, NEW sub \in Subs, edited = [class EXCEPT !.sub = sub]
        PROVE  /\ edited \in BankRow /\ WellFormed(edited) /\ edited.number = class.number
    BY <1>2 DEF BankRow, WellFormed
  <1>3. ASSUME class.head = SalesHead, NEW p \in Partners \cup {None}, edited = [class EXCEPT !.partner = p]
        PROVE  /\ edited \in BankRow /\ WellFormed(edited) /\ edited.number = class.number
    BY <1>3 DEF BankRow, WellFormed
  <1> QED
    BY <1>1, <1>2, <1>3 DEF Edits

\* A request that is sent takes a free slot.
LEMMA SentPut ==
  ASSUME GridInv, NEW put, SendPut(put)
  PROVE  /\ \E s \in Slots : wire[s] = None /\ wire' = [wire EXCEPT ![s] = put]
         /\ puts' \in 0 .. MaxPuts
         /\ disturbed' \in BOOLEAN
         /\ ~disturbed' => ~disturbed /\ \A s \in Slots : wire[s] = None
  <1>1. puts \in Nat /\ puts' = puts + 1 /\ puts < MaxPuts /\ MaxPuts \in Nat
    BY GridAssumption DEF SendPut, GridInv, GridTypeOK
  <1>2. puts' \in 0 .. MaxPuts
    BY <1>1
  <1> QED
    BY <1>2, BankHolds DEF SendPut, Free, Quiet

LEMMA NewFetchType == NewFetch \in Fetch /\ NewFetch.status = "sent" /\ NewFetch # None
  BY GridAssumption DEF NewFetch, Fetch

\* Fetching instead of the request in s is undisturbed when that was alone.
LEMMA FetchAlone ==
  ASSUME GridInv, NEW s \in Slots, wire[s] # None, FetchTransactions(s)
  PROVE  /\ wire' = [wire EXCEPT ![s] = NewFetch]
         /\ disturbed' \in BOOLEAN
         /\ ~disturbed' => \A r \in Slots \ {s} : wire[r] = None
  BY DEF FetchTransactions, Free

---------------------------------------------------------------------------
(* The parts of the invariant that a step leaves as they are *)

LEMMA SoundAfter ==
  ASSUME GridInv, NEW s \in Slots, NEW w \in Put \cup Fetch \cup {None},
         wire' = [wire EXCEPT ![s] = w],
         IsPut(w) => PutIsSound(w), IsFetch(w) => FetchIsSound(w)
  PROVE  RequestsAreSound' /\ wire' \in [Slots -> Put \cup Fetch \cup {None}]
  BY BankHolds DEF GridInv, RequestsAreSound

LEMMA SaveAfter ==
  ASSUME GridInv, NEW s \in Slots, NEW w, wire' = [wire EXCEPT ![s] = w],
         ~IsSave(wire[s]), ~IsSave(w), UNCHANGED <<panel, allocating>>
  PROVE  SaveIsAlone'
  <1>1. \A r \in Slots : IsSave(wire'[r]) <=> IsSave(wire[r])
    BY BankHolds
  <1>2. \A r \in Slots : IsSave(wire[r]) => wire'[r] = wire[r]
    BY BankHolds
  <1> QED
    BY <1>1, <1>2 DEF GridInv, SaveIsAlone, PanelIsSaved

LEMMA AwaitedAfter ==
  ASSUME GridInv, NEW s \in Slots, NEW w, wire' = [wire EXCEPT ![s] = w],
         \A r \in Slots \ {s} : wire[r] = None,
         IsPut(w) => PutIsAwaited(w)', IsFetch(w) => FetchIsAwaited(w)',
         w = None => AllAgree'
  PROVE  Undisturbed'
  <1>1. wire'[s] = w /\ \A r \in Slots \ {s} : wire'[r] = None
    BY BankHolds
  <1>2. ~IsPut(None) /\ ~IsFetch(None)
    BY DEF IsPut, IsFetch
  <1>3. \A r \in Slots : IsPut(wire'[r]) => r = s
    BY <1>1, <1>2
  <1>4. \A r \in Slots : IsFetch(wire'[r]) => r = s
    BY <1>1, <1>2
  <1>5. ASSUME NEW r \in Slots, IsPut(wire'[r]) PROVE PutIsAwaited(wire[r])'
    <2>1. r = s /\ wire'[r] = w
      BY <1>1, <1>3, <1>5
    <2> QED
      BY <1>5, <2>1 DEF PutIsAwaited, EditIsShown
  <1>6. ASSUME NEW r \in Slots, IsFetch(wire'[r]) PROVE FetchIsAwaited(wire[r])'
    <2>1. r = s /\ wire'[r] = w
      BY <1>1, <1>4, <1>6
    <2> QED
      BY <1>6, <2>1 DEF FetchIsAwaited
  <1>7. \A r, q \in Slots : wire'[r] # None /\ wire'[q] # None => r = q
    BY <1>1
  <1>8. (\A r \in Slots : wire'[r] = None) => AllAgree'
    BY <1>1
  <1> QED
    BY <1>5, <1>6, <1>7, <1>8 DEF Undisturbed

\* A request that is not disturbed is the only one.
LEMMA Alone ==
  ASSUME GridInv, ~disturbed, NEW s \in Slots, wire[s] # None
  PROVE  /\ \A r \in Slots \ {s} : wire[r] = None
         /\ IsPut(wire[s]) => PutIsAwaited(wire[s])
         /\ IsFetch(wire[s]) => FetchIsAwaited(wire[s])
  BY DEF GridInv, Undisturbed

---------------------------------------------------------------------------
(* The server *)

LEMMA AllocationStored ==
  ASSUME GridInv, NEW put \in Put, PutIsSound(put), put.status = "sent",
         AllocateTransaction(put.of, put.class, put.alloc)
  PROVE  /\ bank' \in [Transactions -> BankRow]
         /\ salesAlloc' \in [Transactions -> Allocation]
         /\ \A t \in Transactions \ {put.of} : bank'[t] = bank[t] /\ salesAlloc'[t] = salesAlloc[t]
         /\ put.alloc = None => salesAlloc'[put.of] = salesAlloc[put.of]
         /\ Saved(bank'[put.of])
         /\ bank'[put.of].head = put.class.head
         /\ bank'[put.of].sub = SubText(put.class)
         /\ bank'[put.of].partner = put.class.partner
         /\ bank'[put.of].number =
               NumberText(put.class, salesAlloc[put.of], Links(salesAlloc'[put.of]))
         /\ \A i \in Links(salesAlloc'[put.of]) : invoice[i].partner = put.class.partner
  <1> DEFINE t == put.of
             allocations == Requested(put.of, put.alloc)
             stored == StoredRow(put.class, salesAlloc[put.of], Links(allocations))
  <1>1. /\ put.class \in BankRow /\ WellFormed(put.class)
        /\ put.of \in Transactions /\ put.alloc \in Allocation \cup {None}
    BY DEF Put, PutIsSound
  <1>2. /\ allocations \in Allocation
        /\ put.alloc = None => allocations = salesAlloc[t]
        /\ salesAlloc[t] \in Allocation
    BY <1>1, BankHolds DEF Requested
  <1>3. Links(allocations) \in SUBSET Invoices
    BY <1>2 DEF Links, Allocation
  <1>4. /\ stored \in BankRow /\ Saved(stored)
        /\ stored.head = put.class.head /\ stored.sub = SubText(put.class)
        /\ stored.number = NumberText(put.class, salesAlloc[t], Links(allocations))
        /\ stored.partner = put.class.partner
    BY <1>1, <1>2, <1>3, StoredClass
  <1>5. /\ bank' = [bank EXCEPT ![t] = stored]
        /\ salesAlloc' = [salesAlloc EXCEPT ![t] = allocations]
    BY DEF AllocateTransaction
  <1>6. \A i \in Links(allocations) : invoice[i].partner = put.class.partner
    BY DEF AllocateTransaction, AcceptsAllocation, MayAllocate
  <1> HIDE DEF stored, allocations
  <1>7. /\ bank' \in [Transactions -> BankRow] /\ bank'[t] = stored
        /\ salesAlloc' \in [Transactions -> Allocation] /\ salesAlloc'[t] = allocations
        /\ \A r \in Transactions \ {t} : bank'[r] = bank[r] /\ salesAlloc'[r] = salesAlloc[r]
    BY <1>1, <1>2, <1>4, <1>5, BankHolds
  <1> QED
    BY <1>2, <1>4, <1>6, <1>7

\* What the server leaves of a PUT for the screen.
LEMMA PutIsServed ==
  ASSUME GridInv, NEW s \in Slots, ServePut(s)
  PROVE  /\ wire[s] \in Put /\ wire[s].status = "sent" /\ PutIsSound(wire[s])
         /\ \E w \in Put \cup {None} :
               /\ wire' = [wire EXCEPT ![s] = w]
               /\ w = None <=> ~wire[s].mine
               /\ w # None => /\ w.kind = wire[s].kind /\ w.of = wire[s].of
                              /\ w.alloc = wire[s].alloc /\ w.mine
                              /\ w.class = IF wire[s].kind = "edit" THEN None ELSE wire[s].class
               /\ \/ /\ AllocateTransaction(wire[s].of, wire[s].class, wire[s].alloc)
                     /\ w # None => w.status = "stored"
                  \/ /\ UNCHANGED <<bank, invoice, salesAlloc, bill, link, billAlloc, partyCache>>
                     /\ w # None => w.status = "refused"
  <1>1. s \in PutsUnderWay /\ wire[s].status = "sent"
    BY DEF ServePut
  <1>2. wire[s] \in Put /\ PutIsSound(wire[s])
    BY <1>1, SlotsHold, RequestKinds, BankHolds DEF GridInv, RequestsAreSound
  <1> DEFINE put == wire[s]
             kept(status) == IF ~put.mine THEN None
                             ELSE [put EXCEPT !.status = status,
                                              !.class = IF put.kind = "edit" THEN None ELSE @]
  <1>3. ASSUME NEW p \in Put, NEW status \in {"stored", "refused"}
        PROVE  LET w == [p EXCEPT !.status = status, !.class = IF p.kind = "edit" THEN None ELSE @]
               IN  /\ w \in Put /\ w.kind = p.kind /\ w.of = p.of /\ w.alloc = p.alloc
                   /\ w.mine = p.mine /\ w.status = status
                   /\ w.class = IF p.kind = "edit" THEN None ELSE p.class
    BY DEF Put
  <1>4. \A p \in Put : p # None /\ p.mine \in BOOLEAN
    BY GridAssumption DEF Put
  <1>5. ASSUME NEW status \in {"stored", "refused"}
        PROVE  /\ kept(status) \in Put \cup {None}
               /\ kept(status) = None <=> ~put.mine
               /\ kept(status) # None =>
                     /\ kept(status).kind = put.kind /\ kept(status).of = put.of
                     /\ kept(status).alloc = put.alloc /\ kept(status).mine
                     /\ kept(status).status = status
                     /\ kept(status).class = IF put.kind = "edit" THEN None ELSE put.class
    <2>1. CASE ~put.mine
      BY <2>1
    <2>2. CASE put.mine
      <3> DEFINE w == [put EXCEPT !.status = status, !.class = IF put.kind = "edit" THEN None ELSE @]
      <3>1. /\ w \in Put /\ w.kind = put.kind /\ w.of = put.of /\ w.alloc = put.alloc
            /\ w.mine = put.mine /\ w.status = status
            /\ w.class = IF put.kind = "edit" THEN None ELSE put.class
        BY <1>2, <1>3
      <3>2. kept(status) = w
        BY <2>2
      <3> HIDE DEF w, kept, put
      <3> QED
        BY <1>4, <2>2, <3>1, <3>2
    <2> QED
      BY <2>1, <2>2
  <1>6. \/ /\ AllocateTransaction(put.of, put.class, put.alloc)
           /\ wire' = [wire EXCEPT ![s] = kept("stored")]
        \/ /\ wire' = [wire EXCEPT ![s] = kept("refused")]
           /\ UNCHANGED <<bank, invoice, salesAlloc, bill, link, billAlloc, partyCache>>
    BY DEF ServePut
  <1> HIDE DEF kept
  <1>7. \E w \in Put \cup {None} :
           /\ wire' = [wire EXCEPT ![s] = w]
           /\ w = None <=> ~put.mine
           /\ w # None => /\ w.kind = put.kind /\ w.of = put.of /\ w.alloc = put.alloc /\ w.mine
                          /\ w.class = IF put.kind = "edit" THEN None ELSE put.class
           /\ \/ /\ AllocateTransaction(put.of, put.class, put.alloc)
                 /\ w # None => w.status = "stored"
              \/ /\ UNCHANGED <<bank, invoice, salesAlloc, bill, link, billAlloc, partyCache>>
                 /\ w # None => w.status = "refused"
    BY <1>5, <1>6
  <1> QED
    BY <1>1, <1>2, <1>7

LEMMA ServePutKeeps == ASSUME GridInv, NEW s \in Slots, ServePut(s) PROVE GridInv'
  <1> PICK w \in Put \cup {None} :
          /\ wire' = [wire EXCEPT ![s] = w]
          /\ w = None <=> ~wire[s].mine
          /\ w # None => /\ w.kind = wire[s].kind /\ w.of = wire[s].of
                         /\ w.alloc = wire[s].alloc /\ w.mine
                         /\ w.class = IF wire[s].kind = "edit" THEN None ELSE wire[s].class
          /\ \/ /\ AllocateTransaction(wire[s].of, wire[s].class, wire[s].alloc)
                /\ w # None => w.status = "stored"
             \/ /\ UNCHANGED <<bank, invoice, salesAlloc, bill, link, billAlloc, partyCache>>
                /\ w # None => w.status = "refused"
    BY PutIsServed
  <1>1. wire[s] \in Put /\ wire[s].status = "sent" /\ PutIsSound(wire[s])
    BY PutIsServed
  <1>2. /\ UNCHANGED <<server, grid, panel, allocating, puts, disturbed>>
        /\ UNCHANGED <<invoice, bill, link, billAlloc, partyCache>>
    BY DEF ServePut, screenVars, AllocateTransaction
  <1>3. w # None => IsPut(w) /\ w.kind \in {"edit", "save"}
    BY RequestKinds DEF Put
  <1>4. w # None => PutIsSound(w)
    BY <1>1, <1>3 DEF PutIsSound
  <1>5. RequestsAreSound' /\ wire' \in [Slots -> Put \cup Fetch \cup {None}]
    <2>1. ~IsFetch(w)
      BY <1>3 DEF IsPut, IsFetch
    <2> QED
      BY <1>4, <2>1, SoundAfter DEF IsPut
  <1>6. IsPut(wire[s]) /\ wire[s].of \in Transactions
    BY <1>1, RequestKinds DEF Put
  <1>7. IsSave(w) <=> IsSave(wire[s])
    BY <1>3, <1>6 DEF IsSave, IsPut
  <1>8. IsSave(w) => (PanelIsSaved(w) <=> PanelIsSaved(wire[s]))
    BY <1>3 DEF IsSave, IsPut, PanelIsSaved
  <1>9. SaveIsAlone'
    <2>1. \A r \in Slots : IsSave(wire'[r]) <=> IsSave(wire[r])
      BY <1>7, BankHolds
    <2>2. \A r \in Slots : IsSave(wire[r]) => PanelIsSaved(wire'[r])
      BY <1>7, <1>8, BankHolds DEF GridInv, SaveIsAlone
    <2>3. \A r \in Slots : IsSave(wire'[r]) => PanelIsSaved(wire[r])'
      BY <1>2, <2>1, <2>2 DEF PanelIsSaved
    <2> QED
      BY <1>2, <2>1, <2>3 DEF GridInv, SaveIsAlone
  <1>10. CASE UNCHANGED <<bank, salesAlloc>> /\ (w # None => w.status = "refused")
    <2>1. TypeOK'
      BY <1>2, <1>10 DEF GridInv, GridTypeOK, TypeOK
    <2>2. GridTypeOK'
      BY <1>2, <1>5, <2>1 DEF GridInv, GridTypeOK
    <2>3. RowsAreSound'
      BY <1>2, <1>10 DEF GridInv, RowsAreSound
    <2>4. ASSUME ~disturbed PROVE Undisturbed'
      <3>1. (\A r \in Slots \ {s} : wire[r] = None) /\ PutIsAwaited(wire[s])
        BY <1>6, <2>4, Alone DEF IsPut
      <3>2. w # None
        BY <3>1 DEF PutIsAwaited
      <3>3. AllAgree' <=> AllAgree
        BY <1>2, <1>10 DEF AllAgree, Agrees
      <3>4. PutIsAwaited(w)'
        BY <1>1, <1>2, <1>10, <3>1, <3>2, <3>3 DEF PutIsAwaited
      <3> QED
        BY <1>3, <3>1, <3>2, <3>4, AwaitedAfter DEF IsPut, IsFetch
    <2> QED
      BY <1>2, <1>5, <1>9, <2>2, <2>3, <2>4 DEF GridInv
  <1>11. CASE /\ AllocateTransaction(wire[s].of, wire[s].class, wire[s].alloc)
              /\ w # None => w.status = "stored"
    <2> PICK t \in Transactions : t = wire[s].of
      BY <1>6
    <2>1. /\ bank' \in [Transactions -> BankRow]
          /\ salesAlloc' \in [Transactions -> Allocation]
          /\ \A r \in Transactions \ {t} : bank'[r] = bank[r] /\ salesAlloc'[r] = salesAlloc[r]
          /\ wire[s].alloc = None => salesAlloc'[t] = salesAlloc[t]
          /\ Saved(bank'[t])
          /\ bank'[t].head = wire[s].class.head
          /\ bank'[t].sub = SubText(wire[s].class)
          /\ bank'[t].partner = wire[s].class.partner
          /\ bank'[t].number =
               NumberText(wire[s].class, salesAlloc[t], Links(salesAlloc'[t]))
          /\ \A i \in Links(salesAlloc'[t]) : invoice[i].partner = wire[s].class.partner
      BY <1>1, <1>11, AllocationStored
    <2>2. TypeOK'
      BY <1>2, <2>1 DEF GridInv, GridTypeOK, TypeOK, Allocation
    <2>3. GridTypeOK'
      BY <1>2, <1>5, <2>2 DEF GridInv, GridTypeOK
    <2>4. RowsAreSound'
      <3>1. \A r \in Transactions : bank'[r] \in BankRow /\ Saved(bank'[r])
        BY <2>1 DEF GridInv, RowsAreSound
      <3>2. ASSUME NEW r \in Transactions, Links(salesAlloc'[r]) # {}
            PROVE  /\ bank'[r].number = Links(salesAlloc'[r])
                   /\ \A i \in Links(salesAlloc'[r]) : invoice'[i].partner = bank'[r].partner
        <4>1. CASE r = t
          BY <1>2, <2>1, <3>2, <4>1 DEF NumberText
        <4>2. CASE r # t
          BY <1>2, <2>1, <3>2, <4>2 DEF GridInv, RowsAreSound
        <4> QED
          BY <4>1, <4>2
      <3>3. grid' # None => \A r \in Transactions : WellFormed(grid'[r].class)
        BY <1>2 DEF GridInv, RowsAreSound
      <3> QED
        BY <3>1, <3>2, <3>3 DEF RowsAreSound
    <2>5. ASSUME ~disturbed PROVE Undisturbed'
      <3>1. (\A r \in Slots \ {s} : wire[r] = None) /\ PutIsAwaited(wire[s])
        BY <1>6, <2>5, Alone DEF IsPut
      <3>2. w # None /\ w.status = "stored"
        BY <1>11, <3>1 DEF PutIsAwaited
      <3>3. ASSUME w.kind = "edit" PROVE AllAgree'
        <4>1. grid # None /\ EditIsShown(wire[s]) /\ wire[s].alloc = None
          BY <1>1, <3>1, <3>2, <3>3 DEF PutIsAwaited, PutIsSound
        <4>2. ASSUME NEW r \in Transactions \ {t} PROVE Agrees(r)'
          BY <1>2, <2>1, <4>1, <4>2 DEF EditIsShown, Agrees
        <4>3. Agrees(t)'
          <5>1. /\ grid[t].class = wire[s].class /\ grid[t].alloc = salesAlloc[t]
                /\ Links(salesAlloc[t]) # {} => wire[s].class.number = Links(salesAlloc[t])
            BY <4>1 DEF EditIsShown
          <5>2. NumberText(wire[s].class, salesAlloc[t], Links(salesAlloc'[t])) = wire[s].class.number
            BY <2>1, <4>1, <5>1 DEF NumberText
          <5>3. grid[t] \in GridRow /\ bank'[t] \in BankRow /\ salesAlloc'[t] \in Allocation
            BY <1>6, <2>1, <4>1, BankHolds
          <5>4. Shown(grid[t]) = [class |-> bank'[t], alloc |-> salesAlloc'[t]]
            BY <2>1, <4>1, <5>1, <5>2, <5>3, AgreesMeans
          <5> QED
            BY <1>2, <5>4 DEF Agrees
        <4> QED
          BY <4>2, <4>3 DEF AllAgree
      <3>4. PutIsAwaited(w)'
        BY <1>1, <1>2, <3>1, <3>2, <3>3 DEF PutIsAwaited
      <3> QED
        BY <1>3, <3>1, <3>2, <3>4, AwaitedAfter DEF IsPut, IsFetch
    <2> QED
      BY <1>2, <1>5, <1>9, <2>3, <2>4, <2>5 DEF GridInv
  <1> QED
    BY <1>10, <1>11

LEMMA ReadFetch ==
  ASSUME NEW fetch \in Fetch, NEW classes \in [Transactions -> BankRow]
  PROVE  LET w == [fetch EXCEPT !.status = "read", !.classes = classes]
         IN  w \in Fetch /\ w.status = "read" /\ w.classes = classes
  BY DEF Fetch

LEMMA CompleteFetch ==
  ASSUME NEW fetch \in Fetch, NEW rows \in [Transactions -> GridRow]
  PROVE  LET w == [fetch EXCEPT !.status = "complete", !.classes = None, !.rows = rows]
         IN  w \in Fetch /\ w.status = "complete" /\ w.rows = rows
  BY DEF Fetch

LEMMA ServeFetchKeeps == ASSUME GridInv, NEW s \in Slots, ServeFetch(s) PROVE GridInv'
  <1>1. IsFetch(wire[s]) /\ wire[s] \in Fetch /\ FetchIsSound(wire[s])
    BY SlotsHold, RequestKinds, BankHolds DEF ServeFetch, GridInv, RequestsAreSound
  <1>2. UNCHANGED <<server, bank, invoice, salesAlloc, bill, link, billAlloc, partyCache,
                    grid, panel, allocating, puts, disturbed>>
    BY DEF ServeFetch, ledger, screenVars
  <1>3. ASSUME NEW w \in Fetch, wire' = [wire EXCEPT ![s] = w], FetchIsSound(w),
               ~disturbed => FetchIsAwaited(w)
        PROVE  GridInv'
    <2>1. IsFetch(w) /\ ~IsPut(w) /\ w # None
      BY RequestKinds DEF IsFetch, IsPut
    <2>2. RequestsAreSound' /\ wire' \in [Slots -> Put \cup Fetch \cup {None}]
      BY <1>3, <2>1, SoundAfter
    <2>3. ~IsSave(w) /\ ~IsSave(wire[s])
      BY <1>1, <2>1 DEF IsSave, IsPut, IsFetch
    <2>4. SaveIsAlone'
      BY <1>2, <1>3, <2>3, SaveAfter
    <2>5. RowsAreSound' /\ GridTypeOK'
      BY <1>2, <2>2 DEF GridInv, RowsAreSound, GridTypeOK, TypeOK
    <2>6. ASSUME ~disturbed PROVE Undisturbed'
      <3>1. \A r \in Slots \ {s} : wire[r] = None
        BY <1>1, <2>6, Alone DEF IsFetch
      <3>2. FetchIsAwaited(w)'
        BY <1>2, <1>3, <2>6 DEF FetchIsAwaited
      <3> QED
        BY <1>3, <2>1, <3>1, <3>2, AwaitedAfter
    <2> QED
      BY <1>2, <2>2, <2>4, <2>5, <2>6 DEF GridInv
  <1>4. CASE /\ wire[s].status = "sent"
             /\ wire' = [wire EXCEPT ![s] = [wire[s] EXCEPT !.status = "read", !.classes = bank]]
    <2> DEFINE w == [wire[s] EXCEPT !.status = "read", !.classes = bank]
    <2>1. w \in Fetch /\ w.status = "read" /\ w.classes = bank
      BY <1>1, ReadFetch, BankHolds
    <2>2. wire' = [wire EXCEPT ![s] = w]
      BY <1>4
    <2> HIDE DEF w
    <2>3. bank # None
      BY BankHolds, GridAssumption
    <2>4. FetchIsSound(w) /\ FetchIsAwaited(w)
      BY <2>1, <2>3 DEF FetchIsSound, FetchIsAwaited, GridInv, RowsAreSound
    <2> QED
      BY <1>3, <2>1, <2>2, <2>4
  <1>5. CASE /\ wire[s].status = "read"
             /\ wire' = [wire EXCEPT ![s] = [wire[s] EXCEPT !.status = "complete", !.classes = None,
                  !.rows = [t \in Transactions |->
                      [class |-> wire[s].classes[t], alloc |-> salesAlloc[t]]]]]
    <2> DEFINE rows == [t \in Transactions |-> [class |-> wire[s].classes[t], alloc |-> salesAlloc[t]]]
               w == [wire[s] EXCEPT !.status = "complete", !.classes = None, !.rows = rows]
    <2>1. /\ wire[s].classes \in [Transactions -> BankRow]
          /\ \A t \in Transactions : Saved(wire[s].classes[t])
      BY <1>1, <1>5 DEF Fetch, FetchIsSound
    <2>2. rows \in [Transactions -> GridRow]
      BY <2>1, BankHolds DEF GridRow
    <2>3. w \in Fetch /\ w.status = "complete" /\ w.rows = rows
      BY <1>1, <2>2, CompleteFetch
    <2>4. wire' = [wire EXCEPT ![s] = w]
      BY <1>5
    <2>5. rows # None /\ \A t \in Transactions : rows[t].class = wire[s].classes[t]
      BY <2>2, GridAssumption
    <2>6. ~disturbed => wire[s].classes = bank
      BY <1>1, <1>5, Alone DEF FetchIsAwaited, IsFetch
    <2>7. ~disturbed => rows = [t \in Transactions |-> [class |-> bank[t], alloc |-> salesAlloc[t]]]
      BY <2>6
    <2> HIDE DEF w, rows
    <2>8. FetchIsSound(w) /\ (~disturbed => FetchIsAwaited(w))
      BY <2>1, <2>3, <2>5, <2>7 DEF FetchIsSound, FetchIsAwaited
    <2> QED
      BY <1>3, <2>3, <2>4, <2>8
  <1> QED
    BY <1>4, <1>5, BankHolds DEF ServeFetch

---------------------------------------------------------------------------
(* The screen *)

LEMMA ScreenKeeps ==
  ASSUME GridInv, UNCHANGED ledger,
         grid' \in [Transactions -> GridRow] \cup {None}, panel' \in Panel \cup {None},
         allocating' \in BOOLEAN, disturbed' \in BOOLEAN, puts' \in 0 .. MaxPuts,
         wire' \in [Slots -> Put \cup Fetch \cup {None}],
         grid' # None => \A t \in Transactions : WellFormed(grid'[t].class),
         RequestsAreSound', SaveIsAlone', ~disturbed' => Undisturbed'
  PROVE  GridInv'
  <1>1. GridTypeOK'
    BY DEF GridInv, GridTypeOK, TypeOK, ledger
  <1>2. RowsAreSound'
    BY DEF GridInv, RowsAreSound, ledger
  <1> QED
    BY <1>1, <1>2 DEF GridInv

LEMMA ScreenTypes ==
  ASSUME GridInv
  PROVE  /\ grid \in [Transactions -> GridRow] \cup {None}
         /\ panel \in Panel \cup {None}
         /\ puts \in 0 .. MaxPuts
         /\ grid # None => \A t \in Transactions : WellFormed(grid[t].class)
  BY DEF GridInv, GridTypeOK, RowsAreSound

LEMMA EditCellKeeps ==
  ASSUME GridInv, NEW t \in Transactions, NEW class \in EditsOf(t), EditCell(t, class)
  PROVE  GridInv'
  <1> DEFINE put == [kind |-> "edit", of |-> t, class |-> class, alloc |-> None,
                     mine |-> TRUE, status |-> "sent"]
  <1>1. /\ grid \in [Transactions -> GridRow] /\ grid[t].class \in BankRow
        /\ WellFormed(grid[t].class) /\ class \in Edits(grid[t].class)
    BY BankHolds, ScreenTypes DEF EditCell, EditsOf, GridRow
  <1>2. class \in BankRow /\ WellFormed(class) /\ class.number = grid[t].class.number
    BY <1>1, EditedClass
  <1>3. /\ put \in Put /\ put.kind = "edit" /\ put.status = "sent" /\ put.mine /\ put.of = t
        /\ put.class = class /\ put.alloc = None
    BY <1>2 DEF Put
  <1>4. SendPut(put) /\ UNCHANGED <<ledger, panel, allocating>>
    BY DEF EditCell
  <1>5. /\ grid' = [grid EXCEPT ![t].class = class]
        /\ grid' \in [Transactions -> GridRow]
        /\ \A r \in Transactions \ {t} : grid'[r] = grid[r]
        /\ grid'[t].class = class /\ grid'[t].alloc = grid[t].alloc
    BY <1>1, <1>2 DEF EditCell, GridRow
  <1> HIDE DEF put
  <1>6. PICK s \in Slots : wire[s] = None /\ wire' = [wire EXCEPT ![s] = put]
    BY <1>4, SentPut
  <1>7. /\ puts' \in 0 .. MaxPuts /\ disturbed' \in BOOLEAN
        /\ ~disturbed' => ~disturbed /\ \A r \in Slots : wire[r] = None
    BY <1>4, SentPut
  <1>8. IsPut(put) /\ ~IsFetch(put) /\ PutIsSound(put) /\ ~IsSave(put) /\ ~IsSave(wire[s]) /\ put # None
    <2>1. IsPut(put)
      BY <1>3, RequestKinds
    <2>2. class # None
      BY <1>2, NullAssumption
    <2> QED
      BY <1>2, <1>3, <1>6, <2>1, <2>2 DEF IsPut, IsFetch, IsSave, PutIsSound
  <1>9. RequestsAreSound' /\ wire' \in [Slots -> Put \cup Fetch \cup {None}]
    BY <1>3, <1>6, <1>8, SoundAfter
  <1>10. SaveIsAlone'
    BY <1>4, <1>6, <1>8, SaveAfter
  <1>11. \A r \in Transactions : WellFormed(grid'[r].class)
    BY <1>1, <1>2, <1>5, ScreenTypes DEF EditCell
  <1>12. ASSUME ~disturbed' PROVE Undisturbed'
    <2>1. AllAgree /\ grid # None
      BY <1>7, <1>12 DEF GridInv, Undisturbed, EditCell
    <2>2. /\ grid[t].class.number = bank[t].number
          /\ grid[t].alloc = salesAlloc[t]
      BY <1>1, <2>1, BankHolds, AgreesMeans DEF AllAgree, Agrees
    <2>3. UNCHANGED <<bank, salesAlloc>>
      BY <1>4 DEF ledger
    <2>4. ASSUME NEW r \in Transactions \ {t} PROVE Agrees(r)'
      BY <1>5, <2>1, <2>3, <2>4 DEF AllAgree, Agrees
    <2>5. Links(salesAlloc[t]) # {} => class.number = Links(salesAlloc[t])
      BY <1>2, <2>2 DEF GridInv, RowsAreSound
    <2>6. grid' # None
      BY <1>5, GridAssumption
    <2>7. EditIsShown(put)'
      <3>1. ASSUME NEW r \in Transactions \ {put'.of} PROVE Agrees(r)'
        BY <1>3, <2>4, <3>1 DEF put
      <3>2. put'.of = t /\ put'.class = class
        BY DEF put
      <3> QED
        BY <1>5, <2>2, <2>3, <2>5, <3>1, <3>2 DEF EditIsShown
    <2>8. PutIsAwaited(put)'
      BY <2>6, <2>7 DEF PutIsAwaited, put
    <2> QED
      BY <1>6, <1>7, <1>8, <1>12, <2>8, AwaitedAfter DEF put
  <1> QED
    BY <1>4, <1>5, <1>7, <1>9, <1>10, <1>11, <1>12, ScreenTypes, BankHolds, ScreenKeeps

LEMMA FetchKeeps ==
  ASSUME GridInv, NEW s \in Slots, wire[s] # None, FetchTransactions(s), UNCHANGED <<ledger, grid, puts>>,
         panel' \in Panel \cup {None}, allocating' \in BOOLEAN, SaveIsAlone'
  PROVE  GridInv'
  <1>1. /\ wire' = [wire EXCEPT ![s] = NewFetch] /\ disturbed' \in BOOLEAN
        /\ ~disturbed' => \A r \in Slots \ {s} : wire[r] = None
    BY FetchAlone
  <1>2. /\ NewFetch \in Fetch /\ IsFetch(NewFetch) /\ ~IsPut(NewFetch) /\ NewFetch # None
        /\ FetchIsSound(NewFetch)
    BY NewFetchType, RequestKinds DEF IsFetch, IsPut, FetchIsSound
  <1>3. RequestsAreSound' /\ wire' \in [Slots -> Put \cup Fetch \cup {None}]
    BY <1>1, <1>2, SoundAfter
  <1>4. FetchIsAwaited(NewFetch)'
    BY DEF FetchIsAwaited, NewFetch
  <1>5. ~disturbed' => Undisturbed'
    BY <1>1, <1>2, <1>4, AwaitedAfter
  <1> QED
    BY <1>1, <1>3, <1>5, ScreenTypes, ScreenKeeps

LEMMA EndKeeps ==
  ASSUME GridInv, NEW s \in Slots, wire[s] # None, End(s), UNCHANGED <<ledger, puts>>,
         grid' \in [Transactions -> GridRow] \cup {None}, panel' \in Panel \cup {None},
         allocating' \in BOOLEAN, disturbed' \in BOOLEAN, SaveIsAlone',
         grid' # None => \A t \in Transactions : WellFormed(grid'[t].class),
         ~disturbed' => ~disturbed /\ AllAgree'
  PROVE  GridInv'
  <1>1. wire' = [wire EXCEPT ![s] = None]
    BY DEF End
  <1>2. ~IsPut(None) /\ ~IsFetch(None)
    BY DEF IsPut, IsFetch
  <1>3. RequestsAreSound' /\ wire' \in [Slots -> Put \cup Fetch \cup {None}]
    BY <1>1, <1>2, SoundAfter
  <1>4. ~disturbed' => Undisturbed'
    BY <1>1, <1>2, Alone, AwaitedAfter
  <1> QED
    BY <1>3, <1>4, ScreenTypes, ScreenKeeps

\* What goes on without its screen is as it was sent.
LEMMA AbandonedIsSound ==
  ASSUME GridInv, NEW s \in Slots
  PROVE  /\ Abandoned(s) \in Put \cup {None}
         /\ Abandoned(s) # None => PutIsSound(Abandoned(s)) /\ ~Abandoned(s).mine
  <1>1. ASSUME NEW p \in Put, PutIsSound(p), p.status = "sent"
        PROVE  LET w == [p EXCEPT !.mine = FALSE]
               IN  w \in Put /\ PutIsSound(w) /\ ~w.mine
    BY <1>1 DEF Put, PutIsSound
  <1>2. CASE s \in PutsUnderWay /\ wire[s].status = "sent"
    <2>1. wire[s] \in Put /\ PutIsSound(wire[s])
      BY <1>2, SlotsHold, RequestKinds, BankHolds DEF GridInv, RequestsAreSound
    <2>2. Abandoned(s) = [wire[s] EXCEPT !.mine = FALSE]
      BY <1>2 DEF Abandoned
    <2> QED
      BY <1>1, <1>2, <2>1, <2>2
  <1> QED
    BY <1>2 DEF Abandoned

LEMMA EditAnsweredKeeps == ASSUME GridInv, NEW s \in Slots, EditAnswered(s) PROVE GridInv'
  <1>1. /\ IsPut(wire[s]) /\ wire[s].kind = "edit" /\ ~IsSave(wire[s]) /\ wire[s] # None
        /\ UNCHANGED <<ledger, grid, panel, allocating, puts>>
    BY SlotsHold DEF EditAnswered, IsSave, IsPut, screenVars
  <1>2. ~IsSave(None) /\ ~IsSave(NewFetch)
    BY DEF IsSave, IsPut, NewFetch
  <1>3. CASE wire[s].status = "stored" /\ End(s) /\ UNCHANGED disturbed
    <2>1. SaveIsAlone'
      BY <1>1, <1>2, <1>3, SaveAfter DEF End
    <2>2. ~disturbed => AllAgree
      BY <1>1, <1>3, Alone DEF PutIsAwaited
    <2>3. AllAgree <=> AllAgree'
      BY <1>1 DEF AllAgree, Agrees, ledger
    <2> QED
      BY <1>1, <1>3, <2>1, <2>2, <2>3, BankHolds, ScreenTypes, EndKeeps
  <1>4. CASE FetchTransactions(s)
    <2>1. SaveIsAlone'
      BY <1>1, <1>2, <1>4, SaveAfter DEF FetchTransactions
    <2> QED
      BY <1>1, <1>4, <2>1, BankHolds, ScreenTypes, FetchKeeps
  <1>5. ASSUME GoesOn(s), NEW f \in Free,
               wire' = [wire EXCEPT ![s] = Abandoned(s), ![f] = NewFetch]
        PROVE  GridInv'
    <2>1. /\ Abandoned(s) \in Put /\ IsPut(Abandoned(s)) /\ ~IsFetch(Abandoned(s))
          /\ PutIsSound(Abandoned(s)) /\ ~IsSave(Abandoned(s))
      BY <1>5, AbandonedIsSound, RequestKinds DEF GoesOn, IsSave, IsPut, IsFetch
    <2>2. NewFetch \in Fetch /\ ~IsPut(NewFetch) /\ FetchIsSound(NewFetch)
      BY NewFetchType, RequestKinds DEF IsFetch, IsPut, FetchIsSound
    <2>3. f \in Slots /\ wire[f] = None /\ f # s /\ ~IsSave(wire[f])
      BY <1>1, SlotsHold DEF Free, IsSave, IsPut
    <2>4. /\ wire' \in [Slots -> Put \cup Fetch \cup {None}]
          /\ wire'[s] = Abandoned(s) /\ wire'[f] = NewFetch
          /\ \A r \in Slots \ {s, f} : wire'[r] = wire[r]
      BY <1>5, <2>1, <2>2, <2>3, BankHolds
    <2>5. RequestsAreSound'
      BY <2>1, <2>2, <2>4 DEF GridInv, RequestsAreSound
    <2>6. \A r \in Slots : (IsSave(wire'[r]) <=> IsSave(wire[r])) /\ (IsSave(wire[r]) => wire'[r] = wire[r])
      BY <1>1, <1>2, <2>1, <2>3, <2>4
    <2>7. SaveIsAlone'
      BY <1>1, <2>6 DEF GridInv, SaveIsAlone, PanelIsSaved
    <2>8. disturbed' = TRUE
      BY <1>5 DEF GoesOn
    <2> QED
      BY <1>1, <2>4, <2>5, <2>7, <2>8, BankHolds, ScreenTypes, ScreenKeeps
  <1> QED
    BY <1>3, <1>4, <1>5 DEF EditAnswered, AfterEditError, FetchesAgain

LEMMA RowsAnsweredKeeps == ASSUME GridInv, NEW s \in Slots, RowsAnswered(s) PROVE GridInv'
  <1>1. /\ IsFetch(wire[s]) /\ wire[s] \in Fetch /\ ~IsSave(wire[s]) /\ wire[s] # None
        /\ End(s) /\ UNCHANGED <<ledger, panel, allocating, puts>>
    BY SlotsHold, RequestKinds, BankHolds DEF RowsAnswered, IsSave, IsPut, IsFetch
  <1>2. ~IsSave(None)
    BY DEF IsSave, IsPut
  <1>3. SaveIsAlone'
    BY <1>1, <1>2, SaveAfter DEF End
  <1>4. CASE wire[s].status = "complete" /\ grid' = wire[s].rows /\ UNCHANGED disturbed
    <2>1. FetchIsSound(wire[s])
      BY <1>1 DEF GridInv, RequestsAreSound
    <2>2. grid' \in [Transactions -> GridRow] /\ \A t \in Transactions : Saved(grid'[t].class)
      BY <1>1, <1>4, <2>1 DEF FetchIsSound, Fetch
    <2>3. \A t \in Transactions : WellFormed(grid'[t].class)
      BY <2>2 DEF Saved, WellFormed
    <2>4. ASSUME ~disturbed PROVE AllAgree'
      <3>1. grid' = [t \in Transactions |-> [class |-> bank[t], alloc |-> salesAlloc[t]]]
        BY <1>1, <1>4, <2>4, Alone DEF FetchIsAwaited
      <3>2. ASSUME NEW t \in Transactions PROVE Agrees(t)'
        <4>1. grid'[t] \in GridRow /\ grid'[t].class = bank[t] /\ grid'[t].alloc = salesAlloc[t]
          BY <2>2, <3>1
        <4>2. bank[t] \in BankRow /\ Saved(bank[t]) /\ salesAlloc[t] \in Allocation
          BY BankHolds DEF GridInv, RowsAreSound
        <4>3. Shown(grid'[t]) = [class |-> bank[t], alloc |-> salesAlloc[t]]
          BY <4>1, <4>2, SavedIsShown, AgreesMeans
        <4> QED
          BY <1>1, <4>3 DEF Agrees, ledger
      <3> QED
        BY <3>2 DEF AllAgree
    <2> QED
      BY <1>1, <1>3, <1>4, <2>2, <2>3, <2>4, BankHolds, ScreenTypes, EndKeeps
  <1>5. CASE disturbed' = TRUE /\ UNCHANGED grid
    BY <1>1, <1>3, <1>5, BankHolds, ScreenTypes, EndKeeps
  <1> QED
    BY <1>4, <1>5 DEF RowsAnswered

LEMMA SaveAnsweredKeeps == ASSUME GridInv, NEW s \in Slots, SaveAnswered(s) PROVE GridInv'
  <1>1. /\ IsSave(wire[s]) /\ IsPut(wire[s]) /\ wire[s].kind = "save" /\ wire[s] # None
        /\ UNCHANGED <<ledger, grid, puts>> /\ allocating' = FALSE
    BY SlotsHold DEF SaveAnswered, IsSave, IsPut
  <1>2. ~IsSave(None) /\ ~IsSave(NewFetch)
    BY DEF IsSave, IsPut, NewFetch
  <1>3. ASSUME NEW w, ~IsSave(w), wire' = [wire EXCEPT ![s] = w] PROVE SaveIsAlone'
    <2>1. \A r \in Slots \ {s} : ~IsSave(wire[r])
      BY <1>1 DEF GridInv, SaveIsAlone
    <2>2. \A r \in Slots : ~IsSave(wire'[r])
      BY <1>3, <2>1, BankHolds
    <2> QED
      BY <1>1, <2>2 DEF SaveIsAlone
  <1>4. CASE wire[s].status = "stored" /\ panel' = None /\ FetchTransactions(s)
    <2>1. SaveIsAlone'
      BY <1>2, <1>3, <1>4 DEF FetchTransactions
    <2> QED
      BY <1>1, <1>4, <2>1, FetchKeeps
  <1>5. CASE /\ End(s) /\ UNCHANGED panel
             /\ disturbed' = (disturbed \/ wire[s].status = "stored")
    <2>1. SaveIsAlone'
      BY <1>2, <1>3, <1>5 DEF End
    <2>2. disturbed' \in BOOLEAN
      BY <1>5, BankHolds
    <2>3. ASSUME ~disturbed' PROVE ~disturbed /\ AllAgree'
      <3>1. ~disturbed /\ wire[s].status # "stored"
        BY <1>5, <2>3
      <3>2. AllAgree
        BY <1>1, <3>1, Alone DEF PutIsAwaited
      <3>3. AllAgree <=> AllAgree'
        BY <1>1 DEF AllAgree, Agrees, ledger
      <3> QED
        BY <3>1, <3>2, <3>3
    <2> QED
      BY <1>1, <1>5, <2>1, <2>2, <2>3, ScreenTypes, EndKeeps
  <1>6. CASE GoesOn(s) /\ wire' = [wire EXCEPT ![s] = Abandoned(s)] /\ UNCHANGED panel
    <2>1. /\ Abandoned(s) \in Put /\ PutIsSound(Abandoned(s))
          /\ ~IsSave(Abandoned(s)) /\ ~IsFetch(Abandoned(s))
      BY <1>6, AbandonedIsSound, RequestKinds DEF GoesOn, IsSave, IsPut, IsFetch
    <2>2. SaveIsAlone'
      BY <1>3, <1>6, <2>1
    <2>3. RequestsAreSound' /\ wire' \in [Slots -> Put \cup Fetch \cup {None}]
      BY <1>6, <2>1, SoundAfter
    <2>4. disturbed' = TRUE
      BY <1>6 DEF GoesOn
    <2> QED
      BY <1>1, <1>6, <2>2, <2>3, <2>4, BankHolds, ScreenTypes, ScreenKeeps
  <1> QED
    BY <1>4, <1>5, <1>6 DEF SaveAnswered

\* The panel is edited while it is not saved.
LEMMA PanelKeeps ==
  ASSUME GridInv, ~allocating, panel' \in Panel \cup {None},
         UNCHANGED <<ledger, grid, allocating, wire, puts, disturbed>>
  PROVE  GridInv'
  <1>1. \A s \in Slots : ~IsSave(wire[s])
    BY DEF GridInv, SaveIsAlone
  <1>2. SaveIsAlone'
    BY <1>1 DEF GridInv, SaveIsAlone
  <1>3. RequestsAreSound'
    BY DEF GridInv, RequestsAreSound
  <1>4. AllAgree <=> AllAgree'
    BY DEF AllAgree, Agrees, ledger
  <1>5. Undisturbed => Undisturbed'
    BY <1>4 DEF Undisturbed, PutIsAwaited, FetchIsAwaited, EditIsShown, Agrees, ledger
  <1> QED
    BY <1>2, <1>3, <1>5, BankHolds, ScreenTypes, ScreenKeeps DEF GridInv

LEMMA PanelIsEdited ==
  ASSUME NEW class \in BankRow, NEW alloc \in Allocation, NEW t \in Transactions
  PROVE  /\ [of |-> t, class |-> class, alloc |-> alloc] \in Panel
         /\ [class EXCEPT !.head = SalesHead] \in BankRow
         /\ WellFormed([class EXCEPT !.head = SalesHead])
         /\ \A p \in Partners \cup {None} : [class EXCEPT !.partner = p] \in BankRow
  BY GridAssumption DEF Panel, BankRow, WellFormed

LEMMA OpenAllocationKeeps == ASSUME GridInv, NEW t \in Transactions, OpenAllocation(t) PROVE GridInv'
  <1>1. grid[t].class \in BankRow /\ grid[t].alloc \in Allocation
    BY BankHolds DEF OpenAllocation, GridRow
  <1> QED
    BY <1>1, PanelIsEdited, PanelKeeps DEF OpenAllocation

LEMMA EditPanelKeeps == ASSUME GridInv, EditPanel PROVE GridInv'
  <1>1. panel \in Panel /\ panel.class \in BankRow
    BY BankHolds DEF EditPanel, Panel
  <1>2. ASSUME NEW p \in Partners \cup {None},
               panel' = [panel EXCEPT !.class.partner = p, !.alloc = Nothing(Invoices)]
        PROVE  panel' \in Panel
    <2>1. [panel.class EXCEPT !.partner = p] \in BankRow
      BY <1>1 DEF BankRow
    <2>2. Nothing(Invoices) \in Allocation
      BY AmountAssumption DEF Nothing, Allocation
    <2>3. panel' = [panel EXCEPT !.class = [panel.class EXCEPT !.partner = p], !.alloc = Nothing(Invoices)]
      BY <1>1, <1>2 DEF Panel
    <2> QED
      BY <1>1, <2>1, <2>2, <2>3 DEF Panel
  <1>3. ASSUME NEW i \in Invoices, NEW amount \in Amounts, panel' = [panel EXCEPT !.alloc[i] = amount]
        PROVE  panel' \in Panel
    <2>1. [panel.alloc EXCEPT ![i] = amount] \in Allocation
      BY <1>1 DEF Panel, Allocation
    <2>2. panel' = [panel EXCEPT !.alloc = [panel.alloc EXCEPT ![i] = amount]]
      BY <1>1, <1>3 DEF Panel
    <2> QED
      BY <1>1, <2>1, <2>2 DEF Panel
  <1>4. panel' \in Panel
    BY <1>2, <1>3 DEF EditPanel, AvailableInvoices
  <1> QED
    BY <1>4, PanelKeeps DEF EditPanel

LEMMA CancelPanelKeeps == ASSUME GridInv, CancelPanel PROVE GridInv'
  BY PanelKeeps DEF CancelPanel

LEMMA SaveAllocationsKeeps == ASSUME GridInv, SaveAllocations PROVE GridInv'
  <1> DEFINE class == [panel.class EXCEPT !.head = SalesHead]
             put == [kind |-> "save", of |-> panel.of, class |-> class,
                     alloc |-> panel.alloc, mine |-> TRUE, status |-> "sent"]
  <1>1. /\ panel \in Panel /\ panel # None /\ ~allocating /\ allocating' = TRUE
        /\ SendPut(put) /\ UNCHANGED <<ledger, grid, panel>>
    BY BankHolds DEF SaveAllocations
  <1>2. /\ panel.of \in Transactions /\ panel.class \in BankRow /\ panel.alloc \in Allocation
        /\ class \in BankRow /\ WellFormed(class)
    BY <1>1, PanelIsEdited DEF Panel
  <1>3. class # None /\ panel.alloc # None
    BY <1>2, NullAssumption DEF Allocation
  <1> HIDE DEF class
  <1>4. /\ put \in Put /\ put.kind = "save" /\ put.status = "sent" /\ put.mine
        /\ put.class = class /\ put.alloc = panel.alloc
    BY <1>2 DEF Put
  <1>5. IsPut(put) /\ IsSave(put) /\ ~IsFetch(put) /\ PutIsSound(put) /\ put # None
    <2>1. IsPut(put)
      BY <1>4, RequestKinds
    <2> QED
      BY <1>2, <1>3, <1>4, <2>1 DEF IsPut, IsSave, IsFetch, PutIsSound
  <1>6. panel.alloc = put.alloc /\ [panel.class EXCEPT !.head = SalesHead] = put.class
    BY <1>4 DEF class
  <1> HIDE DEF put
  <1>7. PICK s \in Slots : wire[s] = None /\ wire' = [wire EXCEPT ![s] = put]
    BY <1>1, SentPut
  <1>8. /\ puts' \in 0 .. MaxPuts /\ disturbed' \in BOOLEAN
        /\ ~disturbed' => ~disturbed /\ \A r \in Slots : wire[r] = None
    BY <1>1, SentPut
  <1>9. RequestsAreSound' /\ wire' \in [Slots -> Put \cup Fetch \cup {None}]
    BY <1>4, <1>5, <1>7, SoundAfter
  <1>10. SaveIsAlone'
    <2>1. \A r \in Slots : ~IsSave(wire[r])
      BY <1>1 DEF GridInv, SaveIsAlone
    <2>2. \A r \in Slots : IsSave(wire'[r]) <=> r = s
      BY <1>5, <1>7, <2>1, BankHolds
    <2>3. wire'[s] = put
      BY <1>7, BankHolds
    <2>4. PanelIsSaved(wire[s])'
      BY <1>1, <1>6, <2>3 DEF PanelIsSaved
    <2> QED
      BY <1>1, <2>2, <2>4 DEF SaveIsAlone, PanelIsSaved
  <1>11. ASSUME ~disturbed' PROVE Undisturbed'
    <2>1. PICK w : w = put
      OBVIOUS
    <2>2. AllAgree
      BY <1>8, <1>11 DEF GridInv, Undisturbed
    <2>3. AllAgree <=> AllAgree'
      BY <1>1 DEF AllAgree, Agrees, ledger
    <2>4. PutIsAwaited(w)'
      BY <1>1, <1>4, <2>1, <2>2, <2>3 DEF PutIsAwaited
    <2> QED
      BY <1>5, <1>7, <1>8, <1>11, <2>1, <2>4, AwaitedAfter
  <1> QED
    BY <1>1, <1>8, <1>9, <1>10, <1>11, ScreenTypes, ScreenKeeps

LEMMA VisitKeeps == ASSUME GridInv, Visit PROVE GridInv'
  <1>1. PICK s \in Slots :
          /\ wire' = [r \in Slots |-> IF r = s THEN NewFetch ELSE Abandoned(r)]
          /\ disturbed' = (\E r \in Slots : Abandoned(r) # None)
    BY DEF Visit
  <1>3. ASSUME NEW r \in Slots
        PROVE  /\ Abandoned(r) \in Put \cup {None}
               /\ Abandoned(r) # None => PutIsSound(Abandoned(r)) /\ ~Abandoned(r).mine
    BY AbandonedIsSound
  <1>4. NewFetch \in Fetch /\ IsFetch(NewFetch) /\ ~IsPut(NewFetch) /\ FetchIsSound(NewFetch)
    BY NewFetchType, RequestKinds DEF IsFetch, IsPut, FetchIsSound
  <1>5. /\ wire' \in [Slots -> Put \cup Fetch \cup {None}]
        /\ wire'[s] = NewFetch
        /\ \A r \in Slots \ {s} : wire'[r] = Abandoned(r)
    BY <1>1, <1>3, <1>4
  <1>6. ASSUME NEW r \in Slots \ {s}
        PROVE  /\ IsPut(wire'[r]) => PutIsSound(wire'[r]) /\ ~wire'[r].mine
               /\ ~IsFetch(wire'[r])
    <2>1. wire'[r] \in Put \cup {None}
      BY <1>3, <1>5
    <2>2. wire'[r] # None => IsPut(wire'[r])
      BY <2>1, RequestKinds
    <2> QED
      BY <1>3, <1>5, <2>2 DEF IsPut, IsFetch
  <1>7. RequestsAreSound'
    BY <1>4, <1>5, <1>6 DEF RequestsAreSound
  <1>8. \A r \in Slots : ~IsSave(wire'[r])
    BY <1>4, <1>5, <1>6 DEF IsSave
  <1>9. SaveIsAlone'
    BY <1>8 DEF SaveIsAlone, Visit
  <1>10. disturbed' \in BOOLEAN
    BY <1>1
  <1>11. ASSUME ~disturbed' PROVE Undisturbed'
    <2>1. \A r \in Slots \ {s} : wire'[r] = None
      BY <1>1, <1>5, <1>11
    <2>2. AllAgree'
      BY DEF AllAgree, Visit
    <2>3. \A r \in Slots : ~IsPut(wire'[r])
      BY <1>4, <1>5, <2>1 DEF IsPut
    <2>4. ASSUME NEW r \in Slots, IsFetch(wire'[r]) PROVE FetchIsAwaited(wire[r])'
      <3>1. wire'[r] = NewFetch
        BY <1>5, <2>1, <2>4 DEF IsFetch
      <3> QED
        BY <3>1 DEF FetchIsAwaited, NewFetch
    <2> QED
      BY <2>1, <2>2, <2>3, <2>4 DEF Undisturbed
  <1> QED
    BY <1>5, <1>7, <1>9, <1>10, <1>11, ScreenTypes, ScreenKeeps DEF Visit

LEMMA GridInitHolds == GridInit => GridInv
  <1> SUFFICES ASSUME GridInit PROVE GridInv
    OBVIOUS
  <1>1. PICK db \in LegacyDatabases :
          bank = db.bank /\ invoice = db.invoice /\ bill = db.bill /\ link = db.link
    BY DEF GridInit
  <1>2. /\ bank \in [Transactions -> BankRow]
        /\ \A t \in Transactions : Saved(bank[t])
    BY <1>1, GridAssumption DEF Saved
  <1>3. TypeOK
    <2>1. /\ salesAlloc \in [Transactions -> [Invoices -> Amounts]]
          /\ billAlloc \in [Transactions -> [Bills -> Amounts]]
          /\ partyCache \in [Gstins -> Parties \cup {None}]
      BY AmountAssumption DEF GridInit, Nothing
    <2>2. /\ invoice \in [Invoices -> SalesInvoice \cup {None}]
          /\ bill \in [Bills -> Bill \cup {None}]
          /\ link \in [Bills -> Transactions \cup {None}]
      BY <1>1, LegacyAssumption
    <2>3. server \in {"stopped", "starting", "serving"}
      BY DEF GridInit
    <2> QED
      BY <1>2, <2>1, <2>2, <2>3 DEF TypeOK
  <1>4. 0 \in 0 .. MaxPuts
    BY GridAssumption
  <1>5. GridTypeOK
    BY <1>3, <1>4 DEF GridInit, GridTypeOK
  <1>6. \A t \in Transactions : Links(salesAlloc[t]) = {}
    <2>1. ASSUME NEW t \in Transactions, NEW i \in Links(salesAlloc[t]) PROVE FALSE
      <3>1. salesAlloc[t] = [j \in Invoices |-> 0]
        BY DEF GridInit, Nothing
      <3>2. i \in Invoices /\ salesAlloc[t][i] > 0
        BY <2>1, <3>1 DEF Links
      <3> QED
        BY <3>1, <3>2
    <2> QED
      BY <2>1
  <1>7. RowsAreSound
    BY <1>2, <1>6 DEF GridInit, RowsAreSound
  <1>8. \A s \in Slots : ~IsPut(wire[s]) /\ ~IsFetch(wire[s]) /\ ~IsSave(wire[s])
    BY DEF GridInit, IsPut, IsFetch, IsSave
  <1>9. RequestsAreSound /\ SaveIsAlone
    BY <1>8 DEF GridInit, RequestsAreSound, SaveIsAlone
  <1>10. Undisturbed
    BY <1>8 DEF GridInit, Undisturbed, AllAgree
  <1> QED
    BY <1>5, <1>7, <1>9, <1>10 DEF GridInv

LEMMA GridNextHolds == GridInv /\ [GridNext]_gridVars => GridInv'
  <1> SUFFICES ASSUME GridInv, [GridNext]_gridVars PROVE GridInv'
    OBVIOUS
  <1>1. CASE UNCHANGED gridVars
    <2>1. UNCHANGED <<ledger, grid, panel, allocating, wire, puts, disturbed>>
      BY <1>1 DEF gridVars, screenVars
    <2>2. SaveIsAlone'
      BY <2>1 DEF GridInv, SaveIsAlone, PanelIsSaved
    <2>3. RequestsAreSound'
      BY <2>1 DEF GridInv, RequestsAreSound
    <2>4. AllAgree <=> AllAgree'
      BY <2>1 DEF AllAgree, Agrees, ledger
    <2>5. Undisturbed => Undisturbed'
      BY <2>1, <2>4 DEF Undisturbed, PutIsAwaited, FetchIsAwaited, EditIsShown, Agrees, ledger
    <2> QED
      BY <2>1, <2>2, <2>3, <2>5, BankHolds, ScreenTypes, ScreenKeeps DEF GridInv
  <1>2. ASSUME NEW s \in Slots, Progress(s) PROVE GridInv'
    BY <1>2, ServePutKeeps, ServeFetchKeeps, EditAnsweredKeeps, RowsAnsweredKeeps, SaveAnsweredKeeps
    DEF Progress
  <1>3. ASSUME NEW t \in Transactions, OpenAllocation(t) PROVE GridInv'
    BY <1>3, OpenAllocationKeeps
  <1>4. ASSUME NEW t \in Transactions, NEW class \in EditsOf(t), EditCell(t, class) PROVE GridInv'
    BY <1>4, EditCellKeeps
  <1>5. CASE EditPanel \/ CancelPanel \/ SaveAllocations \/ Visit
    BY <1>5, EditPanelKeeps, CancelPanelKeeps, SaveAllocationsKeeps, VisitKeeps
  <1> QED
    BY <1>1, <1>2, <1>3, <1>4, <1>5 DEF GridNext

LEMMA GridShows == GridInv => GridShowsLedger
  <1> SUFFICES ASSUME GridInv, ~disturbed, Quiet, grid # None, NEW t \in Transactions
               PROVE  Shown(grid[t]) = [class |-> bank[t], alloc |-> salesAlloc[t]]
    BY DEF GridShowsLedger
  <1>1. \A s \in Slots : wire[s] = None
    BY DEF Quiet, Free
  <1> QED
    BY <1>1 DEF GridInv, Undisturbed, AllAgree, Agrees

LEMMA PartnersAreSound == GridInv => PartnersAreOfReceipts
  <1> SUFFICES ASSUME GridInv, NEW t \in Transactions
               PROVE  /\ bank[t].partner # None => bank[t].head = SalesHead /\ bank[t].sub = bank[t].partner
                      /\ \A i \in Links(salesAlloc[t]) : invoice[i].partner = bank[t].partner
    BY DEF PartnersAreOfReceipts
  <1> QED
    BY DEF GridInv, RowsAreSound, Saved

LEMMA PanelIsKept == GridInv => PanelKeepsDraft
  <1> SUFFICES ASSUME GridInv PROVE PanelKeepsDraft
    OBVIOUS
  <1> DEFINE saves == {s \in PutsUnderWay : wire[s].kind = "save" /\ wire[s].mine}
  <1>1. \A s \in saves : s \in Slots /\ IsSave(wire[s])
    BY SlotsHold DEF PutsUnderWay, IsSave
  <1>2. \A s \in Slots : IsSave(wire[s]) => s \in saves
    BY SlotsHold DEF IsSave
  <1>3. allocating <=> saves # {}
    BY <1>1, <1>2 DEF GridInv, SaveIsAlone
  <1>4. \A s \in saves : PanelIsSaved(wire[s])
    BY <1>1 DEF GridInv, SaveIsAlone
  <1> QED
    BY <1>3, <1>4 DEF PanelKeepsDraft, PanelIsSaved

---------------------------------------------------------------------------
(* The screens together *)

LEMMA ScreensStep ==
  [ScreensNext]_screensVars =>
      /\ [Purchase!Next]_purchaseVars
      /\ [GridNext]_gridVars
      /\ [Browser!BrowserNext]_browserVars
  BY DEF ScreensNext, screensVars, OfPurchases, OfStatement, OfBrowser

\* Whatever is clicked, lost and answered, a screen that was not disturbed shows the
\* bank rows and allocations that the server stores.
THEOREM StatementShowsLedgerHolds == ScreensSpec => []StatementShowsLedger
  <1>1. ScreensInit => GridInv
    BY GridInitHolds DEF ScreensInit
  <1>2. GridInv /\ [ScreensNext]_screensVars => GridInv'
    BY ScreensStep, GridNextHolds
  <1>3. GridInv => StatementShowsLedger
    BY GridShows DEF StatementShowsLedger, GridInv
  <1> QED
    BY <1>1, <1>2, <1>3, PTL DEF ScreensSpec

\* Overtaking requests of the statement screen leave no partner, and no allocation
\* of another partner's invoice, on a row that is not a sales receipt.
THEOREM PartnersAreOfReceiptsHolds == ScreensSpec => []PartnersAreOfReceipts
  <1>1. ScreensInit => GridInv
    BY GridInitHolds DEF ScreensInit
  <1>2. GridInv /\ [ScreensNext]_screensVars => GridInv'
    BY ScreensStep, GridNextHolds
  <1> QED
    BY <1>1, <1>2, PartnersAreSound, PTL DEF ScreensSpec

\* A save is sent once and stays on its screen as it was sent, on the purchase form
\* and in the allocation panel.
THEOREM ScreensKeepDraftsHolds == ScreensSpec => []ScreensKeepDrafts
  <1>1. ScreensInit => GridInv /\ PurchaseInv
    BY GridInitHolds, PurchaseInit DEF ScreensInit
  <1>2. GridInv /\ PurchaseInv /\ [ScreensNext]_screensVars => (GridInv /\ PurchaseInv)'
    BY ScreensStep, GridNextHolds, PurchaseNext
  <1>3. GridInv /\ PurchaseInv => ScreensKeepDrafts
    BY OneSave, PanelIsKept DEF ScreensKeepDrafts, PurchaseInv
  <1> QED
    BY <1>1, <1>2, <1>3, PTL DEF ScreensSpec

\* A late lookup fills in only the party that is asked for and never what was typed;
\* the database browser shows no rows of another object or page.
THEOREM LateAnswersAreDroppedHolds == ScreensSpec => LateAnswersAreDropped
  <1>1. ScreensInit => PurchaseInv /\ BrowserInv
    BY PurchaseInit, BrowserInitHolds DEF ScreensInit
  <1>2. PurchaseInv /\ BrowserInv /\ [ScreensNext]_screensVars => (PurchaseInv /\ BrowserInv)'
    BY ScreensStep, PurchaseNext, BrowserNextHolds
  <1>3. PurchaseInv /\ [ScreensNext]_screensVars => [FilledIn]_purchaseVars
    BY ScreensStep, OnlyLookupsFill
  <1>4. BrowserInv => Browser!BrowserTypeOK /\ Browser!ResultsBelongToSelection
    BY ResultsBelong DEF BrowserInv
  <1>5. ScreensSpec => [](PurchaseInv /\ BrowserInv)
    BY <1>1, <1>2, PTL DEF ScreensSpec
  <1>6. ScreensSpec => [](Browser!BrowserTypeOK /\ Browser!ResultsBelongToSelection)
    BY <1>4, <1>5, PTL
  <1>7. ScreensSpec => [][FilledIn]_purchaseVars
    BY <1>3, <1>5, PTL DEF ScreensSpec
  <1>8. [FilledIn]_purchaseVars => [FilledIn]_(Purchase!vars)
    BY DEF purchaseVars, Purchase!vars
  <1> QED
    BY <1>6, <1>7, <1>8, PTL DEF LateAnswersAreDropped, Purchase!LookupsKeepEdits, FilledIn
=============================================================================
