SPECIFICATION Spec
CONSTANTS
  p1 = p1
  p2 = p2
  typed = typed
  n1 = n1
  g1 = g1
  sup1 = sup1
  r1 = r1
  r2 = r2
  r3 = r3
  w1 = w1
  w2 = w2
  None = None
  Transactions = {r1, r2, r3}
  Invoices = {1, 2}
  Bills = {}
  Partners = {p1, p2}
  Amounts = {0, 1, 2}
  Currencies = {"INR", "USD"}
  LineItems <- OneAndTax
  Heads = {"", "Sales Invoice"}
  Subs = {""}
  Restricted = {}
  TypedNumbers = {}
  BillNumbers = {}
  Gstins = {}
  Parties = {}
  Deposit <- ThreeDeposits
  Withdrawal <- NoMoney
  Forex <- OneDollar
  Currency <- DollarsAndRupees
  Rule <- PlainRule
  LegacyDatabases <- OnlyEmpty
  Sum <- MCSum
SYMMETRY PartnerSymmetry
INVARIANT InvoicesNotOverpaid
INVARIANT ReceiptsMatchTheirInvoices
INVARIANT ReceiptsNotOverspent
PROPERTY SettledInvoicesAreFrozen
