SPECIFICATION LedgerSpec
CONSTANTS
  p1 = p1
  sup1 = sup1
  r1 = r1
  r2 = r2
  w1 = w1
  None = None
  Handlers = {h1, h2}
  Requests <- SomeRequests
  Transactions = {r1, r2, w1}
  Invoices = {1}
  Bills = {1}
  Partners = {p1}
  Amounts = {0, 1, 2, 3}
  Currencies = {"INR"}
  LineItems <- RupeeInvoices
  Heads = {"", "Sales Invoice", "Salary"}
  Subs = {""}
  Restricted = {"Salary"}
  TypedNumbers = {}
  BillNumbers = {}
  Gstins = {}
  Parties = {sup1}
  Deposit <- Deposits
  Withdrawal <- Withdrawals
  Forex <- NoMoney
  Currency <- InRupees
  Rule <- PlainRule
  LegacyDatabases <- Stored
  Sum <- MCSum
INVARIANT ReadsStayCurrent
PROPERTY CommitsAreRequests
PROPERTY RequestsAreAnswered
