SPECIFICATION Spec
CONSTANTS
  p1 = p1
  p2 = p2
  typed = typed
  n1 = n1
  g1 = g1
  sup1 = sup1
  r1 = r1
  r2 = r2
  r3 = r3
  w1 = w1
  w2 = w2
  None = None
  Transactions = {w1, w2}
  Invoices = {}
  Bills = {1, 2}
  Partners = {}
  Amounts = {0, 1, 2, 3}
  Currencies = {"INR"}
  LineItems <- OneAndTax
  Heads = {"", "sales invoice"}
  Subs = {"", "Personal"}
  Restricted = {"Personal"}
  TypedNumbers = {typed}
  BillNumbers = {n1}
  Gstins = {g1}
  Parties = {sup1}
  Deposit <- NoMoney
  Withdrawal <- TwoWithdrawals
  Forex <- NoMoney
  Currency <- InRupees
  Rule <- TypedRule
  LegacyDatabases <- EmptyOrLinked
  Sum <- MCSum
INVARIANT BillsNotOverpaid
INVARIANT RestartChangesNothing
PROPERTY PurchasePaymentsStayEligible
