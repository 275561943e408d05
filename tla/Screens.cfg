SPECIFICATION ScreensSpec
CONSTANTS
    g1 = g1
    g2 = g2
    Gstins = {g1, g2}
    Register <- TwoInvoices
    MaxDrafts = 3
    Partial = Partial
    Blank = Blank
    Typed = Typed
    None = None
    r1 = r1
    Transactions = {r1}
    Bills = {}
    BillNumbers = {}
    Parties = {}
    Restricted = {}
    TypedNumbers = {}
    Currencies = {"USD"}
    Invoices = {1}
    p1 = p1
    p2 = p2
    Partners = {p1, p2}
    Amounts = {0, 1}
    LineItems <- OneItem
    Heads = {"", "Sales Invoice", "sales invoice"}
    Subs = {""}
    Deposit <- OneDollar
    Withdrawal <- NoMoney
    Forex <- OneDollar
    Currency <- InDollars
    Rule <- SalesRule
    LegacyDatabases <- OneInvoice
    Sum <- MCSum
    Slots = {1, 2}
    MaxPuts = 3
    o1 = o1
    o2 = o2
    Objects = {o1, o2}
    Browsable = {o1}
    MaxOffset = 1
INVARIANT StatementShowsLedger
INVARIANT PartnersAreOfReceipts
INVARIANT ScreensKeepDrafts
PROPERTY LateAnswersAreDropped
PROPERTY ScreensSavesEnd
