SPECIFICATION Spec
CONSTANTS
    r1 = r1
    r2 = r2
    Requests = {r1, r2}
    Dates = {1, 2}
    Currencies <- Currencies2
    Units <- Units2
    Rates = {23, 46, 230}
    Files <- Files6
    SavedQuotes <- OneByOne
    Empty = Empty
    Bad = Bad
    NoQuote = NoQuote
    None = None
    Inr = "INR"
    Invoices <- InvoicesOf3
    Nearest <- Nearest9
    One = 32768
    Precision = 512
    RateScale = 100
    Limit = 28
SYMMETRY Symmetry
INVARIANT CountsAreTrue
INVARIANT DownloadsImportBack
PROPERTY ImplementsTable
PROPERTY ValuesFollowQuotes
CHECK_DEADLOCK FALSE
