SPECIFICATION Spec
CONSTANTS
  None = None
  Blank = Blank
  Invoices = {1, 2, 3, 4, 5}
  Requests = {r1, r2}
  Years = {2026, 2027}
  Months = {3, 4}
  MaxNumber = 5
  OldDatabases <- EmptyOrBlank
SYMMETRY Symmetry
INVARIANT NoGaps
INVARIANT NumbersAreUnique
PROPERTY NumbersFollowTheYear
