------------------------ MODULE ReferenceRatesProofs ------------------------
(* Theorems of ReferenceRates and of RateReports, for any workbooks,       *)
(* requests, currencies and invoices.                                      *)
EXTENDS RateReports, FiniteSetTheorems, NaturalsInduction, WellFoundedInduction, TLAPS

---------------------------------------------------------------------------
(* Worksheets, and how far an import has read one *)

Reading == [sheet: Worksheets, row: Nat, column: Nat, inserted: Nat, skipped: Nat, empty: Nat]

IsRateCell(sheet, i, c) ==
    /\ i \in DOMAIN sheet.rows /\ c \in DOMAIN sheet.rows[i].cells
    /\ sheet.rows[i].cells[c] \in Rates
KeyAt(sheet, i, c) == <<sheet.rows[i].date, sheet.columns[c].currency>>
QuoteAt(sheet, i, c) ==
    [units |-> sheet.columns[c].units, rate |-> sheet.rows[i].cells[c], source |-> "workbook"]

\* The cell in row i and column c is one that the import has passed.
IsPast(at, i, c) == i < at.row \/ (i = at.row /\ c < at.column)
HasRead(at, i, c) == IsPast(at, i, c) /\ IsRateCell(at.sheet, i, c)

RowOK(sheet, row) == row.date \in Dates /\ Len(row.cells) <= Len(sheet.columns)

\* Where an import may be: what it has passed could be read.
ReadsWell(at) ==
    /\ HeaderOK(at.sheet)
    /\ at.row \in 1 .. Len(at.sheet.rows) + 1 /\ at.column \in 0 .. Len(at.sheet.columns)
    /\ at.column > 0 =>
          /\ at.row <= Len(at.sheet.rows) /\ ~BlankRow(at.sheet.rows[at.row])
          /\ RowOK(at.sheet, at.sheet.rows[at.row])
    /\ \A i \in DOMAIN at.sheet.rows :
          /\ i < at.row => BlankRow(at.sheet.rows[i]) \/ RowOK(at.sheet, at.sheet.rows[i])
          /\ \A c \in DOMAIN at.sheet.rows[i].cells :
                IsPast(at, i, c) => at.sheet.rows[i].cells[c] # Bad

Done(at) == {i \in 1 .. at.row - 1 : ~BlankRow(at.sheet.rows[i])}
Covered(at) ==
    Cardinality(Done(at)) * Len(at.sheet.columns) + (IF at.column = 0 THEN 0 ELSE at.column - 1)

LEMMA SeqParts ==
  ASSUME NEW S, NEW seq \in Seq(S)
  PROVE  /\ Len(seq) \in Nat /\ DOMAIN seq = 1 .. Len(seq)
         /\ \A i \in DOMAIN seq : seq[i] \in S
  OBVIOUS

LEMMA SheetParts ==
  ASSUME NEW sheet \in Worksheets
  PROVE  /\ sheet \in Worksheet
         /\ Len(sheet.rows) \in Nat /\ DOMAIN sheet.rows = 1 .. Len(sheet.rows)
         /\ Len(sheet.columns) \in Nat /\ DOMAIN sheet.columns = 1 .. Len(sheet.columns)
         /\ \A i \in DOMAIN sheet.rows :
               /\ Len(sheet.rows[i].cells) \in Nat
               /\ DOMAIN sheet.rows[i].cells = 1 .. Len(sheet.rows[i].cells)
         /\ HeaderOK(sheet) => /\ Len(sheet.columns) > 0
                               /\ \A c \in DOMAIN sheet.columns : sheet.columns[c] \in Column
  <1>1. sheet \in Worksheet
    BY RatesAssumption DEF Worksheets
  <1>2. /\ sheet.rows \in Seq([date: Dates \cup {Empty, Bad}, cells: Seq(Rates \cup {Empty, Bad})])
        /\ sheet.columns \in Seq(Column \cup {Bad})
    BY <1>1 DEF Worksheet
  <1>3. /\ Len(sheet.rows) \in Nat /\ DOMAIN sheet.rows = 1 .. Len(sheet.rows)
        /\ Len(sheet.columns) \in Nat /\ DOMAIN sheet.columns = 1 .. Len(sheet.columns)
        /\ \A c \in DOMAIN sheet.columns : sheet.columns[c] \in Column \cup {Bad}
    BY <1>2
  <1>4. ASSUME NEW i \in DOMAIN sheet.rows
        PROVE  sheet.rows[i].cells \in Seq(Rates \cup {Empty, Bad})
    <2>1. sheet.rows[i] \in [date: Dates \cup {Empty, Bad}, cells: Seq(Rates \cup {Empty, Bad})]
      BY <1>2, SeqParts
    <2> QED
      BY <2>1
  <1>5. \A i \in DOMAIN sheet.rows :
            /\ Len(sheet.rows[i].cells) \in Nat
            /\ DOMAIN sheet.rows[i].cells = 1 .. Len(sheet.rows[i].cells)
    BY <1>4
  <1> QED
    BY <1>1, <1>3, <1>5 DEF HeaderOK

\* The cell after this one, or the row after this one.
Follows(next, at) ==
    /\ next.sheet = at.sheet
    /\ IF at.column < Len(at.sheet.columns)
       THEN next.row = at.row /\ next.column = at.column + 1
       ELSE next.row = at.row + 1 /\ next.column = 0

LEMMA DoneIsFinite ==
  ASSUME NEW at \in Reading
  PROVE  /\ IsFiniteSet(Done(at)) /\ Cardinality(Done(at)) \in Nat
         /\ at.row \notin Done(at)
  <1>1. at.row \in Nat /\ Done(at) \in SUBSET (1 .. at.row - 1)
    BY DEF Reading, Done
  <1>2. IsFiniteSet(1 .. at.row - 1)
    BY <1>1, FS_Interval
  <1> QED
    BY <1>1, <1>2, FS_Subset, FS_CardinalityType

LEMMA DoneGrows ==
  ASSUME NEW at \in Reading, NEW next \in Reading, ReadsWell(at),
         next.sheet = at.sheet, next.row = at.row + 1
  PROVE  /\ BlankRow(at.sheet.rows[at.row]) => Done(next) = Done(at)
         /\ ~BlankRow(at.sheet.rows[at.row]) => Cardinality(Done(next)) = Cardinality(Done(at)) + 1
  <1>1. at.row \in Nat \ {0} /\ (1 .. next.row - 1) = (1 .. at.row - 1) \cup {at.row}
    BY DEF Reading, ReadsWell
  <1>2. BlankRow(at.sheet.rows[at.row]) => Done(next) = Done(at)
    BY <1>1 DEF Done
  <1>3. ASSUME ~BlankRow(at.sheet.rows[at.row])
        PROVE  Cardinality(Done(next)) = Cardinality(Done(at)) + 1
    <2>1. Done(next) = Done(at) \cup {at.row}
      BY <1>1, <1>3 DEF Done
    <2> QED
      BY <2>1, DoneIsFinite, FS_AddElement
  <1> QED
    BY <1>2, <1>3

\* Passing a cell that parses.
LEMMA PassCell ==
  ASSUME NEW at \in Reading, NEW next \in Reading, ReadsWell(at), at.column > 0,
         Cell(at.sheet.rows[at.row], at.column) # Bad, Follows(next, at)
  PROVE  /\ ReadsWell(next)
         /\ \A i, c : HasRead(next, i, c) <=>
               HasRead(at, i, c) \/ (i = at.row /\ c = at.column /\ IsRateCell(at.sheet, i, c))
         /\ Covered(next) = Covered(at) + 1
  <1> DEFINE sheet == at.sheet
             width == Len(sheet.columns)
  <1>1. /\ at.row \in Nat /\ at.column \in Nat /\ at.column <= width /\ width \in Nat /\ width > 0
        /\ at.row <= Len(sheet.rows) /\ at.row > 0 /\ Len(sheet.rows) \in Nat
        /\ DOMAIN sheet.rows = 1 .. Len(sheet.rows)
        /\ \A i \in DOMAIN sheet.rows : /\ Len(sheet.rows[i].cells) \in Nat
                                        /\ DOMAIN sheet.rows[i].cells = 1 .. Len(sheet.rows[i].cells)
        /\ ~BlankRow(sheet.rows[at.row]) /\ RowOK(sheet, sheet.rows[at.row])
    BY SheetParts DEF Reading, ReadsWell
  <1>2. next.sheet = sheet
    BY DEF Follows
  <1>3. ASSUME NEW i \in DOMAIN sheet.rows, NEW c \in DOMAIN sheet.rows[i].cells
        PROVE  IsPast(next, i, c) <=> IsPast(at, i, c) \/ (i = at.row /\ c = at.column)
    <2>1. i \in Nat /\ c \in Nat /\ (i = at.row => c <= width)
      <3>1. i \in Nat /\ Len(sheet.rows[i].cells) \in Nat /\ c \in 1 .. Len(sheet.rows[i].cells)
        BY <1>1
      <3>2. i = at.row => Len(sheet.rows[i].cells) <= width
        BY <1>1 DEF RowOK
      <3> QED
        BY <1>1, <3>1, <3>2
    <2>2. CASE at.column < width
      <3>1. next.row = at.row /\ next.column = at.column + 1
        BY <2>2 DEF Follows
      <3> QED
        BY <1>1, <2>1, <3>1 DEF IsPast
    <2>3. CASE ~(at.column < width)
      <3>1. next.row = at.row + 1 /\ next.column = 0 /\ at.column = width
        BY <1>1, <2>3 DEF Follows
      <3> QED
        BY <1>1, <2>1, <3>1 DEF IsPast
    <2> QED
      BY <2>2, <2>3
  <1>4. ASSUME NEW i, NEW c
        PROVE  HasRead(next, i, c) <=>
                   HasRead(at, i, c) \/ (i = at.row /\ c = at.column /\ IsRateCell(sheet, i, c))
    BY <1>2, <1>3 DEF HasRead, IsRateCell
  <1>5. \A i \in DOMAIN sheet.rows : \A c \in DOMAIN sheet.rows[i].cells :
            IsPast(next, i, c) => sheet.rows[i].cells[c] # Bad
    <2>1. at.column \in DOMAIN sheet.rows[at.row].cells =>
              sheet.rows[at.row].cells[at.column] # Bad
      BY <1>1 DEF Cell
    <2> QED
      BY <1>3, <2>1 DEF ReadsWell
  <1>6. ReadsWell(next)
    <2>1. CASE at.column < width
      <3>1. next.row = at.row /\ next.column = at.column + 1
        BY <2>1 DEF Follows
      <3>2. next.row \in 1 .. Len(sheet.rows) + 1 /\ next.column \in 0 .. width /\ next.row <= Len(sheet.rows)
        BY <1>1, <2>1, <3>1
      <3> QED
        BY <1>1, <1>2, <1>5, <3>1, <3>2 DEF ReadsWell
    <2>2. CASE ~(at.column < width)
      <3>1. next.row = at.row + 1 /\ next.column = 0
        BY <1>1, <2>2 DEF Follows
      <3>2. \A i \in DOMAIN sheet.rows : i < next.row => BlankRow(sheet.rows[i]) \/ RowOK(sheet, sheet.rows[i])
        BY <1>1, <3>1 DEF ReadsWell
      <3> QED
        BY <1>1, <1>2, <1>5, <3>1, <3>2 DEF ReadsWell
    <2> QED
      BY <2>1, <2>2
  <1>7. Covered(next) = Covered(at) + 1
    <2>1. CASE at.column < width
      <3>1. next.row = at.row /\ next.column = at.column + 1
        BY <2>1 DEF Follows
      <3>2. Done(next) = Done(at)
        BY <1>2, <3>1 DEF Done
      <3>3. Cardinality(Done(at)) * width \in Nat
        BY <1>1, DoneIsFinite
      <3>4. at.column + 1 # 0 /\ at.column # 0 /\ at.column \in Nat
        BY <1>1
      <3>5. /\ Covered(next) = Cardinality(Done(at)) * width + (at.column + 1 - 1)
            /\ Covered(at) = Cardinality(Done(at)) * width + (at.column - 1)
        BY <1>2, <3>1, <3>2, <3>4 DEF Covered
      <3> QED
        BY <3>3, <3>4, <3>5
    <2>2. CASE ~(at.column < width)
      <3>1. next.row = at.row + 1 /\ next.column = 0 /\ at.column = width
        BY <1>1, <2>2 DEF Follows
      <3>2. Cardinality(Done(next)) = Cardinality(Done(at)) + 1 /\ Cardinality(Done(at)) \in Nat
        BY <1>1, <1>2, <3>1, DoneGrows, DoneIsFinite
      <3> DEFINE rows == Cardinality(Done(at))
      <3>3. Covered(next) = (rows + 1) * width + 0 /\ Covered(at) = rows * width + (width - 1)
        BY <1>1, <1>2, <3>1, <3>2 DEF Covered
      <3>4. rows \in Nat /\ width \in Nat
        BY <1>1, <3>2
      <3> HIDE DEF rows, width
      <3>5. (rows + 1) * width = rows * width + width /\ rows * width \in Nat
        BY <3>4
      <3> QED
        BY <3>3, <3>4, <3>5
    <2> QED
      BY <2>1, <2>2
  <1> QED
    BY <1>4, <1>6, <1>7

\* Entering a row, or passing a blank one.
LEMMA PassRow ==
  ASSUME NEW at \in Reading, NEW next \in Reading, ReadsWell(at),
         at.column = 0, at.row <= Len(at.sheet.rows), next.sheet = at.sheet,
         \/ BlankRow(at.sheet.rows[at.row]) /\ next.row = at.row + 1 /\ next.column = 0
         \/ /\ ~BlankRow(at.sheet.rows[at.row]) /\ RowOK(at.sheet, at.sheet.rows[at.row])
            /\ next.row = at.row /\ next.column = 1
  PROVE  /\ ReadsWell(next)
         /\ \A i, c : HasRead(next, i, c) <=> HasRead(at, i, c)
         /\ Covered(next) = Covered(at)
  <1> DEFINE sheet == at.sheet
  <1>1. /\ at.row \in Nat /\ at.row > 0 /\ Len(sheet.rows) \in Nat
        /\ Len(sheet.columns) \in Nat /\ Len(sheet.columns) > 0
        /\ DOMAIN sheet.rows = 1 .. Len(sheet.rows)
        /\ \A i \in DOMAIN sheet.rows : /\ Len(sheet.rows[i].cells) \in Nat
                                        /\ DOMAIN sheet.rows[i].cells = 1 .. Len(sheet.rows[i].cells)
    BY SheetParts DEF Reading, ReadsWell
  <1>2. Empty \notin Rates /\ Empty # Bad
    BY MarksAssumption
  <1>3. CASE BlankRow(sheet.rows[at.row]) /\ next.row = at.row + 1 /\ next.column = 0
    <2>1. \A c \in DOMAIN sheet.rows[at.row].cells : sheet.rows[at.row].cells[c] = Empty
      BY <1>3 DEF BlankRow
    <2>2. \A i \in DOMAIN sheet.rows : \A c \in DOMAIN sheet.rows[i].cells :
              IsPast(next, i, c) <=> IsPast(at, i, c) \/ i = at.row
      BY <1>1, <1>3 DEF IsPast
    <2>3. \A i, c : HasRead(next, i, c) <=> HasRead(at, i, c)
      BY <1>2, <2>1, <2>2 DEF HasRead, IsRateCell
    <2>4. ReadsWell(next)
      <3>1. \A i \in DOMAIN sheet.rows : i < next.row => i < at.row \/ i = at.row
        BY <1>1, <1>3
      <3>2. \A i \in DOMAIN sheet.rows : i < next.row => BlankRow(sheet.rows[i]) \/ RowOK(sheet, sheet.rows[i])
        BY <1>3, <3>1 DEF ReadsWell
      <3>3. \A i \in DOMAIN sheet.rows : \A c \in DOMAIN sheet.rows[i].cells :
                IsPast(next, i, c) => sheet.rows[i].cells[c] # Bad
        BY <1>2, <2>1, <2>2 DEF ReadsWell
      <3> QED
        BY <1>1, <1>3, <3>2, <3>3 DEF ReadsWell
    <2>5. Covered(next) = Covered(at)
      BY <1>3, DoneGrows DEF Covered
    <2> QED
      BY <2>3, <2>4, <2>5
  <1>4. CASE /\ ~BlankRow(sheet.rows[at.row]) /\ RowOK(sheet, sheet.rows[at.row])
             /\ next.row = at.row /\ next.column = 1
    <2>1. \A i \in DOMAIN sheet.rows : \A c \in DOMAIN sheet.rows[i].cells :
              IsPast(next, i, c) <=> IsPast(at, i, c)
      BY <1>1, <1>4 DEF IsPast
    <2>2. \A i, c : HasRead(next, i, c) <=> HasRead(at, i, c)
      BY <2>1 DEF HasRead, IsRateCell
    <2>3. ReadsWell(next)
      BY <1>1, <1>4, <2>1 DEF ReadsWell
    <2>4. Done(next) = Done(at)
      BY <1>4 DEF Done
    <2>5. Covered(next) = Covered(at)
      BY <1>4, <2>4 DEF Covered
    <2> QED
      BY <2>2, <2>3, <2>5
  <1> QED
    BY <1>3, <1>4

---------------------------------------------------------------------------
(* The inductive invariant *)

Same(q1, q2) == q1.units = q2.units /\ q1.rate = q2.rate

\* A table is another one merged with the quotes that an import has read.
IsMerged(base, table, at) ==
    /\ \A i \in DOMAIN at.sheet.rows : \A c \in DOMAIN at.sheet.rows[i].cells :
          HasRead(at, i, c) =>
              LET stored == table[KeyAt(at.sheet, i, c)]
              IN  stored # NoQuote /\ Same(stored, QuoteAt(at.sheet, i, c))
    /\ \A key \in Key : table[key] = base[key] \/
          /\ base[key] = NoQuote
          /\ \E i \in DOMAIN at.sheet.rows : \E c \in DOMAIN at.sheet.rows[i].cells :
                /\ HasRead(at, i, c) /\ key = KeyAt(at.sheet, i, c)
                /\ table[key] = QuoteAt(at.sheet, i, c)

Added(base, table) == {key \in Key : table[key] # base[key]}

\* The writer has counted what it has added; the others have read no quote yet.
ReadingInv(r) ==
    LET at == request[r]
    IN  /\ ReadsWell(at)
        /\ at.inserted + at.skipped + at.empty = Covered(at)
        /\ IF writer = r
           THEN /\ IsMerged(rates, draft, at) /\ IsFiniteSet(Added(rates, draft))
                /\ at.inserted = Cardinality(Added(rates, draft))
           ELSE /\ at.inserted = 0
                /\ \A i \in DOMAIN at.sheet.rows : \A c \in DOMAIN at.sheet.rows[i].cells :
                      ~HasRead(at, i, c)

RatesInv == TypeOK /\ \A r \in Requests : request[r] # None => ReadingInv(r)

---------------------------------------------------------------------------
(* Merging a cell *)

\* What has been read is of a date and a currency.
LEMMA ReadQuotes ==
  ASSUME NEW at \in Reading, ReadsWell(at), NEW i, NEW c, HasRead(at, i, c)
  PROVE  KeyAt(at.sheet, i, c) \in Key /\ QuoteAt(at.sheet, i, c) \in Quote
  <1> DEFINE sheet == at.sheet
             row == sheet.rows[i]
  <1>1. i \in DOMAIN sheet.rows /\ c \in DOMAIN row.cells /\ row.cells[c] \in Rates
    BY DEF HasRead, IsRateCell
  <1>2. ~BlankRow(row)
    BY <1>1, MarksAssumption DEF BlankRow
  <1>3. RowOK(sheet, row)
    <2>1. i < at.row \/ (i = at.row /\ at.column > 0)
      <3>1. i < at.row \/ (i = at.row /\ c < at.column)
        BY DEF HasRead, IsPast
      <3>2. c \in Nat /\ c > 0 /\ at.column \in Nat
        BY <1>1, SheetParts DEF Reading
      <3> QED
        BY <3>1, <3>2
    <2> QED
      BY <1>1, <1>2, <2>1 DEF ReadsWell
  <1>4. c \in DOMAIN sheet.columns
    BY <1>1, <1>3, SheetParts DEF Reading, RowOK
  <1>5. sheet.columns[c] \in Column
    BY <1>4, SheetParts DEF Reading, ReadsWell
  <1> QED
    BY <1>1, <1>3, <1>5 DEF KeyAt, QuoteAt, Key, Quote, Column, RowOK

LEMMA MergeCell ==
  ASSUME NEW base \in [Key -> Quote \cup {NoQuote}], NEW table \in [Key -> Quote \cup {NoQuote}],
         NEW at \in Reading, NEW next \in Reading, ReadsWell(at), IsMerged(base, table, at),
         next.sheet = at.sheet, IsRateCell(at.sheet, at.row, at.column),
         \A i, c : HasRead(next, i, c) <=> HasRead(at, i, c) \/ (i = at.row /\ c = at.column),
         NEW key \in Key, key = KeyAt(at.sheet, at.row, at.column),
         NEW quote \in Quote, quote = QuoteAt(at.sheet, at.row, at.column),
         NEW merged, \A k \in Key : k # key => merged[k] = table[k]
  PROVE  /\ table[key] = NoQuote /\ merged[key] = quote =>
               /\ IsMerged(base, merged, next)
               /\ key \notin Added(base, table)
               /\ Added(base, merged) = Added(base, table) \cup {key}
         /\ table[key] # NoQuote /\ Same(table[key], quote) /\ merged = table =>
               IsMerged(base, merged, next)
  <1> DEFINE sheet == at.sheet
  <1>1. quote # NoQuote /\ Same(quote, quote)
    BY MarksAssumption DEF Same
  <1>2. at.row \in DOMAIN sheet.rows /\ at.column \in DOMAIN sheet.rows[at.row].cells
    BY DEF IsRateCell
  <1>3. ASSUME table[key] = NoQuote
        PROVE  base[key] = NoQuote
    BY <1>3 DEF IsMerged
  <1>4. ASSUME table[key] = NoQuote, merged[key] = quote
        PROVE  /\ key \notin Added(base, table)
               /\ Added(base, merged) = Added(base, table) \cup {key}
    BY <1>1, <1>3, <1>4 DEF Added
  <1>5. ASSUME table[key] = NoQuote, merged[key] = quote
        PROVE  IsMerged(base, merged, next)
    <2>1. ASSUME NEW i \in DOMAIN sheet.rows, NEW c \in DOMAIN sheet.rows[i].cells, HasRead(next, i, c)
          PROVE  /\ merged[KeyAt(sheet, i, c)] # NoQuote
                 /\ Same(merged[KeyAt(sheet, i, c)], QuoteAt(sheet, i, c))
      <3>1. CASE i = at.row /\ c = at.column
        BY <1>1, <1>5, <3>1
      <3>2. CASE HasRead(at, i, c)
        <4>1. /\ table[KeyAt(sheet, i, c)] # NoQuote
              /\ Same(table[KeyAt(sheet, i, c)], QuoteAt(sheet, i, c))
          BY <3>2 DEF IsMerged
        <4>2. KeyAt(sheet, i, c) \in Key /\ KeyAt(sheet, i, c) # key
          BY <1>5, <3>2, <4>1, ReadQuotes
        <4> QED
          BY <4>1, <4>2
      <3> QED
        BY <2>1, <3>1, <3>2
    <2>2. ASSUME NEW k \in Key, merged[k] # base[k]
          PROVE  /\ base[k] = NoQuote
                 /\ \E i \in DOMAIN sheet.rows : \E c \in DOMAIN sheet.rows[i].cells :
                       /\ HasRead(next, i, c) /\ k = KeyAt(sheet, i, c)
                       /\ merged[k] = QuoteAt(sheet, i, c)
      <3>1. CASE k = key
        BY <1>2, <1>3, <1>5, <3>1
      <3>2. CASE k # key
        BY <2>2, <3>2 DEF IsMerged
      <3> QED
        BY <3>1, <3>2
    <2> QED
      BY <2>1, <2>2 DEF IsMerged
  <1>6. ASSUME table[key] # NoQuote, Same(table[key], quote)
        PROVE  IsMerged(base, table, next)
    <2>1. ASSUME NEW i \in DOMAIN sheet.rows, NEW c \in DOMAIN sheet.rows[i].cells, HasRead(next, i, c)
          PROVE  /\ table[KeyAt(sheet, i, c)] # NoQuote
                 /\ Same(table[KeyAt(sheet, i, c)], QuoteAt(sheet, i, c))
      BY <1>6, <2>1 DEF IsMerged
    <2>2. ASSUME NEW k \in Key, table[k] # base[k]
          PROVE  /\ base[k] = NoQuote
                 /\ \E i \in DOMAIN sheet.rows : \E c \in DOMAIN sheet.rows[i].cells :
                       /\ HasRead(next, i, c) /\ k = KeyAt(sheet, i, c)
                       /\ table[k] = QuoteAt(sheet, i, c)
      BY <2>2 DEF IsMerged
    <2> QED
      BY <2>1, <2>2 DEF IsMerged
  <1> QED
    BY <1>4, <1>5, <1>6

---------------------------------------------------------------------------
(* What the invariant gives *)

LEMMA NothingIsReading == None \notin Reading
  <1>1. ASSUME None \in Reading
        PROVE  None \in [sheet: Worksheet, row: Nat, column: Nat, inserted: Nat, skipped: Nat, empty: Nat]
    BY <1>1, SheetParts DEF Reading
  <1> QED
    BY <1>1, MarksAssumption

\* What a request sees is merged, whether it writes or not.
LEMMA SeenIsMerged ==
  ASSUME RatesInv, NEW r \in Requests, request[r] # None
  PROVE  /\ request[r] \in Reading /\ ReadingInv(r) /\ Seen(r) \in [Key -> Quote \cup {NoQuote}]
         /\ IsMerged(rates, Seen(r), request[r]) /\ IsFiniteSet(Added(rates, Seen(r)))
         /\ request[r].inserted = Cardinality(Added(rates, Seen(r)))
  <1>1. /\ request[r] \in Reading /\ ReadingInv(r) /\ Seen(r) \in [Key -> Quote \cup {NoQuote}]
    BY DEF RatesInv, TypeOK, Reading, Seen
  <1>2. CASE writer = r
    BY <1>1, <1>2 DEF ReadingInv, Seen
  <1>3. CASE writer # r
    <2>1. Seen(r) = rates /\ request[r].inserted = 0
      BY <1>1, <1>3 DEF ReadingInv, Seen
    <2>2. Added(rates, Seen(r)) = {}
      BY <2>1 DEF Added
    <2>3. IsMerged(rates, Seen(r), request[r])
      BY <1>1, <1>3, <2>1 DEF ReadingInv, IsMerged
    <2> QED
      BY <1>1, <2>1, <2>2, <2>3, FS_EmptySet
  <1> QED
    BY <1>2, <1>3

\* A step of others leaves an import where it is.
LEMMA ReadingStays ==
  ASSUME NEW s \in Requests, ReadingInv(s), request'[s] = request[s],
         \/ writer # s /\ writer' # s
         \/ writer' = writer /\ UNCHANGED <<rates, draft>>
  PROVE  ReadingInv(s)'
  <1>1. CASE writer # s /\ writer' # s
    BY <1>1 DEF ReadingInv
  <1>2. CASE writer' = writer /\ UNCHANGED <<rates, draft>>
    <2>1. Added(rates, draft)' = Added(rates, draft)
      BY <1>2 DEF Added
    <2>2. IsMerged(rates, draft, request[s]) => IsMerged(rates, draft, request[s])'
      BY <1>2 DEF IsMerged
    <2> QED
      BY <1>2, <2>1, <2>2 DEF ReadingInv
  <1> QED
    BY <1>1, <1>2

LEMMA AdvancedIs ==
  ASSUME NEW r \in Requests, request[r] \in Reading, ReadsWell(request[r]), request[r].column > 0,
         NEW counted \in Reading, counted.sheet = request[r].sheet,
         counted.row = request[r].row, counted.column = request[r].column
  PROVE  LET next == Advanced(r, counted)
         IN  /\ next \in Reading /\ Follows(next, request[r])
             /\ next.inserted = counted.inserted /\ next.skipped = counted.skipped
             /\ next.empty = counted.empty
  <1> DEFINE width == Len(request[r].sheet.columns)
  <1>1. CASE request[r].column < width
    <2>1. Advanced(r, counted) = [counted EXCEPT !.column = @ + 1]
      BY <1>1 DEF Advanced, Columns
    <2>2. Advanced(r, counted) =
              [sheet |-> counted.sheet, row |-> counted.row, column |-> counted.column + 1,
               inserted |-> counted.inserted, skipped |-> counted.skipped, empty |-> counted.empty]
      BY <2>1 DEF Reading
    <2> QED
      BY <1>1, <2>2 DEF Follows, Reading
  <1>2. CASE ~(request[r].column < width)
    <2>1. Advanced(r, counted) = [counted EXCEPT !.row = @ + 1, !.column = 0]
      BY <1>2 DEF Advanced, Columns
    <2>2. Advanced(r, counted) =
              [sheet |-> counted.sheet, row |-> counted.row + 1, column |-> 0,
               inserted |-> counted.inserted, skipped |-> counted.skipped, empty |-> counted.empty]
      BY <2>1 DEF Reading
    <2> QED
      BY <1>2, <2>2 DEF Follows, Reading
  <1> QED
    BY <1>1, <1>2

---------------------------------------------------------------------------
(* The steps *)

LEMMA RatesInit == Init => RatesInv
  <1> SUFFICES ASSUME Init PROVE RatesInv
    OBVIOUS
  <1>1. TypeOK
    BY MarksAssumption DEF Init, TypeOK
  <1> QED
    BY <1>1 DEF Init, RatesInv

\* A request that leaves the tables alone, and is not the writer or reads on.
LEMMA ReadStep ==
  ASSUME RatesInv, NEW r \in Requests, NEW next \in Reading,
         request' = [request EXCEPT ![r] = next],
         UNCHANGED <<rates, writer, draft>>,
         ReadingInv(r)'
  PROVE  RatesInv'
  <1>1. next # None
    BY NothingIsReading
  <1>2. TypeOK'
    BY <1>1 DEF RatesInv, TypeOK, Reading
  <1>3. ASSUME NEW s \in Requests, request'[s] # None
        PROVE  ReadingInv(s)'
    <2>1. CASE s = r
      BY <2>1
    <2>2. CASE s # r
      <3>1. request'[s] = request[s]
        BY <2>2 DEF RatesInv, TypeOK
      <3> QED
        BY <1>3, <3>1, ReadingStays DEF RatesInv
    <2> QED
      BY <2>1, <2>2
  <1> QED
    BY <1>2, <1>3 DEF RatesInv

LEMMA ImportStep ==
  ASSUME RatesInv, NEW r \in Requests, NEW file \in Files, NEW asked,
         ImportReferenceRates(r, file, asked)
  PROVE  RatesInv'
  <1>1. PICK name \in DOMAIN file :
            /\ HeaderOK(file[name]) /\ Len(file[name].rows) > 0
            /\ request' = [request EXCEPT ![r] = [sheet |-> file[name], row |-> 1, column |-> 0,
                                                 inserted |-> 0, skipped |-> 0, empty |-> 0]]
    BY DEF ImportReferenceRates
  <1> DEFINE next == [sheet |-> file[name], row |-> 1, column |-> 0,
                      inserted |-> 0, skipped |-> 0, empty |-> 0]
  <1>2. file[name] \in Worksheets
    BY DEF Worksheets
  <1>3. next \in Reading /\ request'[r] = next /\ writer # r
    BY <1>1, <1>2 DEF Reading, ImportReferenceRates, RatesInv, TypeOK
  <1>4. \A i \in DOMAIN next.sheet.rows : \A c \in DOMAIN next.sheet.rows[i].cells : ~IsPast(next, i, c)
    BY <1>2, SheetParts DEF IsPast
  <1>5. ReadsWell(next)
    BY <1>1, <1>2, <1>4, SheetParts DEF ReadsWell
  <1>6. Covered(next) = 0
    <2>1. Done(next) = {}
      BY DEF Done
    <2>2. Len(next.sheet.columns) \in Nat
      BY <1>2, SheetParts
    <2>3. Cardinality(Done(next)) = 0
      BY <2>1, FS_EmptySet
    <2>4. Covered(next) = 0 * Len(next.sheet.columns) + 0
      BY <2>3 DEF Covered
    <2> QED
      BY <2>2, <2>4
  <1>7. ReadingInv(r)'
    BY <1>3, <1>4, <1>5, <1>6 DEF ReadingInv, HasRead, ImportReferenceRates
  <1> QED
    BY <1>1, <1>3, <1>7, ReadStep DEF ImportReferenceRates

\* Reading on without a new quote.
LEMMA ReadOn ==
  ASSUME RatesInv, NEW r \in Requests, request[r] # None, NEW next \in Reading,
         request'[r] = next, UNCHANGED <<rates, writer, draft>>,
         ReadsWell(next), next.sheet = request[r].sheet,
         \A i, c : HasRead(next, i, c) <=> HasRead(request[r], i, c),
         next.inserted = request[r].inserted,
         next.inserted + next.skipped + next.empty = Covered(next)
  PROVE  ReadingInv(r)'
  <1>1. ReadingInv(r)
    BY SeenIsMerged
  <1>2. IsMerged(rates, draft, request[r]) => IsMerged(rates, draft, next)'
    BY DEF IsMerged
  <1>3. Added(rates, draft)' = Added(rates, draft)
    BY DEF Added
  <1> QED
    BY <1>1, <1>2, <1>3 DEF ReadingInv

LEMMA StartRowStep ==
  ASSUME RatesInv, NEW r \in Requests, StartRow(r)
  PROVE  RatesInv'
  <1> DEFINE at == request[r]
  <1>1. /\ at \in Reading /\ ReadsWell(at) /\ at.inserted + at.skipped + at.empty = Covered(at)
        /\ request[r] # None
    BY SeenIsMerged DEF StartRow, ReadingInv
  <1>2. PICK next : /\ request' = [request EXCEPT ![r] = next]
                    /\ \/ BlankRow(at.sheet.rows[at.row]) /\ next = [at EXCEPT !.row = @ + 1]
                       \/ /\ ~BlankRow(at.sheet.rows[at.row]) /\ RowOK(at.sheet, at.sheet.rows[at.row])
                          /\ next = [at EXCEPT !.column = 1]
    BY DEF StartRow, Row, Columns, RowOK
  <1>3. /\ next \in Reading /\ next.sheet = at.sheet /\ next.inserted = at.inserted
        /\ next.skipped = at.skipped /\ next.empty = at.empty
        /\ at.column = 0 /\ at.row <= Len(at.sheet.rows)
        /\ \/ BlankRow(at.sheet.rows[at.row]) /\ next.row = at.row + 1 /\ next.column = 0
           \/ /\ ~BlankRow(at.sheet.rows[at.row]) /\ RowOK(at.sheet, at.sheet.rows[at.row])
              /\ next.row = at.row /\ next.column = 1
    <2>1. at.column = 0 /\ ~(at.row > Len(at.sheet.rows)) /\ Len(at.sheet.rows) \in Nat /\ at.row \in Nat
      BY <1>1, SheetParts DEF StartRow, AtEnd, Reading
    <2> QED
      BY <1>1, <1>2, <2>1 DEF Reading
  <1>4. /\ ReadsWell(next) /\ \A i, c : HasRead(next, i, c) <=> HasRead(at, i, c)
        /\ Covered(next) = Covered(at)
    BY <1>1, <1>3, PassRow
  <1>5. request'[r] = next
    BY <1>2 DEF RatesInv, TypeOK
  <1>6. ReadingInv(r)'
    BY <1>1, <1>3, <1>4, <1>5, ReadOn DEF StartRow
  <1> QED
    BY <1>2, <1>3, <1>6, ReadStep DEF StartRow

LEMMA SkipStep ==
  ASSUME RatesInv, NEW r \in Requests, SkipEmptyCell(r)
  PROVE  RatesInv'
  <1> DEFINE at == request[r]
             counted == Counted(r, "empty")
             next == Advanced(r, counted)
  <1>1. /\ at \in Reading /\ ReadsWell(at) /\ at.inserted + at.skipped + at.empty = Covered(at)
        /\ request[r] # None /\ at.column > 0
    BY SeenIsMerged DEF SkipEmptyCell, InRow, ReadingInv
  <1>2. /\ counted \in Reading /\ counted.sheet = at.sheet
        /\ counted.row = at.row /\ counted.column = at.column
        /\ counted.inserted = at.inserted /\ counted.skipped = at.skipped
        /\ counted.empty = at.empty + 1
    BY <1>1 DEF Reading, Counted
  <1>3. /\ next \in Reading /\ Follows(next, at) /\ next.inserted = at.inserted
        /\ next.skipped = at.skipped /\ next.empty = at.empty + 1
    BY <1>1, <1>2, AdvancedIs
  <1>4. Cell(at.sheet.rows[at.row], at.column) = Empty
    BY DEF SkipEmptyCell, Row
  <1>5. request' = [request EXCEPT ![r] = next] /\ request'[r] = next
    <2>1. request' = [request EXCEPT ![r] = next]
      BY DEF SkipEmptyCell
    <2>2. DOMAIN request = Requests
      BY DEF RatesInv, TypeOK
    <2> HIDE DEF next
    <2> QED
      BY <2>1, <2>2
  <1> HIDE DEF next
  <1>6. /\ ReadsWell(next) /\ Covered(next) = Covered(at) + 1
        /\ \A i, c : HasRead(next, i, c) <=>
              HasRead(at, i, c) \/ (i = at.row /\ c = at.column /\ IsRateCell(at.sheet, i, c))
    BY <1>1, <1>3, <1>4, PassCell, MarksAssumption
  <1>7. ~IsRateCell(at.sheet, at.row, at.column)
    BY <1>1, <1>4, MarksAssumption, SheetParts DEF IsRateCell, Cell, Reading
  <1>8. next.inserted + next.skipped + next.empty = Covered(next)
    BY <1>1, <1>3, <1>6 DEF Reading
  <1>9. ReadingInv(r)'
    BY <1>1, <1>3, <1>5, <1>6, <1>7, <1>8, ReadOn DEF SkipEmptyCell, Follows
  <1> QED
    BY <1>3, <1>5, <1>9, ReadStep DEF SkipEmptyCell

\* The cell that an import inserts.
LEMMA InsertParts ==
  ASSUME RatesInv, NEW r \in Requests, InsertCell(r)
  PROVE  LET at == request[r]
         IN  /\ at \in Reading /\ ReadsWell(at) /\ at.column > 0 /\ at # None
             /\ Cell(at.sheet.rows[at.row], at.column) # Bad
             /\ IsRateCell(at.sheet, at.row, at.column)
             /\ CellKey(r) = KeyAt(at.sheet, at.row, at.column) /\ CellKey(r) \in Key
             /\ CellQuote(r) = QuoteAt(at.sheet, at.row, at.column) /\ CellQuote(r) \in Quote
  <1> DEFINE at == request[r]
             row == at.sheet.rows[at.row]
             value == Cell(row, at.column)
  <1>1. /\ at \in Reading /\ ReadsWell(at) /\ at.column > 0 /\ at # None
    BY SeenIsMerged DEF InsertCell, InRow, ReadingInv
  <1>2. value \in Rates /\ value # Bad /\ value # Empty
    BY MarksAssumption DEF InsertCell, IsRate, Row
  <1>3. at.column <= Len(row.cells) /\ value = row.cells[at.column]
    BY <1>2 DEF Cell
  <1>4. /\ at.row \in DOMAIN at.sheet.rows /\ at.column \in DOMAIN row.cells
        /\ at.column \in DOMAIN at.sheet.columns
    <2>1. at.row \in 1 .. Len(at.sheet.rows) /\ at.column \in 1 .. Len(at.sheet.columns)
      BY <1>1, SheetParts DEF ReadsWell, Reading
    <2> QED
      BY <1>1, <1>3, <2>1, SheetParts DEF Reading
  <1>5. at.sheet.columns[at.column] \in Column /\ row.date \in Dates
    BY <1>1, <1>4, SheetParts DEF Reading, ReadsWell, RowOK
  <1>6. CellKey(r) = KeyAt(at.sheet, at.row, at.column) /\ CellKey(r) \in Key
    BY <1>5 DEF CellKey, KeyAt, Key, Row, Columns, Column
  <1>7. CellQuote(r) = QuoteAt(at.sheet, at.row, at.column) /\ CellQuote(r) \in Quote
    BY <1>2, <1>3, <1>5 DEF CellQuote, QuoteAt, Quote, Row, Columns, Column
  <1> QED
    BY <1>1, <1>2, <1>3, <1>4, <1>6, <1>7 DEF IsRateCell

LEMMA InsertStep ==
  ASSUME RatesInv, NEW r \in Requests, InsertCell(r)
  PROVE  RatesInv'
  <1> DEFINE at == request[r]
             table == Seen(r)
             key == CellKey(r)
             quote == CellQuote(r)
             what == IF table[key] = NoQuote THEN "inserted" ELSE "skipped"
             next == Advanced(r, Counted(r, what))
  <1>1. /\ at \in Reading /\ ReadsWell(at) /\ at.column > 0 /\ at # None
        /\ Cell(at.sheet.rows[at.row], at.column) # Bad
        /\ IsRateCell(at.sheet, at.row, at.column)
        /\ key = KeyAt(at.sheet, at.row, at.column) /\ key \in Key
        /\ quote = QuoteAt(at.sheet, at.row, at.column) /\ quote \in Quote
    BY InsertParts
  <1>2. /\ table \in [Key -> Quote \cup {NoQuote}] /\ IsMerged(rates, table, at)
        /\ IsFiniteSet(Added(rates, table)) /\ at.inserted = Cardinality(Added(rates, table))
        /\ at.inserted + at.skipped + at.empty = Covered(at)
    BY <1>1, SeenIsMerged DEF ReadingInv
  <1>3. /\ request' = [request EXCEPT ![r] = next] /\ writer' = r /\ rates' = rates
        /\ writer \in {None, r}
    BY DEF InsertCell
  <1>4. /\ next \in Reading /\ Follows(next, at)
        /\ next.inserted = IF what = "inserted" THEN at.inserted + 1 ELSE at.inserted
        /\ next.skipped = IF what = "inserted" THEN at.skipped ELSE at.skipped + 1
        /\ next.empty = at.empty
    <2> DEFINE counted == Counted(r, what)
    <2>1. /\ counted \in Reading /\ counted.sheet = at.sheet
          /\ counted.row = at.row /\ counted.column = at.column
          /\ counted.inserted = IF what = "inserted" THEN at.inserted + 1 ELSE at.inserted
          /\ counted.skipped = IF what = "inserted" THEN at.skipped ELSE at.skipped + 1
          /\ counted.empty = at.empty
      <3>1. CASE table[key] = NoQuote
        <4>1. counted = [at EXCEPT !.inserted = @ + 1]
          BY <3>1 DEF Counted
        <4> QED
          BY <1>1, <3>1, <4>1 DEF Reading
      <3>2. CASE table[key] # NoQuote
        <4>1. counted = [at EXCEPT !.skipped = @ + 1]
          BY <3>2 DEF Counted
        <4> QED
          BY <1>1, <3>2, <4>1 DEF Reading
      <3> QED
        BY <3>1, <3>2
    <2> HIDE DEF what
    <2> QED
      BY <1>1, <2>1, AdvancedIs
  <1>5. /\ ReadsWell(next) /\ Covered(next) = Covered(at) + 1
        /\ \A i, c : HasRead(next, i, c) <=>
              HasRead(at, i, c) \/ (i = at.row /\ c = at.column)
    <2> HIDE DEF next
    <2> QED
      BY <1>1, <1>4, PassCell
  <1>6. /\ draft' \in [Key -> Quote \cup {NoQuote}]
        /\ IF table[key] = NoQuote THEN draft' = [table EXCEPT ![key] = quote]
           ELSE draft' = table /\ Same(table[key], quote)
    BY <1>1, <1>2 DEF InsertCell, OnConflict, Kept, IsRepeat, Same
  <1> HIDE DEF next
  <1>7. request'[r] = next /\ next # None
    BY <1>3, <1>4, NothingIsReading DEF RatesInv, TypeOK
  <1>8. /\ IsMerged(rates, draft', next) /\ IsFiniteSet(Added(rates, draft'))
        /\ next.inserted = Cardinality(Added(rates, draft'))
    <2>1. rates \in [Key -> Quote \cup {NoQuote}] /\ next.sheet = at.sheet
      BY <1>4 DEF RatesInv, TypeOK, Follows
    <2>2. CASE table[key] = NoQuote
      <3>1. draft'[key] = quote /\ \A k \in Key : k # key => draft'[k] = table[k]
        BY <1>1, <1>2, <1>6, <2>2
      <3>2. /\ IsMerged(rates, draft', next) /\ key \notin Added(rates, table)
            /\ Added(rates, draft') = Added(rates, table) \cup {key}
        BY <1>1, <1>2, <1>4, <1>5, <2>1, <2>2, <3>1, MergeCell
      <3>3. next.inserted = at.inserted + 1
        BY <1>4, <2>2
      <3> QED
        BY <1>2, <3>2, <3>3, FS_AddElement
    <2>3. CASE table[key] # NoQuote
      <3>1. draft' = table /\ Same(table[key], quote) /\ next.inserted = at.inserted
        BY <1>4, <1>6, <2>3
      <3>2. IsMerged(rates, draft', next)
        BY <1>1, <1>2, <1>4, <1>5, <2>1, <2>3, <3>1, MergeCell
      <3> QED
        BY <1>2, <3>1, <3>2
    <2> QED
      BY <2>2, <2>3
  <1>9. next.inserted + next.skipped + next.empty = Covered(next)
    BY <1>1, <1>2, <1>4, <1>5 DEF Reading
  <1>10. ReadingInv(r)'
    BY <1>3, <1>5, <1>7, <1>8, <1>9 DEF ReadingInv
  <1>11. TypeOK'
    BY <1>3, <1>4, <1>6, <1>7 DEF RatesInv, TypeOK, Reading
  <1>12. ASSUME NEW s \in Requests, request'[s] # None
         PROVE  ReadingInv(s)'
    <2>1. CASE s = r
      BY <1>10, <2>1
    <2>2. CASE s # r
      <3>1. request'[s] = request[s] /\ writer # s /\ writer' # s
        BY <1>3, <2>2, MarksAssumption DEF RatesInv, TypeOK
      <3> QED
        BY <1>12, <3>1, ReadingStays DEF RatesInv
    <2> QED
      BY <2>1, <2>2
  <1> QED
    BY <1>11, <1>12 DEF RatesInv

\* A request that ends leaves the table as it is, or as it has seen it.
LEMMA FinishStep ==
  ASSUME RatesInv, NEW r \in Requests, request[r] # None, Finish(r), UNCHANGED draft,
         rates' \in [Key -> Quote \cup {NoQuote}], writer # r => rates' = rates
  PROVE  RatesInv'
  <1>1. writer' = IF writer = r THEN None ELSE writer
    BY DEF Finish
  <1>2. request'[r] = None /\ \A s \in Requests : s # r => request'[s] = request[s]
    BY DEF Finish, RatesInv, TypeOK
  <1>3. TypeOK'
    <2>1. \A s \in Requests : writer' = s => request'[s] # None
      BY <1>1, <1>2, MarksAssumption DEF RatesInv, TypeOK
    <2> QED
      BY <1>1, <2>1 DEF Finish, RatesInv, TypeOK
  <1>4. ASSUME NEW s \in Requests, request'[s] # None
        PROVE  ReadingInv(s)'
    <2>1. s # r /\ request'[s] = request[s] /\ ReadingInv(s)
      BY <1>2, <1>4 DEF RatesInv
    <2>2. CASE writer = r
      <3>1. writer # s /\ writer' # s
        BY <1>1, <2>1, <2>2, MarksAssumption
      <3> QED
        BY <2>1, <3>1, ReadingStays
    <2>3. CASE writer # r
      BY <1>1, <2>1, <2>3, ReadingStays
    <2> QED
      BY <2>2, <2>3
  <1> QED
    BY <1>3, <1>4 DEF RatesInv

LEMMA CommitStep ==
  ASSUME RatesInv, NEW r \in Requests, Commit(r)
  PROVE  RatesInv'
  BY SeenIsMerged, FinishStep DEF Commit, Seen

LEMMA FailStep ==
  ASSUME RatesInv, NEW r \in Requests, Fail(r)
  PROVE  RatesInv'
  BY FinishStep DEF Fail, Undone, RatesInv, TypeOK

\* A save by hand, while nobody writes.
LEMMA SaveStep ==
  ASSUME RatesInv, writer = None, UNCHANGED <<request, writer, draft>>,
         rates' \in [Key -> Quote \cup {NoQuote}]
  PROVE  RatesInv'
  <1>1. \A s \in Requests : writer # s /\ writer' # s
    BY MarksAssumption
  <1>2. TypeOK'
    BY DEF RatesInv, TypeOK
  <1> QED
    BY <1>1, <1>2, ReadingStays DEF RatesInv

LEMMA ManualQuote ==
  ASSUME NEW quote \in SavedQuotes
  PROVE  Manual(quote) \in Quote /\ Manual(quote).source = "manual"
  BY RatesAssumption DEF Manual, Quote

LEMMA RatesNext == RatesInv /\ [Next]_vars => RatesInv'
  <1> SUFFICES ASSUME RatesInv, [Next]_vars PROVE RatesInv'
    OBVIOUS
  <1>1. ASSUME NEW r \in Requests, NEW file \in Files, NEW asked, ImportReferenceRates(r, file, asked)
        PROVE  RatesInv'
    BY <1>1, ImportStep
  <1>2. ASSUME NEW r \in Requests,
               StartRow(r) \/ SkipEmptyCell(r) \/ InsertCell(r) \/ Commit(r) \/ Fail(r)
        PROVE  RatesInv'
    BY <1>2, StartRowStep, SkipStep, InsertStep, CommitStep, FailStep
  <1>3. ASSUME NEW key \in Key, NEW quote \in SavedQuotes, CreateReferenceRate(key, quote)
        PROVE  RatesInv'
    <2>1. rates' \in [Key -> Quote \cup {NoQuote}]
      BY <1>3, ManualQuote DEF CreateReferenceRate, RatesInv, TypeOK
    <2> QED
      BY <1>3, <2>1, SaveStep DEF CreateReferenceRate
  <1>4. ASSUME NEW key \in Key, NEW old \in Key, NEW quote \in SavedQuotes,
               UpdateReferenceRate(old, key, quote)
        PROVE  RatesInv'
    <2>1. rates' \in [Key -> Quote \cup {NoQuote}]
      BY <1>4, ManualQuote DEF UpdateReferenceRate, RatesInv, TypeOK
    <2> QED
      BY <1>4, <2>1, SaveStep DEF UpdateReferenceRate
  <1>5. CASE UNCHANGED vars
    <2>1. TypeOK'
      BY <1>5 DEF vars, RatesInv, TypeOK
    <2> QED
      BY <1>5, <2>1, ReadingStays DEF vars, RatesInv
  <1> QED
    BY <1>1, <1>2, <1>3, <1>4, <1>5 DEF Next

\* RatesInv is an invariant: what the writer sees is the committed table merged
\* with the quotes it has read, and who does not write has read none.
THEOREM DraftsAreMerged == Spec => []RatesInv
  BY RatesInit, RatesNext, PTL DEF Spec

\* The summary of an import is true at each of its cells.
THEOREM SummariesAreTrue == Spec => []CountsAreTrue
  <1>1. ASSUME RatesInv
        PROVE  CountsAreTrue
    <2>1. TypeOK
      BY <1>1 DEF RatesInv
    <2>2. ASSUME NEW r \in Requests, request[r] # None
          PROVE  LET added == {key \in Key : Seen(r)[key] # rates[key]}
                     done == {i \in 1 .. request[r].row - 1 : ~BlankRow(request[r].sheet.rows[i])}
                     inRow == IF request[r].column = 0 THEN 0 ELSE request[r].column - 1
                 IN  /\ request[r].inserted = Cardinality(added)
                     /\ \A key \in added : rates[key] = NoQuote
                     /\ request[r].inserted + request[r].skipped + request[r].empty
                           = Cardinality(done) * Len(Columns(r)) + inRow
      <3>1. /\ ReadingInv(r) /\ IsMerged(rates, Seen(r), request[r])
            /\ request[r].inserted = Cardinality(Added(rates, Seen(r)))
        BY <1>1, <2>2, SeenIsMerged
      <3>2. \A key \in Added(rates, Seen(r)) : rates[key] = NoQuote
        BY <3>1 DEF IsMerged, Added
      <3>3. request[r].inserted + request[r].skipped + request[r].empty = Covered(request[r])
        BY <3>1 DEF ReadingInv
      <3> QED
        BY <3>1, <3>2, <3>3 DEF Added, Covered, Done, Columns
    <2> QED
      BY <2>1, <2>2 DEF CountsAreTrue
  <1> QED
    BY <1>1, DraftsAreMerged, PTL

---------------------------------------------------------------------------
(* Refinement *)

\* At the end of a worksheet all its quotes have been read, and it is readable.
LEMMA ReadToTheEnd ==
  ASSUME NEW at \in Reading, ReadsWell(at), at.row > Len(at.sheet.rows)
  PROVE  /\ Readable(at.sheet)
         /\ \A i, c : IsRateCell(at.sheet, i, c) => HasRead(at, i, c)
  <1> DEFINE sheet == at.sheet
  <1>1. /\ at.row \in Nat /\ Len(sheet.rows) \in Nat /\ DOMAIN sheet.rows = 1 .. Len(sheet.rows)
    BY SheetParts DEF Reading
  <1>2. \A i \in DOMAIN sheet.rows : i < at.row
    BY <1>1
  <1>3. ASSUME NEW i \in DOMAIN sheet.rows, ~BlankRow(sheet.rows[i])
        PROVE  /\ RowOK(sheet, sheet.rows[i])
               /\ \A c \in DOMAIN sheet.rows[i].cells : sheet.rows[i].cells[c] # Bad
    BY <1>2, <1>3 DEF ReadsWell, IsPast
  <1> QED
    BY <1>2, <1>3 DEF Readable, RowOK, ReadsWell, HasRead, IsPast, IsRateCell

LEMMA InQuotesOf ==
  ASSUME NEW sheet, NEW p
  PROVE  p \in QuotesOf(sheet) <=> \E i \in DOMAIN sheet.rows : \E c \in DOMAIN sheet.rows[i].cells :
             IsRateCell(sheet, i, c) /\ p = <<KeyAt(sheet, i, c), QuoteAt(sheet, i, c)>>
  BY DEF QuotesOf, IsRateCell, KeyAt, QuoteAt

\* The table of a writer that has read all is the one that Merge makes.
LEMMA MergedIsMerge ==
  ASSUME RatesInv, NEW at \in Reading, ReadsWell(at), at.row > Len(at.sheet.rows),
         NEW table \in [Key -> Quote \cup {NoQuote}], IsMerged(rates, table, at)
  PROVE  Table!Agrees(QuotesOf(at.sheet)) /\ table = Table!Merged(QuotesOf(at.sheet))
  <1> DEFINE batch == QuotesOf(at.sheet)
  <1>1. ASSUME NEW p \in batch
        PROVE  /\ p[1] \in Key /\ p[2] \in Quote /\ p[2].source = "workbook"
               /\ table[p[1]] # NoQuote /\ Same(table[p[1]], p[2]) /\ p = <<p[1], p[2]>>
    <2>1. PICK i \in DOMAIN at.sheet.rows : \E c \in DOMAIN at.sheet.rows[i].cells :
              IsRateCell(at.sheet, i, c) /\ p = <<KeyAt(at.sheet, i, c), QuoteAt(at.sheet, i, c)>>
      BY InQuotesOf
    <2>2. PICK c \in DOMAIN at.sheet.rows[i].cells :
              IsRateCell(at.sheet, i, c) /\ p = <<KeyAt(at.sheet, i, c), QuoteAt(at.sheet, i, c)>>
      BY <2>1
    <2>3. HasRead(at, i, c)
      BY <2>2, ReadToTheEnd
    <2>4. /\ table[KeyAt(at.sheet, i, c)] # NoQuote
          /\ Same(table[KeyAt(at.sheet, i, c)], QuoteAt(at.sheet, i, c))
      BY <2>3 DEF IsMerged
    <2>5. QuoteAt(at.sheet, i, c).source = "workbook"
      BY DEF QuoteAt
    <2> QED
      BY <2>2, <2>3, <2>4, <2>5, ReadQuotes
  <1>2. ASSUME NEW key \in Key, table[key] # rates[key]
        PROVE  rates[key] = NoQuote /\ <<key, table[key]>> \in batch
    BY <1>2, InQuotesOf DEF IsMerged, HasRead
  <1>3. Table!Agrees(batch)
    <2>1. ASSUME NEW p \in batch
          PROVE  rates[p[1]] = NoQuote \/ Table!Same(rates[p[1]], p[2])
      BY <1>1, <1>2 DEF Same, Table!Same
    <2>2. ASSUME NEW p \in batch, NEW q \in batch, p[1] = q[1]
          PROVE  Table!Same(p[2], q[2])
      BY <1>1, <2>2 DEF Same, Table!Same
    <2> QED
      BY <2>1, <2>2 DEF Table!Agrees
  <1>4. ASSUME NEW key \in Key
        PROVE  table[key] = IF rates[key] = NoQuote /\ \E p \in batch : p[1] = key
                            THEN (CHOOSE p \in batch : p[1] = key)[2] ELSE rates[key]
    <2>1. CASE rates[key] = NoQuote /\ \E p \in batch : p[1] = key
      <3> DEFINE chosen == CHOOSE p \in batch : p[1] = key
      <3>1. chosen \in batch /\ chosen[1] = key
        BY <2>1
      <3> HIDE DEF chosen
      <3>2. table[key] # NoQuote /\ Same(table[key], chosen[2]) /\ chosen[2] \in Quote
            /\ chosen[2].source = "workbook"
        BY <1>1, <3>1
      <3>3. <<key, table[key]>> \in batch
        BY <1>2, <2>1, <3>2
      <3>4. table[key] \in Quote /\ table[key].source = "workbook"
        BY <1>1, <3>3
      <3>5. table[key] = chosen[2]
        BY <3>2, <3>4 DEF Same, Quote
      <3> QED
        BY <2>1, <3>5 DEF chosen
    <2>2. CASE ~(rates[key] = NoQuote /\ \E p \in batch : p[1] = key)
      BY <1>2, <2>2
    <2> QED
      BY <2>1, <2>2
  <1>5. table = Table!Merged(batch)
    BY <1>4 DEF Table!Merged, Table!Key, Key
  <1> QED
    BY <1>3, <1>5

LEMMA CommitMerges ==
  ASSUME RatesInv, NEW r \in Requests, Commit(r)
  PROVE  Table!Next \/ UNCHANGED rates
  <1> DEFINE at == request[r]
  <1>1. /\ request[r] # None /\ rates' = Seen(r) /\ at.row > Len(at.sheet.rows)
    BY DEF Commit, AtEnd
  <1>2. /\ at \in Reading /\ ReadsWell(at) /\ Seen(r) \in [Key -> Quote \cup {NoQuote}]
        /\ IsMerged(rates, Seen(r), at)
    BY <1>1, SeenIsMerged DEF ReadingInv
  <1>3. at.sheet \in Worksheets /\ Readable(at.sheet)
    BY <1>1, <1>2, ReadToTheEnd DEF Reading
  <1>4. Table!Merge(QuotesOf(at.sheet))
    BY <1>1, <1>2, MergedIsMerge DEF Table!Merge
  <1> QED
    BY <1>3, <1>4 DEF Table!Next

\* Imports that go cell by cell among other requests, and may fail at each, are
\* merged whole, one after the other, and replace nothing.
THEOREM ImportsAreMerges == Spec => ImplementsTable
  <1>1. Init => Table!Init
    BY DEF Init, Table!Init, Table!Key, Key
  <1>2. RatesInv /\ [Next]_vars => [Table!Next]_rates
    <2> SUFFICES ASSUME RatesInv, Next PROVE Table!Next \/ UNCHANGED rates
      BY DEF vars
    <2>1. ASSUME NEW r \in Requests, NEW file \in Files, NEW asked, ImportReferenceRates(r, file, asked)
          PROVE  UNCHANGED rates
      BY <2>1 DEF ImportReferenceRates
    <2>2. ASSUME NEW r \in Requests, StartRow(r) \/ SkipEmptyCell(r) \/ InsertCell(r) \/ Fail(r)
          PROVE  UNCHANGED rates
      BY <2>2 DEF StartRow, SkipEmptyCell, InsertCell, Fail, Undone
    <2>3. ASSUME NEW r \in Requests, Commit(r)
          PROVE  Table!Next \/ UNCHANGED rates
      BY <2>3, CommitMerges
    <2>4. ASSUME NEW key \in Key, NEW quote \in SavedQuotes, CreateReferenceRate(key, quote)
          PROVE  Table!Next
      <3>1. Manual(quote) \in Table!Quote /\ Manual(quote).source = "manual" /\ key \in Table!Key
        BY ManualQuote DEF Table!Quote, Quote, Table!Key, Key
      <3>2. Table!Create(key, Manual(quote))
        BY <2>4 DEF CreateReferenceRate, Taken, Table!Create
      <3> QED
        BY <3>1, <3>2 DEF Table!Next
    <2>5. ASSUME NEW key \in Key, NEW old \in Key, NEW quote \in SavedQuotes,
                 UpdateReferenceRate(old, key, quote)
          PROVE  Table!Next
      <3>1. /\ Manual(quote) \in Table!Quote /\ Manual(quote).source = "manual"
            /\ key \in Table!Key /\ old \in Table!Key
        BY ManualQuote DEF Table!Quote, Quote, Table!Key, Key
      <3>2. Table!Edit(old, key, Manual(quote))
        BY <2>5 DEF UpdateReferenceRate, Taken, Table!Edit
      <3> QED
        BY <3>1, <3>2 DEF Table!Next
    <2> QED
      BY <2>1, <2>2, <2>3, <2>4, <2>5 DEF Next
  <1> QED
    BY <1>1, <1>2, DraftsAreMerged, PTL DEF Spec, ImplementsTable, Table!Spec

---------------------------------------------------------------------------
(* The value of an invoice *)

LEMMA LeastNumber ==
  ASSUME NEW S \in SUBSET Nat, S # {}
  PROVE  \E m \in S : \A k \in S : m <= k
  <1> DEFINE less == {pair \in Nat \X Nat : pair[1] < pair[2]}
  <1>1. IsWellFoundedOn(less, Nat)
    BY NatLessThanWellFounded, Zenon DEF OpToRel
  <1> HIDE DEF less
  <1>2. PICK m \in S : \A k \in S : <<k, m>> \notin less
    BY <1>1, WFMin, Zenon
  <1>3. \A k \in S : ~(k < m)
    BY <1>2 DEF less
  <1> QED
    BY <1>3

LEMMA GreatestNumber ==
  ASSUME NEW S \in SUBSET Nat, S # {}, NEW bound \in Nat, \A n \in S : n <= bound
  PROVE  Max(S) \in S
  <1> DEFINE gaps == {bound - n : n \in S}
  <1>0. \A n \in S : n \in Nat /\ bound - n \in Nat
    OBVIOUS
  <1>1. gaps \in SUBSET Nat /\ gaps # {}
    BY <1>0
  <1>2. PICK gap \in gaps : \A other \in gaps : gap <= other
    BY <1>1, LeastNumber
  <1>3. PICK m \in S : gap = bound - m
    BY <1>2
  <1>4. \A n \in S : m >= n
    BY <1>0, <1>2, <1>3
  <1> QED
    BY <1>4 DEF Max

\* x is y up to e parts in Precision.
Close(x, y, e) == Precision * (x - y) <= e * y /\ Precision * (y - x) <= e * y

LEMMA NearIsClose ==
  ASSUME NEW x, NEW n \in Nat, NEW d \in Nat, IsNear(x, n, d)
  PROVE  x \in Nat /\ Close(x * d, n, 1)
  BY DEF IsNear, Close

\* A double close to a number that is close to another one.
LEMMA CloseTrans ==
  ASSUME NEW x \in Nat, NEW y \in Nat, NEW z \in Nat, NEW e \in Nat,
         e <= Precision, Close(x, y, e), Close(z, x, 1)
  PROVE  Close(z, y, e + 2)
  <1> DEFINE K == Precision
             xy == K * (x - y)
             yx == K * (y - x)
             zx == K * (z - x)
             xz == K * (x - z)
             ey == e * y
             Ky == K * y
  <1>1. K \in Nat
    BY FloatAssumption
  <1>2. /\ xy <= ey /\ yx <= ey /\ zx <= x /\ xz <= x
    BY DEF Close
  <1>3. ey <= Ky /\ ey \in Nat /\ Ky \in Nat
    BY <1>1
  <1>4. x <= 2 * y
    <2>1. CASE K = 0
      <3>1. e = 0
        BY <2>1
      <3> QED
        BY <1>1, <2>1, FloatAssumption
    <2>2. CASE K > 0
      <3>1. K * (x - y) <= K * y
        BY <1>2, <1>3, <1>1
      <3>2. ASSUME y + 1 <= x - y PROVE FALSE
        <4>1. K * (y + 1) <= K * (x - y)
          BY <1>1, <3>2
        <4>2. K * (y + 1) = Ky + K
          BY <1>1
        <4> QED
          BY <1>1, <1>3, <2>2, <3>1, <4>1, <4>2
      <3> QED
        BY <3>2
    <2> QED
      BY <1>1, <2>1, <2>2
  <1>5. K * (z - y) = zx + xy /\ K * (y - z) = yx + xz
    BY <1>1
  <1>6. (e + 2) * y = ey + 2 * y
    OBVIOUS
  <1>7. xy \in Int /\ yx \in Int /\ zx \in Int /\ xz \in Int
    BY <1>1
  <1> HIDE DEF K, xy, yx, zx, xz, ey
  <1>8. K * (z - y) <= ey + 2 * y /\ K * (y - z) <= ey + 2 * y
    BY <1>2, <1>3, <1>4, <1>5, <1>7
  <1> QED
    BY <1>6, <1>8 DEF Close, K

\* Both sides times the same number.
LEMMA CloseScaled ==
  ASSUME NEW x \in Nat, NEW y \in Nat, NEW e \in Nat, NEW m \in Nat, Close(x, y, e)
  PROVE  Close(x * m, y * m, e)
  <1> DEFINE ey == e * y
  <1>1. Precision \in Nat
    BY FloatAssumption
  <1>2. Precision * (x - y) \in Int /\ Precision * (y - x) \in Int /\ ey \in Int
    BY <1>1
  <1>3. (Precision * (x - y)) * m <= ey * m /\ (Precision * (y - x)) * m <= ey * m
    <2> DEFINE xy == Precision * (x - y)
               yx == Precision * (y - x)
    <2>1. xy <= ey /\ yx <= ey
      BY DEF Close
    <2> HIDE DEF xy, yx, ey
    <2> QED
      BY <1>2, <2>1 DEF xy, yx
  <1>4. /\ Precision * (x * m - y * m) = (Precision * (x - y)) * m
        /\ Precision * (y * m - x * m) = (Precision * (y - x)) * m
        /\ e * (y * m) = ey * m
    BY <1>1
  <1> QED
    BY <1>3, <1>4 DEF Close

\* ... and without it again.
LEMMA CloseUnscaled ==
  ASSUME NEW x \in Nat, NEW y \in Nat, NEW e \in Nat, NEW m \in Nat \ {0}, Close(x * m, y * m, e)
  PROVE  Close(x, y, e)
  <1> DEFINE ey == e * y
             xy == Precision * (x - y)
             yx == Precision * (y - x)
  <1>1. Precision \in Nat
    BY FloatAssumption
  <1>2. xy \in Int /\ yx \in Int /\ ey \in Int
    BY <1>1
  <1>3. /\ Precision * (x * m - y * m) = xy * m
        /\ Precision * (y * m - x * m) = yx * m
        /\ e * (y * m) = ey * m
    BY <1>1
  <1>4. xy * m <= ey * m /\ yx * m <= ey * m
    BY <1>3 DEF Close
  <1> SUFFICES xy <= ey /\ yx <= ey
    BY DEF Close
  <1> HIDE DEF xy, yx, ey
  <1>5. ASSUME NEW a \in Int, NEW b \in Int, a * m <= b * m
        PROVE  a <= b
    <2>1. ASSUME b + 1 <= a PROVE FALSE
      <3>1. (b + 1) * m <= a * m
        BY <2>1
      <3>2. (b + 1) * m = b * m + m /\ b * m \in Int /\ a * m \in Int
        OBVIOUS
      <3> DEFINE am == a * m
                 bm == b * m
      <3> HIDE DEF am, bm
      <3>3. bm + m <= am /\ am <= bm /\ am \in Int /\ bm \in Int
        BY <1>5, <3>1, <3>2 DEF am, bm
      <3> QED
        BY <3>3
    <2> QED
      BY <2>1
  <1> QED
    BY <1>2, <1>4, <1>5

\* The five roundings of a value add up to 9 parts in Precision.
LEMMA PaiseAreClose ==
  ASSUME NEW inv \in Invoices, inv.currency # Inr, NEW q \in Quote
  PROVE  /\ InPaise(inv, q) \in Nat
         /\ Close(InPaise(inv, q) * (q.units * RateScale), inv.amount * (q.rate * One), 9)
  <1> DEFINE a == inv.amount
             r == q.rate
             u == q.units
             S == RateScale
             O == One
             A == Amount(inv)
             R == RateInr(q)
             E == ExchangeRate(q)
             P == Product(inv, q)
             H == InPaise(inv, q)
  <1>1. /\ a \in Nat /\ r \in Nat /\ u \in Nat \ {0}
        /\ S \in Nat \ {0} /\ O \in Nat \ {0} /\ Precision \in Nat /\ 7 <= Precision
    <2>1. Limit \in Nat \ {0} /\ Precision \in Nat /\ 18 * Limit < Precision
      BY FloatAssumption
    <2>2. 7 <= Precision
      BY <2>1
    <2>3. S \in Nat \ {0} /\ O \in Nat \ {0}
      BY FloatAssumption
    <2>4. a \in Nat /\ r \in Nat /\ u \in Nat \ {0}
      BY InvoicesAssumption, RatesAssumption DEF Quote
    <2> QED
      BY <2>1, <2>2, <2>3, <2>4
  <1>2. /\ IsNear(A, a * O, 100) /\ IsNear(R, r * O, S) /\ IsNear(E, R, u)
        /\ IsNear(P, A * E, O) /\ IsNear(H, P * 100, 1)
    <2> DEFINE quote == [rate |-> r, units |-> u]
    <2>1. quote \in [rate: Rates, units: Units]
      BY DEF Quote
    <2>2. /\ RateInr(quote) = R /\ ExchangeRate(quote) = E
          /\ Product(inv, quote) = P /\ InPaise(inv, quote) = H
      BY DEF RateInr, ExchangeRate, Product, InPaise
    <2>3. quote.rate = r /\ quote.units = u
      OBVIOUS
    <2> HIDE DEF quote, R, E, P, H
    <2> QED
      BY <2>1, <2>2, <2>3, FloatAssumption
  <1> HIDE DEF a, r, u, S, O, A, R, E, P, H
  <1>3. /\ A \in Nat /\ R \in Nat /\ E \in Nat /\ P \in Nat /\ H \in Nat
    BY <1>2 DEF IsNear
  <1>4. /\ Close(A * 100, a * O, 1) /\ Close(R * S, r * O, 1) /\ Close(E * u, R, 1)
        /\ Close(P * O, A * E, 1) /\ Close(H * 1, P * 100, 1)
    <2>1. a * O \in Nat /\ r * O \in Nat /\ A * E \in Nat /\ P * 100 \in Nat
      BY <1>1, <1>3
    <2>2. \A x, n, d : n \in Nat /\ d \in Nat /\ IsNear(x, n, d) => Close(x * d, n, 1)
      BY NearIsClose
    <2> QED
      BY <1>1, <1>2, <1>3, <2>1, <2>2
  <1> DEFINE exact == (r * O) * (a * O)
             Eus == (E * u) * S
  <1>5. /\ Eus \in Nat /\ exact \in Nat /\ R * S \in Nat /\ r * O \in Nat /\ a * O \in Nat
        /\ A * 100 \in Nat /\ E * u \in Nat /\ P * O \in Nat /\ A * E \in Nat
        /\ P * 100 \in Nat /\ H * 1 \in Nat /\ 100 * (u * S) \in Nat /\ O * (u * S) \in Nat
    BY <1>1, <1>3
  <1>6. Close(Eus, r * O, 3)
    <2>1. Close((E * u) * S, R * S, 1)
      BY <1>1, <1>3, <1>4, <1>5, CloseScaled
    <2>2. Close(Eus, r * O, 1 + 2)
      BY <1>1, <1>4, <1>5, <2>1, CloseTrans
    <2> QED
      BY <2>2
  <1>7. Close((A * E) * (100 * (u * S)), exact, 5)
    <2>1. Close((A * 100) * Eus, (a * O) * Eus, 1)
      BY <1>4, <1>5, CloseScaled
    <2>2. Close(Eus * (a * O), exact, 3)
      BY <1>5, <1>6, CloseScaled
    <2>3. (A * 100) * Eus \in Nat /\ Eus * (a * O) \in Nat /\ (a * O) * Eus = Eus * (a * O)
      BY <1>5
    <2>4. Close((A * 100) * Eus, exact, 3 + 2)
      BY <1>1, <1>5, <2>1, <2>2, <2>3, CloseTrans
    <2>5. (A * 100) * Eus = (A * E) * (100 * (u * S))
      BY <1>1, <1>3
    <2> QED
      BY <2>4, <2>5
  <1>8. Close((P * 100) * (O * (u * S)), exact, 7)
    <2>1. Close((P * O) * (100 * (u * S)), (A * E) * (100 * (u * S)), 1)
      BY <1>4, <1>5, CloseScaled
    <2>2. (P * O) * (100 * (u * S)) \in Nat /\ (A * E) * (100 * (u * S)) \in Nat
      BY <1>5
    <2>3. Close((P * O) * (100 * (u * S)), exact, 5 + 2)
      BY <1>1, <1>5, <1>7, <2>1, <2>2, CloseTrans
    <2>4. (P * O) * (100 * (u * S)) = (P * 100) * (O * (u * S))
      BY <1>1, <1>3
    <2> QED
      BY <2>3, <2>4
  <1>9. Close(H * (O * (u * S)), exact, 9)
    <2>1. Close((H * 1) * (O * (u * S)), (P * 100) * (O * (u * S)), 1)
      BY <1>4, <1>5, CloseScaled
    <2>2. (H * 1) * (O * (u * S)) \in Nat /\ (P * 100) * (O * (u * S)) \in Nat
      BY <1>5
    <2>3. Close((H * 1) * (O * (u * S)), exact, 7 + 2)
      BY <1>1, <1>5, <1>8, <2>1, <2>2, CloseTrans
    <2>4. H * 1 = H
      BY <1>3
    <2> QED
      BY <2>3, <2>4
  <1>10. Close(H * (u * S), a * (r * O), 9)
    <2>1. H * (u * S) \in Nat /\ a * (r * O) \in Nat
      BY <1>1, <1>3
    <2>2. (H * (u * S)) * O = H * (O * (u * S)) /\ (a * (r * O)) * O = exact
      BY <1>1, <1>3
    <2> HIDE DEF exact
    <2> QED
      BY <1>1, <1>9, <2>1, <2>2, CloseUnscaled
  <1> QED
    BY <1>3, <1>10 DEF a, r, u, S, O, H

\* Two quotes of the same price put an amount within a paisa.
LEMMA PriceGivesPaise ==
  ASSUME NEW inv \in Invoices, inv.currency # Inr, NEW q \in Quote, NEW p \in Quote,
         q.rate * p.units = p.rate * q.units,
         inv.amount * q.rate <= Limit * (RateScale * q.units)
  PROVE  /\ InPaise(inv, q) < InPaise(inv, p) + One
         /\ InPaise(inv, p) < InPaise(inv, q) + One
  <1> DEFINE a == inv.amount
             r == q.rate
             u == q.units
             s == p.rate
             v == p.units
             S == RateScale
             O == One
             K == Precision
             G == InPaise(inv, q)
             H == InPaise(inv, p)
             y == (a * (r * O)) * v
             m == (u * S) * v
  <1>1. /\ a \in Nat /\ r \in Nat /\ s \in Nat /\ u \in Nat \ {0} /\ v \in Nat \ {0}
        /\ S \in Nat \ {0} /\ O \in Nat \ {0} /\ K \in Nat /\ Limit \in Nat /\ 18 * Limit < K
    BY InvoicesAssumption, RatesAssumption, FloatAssumption DEF Quote
  <1>2. /\ G \in Nat /\ Close(G * (u * S), a * (r * O), 9)
        /\ H \in Nat /\ Close(H * (v * S), a * (s * O), 9)
    BY PaiseAreClose
  <1>3. r * v = s * u /\ a * r <= Limit * (S * u)
    OBVIOUS
  <1> HIDE DEF a, r, u, s, v, S, O, K, G, H
  <1>4. y \in Nat /\ m \in Nat \ {0}
    <2>1. y \in Nat /\ u * S \in Nat /\ u * S # 0
      BY <1>1
    <2>2. \A i, j \in Nat : i # 0 /\ j # 0 => i * j \in Nat /\ i * j # 0
      OBVIOUS
    <2> QED
      BY <1>1, <2>1, <2>2
  <1>5. Close(G * m, y, 9)
    <2>1. G * (u * S) \in Nat /\ a * (r * O) \in Nat
      BY <1>1, <1>2
    <2>2. Close((G * (u * S)) * v, (a * (r * O)) * v, 9)
      BY <1>1, <1>2, <2>1, CloseScaled
    <2>3. (G * (u * S)) * v = G * m
      BY <1>1, <1>2
    <2> QED
      BY <2>2, <2>3
  <1>6. Close(H * m, y, 9)
    <2>1. H * (v * S) \in Nat /\ a * (s * O) \in Nat
      BY <1>1, <1>2
    <2>2. Close((H * (v * S)) * u, (a * (s * O)) * u, 9)
      BY <1>1, <1>2, <2>1, CloseScaled
    <2>3. (H * (v * S)) * u = H * m
      BY <1>1, <1>2
    <2>4. (a * (s * O)) * u = (a * O) * (s * u) /\ y = (a * O) * (r * v)
      BY <1>1
    <2> QED
      BY <1>3, <2>2, <2>3, <2>4
  <1>7. y <= (Limit * O) * m
    <2> DEFINE ov == O * v
               ar == a * r
               bound == Limit * (S * u)
    <2>1. ov \in Nat /\ ar \in Nat /\ bound \in Nat /\ ar <= bound
      BY <1>1, <1>3
    <2>2. y = ar * ov /\ (Limit * O) * m = bound * ov
      BY <1>1
    <2> HIDE DEF ov, ar, bound
    <2>3. ar * ov <= bound * ov
      BY <2>1
    <2> QED
      BY <2>2, <2>3
  <1> HIDE DEF y, m
  <1>8. ASSUME NEW g \in Nat, NEW h \in Nat, Close(g * m, y, 9), Close(h * m, y, 9)
        PROVE  g < h + O
    <2> DEFINE gm == g * m
               hm == h * m
               b == (18 * Limit) * O
               d == K * (g - h)
    <2>1. gm \in Nat /\ hm \in Nat /\ b \in Nat /\ d \in Int
      BY <1>1, <1>4
    <2>2. K * (gm - y) <= 9 * y /\ K * (y - hm) <= 9 * y
      BY <1>8 DEF Close, K
    <2>3. d * m = K * (gm - y) + K * (y - hm)
      BY <1>1, <1>4
    <2>4. b * m = 18 * ((Limit * O) * m) /\ (Limit * O) * m \in Nat
      BY <1>1, <1>4
    <2>5. K * (gm - y) \in Int /\ K * (y - hm) \in Int
      BY <1>1, <1>4, <2>1
    <2> HIDE DEF gm, hm, b, d
    <2>6. d * m <= b * m
      BY <1>4, <1>7, <2>2, <2>3, <2>4, <2>5
    <2>7. d <= b
      <3> SUFFICES ASSUME b + 1 <= d PROVE FALSE
        BY <2>1
      <3>1. (b + 1) * m <= d * m
        BY <1>4, <2>1
      <3>2. (b + 1) * m = b * m + m /\ b * m \in Int /\ d * m \in Int
        BY <1>4, <2>1
      <3> QED
        BY <1>4, <2>6, <3>1, <3>2
    <2>8. b < K * O
      <3>1. K * O >= (18 * Limit + 1) * O
        BY <1>1
      <3>2. (18 * Limit + 1) * O = b + O /\ K * O \in Nat
        BY <1>1 DEF b
      <3> QED
        BY <1>1, <2>1, <3>1, <3>2
    <2> SUFFICES ASSUME O <= g - h PROVE FALSE
      BY <1>1
    <2>9. K * O <= K * (g - h)
      BY <1>1
    <2> QED
      BY <1>1, <2>1, <2>7, <2>8, <2>9 DEF d
  <1> QED
    BY <1>2, <1>5, <1>6, <1>8 DEF G, H, O

\* Within a paisa, numbers are rounded to the same paisa or to neighbours.
LEMMA RoundedNeighbours ==
  ASSUME NEW g \in Nat, NEW h \in Nat, g < h + One
  PROVE  Rounded(g) <= Rounded(h) + 1
  <1> DEFINE d == 2 * One
             m == 2 * g + One
             n == 2 * h + One
             x == m \div d
             z == n \div d
  <1>1. d \in Nat \ {0} /\ m \in Nat /\ n \in Nat /\ m < n + d
    BY FloatAssumption
  <1> HIDE DEF d, m, n
  <1>2. /\ x \in Nat /\ x * d <= m
        /\ z \in Nat /\ n < z * d + d
    BY <1>1
  <1> HIDE DEF x, z
  <1>3. ASSUME z + 2 <= x PROVE FALSE
    <2>1. (z + 2) * d <= x * d
      BY <1>1, <1>2, <1>3
    <2>2. (z + 2) * d = z * d + 2 * d /\ z * d \in Nat /\ x * d \in Nat
      BY <1>1, <1>2
    <2> QED
      BY <1>1, <1>2, <2>1, <2>2
  <1>4. Rounded(g) = x /\ Rounded(h) = z
    BY DEF Rounded, x, z, m, n, d
  <1> QED
    BY <1>2, <1>3, <1>4

LEMMA EqualFactors == \A i, j \in Nat, n \in Nat \ {0} : i * n = j * n => i = j
  <1> SUFFICES ASSUME NEW i \in Nat, NEW j \in Nat, NEW n \in Nat \ {0}, i * n = j * n, i < j
               PROVE  FALSE
    OBVIOUS
  <1>1. (i + 1) * n <= j * n
    OBVIOUS
  <1>2. (i + 1) * n = i * n + n /\ i * n \in Nat /\ j * n \in Nat
    OBVIOUS
  <1> QED
    BY <1>1, <1>2

\* The row of an invoice depends on the price of the quotes up to its date, and
\* on their units by at most a paisa.
LEMMA PricesGiveRow ==
  ASSUME TypeOK, TypeOK', NEW inv \in Invoices, PricesStay(inv),
         SummaryRow(inv)' # SummaryRow(inv)
  PROVE  LET before == SummaryRow(inv)
             after == SummaryRow(inv)'
             quote == rates[<<before.on, inv.currency>>]
         IN  /\ after.on = before.on
             /\ rates'[<<before.on, inv.currency>>].units # quote.units
             /\ inv.amount * quote.rate <= Limit * (RateScale * quote.units) =>
                   /\ after.value <= before.value + 1
                   /\ before.value <= after.value + 1
  <1> DEFINE known == QuoteDates(inv.currency, inv.date)
             on == ReferenceDate(inv.currency, inv.date)
             key == <<on, inv.currency>>
             q == rates[key]
             p == rates'[key]
  <1>1. inv.date \in Nat /\ inv.currency \in Currencies \cup {Inr}
    BY InvoicesAssumption
  <1>2. inv.currency # Inr
    BY DEF SummaryRow
  <1>3. \A d \in Dates : d <= inv.date =>
          (rates[<<d, inv.currency>>] # NoQuote <=> rates'[<<d, inv.currency>>] # NoQuote)
    BY <1>2 DEF PricesStay, Equivalent
  <1>4. QuoteDates(inv.currency, inv.date)' = known
    BY <1>3 DEF QuoteDates
  <1>5. ReferenceDate(inv.currency, inv.date)' = on
    BY <1>4 DEF ReferenceDate
  <1>6. on # 0
    BY <1>2, <1>5 DEF SummaryRow
  <1>7. known # {} /\ on = Max(known)
    BY <1>6 DEF ReferenceDate
  <1>8. known \in SUBSET Nat /\ \A n \in known : n <= inv.date
    BY RatesAssumption DEF QuoteDates
  <1>9. on \in known
    <2> HIDE DEF known, on
    <2> QED
      BY <1>1, <1>7, <1>8, GreatestNumber
  <1>10. on \in Dates /\ on <= inv.date
    BY <1>9 DEF QuoteDates
  <1>11. key \in Key /\ q # NoQuote /\ p # NoQuote
    BY <1>1, <1>2, <1>3, <1>9, <1>10 DEF Key, QuoteDates
  <1>12. q \in Quote /\ p \in Quote
    BY <1>11 DEF TypeOK
  <1>13. Equivalent(q, p)
    BY <1>2, <1>10 DEF PricesStay
  <1>14. /\ SummaryRow(inv) = [value |-> ValueInr(inv, q), on |-> on]
         /\ SummaryRow(inv)' = [value |-> ValueInr(inv, p), on |-> on]
    BY <1>2, <1>5, <1>6 DEF SummaryRow
  <1> HIDE DEF key, on, q, p
  <1>15. ValueInr(inv, q) # ValueInr(inv, p)
    BY <1>14
  <1>16. q.rate * p.units = p.rate * q.units
    BY <1>11, <1>13, <1>15 DEF Equivalent
  <1>17. p.units # q.units
    <2> SUFFICES ASSUME p.units = q.units PROVE FALSE
      OBVIOUS
    <2>1. p.rate \in Nat /\ q.rate \in Nat /\ q.units \in Nat \ {0}
      BY <1>12, RatesAssumption DEF Quote
    <2>2. p.rate = q.rate
      BY <1>16, <2>1, EqualFactors
    <2> QED
      BY <1>15, <2>2 DEF ValueInr, InPaise, Product, ExchangeRate, RateInr
  <1>18. ASSUME inv.amount * q.rate <= Limit * (RateScale * q.units)
         PROVE  /\ ValueInr(inv, p) <= ValueInr(inv, q) + 1
                /\ ValueInr(inv, q) <= ValueInr(inv, p) + 1
    <2>1. /\ InPaise(inv, q) < InPaise(inv, p) + One
          /\ InPaise(inv, p) < InPaise(inv, q) + One
      BY <1>2, <1>12, <1>16, <1>18, PriceGivesPaise
    <2>2. InPaise(inv, q) \in Nat /\ InPaise(inv, p) \in Nat
      BY <1>2, <1>12, PaiseAreClose
    <2> QED
      BY <2>1, <2>2, RoundedNeighbours DEF ValueInr
  <1>19. SummaryRow(inv).on = on /\ rates[<<on, inv.currency>>] = q /\ rates'[<<on, inv.currency>>] = p
    BY <1>14 DEF key, q, p
  <1> QED
    BY <1>14, <1>17, <1>18, <1>19

\* Whatever is imported or saved, the summary values an invoice as before while
\* the quotes of its currency up to its date keep their price (GetGSTR3BSummary):
\* to the paisa while the quote keeps its units, and within one if it does not.
THEOREM ValuesFollow == Spec => ValuesFollowQuotes
  <1> DEFINE ValueStays(inv, fy) ==
               LET before == GetGSTR3BSummary(fy).rows[inv]
                   after == GetGSTR3BSummary(fy)'.rows[inv]
                   quote == rates[<<before.on, inv.currency>>]
               IN  after # before =>
                     /\ after.on = before.on
                     /\ rates'[<<before.on, inv.currency>>].units # quote.units
                     /\ inv.amount * quote.rate <= Limit * (RateScale * quote.units) =>
                           /\ after.value <= before.value + 1
                           /\ before.value <= after.value + 1
  <1>1. ASSUME RatesInv, RatesInv', NEW inv \in Invoices, PricesStay(inv),
               NEW fy \in {None, inv.year}
        PROVE  ValueStays(inv, fy)
    <2>1. TypeOK /\ TypeOK'
      BY <1>1 DEF RatesInv
    <2>2. GetGSTR3BSummary(fy).rows[inv] = SummaryRow(inv)
      BY DEF GetGSTR3BSummary
    <2>3. GetGSTR3BSummary(fy)'.rows[inv] = SummaryRow(inv)'
      BY DEF GetGSTR3BSummary
    <2> QED
      BY <1>1, <2>1, <2>2, <2>3, PricesGiveRow
  <1>2. RatesInv /\ RatesInv' =>
          \A inv \in Invoices : PricesStay(inv) => \A fy \in {None, inv.year} : ValueStays(inv, fy)
    BY <1>1, Zenon
  <1> QED
    BY <1>2, DraftsAreMerged, RatesNext, PTL DEF ValuesFollowQuotes

---------------------------------------------------------------------------
(* A download *)

\* Each number of a finite set has a place in its order.
LEMMA AscendingHasAll ==
  ASSUME NEW S \in SUBSET Nat, IsFiniteSet(S), NEW n \in S
  PROVE  DOMAIN Ascending(S) = 1 .. Cardinality(S) /\ \E k \in DOMAIN Ascending(S) : Ascending(S)[k] = n
  <1> DEFINE before(m) == {b \in S : b < m}
             k == Rank(S, n) + 1
             found == CHOOSE m \in S : Rank(S, m) = k - 1
  <1>1. /\ Cardinality(S) \in Nat /\ \A m \in S : m \in Nat
        /\ \A m \in S : IsFiniteSet(before(m)) /\ Rank(S, m) = Cardinality(before(m)) /\ Rank(S, m) \in Nat
    <2>1. Cardinality(S) \in Nat
      BY FS_CardinalityType
    <2>2. \A m \in S : IsFiniteSet(before(m)) /\ Cardinality(before(m)) \in Nat
      BY FS_Subset, FS_CardinalityType
    <2>3. \A m \in S : Rank(S, m) = Cardinality(before(m))
      BY DEF Rank
    <2> QED
      BY <2>1, <2>2, <2>3
  <1>2. ASSUME NEW l \in S, NEW m \in S, l < m
        PROVE  Rank(S, l) < Rank(S, m)
    <2>1. before(l) \subseteq before(m) /\ l \in before(m) /\ l \notin before(l)
      <3>1. \A b \in S : b < l => b < m
        BY <1>1, <1>2
      <3>2. ~(l < l)
        BY <1>1
      <3> QED
        BY <1>2, <3>1, <3>2
    <2>2. /\ Cardinality(before(l)) <= Cardinality(before(m))
          /\ Cardinality(before(l)) # Cardinality(before(m))
      BY <1>1, <2>1, FS_Subset
    <2> QED
      BY <1>1, <2>2
  <1>3. k \in 1 .. Cardinality(S)
    <2>1. before(n) \in SUBSET S /\ n \notin before(n)
      BY <1>1
    <2>2. Cardinality(before(n)) <= Cardinality(S) /\ Cardinality(before(n)) # Cardinality(S)
      BY <2>1, FS_Subset
    <2> QED
      BY <1>1, <2>2
  <1>4. found \in S /\ Rank(S, found) = Rank(S, n)
    <2>1. Rank(S, n) = k - 1
      <3>1. Rank(S, n) \in Nat
        BY <1>1
      <3> HIDE DEF before
      <3> QED
        BY <3>1
    <2> HIDE DEF k
    <2> QED
      BY <2>1
  <1> HIDE DEF before, found, k
  <1>5. ~(found < n) /\ ~(n < found)
    <2>1. found < n => Rank(S, found) < Rank(S, n)
      BY <1>2, <1>4
    <2>2. n < found => Rank(S, n) < Rank(S, found)
      BY <1>2, <1>4
    <2> QED
      BY <1>1, <1>4, <2>1, <2>2
  <1>6. found = n
    BY <1>1, <1>4, <1>5
  <1> QED
    BY <1>3, <1>6 DEF Ascending, found

\* SetToSeq lists a finite set, each member once.
LEMMA SetToSeqLists ==
  ASSUME NEW S, IsFiniteSet(S)
  PROVE  /\ Cardinality(S) \in Nat
         /\ SetToSeq(S) \in [1 .. Cardinality(S) -> S] /\ SetToSeq(S) \in Seq(S)
         /\ DOMAIN SetToSeq(S) = 1 .. Cardinality(S) /\ Len(SetToSeq(S)) = Cardinality(S)
         /\ \A j, k \in DOMAIN SetToSeq(S) : SetToSeq(S)[j] = SetToSeq(S)[k] => j = k
         /\ \A x \in S : \E k \in DOMAIN SetToSeq(S) : SetToSeq(S)[k] = x
  <1> DEFINE n == Cardinality(S)
             seq == SetToSeq(S)
  <1>1. n \in Nat /\ ExistsBijection(1 .. n, S)
    BY FS_CardinalityType
  <1>2. \E f \in [1 .. n -> S] : IsInjective(f)
    BY <1>1 DEF ExistsBijection, Bijection, Injection
  <1>3. seq \in [1 .. n -> S] /\ IsInjective(seq)
    BY <1>2 DEF SetToSeq
  <1> HIDE DEF seq
  <1>4. \A x \in S : \E k \in 1 .. n : seq[k] = x
    <2>1. Cardinality(1 .. n) = n
      BY <1>1, FS_Interval
    <2>2. seq \in Injection(1 .. n, S)
      BY <1>3 DEF Injection
    <2>3. seq \in Surjection(1 .. n, S)
      BY <2>1, <2>2, FS_Injection
    <2> QED
      BY <2>3 DEF Surjection
  <1>5. seq \in Seq(S) /\ Len(seq) = n
    BY <1>1, <1>3
  <1> QED
    BY <1>1, <1>3, <1>4, <1>5 DEF IsInjective, seq

\* A range has finitely many rates, as there are finitely many currencies.
LEMMA RangeIsFinite ==
  ASSUME NEW from \in Dates, NEW to \in Dates
  PROVE  IsFiniteSet(InRange(from, to))
  <1> DEFINE days == {d \in Dates : d <= to}
  <1>1. days \in SUBSET Nat /\ to \in Nat /\ \A d \in days : d <= to
    BY RatesAssumption
  <1>2. IsFiniteSet(days)
    BY <1>1, FS_BoundedSetOfNaturals
  <1>3. IsFiniteSet(days \X Currencies)
    BY <1>2, InvoicesAssumption, FS_Product
  <1>4. InRange(from, to) \in SUBSET (days \X Currencies)
    BY DEF InRange, Key
  <1> QED
    BY <1>3, <1>4, FS_Subset

\* The parts of the sheet, and which of its cells have a rate.
LEMMA SheetOfRange ==
  ASSUME TypeOK, NEW from \in Dates, NEW to \in Dates
  PROVE  LET keys == InRange(from, to)
             sheet == DownloadReferenceRates(from, to)
             columns == {ColumnOf(key) : key \in keys}
         IN  /\ sheet.dated /\ sheet.columns \in Seq(columns)
             /\ \A c, d \in DOMAIN sheet.columns : sheet.columns[c] = sheet.columns[d] => c = d
             /\ \A key \in keys : \E c \in DOMAIN sheet.columns : sheet.columns[c] = ColumnOf(key)
             /\ \A i \in DOMAIN sheet.rows :
                   /\ DOMAIN sheet.rows[i].cells = DOMAIN sheet.columns
                   /\ \A c \in DOMAIN sheet.columns :
                        LET key == <<sheet.rows[i].date, sheet.columns[c].currency>>
                        IN  sheet.rows[i].cells[c] =
                               IF key \in keys /\ ColumnOf(key) = sheet.columns[c]
                               THEN rates[key].rate ELSE Empty
             /\ \A key \in keys : \E i \in DOMAIN sheet.rows : sheet.rows[i].date = key[1]
  <1> DEFINE keys == InRange(from, to)
             headers == {HeaderFor(key) : key \in keys}
             days == {key[1] : key \in keys}
             columns == SetToSeq(headers)
             dates == Ascending(days)
             cell(date, column) ==
                 LET key == <<date, column.currency>>
                 IN  IF key \in keys /\ HeaderFor(key) = column THEN rates[key].rate ELSE Empty
             sheet == DownloadReferenceRates(from, to)
  <1>1. IsFiniteSet(keys)
    BY RangeIsFinite
  <1>2. IsFiniteSet(headers)
    <2> DEFINE of == [key \in keys |-> HeaderFor(key)]
    <2>1. of \in Surjection(keys, headers)
      BY DEF Surjection
    <2> HIDE DEF keys, headers, of
    <2> QED
      BY <1>1, <2>1, FS_Surjection
  <1>3. days \in SUBSET Nat /\ IsFiniteSet(days)
    <2>1. \A key \in keys : key[1] \in Nat
      BY RatesAssumption DEF InRange, Key
    <2> HIDE DEF keys
    <2>2. IsFiniteSet(days)
      <3> DEFINE of == [key \in keys |-> key[1]]
      <3>1. of \in Surjection(keys, days)
        BY DEF Surjection
      <3> HIDE DEF days, of
      <3> QED
        BY <1>1, <3>1, FS_Surjection
    <2> QED
      BY <2>1, <2>2
  <1>4. \A key \in keys : HeaderFor(key) = ColumnOf(key)
    BY DEF HeaderFor
  <1>5. /\ sheet.dated /\ sheet.columns = columns
        /\ sheet.rows = [i \in DOMAIN dates |->
               [date |-> dates[i], cells |-> [c \in DOMAIN columns |-> cell(dates[i], columns[c])]]]
    BY DEF DownloadReferenceRates
  <1> HIDE DEF sheet, cell
  <1>6. /\ columns \in Seq(headers)
        /\ \A c, d \in DOMAIN columns : columns[c] = columns[d] => c = d
        /\ \A h \in headers : \E c \in DOMAIN columns : columns[c] = h
    <2> HIDE DEF headers
    <2> QED
      BY <1>2, SetToSeqLists
  <1>7. \A day \in days : \E i \in DOMAIN dates : dates[i] = day
    <2> HIDE DEF days
    <2> QED
      BY <1>3, AscendingHasAll
  <1> HIDE DEF columns, dates
  <1>8. \A key \in keys : HeaderFor(key) \in headers /\ key[1] \in days
    OBVIOUS
  <1>9. headers = {ColumnOf(key) : key \in keys}
    BY <1>4
  <1>10. ASSUME NEW i \in DOMAIN sheet.rows
         PROVE  /\ DOMAIN sheet.rows[i].cells = DOMAIN sheet.columns
                /\ \A c \in DOMAIN sheet.columns :
                     LET key == <<sheet.rows[i].date, sheet.columns[c].currency>>
                     IN  sheet.rows[i].cells[c] =
                            IF key \in keys /\ ColumnOf(key) = sheet.columns[c]
                            THEN rates[key].rate ELSE Empty
    <2> HIDE DEF keys, headers, days
    <2>1. i \in DOMAIN dates /\ sheet.rows[i].date = dates[i]
          /\ sheet.rows[i].cells = [c \in DOMAIN columns |-> cell(dates[i], columns[c])]
      BY <1>5
    <2> QED
      BY <1>4, <1>5, <2>1 DEF cell
  <1>11. \A key \in keys : \E i \in DOMAIN sheet.rows : sheet.rows[i].date = key[1]
    <2> HIDE DEF keys, headers, days
    <2>1. \A i \in DOMAIN dates : i \in DOMAIN sheet.rows /\ sheet.rows[i].date = dates[i]
      BY <1>5
    <2> QED
      BY <1>7, <1>8, <2>1
  <1>12. \A key \in keys : \E c \in DOMAIN sheet.columns : sheet.columns[c] = ColumnOf(key)
    <2> HIDE DEF keys, headers
    <2> QED
      BY <1>4, <1>5, <1>6, <1>8
  <1> HIDE DEF keys, headers, days
  <1> QED
    BY <1>5, <1>6, <1>9, <1>10, <1>11, <1>12 DEF keys, sheet

\* What can be downloaded is of the committed rates.
LEMMA InRangeParts ==
  ASSUME TypeOK, NEW from, NEW to, NEW key \in InRange(from, to)
  PROVE  /\ key \in Key /\ key[1] \in Dates /\ key[2] \in Currencies /\ key = <<key[1], key[2]>>
         /\ rates[key] # NoQuote /\ rates[key] \in Quote
         /\ ColumnOf(key) \in Column
         /\ ColumnOf(key).currency = key[2] /\ ColumnOf(key).units = rates[key].units
  <1>1. key \in Key /\ rates[key] # NoQuote /\ rates[key] \in Quote
    BY DEF InRange, TypeOK
  <1> QED
    BY <1>1 DEF Key, Column, Quote, ColumnOf

\* What it reads back, and when its header is one.
LEMMA DownloadReads ==
  ASSUME TypeOK, NEW from \in Dates, NEW to \in Dates, InRange(from, to) # {}
  PROVE  LET sheet == DownloadReferenceRates(from, to)
             keys == InRange(from, to)
         IN  /\ QuotesOf(sheet) =
                   {<<key, [rates[key] EXCEPT !.source = "workbook"]>> : key \in keys}
             /\ Table!Agrees(QuotesOf(sheet)) /\ Table!Merged(QuotesOf(sheet)) = rates
             /\ HeaderOK(sheet) <=>
                   \A k, l \in keys : k[2] = l[2] => rates[k].units = rates[l].units
  <1> DEFINE sheet == DownloadReferenceRates(from, to)
             keys == InRange(from, to)
             copied(key) == [rates[key] EXCEPT !.source = "workbook"]
             quotes == {<<key, copied(key)>> : key \in keys}
             heads == {ColumnOf(key) : key \in keys}
  <1>1. /\ sheet.dated /\ sheet.columns \in Seq(heads)
        /\ \A c, d \in DOMAIN sheet.columns : sheet.columns[c] = sheet.columns[d] => c = d
        /\ \A key \in keys : \E c \in DOMAIN sheet.columns : sheet.columns[c] = ColumnOf(key)
        /\ \A i \in DOMAIN sheet.rows :
              /\ DOMAIN sheet.rows[i].cells = DOMAIN sheet.columns
              /\ \A c \in DOMAIN sheet.columns :
                   sheet.rows[i].cells[c] =
                      IF KeyAt(sheet, i, c) \in keys /\ ColumnOf(KeyAt(sheet, i, c)) = sheet.columns[c]
                      THEN rates[KeyAt(sheet, i, c)].rate ELSE Empty
        /\ \A key \in keys : \E i \in DOMAIN sheet.rows : sheet.rows[i].date = key[1]
    BY SheetOfRange DEF KeyAt
  <1>2. \A key \in keys :
          /\ key \in Key /\ key[1] \in Dates /\ key[2] \in Currencies /\ key = <<key[1], key[2]>>
          /\ rates[key] # NoQuote /\ rates[key] \in Quote
          /\ ColumnOf(key) \in Column
          /\ ColumnOf(key).currency = key[2] /\ ColumnOf(key).units = rates[key].units
    BY InRangeParts
  <1> HIDE DEF sheet, keys
  <1>3. \A key \in keys : /\ copied(key).units = rates[key].units /\ copied(key).rate = rates[key].rate
                          /\ copied(key).source = "workbook"
    BY <1>2 DEF Quote
  <1>4. DOMAIN sheet.columns = 1 .. Len(sheet.columns) /\ Len(sheet.columns) \in Nat
        /\ \A c \in DOMAIN sheet.columns : sheet.columns[c] \in heads
    <2> HIDE DEF heads
    <2> QED
      BY <1>1
  \* A cell has a rate where its date and column are those of one.
  <1>5. ASSUME NEW i \in DOMAIN sheet.rows, NEW c \in DOMAIN sheet.columns
        PROVE  sheet.rows[i].cells[c] \in Rates <=>
                 KeyAt(sheet, i, c) \in keys /\ ColumnOf(KeyAt(sheet, i, c)) = sheet.columns[c]
    <2>1. CASE KeyAt(sheet, i, c) \in keys /\ ColumnOf(KeyAt(sheet, i, c)) = sheet.columns[c]
      <3>1. rates[KeyAt(sheet, i, c)].rate \in Rates
        BY <1>2, <2>1 DEF Quote
      <3> QED
        BY <1>1, <2>1, <3>1
    <2>2. CASE ~(KeyAt(sheet, i, c) \in keys /\ ColumnOf(KeyAt(sheet, i, c)) = sheet.columns[c])
      <3>1. sheet.rows[i].cells[c] = Empty
        BY <1>1, <2>2
      <3> QED
        BY <2>2, <3>1, MarksAssumption
    <2> QED
      BY <2>1, <2>2
  <1>6. ASSUME NEW i \in DOMAIN sheet.rows, NEW c \in DOMAIN sheet.columns,
               sheet.rows[i].cells[c] \in Rates
        PROVE  LET key == KeyAt(sheet, i, c)
               IN  key \in keys /\ QuoteAt(sheet, i, c) = copied(key)
    <2> DEFINE key == KeyAt(sheet, i, c)
    <2>1. key \in keys /\ ColumnOf(key) = sheet.columns[c]
      BY <1>5, <1>6
    <2>2. sheet.rows[i].cells[c] = rates[key].rate
      BY <1>1, <2>1
    <2> HIDE DEF key
    <2>3. sheet.columns[c].units = rates[key].units
      BY <1>2, <2>1
    <2>4. rates[key] \in Quote
      BY <1>2, <2>1
    <2>5. copied(key) = [units |-> rates[key].units, rate |-> rates[key].rate, source |-> "workbook"]
      BY <2>4 DEF Quote
    <2> QED
      BY <2>1, <2>2, <2>3, <2>5 DEF QuoteAt, key
  <1>7. QuotesOf(sheet) = quotes
    <2>1. ASSUME NEW p \in QuotesOf(sheet)
          PROVE  p \in quotes
      <3>1. PICK i \in DOMAIN sheet.rows : \E c \in DOMAIN sheet.rows[i].cells :
                IsRateCell(sheet, i, c) /\ p = <<KeyAt(sheet, i, c), QuoteAt(sheet, i, c)>>
        BY InQuotesOf
      <3>2. PICK c \in DOMAIN sheet.columns :
                IsRateCell(sheet, i, c) /\ p = <<KeyAt(sheet, i, c), QuoteAt(sheet, i, c)>>
        BY <1>1, <3>1
      <3>3. KeyAt(sheet, i, c) \in keys /\ QuoteAt(sheet, i, c) = copied(KeyAt(sheet, i, c))
        BY <1>6, <3>2 DEF IsRateCell
      <3> HIDE DEF copied
      <3> QED
        BY <3>2, <3>3
    <2>2. ASSUME NEW key \in keys
          PROVE  <<key, copied(key)>> \in QuotesOf(sheet)
      <3>1. PICK i \in DOMAIN sheet.rows : sheet.rows[i].date = key[1]
        BY <1>1
      <3>2. PICK c \in DOMAIN sheet.columns : sheet.columns[c] = ColumnOf(key)
        BY <1>1
      <3>3. KeyAt(sheet, i, c) = key
        BY <1>2, <3>1, <3>2 DEF KeyAt
      <3>4. sheet.rows[i].cells[c] \in Rates
        BY <1>5, <3>2, <3>3
      <3>5. IsRateCell(sheet, i, c) /\ c \in DOMAIN sheet.rows[i].cells
        BY <1>1, <3>4 DEF IsRateCell
      <3>6. QuoteAt(sheet, i, c) = copied(key)
        BY <1>6, <3>3, <3>4
      <3> HIDE DEF copied
      <3> QED
        BY <3>3, <3>5, <3>6, InQuotesOf
    <2> HIDE DEF copied
    <2> QED
      BY <2>1, <2>2
  <1>8. \A p \in quotes : p[1] \in keys /\ p[2] = copied(p[1])
    <2> HIDE DEF copied
    <2> QED
      OBVIOUS
  <1> HIDE DEF quotes, copied, heads
  <1>9. Table!Agrees(quotes)
    BY <1>3, <1>8 DEF Table!Agrees, Table!Same
  <1>10. Table!Merged(quotes) = rates
    <2>1. \A key \in Key : ~(rates[key] = NoQuote /\ \E p \in quotes : p[1] = key)
      BY <1>2, <1>8
    <2>2. Table!Key = Key
      BY DEF Table!Key, Key
    <2>3. rates = [key \in Key |-> rates[key]]
      BY DEF TypeOK
    <2> QED
      BY <2>1, <2>2, <2>3 DEF Table!Merged
  <1>11. HeaderOK(sheet) <=> \A k, l \in keys : k[2] = l[2] => rates[k].units = rates[l].units
    <2>1. \A c \in DOMAIN sheet.columns : \E key \in keys : sheet.columns[c] = ColumnOf(key)
      BY <1>4 DEF heads
    <2>2. Len(sheet.columns) > 0
      <3>1. PICK key \in keys : TRUE
        BY DEF keys
      <3> QED
        BY <1>1, <1>4, <3>1
    <2>3. Bad \notin {sheet.columns[c] : c \in DOMAIN sheet.columns}
      BY <1>2, <2>1, MarksAssumption
    <2>4. ASSUME \A k, l \in keys : k[2] = l[2] => rates[k].units = rates[l].units,
                 NEW c \in DOMAIN sheet.columns, NEW d \in DOMAIN sheet.columns,
                 sheet.columns[c].currency = sheet.columns[d].currency
          PROVE  c = d
      <3>1. PICK k \in keys : sheet.columns[c] = ColumnOf(k)
        BY <2>1
      <3>2. PICK l \in keys : sheet.columns[d] = ColumnOf(l)
        BY <2>1
      <3>3. ColumnOf(k) = ColumnOf(l)
        BY <1>2, <2>4, <3>1, <3>2 DEF ColumnOf
      <3> QED
        BY <1>1, <3>1, <3>2, <3>3
    <2>5. ASSUME HeaderOK(sheet), NEW k \in keys, NEW l \in keys, k[2] = l[2]
          PROVE  rates[k].units = rates[l].units
      <3>1. PICK c \in DOMAIN sheet.columns : sheet.columns[c] = ColumnOf(k)
        BY <1>1
      <3>2. PICK d \in DOMAIN sheet.columns : sheet.columns[d] = ColumnOf(l)
        BY <1>1
      <3>3. c = d
        BY <1>2, <2>5, <3>1, <3>2 DEF HeaderOK
      <3> QED
        BY <1>2, <3>1, <3>2, <3>3
    <2> QED
      BY <1>1, <2>2, <2>3, <2>4, <2>5 DEF HeaderOK
  <1> QED
    BY <1>7, <1>9, <1>10, <1>11 DEF quotes, copied, sheet, keys

\* A download holds exactly the rates of its range, and importing it changes
\* nothing, unless a currency has two columns (DownloadReferenceRates).
THEOREM DownloadsImport == Spec => []DownloadsImportBack
  <1>1. TypeOK => DownloadsImportBack
    BY DownloadReads DEF DownloadsImportBack
  <1> QED
    BY <1>1, DraftsAreMerged, PTL DEF RatesInv
=============================================================================
