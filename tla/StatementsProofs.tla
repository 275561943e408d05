-------------------------- MODULE StatementsProofs --------------------------
(* Theorems of Statements, for any workbooks, uploads and downloads. *)
EXTENDS Statements, FiniteSetTheorems, NaturalsInduction, WellFoundedInduction, TLAPS

---------------------------------------------------------------------------
(* Numbers in their order *)

LEMMA LeastNumber ==
  ASSUME NEW S \in SUBSET Nat, S # {}
  PROVE  \E m \in S : \A k \in S : m <= k
  <1> DEFINE less == {pair \in Nat \X Nat : pair[1] < pair[2]}
  <1>1. IsWellFoundedOn(less, Nat)
    BY NatLessThanWellFounded, Zenon DEF OpToRel
  <1> HIDE DEF less
  <1>2. PICK m \in S : \A k \in S : <<k, m>> \notin less
    BY <1>1, WFMin, Zenon
  <1>3. \A k \in S : ~(k < m)
    BY <1>2 DEF less
  <1> QED
    BY <1>3


LEMMA RanksAreAll ==
  ASSUME NEW S \in SUBSET Nat, IsFiniteSet(S)
  PROVE  /\ Cardinality(S) \in Nat
         /\ \A n \in S : Rank(S, n) \in 0 .. Cardinality(S) - 1
         /\ \A m, n \in S : m < n => Rank(S, m) < Rank(S, n)
         /\ \A r \in 0 .. Cardinality(S) - 1 : \E n \in S : Rank(S, n) = r
  <1> DEFINE before(n) == {b \in S : b < n}
  <1>1. Cardinality(S) \in Nat
    BY FS_CardinalityType
  <1>2. \A n \in S : IsFiniteSet(before(n)) /\ Cardinality(before(n)) \in Nat
    BY FS_Subset, FS_CardinalityType
  <1>3. \A n \in S : Rank(S, n) = Cardinality(before(n))
    BY DEF Rank
  <1>4. ASSUME NEW n \in S
        PROVE  Rank(S, n) \in 0 .. Cardinality(S) - 1
    <2>1. before(n) \in SUBSET S /\ n \notin before(n)
      OBVIOUS
    <2>2. Cardinality(before(n)) <= Cardinality(S) /\ Cardinality(before(n)) # Cardinality(S)
      BY <1>1, <2>1, FS_Subset
    <2> QED
      BY <1>1, <1>2, <1>3, <2>2
  <1>5. ASSUME NEW m \in S, NEW n \in S, m < n
        PROVE  Rank(S, m) < Rank(S, n)
    <2>1. before(m) \in SUBSET before(n) /\ m \in before(n) /\ m \notin before(m)
      <3>1. \A k \in S : k \in Nat
        OBVIOUS
      <3>2. \A k \in S : k < m => k < n
        BY <1>5, <3>1
      <3>3. before(m) \subseteq before(n) /\ m \in before(n)
        BY <1>5, <3>2
      <3>4. ~(m < m)
        BY <3>1
      <3> QED
        BY <3>3, <3>4
    <2>2. /\ Cardinality(before(m)) <= Cardinality(before(n))
          /\ Cardinality(before(m)) # Cardinality(before(n))
      BY <1>2, <2>1, FS_Subset
    <2> QED
      BY <1>2, <1>3, <2>2
  <1>6. ASSUME NEW r \in 0 .. Cardinality(S) - 1
        PROVE  \E n \in S : Rank(S, n) = r
    <2> DEFINE ranks == 0 .. Cardinality(S) - 1
               rank == [n \in S |-> Rank(S, n)]
    <2>1. rank \in [S -> ranks]
      BY <1>4
    <2>2. ASSUME NEW m \in S, NEW n \in S, m # n
          PROVE  rank[m] # rank[n]
      <3>1. m < n \/ n < m
        BY <2>2
      <3>2. Rank(S, m) # Rank(S, n)
        BY <1>1, <1>4, <1>5, <3>1
      <3> QED
        BY <3>2
    <2>3. rank \in Injection(S, ranks)
      BY <2>1, <2>2 DEF Injection, IsInjective
    <2>4. IsFiniteSet(ranks) /\ Cardinality(ranks) = Cardinality(S)
      BY <1>1, FS_Interval
    <2> HIDE DEF rank, ranks
    <2>5. rank \in Surjection(S, ranks)
      BY <2>3, <2>4, FS_Injection
    <2>6. \A k \in ranks : \E n \in S : rank[n] = k
      BY <2>5 DEF Surjection
    <2> QED
      BY <2>6 DEF rank, ranks
  <1> QED
    BY <1>1, <1>4, <1>5, <1>6

\* Ascending lists a finite set, each member once and in its order.
LEMMA AscendingLists ==
  ASSUME NEW S \in SUBSET Nat, IsFiniteSet(S)
  PROVE  /\ Cardinality(S) \in Nat
         /\ Ascending(S) \in [1 .. Cardinality(S) -> S]
         /\ Ascending(S) \in Seq(S) /\ Len(Ascending(S)) = Cardinality(S)
         /\ \A n \in S : \E k \in 1 .. Cardinality(S) : Ascending(S)[k] = n
         /\ \A k \in 1 .. Cardinality(S) : Rank(S, Ascending(S)[k]) = k - 1
  <1>1. Cardinality(S) \in Nat
    BY RanksAreAll
  <1>2. ASSUME NEW k \in 1 .. Cardinality(S)
        PROVE  Ascending(S)[k] \in S /\ Rank(S, Ascending(S)[k]) = k - 1
    <2>1. \E n \in S : Rank(S, n) = k - 1
      BY <1>1, RanksAreAll
    <2>2. Ascending(S)[k] = CHOOSE n \in S : Rank(S, n) = k - 1
      BY DEF Ascending
    <2> QED
      BY <2>1, <2>2
  <1>3. Ascending(S) \in [1 .. Cardinality(S) -> S]
    BY <1>2 DEF Ascending
  <1>4. Ascending(S) \in Seq(S) /\ Len(Ascending(S)) = Cardinality(S)
    BY <1>1, <1>3
  <1>5. ASSUME NEW n \in S
        PROVE  \E k \in 1 .. Cardinality(S) : Ascending(S)[k] = n
    <2>1. Rank(S, n) \in 0 .. Cardinality(S) - 1
      BY RanksAreAll
    <2>2. PICK k \in 1 .. Cardinality(S) : Rank(S, n) = k - 1
      BY <1>1, <2>1
    <2>3. Ascending(S)[k] \in S /\ Rank(S, Ascending(S)[k]) = Rank(S, n)
      BY <1>2, <2>2
    <2>4. Ascending(S)[k] \in Nat /\ n \in Nat /\ Rank(S, n) \in Nat
      <3>1. \A x \in S : x \in Nat
        OBVIOUS
      <3>2. Rank(S, n) \in Nat
        BY <1>1, <2>1
      <3>3. Ascending(S)[k] \in Nat
        BY <2>3, <3>1
      <3> QED
        BY <3>1, <3>2, <3>3
    <2>5. ~(Ascending(S)[k] < n) /\ ~(n < Ascending(S)[k])
      BY <2>3, <2>4, RanksAreAll
    <2> QED
      BY <2>4, <2>5
  <1> QED
    BY <1>1, <1>2, <1>3, <1>4, <1>5

\* Of rows that are consecutive the order is that of counting.
LEMMA AscendingCounts ==
  ASSUME NEW m \in Nat, NEW n \in Nat
  PROVE  Ascending(m + 1 .. m + n) = [k \in 1 .. n |-> m + k]
  <1> DEFINE S == m + 1 .. m + n
  <1>1. S \in SUBSET Nat /\ IsFiniteSet(S) /\ Cardinality(S) = n
    <2>1. IsFiniteSet(S) /\ Cardinality(S) = IF m + 1 > m + n THEN 0 ELSE (m + n) - (m + 1) + 1
      BY FS_Interval
    <2> QED
      BY <2>1
  <1>2. ASSUME NEW k \in 1 .. n
        PROVE  Rank(S, m + k) = k - 1
    <2>1. {x \in S : x < m + k} = m + 1 .. m + k - 1
      OBVIOUS
    <2>2. Cardinality(m + 1 .. m + k - 1)
             = IF m + 1 > m + k - 1 THEN 0 ELSE (m + k - 1) - (m + 1) + 1
      BY FS_Interval
    <2>3. Rank(S, m + k) = Cardinality(m + 1 .. m + k - 1)
      BY <2>1 DEF Rank
    <2> QED
      BY <2>2, <2>3
  <1> HIDE DEF S
  <1>3. ASSUME NEW k \in 1 .. n
        PROVE  Ascending(S)[k] = m + k
    <2>1. Ascending(S)[k] \in S /\ Rank(S, Ascending(S)[k]) = k - 1
      BY <1>1, AscendingLists
    <2>2. PICK j \in 1 .. n : Ascending(S)[k] = m + j
      <3>1. \A x \in m + 1 .. m + n : x - m \in 1 .. n /\ x = m + (x - m)
        OBVIOUS
      <3> QED
        BY <2>1, <3>1 DEF S
    <2>3. j - 1 = k - 1
      BY <1>2, <2>1, <2>2
    <2> QED
      BY <2>2, <2>3
  <1>4. Ascending(S) = [k \in 1 .. n |-> Ascending(S)[k]]
    BY <1>1, AscendingLists
  <1> QED
    BY <1>3, <1>4 DEF S
---------------------------------------------------------------------------
(* Workbooks and classifications *)

Books == Workbooks \cup FolderFiles
ReadableBooks == {book \in Books : book.readable}

\* A statement of a readable workbook has its lines, in the order of their rows.
LEMMA StatementType ==
  ASSUME NEW book \in Books
  PROVE  /\ SourceRows(book) \in Seq(DOMAIN book.lines)
         /\ ParseStatement(book) \in Seq(Line)
         /\ Len(ParseStatement(book)) = Len(SourceRows(book))
         /\ Len(SourceRows(book)) \in Nat
         /\ \A k \in 1 .. Len(SourceRows(book)) :
               ParseStatement(book)[k] = book.lines[SourceRows(book)[k]]
         /\ \A j, k \in 1 .. Len(SourceRows(book)) :
               SourceRows(book)[j] = SourceRows(book)[k] => j = k
  <1> DEFINE lines == book.lines
             before(n) == {lines[k] : k \in 1 .. n}
             read == {n \in DOMAIN lines :
                        (\A line \in before(n) : ~Stops(line)) /\ lines[n].narration # {}}
             at == SourceRows(book)
  <1>1. lines \in Seq(Line) /\ Len(lines) \in Nat /\ DOMAIN lines = 1 .. Len(lines)
    BY StatementsAssumption DEF Books
  <1>2. at = Ascending(read)
    BY DEF SourceRows
  <1>3. read \subseteq DOMAIN lines
    OBVIOUS
  <1> HIDE DEF read, before
  <1>4. read \in SUBSET Nat /\ IsFiniteSet(read)
    <2>1. IsFiniteSet(1 .. Len(lines))
      BY <1>1, FS_Interval
    <2> QED
      BY <1>1, <1>3, <2>1, FS_Subset
  <1>5. /\ Cardinality(read) \in Nat /\ at \in Seq(read) /\ Len(at) = Cardinality(read)
        /\ \A k \in 1 .. Cardinality(read) : Rank(read, at[k]) = k - 1
    BY <1>2, <1>4, AscendingLists
  <1> HIDE DEF at
  <1>6. at \in Seq(DOMAIN lines) /\ DOMAIN at = 1 .. Len(at)
    BY <1>3, <1>5
  <1>7. \A k \in 1 .. Len(at) : at[k] \in DOMAIN lines /\ lines[at[k]] \in Line
    BY <1>1, <1>6
  <1>8. ParseStatement(book) = [k \in 1 .. Len(at) |-> lines[at[k]]]
    BY <1>6 DEF ParseStatement, at
  <1>9. ParseStatement(book) \in Seq(Line) /\ Len(ParseStatement(book)) = Len(at)
    BY <1>5, <1>7, <1>8
  <1>10. ASSUME NEW j \in 1 .. Len(at), NEW k \in 1 .. Len(at), at[j] = at[k]
         PROVE  j = k
    <2>1. j - 1 = k - 1
      BY <1>5, <1>10
    <2> QED
      BY <2>1
  <1> QED
    BY <1>5, <1>6, <1>8, <1>9, <1>10 DEF at

RuleHolds(rule) == rule[2] \in Heads /\ rule[3] \in Texts /\ rule[4] \subseteq Texts

LEMMA RulesHold == \A i \in 1 .. 12 : RuleHolds(Rules[i])
  <1>1. /\ Rules[1][2] \in Heads /\ Rules[2][2] \in Heads /\ Rules[3][2] \in Heads
        /\ Rules[4][2] \in Heads /\ Rules[5][2] \in Heads /\ Rules[6][2] \in Heads
        /\ Rules[7][2] \in Heads /\ Rules[8][2] \in Heads /\ Rules[9][2] \in Heads
        /\ Rules[10][2] \in Heads /\ Rules[11][2] \in Heads /\ Rules[12][2] \in Heads
    BY DEF Rules, Heads
  <1>2. ASSUME NEW i \in 1 .. 12
        PROVE  Rules[i][2] \in Heads
    <2>1. i \in {1, 2, 3, 4, 5, 6, 7, 8, 9, 10, 11, 12}
      OBVIOUS
    <2> QED
      BY <1>1, <2>1
  <1> QED
    BY <1>2, TextsAssumption DEF RuleHolds

\* The first of the rules that match, if any does, gives a classification.
LEMMA ClassifiedType == ASSUME NEW line PROVE ClassifyTransaction(line) \in Class
  <1> DEFINE Matches(rule) ==
                 rule[1] \in line.narration /\ (rule[1] = "SALARY" => line.withdrawal)
             found == {i \in 1 .. Len(Rules) : Matches(Rules[i])}
             n == IF found # {} THEN Min(found) ELSE 0
  <1>1. Len(Rules) = 12
    BY DEF Rules
  <1>2. n \in 0 .. 12
    <2>1. found \in SUBSET (1 .. 12)
      BY <1>1
    <2> HIDE DEF found
    <2>2. ASSUME found # {}
          PROVE  \E i \in found : \A j \in found : i <= j
      <3>1. found \in SUBSET Nat
        BY <2>1
      <3> QED
        BY <2>2, <3>1, LeastNumber
    <2>3. found # {} => Min(found) \in 1 .. 12
      BY <2>1, <2>2 DEF Min
    <2> HIDE DEF found
    <2> QED
      BY <2>3
  <1>3. ClassifyTransaction(line)
          = IF n = 0 THEN Classified("", "", {}) ELSE Classified(Rules[n][2], Rules[n][3], Rules[n][4])
    BY DEF ClassifyTransaction, SelectInSeq
  <1> HIDE DEF n
  <1>4. Classified("", "", {}) \in Class
    BY TextsAssumption DEF Classified, Class, Heads
  <1>5. ASSUME n # 0
        PROVE  Classified(Rules[n][2], Rules[n][3], Rules[n][4]) \in Class
    <2>1. RuleHolds(Rules[n])
      BY <1>2, <1>5, RulesHold
    <2> QED
      BY <2>1, TextsAssumption DEF RuleHolds, Classified, Class
  <1> QED
    BY <1>3, <1>4, <1>5
---------------------------------------------------------------------------
(* The inductive invariant *)

\* The workbook of a statement, which an older server has not kept.
Book(i) == IF i = 1 THEN LegacyBook ELSE imports[i].workbook

ImportRow == [account: {book.account : book \in Books}, workbook: Workbooks \cup {None}]
ImportsInv ==
    /\ imports \in Seq(ImportRow) /\ Len(imports) >= 1
    /\ imports[1] = [account |-> LegacyBook.account, workbook |-> None]
    /\ \A i \in 2 .. Len(imports) :
          Book(i) \in ReadableBooks /\ imports[i] = Import(Book(i))

BankRow == [import: Nat, line: Line, class: Class]
RowsInv ==
    /\ lastRow \in Nat /\ rows = [id \in DOMAIN rows |-> rows[id]] /\ DOMAIN rows \subseteq 1 .. lastRow
    /\ \A id \in DOMAIN rows : rows[id] \in BankRow /\ rows[id].import \in 1 .. Len(imports)

\* The rows of statement i are consecutive and hold its lines.
IsWhole(i) ==
    LET lines == ParseStatement(Book(i))
    IN  \E before \in Nat :
          /\ Rows(i) = before + 1 .. before + Len(lines)
          /\ \A k \in 1 .. Len(lines) : rows[before + k].line = lines[k]

UploadsInv ==
    /\ upload \in [Uploads -> {None} \cup [book: ReadableBooks \cap Workbooks, stored: Nat]]
    /\ writer \in Uploads \cup {None} /\ (writer # None => upload[writer] # None)

\* A download in progress has the workbook of its statement, if that was kept,
\* and has read rows that agree with it, unless they were changed.
TxnRow == [id: Nat, row: BankRow]
Reading == [import: Nat, book: ReadableBooks, txns: Seq(TxnRow) \cup {None}]
ReadingInv(d) == InProgress(d) =>
    LET at == download[d]
    IN  /\ at \in Reading /\ at.import \in 1 .. Len(imports)
        /\ at.import # 1 => at.book = Book(at.import)
        /\ at.txns # None /\ at.import \notin {1} \cup touched =>
              Agrees(imports[at.import].account, at.book, at.txns)

\* What ClassificationsStayOnTheirRows says of a download.
CellsFit(answer) ==
    LET book == answer.book
    IN  /\ DOMAIN answer.cells = {SourceRows(book)[k] : k \in DOMAIN SourceRows(book)}
        /\ \A n \in DOMAIN answer.cells : answer.cells[n].of = book.lines[n]
AnswerHolds(d) == Answered(d) =>
    IF download[d].refused # "" THEN download[d].import \in {1} \cup touched
    ELSE CellsFit(download[d])

DownloadsInv ==
    /\ download = [d \in Downloads |-> download[d]]
    /\ \A d \in Downloads : ReadingInv(d) /\ AnswerHolds(d)

RestInv ==
    /\ folder \in FolderFiles \cup {None}
    /\ edits \in 0 .. MaxEdits /\ touched \subseteq 1 .. Len(imports)

StatementsInv ==
    /\ ImportsInv /\ RowsInv /\ UploadsInv /\ DownloadsInv /\ RestInv
    /\ \A i \in 1 .. Len(imports) : i \notin touched => IsWhole(i)

---------------------------------------------------------------------------
(* What follows from the invariant in one state *)

Tables == <<imports, rows, lastRow>>

LEMMA LegacyIsReadable ==
  /\ LegacyBook \in ReadableBooks /\ LegacyBook \in Books
  /\ ReadableBooks \subseteq Books
  BY StatementsAssumption DEF ReadableBooks, Books

\* The workbook of every statement was readable.
LEMMA BookOfStatement ==
  ASSUME ImportsInv, NEW i \in 1 .. Len(imports)
  PROVE  Book(i) \in ReadableBooks /\ imports[i] \in ImportRow
  BY LegacyIsReadable DEF ImportsInv, Book

\* Its rows are finitely many, and read in the order of their ids.
LEMMA TransactionsRead ==
  ASSUME StatementsInv, NEW i \in 1 .. Len(imports)
  PROVE  /\ Rows(i) \in SUBSET Nat /\ IsFiniteSet(Rows(i))
         /\ GetTransactions(i) \in Seq(TxnRow)
         /\ Len(GetTransactions(i)) = Cardinality(Rows(i))
         /\ \A k \in 1 .. Len(GetTransactions(i)) :
               GetTransactions(i)[k].row = rows[Ascending(Rows(i))[k]]
  <1> DEFINE ids == Ascending(Rows(i))
             n == Cardinality(Rows(i))
  <1>1. lastRow \in Nat /\ Rows(i) \subseteq 1 .. lastRow /\ Rows(i) \subseteq DOMAIN rows
    BY DEF StatementsInv, RowsInv, Rows
  <1>2. Rows(i) \in SUBSET Nat /\ IsFiniteSet(Rows(i))
    <2>1. IsFiniteSet(1 .. lastRow)
      BY <1>1, FS_Interval
    <2> QED
      BY <1>1, <2>1, FS_Subset
  <1>3. n \in Nat /\ ids \in [1 .. n -> Rows(i)]
    BY <1>2, AscendingLists
  <1> HIDE DEF ids, n
  <1>4. GetTransactions(i) = [k \in 1 .. n |-> [id |-> ids[k], row |-> rows[ids[k]]]]
    BY <1>3 DEF GetTransactions, ids
  <1>5. \A k \in 1 .. n : [id |-> ids[k], row |-> rows[ids[k]]] \in TxnRow
    <2>1. \A id \in Rows(i) : id \in Nat /\ rows[id] \in BankRow
      BY <1>1, <1>2 DEF StatementsInv, RowsInv
    <2> QED
      BY <1>3, <2>1 DEF TxnRow
  <1>6. GetTransactions(i) \in Seq(TxnRow) /\ Len(GetTransactions(i)) = n
    BY <1>3, <1>4, <1>5
  <1> QED
    BY <1>2, <1>3, <1>4, <1>6 DEF ids, n

\* If the database browser has not changed them, they are the transactions of
\* its workbook.
LEMMA TransactionsOfWhole ==
  ASSUME StatementsInv, NEW i \in 1 .. Len(imports), IsWhole(i)
  PROVE  LET ids == Ascending(Rows(i))
             lines == ParseStatement(Book(i))
         IN  /\ Cardinality(Rows(i)) = Len(lines) /\ Len(lines) \in Nat
             /\ ids = [k \in 1 .. Len(lines) |-> ids[k]]
             /\ \A k \in 1 .. Len(lines) : rows[ids[k]].line = lines[k]
  <1> DEFINE lines == ParseStatement(Book(i))
             n == Len(lines)
             ids == Ascending(Rows(i))
  <1>1. n \in Nat
    <2>1. Book(i) \in Books
      BY BookOfStatement, LegacyIsReadable DEF StatementsInv
    <2> QED
      BY <2>1, StatementType
  <1>2. PICK before \in Nat : /\ Rows(i) = before + 1 .. before + n
                             /\ \A k \in 1 .. n : rows[before + k].line = lines[k]
    BY DEF IsWhole
  <1> HIDE DEF lines, n
  <1>3. ids = [k \in 1 .. n |-> before + k]
    BY <1>1, <1>2, AscendingCounts
  <1>4. Cardinality(Rows(i)) = n
    <2>1. Cardinality(before + 1 .. before + n)
             = IF before + 1 > before + n THEN 0 ELSE (before + n) - (before + 1) + 1
      BY <1>1, FS_Interval
    <2> QED
      BY <1>1, <1>2, <2>1
  <1> QED
    BY <1>1, <1>2, <1>3, <1>4 DEF lines, n

\* Then they agree with the workbook that a download has taken.
LEMMA WholeAgrees ==
  ASSUME StatementsInv, NEW i \in 2 .. Len(imports), IsWhole(i)
  PROVE  Agrees(imports[i].account, Book(i), GetTransactions(i))
  <1> DEFINE txns == GetTransactions(i)
             lines == ParseStatement(Book(i))
  <1>1. imports[i].account = Book(i).account
    <2>1. imports[i] = Import(Book(i))
      BY DEF StatementsInv, ImportsInv
    <2> QED
      BY <2>1 DEF Import
  <1>2. i \in 1 .. Len(imports)
    BY DEF StatementsInv, ImportsInv
  <1>3. txns \in Seq(TxnRow) /\ Len(txns) = Len(lines)
    BY <1>2, TransactionsRead, TransactionsOfWhole
  <1>4. \A k \in 1 .. Len(txns) : txns[k].row.line = lines[k]
    <2>1. \A k \in 1 .. Len(txns) : txns[k].row = rows[Ascending(Rows(i))[k]]
      BY <1>2, TransactionsRead
    <2>2. \A k \in 1 .. Len(lines) : rows[Ascending(Rows(i))[k]].line = lines[k]
      BY <1>2, TransactionsOfWhole
    <2> HIDE DEF txns, lines
    <2> QED
      BY <1>3, <2>1, <2>2
  <1> QED
    BY <1>1, <1>3, <1>4 DEF Agrees, ValuesAgree, CountsAgree

---------------------------------------------------------------------------
(* The invariant is inductive *)

\* The tables hold the statement of the older server, whole.
LEMMA InitHolds ==
  ASSUME Init
  PROVE  StatementsInv
  <1> DEFINE lines == ParseStatement(LegacyBook)
  <1>1. lines \in Seq(Line) /\ Len(lines) \in Nat
    BY LegacyIsReadable, StatementType
  <1>2. ImportsInv /\ Len(imports) = 1
    <2>1. imports = <<[account |-> LegacyBook.account, workbook |-> None]>>
      BY DEF Init
    <2>2. [account |-> LegacyBook.account, workbook |-> None] \in ImportRow
      BY LegacyIsReadable DEF ImportRow
    <2> QED
      BY <2>1, <2>2 DEF ImportsInv
  <1>3. lastRow = Len(lines) /\ rows = [id \in 1 .. lastRow |->
          [import |-> 1, line |-> lines[id], class |-> ClassifyTransaction(lines[id])]]
    BY DEF Init
  <1> HIDE DEF lines
  <1>4. \A id \in 1 .. lastRow : rows[id] \in BankRow /\ rows[id].import = 1
    <2>1. \A id \in 1 .. lastRow : lines[id] \in Line
      BY <1>1, <1>3
    <2> QED
      BY <1>3, <2>1, ClassifiedType DEF BankRow
  <1>5. RowsInv
    BY <1>1, <1>2, <1>3, <1>4 DEF RowsInv
  <1>6. IsWhole(1)
    <2>1. Rows(1) = 0 + 1 .. 0 + Len(lines)
      BY <1>1, <1>3, <1>4 DEF Rows
    <2>2. \A k \in 1 .. Len(lines) : rows[0 + k].line = lines[k]
      BY <1>1, <1>3
    <2> QED
      BY <2>1, <2>2 DEF IsWhole, Book, lines
  <1>7. UploadsInv
    BY DEF Init, UploadsInv
  <1>8. DownloadsInv
    BY DEF Init, DownloadsInv, ReadingInv, AnswerHolds, InProgress, Answered
  <1>9. RestInv
    BY StatementsAssumption DEF Init, RestInv
  <1> QED
    BY <1>2, <1>5, <1>6, <1>7, <1>8, <1>9 DEF StatementsInv

\* What leaves the tables alone keeps what is said of them.
LEMMA TablesKept ==
  ASSUME StatementsInv, UNCHANGED Tables
  PROVE  /\ ImportsInv' /\ RowsInv'
         /\ touched' = touched => \A i \in 1 .. Len(imports)' : i \notin touched' => IsWhole(i)'
  BY DEF StatementsInv, Tables, ImportsInv, RowsInv, IsWhole, Rows, Book

\* A download keeps its rows and its answer, whatever the tables become.
LEMMA DownloadsKept ==
  ASSUME StatementsInv, download' = download, touched \subseteq touched',
         Len(imports) \in Nat, Len(imports)' \in Nat, Len(imports)' >= Len(imports),
         \A i \in 1 .. Len(imports) : imports'[i] = imports[i]
  PROVE  DownloadsInv'
  <1>1. download' = [d \in Downloads |-> download'[d]]
    BY DEF StatementsInv, DownloadsInv
  <1>2. ASSUME NEW d \in Downloads
        PROVE  ReadingInv(d)'
    <2>1. ReadingInv(d)
      BY DEF StatementsInv, DownloadsInv
    <2> SUFFICES ASSUME InProgress(d)
                 PROVE  LET at == download[d]
                        IN  /\ at \in Reading /\ at.import \in 1 .. Len(imports)'
                            /\ at.import # 1 => at.book = Book(at.import)'
                            /\ at.txns # None /\ at.import \notin {1} \cup touched' =>
                                 Agrees(imports'[at.import].account, at.book, at.txns)
      BY DEF ReadingInv, InProgress
    <2>2. download[d].import \in 1 .. Len(imports)
      BY <2>1 DEF ReadingInv
    <2>3. imports'[download[d].import] = imports[download[d].import]
      BY <2>2
    <2>4. Book(download[d].import)' = Book(download[d].import)
      BY <2>3 DEF Book
    <2> QED
      BY <2>1, <2>2, <2>3, <2>4 DEF ReadingInv
  <1>3. \A d \in Downloads : AnswerHolds(d)'
    BY DEF StatementsInv, DownloadsInv, AnswerHolds, Answered
  <1> QED
    BY <1>1, <1>2, <1>3 DEF DownloadsInv

LEMMA UploadStatementHolds ==
  ASSUME StatementsInv, NEW u \in Uploads, NEW book \in Workbooks, UploadStatement(u, book)
  PROVE  StatementsInv'
  <1>1. UploadsInv'
    <2>1. book \in ReadableBooks \cap Workbooks
      BY DEF UploadStatement, ReadableBooks, Books
    <2>2. [book |-> book, stored |-> 0] \in [book: ReadableBooks \cap Workbooks, stored: Nat]
      BY <2>1
    <2>3. [book |-> book, stored |-> 0] # None
      BY StatementsAssumption
    <2> QED
      BY <2>2, <2>3 DEF StatementsInv, UploadsInv, UploadStatement
  <1>2. ImportsInv' /\ RowsInv' /\ \A i \in 1 .. Len(imports)' : i \notin touched' => IsWhole(i)'
    BY TablesKept DEF UploadStatement, Tables
  <1>3. DownloadsInv' /\ RestInv'
    <2>1. imports' = imports /\ Len(imports) \in Nat
      BY DEF UploadStatement, StatementsInv, ImportsInv
    <2>2. DownloadsInv'
      BY <2>1, DownloadsKept DEF UploadStatement
    <2> QED
      BY <2>1, <2>2 DEF UploadStatement, StatementsInv, RestInv
  <1> QED
    BY <1>1, <1>2, <1>3 DEF StatementsInv

\* Taking the lock and storing a row write nothing that others see.
LEMMA StoringHolds ==
  ASSUME StatementsInv, NEW u \in Uploads, BeginStore(u) \/ InsertRow(u)
  PROVE  StatementsInv'
  <1>1. UNCHANGED <<imports, rows, lastRow, download, folder, edits, touched>>
    BY DEF BeginStore, InsertRow
  <1>2. UploadsInv'
    <2>1. CASE BeginStore(u)
      BY <2>1 DEF BeginStore, StatementsInv, UploadsInv
    <2>2. CASE InsertRow(u)
      <3> DEFINE uploads == [book: ReadableBooks \cap Workbooks, stored: Nat]
      <3>1. upload[u] \in uploads
        BY <2>2, StatementsAssumption DEF InsertRow, StatementsInv, UploadsInv
      <3>2. [upload[u] EXCEPT !.stored = @ + 1] \in uploads
        BY <3>1
      <3>3. \A x \in uploads : x # None
        BY StatementsAssumption
      <3>4. upload' = [upload EXCEPT ![u] = [upload[u] EXCEPT !.stored = @ + 1]]
        BY <2>2 DEF InsertRow
      <3>5. writer' = writer
        BY <2>2 DEF InsertRow
      <3> HIDE DEF uploads
      <3>6. upload' \in [Uploads -> {None} \cup uploads]
        BY <3>2, <3>4 DEF StatementsInv, UploadsInv, uploads
      <3>7. writer' # None => upload'[writer'] # None
        BY <3>2, <3>3, <3>4, <3>5 DEF StatementsInv, UploadsInv
      <3> QED
        BY <3>5, <3>6, <3>7 DEF StatementsInv, UploadsInv, uploads
    <2> QED
      BY <2>1, <2>2
  <1>3. ImportsInv' /\ RowsInv' /\ \A i \in 1 .. Len(imports)' : i \notin touched' => IsWhole(i)'
    BY <1>1, TablesKept DEF Tables
  <1>4. DownloadsInv' /\ RestInv'
    <2>1. imports' = imports /\ Len(imports) \in Nat
      BY <1>1 DEF StatementsInv, ImportsInv
    <2>2. DownloadsInv'
      BY <1>1, <2>1, DownloadsKept
    <2> QED
      BY <1>1, <2>1, <2>2 DEF StatementsInv, RestInv
  <1> QED
    BY <1>2, <1>3, <1>4 DEF StatementsInv

\* An upload that fails, and the end of the process, leave nothing stored.
LEMMA EndedHolds ==
  ASSUME StatementsInv, Restart \/ \E u \in Uploads : FailUpload(u)
  PROVE  StatementsInv'
  <1>1. UNCHANGED <<imports, rows, lastRow, folder, edits, touched>>
    BY DEF Restart, FailUpload, RolledBack, NothingStored
  <1>2. UploadsInv'
    <2>1. CASE Restart
      BY <2>1 DEF Restart, UploadsInv
    <2>2. ASSUME NEW u \in Uploads, FailUpload(u)
          PROVE  UploadsInv'
      <3>1. upload' = [upload EXCEPT ![u] = None]
        BY <2>2 DEF FailUpload
      <3>2. writer' = None \/ (writer' = writer /\ writer # u)
        BY <2>2 DEF FailUpload
      <3> QED
        BY <3>1, <3>2 DEF StatementsInv, UploadsInv
    <2> QED
      BY <2>1, <2>2
  <1>3. ImportsInv' /\ RowsInv' /\ \A i \in 1 .. Len(imports)' : i \notin touched' => IsWhole(i)'
    BY <1>1, TablesKept DEF Tables
  <1>4. DownloadsInv'
    <2>1. imports' = imports /\ Len(imports) \in Nat
      BY <1>1 DEF StatementsInv, ImportsInv
    <2>2. CASE Restart
      BY <2>2 DEF Restart, DownloadsInv, ReadingInv, AnswerHolds, InProgress, Answered
    <2>3. CASE download' = download
      BY <1>1, <2>1, <2>3, DownloadsKept
    <2> QED
      BY <2>2, <2>3 DEF FailUpload
  <1>5. RestInv'
    BY <1>1 DEF StatementsInv, RestInv
  <1> QED
    BY <1>2, <1>3, <1>4, <1>5 DEF StatementsInv

\* A commit appends a statement, whole, after the rows of the others.
LEMMA CommitHolds ==
  ASSUME StatementsInv, NEW u \in Uploads, CommitStatement(u)
  PROVE  StatementsInv'
  <1>0. PICK new : new = Len(imports) + 1
    OBVIOUS
  <1> DEFINE book == upload[u].book
             lines == ParseStatement(book)
             count == Len(lines)
             added == Stored(new, book, count)
  <1>1. upload[u] # None
    BY StatementsAssumption DEF CommitStatement, StatementsInv, UploadsInv
  <1>2. book \in ReadableBooks \cap Workbooks /\ upload[u].stored = count
    BY <1>1 DEF CommitStatement, StatementsInv, UploadsInv
  <1>3. lines \in Seq(Line) /\ count \in Nat
    BY <1>2, LegacyIsReadable, StatementType
  <1>4. /\ imports' = Append(imports, Import(book)) /\ rows' = Extended(rows, added)
        /\ lastRow' = lastRow + count
    BY <1>0, <1>2 DEF CommitStatement, StoredSoFar, IdSequence
  <1>5. /\ writer' = None /\ upload' = [upload EXCEPT ![u] = None]
        /\ UNCHANGED <<download, folder, edits, touched>>
    BY DEF CommitStatement
  <1>6. lastRow \in Nat /\ DOMAIN rows \subseteq 1 .. lastRow /\ Len(imports) \in Nat
        /\ imports \in Seq(ImportRow) /\ Len(imports) >= 1
    BY DEF StatementsInv, RowsInv, ImportsInv
  <1>7. /\ DOMAIN added = lastRow + 1 .. lastRow + count
        /\ \A id \in lastRow + 1 .. lastRow + count :
              added[id] = [import |-> new, line |-> lines[id - lastRow],
                           class |-> ClassifyTransaction(lines[id - lastRow])]
    BY DEF Stored
  <1> HIDE DEF book, lines, count, added
  <1>8. /\ rows' = [id \in DOMAIN rows' |-> rows'[id]]
        /\ DOMAIN rows' = DOMAIN rows \cup lastRow + 1 .. lastRow + count
        /\ \A id \in DOMAIN rows : rows'[id] = rows[id]
        /\ \A id \in lastRow + 1 .. lastRow + count : rows'[id] = added[id]
    <2>1. \A id \in DOMAIN rows : id \notin lastRow + 1 .. lastRow + count
      BY <1>3, <1>6
    <2> QED
      BY <1>4, <1>7, <2>1 DEF Extended
  <1>9. ImportsInv' /\ Len(imports)' = new /\ imports'[new] = Import(book)
        /\ \A i \in 1 .. Len(imports) : imports'[i] = imports[i]
    <2>1. Import(book) \in ImportRow
      BY <1>2 DEF Import, ImportRow, Books
    <2>2. /\ imports' \in Seq(ImportRow) /\ Len(imports') = new /\ imports'[new] = Import(book)
          /\ \A i \in 1 .. Len(imports) : imports'[i] = imports[i]
      BY <1>0, <1>4, <1>6, <2>1
    <2>3. Import(book).workbook = book
      BY DEF Import
    <2>4. \A i \in 2 .. Len(imports) : Book(i)' = Book(i) /\ imports'[i] = Import(Book(i))
      BY <1>6, <2>2 DEF StatementsInv, ImportsInv, Book
    <2>5. Book(new)' = book
      BY <1>0, <1>6, <2>2, <2>3 DEF Book
    <2>6. \A i \in 2 .. Len(imports') : i \in 2 .. Len(imports) \/ i = new
      BY <1>0, <1>6, <2>2
    <2>7. \A i \in 2 .. Len(imports') :
             Book(i)' \in ReadableBooks /\ imports'[i] = Import(Book(i)')
      BY <1>2, <2>2, <2>4, <2>5, <2>6 DEF StatementsInv, ImportsInv
    <2>8. Len(imports') >= 1 /\ imports'[1] = [account |-> LegacyBook.account, workbook |-> None]
      BY <1>0, <1>6, <2>2 DEF StatementsInv, ImportsInv
    <2>9. ImportsInv'
      BY <2>2, <2>7, <2>8 DEF ImportsInv
    <2> QED
      BY <2>2, <2>9
  <1>10. RowsInv'
    <2>1. lastRow' \in Nat /\ DOMAIN rows' \subseteq 1 .. lastRow'
      BY <1>3, <1>4, <1>6, <1>8
    <2>2. ASSUME NEW id \in DOMAIN rows
          PROVE  rows'[id] \in BankRow /\ rows'[id].import \in 1 .. Len(imports)'
      BY <1>0, <1>6, <1>8, <1>9 DEF StatementsInv, RowsInv
    <2>3. ASSUME NEW id \in lastRow + 1 .. lastRow + count
          PROVE  rows'[id] \in BankRow /\ rows'[id].import \in 1 .. Len(imports)'
      <3>1. id - lastRow \in 1 .. count
        BY <1>3, <1>6
      <3>2. lines[id - lastRow] \in Line
        BY <1>3, <3>1 DEF count
      <3>3. new \in Nat /\ new \in 1 .. Len(imports)'
        BY <1>0, <1>6, <1>9
      <3> QED
        BY <1>7, <1>8, <3>2, <3>3, ClassifiedType DEF BankRow
    <2> QED
      BY <1>8, <2>1, <2>2, <2>3 DEF RowsInv
  <1>11. UploadsInv'
    BY <1>5 DEF StatementsInv, UploadsInv
  <1>12. DownloadsInv' /\ RestInv'
    <2>1. touched \subseteq 1 .. Len(imports)'
      BY <1>0, <1>6, <1>9 DEF StatementsInv, RestInv
    <2>2. Len(imports)' >= Len(imports) /\ Len(imports)' \in Nat
      BY <1>0, <1>6, <1>9
    <2>3. DownloadsInv'
      BY <1>0, <1>5, <1>6, <1>9, <2>2, DownloadsKept
    <2> QED
      BY <1>5, <2>1, <2>3 DEF StatementsInv, RestInv
  <1>13. ASSUME NEW i \in 1 .. Len(imports)', i \notin touched'
         PROVE  IsWhole(i)'
    <2>1. CASE i = new
      <3>1. Book(i)' = book
        BY <1>0, <1>6, <1>9, <2>1 DEF Book, Import
      <3>2. Rows(i)' = lastRow + 1 .. lastRow + count
        <4>1. \A id \in DOMAIN rows : rows'[id].import # new
          BY <1>0, <1>6, <1>8 DEF StatementsInv, RowsInv
        <4>2. \A id \in lastRow + 1 .. lastRow + count : rows'[id].import = new
          BY <1>7, <1>8
        <4> QED
          BY <1>8, <2>1, <4>1, <4>2 DEF Rows
      <3>3. \A k \in 1 .. count : rows'[lastRow + k].line = lines[k]
        <4> TAKE k \in 1 .. count
        <4>1. lastRow + k \in lastRow + 1 .. lastRow + count /\ (lastRow + k) - lastRow = k
          BY <1>3, <1>6
        <4> QED
          BY <1>7, <1>8, <4>1
      <3> QED
        BY <1>6, <3>1, <3>2, <3>3 DEF IsWhole, lines, count
    <2>2. CASE i # new
      <3>1. i \in 1 .. Len(imports) /\ i \notin touched
        BY <1>0, <1>5, <1>6, <1>9, <1>13, <2>2
      <3>2. IsWhole(i) /\ Book(i)' = Book(i)
        BY <1>9, <3>1 DEF StatementsInv, Book
      <3>3. Rows(i)' = Rows(i)
        <4>1. \A id \in lastRow + 1 .. lastRow + count : rows'[id].import = new
          BY <1>7, <1>8
        <4> QED
          BY <1>8, <2>2, <4>1 DEF Rows
      <3>4. \A id \in Rows(i) : rows'[id] = rows[id]
        BY <1>8 DEF Rows
      <3> DEFINE kept == ParseStatement(Book(i))
      <3>5. PICK before \in Nat : /\ Rows(i) = before + 1 .. before + Len(kept)
                                 /\ \A k \in 1 .. Len(kept) : rows[before + k].line = kept[k]
        BY <3>2 DEF IsWhole
      <3>6. Len(kept) \in Nat
        <4>1. Book(i) \in Books
          BY <3>1, BookOfStatement, LegacyIsReadable DEF StatementsInv
        <4> QED
          BY <4>1, StatementType
      <3> HIDE DEF kept
      <3>7. \A k \in 1 .. Len(kept) : rows'[before + k].line = kept[k]
        <4> TAKE k \in 1 .. Len(kept)
        <4>1. before + k \in Rows(i)
          BY <3>5, <3>6
        <4> QED
          BY <3>4, <3>5, <4>1
      <3> QED
        BY <3>2, <3>3, <3>5, <3>7 DEF IsWhole, kept
    <2> QED
      BY <2>1, <2>2
  <1> QED
    BY <1>9, <1>10, <1>11, <1>12, <1>13 DEF StatementsInv

LEMMA BalanceRaised == ASSUME NEW line \in Line PROVE [line EXCEPT !.balance = @ + 1] \in Line
  <1>1. ASSUME NEW F, NEW N, NEW W, NEW l \in [first: F, narration: N, withdrawal: W, balance: Nat]
        PROVE  [l EXCEPT !.balance = @ + 1] \in [first: F, narration: N, withdrawal: W, balance: Nat]
    OBVIOUS
  <1>2. \E F, N, W : Line = [first: F, narration: N, withdrawal: W, balance: Nat]
    BY Zenon DEF Line
  <1>3. PICK F, N, W : Line = [first: F, narration: N, withdrawal: W, balance: Nat]
    BY <1>2, Zenon
  <1>4. line \in [first: F, narration: N, withdrawal: W, balance: Nat]
    BY <1>3, Zenon
  <1>5. [line EXCEPT !.balance = @ + 1] \in [first: F, narration: N, withdrawal: W, balance: Nat]
    BY <1>1, <1>4
  <1> QED
    BY <1>3, <1>5, Zenon

\* A change to a stored row keeps the bank values of the others, and its own
\* if only its classification is saved.
LEMMA RowChangeHolds ==
  ASSUME StatementsInv, NEW id \in DOMAIN rows,
         BrowserEdit(id) \/ \E class \in Classes : SaveClassification(id, class)
  PROVE  StatementsInv'
  <1>1. UNCHANGED <<imports, lastRow, writer, upload, download, folder>> /\ edits' = edits + 1
        /\ edits < MaxEdits
    BY DEF BrowserEdit, SaveClassification
  <1>2. /\ rows[id] \in BankRow /\ Len(imports) \in Nat /\ rows[id].import \in 1 .. Len(imports)
        /\ \A class \in Classes : class \in Class
    BY StatementsAssumption DEF StatementsInv, RowsInv, ImportsInv
  <1>3. /\ touched \subseteq touched' /\ touched' \subseteq 1 .. Len(imports)
        /\ rows' = [other \in DOMAIN rows' |-> rows'[other]] /\ DOMAIN rows' \subseteq DOMAIN rows
        /\ \A other \in DOMAIN rows' : /\ rows'[other] \in BankRow
                                      /\ rows'[other].import = rows[other].import
        /\ \A other \in DOMAIN rows : rows[other].import \notin touched' =>
               other \in DOMAIN rows' /\ rows'[other].line = rows[other].line
    <2>1. CASE BrowserEdit(id)
      <3>1. touched' = touched \cup {rows[id].import}
        BY <2>1 DEF BrowserEdit
      <3>2. CASE rows' = [other \in DOMAIN rows \ {id} |-> rows[other]]
        BY <1>2, <3>1, <3>2 DEF StatementsInv, RowsInv, RestInv
      <3>3. CASE rows' = [rows EXCEPT ![id].line.balance = @ + 1]
        <4>1. [rows[id] EXCEPT !.line.balance = @ + 1] \in BankRow
          <5> DEFINE line == rows[id].line
          <5>1. line \in Line
            BY <1>2 DEF BankRow
          <5>2. [line EXCEPT !.balance = @ + 1] \in Line
            BY <5>1, BalanceRaised
          <5>3. [rows[id] EXCEPT !.line.balance = @ + 1]
                   = [rows[id] EXCEPT !.line = [line EXCEPT !.balance = @ + 1]]
            OBVIOUS
          <5> QED
            BY <1>2, <5>2, <5>3 DEF BankRow
        <4>2. [rows[id] EXCEPT !.line.balance = @ + 1].import = rows[id].import
          BY <1>2 DEF BankRow
        <4>3. rows' = [rows EXCEPT ![id] = [rows[id] EXCEPT !.line.balance = @ + 1]]
          BY <3>3
        <4> QED
          BY <1>2, <3>1, <4>1, <4>2, <4>3 DEF StatementsInv, RowsInv, RestInv
      <3> QED
        BY <2>1, <3>2, <3>3 DEF BrowserEdit
    <2>2. ASSUME NEW class \in Classes, SaveClassification(id, class)
          PROVE  <1>3!:
      <3>1. rows' = [rows EXCEPT ![id] = [rows[id] EXCEPT !.class = class]] /\ touched' = touched
        BY <2>2 DEF SaveClassification
      <3>2. /\ [rows[id] EXCEPT !.class = class] \in BankRow
            /\ [rows[id] EXCEPT !.class = class].import = rows[id].import
            /\ [rows[id] EXCEPT !.class = class].line = rows[id].line
        BY <1>2 DEF BankRow
      <3> QED
        BY <3>1, <3>2 DEF StatementsInv, RowsInv, RestInv
    <2> QED
      BY <2>1, <2>2
  <1>4. ImportsInv' /\ UploadsInv' /\ DownloadsInv'
    <2>1. imports' = imports
      BY <1>1
    <2>2. DownloadsInv'
      BY <1>1, <1>2, <1>3, <2>1, DownloadsKept
    <2> QED
      BY <1>1, <2>2 DEF StatementsInv, ImportsInv, Book, UploadsInv
  <1>5. RowsInv' /\ RestInv'
    BY <1>1, <1>3, StatementsAssumption DEF StatementsInv, RowsInv, RestInv
  <1>6. ASSUME NEW i \in 1 .. Len(imports)', i \notin touched'
        PROVE  IsWhole(i)'
    <2>1. i \in 1 .. Len(imports) /\ i \notin touched /\ Book(i)' = Book(i)
      BY <1>1, <1>3, <1>6 DEF Book
    <2>2. IsWhole(i)
      BY <2>1 DEF StatementsInv
    <2>3. Rows(i)' = Rows(i)
      BY <1>3, <1>6 DEF Rows
    <2>4. \A other \in Rows(i) : rows'[other].line = rows[other].line
      BY <1>3, <1>6 DEF Rows
    <2> DEFINE kept == ParseStatement(Book(i))
    <2>5. PICK before \in Nat : /\ Rows(i) = before + 1 .. before + Len(kept)
                               /\ \A k \in 1 .. Len(kept) : rows[before + k].line = kept[k]
      BY <2>2 DEF IsWhole
    <2>6. Len(kept) \in Nat
      <3>1. Book(i) \in Books
        BY <2>1, BookOfStatement, LegacyIsReadable DEF StatementsInv
      <3> QED
        BY <3>1, StatementType
    <2> HIDE DEF kept
    <2>7. \A k \in 1 .. Len(kept) : rows'[before + k].line = kept[k]
      <3> TAKE k \in 1 .. Len(kept)
      <3>1. before + k \in Rows(i)
        BY <2>5, <2>6
      <3> QED
        BY <2>4, <2>5, <3>1
    <2> QED
      BY <2>1, <2>3, <2>5, <2>7 DEF IsWhole, kept
  <1> QED
    BY <1>4, <1>5, <1>6 DEF StatementsInv

LEMMA PutFileHolds ==
  ASSUME StatementsInv, NEW book \in FolderFiles \cup {None}, PutFile(book)
  PROVE  StatementsInv'
  <1>1. imports' = imports /\ Len(imports) \in Nat
    BY DEF PutFile, StatementsInv, ImportsInv
  <1>2. DownloadsInv'
    BY <1>1, DownloadsKept DEF PutFile
  <1>3. ImportsInv' /\ RowsInv' /\ \A i \in 1 .. Len(imports)' : i \notin touched' => IsWhole(i)'
    BY TablesKept DEF PutFile, Tables
  <1> QED
    BY <1>2, <1>3 DEF PutFile, StatementsInv, UploadsInv, RestInv

\* A step of one download keeps the rest; what it must show of its own new
\* record are the two conditions on it.
LEMMA DownloadStepHolds ==
  ASSUME StatementsInv, NEW d \in Downloads, NEW given,
         download' = [download EXCEPT ![d] = given],
         UNCHANGED <<imports, rows, lastRow, writer, upload, folder, edits, touched>>,
         ReadingInv(d)', AnswerHolds(d)'
  PROVE  StatementsInv'
  <1>1. ASSUME NEW e \in Downloads
        PROVE  ReadingInv(e)' /\ AnswerHolds(e)'
    <2>1. CASE e = d
      BY <2>1
    <2>2. CASE e # d
      <3>1. download'[e] = download[e]
        BY <2>2 DEF StatementsInv, DownloadsInv
      <3>2. ReadingInv(e) /\ AnswerHolds(e)
        BY DEF StatementsInv, DownloadsInv
      <3>3. ReadingInv(e)'
        BY <3>1, <3>2 DEF ReadingInv, InProgress, Book
      <3>4. AnswerHolds(e)'
        <4>1. touched' = touched /\ Answered(e)' = Answered(e)
          BY <3>1 DEF Answered
        <4> QED
          BY <3>1, <3>2, <4>1 DEF AnswerHolds
      <3> QED
        BY <3>3, <3>4
    <2> QED
      BY <2>1, <2>2
  <1>2. DownloadsInv'
    BY <1>1 DEF StatementsInv, DownloadsInv
  <1>3. ImportsInv' /\ RowsInv' /\ \A i \in 1 .. Len(imports)' : i \notin touched' => IsWhole(i)'
    BY TablesKept DEF Tables
  <1> QED
    BY <1>2, <1>3 DEF StatementsInv, UploadsInv, RestInv

\* A statement with its workbook is refused only when its rows were changed.
LEMMA RefusedHolds ==
  ASSUME NEW d \in Downloads, NEW why \in {"unavailable", "mismatch"}, NEW i, StatementsInv,
         Answer(d, Refused(why, i)), i \in {1} \cup touched'
  PROVE  ReadingInv(d)' /\ AnswerHolds(d)'
  <1>1. download'[d] = Refused(why, i)
    BY DEF Answer, StatementsInv, DownloadsInv
  <1>2. "txns" \notin DOMAIN download'[d] /\ download'[d].refused = why /\ download'[d].import = i
    BY <1>1 DEF Refused
  <1>3. why # ""
    OBVIOUS
  <1> QED
    BY <1>2, <1>3 DEF ReadingInv, AnswerHolds, InProgress, Answered

LEMMA StartDownloadHolds ==
  ASSUME StatementsInv, NEW d \in Downloads, NEW i \in DOMAIN imports, StartDownload(d, i)
  PROVE  StatementsInv'
  <1>1. i \in 1 .. Len(imports) /\ Len(imports) \in Nat /\ i \in Nat
    BY DEF StatementsInv, ImportsInv
  <1>2. UNCHANGED <<imports, rows, lastRow, writer, upload, folder, edits, touched>>
    BY DEF StartDownload
  <1>3. i # 1 => Original(i) = Book(i) /\ Book(i) \in ReadableBooks
    <2>1. ASSUME i # 1
          PROVE  Book(i) \in ReadableBooks /\ imports[i].workbook = Book(i) /\ Book(i) # None
      <3>1. Book(i) \in ReadableBooks
        BY <1>1, BookOfStatement DEF StatementsInv
      <3>2. Book(i) # None
        BY <3>1, StatementsAssumption DEF ReadableBooks, Books
      <3> QED
        BY <2>1, <3>1, <3>2 DEF Book
    <2> QED
      BY <2>1 DEF Original
  <1>4. CASE Original(i) # None /\ Original(i).readable
    <2> DEFINE given == [import |-> i, book |-> Original(i), txns |-> None]
    <2>1. download' = [download EXCEPT ![d] = given]
      BY <1>4 DEF StartDownload
    <2>2. Original(i) \in ReadableBooks
      <3>1. Original(i) \in Books
        BY <1>1, <1>3, <1>4 DEF Original, StatementsInv, RestInv, ImportsInv, Books, ReadableBooks
      <3> QED
        BY <1>4, <3>1 DEF ReadableBooks
    <2>3. download'[d] = given
      BY <2>1 DEF StatementsInv, DownloadsInv
    <2>4. given \in Reading /\ given.import = i /\ given.book = Original(i) /\ given.txns = None
      BY <1>1, <2>2 DEF Reading
    <2>5. "refused" \notin DOMAIN given
      OBVIOUS
    <2> HIDE DEF given
    <2>6. ReadingInv(d)'
      BY <1>1, <1>2, <1>3, <2>3, <2>4 DEF ReadingInv, Book
    <2>7. AnswerHolds(d)'
      BY <2>3, <2>5 DEF AnswerHolds, Answered
    <2> QED
      BY <1>2, <2>1, <2>6, <2>7, DownloadStepHolds
  <1>5. CASE ~(Original(i) # None /\ Original(i).readable)
    <2>1. Answer(d, Refused("unavailable", i))
      BY <1>5 DEF StartDownload
    <2>2. i = 1
      BY <1>3, <1>5, StatementsAssumption DEF ReadableBooks, Books
    <2>3. ReadingInv(d)' /\ AnswerHolds(d)'
      BY <2>1, <2>2, RefusedHolds
    <2> QED
      BY <1>2, <2>1, <2>3, DownloadStepHolds DEF Answer
  <1> QED
    BY <1>4, <1>5

LEMMA ReadTransactionsHolds ==
  ASSUME StatementsInv, NEW d \in Downloads, ReadTransactions(d)
  PROVE  StatementsInv'
  <1> DEFINE at == download[d]
             i == at.import
             txns == GetTransactions(i)
             given == [at EXCEPT !.txns = txns]
  <1>1. at \in Reading /\ i \in 1 .. Len(imports) /\ (i # 1 => at.book = Book(i))
    BY DEF ReadTransactions, StatementsInv, DownloadsInv, ReadingInv
  <1>2. /\ UNCHANGED <<imports, rows, lastRow, writer, upload, folder, edits, touched>>
        /\ download' = [download EXCEPT ![d] = given]
    BY DEF ReadTransactions
  <1>3. download'[d] = given
    BY <1>2 DEF StatementsInv, DownloadsInv
  <1>4. txns \in Seq(TxnRow)
    BY <1>1, TransactionsRead
  <1>5. i \notin {1} \cup touched => Agrees(imports[i].account, at.book, txns)
    <2>1. ASSUME i \notin {1} \cup touched
          PROVE  Agrees(imports[i].account, at.book, txns)
      <3>1. i \in 2 .. Len(imports) /\ at.book = Book(i)
        BY <1>1, <2>1 DEF StatementsInv, ImportsInv
      <3>2. IsWhole(i)
        BY <1>1, <2>1 DEF StatementsInv
      <3> QED
        BY <3>1, <3>2, WholeAgrees
    <2> QED
      BY <2>1
  <1>6. given \in Reading /\ given.import = i /\ given.book = at.book /\ given.txns = txns
    BY <1>1, <1>4 DEF Reading
  <1>7. "refused" \notin DOMAIN given
    BY <1>6 DEF Reading
  <1> HIDE DEF at, given, txns
  <1>8. ReadingInv(d)'
    BY <1>1, <1>2, <1>3, <1>5, <1>6 DEF ReadingInv, Book
  <1>9. AnswerHolds(d)'
    BY <1>3, <1>7 DEF AnswerHolds, Answered
  <1> QED
    BY <1>2, <1>8, <1>9, DownloadStepHolds

\* What is written next to a row is about its bank values.
LEMMA AnnotatedFits ==
  ASSUME NEW book \in Books, NEW account, NEW txns \in Seq(TxnRow), NEW i,
         Agrees(account, book, txns)
  PROVE  CellsFit(Annotated(i, book, txns))
  <1> DEFINE at == SourceRows(book)
             of(n) == CHOOSE k \in DOMAIN at : at[k] = n
             answer == Annotated(i, book, txns)
             written == {at[k] : k \in DOMAIN at}
  <1>1. /\ answer.book = book
        /\ answer.cells = [n \in written |-> Annotation(txns[of(n)])]
    BY DEF Annotated, AnnotatedRows
  <1>2. ASSUME NEW n \in written
        PROVE  Annotation(txns[of(n)]).of = book.lines[n]
    <2>1. of(n) \in DOMAIN at /\ at[of(n)] = n
      OBVIOUS
    <2> DEFINE k == of(n)
    <2> HIDE DEF of, k
    <2>2. k \in 1 .. Len(at) /\ at[k] = n /\ k \in 1 .. Len(txns)
      <3>1. at \in Seq(DOMAIN book.lines) /\ Len(ParseStatement(book)) = Len(at)
        BY StatementType
      <3> HIDE DEF at
      <3>2. k \in 1 .. Len(at)
        BY <2>1, <3>1 DEF k
      <3>3. Len(txns) = Len(at)
        BY <3>1 DEF Agrees, ValuesAgree, CountsAgree
      <3> QED
        BY <2>1, <3>2, <3>3 DEF k
    <2>3. txns[k].row.line = ParseStatement(book)[k]
      BY <2>2 DEF Agrees, ValuesAgree
    <2>4. ParseStatement(book)[k] = book.lines[at[k]]
      BY <2>2, StatementType
    <2>5. Annotation(txns[k]).of = txns[k].row.line
      BY DEF Annotation
    <2> QED
      BY <2>2, <2>3, <2>4, <2>5 DEF k
  <1> HIDE DEF of, answer, at
  <1>3. DOMAIN answer.cells = written /\ \A n \in written : answer.cells[n].of = book.lines[n]
    BY <1>1, <1>2
  <1> QED
    BY <1>1, <1>3 DEF CellsFit, answer, at

LEMMA DownloadStatementHolds ==
  ASSUME StatementsInv, NEW d \in Downloads, DownloadStatement(d)
  PROVE  StatementsInv'
  <1> DEFINE at == download[d]
             i == at.import
             fits == Agrees(imports[i].account, at.book, at.txns)
  <1>1. at \in Reading /\ at.txns # None /\ (i \notin {1} \cup touched => fits)
    BY DEF DownloadStatement, StatementsInv, DownloadsInv, ReadingInv
  <1>2. /\ UNCHANGED <<imports, rows, lastRow, writer, upload, folder, edits, touched>>
        /\ Answer(d, IF fits THEN Annotated(i, at.book, at.txns) ELSE Refused("mismatch", i))
    BY DEF DownloadStatement
  <1> HIDE DEF fits
  <1>3. CASE fits
    <2> DEFINE given == Annotated(i, at.book, at.txns)
    <2>1. at.book \in Books /\ at.txns \in Seq(TxnRow)
      BY <1>1, LegacyIsReadable DEF Reading
    <2>2. CellsFit(given)
      BY <1>3, <2>1, AnnotatedFits DEF fits
    <2>3. "txns" \notin DOMAIN given /\ given.refused = ""
      BY DEF Annotated
    <2> HIDE DEF given
    <2>4. download' = [download EXCEPT ![d] = given]
      BY <1>2, <1>3 DEF Answer, given
    <2>5. download'[d] = given
      BY <2>4 DEF StatementsInv, DownloadsInv
    <2>6. ReadingInv(d)' /\ AnswerHolds(d)'
      BY <2>2, <2>3, <2>5 DEF ReadingInv, AnswerHolds, InProgress, Answered
    <2> QED
      BY <1>2, <2>4, <2>6, DownloadStepHolds
  <1>4. CASE ~fits
    <2>1. Answer(d, Refused("mismatch", i)) /\ i \in {1} \cup touched'
      BY <1>1, <1>2, <1>4
    <2>2. ReadingInv(d)' /\ AnswerHolds(d)'
      BY <2>1, RefusedHolds
    <2> QED
      BY <1>2, <2>1, <2>2, DownloadStepHolds DEF Answer
  <1> QED
    BY <1>3, <1>4

\* The tables, the requests and the write lock keep StatementsInv whatever
\* requests, failures, edits and restarts there are.
THEOREM StatementsInvHolds == Spec => []StatementsInv
  <1>1. Init => StatementsInv
    BY InitHolds
  <1>2. ASSUME StatementsInv, [Next]_vars
        PROVE  StatementsInv'
    <2>1. ASSUME NEW u \in Uploads, NEW book \in Workbooks, UploadStatement(u, book)
          PROVE  StatementsInv'
      BY <1>2, <2>1, UploadStatementHolds
    <2>2. ASSUME NEW u \in Uploads, BeginStore(u) \/ InsertRow(u)
          PROVE  StatementsInv'
      BY <1>2, <2>2, StoringHolds
    <2>3. ASSUME NEW u \in Uploads, CommitStatement(u)
          PROVE  StatementsInv'
      BY <1>2, <2>3, CommitHolds
    <2>4. CASE Restart \/ \E u \in Uploads : FailUpload(u)
      BY <1>2, <2>4, EndedHolds
    <2>5. ASSUME NEW id \in DOMAIN rows,
                 BrowserEdit(id) \/ \E class \in Classes : SaveClassification(id, class)
          PROVE  StatementsInv'
      BY <1>2, <2>5, RowChangeHolds
    <2>6. ASSUME NEW book \in FolderFiles \cup {None}, PutFile(book)
          PROVE  StatementsInv'
      BY <1>2, <2>6, PutFileHolds
    <2>7. ASSUME NEW d \in Downloads, NEW i \in DOMAIN imports, StartDownload(d, i)
          PROVE  StatementsInv'
      BY <1>2, <2>7, StartDownloadHolds
    <2>8. ASSUME NEW d \in Downloads, ReadTransactions(d)
          PROVE  StatementsInv'
      BY <1>2, <2>8, ReadTransactionsHolds
    <2>9. ASSUME NEW d \in Downloads, DownloadStatement(d)
          PROVE  StatementsInv'
      BY <1>2, <2>9, DownloadStatementHolds
    <2>10. CASE UNCHANGED vars
      <3>1. imports' = imports /\ download' = download /\ touched' = touched /\ Len(imports) \in Nat
        BY <1>2, <2>10 DEF vars, StatementsInv, ImportsInv
      <3>2. DownloadsInv'
        BY <1>2, <3>1, DownloadsKept
      <3>3. ImportsInv' /\ RowsInv' /\ \A i \in 1 .. Len(imports)' : i \notin touched' => IsWhole(i)'
        BY <1>2, <2>10, TablesKept DEF Tables, vars
      <3> QED
        BY <1>2, <2>10, <3>2, <3>3 DEF vars, StatementsInv, UploadsInv, RestInv
    <2> QED
      BY <1>2, <2>1, <2>2, <2>3, <2>4, <2>5, <2>6, <2>7, <2>8, <2>9, <2>10 DEF Next
  <1> QED
    BY <1>1, <1>2, PTL DEF Spec

LEMMA InvariantShowsWhole == StatementsInv => StatementsAreWhole
  <1> SUFFICES ASSUME StatementsInv
               PROVE  StatementsAreWhole
    OBVIOUS
  <1>1. DOMAIN imports = 1 .. Len(imports)
    BY DEF StatementsInv, ImportsInv
  <1>2. TypeOK
    <2>1. \A i \in DOMAIN imports : imports[i].workbook \in Workbooks \cup {None}
      <3>1. \A i \in 1 .. Len(imports) : imports[i] \in ImportRow
        BY DEF StatementsInv, ImportsInv
      <3>2. \A i \in 1 .. Len(imports) : imports[i].workbook \in Workbooks \cup {None}
        BY <3>1 DEF ImportRow
      <3> QED
        BY <1>1, <3>2
    <2>2. \A id \in DOMAIN rows :
            /\ id <= lastRow /\ rows[id].import \in DOMAIN imports
            /\ rows[id].line \in Line /\ rows[id].class \in Class
      BY <1>1 DEF StatementsInv, RowsInv, BankRow
    <2>3. \A d \in Downloads : InProgress(d) =>
            download[d].import \in DOMAIN imports /\ download[d].book.readable
      BY <1>1 DEF StatementsInv, DownloadsInv, ReadingInv, Reading, ReadableBooks
    <2> QED
      BY <1>1, <2>1, <2>2, <2>3 DEF TypeOK, StatementsInv, UploadsInv, RestInv
  <1>3. ASSUME NEW i \in DOMAIN imports \ touched
        PROVE  LET ids == Ascending(Rows(i))
                   book == IF i = 1 THEN LegacyBook ELSE imports[i].workbook
               IN  [k \in DOMAIN ids |-> rows[ids[k]].line] = ParseStatement(book)
    <2> DEFINE ids == Ascending(Rows(i))
               lines == ParseStatement(Book(i))
    <2>1. i \in 1 .. Len(imports) /\ IsWhole(i)
      BY <1>1 DEF StatementsInv
    <2>2. lines \in Seq(Line)
      <3>1. Book(i) \in Books
        BY <2>1, BookOfStatement, LegacyIsReadable DEF StatementsInv
      <3> QED
        BY <3>1, StatementType
    <2>3. /\ ids = [k \in 1 .. Len(lines) |-> ids[k]]
          /\ \A k \in 1 .. Len(lines) : rows[ids[k]].line = lines[k]
      BY <2>1, TransactionsOfWhole
    <2> HIDE DEF ids, lines
    <2>4. [k \in DOMAIN ids |-> rows[ids[k]].line] = lines
      BY <2>2, <2>3
    <2> QED
      BY <2>4 DEF ids, lines, Book
  <1> QED
    BY <1>2, <1>3 DEF StatementsAreWhole

\* However uploads compete and fail, each stored statement has the transactions
\* of its workbook in their order, unless the database browser changed them
\* (StoreInDB in one transaction).
THEOREM StatementsAreWholeHolds == Spec => []StatementsAreWhole
  BY StatementsInvHolds, InvariantShowsWhole, PTL

\* A download has a classification next to the bank values that it is about, in
\* every row that was imported, and is refused only if the workbook or the rows
\* are no longer those of the import (StatementDownload).
THEOREM ClassificationsStay == Spec => []ClassificationsStayOnTheirRows
  <1>1. StatementsInv => ClassificationsStayOnTheirRows
    BY DEF StatementsInv, DownloadsInv, AnswerHolds, CellsFit, ClassificationsStayOnTheirRows
  <1> QED
    BY <1>1, StatementsInvHolds, PTL
=============================================================================
