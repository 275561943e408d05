----------------------------- MODULE Statements -----------------------------
(***************************************************************************)
(* Bank statements: core/parse.go, core/rules.go, StoreInDB of core/db.go  *)
(* with its handler, and core/statement_download.go. An upload parses and  *)
(* classifies a workbook and stores it in one transaction; a download      *)
(* parses the workbook again and writes what is stored next to its rows.   *)
(*                                                                         *)
(* What a classification may become is in Subledger; here it changes to    *)
(* any other. The database browser, too, may delete and alter rows.        *)
(***************************************************************************)
EXTENDS Ascending, Sequences, SequencesExt

CONSTANTS
    Uploads, Downloads,  \* requests in progress
    Workbooks,           \* the files that may be uploaded
    FolderFiles,         \* and those that may be put in the application folder
    LegacyBook,          \* what an older server stored without its workbook
    Texts,               \* of sub heads, partners and numbers
    Classes,             \* classifications that are saved by hand
    MaxImports,          \* bound: stored statements
    MaxEdits,            \* bound: classifications saved, rows altered
    None

Patterns == {"DPO tax", "INW", "own account", "SALARY", "CBDT TIN", "GST", "store",
             "travel", "insurance", "FILLING STATION", "HBA STUDIO", "VISHU", "other"}
\* A line of a sheet: its first cell, what its narration matches, whether
\* money is withdrawn, and its balance, for all the amounts.
Line == [first: {"date", "", "***"}, narration: SUBSET Patterns,
         withdrawal: BOOLEAN, balance: Nat]
Heads == {"", "Bank Charges", "Sales Invoice", "To Personal", "Salary", "Tax",
          "Software/Services", "Travel", "Insurance", "Fuel", "Domestic Sales", "Misc Expenses"}
\* The partner's name is the partner, and "" is none; an invoice cell is a
\* set of numbers; purchases are the bills that the row pays.
Class == [head: Heads, sub: Texts, invoice: SUBSET Texts, partner: Texts,
          purchases: SUBSET Texts]

ASSUME StatementsAssumption ==
    /\ Classes \subseteq Class /\ MaxImports \in Nat /\ MaxEdits \in Nat
    /\ \A book \in Workbooks \cup FolderFiles : book.readable \in BOOLEAN /\ book.lines \in Seq(Line)
    /\ LegacyBook \in FolderFiles /\ LegacyBook.readable
    /\ None \notin Workbooks \cup FolderFiles \cup Uploads \cup [book: Workbooks, stored: Nat]

VARIABLES
    imports,     \* imports with statement_workbooks, by id
    rows,        \* bank_transactions: those there are, by id
    lastRow,     \* the sequence of their ids
    writer,      \* the upload that has the write lock
    upload,      \* the uploads in progress
    download,    \* the downloads, in progress or answered
    folder,      \* the file in the application folder
    edits,       \* how many changes by hand there have been
    touched      \* history: imports whose rows the database browser changed

vars == <<imports, rows, lastRow, writer, upload, download, folder, edits, touched>>

---------------------------------------------------------------------------
(* core/parse.go *)

\* An empty row, or the footer.
Stops(line) == line.first \in {"", "***"}

\* The source rows of the transactions, in order.
SourceRows(book) ==
    LET before(n) == {book.lines[k] : k \in 1 .. n}
        read == {n \in DOMAIN book.lines :
                    (\A line \in before(n) : ~Stops(line)) /\ book.lines[n].narration # {}}
    IN  Ascending(read)

ParseStatement(book) == [k \in DOMAIN SourceRows(book) |-> book.lines[SourceRows(book)[k]]]

---------------------------------------------------------------------------
(* core/rules.go *)

\* In the order of classificationRules: the pattern and what it gives.
Rules == <<
    <<"DPO tax", "Bank Charges", "CGST", {"DPO"}>>, <<"INW", "Sales Invoice", "", {}>>,
    <<"own account", "To Personal", "Ritu Gandhi", {}>>, <<"SALARY", "Salary", "name", {}>>,
    <<"CBDT TIN", "Tax", "Income Tax", {}>>, <<"GST", "Tax", "GST", {}>>,
    <<"store", "Software/Services", "name", {}>>, <<"travel", "Travel", "name", {}>>,
    <<"insurance", "Insurance", "Tata AIG", {}>>, <<"FILLING STATION", "Fuel", "", {}>>,
    <<"HBA STUDIO", "Domestic Sales", "HBA Studio", {}>>, <<"VISHU", "Misc Expenses", "Vishu", {}>> >>

ASSUME TextsAssumption ==
    "" \in Texts /\ \A n \in 1 .. 12 : Rules[n][3] \in Texts /\ Rules[n][4] \subseteq Texts

Classified(head, sub, invoice) ==
    [head |-> head, sub |-> sub, invoice |-> invoice, partner |-> "", purchases |-> {}]

\* The first rule that matches; salaries are withdrawals.
ClassifyTransaction(line) ==
    LET Matches(rule) ==
            rule[1] \in line.narration /\ (rule[1] = "SALARY" => line.withdrawal)
        n == SelectInSeq(Rules, Matches)
    IN  IF n = 0 THEN Classified("", "", {}) ELSE Classified(Rules[n][2], Rules[n][3], Rules[n][4])

---------------------------------------------------------------------------
(* Uploads *)

Rows(i) == {id \in DOMAIN rows : rows[id].import = i}

\* The first so many transactions of a statement as rows of import i.
Stored(i, book, count) ==
    LET statement == ParseStatement(book)
    IN  [id \in lastRow + 1 .. lastRow + count |->
            [import |-> i, line |-> statement[id - lastRow],
             class |-> ClassifyTransaction(statement[id - lastRow])]]

\* A copy of f that is g where g is defined.
Extended(f, g) == [x \in DOMAIN f \cup DOMAIN g |-> IF x \in DOMAIN g THEN g[x] ELSE f[x]]

\* Parses and classifies; an unreadable workbook is refused.
UploadStatement(u, book) ==
    /\ upload[u] = None /\ book.readable
    /\ upload' = [upload EXCEPT ![u] = [book |-> book, stored |-> 0]]
    /\ UNCHANGED <<imports, rows, lastRow, writer, download, folder, edits, touched>>

\* The rows of the account, the import and the workbook take the write lock.
BeginStore(u) ==
    /\ upload[u] # None /\ writer = None /\ Len(imports) < MaxImports
    /\ writer' = u
    /\ UNCHANGED <<imports, rows, lastRow, upload, download, folder, edits, touched>>

InsertRow(u) ==
    /\ writer = u /\ upload[u].stored < Len(ParseStatement(upload[u].book))
    /\ upload' = [upload EXCEPT ![u].stored = @ + 1]
    /\ UNCHANGED <<imports, rows, lastRow, writer, download, folder, edits, touched>>

Import(book) == [account |-> book.account, workbook |-> book]

IdSequence(u) == lastRow + upload[u].stored

\* What the transaction of u holds so far.
StoredSoFar(u) ==
    /\ imports' = Append(imports, Import(upload[u].book))
    /\ rows' = Extended(rows, Stored(Len(imports) + 1, upload[u].book, upload[u].stored))
    /\ lastRow' = IdSequence(u)
NothingStored(u) == UNCHANGED <<imports, rows, lastRow>>
RolledBack(u) == NothingStored(u)

CommitStatement(u) ==
    /\ writer = u /\ upload[u].stored = Len(ParseStatement(upload[u].book))
    /\ StoredSoFar(u)
    /\ writer' = None /\ upload' = [upload EXCEPT ![u] = None]
    /\ UNCHANGED <<download, folder, edits, touched>>

\* An error before COMMIT: the disk is full, the lock is taken for too long.
FailUpload(u) ==
    /\ upload[u] # None
    /\ IF writer = u THEN RolledBack(u) /\ writer' = None
       ELSE UNCHANGED <<imports, rows, lastRow, writer>>
    /\ upload' = [upload EXCEPT ![u] = None]
    /\ UNCHANGED <<download, folder, edits, touched>>

---------------------------------------------------------------------------
(* Changes to stored rows *)

SaveClassification(id, class) ==
    /\ writer = None /\ edits < MaxEdits /\ edits' = edits + 1
    /\ rows' = [rows EXCEPT ![id].class = class]
    /\ UNCHANGED <<imports, lastRow, writer, upload, download, folder, touched>>

\* The database browser: a row deleted, or its bank values changed.
BrowserEdit(id) ==
    /\ writer = None /\ edits < MaxEdits /\ edits' = edits + 1
    /\ \/ rows' = [other \in DOMAIN rows \ {id} |-> rows[other]]
       \/ rows' = [rows EXCEPT ![id].line.balance = @ + 1]
    /\ touched' = touched \cup {rows[id].import}
    /\ UNCHANGED <<imports, lastRow, writer, upload, download, folder>>

PutFile(book) ==
    /\ folder' = book
    /\ UNCHANGED <<imports, rows, lastRow, writer, upload, download, edits, touched>>

---------------------------------------------------------------------------
(* Downloads *)

InProgress(d) == download[d] # None /\ "txns" \in DOMAIN download[d]
Answered(d) == download[d] # None /\ "refused" \in DOMAIN download[d]
Answer(d, given) == download' = [download EXCEPT ![d] = given]

Refused(why, i) == [refused |-> why, import |-> i, book |-> None, cells |-> <<>>]

\* The retained workbook, or the file of its name in the folder.
Original(i) == IF imports[i].workbook # None THEN imports[i].workbook ELSE folder

StartDownload(d, i) ==
    /\ ~InProgress(d)
    /\ IF Original(i) # None /\ Original(i).readable
       THEN download' = [download EXCEPT ![d] =
                [import |-> i, book |-> Original(i), txns |-> None]]
       ELSE Answer(d, Refused("unavailable", i))
    /\ UNCHANGED <<imports, rows, lastRow, writer, upload, folder, edits, touched>>

\* GetTransactions: the rows in the order of their ids, and their ids.
GetTransactions(i) ==
    LET ids == Ascending(Rows(i))
    IN  [k \in DOMAIN ids |-> [id |-> ids[k], row |-> rows[ids[k]]]]

ReadTransactions(d) ==
    /\ InProgress(d) /\ download[d].txns = None
    /\ download' = [download EXCEPT ![d].txns = GetTransactions(download[d].import)]
    /\ UNCHANGED <<imports, rows, lastRow, writer, upload, folder, edits, touched>>

CountsAgree(account, book, txns) ==
    account = book.account /\ Len(txns) = Len(ParseStatement(book))
ValuesAgree(account, book, txns) ==
    /\ CountsAgree(account, book, txns)
    /\ \A k \in DOMAIN txns : txns[k].row.line = ParseStatement(book)[k]
Agrees(account, book, txns) == ValuesAgree(account, book, txns)

\* The invoices of the bills that a row pays are read once more.
PurchaseNumbers(txn) ==
    IF txn.id \in DOMAIN rows THEN rows[txn.id].class.purchases ELSE {}

\* The cells that are added in columns H to J; of is the line of the row.
Annotation(txn) ==
    LET class == txn.row.class
        pays == class.purchases # {}
    IN  [of |-> txn.row.line, head |-> class.head,
         sub |-> IF ~pays /\ class.head = "Sales Invoice" /\ class.partner # ""
                 THEN class.partner ELSE class.sub,
         invoice |-> IF pays THEN PurchaseNumbers(txn) ELSE class.invoice]

ByPosition(book) == [k \in DOMAIN SourceRows(book) |-> k]
AnnotatedRows(book) == SourceRows(book)

\* The annotated workbook: what is written in which row.
Annotated(i, book, txns) ==
    LET at == AnnotatedRows(book)
        of(n) == CHOOSE k \in DOMAIN at : at[k] = n
    IN  [refused |-> "", import |-> i, book |-> book,
         cells |-> [n \in {at[k] : k \in DOMAIN at} |-> Annotation(txns[of(n)])]]

DownloadStatement(d) ==
    /\ InProgress(d) /\ download[d].txns # None
    /\ LET i == download[d].import
           book == download[d].book
           txns == download[d].txns
       IN  Answer(d, IF Agrees(imports[i].account, book, txns)
                     THEN Annotated(i, book, txns) ELSE Refused("mismatch", i))
    /\ UNCHANGED <<imports, rows, lastRow, writer, upload, folder, edits, touched>>

---------------------------------------------------------------------------
\* The process ends with its requests, and starts again.
Restart ==
    /\ upload' = [u \in Uploads |-> None] /\ download' = [d \in Downloads |-> None]
    /\ IF writer = None THEN UNCHANGED <<imports, rows, lastRow>> ELSE RolledBack(writer)
    /\ writer' = None
    /\ UNCHANGED <<folder, edits, touched>>

\* A statement that an older server stored.
Init ==
    /\ imports = <<[account |-> LegacyBook.account, workbook |-> None]>>
    /\ lastRow = Len(ParseStatement(LegacyBook))
    /\ rows = [id \in 1 .. lastRow |->
          [import |-> 1, line |-> ParseStatement(LegacyBook)[id],
           class |-> ClassifyTransaction(ParseStatement(LegacyBook)[id])]]
    /\ writer = None /\ folder = None /\ edits = 0 /\ touched = {}
    /\ upload = [u \in Uploads |-> None] /\ download = [d \in Downloads |-> None]

Next ==
    \/ \E u \in Uploads :
          \/ \E book \in Workbooks : UploadStatement(u, book)
          \/ BeginStore(u) \/ InsertRow(u) \/ CommitStatement(u) \/ FailUpload(u)
    \/ \E id \in DOMAIN rows :
          BrowserEdit(id) \/ \E class \in Classes : SaveClassification(id, class)
    \/ \E book \in FolderFiles \cup {None} : PutFile(book)
    \/ \E d \in Downloads :
          \/ \E i \in DOMAIN imports : StartDownload(d, i)
          \/ ReadTransactions(d) \/ DownloadStatement(d)
    \/ Restart

Spec == Init /\ [][Next]_vars

---------------------------------------------------------------------------
(* Properties *)

\* The tables keep their types, ids come from their sequence, and only an
\* upload in progress has the write lock.
TypeOK ==
    /\ \A i \in DOMAIN imports : imports[i].workbook \in Workbooks \cup {None}
    /\ \A id \in DOMAIN rows :
          /\ id <= lastRow /\ rows[id].import \in DOMAIN imports
          /\ rows[id].line \in Line /\ rows[id].class \in Class
    /\ writer \in Uploads \cup {None} /\ (writer # None => upload[writer] # None)
    /\ folder \in FolderFiles \cup {None}
    /\ edits \in 0 .. MaxEdits /\ touched \subseteq DOMAIN imports
    /\ \A d \in Downloads : InProgress(d) =>
          download[d].import \in DOMAIN imports /\ download[d].book.readable

\* The tables keep their types, and a statement is stored whole: whatever fails,
\* and however uploads compete, each import has the transactions of its workbook,
\* in their order, in rows of its own, unless the database browser changed them.
StatementsAreWhole ==
    /\ TypeOK
    /\ \A i \in DOMAIN imports \ touched :
          LET ids == Ascending(Rows(i))
              book == IF i = 1 THEN LegacyBook ELSE imports[i].workbook
          IN  [k \in DOMAIN ids |-> rows[ids[k]].line] = ParseStatement(book)

\* A download shows a classification only next to the bank values that it is
\* about, and shows one in every row that was imported, whatever file is found
\* in the folder and whatever the database browser has done; and a statement with
\* its workbook is refused only if the database browser has changed its rows.
ClassificationsStayOnTheirRows ==
    \A d \in Downloads : Answered(d) =>
        IF download[d].refused # "" THEN download[d].import \in {1} \cup touched
        ELSE
       LET book == download[d].book
       IN  /\ DOMAIN download[d].cells = {SourceRows(book)[k] : k \in DOMAIN SourceRows(book)}
           /\ \A n \in DOMAIN download[d].cells : download[d].cells[n].of = book.lines[n]
=============================================================================
