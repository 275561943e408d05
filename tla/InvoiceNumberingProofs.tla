----------------------- MODULE InvoiceNumberingProofs -----------------------
(* Theorems of InvoiceNumbering, for any invoices, requests, dates and     *)
(* databases of older servers.                                             *)
EXTENDS InvoiceNumbering, FiniteSetTheorems, NaturalsInduction, WellFoundedInduction, TLAPS

---------------------------------------------------------------------------
(* Years and the highest number of a year *)

LEMMA DateParts ==
  ASSUME NEW d \in Date
  PROVE  d.year \in Nat /\ d.year > 0 /\ d.month \in Nat
  <1>1. d.year \in Years /\ d.month \in Months
    BY DEF Date
  <1>2. d.year \in Nat \ {0} /\ d.month \in 1 .. 12
    BY <1>1, CalendarAssumption
  <1> QED
    BY <1>2

LEMMA YearType == \A d \in Date : FinancialYear(d) \in Nat /\ FinancialYear(d) \in AllYears
  <1> SUFFICES ASSUME NEW d \in Date
               PROVE  FinancialYear(d) \in Nat /\ FinancialYear(d) \in AllYears
    OBVIOUS
  <1>1. d.year \in Nat /\ d.year > 0 /\ d.month \in Nat
    BY DateParts
  <1>2. FinancialYear(d) \in Nat
    BY <1>1 DEF FinancialYear
  <1> QED
    BY <1>2 DEF AllYears

LEMMA NumberParts ==
  ASSUME TypeOK, NEW i \in Invoices
  PROVE  /\ Stored(i) => invoice[i] \in Invoice
         /\ Numbered(i) => /\ invoice[i].number \in Number
                           /\ invoice[i].number.seq \in 1 .. MaxNumber /\ invoice[i].number.year \in Nat
         /\ i \in BlankInvoices <=> Stored(i) /\ ~Numbered(i)
  BY DEF TypeOK, Stored, Numbered, Invoice, Number, BlankInvoices

LEMMA InNumbers ==
  ASSUME NEW year, NEW n
  PROVE  n \in NumbersOf(year) <=> \E i \in Invoices : Numbered(i) /\ invoice[i].number.year = year
                                                       /\ invoice[i].number.seq = n
  BY DEF NumbersOf

\* Every set of naturals has a least member.
LEMMA LeastNumber ==
  ASSUME NEW S \in SUBSET Nat, S # {}
  PROVE  \E m \in S : \A k \in S : m <= k
  <1> DEFINE less == {pair \in Nat \X Nat : pair[1] < pair[2]}
  <1>1. IsWellFoundedOn(less, Nat)
    BY NatLessThanWellFounded, Zenon DEF OpToRel
  <1> HIDE DEF less
  <1>2. PICK m \in S : \A k \in S : <<k, m>> \notin less
    BY <1>1, WFMin, Zenon
  <1>3. \A k \in S : ~(k < m)
    BY <1>2 DEF less
  <1> QED
    BY <1>3

\* The CHOOSE of Highest has an answer.
LEMMA HighestIsLeast ==
  ASSUME TypeOK, NEW year \in AllYears
  PROVE  /\ Highest(year) \in 0 .. MaxNumber
         /\ IsBound(year, Highest(year))
         /\ \A k \in 0 .. MaxNumber : IsBound(year, k) => Highest(year) <= k
  <1> DEFINE bounds == {m \in 0 .. MaxNumber : IsBound(year, m)}
  <1>1. NumbersOf(year) \subseteq 1 .. MaxNumber
    BY NumberParts DEF NumbersOf
  <1>2. MaxNumber \in Nat /\ sequence[year] \in 0 .. MaxNumber
    BY CalendarAssumption DEF TypeOK
  <1>3. IsBound(year, MaxNumber)
    BY <1>1, <1>2 DEF IsBound
  <1>4. MaxNumber \in bounds /\ bounds \in SUBSET Nat
    BY <1>2, <1>3
  <1>5. \E m \in bounds : \A k \in bounds : m <= k
    BY <1>4, LeastNumber
  <1>6. \E m \in 0 .. MaxNumber :
            IsBound(year, m) /\ \A k \in 0 .. MaxNumber : IsBound(year, k) => m <= k
    BY <1>5
  <1> QED
    BY <1>6 DEF Highest

\* It is a number that was drawn or one that is stored.
LEMMA HighestIsReached ==
  ASSUME TypeOK, NEW year \in AllYears, Highest(year) # sequence[year]
  PROVE  Highest(year) \in NumbersOf(year) /\ sequence[year] < Highest(year)
  <1> DEFINE h == Highest(year)
  <1>1. /\ h \in 0 .. MaxNumber /\ sequence[year] <= h /\ sequence[year] \in 0 .. MaxNumber
        /\ \A n \in NumbersOf(year) : n <= h
    BY HighestIsLeast DEF IsBound, TypeOK
  <1>2. MaxNumber \in Nat /\ NumbersOf(year) \subseteq 1 .. MaxNumber
    BY CalendarAssumption, NumberParts DEF NumbersOf
  <1>3. sequence[year] < h
    BY <1>1, <1>2
  <1>4. ASSUME h \notin NumbersOf(year)
        PROVE  FALSE
    <2>1. h - 1 \in 0 .. MaxNumber /\ ~(h <= h - 1)
      BY <1>1, <1>2, <1>3
    <2>2. sequence[year] <= h - 1
      BY <1>1, <1>2, <1>3
    <2>3. ASSUME NEW n \in NumbersOf(year)
          PROVE  n <= h - 1
      <3>1. n \in Nat /\ n <= h /\ n # h
        BY <1>1, <1>2, <1>4
      <3> QED
        BY <1>1, <1>2, <3>1
    <2>4. IsBound(year, h - 1)
      BY <2>2, <2>3 DEF IsBound
    <2> QED
      BY <2>1, <2>4, HighestIsLeast
  <1> QED
    BY <1>3, <1>4

---------------------------------------------------------------------------
(* The order in which a repair gives numbers *)

LEMMA EarlierIsOrder ==
  ASSUME NEW S \in SUBSET Invoices, \A i \in S : invoice[i].date \in Date
  PROVE  /\ \A i \in S : ~Earlier(i, i)
         /\ \A i, j \in S : i # j => Earlier(i, j) \/ Earlier(j, i)
         /\ \A i, j, k \in S : Earlier(i, j) /\ Earlier(j, k) => Earlier(i, k)
  <1>1. \A i \in S : i \in Nat
    BY CalendarAssumption
  <1>2. \A d \in Date : d.year \in Nat /\ d.month \in Nat
    BY DateParts
  <1>3. \A d, e \in Date : d.year = e.year /\ d.month = e.month => d = e
    BY DEF Date
  <1>4. \A i \in S : ~Earlier(i, i)
    BY <1>1, <1>2 DEF Earlier
  <1>5. ASSUME NEW i \in S, NEW j \in S, i # j
        PROVE  Earlier(i, j) \/ Earlier(j, i)
    BY <1>1, <1>2, <1>3, <1>5 DEF Earlier
  <1>6. ASSUME NEW i \in S, NEW j \in S, NEW k \in S, Earlier(i, j), Earlier(j, k)
        PROVE  Earlier(i, k)
    <2> DEFINE d == invoice[i].date  e == invoice[j].date  f == invoice[k].date
    <2>1. /\ d.year \in Nat /\ d.month \in Nat /\ e.year \in Nat /\ e.month \in Nat
          /\ f.year \in Nat /\ f.month \in Nat /\ i \in Nat /\ j \in Nat /\ k \in Nat
      BY <1>1, <1>2
    <2>2. d.year < e.year \/ (d.year = e.year /\ d.month < e.month) \/ (d = e /\ i < j)
      BY <1>6 DEF Earlier
    <2>3. e.year < f.year \/ (e.year = f.year /\ e.month < f.month) \/ (e = f /\ j < k)
      BY <1>6 DEF Earlier
    <2> SUFFICES d.year < f.year \/ (d.year = f.year /\ d.month < f.month) \/ (d = f /\ i < k)
      BY DEF Earlier
    <2> HIDE DEF d, e, f
    <2>4. CASE d = e /\ i < j
      BY <2>1, <2>3, <2>4
    <2>5. CASE e = f /\ j < k
      BY <2>1, <2>2, <2>5
    <2> QED
      BY <2>1, <2>2, <2>3, <2>4, <2>5
  <1> QED
    BY <1>4, <1>5, <1>6

Before(S, i) == {j \in S : Earlier(j, i)}

\* Counting who is before numbers the members of S from 0 on, in their order.
LEMMA RanksCount ==
  ASSUME NEW S \in SUBSET Invoices, \A i \in S : invoice[i].date \in Date
  PROVE  /\ Cardinality(S) \in Nat
         /\ \A i \in S : Cardinality(Before(S, i)) \in 0 .. Cardinality(S) - 1
         /\ \A i, j \in S : Earlier(i, j) => Cardinality(Before(S, i)) < Cardinality(Before(S, j))
         /\ \A n \in 0 .. Cardinality(S) - 1 : \E i \in S : Cardinality(Before(S, i)) = n
  <1>1. IsFiniteSet(S) /\ Cardinality(S) \in Nat
    BY CalendarAssumption, FS_Subset, FS_CardinalityType
  <1>2. \A i \in S : IsFiniteSet(Before(S, i)) /\ Cardinality(Before(S, i)) \in Nat
    BY <1>1, FS_Subset, FS_CardinalityType DEF Before
  <1>3. ASSUME NEW i \in S
        PROVE  Cardinality(Before(S, i)) \in 0 .. Cardinality(S) - 1
    <2>1. Before(S, i) \in SUBSET S /\ i \notin Before(S, i)
      BY EarlierIsOrder DEF Before
    <2>2. Cardinality(Before(S, i)) <= Cardinality(S) /\ Cardinality(Before(S, i)) # Cardinality(S)
      BY <1>1, <2>1, FS_Subset
    <2> QED
      BY <1>1, <1>2, <2>2
  <1>4. ASSUME NEW i \in S, NEW j \in S, Earlier(i, j)
        PROVE  Cardinality(Before(S, i)) < Cardinality(Before(S, j))
    <2>1. Before(S, i) \in SUBSET Before(S, j) /\ i \in Before(S, j) /\ i \notin Before(S, i)
      BY <1>4, EarlierIsOrder DEF Before
    <2>2. /\ Cardinality(Before(S, i)) <= Cardinality(Before(S, j))
          /\ Cardinality(Before(S, i)) # Cardinality(Before(S, j))
      BY <1>2, <2>1, FS_Subset
    <2> QED
      BY <1>2, <2>2
  <1>5. ASSUME NEW n \in 0 .. Cardinality(S) - 1
        PROVE  \E i \in S : Cardinality(Before(S, i)) = n
    <2> DEFINE ranks == 0 .. Cardinality(S) - 1
               rank == [i \in S |-> Cardinality(Before(S, i))]
    <2>1. rank \in [S -> ranks]
      BY <1>3
    <2>2. ASSUME NEW i \in S, NEW j \in S, i # j
          PROVE  rank[i] # rank[j]
      <3>1. Earlier(i, j) \/ Earlier(j, i)
        BY <2>2, EarlierIsOrder
      <3>2. Cardinality(Before(S, i)) # Cardinality(Before(S, j))
        BY <1>2, <1>4, <3>1
      <3> QED
        BY <3>2
    <2>3. rank \in Injection(S, ranks)
      BY <2>1, <2>2 DEF Injection, IsInjective
    <2>4. IsFiniteSet(ranks) /\ Cardinality(ranks) = Cardinality(S)
      BY <1>1, FS_Interval
    <2> HIDE DEF rank, ranks
    <2>5. rank \in Surjection(S, ranks)
      BY <2>3, <2>4, FS_Injection
    <2>6. \A m \in ranks : \E i \in S : rank[i] = m
      BY <2>5 DEF Surjection
    <2> QED
      BY <2>6 DEF rank, ranks
  <1> QED
    BY <1>1, <1>3, <1>4, <1>5

---------------------------------------------------------------------------
(* The numbers of a year, while they grow *)

\* Nothing that an older server has numbered reaches n.
AboveOld(year, n) ==
    \A i \in Invoices, old \in OldDatabases :
        old[i] # None /\ Numbered(i) /\ old[i].number = invoice[i].number
        /\ old[i].number.year = year => old[i].number.seq < n
GapFree(year) ==
    \A n \in 1 .. MaxNumber : AboveOld(year, n) => (n \in NumbersOf(year) <=> n <= sequence[year])

\* Above the old numbers the highest number of a year is that of its sequence,
\* and every number up to it is given.
LEMMA AllNumbersGiven ==
  ASSUME TypeOK, NEW year \in AllYears, GapFree(year),
         NEW n \in 1 .. MaxNumber, AboveOld(year, n), n <= Highest(year)
  PROVE  n \in NumbersOf(year)
  <1>1. /\ MaxNumber \in Nat /\ Highest(year) \in 0 .. MaxNumber /\ sequence[year] \in 0 .. MaxNumber
        /\ AllYears \subseteq Nat
    BY CalendarAssumption, HighestIsLeast, YearType DEF TypeOK, AllYears
  <1>2. CASE Highest(year) = sequence[year]
    BY <1>2 DEF GapFree
  <1>3. CASE Highest(year) # sequence[year]
    <2>1. Highest(year) \in NumbersOf(year) /\ sequence[year] < Highest(year)
      BY <1>3, HighestIsReached
    <2>2. AboveOld(year, Highest(year))
      <3> SUFFICES ASSUME NEW i \in Invoices, NEW old \in OldDatabases,
                          old[i] # None, Numbered(i), old[i].number = invoice[i].number,
                          old[i].number.year = year
                   PROVE  old[i].number.seq < Highest(year)
        BY DEF AboveOld
      <3>1. old[i].number.seq < n
        BY DEF AboveOld
      <3>2. old[i].number.seq \in Nat
        BY NumberParts
      <3> QED
        BY <1>1, <3>1, <3>2
    <2>3. Highest(year) \in 1 .. MaxNumber
      BY <1>1, <2>1
    <2> QED
      BY <1>1, <2>1, <2>2, <2>3 DEF GapFree
  <1> QED
    BY <1>2, <1>3

\* No step takes a number from an invoice.
KeepsNumbers ==
    \A i \in Invoices : Numbered(i) => Numbered(i)' /\ invoice'[i].number = invoice[i].number

LEMMA OldNumbersStay ==
  ASSUME KeepsNumbers, NEW year, NEW n, AboveOld(year, n)'
  PROVE  AboveOld(year, n)
  <1> SUFFICES ASSUME NEW i \in Invoices, NEW old \in OldDatabases,
                      old[i] # None, Numbered(i), old[i].number = invoice[i].number,
                      old[i].number.year = year
               PROVE  old[i].number.seq < n
    BY DEF AboveOld
  <1>1. Numbered(i)' /\ invoice'[i].number = invoice[i].number
    BY DEF KeepsNumbers
  <1> QED
    BY <1>1 DEF AboveOld

\* A year stays without gaps when it gets count numbers, one after the other
\* from the next one on, and the sequence is left at the last of them.
LEMMA GapFreeGrows ==
  ASSUME TypeOK, KeepsNumbers, NEW year \in AllYears, GapFree(year), NEW count \in Nat,
         \A n : n \in NumbersOf(year)'
                <=> n \in NumbersOf(year) \/ n \in Highest(year) + 1 .. Highest(year) + count,
         sequence'[year] = IF count = 0 THEN sequence[year] ELSE Highest(year) + count
  PROVE  GapFree(year)'
  <1>1. MaxNumber \in Nat /\ Highest(year) \in 0 .. MaxNumber /\ sequence[year] \in 0 .. MaxNumber
    BY CalendarAssumption, HighestIsLeast DEF TypeOK
  <1> SUFFICES ASSUME NEW n \in 1 .. MaxNumber, AboveOld(year, n)'
               PROVE  n \in NumbersOf(year)' <=> n <= sequence'[year]
    BY DEF GapFree
  <1>2. AboveOld(year, n)
    BY OldNumbersStay
  <1>3. CASE count = 0
    <2>1. n \in NumbersOf(year) <=> n <= sequence[year]
      BY <1>2 DEF GapFree
    <2>2. n \notin Highest(year) + 1 .. Highest(year) + count
      BY <1>1, <1>3
    <2> QED
      BY <1>3, <2>1, <2>2
  <1>4. CASE count # 0
    <2>1. n <= Highest(year) <=> n \in NumbersOf(year)
      BY <1>2, AllNumbersGiven, HighestIsLeast DEF IsBound
    <2> QED
      BY <1>1, <1>4, <2>1
  <1> QED
    BY <1>3, <1>4

---------------------------------------------------------------------------
(* The inductive invariant *)

\* A request holds a lock. One that has drawn a number holds the next of its
\* year; one that edits an invoice leaves it in its year.
RequestHolds(r) ==
    /\ request[r] = None <=> lock[r] = "none"
    /\ request[r] # None /\ request[r].new =>
          /\ request[r].seq = 0 <=> lock[r] = "shared"
          /\ request[r].seq # 0 =>
                request[r].seq = NextInvoiceNumber(FinancialYear(request[r].date))
    /\ request[r] # None /\ ~request[r].new =>
          /\ request[r].id \in Invoices
          /\ Stored(request[r].id) /\ KeepsYear(request[r].id, request[r].date)
RequestsHold == \A r \in Requests : RequestHolds(r)

OneWriter == \A r, s \in Requests : lock[r] = "reserved" /\ lock[s] = "reserved" => r = s

OnlyWhileServing ==
    /\ server # "serving" => \A r \in Requests : lock[r] = "none"
    /\ server = "serving" => BlankInvoices = {}

TablesInv == NumbersAreUnique /\ \A year \in AllYears : GapFree(year)

NumberingInv == TypeOK /\ TablesInv /\ RequestsHold /\ OneWriter /\ OnlyWhileServing

LEMMA NumberingInit == Init => NumberingInv
  <1> SUFFICES ASSUME Init PROVE NumberingInv
    OBVIOUS
  <1>1. MaxNumber \in Nat
    BY CalendarAssumption
  <1>2. TypeOK
    BY <1>1, OldAssumption DEF Init, TypeOK
  <1>3. NumbersAreUnique
    BY OldAssumption DEF Init, NumbersAreUnique, Numbered, Stored
  <1>4. ASSUME NEW year \in AllYears
        PROVE  GapFree(year)
    <2> SUFFICES ASSUME NEW n \in 1 .. MaxNumber, AboveOld(year, n)
                 PROVE  ~(n \in NumbersOf(year)) /\ ~(n <= sequence[year])
      BY DEF GapFree
    <2>1. ~(n <= sequence[year])
      BY <1>1 DEF Init
    <2>2. ASSUME NEW i \in Invoices, Numbered(i), invoice[i].number.year = year,
                 invoice[i].number.seq = n
          PROVE  FALSE
      <3>1. invoice[i].number.seq < n
        BY <2>2 DEF AboveOld, Init, Numbered, Stored
      <3> QED
        BY <1>1, <2>2, <3>1
    <2> QED
      BY <2>1, <2>2, InNumbers
  <1>5. RequestsHold /\ OneWriter /\ OnlyWhileServing
    BY DEF Init, RequestsHold, RequestHolds, OneWriter, OnlyWhileServing
  <1> QED
    BY <1>2, <1>3, <1>4, <1>5 DEF NumberingInv, TablesInv

---------------------------------------------------------------------------
(* Steps that leave the tables alone *)

LEMMA HighestStays ==
  ASSUME UNCHANGED <<invoice, sequence>>
  PROVE  \A year : NextInvoiceNumber(year)' = NextInvoiceNumber(year)
  BY DEF NextInvoiceNumber, Highest, IsBound, NumbersOf, Numbered, Stored

LEMMA TablesStay ==
  ASSUME TablesInv, UNCHANGED <<invoice, sequence>>
  PROVE  TablesInv'
  BY DEF TablesInv, NumbersAreUnique, GapFree, AboveOld, NumbersOf, Numbered, Stored

LEMMA RequestStays ==
  ASSUME RequestsHold, NEW r \in Requests, UNCHANGED <<invoice, sequence>>,
         request'[r] = request[r], lock'[r] = lock[r]
  PROVE  RequestHolds(r)'
  <1>1. RequestHolds(r)
    BY DEF RequestsHold
  <1>2. \A i \in Invoices : /\ Stored(i) => Stored(i)'
                           /\ \A date : KeepsYear(i, date) => KeepsYear(i, date)'
    BY DEF Stored, KeepsYear
  <1>3. NextInvoiceNumber(FinancialYear(request[r].date))' = NextInvoiceNumber(FinancialYear(request[r].date))
    BY HighestStays
  <1> QED
    BY <1>1, <1>2, <1>3 DEF RequestHolds

\* The requests that read, draw a number, write or give up.
LEMMA RequestStep ==
  ASSUME NumberingInv, NEW r \in Requests, NEW asked, NEW held,
         UNCHANGED <<server, invoice, sequence>>,
         request' = [request EXCEPT ![r] = asked], lock' = [lock EXCEPT ![r] = held],
         asked \in Request \cup {None}, held \in {"none", "shared", "reserved"},
         held # "none" => server = "serving",
         held = "reserved" => MayReserve(r),
         RequestHolds(r)'
  PROVE  NumberingInv'
  <1>1. TypeOK'
    BY DEF NumberingInv, TypeOK
  <1>2. TablesInv'
    BY TablesStay DEF NumberingInv
  <1>3. \A s \in Requests : s # r => request'[s] = request[s] /\ lock'[s] = lock[s]
    BY DEF NumberingInv, TypeOK
  <1>4. RequestsHold'
    BY <1>3, RequestStays DEF RequestsHold, NumberingInv
  <1>5. OneWriter'
    BY <1>3 DEF OneWriter, NumberingInv, TypeOK, MayReserve, Others
  <1>6. OnlyWhileServing'
    BY <1>3 DEF OnlyWhileServing, NumberingInv, TypeOK, BlankInvoices, Stored
  <1> QED
    BY <1>1, <1>2, <1>4, <1>5, <1>6 DEF NumberingInv

LEMMA CreateStep ==
  ASSUME NumberingInv, NEW r \in Requests, NEW date \in Date, CreateSalesInvoice(r, date)
  PROVE  NumberingInv'
  <1> DEFINE asked == [id |-> None, date |-> date, new |-> TRUE, seq |-> 0]
  <1>1. asked \in Request
    BY CalendarAssumption DEF Request
  <1>2. asked # None
    BY <1>1, BlankAssumption
  <1>3. request'[r] = asked /\ lock'[r] = "shared"
    BY DEF CreateSalesInvoice, NumberingInv, TypeOK
  <1>4. RequestHolds(r)'
    BY <1>2, <1>3 DEF RequestHolds
  <1> QED
    BY <1>1, <1>4, RequestStep DEF CreateSalesInvoice

LEMMA UpdateStep ==
  ASSUME NumberingInv, NEW r \in Requests, NEW i \in Invoices, NEW date \in Date,
         UpdateSalesInvoice(r, i, date)
  PROVE  NumberingInv'
  <1> DEFINE asked == [id |-> i, date |-> date, new |-> FALSE, seq |-> 0]
  <1>1. asked \in Request
    BY CalendarAssumption DEF Request
  <1>2. asked # None
    BY <1>1, BlankAssumption
  <1>3. request'[r] = asked /\ lock'[r] = "shared"
    BY DEF UpdateSalesInvoice, NumberingInv, TypeOK
  <1>4. Stored(i)' /\ KeepsYear(i, date)'
    BY DEF UpdateSalesInvoice, Stored, KeepsYear
  <1>5. RequestHolds(r)'
    BY <1>2, <1>3, <1>4 DEF RequestHolds
  <1> QED
    BY <1>1, <1>5, RequestStep DEF UpdateSalesInvoice

LEMMA DrawStep ==
  ASSUME NumberingInv, NEW r \in Requests, DrawNumber(r)
  PROVE  NumberingInv'
  <1> DEFINE year == FinancialYear(request[r].date)
             seq == NextInvoiceNumber(year)
             asked == [request[r] EXCEPT !.seq = seq]
  <1>1. request[r] \in Request
    BY DEF DrawNumber, NumberingInv, TypeOK
  <1>2. request[r].date \in Date /\ year \in AllYears /\ server = "serving"
    BY <1>1, YearType DEF DrawNumber, Request, NumberingInv, RequestsHold, RequestHolds, OnlyWhileServing
  <1>3. seq \in 1 .. MaxNumber
    <2>1. MaxNumber \in Nat /\ Highest(year) \in 0 .. MaxNumber /\ seq <= MaxNumber
      BY <1>2, CalendarAssumption, HighestIsLeast DEF NumberingInv, DrawNumber
    <2> QED
      BY <2>1 DEF NextInvoiceNumber
  <1>4. /\ asked \in Request /\ asked # None
        /\ asked.new = request[r].new /\ asked.date = request[r].date /\ asked.seq = seq
    <2>1. asked \in Request
      BY <1>1, <1>3 DEF Request
    <2> QED
      BY <1>1, <2>1, BlankAssumption DEF Request
  <1>5. /\ request' = [request EXCEPT ![r] = asked] /\ lock' = [lock EXCEPT ![r] = "reserved"]
        /\ UNCHANGED <<server, invoice, sequence>>
    BY DEF DrawNumber, DrawnInTransaction
  <1>6. request'[r] = asked /\ lock'[r] = "reserved"
    BY <1>5 DEF NumberingInv, TypeOK
  <1>7. NextInvoiceNumber(FinancialYear(asked.date))' = asked.seq
    BY <1>4, <1>5, <1>6, HighestStays
  <1>8. RequestHolds(r)'
    <2>1. request[r].new
      BY DEF DrawNumber
    <2> QED
      BY <1>3, <1>4, <1>6, <1>7, <2>1 DEF RequestHolds
  <1> QED
    BY <1>2, <1>4, <1>5, <1>8, RequestStep DEF DrawNumber

LEMMA WriteStep ==
  ASSUME NumberingInv, NEW r \in Requests, WriteEdit(r)
  PROVE  NumberingInv'
  <1>1. RequestHolds(r) /\ request[r] \in Request
    BY DEF NumberingInv, RequestsHold, TypeOK, WriteEdit
  <1>2. /\ request' = [request EXCEPT ![r] = request[r]] /\ request'[r] = request[r]
        /\ lock'[r] = "reserved" /\ server = "serving"
    BY DEF WriteEdit, NumberingInv, TypeOK, OnlyWhileServing
  <1>3. RequestHolds(r)'
    BY <1>1, <1>2 DEF WriteEdit, RequestHolds, Stored, KeepsYear
  <1> QED
    BY <1>1, <1>2, <1>3, RequestStep DEF WriteEdit

LEMMA RollBackStep ==
  ASSUME NumberingInv, NEW r \in Requests, RollBack(r)
  PROVE  NumberingInv'
  <1>1. request'[r] = None /\ lock'[r] = "none"
    BY DEF RollBack, Finish, NumberingInv, TypeOK
  <1>2. RequestHolds(r)'
    BY <1>1 DEF RequestHolds
  <1> QED
    BY <1>2, RequestStep DEF RollBack, Finish

---------------------------------------------------------------------------
(* Steps that change the tables *)

\* A commit has the database to itself.
LEMMA CommitAlone ==
  ASSUME NumberingInv, NEW r \in Requests, Commit(r)
  PROVE  /\ request[r] \in Request /\ server = "serving" /\ BlankInvoices = {}
         /\ request' = [request EXCEPT ![r] = None] /\ lock' = [lock EXCEPT ![r] = "none"]
         /\ server' = server
         /\ \A s \in Requests : lock'[s] = "none" /\ request'[s] = None
         /\ request[r].new => request[r].seq = NextInvoiceNumber(FinancialYear(request[r].date))
         /\ request[r].date \in Date /\ FinancialYear(request[r].date) \in AllYears
  <1>1. lock[r] = "reserved" /\ MayCommit(r) /\ Finish(r) /\ server' = server
    BY DEF Commit
  <1>2. request[r] # None /\ RequestHolds(r) /\ request[r] \in Request
    BY <1>1 DEF NumberingInv, RequestsHold, RequestHolds, TypeOK
  <1>3. server = "serving" /\ BlankInvoices = {}
    BY <1>1 DEF NumberingInv, OnlyWhileServing, TypeOK
  <1>4. \A s \in Requests : lock'[s] = "none" /\ request'[s] = None
    BY <1>1, <1>2 DEF Finish, MayCommit, Others, NumberingInv, TypeOK, RequestsHold, RequestHolds
  <1>5. request[r].new => request[r].seq = NextInvoiceNumber(FinancialYear(request[r].date))
    BY <1>1, <1>2 DEF RequestHolds
  <1>6. request[r].date \in Date
    BY <1>2 DEF Request
  <1> QED
    BY <1>1, <1>2, <1>3, <1>4, <1>5, <1>6, YearType DEF Finish

\* The invoice that CreateSalesInvoice commits.
LEMMA CommittedNew ==
  ASSUME NumberingInv, NEW r \in Requests, Commit(r), request[r].new
  PROVE  LET year == FinancialYear(request[r].date)
             seq == Highest(year) + 1
         IN  /\ seq \in 1 .. MaxNumber /\ year \in AllYears /\ year \in Nat
             /\ sequence' = [sequence EXCEPT ![year] = seq]
             /\ \E i \in Invoices :
                   /\ ~Stored(i) /\ invoice'[i] \in Invoice /\ Numbered(i)'
                   /\ invoice'[i].number = [seq |-> seq, year |-> year]
                   /\ invoice'[i].date = request[r].date
                   /\ \A j \in Invoices \ {i} : invoice'[j] = invoice[j]
  <1> DEFINE year == FinancialYear(request[r].date)
             seq == Highest(year) + 1
             row == [number |-> [seq |-> seq, year |-> year], date |-> request[r].date]
  <1>1. /\ request[r] \in Request /\ request[r].seq = seq
        /\ request[r].date \in Date /\ year \in AllYears /\ year \in Nat
    BY CommitAlone, YearType DEF NextInvoiceNumber
  <1>2. seq \in 1 .. MaxNumber
    <2>1. request[r].seq \in 0 .. MaxNumber /\ MaxNumber \in Nat /\ Highest(year) \in 0 .. MaxNumber
      BY <1>1, CalendarAssumption, HighestIsLeast DEF Request, NumberingInv
    <2> QED
      BY <1>1, <2>1
  <1>3. PICK i \in Invoices : NextId(i) /\ invoice' = [invoice EXCEPT ![i] = row]
    BY <1>1 DEF Commit
  <1>4. sequence' = [sequence EXCEPT ![year] = seq]
    BY <1>1 DEF Commit, Sequenced
  <1>5. [seq |-> seq, year |-> year] \in Number
    BY <1>1, <1>2 DEF Number
  <1>6. row \in Invoice /\ row # None /\ row.number # Blank
    <2>1. row \in Invoice
      BY <1>1, <1>5 DEF Invoice, StoredDate
    <2> QED
      BY <1>5, <2>1, BlankAssumption
  <1>7. invoice'[i] = row /\ \A j \in Invoices \ {i} : invoice'[j] = invoice[j]
    BY <1>3 DEF NumberingInv, TypeOK
  <1>8. Numbered(i)' /\ ~Stored(i)
    BY <1>3, <1>6, <1>7 DEF Numbered, Stored, NextId
  <1> QED
    BY <1>1, <1>2, <1>4, <1>6, <1>7, <1>8

LEMMA CommitNewTables ==
  ASSUME NumberingInv, NEW r \in Requests, Commit(r), request[r].new
  PROVE  TypeOK' /\ TablesInv'
  <1> DEFINE year == FinancialYear(request[r].date)
             seq == Highest(year) + 1
  <1>1. /\ seq \in 1 .. MaxNumber /\ year \in AllYears /\ year \in Nat
        /\ sequence' = [sequence EXCEPT ![year] = seq]
    BY CommittedNew
  <1>2. PICK i \in Invoices :
            /\ ~Stored(i) /\ invoice'[i] \in Invoice /\ Numbered(i)'
            /\ invoice'[i].number = [seq |-> seq, year |-> year]
            /\ \A j \in Invoices \ {i} : invoice'[j] = invoice[j]
    BY CommittedNew
  <1>3. Highest(year) \in Nat /\ \A n \in NumbersOf(year) : n <= Highest(year)
    BY <1>1, CalendarAssumption, HighestIsLeast DEF NumberingInv, IsBound
  <1>4. TypeOK'
    <2>1. DOMAIN invoice' = Invoices /\ invoice' = [j \in Invoices |-> invoice'[j]]
      BY DEF Commit, NumberingInv, TypeOK
    <2>2. \A j \in Invoices : invoice'[j] \in Invoice \cup {None}
      BY <1>2 DEF NumberingInv, TypeOK
    <2>3. sequence' \in [AllYears -> 0 .. MaxNumber]
      <3>1. seq \in 0 .. MaxNumber
        BY <1>1
      <3> QED
        BY <1>1, <3>1 DEF NumberingInv, TypeOK
    <2> QED
      BY <2>1, <2>2, <2>3, CommitAlone DEF NumberingInv, TypeOK
  <1>5. \A j \in Invoices \ {i} :
            (Numbered(j)' <=> Numbered(j)) /\ invoice'[j].number = invoice[j].number
    BY <1>2 DEF Numbered, Stored
  <1>6. KeepsNumbers
    BY <1>2, <1>5 DEF KeepsNumbers, Numbered
  <1>7. ASSUME NEW y, NEW n
        PROVE  n \in NumbersOf(y)' <=> n \in NumbersOf(y) \/ (y = year /\ n = seq)
    <2>1. n \in NumbersOf(y)' <=> \E j \in Invoices :
              Numbered(j)' /\ invoice'[j].number.year = y /\ invoice'[j].number.seq = n
      BY DEF NumbersOf
    <2>2. ~Numbered(i) /\ invoice'[i].number.year = year /\ invoice'[i].number.seq = seq
      BY <1>2 DEF Numbered
    <2> QED
      BY <1>2, <1>5, <2>1, <2>2, InNumbers
  <1>8. NumbersAreUnique'
    <2>1. ASSUME NEW j \in Invoices \ {i}, Numbered(j), invoice[j].number = invoice'[i].number
          PROVE  FALSE
      <3>1. invoice[j].number.year = year /\ invoice[j].number.seq = seq
        BY <1>2, <2>1
      <3>2. seq \in NumbersOf(year)
        BY <2>1, <3>1, InNumbers
      <3> QED
        BY <1>3, <3>2
    <2>2. \A j, k \in Invoices \ {i} :
              Numbered(j)' /\ Numbered(k)' /\ invoice'[j].number = invoice'[k].number => j = k
      BY <1>5 DEF NumberingInv, TablesInv, NumbersAreUnique
    <2>3. \A j \in Invoices \ {i} : Numbered(j)' => invoice'[j].number # invoice'[i].number
      BY <1>5, <2>1
    <2> QED
      BY <2>2, <2>3 DEF NumbersAreUnique
  <1>9. ASSUME NEW y \in AllYears
        PROVE  GapFree(y)'
    <2> DEFINE count == IF y = year THEN 1 ELSE 0
    <2>1. \A n : n \in NumbersOf(y)'
                   <=> n \in NumbersOf(y) \/ n \in Highest(y) + 1 .. Highest(y) + count
      <3>1. Highest(y) \in Nat
        BY CalendarAssumption, HighestIsLeast DEF NumberingInv
      <3> QED
        BY <1>7, <3>1
    <2>2. sequence'[y] = IF count = 0 THEN sequence[y] ELSE Highest(y) + count
      BY <1>1 DEF NumberingInv, TypeOK
    <2> HIDE DEF count
    <2>3. count \in Nat
      BY DEF count
    <2> QED
      BY <1>6, <2>1, <2>2, <2>3, GapFreeGrows DEF NumberingInv, TablesInv
  <1> QED
    BY <1>4, <1>8, <1>9 DEF TablesInv

\* An edit of an invoice leaves its number, and its date in its year.
LEMMA CommittedEdit ==
  ASSUME NumberingInv, NEW r \in Requests, Commit(r), ~request[r].new
  PROVE  /\ sequence' = sequence /\ invoice' \in [Invoices -> Invoice \cup {None}]
         /\ \A i \in Invoices :
               /\ Stored(i)' <=> Stored(i)
               /\ Stored(i) => invoice'[i].number = invoice[i].number
               /\ Stored(i) /\ invoice[i].date # None =>
                     FinancialYear(invoice'[i].date) = FinancialYear(invoice[i].date)
  <1> DEFINE id == request[r].id
             row == [invoice[id] EXCEPT !.date = request[r].date]
  <1>1. request[r] \in Request /\ request[r].date \in Date /\ request[r] # None
    BY CommitAlone, BlankAssumption
  <1>2. id \in Invoices /\ Stored(id) /\ KeepsYear(id, request[r].date)
    BY <1>1 DEF NumberingInv, RequestsHold, RequestHolds
  <1>3. sequence' = sequence /\ invoice' = [invoice EXCEPT ![id] = row]
    BY DEF Commit
  <1>4. invoice[id] \in Invoice
    BY <1>2 DEF NumberingInv, TypeOK, Stored
  <1>5. row \in Invoice /\ row.number = invoice[id].number /\ row.date = request[r].date
    BY <1>1, <1>4 DEF Invoice, StoredDate
  <1>6. row # None
    BY <1>5, BlankAssumption
  <1>7. invoice'[id] = row /\ \A i \in Invoices \ {id} : invoice'[i] = invoice[i]
    BY <1>2, <1>3 DEF NumberingInv, TypeOK
  <1>8. invoice' \in [Invoices -> Invoice \cup {None}]
    BY <1>3, <1>5 DEF NumberingInv, TypeOK
  <1> QED
    BY <1>2, <1>3, <1>5, <1>6, <1>7, <1>8 DEF Stored, KeepsYear

\* A step that leaves every number and the sequences keeps the tables.
LEMMA SameNumbers ==
  ASSUME TablesInv, TypeOK, sequence' = sequence,
         \A i \in Invoices : /\ Stored(i)' <=> Stored(i)
                             /\ Stored(i) => invoice'[i].number = invoice[i].number
  PROVE  TablesInv'
  <1>1. \A i \in Invoices : /\ Numbered(i)' <=> Numbered(i)
                            /\ Numbered(i) => invoice'[i].number = invoice[i].number
    BY DEF Numbered
  <1>2. NumbersAreUnique'
    BY <1>1 DEF TablesInv, NumbersAreUnique
  <1>3. ASSUME NEW y \in AllYears
        PROVE  GapFree(y)'
    <2>1. \A n : n \in NumbersOf(y)' <=> n \in NumbersOf(y)
      BY <1>1 DEF NumbersOf
    <2>2. \A n : AboveOld(y, n)' => AboveOld(y, n)
      BY <1>1 DEF AboveOld
    <2> QED
      BY <2>1, <2>2 DEF GapFree, TablesInv
  <1> QED
    BY <1>2, <1>3 DEF TablesInv

LEMMA CommitStep ==
  ASSUME NumberingInv, NEW r \in Requests, Commit(r)
  PROVE  NumberingInv'
  <1>1. TypeOK' /\ TablesInv'
    <2>1. CASE request[r].new
      BY <2>1, CommitNewTables
    <2>2. CASE ~request[r].new
      <3>1. TablesInv'
        BY <2>2, CommittedEdit, SameNumbers DEF NumberingInv
      <3>2. TypeOK'
        BY <2>2, CommittedEdit, CommitAlone DEF NumberingInv, TypeOK
      <3> QED
        BY <3>1, <3>2
    <2> QED
      BY <2>1, <2>2
  <1>2. RequestsHold' /\ OneWriter'
    BY CommitAlone DEF RequestsHold, RequestHolds, OneWriter
  <1>3. BlankInvoices' = {}
    <2>1. CASE request[r].new
      <3>1. PICK i \in Invoices : Numbered(i)' /\ \A j \in Invoices \ {i} : invoice'[j] = invoice[j]
        BY <2>1, CommittedNew
      <3> QED
        BY <3>1, CommitAlone DEF BlankInvoices, Numbered, Stored
    <2>2. CASE ~request[r].new
      BY <2>2, CommittedEdit, CommitAlone DEF BlankInvoices
    <2> QED
      BY <2>1, <2>2
  <1>4. OnlyWhileServing'
    BY <1>3, CommitAlone DEF OnlyWhileServing
  <1> QED
    BY <1>1, <1>2, <1>4 DEF NumberingInv

\* What a repair gives to one blank invoice.
Repaired(i) ==
    LET year == FinancialYear(invoice[i].date)
    IN  /\ invoice[i].date \in Date /\ year \in AllYears /\ i \in BlanksOf(year)
        /\ invoice'[i] \in Invoice /\ invoice'[i] # None /\ invoice'[i].number \in Number
        /\ invoice'[i].number.year = year
        /\ invoice'[i].number.seq = Highest(year) + 1 + Cardinality(Before(BlanksOf(year), i))
        /\ invoice'[i].date = invoice[i].date

LEMMA RepairGives ==
  ASSUME TypeOK, RepairBlankInvoiceNumbers
  PROVE  /\ \A i \in BlankInvoices : Repaired(i)
         /\ \A i \in Invoices \ BlankInvoices : invoice'[i] = invoice[i]
  <1>1. ASSUME NEW i \in BlankInvoices
        PROVE  Repaired(i)
    <2> DEFINE year == FinancialYear(invoice[i].date)
    <2>1. i \in Invoices /\ invoice[i] \in Invoice /\ invoice[i].date # None /\ RepairedNumber(i) \in Number
      BY NumberParts DEF RepairBlankInvoiceNumbers, BlankInvoices
    <2>2. invoice[i].date \in Date
      BY <2>1 DEF Invoice, StoredDate
    <2>3. year \in AllYears /\ i \in BlanksOf(year)
      BY <2>2, YearType DEF BlanksOf
    <2>4. RepairedNumber(i) =
              [seq |-> Highest(year) + 1 + Cardinality(Before(BlanksOf(year), i)), year |-> year]
      BY DEF RepairedNumber, NextInvoiceNumber, Before
    <2>5. invoice'[i] = [invoice[i] EXCEPT !.number = RepairedNumber(i)]
      BY <2>1 DEF RepairBlankInvoiceNumbers
    <2>6. /\ invoice'[i] \in Invoice /\ invoice'[i].number = RepairedNumber(i)
          /\ invoice'[i].date = invoice[i].date
      BY <2>1, <2>5 DEF Invoice
    <2>7. invoice'[i] # None
      BY <2>6, BlankAssumption
    <2> QED
      BY <2>1, <2>2, <2>3, <2>4, <2>6, <2>7 DEF Repaired
  <1>2. \A i \in Invoices \ BlankInvoices : invoice'[i] = invoice[i]
    BY DEF RepairBlankInvoiceNumbers
  <1> QED
    BY <1>1, <1>2

\* The blank invoices of a year are counted from 0 on in the order of their dates.
LEMMA BlankRanks ==
  ASSUME TypeOK, RepairBlankInvoiceNumbers, NEW year \in AllYears
  PROVE  LET S == BlanksOf(year)
         IN  /\ S \in SUBSET Invoices /\ \A i \in S : invoice[i].date \in Date
             /\ Cardinality(S) \in Nat
             /\ \A i \in S : Cardinality(Before(S, i)) \in 0 .. Cardinality(S) - 1
             /\ \A i, j \in S :
                   Earlier(i, j) => Cardinality(Before(S, i)) < Cardinality(Before(S, j))
             /\ \A i, j \in S : i # j => Cardinality(Before(S, i)) # Cardinality(Before(S, j))
             /\ \A n \in 0 .. Cardinality(S) - 1 : \E i \in S : Cardinality(Before(S, i)) = n
             /\ Cardinality(S) = 0 <=> S = {}
  <1> DEFINE S == BlanksOf(year)
  <1>1. S \in SUBSET Invoices /\ \A i \in S : i \in BlankInvoices /\ invoice[i].date \in Date
    BY RepairGives DEF BlanksOf, BlankInvoices, Repaired
  <1>2. Cardinality(S) = 0 <=> S = {}
    <2>1. IsFiniteSet(S)
      BY <1>1, CalendarAssumption, FS_Subset
    <2> QED
      BY <2>1, FS_EmptySet
  <1> HIDE DEF S
  <1>3. /\ Cardinality(S) \in Nat
        /\ \A i \in S : Cardinality(Before(S, i)) \in 0 .. Cardinality(S) - 1
        /\ \A i, j \in S : Earlier(i, j) => Cardinality(Before(S, i)) < Cardinality(Before(S, j))
        /\ \A n \in 0 .. Cardinality(S) - 1 : \E i \in S : Cardinality(Before(S, i)) = n
    BY <1>1, RanksCount
  <1>4. ASSUME NEW i \in S, NEW j \in S, i # j
        PROVE  Cardinality(Before(S, i)) # Cardinality(Before(S, j))
    <2>1. Earlier(i, j) \/ Earlier(j, i)
      BY <1>1, <1>4, EarlierIsOrder
    <2>2. Cardinality(Before(S, i)) \in Nat /\ Cardinality(Before(S, j)) \in Nat
      BY <1>3
    <2> QED
      BY <1>3, <2>1, <2>2
  <1> QED
    BY <1>1, <1>2, <1>3, <1>4 DEF S

LEMMA RepairKeeps ==
  ASSUME TypeOK, RepairBlankInvoiceNumbers
  PROVE  /\ KeepsNumbers
         /\ BlankInvoices' = {}
         /\ \A i \in Invoices : Numbered(i)' <=> Numbered(i) \/ i \in BlankInvoices
         /\ \A i \in Invoices : Numbered(i) => invoice'[i].number = invoice[i].number
  <1>1. ASSUME NEW i \in Invoices
        PROVE  /\ Numbered(i)' <=> Numbered(i) \/ i \in BlankInvoices
               /\ Numbered(i) => invoice'[i].number = invoice[i].number
               /\ Stored(i)' => Numbered(i)'
    <2>1. CASE i \in BlankInvoices
      <3>1. invoice'[i] # None /\ invoice'[i].number # Blank
        BY <2>1, RepairGives, BlankAssumption DEF Repaired
      <3>2. ~Numbered(i)
        BY <2>1 DEF BlankInvoices, Numbered
      <3> QED
        BY <2>1, <3>1, <3>2 DEF Numbered, Stored
    <2>2. CASE i \notin BlankInvoices
      BY <2>2, RepairGives DEF BlankInvoices, Numbered, Stored
    <2> QED
      BY <2>1, <2>2
  <1>2. BlankInvoices' = {}
    BY <1>1 DEF BlankInvoices, Numbered
  <1>3. KeepsNumbers
    BY <1>1 DEF KeepsNumbers
  <1> QED
    BY <1>1, <1>2, <1>3

LEMMA RepairUnique ==
  ASSUME TypeOK, NumbersAreUnique, RepairBlankInvoiceNumbers
  PROVE  NumbersAreUnique'
  <1>1. ASSUME NEW i \in BlankInvoices, NEW j \in BlankInvoices,
               invoice'[i].number = invoice'[j].number
        PROVE  i = j
    <2> DEFINE year == FinancialYear(invoice[i].date)
               before(k) == Cardinality(Before(BlanksOf(year), k))
    <2>1. Repaired(i) /\ Repaired(j)
      BY RepairGives
    <2>2. /\ year \in AllYears /\ FinancialYear(invoice[j].date) = year
          /\ i \in BlanksOf(year) /\ j \in BlanksOf(year)
      BY <1>1, <2>1 DEF Repaired
    <2>3. Highest(year) + 1 + before(i) = Highest(year) + 1 + before(j)
      BY <1>1, <2>1, <2>2 DEF Repaired
    <2>4. Highest(year) \in Nat /\ before(i) \in Nat /\ before(j) \in Nat
      BY <2>2, BlankRanks, HighestIsLeast, CalendarAssumption
    <2>5. before(i) = before(j)
      BY <2>3, <2>4
    <2> QED
      BY <2>2, <2>5, BlankRanks
  <1>2. ASSUME NEW i \in BlankInvoices, NEW j \in Invoices, Numbered(j),
               invoice'[i].number = invoice[j].number
        PROVE  FALSE
    <2> DEFINE year == FinancialYear(invoice[i].date)
               before == Cardinality(Before(BlanksOf(year), i))
    <2>1. Repaired(i)
      BY RepairGives
    <2>2. /\ year \in AllYears /\ i \in BlanksOf(year)
          /\ invoice[j].number.year = year /\ invoice[j].number.seq = Highest(year) + 1 + before
      BY <1>2, <2>1 DEF Repaired
    <2>3. Highest(year) \in Nat /\ before \in Nat
      BY <2>2, BlankRanks, HighestIsLeast, CalendarAssumption
    <2>4. Highest(year) + 1 + before <= Highest(year)
      BY <1>2, <2>2, InNumbers, HighestIsLeast DEF IsBound
    <2> QED
      BY <2>3, <2>4
  <1> SUFFICES ASSUME NEW i \in Invoices, NEW j \in Invoices,
                      Numbered(i)', Numbered(j)', invoice'[i].number = invoice'[j].number
               PROVE  i = j
    BY DEF NumbersAreUnique
  <1>3. CASE i \in BlankInvoices /\ j \in BlankInvoices
    BY <1>1, <1>3
  <1>4. CASE i \in BlankInvoices /\ Numbered(j)
    BY <1>2, <1>4, RepairKeeps
  <1>5. CASE Numbered(i) /\ j \in BlankInvoices
    BY <1>2, <1>5, RepairKeeps
  <1>6. CASE Numbered(i) /\ Numbered(j)
    BY <1>6, RepairKeeps DEF NumbersAreUnique
  <1> QED
    BY <1>3, <1>4, <1>5, <1>6, RepairKeeps

\* The numbers of a year go on from the highest one, one for each blank invoice.
LEMMA RepairNumbers ==
  ASSUME TypeOK, RepairBlankInvoiceNumbers, NEW year \in AllYears, NEW n
  PROVE  n \in NumbersOf(year)' <=>
            \/ n \in NumbersOf(year)
            \/ n \in Highest(year) + 1 .. Highest(year) + Cardinality(BlanksOf(year))
  <1> DEFINE S == BlanksOf(year)
             before(i) == Cardinality(Before(S, i))
  <1>1. n \in NumbersOf(year)' <=> \E i \in Invoices :
            Numbered(i)' /\ invoice'[i].number.year = year /\ invoice'[i].number.seq = n
    BY DEF NumbersOf
  <1>2. \A i \in S : /\ i \in BlankInvoices /\ i \in Invoices
                     /\ invoice'[i].number.year = year
                     /\ invoice'[i].number.seq = Highest(year) + 1 + before(i)
    BY RepairGives DEF BlanksOf, BlankInvoices, Repaired
  <1>3. \A i \in BlankInvoices : invoice'[i].number.year = year => i \in S
    BY RepairGives DEF Repaired
  <1>4. Highest(year) \in Nat /\ Cardinality(S) \in Nat
    BY BlankRanks, HighestIsLeast, CalendarAssumption
  <1>5. \A i \in S : before(i) \in 0 .. Cardinality(S) - 1
    BY BlankRanks
  <1>6. \A k \in 0 .. Cardinality(S) - 1 : \E i \in S : before(i) = k
    BY BlankRanks
  <1> HIDE DEF S
  <1>7. ASSUME n \in Highest(year) + 1 .. Highest(year) + Cardinality(S)
        PROVE  n \in NumbersOf(year)'
    <2>1. n - (Highest(year) + 1) \in 0 .. Cardinality(S) - 1
      BY <1>4, <1>7
    <2>2. PICK i \in S : before(i) = n - (Highest(year) + 1)
      BY <1>6, <2>1
    <2>3. Highest(year) + 1 + before(i) = n
      BY <1>4, <1>7, <2>2
    <2> QED
      BY <1>1, <1>2, <2>3, RepairKeeps
  <1>8. ASSUME n \in NumbersOf(year)
        PROVE  n \in NumbersOf(year)'
    BY <1>1, <1>8, InNumbers, RepairKeeps
  <1>9. ASSUME n \in NumbersOf(year)', n \notin NumbersOf(year)
        PROVE  n \in Highest(year) + 1 .. Highest(year) + Cardinality(S)
    <2>1. PICK i \in Invoices :
              Numbered(i)' /\ invoice'[i].number.year = year /\ invoice'[i].number.seq = n
      BY <1>1, <1>9
    <2>2. i \in BlankInvoices
      BY <1>9, <2>1, InNumbers, RepairKeeps
    <2>3. i \in S
      BY <1>3, <2>1, <2>2
    <2>4. n = Highest(year) + 1 + before(i) /\ before(i) \in 0 .. Cardinality(S) - 1
      BY <1>2, <1>5, <2>1, <2>3
    <2> QED
      BY <1>4, <2>4
  <1> QED
    BY <1>7, <1>8, <1>9 DEF S

LEMMA RepairStep ==
  ASSUME NumberingInv, RepairBlankInvoiceNumbers
  PROVE  NumberingInv'
  <1>1. ASSUME NEW year \in AllYears
        PROVE  /\ sequence'[year] \in 0 .. MaxNumber
               /\ GapFree(year)'
    <2> DEFINE count == Cardinality(BlanksOf(year))
    <2>1. /\ MaxNumber \in Nat /\ Highest(year) \in 0 .. MaxNumber /\ count \in Nat
          /\ sequence[year] \in 0 .. MaxNumber
      BY BlankRanks, HighestIsLeast, CalendarAssumption DEF NumberingInv, TypeOK
    <2>2. sequence'[year] = IF count = 0 THEN sequence[year] ELSE Highest(year) + count
      BY BlankRanks DEF RepairBlankInvoiceNumbers, NumberingInv
    <2>3. \A n : n \in NumbersOf(year)'
                   <=> n \in NumbersOf(year) \/ n \in Highest(year) + 1 .. Highest(year) + count
      BY RepairNumbers DEF NumberingInv
    <2> HIDE DEF count
    <2>4. GapFree(year)'
      BY <2>1, <2>2, <2>3, RepairKeeps, GapFreeGrows DEF NumberingInv, TablesInv
    <2>5. count # 0 => Highest(year) + count <= MaxNumber
      <3>1. ASSUME count # 0
            PROVE  Highest(year) + count \in NumbersOf(year)'
        BY <2>1, <2>3, <3>1
      <3>2. \A n \in NumbersOf(year)' : n <= MaxNumber
        <4>1. ASSUME NEW i \in Invoices, Numbered(i)'
              PROVE  invoice'[i].number.seq \in 1 .. MaxNumber
          <5>1. invoice'[i].number \in Number
            BY <4>1, RepairKeeps, RepairGives, NumberParts DEF NumberingInv, Repaired
          <5> QED
            BY <5>1 DEF Number
        <4> QED
          BY <2>1, <4>1 DEF NumbersOf
      <3> QED
        BY <3>1, <3>2
    <2> QED
      BY <2>1, <2>2, <2>4, <2>5
  <1>2. TypeOK'
    <2>1. sequence' \in [AllYears -> 0 .. MaxNumber]
      BY <1>1 DEF RepairBlankInvoiceNumbers
    <2>2. \A i \in Invoices : invoice'[i] \in Invoice \cup {None}
      BY RepairGives DEF NumberingInv, TypeOK, Repaired
    <2>3. invoice' \in [Invoices -> Invoice \cup {None}]
      BY <2>2 DEF RepairBlankInvoiceNumbers
    <2> QED
      BY <2>1, <2>3 DEF RepairBlankInvoiceNumbers, NumberingInv, TypeOK
  <1>3. TablesInv'
    BY <1>1, RepairUnique DEF NumberingInv, TablesInv
  <1>4. \A r \in Requests : lock'[r] = "none" /\ request'[r] = None
    BY DEF RepairBlankInvoiceNumbers, NumberingInv, OnlyWhileServing, RequestsHold, RequestHolds
  <1>5. RequestsHold' /\ OneWriter'
    BY <1>4 DEF RequestsHold, RequestHolds, OneWriter
  <1>6. OnlyWhileServing'
    BY <1>4, RepairKeeps DEF OnlyWhileServing, NumberingInv
  <1> QED
    BY <1>2, <1>3, <1>5, <1>6 DEF NumberingInv

LEMMA NumberingNext == NumberingInv /\ [Next]_vars => NumberingInv'
  <1> SUFFICES ASSUME NumberingInv, [Next]_vars PROVE NumberingInv'
    OBVIOUS
  <1>1. ASSUME UNCHANGED <<invoice, sequence, request, lock>>,
               server' \in {"stopped", "starting"},
               \A r \in Requests : lock[r] = "none"
        PROVE  NumberingInv'
    <2>1. TypeOK'
      BY <1>1 DEF NumberingInv, TypeOK
    <2>2. RequestsHold'
      BY <1>1, RequestStays DEF NumberingInv, RequestsHold
    <2>3. OneWriter' /\ OnlyWhileServing'
      BY <1>1 DEF OneWriter, OnlyWhileServing
    <2> QED
      BY <1>1, <2>1, <2>2, <2>3, TablesStay DEF NumberingInv
  <1>2. CASE Start \/ FailStart
    BY <1>1, <1>2 DEF Start, FailStart, NumberingInv, OnlyWhileServing
  <1>3. CASE Stop
    <2>1. TypeOK'
      BY <1>3 DEF Stop, NumberingInv, TypeOK
    <2>2. \A r \in Requests : request'[r] = None /\ lock'[r] = "none"
      BY <1>3 DEF Stop
    <2>3. RequestsHold' /\ OneWriter' /\ OnlyWhileServing'
      BY <1>3, <2>2 DEF Stop, RequestsHold, RequestHolds, OneWriter, OnlyWhileServing
    <2> QED
      BY <1>3, <2>1, <2>3, TablesStay DEF Stop, NumberingInv
  <1>4. CASE RepairBlankInvoiceNumbers
    BY <1>4, RepairStep
  <1>5. ASSUME NEW r \in Requests, NEW date \in Date, CreateSalesInvoice(r, date)
        PROVE  NumberingInv'
    BY <1>5, CreateStep
  <1>6. ASSUME NEW r \in Requests, NEW date \in Date, NEW i \in Invoices, UpdateSalesInvoice(r, i, date)
        PROVE  NumberingInv'
    BY <1>6, UpdateStep
  <1>7. ASSUME NEW r \in Requests, DrawNumber(r) \/ WriteEdit(r) \/ Commit(r) \/ RollBack(r)
        PROVE  NumberingInv'
    BY <1>7, DrawStep, WriteStep, CommitStep, RollBackStep
  <1>8. CASE UNCHANGED vars
    <2>1. TypeOK' /\ OneWriter' /\ TablesInv'
      BY <1>8, TablesStay DEF vars, NumberingInv, TypeOK, OneWriter
    <2>2. RequestsHold'
      BY <1>8, RequestStays DEF vars, NumberingInv, RequestsHold
    <2>3. OnlyWhileServing'
      BY <1>8 DEF vars, NumberingInv, OnlyWhileServing, BlankInvoices, Stored
    <2> QED
      BY <2>1, <2>2, <2>3 DEF NumberingInv
  <1> QED
    BY <1>2, <1>3, <1>4, <1>5, <1>6, <1>7, <1>8 DEF Next

\* NumberingInv is an invariant: a request that has drawn a number holds the
\* next one of its year until it commits, whoever else comes and goes.
THEOREM NumbersAreHeld == Spec => []NumberingInv
  BY NumberingInit, NumberingNext, PTL DEF Spec

\* No two invoices ever have the same number.
THEOREM EachNumberOnce == Spec => []NumbersAreUnique
  <1>1. NumberingInv => NumbersAreUnique
    BY DEF NumberingInv, TablesInv
  <1> QED
    BY <1>1, NumbersAreHeld, PTL

\* The tables keep their types, and above the numbers of older servers those of
\* a year have no gap, whatever fails or crashes.
THEOREM NoNumberIsLost == Spec => []NoGaps
  <1>1. NumberingInv => NoGaps
    BY DEF NumberingInv, TablesInv, NoGaps, GapFree, AboveOld
  <1> QED
    BY <1>1, NumbersAreHeld, PTL

---------------------------------------------------------------------------
(* What a step does to the number and the date of an invoice *)

NumberStays(i) ==
    /\ Numbered(i) => invoice'[i].number = invoice[i].number
    /\ Numbered(i) /\ invoice[i].date # None =>
          FinancialYear(invoice'[i].date) = FinancialYear(invoice[i].date)
NumberIsNext(i) ==
    ~Numbered(i) /\ invoice'[i].number # Blank =>
        /\ invoice'[i].number.year = FinancialYear(invoice'[i].date)
        /\ \A j \in Invoices :
              Numbered(j) /\ invoice[j].number.year = invoice'[i].number.year =>
                  invoice[j].number.seq < invoice'[i].number.seq
RepairedInOrder ==
    \A i, j \in BlankInvoices :
        /\ server = "starting" /\ server' = "serving"
        /\ FinancialYear(invoice[i].date) = FinancialYear(invoice[j].date)
        /\ Earlier(i, j)
        => invoice'[i].number.seq < invoice'[j].number.seq
YearStep == (\A i \in Invoices : Stored(i)' => NumberStays(i) /\ NumberIsNext(i)) /\ RepairedInOrder

LEMMA StoredNumbersAreLower ==
  ASSUME TypeOK, NEW year \in AllYears, NEW j \in Invoices,
         Numbered(j), invoice[j].number.year = year
  PROVE  invoice[j].number.seq \in Nat /\ invoice[j].number.seq <= Highest(year) /\ Highest(year) \in Nat
  BY InNumbers, HighestIsLeast, NumberParts, CalendarAssumption DEF IsBound

LEMMA YearFrame ==
  ASSUME TypeOK, UNCHANGED invoice, ~(server = "starting" /\ server' = "serving")
  PROVE  YearStep
  <1>1. ASSUME NEW i \in Invoices, Stored(i)'
        PROVE  NumberStays(i) /\ NumberIsNext(i)
    BY <1>1 DEF NumberStays, NumberIsNext, Numbered, Stored
  <1> QED
    BY <1>1 DEF YearStep, RepairedInOrder

LEMMA YearCommit ==
  ASSUME NumberingInv, NEW r \in Requests, Commit(r)
  PROVE  YearStep
  <1>1. RepairedInOrder
    BY CommitAlone DEF RepairedInOrder
  <1>2. CASE request[r].new
    <2> DEFINE year == FinancialYear(request[r].date)
               seq == Highest(year) + 1
    <2>1. PICK i \in Invoices :
              /\ ~Stored(i) /\ invoice'[i].number = [seq |-> seq, year |-> year]
              /\ invoice'[i].date = request[r].date
              /\ \A j \in Invoices \ {i} : invoice'[j] = invoice[j]
      BY <1>2, CommittedNew
    <2>2. year \in AllYears
      BY CommitAlone
    <2>3. NumberStays(i)
      BY <2>1 DEF NumberStays, Numbered
    <2>4. NumberIsNext(i)
      <3>1. \A j \in Invoices : Numbered(j) /\ invoice[j].number.year = year => invoice[j].number.seq < seq
        BY <2>2, StoredNumbersAreLower DEF NumberingInv
      <3> QED
        BY <2>1, <3>1 DEF NumberIsNext
    <2>5. \A j \in Invoices \ {i} : Stored(j)' => NumberStays(j) /\ NumberIsNext(j)
      BY <2>1 DEF NumberStays, NumberIsNext, Numbered, Stored
    <2> QED
      BY <1>1, <2>3, <2>4, <2>5 DEF YearStep
  <1>3. CASE ~request[r].new
    <2>1. ASSUME NEW i \in Invoices, Stored(i)'
          PROVE  NumberStays(i) /\ NumberIsNext(i)
      BY <1>3, <2>1, CommittedEdit DEF NumberStays, NumberIsNext, Numbered
    <2> QED
      BY <1>1, <2>1 DEF YearStep
  <1> QED
    BY <1>2, <1>3

LEMMA YearRepair ==
  ASSUME NumberingInv, RepairBlankInvoiceNumbers
  PROVE  YearStep
  <1> USE DEF NumberingInv
  <1>1. ASSUME NEW i \in Invoices \ BlankInvoices, Stored(i)'
        PROVE  NumberStays(i) /\ NumberIsNext(i)
    BY <1>1, RepairGives DEF NumberStays, NumberIsNext, Numbered, Stored, BlankInvoices
  <1>2. ASSUME NEW i \in BlankInvoices
        PROVE  NumberStays(i) /\ NumberIsNext(i)
    <2> DEFINE year == FinancialYear(invoice[i].date)
               before == Cardinality(Before(BlanksOf(year), i))
    <2>1. /\ year \in AllYears /\ i \in BlanksOf(year) /\ invoice'[i].number.year = year
          /\ invoice'[i].number.seq = Highest(year) + 1 + before /\ invoice'[i].date = invoice[i].date
      BY RepairGives DEF Repaired
    <2>2. before \in Nat
      BY <2>1, BlankRanks
    <2>3. ASSUME NEW j \in Invoices, Numbered(j), invoice[j].number.year = year
          PROVE  invoice[j].number.seq < invoice'[i].number.seq
      <3>1. /\ invoice[j].number.seq \in Nat /\ Highest(year) \in Nat
            /\ invoice[j].number.seq <= Highest(year)
        BY <2>1, <2>3, StoredNumbersAreLower
      <3> QED
        BY <2>1, <2>2, <3>1
    <2>4. ~Numbered(i)
      BY DEF BlankInvoices, Numbered
    <2> QED
      BY <2>1, <2>3, <2>4 DEF NumberStays, NumberIsNext
  <1>3. ASSUME NEW i \in BlankInvoices, NEW j \in BlankInvoices,
               FinancialYear(invoice[i].date) = FinancialYear(invoice[j].date), Earlier(i, j)
        PROVE  invoice'[i].number.seq < invoice'[j].number.seq
    <2> DEFINE year == FinancialYear(invoice[i].date)
               before(k) == Cardinality(Before(BlanksOf(year), k))
    <2>1. /\ year \in AllYears /\ i \in BlanksOf(year) /\ j \in BlanksOf(year)
          /\ invoice'[i].number.seq = Highest(year) + 1 + before(i)
          /\ invoice'[j].number.seq = Highest(year) + 1 + before(j)
      BY <1>3, RepairGives DEF Repaired
    <2>2. before(i) \in Nat /\ before(j) \in Nat /\ before(i) < before(j) /\ Highest(year) \in Nat
      BY <1>3, <2>1, BlankRanks, HighestIsLeast, CalendarAssumption
    <2> QED
      BY <2>1, <2>2
  <1> QED
    BY <1>1, <1>2, <1>3 DEF YearStep, RepairedInOrder, BlankInvoices

\* An invoice keeps its number and its year; a new number is of the year of its
\* date and above every other of that year; a repair follows the dates.
THEOREM NumbersNameTheYear == Spec => NumbersFollowTheYear
  <1>1. NumberingInv /\ [Next]_vars => YearStep \/ UNCHANGED vars
    <2> SUFFICES ASSUME NumberingInv, Next PROVE YearStep
      OBVIOUS
    <2>1. TypeOK
      BY DEF NumberingInv
    <2>2. CASE Start \/ FailStart \/ Stop
      BY <2>1, <2>2, YearFrame DEF Start, FailStart, Stop
    <2>3. CASE RepairBlankInvoiceNumbers
      BY <2>3, YearRepair
    <2>4. ASSUME NEW r \in Requests, NEW date \in Date, NEW i \in Invoices,
                 CreateSalesInvoice(r, date) \/ UpdateSalesInvoice(r, i, date)
          PROVE  YearStep
      BY <2>1, <2>4, YearFrame DEF CreateSalesInvoice, UpdateSalesInvoice
    <2>5. ASSUME NEW r \in Requests, NEW date \in Date, CreateSalesInvoice(r, date)
          PROVE  YearStep
      BY <2>1, <2>5, YearFrame DEF CreateSalesInvoice
    <2>6. ASSUME NEW r \in Requests, DrawNumber(r) \/ WriteEdit(r) \/ RollBack(r)
          PROVE  YearStep
      BY <2>1, <2>6, YearFrame DEF DrawNumber, WriteEdit, RollBack
    <2>7. ASSUME NEW r \in Requests, Commit(r)
          PROVE  YearStep
      BY <2>7, YearCommit
    <2> QED
      BY <2>2, <2>3, <2>4, <2>5, <2>6, <2>7 DEF Next
  <1>2. YearStep \/ UNCHANGED vars =>
          [/\ \A i \in Invoices : Stored(i)' =>
                /\ Numbered(i) => invoice'[i].number = invoice[i].number
                /\ Numbered(i) /\ invoice[i].date # None =>
                      FinancialYear(invoice'[i].date) = FinancialYear(invoice[i].date)
                /\ ~Numbered(i) /\ invoice'[i].number # Blank =>
                      /\ invoice'[i].number.year = FinancialYear(invoice'[i].date)
                      /\ \A j \in Invoices :
                            Numbered(j) /\ invoice[j].number.year = invoice'[i].number.year =>
                                invoice[j].number.seq < invoice'[i].number.seq
           /\ \A i, j \in BlankInvoices :
                /\ server = "starting" /\ server' = "serving"
                /\ FinancialYear(invoice[i].date) = FinancialYear(invoice[j].date)
                /\ Earlier(i, j)
                => invoice'[i].number.seq < invoice'[j].number.seq]_vars
    BY DEF YearStep, NumberStays, NumberIsNext, RepairedInOrder
  <1> QED
    BY <1>1, <1>2, NumbersAreHeld, PTL DEF Spec, NumbersFollowTheYear
=============================================================================
