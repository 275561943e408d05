---------------------------- MODULE RateReports ----------------------------
(***************************************************************************)
(* What is read from the reference rates: the GSTR-3B summary, which       *)
(* values each sales invoice at the rate of its date (core/gstr3b.go), and *)
(* the download of a range of dates as a workbook                          *)
(* (handlers/reference_rates_download.go), which can be imported again.    *)
(* Both read the committed rates in one SELECT.                            *)
(***************************************************************************)
EXTENDS ReferenceRates, SequencesExt, Ascending

CONSTANTS
    Invoices,       \* sales invoices, in paise
    Inr,            \* the currency that needs no rate
    Nearest(_, _),  \* the double nearest to a quotient, both counted in 1/One
    One,            \* all doubles that occur are multiples of 1/One
    Precision,      \* what a double is nearer to a number than its Precision-th part
    RateScale,      \* decimals of Rates: 100 when they are in paise
    Limit           \* paise up to which these roundings stay below a paisa

ASSUME InvoicesAssumption ==
    /\ Invoices \subseteq [date: Nat, year: Nat, currency: Currencies \cup {Inr},
                           amount: Nat, gst: Nat]
    /\ Inr \notin Currencies /\ IsFiniteSet(Currencies)

(***************************************************************************)
(* SQLite's REAL and Go's float64. A positive double is an integer, the    *)
(* number it is of 1/One; float64 has a Precision of 2^53.                 *)
(***************************************************************************)
Amount(inv) == Nearest(inv.amount * One, 100)
RateInr(quote) == Nearest(quote.rate * One, RateScale)
ExchangeRate(quote) == Nearest(RateInr(quote), quote.units)
Product(inv, quote) == Nearest(Amount(inv) * ExchangeRate(quote), One)
InPaise(inv, quote) == Nearest(Product(inv, quote) * 100, 1)

IsNear(x, n, d) == x \in Nat /\ Precision * (x * d - n) <= n /\ Precision * (n - x * d) <= n

ASSUME FloatAssumption ==
    /\ One \in Nat \ {0} /\ RateScale \in Nat \ {0} /\ Limit \in Nat \ {0}
    /\ Precision \in Nat /\ 18 * Limit < Precision
    /\ \A inv \in {i \in Invoices : i.currency # Inr}, quote \in [rate: Rates, units: Units] :
          /\ IsNear(Amount(inv), inv.amount * One, 100)
          /\ IsNear(RateInr(quote), quote.rate * One, RateScale)
          /\ IsNear(ExchangeRate(quote), RateInr(quote), quote.units)
          /\ IsNear(Product(inv, quote), Amount(inv) * ExchangeRate(quote), One)
          /\ IsNear(InPaise(inv, quote), Product(inv, quote) * 100, 1)

---------------------------------------------------------------------------
(* GSTR-3B *)

AllQuoteDates(currency, date) == {d \in Dates : rates[<<d, currency>>] # NoQuote}
QuoteDates(currency, date) ==
    {d \in Dates : d <= date /\ rates[<<d, currency>>] # NoQuote}

\* max(rate_date) of the rates on or before the date of the invoice.
ReferenceDate(currency, date) ==
    LET known == QuoteDates(currency, date)
    IN  IF known = {} THEN 0 ELSE Max(known)

\* math.Round of a number of paise.
Rounded(x) == (2 * x + One) \div (2 * One)

\* The rate of one unit first, as the summary shows it, then the amount times it.
ValueInr(inv, quote) == Rounded(InPaise(inv, quote))

\* A row of the summary, without a value when there is no rate.
SummaryRow(inv) ==
    LET on == ReferenceDate(inv.currency, inv.date)
    IN  IF inv.currency = Inr THEN [value |-> inv.amount + inv.gst, on |-> 0]
        ELSE IF on = 0 THEN [value |-> None, on |-> 0]
        ELSE [value |-> ValueInr(inv, rates[<<on, inv.currency>>]), on |-> on]

\* GetGSTR3BSummary: of a year, or of all; the years are of all invoices. An
\* invoice whose date does not parse, which is not modelled, fails the summary.
GetGSTR3BSummary(fy) ==
    [years |-> {inv.year : inv \in Invoices},
     rows |-> [inv \in {i \in Invoices : fy = None \/ i.year = fy} |-> SummaryRow(inv)]]

---------------------------------------------------------------------------
(* Download *)

InRange(from, to) == {key \in Key : from <= key[1] /\ key[1] <= to /\ rates[key] # NoQuote}

\* Headers name the currency and the units.
ColumnOf(key) == [currency |-> key[2], units |-> rates[key].units]
ColumnOfCurrency(key) ==
    [currency |-> key[2],
     units |-> rates[CHOOSE k \in Key : k[2] = key[2] /\ rates[k] # NoQuote].units]
HeaderFor(key) == ColumnOf(key)

\* DownloadReferenceRates of a range that has rates.
DownloadReferenceRates(from, to) ==
    LET keys == InRange(from, to)
        columns == SetToSeq({HeaderFor(key) : key \in keys})
        dates == Ascending({key[1] : key \in keys})
        cell(date, column) ==
            LET key == <<date, column.currency>>
            IN  IF key \in keys /\ HeaderFor(key) = column THEN rates[key].rate ELSE Empty
    IN  [dated |-> TRUE, columns |-> columns,
         rows |-> [i \in DOMAIN dates |->
            [date |-> dates[i], cells |-> [c \in DOMAIN columns |-> cell(dates[i], columns[c])]]]]

---------------------------------------------------------------------------
(* Properties *)

\* The price of one unit is the same.
Equivalent(q1, q2) ==
    q1 = q2 \/ (NoQuote \notin {q1, q2} /\ q1.rate * q2.units = q2.rate * q1.units)

\* A step leaves the price of the invoice's currency as it was, up to its date.
PricesStay(inv) ==
    \A d \in Dates : d <= inv.date /\ inv.currency # Inr =>
        Equivalent(rates[<<d, inv.currency>>], rates'[<<d, inv.currency>>])

\* An invoice keeps its reference date and its value in every summary while the
\* quotes of its currency up to its date keep their price, whatever is imported for
\* later dates. If the quote it is valued by is entered again for other units, as
\* JPY for 1 or 100, then the roundings of doubles may move a value of at most Limit,
\* by a paisa and no more.
ValuesFollowQuotes ==
    [][\A inv \in Invoices : PricesStay(inv) =>
          \A fy \in {None, inv.year} :
              LET before == GetGSTR3BSummary(fy).rows[inv]
                  after == GetGSTR3BSummary(fy)'.rows[inv]
                  quote == rates[<<before.on, inv.currency>>]
              IN  after # before =>
                    /\ after.on = before.on
                    /\ rates'[<<before.on, inv.currency>>].units # quote.units
                    /\ inv.amount * quote.rate <= Limit * (RateScale * quote.units) =>
                          /\ after.value <= before.value + 1
                          /\ before.value <= after.value + 1]_vars

\* A download holds exactly the rates of its range, with their units. It can be
\* imported again, and then changes nothing, unless a currency is quoted for
\* different units within the range: that header the import refuses.
DownloadsImportBack ==
    \A from, to \in Dates : InRange(from, to) # {} =>
        LET sheet == DownloadReferenceRates(from, to)
            keys == InRange(from, to)
        IN  /\ QuotesOf(sheet) =
                  {<<key, [rates[key] EXCEPT !.source = "workbook"]>> : key \in keys}
            /\ Table!Agrees(QuotesOf(sheet)) /\ Table!Merged(QuotesOf(sheet)) = rates
            /\ HeaderOK(sheet) <=>
                  \A k, l \in keys : k[2] = l[2] => rates[k].units = rates[l].units
=============================================================================
