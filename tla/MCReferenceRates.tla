-------------------------- MODULE MCReferenceRates --------------------------
(* An instance of RateReports for TLC. *)
EXTENDS RateReports, TLC

Currencies2 == {"JPY", "USD"}
Units2 == {1, 10}

Header(units) == <<[currency |-> "JPY", units |-> units], [currency |-> "USD", units |-> 1]>>
RowOf(date, cells) == [date |-> date, cells |-> cells]
SheetOf(columns, rows) == [dated |-> TRUE, columns |-> columns, rows |-> rows]

\* Rates are in paise: 2.30 for 10 yen, and 0.46 for a dollar.
Good == SheetOf(Header(10), <<RowOf(1, <<230, 46>>), RowOf(Empty, <<Empty>>),
                              RowOf(2, <<230>>), RowOf(2, <<Empty, 46>>)>>)
\* The same day twice, with two quotes.
Disputed == SheetOf(Header(10), <<RowOf(1, <<Empty, 46>>), RowOf(1, <<230, 230>>)>>)
\* A cell that is no rate, after one that is; a row too wide; a date that is none.
Spoilt == SheetOf(Header(1), <<RowOf(2, <<46, Bad>>)>>)
Wide == SheetOf(Header(1), <<RowOf(1, <<46, 46, 46>>)>>)
Undated == SheetOf(Header(1), <<RowOf(1, <<46>>), RowOf(Bad, <<46>>)>>)
\* Sheets without rates: a header that is none, a currency twice, only blank rows.
Notes == [Good EXCEPT !.columns = <<Bad>>]
Twice == [Good EXCEPT !.columns = <<Header(1)[1], Header(10)[1]>>]
Hollow == SheetOf(Header(1), <<RowOf(Empty, <<Empty>>)>>)
\* Yen one by one.
Single == SheetOf(Header(1), <<RowOf(1, <<23, Empty>>)>>)

Files6 == {[Notes |-> Notes, Twice |-> Twice, BankWise |-> Good],
           [BankWise |-> Disputed, More |-> Single],
           [BankWise |-> Spoilt], [BankWise |-> Wide], [BankWise |-> Undated],
           [BankWise |-> Hollow]}

\* By hand, 0.23 INR for one unit: the price of the 10 yen of the workbooks.
OneByOne == {[units |-> 1, rate |-> 23]}

\* Amounts are in paise.
InvoicesOf3 == {
    [date |-> 1, year |-> 2026, currency |-> "JPY", amount |-> 50, gst |-> 0],
    [date |-> 2, year |-> 2027, currency |-> "USD", amount |-> 33, gst |-> 0],
    [date |-> 2, year |-> 2027, currency |-> "INR", amount |-> 100, gst |-> 18]}

\* Floating point with 9 significant bits, half to even.
Steps == {2^s : s \in 0 .. 14}
Float9[n \in Nat, d \in Nat] ==
    LET step == CHOOSE w \in Steps :
                    n \div (d * w) < 512 /\ (w > 1 => n \div (d * w) >= 256)
        least == n \div (d * step)
        rest == 2 * (n % (d * step))
        up == rest > d * step \/ (rest = d * step /\ least % 2 = 1)
    IN  step * IF up THEN least + 1 ELSE least
Nearest9(n, d) == Float9[n, d]

\* 0.50 at 0.23 for one unit is 0.12, and at 2.30 for ten it is 0.11.
ASSUME UnitsMatter ==
    LET value(r, u) == ValueInr([amount |-> 50], [rate |-> r, units |-> u])
    IN  value(23, 1) = 12 /\ value(230, 10) = 11

Symmetry == Permutations(Requests)
=============================================================================
