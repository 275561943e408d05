----------------------------- MODULE MCScreens -----------------------------
(* Instances of Screens for TLC. *)
EXTENDS Screens, Functions

CONSTANTS g1, g2, r1, p1, p2, o1, o2

\* An invoice of each party, one entered by hand, and one of no GSTIN.
TwoInvoices == {[gstin |-> g, name |-> g, address |-> g] : g \in Gstins}
    \cup {[gstin |-> Partial, name |-> Typed, address |-> Typed]}

\* A remittance of 1 dollar, as the rules classify it, and an invoice of one of the two partners.
OneDollar == [t \in Transactions |-> 1]
NoMoney == [t \in Transactions |-> 0]
InDollars == [t \in Transactions |-> "USD"]
SalesRule ==
    [t \in Transactions |-> [head |-> "Sales Invoice", sub |-> "", number |-> {}, partner |-> None]]
OneItem == {[net |-> 1, gst |-> 0]}
OneInvoice ==
    {[bank |-> SalesRule,
      invoice |-> [i \in Invoices |-> [partner |-> p1, currency |-> "USD",
                      items |-> [net |-> 1, gst |-> 0], closed |-> FALSE]],
      bill |-> [b \in {} |-> None], link |-> [b \in {} |-> None]]}
MCSum(f) == SumFunction(f)
=============================================================================
