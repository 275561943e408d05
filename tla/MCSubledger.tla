--------------------------- MODULE MCSubledger ---------------------------
(* Instances of Subledger for TLC. *)
EXTENDS Subledger, Functions, TLC

CONSTANTS p1, p2, typed, n1, g1, sup1, r1, r2, r3, w1, w2

MCSum(f) == SumFunction(f)
Unclassified == [head |-> "", sub |-> "", number |-> {}, partner |-> None]
Empty(S) == [x \in S |-> None]
EmptyDatabase == [bank |-> Empty(Transactions), invoice |-> Empty(Invoices),
                  bill |-> Empty(Bills), link |-> Empty(Bills)]
OnlyEmpty == {EmptyDatabase}
NoMoney == [t \in Transactions |-> 0]
PlainRule == [t \in Transactions |-> Unclassified]

\* A dollar receipt, worth 1 dollar and 2 rupees, and two receipts in rupees,
\* one without a recorded currency, that compete for an invoice of 2.
ThreeDeposits == (r1 :> 2) @@ (r2 :> 1) @@ (r3 :> 2)
OneDollar == (r1 :> 1) @@ (r2 :> 0) @@ (r3 :> 0)
DollarsAndRupees == (r1 :> "USD") @@ (r2 :> "") @@ (r3 :> "INR")
OneAndTax == {[net |-> 1, gst |-> 60]}      \* expects 2 in rupees or 1 in dollars
PartnerSymmetry == Permutations(Partners)

\* Two withdrawals, of which a rule types a number on one, and a purchase invoice
\* with the link of an older release, on a withdrawal that may still pay it or one
\* that was reclassified.
TwoWithdrawals == (w1 :> 2) @@ (w2 :> 3)
InRupees == [t \in Transactions |-> ""]
TypedRule == [t \in Transactions |-> IF t = w1 THEN [Unclassified EXCEPT !.number = {typed}]
                                     ELSE Unclassified]
OldBill(total) == [total |-> total, number |-> None, gstin |-> g1, party |-> sup1]
OldLink(row) ==
    [bank |-> (w1 :> row) @@ (w2 :> None), invoice |-> Empty(Invoices),
     bill |-> [b \in Bills |-> IF b = 1 THEN OldBill(3) ELSE None],
     link |-> [b \in Bills |-> IF b = 1 THEN w1 ELSE None]]
EmptyOrLinked ==
    {EmptyDatabase, OldLink(Unclassified), OldLink([Unclassified EXCEPT !.sub = "Personal"])}
=============================================================================
