---------------------- MODULE MCLedgerTransactions ----------------------
(* An instance of LedgerTransactions for TLC. *)
EXTENDS LedgerTransactions, Functions, TLC

CONSTANTS p1, sup1, r1, r2, w1

MCSum(f) == SumFunction(f)
RupeeInvoices == {[net |-> 2, gst |-> 100], [net |-> 1, gst |-> 100]}   \* expect 3 and 2
Deposits == (r1 :> 2) @@ (r2 :> 2) @@ (w1 :> 0)
Withdrawals == (r1 :> 0) @@ (r2 :> 0) @@ (w1 :> 2)
NoMoney == [t \in Transactions |-> 0]
InRupees == [t \in Transactions |-> ""]
Unclassified == [head |-> "", sub |-> "", number |-> {}, partner |-> None]
PlainRule == [t \in Transactions |-> Unclassified]
Sale(closed, items) == [partner |-> p1, currency |-> "INR", items |-> items, closed |-> closed]
Stored == {[bank |-> PlainRule,
            invoice |-> [i \in Invoices |-> Sale(FALSE, [net |-> 2, gst |-> 100])],
            bill |-> [b \in Bills |-> [total |-> 2, number |-> None, gstin |-> None, party |-> sup1]],
            link |-> [b \in Bills |-> None]]}

Allocate(t, head, partner, allocations) ==
    [op |-> "allocate", t |-> t, allocations |-> allocations,
     row |-> [head |-> head, sub |-> "", number |-> {}, partner |-> partner]]
SomeRequests ==
    {Allocate(t, SalesHead, p1, [i \in Invoices |-> 2]) : t \in {r1, r2}}
    \cup {Allocate(r1, SalesHead, None, [i \in Invoices |-> 0]), Allocate(w1, "Salary", None, None)}
    \cup {[op |-> "pay", t |-> w1, allocations |-> [b \in Bills |-> amount]] : amount \in {0, 2}}
    \cup {[op |-> "update", i |-> 1, inv |-> Sale(closed, [net |-> 1, gst |-> 100])] : closed \in BOOLEAN}
    \cup {[op |-> "list"]}
=============================================================================
