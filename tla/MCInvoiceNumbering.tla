------------------------- MODULE MCInvoiceNumbering -------------------------
(* An instance of InvoiceNumbering for TLC. *)
EXTENDS InvoiceNumbering, TLC

\* Nothing, or what an older server left: a numbered invoice of 2026-2027,
\* entered last, and two blank ones whose order of entry is not that of their
\* dates. In a second such database a blank invoice has no valid date.
April(number) == [number |-> number, date |-> [year |-> 2026, month |-> 4]]
March(number) == [number |-> number, date |-> [year |-> 2027, month |-> 3]]
Left(i, first) ==
    CASE i = 1 -> first
      [] i = 2 -> April(Blank)
      [] i = 3 -> March([seq |-> 2, year |-> 2026])
      [] OTHER -> None
EmptyOrBlank ==
    {[i \in Invoices |-> None],
     [i \in Invoices |-> Left(i, March(Blank))],
     [i \in Invoices |-> Left(i, [number |-> Blank, date |-> None])]}

Symmetry == Permutations(Requests)
=============================================================================
