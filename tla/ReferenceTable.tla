--------------------------- MODULE ReferenceTable ---------------------------
(***************************************************************************)
(* What reference_rates promises its readers: one rate per date and        *)
(* currency; a batch is merged whole or not at all, and never changes what *)
(* is stored; only an edit by hand does. ReferenceRates, where an import   *)
(* goes cell by cell among other requests, implements it.                  *)
(***************************************************************************)
CONSTANTS
    Dates, Currencies, Units, Rates,
    Batches,      \* sets of <<key, quote>>: the worksheets that can be read
    NoQuote

VARIABLE rates

Key == Dates \X Currencies
Quote == [units: Units, rate: Rates, source: {"manual", "workbook"}]

Same(q1, q2) == q1.units = q2.units /\ q1.rate = q2.rate

Agrees(batch) == \A p \in batch :
    /\ rates[p[1]] = NoQuote \/ Same(rates[p[1]], p[2])
    /\ \A q \in batch : p[1] = q[1] => Same(p[2], q[2])

Merged(batch) == [key \in Key |->
    IF rates[key] = NoQuote /\ \E p \in batch : p[1] = key
    THEN (CHOOSE p \in batch : p[1] = key)[2]
    ELSE rates[key]]

Merge(batch) ==
    /\ Agrees(batch)
    /\ rates' = Merged(batch)

Create(key, quote) ==
    /\ rates[key] = NoQuote
    /\ rates' = [rates EXCEPT ![key] = quote]

Edit(old, key, quote) ==
    /\ rates[old] # NoQuote
    /\ key = old \/ rates[key] = NoQuote
    /\ rates' = [rates EXCEPT ![old] = NoQuote, ![key] = quote]

Init == rates = [key \in Key |-> NoQuote]

Next ==
    \/ \E batch \in Batches : Merge(batch)
    \/ \E key \in Key, quote \in {q \in Quote : q.source = "manual"} :
          \/ Create(key, quote)
          \/ \E old \in Key : Edit(old, key, quote)

Spec == Init /\ [][Next]_rates
=============================================================================
