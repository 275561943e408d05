------------------------------- MODULE GstTax -------------------------------
(***************************************************************************)
(* CGST, SGST and IGST of sales invoices: core/gst_tax.go, with the parts  *)
(* of CreateSalesInvoice, UpdateSalesInvoice and SaveCompanyProfile        *)
(* (core/db.go) that call it. An invoice keeps the seller's GSTIN of the   *)
(* day it was raised, and the buyer's through the id of an address whose   *)
(* GSTIN never changes; its treatment is stored, its amounts are computed  *)
(* whenever it is read. Amounts are in paise.                              *)
(*                                                                         *)
(* Each save is one transaction; that they do not mix is shown in          *)
(* LedgerTransactions. Numbers and receipts are in InvoiceNumbering and    *)
(* Subledger. Startup shows that the statements of a start implement this. *)
(***************************************************************************)
EXTENDS Integers, Sequences

CONSTANTS
    Invoices, Addresses,   \* ids, in the order the rows are created
    States,                \* the two digits of a GSTIN that name a state
    Currencies,            \* "INR" and others
    LineItems,             \* what invoices are made of
    OldProfiles,           \* the GSTIN an older server stored unchecked
    Missing, Malformed,    \* no GSTIN, and a text of another shape
    None                   \* no row, no column

\* As it is typed: in capitals without blanks around it, or not.
Text == [state: States, clean: BOOLEAN] \cup {Missing, Malformed}
Gstin == [state: States, clean: {TRUE}] \cup {Missing}
Line == [amount: Int, percent: 0 .. 100]
Invoice == [seller: Text, address: Addresses \cup {None}, currency: Currencies,
            treatment: {"intrastate", "interstate", "none", None}, lines: Seq(Line)]

\* The tax in hundredths of a paisa, before it is rounded.
ExactTax(lines) ==
    LET sum[n \in 0 .. Len(lines)] ==
            IF n = 0 THEN 0 ELSE sum[n - 1] + lines[n].amount * lines[n].percent
    IN  sum[Len(lines)]

ASSUME GstAssumption ==
    /\ Invoices \subseteq Nat /\ Addresses \subseteq Nat /\ Addresses # {} /\ "INR" \in Currencies
    /\ OldProfiles \subseteq Text
    /\ LineItems \subseteq Seq([amount: Int, percent: Int])
    /\ Missing # Malformed /\ None \notin {Missing, Malformed} \cup Addresses
    /\ None \notin {"intrastate", "interstate", "none"}

VARIABLES
    server,       \* "stopped", "starting" or "serving"
    hasColumns,   \* whether the columns of initGST exist
    profile,      \* company_profile.gstin
    gstin,        \* bp_addresses.gstin of each version
    invoice       \* sales_invoices and sales_invoice_line_items

vars == <<server, hasColumns, profile, gstin, invoice>>

Stored(i) == invoice[i] # None
NextId(id, table) == \A other \in DOMAIN table : table[other] = None => id <= other

TypeOK ==
    /\ server \in {"stopped", "starting", "serving"}
    /\ hasColumns \in BOOLEAN
    /\ profile \in Text
    /\ gstin \in [Addresses -> Gstin \cup {None}]
    /\ invoice \in [Invoices -> Invoice \cup {None}]
    /\ \A i \in Invoices : Stored(i) => (invoice[i].treatment = None <=> ~hasColumns)

---------------------------------------------------------------------------
(* Rules *)

HasShape(text) == text \notin {Missing, Malformed} /\ text.clean

\* UPPER(TRIM(...))
Cleaned(text) == IF text \in {Missing, Malformed} THEN text ELSE [text EXCEPT !.clean = TRUE]

\* normalizeGSTIN accepts what is missing or has the shape once it is cleaned.
Normalizes(text) == text # Malformed

GstTreatment(currency, seller, buyer) ==
    IF currency # "INR" THEN "none"
    ELSE IF HasShape(seller) /\ HasShape(buyer) /\ seller.state # buyer.state
    THEN "interstate" ELSE "intrastate"

\* math.Round: halves away from zero.
Rounded(n, d) ==
    IF n >= 0 THEN (2 * n + d) \div (2 * d) ELSE -((2 * (-n) + d) \div (2 * d))

SgstAmount(total, half) == total - half

\* populateInvoiceGST. The percentages are in halves of a percent.
PopulateInvoiceGST(inv) ==
    LET inr == inv.currency = "INR"
        interstate == inv.treatment = "interstate"
        total == IF inr THEN Rounded(ExactTax(inv.lines), 100) ELSE 0
        cgst == IF inr /\ ~interstate THEN Rounded(total, 2) ELSE 0
        percent(on, n) == [l \in DOMAIN inv.lines |-> IF on THEN n * inv.lines[l].percent ELSE 0]
    IN  [gst |-> total, cgst |-> cgst,
         sgst |-> IF inr /\ ~interstate THEN SgstAmount(total, cgst) ELSE 0,
         igst |-> IF interstate THEN total ELSE 0,
         cgstPercent |-> percent(inr /\ ~interstate, 1),
         sgstPercent |-> percent(inr /\ ~interstate, 1),
         igstPercent |-> percent(inr /\ interstate, 2)]

---------------------------------------------------------------------------
(* Requests *)

SaveCompanyProfile(text) ==
    /\ server = "serving" /\ Normalizes(text)
    /\ profile' = Cleaned(text)
    /\ UNCHANGED <<server, hasColumns, gstin, invoice>>

\* A new address, or a new version for another GSTIN.
SaveAddress(a, text) ==
    /\ server = "serving" /\ Normalizes(text)
    /\ gstin[a] = None /\ NextId(a, gstin)
    /\ gstin' = [gstin EXCEPT ![a] = Cleaned(text)]
    /\ UNCHANGED <<server, hasColumns, profile, invoice>>

MayTax(lines) == \A l \in DOMAIN lines : lines[l].percent \in 0 .. 100

Buyer(a) == IF a = None THEN Missing ELSE gstin[a]

Decided(i, currency, seller, buyer) == GstTreatment(currency, seller, buyer)
DecidedOnce(i, currency, seller, buyer) ==
    IF Stored(i) THEN invoice[i].treatment ELSE GstTreatment(currency, seller, buyer)
Treatment(i, currency, seller, buyer) == Decided(i, currency, seller, buyer)

\* invoiceGSTContext, and the INSERT or UPDATE after it.
Save(i, seller, a, currency, lines) ==
    /\ Normalizes(seller) /\ MayTax(lines)
    /\ a # None => gstin[a] # None
    /\ invoice' = [invoice EXCEPT ![i] =
          [seller |-> Cleaned(seller), address |-> a, currency |-> currency,
           treatment |-> Treatment(i, currency, Cleaned(seller), Buyer(a)), lines |-> lines]]
    /\ UNCHANGED <<server, hasColumns, profile, gstin>>

CreateSalesInvoice(i, a, currency, lines) ==
    /\ server = "serving" /\ ~Stored(i) /\ NextId(i, invoice)
    /\ Save(i, profile, a, currency, lines)

SellerOfToday(i) == profile
SellerSnapshot(i) == invoice[i].seller
SellerOf(i) == SellerSnapshot(i)

UpdateSalesInvoice(i, a, currency, lines) ==
    /\ server = "serving" /\ Stored(i)
    /\ Save(i, SellerOf(i), a, currency, lines)

---------------------------------------------------------------------------
(* The process *)

\* SQL of the migration: length(...) = 15 on both sides.
MigratedTreatment(inv) ==
    LET seller == Cleaned(profile)  buyer == Buyer(inv.address)
    IN  IF inv.currency # "INR" THEN "none"
        ELSE IF Missing \notin {seller, buyer} /\ Malformed \notin {seller, buyer}
                /\ seller.state # buyer.state
        THEN "interstate" ELSE "intrastate"

Migrates == ~hasColumns

\* initGST, one transaction: the columns, and what they say of old invoices.
InitGST ==
    /\ server = "starting"
    /\ hasColumns' = TRUE
    /\ invoice' = IF ~Migrates THEN invoice ELSE
          [i \in Invoices |-> IF ~Stored(i) THEN None ELSE
             [invoice[i] EXCEPT !.seller = Cleaned(profile),
                                !.treatment = MigratedTreatment(invoice[i])]]
    /\ UNCHANGED <<server, profile, gstin>>

\* InitDB returns.
Serve ==
    /\ server = "starting" /\ hasColumns
    /\ server' = "serving"
    /\ UNCHANGED <<hasColumns, profile, gstin, invoice>>

Start ==
    /\ server = "stopped"
    /\ server' = "starting"
    /\ UNCHANGED <<hasColumns, profile, gstin, invoice>>

Stop ==
    /\ server' = "stopped"
    /\ UNCHANGED <<hasColumns, profile, gstin, invoice>>

---------------------------------------------------------------------------
\* What an older server left: at most one address, without a GSTIN, and one invoice.
OldInvoice(a, currency, lines) ==
    [seller |-> Missing, address |-> a, currency |-> currency, treatment |-> None, lines |-> lines]

First(S) == CHOOSE x \in S : \A y \in S : x <= y
OldAddresses(a) == [other \in Addresses |-> IF other = a THEN Missing ELSE None]
OldInvoices(inv) == [i \in Invoices |-> IF i = First(Invoices) THEN inv ELSE None]

Init ==
    /\ server = "stopped" /\ hasColumns = FALSE
    /\ profile \in OldProfiles
    /\ \E a \in {None, First(Addresses)} :
          /\ gstin = OldAddresses(a)
          /\ \/ invoice = OldInvoices(None)
             \/ \E currency \in Currencies, lines \in LineItems \cap Seq(Line) :
                   invoice = OldInvoices(OldInvoice(a, currency, lines))

Next ==
    \/ Start \/ InitGST \/ Serve \/ Stop
    \/ \E text \in Text : SaveCompanyProfile(text) \/ \E a \in Addresses : SaveAddress(a, text)
    \/ \E i \in Invoices, a \in Addresses \cup {None}, currency \in Currencies, lines \in LineItems :
          CreateSalesInvoice(i, a, currency, lines) \/ UpdateSalesInvoice(i, a, currency, lines)

Spec == Init /\ [][Next]_vars

---------------------------------------------------------------------------
(* Properties *)

\* The components of the tax are the whole tax, to the paisa, and those of the
\* rate the whole rate; one of the two kinds is zero, CGST and SGST differ by a
\* paisa at most, and the total is within half a paisa of the exact tax.
TaxIsSplitOnce(inv) ==
    LET tax == PopulateInvoiceGST(inv)
    IN  /\ tax.cgst + tax.sgst + tax.igst = tax.gst
        /\ tax.igst = 0 \/ (tax.cgst = 0 /\ tax.sgst = 0)
        /\ tax.cgst - tax.sgst \in -1 .. 1
        /\ inv.currency = "INR" => 2 * (100 * tax.gst - ExactTax(inv.lines)) \in -100 .. 100
        /\ inv.currency # "INR" => tax.gst = 0
        /\ \A l \in DOMAIN inv.lines : inv.currency = "INR" =>
              tax.cgstPercent[l] + tax.sgstPercent[l] + tax.igstPercent[l]
                  = 2 * inv.lines[l].percent

\* The tables keep their types, the tax of every invoice is split once, and the
\* stored treatment is the one that the invoice's own seller, address and currency
\* call for, after every save, migration and restart.
TreatmentIsCurrent ==
    /\ TypeOK
    /\ \A i \in Invoices : Stored(i) => TaxIsSplitOnce(invoice[i])
    /\ hasColumns => \A i \in Invoices : Stored(i) =>
          invoice[i].treatment =
              GstTreatment(invoice[i].currency, invoice[i].seller, Buyer(invoice[i].address))

\* The tax of an invoice changes only with its address, currency or lines: not
\* with the company's profile, a new GSTIN of the partner, or a restart.
TaxFollowsTheInvoice ==
    [][\A i \in Invoices : hasColumns /\ Stored(i) =>
          LET old == invoice[i]  new == invoice'[i]
          IN  /\ new.seller = old.seller
              /\ old.address = new.address /\ old.currency = new.currency /\ old.lines = new.lines
                 => PopulateInvoiceGST(new) = PopulateInvoiceGST(old)]_vars
=============================================================================
