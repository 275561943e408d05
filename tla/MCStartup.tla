----------------------------- MODULE MCStartup -----------------------------
(* Instances of Startup for TLC. *)
EXTENDS Startup

\* A tax of an odd number of paise, whose parts of a paisa add up, and a rate
\* above 100, which is refused.
TwoInvoices == {<<[amount |-> 5, percent |-> 18], [amount |-> 15, percent |-> 28]>>,
                <<[amount |-> 100, percent |-> 118]>>}
Profiles == {[state |-> "29", clean |-> FALSE], Malformed, Missing}

\* A new database; statements only; the first release with invoices, and one
\* with later columns; one with address versions.
Statement1 == {"accounts", "imports", "bank_transactions"}
Invoices1 == Statement1 \cup {"business_partners", "business_partner_contacts", "company_profile",
                              "profile_row", "sales_invoices", "sales_invoice_line_items"}
Invoices2 == Invoices1 \cup InvoiceColumns \cup
    {"invoice_sequences", "business_partner_id", "number_triggers", "is_closed"}
Addresses1 == Invoices2 \cup
    {"invoice_allocations", "bp_addresses", "address_id", "address_triggers"}
Releases == {{}, Statement1, Invoices1, Invoices2, Addresses1}
=============================================================================
