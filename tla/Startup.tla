------------------------------ MODULE Startup ------------------------------
(***************************************************************************)
(* InitDB (core/db.go): every start of the server brings the database to   *)
(* the current schema, statement by statement and transaction by           *)
(* transaction, whatever release or whatever interrupted start left it.    *)
(* The process may die after any statement, and a statement may be refused *)
(* because another process, the importer of reference rates, holds the     *)
(* lock. What is migrated of an invoice, its address and then its tax, is  *)
(* in the variables of GstTax.                                             *)
(*                                                                         *)
(* Numbers, single links and the party cache are migrated in               *)
(* InvoiceNumbering and Subledger; here their statements only have an      *)
(* order. Indexes are created with their tables.                           *)
(***************************************************************************)
EXTENDS GstTax

CONSTANT OldDatabases   \* the schemas that older releases left

VARIABLES
    schema,    \* tables, columns, triggers and the row that the schema inserts
    step,      \* the statement of InitDB that comes next, 0 when it is not running
    failed,    \* whether the script of createTables was cut short in this start
    skipped,   \* history: the columns whose ALTER was refused in this start
    billed     \* whether the old partner has a billing address that is no version yet

startVars == <<schema, step, failed, skipped, billed>>

---------------------------------------------------------------------------
(* The statements of a start, in the order of InitDB *)

Statement(kind, name, others, needs) ==
    [kind |-> kind, name |-> name, others |-> others, needs |-> needs]
Create(table) == Statement("script", table, {}, {})
\* A table that is new has the columns that are added to older ones.
CreateNewer(table, columns) == Statement("script", table, columns, {})
AddColumn(column, table) == Statement("column", column, {}, {table})

CreateTables == <<
    Create("accounts"), Create("imports"), Create("statement_workbooks"),
    CreateNewer("bank_transactions", {"business_partner_id"}),
    Create("business_partners"), Create("business_partner_contacts"),
    Create("invoice_sequences"),
    CreateNewer("sales_invoices", {"contact_id", "due_in_days", "due_date"}),
    Create("sales_invoice_line_items"), Create("company_profile"),
    Statement("script", "profile_row", {}, {"company_profile"}),
    AddColumn("business_partner_id", "bank_transactions"),
    AddColumn("contact_id", "sales_invoices"),
    AddColumn("due_in_days", "sales_invoices"),
    AddColumn("due_date", "sales_invoices")>>

\* One transaction each, but for the statements of the kind "single".
InitInvoiceDetails == Statement("details", "invoice_details", {}, {"sales_invoices"})
RepairBlankInvoiceNumbers ==
    Statement("repair", "number_triggers", {}, {"sales_invoices", "invoice_sequences"})
InitAllocations == <<Statement("single", "is_closed", {}, {"sales_invoices"}),
                     Statement("single", "invoice_allocations", {}, {})>>
InitBPAddresses == Statement("addresses", "address_id", {"bp_addresses", "address_triggers"},
                             {"business_partners", "sales_invoices"})
InitTax == Statement("gst", "gst_columns", {},
                     {"bp_addresses", "address_id", "sales_invoices", "company_profile"})
InitReferenceRates == Statement("single", "reference_rates", {}, {})
InitPurchaseInvoices ==
    <<Statement("single", "purchase_invoices", {}, {}),
      Statement("payments", "purchase_allocations", {"external_url", "purchase_triggers"},
                {"purchase_invoices", "bank_transactions"})>>
InitPurchaseParties == Statement("single", "purchase_party_cache", {}, {"purchase_invoices"})

TaxFirst == <<InitTax, InitBPAddresses>>
AddressesAndTax == <<InitBPAddresses, InitTax>>

Steps == CreateTables \o <<InitInvoiceDetails, RepairBlankInvoiceNumbers>> \o InitAllocations
    \o AddressesAndTax \o <<InitReferenceRates>> \o InitPurchaseInvoices \o <<InitPurchaseParties>>

Columns == {k \in DOMAIN Steps : Steps[k].kind = "column"}
LastColumn == CHOOSE k \in Columns : \A other \in Columns : other <= k
Objects == UNION {{Steps[k].name} \cup Steps[k].others : k \in DOMAIN Steps}

ASSUME OldAssumption == \A old \in OldDatabases : old \subseteq Objects \ {"gst_columns"}

---------------------------------------------------------------------------
(* A start *)

Now == Steps[step]
Finds(statement) == statement.needs \subseteq schema
\* What exists is kept, and CREATE TABLE adds no columns to it.
Extended(statement) ==
    schema \cup {statement.name} \cup
        (IF statement.kind = "script" /\ statement.name \in schema THEN {} ELSE statement.others)

EachStart == TRUE
Backfills == "address_id" \notin schema

\* The address that an older partner was billed at, and its invoices refer to it.
Backfill ==
    LET a == IF billed THEN First(Addresses) ELSE None
    IN  /\ gstin' = IF "address_id" \in schema THEN gstin ELSE OldAddresses(a)
        /\ invoice' = [i \in Invoices |-> IF Stored(i) THEN [invoice[i] EXCEPT !.address = a]
                                          ELSE None]
        /\ UNCHANGED <<server, hasColumns, profile>>

BeginStart ==
    /\ Start
    /\ step' = 1
    /\ UNCHANGED <<schema, failed, skipped, billed>>

\* An error returns from InitDB, and the process ends; so does a crash.
Exit ==
    /\ server # "stopped" /\ Stop
    /\ step' = 0 /\ failed' = FALSE /\ skipped' = {}
    /\ UNCHANGED <<schema, billed>>

ErrorIsLost == FALSE
ReturnsError == failed

\* After the columns createTables returns the error of its script.
Continue ==
    /\ step' = step + 1
    /\ ~(step = LastColumn /\ ReturnsError)

Execute ==
    /\ step \in DOMAIN Steps /\ Finds(Now)
    /\ Continue
    /\ schema' = Extended(Now)
    /\ CASE Now.kind = "addresses" /\ Backfills -> Backfill
         [] Now.kind = "gst" -> InitGST
         [] OTHER -> UNCHANGED vars
    /\ billed' = (billed /\ Now.kind # "addresses")
    /\ UNCHANGED <<failed, skipped>>

\* The statement is refused, or does not find its table: the script ends there,
\* and the columns are tried all the same.
ScriptFails ==
    /\ step \in DOMAIN Steps /\ Now.kind = "script"
    /\ step' = CHOOSE k \in Columns : \A other \in Columns : k <= other
    /\ failed' = TRUE
    /\ UNCHANGED <<vars, schema, skipped, billed>>

\* The errors of ALTER TABLE are ignored, whatever they say.
ColumnFails ==
    /\ step \in Columns /\ Continue
    /\ skipped' = IF Now.name \in schema THEN skipped ELSE skipped \cup {Now.name}
    /\ UNCHANGED <<vars, schema, failed, billed>>

Finish ==
    /\ step = Len(Steps) + 1
    /\ Serve /\ step' = 0
    /\ UNCHANGED <<schema, failed, skipped, billed>>

---------------------------------------------------------------------------
(* Requests, once InitDB has returned *)

InvoiceColumns == {"contact_id", "due_in_days", "due_date"}

Request ==
    /\ UNCHANGED startVars
    /\ \/ \E text \in Text : SaveCompanyProfile(text) \/ \E a \in Addresses : SaveAddress(a, text)
       \/ /\ InvoiceColumns \subseteq schema
          /\ \E i \in Invoices, a \in Addresses \cup {None}, currency \in Currencies,
                lines \in LineItems :
                CreateSalesInvoice(i, a, currency, lines) \/ UpdateSalesInvoice(i, a, currency, lines)

\* An older release has no columns of initGST. Its invoice has no address before
\* address_id exists, and the one of the backfill after.
StartupInit ==
    /\ server = "stopped" /\ hasColumns = FALSE
    /\ step = 0 /\ failed = FALSE /\ skipped = {}
    /\ schema \in OldDatabases
    /\ profile \in OldProfiles
    /\ \E a \in {None, First(Addresses)} :
          LET versioned == IF "address_id" \in schema THEN a ELSE None
          IN  /\ billed = (a # versioned)
              /\ gstin = OldAddresses(versioned)
              /\ \/ invoice = OldInvoices(None)
                 \/ /\ "sales_invoices" \in schema
                    /\ \E currency \in Currencies, lines \in LineItems \cap Seq(Line) :
                          invoice = OldInvoices(OldInvoice(versioned, currency, lines))

StartupNext ==
    BeginStart \/ Exit \/ Execute \/ ScriptFails \/ ColumnFails \/ Finish \/ Request

StartupSpec == StartupInit /\ [][StartupNext]_<<vars, startVars>>

---------------------------------------------------------------------------
(* Properties *)

\* Whatever older database, crash or refused statement came before, a server that
\* serves has every table, column, trigger and row its requests use, but for the
\* columns whose ALTER was refused in this very start.
SchemaIsComplete ==
    /\ hasColumns <=> "gst_columns" \in schema
    /\ server = "serving" => Objects \ skipped \subseteq schema

\* No statement of a start that runs in its order asks for a table or column that
\* a later one creates: no database is left on which every start fails.
StartsFindTheirTables ==
    step \in DOMAIN Steps /\ ~failed => Finds(Now)

\* The whole start is the one step that GstTax takes: an invoice of an older
\* server is as if it had had its address all along, and once it has an address
\* and a treatment no start decides them again.
BackfilledAddress == IF billed THEN First(Addresses) ELSE None
Tax == INSTANCE GstTax WITH
    gstin <- IF "address_id" \in schema THEN gstin ELSE OldAddresses(BackfilledAddress),
    invoice <- IF "address_id" \in schema THEN invoice
               ELSE [i \in Invoices |-> IF Stored(i)
                                        THEN [invoice[i] EXCEPT !.address = BackfilledAddress]
                                        ELSE None]
ImplementsGstTax == Tax!Spec
=============================================================================
