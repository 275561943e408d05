--------------------------- MODULE StartupProofs ----------------------------
(* Theorems of Startup and GstTax, for any invoices, addresses, older databases *)
(* and amounts.                                                                 *)
EXTENDS Startup, WellFoundedInduction, TLAPS

---------------------------------------------------------------------------
(* The statements of InitDB *)

LEMMA Appended ==
  ASSUME NEW S, NEW s \in Seq(S), NEW t \in Seq(S)
  PROVE  /\ s \o t \in Seq(S) /\ Len(s \o t) = Len(s) + Len(t)
         /\ \A k \in 1 .. Len(s) : (s \o t)[k] = s[k]
         /\ \A k \in 1 .. Len(t) : (s \o t)[Len(s) + k] = t[k]
  OBVIOUS

\* Sequence u is s, of length n, and one element after it.
OneMore(S, s, n, a, u) ==
    /\ u \in Seq(S) /\ Len(u) = n + 1
    /\ \A k \in 1 .. n : u[k] = s[k]
    /\ u[n + 1] = a

LEMMA OneAppended ==
  ASSUME NEW S, NEW s \in Seq(S), NEW n \in Nat, Len(s) = n, NEW a \in S
  PROVE  OneMore(S, s, n, a, s \o <<a>>)
  <1>1. PICK t : t = <<a>>
    OBVIOUS
  <1>2. t \in Seq(S) /\ Len(t) = 1 /\ t[1] = a
    BY <1>1
  <1>3. /\ s \o t \in Seq(S) /\ Len(s \o t) = Len(s) + Len(t)
        /\ \A k \in 1 .. Len(s) : (s \o t)[k] = s[k]
        /\ \A k \in 1 .. Len(t) : (s \o t)[Len(s) + k] = t[k]
    BY <1>2, Appended
  <1>4. PICK u : u = s \o t
    OBVIOUS
  <1>5. /\ u \in Seq(S) /\ Len(u) = n + 1
        /\ \A k \in 1 .. n : u[k] = s[k]
        /\ \A k \in 1 .. 1 : u[n + k] = t[k]
    BY ONLY <1>2, <1>3, <1>4, Len(s) = n
  <1>6. u[n + 1] = a
    BY <1>2, <1>5
  <1> QED
    BY ONLY <1>1, <1>4, <1>5, <1>6 DEF OneMore

\* Sequence u is s, of length n, and two elements after it.
TwoMore(S, s, n, a, b, u) ==
    /\ u \in Seq(S) /\ Len(u) = n + 2
    /\ \A k \in 1 .. n : u[k] = s[k]
    /\ u[n + 1] = a /\ u[n + 2] = b

LEMMA TwoAppended ==
  ASSUME NEW S, NEW s \in Seq(S), NEW n \in Nat, Len(s) = n, NEW a \in S, NEW b \in S
  PROVE  TwoMore(S, s, n, a, b, s \o <<a, b>>)
  <1>1. PICK t : t = <<a, b>>
    OBVIOUS
  <1>2. t \in Seq(S) /\ Len(t) = 2 /\ t[1] = a /\ t[2] = b
    BY <1>1
  <1>3. /\ s \o t \in Seq(S) /\ Len(s \o t) = Len(s) + Len(t)
        /\ \A k \in 1 .. Len(s) : (s \o t)[k] = s[k]
        /\ \A k \in 1 .. Len(t) : (s \o t)[Len(s) + k] = t[k]
    BY <1>2, Appended
  <1>4. PICK u : u = s \o t
    OBVIOUS
  <1>5. /\ u \in Seq(S) /\ Len(u) = n + 2
        /\ \A k \in 1 .. n : u[k] = s[k]
        /\ \A k \in 1 .. 2 : u[n + k] = t[k]
    BY ONLY <1>2, <1>3, <1>4, Len(s) = n
  <1>6. u[n + 1] = a /\ u[n + 2] = b
    BY <1>2, <1>5
  <1> QED
    BY ONLY <1>1, <1>4, <1>5, <1>6 DEF TwoMore

LEMMA StepsAre ==
  /\ DOMAIN Steps = 1 .. 25 /\ Len(Steps) = 25
  /\ Steps[1] = Create("accounts")
  /\ Steps[2] = Create("imports")
  /\ Steps[3] = Create("statement_workbooks")
  /\ Steps[4] = CreateNewer("bank_transactions", {"business_partner_id"})
  /\ Steps[5] = Create("business_partners")
  /\ Steps[6] = Create("business_partner_contacts")
  /\ Steps[7] = Create("invoice_sequences")
  /\ Steps[8] = CreateNewer("sales_invoices", {"contact_id", "due_in_days", "due_date"})
  /\ Steps[9] = Create("sales_invoice_line_items")
  /\ Steps[10] = Create("company_profile")
  /\ Steps[11] = Statement("script", "profile_row", {}, {"company_profile"})
  /\ Steps[12] = AddColumn("business_partner_id", "bank_transactions")
  /\ Steps[13] = AddColumn("contact_id", "sales_invoices")
  /\ Steps[14] = AddColumn("due_in_days", "sales_invoices")
  /\ Steps[15] = AddColumn("due_date", "sales_invoices")
  /\ Steps[16] = InitInvoiceDetails
  /\ Steps[17] = RepairBlankInvoiceNumbers
  /\ Steps[18] = Statement("single", "is_closed", {}, {"sales_invoices"})
  /\ Steps[19] = Statement("single", "invoice_allocations", {}, {})
  /\ Steps[20] = InitBPAddresses
  /\ Steps[21] = InitTax
  /\ Steps[22] = InitReferenceRates
  /\ Steps[23] = Statement("single", "purchase_invoices", {}, {})
  /\ Steps[24] = Statement("payments", "purchase_allocations", {"external_url", "purchase_triggers"},
                           {"purchase_invoices", "bank_transactions"})
  /\ Steps[25] = InitPurchaseParties
  <1> DEFINE Statements == {
                 Create("accounts"),
                 Create("imports"),
                 Create("statement_workbooks"),
                 CreateNewer("bank_transactions", {"business_partner_id"}),
                 Create("business_partners"),
                 Create("business_partner_contacts"),
                 Create("invoice_sequences"),
                 CreateNewer("sales_invoices", {"contact_id", "due_in_days", "due_date"}),
                 Create("sales_invoice_line_items"),
                 Create("company_profile"),
                 Statement("script", "profile_row", {}, {"company_profile"}),
                 AddColumn("business_partner_id", "bank_transactions"),
                 AddColumn("contact_id", "sales_invoices"),
                 AddColumn("due_in_days", "sales_invoices"),
                 AddColumn("due_date", "sales_invoices"),
                 InitInvoiceDetails,
                 RepairBlankInvoiceNumbers,
                 Statement("single", "is_closed", {}, {"sales_invoices"}),
                 Statement("single", "invoice_allocations", {}, {}),
                 InitBPAddresses,
                 InitTax,
                 InitReferenceRates,
                 Statement("single", "purchase_invoices", {}, {}),
                 Statement("payments", "purchase_allocations", {"external_url", "purchase_triggers"},
                           {"purchase_invoices", "bank_transactions"}),
                 InitPurchaseParties}
             s1 == CreateTables
             s2 == s1 \o <<InitInvoiceDetails, RepairBlankInvoiceNumbers>>
             s3 == s2 \o InitAllocations
             s4 == s3 \o AddressesAndTax
             s5 == s4 \o <<InitReferenceRates>>
             s6 == s5 \o InitPurchaseInvoices
             s7 == s6 \o <<InitPurchaseParties>>
  <1>1. /\ s1 \in Seq(Statements) /\ Len(s1) = 15
        /\ s1[1] = Create("accounts")
        /\ s1[2] = Create("imports")
        /\ s1[3] = Create("statement_workbooks")
        /\ s1[4] = CreateNewer("bank_transactions", {"business_partner_id"})
        /\ s1[5] = Create("business_partners")
        /\ s1[6] = Create("business_partner_contacts")
        /\ s1[7] = Create("invoice_sequences")
        /\ s1[8] = CreateNewer("sales_invoices", {"contact_id", "due_in_days", "due_date"})
        /\ s1[9] = Create("sales_invoice_line_items")
        /\ s1[10] = Create("company_profile")
        /\ s1[11] = Statement("script", "profile_row", {}, {"company_profile"})
        /\ s1[12] = AddColumn("business_partner_id", "bank_transactions")
        /\ s1[13] = AddColumn("contact_id", "sales_invoices")
        /\ s1[14] = AddColumn("due_in_days", "sales_invoices")
        /\ s1[15] = AddColumn("due_date", "sales_invoices")
    BY DEF CreateTables
  <1>2. /\ s2 \in Seq(Statements) /\ Len(s2) = 17
        /\ \A k \in 1 .. 15 : s2[k] = s1[k]
        /\ s2[16] = InitInvoiceDetails
        /\ s2[17] = RepairBlankInvoiceNumbers
    <2>1. PICK a \in Statements, b \in Statements : /\ a = InitInvoiceDetails
                                                  /\ b = RepairBlankInvoiceNumbers
      OBVIOUS
    <2>2. s2 = s1 \o <<a, b>>
      BY <2>1
    <2> HIDE DEF Statements, s1, s2
    <2>3. PICK n \in Nat : n = 15
      OBVIOUS
    <2>4. s1 \in Seq(Statements) /\ Len(s1) = n
      BY <1>1, <2>3
    <2>5. TwoMore(Statements, s1, n, a, b, s2)
      BY <2>2, <2>4, TwoAppended, Zenon
    <2>6. /\ s2 \in Seq(Statements) /\ Len(s2) = 17 /\ \A k \in 1 .. 15 : s2[k] = s1[k]
          /\ s2[16] = a /\ s2[17] = b
      BY <2>3, <2>5 DEF TwoMore
    <2> QED
      BY <2>1, <2>6
  <1>3. /\ s3 \in Seq(Statements) /\ Len(s3) = 19
        /\ \A k \in 1 .. 17 : s3[k] = s2[k]
        /\ s3[18] = Statement("single", "is_closed", {}, {"sales_invoices"})
        /\ s3[19] = Statement("single", "invoice_allocations", {}, {})
    <2>1. PICK a \in Statements, b \in Statements :
          /\ a = Statement("single", "is_closed", {}, {"sales_invoices"})
          /\ b = Statement("single", "invoice_allocations", {}, {})
      OBVIOUS
    <2>2. s3 = s2 \o <<a, b>>
      BY <2>1 DEF InitAllocations
    <2> HIDE DEF Statements, s2, s3
    <2>3. PICK n \in Nat : n = 17
      OBVIOUS
    <2>4. s2 \in Seq(Statements) /\ Len(s2) = n
      BY <1>2, <2>3
    <2>5. TwoMore(Statements, s2, n, a, b, s3)
      BY <2>2, <2>4, TwoAppended, Zenon
    <2>6. /\ s3 \in Seq(Statements) /\ Len(s3) = 19 /\ \A k \in 1 .. 17 : s3[k] = s2[k]
          /\ s3[18] = a /\ s3[19] = b
      BY <2>3, <2>5 DEF TwoMore
    <2> QED
      BY <2>1, <2>6
  <1>4. /\ s4 \in Seq(Statements) /\ Len(s4) = 21
        /\ \A k \in 1 .. 19 : s4[k] = s3[k]
        /\ s4[20] = InitBPAddresses
        /\ s4[21] = InitTax
    <2>1. PICK a \in Statements, b \in Statements : /\ a = InitBPAddresses
                                                  /\ b = InitTax
      OBVIOUS
    <2>2. s4 = s3 \o <<a, b>>
      BY <2>1 DEF AddressesAndTax
    <2> HIDE DEF Statements, s3, s4
    <2>3. PICK n \in Nat : n = 19
      OBVIOUS
    <2>4. s3 \in Seq(Statements) /\ Len(s3) = n
      BY <1>3, <2>3
    <2>5. TwoMore(Statements, s3, n, a, b, s4)
      BY <2>2, <2>4, TwoAppended, Zenon
    <2>6. /\ s4 \in Seq(Statements) /\ Len(s4) = 21 /\ \A k \in 1 .. 19 : s4[k] = s3[k]
          /\ s4[20] = a /\ s4[21] = b
      BY <2>3, <2>5 DEF TwoMore
    <2> QED
      BY <2>1, <2>6
  <1>5. /\ s5 \in Seq(Statements) /\ Len(s5) = 22
        /\ \A k \in 1 .. 21 : s5[k] = s4[k]
        /\ s5[22] = InitReferenceRates
    <2>1. PICK a \in Statements : a = InitReferenceRates
      OBVIOUS
    <2>2. s5 = s4 \o <<a>>
      BY <2>1
    <2> HIDE DEF Statements, s4, s5
    <2>3. PICK n \in Nat : n = 21
      OBVIOUS
    <2>4. s4 \in Seq(Statements) /\ Len(s4) = n
      BY <1>4, <2>3
    <2>5. OneMore(Statements, s4, n, a, s5)
      BY <2>2, <2>4, OneAppended, Zenon
    <2>6. /\ s5 \in Seq(Statements) /\ Len(s5) = 22 /\ \A k \in 1 .. 21 : s5[k] = s4[k]
          /\ s5[22] = a
      BY <2>3, <2>5 DEF OneMore
    <2> QED
      BY <2>1, <2>6
  <1>6. /\ s6 \in Seq(Statements) /\ Len(s6) = 24
        /\ \A k \in 1 .. 22 : s6[k] = s5[k]
        /\ s6[23] = Statement("single", "purchase_invoices", {}, {})
        /\ s6[24] = Statement("payments", "purchase_allocations", {"external_url", "purchase_triggers"},
                              {"purchase_invoices", "bank_transactions"})
    <2>1. PICK a \in Statements, b \in Statements :
          /\ a = Statement("single", "purchase_invoices", {}, {})
          /\ b = Statement("payments", "purchase_allocations", {"external_url", "purchase_triggers"},
                           {"purchase_invoices", "bank_transactions"})
      OBVIOUS
    <2>2. s6 = s5 \o <<a, b>>
      BY <2>1 DEF InitPurchaseInvoices
    <2> HIDE DEF Statements, s5, s6
    <2>3. PICK n \in Nat : n = 22
      OBVIOUS
    <2>4. s5 \in Seq(Statements) /\ Len(s5) = n
      BY <1>5, <2>3
    <2>5. TwoMore(Statements, s5, n, a, b, s6)
      BY <2>2, <2>4, TwoAppended, Zenon
    <2>6. /\ s6 \in Seq(Statements) /\ Len(s6) = 24 /\ \A k \in 1 .. 22 : s6[k] = s5[k]
          /\ s6[23] = a /\ s6[24] = b
      BY <2>3, <2>5 DEF TwoMore
    <2> QED
      BY <2>1, <2>6
  <1>7. /\ s7 \in Seq(Statements) /\ Len(s7) = 25
        /\ \A k \in 1 .. 24 : s7[k] = s6[k]
        /\ s7[25] = InitPurchaseParties
    <2>1. PICK a \in Statements : a = InitPurchaseParties
      OBVIOUS
    <2>2. s7 = s6 \o <<a>>
      BY <2>1
    <2> HIDE DEF Statements, s6, s7
    <2>3. PICK n \in Nat : n = 24
      OBVIOUS
    <2>4. s6 \in Seq(Statements) /\ Len(s6) = n
      BY <1>6, <2>3
    <2>5. OneMore(Statements, s6, n, a, s7)
      BY <2>2, <2>4, OneAppended, Zenon
    <2>6. /\ s7 \in Seq(Statements) /\ Len(s7) = 25 /\ \A k \in 1 .. 24 : s7[k] = s6[k]
          /\ s7[25] = a
      BY <2>3, <2>5 DEF OneMore
    <2> QED
      BY <2>1, <2>6
  <1>8. Steps = s7
    BY DEF Steps
  <1> HIDE DEF Statements, s1, s2, s3, s4, s5, s6, s7
  <1>9. \A k \in 1 .. 22 : s7[k] = s5[k]
    <2>1. \A k \in 1 .. 24 : s7[k] = s6[k]
      BY <1>7
    <2>2. \A k \in 1 .. 22 : s6[k] = s5[k]
      BY <1>6
    <2> QED
      BY ONLY <2>1, <2>2
  <1>10. \A k \in 1 .. 19 : s7[k] = s3[k]
    <2>1. \A k \in 1 .. 21 : s5[k] = s4[k]
      BY <1>5
    <2>2. \A k \in 1 .. 19 : s4[k] = s3[k]
      BY <1>4
    <2> QED
      BY ONLY <1>9, <2>1, <2>2
  <1>11. \A k \in 1 .. 15 : s7[k] = s1[k]
    <2>1. \A k \in 1 .. 17 : s3[k] = s2[k]
      BY <1>3
    <2>2. \A k \in 1 .. 15 : s2[k] = s1[k]
      BY <1>2
    <2> QED
      BY ONLY <1>10, <2>1, <2>2
  <1>12. DOMAIN Steps = 1 .. 25 /\ Len(Steps) = 25
    BY <1>7, <1>8
  <1>13. s7[23] = s6[23] /\ s7[24] = s6[24]
    BY <1>7
  <1>14. /\ s7[1] = s1[1]
         /\ s7[2] = s1[2]
         /\ s7[3] = s1[3]
         /\ s7[4] = s1[4]
         /\ s7[5] = s1[5]
         /\ s7[6] = s1[6]
         /\ s7[7] = s1[7]
         /\ s7[8] = s1[8]
         /\ s7[9] = s1[9]
         /\ s7[10] = s1[10]
         /\ s7[11] = s1[11]
         /\ s7[12] = s1[12]
         /\ s7[13] = s1[13]
         /\ s7[14] = s1[14]
         /\ s7[15] = s1[15]
    BY ONLY <1>11
  <1>15. /\ Steps[1] = Create("accounts")
         /\ Steps[2] = Create("imports")
         /\ Steps[3] = Create("statement_workbooks")
         /\ Steps[4] = CreateNewer("bank_transactions", {"business_partner_id"})
         /\ Steps[5] = Create("business_partners")
         /\ Steps[6] = Create("business_partner_contacts")
         /\ Steps[7] = Create("invoice_sequences")
         /\ Steps[8] = CreateNewer("sales_invoices", {"contact_id", "due_in_days", "due_date"})
    BY <1>1, <1>8, <1>14
  <1>16. /\ Steps[9] = Create("sales_invoice_line_items")
         /\ Steps[10] = Create("company_profile")
         /\ Steps[11] = Statement("script", "profile_row", {}, {"company_profile"})
         /\ Steps[12] = AddColumn("business_partner_id", "bank_transactions")
         /\ Steps[13] = AddColumn("contact_id", "sales_invoices")
         /\ Steps[14] = AddColumn("due_in_days", "sales_invoices")
         /\ Steps[15] = AddColumn("due_date", "sales_invoices")
    BY <1>1, <1>8, <1>14
  <1>17. /\ Steps[16] = InitInvoiceDetails
         /\ Steps[17] = RepairBlankInvoiceNumbers
    BY <1>2, <1>3, <1>8, <1>10
  <1>18. /\ Steps[18] = Statement("single", "is_closed", {}, {"sales_invoices"})
         /\ Steps[19] = Statement("single", "invoice_allocations", {}, {})
    BY <1>3, <1>8, <1>10
  <1>19. /\ Steps[20] = InitBPAddresses
         /\ Steps[21] = InitTax
    BY <1>4, <1>5, <1>8, <1>9
  <1>20. /\ Steps[22] = InitReferenceRates
    BY <1>5, <1>8, <1>9
  <1>21. /\ Steps[23] = Statement("single", "purchase_invoices", {}, {})
         /\ Steps[24] = Statement("payments", "purchase_allocations", {"external_url", "purchase_triggers"},
                                  {"purchase_invoices", "bank_transactions"})
    BY <1>13, <1>6, <1>8
  <1>22. /\ Steps[25] = InitPurchaseParties
    BY <1>7, <1>8
  <1> QED
    BY <1>12, <1>15, <1>16, <1>17, <1>18, <1>19, <1>20, <1>21, <1>22

Is(statement, kind, name, others, needs) ==
    /\ statement.kind = kind /\ statement.name = name
    /\ statement.others = others /\ statement.needs = needs

LEMMA StatementIs ==
  \A kind, name, others, needs : Is(Statement(kind, name, others, needs), kind, name, others, needs)
  BY DEF Is, Statement

\* What each of them is, creates and needs.
LEMMA Fields ==
  /\ Is(Steps[1], "script", "accounts", {}, {})
  /\ Is(Steps[2], "script", "imports", {}, {})
  /\ Is(Steps[3], "script", "statement_workbooks", {}, {})
  /\ Is(Steps[4], "script", "bank_transactions", {"business_partner_id"}, {})
  /\ Is(Steps[5], "script", "business_partners", {}, {})
  /\ Is(Steps[6], "script", "business_partner_contacts", {}, {})
  /\ Is(Steps[7], "script", "invoice_sequences", {}, {})
  /\ Is(Steps[8], "script", "sales_invoices", {"contact_id", "due_in_days", "due_date"}, {})
  /\ Is(Steps[9], "script", "sales_invoice_line_items", {}, {})
  /\ Is(Steps[10], "script", "company_profile", {}, {})
  /\ Is(Steps[11], "script", "profile_row", {}, {"company_profile"})
  /\ Is(Steps[12], "column", "business_partner_id", {}, {"bank_transactions"})
  /\ Is(Steps[13], "column", "contact_id", {}, {"sales_invoices"})
  /\ Is(Steps[14], "column", "due_in_days", {}, {"sales_invoices"})
  /\ Is(Steps[15], "column", "due_date", {}, {"sales_invoices"})
  /\ Is(Steps[16], "details", "invoice_details", {}, {"sales_invoices"})
  /\ Is(Steps[17], "repair", "number_triggers", {}, {"sales_invoices", "invoice_sequences"})
  /\ Is(Steps[18], "single", "is_closed", {}, {"sales_invoices"})
  /\ Is(Steps[19], "single", "invoice_allocations", {}, {})
  /\ Is(Steps[20], "addresses", "address_id", {"bp_addresses", "address_triggers"},
        {"business_partners", "sales_invoices"})
  /\ Is(Steps[21], "gst", "gst_columns", {},
        {"bp_addresses", "address_id", "sales_invoices", "company_profile"})
  /\ Is(Steps[22], "single", "reference_rates", {}, {})
  /\ Is(Steps[23], "single", "purchase_invoices", {}, {})
  /\ Is(Steps[24], "payments", "purchase_allocations", {"external_url", "purchase_triggers"},
        {"purchase_invoices", "bank_transactions"})
  /\ Is(Steps[25], "single", "purchase_party_cache", {}, {"purchase_invoices"})
  <1>1. \A table : Is(Create(table), "script", table, {}, {})
    BY StatementIs DEF Create
  <1>2. \A table, columns : Is(CreateNewer(table, columns), "script", table, columns, {})
    BY StatementIs DEF CreateNewer
  <1>3. \A column, table : Is(AddColumn(column, table), "column", column, {}, {table})
    BY StatementIs DEF AddColumn
  <1> QED
    BY StepsAre, StatementIs, <1>1, <1>2, <1>3
       DEF InitInvoiceDetails, RepairBlankInvoiceNumbers, InitBPAddresses, InitTax,
           InitReferenceRates, InitPurchaseParties

ColumnNames == {Steps[12].name, Steps[13].name, Steps[14].name, Steps[15].name}

\* A column may be refused, and a table that exists gets no columns.
CreatedBefore(name, k) ==
    \E j \in 1 .. 25 : /\ j < k /\ j \notin 12 .. 15
                       /\ name = Steps[j].name \/ (j > 11 /\ name \in Steps[j].others)

\* The kind of the statement at k, what it creates, and which statement before it
\* creates what it needs.
Row(k) ==
    LET statement == Steps[k]
    IN  /\ statement.kind = "script" <=> k <= 11
        /\ statement.kind = "column" <=> k \in 12 .. 15
        /\ statement.kind = "addresses" <=> k = 20
        /\ statement.kind = "gst" <=> k = 21
        /\ statement.name = "address_id" <=> k = 20
        /\ statement.name = "gst_columns" <=> k = 21
        /\ "address_id" \notin statement.others /\ "gst_columns" \notin statement.others
        /\ k = 21 => "address_id" \in statement.needs
        /\ k <= 11 => statement.others \subseteq ColumnNames
        /\ \A name \in statement.needs : CreatedBefore(name, k)

Precedes(j, k) == j \in 1 .. 25 /\ j < k /\ j \notin 12 .. 15

LEMMA NamesAreCreated ==
  /\ \A j, k : Precedes(j, k) => CreatedBefore(Steps[j].name, k)
  /\ \A j, k : Precedes(j, k) /\ j > 11 => \A name \in Steps[j].others : CreatedBefore(name, k)
  BY DEF CreatedBefore, Precedes

LEMMA Rows == \A k \in 1 .. 25 : Row(k)
  <1>1. Row(1)
    BY Fields DEF Row, Is, ColumnNames
  <1>2. Row(2)
    BY Fields DEF Row, Is, ColumnNames
  <1>3. Row(3)
    BY Fields DEF Row, Is, ColumnNames
  <1>4. Row(4)
    BY Fields DEF Row, Is, ColumnNames
  <1>5. Row(5)
    BY Fields DEF Row, Is, ColumnNames
  <1>6. Row(6)
    BY Fields DEF Row, Is, ColumnNames
  <1>7. Row(7)
    BY Fields DEF Row, Is, ColumnNames
  <1>8. Row(8)
    BY Fields DEF Row, Is, ColumnNames
  <1>9. Row(9)
    BY Fields DEF Row, Is, ColumnNames
  <1>10. Row(10)
    BY Fields DEF Row, Is, ColumnNames
  <1>11. Row(11)
    <2>1. Precedes(10, 11)
      BY DEF Precedes
    <2>2. CreatedBefore(Steps[10].name, 11)
      BY <2>1, NamesAreCreated, Zenon
    <2> QED
      BY <2>2, Fields DEF Row, Is
  <1>12. Row(12)
    <2>1. Precedes(4, 12)
      BY DEF Precedes
    <2>2. CreatedBefore(Steps[4].name, 12)
      BY <2>1, NamesAreCreated, Zenon
    <2> QED
      BY <2>2, Fields DEF Row, Is
  <1>13. Row(13)
    <2>1. Precedes(8, 13)
      BY DEF Precedes
    <2>2. CreatedBefore(Steps[8].name, 13)
      BY <2>1, NamesAreCreated, Zenon
    <2> QED
      BY <2>2, Fields DEF Row, Is
  <1>14. Row(14)
    <2>1. Precedes(8, 14)
      BY DEF Precedes
    <2>2. CreatedBefore(Steps[8].name, 14)
      BY <2>1, NamesAreCreated, Zenon
    <2> QED
      BY <2>2, Fields DEF Row, Is
  <1>15. Row(15)
    <2>1. Precedes(8, 15)
      BY DEF Precedes
    <2>2. CreatedBefore(Steps[8].name, 15)
      BY <2>1, NamesAreCreated, Zenon
    <2> QED
      BY <2>2, Fields DEF Row, Is
  <1>16. Row(16)
    <2>1. Precedes(8, 16)
      BY DEF Precedes
    <2>2. CreatedBefore(Steps[8].name, 16)
      BY <2>1, NamesAreCreated, Zenon
    <2> QED
      BY <2>2, Fields DEF Row, Is
  <1>17. Row(17)
    <2>1. Precedes(8, 17) /\ Precedes(7, 17)
      BY DEF Precedes
    <2>2. /\ CreatedBefore(Steps[8].name, 17)
          /\ CreatedBefore(Steps[7].name, 17)
      BY <2>1, NamesAreCreated, Zenon
    <2> QED
      BY <2>2, Fields DEF Row, Is
  <1>18. Row(18)
    <2>1. Precedes(8, 18)
      BY DEF Precedes
    <2>2. CreatedBefore(Steps[8].name, 18)
      BY <2>1, NamesAreCreated, Zenon
    <2> QED
      BY <2>2, Fields DEF Row, Is
  <1>19. Row(19)
    BY Fields DEF Row, Is, ColumnNames
  <1>20. Row(20)
    <2>1. Precedes(5, 20) /\ Precedes(8, 20)
      BY DEF Precedes
    <2>2. /\ CreatedBefore(Steps[5].name, 20)
          /\ CreatedBefore(Steps[8].name, 20)
      BY <2>1, NamesAreCreated, Zenon
    <2> QED
      BY <2>2, Fields DEF Row, Is
  <1>21. Row(21)
    <2>1. Precedes(20, 21) /\ Precedes(8, 21) /\ Precedes(10, 21) /\ 20 > 11
      BY DEF Precedes
    <2>2. /\ \A name \in Steps[20].others : CreatedBefore(name, 21)
          /\ CreatedBefore(Steps[20].name, 21)
          /\ CreatedBefore(Steps[8].name, 21)
          /\ CreatedBefore(Steps[10].name, 21)
      BY <2>1, NamesAreCreated, Zenon
    <2> QED
      BY <2>2, Fields DEF Row, Is
  <1>22. Row(22)
    BY Fields DEF Row, Is, ColumnNames
  <1>23. Row(23)
    BY Fields DEF Row, Is, ColumnNames
  <1>24. Row(24)
    <2>1. Precedes(23, 24) /\ Precedes(4, 24)
      BY DEF Precedes
    <2>2. /\ CreatedBefore(Steps[23].name, 24)
          /\ CreatedBefore(Steps[4].name, 24)
      BY <2>1, NamesAreCreated, Zenon
    <2> QED
      BY <2>2, Fields DEF Row, Is
  <1>25. Row(25)
    <2>1. Precedes(23, 25)
      BY DEF Precedes
    <2>2. CreatedBefore(Steps[23].name, 25)
      BY <2>1, NamesAreCreated, Zenon
    <2> QED
      BY <2>2, Fields DEF Row, Is
  <1> QED
    BY <1>1, <1>2, <1>3, <1>4, <1>5, <1>6, <1>7, <1>8, <1>9, <1>10, <1>11, <1>12, <1>13, <1>14,
       <1>15, <1>16, <1>17, <1>18, <1>19, <1>20, <1>21, <1>22, <1>23, <1>24, <1>25

LEMMA ColumnsAre ==
  /\ Columns = 12 .. 15 /\ LastColumn = 15
  /\ (CHOOSE k \in Columns : \A other \in Columns : k <= other) = 12
  <1>1. Columns = 12 .. 15
    <2>1. \A k \in 1 .. 25 : Steps[k].kind = "column" <=> k \in 12 .. 15
      BY Rows DEF Row
    <2>2. DOMAIN Steps = 1 .. 25
      BY StepsAre
    <2> QED
      BY ONLY <2>1, <2>2 DEF Columns
  <1>2. LastColumn = 15
    BY ONLY <1>1 DEF LastColumn
  <1>3. (CHOOSE k \in Columns : \A other \in Columns : k <= other) = 12
    BY ONLY <1>1
  <1> QED
    BY <1>1, <1>2, <1>3

---------------------------------------------------------------------------
(* Amounts *)

LEMMA LeastNumber ==
  ASSUME NEW S \in SUBSET Nat, S # {}
  PROVE  First(S) \in S /\ \A k \in S : First(S) <= k
  <1> DEFINE less == {pair \in Nat \X Nat : pair[1] < pair[2]}
  <1>1. IsWellFoundedOn(less, Nat)
    BY NatLessThanWellFounded, Zenon DEF OpToRel
  <1> HIDE DEF less
  <1>2. PICK m \in S : \A k \in S : <<k, m>> \notin less
    BY <1>1, WFMin, Zenon
  <1>3. \A k \in S : m <= k
    <2>1. \A k \in S : ~(k < m)
      BY <1>2 DEF less
    <2> QED
      BY ONLY <2>1, S \in SUBSET Nat, m \in S
  <1> QED
    BY <1>3 DEF First

\* A function that adds terms up one by one.
Sums(sum, term, last) ==
    sum = [n \in 0 .. last |-> IF n = 0 THEN 0 ELSE sum[n - 1] + term[n]]

LEMMA SumsExist ==
  ASSUME NEW last \in Nat, NEW term \in [1 .. last -> Int]
  PROVE  \E sum : Sums(sum, term, last)
  <1> DEFINE Short == {n \in 0 .. last : ~ \E sum : Sums(sum, term, n)}
  <1> SUFFICES ASSUME Short # {} PROVE FALSE
    <2>1. last \in 0 .. last
      OBVIOUS
    <2> QED
      BY <2>1, Zenon
  <1>1. PICK n \in Short : \A other \in Short : n <= other
    <2>1. Short \in SUBSET Nat
      OBVIOUS
    <2> HIDE DEF Short
    <2> QED
      BY <2>1, LeastNumber
  <1>2. n \in 0 .. last /\ ~ \E sum : Sums(sum, term, n)
    BY <1>1
  <1>3. n # 0
    <2>1. Sums([k \in 0 .. 0 |-> 0], term, 0)
      BY DEF Sums
    <2> QED
      BY <1>2, <2>1, Zenon
  <1>4. n - 1 \in 0 .. last /\ n - 1 \notin Short
    BY <1>1, <1>2, <1>3
  <1>5. PICK sum : Sums(sum, term, n - 1)
    BY <1>4
  <1>6. PICK more : more = [k \in 0 .. n |-> IF k = n THEN sum[n - 1] + term[n] ELSE sum[k]]
    OBVIOUS
  <1>7. \A k \in 0 .. n : more[k] = IF k = 0 THEN 0 ELSE more[k - 1] + term[k]
    BY <1>2, <1>3, <1>5, <1>6 DEF Sums
  <1>8. Sums(more, term, n)
    BY <1>2, <1>6, <1>7 DEF Sums
  <1> QED
    BY <1>2, <1>8, Zenon

LEMMA SumsAreIntegers ==
  ASSUME NEW last \in Nat, NEW term \in [1 .. last -> Int], NEW sum, Sums(sum, term, last)
  PROVE  \A n \in 0 .. last : sum[n] \in Int
  <1> DEFINE Others == {n \in 0 .. last : sum[n] \notin Int}
  <1> SUFFICES ASSUME Others # {} PROVE FALSE
    OBVIOUS
  <1>1. PICK n \in Others : \A other \in Others : n <= other
    <2>1. Others \in SUBSET Nat
      OBVIOUS
    <2> HIDE DEF Others
    <2> QED
      BY <2>1, LeastNumber
  <1>2. n \in 0 .. last /\ sum[n] \notin Int
    BY <1>1
  <1>3. n # 0
    BY <1>2 DEF Sums
  <1>4. n - 1 \in 0 .. last /\ n - 1 \notin Others
    BY <1>1, <1>2, <1>3
  <1>5. sum[n - 1] \in Int
    BY <1>4
  <1>6. sum[n] = sum[n - 1] + term[n] /\ term[n] \in Int
    BY <1>2, <1>3 DEF Sums
  <1> QED
    BY <1>2, <1>5, <1>6

\* The tax of lines is a number.
LEMMA ExactTaxIsInt ==
  ASSUME NEW lines \in Seq(Line)
  PROVE  ExactTax(lines) \in Int
  <1>1. PICK last \in Nat : last = Len(lines)
    OBVIOUS
  <1>2. PICK term : term = [n \in 1 .. last |-> lines[n].amount * lines[n].percent]
    OBVIOUS
  <1>3. term \in [1 .. last -> Int]
    <2>1. \A n \in 1 .. last : lines[n] \in Line
      BY <1>1
    <2>2. \A line \in Line : line.amount \in Int /\ line.percent \in Int
      <3> TAKE line \in Line
      <3>1. line.amount \in Int
        BY DEF Line
      <3>2. line.percent \in 0 .. 100
        BY DEF Line
      <3>3. \A n \in 0 .. 100 : n \in Int
        OBVIOUS
      <3> QED
        BY <3>1, <3>2, <3>3, Zenon
    <2>3. \A n \in 1 .. last : lines[n].amount * lines[n].percent \in Int
      BY <2>1, <2>2
    <2> QED
      BY <1>2, <2>3
  <1>4. PICK sum : /\ sum = CHOOSE f : f = [n \in 0 .. Len(lines) |->
                              IF n = 0 THEN 0 ELSE f[n - 1] + lines[n].amount * lines[n].percent]
                   /\ ExactTax(lines) = sum[Len(lines)]
    BY Zenon DEF ExactTax
  <1>5. \A f : Sums(f, term, last) <=> f = [n \in 0 .. Len(lines) |->
                              IF n = 0 THEN 0 ELSE f[n - 1] + lines[n].amount * lines[n].percent]
    <2> TAKE f
    <2>1. \A n \in 0 .. last :
             n # 0 => f[n - 1] + term[n] = f[n - 1] + lines[n].amount * lines[n].percent
      BY <1>2
    <2>2. [n \in 0 .. last |-> IF n = 0 THEN 0 ELSE f[n - 1] + term[n]]
          = [n \in 0 .. last |-> IF n = 0 THEN 0 ELSE f[n - 1] + lines[n].amount * lines[n].percent]
      BY <2>1
    <2> QED
      BY <1>1, <2>2, Zenon DEF Sums
  <1>6. \E f : Sums(f, term, last)
    BY <1>3, SumsExist
  <1>7. Sums(sum, term, last)
    BY <1>4, <1>5, <1>6, Zenon
  <1>8. sum[last] \in Int
    BY <1>3, <1>7, SumsAreIntegers
  <1> QED
    BY <1>1, <1>4, <1>8

LEMMA RoundedIsClose ==
  ASSUME NEW n \in Int
  PROVE  /\ Rounded(n, 100) \in Int /\ 2 * (100 * Rounded(n, 100) - n) \in -100 .. 100
         /\ Rounded(n, 2) \in Int /\ 2 * Rounded(n, 2) - n \in -1 .. 1
  BY DEF Rounded

\* The tax of an invoice is split once.
LEMMA EveryTaxIsSplitOnce ==
  ASSUME NEW inv \in Invoice
  PROVE  TaxIsSplitOnce(inv)
  <1>1. inv.lines \in Seq(Line)
    BY DEF Invoice
  <1>2. PICK exact \in Int : exact = ExactTax(inv.lines)
    BY <1>1, ExactTaxIsInt
  <1>3. PICK total, half : total = Rounded(exact, 100) /\ half = Rounded(total, 2)
    OBVIOUS
  <1>4. total \in Int /\ 2 * (100 * total - exact) \in -100 .. 100
    BY <1>2, <1>3, RoundedIsClose
  <1>5. half \in Int /\ 2 * half - total \in -1 .. 1 /\ Rounded(0, 2) = 0
    BY <1>3, <1>4, RoundedIsClose DEF Rounded
  <1>6. \A l \in DOMAIN inv.lines : inv.lines[l].percent \in Int
    <2>1. \A l \in DOMAIN inv.lines : inv.lines[l] \in Line
      BY <1>1
    <2>2. \A line \in Line : line.percent \in Int
      BY DEF Line
    <2> QED
      BY <2>1, <2>2
  <1>7. PICK tax : tax = PopulateInvoiceGST(inv)
    OBVIOUS
  <1>8. /\ tax.gst = IF inv.currency = "INR" THEN total ELSE 0
        /\ tax.cgst = IF inv.currency = "INR" /\ inv.treatment # "interstate" THEN half ELSE 0
        /\ tax.sgst = IF inv.currency = "INR" /\ inv.treatment # "interstate" THEN total - half ELSE 0
        /\ tax.igst = IF inv.treatment = "interstate" THEN tax.gst ELSE 0
    BY <1>2, <1>3, <1>7 DEF PopulateInvoiceGST, SgstAmount
  <1>9. \A l \in DOMAIN inv.lines : inv.currency = "INR" =>
           /\ tax.cgstPercent[l] = IF inv.treatment = "interstate" THEN 0 ELSE 1 * inv.lines[l].percent
           /\ tax.sgstPercent[l] = IF inv.treatment = "interstate" THEN 0 ELSE 1 * inv.lines[l].percent
           /\ tax.igstPercent[l] = IF inv.treatment = "interstate" THEN 2 * inv.lines[l].percent ELSE 0
    BY <1>7 DEF PopulateInvoiceGST
  <1>10. /\ tax.cgst + tax.sgst + tax.igst = tax.gst
         /\ tax.igst = 0 \/ (tax.cgst = 0 /\ tax.sgst = 0)
         /\ tax.cgst - tax.sgst \in -1 .. 1
         /\ inv.currency = "INR" => 2 * (100 * tax.gst - exact) \in -100 .. 100
         /\ inv.currency # "INR" => tax.gst = 0
    BY <1>2, <1>4, <1>5, <1>8
  <1>11. \A l \in DOMAIN inv.lines : inv.currency = "INR" =>
            tax.cgstPercent[l] + tax.sgstPercent[l] + tax.igstPercent[l] = 2 * inv.lines[l].percent
    BY <1>6, <1>9
  <1> QED
    BY <1>2, <1>7, <1>10, <1>11 DEF TaxIsSplitOnce

---------------------------------------------------------------------------
(* What a start has done *)

\* What the statements before the next one created is there, but for the columns
\* that were refused; a script that was cut short ends with the columns.
Made(k) ==
    /\ Steps[k].name \in schema \cup skipped
    /\ k \notin 12 .. 15 => Steps[k].name \in schema
    /\ k > 11 => Steps[k].others \subseteq schema

StartInv ==
    /\ step \in 0 .. 26
    /\ failed => step \in 12 .. 15
    /\ step # 0 <=> server = "starting"
    /\ step # 0 /\ ~failed => \A k \in 1 .. 25 : k < step => Made(k)
    /\ server = "serving" => Objects \ skipped \subseteq schema

\* What the statements themselves say, at a step of the start.
LEMMA StatementsOf ==
  ASSUME NEW k \in DOMAIN Steps
  PROVE  k \in 1 .. 25 /\ Row(k)
  BY StepsAre, Rows

LEMMA RequestKeepsTheStart ==
  ASSUME Request
  PROVE  UNCHANGED startVars /\ server = "serving" /\ server' = server /\ hasColumns' = hasColumns
  BY DEF Request, SaveCompanyProfile, SaveAddress, CreateSalesInvoice, UpdateSalesInvoice, Save

LEMMA ExecuteIs ==
  ASSUME Execute
  PROVE  /\ step \in 1 .. 25 /\ Steps[step].needs \subseteq schema
         /\ step' = step + 1 /\ ~(step = 15 /\ failed)
         /\ schema' = Extended(Steps[step])
         /\ step = 20 /\ Backfills => Backfill
         /\ step = 21 => InitGST
         /\ (step # 20 \/ ~Backfills) /\ step # 21 => UNCHANGED vars
         /\ server' = server /\ profile' = profile
         /\ billed' = (billed /\ step # 20)
         /\ failed' = failed /\ skipped' = skipped
  <1>1. step \in DOMAIN Steps /\ Finds(Now) /\ Continue /\ failed' = failed /\ skipped' = skipped
    BY DEF Execute
  <1>2. step \in 1 .. 25 /\ Row(step)
    BY <1>1, StatementsOf
  <1>3. /\ Now.kind = "addresses" <=> step = 20
        /\ Now.kind = "gst" <=> step = 21
    BY <1>2 DEF Now, Row
  <1>4. schema' = Extended(Steps[step]) /\ billed' = (billed /\ step # 20)
    BY <1>3 DEF Execute, Now
  <1>5. /\ step = 20 /\ Backfills => Backfill
        /\ step = 21 => InitGST
        /\ (step # 20 \/ ~Backfills) /\ step # 21 => UNCHANGED vars
    BY <1>3 DEF Execute
  <1>6. server' = server /\ profile' = profile
    BY <1>5 DEF Backfill, InitGST, vars
  <1>7. step' = step + 1 /\ ~(step = 15 /\ failed)
    BY <1>1, ColumnsAre DEF Continue, ReturnsError
  <1>8. Steps[step].needs \subseteq schema
    BY <1>1 DEF Finds, Now
  <1> QED
    BY <1>1, <1>2, <1>4, <1>5, <1>6, <1>7, <1>8

\* A statement creates what it says and drops nothing.
LEMMA StatementMakes ==
  ASSUME NEW k \in 1 .. 25, schema' = Extended(Steps[k]), skipped' = skipped
  PROVE  schema \subseteq schema' /\ Made(k)' /\ \A j \in 1 .. 25 : Made(j) => Made(j)'
  <1>1. schema \subseteq schema' /\ Steps[k].name \in schema'
    BY DEF Extended
  <1>2. k > 11 => Steps[k].others \subseteq schema'
    <2>1. k > 11 => Steps[k].kind # "script"
      BY Rows DEF Row
    <2> QED
      BY <2>1 DEF Extended
  <1> QED
    BY <1>1, <1>2 DEF Made

\* When all have run, what is missing is a column that was refused.
LEMMA AllIsMade ==
  ASSUME \A k \in 1 .. 25 : Made(k)
  PROVE  Objects \ skipped \subseteq schema
  <1>1. ColumnNames \subseteq schema \cup skipped
    <2>1. 12 \in 1 .. 25 /\ 13 \in 1 .. 25 /\ 14 \in 1 .. 25 /\ 15 \in 1 .. 25
      OBVIOUS
    <2>2. Made(12) /\ Made(13) /\ Made(14) /\ Made(15)
      BY <2>1, Zenon
    <2> QED
      BY <2>2 DEF Made, ColumnNames
  <1>2. \A k \in 1 .. 25 : {Steps[k].name} \cup Steps[k].others \subseteq schema \cup skipped
    <2> TAKE k \in 1 .. 25
    <2>1. Steps[k].name \in schema \cup skipped /\ (k > 11 => Steps[k].others \subseteq schema)
      BY DEF Made
    <2>2. k <= 11 => Steps[k].others \subseteq ColumnNames
      BY Rows DEF Row
    <2> QED
      BY <1>1, <2>1, <2>2
  <1>3. DOMAIN Steps = 1 .. 25
    BY StepsAre
  <1> QED
    BY ONLY <1>2, <1>3 DEF Objects

LEMMA StartsInitially == StartupInit => StartInv
  BY DEF StartupInit, StartInv

LEMMA StartsGoOn ==
  ASSUME StartInv, [StartupNext]_<<vars, startVars>>
  PROVE  StartInv'
  <1>1. CASE UNCHANGED <<vars, startVars>>
    BY <1>1 DEF StartInv, Made, vars, startVars
  <1>2. CASE BeginStart
    <2>1. /\ step' = 1 /\ server' = "starting" /\ failed' = failed
          /\ server = "stopped"
      BY <1>2 DEF BeginStart, Start
    <2>2. ~failed
      BY <2>1 DEF StartInv
    <2> QED
      BY <2>1, <2>2 DEF StartInv
  <1>3. CASE Exit
    BY <1>3 DEF Exit, Stop, StartInv
  <1>4. CASE Execute
    <2>1. PICK k \in 1 .. 25 : k = step
      BY <1>4, ExecuteIs
    <2>2. /\ step' = k + 1 /\ ~(k = 15 /\ failed)
          /\ schema' = Extended(Steps[k]) /\ server' = server
          /\ failed' = failed /\ skipped' = skipped
      BY <1>4, <2>1, ExecuteIs
    <2>3. Made(k)' /\ \A j \in 1 .. 25 : Made(j) => Made(j)'
      BY <2>2, StatementMakes
    <2>4. ~failed => \A j \in 1 .. 25 : j < k + 1 => Made(j)'
      <3>1. ~failed => \A j \in 1 .. 25 : j < k => Made(j)
        BY <2>1 DEF StartInv
      <3> QED
        BY <2>3, <3>1
    <2>5. step' # 0 /\ ~failed' => \A j \in 1 .. 25 : j < step' => Made(j)'
      BY <2>2, <2>4
    <2>6. step' \in 0 .. 26 /\ (failed' => step' \in 12 .. 15) /\ step' # 0 /\ server' = "starting"
      BY <2>1, <2>2 DEF StartInv
    <2> QED
      BY <2>5, <2>6 DEF StartInv
  <1>5. CASE ScriptFails
    <2>1. step' = 12 /\ failed' /\ server' = server /\ step \in 1 .. 25 /\ schema' = schema
      BY <1>5, ColumnsAre, StepsAre DEF ScriptFails, vars
    <2> QED
      BY <2>1 DEF StartInv
  <1>6. CASE ColumnFails
    <2>1. PICK k \in 12 .. 15 : k = step
      BY <1>6, ColumnsAre DEF ColumnFails
    <2>2. /\ step' = k + 1 /\ ~(k = 15 /\ failed)
          /\ server' = server /\ schema' = schema /\ failed' = failed
          /\ skipped \subseteq skipped' /\ Steps[k].name \in schema \cup skipped'
      BY <1>6, <2>1, ColumnsAre DEF ColumnFails, Continue, ReturnsError, Now, vars
    <2>3. Made(k)' /\ \A j \in 1 .. 25 : Made(j) => Made(j)'
      <3>1. k > 11 => Steps[k].others \subseteq schema
        BY Fields DEF Is
      <3> QED
        BY <2>2, <3>1 DEF Made
    <2>4. ~failed => \A j \in 1 .. 25 : j < k + 1 => Made(j)'
      <3>1. ~failed => \A j \in 1 .. 25 : j < k => Made(j)
        BY <2>1 DEF StartInv
      <3> QED
        BY <2>3, <3>1
    <2>5. step' # 0 /\ ~failed' => \A j \in 1 .. 25 : j < step' => Made(j)'
      BY <2>2, <2>4
    <2>6. step' \in 0 .. 26 /\ (failed' => step' \in 12 .. 15) /\ step' # 0 /\ server' = "starting"
      BY <2>1, <2>2 DEF StartInv
    <2> QED
      BY <2>5, <2>6 DEF StartInv
  <1>7. CASE Finish
    <2>1. step = 26 /\ step' = 0 /\ server = "starting" /\ server' = "serving"
          /\ schema' = schema /\ failed' = failed /\ skipped' = skipped
      BY <1>7, StepsAre DEF Finish, Serve
    <2>2. ~failed /\ \A k \in 1 .. 25 : Made(k)
      BY <2>1 DEF StartInv
    <2>3. Objects \ skipped \subseteq schema
      BY <2>2, AllIsMade
    <2> QED
      BY <2>1, <2>2, <2>3 DEF StartInv
  <1>8. CASE Request
    <2>1. UNCHANGED startVars /\ server' = server
      BY <1>8, RequestKeepsTheStart
    <2> QED
      BY <2>1 DEF StartInv, Made, startVars
  <1> QED
    BY <1>1, <1>2, <1>3, <1>4, <1>5, <1>6, <1>7, <1>8 DEF StartupNext

\* The statements of a start find what they need.
LEMMA NeedsAreMade ==
  ASSUME StartInv, step \in 1 .. 25, ~failed
  PROVE  Steps[step].needs \subseteq schema
  <1> SUFFICES ASSUME NEW name \in Steps[step].needs PROVE name \in schema
    OBVIOUS
  <1>1. CreatedBefore(name, step)
    BY Rows DEF Row
  <1>2. PICK j \in 1 .. 25 : /\ j < step /\ j \notin 12 .. 15
                             /\ name = Steps[j].name \/ (j > 11 /\ name \in Steps[j].others)
    BY <1>1 DEF CreatedBefore
  <1>3. \A k \in 1 .. 25 : k < step => Made(k)
    BY DEF StartInv
  <1>4. Made(j)
    BY <1>2, <1>3
  <1> QED
    BY <1>2, <1>4 DEF Made

---------------------------------------------------------------------------
(* What is stored of the tax *)

\* An invoice with a treatment has the one its own GSTINs call for, and the
\* columns of initGST are added when those of its addresses exist.
Current(inv) ==
    /\ Cleaned(inv.seller) = inv.seller
    /\ inv.treatment = GstTreatment(inv.currency, inv.seller, Buyer(inv.address))

TaxInv ==
    /\ TypeOK
    /\ \A i \in Invoices :
          Stored(i) /\ invoice[i].address # None => gstin[invoice[i].address] # None
    /\ hasColumns => \A i \in Invoices : Stored(i) => Current(invoice[i])
    /\ hasColumns <=> "gst_columns" \in schema
    /\ hasColumns => "address_id" \in schema
    /\ server = "serving" => hasColumns

\* A text that is cleaned stays so, and it is a GSTIN or missing if it normalizes.
LEMMA CleanedStays ==
  ASSUME NEW text \in Text
  PROVE  /\ Cleaned(text) \in Text /\ Cleaned(Cleaned(text)) = Cleaned(text)
         /\ Normalizes(text) => Cleaned(text) \in Gstin
  <1>1. CASE text \in {Missing, Malformed}
    BY <1>1 DEF Cleaned, Text, Gstin, Normalizes
  <1>2. CASE text \notin {Missing, Malformed}
    <2>1. text \in [state: States, clean: BOOLEAN]
      BY <1>2 DEF Text
    <2>2. PICK new : new = [text EXCEPT !.clean = TRUE]
      OBVIOUS
    <2>3. new \in [state: States, clean: {TRUE}] /\ new \in [state: States, clean: BOOLEAN]
      BY <2>1, <2>2
    <2>4. [new EXCEPT !.clean = TRUE] = new
      BY <2>1, <2>2
    <2>5. Cleaned(text) = new /\ Cleaned(new) = new
      BY <1>2, <2>2, <2>4 DEF Cleaned
    <2> QED
      BY <2>3, <2>5 DEF Text, Gstin
  <1> QED
    BY <1>1, <1>2

LEMMA TreatmentsAreThree ==
  ASSUME NEW currency, NEW seller, NEW buyer
  PROVE  GstTreatment(currency, seller, buyer) \in {"intrastate", "interstate", "none"}
  BY DEF GstTreatment

\* The migration's comparison of lengths decides as the comparison of shapes does.
LEMMA MigrationDecides ==
  ASSUME TypeOK, NEW inv, inv.address # None => /\ inv.address \in Addresses
                                                /\ gstin[inv.address] # None
  PROVE  MigratedTreatment(inv) = GstTreatment(inv.currency, Cleaned(profile), Buyer(inv.address))
  <1>1. PICK seller, buyer : seller = Cleaned(profile) /\ buyer = Buyer(inv.address)
    OBVIOUS
  <1>2. seller \notin {Missing, Malformed} => seller.clean
    BY <1>1 DEF TypeOK, Text, Cleaned
  <1>3. buyer \in Gstin
    BY <1>1 DEF TypeOK, Buyer, Gstin
  <1>4. buyer \notin {Missing, Malformed} => buyer.clean
    BY <1>3 DEF Gstin
  <1>5. /\ HasShape(seller) <=> seller \notin {Missing, Malformed}
        /\ HasShape(buyer) <=> buyer \notin {Missing, Malformed}
    BY <1>2, <1>4 DEF HasShape
  <1> QED
    BY <1>1, <1>5 DEF MigratedTreatment, GstTreatment

\* The lines of a request that the handler accepts.
LEMMA TaxableLines ==
  ASSUME NEW lines \in LineItems, MayTax(lines)
  PROVE  lines \in Seq(Line)
  <1>1. lines \in Seq([amount: Int, percent: Int])
    BY GstAssumption
  <1>2. \A l \in DOMAIN lines :
           lines[l] \in [amount: Int, percent: Int] /\ lines[l].percent \in 0 .. 100
    <2>1. \A l \in DOMAIN lines : lines[l] \in [amount: Int, percent: Int]
      <3>1. \A S : lines \in Seq(S) => \A l \in DOMAIN lines : lines[l] \in S
        OBVIOUS
      <3> QED
        BY <1>1, <3>1, Zenon
    <2>2. \A l \in DOMAIN lines : lines[l].percent \in 0 .. 100
      BY Zenon DEF MayTax
    <2> QED
      BY <2>1, <2>2, Zenon
  <1>3. \A line \in [amount: Int, percent: Int] : line.percent \in 0 .. 100 => line \in Line
    BY DEF Line
  <1>4. \A l \in DOMAIN lines : lines[l] \in Line
    BY <1>2, <1>3
  <1>5. lines \in [1 .. Len(lines) -> Line]
    BY <1>1, <1>4
  <1> QED
    BY <1>1, <1>5

LEMMA OldAddressesAre ==
  ASSUME NEW a, a = First(Addresses) \/ a = None
  PROVE  /\ a \in Addresses \cup {None}
         /\ OldAddresses(a) \in [Addresses -> Gstin \cup {None}]
         /\ a # None => OldAddresses(a)[a] # None
  <1>1. First(Addresses) \in Addresses
    BY GstAssumption, LeastNumber
  <1> QED
    BY <1>1, GstAssumption DEF OldAddresses, Gstin

LEMMA TaxInitially == StartupInit => TaxInv
  <1> SUFFICES ASSUME StartupInit PROVE TaxInv
    OBVIOUS
  <1>1. /\ server = "stopped" /\ hasColumns = FALSE /\ profile \in Text /\ "gst_columns" \notin schema
    BY OldAssumption, GstAssumption DEF StartupInit
  <1>2. PICK a \in {None, First(Addresses)} :
          LET versioned == IF "address_id" \in schema THEN a ELSE None
          IN  /\ gstin = OldAddresses(versioned)
              /\ \/ invoice = OldInvoices(None)
                 \/ \E currency \in Currencies, lines \in LineItems \cap Seq(Line) :
                       invoice = OldInvoices(OldInvoice(versioned, currency, lines))
    BY DEF StartupInit
  <1>3. PICK versioned : versioned = IF "address_id" \in schema THEN a ELSE None
    OBVIOUS
  <1>4. /\ versioned \in Addresses \cup {None}
        /\ gstin \in [Addresses -> Gstin \cup {None}]
        /\ versioned # None => gstin[versioned] # None
    BY <1>2, <1>3, OldAddressesAre
  <1>5. \/ invoice = OldInvoices(None)
        \/ \E currency \in Currencies, lines \in Seq(Line) :
              invoice = OldInvoices(OldInvoice(versioned, currency, lines))
    BY <1>2, <1>3
  <1>6. /\ invoice \in [Invoices -> Invoice \cup {None}]
        /\ \A i \in Invoices :
              Stored(i) => invoice[i].treatment = None /\ invoice[i].address = versioned
    <2>1. CASE invoice = OldInvoices(None)
      BY <2>1 DEF OldInvoices, Stored
    <2>2. ASSUME NEW currency \in Currencies, NEW lines \in Seq(Line),
                 invoice = OldInvoices(OldInvoice(versioned, currency, lines))
          PROVE  /\ invoice \in [Invoices -> Invoice \cup {None}]
                 /\ \A i \in Invoices : Stored(i) => /\ invoice[i].treatment = None
                                                     /\ invoice[i].address = versioned
      <3>1. PICK old : old = OldInvoice(versioned, currency, lines)
        OBVIOUS
      <3>2. old \in Invoice /\ old.treatment = None /\ old.address = versioned
        BY <1>4, <3>1 DEF OldInvoice, Invoice, Text
      <3>3. invoice = [i \in Invoices |-> IF i = First(Invoices) THEN old ELSE None]
        BY <2>2, <3>1 DEF OldInvoices
      <3> QED
        BY <3>2, <3>3 DEF Stored
    <2> QED
      BY <1>5, <2>1, <2>2
  <1> QED
    BY <1>1, <1>4, <1>6 DEF TaxInv, TypeOK

\* Which statements add the columns that the tax needs.
LEMMA ColumnsCome ==
  ASSUME Execute
  PROVE  /\ schema \subseteq schema'
         /\ "gst_columns" \in schema' <=> "gst_columns" \in schema \/ step = 21
         /\ "address_id" \in schema' <=> "address_id" \in schema \/ step = 20
         /\ step = 21 => "address_id" \in schema
  <1>1. PICK k \in 1 .. 25 : k = step
    BY ExecuteIs
  <1>2. schema' = Extended(Steps[k]) /\ Steps[k].needs \subseteq schema
    BY <1>1, ExecuteIs
  <1>3. Row(k)
    BY Rows
  <1>4. /\ Steps[k].name = "address_id" <=> k = 20
        /\ Steps[k].name = "gst_columns" <=> k = 21
        /\ "address_id" \notin Steps[k].others /\ "gst_columns" \notin Steps[k].others
        /\ k = 21 => "address_id" \in Steps[k].needs
    BY <1>3 DEF Row
  <1>5. /\ schema \subseteq schema'
        /\ \A name \in schema' : name \in schema \/ name = Steps[k].name \/ name \in Steps[k].others
        /\ Steps[k].name \in schema'
    BY <1>2 DEF Extended
  <1> QED
    BY <1>1, <1>2, <1>4, <1>5

\* What a request stores of an invoice.
Stores(i, seller, a, currency, lines, new) ==
    /\ invoice' = [invoice EXCEPT ![i] = new]
    /\ UNCHANGED <<server, hasColumns, profile, gstin>>
    /\ new \in Invoice /\ new.treatment # None
    /\ new.seller = Cleaned(seller) /\ new.address = a /\ new.currency = currency /\ new.lines = lines
    /\ a # None => gstin[a] # None
    /\ Current(new)

LEMMA SaveStores ==
  ASSUME TypeOK, NEW i \in Invoices, NEW seller \in Text, NEW a \in Addresses \cup {None},
         NEW currency \in Currencies, NEW lines \in LineItems,
         Save(i, seller, a, currency, lines)
  PROVE  \E new : Stores(i, seller, a, currency, lines, new)
  <1>1. PICK treatment : treatment = GstTreatment(currency, Cleaned(seller), Buyer(a))
    OBVIOUS
  <1>2. PICK new : new = [seller |-> Cleaned(seller), address |-> a, currency |-> currency,
                          treatment |-> treatment, lines |-> lines]
    OBVIOUS
  <1>3. /\ Normalizes(seller) /\ MayTax(lines)
        /\ a # None => gstin[a] # None
        /\ invoice' = [invoice EXCEPT ![i] = new]
        /\ UNCHANGED <<server, hasColumns, profile, gstin>>
    BY <1>1, <1>2 DEF Save, Treatment, Decided
  <1>4. treatment \in {"intrastate", "interstate", "none"}
    BY <1>1, TreatmentsAreThree
  <1>5. lines \in Seq(Line)
    BY <1>3, TaxableLines
  <1>6. Cleaned(seller) \in Text /\ Cleaned(Cleaned(seller)) = Cleaned(seller)
    BY CleanedStays
  <1>7. /\ new.seller = Cleaned(seller) /\ new.address = a /\ new.currency = currency
        /\ new.treatment = treatment /\ new.lines = lines
    BY <1>2
  <1>8. new \in Invoice
    BY <1>2, <1>4, <1>5, <1>6 DEF Invoice
  <1>9. Current(new)
    BY <1>1, <1>6, <1>7 DEF Current
  <1>10. new.treatment # None
    BY <1>4, <1>7, GstAssumption
  <1> QED
    BY <1>3, <1>7, <1>8, <1>9, <1>10 DEF Stores

LEMMA StoringKeepsTaxInv ==
  ASSUME TaxInv, hasColumns, schema' = schema,
         NEW i \in Invoices, NEW seller, NEW a, NEW currency, NEW lines, NEW new,
         Stores(i, seller, a, currency, lines, new)
  PROVE  TaxInv'
  <1>1. /\ invoice' = [invoice EXCEPT ![i] = new]
        /\ server' = server /\ hasColumns' = hasColumns /\ profile' = profile /\ gstin' = gstin
        /\ new \in Invoice /\ new.treatment # None /\ new.address = a
        /\ a # None => gstin[a] # None
        /\ Current(new)
    BY DEF Stores
  <1>2. \A j \in Invoices : invoice'[j] = IF j = i THEN new ELSE invoice[j]
    BY <1>1 DEF TaxInv, TypeOK
  <1>3. invoice' \in [Invoices -> Invoice \cup {None}]
    BY <1>1 DEF TaxInv, TypeOK
  <1>4. \A j \in Invoices : Stored(j)' => j = i \/ Stored(j)
    BY <1>2 DEF Stored
  <1>5. \A j \in Invoices : Stored(j)' => invoice'[j].treatment # None
    BY <1>1, <1>2, <1>4 DEF TaxInv, TypeOK
  <1>6. \A inv : Current(inv) => Current(inv)'
    BY <1>1 DEF Current, Buyer
  <1>7. \A j \in Invoices : Stored(j)' => Current(invoice'[j])
    BY <1>1, <1>2, <1>4 DEF TaxInv
  <1>8. \A j \in Invoices : Stored(j)' => Current(invoice[j])'
    <2> SUFFICES ASSUME NEW j \in Invoices, Stored(j)' PROVE Current(invoice[j])'
      OBVIOUS
    <2>1. PICK inv : inv = invoice'[j]
      OBVIOUS
    <2>2. Current(inv)'
      BY <1>6, <1>7, <2>1, Zenon
    <2> QED
      BY <2>1, <2>2 DEF Current
  <1>9. \A j \in Invoices :
           Stored(j)' /\ invoice'[j].address # None => gstin'[invoice'[j].address] # None
    BY <1>1, <1>2, <1>4 DEF TaxInv
  <1> QED
    BY <1>1, <1>3, <1>5, <1>8, <1>9 DEF TaxInv, TypeOK

LEMMA AddressKeepsTaxInv ==
  ASSUME TaxInv, schema' = schema, NEW a \in Addresses, NEW text \in Text, SaveAddress(a, text)
  PROVE  TaxInv'
  <1>1. /\ gstin' = [gstin EXCEPT ![a] = Cleaned(text)] /\ gstin[a] = None
        /\ server' = server /\ hasColumns' = hasColumns /\ profile' = profile /\ invoice' = invoice
    BY DEF SaveAddress
  <1>2. Cleaned(text) \in Gstin
    BY CleanedStays DEF SaveAddress
  <1>3. gstin' \in [Addresses -> Gstin \cup {None}]
    BY <1>1, <1>2 DEF TaxInv, TypeOK
  <1>4. \A b \in Addresses : b # a => gstin'[b] = gstin[b]
    BY <1>1 DEF TaxInv, TypeOK
  <1>5. \A i \in Invoices : Stored(i) => invoice[i].address \in Addresses \cup {None}
    BY DEF TaxInv, TypeOK, Invoice, Stored
  <1>6. \A i \in Invoices : Stored(i) /\ invoice[i].address # None =>
           invoice[i].address # a /\ gstin'[invoice[i].address] = gstin[invoice[i].address]
    BY <1>1, <1>4, <1>5 DEF TaxInv
  <1>7. \A i \in Invoices : Stored(i) /\ Current(invoice[i]) => Current(invoice[i])'
    BY <1>1, <1>6 DEF Current, Buyer
  <1> QED
    BY <1>1, <1>3, <1>6, <1>7 DEF TaxInv, TypeOK, Stored

LEMMA BackfillKeepsTaxInv ==
  ASSUME TaxInv, Backfill, "address_id" \notin schema, "gst_columns" \notin schema',
         schema \subseteq schema'
  PROVE  TaxInv'
  <1>1. PICK a : a = IF billed THEN First(Addresses) ELSE None
    OBVIOUS
  <1>2. /\ a \in Addresses \cup {None}
        /\ OldAddresses(a) \in [Addresses -> Gstin \cup {None}]
        /\ a # None => OldAddresses(a)[a] # None
    BY <1>1, OldAddressesAre
  <1>3. /\ gstin' = OldAddresses(a)
        /\ invoice' = [i \in Invoices |->
                         IF Stored(i) THEN [invoice[i] EXCEPT !.address = a] ELSE None]
        /\ server' = server /\ hasColumns' = hasColumns /\ profile' = profile
    BY <1>1 DEF Backfill
  <1>4. \A inv \in Invoice : /\ [inv EXCEPT !.address = a] \in Invoice
                             /\ [inv EXCEPT !.address = a].address = a
                             /\ [inv EXCEPT !.address = a].treatment = inv.treatment
    BY <1>2 DEF Invoice
  <1>5. \A i \in Invoices : Stored(i) => invoice[i] \in Invoice
    BY DEF TaxInv, TypeOK, Stored
  <1>6. invoice' \in [Invoices -> Invoice \cup {None}]
    BY <1>3, <1>4, <1>5
  <1>7. \A i \in Invoices : invoice'[i] # None =>
           Stored(i) /\ invoice'[i].address = a /\ invoice'[i].treatment = invoice[i].treatment
    BY <1>3, <1>4, <1>5
  <1> QED
    BY <1>2, <1>3, <1>6, <1>7 DEF TaxInv, TypeOK, Stored

LEMMA MigrationKeepsTaxInv ==
  ASSUME TaxInv, InitGST,
         schema \subseteq schema', "gst_columns" \in schema', "address_id" \in schema
  PROVE  TaxInv'
  <1>1. /\ server = "starting" /\ server' = server /\ hasColumns' = TRUE
        /\ profile' = profile /\ gstin' = gstin
    BY DEF InitGST
  <1>2. CASE hasColumns
    <2>1. invoice' = invoice
      BY <1>2 DEF InitGST, Migrates
    <2> QED
      BY <1>1, <1>2, <2>1 DEF TaxInv, TypeOK, Stored, Current, Buyer
  <1>3. CASE ~hasColumns
    <2>1. invoice' = [i \in Invoices |-> IF ~Stored(i) THEN None ELSE
                        [invoice[i] EXCEPT !.seller = Cleaned(profile),
                                           !.treatment = MigratedTreatment(invoice[i])]]
      BY <1>3 DEF InitGST, Migrates
    <2>2. profile \in Text /\ Cleaned(profile) \in Text /\ Cleaned(Cleaned(profile)) = Cleaned(profile)
      BY CleanedStays DEF TaxInv, TypeOK
    <2>3. ASSUME NEW i \in Invoices, Stored(i)
          PROVE  /\ invoice'[i] \in Invoice /\ invoice'[i].treatment # None
                 /\ invoice'[i].address = invoice[i].address
                 /\ Current(invoice'[i])
      <3>1. PICK inv, treatment : /\ inv = invoice[i] /\ treatment = MigratedTreatment(inv)
        OBVIOUS
      <3>2. inv \in Invoice
        BY <2>3, <3>1 DEF TaxInv, TypeOK, Stored
      <3>3. inv.address # None => inv.address \in Addresses /\ gstin[inv.address] # None
        BY <2>3, <3>1, <3>2 DEF TaxInv, Invoice
      <3>4. treatment = GstTreatment(inv.currency, Cleaned(profile), Buyer(inv.address))
        BY <3>1, <3>3, MigrationDecides DEF TaxInv
      <3>5. treatment \in {"intrastate", "interstate", "none"}
        BY <3>4, TreatmentsAreThree
      <3>6. invoice'[i] = [inv EXCEPT !.seller = Cleaned(profile), !.treatment = treatment]
        BY <2>1, <2>3, <3>1
      <3>7. PICK new : new = invoice'[i]
        OBVIOUS
      <3>8. /\ new \in Invoice /\ new.seller = Cleaned(profile) /\ new.treatment = treatment
            /\ new.address = inv.address /\ new.currency = inv.currency
        BY <2>2, <3>2, <3>5, <3>6, <3>7 DEF Invoice
      <3> QED
        BY <2>2, <3>1, <3>4, <3>5, <3>7, <3>8, GstAssumption DEF Current
    <2>4. \A i \in Invoices : ~Stored(i) => invoice'[i] = None
      BY <2>1
    <2>5. invoice' \in [Invoices -> Invoice \cup {None}]
      BY <2>1, <2>3, <2>4
    <2>6. \A i \in Invoices : Stored(i)' => Stored(i)
      BY <2>4 DEF Stored
    <2>7. \A i \in Invoices : Stored(i)' => Current(invoice[i])'
      <3> SUFFICES ASSUME NEW i \in Invoices, Stored(i)' PROVE Current(invoice[i])'
        OBVIOUS
      <3>1. PICK inv : inv = invoice'[i]
        OBVIOUS
      <3>2. Current(inv)
        BY <2>3, <2>6, <3>1
      <3> QED
        BY <1>1, <3>1, <3>2 DEF Current, Buyer
    <2>8. \A i \in Invoices : Stored(i)' => invoice'[i].treatment # None
      BY <2>3, <2>6
    <2>9. \A i \in Invoices :
             Stored(i)' /\ invoice'[i].address # None => gstin'[invoice'[i].address] # None
      BY <1>1, <2>3, <2>6 DEF TaxInv
    <2> QED
      BY <1>1, <2>5, <2>7, <2>8, <2>9 DEF TaxInv, TypeOK
  <1> QED
    BY <1>2, <1>3 DEF TaxInv, TypeOK

LEMMA RequestKeepsTaxInv ==
  ASSUME TaxInv, Request
  PROVE  TaxInv'
  <1>1. schema' = schema /\ hasColumns
    BY RequestKeepsTheStart DEF startVars, TaxInv
  <1>2. CASE \E text \in Text : SaveCompanyProfile(text)
    <2>1. PICK text \in Text : SaveCompanyProfile(text)
      BY <1>2
    <2>2. profile' \in Text /\ UNCHANGED <<server, hasColumns, gstin, invoice>>
      BY <2>1, CleanedStays DEF SaveCompanyProfile
    <2> QED
      BY <1>1, <2>2 DEF TaxInv, TypeOK, Stored, Current, Buyer
  <1>3. CASE \E text \in Text, a \in Addresses : SaveAddress(a, text)
    BY <1>1, <1>3, AddressKeepsTaxInv
  <1>4. ASSUME NEW i \in Invoices, NEW a \in Addresses \cup {None}, NEW currency \in Currencies,
               NEW lines \in LineItems,
               CreateSalesInvoice(i, a, currency, lines) \/ UpdateSalesInvoice(i, a, currency, lines)
        PROVE  TaxInv'
    <2>1. PICK seller \in Text : Save(i, seller, a, currency, lines)
      BY <1>4 DEF CreateSalesInvoice, UpdateSalesInvoice, SellerOf, SellerSnapshot, TaxInv, TypeOK,
                  Stored, Invoice
    <2>2. PICK new : Stores(i, seller, a, currency, lines, new)
      BY <2>1, SaveStores DEF TaxInv
    <2> QED
      BY <1>1, <2>2, StoringKeepsTaxInv
  <1> QED
    BY <1>2, <1>3, <1>4 DEF Request

LEMMA ExecuteKeepsTaxInv ==
  ASSUME TaxInv, Execute
  PROVE  TaxInv'
  <1>1. /\ schema \subseteq schema'
        /\ "gst_columns" \in schema' <=> "gst_columns" \in schema \/ step = 21
        /\ "address_id" \in schema' <=> "address_id" \in schema \/ step = 20
        /\ step = 21 => "address_id" \in schema
    BY ColumnsCome
  <1>2. CASE step = 20 /\ Backfills
    <2>1. Backfill
      BY <1>2, ExecuteIs
    <2>2. "address_id" \notin schema /\ "gst_columns" \notin schema'
      BY <1>1, <1>2 DEF Backfills, TaxInv
    <2> QED
      BY <1>1, <2>1, <2>2, BackfillKeepsTaxInv
  <1>3. CASE step = 21
    BY <1>1, <1>3, ExecuteIs, MigrationKeepsTaxInv
  <1>4. CASE (step # 20 \/ ~Backfills) /\ step # 21
    <2>1. UNCHANGED vars
      BY <1>4, ExecuteIs
    <2> QED
      BY <1>1, <1>4, <2>1 DEF vars, TaxInv, TypeOK, Stored, Current, Buyer
  <1> QED
    BY <1>2, <1>3, <1>4

LEMMA TaxGoesOn ==
  ASSUME TaxInv, [StartupNext]_<<vars, startVars>>
  PROVE  TaxInv'
  <1>1. CASE /\ UNCHANGED <<hasColumns, profile, gstin, invoice, schema>>
             /\ server' \in {"stopped", "starting", "serving"} /\ (server' = "serving" => hasColumns)
    BY <1>1 DEF TaxInv, TypeOK, Stored, Current, Buyer
  <1>2. CASE UNCHANGED <<vars, startVars>>
    BY <1>1, <1>2 DEF vars, startVars, TaxInv, TypeOK
  <1>3. CASE BeginStart \/ Exit \/ Finish
    BY <1>1, <1>3 DEF BeginStart, Exit, Finish, Start, Stop, Serve
  <1>4. CASE ScriptFails \/ ColumnFails
    BY <1>1, <1>4 DEF ScriptFails, ColumnFails, vars, TaxInv, TypeOK
  <1> QED
    BY <1>2, <1>3, <1>4, ExecuteKeepsTaxInv, RequestKeepsTaxInv DEF StartupNext

---------------------------------------------------------------------------
(* Theorems *)

\* Whatever the older database and wherever starts were cut short: the statements
\* of a start are where it is, and what is stored of the tax belongs together.
THEOREM StartStateIsKnown == StartupSpec => [](StartInv /\ TaxInv)
  <1>1. StartupInit => StartInv /\ TaxInv
    BY StartsInitially, TaxInitially
  <1>2. (StartInv /\ TaxInv) /\ [StartupNext]_<<vars, startVars>> => (StartInv /\ TaxInv)'
    BY StartsGoOn, TaxGoesOn
  <1> QED
    BY <1>1, <1>2, PTL DEF StartupSpec

\* InitDB (core/db.go) leaves a server that serves with every table, column,
\* trigger and row, but for the columns whose ALTER was refused in this start.
THEOREM ServersHaveTheirSchema == StartupSpec => []SchemaIsComplete
  <1>1. StartInv /\ TaxInv => SchemaIsComplete
    BY DEF StartInv, TaxInv, SchemaIsComplete
  <1> QED
    BY <1>1, StartStateIsKnown, PTL

\* No statement of InitDB asks for what only a later one creates: from no database
\* does every start fail.
THEOREM NoStartIsStuck == StartupSpec => []StartsFindTheirTables
  <1>1. StartInv => StartsFindTheirTables
    BY NeedsAreMade, StepsAre DEF StartsFindTheirTables, Finds, Now
  <1> QED
    BY <1>1, StartStateIsKnown, PTL

\* The treatment that is stored of an invoice is the one its own seller, address
\* and currency call for (core/gst_tax.go), and its tax is split once, whatever the
\* lines, the percentages and the history of saves, restarts and migrations.
THEOREM InvoicesHaveTheirTax == StartupSpec => []TreatmentIsCurrent
  <1>1. TaxInv => TreatmentIsCurrent
    <2> SUFFICES ASSUME TaxInv PROVE TreatmentIsCurrent
      OBVIOUS
    <2>1. \A i \in Invoices : Stored(i) => invoice[i] \in Invoice
      BY DEF TaxInv, TypeOK, Stored
    <2>2. \A i \in Invoices : Stored(i) => TaxIsSplitOnce(invoice[i])
      BY <2>1, EveryTaxIsSplitOnce
    <2> QED
      BY <2>2 DEF TaxInv, TreatmentIsCurrent, Current
  <1> QED
    BY <1>1, StartStateIsKnown, PTL

\* An invoice that is saved again with its address, currency and lines is stored
\* as it was.
LEMMA SavingAgainChangesNothing ==
  ASSUME TaxInv, hasColumns, NEW i \in Invoices, Stored(i), NEW new,
         NEW a, NEW currency, NEW lines,
         Stores(i, invoice[i].seller, a, currency, lines, new)
  PROVE  /\ new.seller = invoice[i].seller
         /\ invoice[i].address = new.address /\ invoice[i].currency = new.currency
            /\ invoice[i].lines = new.lines => new = invoice[i]
  <1>1. PICK old : old = invoice[i]
    OBVIOUS
  <1>2. old \in Invoice /\ Current(old)
    BY <1>1 DEF TaxInv, TypeOK, Stored
  <1>3. new \in Invoice /\ new.seller = Cleaned(old.seller) /\ Current(new)
    BY <1>1 DEF Stores
  <1>4. new.seller = old.seller
    BY <1>2, <1>3 DEF Current
  <1>5. ASSUME old.address = new.address, old.currency = new.currency, old.lines = new.lines
        PROVE  new = old
    <2>1. new.treatment = old.treatment
      BY <1>2, <1>3, <1>4, <1>5 DEF Current
    <2> QED
      BY <1>2, <1>3, <1>4, <1>5, <2>1 DEF Invoice
  <1> QED
    BY <1>1, <1>4, <1>5

TaxStays(i) ==
    LET old == invoice[i]  new == invoice'[i]
    IN  /\ new.seller = old.seller
        /\ old.address = new.address /\ old.currency = new.currency /\ old.lines = new.lines
           => PopulateInvoiceGST(new) = PopulateInvoiceGST(old)

\* The tax of an invoice changes only with its address, currency or lines: not with
\* the company's profile, a new GSTIN of the partner, a restart or a migration that
\* runs again (UpdateSalesInvoice keeps the seller's snapshot, core/gst_tax.go).
THEOREM TaxIsTheInvoices == StartupSpec => TaxFollowsTheInvoice
  <1>1. ASSUME TaxInv, [StartupNext]_<<vars, startVars>>, NEW i \in Invoices, hasColumns, Stored(i)
        PROVE  TaxStays(i)
    <2>1. CASE invoice'[i] = invoice[i]
      BY <2>1 DEF TaxStays
    <2>2. CASE UNCHANGED <<vars, startVars>> \/ BeginStart \/ Exit \/ ScriptFails \/ ColumnFails \/ Finish
      BY <2>1, <2>2 DEF vars, BeginStart, Exit, ScriptFails, ColumnFails, Finish, Start, Stop, Serve
    <2>3. CASE Execute
      <3>1. "address_id" \in schema
        BY <1>1 DEF TaxInv
      <3>2. InitGST \/ UNCHANGED vars
        BY <2>3, <3>1, ExecuteIs DEF Backfills
      <3>3. invoice' = invoice
        BY <1>1, <3>2 DEF InitGST, Migrates, vars
      <3> QED
        BY <2>1, <3>3
    <2>4. CASE Request
      <3>1. CASE \E text \in Text : SaveCompanyProfile(text) \/ \E a \in Addresses : SaveAddress(a, text)
        BY <2>1, <3>1 DEF SaveCompanyProfile, SaveAddress
      <3>2. ASSUME NEW j \in Invoices, NEW a \in Addresses \cup {None}, NEW currency \in Currencies,
                   NEW lines \in LineItems, CreateSalesInvoice(j, a, currency, lines)
            PROVE  TaxStays(i)
        <4>1. i # j
          BY <1>1, <3>2 DEF CreateSalesInvoice
        <4>2. invoice'[i] = invoice[i]
          BY <1>1, <3>2, <4>1 DEF CreateSalesInvoice, Save, TaxInv, TypeOK
        <4> QED
          BY <2>1, <4>2
      <3>3. ASSUME NEW j \in Invoices, NEW a \in Addresses \cup {None}, NEW currency \in Currencies,
                   NEW lines \in LineItems, UpdateSalesInvoice(j, a, currency, lines)
            PROVE  TaxStays(i)
        <4>1. Stored(j) /\ Save(j, invoice[j].seller, a, currency, lines)
          BY <3>3 DEF UpdateSalesInvoice, SellerOf, SellerSnapshot
        <4>2. TypeOK /\ invoice[j].seller \in Text
          BY <1>1, <4>1 DEF TaxInv, TypeOK, Stored, Invoice
        <4>3. PICK new : Stores(j, invoice[j].seller, a, currency, lines, new)
          BY <4>1, <4>2, SaveStores
        <4>4. \A k \in Invoices : invoice'[k] = IF k = j THEN new ELSE invoice[k]
          BY <4>2, <4>3 DEF Stores, TypeOK
        <4>5. CASE i # j
          BY <2>1, <4>4, <4>5
        <4>6. CASE i = j
          <5>1. /\ new.seller = invoice[i].seller
                /\ invoice[i].address = new.address /\ invoice[i].currency = new.currency
                   /\ invoice[i].lines = new.lines => new = invoice[i]
            BY <1>1, <4>1, <4>3, <4>6, SavingAgainChangesNothing
          <5>2. invoice'[i] = new
            BY <4>4, <4>6
          <5> QED
            BY <5>1, <5>2 DEF TaxStays
        <4> QED
          BY <4>5, <4>6
      <3> QED
        BY <2>4, <3>1, <3>2, <3>3 DEF Request
    <2> QED
      BY <1>1, <2>2, <2>3, <2>4 DEF StartupNext
  <1>2. TaxInv /\ [StartupNext]_<<vars, startVars>>
        => [\A i \in Invoices : hasColumns /\ Stored(i) =>
              LET old == invoice[i]  new == invoice'[i]
              IN  /\ new.seller = old.seller
                  /\ old.address = new.address /\ old.currency = new.currency /\ old.lines = new.lines
                     => PopulateInvoiceGST(new) = PopulateInvoiceGST(old)]_vars
    BY <1>1 DEF TaxStays
  <1> QED
    BY <1>2, StartStateIsKnown, PTL DEF StartupSpec, TaxFollowsTheInvoice

---------------------------------------------------------------------------
(* A start is one step *)

\* The tables as they would be if old invoices had had their address all along.
Versions == IF "address_id" \in schema THEN gstin ELSE OldAddresses(BackfilledAddress)
Addressed ==
    IF "address_id" \in schema THEN invoice
    ELSE [i \in Invoices |-> IF Stored(i) THEN [invoice[i] EXCEPT !.address = BackfilledAddress]
                             ELSE None]

LEMMA TaxStartsTheSame == StartupInit => Tax!Init
  <1> SUFFICES ASSUME StartupInit PROVE Tax!Init
    OBVIOUS
  <1>1. server = "stopped" /\ hasColumns = FALSE /\ profile \in OldProfiles
    BY DEF StartupInit
  <1>2. PICK a \in {None, First(Addresses)} :
          LET versioned == IF "address_id" \in schema THEN a ELSE None
          IN  /\ billed = (a # versioned)
              /\ gstin = OldAddresses(versioned)
              /\ \/ invoice = OldInvoices(None)
                 \/ \E currency \in Currencies, lines \in LineItems \cap Seq(Line) :
                       invoice = OldInvoices(OldInvoice(versioned, currency, lines))
    BY DEF StartupInit
  <1>3. PICK versioned : versioned = IF "address_id" \in schema THEN a ELSE None
    OBVIOUS
  <1>4. /\ billed = (a # versioned) /\ gstin = OldAddresses(versioned)
        /\ \/ invoice = OldInvoices(None)
           \/ \E currency \in Currencies, lines \in LineItems \cap Seq(Line) :
                 invoice = OldInvoices(OldInvoice(versioned, currency, lines))
    BY <1>2, <1>3
  <1>5. "address_id" \in schema => versioned = a
    BY <1>3
  <1>6. "address_id" \notin schema => BackfilledAddress = a
    BY <1>2, <1>3, <1>4 DEF BackfilledAddress
  <1>7. Versions = OldAddresses(a)
    BY <1>4, <1>5, <1>6 DEF Versions
  <1>8. \/ Addressed = OldInvoices(None)
        \/ \E currency \in Currencies, lines \in LineItems \cap Seq(Line) :
              Addressed = OldInvoices(OldInvoice(a, currency, lines))
    <2>1. CASE "address_id" \in schema
      BY <1>4, <1>5, <2>1 DEF Addressed
    <2>2. CASE "address_id" \notin schema /\ invoice = OldInvoices(None)
      <3>1. Addressed = [i \in Invoices |-> None]
        BY <2>2 DEF Addressed, Stored, OldInvoices
      <3> QED
        BY <3>1 DEF OldInvoices
    <2>3. ASSUME "address_id" \notin schema, NEW currency \in Currencies,
                 NEW lines \in LineItems \cap Seq(Line),
                 invoice = OldInvoices(OldInvoice(versioned, currency, lines))
          PROVE  Addressed = OldInvoices(None) \/ Addressed = OldInvoices(OldInvoice(a, currency, lines))
      <3>1. PICK old, new : /\ old = OldInvoice(versioned, currency, lines)
                            /\ new = OldInvoice(a, currency, lines)
        OBVIOUS
      <3>2. [old EXCEPT !.address = a] = new
        BY <3>1 DEF OldInvoice
      <3>3. \A i \in Invoices : invoice[i] = IF i = First(Invoices) THEN old ELSE None
        BY <2>3, <3>1 DEF OldInvoices
      <3>4. Addressed = [i \in Invoices |->
                           IF invoice[i] # None THEN [invoice[i] EXCEPT !.address = a] ELSE None]
        BY <1>6, <2>3 DEF Addressed, Stored
      <3>5. CASE old = None
        <4>1. Addressed = [i \in Invoices |-> None]
          BY <3>3, <3>4, <3>5
        <4> QED
          BY <4>1 DEF OldInvoices
      <3>6. CASE old # None
        <4>1. Addressed = [i \in Invoices |-> IF i = First(Invoices) THEN new ELSE None]
          BY <3>2, <3>3, <3>4, <3>6
        <4> QED
          BY <3>1, <4>1 DEF OldInvoices
      <3> QED
        BY <3>5, <3>6
    <2> QED
      BY <1>4, <2>1, <2>2, <2>3
  <1>9. Tax!Init <=> /\ server = "stopped" /\ hasColumns = FALSE
                     /\ profile \in OldProfiles
                     /\ \E b \in {None, First(Addresses)} :
                           /\ Versions = OldAddresses(b)
                           /\ \/ Addressed = OldInvoices(None)
                              \/ \E currency \in Currencies, lines \in LineItems \cap Seq(Line) :
                                    Addressed = OldInvoices(OldInvoice(b, currency, lines))
    BY DEF Tax!Init, Versions, Addressed, Tax!First, First, Tax!OldAddresses, OldAddresses,
           Tax!OldInvoices, OldInvoices, Tax!OldInvoice, OldInvoice, Tax!Line, Line
  <1> QED
    BY <1>1, <1>7, <1>8, <1>9

\* Once the addresses have their column, the tables are what they are.
LEMMA TablesAreThemselves ==
  ASSUME "address_id" \in schema, "address_id" \in schema'
  PROVE  Versions = gstin /\ Versions' = gstin' /\ Addressed = invoice /\ Addressed' = invoice'
  BY DEF Versions, Addressed

\* Then each action of GstTax is the one of the instance.
LEMMA SameRules ==
  /\ Tax!Text = Text /\ Tax!Line = Line
  /\ \A text : Tax!Normalizes(text) = Normalizes(text) /\ Tax!Cleaned(text) = Cleaned(text)
  /\ \A currency, seller, buyer :
        Tax!GstTreatment(currency, seller, buyer) = GstTreatment(currency, seller, buyer)
  /\ \A lines : Tax!MayTax(lines) = MayTax(lines)
  /\ \A id, table : Tax!NextId(id, table) = NextId(id, table)
  BY Zenon DEF Tax!Text, Text, Tax!Line, Line, Tax!Normalizes, Normalizes, Tax!Cleaned, Cleaned,
         Tax!GstTreatment, GstTreatment, Tax!HasShape, HasShape, Tax!MayTax, MayTax, Tax!NextId, NextId

LEMMA SameStart ==
  ASSUME Versions' = Versions, Addressed' = Addressed
  PROVE  /\ Start => Tax!Start
         /\ Serve => Tax!Serve
         /\ Stop => Tax!Stop
  BY DEF Versions, Addressed, Start, Tax!Start, Serve, Tax!Serve, Stop, Tax!Stop

LEMMA SameTables ==
  ASSUME "address_id" \in schema, "address_id" \in schema'
  PROVE  /\ \A i : Tax!Stored(i) = Stored(i)
         /\ \A a : Tax!Buyer(a) = Buyer(a)
         /\ \A inv : Tax!MigratedTreatment(inv) = MigratedTreatment(inv)
  <1>1. \A i : Tax!Stored(i) = Stored(i)
    BY DEF Tax!Stored, Stored
  <1>2. \A a : Tax!Buyer(a) = Buyer(a)
    BY DEF Tax!Buyer, Buyer
  <1>3. \A inv : Tax!MigratedTreatment(inv) = MigratedTreatment(inv)
    BY <1>2, SameRules, Zenon DEF Tax!MigratedTreatment, MigratedTreatment
  <1> QED
    BY <1>1, <1>2, <1>3

LEMMA SameMigration ==
  ASSUME "address_id" \in schema, "address_id" \in schema', InitGST
  PROVE  Tax!InitGST
  <1>1. Tax!InitGST <=>
           /\ server = "starting"
           /\ hasColumns' = TRUE
           /\ Addressed' = IF ~Tax!Migrates THEN Addressed ELSE
                [i \in Invoices |-> IF ~Tax!Stored(i) THEN None ELSE
                   [Addressed[i] EXCEPT !.seller = Tax!Cleaned(profile),
                                        !.treatment = Tax!MigratedTreatment(Addressed[i])]]
           /\ UNCHANGED <<server, profile, Versions>>
    BY DEF Tax!InitGST, Versions, Addressed
  <1>2. invoice' = IF ~Tax!Migrates THEN invoice ELSE
                [i \in Invoices |-> IF ~Tax!Stored(i) THEN None ELSE
                   [invoice[i] EXCEPT !.seller = Tax!Cleaned(profile),
                                      !.treatment = Tax!MigratedTreatment(invoice[i])]]
    BY SameRules, SameTables DEF InitGST, Migrates, Tax!Migrates
  <1>3. server = "starting" /\ hasColumns' = TRUE /\ UNCHANGED <<server, profile, gstin>>
    BY DEF InitGST
  <1> QED
    BY <1>1, <1>2, <1>3, TablesAreThemselves

LEMMA SameRequests ==
  ASSUME "address_id" \in schema, "address_id" \in schema'
  PROVE  /\ \A text : SaveCompanyProfile(text) => Tax!SaveCompanyProfile(text)
         /\ \A a, text : SaveAddress(a, text) => Tax!SaveAddress(a, text)
         /\ \A i, a, currency, lines : CreateSalesInvoice(i, a, currency, lines)
               => Tax!CreateSalesInvoice(i, a, currency, lines)
         /\ \A i, a, currency, lines : UpdateSalesInvoice(i, a, currency, lines)
               => Tax!UpdateSalesInvoice(i, a, currency, lines)
  <1>1. Versions = gstin /\ Versions' = gstin' /\ Addressed = invoice /\ Addressed' = invoice'
    BY TablesAreThemselves
  <1>2. \A text : SaveCompanyProfile(text) => Tax!SaveCompanyProfile(text)
    <2>1. \A text : Tax!SaveCompanyProfile(text) <=>
             /\ server = "serving" /\ Tax!Normalizes(text)
             /\ profile' = Tax!Cleaned(text)
             /\ UNCHANGED <<server, hasColumns, Versions, Addressed>>
      BY DEF Tax!SaveCompanyProfile, Versions, Addressed
    <2> QED
      BY <1>1, <2>1, SameRules DEF SaveCompanyProfile
  <1>3. \A a, text : SaveAddress(a, text) => Tax!SaveAddress(a, text)
    <2>1. \A a, text : Tax!SaveAddress(a, text) <=>
             /\ server = "serving" /\ Tax!Normalizes(text)
             /\ Versions[a] = None /\ Tax!NextId(a, Versions)
             /\ Versions' = [Versions EXCEPT ![a] = Tax!Cleaned(text)]
             /\ UNCHANGED <<server, hasColumns, profile, Addressed>>
      BY DEF Tax!SaveAddress, Versions, Addressed
    <2> QED
      BY <1>1, <2>1, SameRules DEF SaveAddress
  <1>4. \A i, seller, a, currency, lines :
           Save(i, seller, a, currency, lines) => Tax!Save(i, seller, a, currency, lines)
    <2>1. \A i, seller, a, currency, lines : Tax!Save(i, seller, a, currency, lines) <=>
             /\ Tax!Normalizes(seller) /\ Tax!MayTax(lines)
             /\ a # None => Versions[a] # None
             /\ Addressed' = [Addressed EXCEPT ![i] =
                   [seller |-> Tax!Cleaned(seller), address |-> a, currency |-> currency,
                    treatment |-> Tax!Treatment(i, currency, Tax!Cleaned(seller), Tax!Buyer(a)),
                    lines |-> lines]]
             /\ UNCHANGED <<server, hasColumns, profile, Versions>>
      BY DEF Tax!Save, Versions, Addressed
    <2>2. \A i, currency, seller, buyer :
             Tax!Treatment(i, currency, seller, buyer) = Treatment(i, currency, seller, buyer)
      BY SameRules, Zenon DEF Tax!Treatment, Tax!Decided, Treatment, Decided
    <2> QED
      BY <1>1, <2>1, <2>2, SameRules, SameTables DEF Save
  <1>5. \A i, a, currency, lines : CreateSalesInvoice(i, a, currency, lines)
           => Tax!CreateSalesInvoice(i, a, currency, lines)
    <2>1. \A i, a, currency, lines : Tax!CreateSalesInvoice(i, a, currency, lines) <=>
             /\ server = "serving" /\ ~Tax!Stored(i) /\ Tax!NextId(i, Addressed)
             /\ Tax!Save(i, profile, a, currency, lines)
      BY DEF Tax!CreateSalesInvoice, Addressed
    <2> QED
      BY <1>1, <1>4, <2>1, SameRules, SameTables DEF CreateSalesInvoice
  <1>6. \A i, a, currency, lines : UpdateSalesInvoice(i, a, currency, lines)
           => Tax!UpdateSalesInvoice(i, a, currency, lines)
    <2>1. \A i, a, currency, lines : Tax!UpdateSalesInvoice(i, a, currency, lines) <=>
             /\ server = "serving" /\ Tax!Stored(i)
             /\ Tax!Save(i, Addressed[i].seller, a, currency, lines)
      BY DEF Tax!UpdateSalesInvoice, Tax!SellerOf, Tax!SellerSnapshot, Addressed
    <2> QED
      BY <1>1, <1>4, <2>1, SameTables DEF UpdateSalesInvoice, SellerOf, SellerSnapshot
  <1> QED
    BY <1>2, <1>3, <1>5, <1>6

\* A step of a start is a step of GstTax, or none.
LEMMA StepsImplement ==
  ASSUME StartInv, TaxInv, [StartupNext]_<<vars, startVars>>
  PROVE  [Tax!Next]_(Tax!vars)
  <1>1. CASE /\ Versions' = Versions /\ Addressed' = Addressed
             /\ UNCHANGED <<server, hasColumns, profile>>
    <2>1. /\ Tax!vars = <<server, hasColumns, profile, Versions, Addressed>>
          /\ Tax!vars' = <<server', hasColumns', profile', Versions', Addressed'>>
      BY DEF Tax!vars, Versions, Addressed
    <2> QED
      BY <1>1, <2>1
  <1>2. ASSUME UNCHANGED <<schema, billed, gstin, invoice>>
        PROVE  Versions' = Versions /\ Addressed' = Addressed
    BY <1>2 DEF Versions, Addressed, BackfilledAddress, Stored
  <1>3. CASE UNCHANGED <<vars, startVars>>
    BY <1>1, <1>2, <1>3 DEF vars, startVars
  <1>4. CASE ScriptFails \/ ColumnFails
    BY <1>1, <1>2, <1>4 DEF ScriptFails, ColumnFails, vars
  <1>5. CASE BeginStart \/ Exit \/ Finish
    <2>1. Start \/ Stop \/ Serve
      BY <1>5 DEF BeginStart, Exit, Finish
    <2>2. UNCHANGED <<schema, billed, gstin, invoice>>
      BY <1>5 DEF BeginStart, Exit, Finish, Start, Stop, Serve
    <2> QED
      BY <1>2, <2>1, <2>2, SameStart DEF Tax!Next
  <1>6. CASE Request
    <2>1. hasColumns /\ schema' = schema
      BY <1>6, RequestKeepsTheStart DEF TaxInv, startVars
    <2>2. "address_id" \in schema /\ "address_id" \in schema'
      BY <2>1 DEF TaxInv
    <2>3. \/ \E text \in Text : SaveCompanyProfile(text) \/ \E a \in Addresses : SaveAddress(a, text)
          \/ \E i \in Invoices, a \in Addresses \cup {None}, currency \in Currencies,
                lines \in LineItems :
                CreateSalesInvoice(i, a, currency, lines) \/ UpdateSalesInvoice(i, a, currency, lines)
      BY <1>6 DEF Request
    <2>4. Tax!Next
      BY <2>2, <2>3, SameRequests, SameRules, Zenon DEF Tax!Next
    <2> QED
      BY <2>4
  <1>7. CASE Execute
    <2>1. /\ "address_id" \in schema' <=> "address_id" \in schema \/ step = 20
          /\ step = 21 => "address_id" \in schema
      BY <1>7, ColumnsCome
    <2>2. CASE step = 21
      <3>1. "address_id" \in schema /\ "address_id" \in schema' /\ InitGST
        BY <1>7, <2>1, <2>2, ExecuteIs
      <3> QED
        BY <3>1, SameMigration DEF Tax!Next
    <2>3. CASE step = 20 /\ "address_id" \notin schema
      <3>1. Backfill /\ "address_id" \in schema'
        BY <1>7, <2>1, <2>3, ExecuteIs DEF Backfills
      <3>2. gstin' = OldAddresses(BackfilledAddress)
            /\ invoice' = [i \in Invoices |-> IF Stored(i)
                                              THEN [invoice[i] EXCEPT !.address = BackfilledAddress]
                                              ELSE None]
        BY <2>3, <3>1 DEF Backfill, BackfilledAddress
      <3>3. Versions' = Versions /\ Addressed' = Addressed
        BY <2>3, <3>1, <3>2 DEF Versions, Addressed
      <3>4. UNCHANGED <<server, hasColumns, profile>>
        BY <3>1 DEF Backfill
      <3> QED
        BY <1>1, <3>3, <3>4
    <2>4. CASE step # 21 /\ (step # 20 \/ "address_id" \in schema)
      <3>1. UNCHANGED vars /\ billed' = (billed /\ step # 20)
        BY <1>7, <2>4, ExecuteIs DEF Backfills
      <3>2. CASE "address_id" \in schema
        BY <1>1, <2>1, <3>1, <3>2, TablesAreThemselves DEF vars
      <3>3. CASE "address_id" \notin schema
        <4>1. "address_id" \notin schema' /\ BackfilledAddress' = BackfilledAddress
          BY <2>1, <2>4, <3>1, <3>3 DEF BackfilledAddress
        <4> QED
          BY <1>1, <3>1, <3>3, <4>1 DEF Versions, Addressed, vars, Stored
      <3> QED
        BY <3>2, <3>3
    <2> QED
      BY <2>2, <2>3, <2>4
  <1> QED
    BY <1>3, <1>4, <1>5, <1>6, <1>7 DEF StartupNext

\* Whatever the older database and wherever starts are cut short, the migrations of
\* addresses and of the tax are together the one step that GstTax takes, and later
\* starts decide nothing again (initBPAddresses and initGST).
THEOREM StartsAreOneStep == StartupSpec => ImplementsGstTax
  <1>1. StartupInit => Tax!Init
    BY TaxStartsTheSame
  <1>2. StartInv /\ TaxInv /\ [StartupNext]_<<vars, startVars>> => [Tax!Next]_(Tax!vars)
    BY StepsImplement
  <1> QED
    BY <1>1, <1>2, StartStateIsKnown, PTL DEF StartupSpec, ImplementsGstTax, Tax!Spec
=============================================================================
