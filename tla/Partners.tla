------------------------------ MODULE Partners ------------------------------
(***************************************************************************)
(* Business partners with their contacts and address versions, and the     *)
(* sales invoices and bank transactions that refer to them: core/db.go and *)
(* core/bp_addresses.go. Every save is one database transaction, hence one *)
(* action. A deletion is not: it is four statements, each committed on its *)
(* own, with other requests between them.                                  *)
(*                                                                         *)
(* Ids come from AUTOINCREMENT: they count up and are never used again.    *)
(* An address is its text together with its GSTIN. A save carries at most  *)
(* one new contact and one address; the code treats them one by one.       *)
(***************************************************************************)
EXTENDS Naturals

CONSTANTS
    PartnerIds, ContactIds, AddressIds,   \* bounds: 1 .. n, for some n
    Invoices, Transactions,               \* sales invoices and bank transactions
    Texts,                                \* billing addresses
    Deletions,                            \* DELETE requests in progress
    None                                  \* SQL NULL, or no row

ASSUME PartnerAssumption ==
    /\ PartnerIds \subseteq Nat \ {0} /\ ContactIds \subseteq Nat \ {0}
    /\ AddressIds \subseteq Nat \ {0}
    /\ None \notin Nat \cup Texts \cup {""}
    /\ "" \notin Texts

Address == [owner: PartnerIds, text: Texts, previous: AddressIds \cup {None}, archived: BOOLEAN]
SalesInvoice == [partner: PartnerIds, contact: ContactIds \cup {None},
                 address: AddressIds \cup {None}]
ASSUME RowAssumption == None \notin Address \cup SalesInvoice

VARIABLES
    partner,     \* business_partners: the billing_address text of each row
    contact,     \* business_partner_contacts: the partner of each row
    address,     \* bp_addresses
    invoice,     \* sales_invoices: its references
    payer,       \* bank_transactions.business_partner_id
    sequence,    \* sqlite_sequence: the last id of each table
    deletion     \* the deletions in progress: the partner and what is done

vars == <<partner, contact, address, invoice, payer, sequence, deletion>>

Idle == [step |-> "idle"]
Steps == {"count transactions", "count invoices", "delete contacts", "delete partner"}

TypeOK ==
    /\ partner \in [PartnerIds -> Texts \cup {"", None}]
    /\ contact \in [ContactIds -> PartnerIds \cup {None}]
    /\ address \in [AddressIds -> Address \cup {None}]
    /\ invoice \in [Invoices -> SalesInvoice \cup {None}]
    /\ payer \in [Transactions -> PartnerIds \cup {None}]
    /\ sequence \in [partner: Nat, contact: Nat, address: Nat]
    /\ deletion \in [Deletions -> {Idle} \cup [step: Steps, id: PartnerIds, linked: BOOLEAN]]

---------------------------------------------------------------------------
(* Reading the tables *)

Exists(p) == p \in PartnerIds /\ partner[p] # None
ContactsOf(p) == {c \in ContactIds : contact[c] = p}
AddressesOf(p, table) == {a \in AddressIds : table[a] # None /\ table[a].owner = p}
Sold(i) == invoice[i] # None
InvoicesOf(p) == {i \in Invoices : Sold(i) /\ invoice[i].partner = p}
PaymentsOf(p) == {t \in Transactions : payer[t] = p}
NamesContact(c) == \E i \in Invoices : Sold(i) /\ invoice[i].contact = c

\* The active address with the lowest id, None when there is none.
FirstActive(p, table) ==
    LET active == {a \in AddressesOf(p, table) : ~table[a].archived}
    IN  IF active = {} THEN None ELSE CHOOSE a \in active : \A b \in active : a <= b

\* billing_address, kept for older clients: the first active address.
BillingAddress(p, table) ==
    LET a == FirstActive(p, table) IN IF a = None THEN "" ELSE table[a].text

---------------------------------------------------------------------------
(* Saving a partner *)

\* saveBusinessPartnerContacts: those the client leaves out are deleted, which
\* their foreign keys refuse when an invoice names one.
MayKeepContacts(p, kept, added) ==
    /\ kept \subseteq ContactsOf(p)
    /\ \A c \in ContactsOf(p) \ kept : ~NamesContact(c)
    /\ added => sequence.contact + 1 \in ContactIds

ContactsAfter(p, kept, added) ==
    [c \in ContactIds |->
        IF added /\ c = sequence.contact + 1 THEN p
        ELSE IF contact[c] = p /\ c \notin kept THEN None
        ELSE contact[c]]

\* An entry of the addresses array; id 0 adds an address.
Entry == [id: AddressIds \cup {0}, text: Texts, archived: BOOLEAN]

\* An older client sends one text instead of the array.
EntryOf(p, entry, legacy) ==
    LET first == FirstActive(p, address)
    IN  IF entry # None \/ legacy \in {"", BillingAddress(p, address)} THEN entry
        ELSE [id |-> IF first = None THEN 0 ELSE first, text |-> legacy, archived |-> FALSE]

Changes(e) == e.id # 0 /\ e.text # address[e.id].text
AddsRow(e) == e # None /\ (e.id = 0 \/ Changes(e))

MayReactivate(p, e) ==
    e # None =>
        /\ e.id # 0 => e.id \in AddressesOf(p, address)
        /\ Changes(e) => ~address[e.id].archived
        /\ AddsRow(e) => sequence.address + 1 \in AddressIds

\* The checks of saveBPAddresses. An archived version is final, and the unique
\* index on previous_address_id allows one successor.
MaySaveAddress(p, e) ==
    e # None =>
        /\ e.id # 0 => /\ e.id \in AddressesOf(p, address)
                       /\ address[e.id].archived => ~Changes(e) /\ e.archived
        /\ Changes(e) => \A a \in AddressesOf(p, address) : address[a].previous # e.id
        /\ AddsRow(e) => sequence.address + 1 \in AddressIds

OverwriteAddress(p, e) ==
    IF e = None THEN address
    ELSE [a \in AddressIds |->
        IF e.id = 0 /\ a = sequence.address + 1
        THEN [owner |-> p, text |-> e.text, previous |-> None, archived |-> e.archived]
        ELSE IF a = e.id THEN [address[a] EXCEPT !.text = e.text, !.archived = e.archived]
        ELSE address[a]]

\* A changed text archives the version it replaces and inserts the next one.
AddressesAfter(p, e) ==
    IF e = None THEN address
    ELSE [a \in AddressIds |->
        IF AddsRow(e) /\ a = sequence.address + 1
        THEN [owner |-> p, text |-> e.text,
              previous |-> IF e.id = 0 THEN None ELSE e.id, archived |-> e.archived]
        ELSE IF a = e.id THEN [address[a] EXCEPT !.archived = Changes(e) \/ e.archived]
        ELSE address[a]]

\* The last statement of saveBPAddresses.
ScalarAfter(p, table) == BillingAddress(p, table)

SavePartner(p, kept, added, entry, legacy) ==
    LET e == EntryOf(p, entry, legacy)
    IN  /\ MayKeepContacts(p, kept, added)
        /\ MaySaveAddress(p, e)
        /\ contact' = ContactsAfter(p, kept, added)
        /\ address' = AddressesAfter(p, e)
        /\ partner' = [partner EXCEPT ![p] = ScalarAfter(p, AddressesAfter(p, e))]
        /\ sequence' = [partner |-> IF Exists(p) THEN sequence.partner ELSE p,
                        contact |-> sequence.contact + (IF added THEN 1 ELSE 0),
                        address |-> sequence.address + (IF AddsRow(e) THEN 1 ELSE 0)]
        /\ UNCHANGED <<invoice, payer, deletion>>

CreateBusinessPartner(p, added, entry, legacy) ==
    /\ p = sequence.partner + 1
    /\ SavePartner(p, {}, added, entry, legacy)

UpdateBusinessPartner(p, kept, added, entry, legacy) ==
    /\ Exists(p)
    /\ SavePartner(p, kept, added, entry, legacy)

---------------------------------------------------------------------------
(* Sales invoices and bank transactions *)

\* validateInvoiceAddress, with the triggers invoice_address_insert and _update.
ValidAddressOfAnyone(i, inv) ==
    IF inv.address = None
    THEN \/ Sold(i) /\ invoice[i].address = None /\ invoice[i].partner = inv.partner
         \/ AddressesOf(inv.partner, address) = {}
    ELSE /\ address[inv.address] # None
         /\ address[inv.address].archived => Sold(i) /\ invoice[i].address = inv.address

ValidAddress(i, inv) ==
    IF inv.address = None
    THEN \/ Sold(i) /\ invoice[i].address = None /\ invoice[i].partner = inv.partner
         \/ AddressesOf(inv.partner, address) = {}
    ELSE /\ inv.address \in AddressesOf(inv.partner, address)
         /\ address[inv.address].archived =>
               /\ Sold(i) /\ invoice[i].address = inv.address
               /\ invoice[i].partner = inv.partner

\* The foreign keys of sales_invoices; a contact may be of another partner.
ReferencesOf(inv) ==
    /\ Exists(inv.partner)
    /\ inv.contact # None => contact[inv.contact] # None

\* CreateSalesInvoice and UpdateSalesInvoice. Receipts, which freeze the partner
\* of an invoice, are in Subledger.
SaveSalesInvoice(i, inv) ==
    /\ ValidAddress(i, inv)
    /\ ReferencesOf(inv)
    /\ invoice' = [invoice EXCEPT ![i] = inv]
    /\ UNCHANGED <<partner, contact, address, payer, sequence, deletion>>

\* AllocateTransaction writes the partner of a bank transaction.
AllocateTransaction(t, p) ==
    /\ p # None => Exists(p)
    /\ payer' = [payer EXCEPT ![t] = p]
    /\ UNCHANGED <<partner, contact, address, invoice, sequence, deletion>>

---------------------------------------------------------------------------
(* DeleteBusinessPartner, statement by statement *)

DeleteBusinessPartner(d, p) ==
    /\ deletion[d] = Idle
    /\ deletion' = [deletion EXCEPT ![d] = [step |-> "count transactions", id |-> p, linked |-> FALSE]]
    /\ UNCHANGED <<partner, contact, address, invoice, payer, sequence>>

CountTransactions(d) ==
    /\ deletion[d].step = "count transactions"
    /\ deletion' = [deletion EXCEPT ![d].step = "count invoices",
                                    ![d].linked = PaymentsOf(deletion[d].id) # {}]
    /\ UNCHANGED <<partner, contact, address, invoice, payer, sequence>>

\* Answers "Cannot delete" when either count found something.
CountInvoices(d) ==
    /\ deletion[d].step = "count invoices"
    /\ deletion' = [deletion EXCEPT ![d] =
           IF deletion[d].linked \/ InvoicesOf(deletion[d].id) # {}
           THEN Idle ELSE [deletion[d] EXCEPT !.step = "delete contacts"]]
    /\ UNCHANGED <<partner, contact, address, invoice, payer, sequence>>

\* All of them or, when an invoice names one, none: the error is ignored.
DeleteContacts(d) ==
    LET contacts == ContactsOf(deletion[d].id)
    IN  /\ deletion[d].step = "delete contacts"
        /\ contact' = [c \in ContactIds |->
               IF c \in contacts /\ ~\E other \in contacts : NamesContact(other)
               THEN None ELSE contact[c]]
        /\ deletion' = [deletion EXCEPT ![d].step = "delete partner"]
        /\ UNCHANGED <<partner, address, invoice, payer, sequence>>

\* The foreign keys of every pooled connection, over the rows that the cascade
\* would delete as well.
Unreferenced(p) ==
    /\ InvoicesOf(p) = {} /\ PaymentsOf(p) = {}
    /\ \A c \in ContactsOf(p) : ~NamesContact(c)

DeletePartner(d) ==
    LET p == deletion[d].id
    IN  /\ deletion[d].step = "delete partner"
        /\ deletion' = [deletion EXCEPT ![d] = Idle]
        /\ IF Unreferenced(p)
           THEN /\ partner' = [partner EXCEPT ![p] = None]
                /\ contact' = [c \in ContactIds |-> IF contact[c] = p THEN None ELSE contact[c]]
                /\ address' = [a \in AddressIds |->
                       IF a \in AddressesOf(p, address) THEN None ELSE address[a]]
           ELSE UNCHANGED <<partner, contact, address>>
        /\ UNCHANGED <<invoice, payer, sequence>>

\* The process dies between two statements of a deletion, and starts again.
Restart ==
    /\ \E d \in Deletions : deletion[d] # Idle
    /\ deletion' = [d \in Deletions |-> Idle]
    /\ UNCHANGED <<partner, contact, address, invoice, payer, sequence>>

---------------------------------------------------------------------------
Init ==
    /\ partner = [p \in PartnerIds |-> None]
    /\ contact = [c \in ContactIds |-> None]
    /\ address = [a \in AddressIds |-> None]
    /\ invoice = [i \in Invoices |-> None]
    /\ payer = [t \in Transactions |-> None]
    /\ sequence = [partner |-> 0, contact |-> 0, address |-> 0]
    /\ deletion = [d \in Deletions |-> Idle]

Next ==
    \/ \E p \in PartnerIds, added \in BOOLEAN, entry \in Entry \cup {None},
          legacy \in Texts \cup {""} :
          \/ CreateBusinessPartner(p, added, entry, legacy)
          \/ \E kept \in SUBSET ContactIds : UpdateBusinessPartner(p, kept, added, entry, legacy)
    \/ \E i \in Invoices, inv \in SalesInvoice : SaveSalesInvoice(i, inv)
    \/ \E t \in Transactions, p \in PartnerIds \cup {None} : AllocateTransaction(t, p)
    \/ \E d \in Deletions :
          \/ \E p \in PartnerIds : DeleteBusinessPartner(d, p)
          \/ CountTransactions(d) \/ CountInvoices(d) \/ DeleteContacts(d) \/ DeletePartner(d)
    \/ Restart

Spec == Init /\ [][Next]_vars

---------------------------------------------------------------------------
(* Properties *)

\* However a deletion interleaves with saves, nothing refers to a row that is
\* gone, and an invoice's address is an address of its own partner.
ReferencesExist ==
    /\ \A i \in Invoices : Sold(i) =>
          /\ Exists(invoice[i].partner)
          /\ invoice[i].contact # None => contact[invoice[i].contact] # None
          /\ invoice[i].address # None =>
                invoice[i].address \in AddressesOf(invoice[i].partner, address)
    /\ \A t \in Transactions : payer[t] # None => Exists(payer[t])
    /\ \A c \in ContactIds : contact[c] # None => Exists(contact[c])
    /\ \A a \in AddressIds : address[a] # None => Exists(address[a].owner)

\* The versions of an address form a line: a replaced version is archived for
\* good, has one successor, and both belong to one partner.
VersionsFormLines ==
    \A a, b \in AddressIds :
        address[b] # None /\ address[b].previous = a =>
            /\ address[a] # None /\ address[a].archived
            /\ address[a].owner = address[b].owner
            /\ a < b
            /\ \A c \in AddressIds \ {b} : address[c] # None => address[c].previous # a

\* What an invoice prints as billing address changes only when the invoice
\* selects another address, whatever is done to its partner.
PrintedAddressIsHistory ==
    [][\A i \in Invoices :
          Sold(i) /\ invoice[i].address # None /\ invoice'[i].address = invoice[i].address =>
              /\ address'[invoice[i].address] # None
              /\ address'[invoice[i].address].text = address[invoice[i].address].text]_vars

\* Deleting a partner is refused while transactions or sales invoices are linked
\* to it: no statement of the deletion then removes its contacts.
LinkedPartnersKeepContacts ==
    [][\A d \in Deletions :
          LET p == deletion[d].id IN
          deletion[d].step = "delete contacts" /\ deletion'[d] # deletion[d]
          /\ (InvoicesOf(p) # {} \/ PaymentsOf(p) # {}) =>
              \A c \in ContactsOf(p) : contact'[c] = contact[c]]_vars
=============================================================================
