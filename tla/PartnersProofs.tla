--------------------------- MODULE PartnersProofs ---------------------------
(* Theorems of Partners, for every value of its constants. *)
EXTENDS Partners, WellFoundedInduction, TLAPS

---------------------------------------------------------------------------
(* The inductive invariant: ids in use were drawn, so that a new row takes *)
(* an id that nothing refers to; nothing refers to a row that is gone; and *)
(* the versions of an address form a line.                                 *)

IdsWereDrawn ==
    /\ \A p \in PartnerIds : partner[p] # None => p <= sequence.partner
    /\ \A a \in AddressIds : address[a] # None => a <= sequence.address

IInv == TypeOK /\ IdsWereDrawn /\ ReferencesExist /\ VersionsFormLines

LEMMA Constants ==
  /\ PartnerIds \subseteq Nat \ {0} /\ ContactIds \subseteq Nat \ {0} /\ AddressIds \subseteq Nat \ {0}
  /\ None \notin Nat /\ None \notin Texts /\ None # "" /\ "" \notin Texts
  /\ None \notin Address /\ None \notin SalesInvoice
  /\ None \notin PartnerIds /\ None \notin ContactIds /\ None \notin AddressIds
  BY PartnerAssumption, RowAssumption

LEMMA Initially == Init => IInv
  <1> SUFFICES ASSUME Init PROVE IInv
    OBVIOUS
  <1>1. TypeOK
    BY DEF Init, TypeOK
  <1>2. IdsWereDrawn /\ VersionsFormLines
    BY DEF Init, IdsWereDrawn, VersionsFormLines
  <1>3. ReferencesExist
    BY DEF Init, ReferencesExist, Sold
  <1> QED BY <1>1, <1>2, <1>3 DEF IInv

\* Every set of ids has a least member.
LEMMA LeastId ==
  ASSUME NEW S \in SUBSET AddressIds, S # {}
  PROVE  \E a \in S : \A b \in S : a <= b
  <1> DEFINE less == {pair \in Nat \X Nat : pair[1] < pair[2]}
  <1>1. IsWellFoundedOn(less, Nat)
    BY NatLessThanWellFounded, Zenon DEF OpToRel
  <1>2. S \subseteq Nat
    BY Constants
  <1> HIDE DEF less
  <1>3. PICK a \in S : \A b \in S : <<b, a>> \notin less
    BY <1>1, <1>2, WFMin, Zenon
  <1>4. \A b \in S : ~(b < a)
    BY <1>2, <1>3 DEF less
  <1> QED
    BY <1>2, <1>4

LEMMA FirstActiveType ==
  ASSUME NEW p \in PartnerIds, NEW table \in [AddressIds -> Address \cup {None}],
         FirstActive(p, table) # None
  PROVE  FirstActive(p, table) \in AddressesOf(p, table)
  <1> DEFINE active == {a \in AddressesOf(p, table) : ~table[a].archived}
  <1>1. active # {} /\ active \in SUBSET AddressIds
    BY DEF FirstActive, AddressesOf
  <1>2. \E a \in active : \A b \in active : a <= b
    BY <1>1, LeastId
  <1> QED
    BY <1>1, <1>2 DEF FirstActive

LEMMA AddressFields ==
  ASSUME NEW table \in [AddressIds -> Address \cup {None}], NEW a \in AddressIds,
         table[a] # None
  PROVE  /\ table[a].owner \in PartnerIds /\ table[a].text \in Texts
         /\ table[a].previous \in AddressIds \cup {None} /\ table[a].archived \in BOOLEAN
  BY DEF Address

LEMMA BillingAddressType ==
  ASSUME NEW p \in PartnerIds, NEW table \in [AddressIds -> Address \cup {None}]
  PROVE  BillingAddress(p, table) \in Texts \cup {""}
  <1>1. CASE FirstActive(p, table) = None
    BY <1>1 DEF BillingAddress
  <1>2. CASE FirstActive(p, table) # None
    BY <1>2, FirstActiveType, AddressFields DEF BillingAddress, AddressesOf
  <1> QED BY <1>1, <1>2

LEMMA EntryType ==
  ASSUME TypeOK, NEW p \in PartnerIds, NEW entry \in Entry \cup {None}, NEW legacy \in Texts \cup {""}
  PROVE  EntryOf(p, entry, legacy) \in Entry \cup {None}
  <1>1. FirstActive(p, address) # None => FirstActive(p, address) \in AddressIds
    BY FirstActiveType DEF TypeOK, AddressesOf
  <1> DEFINE fresh == [id |-> 0, text |-> legacy, archived |-> FALSE]
             edited == [id |-> FirstActive(p, address), text |-> legacy, archived |-> FALSE]
  <1>2. CASE EntryOf(p, entry, legacy) = entry
    BY <1>2
  <1>3. CASE EntryOf(p, entry, legacy) # entry
    <2>1. legacy \in Texts
      BY <1>3 DEF EntryOf
    <2>2. CASE FirstActive(p, address) = None
      <3>1. EntryOf(p, entry, legacy) = fresh
        BY <1>3, <2>2 DEF EntryOf
      <3>2. fresh \in Entry
        BY <2>1 DEF Entry
      <3> QED BY <3>1, <3>2
    <2>3. CASE FirstActive(p, address) # None
      <3>1. EntryOf(p, entry, legacy) = edited
        BY <1>3, <2>3 DEF EntryOf
      <3>2. edited \in Entry
        BY <1>1, <2>1, <2>3 DEF Entry
      <3> QED BY <3>1, <3>2
    <2> QED BY <2>2, <2>3
  <1> QED BY <1>2, <1>3

---------------------------------------------------------------------------
(* Saving a partner *)

\* What a save does to a row of bp_addresses: nothing, archiving it or not, or
\* inserting it under an id that no row has had.
RowStep(p, e, a) ==
    \/ address'[a] = address[a]
    \/ /\ e # None /\ a = e.id /\ address[a] # None /\ address[a].owner = p
       /\ address'[a] \in Address
       /\ address'[a].owner = p /\ address'[a].text = address[a].text
       /\ address'[a].previous = address[a].previous
       /\ address'[a].archived = (Changes(e) \/ e.archived)
    \/ /\ AddsRow(e) /\ a = sequence.address + 1 /\ address[a] = None
       /\ address'[a] \in Address
       /\ address'[a].owner = p
       /\ address'[a].previous = IF e.id = 0 THEN None ELSE e.id

LEMMA EntryFields ==
  ASSUME NEW e \in Entry
  PROVE  e.id \in AddressIds \cup {0} /\ e.text \in Texts /\ e.archived \in BOOLEAN
  BY DEF Entry

LEMMA SavedRow ==
  ASSUME IInv, NEW p \in PartnerIds, NEW e \in Entry \cup {None}, MaySaveAddress(p, e),
         address' = AddressesAfter(p, e), NEW a \in AddressIds
  PROVE  RowStep(p, e, a)
  <1> DEFINE new == sequence.address + 1
             next == [owner |-> p, text |-> e.text,
                      previous |-> IF e.id = 0 THEN None ELSE e.id, archived |-> e.archived]
             kept == [address[a] EXCEPT !.archived = Changes(e) \/ e.archived]
  <1>1. CASE e = None
    BY <1>1 DEF AddressesAfter, RowStep
  <1>2. CASE e # None /\ AddsRow(e) /\ a = new
    <2>1. address'[a] = next
      BY <1>2 DEF AddressesAfter
    <2>2. address[a] = None
      <3>1. sequence.address \in Nat
        BY DEF IInv, TypeOK
      <3>2. address[a] # None => a <= sequence.address
        BY DEF IInv, IdsWereDrawn
      <3> QED BY <1>2, <3>1, <3>2
    <2>3. CASE e.id = 0
      <3>1. next.previous = None
        BY <2>3
      <3>2. next \in Address
        BY <1>2, <3>1, EntryFields DEF Address
      <3> QED BY <1>2, <2>1, <2>2, <2>3, <3>2 DEF RowStep
    <2>4. CASE e.id # 0
      <3>1. next \in Address
        BY <1>2, <2>4, EntryFields DEF Address
      <3> QED BY <1>2, <2>1, <2>2, <2>4, <3>1 DEF RowStep
    <2> QED BY <2>3, <2>4
  <1>3. CASE e # None /\ ~(AddsRow(e) /\ a = new) /\ a = e.id
    <2>1. address'[a] = kept
      BY <1>3 DEF AddressesAfter
    <2>2. a # 0 /\ address[a] # None /\ address[a].owner = p
      BY <1>3, Constants DEF MaySaveAddress, AddressesOf
    <2>3. address[a] \in Address
      BY <2>2 DEF IInv, TypeOK
    <2>4. (Changes(e) \/ e.archived) \in BOOLEAN
      BY <1>3, EntryFields DEF Changes
    <2>5. kept \in Address /\ kept.owner = address[a].owner /\ kept.text = address[a].text
          /\ kept.previous = address[a].previous /\ kept.archived = (Changes(e) \/ e.archived)
      BY <2>3, <2>4 DEF Address
    <2> QED BY <1>3, <2>1, <2>2, <2>5 DEF RowStep
  <1>4. CASE e # None /\ ~(AddsRow(e) /\ a = new) /\ a # e.id
    BY <1>4 DEF AddressesAfter, RowStep
  <1> QED BY <1>1, <1>2, <1>3, <1>4

\* A row that stays keeps its partner, its text and its place in the line.
LEMMA KeptRow ==
  ASSUME IInv, NEW p \in PartnerIds, NEW e \in Entry \cup {None}, MaySaveAddress(p, e),
         address' = AddressesAfter(p, e), NEW a \in AddressIds, address[a] # None
  PROVE  /\ address'[a] # None /\ address'[a].owner = address[a].owner
         /\ address'[a].text = address[a].text /\ address'[a].previous = address[a].previous
         /\ address[a].archived => address'[a].archived
  <1>1. RowStep(p, e, a) BY SavedRow
  <1>2. CASE address'[a] = address[a] BY <1>2
  <1>3. CASE e # None /\ a = e.id /\ address[a].owner = p /\ address'[a] \in Address
             /\ address'[a].owner = p /\ address'[a].text = address[a].text
             /\ address'[a].previous = address[a].previous
             /\ address'[a].archived = (Changes(e) \/ e.archived)
    <2>1. address[a].archived => e.archived
      BY <1>3, Constants DEF MaySaveAddress
    <2> QED BY <1>3, <2>1, Constants
  <1> QED BY <1>1, <1>2, <1>3 DEF RowStep

LEMMA SavedLines ==
  ASSUME IInv, NEW p \in PartnerIds, NEW e \in Entry \cup {None}, MaySaveAddress(p, e),
         address' = AddressesAfter(p, e)
  PROVE  VersionsFormLines'
  <1> SUFFICES ASSUME NEW a \in AddressIds, NEW b \in AddressIds,
                      address'[b] # None, address'[b].previous = a
               PROVE  /\ address'[a] # None /\ address'[a].archived
                      /\ address'[a].owner = address'[b].owner
                      /\ a < b
                      /\ \A c \in AddressIds \ {b} : address'[c] # None => address'[c].previous # a
    BY DEF VersionsFormLines
  <1>1. \A c \in AddressIds : address'[c] # None /\ address[c] = None =>
            /\ AddsRow(e) /\ c = sequence.address + 1 /\ address'[c].owner = p
            /\ address'[c].previous = IF e.id = 0 THEN None ELSE e.id
    BY SavedRow DEF RowStep
  <1>2. CASE address[b] # None
    <2>1. address[b].previous = a /\ address'[b].owner = address[b].owner
      BY <1>2, KeptRow
    <2>2. /\ address[a] # None /\ address[a].archived /\ address[a].owner = address[b].owner
          /\ a < b /\ \A c \in AddressIds \ {b} : address[c] # None => address[c].previous # a
      BY <1>2, <2>1 DEF IInv, VersionsFormLines
    <2>3. address'[a] # None /\ address'[a].archived /\ address'[a].owner = address[a].owner
      BY <2>2, KeptRow
    <2>4. ASSUME NEW c \in AddressIds \ {b}, address'[c] # None PROVE address'[c].previous # a
      <3>1. CASE address[c] # None
        BY <3>1, <2>2, KeptRow
      <3>2. CASE address[c] = None
        <4>1. ~(e.id = a /\ AddsRow(e))
          BY <2>2, Constants DEF MaySaveAddress, AddsRow
        <4> QED BY <1>1, <2>4, <3>2, <4>1, Constants
      <3> QED BY <3>1, <3>2
    <2> QED BY <2>1, <2>2, <2>3, <2>4
  <1>3. CASE address[b] = None
    <2>1. AddsRow(e) /\ b = sequence.address + 1 /\ address'[b].owner = p /\ e.id = a
      BY <1>1, <1>3, Constants
    <2>2. e # None /\ e.id # 0 /\ Changes(e)
      BY <2>1, Constants DEF AddsRow
    <2>3. address[a] # None /\ address[a].owner = p
      BY <2>1, <2>2 DEF MaySaveAddress, AddressesOf
    <2>4. address'[a] # None /\ address'[a].owner = p
      BY <2>3, KeptRow
    <2>5. a < b
      <3>1. a <= sequence.address /\ sequence.address \in Nat /\ a \in Nat
        BY <2>3, Constants DEF IInv, IdsWereDrawn, TypeOK
      <3> QED BY <2>1, <3>1
    <2>6. address'[a].archived
      <3>1. address'[a] = [address[a] EXCEPT !.archived = Changes(e) \/ e.archived]
        <4>1. a \in Nat /\ b \in Nat
          BY Constants
        <4>2. a # b
          BY <2>5, <4>1
        <4>3. a # sequence.address + 1
          BY <2>1, <4>2
        <4> QED BY <2>1, <2>2, <4>3 DEF AddressesAfter
      <3>2. address[a] \in Address
        BY <2>3 DEF IInv, TypeOK
      <3> QED BY <2>2, <3>1, <3>2 DEF Address
    <2>7. ASSUME NEW c \in AddressIds \ {b}, address'[c] # None PROVE address'[c].previous # a
      <3>1. address[c] # None
        BY <1>1, <2>1, <2>7
      <3>2. address'[c].previous = address[c].previous
        BY <3>1, KeptRow
      <3>3. ASSUME address[c].previous = a PROVE FALSE
        <4>1. address[c].owner = p
          BY <2>3, <3>1, <3>3 DEF IInv, VersionsFormLines
        <4> QED BY <2>1, <2>2, <3>1, <3>3, <4>1 DEF MaySaveAddress, AddressesOf
      <3> QED BY <3>2, <3>3
    <2> QED BY <2>1, <2>4, <2>5, <2>6, <2>7
  <1> QED BY <1>2, <1>3

LEMMA SavedReferences ==
  ASSUME IInv, NEW p \in PartnerIds, NEW kept \in SUBSET ContactIds, NEW added \in BOOLEAN,
         NEW e \in Entry \cup {None}, NEW scalar \in Texts \cup {""},
         MayKeepContacts(p, kept, added), MaySaveAddress(p, e),
         contact' = ContactsAfter(p, kept, added), address' = AddressesAfter(p, e),
         partner' = [partner EXCEPT ![p] = scalar], UNCHANGED <<invoice, payer>>
  PROVE  ReferencesExist'
  <1>1. \A q \in PartnerIds : Exists(q) => partner'[q] # None
    BY Constants DEF IInv, TypeOK, Exists
  <1>2. partner'[p] # None
    BY Constants DEF IInv, TypeOK
  <1>3. ASSUME NEW i \in Invoices, invoice'[i] # None
        PROVE  /\ Exists(invoice[i].partner)'
               /\ invoice'[i].contact # None => contact'[invoice'[i].contact] # None
               /\ invoice'[i].address # None =>
                     (invoice[i].address \in AddressesOf(invoice[i].partner, address))'
    <2>1. invoice'[i] = invoice[i] /\ invoice[i] # None /\ Sold(i)
      BY <1>3 DEF Sold
    <2>2. invoice[i] \in SalesInvoice
      BY <2>1 DEF IInv, TypeOK
    <2>3. Exists(invoice[i].partner)'
      BY <1>1, <2>1 DEF IInv, ReferencesExist, Exists
    <2>4. ASSUME invoice[i].contact # None PROVE contact'[invoice[i].contact] # None
      <3> DEFINE c == invoice[i].contact
      <3>1. c \in ContactIds /\ contact[c] # None /\ NamesContact(c)
        BY <2>1, <2>2, <2>4 DEF IInv, ReferencesExist, SalesInvoice, NamesContact
      <3>2. contact[c] = p => c \in kept
        BY <3>1 DEF MayKeepContacts, ContactsOf
      <3> QED BY <3>1, <3>2, Constants DEF ContactsAfter
    <2>5. ASSUME invoice[i].address # None
          PROVE  (invoice[i].address \in AddressesOf(invoice[i].partner, address))'
      <3> DEFINE a == invoice[i].address
      <3>1. a \in AddressIds /\ address[a] # None /\ address[a].owner = invoice[i].partner
        BY <2>1, <2>5 DEF IInv, ReferencesExist, AddressesOf
      <3>2. address'[a] # None /\ address'[a].owner = address[a].owner
        BY <3>1, KeptRow
      <3> QED BY <2>1, <3>1, <3>2 DEF AddressesOf
    <2> QED BY <2>1, <2>3, <2>4, <2>5
  <1>4. ASSUME NEW t \in Transactions, payer'[t] # None PROVE Exists(payer[t])'
    BY <1>1, <1>4 DEF IInv, ReferencesExist, Exists
  <1>5. ASSUME NEW c \in ContactIds, contact'[c] # None PROVE Exists(contact[c])'
    <2>1. contact'[c] = p \/ contact'[c] = contact[c]
      BY <1>5 DEF ContactsAfter
    <2>2. contact[c] # None => Exists(contact[c])
      BY DEF IInv, ReferencesExist
    <2> QED BY <1>1, <1>2, <1>5, <2>1, <2>2 DEF Exists
  <1>6. ASSUME NEW a \in AddressIds, address'[a] # None PROVE Exists(address[a].owner)'
    <2>1. address'[a].owner = p \/ address'[a] = address[a]
      BY SavedRow DEF RowStep
    <2>2. address[a] # None => Exists(address[a].owner)
      BY DEF IInv, ReferencesExist
    <2> QED BY <1>1, <1>2, <1>6, <2>1, <2>2 DEF Exists
  <1> QED BY <1>3, <1>4, <1>5, <1>6 DEF ReferencesExist, Sold

\* The ids that AUTOINCREMENT gives.
LEMMA DrawnBefore ==
  ASSUME NEW m \in Nat, NEW n \in Nat, n = m + 1
  PROVE  ~(n <= m)
  OBVIOUS

LEMMA StillDrawn ==
  ASSUME NEW k \in Nat, NEW m \in Nat, NEW n \in Nat, k <= m, m <= n
  PROVE  k <= n
  OBVIOUS

LEMMA NotBeyond ==
  ASSUME NEW n \in Nat
  PROVE  n <= n
  OBVIOUS

\* What a save does to the sequences.
SequenceGrows(p, addsRow) ==
    /\ sequence' \in [partner: Nat, contact: Nat, address: Nat]
    /\ sequence.partner <= sequence'.partner /\ p <= sequence'.partner
    /\ sequence.address <= sequence'.address
    /\ addsRow => sequence'.address = sequence.address + 1

LEMMA SavedSequence ==
  ASSUME sequence \in [partner: Nat, contact: Nat, address: Nat], NEW p \in Nat,
         NEW exists \in BOOLEAN, NEW added \in BOOLEAN, NEW addsRow \in BOOLEAN,
         exists <=> p <= sequence.partner,
         sequence' = [partner |-> IF exists THEN sequence.partner ELSE p,
                      contact |-> sequence.contact + (IF added THEN 1 ELSE 0),
                      address |-> sequence.address + (IF addsRow THEN 1 ELSE 0)]
  PROVE  SequenceGrows(p, addsRow)
  <1>1. CASE exists /\ addsRow
    BY <1>1 DEF SequenceGrows
  <1>2. CASE exists /\ ~addsRow
    BY <1>2 DEF SequenceGrows
  <1>3. CASE ~exists /\ addsRow
    BY <1>3 DEF SequenceGrows
  <1>4. CASE ~exists /\ ~addsRow
    BY <1>4 DEF SequenceGrows
  <1> QED BY <1>1, <1>2, <1>3, <1>4

LEMMA SavedTypes ==
  ASSUME IInv, NEW p \in PartnerIds, NEW kept \in SUBSET ContactIds, NEW added \in BOOLEAN,
         NEW e \in Entry \cup {None}, NEW scalar \in Texts \cup {""},
         MaySaveAddress(p, e),
         contact' = ContactsAfter(p, kept, added), address' = AddressesAfter(p, e),
         partner' = [partner EXCEPT ![p] = scalar],
         SequenceGrows(p, AddsRow(e)), UNCHANGED <<invoice, payer, deletion>>
  PROVE  TypeOK' /\ IdsWereDrawn'
  <1>1. p \in Nat /\ sequence.partner \in Nat /\ sequence.contact \in Nat /\ sequence.address \in Nat
    BY Constants DEF IInv, TypeOK
  <1>2. contact' \in [ContactIds -> PartnerIds \cup {None}]
    BY DEF ContactsAfter, IInv, TypeOK
  <1>3. address' \in [AddressIds -> Address \cup {None}]
    <2>1. address' = [a \in AddressIds |-> address'[a]]
      BY DEF AddressesAfter, IInv, TypeOK
    <2>2. ASSUME NEW a \in AddressIds PROVE address'[a] \in Address \cup {None}
      BY SavedRow DEF RowStep, IInv, TypeOK
    <2> QED BY <2>1, <2>2
  <1>4. partner' \in [PartnerIds -> Texts \cup {"", None}]
    BY DEF IInv, TypeOK
  <1>5. /\ sequence' \in [partner: Nat, contact: Nat, address: Nat]
        /\ sequence.partner <= sequence'.partner /\ p <= sequence'.partner
        /\ sequence.address <= sequence'.address
        /\ AddsRow(e) => sequence'.address = sequence.address + 1
    BY DEF SequenceGrows
  <1>6. TypeOK'
    BY <1>2, <1>3, <1>4, <1>5 DEF IInv, TypeOK
  <1>7. \A q \in PartnerIds : partner'[q] # None => q <= sequence'.partner
    <2> TAKE q \in PartnerIds
    <2>1. partner[q] # None => q <= sequence.partner
      BY DEF IInv, IdsWereDrawn
    <2>2. q # p => partner'[q] = partner[q]
      BY DEF IInv, TypeOK
    <2>3. q \in Nat /\ sequence'.partner \in Nat
      BY <1>5, Constants
    <2>4. CASE q = p
      BY <1>5, <2>4
    <2>5. CASE q # p
      BY <1>1, <1>5, <2>1, <2>2, <2>3, <2>5, StillDrawn
    <2> QED BY <2>4, <2>5
  <1>8. \A a \in AddressIds : address'[a] # None => a <= sequence'.address
    <2> TAKE a \in AddressIds
    <2>1. address[a] # None => a <= sequence.address
      BY DEF IInv, IdsWereDrawn
    <2>2. address'[a] # None => address[a] # None \/ (AddsRow(e) /\ a = sequence.address + 1)
      BY SavedRow DEF RowStep
    <2>3. a \in Nat /\ sequence'.address \in Nat
      BY <1>5, Constants
    <2>5. CASE address[a] # None
      BY <1>1, <1>5, <2>1, <2>3, <2>5, StillDrawn
    <2>4. CASE AddsRow(e) /\ a = sequence.address + 1
      <3>1. a = sequence'.address
        BY <1>5, <2>4
      <3> QED BY <2>3, <3>1, NotBeyond, Zenon
    <2> QED BY <2>2, <2>4, <2>5
  <1> QED BY <1>6, <1>7, <1>8 DEF IdsWereDrawn

LEMMA SaveStep ==
  ASSUME IInv, NEW p \in PartnerIds, Exists(p) \/ p = sequence.partner + 1,
         NEW kept \in SUBSET ContactIds, NEW added \in BOOLEAN,
         NEW entry \in Entry \cup {None}, NEW legacy \in Texts \cup {""},
         SavePartner(p, kept, added, entry, legacy)
  PROVE  IInv'
  <1> DEFINE e == EntryOf(p, entry, legacy)
             scalar == ScalarAfter(p, AddressesAfter(p, e))
  <1>1. e \in Entry \cup {None}
    BY EntryType DEF IInv
  <1> HIDE DEF e
  <1>2. /\ MayKeepContacts(p, kept, added) /\ MaySaveAddress(p, e)
        /\ contact' = ContactsAfter(p, kept, added) /\ address' = AddressesAfter(p, e)
        /\ partner' = [partner EXCEPT ![p] = scalar]
        /\ sequence' = [partner |-> IF Exists(p) THEN sequence.partner ELSE p,
                        contact |-> sequence.contact + (IF added THEN 1 ELSE 0),
                        address |-> sequence.address + (IF AddsRow(e) THEN 1 ELSE 0)]
        /\ UNCHANGED <<invoice, payer, deletion>>
    BY DEF SavePartner, e
  <1>3. scalar \in Texts \cup {""}
    <2>1. address' \in [AddressIds -> Address \cup {None}]
      <3>1. address' = [a \in AddressIds |-> address'[a]]
        BY <1>2 DEF AddressesAfter, IInv, TypeOK
      <3>2. ASSUME NEW a \in AddressIds PROVE address'[a] \in Address \cup {None}
        BY <1>1, <1>2, SavedRow DEF RowStep, IInv, TypeOK
      <3> QED BY <3>1, <3>2
    <2> QED BY <1>2, <2>1, BillingAddressType DEF ScalarAfter
  <1> HIDE DEF scalar
  <1>4. Exists(p) <=> p <= sequence.partner
    <2>1. partner[p] # None => p <= sequence.partner
      BY DEF IInv, IdsWereDrawn
    <2>2. sequence.partner \in Nat /\ p \in Nat
      BY Constants DEF IInv, TypeOK
    <2>3. CASE Exists(p)
      BY <2>1, <2>3 DEF Exists
    <2>4. CASE p = sequence.partner + 1
      BY <2>1, <2>2, <2>4, DrawnBefore DEF Exists
    <2> QED BY <2>3, <2>4
  <1>5. SequenceGrows(p, AddsRow(e))
    <2>1. AddsRow(e) \in BOOLEAN /\ Exists(p) \in BOOLEAN
      BY DEF AddsRow, Exists
    <2>2. sequence \in [partner: Nat, contact: Nat, address: Nat] /\ p \in Nat
      BY Constants DEF IInv, TypeOK
    <2> QED BY <1>2, <1>4, <2>1, <2>2, SavedSequence
  <1>6. VersionsFormLines'
    BY <1>1, <1>2, SavedLines
  <1>7. ReferencesExist'
    BY <1>1, <1>2, <1>3, SavedReferences
  <1>8. TypeOK' /\ IdsWereDrawn'
    BY <1>1, <1>2, <1>3, <1>5, SavedTypes
  <1> QED BY <1>6, <1>7, <1>8 DEF IInv

---------------------------------------------------------------------------
(* The other actions *)

LEMMA InvoiceStep ==
  ASSUME IInv, NEW i \in Invoices, NEW inv \in SalesInvoice, SaveSalesInvoice(i, inv)
  PROVE  IInv'
  <1>1. /\ ValidAddress(i, inv) /\ ReferencesOf(inv) /\ invoice' = [invoice EXCEPT ![i] = inv]
        /\ UNCHANGED <<partner, contact, address, payer, sequence, deletion>>
    BY DEF SaveSalesInvoice
  <1>2. TypeOK'
    BY <1>1 DEF IInv, TypeOK
  <1>3. IdsWereDrawn' /\ VersionsFormLines'
    BY <1>1 DEF IInv, IdsWereDrawn, VersionsFormLines
  <1>4. inv.address # None => inv.address \in AddressesOf(inv.partner, address)
    BY <1>1 DEF ValidAddress
  <1>5. ReferencesExist'
    <2>1. ASSUME NEW j \in Invoices, invoice'[j] # None
          PROVE  /\ Exists(invoice'[j].partner)
                 /\ invoice'[j].contact # None => contact[invoice'[j].contact] # None
                 /\ invoice'[j].address # None =>
                       invoice'[j].address \in AddressesOf(invoice'[j].partner, address)
      <3>1. CASE j = i
        <4>1. invoice'[j] = inv
          BY <1>1, <3>1 DEF IInv, TypeOK
        <4> QED BY <1>1, <1>4, <4>1 DEF ReferencesOf
      <3>2. CASE j # i
        <4>1. invoice'[j] = invoice[j]
          BY <1>1, <3>2 DEF IInv, TypeOK
        <4> QED BY <2>1, <4>1 DEF IInv, ReferencesExist, Sold
      <3> QED BY <3>1, <3>2
    <2> QED BY <1>1, <2>1 DEF IInv, ReferencesExist, Sold, Exists, AddressesOf
  <1> QED BY <1>2, <1>3, <1>5 DEF IInv

LEMMA AllocateStep ==
  ASSUME IInv, NEW t \in Transactions, NEW p \in PartnerIds \cup {None}, AllocateTransaction(t, p)
  PROVE  IInv'
  <1>1. /\ p # None => Exists(p)
        /\ payer' = [payer EXCEPT ![t] = p]
        /\ UNCHANGED <<partner, contact, address, invoice, sequence, deletion>>
    BY DEF AllocateTransaction
  <1>2. TypeOK'
    BY <1>1 DEF IInv, TypeOK
  <1>3. IdsWereDrawn' /\ VersionsFormLines'
    BY <1>1 DEF IInv, IdsWereDrawn, VersionsFormLines
  <1>4. ReferencesExist'
    BY <1>1 DEF IInv, TypeOK, ReferencesExist, Sold, Exists, AddressesOf
  <1> QED BY <1>2, <1>3, <1>4 DEF IInv

\* Steps of a deletion that write nothing.
LEMMA ReadingStep ==
  ASSUME IInv, UNCHANGED <<partner, contact, address, invoice, payer, sequence>>,
         deletion' \in [Deletions -> {Idle} \cup [step : Steps, id : PartnerIds, linked : BOOLEAN]]
  PROVE  IInv'
  <1>1. TypeOK'
    BY DEF IInv, TypeOK
  <1>2. IdsWereDrawn' /\ VersionsFormLines' /\ ReferencesExist'
    BY DEF IInv, IdsWereDrawn, VersionsFormLines, ReferencesExist, Sold, Exists, AddressesOf
  <1> QED BY <1>1, <1>2 DEF IInv

LEMMA DeletionFields ==
  ASSUME TypeOK, NEW d \in Deletions, deletion[d].step \in Steps
  PROVE  /\ deletion[d] \in [step : Steps, id : PartnerIds, linked : BOOLEAN]
         /\ deletion[d].id \in PartnerIds
  <1>1. deletion[d] # Idle
    <2>1. Idle.step = "idle"
      BY DEF Idle
    <2>2. "idle" \notin Steps
      BY DEF Steps
    <2> QED BY <2>1, <2>2
  <1>2. deletion[d] \in [step : Steps, id : PartnerIds, linked : BOOLEAN]
    BY <1>1 DEF TypeOK
  <1> QED BY <1>2

LEMMA DeleteContactsStep ==
  ASSUME IInv, NEW d \in Deletions, DeleteContacts(d)
  PROVE  IInv'
  <1> DEFINE p == deletion[d].id
             gone(c) == c \in ContactsOf(p) /\ ~\E other \in ContactsOf(p) : NamesContact(other)
  <1>1. /\ deletion[d].step = "delete contacts"
        /\ contact' = [c \in ContactIds |-> IF gone(c) THEN None ELSE contact[c]]
        /\ deletion' = [deletion EXCEPT ![d].step = "delete partner"]
        /\ UNCHANGED <<partner, address, invoice, payer, sequence>>
    BY DEF DeleteContacts
  <1>2. \A c \in ContactIds : gone(c) => ~NamesContact(c)
    OBVIOUS
  <1> HIDE DEF gone
  <1>3. TypeOK'
    <2>1. contact' \in [ContactIds -> PartnerIds \cup {None}]
      BY <1>1 DEF IInv, TypeOK
    <2>2. deletion[d] \in [step : Steps, id : PartnerIds, linked : BOOLEAN]
      BY <1>1, DeletionFields DEF IInv, Steps
    <2>3. [deletion[d] EXCEPT !.step = "delete partner"] \in [step : Steps, id : PartnerIds, linked : BOOLEAN]
      BY <2>2 DEF Steps
    <2> QED BY <1>1, <2>1, <2>3 DEF IInv, TypeOK
  <1>4. IdsWereDrawn' /\ VersionsFormLines'
    BY <1>1 DEF IInv, IdsWereDrawn, VersionsFormLines
  <1>5. \A i \in Invoices : Sold(i) /\ invoice[i].contact # None => contact'[invoice[i].contact] # None
    <2> TAKE i \in Invoices
    <2> HAVE Sold(i) /\ invoice[i].contact # None
    <2>1. invoice[i].contact \in ContactIds
      BY DEF IInv, TypeOK, Sold, SalesInvoice
    <2>2. NamesContact(invoice[i].contact)
      BY DEF NamesContact
    <2>3. contact[invoice[i].contact] # None
      BY DEF IInv, ReferencesExist
    <2> QED BY <1>1, <1>2, <2>1, <2>2, <2>3
  <1>6. \A c \in ContactIds : contact'[c] # None => contact'[c] = contact[c]
    BY <1>1
  <1>7. ReferencesExist'
    BY <1>1, <1>5, <1>6 DEF IInv, ReferencesExist, Sold, Exists, AddressesOf
  <1> QED BY <1>3, <1>4, <1>7 DEF IInv

LEMMA DeletePartnerStep ==
  ASSUME IInv, NEW d \in Deletions, DeletePartner(d)
  PROVE  IInv'
  <1> DEFINE p == deletion[d].id
  <1>1. deletion' = [deletion EXCEPT ![d] = Idle] /\ UNCHANGED <<invoice, payer, sequence>>
    BY DEF DeletePartner
  <1>2. CASE ~Unreferenced(p)
    <2>1. UNCHANGED <<partner, contact, address>>
      BY <1>2 DEF DeletePartner
    <2> QED BY <1>1, <2>1, ReadingStep DEF IInv, TypeOK
  <1>3. CASE Unreferenced(p)
    <2>1. /\ partner' = [partner EXCEPT ![p] = None]
          /\ contact' = [c \in ContactIds |-> IF contact[c] = p THEN None ELSE contact[c]]
          /\ address' = [a \in AddressIds |->
                 IF a \in AddressesOf(p, address) THEN None ELSE address[a]]
      BY <1>3 DEF DeletePartner
    <2>2. \A q \in PartnerIds : partner'[q] # None => partner[q] # None
      BY <2>1 DEF IInv, TypeOK
    <2>3. \A q \in PartnerIds \ {p} : partner'[q] = partner[q]
      BY <2>1 DEF IInv, TypeOK
    <2>4. \A a \in AddressIds : address'[a] # None =>
              address'[a] = address[a] /\ address[a].owner # p
      BY <2>1 DEF AddressesOf
    <2>5. \A a \in AddressIds : address[a].owner # p => address'[a] = address[a]
      BY <2>1 DEF AddressesOf
    <2>6. \A c \in ContactIds : contact'[c] # None => contact'[c] = contact[c] /\ contact[c] # p
      BY <2>1
    <2>7. TypeOK'
      <3>1. partner' \in [PartnerIds -> Texts \cup {"", None}]
        BY <2>1 DEF IInv, TypeOK
      <3>2. contact' \in [ContactIds -> PartnerIds \cup {None}]
        BY <2>1 DEF IInv, TypeOK
      <3>3. address' \in [AddressIds -> Address \cup {None}]
        BY <2>1 DEF IInv, TypeOK
      <3> QED BY <1>1, <3>1, <3>2, <3>3 DEF IInv, TypeOK
    <2>8. IdsWereDrawn'
      BY <1>1, <2>2, <2>4 DEF IInv, IdsWereDrawn
    <2>9. VersionsFormLines'
      <3> SUFFICES ASSUME NEW a \in AddressIds, NEW b \in AddressIds,
                          address'[b] # None, address'[b].previous = a
                   PROVE  /\ address'[a] # None /\ address'[a].archived
                          /\ address'[a].owner = address'[b].owner
                          /\ a < b
                          /\ \A c \in AddressIds \ {b} : address'[c] # None => address'[c].previous # a
        BY DEF VersionsFormLines
      <3>1. address'[b] = address[b] /\ address[b] # None /\ address[b].owner # p
        BY <2>4
      <3>2. /\ address[a] # None /\ address[a].archived /\ address[a].owner = address[b].owner
            /\ a < b /\ \A c \in AddressIds \ {b} : address[c] # None => address[c].previous # a
        BY <3>1 DEF IInv, VersionsFormLines
      <3>3. address'[a] = address[a]
        BY <2>5, <3>1, <3>2
      <3> QED BY <2>4, <3>1, <3>2, <3>3
    <2>10. ReferencesExist'
      <3>1. ASSUME NEW i \in Invoices, Sold(i)
            PROVE  /\ Exists(invoice[i].partner)'
                   /\ invoice[i].contact # None => contact'[invoice[i].contact] # None
                   /\ invoice[i].address # None =>
                         (invoice[i].address \in AddressesOf(invoice[i].partner, address))'
        <4>1. invoice[i].partner # p
          BY <1>3, <3>1 DEF Unreferenced, InvoicesOf
        <4>2. invoice[i].contact # None =>
                 /\ invoice[i].contact \in ContactIds /\ contact[invoice[i].contact] # None
                 /\ contact[invoice[i].contact] # p
          <5>1. invoice[i].contact # None =>
                   /\ invoice[i].contact \in ContactIds /\ contact[invoice[i].contact] # None
                   /\ NamesContact(invoice[i].contact)
            BY <3>1 DEF IInv, TypeOK, ReferencesExist, Sold, SalesInvoice, NamesContact
          <5> QED BY <1>3, <5>1 DEF Unreferenced, ContactsOf
        <4>3. invoice[i].address # None =>
                 invoice[i].address \in AddressesOf(invoice[i].partner, address)
          BY <3>1 DEF IInv, ReferencesExist
        <4>4. Exists(invoice[i].partner)'
          BY <1>1, <2>3, <3>1, <4>1 DEF IInv, ReferencesExist, Exists
        <4>5. invoice[i].contact # None => contact'[invoice[i].contact] # None
          BY <2>1, <4>2
        <4>6. invoice[i].address # None =>
                 (invoice[i].address \in AddressesOf(invoice[i].partner, address))'
          BY <1>1, <2>5, <4>1, <4>3 DEF AddressesOf
        <4> QED BY <4>4, <4>5, <4>6
      <3>2. ASSUME NEW t \in Transactions, payer[t] # None PROVE Exists(payer[t])'
        <4>1. payer[t] # p
          BY <1>3 DEF Unreferenced, PaymentsOf
        <4> QED BY <1>1, <2>3, <3>2, <4>1 DEF IInv, ReferencesExist, Exists
      <3>3. ASSUME NEW c \in ContactIds, contact'[c] # None PROVE Exists(contact[c])'
        BY <2>3, <2>6, <3>3 DEF IInv, ReferencesExist, Exists
      <3>4. ASSUME NEW a \in AddressIds, address'[a] # None PROVE Exists(address[a].owner)'
        BY <2>3, <2>4, <3>4 DEF IInv, ReferencesExist, Exists
      <3> QED BY <1>1, <3>1, <3>2, <3>3, <3>4 DEF ReferencesExist, Sold
    <2> QED BY <2>7, <2>8, <2>9, <2>10 DEF IInv
  <1> QED BY <1>2, <1>3

LEMMA OtherDeletionSteps ==
  ASSUME IInv, NEW d \in Deletions,
         \/ \E p \in PartnerIds : DeleteBusinessPartner(d, p)
         \/ CountTransactions(d)
         \/ CountInvoices(d)
  PROVE  IInv'
  <1> DEFINE Deletion == [step : Steps, id : PartnerIds, linked : BOOLEAN]
  <1>1. deletion \in [Deletions -> {Idle} \cup Deletion]
    BY DEF IInv, TypeOK
  <1>2. ASSUME NEW p \in PartnerIds, DeleteBusinessPartner(d, p) PROVE IInv'
    <2>1. [step |-> "count transactions", id |-> p, linked |-> FALSE] \in Deletion
      BY DEF Steps
    <2>2. deletion' \in [Deletions -> {Idle} \cup Deletion]
      BY <1>1, <1>2, <2>1 DEF DeleteBusinessPartner
    <2> QED BY <1>2, <2>2, ReadingStep DEF DeleteBusinessPartner
  <1>3. CASE CountTransactions(d)
    <2> DEFINE linked == PaymentsOf(deletion[d].id) # {}
               next == [deletion[d] EXCEPT !.step = "count invoices", !.linked = linked]
    <2>1. deletion[d] \in Deletion
      BY <1>3, DeletionFields DEF CountTransactions, Steps, IInv
    <2>2. linked \in BOOLEAN
      OBVIOUS
    <2> HIDE DEF linked
    <2>3. next \in Deletion
      BY <2>1, <2>2 DEF Steps
    <2>4. deletion' = [deletion EXCEPT ![d] = next]
      BY <1>3 DEF CountTransactions, linked
    <2>5. deletion' \in [Deletions -> {Idle} \cup Deletion]
      BY <1>1, <2>3, <2>4
    <2> QED BY <1>3, <2>5, ReadingStep DEF CountTransactions
  <1>4. CASE CountInvoices(d)
    <2> DEFINE refused == deletion[d].linked \/ InvoicesOf(deletion[d].id) # {}
               next == [deletion[d] EXCEPT !.step = "delete contacts"]
    <2>1. deletion[d] \in Deletion
      BY <1>4, DeletionFields DEF CountInvoices, Steps, IInv
    <2>2. next \in Deletion
      BY <2>1 DEF Steps
    <2>3. deletion' = [deletion EXCEPT ![d] = IF refused THEN Idle ELSE next]
      BY <1>4 DEF CountInvoices
    <2>4. deletion' \in [Deletions -> {Idle} \cup Deletion]
      BY <1>1, <2>2, <2>3
    <2> QED BY <1>4, <2>4, ReadingStep DEF CountInvoices
  <1> QED BY <1>2, <1>3, <1>4

LEMMA RestartStep ==
  ASSUME IInv, Restart
  PROVE  IInv'
  BY ReadingStep DEF Restart

---------------------------------------------------------------------------
(* The theorems *)

\* Whatever the interleaving of saves and deletions, IInv holds.
THEOREM Invariance == Spec => []IInv
  <1>1. IInv /\ [Next]_vars => IInv'
    <2> SUFFICES ASSUME IInv, [Next]_vars PROVE IInv'
      OBVIOUS
    <2>1. ASSUME NEW p \in PartnerIds, NEW added \in BOOLEAN, NEW entry \in Entry \cup {None},
                 NEW legacy \in Texts \cup {""}, CreateBusinessPartner(p, added, entry, legacy)
          PROVE  IInv'
      BY <2>1, SaveStep DEF CreateBusinessPartner
    <2>2. ASSUME NEW p \in PartnerIds, NEW added \in BOOLEAN, NEW entry \in Entry \cup {None},
                 NEW legacy \in Texts \cup {""}, NEW kept \in SUBSET ContactIds,
                 UpdateBusinessPartner(p, kept, added, entry, legacy)
          PROVE  IInv'
      BY <2>2, SaveStep DEF UpdateBusinessPartner
    <2>3. ASSUME NEW i \in Invoices, NEW inv \in SalesInvoice, SaveSalesInvoice(i, inv) PROVE IInv'
      BY <2>3, InvoiceStep
    <2>4. ASSUME NEW t \in Transactions, NEW p \in PartnerIds \cup {None}, AllocateTransaction(t, p)
          PROVE  IInv'
      BY <2>4, AllocateStep
    <2>5. ASSUME NEW d \in Deletions,
                 \/ \E p \in PartnerIds : DeleteBusinessPartner(d, p)
                 \/ CountTransactions(d) \/ CountInvoices(d)
          PROVE  IInv'
      BY <2>5, OtherDeletionSteps
    <2>6. ASSUME NEW d \in Deletions, DeleteContacts(d) PROVE IInv'
      BY <2>6, DeleteContactsStep
    <2>7. ASSUME NEW d \in Deletions, DeletePartner(d) PROVE IInv'
      BY <2>7, DeletePartnerStep
    <2>8. CASE Restart
      BY <2>8, RestartStep
    <2>9. CASE UNCHANGED vars
      BY <2>9, ReadingStep DEF vars, IInv, TypeOK
    <2> QED BY <2>1, <2>2, <2>3, <2>4, <2>5, <2>6, <2>7, <2>8, <2>9 DEF Next
  <1> QED BY Initially, <1>1, PTL DEF Spec

\* Nothing refers to a partner, a contact or an address that is gone, although
\* the four statements of DeleteBusinessPartner commit one by one.
THEOREM NothingDangles == Spec => []ReferencesExist
  <1>1. IInv => ReferencesExist
    BY DEF IInv
  <1> QED BY Invariance, <1>1, PTL

\* The versions that saveBPAddresses keeps of an address form a line.
THEOREM LinesOfVersions == Spec => []VersionsFormLines
  <1>1. IInv => VersionsFormLines
    BY DEF IInv
  <1> QED BY Invariance, <1>1, PTL

\* No request rewrites or removes the text of an address that an invoice
\* selects: saves of its partner keep it as a version, deletions are refused.
THEOREM InvoicesKeepTheirAddress == Spec => PrintedAddressIsHistory
  <1> DEFINE Kept == \A i \in Invoices :
          Sold(i) /\ invoice[i].address # None /\ invoice'[i].address = invoice[i].address =>
              /\ address'[invoice[i].address] # None
              /\ address'[invoice[i].address].text = address[invoice[i].address].text
  <1>1. IInv /\ [Next]_vars => [Kept]_vars
    <2> SUFFICES ASSUME IInv, Next, NEW i \in Invoices, Sold(i), invoice[i].address # None
                 PROVE  /\ address'[invoice[i].address] # None
                        /\ address'[invoice[i].address].text = address[invoice[i].address].text
      BY DEF Kept
    <2> DEFINE a == invoice[i].address
    <2>1. a \in AddressIds /\ address[a] # None /\ address[a].owner = invoice[i].partner
      BY DEF IInv, ReferencesExist, AddressesOf
    <2> HIDE DEF a
    <2>2. ASSUME NEW p \in PartnerIds, NEW entry \in Entry \cup {None},
                 NEW legacy \in Texts \cup {""}, NEW kept, NEW added,
                 SavePartner(p, kept, added, entry, legacy)
          PROVE  address'[a] # None /\ address'[a].text = address[a].text
      <3> DEFINE e == EntryOf(p, entry, legacy)
      <3>1. e \in Entry \cup {None}
        BY EntryType DEF IInv
      <3> HIDE DEF e
      <3>2. MaySaveAddress(p, e) /\ address' = AddressesAfter(p, e)
        BY <2>2 DEF SavePartner, e
      <3> QED BY <2>1, <3>1, <3>2, KeptRow
    <2>3. ASSUME NEW d \in Deletions, DeletePartner(d)
          PROVE  address'[a] # None /\ address'[a].text = address[a].text
      <3>1. CASE ~Unreferenced(deletion[d].id)
        BY <2>1, <2>3, <3>1 DEF DeletePartner
      <3>2. CASE Unreferenced(deletion[d].id)
        <4>1. invoice[i].partner # deletion[d].id
          BY <3>2 DEF Unreferenced, InvoicesOf
        <4>2. a \notin AddressesOf(deletion[d].id, address)
          BY <2>1, <4>1 DEF AddressesOf
        <4>3. address' = [b \in AddressIds |->
                 IF b \in AddressesOf(deletion[d].id, address) THEN None ELSE address[b]]
          BY <2>3, <3>2 DEF DeletePartner
        <4> QED BY <2>1, <4>2, <4>3
      <3> QED BY <3>1, <3>2
    <2>4. ASSUME UNCHANGED address
          PROVE  address'[a] # None /\ address'[a].text = address[a].text
      BY <2>1, <2>4
    <2>5. ASSUME NEW d \in Deletions, DeleteContacts(d) PROVE UNCHANGED address
      BY <2>5 DEF DeleteContacts
    <2> QED
      BY <2>2, <2>3, <2>4, <2>5 DEF Next, a, CreateBusinessPartner, UpdateBusinessPartner,
         SaveSalesInvoice, AllocateTransaction, DeleteBusinessPartner, CountTransactions,
         CountInvoices, Restart
  <1> QED BY Invariance, <1>1, PTL DEF Spec, PrintedAddressIsHistory, Kept
=============================================================================
