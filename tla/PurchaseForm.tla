---------------------------- MODULE PurchaseForm ----------------------------
(***************************************************************************)
(* The screen of purchase invoices in a browser:                           *)
(* frontend/.../purchase-invoices.component.ts with the conditions of its  *)
(* template. The user types, clicks and leaves while answers of a party    *)
(* lookup, an upload and a save are under way, and arrive in any order.    *)
(*                                                                         *)
(* What the server does with a save is in Subledger. The refreshes of the  *)
(* register, which only read, are left out, but for the one that ends a    *)
(* save of payments. linkExisting, which the template does not offer, is    *)
(* left out too.                                                           *)
(***************************************************************************)
EXTENDS Naturals

CONSTANTS
    Gstins,          \* GSTINs of the right shape; each names a saved party
    Register,        \* the invoices that may be opened: their party
    MaxDrafts,       \* bound: the drafts opened in one visit
    Partial,         \* a GSTIN that is incomplete, or none
    Blank, Typed,    \* texts of a name or address that are of no saved party
    None

Words == Gstins \cup {Blank, Typed}
Party == [gstin: Gstins \cup {Partial}, name: Words, address: Words]
\* no is the identity of the object, which add, edit and parse create.
Draft == [no: Nat, gstin: Gstins \cup {Partial}, name: Words, address: Words]
Request == [kind: {"invoice", "payments", "balances"}, sent: Draft \cup {None}]

VARIABLES
    loading, saving, parsing,    \* the flags of the component
    source,      \* whether the screen was opened for a withdrawal
    draft,       \* the invoice in the editor
    opened,      \* how many drafts there have been
    lookup,      \* partyLookup, with the values its callbacks have captured
    inFlight,    \* requests under way that write, and their refresh
    entered      \* history: name and address when the GSTIN was last entered

vars == <<loading, saving, parsing, source, draft, opened, lookup, inFlight, entered>>

TypeOK ==
    /\ {loading, saving, parsing, source} \subseteq BOOLEAN
    /\ draft \in Draft \cup {None} /\ lookup \in Draft \cup {None}
    /\ opened \in 0 .. MaxDrafts
    /\ inFlight \subseteq Request
    /\ entered \in [name: Words, address: Words]
    /\ draft # None => draft.no <= opened

NoParty == [gstin |-> Partial, name |-> Blank, address |-> Blank]
Names(d) == [name |-> d.name, address |-> d.address]
DraftOf(party) == [no |-> opened + 1, gstin |-> party.gstin, name |-> party.name,
                   address |-> party.address]

\* this.draft = {...}, after partyLookup?.unsubscribe().
Open(party) ==
    /\ opened < MaxDrafts
    /\ opened' = opened + 1
    /\ draft' = DraftOf(party)
    /\ lookup' = None
    /\ entered' = Names(party)

Idle == ~saving /\ ~loading /\ ~parsing

---------------------------------------------------------------------------
(* Opening and closing *)

\* ngOnInit, when both lists have arrived: the register, an invoice that the
\* URL names, or a draft for a withdrawal that is eligible.
Load ==
    /\ loading /\ loading' = FALSE
    /\ \/ UNCHANGED <<source, draft, opened, lookup, entered>>
       \/ /\ \E party \in Register : Open(party)
          /\ UNCHANGED source
       \/ /\ \E name \in {Blank, Typed} : Open([NoParty EXCEPT !.name = name])
          /\ source' = TRUE
    /\ UNCHANGED <<saving, parsing, inFlight>>

Add == Idle /\ Open(NoParty) /\ UNCHANGED <<loading, saving, parsing, source, inFlight>>

WhileParsing == TRUE
NotParsing == ~parsing
MayEdit == NotParsing

\* onGridCellClicked; the grid is hidden while loading.
Edit(party) ==
    /\ ~loading /\ ~saving /\ MayEdit
    /\ Open(party)
    /\ UNCHANGED <<loading, saving, parsing, source, inFlight>>

\* The lookup goes on.
Cancel ==
    /\ draft # None /\ ~saving
    /\ draft' = None
    /\ UNCHANGED <<loading, saving, parsing, source, opened, lookup, inFlight, entered>>

FirstDraft == None

\* ngOnDestroy, and the component of the next visit.
Leave ==
    /\ loading' = TRUE /\ saving' = FALSE /\ parsing' = FALSE /\ source' = FALSE
    /\ draft' = FirstDraft /\ opened' = 0 /\ lookup' = None /\ inFlight' = {}
    /\ entered' = Names(NoParty)

---------------------------------------------------------------------------
(* Typing and the party lookup *)

\* The fieldset of the form is disabled while saving.
TypeName ==
    /\ draft # None /\ ~saving
    /\ \/ draft' = [draft EXCEPT !.name = Typed]
       \/ draft' = [draft EXCEPT !.address = Typed]
    /\ UNCHANGED <<loading, saving, parsing, source, opened, lookup, inFlight, entered>>

GstinChanged(gstin) ==
    /\ draft # None /\ ~saving
    /\ draft' = [draft EXCEPT !.gstin = gstin]
    /\ lookup' = IF gstin \in Gstins THEN draft' ELSE None
    /\ entered' = Names(draft)
    /\ UNCHANGED <<loading, saving, parsing, source, opened, inFlight>>

MayFill == Names(draft) = Names(lookup)

\* The answer still belongs to the screen.
Belongs ==
    /\ draft # None /\ draft.no = lookup.no /\ draft.gstin = lookup.gstin
IsWanted == Belongs /\ ~saving

\* next: of the subscription in gstinChanged.
LookupFound ==
    /\ lookup # None /\ lookup' = None
    /\ draft' = IF IsWanted /\ MayFill
                THEN [draft EXCEPT !.name = lookup.gstin, !.address = lookup.gstin]
                ELSE draft
    /\ UNCHANGED <<loading, saving, parsing, source, opened, inFlight, entered>>

\* error: 404, or no answer.
LookupFails ==
    /\ lookup # None /\ lookup' = None
    /\ UNCHANGED <<loading, saving, parsing, source, draft, opened, inFlight, entered>>

---------------------------------------------------------------------------
(* Upload and parse *)

ParseInvoice ==
    /\ Idle /\ draft = None
    /\ parsing' = TRUE
    /\ UNCHANGED <<loading, saving, source, draft, opened, lookup, inFlight, entered>>

ParseAnswered ==
    /\ parsing /\ parsing' = FALSE
    /\ \/ \E gstin \in Gstins :
             Open([gstin |-> gstin, name |-> Typed, address |-> Typed])
       \/ UNCHANGED <<draft, opened, lookup, entered>>
    /\ UNCHANGED <<loading, saving, source, inFlight>>

---------------------------------------------------------------------------
(* Saves *)

MaySave == ~saving /\ ~parsing

Send(request) ==
    /\ inFlight' = inFlight \cup {request}
    /\ saving' = TRUE
    /\ UNCHANGED <<loading, parsing, source, draft, opened, lookup, entered>>

\* save; the form requires a name and an address.
Save ==
    /\ draft # None /\ Blank \notin {draft.name, draft.address}
    /\ MaySave
    /\ Send([kind |-> "invoice", sent |-> draft])

\* savePaymentAllocations
SavePaymentAllocations ==
    /\ source /\ MaySave
    /\ Send([kind |-> "payments", sent |-> None])

Cleared == FALSE
StaysSaving == saving
AfterError == Cleared

\* An invoice is saved, or refused and kept in the editor.
SaveAnswered(request) ==
    /\ request.kind = "invoice"
    /\ inFlight' = inFlight \ {request}
    /\ \/ draft' = None /\ saving' = FALSE
       \/ saving' = AfterError /\ UNCHANGED draft
    /\ UNCHANGED <<loading, parsing, source, opened, lookup, entered>>

\* Payments are saved, and their balances fetched, or refused.
PaymentsAnswered(request) ==
    /\ request.kind = "payments"
    /\ \/ /\ inFlight' = (inFlight \ {request}) \cup {[kind |-> "balances", sent |-> None]}
          /\ UNCHANGED saving
       \/ inFlight' = inFlight \ {request} /\ saving' = AfterError
    /\ UNCHANGED <<loading, parsing, source, draft, opened, lookup, entered>>

BalancesAnswered(request) ==
    /\ request.kind = "balances"
    /\ inFlight' = inFlight \ {request}
    /\ saving' = FALSE \/ saving' = AfterError
    /\ UNCHANGED <<loading, parsing, source, draft, opened, lookup, entered>>

Answer == \E request \in inFlight :
    SaveAnswered(request) \/ PaymentsAnswered(request) \/ BalancesAnswered(request)

---------------------------------------------------------------------------
Init ==
    /\ loading = TRUE /\ saving = FALSE /\ parsing = FALSE /\ source = FALSE
    /\ draft = None /\ opened = 0 /\ lookup = None /\ inFlight = {}
    /\ entered = Names(NoParty)

Next ==
    \/ Load \/ Add \/ Cancel \/ Leave \/ TypeName
    \/ \E party \in Register : Edit(party)
    \/ \E gstin \in Gstins \cup {Partial} : GstinChanged(gstin)
    \/ LookupFound \/ LookupFails \/ ParseInvoice \/ ParseAnswered
    \/ Save \/ SavePaymentAllocations \/ Answer

\* The browser answers every request that it sends, if only with an error.
Spec == Init /\ [][Next]_vars /\ WF_vars(Answer)

---------------------------------------------------------------------------
(* Properties *)

\* The fields keep their types, and a save is sent once: while a request that
\* writes, or the refresh that ends it, is under way, the flag is up and no other
\* is sent.
OneSaveAtATime ==
    /\ TypeOK
    /\ \A one, other \in inFlight : one = other
    /\ saving <=> inFlight # {}

\* While an invoice is saved the editor shows what was sent, so that a refusal
\* finds it there and success drops nothing; and an upload that is being parsed
\* finds no draft to replace. No answer, whenever it comes, breaks this.
ScreenKeepsDrafts ==
    /\ \A request \in inFlight : request.kind = "invoice" => draft = request.sent
    /\ parsing => draft = None

\* A lookup never replaces what was typed after the GSTIN was entered, and
\* fills in the party of the GSTIN that the screen shows.
LookupsKeepEdits ==
    [][draft # None /\ draft' # None /\ draft'.no = draft.no =>
          /\ draft'.name # draft.name /\ draft'.name # Typed =>
                draft'.name = draft.gstin /\ Names(draft) = entered
          /\ draft'.address # draft.address /\ draft'.address # Typed =>
                draft'.address = draft.gstin /\ Names(draft) = entered]_vars

\* The buttons that a save disables come back.
SavesEnd == saving ~> ~saving
=============================================================================
