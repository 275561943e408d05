------------------------------ MODULE Screens ------------------------------
(***************************************************************************)
(* The screens of the browser that edit what the server keeps. The router  *)
(* shows one at a time, and destroys a screen with the flags and drafts    *)
(* it has; what one visit leaves to the next are the requests under way,   *)
(* which StatementGrid follows. The screens share no state of the browser, *)
(* so a behaviour here is that of one of them.                             *)
(***************************************************************************)
EXTENDS StatementGrid

CONSTANTS
    Register, MaxDrafts, Partial, Blank, Typed,    \* of PurchaseForm
    Objects, Browsable, MaxOffset                  \* of BrowserScreen

VARIABLES
    screen,      \* the screen that is shown
    loading, saving, parsing, source, draft, opened, lookup, inFlight, entered,
    catalog, selected, browserView, tab, offset, fetching, failed, detail, result,
    selectionRequest, running

purchaseVars == <<loading, saving, parsing, source, draft, opened, lookup, inFlight, entered>>
browserVars == <<catalog, selected, browserView, tab, offset, fetching, failed, detail, result,
                 selectionRequest, running>>

Purchase == INSTANCE PurchaseForm
Browser == INSTANCE BrowserScreen WITH view <- browserView

ASSUME FormAssumption ==
    /\ Register \subseteq Purchase!Party /\ MaxDrafts \in Nat
    /\ {Blank, Typed, Partial, None} \cap Gstins = {} /\ Blank # Typed
    /\ None \notin Purchase!Draft
ASSUME PagesAssumption == MaxOffset \in Nat

ScreensInit ==
    /\ screen \in {"purchases", "statement", "browser"}
    /\ Purchase!Init /\ GridInit /\ Browser!BrowserInit

OfPurchases(A) ==
    screen = "purchases" /\ A /\ UNCHANGED <<screen, gridVars, browserVars>>
OfStatement(A) ==
    screen = "statement" /\ A /\ UNCHANGED <<screen, purchaseVars, browserVars>>
OfBrowser(A) ==
    screen = "browser" /\ A /\ UNCHANGED <<screen, purchaseVars, gridVars>>

ScreensNext ==
    OfPurchases(Purchase!Next) \/ OfStatement(GridNext) \/ OfBrowser(Browser!BrowserNext)

screensVars == <<screen, purchaseVars, gridVars, browserVars>>

\* The browser answers every request, if only with an error; SQL ends with its
\* deadline.
ScreensSpec ==
    /\ ScreensInit /\ [][ScreensNext]_screensVars
    /\ WF_screensVars(OfPurchases(Purchase!Answer))
    /\ WF_screensVars(OfBrowser(Browser!SQLAnswered))

---------------------------------------------------------------------------
(* Properties *)

\* The statement screen shows what the server stores, unless its requests
\* overlapped or an answer was lost.
StatementShowsLedger == GridTypeOK /\ GridShowsLedger

\* A save is sent once, and stays on its screen as it was sent, however answers
\* and clicks are ordered, so that a refusal finds it and success drops nothing.
ScreensKeepDrafts ==
    Purchase!OneSaveAtATime /\ Purchase!ScreenKeepsDrafts /\ PanelKeepsDraft

\* Late answers are not taken for what is shown meanwhile: a lookup fills in only
\* the party that is asked for and never what was typed, and the database browser
\* shows no rows of another object or page.
LateAnswersAreDropped ==
    /\ Purchase!LookupsKeepEdits
    /\ [](Browser!BrowserTypeOK /\ Browser!ResultsBelongToSelection)

\* The buttons that a save of purchases, or a run of SQL, disables come back.
ScreensSavesEnd == Purchase!SavesEnd /\ (running ~> ~running)
=============================================================================
