--------------------------- MODULE BrowserScreen ---------------------------
(***************************************************************************)
(* The screen of the database browser: db-browser.component.ts with the    *)
(* conditions of its template. Rows and structures of the selected object  *)
(* are fetched, page by page, while the user selects others, the catalog   *)
(* is refreshed after each run of SQL, and objects go away. What the SQL   *)
(* does is in DBBrowser: here any object may be gone at any time.          *)
(***************************************************************************)
EXTENDS Naturals

CONSTANTS
    Objects,        \* names of the objects of the database
    Browsable,      \* tables and views
    MaxOffset,      \* bound: the pages of an object
    None

Content == [tab: {"rows", "structure"}, of: Objects, offset: 0 .. MaxOffset]

VARIABLES
    catalog,            \* objects, as they were last listed
    selected, view, tab, offset,
    fetching, failed,   \* the flag loading, and whether there is an error
    detail, result,     \* what has come; which object and page it is of
    selectionRequest,   \* the requests of the subscription
    running             \* whether SQL runs

browserVars == <<catalog, selected, view, tab, offset, fetching, failed, detail, result,
                 selectionRequest, running>>

BrowserTypeOK ==
    /\ catalog \subseteq Objects /\ selected \in Objects \cup {None}
    /\ view \in {"object", "settings", "sql"} /\ tab \in {"rows", "structure"}
    /\ offset \in 0 .. MaxOffset
    /\ {fetching, failed, running} \subseteq BOOLEAN
    /\ {detail, result} \subseteq Content \cup {None}
    /\ selectionRequest \subseteq Content

CanBrowse == selected \in Browsable

---------------------------------------------------------------------------
(* The selection *)

KeepsAll == selectionRequest
Unsubscribed == {}
\* resetSelection
AfterReset == Unsubscribed

\* loadSelection
LoadSelection ==
    LET wanted == IF tab' = "rows" /\ selected' \in Browsable THEN "rows" ELSE "structure"
    IN  selectionRequest' = AfterReset \cup {[tab |-> wanted, of |-> selected', offset |-> offset']}
    /\ fetching' = TRUE /\ failed' = FALSE

SelectObject(object) ==
    /\ object \in catalog
    /\ selected' = object /\ view' = "object" /\ offset' = 0
    /\ tab' = IF object \in Browsable THEN "rows" ELSE "structure"
    /\ detail' = None /\ result' = None
    /\ LoadSelection
    /\ UNCHANGED <<catalog, running>>

ObjectIsShown == view = "object" /\ selected # None
ContentIsShown == ObjectIsShown /\ ~fetching /\ ~failed

\* changeTab, and Reload, which keeps the tab.
ChangeTab(to) ==
    /\ ObjectIsShown /\ (to = "rows" => CanBrowse)
    /\ tab' = to
    /\ UNCHANGED <<catalog, selected, view, offset, detail, result, running>>
    /\ LoadSelection

\* page; whether there are more rows is in the result.
Page(to) ==
    /\ ContentIsShown /\ tab = "rows" /\ result # None
    /\ to \in {offset - 1, offset + 1} \cap 0 .. MaxOffset
    /\ offset' = to
    /\ UNCHANGED <<catalog, selected, view, tab, detail, result, running>>
    /\ LoadSelection

\* selectSetting, openSQL, querySelected
LeaveObject ==
    /\ view' \in {"settings", "sql"}
    /\ selectionRequest' = AfterReset
    /\ fetching' = FALSE /\ failed' = FALSE
    /\ UNCHANGED <<catalog, selected, tab, offset, detail, result, running>>

\* An answer, or an error, of a request that was not unsubscribed.
SelectionAnswered(request) ==
    /\ request \in selectionRequest
    /\ selectionRequest' = selectionRequest \ {request}
    /\ fetching' = FALSE
    /\ \/ failed' = TRUE /\ UNCHANGED <<detail, result>>
       \/ request.tab = "rows" /\ result' = request /\ UNCHANGED <<failed, detail>>
       \/ request.tab = "structure" /\ detail' = request /\ UNCHANGED <<failed, result>>
    /\ UNCHANGED <<catalog, selected, view, tab, offset, running>>

---------------------------------------------------------------------------
(* The catalog and SQL *)

\* refreshCatalog: an answer to any of the requests for the catalog. One that
\* fails changes nothing but a message.
CatalogAnswered(objects) ==
    /\ catalog' = objects
    /\ IF selected \in objects \cup {None} THEN UNCHANGED <<selected, detail, result>>
       ELSE selected' = None /\ detail' = None /\ result' = None
    /\ UNCHANGED <<view, tab, offset, fetching, failed, selectionRequest, running>>

RunSQL ==
    /\ view = "sql" /\ ~running
    /\ running' = TRUE
    /\ UNCHANGED <<catalog, selected, view, tab, offset, fetching, failed, detail, result,
                   selectionRequest>>

SQLAnswered ==
    /\ running /\ running' = FALSE
    /\ UNCHANGED <<catalog, selected, view, tab, offset, fetching, failed, detail, result,
                   selectionRequest>>

---------------------------------------------------------------------------
BrowserInit ==
    /\ catalog = {} /\ selected = None /\ view = "object" /\ tab = "rows" /\ offset = 0
    /\ fetching = FALSE /\ failed = FALSE /\ detail = None /\ result = None
    /\ selectionRequest = {} /\ running = FALSE

\* ngOnDestroy, which ends all subscriptions, and the component of the next visit.
ComeBack ==
    /\ catalog' = {} /\ selected' = None /\ view' = "object" /\ tab' = "rows" /\ offset' = 0
    /\ fetching' = FALSE /\ failed' = FALSE /\ detail' = None /\ result' = None
    /\ selectionRequest' = {} /\ running' = FALSE

BrowserNext ==
    \/ \E object \in Objects : SelectObject(object)
    \/ \E to \in {"rows", "structure"} : ChangeTab(to)
    \/ \E to \in 0 .. MaxOffset : Page(to)
    \/ \E request \in Content : SelectionAnswered(request)
    \/ \E objects \in SUBSET Objects : CatalogAnswered(objects)
    \/ LeaveObject \/ RunSQL \/ SQLAnswered \/ ComeBack

---------------------------------------------------------------------------
(* Properties *)

\* What is shown under the name of an object, and a page of it, is that, however
\* late its answer comes and whatever was selected, refreshed or dropped since.
ResultsBelongToSelection ==
    ContentIsShown =>
        /\ tab = "rows" /\ result # None =>
              result = [tab |-> "rows", of |-> selected, offset |-> offset]
        /\ tab = "structure" /\ detail # None => detail.of = selected
=============================================================================
