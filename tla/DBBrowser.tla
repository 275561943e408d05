----------------------------- MODULE DBBrowser -----------------------------
(***************************************************************************)
(* The database browser: core/db_browser.go and handlers/db_browser.go.    *)
(* A request runs whatever SQL its user writes, over a connection of the   *)
(* pool that serves the application, under a deadline that can pass        *)
(* between any two calls of the driver. A connection is discarded with     *)
(* what the SQL has left in it: settings, an open transaction, its lock.   *)
(***************************************************************************)
EXTENDS StatementScanner, FiniteSets

CONSTANTS
    Requests,       \* requests of the browser
    Connections,    \* bound: the connections the process ever opens
    Scripts,        \* sequences of statements, for the mode "execute"
    Queries,        \* texts in pieces, for the mode "query"
    None            \* no request, no connection

Statement == {"begin", "write", "commit", "rollback",
              "pragma",     \* any setting of the connection
              "wrong",      \* fails
              "empty",      \* nothing, in a query only
              "endless"}    \* ends only when it is interrupted

ASSUME BrowserAssumption ==
    /\ Scripts \subseteq Seq(Statement) /\ Queries \subseteq Seq(Pieces \cup Unclosed)
    /\ \A pieces \in Queries : \A p \in 1 .. Len(pieces) - 1 : pieces[p] \in Pieces
    /\ None \notin Requests \cup Connections

Connection == [state: {"unopened", "idle", "browser", "closed"},
               altered: BOOLEAN,        \* by a PRAGMA or ATTACH
               open: BOOLEAN]           \* in a transaction

VARIABLES
    request,     \* what each request does
    connection,
    committed,   \* the writes in the database: <<request, statement>>
    pending,     \* those of the open transactions of each connection
    writer       \* the connection that has the write lock

vars == <<request, connection, committed, pending, writer>>

TypeOK ==
    /\ request \in [Requests -> [
          mode: {"query", "execute"}, script: Seq(Statement), at: Nat,
          conn: Connections \cup {None}, expired: BOOLEAN,
          step: {"new", "running", "counted", "answered", "done"},
          answer: {"none", "ok", "error", "refused"}]]
    /\ connection \in [Connections -> Connection]
    /\ committed \subseteq Requests \X Nat
    /\ pending \in [Connections -> SUBSET (Requests \X Nat)]
    /\ writer \in Connections \cup {None}
    /\ writer # None => connection[writer].open

---------------------------------------------------------------------------
(* Connections *)

Idle == {c \in Connections : connection[c].state = "idle"}
Available == Idle \cup {c \in Connections : connection[c].state = "unopened"}
Fresh == [state |-> "idle", altered |-> FALSE, open |-> FALSE]
Taken(c) == IF c \in Idle THEN connection[c] ELSE Fresh
Conn(r) == request[r].conn
InTransaction(r) == Conn(r) # None /\ connection[Conn(r)].open

\* A handler of the application takes a connection and gives it back. It reads,
\* or writes, or fails to write because another connection has the lock.
ApplicationRequest(c) ==
    /\ c \in Available
    /\ connection' = [connection EXCEPT ![c] = Taken(c)]
    /\ UNCHANGED <<request, committed, pending, writer>>

\* What the two modes make of a text: a script is run as it is, and a query has
\* to be one statement.
AsScript(statements) == [mode |-> "execute", script |-> statements, accepted |-> TRUE]
AsQuery(pieces) == [mode |-> "query", script |-> StatementsOf(pieces),
                    accepted |-> SingleBrowserStatement(Characters(pieces))]
Payloads == {AsScript(script) : script \in Scripts} \cup {AsQuery(pieces) : pieces \in Queries}

\* A query that is not one statement runs nothing, on the connection that it has
\* taken; nor does one that comes too late.
Outcomes(payload) ==
    IF payload.accepted THEN {[step |-> "running", answer |-> "none"]}
    ELSE [step: {"answered"}, answer: {"refused", "error"}]

\* BrowserConnection, and the checks of BrowserSQL.
BrowserConnection(r, c, payload) ==
    /\ request[r].step = "new" /\ c \in Available
    /\ \E outcome \in Outcomes(payload) : request' = [request EXCEPT ![r] =
          [@ EXCEPT !.mode = payload.mode, !.script = payload.script, !.conn = c,
                    !.step = outcome.step, !.answer = outcome.answer]]
    /\ connection' = [connection EXCEPT ![c] = [Taken(c) EXCEPT !.state = "browser"]]
    /\ UNCHANGED <<committed, pending, writer>>

Released(c) == IF writer = c THEN None ELSE writer

Returned(c) == [connection EXCEPT ![c].state = "idle"]
Discarded(c) == [connection EXCEPT ![c].state = "closed", ![c].open = FALSE]
AfterClose(c) == Discarded(c)

\* closeConn, deferred until the answer is written. SQLite rolls back the
\* transaction of a connection that is closed.
CloseConn(r) ==
    /\ request[r].step = "answered"
    /\ connection' = AfterClose(Conn(r))
    /\ request' = [request EXCEPT ![r].step = "done", ![r].conn = None]
    /\ IF connection'[Conn(r)].open THEN UNCHANGED <<pending, writer>>
       ELSE /\ pending' = [pending EXCEPT ![Conn(r)] = {}]
            /\ writer' = Released(Conn(r))
    /\ UNCHANGED committed

---------------------------------------------------------------------------
(* BrowserSQL *)

Running(r) ==
    /\ request[r].step = "running"
    /\ request[r].at <= Len(request[r].script)
Current(r) == request[r].script[request[r].at]
Write(r) == <<r, request[r].at>>

Ended(r) ==
    /\ pending' = [pending EXCEPT ![Conn(r)] = {}]
    /\ connection' = [connection EXCEPT ![Conn(r)].open = FALSE]
    /\ writer' = Released(Conn(r))

Begin(r) ==
    /\ Current(r) = "begin" /\ ~InTransaction(r)
    /\ connection' = [connection EXCEPT ![Conn(r)].open = TRUE]
    /\ UNCHANGED <<committed, pending, writer>>

WriteAlone(r) ==
    /\ Current(r) = "write" /\ ~InTransaction(r) /\ writer = None
    /\ committed' = committed \cup {Write(r)}
    /\ UNCHANGED <<connection, pending, writer>>

WriteInTransaction(r) ==
    /\ Current(r) = "write" /\ InTransaction(r) /\ writer \in {None, Conn(r)}
    /\ writer' = Conn(r)
    /\ pending' = [pending EXCEPT ![Conn(r)] = @ \cup {Write(r)}]
    /\ UNCHANGED <<connection, committed>>

CommitOrRollback(r) ==
    /\ Current(r) \in {"commit", "rollback"} /\ InTransaction(r)
    /\ committed' = IF Current(r) = "commit" THEN committed \cup pending[Conn(r)] ELSE committed
    /\ Ended(r)

Alter(r) ==
    /\ Current(r) = "pragma"
    /\ connection' = [connection EXCEPT ![Conn(r)].altered = TRUE]
    /\ UNCHANGED <<committed, pending, writer>>

\* A statement ends before the deadline.
Execute(r) ==
    /\ Running(r) /\ ~request[r].expired
    /\ Begin(r) \/ WriteAlone(r) \/ WriteInTransaction(r) \/ CommitOrRollback(r) \/ Alter(r)
    /\ request' = [request EXCEPT ![r].at = @ + 1]

Answer(r, answer) ==
    request' = [request EXCEPT ![r].step = "answered", ![r].answer = answer]

Never(r) == FALSE
Interrupted(r) == request[r].expired

\* A statement fails: wrong, busy, or interrupted by the deadline. One that is
\* interrupted may have had its effect, as if the deadline passed after it.
StatementFails(r) ==
    /\ Running(r) /\ (Current(r) = "endless" => Interrupted(r))
    /\ Answer(r, "error")
    /\ UNCHANGED <<connection, committed, pending, writer>>

\* SELECT total_changes() after the script.
CountChanges(r) ==
    /\ request[r].step = "running" /\ ~Running(r)
    /\ \/ /\ request[r].expired /\ Answer(r, "error")
       \/ /\ ~request[r].expired /\ request' = [request EXCEPT ![r].step = "counted"]
    /\ UNCHANGED <<connection, committed, pending, writer>>

NotChecked(r) == FALSE
LeftOpen(r) == InTransaction(r)

\* The final ROLLBACK of a transaction the script has left: an error if it
\* succeeds, and otherwise the answer is the result of the script.
RollBackUnfinished(r) ==
    /\ request[r].step = "counted"
    /\ \/ /\ ~request[r].expired /\ LeftOpen(r)
          /\ Ended(r) /\ Answer(r, "error")
       \/ /\ ~request[r].expired /\ ~LeftOpen(r)
          /\ Answer(r, "ok")
          /\ UNCHANGED <<connection, pending, writer>>
       \/ /\ request[r].expired
          /\ Answer(r, "ok")
          /\ (InTransaction(r) /\ Ended(r)) \/ UNCHANGED <<connection, pending, writer>>
    /\ UNCHANGED committed

\* The deadline of ten seconds, or a client that goes away.
Expire(r) ==
    /\ request[r].step \in {"running", "counted"} /\ ~request[r].expired
    /\ request' = [request EXCEPT ![r].expired = TRUE]
    /\ UNCHANGED <<connection, committed, pending, writer>>

---------------------------------------------------------------------------
Init ==
    /\ request = [r \in Requests |-> [
          mode |-> "execute", script |-> <<>>, at |-> 1, conn |-> None,
          expired |-> FALSE, step |-> "new", answer |-> "none"]]
    /\ connection = [c \in Connections |-> [Fresh EXCEPT !.state = "unopened"]]
    /\ committed = {}
    /\ pending = [c \in Connections |-> {}]
    /\ writer = None

Advance(r) ==
    Execute(r) \/ StatementFails(r) \/ CountChanges(r) \/ RollBackUnfinished(r) \/ CloseConn(r)

Next ==
    \/ \E c \in Connections : ApplicationRequest(c)
    \/ \E r \in Requests :
          \/ \E c \in Connections, payload \in Payloads : BrowserConnection(r, c, payload)
          \/ Advance(r) \/ Expire(r)

\* The goroutine of a request runs, and timers fire.
Fairness == \A r \in Requests : WF_vars(Advance(r)) /\ WF_vars(Expire(r))

Spec == Init /\ [][Next]_vars /\ Fairness

---------------------------------------------------------------------------
(* Properties *)

\* In query mode a second statement never runs, however semicolons, quotes and
\* comments hide each other in the text; and no text of one statement is refused.
QueriesAreSingle ==
    \A r \in Requests :
        LET script == request[r].script
            single == Len(script) = 1 /\ script # <<"empty">>
        IN  request[r].mode = "query" =>
              /\ request[r].at > 1 \/ request[r].answer = "ok" => single
              /\ request[r].answer = "refused" => ~single

BatchesAreWhole ==
    \A r \in Requests :
        LET script == request[r].script
            batch(i, j) == {n \in i .. j : script[n] = "write"}
        IN  \A i, j \in DOMAIN script :
              /\ i < j /\ script[i] = "begin" /\ script[j] = "commit"
              /\ \A n \in i + 1 .. j - 1 : script[n] \notin {"begin", "commit", "rollback"}
              => \/ \A n \in batch(i, j) : <<r, n>> \in committed
                 \/ \A n \in batch(i, j) : <<r, n>> \notin committed

\* The writes between BEGIN and the next COMMIT of a script are committed
\* together or not at all, whatever fails in between and in other requests; and
\* what users write never reaches the connections of the application: in the pool
\* none has an altered setting or an open transaction.
AtomicBatches ==
    /\ TypeOK
    /\ \A c \in Idle : ~connection[c].altered /\ ~connection[c].open /\ pending[c] = {}
    /\ BatchesAreWhole

\* The script begins a transaction and does not end it.
LeavesOpen(script) ==
    \E i \in DOMAIN script : script[i] = "begin" /\
        \A j \in DOMAIN script : j > i => script[j] \notin {"commit", "rollback"}

\* Until the deadline, success is not answered to a script that left its
\* transaction unfinished.
TimelySuccessIsFinished ==
    \A r \in Requests :
        request[r].answer = "ok" /\ ~request[r].expired => ~LeavesOpen(request[r].script)

\* A script that never ends, or leaves its transaction open, does not keep the
\* application from writing for ever.
LocksAreReleased ==
    \A c \in Connections : writer = c ~> writer # c
=============================================================================
