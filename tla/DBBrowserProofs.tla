--------------------------- MODULE DBBrowserProofs ---------------------------
(* Theorems of DBBrowser, for any scripts, queries, requests and connections. *)
EXTENDS DBBrowser, FiniteSetTheorems, WellFoundedInduction, TLAPS

---------------------------------------------------------------------------
(* The statements of a text *)

LEMMA StatementsAreStatements ==
  ASSUME NEW pieces \in Queries
  PROVE  StatementsOf(pieces) \in Seq(Statement)
  <1>1. Len(pieces) \in Nat
    BY BrowserAssumption
  <1>2. StatementAt(pieces, Len(pieces) + 1) \in Nat \ {0}
    <2> DEFINE ended == {q \in 1 .. (Len(pieces) + 1) - 1 : pieces[q].kind = "semicolon"}
    <2>1. IsFiniteSet(1 .. (Len(pieces) + 1) - 1)
      BY <1>1, FS_Interval
    <2>2. Cardinality(ended) \in Nat
      BY <2>1, FS_Subset, FS_CardinalityType
    <2> HIDE DEF ended
    <2>3. 1 + Cardinality(ended) \in Nat \ {0}
      BY <2>2
    <2> QED
      BY <2>3 DEF StatementAt, ended
  <1>3. PICK counted \in Nat : StatementsOf(pieces) = [k \in 1 .. counted |-> StatementOf(pieces, k)]
    <2> DEFINE last == StatementAt(pieces, Len(pieces) + 1)
    <2>1. last \in Nat /\ last - 1 \in Nat
      BY <1>2
    <2> HIDE DEF last
    <2> QED
      BY <2>1 DEF StatementsOf, last
  <1>4. \A k : StatementOf(pieces, k) \in Statement
    BY DEF StatementOf, Statement
  <1> QED
    BY <1>3, <1>4

---------------------------------------------------------------------------
(* The inductive invariant *)

RequestState == [
    mode: {"query", "execute"}, script: Seq(Statement), at: Nat,
    conn: Connections \cup {None}, expired: BOOLEAN,
    step: {"new", "running", "counted", "answered", "done"},
    answer: {"none", "ok", "error", "refused"}]

Begun(r) == request[r].step \in {"running", "counted"}
Owns(r) == request[r].step \in {"running", "counted", "answered"}

\* A request has a connection while it runs, and another has another one.
Owned(r) ==
    /\ Owns(r) => Conn(r) \in Connections /\ connection[Conn(r)].state = "browser"
    /\ ~Owns(r) => Conn(r) = None
    /\ request[r].step = "new" => request[r].at = 1 /\ request[r].answer = "none"
    /\ request[r].at \in 1 .. Len(request[r].script) + 1
ConnectionsAreOwned ==
    /\ \A r \in Requests : Owned(r)
    /\ \A r, s \in Requests : Conn(r) = Conn(s) /\ Conn(r) # None => r = s

\* Only the connections of running requests have transactions and settings.
Clean(c) ==
    /\ connection[c].state # "browser" => ~connection[c].open
    /\ connection[c].state \in {"idle", "unopened"} => ~connection[c].altered
    /\ ~connection[c].open => pending[c] = {}

\* Only what a request has run is pending, on its connection, or committed.
WritesAreRun ==
    /\ \A c \in Connections : \A write \in pending[c] :
          Conn(write[1]) = c /\ write[2] < request[write[1]].at
    /\ \A write \in committed : write[2] < request[write[1]].at

\* The script has begun a transaction and not ended it before it comes to n.
BegunBefore(script, n) ==
    \E i \in DOMAIN script : i < n /\ script[i] = "begin" /\
        \A j \in DOMAIN script : i < j /\ j < n => script[j] \notin {"commit", "rollback"}
UnfinishedIsOpen(r) ==
    /\ Begun(r) /\ BegunBefore(request[r].script, request[r].at) => connection[Conn(r)].open
    /\ request[r].step = "counted" => request[r].at = Len(request[r].script) + 1
    /\ request[r].answer = "ok" /\ ~request[r].expired => ~LeavesOpen(request[r].script)

IsBatch(script, i, j) ==
    /\ i < j /\ script[i] = "begin" /\ script[j] = "commit"
    /\ \A n \in i + 1 .. j - 1 : script[n] \notin {"begin", "commit", "rollback"}
\* The writes of a batch are pending from its BEGIN to its COMMIT, and then committed.
BatchInv(r, i, j) ==
    LET script == request[r].script
        at == request[r].at
    IN  IsBatch(script, i, j) => \A n \in i .. j : script[n] = "write" =>
          /\ at <= j => <<r, n>> \notin committed
          /\ at > j => <<r, n>> \in committed
          /\ Begun(r) /\ n < at /\ at <= j => <<r, n>> \in pending[Conn(r)]
Batches(r) == \A i, j \in DOMAIN request[r].script : BatchInv(r, i, j)

BrowserInv ==
    /\ TypeOK /\ ConnectionsAreOwned /\ WritesAreRun
    /\ \A c \in Connections : Clean(c)
    /\ \A r \in Requests : UnfinishedIsOpen(r) /\ Batches(r)

---------------------------------------------------------------------------
(* The frame of a step *)

LEMMA Parts ==
  ASSUME BrowserInv, NEW r \in Requests
  PROVE  /\ request[r] \in RequestState /\ Owned(r) /\ UnfinishedIsOpen(r) /\ Batches(r)
         /\ Len(request[r].script) \in Nat
         /\ DOMAIN request[r].script = 1 .. Len(request[r].script)
         /\ \A n \in DOMAIN request[r].script : request[r].script[n] \in Statement
         /\ Owns(r) => /\ Conn(r) \in Connections /\ Conn(r) # None
                       /\ connection[Conn(r)] \in Connection /\ connection[Conn(r)].state = "browser"
  <1>1. request[r] \in RequestState /\ Owned(r) /\ UnfinishedIsOpen(r) /\ Batches(r)
    BY DEF BrowserInv, TypeOK, RequestState, ConnectionsAreOwned
  <1>2. request[r].script \in Seq(Statement)
    BY <1>1 DEF RequestState
  <1>3. Owns(r) => /\ Conn(r) \in Connections /\ Conn(r) # None
                   /\ connection[Conn(r)] \in Connection /\ connection[Conn(r)].state = "browser"
    BY <1>1, BrowserAssumption DEF Owned, BrowserInv, TypeOK
  <1> QED
    BY <1>1, <1>2, <1>3

\* A step of request r on its connection c leaves the other requests alone.
LEMMA StepOfRequest ==
  ASSUME BrowserInv, NEW r \in Requests, NEW c \in Connections,
         Conn(r) = c \/ (Conn(r) = None /\ connection[c].state # "browser"),
         TypeOK',
         \A s \in Requests \ {r} : request'[s] = request[s],
         Conn(r)' \in {c, None}, request[r].at <= request'[r].at,
         \A d \in Connections \ {c} : connection'[d] = connection[d] /\ pending'[d] = pending[d],
         committed \subseteq committed',
         \A write \in committed' : write \in committed \/ (write[1] = r /\ write[2] < request'[r].at),
         \A write \in pending'[c] : write[1] = r /\ Conn(r)' = c /\ write[2] < request'[r].at,
         Clean(c)', Owned(r)', UnfinishedIsOpen(r)', Batches(r)'
  PROVE  BrowserInv'
  <1>1. ASSUME NEW s \in Requests \ {r}
        PROVE  /\ request'[s] = request[s] /\ Conn(s) # c
               /\ Conn(s) # None => /\ Conn(s) \in Connections \ {c}
                                    /\ connection'[Conn(s)] = connection[Conn(s)]
                                    /\ pending'[Conn(s)] = pending[Conn(s)]
    <2>1. Conn(s) # c
      <3>1. CASE Conn(r) = c
        BY <3>1, BrowserAssumption DEF BrowserInv, ConnectionsAreOwned
      <3>2. CASE connection[c].state # "browser"
        BY <3>2, Parts, BrowserAssumption DEF Owned
      <3> QED
        BY <3>1, <3>2
    <2>2. Conn(s) # None => Conn(s) \in Connections
      BY Parts DEF Owned
    <2> QED
      BY <2>1, <2>2
  <1>2. ConnectionsAreOwned'
    <2>1. ASSUME NEW s \in Requests \ {r}
          PROVE  Owned(s)' /\ Conn(s)' = Conn(s)
      <3>1. Owned(s)
        BY Parts
      <3>2. Owns(s) => Conn(s) # None
        BY Parts
      <3> QED
        BY <1>1, <3>1, <3>2 DEF Owned, Owns, Conn
    <2>2. \A s \in Requests \ {r} : Conn(s)' # c
      BY <1>1, <2>1
    <2>3. \A s, t \in Requests \ {r} : Conn(s)' = Conn(t)' /\ Conn(s)' # None => s = t
      BY <2>1 DEF BrowserInv, ConnectionsAreOwned
    <2> QED
      BY <2>1, <2>2, <2>3 DEF ConnectionsAreOwned
  <1>3. WritesAreRun'
    <2>1. \A d \in Connections : \A write \in pending[d] : write \in Requests \X Nat
      BY DEF BrowserInv, TypeOK
    <2>2. \A write \in committed : write \in Requests \X Nat
      BY DEF BrowserInv, TypeOK
    <2>3. ASSUME NEW d \in Connections \ {c}, NEW write \in pending'[d]
          PROVE  Conn(write[1])' = d /\ write[2] < request'[write[1]].at
      <3>1. write \in pending[d] /\ Conn(write[1]) = d /\ write[2] < request[write[1]].at
        BY <2>3 DEF BrowserInv, WritesAreRun
      <3>2. write[1] \in Requests /\ write[1] # r
        <4>1. write[1] \in Requests
          BY <2>1, <3>1
        <4>2. Conn(write[1]) \notin {c, None}
          BY <3>1, BrowserAssumption
        <4> QED
          BY <4>1, <4>2
      <3> QED
        BY <1>1, <3>1, <3>2 DEF Conn
    <2>4. ASSUME NEW write \in committed
          PROVE  write[2] < request'[write[1]].at
      <3>1. write[1] \in Requests /\ write[2] \in Nat /\ write[2] < request[write[1]].at
        BY <2>2 DEF BrowserInv, WritesAreRun
      <3>2. CASE write[1] = r
        <4>1. request[r].at \in Nat /\ request'[r].at \in Nat
          BY DEF BrowserInv, TypeOK
        <4> QED
          BY <3>1, <3>2, <4>1
      <3> QED
        BY <1>1, <3>1, <3>2
    <2> QED
      BY <2>3, <2>4 DEF WritesAreRun
  <1>4. ASSUME NEW d \in Connections
        PROVE  Clean(d)'
    BY DEF Clean, BrowserInv
  <1>5. ASSUME NEW s \in Requests \ {r}
        PROVE  UnfinishedIsOpen(s)' /\ Batches(s)'
    <2>1. Begun(s) => Conn(s) # None
      BY Parts DEF Begun, Owns
    <2>2. UnfinishedIsOpen(s)'
      <3>1. UnfinishedIsOpen(s)
        BY Parts
      <3> QED
        BY <1>1, <2>1, <3>1 DEF UnfinishedIsOpen, Begun, Conn
    <2>3. \A n : <<s, n>> \in committed' <=> <<s, n>> \in committed
      OBVIOUS
    <2>4. ASSUME NEW i \in DOMAIN request[s].script, NEW j \in DOMAIN request[s].script
          PROVE  BatchInv(s, i, j)'
      <3>1. BatchInv(s, i, j)
        BY Parts DEF Batches
      <3> QED
        BY <1>1, <2>1, <2>3, <3>1 DEF BatchInv, Begun, Conn
    <2> QED
      BY <1>1, <2>2, <2>4 DEF Batches
  <1> QED
    BY <1>2, <1>3, <1>4, <1>5 DEF BrowserInv

\* A step that runs nothing of the script.
LEMMA BatchesRest ==
  ASSUME BrowserInv, NEW r \in Requests,
         request'[r].script = request[r].script, request'[r].at = request[r].at,
         \A n : <<r, n>> \in committed' <=> <<r, n>> \in committed,
         Begun(r)' => Begun(r) /\ Conn(r)' = Conn(r) /\ pending'[Conn(r)] = pending[Conn(r)]
  PROVE  Batches(r)'
  <1>1. ASSUME NEW i \in DOMAIN request[r].script, NEW j \in DOMAIN request[r].script
        PROVE  BatchInv(r, i, j)'
    <2>1. BatchInv(r, i, j)
      BY Parts DEF Batches
    <2> QED
      BY <2>1 DEF BatchInv
  <1> QED
    BY <1>1 DEF Batches

LEMMA UnfinishedRest ==
  ASSUME BrowserInv, NEW r \in Requests,
         request'[r].script = request[r].script, request'[r].at = request[r].at,
         Begun(r)' => Begun(r) /\ Conn(r)' = Conn(r) /\ connection'[Conn(r)] = connection[Conn(r)],
         request'[r].step = "counted" => request[r].at = Len(request[r].script) + 1,
         request'[r].answer = "ok" /\ ~request'[r].expired => ~LeavesOpen(request[r].script)
  PROVE  UnfinishedIsOpen(r)'
  <1>1. UnfinishedIsOpen(r)
    BY Parts
  <1> QED
    BY <1>1 DEF UnfinishedIsOpen

\* A step that changes only what a request is about.
LEMMA QuietStep ==
  ASSUME BrowserInv, NEW r \in Requests, Owns(r), NEW next \in RequestState,
         request' = [request EXCEPT ![r] = next],
         UNCHANGED <<connection, committed, pending, writer>>,
         next.script = request[r].script, next.at = request[r].at, next.conn = request[r].conn,
         next.step \in {"running", "counted", "answered"},
         next.step \in {"running", "counted"} => Begun(r),
         next.step = "counted" => next.at = Len(next.script) + 1,
         next.answer = "ok" /\ ~next.expired => ~LeavesOpen(next.script)
  PROVE  BrowserInv'
  <1> DEFINE c == Conn(r)
  <1>1. request'[r] = next /\ \A s \in Requests \ {r} : request'[s] = request[s]
    BY DEF BrowserInv, TypeOK
  <1>2. TypeOK'
    BY DEF BrowserInv, TypeOK, RequestState
  <1>3. c \in Connections /\ c # None /\ connection[c].state = "browser" /\ Conn(r)' = c
    BY <1>1, Parts DEF Conn
  <1>4. Batches(r)'
    BY <1>1, <1>3, BatchesRest DEF Begun
  <1>5. UnfinishedIsOpen(r)'
    BY <1>1, <1>3, UnfinishedRest DEF Begun
  <1>6. Owned(r)'
    BY <1>1, <1>3, Parts DEF Owned, Owns
  <1>7. \A d \in Connections : Clean(d)'
    BY DEF BrowserInv, Clean
  <1>8. WritesAreRun'
    <2>1. \A s \in Requests : request'[s].at = request[s].at /\ Conn(s)' = Conn(s)
      BY <1>1, <1>3 DEF Conn
    <2>2. /\ \A d \in Connections : \A write \in pending[d] : write[1] \in Requests
          /\ \A write \in committed : write[1] \in Requests
      BY DEF BrowserInv, TypeOK
    <2> QED
      BY <2>1, <2>2 DEF BrowserInv, WritesAreRun
  <1>9. /\ \A write \in pending'[c] : write[1] = r /\ Conn(r)' = c /\ write[2] < request'[r].at
        /\ request[r].at <= request'[r].at
    <2>1. \A write \in pending[c] : write[1] \in Requests /\ Conn(write[1]) = c
      BY <1>3 DEF BrowserInv, TypeOK, WritesAreRun
    <2>2. \A write \in pending[c] : write[1] = r
      BY <1>3, <2>1 DEF BrowserInv, ConnectionsAreOwned
    <2>3. request[r].at \in Nat
      BY DEF BrowserInv, TypeOK
    <2> QED
      BY <1>1, <1>3, <1>8, <2>2, <2>3 DEF WritesAreRun
  <1> HIDE DEF c
  <1> QED
    BY <1>1, <1>2, <1>3, <1>4, <1>5, <1>6, <1>7, <1>9, StepOfRequest DEF c

---------------------------------------------------------------------------
(* The steps of a request *)

LEMMA AnswerIs ==
  ASSUME BrowserInv, NEW r \in Requests, NEW answer \in {"ok", "error"}, Answer(r, answer)
  PROVE  LET next == [request[r] EXCEPT !.step = "answered", !.answer = answer]
         IN  /\ request' = [request EXCEPT ![r] = next] /\ next \in RequestState
             /\ next.script = request[r].script /\ next.at = request[r].at
             /\ next.conn = request[r].conn /\ next.step = "answered"
             /\ next.answer = answer /\ next.expired = request[r].expired
  <1> DEFINE next == [request[r] EXCEPT !.step = "answered", !.answer = answer]
  <1>1. request[r] \in RequestState
    BY Parts
  <1>2. /\ next \in RequestState
        /\ next.script = request[r].script /\ next.at = request[r].at
        /\ next.conn = request[r].conn /\ next.step = "answered"
        /\ next.answer = answer /\ next.expired = request[r].expired
    <2> DEFINE mid == [request[r] EXCEPT !.step = "answered"]
    <2>1. /\ mid \in RequestState
          /\ mid.script = request[r].script /\ mid.at = request[r].at
          /\ mid.conn = request[r].conn /\ mid.step = "answered" /\ mid.expired = request[r].expired
      BY <1>1 DEF RequestState
    <2>2. next = [mid EXCEPT !.answer = answer]
      OBVIOUS
    <2> HIDE DEF mid, next
    <2> QED
      BY <2>1, <2>2 DEF RequestState
  <1>3. request' = [request EXCEPT ![r] = next]
    BY <1>1 DEF Answer, BrowserInv, TypeOK
  <1> QED
    BY <1>2, <1>3

LEMMA FailStep ==
  ASSUME BrowserInv, NEW r \in Requests, StatementFails(r)
  PROVE  BrowserInv'
  <1> DEFINE next == [request[r] EXCEPT !.step = "answered", !.answer = "error"]
  <1>1. Owns(r) /\ UNCHANGED <<connection, committed, pending, writer>>
    BY DEF StatementFails, Running, Owns
  <1>2. /\ request' = [request EXCEPT ![r] = next] /\ next \in RequestState
        /\ next.script = request[r].script /\ next.at = request[r].at
        /\ next.conn = request[r].conn /\ next.step = "answered" /\ next.answer = "error"
    BY AnswerIs DEF StatementFails
  <1> HIDE DEF next
  <1> QED
    BY <1>1, <1>2, QuietStep

LEMMA CountStep ==
  ASSUME BrowserInv, NEW r \in Requests, CountChanges(r)
  PROVE  BrowserInv'
  <1>1. /\ Owns(r) /\ Begun(r) /\ UNCHANGED <<connection, committed, pending, writer>>
        /\ request[r] \in RequestState /\ UnfinishedIsOpen(r)
    BY Parts DEF CountChanges, Owns, Begun
  <1>2. CASE request[r].expired /\ Answer(r, "error")
    <2> DEFINE next == [request[r] EXCEPT !.step = "answered", !.answer = "error"]
    <2>1. /\ request' = [request EXCEPT ![r] = next] /\ next \in RequestState
          /\ next.script = request[r].script /\ next.at = request[r].at
          /\ next.conn = request[r].conn /\ next.step = "answered" /\ next.answer = "error"
      BY <1>2, AnswerIs
    <2> HIDE DEF next
    <2> QED
      BY <1>1, <2>1, QuietStep
  <1>3. CASE ~request[r].expired /\ request' = [request EXCEPT ![r].step = "counted"]
    <2> DEFINE next == [request[r] EXCEPT !.step = "counted"]
    <2>1. /\ request' = [request EXCEPT ![r] = next] /\ next \in RequestState
          /\ next.script = request[r].script /\ next.at = request[r].at
          /\ next.conn = request[r].conn /\ next.step = "counted" /\ next.answer = request[r].answer
          /\ next.expired = request[r].expired
      BY <1>1, <1>3 DEF RequestState
    <2>2. request[r].at = Len(request[r].script) + 1
      BY Parts DEF Owned, CountChanges, Running
    <2>3. next.answer = "ok" /\ ~next.expired => ~LeavesOpen(next.script)
      BY <1>1, <2>1 DEF UnfinishedIsOpen
    <2> HIDE DEF next
    <2> QED
      BY <1>1, <2>1, <2>2, <2>3, QuietStep
  <1> QED
    BY <1>2, <1>3 DEF CountChanges

LEMMA ExpireStep ==
  ASSUME BrowserInv, NEW r \in Requests, Expire(r)
  PROVE  BrowserInv'
  <1> DEFINE next == [request[r] EXCEPT !.expired = TRUE]
  <1>1. /\ Owns(r) /\ Begun(r) /\ UNCHANGED <<connection, committed, pending, writer>>
        /\ request[r] \in RequestState /\ UnfinishedIsOpen(r)
    BY Parts DEF Expire, Owns, Begun
  <1>2. /\ request' = [request EXCEPT ![r] = next] /\ next \in RequestState
        /\ next.script = request[r].script /\ next.at = request[r].at
        /\ next.conn = request[r].conn /\ next.step = request[r].step /\ next.expired = TRUE
    BY <1>1 DEF Expire, RequestState
  <1>3. next.step = "counted" => next.at = Len(next.script) + 1
    BY <1>1, <1>2 DEF UnfinishedIsOpen
  <1>4. next.step \in {"running", "counted", "answered"}
    BY <1>2 DEF Expire
  <1> HIDE DEF next
  <1> QED
    BY <1>1, <1>2, <1>3, <1>4, QuietStep

\* The end of a transaction: what is pending on the connection goes.
LEMMA ConnectionEnds ==
  ASSUME BrowserInv, NEW c \in Connections, NEW ended \in Connection, ~ended.open,
         connection' = [connection EXCEPT ![c] = ended],
         pending' = [pending EXCEPT ![c] = {}], writer' = Released(c),
         committed' \subseteq Requests \X Nat, request' \in [Requests -> RequestState]
  PROVE  /\ TypeOK'
         /\ connection'[c] = ended /\ pending'[c] = {}
         /\ \A d \in Connections \ {c} : connection'[d] = connection[d] /\ pending'[d] = pending[d]
  <1>1. /\ connection'[c] = ended /\ pending'[c] = {}
        /\ \A d \in Connections \ {c} : connection'[d] = connection[d] /\ pending'[d] = pending[d]
    BY DEF BrowserInv, TypeOK
  <1>2. connection' \in [Connections -> Connection] /\ pending' \in [Connections -> SUBSET (Requests \X Nat)]
    BY DEF BrowserInv, TypeOK
  <1>3. writer' \in Connections \cup {None} /\ (writer' # None => connection'[writer'].open)
    BY <1>1 DEF BrowserInv, TypeOK, Released
  <1>4. request' \in [Requests -> [
            mode: {"query", "execute"}, script: Seq(Statement), at: Nat,
            conn: Connections \cup {None}, expired: BOOLEAN,
            step: {"new", "running", "counted", "answered", "done"},
            answer: {"none", "ok", "error", "refused"}]]
    BY DEF RequestState
  <1> QED
    BY <1>1, <1>2, <1>3, <1>4 DEF TypeOK

LEMMA OpenIsFalse ==
  ASSUME NEW before \in Connection
  PROVE  LET ended == [before EXCEPT !.open = FALSE]
         IN  ended \in Connection /\ ~ended.open /\ ended.state = before.state
  BY DEF Connection

LEMMA EndStep ==
  ASSUME BrowserInv, NEW r \in Requests, Begun(r), Ended(r), UNCHANGED committed,
         NEW answer \in {"ok", "error"}, Answer(r, answer), answer = "ok" => request[r].expired
  PROVE  BrowserInv'
  <1>0. PICK c \in Connections : c = Conn(r)
    BY Parts DEF Begun, Owns
  <1> DEFINE ended == [connection[c] EXCEPT !.open = FALSE]
         next == [request[r] EXCEPT !.step = "answered", !.answer = answer]
  <1>1. /\ Owned(r) /\ request[r] \in RequestState /\ c \in Connections /\ c # None
        /\ connection[c] \in Connection /\ connection[c].state = "browser"
    BY <1>0, Parts DEF Begun, Owns
  <1>2. /\ ended \in Connection /\ ~ended.open /\ ended.state = "browser"
        /\ connection' = [connection EXCEPT ![c] = ended]
        /\ pending' = [pending EXCEPT ![c] = {}] /\ writer' = Released(c)
    BY <1>0, <1>1, OpenIsFalse DEF Ended
  <1>3. /\ request' = [request EXCEPT ![r] = next] /\ next \in RequestState
        /\ next.script = request[r].script /\ next.at = request[r].at
        /\ next.conn = c /\ next.step = "answered" /\ next.answer = answer
        /\ next.expired = request[r].expired
    BY <1>0, AnswerIs DEF Conn
  <1> HIDE DEF next, ended
  <1>4. request'[r] = next /\ \A s \in Requests \ {r} : request'[s] = request[s]
    BY <1>3 DEF BrowserInv, TypeOK
  <1>5. request' \in [Requests -> RequestState] /\ committed' \subseteq Requests \X Nat
    BY <1>3 DEF BrowserInv, TypeOK, RequestState
  <1>6. /\ TypeOK' /\ connection'[c] = ended /\ pending'[c] = {}
        /\ \A d \in Connections \ {c} : connection'[d] = connection[d] /\ pending'[d] = pending[d]
    BY <1>1, <1>2, <1>5, ConnectionEnds
  <1>7. Conn(r)' = c /\ ~Begun(r)' /\ Owns(r)'
    BY <1>3, <1>4 DEF Conn, Begun, Owns
  <1>8. Batches(r)'
    BY <1>3, <1>4, <1>0, <1>7, BatchesRest
  <1>9. UnfinishedIsOpen(r)'
    BY <1>3, <1>4, <1>0, <1>7, UnfinishedRest
  <1>10. Owned(r)'
    BY <1>0, <1>1, <1>2, <1>3, <1>4, <1>6, <1>7 DEF Owned
  <1>11. Clean(c)'
    BY <1>2, <1>6 DEF Clean
  <1>12. request[r].at <= request'[r].at
    BY <1>1, <1>3, <1>4 DEF RequestState
  <1> QED
    BY <1>1, <1>4, <1>6, <1>7, <1>8, <1>9, <1>10, <1>11, <1>12, <1>0, StepOfRequest

LEMMA RollBackStep ==
  ASSUME BrowserInv, NEW r \in Requests, RollBackUnfinished(r)
  PROVE  BrowserInv'
  <1>1. /\ Owns(r) /\ Begun(r) /\ UNCHANGED committed
        /\ request[r] \in RequestState /\ UnfinishedIsOpen(r)
        /\ request[r].at = Len(request[r].script) + 1
    BY Parts DEF RollBackUnfinished, Owns, Begun, UnfinishedIsOpen
  <1>2. CASE ~request[r].expired /\ LeftOpen(r) /\ Ended(r) /\ Answer(r, "error")
    BY <1>1, <1>2, EndStep
  <1>3. CASE /\ Answer(r, "ok") /\ UNCHANGED <<connection, pending, writer>>
             /\ request[r].expired \/ ~LeftOpen(r)
    <2> DEFINE next == [request[r] EXCEPT !.step = "answered", !.answer = "ok"]
    <2>1. /\ request' = [request EXCEPT ![r] = next] /\ next \in RequestState
          /\ next.script = request[r].script /\ next.at = request[r].at
          /\ next.conn = request[r].conn /\ next.step = "answered" /\ next.answer = "ok"
          /\ next.expired = request[r].expired
      BY <1>3, AnswerIs
    <2>2. ~request[r].expired => ~LeavesOpen(request[r].script)
      <3>1. Conn(r) # None
        BY <1>1, Parts
      <3>2. ~request[r].expired => ~BegunBefore(request[r].script, Len(request[r].script) + 1)
        BY <1>1, <1>3, <3>1 DEF UnfinishedIsOpen, LeftOpen, InTransaction
      <3>3. \A i \in DOMAIN request[r].script : i < Len(request[r].script) + 1
        BY Parts
      <3> QED
        BY <3>2, <3>3 DEF BegunBefore, LeavesOpen
    <2> HIDE DEF next
    <2> QED
      BY <1>1, <1>3, <2>1, <2>2, QuietStep
  <1>4. CASE request[r].expired /\ Answer(r, "ok") /\ Ended(r)
    BY <1>1, <1>4, EndStep
  <1> QED
    BY <1>2, <1>3, <1>4 DEF RollBackUnfinished

LEMMA CloseStep ==
  ASSUME BrowserInv, NEW r \in Requests, CloseConn(r)
  PROVE  BrowserInv'
  <1>0. PICK c \in Connections : c = Conn(r)
    BY Parts DEF Begun, Owns, CloseConn
  <1> DEFINE ended == [[connection[c] EXCEPT !.state = "closed"] EXCEPT !.open = FALSE]
         next == [[request[r] EXCEPT !.step = "done"] EXCEPT !.conn = None]
  <1>1. /\ Owns(r) /\ Owned(r) /\ request[r] \in RequestState /\ c \in Connections /\ c # None
        /\ connection[c] \in Connection /\ connection[c].state = "browser"
    BY <1>0, Parts DEF Owns, CloseConn
  <1>2. ended \in Connection /\ ~ended.open /\ ended.state = "closed"
    BY <1>1 DEF Connection
  <1>3. connection' = [connection EXCEPT ![c] = ended]
    <2>1. connection' = [connection EXCEPT ![c].state = "closed", ![c].open = FALSE]
      BY <1>0 DEF CloseConn, AfterClose, Discarded
    <2> QED
      BY <1>1, <2>1 DEF BrowserInv, TypeOK
  <1>4. next \in RequestState /\ next.script = request[r].script /\ next.at = request[r].at
        /\ next.conn = None /\ next.step = "done" /\ next.answer = request[r].answer
        /\ next.expired = request[r].expired
    BY <1>1 DEF RequestState
  <1>5. request' = [request EXCEPT ![r] = next]
    <2>1. request' = [request EXCEPT ![r].step = "done", ![r].conn = None]
      BY DEF CloseConn
    <2> QED
      BY <1>1, <2>1 DEF BrowserInv, TypeOK
  <1> HIDE DEF ended, next
  <1>6. connection'[c] = ended
    BY <1>1, <1>3 DEF BrowserInv, TypeOK
  <1>7. pending' = [pending EXCEPT ![c] = {}] /\ writer' = Released(c) /\ committed' = committed
    BY <1>0, <1>2, <1>6 DEF CloseConn
  <1>8. request'[r] = next /\ \A s \in Requests \ {r} : request'[s] = request[s]
    BY <1>5 DEF BrowserInv, TypeOK
  <1>9. request' \in [Requests -> RequestState] /\ committed' \subseteq Requests \X Nat
    BY <1>4, <1>5, <1>7 DEF BrowserInv, TypeOK, RequestState
  <1>10. /\ TypeOK' /\ pending'[c] = {}
         /\ \A d \in Connections \ {c} : connection'[d] = connection[d] /\ pending'[d] = pending[d]
    BY <1>1, <1>2, <1>3, <1>7, <1>9, ConnectionEnds
  <1>11. Conn(r)' = None /\ ~Begun(r)' /\ ~Owns(r)'
    BY <1>4, <1>8 DEF Conn, Begun, Owns
  <1>12. Batches(r)'
    BY <1>4, <1>7, <1>8, <1>0, <1>11, BatchesRest
  <1>13. UnfinishedIsOpen(r)'
    <2>1. UnfinishedIsOpen(r)
      BY Parts
    <2> QED
      BY <1>4, <1>8, <1>11, <2>1, UnfinishedRest DEF UnfinishedIsOpen
  <1>14. Owned(r)'
    BY <1>1, <1>4, <1>8, <1>11 DEF Owned
  <1>15. Clean(c)'
    BY <1>2, <1>6, <1>10 DEF Clean
  <1>16. request[r].at <= request'[r].at
    BY <1>1, <1>4, <1>8 DEF RequestState
  <1> QED
    BY <1>1, <1>7, <1>8, <1>10, <1>11, <1>12, <1>13, <1>14, <1>15, <1>16, <1>0, StepOfRequest

---------------------------------------------------------------------------
(* The statements of a script *)

LEMMA PendingIsOwn ==
  ASSUME BrowserInv, NEW r \in Requests, Owns(r)
  PROVE  \A write \in pending[Conn(r)] :
            write \in Requests \X Nat /\ write[1] = r /\ write[2] < request[r].at
  <1>1. Conn(r) \in Connections /\ Conn(r) # None
    BY Parts
  <1>2. \A write \in pending[Conn(r)] :
           write \in Requests \X Nat /\ Conn(write[1]) = Conn(r) /\ write[2] < request[write[1]].at
    BY <1>1 DEF BrowserInv, TypeOK, WritesAreRun
  <1>3. \A write \in pending[Conn(r)] : write[1] = r
    BY <1>1, <1>2 DEF BrowserInv, ConnectionsAreOwned
  <1> QED
    BY <1>2, <1>3

\* Inside a batch the transaction is open.
LEMMA OpenInside ==
  ASSUME BrowserInv, NEW r \in Requests, Begun(r),
         NEW i \in DOMAIN request[r].script, NEW j \in DOMAIN request[r].script,
         IsBatch(request[r].script, i, j), i < request[r].at, request[r].at <= j
  PROVE  connection[Conn(r)].open
  <1>1. /\ request[r] \in RequestState /\ UnfinishedIsOpen(r)
        /\ DOMAIN request[r].script = 1 .. Len(request[r].script)
    BY Parts
  <1>2. ASSUME NEW n \in DOMAIN request[r].script, i < n, n < request[r].at
        PROVE  request[r].script[n] \notin {"commit", "rollback"}
    <2>1. n \in i + 1 .. j - 1
      BY <1>1, <1>2 DEF RequestState
    <2> QED
      BY <2>1 DEF IsBatch
  <1>3. BegunBefore(request[r].script, request[r].at)
    BY <1>2 DEF BegunBefore, IsBatch
  <1> QED
    BY <1>1, <1>3 DEF UnfinishedIsOpen

\* What a statement has to do for the batch that it is in.
KeepsBatches(r, writes) ==
    LET script == request[r].script
        at == request[r].at
    IN  \A i, j \in DOMAIN script : IsBatch(script, i, j) /\ i < at /\ at <= j =>
          /\ at < j => /\ \A n : <<r, n>> \in committed' => <<r, n>> \in committed
                       /\ pending[Conn(r)] \subseteq writes
                       /\ script[at] = "write" => <<r, at>> \in writes
          /\ at = j => pending[Conn(r)] \subseteq committed'

LEMMA ExecutedBatches ==
  ASSUME BrowserInv, NEW r \in Requests, Begun(r),
         NEW k \in DOMAIN request[r].script, k = request[r].at,
         request'[r].script = request[r].script, request'[r].at = k + 1, Conn(r)' = Conn(r),
         committed \subseteq committed',
         \A n : <<r, n>> \in committed' => <<r, n>> \in committed \/ n <= k,
         KeepsBatches(r, pending'[Conn(r)])
  PROVE  Batches(r)'
  <1> DEFINE script == request[r].script
  <1>1. DOMAIN script = 1 .. Len(script) /\ Len(script) \in Nat /\ k \in Nat
    BY Parts
  <1>2. ASSUME NEW i \in DOMAIN script, NEW j \in DOMAIN script, NEW n \in i .. j,
               IsBatch(script, i, j), script[n] = "write"
        PROVE  /\ k + 1 <= j => <<r, n>> \notin committed'
               /\ k + 1 > j => <<r, n>> \in committed'
               /\ n < k + 1 /\ k + 1 <= j => <<r, n>> \in pending'[Conn(r)]
    <2>1. /\ k <= j => <<r, n>> \notin committed
          /\ k > j => <<r, n>> \in committed
          /\ n < k /\ k <= j => <<r, n>> \in pending[Conn(r)]
      BY <1>2, Parts DEF Batches, BatchInv
    <2>2. i \in Nat /\ j \in Nat /\ n \in Nat /\ i < n /\ n < j /\ i < j
      BY <1>1, <1>2 DEF IsBatch
    <2>3. CASE k <= i
      BY <1>1, <2>1, <2>2, <2>3
    <2>4. CASE k > j
      BY <1>1, <2>1, <2>2, <2>4
    <2>5. CASE i < k /\ k < j
      <3>1. /\ <<r, n>> \in committed' => <<r, n>> \in committed
            /\ pending[Conn(r)] \subseteq pending'[Conn(r)]
            /\ script[k] = "write" => <<r, k>> \in pending'[Conn(r)]
        <4>1. IsBatch(script, i, j) /\ i < k /\ k <= j /\ k < j
          BY <1>1, <1>2, <2>2, <2>5
        <4> QED
          BY <4>1 DEF KeepsBatches
      <3> HIDE DEF script
      <3> QED
        BY <1>1, <1>2, <2>1, <2>2, <2>5, <3>1
    <2>6. CASE k = j
      <3>1. pending[Conn(r)] \subseteq committed'
        <4>1. IsBatch(script, i, j) /\ i < k /\ k <= j
          BY <1>1, <1>2, <2>2, <2>6
        <4> QED
          BY <2>6, <4>1 DEF KeepsBatches
      <3> QED
        BY <1>1, <2>1, <2>2, <2>6, <3>1
    <2> QED
      BY <1>1, <2>2, <2>3, <2>4, <2>5, <2>6
  <1>3. \A i, j \in DOMAIN script : BatchInv(r, i, j)'
    BY <1>2 DEF BatchInv, Begun
  <1> QED
    BY <1>3 DEF Batches

LEMMA ExecutedUnfinished ==
  ASSUME BrowserInv, NEW r \in Requests, request[r].step = "running",
         NEW k \in DOMAIN request[r].script, k = request[r].at,
         request'[r].script = request[r].script, request'[r].at = k + 1, Conn(r)' = Conn(r),
         request'[r].step = "running", request'[r].answer = request[r].answer,
         request'[r].expired = request[r].expired,
         request[r].script[k] = "begin" => connection'[Conn(r)].open,
         request[r].script[k] \notin {"commit", "rollback"} /\ connection[Conn(r)].open
            => connection'[Conn(r)].open
  PROVE  UnfinishedIsOpen(r)'
  <1> DEFINE script == request[r].script
  <1>1. UnfinishedIsOpen(r) /\ DOMAIN script = 1 .. Len(script) /\ Len(script) \in Nat /\ k \in Nat
    BY Parts
  <1>2. ASSUME BegunBefore(script, k + 1)
        PROVE  connection'[Conn(r)].open
    <2>1. PICK i \in DOMAIN script :
             /\ i < k + 1 /\ script[i] = "begin"
             /\ \A j \in DOMAIN script : i < j /\ j < k + 1 => script[j] \notin {"commit", "rollback"}
      BY <1>2 DEF BegunBefore
    <2>2. CASE i = k
      BY <2>1, <2>2
    <2>3. CASE i < k
      <3>1. BegunBefore(script, k)
        BY <1>1, <2>1, <2>3 DEF BegunBefore
      <3>2. script[k] \notin {"commit", "rollback"}
        BY <1>1, <2>1, <2>3
      <3> QED
        BY <1>1, <3>1, <3>2 DEF UnfinishedIsOpen, Begun
    <2> QED
      BY <1>1, <2>1, <2>2, <2>3
  <1> QED
    BY <1>1, <1>2 DEF UnfinishedIsOpen

LEMMA ExecutedStep ==
  ASSUME BrowserInv, NEW r \in Requests, Running(r), NEW c \in Connections, c = Conn(r),
         request' = [request EXCEPT ![r].at = @ + 1],
         NEW after \in Connection, after.state = "browser", connection' = [connection EXCEPT ![c] = after],
         NEW writes \in SUBSET (Requests \X Nat), pending' = [pending EXCEPT ![c] = writes],
         committed' \subseteq Requests \X Nat, committed \subseteq committed',
         writer' \in Connections \cup {None}, writer' # None => connection'[writer'].open,
         \A write \in committed' \cup writes :
            write \in committed \cup pending[c] \/ write = Write(r),
         writes \subseteq pending[c] \cup {Write(r)},
         ~after.open => writes = {},
         Current(r) = "begin" => after.open,
         Current(r) \notin {"commit", "rollback"} /\ connection[c].open => after.open,
         KeepsBatches(r, writes)
  PROVE  BrowserInv'
  <1>1. /\ Owned(r) /\ Owns(r) /\ Begun(r) /\ request[r] \in RequestState /\ request[r].step = "running"
        /\ Len(request[r].script) \in Nat /\ DOMAIN request[r].script = 1 .. Len(request[r].script)
        /\ c # None
    BY Parts DEF Running, Owns, Begun
  <1>2. PICK k \in DOMAIN request[r].script : k = request[r].at
    BY <1>1 DEF Running, Owned
  <1> DEFINE next == [request[r] EXCEPT !.at = k + 1]
  <1>3. /\ next \in RequestState /\ next.script = request[r].script /\ next.at = k + 1
        /\ next.conn = c /\ next.step = "running" /\ next.answer = request[r].answer
        /\ next.expired = request[r].expired
    BY <1>1, <1>2 DEF RequestState, Conn
  <1>4. request' = [request EXCEPT ![r] = next]
    BY <1>2
  <1> HIDE DEF next
  <1>5. request'[r] = next /\ \A s \in Requests \ {r} : request'[s] = request[s]
    BY <1>4 DEF BrowserInv, TypeOK
  <1>6. /\ connection'[c] = after /\ pending'[c] = writes
        /\ \A d \in Connections \ {c} : connection'[d] = connection[d] /\ pending'[d] = pending[d]
    BY DEF BrowserInv, TypeOK
  <1>7. TypeOK'
    <2>1. request' \in [Requests -> RequestState]
      BY <1>3, <1>4 DEF BrowserInv, TypeOK, RequestState
    <2>2. connection' \in [Connections -> Connection] /\ pending' \in [Connections -> SUBSET (Requests \X Nat)]
      BY DEF BrowserInv, TypeOK
    <2> QED
      BY <2>1, <2>2 DEF TypeOK, RequestState
  <1>8. Conn(r)' = c /\ k \in Nat /\ Write(r) = <<r, k>>
    BY <1>1, <1>2, <1>3, <1>5 DEF Conn, Write
  <1>9. \A write \in pending[c] : write \in Requests \X Nat /\ write[1] = r /\ write[2] < k
    BY <1>1, <1>2, PendingIsOwn
  <1>10. /\ \A write \in committed' : write \in committed \/ (write[1] = r /\ write[2] < k + 1)
         /\ \A write \in writes : write[1] = r /\ write[2] < k + 1
    <2>1. \A write \in pending[c] \cup {Write(r)} : write[1] = r /\ write[2] < k + 1
      <3>1. \A write \in pending[c] : write[1] = r /\ write[2] \in Nat /\ write[2] < k
        BY <1>9
      <3> QED
        BY <1>8, <3>1
    <2> QED
      BY <2>1
  <1>11. Batches(r)'
    <2>1. \A n : <<r, n>> \in committed' => <<r, n>> \in committed \/ n <= k
      <3>1. ASSUME NEW n, <<r, n>> \in committed'
            PROVE  <<r, n>> \in committed \/ (n \in Nat /\ n < k + 1)
        BY <1>10, <3>1
      <3> QED
        BY <1>8, <3>1
    <2> QED
      BY <1>1, <1>2, <1>3, <1>5, <1>6, <1>8, <2>1, ExecutedBatches
  <1>12. UnfinishedIsOpen(r)'
    BY <1>1, <1>2, <1>3, <1>5, <1>6, <1>8, ExecutedUnfinished DEF Current
  <1>13. Owned(r)'
    BY <1>1, <1>2, <1>3, <1>5, <1>6, <1>8 DEF Owned, Owns
  <1>14. Clean(c)'
    BY <1>6 DEF Clean
  <1> QED
    BY <1>2, <1>3, <1>5, <1>6, <1>7, <1>8, <1>10, <1>11, <1>12, <1>13, <1>14, StepOfRequest

LEMMA BeginStep ==
  ASSUME BrowserInv, NEW r \in Requests, Execute(r), Begin(r)
  PROVE  BrowserInv'
  <1>0. PICK c \in Connections : c = Conn(r)
    BY Parts DEF Execute, Running, Owns
  <1>1. /\ Owns(r) /\ Begun(r) /\ connection[c] \in Connection /\ connection[c].state = "browser"
        /\ c # None /\ ~connection[c].open /\ Running(r) /\ Current(r) = "begin"
    BY <1>0, Parts DEF Execute, Running, Owns, Begun, Begin, InTransaction
  <1> DEFINE after == [connection[c] EXCEPT !.open = TRUE]
  <1>2. after \in Connection /\ after.state = "browser" /\ after.open
    BY <1>1 DEF Connection
  <1>3. connection' = [connection EXCEPT ![c] = after]
    BY <1>0 DEF Begin
  <1> HIDE DEF after
  <1>4. PICK writes \in SUBSET (Requests \X Nat) :
           writes = pending[c] /\ pending' = [pending EXCEPT ![c] = writes]
    BY DEF Begin, BrowserInv, TypeOK
  <1>5. KeepsBatches(r, writes)
    BY <1>0, <1>1, OpenInside DEF KeepsBatches
  <1>6. /\ committed' = committed /\ committed \subseteq Requests \X Nat
        /\ writer' \in Connections \cup {None} /\ (writer' # None => connection'[writer'].open)
    BY <1>2, <1>3 DEF Begin, BrowserInv, TypeOK
  <1>7. request' = [request EXCEPT ![r].at = @ + 1]
    BY DEF Execute
  <1> QED
    BY <1>0, <1>1, <1>2, <1>3, <1>4, <1>5, <1>6, <1>7, ExecutedStep

LEMMA WriteAloneStep ==
  ASSUME BrowserInv, NEW r \in Requests, Execute(r), WriteAlone(r)
  PROVE  BrowserInv'
  <1>0. PICK c \in Connections : c = Conn(r)
    BY Parts DEF Execute, Running, Owns
  <1>1. /\ Owns(r) /\ Begun(r) /\ connection[c] \in Connection /\ connection[c].state = "browser"
        /\ c # None /\ ~connection[c].open /\ Running(r) /\ Current(r) = "write"
        /\ pending[c] = {} /\ request[r].at \in Nat
    BY <1>0, Parts DEF Execute, Running, Owns, Begun, WriteAlone, InTransaction, BrowserInv, Clean, RequestState
  <1>2. connection' = [connection EXCEPT ![c] = connection[c]]
    BY DEF WriteAlone, BrowserInv, TypeOK
  <1>3. PICK writes \in SUBSET (Requests \X Nat) :
           writes = {} /\ pending' = [pending EXCEPT ![c] = writes]
    BY <1>1 DEF WriteAlone, BrowserInv, TypeOK
  <1>4. KeepsBatches(r, writes)
    BY <1>0, <1>1, OpenInside DEF KeepsBatches
  <1>5. committed' = committed \cup {Write(r)} /\ committed' \subseteq Requests \X Nat
    BY <1>1 DEF WriteAlone, BrowserInv, TypeOK, Write
  <1>6. writer' = None
    BY DEF WriteAlone
  <1>7. request' = [request EXCEPT ![r].at = @ + 1]
    BY DEF Execute
  <1> QED
    BY <1>0, <1>1, <1>2, <1>3, <1>4, <1>5, <1>6, <1>7, ExecutedStep

LEMMA WriteInTransactionStep ==
  ASSUME BrowserInv, NEW r \in Requests, Execute(r), WriteInTransaction(r)
  PROVE  BrowserInv'
  <1>0. PICK c \in Connections : c = Conn(r)
    BY Parts DEF Execute, Running, Owns
  <1>1. /\ Owns(r) /\ Begun(r) /\ connection[c] \in Connection /\ connection[c].state = "browser"
        /\ c # None /\ connection[c].open /\ Running(r) /\ Current(r) = "write"
        /\ request[r].at \in Nat
    BY <1>0, Parts DEF Execute, Running, Owns, Begun, WriteInTransaction, InTransaction, RequestState
  <1>2. connection' = [connection EXCEPT ![c] = connection[c]]
    BY DEF WriteInTransaction, BrowserInv, TypeOK
  <1>3. PICK writes \in SUBSET (Requests \X Nat) :
           writes = pending[c] \cup {Write(r)} /\ pending' = [pending EXCEPT ![c] = writes]
    <2>1. Write(r) \in Requests \X Nat
      BY <1>1 DEF Write
    <2>2. pending[c] \cup {Write(r)} \in SUBSET (Requests \X Nat)
      BY <2>1 DEF BrowserInv, TypeOK
    <2>3. pending' = [pending EXCEPT ![c] = pending[c] \cup {Write(r)}]
      BY <1>0 DEF WriteInTransaction
    <2> QED
      BY <2>2, <2>3
  <1>4. KeepsBatches(r, writes)
    <2>1. ASSUME NEW i \in DOMAIN request[r].script, NEW j \in DOMAIN request[r].script,
                 IsBatch(request[r].script, i, j)
          PROVE  request[r].at # j
      BY <1>1, <2>1 DEF IsBatch, Current
    <2>2. committed' = committed /\ pending[Conn(r)] \subseteq writes /\ <<r, request[r].at>> \in writes
      BY <1>0, <1>3 DEF WriteInTransaction, Write
    <2> QED
      BY <2>1, <2>2 DEF KeepsBatches
  <1>5. committed' = committed /\ committed \subseteq Requests \X Nat
    BY DEF WriteInTransaction, BrowserInv, TypeOK
  <1>6. writer' = c /\ connection'[c].open
    BY <1>0, <1>1 DEF WriteInTransaction
  <1>7. request' = [request EXCEPT ![r].at = @ + 1]
    BY DEF Execute
  <1> QED
    BY <1>0, <1>1, <1>2, <1>3, <1>4, <1>5, <1>6, <1>7, ExecutedStep

LEMMA CommitOrRollbackStep ==
  ASSUME BrowserInv, NEW r \in Requests, Execute(r), CommitOrRollback(r)
  PROVE  BrowserInv'
  <1>0. PICK c \in Connections : c = Conn(r)
    BY Parts DEF Execute, Running, Owns
  <1>1. /\ Owns(r) /\ Begun(r) /\ connection[c] \in Connection /\ connection[c].state = "browser"
        /\ c # None /\ Running(r) /\ Current(r) \in {"commit", "rollback"}
        /\ request[r].at \in Nat
        /\ Len(request[r].script) \in Nat /\ DOMAIN request[r].script = 1 .. Len(request[r].script)
    BY <1>0, Parts DEF Execute, Running, Owns, Begun, CommitOrRollback, RequestState
  <1> DEFINE after == [connection[c] EXCEPT !.open = FALSE]
  <1>2. after \in Connection /\ after.state = "browser" /\ ~after.open
    BY <1>1, OpenIsFalse
  <1>3. connection' = [connection EXCEPT ![c] = after] /\ writer' = Released(c)
    BY <1>0 DEF CommitOrRollback, Ended
  <1> HIDE DEF after
  <1>4. PICK writes \in SUBSET (Requests \X Nat) :
           writes = {} /\ pending' = [pending EXCEPT ![c] = writes]
    BY <1>0 DEF CommitOrRollback, Ended
  <1>5. KeepsBatches(r, writes)
    <2>1. ASSUME NEW i \in DOMAIN request[r].script, NEW j \in DOMAIN request[r].script,
                 IsBatch(request[r].script, i, j), i < request[r].at, request[r].at <= j
          PROVE  request[r].at = j /\ Current(r) = "commit"
      <3>1. request[r].at \notin i + 1 .. j - 1
        BY <1>1, <2>1 DEF IsBatch, Current
      <3> QED
        BY <1>1, <2>1, <3>1 DEF IsBatch, Current
    <2>2. Current(r) = "commit" => pending[Conn(r)] \subseteq committed'
      BY DEF CommitOrRollback
    <2> QED
      BY <1>1, <2>1, <2>2 DEF KeepsBatches
  <1>6. /\ committed' \subseteq Requests \X Nat /\ committed \subseteq committed'
        /\ \A write \in committed' : write \in committed \cup pending[c]
        /\ writer' \in Connections \cup {None} /\ (writer' # None => connection'[writer'].open)
    BY <1>0, <1>3 DEF CommitOrRollback, BrowserInv, TypeOK, Released
  <1>7. request' = [request EXCEPT ![r].at = @ + 1]
    BY DEF Execute
  <1> QED
    BY <1>0, <1>1, <1>2, <1>3, <1>4, <1>5, <1>6, <1>7, ExecutedStep

LEMMA AlterStep ==
  ASSUME BrowserInv, NEW r \in Requests, Execute(r), Alter(r)
  PROVE  BrowserInv'
  <1>0. PICK c \in Connections : c = Conn(r)
    BY Parts DEF Execute, Running, Owns
  <1>1. /\ Owns(r) /\ Begun(r) /\ connection[c] \in Connection /\ connection[c].state = "browser"
        /\ c # None /\ Running(r) /\ Current(r) = "pragma" /\ (~connection[c].open => pending[c] = {})
    BY <1>0, Parts DEF Execute, Running, Owns, Begun, Alter, BrowserInv, Clean
  <1> DEFINE after == [connection[c] EXCEPT !.altered = TRUE]
  <1>2. after \in Connection /\ after.state = "browser" /\ after.open = connection[c].open
    BY <1>1 DEF Connection
  <1>3. connection' = [connection EXCEPT ![c] = after]
    BY <1>0 DEF Alter
  <1> HIDE DEF after
  <1>4. PICK writes \in SUBSET (Requests \X Nat) :
           writes = pending[c] /\ pending' = [pending EXCEPT ![c] = writes]
    BY DEF Alter, BrowserInv, TypeOK
  <1>5. KeepsBatches(r, writes)
    <2>1. ASSUME NEW i \in DOMAIN request[r].script, NEW j \in DOMAIN request[r].script,
                 IsBatch(request[r].script, i, j)
          PROVE  request[r].at # j
      BY <1>1, <2>1 DEF IsBatch, Current
    <2>2. committed' = committed /\ writes = pending[Conn(r)] /\ request[r].script[request[r].at] # "write"
      BY <1>0, <1>1, <1>4 DEF Alter, Current
    <2> QED
      BY <2>1, <2>2 DEF KeepsBatches
  <1>6. /\ committed' = committed /\ committed \subseteq Requests \X Nat
        /\ writer' \in Connections \cup {None} /\ (writer' # None => connection'[writer'].open)
    BY <1>2, <1>3 DEF Alter, BrowserInv, TypeOK
  <1>7. request' = [request EXCEPT ![r].at = @ + 1]
    BY DEF Execute
  <1> QED
    BY <1>0, <1>1, <1>2, <1>3, <1>4, <1>5, <1>6, <1>7, ExecutedStep

---------------------------------------------------------------------------
(* The steps that take a connection *)

LEMMA TakenIsClosed ==
  ASSUME BrowserInv, NEW c \in Available
  PROVE  /\ c \in Connections /\ c # None /\ connection[c].state \in {"idle", "unopened"}
         /\ Taken(c) \in Connection /\ ~Taken(c).open /\ ~Taken(c).altered /\ Taken(c).state = "idle"
         /\ pending[c] = {} /\ writer # c
  <1>1. c \in Connections /\ c # None /\ connection[c].state \in {"idle", "unopened"}
    BY BrowserAssumption DEF Available, Idle
  <1>2. connection[c] \in Connection /\ Clean(c) /\ ~connection[c].open
    BY <1>1 DEF BrowserInv, TypeOK, Clean
  <1>3. pending[c] = {} /\ writer # c
    BY <1>1, <1>2 DEF BrowserInv, TypeOK, Clean
  <1> QED
    BY <1>1, <1>2, <1>3 DEF Clean, Taken, Idle, Fresh, Connection

LEMMA ApplicationStep ==
  ASSUME BrowserInv, NEW c \in Connections, ApplicationRequest(c)
  PROVE  BrowserInv'
  <1>0. c \in Available /\ UNCHANGED <<request, committed, pending, writer>>
    BY DEF ApplicationRequest
  <1>1. /\ c # None /\ connection[c].state \in {"idle", "unopened"}
        /\ Taken(c) \in Connection /\ ~Taken(c).open /\ ~Taken(c).altered /\ Taken(c).state = "idle"
        /\ pending[c] = {} /\ writer # c
    BY <1>0, TakenIsClosed
  <1>2. PICK taken \in Connection : /\ taken = Taken(c)
                                     /\ connection' = [connection EXCEPT ![c] = taken]
    BY <1>1 DEF ApplicationRequest
  <1>3. /\ connection'[c] = taken /\ connection' \in [Connections -> Connection]
        /\ \A d \in Connections \ {c} : connection'[d] = connection[d]
    BY <1>2 DEF BrowserInv, TypeOK
  <1>4. TypeOK'
    BY <1>0, <1>1, <1>3 DEF BrowserInv, TypeOK
  <1>5. \A s \in Requests : Owns(s) => Conn(s) \in Connections \ {c}
    BY <1>1, Parts
  <1>6. ConnectionsAreOwned'
    <2>1. ASSUME NEW s \in Requests
          PROVE  Owned(s)'
      <3>1. Owned(s)
        BY Parts
      <3> QED
        BY <1>0, <1>3, <1>5, <3>1 DEF Owned, Owns, Conn
    <2>2. \A r, s \in Requests : Conn(r)' = Conn(s)' /\ Conn(r)' # None => r = s
      BY <1>0 DEF BrowserInv, ConnectionsAreOwned, Conn
    <2> QED
      BY <2>1, <2>2 DEF ConnectionsAreOwned
  <1>7. WritesAreRun'
    BY <1>0 DEF BrowserInv, WritesAreRun, Conn
  <1>8. ASSUME NEW d \in Connections
        PROVE  Clean(d)'
    <2>1. CASE d = c
      BY <1>0, <1>1, <1>2, <1>3, <2>1 DEF Clean
    <2>2. CASE d # c
      BY <1>0, <1>3, <2>2 DEF Clean, BrowserInv
    <2> QED
      BY <2>1, <2>2
  <1>9. ASSUME NEW s \in Requests
        PROVE  UnfinishedIsOpen(s)' /\ Batches(s)'
    <2>1. UnfinishedIsOpen(s) /\ Batches(s)
      BY Parts
    <2>2. UnfinishedIsOpen(s)'
      BY <1>0, <1>3, <1>5, <2>1 DEF UnfinishedIsOpen, Begun, Owns, Conn
    <2>3. Batches(s)'
      BY <1>0, BatchesRest DEF Begun, Conn
    <2> QED
      BY <2>2, <2>3
  <1> QED
    BY <1>4, <1>6, <1>7, <1>8, <1>9 DEF BrowserInv

LEMMA PayloadIs ==
  ASSUME NEW payload \in Payloads
  PROVE  payload.mode \in {"query", "execute"} /\ payload.script \in Seq(Statement)
  <1>1. \A script \in Scripts : script \in Seq(Statement)
    BY BrowserAssumption
  <1> QED
    BY <1>1, StatementsAreStatements DEF Payloads, AsScript, AsQuery

LEMMA BrowserConnectionStep ==
  ASSUME BrowserInv, NEW r \in Requests, NEW c \in Connections, NEW payload \in Payloads,
         BrowserConnection(r, c, payload)
  PROVE  BrowserInv'
  <1>1. /\ c \in Available /\ UNCHANGED <<committed, pending, writer>>
        /\ Owned(r) /\ request[r] \in RequestState /\ request[r].step = "new"
    BY Parts DEF BrowserConnection
  <1>2. /\ c # None /\ connection[c].state \in {"idle", "unopened"}
        /\ Taken(c) \in Connection /\ ~Taken(c).open /\ pending[c] = {} /\ writer # c
    BY <1>1, TakenIsClosed
  <1>3. Conn(r) = None /\ request[r].at = 1
    BY <1>1 DEF Owned, Owns
  <1>4. PICK outcome \in Outcomes(payload) : request' = [request EXCEPT ![r] =
           [@ EXCEPT !.mode = payload.mode, !.script = payload.script, !.conn = c,
                     !.step = outcome.step, !.answer = outcome.answer]]
    BY DEF BrowserConnection
  <1>5. /\ outcome.step \in {"running", "answered"}
        /\ outcome.answer \in {"none", "refused", "error"}
    BY DEF Outcomes
  <1> DEFINE before == request[r]
             with1 == [before EXCEPT !.mode = payload.mode]
             with2 == [with1 EXCEPT !.script = payload.script]
             with3 == [with2 EXCEPT !.conn = c]
             with4 == [with3 EXCEPT !.step = outcome.step]
             next == [with4 EXCEPT !.answer = outcome.answer]
  <1>6. request' = [request EXCEPT ![r] = next]
    <2>1. next = [before EXCEPT !.mode = payload.mode, !.script = payload.script, !.conn = c,
                                !.step = outcome.step, !.answer = outcome.answer]
      OBVIOUS
    <2> QED
      BY <1>4, <2>1
  <1>7. /\ next \in RequestState /\ next.script = payload.script /\ next.at = 1 /\ next.conn = c
        /\ next.step = outcome.step /\ next.answer = outcome.answer
    <2>1. before \in RequestState /\ before.at = 1
      BY <1>1, <1>3
    <2>2. /\ payload.mode \in {"query", "execute"} /\ payload.script \in Seq(Statement)
      BY PayloadIs
    <2> HIDE DEF before, with1, with2, with3, with4, next
    <2>3. with1 \in RequestState /\ with1.at = 1
      BY <2>1, <2>2 DEF RequestState, with1
    <2>4. with2 \in RequestState /\ with2.at = 1 /\ with2.script = payload.script
      BY <2>2, <2>3 DEF RequestState, with2
    <2>5. with3 \in RequestState /\ with3.at = 1 /\ with3.script = payload.script /\ with3.conn = c
      BY <2>4 DEF RequestState, with3
    <2>6. /\ with4 \in RequestState /\ with4.at = 1 /\ with4.script = payload.script /\ with4.conn = c
          /\ with4.step = outcome.step
      BY <1>5, <2>5 DEF RequestState, with4
    <2> QED
      BY <1>5, <2>6 DEF RequestState, next
  <1>8. next \in RequestState
    BY <1>7
  <1>9. /\ next.script = payload.script /\ next.at = 1 /\ next.conn = c
        /\ next.step \in {"running", "answered"} /\ next.answer \in {"none", "refused", "error"}
    BY <1>5, <1>7
  <1> HIDE DEF next, with4, with3, with2, with1, before
  <1>10. request'[r] = next /\ \A s \in Requests \ {r} : request'[s] = request[s]
    BY <1>6 DEF BrowserInv, TypeOK
  <1>11. PICK taken \in Connection : /\ taken.state = "browser" /\ ~taken.open
                                      /\ connection' = [connection EXCEPT ![c] = taken]
    <2> DEFINE taken == [Taken(c) EXCEPT !.state = "browser"]
    <2>1. taken \in Connection /\ taken.state = "browser" /\ ~taken.open
      BY <1>2 DEF Connection
    <2> QED
      BY <2>1 DEF BrowserConnection
  <1>12. /\ connection'[c] = taken /\ connection' \in [Connections -> Connection]
         /\ \A d \in Connections \ {c} : connection'[d] = connection[d]
    BY <1>11 DEF BrowserInv, TypeOK
  <1>13. TypeOK'
    <2>1. request' \in [Requests -> RequestState]
      BY <1>6, <1>8 DEF BrowserInv, TypeOK, RequestState
    <2> QED
      BY <1>1, <1>2, <1>12, <2>1 DEF BrowserInv, TypeOK, RequestState
  <1>14. Conn(r)' = c /\ request'[r].at = 1 /\ Owns(r)'
    BY <1>9, <1>10 DEF Conn, Owns
  <1>15. /\ Len(next.script) \in Nat /\ DOMAIN next.script = 1 .. Len(next.script)
    BY <1>8 DEF RequestState
  <1>16. Owned(r)'
    BY <1>9, <1>10, <1>11, <1>12, <1>14, <1>15 DEF Owned
  <1>17. Clean(c)'
    BY <1>1, <1>2, <1>11, <1>12 DEF Clean
  <1>18. UnfinishedIsOpen(r)'
    <2>1. ~BegunBefore(next.script, 1)
      BY <1>15 DEF BegunBefore
    <2> QED
      BY <1>9, <1>10, <2>1 DEF UnfinishedIsOpen
  <1>19. Batches(r)'
    <2>1. \A n \in Nat \ {0} : <<r, n>> \notin committed
      BY <1>3 DEF BrowserInv, WritesAreRun
    <2>2. ASSUME NEW i \in DOMAIN next.script, NEW j \in DOMAIN next.script
          PROVE  BatchInv(r, i, j)'
      BY <1>1, <1>9, <1>10, <1>15, <2>1, <2>2 DEF BatchInv
    <2> QED
      BY <1>10, <2>2 DEF Batches
  <1> QED
    BY <1>1, <1>2, <1>3, <1>10, <1>12, <1>13, <1>14, <1>16, <1>17, <1>18, <1>19, StepOfRequest

---------------------------------------------------------------------------
(* The theorems *)

LEMMA InitBrowser ==
  ASSUME Init
  PROVE  BrowserInv
  <1>1. TypeOK
    <2>1. /\ <<>> \in Seq(Statement)
          /\ [Fresh EXCEPT !.state = "unopened"] \in Connection
      <3>1. Fresh \in Connection
        BY DEF Fresh, Connection
      <3>2. <<>> \in Seq(Statement)
        OBVIOUS
      <3>3. [Fresh EXCEPT !.state = "unopened"] \in Connection
        BY <3>1 DEF Connection
      <3> QED
        BY <3>2, <3>3
    <2>2. \A c \in Connections : connection[c] \in Connection
      BY <2>1 DEF Init
    <2>3. [mode |-> "execute", script |-> <<>>, at |-> 1, conn |-> None,
           expired |-> FALSE, step |-> "new", answer |-> "none"] \in RequestState
      BY <2>1 DEF RequestState
    <2>4. request \in [Requests -> RequestState]
      BY <2>3 DEF Init
    <2>5. connection \in [Connections -> Connection]
      BY <2>1 DEF Init
    <2>6. committed = {} /\ pending = [c \in Connections |-> {}] /\ writer = None
      BY DEF Init
    <2> QED
      BY <2>4, <2>5, <2>6 DEF TypeOK, RequestState
  <1>2. \A r \in Requests :
           request[r] = [mode |-> "execute", script |-> <<>>, at |-> 1, conn |-> None,
                         expired |-> FALSE, step |-> "new", answer |-> "none"]
    BY DEF Init
  <1>3. ConnectionsAreOwned
    BY <1>2 DEF ConnectionsAreOwned, Owned, Owns, Conn
  <1>4. WritesAreRun /\ \A c \in Connections : Clean(c)
    BY DEF Init, WritesAreRun, Clean, Fresh
  <1>5. \A r \in Requests : UnfinishedIsOpen(r) /\ Batches(r)
    BY <1>2 DEF UnfinishedIsOpen, Begun, Batches
  <1> QED
    BY <1>1, <1>3, <1>4, <1>5 DEF BrowserInv

LEMMA NextBrowser ==
  ASSUME BrowserInv, [Next]_vars
  PROVE  BrowserInv'
  <1>1. CASE UNCHANGED vars
    BY <1>1 DEF vars, BrowserInv, TypeOK, ConnectionsAreOwned, Owned, Owns, Conn, WritesAreRun, Clean,
                UnfinishedIsOpen, Begun, Batches, BatchInv
  <1>2. ASSUME NEW c \in Connections, ApplicationRequest(c)
        PROVE  BrowserInv'
    BY <1>2, ApplicationStep
  <1>3. ASSUME NEW r \in Requests, NEW c \in Connections, NEW payload \in Payloads,
               BrowserConnection(r, c, payload)
        PROVE  BrowserInv'
    BY <1>3, BrowserConnectionStep
  <1>4. ASSUME NEW r \in Requests, Execute(r)
        PROVE  BrowserInv'
    BY <1>4, BeginStep, WriteAloneStep, WriteInTransactionStep, CommitOrRollbackStep, AlterStep DEF Execute
  <1>5. ASSUME NEW r \in Requests, Advance(r) \/ Expire(r)
        PROVE  BrowserInv'
    BY <1>4, <1>5, FailStep, CountStep, RollBackStep, CloseStep, ExpireStep DEF Advance
  <1> QED
    BY <1>1, <1>2, <1>3, <1>5 DEF Next

\* What is known of every request and every connection whatever SQL the requests
\* run: who owns which connection, what is pending on it and what is committed.
THEOREM BrowserStateIsKnown == Spec => []BrowserInv
  <1>1. Init => BrowserInv
    BY InitBrowser
  <1>2. BrowserInv /\ [Next]_vars => BrowserInv'
    BY NextBrowser
  <1> QED
    BY <1>1, <1>2, PTL DEF Spec

\* The writes between BEGIN and the next COMMIT of a script of BrowserSQL are
\* committed together or not at all, and no connection that the application gets
\* from the pool has a setting or a transaction that the browser left on it.
THEOREM BatchesAreAtomic == Spec => []AtomicBatches
  <1>1. ASSUME BrowserInv
        PROVE  AtomicBatches
    <2>1. \A c \in Idle : ~connection[c].altered /\ ~connection[c].open /\ pending[c] = {}
      BY <1>1 DEF BrowserInv, TypeOK, Clean, Idle
    <2>2. ASSUME NEW r \in Requests, NEW i \in DOMAIN request[r].script, NEW j \in DOMAIN request[r].script,
                 IsBatch(request[r].script, i, j)
          PROVE  LET batch == {n \in i .. j : request[r].script[n] = "write"}
                 IN  \/ \A n \in batch : <<r, n>> \in committed
                     \/ \A n \in batch : <<r, n>> \notin committed
      <3>1. /\ BatchInv(r, i, j) /\ request[r].at \in Nat /\ j \in Nat
        BY <1>1, Parts DEF Batches, RequestState
      <3> QED
        BY <2>2, <3>1 DEF BatchInv
    <2>3. BatchesAreWhole
      BY <2>2 DEF BatchesAreWhole, IsBatch
    <2> QED
      BY <1>1, <2>1, <2>3 DEF AtomicBatches, BrowserInv
  <1> QED
    BY <1>1, BrowserStateIsKnown, PTL

\* BrowserSQL does not answer success, before its deadline, to a script that leaves
\* its transaction unfinished.
THEOREM SuccessIsFinished == Spec => []TimelySuccessIsFinished
  <1>1. BrowserInv => TimelySuccessIsFinished
    BY DEF BrowserInv, UnfinishedIsOpen, TimelySuccessIsFinished
  <1> QED
    BY <1>1, BrowserStateIsKnown, PTL
---------------------------------------------------------------------------
(* singleBrowserStatement: induction over a text.                            *)
(*                                                                           *)
(* The scan and its searches for a quote are recursive functions. A function *)
(* that is defined from the end of a text exists (Backwards), and so they    *)
(* have the values of their definitions. What the scan reads from a place of *)
(* the text on is a set of places, Reads. Each piece is read as what it is   *)
(* (ReadsPieces), from which the set follows for the whole text (Knows), and *)
(* the answer of the scan from the set (Accepted).                           *)

\* The characters of the pieces.
Alphabet == {"a", "semi", "-", "/", "*", "'", "doublequote", "[", "]", "space", "newline"}

LEMMA FirstOfIs ==
  ASSUME NEW S \in SUBSET Nat, NEW otherwise
  PROVE  /\ S = {} => FirstOf(S, otherwise) = otherwise
         /\ S # {} => FirstOf(S, otherwise) \in S /\ \A y \in S : FirstOf(S, otherwise) <= y
  <1>1. CASE S = {}
    BY <1>1 DEF FirstOf
  <1>2. CASE S # {}
    <2> DEFINE less == {pair \in Nat \X Nat : pair[1] < pair[2]}
    <2>1. IsWellFoundedOn(less, Nat)
      BY NatLessThanWellFounded, Zenon DEF OpToRel
    <2> HIDE DEF less
    <2>2. PICK m \in S : \A k \in S : <<k, m>> \notin less
      BY <1>2, <2>1, WFMin, Zenon
    <2>3. \A k \in S : m <= k
      <3>1. \A k \in S : ~(k < m)
        BY <2>2 DEF less
      <3> QED
        BY ONLY <3>1, S \in SUBSET Nat, m \in S
    <2>4. FirstOf(S, otherwise) = CHOOSE x \in S : \A y \in S : x <= y
      BY <1>2 DEF FirstOf
    <2> QED
      BY <1>2, <2>3, <2>4
  <1> QED
    BY <1>1, <1>2

LEMMA Upwards ==
  ASSUME NEW last \in Nat, NEW S,
         \A k \in 1 .. last : 1 .. k - 1 \subseteq S => k \in S
  PROVE  1 .. last \subseteq S
  <1> DEFINE missing == {k \in 1 .. last : k \notin S}
  <1>1. missing \in SUBSET Nat
    OBVIOUS
  <1>2. ASSUME missing # {} PROVE FALSE
    <2>1. PICK k \in missing : \A j \in missing : k <= j
      <3> HIDE DEF missing
      <3> QED
        BY <1>1, <1>2, FirstOfIs, Zenon
    <2>2. 1 .. k - 1 \subseteq S
      BY <2>1
    <2> QED
      BY <2>1, <2>2
  <1> QED
    BY <1>2

LEMMA Downwards ==
  ASSUME NEW last \in Nat, NEW S, last \in S,
         \A k \in 1 .. last - 1 : k + 1 .. last \subseteq S => k \in S
  PROVE  1 .. last \subseteq S
  <1> DEFINE below == {d \in Nat : d < last /\ last - d \notin S}
  <1>1. below \in SUBSET Nat
    OBVIOUS
  <1>2. ASSUME below # {} PROVE FALSE
    <2>1. PICK d \in below : \A e \in below : d <= e
      <3> HIDE DEF below
      <3> QED
        BY <1>1, <1>2, FirstOfIs, Zenon
    <2>2. ASSUME NEW j \in (last - d) + 1 .. last PROVE j \in S
      <3>1. last - j \in Nat /\ last - j < d /\ last - (last - j) = j
        BY <2>1
      <3> QED
        BY <2>1, <3>1
    <2> QED
      BY <2>1, <2>2
  <1>3. ASSUME NEW k \in 1 .. last PROVE k \in S
    <2>1. last - k \in Nat /\ last - k < last /\ last - (last - k) = k
      OBVIOUS
    <2>2. last - k \notin below
      BY <1>2
    <2> QED
      BY <2>1, <2>2
  <1> QED
    BY <1>3

\* A function that is defined from the end of a text: value[i], or what it is at
\* a later place, with add[i].
Backwards(f, first, last, value, add, next) ==
    f = [i \in first .. last |->
            IF i \in DOMAIN value THEN value[i]
            ELSE IF add[i] = {} THEN f[next[i]] ELSE add[i] \cup f[next[i]]]

LEMMA BackwardsExists ==
  ASSUME NEW last \in Nat, last >= 1, NEW value, NEW add, NEW next, last \in DOMAIN value,
         \A i \in 1 .. last : i \notin DOMAIN value => next[i] \in i + 1 .. last
  PROVE  \E f : Backwards(f, 1, last, value, add, next)
  <1> DEFINE S == {k \in 1 .. last : \E f : Backwards(f, k, last, value, add, next)}
  <1>1. last \in S
    <2> DEFINE f == [i \in last .. last |-> value[i]]
    <2>1. Backwards(f, last, last, value, add, next)
      BY DEF Backwards
    <2> QED
      BY <2>1
  <1>2. ASSUME NEW k \in 1 .. last - 1, k + 1 .. last \subseteq S
        PROVE  k \in S
    <2>1. k + 1 \in S
      BY <1>2
    <2>2. PICK g : Backwards(g, k + 1, last, value, add, next)
      BY <2>1
    <2> DEFINE f == [i \in k .. last |-> IF i > k THEN g[i]
                       ELSE IF k \in DOMAIN value THEN value[k]
                       ELSE IF add[k] = {} THEN g[next[k]] ELSE add[k] \cup g[next[k]]]
    <2>3. \A i \in k .. last : i \notin DOMAIN value => next[i] \in i + 1 .. last
      OBVIOUS
    <2>4. \A i \in k .. last : i \notin DOMAIN value => f[next[i]] = g[next[i]]
      BY <2>3
    <2>5. \A i \in k + 1 .. last : g[i] =
            IF i \in DOMAIN value THEN value[i]
            ELSE IF add[i] = {} THEN g[next[i]] ELSE add[i] \cup g[next[i]]
      BY <2>2 DEF Backwards
    <2>6. \A i \in k .. last : f[i] =
            IF i \in DOMAIN value THEN value[i]
            ELSE IF add[i] = {} THEN f[next[i]] ELSE add[i] \cup f[next[i]]
      <3> TAKE i \in k .. last
      <3>1. CASE i = k
        <4>1. f[i] = IF i \in DOMAIN value THEN value[i]
                     ELSE IF add[i] = {} THEN g[next[i]] ELSE add[i] \cup g[next[i]]
          BY <3>1
        <4> HIDE DEF f
        <4> QED
          BY <4>1, <2>4
      <3>2. CASE i > k
        <4>1. f[i] = g[i] /\ i \in k + 1 .. last
          BY <3>2
        <4> HIDE DEF f
        <4> QED
          BY <4>1, <2>4, <2>5
      <3> QED
        BY <3>1, <3>2
    <2>7. f = [i \in k .. last |->
            IF i \in DOMAIN value THEN value[i]
            ELSE IF add[i] = {} THEN f[next[i]] ELSE add[i] \cup f[next[i]]]
      <3>1. f = [i \in k .. last |-> f[i]]
        OBVIOUS
      <3> HIDE DEF f
      <3> QED
        BY <2>6, <3>1
    <2>8. Backwards(f, k, last, value, add, next)
      BY <2>7, Zenon DEF Backwards
    <2> HIDE DEF f
    <2>9. \E h : Backwards(h, k, last, value, add, next)
      BY <2>8, Zenon
    <2> QED
      BY <2>9
  <1> HIDE DEF S
  <1>3. 1 .. last \subseteq S
    BY <1>1, <1>2, Downwards
  <1> QED
    BY <1>3 DEF S

\* The search for a closing quote, from any place.
Closes(after, text, close) ==
    \A j \in 1 .. Len(text) + 1 : after[j] =
        IF j = Len(text) + 1 THEN Len(text) + 1
        ELSE IF text[j] # close THEN after[j + 1]
        ELSE IF close # "]" /\ At(text, j + 1, close) THEN after[j + 2]
        ELSE j + 1

LEMMA ClosesExist ==
  ASSUME NEW text \in Seq(Alphabet), NEW close
  PROVE  \E after : /\ Closes(after, text, close)
                    /\ \A i \in 1 .. Len(text) : ClosedBy(text[i]) = close =>
                          AfterQuoted(text, i) = after[i + 1]
  <1> DEFINE last == Len(text) + 1
             doubled(j) == close # "]" /\ At(text, j + 1, close)
             value == [j \in {x \in 1 .. last : x = last \/ (text[x] = close /\ ~doubled(x))} |->
                         IF j = last THEN last ELSE j + 1]
             add == [j \in 1 .. last |-> {}]
             next == [j \in 1 .. last |-> IF text[j] # close THEN j + 1 ELSE j + 2]
             body(f, j) == IF j = last THEN last
                           ELSE IF text[j] # close THEN f[j + 1]
                           ELSE IF doubled(j) THEN f[j + 2] ELSE j + 1
  <1>1. last \in Nat /\ last >= 1 /\ last \in DOMAIN value /\ DOMAIN text = 1 .. last - 1
    OBVIOUS
  <1>2. \A i \in 1 .. last : i \notin DOMAIN value => next[i] \in i + 1 .. last
    <2> TAKE i \in 1 .. last
    <2>1. doubled(i) => i + 2 \in 1 .. last
      BY <1>1 DEF At
    <2> QED
      BY <1>1, <2>1
  <1>3. \A f : \A i \in 1 .. last :
           (IF i \in DOMAIN value THEN value[i]
            ELSE IF add[i] = {} THEN f[next[i]] ELSE add[i] \cup f[next[i]]) = body(f, i)
    OBVIOUS
  <1>4. \A f : Backwards(f, 1, last, value, add, next) <=> f = [j \in 1 .. last |-> body(f, j)]
    <2> TAKE f
    <2> HIDE DEF value, add, next, body
    <2>1. [i \in 1 .. last |->
            IF i \in DOMAIN value THEN value[i]
            ELSE IF add[i] = {} THEN f[next[i]] ELSE add[i] \cup f[next[i]]]
          = [j \in 1 .. last |-> body(f, j)]
      BY <1>3
    <2> QED
      BY <2>1, Zenon DEF Backwards
  <1>5. \E f : f = [j \in 1 .. last |-> body(f, j)]
    <2> HIDE DEF value, add, next, body, last
    <2>1. \E f : Backwards(f, 1, last, value, add, next)
      BY <1>1, <1>2, BackwardsExists, Zenon
    <2> QED
      BY <1>4, <2>1, Zenon
  <1>6. PICK after : after = CHOOSE f : f = [j \in 1 .. last |-> body(f, j)]
    OBVIOUS
  <1>7. after = [j \in 1 .. last |-> body(after, j)]
    <2> HIDE DEF body, last
    <2> QED
      BY <1>5, <1>6, Zenon
  <1>8. Closes(after, text, close)
    BY <1>7 DEF Closes
  <1>9. ASSUME NEW i \in 1 .. Len(text), ClosedBy(text[i]) = close
        PROVE  AfterQuoted(text, i) = after[i + 1]
    <2>1. AfterQuoted(text, i) =
            (CHOOSE f : f = [j \in 1 .. last |-> body(f, j)])[i + 1]
      BY <1>9, Zenon DEF AfterQuoted, End
    <2> QED
      BY <1>6, <2>1, Zenon
  <1> QED
    BY <1>8, <1>9, Zenon

\* What the scan reads, from any place.
Reads(read, text) ==
    \A i \in 1 .. Len(text) + 1 : read[i] =
        IF i = Len(text) + 1 THEN {}
        ELSE IF IsBlank(text, i) THEN read[i + 1]
        ELSE IF StartsLine(text, i) THEN read[AfterLine(text, i)]
        ELSE IF StartsBlock(text, i) THEN read[AfterBlock(text, i)]
        ELSE {i} \cup read[AfterToken(text, i)]

LEMMA LaterLine ==
  ASSUME NEW text \in Seq(Alphabet), NEW i \in 1 .. Len(text)
  PROVE  AfterLine(text, i) \in i + 1 .. Len(text) + 1
  <1> DEFINE S == {j \in i .. Len(text) : text[j] = "newline"}
  <1>1. S \in SUBSET Nat /\ \A j \in S : j \in i .. Len(text)
    OBVIOUS
  <1>2. AfterLine(text, i) = FirstOf(S, Len(text)) + 1
    BY DEF AfterLine
  <1> HIDE DEF S
  <1>3. FirstOf(S, Len(text)) \in i .. Len(text)
    <2>1. PICK j \in S \cup {Len(text)} : j = FirstOf(S, Len(text))
      BY <1>1, FirstOfIs, Zenon
    <2>2. j \in i .. Len(text)
      BY <1>1, <2>1
    <2> QED
      BY <2>1, <2>2, Zenon
  <1> QED
    BY <1>2, <1>3

LEMMA LaterBlock ==
  ASSUME NEW text \in Seq(Alphabet), NEW i \in 1 .. Len(text), StartsBlock(text, i)
  PROVE  AfterBlock(text, i) \in i + 1 .. Len(text) + 1
  <1> DEFINE S == {j \in i + 2 .. Len(text) : At(text, j, "*") /\ At(text, j + 1, "/")}
  <1>1. S \in SUBSET Nat /\ \A j \in S : j \in i + 2 .. Len(text) - 1
    BY DEF At
  <1>2. AfterBlock(text, i) = FirstOf(S, Len(text) - 1) + 2
    BY DEF AfterBlock
  <1> HIDE DEF S
  <1>3. i + 1 <= Len(text)
    BY DEF StartsBlock, At
  <1>4. FirstOf(S, Len(text) - 1) \in i .. Len(text) - 1
    <2> DEFINE end == Len(text) - 1
    <2> HIDE DEF end
    <2>0. PICK j \in S \cup {end} : j = FirstOf(S, end)
      BY <1>1, FirstOfIs, Zenon
    <2>1. j \in S \cup {Len(text) - 1} /\ j = FirstOf(S, Len(text) - 1)
      BY <2>0 DEF end
    <2>2. j \in i .. Len(text) - 1
      BY <1>1, <1>3, <2>1
    <2> QED
      BY <2>1, <2>2, Zenon
  <1> QED
    BY <1>2, <1>3, <1>4

LEMMA LaterToken ==
  ASSUME NEW text \in Seq(Alphabet), NEW i \in 1 .. Len(text)
  PROVE  AfterToken(text, i) \in i + 1 .. Len(text) + 1
  <1>1. CASE text[i] \notin Quotes
    BY <1>1 DEF AfterToken
  <1>2. CASE text[i] \in Quotes
    <2>1. PICK close : close = ClosedBy(text[i])
      OBVIOUS
    <2>2. PICK after : Closes(after, text, close) /\ AfterQuoted(text, i) = after[i + 1]
      BY <2>1, ClosesExist
    <2>3. PICK last \in Nat : last = Len(text) + 1
      OBVIOUS
    <2> DEFINE S == {j \in 1 .. last : after[j] \in j .. last}
    <2>4. last \in S
      BY <2>2, <2>3 DEF Closes
    <2>5. ASSUME NEW j \in 1 .. last - 1, j + 1 .. last \subseteq S
          PROVE  j \in S
      <3>1. \A k \in j + 1 .. last : after[k] \in k .. last
        BY <2>5
      <3>2. after[j] = IF text[j] # close THEN after[j + 1]
                       ELSE IF close # "]" /\ At(text, j + 1, close) THEN after[j + 2] ELSE j + 1
        BY <2>2, <2>3 DEF Closes
      <3>3. At(text, j + 1, close) => j + 2 \in j + 1 .. last
        BY <2>3 DEF At
      <3>4. after[j] \in j .. last
        BY <3>1, <3>2, <3>3
      <3> QED
        BY <3>4
    <2> HIDE DEF S
    <2>6. 1 .. last \subseteq S
      BY <2>4, <2>5, Downwards
    <2>7. after[i + 1] \in i + 1 .. last
      BY <2>3, <2>6 DEF S
    <2> QED
      BY <1>2, <2>2, <2>3, <2>7 DEF AfterToken
  <1> QED
    BY <1>1, <1>2

LEMMA ReadsExist ==
  ASSUME NEW text \in Seq(Alphabet)
  PROVE  \E read : Reads(read, text)
  <1> DEFINE last == Len(text) + 1
             later(i) == IF IsBlank(text, i) THEN i + 1
                         ELSE IF StartsLine(text, i) THEN AfterLine(text, i)
                         ELSE IF StartsBlock(text, i) THEN AfterBlock(text, i)
                         ELSE AfterToken(text, i)
             skipped(i) == IsBlank(text, i) \/ StartsLine(text, i) \/ StartsBlock(text, i)
             value == [i \in {last} |-> {}]
             add == [i \in 1 .. last |-> IF skipped(i) THEN {} ELSE {i}]
             next == [i \in 1 .. last |-> later(i)]
             body(f, i) == IF i = last THEN {}
                           ELSE IF IsBlank(text, i) THEN f[i + 1]
                           ELSE IF StartsLine(text, i) THEN f[AfterLine(text, i)]
                           ELSE IF StartsBlock(text, i) THEN f[AfterBlock(text, i)]
                           ELSE {i} \cup f[AfterToken(text, i)]
  <1>1. last \in Nat /\ last >= 1 /\ last \in DOMAIN value
    OBVIOUS
  <1>2. \A i \in 1 .. last : i \notin DOMAIN value => next[i] \in i + 1 .. last
    BY LaterLine, LaterBlock, LaterToken
  <1>3. \A f : \A i \in 1 .. last :
           (IF i \in DOMAIN value THEN value[i]
            ELSE IF add[i] = {} THEN f[next[i]] ELSE add[i] \cup f[next[i]]) = body(f, i)
    OBVIOUS
  <1>4. \A f : Backwards(f, 1, last, value, add, next) <=> f = [i \in 1 .. last |-> body(f, i)]
    <2> TAKE f
    <2> HIDE DEF value, add, next, body
    <2>1. [i \in 1 .. last |->
            IF i \in DOMAIN value THEN value[i]
            ELSE IF add[i] = {} THEN f[next[i]] ELSE add[i] \cup f[next[i]]]
          = [i \in 1 .. last |-> body(f, i)]
      BY <1>3
    <2> QED
      BY <2>1, Zenon DEF Backwards
  <1>5. \E f : f = [i \in 1 .. last |-> body(f, i)]
    <2> HIDE DEF value, add, next, body, last
    <2>1. \E f : Backwards(f, 1, last, value, add, next)
      BY <1>1, <1>2, BackwardsExists, Zenon
    <2> QED
      BY <1>4, <2>1, Zenon
  <1>6. PICK read : read = CHOOSE f : f = [i \in 1 .. last |-> body(f, i)]
    OBVIOUS
  <1>7. read = [i \in 1 .. last |-> body(read, i)]
    <2> HIDE DEF body, last
    <2> QED
      BY <1>5, <1>6, Zenon
  <1>8. Reads(read, text)
    BY <1>7 DEF Reads
  <1> QED
    BY <1>8, Zenon

\* Where the pieces of a text begin, and where the text ends.
Cut(pieces, text, at) ==
    /\ text \in Seq(Alphabet) /\ at \in [1 .. Len(pieces) + 1 -> 1 .. Len(text) + 1]
    /\ at[1] = 1 /\ at[Len(pieces) + 1] = Len(text) + 1
    /\ \A p \in 1 .. Len(pieces) :
          /\ at[p + 1] = at[p] + Len(pieces[p].chars)
          /\ \A k \in 1 .. Len(pieces[p].chars) : text[at[p] + k - 1] = pieces[p].chars[k]

Flattens(f, seqs, last) ==
    f = [i \in 1 .. last |-> IF i = 1 THEN seqs[i] ELSE f[i - 1] \o seqs[i]]

LEMMA FlattensExist ==
  ASSUME NEW last \in Nat, NEW seqs
  PROVE  \E f : Flattens(f, seqs, last)
  <1> DEFINE S == {k \in 1 .. last : \E f : Flattens(f, seqs, k)}
  <1>1. ASSUME NEW k \in 1 .. last, 1 .. k - 1 \subseteq S
        PROVE  k \in S
    <2>1. CASE k = 1
      <3>1. Flattens([i \in 1 .. 1 |-> seqs[1]], seqs, 1)
        BY DEF Flattens
      <3> QED
        BY <2>1, <3>1
    <2>2. CASE k > 1
      <3>1. PICK g : Flattens(g, seqs, k - 1)
        BY <1>1, <2>2
      <3> DEFINE f == [i \in 1 .. k |-> IF i < k THEN g[i] ELSE g[k - 1] \o seqs[k]]
      <3>2. \A i \in 1 .. k - 1 : g[i] = IF i = 1 THEN seqs[i] ELSE g[i - 1] \o seqs[i]
        BY <3>1 DEF Flattens
      <3>3. \A i \in 1 .. k : f[i] = IF i = 1 THEN seqs[i] ELSE f[i - 1] \o seqs[i]
        BY <2>2, <3>2
      <3>4. f = [i \in 1 .. k |-> f[i]]
        OBVIOUS
      <3> HIDE DEF f
      <3>5. Flattens(f, seqs, k)
        BY <3>3, <3>4 DEF Flattens
      <3>6. \E h : Flattens(h, seqs, k)
        BY <3>5, Zenon
      <3> QED
        BY <3>6
    <2> QED
      BY <2>1, <2>2
  <1> HIDE DEF S
  <1>2. 1 .. last \subseteq S
    BY <1>1, Upwards
  <1>3. CASE last = 0
    <2>1. Flattens([i \in 1 .. last |-> seqs], seqs, last)
      BY <1>3 DEF Flattens
    <2> QED
      BY <2>1
  <1>4. CASE last # 0
    BY <1>2, <1>4 DEF S
  <1> QED
    BY <1>3, <1>4

LEMMA Joined ==
  ASSUME NEW s \in Seq(Alphabet), NEW t \in Seq(Alphabet)
  PROVE  /\ s \o t \in Seq(Alphabet) /\ Len(s \o t) = Len(s) + Len(t)
         /\ \A x \in 1 .. Len(s) : (s \o t)[x] = s[x]
         /\ \A x \in 1 .. Len(t) : (s \o t)[Len(s) + x] = t[x]
  OBVIOUS

\* f[i] is the first i sequences in a row: each is a prefix of the next.
Grows(f, seqs, last) ==
    /\ \A i \in 1 .. last : f[i] \in Seq(Alphabet)
    /\ last # 0 => f[1] = seqs[1]
    /\ \A i \in 2 .. last :
          /\ Len(f[i]) = Len(f[i - 1]) + Len(seqs[i])
          /\ \A x \in 1 .. Len(seqs[i]) : f[i][Len(f[i - 1]) + x] = seqs[i][x]
    /\ \A k, m \in 1 .. last : m >= k =>
          Len(f[k]) <= Len(f[m]) /\ \A x \in 1 .. Len(f[k]) : f[m][x] = f[k][x]

LEMMA FlattenedIs ==
  ASSUME NEW last \in Nat, NEW seqs, \A i \in 1 .. last : seqs[i] \in Seq(Alphabet),
         NEW f, Flattens(f, seqs, last)
  PROVE  Grows(f, seqs, last)
  <1>1. (last # 0 => f[1] = seqs[1]) /\ \A i \in 2 .. last : f[i] = f[i - 1] \o seqs[i]
    <2>1. \A i \in 1 .. last : f[i] = IF i = 1 THEN seqs[i] ELSE f[i - 1] \o seqs[i]
      BY Zenon DEF Flattens
    <2>2. \A i \in 2 .. last : i \in 1 .. last /\ i # 1
      OBVIOUS
    <2>3. last # 0 => 1 \in 1 .. last
      OBVIOUS
    <2> QED
      BY <2>1, <2>2, <2>3, Zenon
  <1>2. \A i \in 1 .. last : f[i] \in Seq(Alphabet)
    <2> DEFINE S == {i \in 1 .. last : f[i] \in Seq(Alphabet)}
    <2>1. ASSUME NEW k \in 1 .. last, 1 .. k - 1 \subseteq S
          PROVE  k \in S
      <3>1. CASE k = 1
        BY <1>1, <3>1
      <3>2. CASE k > 1
        <4>1. k - 1 \in S
          BY <2>1, <3>2
        <4>2. k \in 2 .. last
          BY <3>2
        <4>3. f[k] = f[k - 1] \o seqs[k] /\ f[k - 1] \in Seq(Alphabet)
          BY <1>1, <4>1, <4>2, Zenon
        <4>4. f[k] \in Seq(Alphabet)
          BY <4>3, Joined
        <4> QED
          BY <4>4
      <3> QED
        BY <3>1, <3>2
    <2> HIDE DEF S
    <2>2. 1 .. last \subseteq S
      BY <2>1, Upwards
    <2> QED
      BY <2>2 DEF S
  <1>3. ASSUME NEW i \in 2 .. last
        PROVE  /\ Len(f[i]) = Len(f[i - 1]) + Len(seqs[i])
               /\ \A x \in 1 .. Len(f[i - 1]) : f[i][x] = f[i - 1][x]
               /\ \A x \in 1 .. Len(seqs[i]) : f[i][Len(f[i - 1]) + x] = seqs[i][x]
    <2>1. i \in 1 .. last /\ i - 1 \in 1 .. last /\ i # 1
      OBVIOUS
    <2>2. f[i] = f[i - 1] \o seqs[i] /\ f[i - 1] \in Seq(Alphabet) /\ seqs[i] \in Seq(Alphabet)
      BY <1>1, <1>2, <2>1, Zenon
    <2>3. PICK s \in Seq(Alphabet), t \in Seq(Alphabet) : s = f[i - 1] /\ t = seqs[i] /\ f[i] = s \o t
      BY <2>2, Zenon
    <2>4. /\ Len(f[i]) = Len(s) + Len(t)
          /\ \A x \in 1 .. Len(s) : f[i][x] = s[x]
          /\ \A x \in 1 .. Len(t) : f[i][Len(s) + x] = t[x]
      <3>1. /\ Len(s \o t) = Len(s) + Len(t)
            /\ \A x \in 1 .. Len(s) : (s \o t)[x] = s[x]
            /\ \A x \in 1 .. Len(t) : (s \o t)[Len(s) + x] = t[x]
        BY Joined
      <3> QED
        BY <2>3, <3>1, Zenon
    <2> QED
      BY <2>3, <2>4, Zenon
  <1>4. \A i \in 1 .. last : Len(f[i]) \in Nat /\ Len(seqs[i]) \in Nat
    BY <1>2
  <1>5. ASSUME NEW k \in 1 .. last
        PROVE  \A m \in 1 .. last : m >= k =>
                  Len(f[k]) <= Len(f[m]) /\ \A x \in 1 .. Len(f[k]) : f[m][x] = f[k][x]
    <2> DEFINE S == {m \in 1 .. last : m >= k =>
                       Len(f[k]) <= Len(f[m]) /\ \A x \in 1 .. Len(f[k]) : f[m][x] = f[k][x]}
    <2>1. ASSUME NEW m \in 1 .. last, 1 .. m - 1 \subseteq S
          PROVE  m \in S
      <3>1. CASE m <= k
        BY <3>1, <1>4
      <3>2. CASE m > k
        <4>1. m - 1 \in S /\ m - 1 >= k /\ m \in 2 .. last
          BY <2>1, <3>2
        <4>2. Len(f[k]) <= Len(f[m - 1]) /\ \A x \in 1 .. Len(f[k]) : f[m - 1][x] = f[k][x]
          BY <4>1
        <4>3. Len(f[m]) = Len(f[m - 1]) + Len(seqs[m])
              /\ \A x \in 1 .. Len(f[m - 1]) : f[m][x] = f[m - 1][x]
          BY <1>3, <4>1
        <4>4. Len(f[m]) \in Nat /\ Len(f[m - 1]) \in Nat /\ Len(f[k]) \in Nat /\ Len(seqs[m]) \in Nat
          BY <1>4, <4>1
        <4>5. PICK a \in Nat, b \in Nat, c \in Nat :
                 a = Len(f[k]) /\ b = Len(f[m - 1]) /\ c = Len(f[m]) /\ a <= b /\ b <= c
          <5>1. PICK a \in Nat, b \in Nat, c \in Nat, d \in Nat :
                   a = Len(f[k]) /\ b = Len(f[m - 1]) /\ c = Len(f[m]) /\ d = Len(seqs[m])
            BY <4>4, Zenon
          <5>2. c = b + d /\ a <= b
            BY <4>2, <4>3, <5>1, Zenon
          <5>3. b <= c
            BY <5>2
          <5> QED
            BY <5>1, <5>2, <5>3, Zenon
        <4>6. ASSUME NEW x \in 1 .. a PROVE f[m][x] = f[k][x]
          <5>1. x \in 1 .. b
            BY <4>5
          <5> QED
            BY <4>2, <4>3, <4>5, <5>1, Zenon
        <4>7. a <= c
          BY <4>5
        <4> QED
          BY <4>5, <4>6, <4>7
      <3> QED
        BY <3>1, <3>2
    <2> HIDE DEF S
    <2>2. 1 .. last \subseteq S
      BY <2>1, Upwards
    <2> QED
      BY <2>2 DEF S
  <1> QED
    BY <1>1, <1>2, <1>3, <1>5, Zenon DEF Grows

LEMMA CutsExist ==
  ASSUME NEW All, NEW pieces \in Seq(All), \A p \in 1 .. Len(pieces) : pieces[p].chars \in Seq(Alphabet)
  PROVE  \E at : Cut(pieces, Characters(pieces), at)
  <1>1. PICK last \in Nat : last = Len(pieces) /\ DOMAIN pieces = 1 .. last
    OBVIOUS
  <1>2. PICK seqs : seqs = [k \in 1 .. last |-> pieces[k].chars]
    OBVIOUS
  <1>3. Len(seqs) = last /\ Characters(pieces) = FlattenSeq(seqs)
    BY <1>1, <1>2 DEF Characters
  <1>4. \A i \in 1 .. last : seqs[i] = pieces[i].chars /\ seqs[i] \in Seq(Alphabet)
    BY <1>1, <1>2
  <1>5. CASE last = 0
    <2>1. Characters(pieces) = seqs
      BY <1>3, <1>5 DEF FlattenSeq
    <2>2. seqs \in Seq(Alphabet) /\ Len(seqs) = 0
      BY <1>2, <1>3, <1>5
    <2>3. Cut(pieces, Characters(pieces), [p \in 1 .. 1 |-> 1])
      BY <1>1, <1>5, <2>1, <2>2 DEF Cut
    <2> QED
      BY <2>3
  <1>6. CASE last # 0
    <2>1. PICK f : /\ f = CHOOSE g : g = [i \in 1 .. Len(seqs) |-> IF i = 1 THEN seqs[i] ELSE g[i - 1] \o seqs[i]]
                   /\ Characters(pieces) = f[Len(seqs)]
      BY <1>3, <1>6, Zenon DEF FlattenSeq
    <2>2. Flattens(f, seqs, last)
      <3>1. \E g : g = [i \in 1 .. last |-> IF i = 1 THEN seqs[i] ELSE g[i - 1] \o seqs[i]]
        BY FlattensExist DEF Flattens
      <3> QED
        BY <1>3, <2>1, <3>1, Zenon DEF Flattens
    <2>3. /\ \A i \in 1 .. last : f[i] \in Seq(Alphabet)
          /\ f[1] = seqs[1]
          /\ \A i \in 2 .. last :
                /\ Len(f[i]) = Len(f[i - 1]) + Len(seqs[i])
                /\ \A x \in 1 .. Len(seqs[i]) : f[i][Len(f[i - 1]) + x] = seqs[i][x]
          /\ \A k, m \in 1 .. last : m >= k =>
                Len(f[k]) <= Len(f[m]) /\ \A x \in 1 .. Len(f[k]) : f[m][x] = f[k][x]
      <3>1. \A i \in 1 .. last : seqs[i] \in Seq(Alphabet)
        BY <1>4
      <3>2. Grows(f, seqs, last)
        BY <2>2, <3>1, FlattenedIs
      <3> QED
        BY <1>6, <3>2, Zenon DEF Grows
    <2>4. last \in 1 .. last /\ 1 \in 1 .. last
      BY <1>6
    <2>5. PICK text \in Seq(Alphabet) : text = Characters(pieces) /\ text = f[last]
      BY <1>3, <2>1, <2>3, <2>4
    <2>6. \A p \in 1 .. last : /\ Len(f[p]) \in Nat /\ Len(f[p]) <= Len(text) /\ Len(seqs[p]) \in Nat
                              /\ \A x \in 1 .. Len(f[p]) : text[x] = f[p][x]
      <3> TAKE p \in 1 .. last
      <3>1. last >= p
        OBVIOUS
      <3> QED
        BY <1>4, <2>3, <2>4, <2>5, <3>1
    <2>7. PICK at : at = [p \in 1 .. last + 1 |-> IF p = 1 THEN 1 ELSE Len(f[p - 1]) + 1]
      OBVIOUS
    <2>8. at[1] = 1 /\ \A p \in 1 .. last : at[p + 1] = Len(f[p]) + 1
      BY <2>7
    <2>9. Len(text) \in Nat
      BY <2>5
    <2>10. at \in [1 .. last + 1 -> 1 .. Len(text) + 1]
      <3>1. \A p \in 1 .. last + 1 : (IF p = 1 THEN 1 ELSE Len(f[p - 1]) + 1) \in 1 .. Len(text) + 1
        BY <2>6, <2>9
      <3> QED
        BY <2>7, <3>1
    <2>11. at[last + 1] = Len(text) + 1
      BY <2>4, <2>5, <2>8
    <2>12. ASSUME NEW p \in 1 .. last
           PROVE  /\ at[p + 1] = at[p] + Len(seqs[p])
                  /\ \A k \in 1 .. Len(seqs[p]) : text[at[p] + k - 1] = seqs[p][k]
      <3>1. CASE p = 1
        <4>1. seqs[1] = f[1] /\ at[2] = Len(f[1]) + 1 /\ Len(f[1]) \in Nat
          BY <2>3, <2>4, <2>6, <2>8
        <4>2. \A x \in 1 .. Len(f[1]) : text[x] = f[1][x]
          BY <2>4, <2>6
        <4> QED
          BY <2>8, <3>1, <4>1, <4>2
      <3>2. CASE p > 1
        <4>1. PICK before \in Nat, this \in Nat, chars \in Seq(Alphabet) :
                 before = Len(f[p - 1]) /\ this = Len(f[p]) /\ chars = seqs[p]
          <5>1. p - 1 \in 1 .. last
            BY <3>2
          <5> QED
            BY <1>4, <2>6, <5>1, Zenon
        <4>2. at[p] = before + 1 /\ at[p + 1] = this + 1
          BY <2>8, <3>2, <4>1
        <4>3. this = before + Len(chars) /\ \A x \in 1 .. Len(chars) : f[p][before + x] = chars[x]
          <5>1. p \in 2 .. last
            BY <3>2
          <5> QED
            BY <2>3, <4>1, <5>1, Zenon
        <4>4. \A x \in 1 .. this : text[x] = f[p][x]
          BY <2>6, <4>1
        <4>5. Len(chars) \in Nat
          BY <4>1
        <4>6. ASSUME NEW k \in 1 .. Len(chars) PROVE text[before + k] = chars[k]
          <5>1. before + k \in 1 .. this
            BY <4>3, <4>5
          <5> QED
            BY <4>3, <4>4, <5>1, Zenon
        <4>7. \A k \in 1 .. Len(chars) : at[p] + k - 1 = before + k
          BY <4>2, <4>5
        <4>8. at[p + 1] = at[p] + Len(chars)
          BY <4>2, <4>3, <4>5
        <4>9. \A k \in 1 .. Len(chars) : text[at[p] + k - 1] = chars[k]
          BY <4>6, <4>7, Zenon
        <4> QED
          BY <4>1, <4>8, <4>9, Zenon
      <3> QED
        BY <3>1, <3>2
    <2>13. Cut(pieces, Characters(pieces), at)
      <3>1. \A p \in 1 .. Len(pieces) :
               /\ at[p + 1] = at[p] + Len(pieces[p].chars)
               /\ \A k \in 1 .. Len(pieces[p].chars) : text[at[p] + k - 1] = pieces[p].chars[k]
        <4> TAKE p \in 1 .. Len(pieces)
        <4>1. p \in 1 .. last
          BY <1>1, Zenon
        <4>2. seqs[p] = pieces[p].chars
          BY <1>4, <4>1, Zenon
        <4>3. /\ at[p + 1] = at[p] + Len(seqs[p])
              /\ \A k \in 1 .. Len(seqs[p]) : text[at[p] + k - 1] = seqs[p][k]
          BY <2>12, <4>1, Zenon
        <4> QED
          BY <4>2, <4>3, Zenon
      <3> QED
        BY <1>1, <2>5, <2>8, <2>10, <2>11, <3>1, Zenon DEF Cut
    <2> QED
      BY <2>13
  <1> QED
    BY <1>5, <1>6

LEMMA ReadsFrom ==
  ASSUME NEW text \in Seq(Alphabet), NEW read, Reads(read, text), NEW i \in 1 .. Len(text)
  PROVE  read[i] = IF IsBlank(text, i) THEN read[i + 1]
                   ELSE IF StartsLine(text, i) THEN read[AfterLine(text, i)]
                   ELSE IF StartsBlock(text, i) THEN read[AfterBlock(text, i)]
                   ELSE {i} \cup read[AfterToken(text, i)]
  <1>1. i \in 1 .. Len(text) + 1 /\ i # Len(text) + 1
    OBVIOUS
  <1> QED
    BY <1>1, Zenon DEF Reads

LEMMA ReadsToken ==
  ASSUME NEW text \in Seq(Alphabet), NEW read, Reads(read, text), NEW i \in 1 .. Len(text),
         ~IsBlank(text, i), ~StartsLine(text, i), ~StartsBlock(text, i)
  PROVE  read[i] = {i} \cup read[AfterToken(text, i)]
  <1>1. PICK later : later = {i} \cup read[AfterToken(text, i)]
    OBVIOUS
  <1>2. read[i] = IF IsBlank(text, i) THEN read[i + 1]
                  ELSE IF StartsLine(text, i) THEN read[AfterLine(text, i)]
                  ELSE IF StartsBlock(text, i) THEN read[AfterBlock(text, i)]
                  ELSE later
    BY <1>1, ReadsFrom
  <1>3. read[i] = later
    BY ONLY <1>2, ~IsBlank(text, i), ~StartsLine(text, i), ~StartsBlock(text, i), Zenon
  <1> QED
    BY <1>1, <1>3

LEMMA ReadsBlank ==
  ASSUME NEW text \in Seq(Alphabet), NEW read, Reads(read, text), NEW i \in 1 .. Len(text),
         text[i] \in {"space", "newline"}
  PROVE  read[i] = read[i + 1]
  <1>1. IsBlank(text, i)
    BY DEF IsBlank
  <1> QED
    BY <1>1, ReadsFrom, Zenon

LEMMA ReadsChar ==
  ASSUME NEW text \in Seq(Alphabet), NEW read, Reads(read, text), NEW i \in 1 .. Len(text),
         text[i] \in {"-", "/"} => i # Len(text) /\ text[i + 1] = "a",
         text[i] \in {"a", "semi", "*", "-", "/"}
  PROVE  read[i] = {i} \cup read[i + 1]
  <1>1. ~IsBlank(text, i) /\ ~StartsLine(text, i) /\ ~StartsBlock(text, i)
    BY DEF IsBlank, StartsLine, StartsBlock, At
  <1>2. AfterToken(text, i) = i + 1
    BY DEF AfterToken, Quotes
  <1>3. read[i] = {i} \cup read[AfterToken(text, i)]
    BY <1>1, ReadsToken
  <1> QED
    BY <1>2, <1>3

LEMMA ReadsQuoted ==
  ASSUME NEW text \in Seq(Alphabet), NEW read, Reads(read, text), NEW i \in 1 .. Len(text),
         text[i] \in {"'", "doublequote", "["}
  PROVE  read[i] = {i} \cup read[AfterQuoted(text, i)]
  <1>1. ~IsBlank(text, i) /\ ~StartsLine(text, i) /\ ~StartsBlock(text, i)
    BY DEF IsBlank, StartsLine, StartsBlock, At
  <1>2. AfterToken(text, i) = AfterQuoted(text, i)
    BY DEF AfterToken, Quotes
  <1>3. read[i] = {i} \cup read[AfterToken(text, i)]
    BY <1>1, ReadsToken
  <1> QED
    BY <1>2, <1>3

\* The first member of a set.
LEMMA FirstIs ==
  ASSUME NEW S \in SUBSET Nat, NEW otherwise, NEW m \in S, \A j \in S : m <= j
  PROVE  FirstOf(S, otherwise) = m
  <1>1. FirstOf(S, otherwise) \in S /\ \A y \in S : FirstOf(S, otherwise) <= y
    BY FirstOfIs
  <1>2. PICK first \in S : first = FirstOf(S, otherwise) /\ \A y \in S : first <= y
    BY <1>1, Zenon
  <1>3. first = m
    BY <1>2
  <1> QED
    BY <1>2, <1>3

LEMMA ReadsLine ==
  ASSUME NEW text \in Seq(Alphabet), NEW read, Reads(read, text), NEW i \in 1 .. Len(text),
         i # Len(text), text[i] = "-", text[i + 1] = "-", NEW end \in i .. Len(text) + 1,
         \A j \in i .. end - 1 : text[j] # "newline",
         end # Len(text) + 1 => text[end] = "newline"
  PROVE  /\ end = Len(text) + 1 => read[i] = read[end]
         /\ end # Len(text) + 1 => read[i] = read[end + 1]
  <1> DEFINE S == {j \in i .. Len(text) : text[j] = "newline"}
  <1>1. read[i] = read[AfterLine(text, i)]
    <2>1. ~IsBlank(text, i) /\ StartsLine(text, i)
      BY DEF IsBlank, StartsLine, At
    <2> QED
      BY <2>1, ReadsFrom, Zenon
  <1>2. AfterLine(text, i) = FirstOf(S, Len(text)) + 1
    BY DEF AfterLine
  <1>3. S \in SUBSET Nat
    OBVIOUS
  <1>4. CASE end = Len(text) + 1
    <2>1. S = {}
      BY <1>4
    <2>2. FirstOf(S, Len(text)) = Len(text)
      BY <2>1 DEF FirstOf
    <2> QED
      BY <1>1, <1>2, <1>4, <2>2
  <1>5. CASE end # Len(text) + 1
    <2>1. end \in S /\ \A j \in S : end <= j
      BY <1>5
    <2> HIDE DEF S
    <2>2. FirstOf(S, Len(text)) = end
      BY <1>3, <2>1, FirstIs
    <2> QED
      BY <1>1, <1>2, <1>5, <2>2
  <1> QED
    BY <1>4, <1>5

LEMMA ReadsBlock ==
  ASSUME NEW text \in Seq(Alphabet), NEW read, Reads(read, text), NEW i \in 1 .. Len(text),
         i # Len(text), text[i] = "/", text[i + 1] = "*", NEW end \in i + 2 .. Len(text),
         \A j \in i + 2 .. end - 1 : ~(text[j] = "*" /\ text[j + 1] = "/"),
         end # Len(text) => text[end] = "*" /\ text[end + 1] = "/"
  PROVE  /\ end = Len(text) => read[i] = read[end + 1]
         /\ end # Len(text) => read[i] = read[end + 2]
  <1> DEFINE S == {j \in i + 2 .. Len(text) : At(text, j, "*") /\ At(text, j + 1, "/")}
  <1>1. read[i] = read[AfterBlock(text, i)]
    <2>1. ~IsBlank(text, i) /\ ~StartsLine(text, i) /\ StartsBlock(text, i)
      BY DEF IsBlank, StartsLine, StartsBlock, At
    <2> QED
      BY <2>1, ReadsFrom, Zenon
  <1>2. AfterBlock(text, i) = FirstOf(S, Len(text) - 1) + 2
    BY DEF AfterBlock
  <1>3. S \in SUBSET Nat
    OBVIOUS
  <1>4. CASE end = Len(text)
    <2>1. S = {}
      BY <1>4 DEF At
    <2>2. FirstOf(S, Len(text) - 1) = Len(text) - 1
      BY <2>1 DEF FirstOf
    <2> QED
      BY <1>1, <1>2, <1>4, <2>2
  <1>5. CASE end # Len(text)
    <2>1. end \in S /\ \A j \in S : end <= j
      BY <1>5 DEF At
    <2> HIDE DEF S
    <2>2. FirstOf(S, Len(text) - 1) = end
      BY <1>3, <2>1, FirstIs
    <2> QED
      BY <1>1, <1>2, <1>5, <2>2
  <1> QED
    BY <1>4, <1>5

---------------------------------------------------------------------------
(* What the scan reads of each piece *)

\* At a piece the scan reads the characters M, if it is no space, and goes on at
\* the next piece. It may take strings that follow each other for one.
ReadAt(pieces, text, at, read, p) ==
    \E q \in p + 1 .. Len(pieces) + 1, M \in SUBSET (at[p] .. at[p + 1] - 1) :
        /\ read[at[p]] = M \cup read[at[q]]
        /\ q # p + 1 => \A x \in p .. q - 1 : pieces[x].kind = "token"
        /\ pieces[p].kind = "space" => M = {}
        /\ pieces[p].kind # "space" => at[p] \in M
        /\ \A m \in M : text[m] = "semi" <=> pieces[p].kind = "semicolon"

\* What the code needs to know about the place i of a piece of n characters.
PlacedAt(pieces, text, at, p, i, n, chars) ==
    /\ text \in Seq(Alphabet) /\ Len(text) \in Nat
    /\ i \in Nat /\ i >= 1 /\ i + n <= Len(text) + 1 /\ (p = Len(pieces) => i + n = Len(text) + 1)
    /\ i = at[p] /\ at[p + 1] = i + n
    /\ \A k \in 1 .. n : text[i + k - 1] = chars[k]

LEMMA PlaceOf ==
  ASSUME NEW pieces, Len(pieces) \in Nat, NEW text, NEW at, Cut(pieces, text, at),
         NEW p \in 1 .. Len(pieces), Len(pieces[p].chars) \in Nat
  PROVE  \E i : PlacedAt(pieces, text, at, p, i, Len(pieces[p].chars), pieces[p].chars)
  <1>0. PICK chars, n : chars = pieces[p].chars /\ n = Len(pieces[p].chars) /\ n \in Nat
    OBVIOUS
  <1>1. text \in Seq(Alphabet) /\ at \in [1 .. Len(pieces) + 1 -> 1 .. Len(text) + 1]
    BY Zenon DEF Cut
  <1>2. Len(text) \in Nat /\ p \in 1 .. Len(pieces) + 1 /\ p + 1 \in 1 .. Len(pieces) + 1
    BY <1>1
  <1>3. at[p] \in 1 .. Len(text) + 1 /\ at[p + 1] \in 1 .. Len(text) + 1
    BY <1>1, <1>2, Zenon
  <1>5. at[p + 1] = at[p] + n /\ \A k \in 1 .. n : text[at[p] + k - 1] = chars[k]
    BY <1>0, Zenon DEF Cut
  <1>6. p = Len(pieces) => at[p + 1] = Len(text) + 1
    BY Zenon DEF Cut
  <1>7. PICK i \in Nat : i = at[p] /\ i >= 1 /\ i <= Len(text) + 1
    BY <1>2, <1>3
  <1>8. PlacedAt(pieces, text, at, p, i, n, chars)
    BY <1>1, <1>2, <1>3, <1>5, <1>6, <1>7 DEF PlacedAt
  <1> QED
    BY <1>0, <1>8, Zenon

Passed(read, at, p) == read[at[p]] = read[at[p + 1]]

LEMMA Below ==
  ASSUME NEW a \in Nat
  PROVE  /\ \A j \in a .. a + 2 : j \in {a, a + 1, a + 2}
         /\ \A j \in a .. a + 3 : j \in {a, a + 1, a + 2, a + 3}
         /\ \A j \in a + 2 .. a + 4 : j \in {a + 2, a + 3, a + 4}
         /\ \A j \in a + 2 .. a + 2 : j = a + 2
  OBVIOUS

LEMMA PassesBlank ==
  ASSUME NEW pieces, Len(pieces) \in Nat, NEW text, NEW at, Cut(pieces, text, at),
         NEW read, Reads(read, text), NEW p \in 1 .. Len(pieces),
         pieces[p] = Piece("space", <<"space", "newline">>)
  PROVE  Passed(read, at, p)
  <1>1. PICK chars : chars = <<"space", "newline">>
    OBVIOUS
  <1>2. pieces[p].kind = "space" /\ pieces[p].chars = chars
    BY <1>1 DEF Piece
  <1>3. Len(chars) = 2 /\ Len(pieces[p].chars) \in Nat
    BY <1>1, <1>2
  <1>4. PICK a : PlacedAt(pieces, text, at, p, a, Len(pieces[p].chars), pieces[p].chars)
    BY <1>3, PlaceOf
  <1>5. PlacedAt(pieces, text, at, p, a, 2, chars)
    BY <1>2, <1>3, <1>4, Zenon
  <1>6. /\ text \in Seq(Alphabet) /\ Len(text) \in Nat /\ a \in Nat /\ a >= 1
        /\ a + 2 <= Len(text) + 1
    BY <1>5, Zenon DEF PlacedAt
  <1>7. PICK b : b = a + 1
    OBVIOUS
  <1>8. \A k \in 1 .. 2 : text[a + k - 1] = chars[k]
    BY <1>5, Zenon DEF PlacedAt
  <1>9. /\ a \in 1 .. Len(text) /\ a \in Nat /\ text[a] = "space"
        /\ b \in 1 .. Len(text) /\ b \in Nat /\ text[b] = "newline"
    <2>1. a \in 1 .. Len(text) /\ a \in Nat /\ text[a] = "space"
      <3>1. 1 \in 1 .. 2 /\ a + 1 - 1 = a /\ a \in 1 .. Len(text) /\ a \in Nat
        BY <1>6
      <3>2. chars[1] = "space"
        BY <1>1
      <3> QED
        BY <1>8, <3>1, <3>2, Zenon
    <2>2. b \in 1 .. Len(text) /\ b \in Nat /\ text[b] = "newline"
      <3>1. 2 \in 1 .. 2 /\ a + 2 - 1 = b /\ b \in 1 .. Len(text) /\ b \in Nat
        BY <1>6, <1>7
      <3>2. chars[2] = "newline"
        BY <1>1
      <3> QED
        BY <1>8, <3>1, <3>2, Zenon
    <2> QED
      BY <2>1, <2>2
  <1>10. /\ b = a + 1
         /\ a + 1 = b
         /\ b + 1 = a + 2
         /\ a # Len(text)
    BY <1>6, <1>7
  <1>11. a = at[p] /\ at[p + 1] = a + 2 /\ at[p + 1] = b + 1
    <2>1. a = at[p] /\ at[p + 1] = a + 2
      BY <1>5, Zenon DEF PlacedAt
    <2> QED
      BY <1>10, <2>1, Zenon
  <1>12. read[a] = read[b] /\ read[b] = read[b + 1]
    BY <1>6, <1>9, <1>10, ReadsBlank
  <1> QED
    BY <1>11, <1>12, Zenon DEF Passed

LEMMA PassesLine ==
  ASSUME NEW pieces, Len(pieces) \in Nat, NEW text, NEW at, Cut(pieces, text, at),
         NEW read, Reads(read, text), NEW p \in 1 .. Len(pieces),
         pieces[p] = Piece("space", <<"-", "-", "semi", "'", "newline">>)
  PROVE  Passed(read, at, p)
  <1>1. PICK chars : chars = <<"-", "-", "semi", "'", "newline">>
    OBVIOUS
  <1>2. pieces[p].kind = "space" /\ pieces[p].chars = chars
    BY <1>1 DEF Piece
  <1>3. Len(chars) = 5 /\ Len(pieces[p].chars) \in Nat
    BY <1>1, <1>2
  <1>4. PICK a : PlacedAt(pieces, text, at, p, a, Len(pieces[p].chars), pieces[p].chars)
    BY <1>3, PlaceOf
  <1>5. PlacedAt(pieces, text, at, p, a, 5, chars)
    BY <1>2, <1>3, <1>4, Zenon
  <1>6. /\ text \in Seq(Alphabet) /\ Len(text) \in Nat /\ a \in Nat /\ a >= 1
        /\ a + 5 <= Len(text) + 1
    BY <1>5, Zenon DEF PlacedAt
  <1>7. PICK b, c, d, e : b = a + 1 /\ c = a + 2 /\ d = a + 3 /\ e = a + 4
    OBVIOUS
  <1>8. \A k \in 1 .. 5 : text[a + k - 1] = chars[k]
    BY <1>5, Zenon DEF PlacedAt
  <1>9. /\ a \in 1 .. Len(text) /\ a \in Nat /\ text[a] = "-"
        /\ b \in 1 .. Len(text) /\ b \in Nat /\ text[b] = "-"
        /\ c \in 1 .. Len(text) /\ c \in Nat /\ text[c] = "semi"
        /\ d \in 1 .. Len(text) /\ d \in Nat /\ text[d] = "'"
        /\ e \in 1 .. Len(text) /\ e \in Nat /\ text[e] = "newline"
    <2>1. a \in 1 .. Len(text) /\ a \in Nat /\ text[a] = "-"
      <3>1. 1 \in 1 .. 5 /\ a + 1 - 1 = a /\ a \in 1 .. Len(text) /\ a \in Nat
        BY <1>6
      <3>2. chars[1] = "-"
        BY <1>1
      <3> QED
        BY <1>8, <3>1, <3>2, Zenon
    <2>2. b \in 1 .. Len(text) /\ b \in Nat /\ text[b] = "-"
      <3>1. 2 \in 1 .. 5 /\ a + 2 - 1 = b /\ b \in 1 .. Len(text) /\ b \in Nat
        BY <1>6, <1>7
      <3>2. chars[2] = "-"
        BY <1>1
      <3> QED
        BY <1>8, <3>1, <3>2, Zenon
    <2>3. c \in 1 .. Len(text) /\ c \in Nat /\ text[c] = "semi"
      <3>1. 3 \in 1 .. 5 /\ a + 3 - 1 = c /\ c \in 1 .. Len(text) /\ c \in Nat
        BY <1>6, <1>7
      <3>2. chars[3] = "semi"
        BY <1>1
      <3> QED
        BY <1>8, <3>1, <3>2, Zenon
    <2>4. d \in 1 .. Len(text) /\ d \in Nat /\ text[d] = "'"
      <3>1. 4 \in 1 .. 5 /\ a + 4 - 1 = d /\ d \in 1 .. Len(text) /\ d \in Nat
        BY <1>6, <1>7
      <3>2. chars[4] = "'"
        BY <1>1
      <3> QED
        BY <1>8, <3>1, <3>2, Zenon
    <2>5. e \in 1 .. Len(text) /\ e \in Nat /\ text[e] = "newline"
      <3>1. 5 \in 1 .. 5 /\ a + 5 - 1 = e /\ e \in 1 .. Len(text) /\ e \in Nat
        BY <1>6, <1>7
      <3>2. chars[5] = "newline"
        BY <1>1
      <3> QED
        BY <1>8, <3>1, <3>2, Zenon
    <2> QED
      BY <2>1, <2>2, <2>3, <2>4, <2>5
  <1>10. /\ b = a + 1
         /\ c = a + 2
         /\ d = a + 3
         /\ e = a + 4
         /\ a + 1 = b
         /\ b + 1 = c
         /\ c + 1 = d
         /\ d + 1 = e
         /\ e + 1 = a + 5
         /\ a # Len(text)
         /\ b # Len(text)
         /\ c # Len(text)
         /\ d # Len(text)
    BY <1>6, <1>7
  <1>11. a = at[p] /\ at[p + 1] = a + 5 /\ at[p + 1] = e + 1
    <2>1. a = at[p] /\ at[p + 1] = a + 5
      BY <1>5, Zenon DEF PlacedAt
    <2> QED
      BY <1>10, <2>1, Zenon
  <1>12. \A j \in a .. e - 1 : j \in {a, b, c, d}
    <2>1. e - 1 = a + 3
      BY <1>6, <1>7
    <2> QED
      BY <1>6, <1>10, <2>1, Below, Zenon
  <1>13. \A j \in a .. e - 1 : text[j] # "newline"
    BY <1>9, <1>12
  <1>14. e \in a .. Len(text) + 1 /\ e # Len(text) + 1
    BY <1>6, <1>7
  <1>20. text[a + 1] = "-"
    BY <1>9, <1>10, Zenon
  <1>15. read[a] = read[e + 1]
    BY <1>6, <1>9, <1>10, <1>13, <1>14, <1>20, ReadsLine, Zenon
  <1> QED
    BY <1>11, <1>15, Zenon DEF Passed

LEMMA PassesLastLine ==
  ASSUME NEW pieces, Len(pieces) \in Nat, NEW text, NEW at, Cut(pieces, text, at),
         NEW read, Reads(read, text), NEW p \in 1 .. Len(pieces),
         pieces[p] = Piece("space", <<"-", "-", "semi">>), p = Len(pieces)
  PROVE  Passed(read, at, p)
  <1>1. PICK chars : chars = <<"-", "-", "semi">>
    OBVIOUS
  <1>2. pieces[p].kind = "space" /\ pieces[p].chars = chars
    BY <1>1 DEF Piece
  <1>3. Len(chars) = 3 /\ Len(pieces[p].chars) \in Nat
    BY <1>1, <1>2
  <1>4. PICK a : PlacedAt(pieces, text, at, p, a, Len(pieces[p].chars), pieces[p].chars)
    BY <1>3, PlaceOf
  <1>5. PlacedAt(pieces, text, at, p, a, 3, chars)
    BY <1>2, <1>3, <1>4, Zenon
  <1>6. /\ text \in Seq(Alphabet) /\ Len(text) \in Nat /\ a \in Nat /\ a >= 1
        /\ a + 3 <= Len(text) + 1
    BY <1>5, Zenon DEF PlacedAt
  <1>7. PICK b, c : b = a + 1 /\ c = a + 2
    OBVIOUS
  <1>8. \A k \in 1 .. 3 : text[a + k - 1] = chars[k]
    BY <1>5, Zenon DEF PlacedAt
  <1>9. /\ a \in 1 .. Len(text) /\ a \in Nat /\ text[a] = "-"
        /\ b \in 1 .. Len(text) /\ b \in Nat /\ text[b] = "-"
        /\ c \in 1 .. Len(text) /\ c \in Nat /\ text[c] = "semi"
    <2>1. a \in 1 .. Len(text) /\ a \in Nat /\ text[a] = "-"
      <3>1. 1 \in 1 .. 3 /\ a + 1 - 1 = a /\ a \in 1 .. Len(text) /\ a \in Nat
        BY <1>6
      <3>2. chars[1] = "-"
        BY <1>1
      <3> QED
        BY <1>8, <3>1, <3>2, Zenon
    <2>2. b \in 1 .. Len(text) /\ b \in Nat /\ text[b] = "-"
      <3>1. 2 \in 1 .. 3 /\ a + 2 - 1 = b /\ b \in 1 .. Len(text) /\ b \in Nat
        BY <1>6, <1>7
      <3>2. chars[2] = "-"
        BY <1>1
      <3> QED
        BY <1>8, <3>1, <3>2, Zenon
    <2>3. c \in 1 .. Len(text) /\ c \in Nat /\ text[c] = "semi"
      <3>1. 3 \in 1 .. 3 /\ a + 3 - 1 = c /\ c \in 1 .. Len(text) /\ c \in Nat
        BY <1>6, <1>7
      <3>2. chars[3] = "semi"
        BY <1>1
      <3> QED
        BY <1>8, <3>1, <3>2, Zenon
    <2> QED
      BY <2>1, <2>2, <2>3
  <1>10. /\ b = a + 1
         /\ c = a + 2
         /\ a + 1 = b
         /\ b + 1 = c
         /\ c + 1 = a + 3
         /\ a # Len(text)
         /\ b # Len(text)
    BY <1>6, <1>7
  <1>11. a = at[p] /\ at[p + 1] = a + 3 /\ at[p + 1] = c + 1
    <2>1. a = at[p] /\ at[p + 1] = a + 3
      BY <1>5, Zenon DEF PlacedAt
    <2> QED
      BY <1>10, <2>1, Zenon
  <1>19. c = Len(text)
    <2>1. a + 3 = Len(text) + 1
      BY <1>5, Zenon DEF PlacedAt
    <2> QED
      BY <1>6, <1>7, <2>1
  <1>12. PICK e : e = a + 3
    OBVIOUS
  <1>13. \A j \in a .. e - 1 : j \in {a, b, c}
    <2>1. e - 1 = a + 2
      BY <1>6, <1>7, <1>12
    <2> QED
      BY <1>6, <1>10, <2>1, Below, Zenon
  <1>14. \A j \in a .. e - 1 : text[j] # "newline"
    BY <1>9, <1>13
  <1>15. e \in a .. Len(text) + 1 /\ e = Len(text) + 1
    BY <1>6, <1>7, <1>12, <1>19
  <1>20. text[a + 1] = "-"
    BY <1>9, <1>10, Zenon
  <1>16. read[a] = read[e]
    BY <1>6, <1>9, <1>10, <1>14, <1>15, <1>20, ReadsLine, Zenon
  <1> QED
    BY <1>11, <1>12, <1>16, Zenon DEF Passed

LEMMA PassesBlock ==
  ASSUME NEW pieces, Len(pieces) \in Nat, NEW text, NEW at, Cut(pieces, text, at),
         NEW read, Reads(read, text), NEW p \in 1 .. Len(pieces),
         pieces[p] = Piece("space", <<"/", "*", "/", "semi", "'", "*", "/">>)
  PROVE  Passed(read, at, p)
  <1>1. PICK chars : chars = <<"/", "*", "/", "semi", "'", "*", "/">>
    OBVIOUS
  <1>2. pieces[p].kind = "space" /\ pieces[p].chars = chars
    BY <1>1 DEF Piece
  <1>3. Len(chars) = 7 /\ Len(pieces[p].chars) \in Nat
    BY <1>1, <1>2
  <1>4. PICK a : PlacedAt(pieces, text, at, p, a, Len(pieces[p].chars), pieces[p].chars)
    BY <1>3, PlaceOf
  <1>5. PlacedAt(pieces, text, at, p, a, 7, chars)
    BY <1>2, <1>3, <1>4, Zenon
  <1>6. /\ text \in Seq(Alphabet) /\ Len(text) \in Nat /\ a \in Nat /\ a >= 1
        /\ a + 7 <= Len(text) + 1
    BY <1>5, Zenon DEF PlacedAt
  <1>7. PICK b, c, d, e, f, g : b = a + 1 /\ c = a + 2 /\ d = a + 3 /\ e = a + 4 /\ f = a + 5 /\ g = a + 6
    OBVIOUS
  <1>8. \A k \in 1 .. 7 : text[a + k - 1] = chars[k]
    BY <1>5, Zenon DEF PlacedAt
  <1>9. /\ a \in 1 .. Len(text) /\ a \in Nat /\ text[a] = "/"
        /\ b \in 1 .. Len(text) /\ b \in Nat /\ text[b] = "*"
        /\ c \in 1 .. Len(text) /\ c \in Nat /\ text[c] = "/"
        /\ d \in 1 .. Len(text) /\ d \in Nat /\ text[d] = "semi"
        /\ e \in 1 .. Len(text) /\ e \in Nat /\ text[e] = "'"
        /\ f \in 1 .. Len(text) /\ f \in Nat /\ text[f] = "*"
        /\ g \in 1 .. Len(text) /\ g \in Nat /\ text[g] = "/"
    <2>1. a \in 1 .. Len(text) /\ a \in Nat /\ text[a] = "/"
      <3>1. 1 \in 1 .. 7 /\ a + 1 - 1 = a /\ a \in 1 .. Len(text) /\ a \in Nat
        BY <1>6
      <3>2. chars[1] = "/"
        BY <1>1
      <3> QED
        BY <1>8, <3>1, <3>2, Zenon
    <2>2. b \in 1 .. Len(text) /\ b \in Nat /\ text[b] = "*"
      <3>1. 2 \in 1 .. 7 /\ a + 2 - 1 = b /\ b \in 1 .. Len(text) /\ b \in Nat
        BY <1>6, <1>7
      <3>2. chars[2] = "*"
        BY <1>1
      <3> QED
        BY <1>8, <3>1, <3>2, Zenon
    <2>3. c \in 1 .. Len(text) /\ c \in Nat /\ text[c] = "/"
      <3>1. 3 \in 1 .. 7 /\ a + 3 - 1 = c /\ c \in 1 .. Len(text) /\ c \in Nat
        BY <1>6, <1>7
      <3>2. chars[3] = "/"
        BY <1>1
      <3> QED
        BY <1>8, <3>1, <3>2, Zenon
    <2>4. d \in 1 .. Len(text) /\ d \in Nat /\ text[d] = "semi"
      <3>1. 4 \in 1 .. 7 /\ a + 4 - 1 = d /\ d \in 1 .. Len(text) /\ d \in Nat
        BY <1>6, <1>7
      <3>2. chars[4] = "semi"
        BY <1>1
      <3> QED
        BY <1>8, <3>1, <3>2, Zenon
    <2>5. e \in 1 .. Len(text) /\ e \in Nat /\ text[e] = "'"
      <3>1. 5 \in 1 .. 7 /\ a + 5 - 1 = e /\ e \in 1 .. Len(text) /\ e \in Nat
        BY <1>6, <1>7
      <3>2. chars[5] = "'"
        BY <1>1
      <3> QED
        BY <1>8, <3>1, <3>2, Zenon
    <2>6. f \in 1 .. Len(text) /\ f \in Nat /\ text[f] = "*"
      <3>1. 6 \in 1 .. 7 /\ a + 6 - 1 = f /\ f \in 1 .. Len(text) /\ f \in Nat
        BY <1>6, <1>7
      <3>2. chars[6] = "*"
        BY <1>1
      <3> QED
        BY <1>8, <3>1, <3>2, Zenon
    <2>7. g \in 1 .. Len(text) /\ g \in Nat /\ text[g] = "/"
      <3>1. 7 \in 1 .. 7 /\ a + 7 - 1 = g /\ g \in 1 .. Len(text) /\ g \in Nat
        BY <1>6, <1>7
      <3>2. chars[7] = "/"
        BY <1>1
      <3> QED
        BY <1>8, <3>1, <3>2, Zenon
    <2> QED
      BY <2>1, <2>2, <2>3, <2>4, <2>5, <2>6, <2>7
  <1>10. /\ b = a + 1
         /\ c = a + 2
         /\ d = a + 3
         /\ e = a + 4
         /\ f = a + 5
         /\ g = a + 6
         /\ a + 1 = b
         /\ b + 1 = c
         /\ c + 1 = d
         /\ d + 1 = e
         /\ e + 1 = f
         /\ f + 1 = g
         /\ g + 1 = a + 7
         /\ a # Len(text)
         /\ b # Len(text)
         /\ c # Len(text)
         /\ d # Len(text)
         /\ e # Len(text)
         /\ f # Len(text)
    BY <1>6, <1>7
  <1>11. a = at[p] /\ at[p + 1] = a + 7 /\ at[p + 1] = g + 1
    <2>1. a = at[p] /\ at[p + 1] = a + 7
      BY <1>5, Zenon DEF PlacedAt
    <2> QED
      BY <1>10, <2>1, Zenon
  <1>12. \A j \in a + 2 .. f - 1 : j \in {c, d, e}
    <2>1. f - 1 = a + 4
      BY <1>6, <1>7
    <2> QED
      BY <1>6, <1>10, <2>1, Below, Zenon
  <1>13. \A j \in a + 2 .. f - 1 : ~(text[j] = "*" /\ text[j + 1] = "/")
    BY <1>9, <1>12
  <1>14. f \in a + 2 .. Len(text) /\ f + 2 = a + 7
    BY <1>6, <1>7
  <1>15. read[a] = read[f + 2]
    BY <1>6, <1>9, <1>10, <1>13, <1>14, ReadsBlock, Zenon
  <1> QED
    BY <1>11, <1>14, <1>15, Zenon DEF Passed

LEMMA PassesLastBlock ==
  ASSUME NEW pieces, Len(pieces) \in Nat, NEW text, NEW at, Cut(pieces, text, at),
         NEW read, Reads(read, text), NEW p \in 1 .. Len(pieces),
         pieces[p] = Piece("space", <<"/", "*", "semi", "*">>), p = Len(pieces)
  PROVE  Passed(read, at, p)
  <1>1. PICK chars : chars = <<"/", "*", "semi", "*">>
    OBVIOUS
  <1>2. pieces[p].kind = "space" /\ pieces[p].chars = chars
    BY <1>1 DEF Piece
  <1>3. Len(chars) = 4 /\ Len(pieces[p].chars) \in Nat
    BY <1>1, <1>2
  <1>4. PICK a : PlacedAt(pieces, text, at, p, a, Len(pieces[p].chars), pieces[p].chars)
    BY <1>3, PlaceOf
  <1>5. PlacedAt(pieces, text, at, p, a, 4, chars)
    BY <1>2, <1>3, <1>4, Zenon
  <1>6. /\ text \in Seq(Alphabet) /\ Len(text) \in Nat /\ a \in Nat /\ a >= 1
        /\ a + 4 <= Len(text) + 1
    BY <1>5, Zenon DEF PlacedAt
  <1>7. PICK b, c, d : b = a + 1 /\ c = a + 2 /\ d = a + 3
    OBVIOUS
  <1>8. \A k \in 1 .. 4 : text[a + k - 1] = chars[k]
    BY <1>5, Zenon DEF PlacedAt
  <1>9. /\ a \in 1 .. Len(text) /\ a \in Nat /\ text[a] = "/"
        /\ b \in 1 .. Len(text) /\ b \in Nat /\ text[b] = "*"
        /\ c \in 1 .. Len(text) /\ c \in Nat /\ text[c] = "semi"
        /\ d \in 1 .. Len(text) /\ d \in Nat /\ text[d] = "*"
    <2>1. a \in 1 .. Len(text) /\ a \in Nat /\ text[a] = "/"
      <3>1. 1 \in 1 .. 4 /\ a + 1 - 1 = a /\ a \in 1 .. Len(text) /\ a \in Nat
        BY <1>6
      <3>2. chars[1] = "/"
        BY <1>1
      <3> QED
        BY <1>8, <3>1, <3>2, Zenon
    <2>2. b \in 1 .. Len(text) /\ b \in Nat /\ text[b] = "*"
      <3>1. 2 \in 1 .. 4 /\ a + 2 - 1 = b /\ b \in 1 .. Len(text) /\ b \in Nat
        BY <1>6, <1>7
      <3>2. chars[2] = "*"
        BY <1>1
      <3> QED
        BY <1>8, <3>1, <3>2, Zenon
    <2>3. c \in 1 .. Len(text) /\ c \in Nat /\ text[c] = "semi"
      <3>1. 3 \in 1 .. 4 /\ a + 3 - 1 = c /\ c \in 1 .. Len(text) /\ c \in Nat
        BY <1>6, <1>7
      <3>2. chars[3] = "semi"
        BY <1>1
      <3> QED
        BY <1>8, <3>1, <3>2, Zenon
    <2>4. d \in 1 .. Len(text) /\ d \in Nat /\ text[d] = "*"
      <3>1. 4 \in 1 .. 4 /\ a + 4 - 1 = d /\ d \in 1 .. Len(text) /\ d \in Nat
        BY <1>6, <1>7
      <3>2. chars[4] = "*"
        BY <1>1
      <3> QED
        BY <1>8, <3>1, <3>2, Zenon
    <2> QED
      BY <2>1, <2>2, <2>3, <2>4
  <1>10. /\ b = a + 1
         /\ c = a + 2
         /\ d = a + 3
         /\ a + 1 = b
         /\ b + 1 = c
         /\ c + 1 = d
         /\ d + 1 = a + 4
         /\ a # Len(text)
         /\ b # Len(text)
         /\ c # Len(text)
    BY <1>6, <1>7
  <1>11. a = at[p] /\ at[p + 1] = a + 4 /\ at[p + 1] = d + 1
    <2>1. a = at[p] /\ at[p + 1] = a + 4
      BY <1>5, Zenon DEF PlacedAt
    <2> QED
      BY <1>10, <2>1, Zenon
  <1>19. d = Len(text)
    <2>1. a + 4 = Len(text) + 1
      BY <1>5, Zenon DEF PlacedAt
    <2> QED
      BY <1>6, <1>7, <2>1
  <1>12. \A j \in a + 2 .. d - 1 : j = c
    <2>1. d - 1 = a + 2
      BY <1>6, <1>7
    <2> QED
      BY <1>6, <1>10, <2>1, Below, Zenon
  <1>13. \A j \in a + 2 .. d - 1 : ~(text[j] = "*" /\ text[j + 1] = "/")
    BY <1>9, <1>12
  <1>14. d \in a + 2 .. Len(text)
    BY <1>6, <1>7
  <1>15. read[a] = read[d + 1]
    BY <1>6, <1>9, <1>10, <1>13, <1>14, <1>19, ReadsBlock, Zenon
  <1> QED
    BY <1>11, <1>15, Zenon DEF Passed

LEMMA PassedIsRead ==
  ASSUME NEW pieces, Len(pieces) \in Nat, NEW text, NEW at, NEW read, NEW p \in 1 .. Len(pieces),
         pieces[p].kind = "space", Passed(read, at, p)
  PROVE  ReadAt(pieces, text, at, read, p)
  <1>1. p + 1 \in p + 1 .. Len(pieces) + 1
    OBVIOUS
  <1>2. read[at[p]] = {} \cup read[at[p + 1]] /\ {} \in SUBSET (at[p] .. at[p + 1] - 1)
    BY DEF Passed
  <1> QED
    BY <1>1, <1>2 DEF ReadAt

\* A space is passed over whole.
LEMMA ReadsSpace ==
  ASSUME NEW pieces, Len(pieces) \in Nat, NEW text, NEW at, Cut(pieces, text, at),
         NEW read, Reads(read, text), NEW p \in 1 .. Len(pieces),
         pieces[p] \in Spaces \/ (p = Len(pieces) /\ pieces[p] \in Unclosed), pieces[p].kind = "space"
  PROVE  ReadAt(pieces, text, at, read, p)
  <1>1. pieces[p] # Piece("token", <<"'", "semi">>)
    BY DEF Piece
  <1>2. CASE pieces[p] \in Spaces
    <2>1. \/ pieces[p] = Piece("space", <<"space", "newline">>)
          \/ pieces[p] = Piece("space", <<"-", "-", "semi", "'", "newline">>)
          \/ pieces[p] = Piece("space", <<"/", "*", "/", "semi", "'", "*", "/">>)
      BY <1>2, Zenon DEF Spaces
    <2>2. CASE pieces[p] = Piece("space", <<"space", "newline">>)
      BY <2>2, PassesBlank, PassedIsRead, Zenon
    <2>3. CASE pieces[p] = Piece("space", <<"-", "-", "semi", "'", "newline">>)
      BY <2>3, PassesLine, PassedIsRead, Zenon
    <2>4. CASE pieces[p] = Piece("space", <<"/", "*", "/", "semi", "'", "*", "/">>)
      BY <2>4, PassesBlock, PassedIsRead, Zenon
    <2> QED
      BY <2>1, <2>2, <2>3, <2>4, Zenon
  <1>3. CASE p = Len(pieces) /\ pieces[p] \in Unclosed
    <2>1. \/ pieces[p] = Piece("space", <<"-", "-", "semi">>)
          \/ pieces[p] = Piece("space", <<"/", "*", "semi", "*">>)
      BY <1>1, <1>3, Zenon DEF Unclosed
    <2>2. CASE pieces[p] = Piece("space", <<"-", "-", "semi">>)
      BY <1>3, <2>2, PassesLastLine, PassedIsRead, Zenon
    <2>3. CASE pieces[p] = Piece("space", <<"/", "*", "semi", "*">>)
      BY <1>3, <2>3, PassesLastBlock, PassedIsRead, Zenon
    <2> QED
      BY <2>1, <2>2, <2>3, Zenon
  <1> QED
    BY <1>2, <1>3, Zenon

LEMMA ReadsPlain ==
  ASSUME NEW text \in Seq(Alphabet), NEW read, Reads(read, text), NEW i \in 1 .. Len(text),
         text[i] \in {"a", "semi", "*"}
  PROVE  read[i] = {i} \cup read[i + 1]
  BY ReadsChar

LEMMA ReadsSign ==
  ASSUME NEW text \in Seq(Alphabet), NEW read, Reads(read, text), NEW i \in 1 .. Len(text),
         text[i] \in {"-", "/"}, i # Len(text), text[i + 1] = "a"
  PROVE  read[i] = {i} \cup read[i + 1]
  BY ReadsChar

\* A piece that is read character by character.
LEMMA ReadPlainly ==
  ASSUME NEW pieces, Len(pieces) \in Nat, NEW text, NEW at, NEW read, NEW p \in 1 .. Len(pieces),
         NEW M \in SUBSET (at[p] .. at[p + 1] - 1), at[p] \in M,
         read[at[p]] = M \cup read[at[p + 1]], pieces[p].kind # "space",
         \A m \in M : text[m] = "semi" <=> pieces[p].kind = "semicolon"
  PROVE  ReadAt(pieces, text, at, read, p)
  <1>1. p + 1 \in p + 1 .. Len(pieces) + 1
    OBVIOUS
  <1> QED
    BY <1>1 DEF ReadAt

LEMMA ReadsWord ==
  ASSUME NEW pieces, Len(pieces) \in Nat, NEW text, NEW at, Cut(pieces, text, at),
         NEW read, Reads(read, text), NEW p \in 1 .. Len(pieces),
         pieces[p] = Piece("word", <<"a">>)
  PROVE  ReadAt(pieces, text, at, read, p)
  <1>1. PICK chars : chars = <<"a">>
    OBVIOUS
  <1>2. pieces[p].kind = "word" /\ pieces[p].chars = chars
    BY <1>1 DEF Piece
  <1>3. Len(chars) = 1 /\ Len(pieces[p].chars) \in Nat
    BY <1>1, <1>2
  <1>4. PICK a : PlacedAt(pieces, text, at, p, a, Len(pieces[p].chars), pieces[p].chars)
    BY <1>3, PlaceOf
  <1>5. PlacedAt(pieces, text, at, p, a, 1, chars)
    BY <1>2, <1>3, <1>4, Zenon
  <1>6. /\ text \in Seq(Alphabet) /\ Len(text) \in Nat /\ a \in Nat /\ a >= 1
        /\ a + 1 <= Len(text) + 1
    BY <1>5, Zenon DEF PlacedAt
  <1>7. TRUE
    OBVIOUS
  <1>8. \A k \in 1 .. 1 : text[a + k - 1] = chars[k]
    BY <1>5, Zenon DEF PlacedAt
  <1>9. /\ a \in 1 .. Len(text) /\ a \in Nat /\ text[a] = "a"
    <2>1. a \in 1 .. Len(text) /\ a \in Nat /\ text[a] = "a"
      <3>1. 1 \in 1 .. 1 /\ a + 1 - 1 = a /\ a \in 1 .. Len(text) /\ a \in Nat
        BY <1>6
      <3>2. chars[1] = "a"
        BY <1>1
      <3> QED
        BY <1>8, <3>1, <3>2, Zenon
    <2> QED
      BY <2>1
  <1>10. /\ a + 1 = a + 1
    BY <1>6, <1>7
  <1>11. a = at[p] /\ at[p + 1] = a + 1 /\ at[p + 1] = a + 1
    <2>1. a = at[p] /\ at[p + 1] = a + 1
      BY <1>5, Zenon DEF PlacedAt
    <2> QED
      BY <1>10, <2>1, Zenon
  <1>12. read[a] = {a} \cup read[a + 1]
    BY <1>6, <1>9, <1>10, ReadsPlain
  <1>13. TRUE
    OBVIOUS
  <1>14. read[at[p]] = {a} \cup read[at[p + 1]]
    <2>1. read[a] = {a} \cup read[a + 1]
      BY <1>10, <1>12, <1>13
    <2> QED
      BY <1>11, <2>1, Zenon
  <1>15. {a} \in SUBSET (at[p] .. at[p + 1] - 1) /\ at[p] \in {a}
    <2>1. {a} \in SUBSET (a .. a + 1 - 1) /\ a \in {a}
      BY <1>6, <1>7
    <2> QED
      BY <1>11, <2>1
  <1>16. \A m \in {a} : text[m] = "semi" <=> pieces[p].kind = "semicolon"
    BY <1>2, <1>9
  <1>17. pieces[p].kind # "space"
    BY <1>2
  <1> QED
    BY <1>14, <1>15, <1>16, <1>17, ReadPlainly, Zenon

LEMMA ReadsSemicolon ==
  ASSUME NEW pieces, Len(pieces) \in Nat, NEW text, NEW at, Cut(pieces, text, at),
         NEW read, Reads(read, text), NEW p \in 1 .. Len(pieces),
         pieces[p] = Piece("semicolon", <<"semi">>)
  PROVE  ReadAt(pieces, text, at, read, p)
  <1>1. PICK chars : chars = <<"semi">>
    OBVIOUS
  <1>2. pieces[p].kind = "semicolon" /\ pieces[p].chars = chars
    BY <1>1 DEF Piece
  <1>3. Len(chars) = 1 /\ Len(pieces[p].chars) \in Nat
    BY <1>1, <1>2
  <1>4. PICK a : PlacedAt(pieces, text, at, p, a, Len(pieces[p].chars), pieces[p].chars)
    BY <1>3, PlaceOf
  <1>5. PlacedAt(pieces, text, at, p, a, 1, chars)
    BY <1>2, <1>3, <1>4, Zenon
  <1>6. /\ text \in Seq(Alphabet) /\ Len(text) \in Nat /\ a \in Nat /\ a >= 1
        /\ a + 1 <= Len(text) + 1
    BY <1>5, Zenon DEF PlacedAt
  <1>7. TRUE
    OBVIOUS
  <1>8. \A k \in 1 .. 1 : text[a + k - 1] = chars[k]
    BY <1>5, Zenon DEF PlacedAt
  <1>9. /\ a \in 1 .. Len(text) /\ a \in Nat /\ text[a] = "semi"
    <2>1. a \in 1 .. Len(text) /\ a \in Nat /\ text[a] = "semi"
      <3>1. 1 \in 1 .. 1 /\ a + 1 - 1 = a /\ a \in 1 .. Len(text) /\ a \in Nat
        BY <1>6
      <3>2. chars[1] = "semi"
        BY <1>1
      <3> QED
        BY <1>8, <3>1, <3>2, Zenon
    <2> QED
      BY <2>1
  <1>10. /\ a + 1 = a + 1
    BY <1>6, <1>7
  <1>11. a = at[p] /\ at[p + 1] = a + 1 /\ at[p + 1] = a + 1
    <2>1. a = at[p] /\ at[p + 1] = a + 1
      BY <1>5, Zenon DEF PlacedAt
    <2> QED
      BY <1>10, <2>1, Zenon
  <1>12. read[a] = {a} \cup read[a + 1]
    BY <1>6, <1>9, <1>10, ReadsPlain
  <1>13. TRUE
    OBVIOUS
  <1>14. read[at[p]] = {a} \cup read[at[p + 1]]
    <2>1. read[a] = {a} \cup read[a + 1]
      BY <1>10, <1>12, <1>13
    <2> QED
      BY <1>11, <2>1, Zenon
  <1>15. {a} \in SUBSET (at[p] .. at[p + 1] - 1) /\ at[p] \in {a}
    <2>1. {a} \in SUBSET (a .. a + 1 - 1) /\ a \in {a}
      BY <1>6, <1>7
    <2> QED
      BY <1>11, <2>1
  <1>16. \A m \in {a} : text[m] = "semi" <=> pieces[p].kind = "semicolon"
    BY <1>2, <1>9
  <1>17. pieces[p].kind # "space"
    BY <1>2
  <1> QED
    BY <1>14, <1>15, <1>16, <1>17, ReadPlainly, Zenon

LEMMA ReadsMinus ==
  ASSUME NEW pieces, Len(pieces) \in Nat, NEW text, NEW at, Cut(pieces, text, at),
         NEW read, Reads(read, text), NEW p \in 1 .. Len(pieces),
         pieces[p] = Piece("token", <<"-", "a">>)
  PROVE  ReadAt(pieces, text, at, read, p)
  <1>1. PICK chars : chars = <<"-", "a">>
    OBVIOUS
  <1>2. pieces[p].kind = "token" /\ pieces[p].chars = chars
    BY <1>1 DEF Piece
  <1>3. Len(chars) = 2 /\ Len(pieces[p].chars) \in Nat
    BY <1>1, <1>2
  <1>4. PICK a : PlacedAt(pieces, text, at, p, a, Len(pieces[p].chars), pieces[p].chars)
    BY <1>3, PlaceOf
  <1>5. PlacedAt(pieces, text, at, p, a, 2, chars)
    BY <1>2, <1>3, <1>4, Zenon
  <1>6. /\ text \in Seq(Alphabet) /\ Len(text) \in Nat /\ a \in Nat /\ a >= 1
        /\ a + 2 <= Len(text) + 1
    BY <1>5, Zenon DEF PlacedAt
  <1>7. PICK b : b = a + 1
    OBVIOUS
  <1>8. \A k \in 1 .. 2 : text[a + k - 1] = chars[k]
    BY <1>5, Zenon DEF PlacedAt
  <1>9. /\ a \in 1 .. Len(text) /\ a \in Nat /\ text[a] = "-"
        /\ b \in 1 .. Len(text) /\ b \in Nat /\ text[b] = "a"
    <2>1. a \in 1 .. Len(text) /\ a \in Nat /\ text[a] = "-"
      <3>1. 1 \in 1 .. 2 /\ a + 1 - 1 = a /\ a \in 1 .. Len(text) /\ a \in Nat
        BY <1>6
      <3>2. chars[1] = "-"
        BY <1>1
      <3> QED
        BY <1>8, <3>1, <3>2, Zenon
    <2>2. b \in 1 .. Len(text) /\ b \in Nat /\ text[b] = "a"
      <3>1. 2 \in 1 .. 2 /\ a + 2 - 1 = b /\ b \in 1 .. Len(text) /\ b \in Nat
        BY <1>6, <1>7
      <3>2. chars[2] = "a"
        BY <1>1
      <3> QED
        BY <1>8, <3>1, <3>2, Zenon
    <2> QED
      BY <2>1, <2>2
  <1>10. /\ b = a + 1
         /\ a + 1 = b
         /\ b + 1 = a + 2
         /\ a # Len(text)
    BY <1>6, <1>7
  <1>11. a = at[p] /\ at[p + 1] = a + 2 /\ at[p + 1] = b + 1
    <2>1. a = at[p] /\ at[p + 1] = a + 2
      BY <1>5, Zenon DEF PlacedAt
    <2> QED
      BY <1>10, <2>1, Zenon
  <1>12. read[a] = {a} \cup read[a + 1]
    BY <1>6, <1>9, <1>10, ReadsSign
  <1>13. read[b] = {b} \cup read[b + 1]
    BY <1>6, <1>9, ReadsPlain
  <1>14. read[at[p]] = {a, b} \cup read[at[p + 1]]
    <2>1. read[a] = {a, b} \cup read[b + 1]
      BY <1>10, <1>12, <1>13
    <2> QED
      BY <1>11, <2>1, Zenon
  <1>15. {a, b} \in SUBSET (at[p] .. at[p + 1] - 1) /\ at[p] \in {a, b}
    <2>1. {a, b} \in SUBSET (a .. a + 2 - 1) /\ a \in {a, b}
      BY <1>6, <1>7
    <2> QED
      BY <1>11, <2>1
  <1>16. \A m \in {a, b} : text[m] = "semi" <=> pieces[p].kind = "semicolon"
    BY <1>2, <1>9
  <1>17. pieces[p].kind # "space"
    BY <1>2
  <1> QED
    BY <1>14, <1>15, <1>16, <1>17, ReadPlainly, Zenon

LEMMA ReadsSlash ==
  ASSUME NEW pieces, Len(pieces) \in Nat, NEW text, NEW at, Cut(pieces, text, at),
         NEW read, Reads(read, text), NEW p \in 1 .. Len(pieces),
         pieces[p] = Piece("token", <<"/", "a", "*">>)
  PROVE  ReadAt(pieces, text, at, read, p)
  <1>1. PICK chars : chars = <<"/", "a", "*">>
    OBVIOUS
  <1>2. pieces[p].kind = "token" /\ pieces[p].chars = chars
    BY <1>1 DEF Piece
  <1>3. Len(chars) = 3 /\ Len(pieces[p].chars) \in Nat
    BY <1>1, <1>2
  <1>4. PICK a : PlacedAt(pieces, text, at, p, a, Len(pieces[p].chars), pieces[p].chars)
    BY <1>3, PlaceOf
  <1>5. PlacedAt(pieces, text, at, p, a, 3, chars)
    BY <1>2, <1>3, <1>4, Zenon
  <1>6. /\ text \in Seq(Alphabet) /\ Len(text) \in Nat /\ a \in Nat /\ a >= 1
        /\ a + 3 <= Len(text) + 1
    BY <1>5, Zenon DEF PlacedAt
  <1>7. PICK b, c : b = a + 1 /\ c = a + 2
    OBVIOUS
  <1>8. \A k \in 1 .. 3 : text[a + k - 1] = chars[k]
    BY <1>5, Zenon DEF PlacedAt
  <1>9. /\ a \in 1 .. Len(text) /\ a \in Nat /\ text[a] = "/"
        /\ b \in 1 .. Len(text) /\ b \in Nat /\ text[b] = "a"
        /\ c \in 1 .. Len(text) /\ c \in Nat /\ text[c] = "*"
    <2>1. a \in 1 .. Len(text) /\ a \in Nat /\ text[a] = "/"
      <3>1. 1 \in 1 .. 3 /\ a + 1 - 1 = a /\ a \in 1 .. Len(text) /\ a \in Nat
        BY <1>6
      <3>2. chars[1] = "/"
        BY <1>1
      <3> QED
        BY <1>8, <3>1, <3>2, Zenon
    <2>2. b \in 1 .. Len(text) /\ b \in Nat /\ text[b] = "a"
      <3>1. 2 \in 1 .. 3 /\ a + 2 - 1 = b /\ b \in 1 .. Len(text) /\ b \in Nat
        BY <1>6, <1>7
      <3>2. chars[2] = "a"
        BY <1>1
      <3> QED
        BY <1>8, <3>1, <3>2, Zenon
    <2>3. c \in 1 .. Len(text) /\ c \in Nat /\ text[c] = "*"
      <3>1. 3 \in 1 .. 3 /\ a + 3 - 1 = c /\ c \in 1 .. Len(text) /\ c \in Nat
        BY <1>6, <1>7
      <3>2. chars[3] = "*"
        BY <1>1
      <3> QED
        BY <1>8, <3>1, <3>2, Zenon
    <2> QED
      BY <2>1, <2>2, <2>3
  <1>10. /\ b = a + 1
         /\ c = a + 2
         /\ a + 1 = b
         /\ b + 1 = c
         /\ c + 1 = a + 3
         /\ a # Len(text)
         /\ b # Len(text)
    BY <1>6, <1>7
  <1>11. a = at[p] /\ at[p + 1] = a + 3 /\ at[p + 1] = c + 1
    <2>1. a = at[p] /\ at[p + 1] = a + 3
      BY <1>5, Zenon DEF PlacedAt
    <2> QED
      BY <1>10, <2>1, Zenon
  <1>12. read[a] = {a} \cup read[a + 1]
    BY <1>6, <1>9, <1>10, ReadsSign
  <1>13. read[b] = {b} \cup read[b + 1] /\ read[c] = {c} \cup read[c + 1]
    BY <1>6, <1>9, ReadsPlain
  <1>14. read[at[p]] = {a, b, c} \cup read[at[p + 1]]
    <2>1. read[a] = {a, b, c} \cup read[c + 1]
      BY <1>10, <1>12, <1>13
    <2> QED
      BY <1>11, <2>1, Zenon
  <1>15. {a, b, c} \in SUBSET (at[p] .. at[p + 1] - 1) /\ at[p] \in {a, b, c}
    <2>1. {a, b, c} \in SUBSET (a .. a + 3 - 1) /\ a \in {a, b, c}
      BY <1>6, <1>7
    <2> QED
      BY <1>11, <2>1
  <1>16. \A m \in {a, b, c} : text[m] = "semi" <=> pieces[p].kind = "semicolon"
    BY <1>2, <1>9
  <1>17. pieces[p].kind # "space"
    BY <1>2
  <1> QED
    BY <1>14, <1>15, <1>16, <1>17, ReadPlainly, Zenon

---------------------------------------------------------------------------
(* Strings *)

LEMMA CloseSkips ==
  ASSUME NEW text, Len(text) \in Nat, NEW close, NEW after, Closes(after, text, close),
         NEW j \in 1 .. Len(text), text[j] # close
  PROVE  after[j] = after[j + 1]
  <1>1. j \in 1 .. Len(text) + 1 /\ j # Len(text) + 1
    OBVIOUS
  <1> QED
    BY <1>1, Zenon DEF Closes

LEMMA CloseDoubles ==
  ASSUME NEW text, Len(text) \in Nat, NEW close, NEW after, Closes(after, text, close),
         NEW j \in 1 .. Len(text), text[j] = close, close # "]", At(text, j + 1, close)
  PROVE  after[j] = after[j + 2]
  <1>1. j \in 1 .. Len(text) + 1 /\ j # Len(text) + 1
    OBVIOUS
  <1> QED
    BY <1>1, Zenon DEF Closes

LEMMA CloseEnds ==
  ASSUME NEW text, Len(text) \in Nat, NEW close, NEW after, Closes(after, text, close),
         NEW j \in 1 .. Len(text), text[j] = close, close = "]" \/ ~At(text, j + 1, close)
  PROVE  after[j] = j + 1
  <1>1. j \in 1 .. Len(text) + 1 /\ j # Len(text) + 1
    OBVIOUS
  <1> QED
    BY <1>1, Zenon DEF Closes

LEMMA CloseNever ==
  ASSUME NEW text, Len(text) \in Nat, NEW close, NEW after, Closes(after, text, close)
  PROVE  after[Len(text) + 1] = Len(text) + 1
  <1>1. Len(text) + 1 \in 1 .. Len(text) + 1
    OBVIOUS
  <1> QED
    BY <1>1, Zenon DEF Closes

\* From inside of a string the scan comes to the next piece, or into it, if that
\* begins with the same quote.
StringEnded(at, after, p) == after[at[p] + 1] = at[p + 1]
Continues(text, at, after, close, p) ==
    IF At(text, at[p + 1], close) THEN after[at[p] + 1] = after[at[p + 1] + 1]
    ELSE StringEnded(at, after, p)

LEMMA PassesString ==
  ASSUME NEW pieces, Len(pieces) \in Nat, NEW text, NEW at, Cut(pieces, text, at),
         NEW p \in 1 .. Len(pieces),
         pieces[p] = Piece("token", <<"'", "semi", "'">>),
         NEW after, Closes(after, text, "'")
  PROVE  Continues(text, at, after, "'", p)
  <1>1. PICK chars : chars = <<"'", "semi", "'">>
    OBVIOUS
  <1>2. pieces[p].kind = "token" /\ pieces[p].chars = chars
    BY <1>1 DEF Piece
  <1>3. Len(chars) = 3 /\ Len(pieces[p].chars) \in Nat
    BY <1>1, <1>2
  <1>4. PICK a : PlacedAt(pieces, text, at, p, a, Len(pieces[p].chars), pieces[p].chars)
    BY <1>3, PlaceOf
  <1>5. PlacedAt(pieces, text, at, p, a, 3, chars)
    BY <1>2, <1>3, <1>4, Zenon
  <1>6. /\ text \in Seq(Alphabet) /\ Len(text) \in Nat /\ a \in Nat /\ a >= 1
        /\ a + 3 <= Len(text) + 1
    BY <1>5, Zenon DEF PlacedAt
  <1>7. PICK b, c : b = a + 1 /\ c = a + 2
    OBVIOUS
  <1>8. \A k \in 1 .. 3 : text[a + k - 1] = chars[k]
    BY <1>5, Zenon DEF PlacedAt
  <1>9. /\ a \in 1 .. Len(text) /\ a \in Nat /\ text[a] = "'"
        /\ b \in 1 .. Len(text) /\ b \in Nat /\ text[b] = "semi"
        /\ c \in 1 .. Len(text) /\ c \in Nat /\ text[c] = "'"
    <2>1. a \in 1 .. Len(text) /\ a \in Nat /\ text[a] = "'"
      <3>1. 1 \in 1 .. 3 /\ a + 1 - 1 = a /\ a \in 1 .. Len(text) /\ a \in Nat
        BY <1>6
      <3>2. chars[1] = "'"
        BY <1>1
      <3> QED
        BY <1>8, <3>1, <3>2, Zenon
    <2>2. b \in 1 .. Len(text) /\ b \in Nat /\ text[b] = "semi"
      <3>1. 2 \in 1 .. 3 /\ a + 2 - 1 = b /\ b \in 1 .. Len(text) /\ b \in Nat
        BY <1>6, <1>7
      <3>2. chars[2] = "semi"
        BY <1>1
      <3> QED
        BY <1>8, <3>1, <3>2, Zenon
    <2>3. c \in 1 .. Len(text) /\ c \in Nat /\ text[c] = "'"
      <3>1. 3 \in 1 .. 3 /\ a + 3 - 1 = c /\ c \in 1 .. Len(text) /\ c \in Nat
        BY <1>6, <1>7
      <3>2. chars[3] = "'"
        BY <1>1
      <3> QED
        BY <1>8, <3>1, <3>2, Zenon
    <2> QED
      BY <2>1, <2>2, <2>3
  <1>10. /\ b = a + 1
         /\ c = a + 2
         /\ a + 1 = b
         /\ b + 1 = c
         /\ c + 1 = a + 3
         /\ a # Len(text)
         /\ b # Len(text)
    BY <1>6, <1>7
  <1>11. a = at[p] /\ at[p + 1] = a + 3 /\ at[p + 1] = c + 1
    <2>1. a = at[p] /\ at[p + 1] = a + 3
      BY <1>5, Zenon DEF PlacedAt
    <2> QED
      BY <1>10, <2>1, Zenon
  <1>20. after[b] = after[c]
    BY <1>6, <1>9, <1>10, CloseSkips
  <1>21. after[a + 1] = after[c]
    BY <1>10, <1>20, Zenon
  <1>22. CASE At(text, c + 1, "'")
    <2>1. after[c] = after[c + 2] /\ c + 2 = c + 1 + 1
      BY <1>6, <1>9, <1>22, CloseDoubles
    <2> QED
      BY <1>11, <1>21, <1>22, <2>1, Zenon DEF Continues
  <1>23. CASE ~At(text, c + 1, "'")
    <2>1. after[c] = c + 1
      BY <1>6, <1>9, <1>23, CloseEnds
    <2> QED
      BY <1>11, <1>21, <1>23, <2>1, Zenon DEF Continues, StringEnded
  <1> QED
    BY <1>22, <1>23

LEMMA PassesDoubled ==
  ASSUME NEW pieces, Len(pieces) \in Nat, NEW text, NEW at, Cut(pieces, text, at),
         NEW p \in 1 .. Len(pieces),
         pieces[p] = Piece("token", <<"'", "'", "'", "semi", "'">>),
         NEW after, Closes(after, text, "'")
  PROVE  Continues(text, at, after, "'", p)
  <1>1. PICK chars : chars = <<"'", "'", "'", "semi", "'">>
    OBVIOUS
  <1>2. pieces[p].kind = "token" /\ pieces[p].chars = chars
    BY <1>1 DEF Piece
  <1>3. Len(chars) = 5 /\ Len(pieces[p].chars) \in Nat
    BY <1>1, <1>2
  <1>4. PICK a : PlacedAt(pieces, text, at, p, a, Len(pieces[p].chars), pieces[p].chars)
    BY <1>3, PlaceOf
  <1>5. PlacedAt(pieces, text, at, p, a, 5, chars)
    BY <1>2, <1>3, <1>4, Zenon
  <1>6. /\ text \in Seq(Alphabet) /\ Len(text) \in Nat /\ a \in Nat /\ a >= 1
        /\ a + 5 <= Len(text) + 1
    BY <1>5, Zenon DEF PlacedAt
  <1>7. PICK b, c, d, e : b = a + 1 /\ c = a + 2 /\ d = a + 3 /\ e = a + 4
    OBVIOUS
  <1>8. \A k \in 1 .. 5 : text[a + k - 1] = chars[k]
    BY <1>5, Zenon DEF PlacedAt
  <1>9. /\ a \in 1 .. Len(text) /\ a \in Nat /\ text[a] = "'"
        /\ b \in 1 .. Len(text) /\ b \in Nat /\ text[b] = "'"
        /\ c \in 1 .. Len(text) /\ c \in Nat /\ text[c] = "'"
        /\ d \in 1 .. Len(text) /\ d \in Nat /\ text[d] = "semi"
        /\ e \in 1 .. Len(text) /\ e \in Nat /\ text[e] = "'"
    <2>1. a \in 1 .. Len(text) /\ a \in Nat /\ text[a] = "'"
      <3>1. 1 \in 1 .. 5 /\ a + 1 - 1 = a /\ a \in 1 .. Len(text) /\ a \in Nat
        BY <1>6
      <3>2. chars[1] = "'"
        BY <1>1
      <3> QED
        BY <1>8, <3>1, <3>2, Zenon
    <2>2. b \in 1 .. Len(text) /\ b \in Nat /\ text[b] = "'"
      <3>1. 2 \in 1 .. 5 /\ a + 2 - 1 = b /\ b \in 1 .. Len(text) /\ b \in Nat
        BY <1>6, <1>7
      <3>2. chars[2] = "'"
        BY <1>1
      <3> QED
        BY <1>8, <3>1, <3>2, Zenon
    <2>3. c \in 1 .. Len(text) /\ c \in Nat /\ text[c] = "'"
      <3>1. 3 \in 1 .. 5 /\ a + 3 - 1 = c /\ c \in 1 .. Len(text) /\ c \in Nat
        BY <1>6, <1>7
      <3>2. chars[3] = "'"
        BY <1>1
      <3> QED
        BY <1>8, <3>1, <3>2, Zenon
    <2>4. d \in 1 .. Len(text) /\ d \in Nat /\ text[d] = "semi"
      <3>1. 4 \in 1 .. 5 /\ a + 4 - 1 = d /\ d \in 1 .. Len(text) /\ d \in Nat
        BY <1>6, <1>7
      <3>2. chars[4] = "semi"
        BY <1>1
      <3> QED
        BY <1>8, <3>1, <3>2, Zenon
    <2>5. e \in 1 .. Len(text) /\ e \in Nat /\ text[e] = "'"
      <3>1. 5 \in 1 .. 5 /\ a + 5 - 1 = e /\ e \in 1 .. Len(text) /\ e \in Nat
        BY <1>6, <1>7
      <3>2. chars[5] = "'"
        BY <1>1
      <3> QED
        BY <1>8, <3>1, <3>2, Zenon
    <2> QED
      BY <2>1, <2>2, <2>3, <2>4, <2>5
  <1>10. /\ b = a + 1
         /\ c = a + 2
         /\ d = a + 3
         /\ e = a + 4
         /\ a + 1 = b
         /\ b + 1 = c
         /\ c + 1 = d
         /\ d + 1 = e
         /\ e + 1 = a + 5
         /\ a # Len(text)
         /\ b # Len(text)
         /\ c # Len(text)
         /\ d # Len(text)
    BY <1>6, <1>7
  <1>11. a = at[p] /\ at[p + 1] = a + 5 /\ at[p + 1] = e + 1
    <2>1. a = at[p] /\ at[p + 1] = a + 5
      BY <1>5, Zenon DEF PlacedAt
    <2> QED
      BY <1>10, <2>1, Zenon
  <1>20. after[b] = after[d]
    <2>1. At(text, b + 1, "'") /\ b + 2 = d /\ "'" # "]"
      BY <1>6, <1>9, <1>10 DEF At
    <2>2. after[b] = after[b + 2]
      BY <1>6, <1>9, <2>1, CloseDoubles
    <2> QED
      BY <2>1, <2>2, Zenon
  <1>21. after[d] = after[e]
    BY <1>6, <1>9, <1>10, CloseSkips
  <1>22. after[a + 1] = after[e]
    BY <1>10, <1>20, <1>21, Zenon
  <1>23. CASE At(text, e + 1, "'")
    <2>1. after[e] = after[e + 2] /\ e + 2 = e + 1 + 1
      BY <1>6, <1>9, <1>23, CloseDoubles
    <2> QED
      BY <1>11, <1>22, <1>23, <2>1, Zenon DEF Continues
  <1>24. CASE ~At(text, e + 1, "'")
    <2>1. after[e] = e + 1
      BY <1>6, <1>9, <1>24, CloseEnds
    <2> QED
      BY <1>11, <1>22, <1>24, <2>1, Zenon DEF Continues, StringEnded
  <1> QED
    BY <1>23, <1>24

LEMMA PassesName ==
  ASSUME NEW pieces, Len(pieces) \in Nat, NEW text, NEW at, Cut(pieces, text, at),
         NEW p \in 1 .. Len(pieces),
         pieces[p] = Piece("token", <<"doublequote", "'", "semi", "doublequote">>),
         NEW after, Closes(after, text, "doublequote")
  PROVE  Continues(text, at, after, "doublequote", p)
  <1>1. PICK chars : chars = <<"doublequote", "'", "semi", "doublequote">>
    OBVIOUS
  <1>2. pieces[p].kind = "token" /\ pieces[p].chars = chars
    BY <1>1 DEF Piece
  <1>3. Len(chars) = 4 /\ Len(pieces[p].chars) \in Nat
    BY <1>1, <1>2
  <1>4. PICK a : PlacedAt(pieces, text, at, p, a, Len(pieces[p].chars), pieces[p].chars)
    BY <1>3, PlaceOf
  <1>5. PlacedAt(pieces, text, at, p, a, 4, chars)
    BY <1>2, <1>3, <1>4, Zenon
  <1>6. /\ text \in Seq(Alphabet) /\ Len(text) \in Nat /\ a \in Nat /\ a >= 1
        /\ a + 4 <= Len(text) + 1
    BY <1>5, Zenon DEF PlacedAt
  <1>7. PICK b, c, d : b = a + 1 /\ c = a + 2 /\ d = a + 3
    OBVIOUS
  <1>8. \A k \in 1 .. 4 : text[a + k - 1] = chars[k]
    BY <1>5, Zenon DEF PlacedAt
  <1>9. /\ a \in 1 .. Len(text) /\ a \in Nat /\ text[a] = "doublequote"
        /\ b \in 1 .. Len(text) /\ b \in Nat /\ text[b] = "'"
        /\ c \in 1 .. Len(text) /\ c \in Nat /\ text[c] = "semi"
        /\ d \in 1 .. Len(text) /\ d \in Nat /\ text[d] = "doublequote"
    <2>1. a \in 1 .. Len(text) /\ a \in Nat /\ text[a] = "doublequote"
      <3>1. 1 \in 1 .. 4 /\ a + 1 - 1 = a /\ a \in 1 .. Len(text) /\ a \in Nat
        BY <1>6
      <3>2. chars[1] = "doublequote"
        BY <1>1
      <3> QED
        BY <1>8, <3>1, <3>2, Zenon
    <2>2. b \in 1 .. Len(text) /\ b \in Nat /\ text[b] = "'"
      <3>1. 2 \in 1 .. 4 /\ a + 2 - 1 = b /\ b \in 1 .. Len(text) /\ b \in Nat
        BY <1>6, <1>7
      <3>2. chars[2] = "'"
        BY <1>1
      <3> QED
        BY <1>8, <3>1, <3>2, Zenon
    <2>3. c \in 1 .. Len(text) /\ c \in Nat /\ text[c] = "semi"
      <3>1. 3 \in 1 .. 4 /\ a + 3 - 1 = c /\ c \in 1 .. Len(text) /\ c \in Nat
        BY <1>6, <1>7
      <3>2. chars[3] = "semi"
        BY <1>1
      <3> QED
        BY <1>8, <3>1, <3>2, Zenon
    <2>4. d \in 1 .. Len(text) /\ d \in Nat /\ text[d] = "doublequote"
      <3>1. 4 \in 1 .. 4 /\ a + 4 - 1 = d /\ d \in 1 .. Len(text) /\ d \in Nat
        BY <1>6, <1>7
      <3>2. chars[4] = "doublequote"
        BY <1>1
      <3> QED
        BY <1>8, <3>1, <3>2, Zenon
    <2> QED
      BY <2>1, <2>2, <2>3, <2>4
  <1>10. /\ b = a + 1
         /\ c = a + 2
         /\ d = a + 3
         /\ a + 1 = b
         /\ b + 1 = c
         /\ c + 1 = d
         /\ d + 1 = a + 4
         /\ a # Len(text)
         /\ b # Len(text)
         /\ c # Len(text)
    BY <1>6, <1>7
  <1>11. a = at[p] /\ at[p + 1] = a + 4 /\ at[p + 1] = d + 1
    <2>1. a = at[p] /\ at[p + 1] = a + 4
      BY <1>5, Zenon DEF PlacedAt
    <2> QED
      BY <1>10, <2>1, Zenon
  <1>20. after[b] = after[c]
    BY <1>6, <1>9, <1>10, CloseSkips
  <1>21. after[c] = after[d]
    BY <1>6, <1>9, <1>10, CloseSkips
  <1>22. after[a + 1] = after[d]
    BY <1>10, <1>20, <1>21, Zenon
  <1>23. CASE At(text, d + 1, "doublequote")
    <2>1. after[d] = after[d + 2] /\ d + 2 = d + 1 + 1
      BY <1>6, <1>9, <1>23, CloseDoubles
    <2> QED
      BY <1>11, <1>22, <1>23, <2>1, Zenon DEF Continues
  <1>24. CASE ~At(text, d + 1, "doublequote")
    <2>1. after[d] = d + 1
      BY <1>6, <1>9, <1>24, CloseEnds
    <2> QED
      BY <1>11, <1>22, <1>24, <2>1, Zenon DEF Continues, StringEnded
  <1> QED
    BY <1>23, <1>24

LEMMA PassesBracket ==
  ASSUME NEW pieces, Len(pieces) \in Nat, NEW text, NEW at, Cut(pieces, text, at),
         NEW p \in 1 .. Len(pieces),
         pieces[p] = Piece("token", <<"[", "'", "semi", "]">>),
         NEW after, Closes(after, text, "]")
  PROVE  StringEnded(at, after, p)
  <1>1. PICK chars : chars = <<"[", "'", "semi", "]">>
    OBVIOUS
  <1>2. pieces[p].kind = "token" /\ pieces[p].chars = chars
    BY <1>1 DEF Piece
  <1>3. Len(chars) = 4 /\ Len(pieces[p].chars) \in Nat
    BY <1>1, <1>2
  <1>4. PICK a : PlacedAt(pieces, text, at, p, a, Len(pieces[p].chars), pieces[p].chars)
    BY <1>3, PlaceOf
  <1>5. PlacedAt(pieces, text, at, p, a, 4, chars)
    BY <1>2, <1>3, <1>4, Zenon
  <1>6. /\ text \in Seq(Alphabet) /\ Len(text) \in Nat /\ a \in Nat /\ a >= 1
        /\ a + 4 <= Len(text) + 1
    BY <1>5, Zenon DEF PlacedAt
  <1>7. PICK b, c, d : b = a + 1 /\ c = a + 2 /\ d = a + 3
    OBVIOUS
  <1>8. \A k \in 1 .. 4 : text[a + k - 1] = chars[k]
    BY <1>5, Zenon DEF PlacedAt
  <1>9. /\ a \in 1 .. Len(text) /\ a \in Nat /\ text[a] = "["
        /\ b \in 1 .. Len(text) /\ b \in Nat /\ text[b] = "'"
        /\ c \in 1 .. Len(text) /\ c \in Nat /\ text[c] = "semi"
        /\ d \in 1 .. Len(text) /\ d \in Nat /\ text[d] = "]"
    <2>1. a \in 1 .. Len(text) /\ a \in Nat /\ text[a] = "["
      <3>1. 1 \in 1 .. 4 /\ a + 1 - 1 = a /\ a \in 1 .. Len(text) /\ a \in Nat
        BY <1>6
      <3>2. chars[1] = "["
        BY <1>1
      <3> QED
        BY <1>8, <3>1, <3>2, Zenon
    <2>2. b \in 1 .. Len(text) /\ b \in Nat /\ text[b] = "'"
      <3>1. 2 \in 1 .. 4 /\ a + 2 - 1 = b /\ b \in 1 .. Len(text) /\ b \in Nat
        BY <1>6, <1>7
      <3>2. chars[2] = "'"
        BY <1>1
      <3> QED
        BY <1>8, <3>1, <3>2, Zenon
    <2>3. c \in 1 .. Len(text) /\ c \in Nat /\ text[c] = "semi"
      <3>1. 3 \in 1 .. 4 /\ a + 3 - 1 = c /\ c \in 1 .. Len(text) /\ c \in Nat
        BY <1>6, <1>7
      <3>2. chars[3] = "semi"
        BY <1>1
      <3> QED
        BY <1>8, <3>1, <3>2, Zenon
    <2>4. d \in 1 .. Len(text) /\ d \in Nat /\ text[d] = "]"
      <3>1. 4 \in 1 .. 4 /\ a + 4 - 1 = d /\ d \in 1 .. Len(text) /\ d \in Nat
        BY <1>6, <1>7
      <3>2. chars[4] = "]"
        BY <1>1
      <3> QED
        BY <1>8, <3>1, <3>2, Zenon
    <2> QED
      BY <2>1, <2>2, <2>3, <2>4
  <1>10. /\ b = a + 1
         /\ c = a + 2
         /\ d = a + 3
         /\ a + 1 = b
         /\ b + 1 = c
         /\ c + 1 = d
         /\ d + 1 = a + 4
         /\ a # Len(text)
         /\ b # Len(text)
         /\ c # Len(text)
    BY <1>6, <1>7
  <1>11. a = at[p] /\ at[p + 1] = a + 4 /\ at[p + 1] = d + 1
    <2>1. a = at[p] /\ at[p + 1] = a + 4
      BY <1>5, Zenon DEF PlacedAt
    <2> QED
      BY <1>10, <2>1, Zenon
  <1>20. after[b] = after[c]
    BY <1>6, <1>9, <1>10, CloseSkips
  <1>21. after[c] = after[d]
    BY <1>6, <1>9, <1>10, CloseSkips
  <1>22. after[a + 1] = after[d]
    BY <1>10, <1>20, <1>21, Zenon
  <1>23. after[d] = d + 1
    BY <1>6, <1>9, CloseEnds
  <1> QED
    BY <1>11, <1>22, <1>23, Zenon DEF StringEnded

LEMMA PassesOpenString ==
  ASSUME NEW pieces, Len(pieces) \in Nat, NEW text, NEW at, Cut(pieces, text, at),
         NEW p \in 1 .. Len(pieces),
         pieces[p] = Piece("token", <<"'", "semi">>), p = Len(pieces),
         NEW after, Closes(after, text, "'")
  PROVE  StringEnded(at, after, p)
  <1>1. PICK chars : chars = <<"'", "semi">>
    OBVIOUS
  <1>2. pieces[p].kind = "token" /\ pieces[p].chars = chars
    BY <1>1 DEF Piece
  <1>3. Len(chars) = 2 /\ Len(pieces[p].chars) \in Nat
    BY <1>1, <1>2
  <1>4. PICK a : PlacedAt(pieces, text, at, p, a, Len(pieces[p].chars), pieces[p].chars)
    BY <1>3, PlaceOf
  <1>5. PlacedAt(pieces, text, at, p, a, 2, chars)
    BY <1>2, <1>3, <1>4, Zenon
  <1>6. /\ text \in Seq(Alphabet) /\ Len(text) \in Nat /\ a \in Nat /\ a >= 1
        /\ a + 2 <= Len(text) + 1
    BY <1>5, Zenon DEF PlacedAt
  <1>7. PICK b : b = a + 1
    OBVIOUS
  <1>8. \A k \in 1 .. 2 : text[a + k - 1] = chars[k]
    BY <1>5, Zenon DEF PlacedAt
  <1>9. /\ a \in 1 .. Len(text) /\ a \in Nat /\ text[a] = "'"
        /\ b \in 1 .. Len(text) /\ b \in Nat /\ text[b] = "semi"
    <2>1. a \in 1 .. Len(text) /\ a \in Nat /\ text[a] = "'"
      <3>1. 1 \in 1 .. 2 /\ a + 1 - 1 = a /\ a \in 1 .. Len(text) /\ a \in Nat
        BY <1>6
      <3>2. chars[1] = "'"
        BY <1>1
      <3> QED
        BY <1>8, <3>1, <3>2, Zenon
    <2>2. b \in 1 .. Len(text) /\ b \in Nat /\ text[b] = "semi"
      <3>1. 2 \in 1 .. 2 /\ a + 2 - 1 = b /\ b \in 1 .. Len(text) /\ b \in Nat
        BY <1>6, <1>7
      <3>2. chars[2] = "semi"
        BY <1>1
      <3> QED
        BY <1>8, <3>1, <3>2, Zenon
    <2> QED
      BY <2>1, <2>2
  <1>10. /\ b = a + 1
         /\ a + 1 = b
         /\ b + 1 = a + 2
         /\ a # Len(text)
    BY <1>6, <1>7
  <1>11. a = at[p] /\ at[p + 1] = a + 2 /\ at[p + 1] = b + 1
    <2>1. a = at[p] /\ at[p + 1] = a + 2
      BY <1>5, Zenon DEF PlacedAt
    <2> QED
      BY <1>10, <2>1, Zenon
  <1>19. b = Len(text)
    <2>1. a + 2 = Len(text) + 1
      BY <1>5, Zenon DEF PlacedAt
    <2> QED
      BY <1>6, <1>7, <2>1
  <1>20. after[b] = after[b + 1]
    BY <1>6, <1>9, CloseSkips
  <1>21. after[b + 1] = b + 1
    BY <1>6, <1>19, CloseNever, Zenon
  <1> QED
    BY <1>10, <1>11, <1>20, <1>21, Zenon DEF StringEnded

\* Which pieces a quote begins.
OpenString == Piece("token", <<"'", "semi">>)
StringsOf(quote) ==
    CASE quote = "'" -> {Piece("token", <<"'", "semi", "'">>), Piece("token", <<"'", "'", "'", "semi", "'">>),
                         OpenString}
      [] quote = "doublequote" -> {Piece("token", <<"doublequote", "'", "semi", "doublequote">>)}
      [] quote = "[" -> {Piece("token", <<"[", "'", "semi", "]">>)}

\* A text of pieces, of which only the last is not closed.
Composed(pieces) ==
    /\ pieces \in Seq(Pieces \cup Unclosed)
    /\ \A p \in 1 .. Len(pieces) - 1 : pieces[p] \in Pieces

\* A piece of this kind and these characters.
Has(piece, kind, chars) == piece.kind = kind /\ piece.chars = chars
LEMMA HasPiece == \A kind, chars : Has(Piece(kind, chars), kind, chars)
  BY DEF Has, Piece

BeginsWell(piece) ==
    /\ piece.kind \in {"word", "semicolon", "token", "space"}
    /\ piece.chars \in Seq(Alphabet) /\ Len(piece.chars) \in Nat /\ Len(piece.chars) >= 1
    /\ piece.chars[1] = "'" => piece \in StringsOf("'")
    /\ piece.chars[1] = "doublequote" => piece \in StringsOf("doublequote")

LEMMA PiecesBegin == \A piece \in Pieces \cup Unclosed : BeginsWell(piece)
  <1>0. /\ "'" # "doublequote"
        /\ StringsOf("'") = {Piece("token", <<"'", "semi", "'">>), Piece("token", <<"'", "'", "'", "semi", "'">>), Piece("token", <<"'", "semi">>)}
        /\ StringsOf("doublequote") = {Piece("token", <<"doublequote", "'", "semi", "doublequote">>)}
    BY DEF StringsOf, OpenString
  <1>1. BeginsWell(Piece("word", <<"a">>))
    <2>1. PICK chars : chars = <<"a">>
      OBVIOUS
    <2>2. PICK piece : piece = Piece("word", <<"a">>)
      OBVIOUS
    <2>3. piece.kind = "word" /\ piece.chars = chars
      <3>1. Has(piece, "word", chars)
        BY <2>1, <2>2, HasPiece, Zenon
      <3> QED
        BY <3>1, Zenon DEF Has
    <2>4. chars \in Seq(Alphabet) /\ Len(chars) = 1 /\ chars[1] = "a"
      BY <2>1 DEF Alphabet
    <2>5. Len(chars) \in Nat /\ Len(chars) >= 1
      BY <2>4
    <2>6. /\ chars[1] = "'" => piece \in StringsOf("'")
          /\ chars[1] = "doublequote" => piece \in StringsOf("doublequote")
      BY <2>4
    <2> QED
      BY <2>2, <2>3, <2>4, <2>5, <2>6, Zenon DEF BeginsWell
  <1>2. BeginsWell(Piece("semicolon", <<"semi">>))
    <2>1. PICK chars : chars = <<"semi">>
      OBVIOUS
    <2>2. PICK piece : piece = Piece("semicolon", <<"semi">>)
      OBVIOUS
    <2>3. piece.kind = "semicolon" /\ piece.chars = chars
      <3>1. Has(piece, "semicolon", chars)
        BY <2>1, <2>2, HasPiece, Zenon
      <3> QED
        BY <3>1, Zenon DEF Has
    <2>4. chars \in Seq(Alphabet) /\ Len(chars) = 1 /\ chars[1] = "semi"
      BY <2>1 DEF Alphabet
    <2>5. Len(chars) \in Nat /\ Len(chars) >= 1
      BY <2>4
    <2>6. /\ chars[1] = "'" => piece \in StringsOf("'")
          /\ chars[1] = "doublequote" => piece \in StringsOf("doublequote")
      BY <2>4
    <2> QED
      BY <2>2, <2>3, <2>4, <2>5, <2>6, Zenon DEF BeginsWell
  <1>3. BeginsWell(Piece("token", <<"-", "a">>))
    <2>1. PICK chars : chars = <<"-", "a">>
      OBVIOUS
    <2>2. PICK piece : piece = Piece("token", <<"-", "a">>)
      OBVIOUS
    <2>3. piece.kind = "token" /\ piece.chars = chars
      <3>1. Has(piece, "token", chars)
        BY <2>1, <2>2, HasPiece, Zenon
      <3> QED
        BY <3>1, Zenon DEF Has
    <2>4. chars \in Seq(Alphabet) /\ Len(chars) = 2 /\ chars[1] = "-"
      BY <2>1 DEF Alphabet
    <2>5. Len(chars) \in Nat /\ Len(chars) >= 1
      BY <2>4
    <2>6. /\ chars[1] = "'" => piece \in StringsOf("'")
          /\ chars[1] = "doublequote" => piece \in StringsOf("doublequote")
      BY <2>4
    <2> QED
      BY <2>2, <2>3, <2>4, <2>5, <2>6, Zenon DEF BeginsWell
  <1>4. BeginsWell(Piece("token", <<"/", "a", "*">>))
    <2>1. PICK chars : chars = <<"/", "a", "*">>
      OBVIOUS
    <2>2. PICK piece : piece = Piece("token", <<"/", "a", "*">>)
      OBVIOUS
    <2>3. piece.kind = "token" /\ piece.chars = chars
      <3>1. Has(piece, "token", chars)
        BY <2>1, <2>2, HasPiece, Zenon
      <3> QED
        BY <3>1, Zenon DEF Has
    <2>4. chars \in Seq(Alphabet) /\ Len(chars) = 3 /\ chars[1] = "/"
      BY <2>1 DEF Alphabet
    <2>5. Len(chars) \in Nat /\ Len(chars) >= 1
      BY <2>4
    <2>6. /\ chars[1] = "'" => piece \in StringsOf("'")
          /\ chars[1] = "doublequote" => piece \in StringsOf("doublequote")
      BY <2>4
    <2> QED
      BY <2>2, <2>3, <2>4, <2>5, <2>6, Zenon DEF BeginsWell
  <1>5. BeginsWell(Piece("token", <<"'", "semi", "'">>))
    <2>1. PICK chars : chars = <<"'", "semi", "'">>
      OBVIOUS
    <2>2. PICK piece : piece = Piece("token", <<"'", "semi", "'">>)
      OBVIOUS
    <2>3. piece.kind = "token" /\ piece.chars = chars
      <3>1. Has(piece, "token", chars)
        BY <2>1, <2>2, HasPiece, Zenon
      <3> QED
        BY <3>1, Zenon DEF Has
    <2>4. chars \in Seq(Alphabet) /\ Len(chars) = 3 /\ chars[1] = "'"
      BY <2>1 DEF Alphabet
    <2>5. Len(chars) \in Nat /\ Len(chars) >= 1
      BY <2>4
    <2>6. /\ chars[1] = "'" => piece \in StringsOf("'")
          /\ chars[1] = "doublequote" => piece \in StringsOf("doublequote")
      BY <1>0, <2>2, <2>4, Zenon
    <2> QED
      BY <2>2, <2>3, <2>4, <2>5, <2>6, Zenon DEF BeginsWell
  <1>6. BeginsWell(Piece("token", <<"'", "'", "'", "semi", "'">>))
    <2>1. PICK chars : chars = <<"'", "'", "'", "semi", "'">>
      OBVIOUS
    <2>2. PICK piece : piece = Piece("token", <<"'", "'", "'", "semi", "'">>)
      OBVIOUS
    <2>3. piece.kind = "token" /\ piece.chars = chars
      <3>1. Has(piece, "token", chars)
        BY <2>1, <2>2, HasPiece, Zenon
      <3> QED
        BY <3>1, Zenon DEF Has
    <2>4. chars \in Seq(Alphabet) /\ Len(chars) = 5 /\ chars[1] = "'"
      BY <2>1 DEF Alphabet
    <2>5. Len(chars) \in Nat /\ Len(chars) >= 1
      BY <2>4
    <2>6. /\ chars[1] = "'" => piece \in StringsOf("'")
          /\ chars[1] = "doublequote" => piece \in StringsOf("doublequote")
      BY <1>0, <2>2, <2>4, Zenon
    <2> QED
      BY <2>2, <2>3, <2>4, <2>5, <2>6, Zenon DEF BeginsWell
  <1>7. BeginsWell(Piece("token", <<"doublequote", "'", "semi", "doublequote">>))
    <2>1. PICK chars : chars = <<"doublequote", "'", "semi", "doublequote">>
      OBVIOUS
    <2>2. PICK piece : piece = Piece("token", <<"doublequote", "'", "semi", "doublequote">>)
      OBVIOUS
    <2>3. piece.kind = "token" /\ piece.chars = chars
      <3>1. Has(piece, "token", chars)
        BY <2>1, <2>2, HasPiece, Zenon
      <3> QED
        BY <3>1, Zenon DEF Has
    <2>4. chars \in Seq(Alphabet) /\ Len(chars) = 4 /\ chars[1] = "doublequote"
      BY <2>1 DEF Alphabet
    <2>5. Len(chars) \in Nat /\ Len(chars) >= 1
      BY <2>4
    <2>6. /\ chars[1] = "'" => piece \in StringsOf("'")
          /\ chars[1] = "doublequote" => piece \in StringsOf("doublequote")
      BY <1>0, <2>2, <2>4, Zenon
    <2> QED
      BY <2>2, <2>3, <2>4, <2>5, <2>6, Zenon DEF BeginsWell
  <1>8. BeginsWell(Piece("token", <<"[", "'", "semi", "]">>))
    <2>1. PICK chars : chars = <<"[", "'", "semi", "]">>
      OBVIOUS
    <2>2. PICK piece : piece = Piece("token", <<"[", "'", "semi", "]">>)
      OBVIOUS
    <2>3. piece.kind = "token" /\ piece.chars = chars
      <3>1. Has(piece, "token", chars)
        BY <2>1, <2>2, HasPiece, Zenon
      <3> QED
        BY <3>1, Zenon DEF Has
    <2>4. chars \in Seq(Alphabet) /\ Len(chars) = 4 /\ chars[1] = "["
      BY <2>1 DEF Alphabet
    <2>5. Len(chars) \in Nat /\ Len(chars) >= 1
      BY <2>4
    <2>6. /\ chars[1] = "'" => piece \in StringsOf("'")
          /\ chars[1] = "doublequote" => piece \in StringsOf("doublequote")
      BY <2>4
    <2> QED
      BY <2>2, <2>3, <2>4, <2>5, <2>6, Zenon DEF BeginsWell
  <1>9. BeginsWell(Piece("space", <<"space", "newline">>))
    <2>1. PICK chars : chars = <<"space", "newline">>
      OBVIOUS
    <2>2. PICK piece : piece = Piece("space", <<"space", "newline">>)
      OBVIOUS
    <2>3. piece.kind = "space" /\ piece.chars = chars
      <3>1. Has(piece, "space", chars)
        BY <2>1, <2>2, HasPiece, Zenon
      <3> QED
        BY <3>1, Zenon DEF Has
    <2>4. chars \in Seq(Alphabet) /\ Len(chars) = 2 /\ chars[1] = "space"
      BY <2>1 DEF Alphabet
    <2>5. Len(chars) \in Nat /\ Len(chars) >= 1
      BY <2>4
    <2>6. /\ chars[1] = "'" => piece \in StringsOf("'")
          /\ chars[1] = "doublequote" => piece \in StringsOf("doublequote")
      BY <2>4
    <2> QED
      BY <2>2, <2>3, <2>4, <2>5, <2>6, Zenon DEF BeginsWell
  <1>10. BeginsWell(Piece("space", <<"-", "-", "semi", "'", "newline">>))
    <2>1. PICK chars : chars = <<"-", "-", "semi", "'", "newline">>
      OBVIOUS
    <2>2. PICK piece : piece = Piece("space", <<"-", "-", "semi", "'", "newline">>)
      OBVIOUS
    <2>3. piece.kind = "space" /\ piece.chars = chars
      <3>1. Has(piece, "space", chars)
        BY <2>1, <2>2, HasPiece, Zenon
      <3> QED
        BY <3>1, Zenon DEF Has
    <2>4. chars \in Seq(Alphabet) /\ Len(chars) = 5 /\ chars[1] = "-"
      BY <2>1 DEF Alphabet
    <2>5. Len(chars) \in Nat /\ Len(chars) >= 1
      BY <2>4
    <2>6. /\ chars[1] = "'" => piece \in StringsOf("'")
          /\ chars[1] = "doublequote" => piece \in StringsOf("doublequote")
      BY <2>4
    <2> QED
      BY <2>2, <2>3, <2>4, <2>5, <2>6, Zenon DEF BeginsWell
  <1>11. BeginsWell(Piece("space", <<"/", "*", "/", "semi", "'", "*", "/">>))
    <2>1. PICK chars : chars = <<"/", "*", "/", "semi", "'", "*", "/">>
      OBVIOUS
    <2>2. PICK piece : piece = Piece("space", <<"/", "*", "/", "semi", "'", "*", "/">>)
      OBVIOUS
    <2>3. piece.kind = "space" /\ piece.chars = chars
      <3>1. Has(piece, "space", chars)
        BY <2>1, <2>2, HasPiece, Zenon
      <3> QED
        BY <3>1, Zenon DEF Has
    <2>4. chars \in Seq(Alphabet) /\ Len(chars) = 7 /\ chars[1] = "/"
      BY <2>1 DEF Alphabet
    <2>5. Len(chars) \in Nat /\ Len(chars) >= 1
      BY <2>4
    <2>6. /\ chars[1] = "'" => piece \in StringsOf("'")
          /\ chars[1] = "doublequote" => piece \in StringsOf("doublequote")
      BY <2>4
    <2> QED
      BY <2>2, <2>3, <2>4, <2>5, <2>6, Zenon DEF BeginsWell
  <1>12. BeginsWell(Piece("space", <<"-", "-", "semi">>))
    <2>1. PICK chars : chars = <<"-", "-", "semi">>
      OBVIOUS
    <2>2. PICK piece : piece = Piece("space", <<"-", "-", "semi">>)
      OBVIOUS
    <2>3. piece.kind = "space" /\ piece.chars = chars
      <3>1. Has(piece, "space", chars)
        BY <2>1, <2>2, HasPiece, Zenon
      <3> QED
        BY <3>1, Zenon DEF Has
    <2>4. chars \in Seq(Alphabet) /\ Len(chars) = 3 /\ chars[1] = "-"
      BY <2>1 DEF Alphabet
    <2>5. Len(chars) \in Nat /\ Len(chars) >= 1
      BY <2>4
    <2>6. /\ chars[1] = "'" => piece \in StringsOf("'")
          /\ chars[1] = "doublequote" => piece \in StringsOf("doublequote")
      BY <2>4
    <2> QED
      BY <2>2, <2>3, <2>4, <2>5, <2>6, Zenon DEF BeginsWell
  <1>13. BeginsWell(Piece("space", <<"/", "*", "semi", "*">>))
    <2>1. PICK chars : chars = <<"/", "*", "semi", "*">>
      OBVIOUS
    <2>2. PICK piece : piece = Piece("space", <<"/", "*", "semi", "*">>)
      OBVIOUS
    <2>3. piece.kind = "space" /\ piece.chars = chars
      <3>1. Has(piece, "space", chars)
        BY <2>1, <2>2, HasPiece, Zenon
      <3> QED
        BY <3>1, Zenon DEF Has
    <2>4. chars \in Seq(Alphabet) /\ Len(chars) = 4 /\ chars[1] = "/"
      BY <2>1 DEF Alphabet
    <2>5. Len(chars) \in Nat /\ Len(chars) >= 1
      BY <2>4
    <2>6. /\ chars[1] = "'" => piece \in StringsOf("'")
          /\ chars[1] = "doublequote" => piece \in StringsOf("doublequote")
      BY <2>4
    <2> QED
      BY <2>2, <2>3, <2>4, <2>5, <2>6, Zenon DEF BeginsWell
  <1>14. BeginsWell(Piece("token", <<"'", "semi">>))
    <2>1. PICK chars : chars = <<"'", "semi">>
      OBVIOUS
    <2>2. PICK piece : piece = Piece("token", <<"'", "semi">>)
      OBVIOUS
    <2>3. piece.kind = "token" /\ piece.chars = chars
      <3>1. Has(piece, "token", chars)
        BY <2>1, <2>2, HasPiece, Zenon
      <3> QED
        BY <3>1, Zenon DEF Has
    <2>4. chars \in Seq(Alphabet) /\ Len(chars) = 2 /\ chars[1] = "'"
      BY <2>1 DEF Alphabet
    <2>5. Len(chars) \in Nat /\ Len(chars) >= 1
      BY <2>4
    <2>6. /\ chars[1] = "'" => piece \in StringsOf("'")
          /\ chars[1] = "doublequote" => piece \in StringsOf("doublequote")
      BY <1>0, <2>2, <2>4, Zenon
    <2> QED
      BY <2>2, <2>3, <2>4, <2>5, <2>6, Zenon DEF BeginsWell
  <1> QED
    BY <1>1, <1>2, <1>3, <1>4, <1>5, <1>6, <1>7, <1>8, <1>9, <1>10, <1>11, <1>12, <1>13, <1>14, Zenon
       DEF Pieces, Unclosed, Word, Semicolon, Operators, Strings, Spaces

BeginsAt(pieces, text, at, p) == text[at[p]] = pieces[p].chars[1]

LEMMA FirstCharacter ==
  ASSUME NEW pieces, Len(pieces) \in Nat, NEW text, NEW at, Cut(pieces, text, at),
         NEW p \in 1 .. Len(pieces), Len(pieces[p].chars) \in Nat, Len(pieces[p].chars) >= 1
  PROVE  BeginsAt(pieces, text, at, p)
  <1>1. PICK n, chars : n = Len(pieces[p].chars) /\ chars = pieces[p].chars
    OBVIOUS
  <1>2. PICK i : PlacedAt(pieces, text, at, p, i, n, chars)
    BY <1>1, PlaceOf, Zenon
  <1>3. i \in Nat /\ i = at[p] /\ \A k \in 1 .. n : text[i + k - 1] = chars[k]
    BY <1>2, Zenon DEF PlacedAt
  <1>4. 1 \in 1 .. n /\ i + 1 - 1 = i
    BY <1>1, <1>3
  <1> QED
    BY <1>1, <1>3, <1>4, Zenon DEF BeginsAt

LEMMA OpenIsLast == OpenString \notin Pieces
  <1>1. \A kind : kind # "token" => \A chars : Piece(kind, chars) # OpenString
    BY DEF Piece, OpenString
  <1>2. \A chars : Piece("token", chars) = OpenString => chars = <<"'", "semi">>
    BY DEF Piece, OpenString
  <1>3. /\ <<"-", "a">> # <<"'", "semi">>
        /\ <<"/", "a", "*">> # <<"'", "semi">>
        /\ <<"'", "semi", "'">> # <<"'", "semi">>
        /\ <<"'", "'", "'", "semi", "'">> # <<"'", "semi">>
        /\ <<"doublequote", "'", "semi", "doublequote">> # <<"'", "semi">>
        /\ <<"[", "'", "semi", "]">> # <<"'", "semi">>
    OBVIOUS
  <1>4. OpenString \notin Operators \cup Strings
    BY <1>2, <1>3, Zenon DEF Operators, Strings
  <1>5. "word" # "token" /\ "semicolon" # "token" /\ "space" # "token"
    OBVIOUS
  <1>6. OpenString \notin {Word, Semicolon} \cup Spaces
    BY <1>1, <1>5, Zenon DEF Word, Semicolon, Spaces
  <1> QED
    BY <1>4, <1>6, Zenon DEF Pieces

\* A string that the scan is in ends with a piece, of which it may be the first of
\* several that follow each other.
StringEnds(pieces, at, after, p) ==
    \E q \in p + 1 .. Len(pieces) + 1 :
        after[at[p] + 1] = at[q] /\ \A x \in p .. q - 1 : pieces[x].kind = "token"

LEMMA StringsAreTokens ==
  ASSUME NEW quote \in {"'", "doublequote"}, NEW piece \in StringsOf(quote)
  PROVE  piece.kind = "token"
  <1>1. \A chars : Piece("token", chars).kind = "token"
    BY DEF Piece
  <1>2. quote = "'" \/ quote = "doublequote"
    OBVIOUS
  <1>3. CASE quote = "'"
    <2>1. StringsOf(quote) = {Piece("token", <<"'", "semi", "'">>), Piece("token", <<"'", "'", "'", "semi", "'">>), OpenString}
      BY <1>3 DEF StringsOf
    <2> QED
      BY <1>1, <2>1, Zenon DEF OpenString
  <1>4. CASE quote = "doublequote"
    <2>1. StringsOf(quote) = {Piece("token", <<"doublequote", "'", "semi", "doublequote">>)}
      BY <1>4 DEF StringsOf
    <2> QED
      BY <1>1, <2>1, Zenon
  <1> QED
    BY <1>2, <1>3, <1>4

LEMMA StringContinues ==
  ASSUME NEW pieces, Len(pieces) \in Nat, Composed(pieces), NEW text, NEW at, Cut(pieces, text, at),
         NEW quote \in {"'", "doublequote"}, NEW after, Closes(after, text, quote),
         NEW p \in 1 .. Len(pieces), pieces[p] \in StringsOf(quote)
  PROVE  Continues(text, at, after, quote, p) \/ StringEnded(at, after, p)
  <1>1. quote = "'" \/ quote = "doublequote"
    OBVIOUS
  <1>2. CASE quote = "'"
    <2>1. \/ pieces[p] = Piece("token", <<"'", "semi", "'">>)
          \/ pieces[p] = Piece("token", <<"'", "'", "'", "semi", "'">>)
          \/ pieces[p] = OpenString
      BY <1>2 DEF StringsOf
    <2>2. CASE pieces[p] = Piece("token", <<"'", "semi", "'">>)
      BY <1>2, <2>2, PassesString, Zenon
    <2>3. CASE pieces[p] = Piece("token", <<"'", "'", "'", "semi", "'">>)
      BY <1>2, <2>3, PassesDoubled, Zenon
    <2>4. CASE pieces[p] = OpenString
      <3>1. ASSUME p # Len(pieces) PROVE FALSE
        <4>1. p \in 1 .. Len(pieces) - 1
          BY <3>1
        <4> QED
          BY <2>4, <4>1, OpenIsLast, Zenon DEF Composed
      <3> QED
        BY <1>2, <2>4, <3>1, PassesOpenString, Zenon DEF OpenString
    <2> QED
      BY <2>1, <2>2, <2>3, <2>4, Zenon
  <1>3. CASE quote = "doublequote"
    <2>1. pieces[p] = Piece("token", <<"doublequote", "'", "semi", "doublequote">>)
      BY <1>3 DEF StringsOf
    <2> QED
      BY <1>3, <2>1, PassesName, Zenon
  <1> QED
    BY <1>1, <1>2, <1>3

LEMMA StringStep ==
  ASSUME NEW pieces, Len(pieces) \in Nat, Composed(pieces), NEW text, NEW at, Cut(pieces, text, at),
         NEW quote \in {"'", "doublequote"}, NEW after, Closes(after, text, quote),
         NEW p \in 1 .. Len(pieces), pieces[p] \in StringsOf(quote),
         p # Len(pieces) /\ pieces[p + 1] \in StringsOf(quote) => StringEnds(pieces, at, after, p + 1)
  PROVE  StringEnds(pieces, at, after, p)
  <1>1. pieces[p].kind = "token"
    BY StringsAreTokens
  <1>2. CASE StringEnded(at, after, p)
    <2>1. p + 1 \in p + 1 .. Len(pieces) + 1 /\ \A x \in p .. (p + 1) - 1 : x = p
      OBVIOUS
    <2>2. after[at[p] + 1] = at[p + 1]
      BY <1>2, Zenon DEF StringEnded
    <2> QED
      BY <1>1, <2>1, <2>2, Zenon DEF StringEnds
  <1>3. CASE ~StringEnded(at, after, p)
    <2>1. At(text, at[p + 1], quote) /\ after[at[p] + 1] = after[at[p + 1] + 1]
      BY <1>3, StringContinues, Zenon DEF Continues
    <2>2. p # Len(pieces)
      <3>1. text \in Seq(Alphabet) /\ at[Len(pieces) + 1] = Len(text) + 1
        BY Zenon DEF Cut
      <3>2. ~At(text, Len(text) + 1, quote)
        BY <3>1 DEF At
      <3> QED
        BY <2>1, <3>1, <3>2, Zenon
    <2>3. PICK next : next = p + 1 /\ next \in 1 .. Len(pieces)
      BY <2>2
    <2>4. BeginsWell(pieces[next])
      <3>1. pieces[next] \in Pieces \cup Unclosed
        BY <2>3 DEF Composed
      <3> QED
        BY <3>1, PiecesBegin, Zenon
    <2>5. pieces[next] \in StringsOf(quote)
      <3>1. text[at[next]] = pieces[next].chars[1]
        <4>1. Len(pieces[next].chars) \in Nat /\ Len(pieces[next].chars) >= 1 /\ next \in 1 .. Len(pieces)
          BY <2>3, <2>4, Zenon DEF BeginsWell
        <4>2. BeginsAt(pieces, text, at, next)
          BY <4>1, FirstCharacter, Zenon
        <4> QED
          BY <4>2, Zenon DEF BeginsAt
      <3>2. pieces[next].chars[1] = quote
        BY <2>1, <2>3, <3>1, Zenon DEF At
      <3>3. quote = "'" \/ quote = "doublequote"
        OBVIOUS
      <3> QED
        BY <2>4, <3>2, <3>3, Zenon DEF BeginsWell
    <2>6. StringEnds(pieces, at, after, next)
      BY <2>2, <2>3, <2>5, Zenon
    <2>7. PICK q \in next + 1 .. Len(pieces) + 1 :
             after[at[next] + 1] = at[q] /\ \A x \in next .. q - 1 : pieces[x].kind = "token"
      BY <2>6, Zenon DEF StringEnds
    <2>8. q \in p + 1 .. Len(pieces) + 1 /\ \A x \in p .. q - 1 : x = p \/ x \in next .. q - 1
      BY <2>3
    <2>9. \A x \in p .. q - 1 : pieces[x].kind = "token"
      BY <1>1, <2>7, <2>8, Zenon
    <2>10. after[at[p] + 1] = at[q]
      BY <2>1, <2>3, <2>7, Zenon
    <2> QED
      BY <2>8, <2>9, <2>10, Zenon DEF StringEnds
  <1> QED
    BY <1>2, <1>3

LEMMA StringsEnd ==
  ASSUME NEW pieces, Len(pieces) \in Nat, Composed(pieces), NEW text, NEW at, Cut(pieces, text, at),
         NEW quote \in {"'", "doublequote"}, NEW after, Closes(after, text, quote)
  PROVE  \A p \in 1 .. Len(pieces) : pieces[p] \in StringsOf(quote) => StringEnds(pieces, at, after, p)
  <1> DEFINE last == Len(pieces) + 1
             S == {p \in 1 .. last : p # last /\ pieces[p] \in StringsOf(quote) => StringEnds(pieces, at, after, p)}
  <1>1. last \in Nat /\ last \in S
    OBVIOUS
  <1>2. ASSUME NEW p \in 1 .. last - 1, p + 1 .. last \subseteq S
        PROVE  p \in S
    <2>1. p \in 1 .. Len(pieces) /\ p + 1 \in S /\ p \in 1 .. last
      BY <1>2
    <2>2. p # Len(pieces) => p + 1 # last
      BY <2>1
    <2>3. pieces[p] \in StringsOf(quote) => StringEnds(pieces, at, after, p)
      <3>1. p # Len(pieces) /\ pieces[p + 1] \in StringsOf(quote) => StringEnds(pieces, at, after, p + 1)
        BY <2>1, <2>2, Zenon
      <3> HIDE DEF S, last
      <3> QED
        BY <2>1, <3>1, StringStep, Zenon
    <2> QED
      BY <2>1, <2>3, Zenon
  <1>3. 1 .. last \subseteq S
    <2> HIDE DEF S, last
    <2> QED
      BY <1>1, <1>2, Downwards, Zenon
  <1>4. \A p \in 1 .. Len(pieces) : p \in 1 .. last /\ p # last
    OBVIOUS
  <1> QED
    BY <1>3, <1>4, Zenon

\* The place of a piece is in the text, before that of the next.
LEMMA PlaceWithin ==
  ASSUME NEW pieces, Len(pieces) \in Nat, NEW text, NEW at, Cut(pieces, text, at),
         NEW p \in 1 .. Len(pieces), BeginsWell(pieces[p])
  PROVE  /\ text \in Seq(Alphabet) /\ at[p] \in 1 .. Len(text) /\ at[p] \in at[p] .. at[p + 1] - 1
         /\ BeginsAt(pieces, text, at, p)
  <1>1. PICK n, chars : n = Len(pieces[p].chars) /\ chars = pieces[p].chars
    OBVIOUS
  <1>2. Len(pieces[p].chars) \in Nat /\ Len(pieces[p].chars) >= 1
    BY Zenon DEF BeginsWell
  <1>3. PICK i : PlacedAt(pieces, text, at, p, i, n, chars)
    BY <1>1, <1>2, PlaceOf, Zenon
  <1>4. /\ text \in Seq(Alphabet) /\ Len(text) \in Nat
        /\ i \in Nat /\ i >= 1 /\ i + n <= Len(text) + 1 /\ n \in Nat /\ n >= 1
    BY <1>1, <1>2, <1>3, Zenon DEF PlacedAt
  <1>5. i = at[p] /\ at[p + 1] = i + n
    BY <1>3, Zenon DEF PlacedAt
  <1>6. i \in 1 .. Len(text) /\ i \in i .. (i + n) - 1
    BY <1>4
  <1>7. BeginsAt(pieces, text, at, p)
    BY <1>2, FirstCharacter, Zenon
  <1> QED
    BY <1>4, <1>5, <1>6, <1>7, Zenon

\* A string is read by its quote alone.
LEMMA ReadsQuote ==
  ASSUME NEW pieces, Len(pieces) \in Nat, NEW text, NEW at, Cut(pieces, text, at),
         NEW read, Reads(read, text), NEW p \in 1 .. Len(pieces), BeginsWell(pieces[p]),
         pieces[p].kind = "token", NEW quote \in {"'", "doublequote", "["}, text[at[p]] = quote,
         NEW after, AfterQuoted(text, at[p]) = after[at[p] + 1], StringEnds(pieces, at, after, p)
  PROVE  ReadAt(pieces, text, at, read, p)
  <1>1. text \in Seq(Alphabet) /\ at[p] \in 1 .. Len(text) /\ at[p] \in at[p] .. at[p + 1] - 1
    BY PlaceWithin, Zenon
  <1>2. PICK i : i = at[p]
    OBVIOUS
  <1>3. PICK q \in p + 1 .. Len(pieces) + 1 :
           after[at[p] + 1] = at[q] /\ \A x \in p .. q - 1 : pieces[x].kind = "token"
    BY Zenon DEF StringEnds
  <1>4. read[i] = {i} \cup read[AfterQuoted(text, i)]
    <2>1. i \in 1 .. Len(text) /\ text[i] \in {"'", "doublequote", "["}
      BY <1>1, <1>2, Zenon
    <2> QED
      BY <1>1, <2>1, ReadsQuoted, Zenon
  <1>5. AfterQuoted(text, i) = at[q]
    BY <1>2, <1>3, Zenon
  <1>6. read[at[p]] = {i} \cup read[at[q]]
    BY <1>2, <1>4, <1>5, Zenon
  <1>7. {i} \in SUBSET (at[p] .. at[p + 1] - 1) /\ at[p] \in {i}
    BY <1>1, <1>2, Zenon
  <1>8. \A m \in {i} : text[m] = "semi" <=> pieces[p].kind = "semicolon"
    <2>1. quote # "semi" /\ "token" # "semicolon" /\ "token" # "space"
      OBVIOUS
    <2> QED
      BY <1>2, <2>1, Zenon
  <1>9. pieces[p].kind # "space"
    OBVIOUS
  <1> QED
    BY <1>3, <1>6, <1>7, <1>8, <1>9, Zenon DEF ReadAt

LEMMA StringsBegin ==
  ASSUME NEW quote \in {"'", "doublequote"}, NEW piece \in StringsOf(quote)
  PROVE  piece.chars[1] = quote
  <1>1. \A chars : Piece("token", chars).chars = chars
    BY DEF Piece
  <1>2. quote = "'" \/ quote = "doublequote"
    OBVIOUS
  <1>3. CASE quote = "'"
    <2>1. StringsOf(quote) = {Piece("token", <<"'", "semi", "'">>), Piece("token", <<"'", "'", "'", "semi", "'">>), OpenString}
      BY <1>3 DEF StringsOf
    <2>2. PICK chars \in {<<"'", "semi", "'">>, <<"'", "'", "'", "semi", "'">>, <<"'", "semi">>} : piece.chars = chars
      BY <1>1, <2>1, Zenon DEF OpenString
    <2>3. chars[1] = "'"
      BY <2>2
    <2> QED
      BY <1>3, <2>2, <2>3
  <1>4. CASE quote = "doublequote"
    <2>1. StringsOf(quote) = {Piece("token", <<"doublequote", "'", "semi", "doublequote">>)}
      BY <1>4 DEF StringsOf
    <2>2. PICK chars \in {<<"doublequote", "'", "semi", "doublequote">>} : piece.chars = chars
      BY <1>1, <2>1, Zenon
    <2>3. chars[1] = "doublequote"
      BY <2>2
    <2> QED
      BY <1>4, <2>2, <2>3
  <1> QED
    BY <1>2, <1>3, <1>4

LEMMA ReadsString ==
  ASSUME NEW pieces, Len(pieces) \in Nat, Composed(pieces), NEW text, NEW at, Cut(pieces, text, at),
         NEW read, Reads(read, text), NEW p \in 1 .. Len(pieces), BeginsWell(pieces[p]),
         NEW quote \in {"'", "doublequote"}, pieces[p] \in StringsOf(quote)
  PROVE  ReadAt(pieces, text, at, read, p)
  <1>1. pieces[p].kind = "token"
    BY StringsAreTokens
  <1>2. text[at[p]] = quote
    <2>1. BeginsAt(pieces, text, at, p)
      BY PlaceWithin, Zenon
    <2>2. pieces[p].chars[1] = quote
      BY StringsBegin
    <2> QED
      BY <2>1, <2>2, Zenon DEF BeginsAt
  <1>3. text \in Seq(Alphabet) /\ at[p] \in 1 .. Len(text)
    BY PlaceWithin, Zenon
  <1>4. ClosedBy(quote) = quote /\ quote \in {"'", "doublequote", "["}
    BY DEF ClosedBy
  <1>5. PICK after : /\ Closes(after, text, quote)
                     /\ \A i \in 1 .. Len(text) : ClosedBy(text[i]) = quote =>
                           AfterQuoted(text, i) = after[i + 1]
    BY <1>3, ClosesExist, Zenon
  <1>6. AfterQuoted(text, at[p]) = after[at[p] + 1]
    BY <1>2, <1>3, <1>4, <1>5, Zenon
  <1>7. StringEnds(pieces, at, after, p)
    BY <1>5, StringsEnd, Zenon
  <1> QED
    BY <1>1, <1>2, <1>4, <1>6, <1>7, ReadsQuote, Zenon

LEMMA ReadsBracket ==
  ASSUME NEW pieces, Len(pieces) \in Nat, Composed(pieces), NEW text, NEW at, Cut(pieces, text, at),
         NEW read, Reads(read, text), NEW p \in 1 .. Len(pieces), BeginsWell(pieces[p]),
         pieces[p] = Piece("token", <<"[", "'", "semi", "]">>)
  PROVE  ReadAt(pieces, text, at, read, p)
  <1>0. PICK chars : chars = <<"[", "'", "semi", "]">>
    OBVIOUS
  <1>1. pieces[p].kind = "token" /\ pieces[p].chars = chars
    BY <1>0 DEF Piece
  <1>2. text[at[p]] = "["
    <2>1. BeginsAt(pieces, text, at, p)
      BY PlaceWithin, Zenon
    <2>2. chars[1] = "["
      BY <1>0
    <2> QED
      BY <1>1, <2>1, <2>2, Zenon DEF BeginsAt
  <1>3. text \in Seq(Alphabet) /\ at[p] \in 1 .. Len(text)
    BY PlaceWithin, Zenon
  <1>4. ClosedBy("[") = "]" /\ "[" \in {"'", "doublequote", "["}
    BY DEF ClosedBy
  <1>5. PICK after : /\ Closes(after, text, "]")
                     /\ \A i \in 1 .. Len(text) : ClosedBy(text[i]) = "]" =>
                           AfterQuoted(text, i) = after[i + 1]
    BY <1>3, ClosesExist, Zenon
  <1>6. AfterQuoted(text, at[p]) = after[at[p] + 1]
    BY <1>2, <1>3, <1>4, <1>5, Zenon
  <1>7. StringEnds(pieces, at, after, p)
    <2>1. StringEnded(at, after, p)
      BY <1>5, PassesBracket, Zenon
    <2>2. p + 1 \in p + 1 .. Len(pieces) + 1 /\ \A x \in p .. (p + 1) - 1 : x = p
      OBVIOUS
    <2>3. after[at[p] + 1] = at[p + 1]
      BY <2>1, Zenon DEF StringEnded
    <2> QED
      BY <1>1, <2>2, <2>3, Zenon DEF StringEnds
  <1> QED
    BY <1>1, <1>2, <1>4, <1>6, <1>7, ReadsQuote, Zenon

\* Each piece is read as what it is.
LEMMA ReadsPieces ==
  ASSUME NEW pieces, Len(pieces) \in Nat, Composed(pieces), NEW text, NEW at, Cut(pieces, text, at),
         NEW read, Reads(read, text), NEW p \in 1 .. Len(pieces)
  PROVE  ReadAt(pieces, text, at, read, p)
  <1>1. pieces[p] \in Pieces \cup Unclosed /\ (p # Len(pieces) => pieces[p] \in Pieces)
    BY DEF Composed
  <1>2. BeginsWell(pieces[p])
    BY <1>1, PiecesBegin, Zenon
  <1>3. OpenString \in StringsOf("'")
    BY DEF StringsOf
  <1>4. CASE pieces[p] = Word
    BY <1>4, ReadsWord, Zenon DEF Word
  <1>5. CASE pieces[p] = Semicolon
    BY <1>5, ReadsSemicolon, Zenon DEF Semicolon
  <1>6. CASE pieces[p] \in Operators
    BY <1>6, ReadsMinus, ReadsSlash, Zenon DEF Operators
  <1>7. CASE pieces[p] \in Strings
    <2>1. /\ Piece("token", <<"'", "semi", "'">>) \in StringsOf("'")
          /\ Piece("token", <<"'", "'", "'", "semi", "'">>) \in StringsOf("'")
          /\ Piece("token", <<"doublequote", "'", "semi", "doublequote">>) \in StringsOf("doublequote")
          /\ "'" \in {"'", "doublequote"} /\ "doublequote" \in {"'", "doublequote"}
      BY DEF StringsOf
    <2>2. CASE pieces[p] = Piece("token", <<"[", "'", "semi", "]">>)
      BY <1>2, <2>2, ReadsBracket, Zenon
    <2>3. CASE pieces[p] # Piece("token", <<"[", "'", "semi", "]">>)
      <3>1. PICK quote \in {"'", "doublequote"} : pieces[p] \in StringsOf(quote)
        BY <1>7, <2>1, <2>3, Zenon DEF Strings
      <3> QED
        BY <1>2, <3>1, ReadsString, Zenon
    <2> QED
      BY <2>2, <2>3
  <1>8. CASE pieces[p] \in Spaces
    <2>1. pieces[p].kind = "space"
      BY <1>8 DEF Spaces, Piece
    <2> QED
      BY <1>8, <2>1, ReadsSpace, Zenon
  <1>9. CASE pieces[p] \in Unclosed /\ pieces[p] \notin Pieces
    <2>1. p = Len(pieces)
      BY <1>1, <1>9, Zenon
    <2>2. CASE pieces[p] = OpenString
      <3>1. "'" \in {"'", "doublequote"}
        OBVIOUS
      <3> QED
        BY <1>2, <1>3, <2>2, <3>1, ReadsString, Zenon
    <2>3. CASE pieces[p] # OpenString
      <3>1. pieces[p].kind = "space"
        <4>1. \A chars : Piece("space", chars).kind = "space"
          BY DEF Piece
        <4> QED
          BY <1>9, <2>3, <4>1, Zenon DEF Unclosed, OpenString
      <3> QED
        BY <1>9, <2>1, <3>1, ReadsSpace, Zenon
    <2> QED
      BY <2>2, <2>3
  <1> QED
    BY <1>1, <1>4, <1>5, <1>6, <1>7, <1>8, <1>9, Zenon DEF Pieces

---------------------------------------------------------------------------
(* The scan *)

States(text) == [at: 1 .. Len(text) + 1, ended: BOOLEAN, token: BOOLEAN]
State(i, ended, token) == [at |-> i, ended |-> ended, token |-> token]

\* Whether the scan of a text accepts it, from a state.
Scan(scan, text, s) ==
    IF s.at = End(text) THEN s.token
    ELSE IF IsBlank(text, s.at) THEN scan[[s EXCEPT !.at = @ + 1]]
    ELSE IF StartsLine(text, s.at) THEN scan[[s EXCEPT !.at = AfterLine(text, @)]]
    ELSE IF StartsBlock(text, s.at) THEN scan[[s EXCEPT !.at = AfterBlock(text, @)]]
    ELSE IF s.ended THEN FALSE
    ELSE IF text[s.at] = "semi" THEN scan[[at |-> s.at + 1, ended |-> TRUE, token |-> s.token]]
    ELSE scan[[at |-> AfterToken(text, s.at), ended |-> FALSE, token |-> TRUE]]

\* That is: something is read that is no semicolon, and nothing after a semicolon.
Tokens(text, R) == {i \in R : text[i] # "semi"}
EndsIt(text, R) == \A i, j \in R : text[i] = "semi" => j <= i
Accepted(text, R, ended, token) ==
    IF ended THEN R = {} /\ token ELSE (token \/ Tokens(text, R) # {}) /\ EndsIt(text, R)

LEMMA ReadsForward ==
  ASSUME NEW text \in Seq(Alphabet), NEW read, Reads(read, text)
  PROVE  \A i \in 1 .. Len(text) + 1 : read[i] \subseteq i .. Len(text)
  <1> DEFINE last == Len(text) + 1
             S == {i \in 1 .. last : read[i] \subseteq i .. Len(text)}
  <1>1. Len(text) \in Nat
    OBVIOUS
  <1>2. last \in S
    <2>1. read[last] = {} /\ last \in 1 .. last
      <3>1. last \in 1 .. last
        BY <1>1
      <3> QED
        BY <3>1, Zenon DEF Reads
    <2> QED
      BY <2>1
  <1>3. ASSUME NEW i \in 1 .. last - 1, i + 1 .. last \subseteq S
        PROVE  i \in S
    <2>1. i \in 1 .. Len(text) /\ i \in 1 .. last
      BY <1>1
    <2>2. PICK past \in i + 1 .. last : read[i] = read[past] \/ read[i] = {i} \cup read[past]
      <3>1. i + 1 \in i + 1 .. last
        BY <1>1
      <3>2. AfterLine(text, i) \in i + 1 .. last /\ AfterToken(text, i) \in i + 1 .. last
        BY <2>1, LaterLine, LaterToken
      <3>3. StartsBlock(text, i) => AfterBlock(text, i) \in i + 1 .. last
        BY <2>1, LaterBlock
      <3>4. read[i] = IF IsBlank(text, i) THEN read[i + 1]
                      ELSE IF StartsLine(text, i) THEN read[AfterLine(text, i)]
                      ELSE IF StartsBlock(text, i) THEN read[AfterBlock(text, i)]
                      ELSE {i} \cup read[AfterToken(text, i)]
        BY <2>1, ReadsFrom, Zenon
      <3> HIDE DEF last, S
      <3>5. CASE IsBlank(text, i)
        BY <3>1, <3>4, <3>5, Zenon
      <3>6. CASE ~IsBlank(text, i) /\ StartsLine(text, i)
        BY <3>2, <3>4, <3>6, Zenon
      <3>7. CASE ~IsBlank(text, i) /\ ~StartsLine(text, i) /\ StartsBlock(text, i)
        BY <3>3, <3>4, <3>7, Zenon
      <3>8. CASE ~IsBlank(text, i) /\ ~StartsLine(text, i) /\ ~StartsBlock(text, i)
        BY <3>2, <3>4, <3>8, Zenon
      <3> QED
        BY <3>5, <3>6, <3>7, <3>8, Zenon
    <2>3. read[past] \subseteq past .. Len(text)
      BY <1>3, <2>2
    <2>4. past .. Len(text) \subseteq i .. Len(text) /\ i \in i .. Len(text)
      BY <2>1, <2>2
    <2>5. read[i] \subseteq i .. Len(text)
      BY <2>2, <2>3, <2>4
    <2> QED
      BY <2>1, <2>5
  <1>4. 1 .. last \subseteq S
    <2> HIDE DEF S
    <2>1. last \in Nat
      BY <1>1
    <2> QED
      BY <1>2, <1>3, <2>1, Downwards, Zenon
  <1> QED
    BY <1>4

\* What one step of the scan does to that.
LEMMA AcceptsSemicolon ==
  ASSUME NEW text, Len(text) \in Nat, NEW i \in 1 .. Len(text), text[i] = "semi",
         NEW R \in SUBSET (i + 1 .. Len(text)), NEW token \in BOOLEAN
  PROVE  Accepted(text, {i} \cup R, FALSE, token) = Accepted(text, R, TRUE, token)
  <1>1. CASE R = {}
    <2>1. Tokens(text, {i} \cup R) = {}
      BY <1>1 DEF Tokens
    <2>2. EndsIt(text, {i} \cup R)
      BY <1>1 DEF EndsIt
    <2> QED
      BY <1>1, <2>1, <2>2 DEF Accepted
  <1>2. CASE R # {}
    <2>1. PICK j \in R : j > i
      <3>1. PICK j : j \in R
        BY <1>2, Zenon
      <3>2. j \in i + 1 .. Len(text)
        BY <3>1, Zenon
      <3> QED
        BY <3>1, <3>2
    <2>2. ~EndsIt(text, {i} \cup R)
      <3>1. i \in {i} \cup R /\ j \in {i} \cup R /\ ~(j <= i)
        BY <2>1
      <3> QED
        BY <3>1, Zenon DEF EndsIt
    <2> QED
      BY <1>2, <2>2 DEF Accepted
  <1> QED
    BY <1>1, <1>2

LEMMA AcceptsToken ==
  ASSUME NEW text, Len(text) \in Nat, NEW i \in 1 .. Len(text), text[i] # "semi",
         NEW R \in SUBSET (i + 1 .. Len(text)), NEW token \in BOOLEAN
  PROVE  Accepted(text, {i} \cup R, FALSE, token) = Accepted(text, R, FALSE, TRUE)
  <1>1. Tokens(text, {i} \cup R) # {}
    BY DEF Tokens
  <1>2. EndsIt(text, {i} \cup R) <=> EndsIt(text, R)
    BY DEF EndsIt
  <1> QED
    BY <1>1, <1>2 DEF Accepted

\* From i on, the scan agrees with what is read from i on.
Agrees(scan, text, read, i) ==
    \A ended, token \in BOOLEAN :
        scan[State(i, ended, token)] = Accepted(text, read[i], ended, token)
Steps(scan, text, read, i) ==
    \A ended, token \in BOOLEAN :
        Scan(scan, text, State(i, ended, token)) = Accepted(text, read[i], ended, token)

LEMMA ScanSteps ==
  ASSUME NEW text \in Seq(Alphabet), NEW read, Reads(read, text), NEW scan,
         NEW i \in 1 .. Len(text) + 1,
         \A j \in i + 1 .. Len(text) + 1 : Agrees(scan, text, read, j)
  PROVE  Steps(scan, text, read, i)
  <1> SUFFICES ASSUME NEW ended \in BOOLEAN, NEW token \in BOOLEAN
               PROVE  Scan(scan, text, State(i, ended, token)) = Accepted(text, read[i], ended, token)
    BY Zenon DEF Steps
  <1>1. PICK s : s = State(i, ended, token)
    OBVIOUS
  <1>2. s.at = i /\ s.ended = ended /\ s.token = token
    BY <1>1 DEF State
  <1>3. \A j : [s EXCEPT !.at = j] = State(j, ended, token)
    BY <1>1 DEF State
  <1>4. \A j, e, t : [at |-> j, ended |-> e, token |-> t] = State(j, e, t)
    BY DEF State
  <1>6. Scan(scan, text, s) =
           IF i = Len(text) + 1 THEN token
           ELSE IF IsBlank(text, i) THEN scan[State(i + 1, ended, token)]
           ELSE IF StartsLine(text, i) THEN scan[State(AfterLine(text, i), ended, token)]
           ELSE IF StartsBlock(text, i) THEN scan[State(AfterBlock(text, i), ended, token)]
           ELSE IF ended THEN FALSE
           ELSE IF text[i] = "semi" THEN scan[State(i + 1, TRUE, token)]
           ELSE scan[State(AfterToken(text, i), FALSE, TRUE)]
    BY <1>2, <1>3, <1>4, Zenon DEF Scan, End
  <1>7. CASE i = Len(text) + 1
    <2>1. read[i] = {}
      BY <1>7 DEF Reads
    <2>2. Accepted(text, {}, ended, token) = token
      BY DEF Accepted, Tokens, EndsIt
    <2> QED
      BY <1>1, <1>6, <1>7, <2>1, <2>2
  <1>8. CASE i # Len(text) + 1
    <2>1. i \in 1 .. Len(text) /\ Len(text) \in Nat /\ i + 1 \in i + 1 .. Len(text) + 1
      BY <1>8
    <2>2. /\ AfterLine(text, i) \in i + 1 .. Len(text) + 1
          /\ AfterToken(text, i) \in i + 1 .. Len(text) + 1
          /\ StartsBlock(text, i) => AfterBlock(text, i) \in i + 1 .. Len(text) + 1
      BY <2>1, LaterLine, LaterToken, LaterBlock
    <2>3. ASSUME NEW past \in i + 1 .. Len(text) + 1, read[i] = read[past],
                 Scan(scan, text, s) = scan[State(past, ended, token)]
          PROVE  Scan(scan, text, State(i, ended, token)) = Accepted(text, read[i], ended, token)
      BY <1>1, <2>3, Zenon DEF Agrees
    <2>4. CASE IsBlank(text, i)
      BY <1>6, <1>8, <2>1, <2>3, <2>4, ReadsFrom
    <2>5. CASE ~IsBlank(text, i) /\ StartsLine(text, i)
      BY <1>6, <1>8, <2>1, <2>2, <2>3, <2>5, ReadsFrom
    <2>6. CASE ~IsBlank(text, i) /\ ~StartsLine(text, i) /\ StartsBlock(text, i)
      BY <1>6, <1>8, <2>1, <2>2, <2>3, <2>6, ReadsFrom
    <2>7. CASE ~IsBlank(text, i) /\ ~StartsLine(text, i) /\ ~StartsBlock(text, i)
      <3>1. read[i] = {i} \cup read[AfterToken(text, i)]
        BY <2>1, <2>7, ReadsToken
      <3>2. \A past \in i + 1 .. Len(text) + 1 : read[past] \in SUBSET (i + 1 .. Len(text))
        <4> TAKE past \in i + 1 .. Len(text) + 1
        <4>1. past \in 1 .. Len(text) + 1
          BY <2>1
        <4>2. read[past] \subseteq past .. Len(text)
          BY <4>1, ReadsForward
        <4>3. past .. Len(text) \subseteq i + 1 .. Len(text)
          BY <2>1
        <4> QED
          BY <4>2, <4>3
      <3>3. CASE ended
        <4>1. Scan(scan, text, s) = FALSE
          BY <1>6, <1>8, <2>7, <3>3
        <4>2. Accepted(text, read[i], ended, token) = FALSE
          BY <3>1, <3>3 DEF Accepted
        <4> QED
          BY <1>1, <4>1, <4>2, Zenon
      <3>4. CASE ~ended /\ text[i] = "semi"
        <4>1. AfterToken(text, i) = i + 1
          BY <3>4 DEF AfterToken, Quotes
        <4>2. Scan(scan, text, s) = scan[State(i + 1, TRUE, token)]
          BY <1>6, <1>8, <2>7, <3>4
        <4>3. scan[State(i + 1, TRUE, token)] = Accepted(text, read[i + 1], TRUE, token)
          BY <2>1, Zenon DEF Agrees
        <4>4. Accepted(text, read[i], FALSE, token) = Accepted(text, read[i + 1], TRUE, token)
          <5>1. PICK R : R = read[i + 1] /\ R \in SUBSET (i + 1 .. Len(text))
            BY <2>1, <3>2, Zenon
          <5>2. Accepted(text, {i} \cup R, FALSE, token) = Accepted(text, R, TRUE, token)
            BY <2>1, <3>4, <5>1, AcceptsSemicolon
          <5> QED
            BY <3>1, <4>1, <5>1, <5>2, Zenon
        <4>5. ended = FALSE
          BY <3>4
        <4> QED
          BY <1>1, <4>2, <4>3, <4>4, <4>5, Zenon
      <3>5. CASE ~ended /\ text[i] # "semi"
        <4>1. PICK past \in i + 1 .. Len(text) + 1 : past = AfterToken(text, i)
          BY <2>2, Zenon
        <4>2. Scan(scan, text, s) = scan[State(past, FALSE, TRUE)]
          BY <1>6, <1>8, <2>7, <3>5, <4>1
        <4>3. scan[State(past, FALSE, TRUE)] = Accepted(text, read[past], FALSE, TRUE)
          BY <4>1, Zenon DEF Agrees
        <4>4. Accepted(text, read[i], FALSE, token) = Accepted(text, read[past], FALSE, TRUE)
          <5>1. PICK R : R = read[past] /\ R \in SUBSET (i + 1 .. Len(text))
            BY <3>2, Zenon
          <5>2. Accepted(text, {i} \cup R, FALSE, token) = Accepted(text, R, FALSE, TRUE)
            BY <2>1, <3>5, <5>1, AcceptsToken
          <5> QED
            BY <3>1, <4>1, <5>1, <5>2, Zenon
        <4>5. ended = FALSE
          BY <3>5
        <4> QED
          BY <1>1, <4>2, <4>3, <4>4, <4>5, Zenon
      <3> QED
        BY <3>3, <3>4, <3>5
    <2> QED
      BY <2>4, <2>5, <2>6, <2>7
  <1> QED
    BY <1>7, <1>8

Scans(scan, text) == scan = [s \in States(text) |-> Scan(scan, text, s)]

LEMMA StatesAre ==
  ASSUME NEW text
  PROVE  /\ \A i \in 1 .. Len(text) + 1 : \A ended, token \in BOOLEAN : State(i, ended, token) \in States(text)
         /\ \A s \in States(text) : \E i \in 1 .. Len(text) + 1 : \E ended, token \in BOOLEAN : s = State(i, ended, token)
  <1>1. ASSUME NEW i \in 1 .. Len(text) + 1, NEW ended \in BOOLEAN, NEW token \in BOOLEAN
        PROVE  State(i, ended, token) \in States(text)
    BY DEF State, States
  <1>2. ASSUME NEW s \in States(text)
        PROVE  \E i \in 1 .. Len(text) + 1 : \E ended, token \in BOOLEAN : s = State(i, ended, token)
    <2>1. s.at \in 1 .. Len(text) + 1 /\ s.ended \in BOOLEAN /\ s.token \in BOOLEAN
      BY DEF States
    <2>2. s = State(s.at, s.ended, s.token)
      BY DEF State, States
    <2> QED
      BY <2>1, <2>2, Zenon
  <1> QED
    BY <1>1, <1>2, Zenon

LEMMA ScansExist ==
  ASSUME NEW text \in Seq(Alphabet), NEW read, Reads(read, text)
  PROVE  \E scan : Scans(scan, text)
  <1>1. PICK scan : scan = [s \in States(text) |-> Accepted(text, read[s.at], s.ended, s.token)]
    OBVIOUS
  <1>2. \A i \in 1 .. Len(text) + 1 : Agrees(scan, text, read, i)
    <2> TAKE i \in 1 .. Len(text) + 1
    <2>1. ASSUME NEW ended \in BOOLEAN, NEW token \in BOOLEAN
          PROVE  scan[State(i, ended, token)] = Accepted(text, read[i], ended, token)
      <3>1. PICK s \in States(text) : s = State(i, ended, token)
        BY StatesAre, Zenon
      <3>2. s.at = i /\ s.ended = ended /\ s.token = token
        BY <3>1 DEF State
      <3>3. scan[s] = Accepted(text, read[s.at], s.ended, s.token)
        BY <1>1, Zenon
      <3> QED
        BY <3>1, <3>2, <3>3, Zenon
    <2> QED
      BY <2>1, Zenon DEF Agrees
  <1>3. ASSUME NEW s \in States(text)
        PROVE  Scan(scan, text, s) = Accepted(text, read[s.at], s.ended, s.token)
    <2>1. PICK i \in 1 .. Len(text) + 1, ended \in BOOLEAN, token \in BOOLEAN : s = State(i, ended, token)
      BY StatesAre, Zenon
    <2>2. s.at = i /\ s.ended = ended /\ s.token = token
      BY <2>1 DEF State
    <2>3. \A j \in i + 1 .. Len(text) + 1 : Agrees(scan, text, read, j)
      <3>1. \A j \in i + 1 .. Len(text) + 1 : j \in 1 .. Len(text) + 1
        OBVIOUS
      <3> QED
        BY <1>2, <3>1, Zenon
    <2>4. Steps(scan, text, read, i)
      BY <2>3, ScanSteps
    <2> QED
      BY <2>1, <2>2, <2>4, Zenon DEF Steps
  <1>4. Scans(scan, text)
    <2>1. [s \in States(text) |-> Accepted(text, read[s.at], s.ended, s.token)]
          = [s \in States(text) |-> Scan(scan, text, s)]
      BY <1>3, Zenon
    <2> QED
      BY <1>1, <2>1, Zenon DEF Scans
  <1> QED
    BY <1>4, Zenon

LEMMA ScansAgree ==
  ASSUME NEW text \in Seq(Alphabet), NEW read, Reads(read, text), NEW scan, Scans(scan, text)
  PROVE  Agrees(scan, text, read, 1)
  <1> DEFINE last == Len(text) + 1
             S == {i \in 1 .. last : Agrees(scan, text, read, i)}
  <1>1. ASSUME NEW i \in 1 .. last, i + 1 .. last \subseteq S
        PROVE  i \in S
    <2>1. Steps(scan, text, read, i)
      <3>1. \A j \in i + 1 .. Len(text) + 1 : Agrees(scan, text, read, j)
        BY <1>1, Zenon
      <3> QED
        BY <3>1, ScanSteps
    <2>2. ASSUME NEW ended \in BOOLEAN, NEW token \in BOOLEAN
          PROVE  scan[State(i, ended, token)] = Accepted(text, read[i], ended, token)
      <3>1. State(i, ended, token) \in States(text)
        BY StatesAre, Zenon
      <3>2. scan[State(i, ended, token)] = Scan(scan, text, State(i, ended, token))
        BY <3>1, Zenon DEF Scans
      <3> QED
        BY <2>1, <3>2, Zenon DEF Steps
    <2>3. Agrees(scan, text, read, i)
      BY <2>2, Zenon DEF Agrees
    <2> QED
      BY <2>3
  <1>2. last \in Nat /\ 1 \in 1 .. last /\ last \in 1 .. last /\ last + 1 .. last \subseteq S
    OBVIOUS
  <1>3. last \in S /\ \A i \in 1 .. last - 1 : i \in 1 .. last
    BY <1>1, <1>2
  <1>4. 1 .. last \subseteq S
    <2> HIDE DEF S, last
    <2> QED
      BY <1>1, <1>2, <1>3, Downwards
  <1>5. \A i \in S : Agrees(scan, text, read, i)
    OBVIOUS
  <1> HIDE DEF S, last
  <1> QED
    BY <1>2, <1>4, <1>5, Zenon

LEMMA ScanAccepts ==
  ASSUME NEW text \in Seq(Alphabet), NEW read, Reads(read, text)
  PROVE  SingleBrowserStatement(text) = Accepted(text, read[1], FALSE, FALSE)
  <1>1. PICK scan : scan = CHOOSE f : Scans(f, text)
    OBVIOUS
  <1>2. Scans(scan, text)
    BY <1>1, ScansExist, Zenon
  <1>3. SingleBrowserStatement(text) = scan[State(1, FALSE, FALSE)]
    BY <1>1, Zenon DEF SingleBrowserStatement, Scans, Scan, State, States, End
  <1>4. Agrees(scan, text, read, 1)
    BY <1>2, ScansAgree, Zenon
  <1>5. FALSE \in BOOLEAN
    OBVIOUS
  <1> QED
    BY <1>3, <1>4, <1>5, Zenon DEF Agrees

---------------------------------------------------------------------------
(* What the scan reads of a text *)

LEMMA Kinds ==
  ASSUME NEW piece \in Pieces \cup Unclosed
  PROVE  /\ piece.kind \in {"word", "semicolon", "token", "space"}
         /\ piece.kind = "semicolon" => Len(piece.chars) = 1
  <1>1. piece.kind \in {"word", "semicolon", "token", "space"}
    BY PiecesBegin, Zenon DEF BeginsWell
  <1>2. \A kind, chars : Piece(kind, chars).kind = kind /\ Piece(kind, chars).chars = chars
    BY DEF Piece
  <1>3. ASSUME piece.kind = "semicolon" PROVE Len(piece.chars) = 1
    <2>1. "semicolon" # "word" /\ "semicolon" # "token" /\ "semicolon" # "space"
      OBVIOUS
    <2>2. piece = Piece("semicolon", <<"semi">>)
      BY <1>2, <1>3, <2>1, Zenon DEF Pieces, Unclosed, Word, Semicolon, Operators, Strings, Spaces
    <2>3. piece.chars = <<"semi">>
      BY <1>2, <2>2, Zenon
    <2> QED
      BY <2>3
  <1> QED
    BY <1>1, <1>3

Visible == {"word", "token"}

\* Where the pieces are, what they are, and what the scan reads of them.
Layout(pieces, text, at, read) ==
    /\ Len(pieces) \in Nat /\ Len(text) \in Nat
    /\ at \in [1 .. Len(pieces) + 1 -> 1 .. Len(text) + 1]
    /\ read[at[Len(pieces) + 1]] = {}
    /\ \A p \in 1 .. Len(pieces) :
          /\ pieces[p].kind \in {"word", "semicolon", "token", "space"}
          /\ at[p] < at[p + 1]
          /\ pieces[p].kind = "semicolon" => at[p + 1] = at[p] + 1
          /\ ReadAt(pieces, text, at, read, p)

LEMMA LayoutOf ==
  ASSUME NEW pieces, Composed(pieces), NEW text, NEW at, Cut(pieces, text, at), NEW read, Reads(read, text)
  PROVE  Layout(pieces, text, at, read)
  <1>1. Len(pieces) \in Nat
    BY DEF Composed
  <1>2. /\ text \in Seq(Alphabet) /\ at \in [1 .. Len(pieces) + 1 -> 1 .. Len(text) + 1]
        /\ at[Len(pieces) + 1] = Len(text) + 1
    BY Zenon DEF Cut
  <1>3. Len(text) \in Nat
    BY <1>2
  <1>4. read[at[Len(pieces) + 1]] = {}
    <2>1. Len(text) + 1 \in 1 .. Len(text) + 1
      BY <1>3
    <2>2. read[Len(text) + 1] = {}
      BY <2>1, Zenon DEF Reads
    <2> QED
      BY <1>2, <2>2, Zenon
  <1>5. ASSUME NEW p \in 1 .. Len(pieces)
        PROVE  /\ pieces[p].kind \in {"word", "semicolon", "token", "space"}
               /\ at[p] < at[p + 1]
               /\ pieces[p].kind = "semicolon" => at[p + 1] = at[p] + 1
               /\ ReadAt(pieces, text, at, read, p)
    <2>1. pieces[p] \in Pieces \cup Unclosed
      BY DEF Composed
    <2>2. BeginsWell(pieces[p])
      BY <2>1, PiecesBegin, Zenon
    <2>3. /\ pieces[p].kind \in {"word", "semicolon", "token", "space"}
          /\ pieces[p].kind = "semicolon" => Len(pieces[p].chars) = 1
      BY <2>1, Kinds
    <2>4. PICK i \in Nat, j \in Nat, n \in Nat :
             i = at[p] /\ j = at[p + 1] /\ n = Len(pieces[p].chars) /\ n >= 1 /\ j = i + n
      <3>1. Len(pieces[p].chars) \in Nat /\ Len(pieces[p].chars) >= 1
        BY <2>2, Zenon DEF BeginsWell
      <3>2. PICK n, chars : n \in Nat /\ n = Len(pieces[p].chars) /\ chars = pieces[p].chars /\ n >= 1
        BY <3>1, Zenon
      <3>3. PICK i : PlacedAt(pieces, text, at, p, i, n, chars)
        BY <1>1, <3>2, PlaceOf, Zenon
      <3>4. i \in Nat
        BY <3>3, Zenon DEF PlacedAt
      <3>5. i = at[p] /\ at[p + 1] = i + n
        BY <3>3, Zenon DEF PlacedAt
      <3>6. i + n \in Nat
        BY <3>2, <3>4
      <3> QED
        BY <3>2, <3>4, <3>5, <3>6, Zenon
    <2>5. i < j /\ (n = 1 => j = i + 1)
      <3>1. n >= 1 /\ j = i + n
        BY <2>4, Zenon
      <3> QED
        BY <3>1
    <2>6. ReadAt(pieces, text, at, read, p)
      BY <1>1, ReadsPieces, Zenon
    <2> QED
      BY <2>3, <2>4, <2>5, <2>6, Zenon
  <1> QED
    BY <1>1, <1>2, <1>3, <1>4, <1>5, Zenon DEF Layout

LEMMA InOrder ==
  ASSUME NEW pieces, NEW text, NEW at, NEW read, Layout(pieces, text, at, read)
  PROVE  \A p, q \in 1 .. Len(pieces) + 1 : p < q => at[p] < at[q]
  <1> DEFINE last == Len(pieces) + 1
  <1>1. Len(pieces) \in Nat /\ last \in Nat
    BY DEF Layout
  <1>2. \A p \in 1 .. last : at[p] \in Nat
    BY DEF Layout
  <1>3. \A p \in 1 .. last - 1 : at[p] < at[p + 1]
    BY <1>1 DEF Layout
  <1> HIDE DEF last
  <1>4. ASSUME NEW p \in 1 .. last
        PROVE  \A q \in 1 .. last : p < q => at[p] < at[q]
    <2> DEFINE S == {q \in 1 .. last : p < q => at[p] < at[q]}
    <2>1. ASSUME NEW q \in 1 .. last, 1 .. q - 1 \subseteq S
          PROVE  q \in S
      <3>1. CASE ~(p < q)
        BY <3>1
      <3>2. CASE p < q
        <4>1. q - 1 \in S /\ q - 1 \in 1 .. last - 1 /\ q - 1 \in 1 .. last /\ (q - 1) + 1 = q
          BY <1>1, <2>1, <3>2
        <4>2. at[q - 1] < at[q]
          BY <1>3, <4>1, Zenon
        <4>3. p = q - 1 \/ at[p] < at[q - 1]
          BY <1>1, <3>2, <4>1
        <4>4. at[p] < at[q]
          <5>1. PICK a \in Nat, b \in Nat, c \in Nat : a = at[p] /\ b = at[q - 1] /\ c = at[q]
            BY <1>2, <4>1, Zenon
          <5>2. b < c /\ (a = b \/ a < b)
            BY <4>2, <4>3, <5>1, Zenon
          <5>3. a < c
            BY <5>2
          <5> QED
            BY <5>1, <5>3, Zenon
        <4> QED
          BY <4>4
      <3> QED
        BY <3>1, <3>2
    <2> HIDE DEF S
    <2>2. 1 .. last \subseteq S
      BY <1>1, <2>1, Upwards, Zenon
    <2> QED
      BY <2>2 DEF S
  <1> QED
    BY <1>4, Zenon DEF last

\* What is read from the piece p on are parts of what is seen from there, and all
\* semicolons of it. Of visible pieces that follow each other the first is read.
Knows(pieces, text, at, read, p) ==
    /\ \A m \in read[at[p]] : \E q \in p .. Len(pieces) :
          /\ m \in at[q] .. at[q + 1] - 1 /\ pieces[q].kind # "space"
          /\ text[m] = "semi" <=> pieces[q].kind = "semicolon"
    /\ \A q \in p .. Len(pieces) : pieces[q].kind = "semicolon" =>
          at[q] \in read[at[p]] /\ text[at[q]] = "semi"
    /\ \A q \in p .. Len(pieces) : pieces[q].kind \in Visible =>
          \E first \in p .. q :
             /\ at[first] \in read[at[p]] /\ text[at[first]] # "semi"
             /\ \A x \in first .. q : pieces[x].kind \in Visible

LEMMA KnowsStep ==
  ASSUME NEW pieces, Len(pieces) \in Nat, NEW text, NEW at, NEW read, NEW p \in 1 .. Len(pieces),
         ReadAt(pieces, text, at, read, p),
         \A q \in p + 1 .. Len(pieces) + 1 : Knows(pieces, text, at, read, q)
  PROVE  Knows(pieces, text, at, read, p)
  <1>1. PICK next \in p + 1 .. Len(pieces) + 1, M \in SUBSET (at[p] .. at[p + 1] - 1) :
           /\ read[at[p]] = M \cup read[at[next]]
           /\ next # p + 1 => \A x \in p .. next - 1 : pieces[x].kind = "token"
           /\ pieces[p].kind = "space" => M = {}
           /\ pieces[p].kind # "space" => at[p] \in M
           /\ \A m \in M : text[m] = "semi" <=> pieces[p].kind = "semicolon"
    BY Zenon DEF ReadAt
  <1>2. Knows(pieces, text, at, read, next)
    BY <1>1, Zenon
  <1>3. /\ p \in p .. Len(pieces)
        /\ \A q \in next .. Len(pieces) : q \in p .. Len(pieces)
        /\ \A q \in p .. Len(pieces) : q \in next .. Len(pieces) \/ q \in p .. next - 1
        /\ \A q \in p .. next - 1 : p \in p .. q /\ \A x \in p .. q : x \in p .. next - 1
        /\ \A q \in next .. Len(pieces) : \A first \in next .. q : first \in p .. q
    BY <1>1
  <1>4. \A q \in p .. next - 1 : q = p \/ pieces[q].kind = "token"
    <2>1. next = p + 1 => \A q \in p .. next - 1 : q = p
      OBVIOUS
    <2> QED
      BY <1>1, <2>1, Zenon
  <1>5. "token" # "semicolon" /\ "token" # "space" /\ "semicolon" # "space" /\ "token" \in Visible
        /\ "space" \notin Visible /\ "semicolon" \notin Visible
    BY DEF Visible
  <1>6. ASSUME NEW m \in read[at[p]]
        PROVE  \E q \in p .. Len(pieces) :
                  /\ m \in at[q] .. at[q + 1] - 1 /\ pieces[q].kind # "space"
                  /\ text[m] = "semi" <=> pieces[q].kind = "semicolon"
    <2>1. CASE m \in M
      <3>1. m \in at[p] .. at[p + 1] - 1 /\ pieces[p].kind # "space"
        BY <1>1, <2>1, Zenon
      <3>2. text[m] = "semi" <=> pieces[p].kind = "semicolon"
        BY <1>1, <2>1, Zenon
      <3> QED
        BY <1>3, <3>1, <3>2, Zenon
    <2>2. CASE m \in read[at[next]]
      BY <1>2, <1>3, <2>2, Zenon DEF Knows
    <2> QED
      BY <1>1, <2>1, <2>2, Zenon
  <1>7. ASSUME NEW q \in p .. Len(pieces), pieces[q].kind = "semicolon"
        PROVE  at[q] \in read[at[p]] /\ text[at[q]] = "semi"
    <2>1. CASE q \in next .. Len(pieces)
      BY <1>1, <1>2, <1>7, <2>1, Zenon DEF Knows
    <2>2. CASE q = p
      <3>1. at[p] \in M
        BY <1>1, <1>5, <1>7, <2>2, Zenon
      <3>2. text[at[p]] = "semi"
        BY <1>1, <1>7, <2>2, <3>1, Zenon
      <3> QED
        BY <1>1, <2>2, <3>1, <3>2, Zenon
    <2> QED
      BY <1>3, <1>4, <1>5, <1>7, <2>1, <2>2, Zenon
  <1>8. ASSUME NEW q \in p .. Len(pieces), pieces[q].kind \in Visible
        PROVE  \E first \in p .. q :
                  /\ at[first] \in read[at[p]] /\ text[at[first]] # "semi"
                  /\ \A x \in first .. q : pieces[x].kind \in Visible
    <2>1. CASE q \in next .. Len(pieces)
      <3>1. PICK first \in next .. q :
               /\ at[first] \in read[at[next]] /\ text[at[first]] # "semi"
               /\ \A x \in first .. q : pieces[x].kind \in Visible
        BY <1>2, <1>8, <2>1, Zenon DEF Knows
      <3> QED
        BY <1>1, <1>3, <2>1, <3>1, Zenon
    <2>2. CASE q \in p .. next - 1
      <3>1. pieces[p].kind \in Visible
        <4>1. q = p \/ pieces[p].kind = "token"
          <5>1. next # p + 1 => pieces[p].kind = "token"
            <6>1. p \in p .. next - 1
              BY <1>1
            <6> QED
              BY <1>1, <6>1, Zenon
          <5>2. next = p + 1 => q = p
            BY <2>2
          <5> QED
            BY <5>1, <5>2, Zenon
        <4> QED
          BY <1>5, <1>8, <4>1, Zenon
      <3>2. at[p] \in M
        BY <1>1, <1>5, <3>1, Zenon
      <3>3. text[at[p]] # "semi"
        BY <1>1, <1>5, <3>1, <3>2, Zenon
      <3>4. \A x \in p .. q : pieces[x].kind \in Visible
        BY <1>3, <1>4, <1>5, <2>2, <3>1, Zenon
      <3>5. at[p] \in read[at[p]]
        BY <1>1, <3>2, Zenon
      <3> QED
        BY <1>3, <2>2, <3>3, <3>4, <3>5, Zenon
    <2> QED
      BY <1>3, <2>1, <2>2, Zenon
  <1> QED
    BY <1>6, <1>7, <1>8, Zenon DEF Knows

LEMMA KnowsAll ==
  ASSUME NEW pieces, NEW text, NEW at, NEW read, Layout(pieces, text, at, read)
  PROVE  Knows(pieces, text, at, read, 1)
  <1> DEFINE last == Len(pieces) + 1
             S == {p \in 1 .. last : Knows(pieces, text, at, read, p)}
  <1>1. /\ Len(pieces) \in Nat /\ read[at[Len(pieces) + 1]] = {}
        /\ \A p \in 1 .. Len(pieces) : ReadAt(pieces, text, at, read, p)
    BY Zenon DEF Layout
  <1>2. last \in Nat /\ last \in 1 .. last /\ 1 \in 1 .. last /\ last .. Len(pieces) = {}
    BY <1>1
  <1>3. Knows(pieces, text, at, read, last)
    BY <1>1, <1>2, Zenon DEF Knows
  <1>4. ASSUME NEW p \in 1 .. last - 1, p + 1 .. last \subseteq S
        PROVE  p \in S
    <2>1. p \in 1 .. Len(pieces) /\ p \in 1 .. last
      BY <1>1
    <2>2. \A q \in p + 1 .. Len(pieces) + 1 : Knows(pieces, text, at, read, q)
      BY <1>4, Zenon
    <2>3. Knows(pieces, text, at, read, p)
      BY <1>1, <2>1, <2>2, KnowsStep
    <2> QED
      BY <2>1, <2>3, Zenon
  <1>5. 1 .. last \subseteq S
    <2>1. last \in S
      BY <1>2, <1>3, Zenon
    <2> HIDE DEF S, last
    <2> QED
      BY <1>2, <1>4, <2>1, Downwards, Zenon
  <1> HIDE DEF last
  <1>6. 1 \in S
    BY <1>2, <1>5, Zenon
  <1> QED
    BY <1>6

\* Of the pieces: something is visible, and nothing but spaces after a semicolon.
OneStatement(pieces) ==
    /\ \E q \in 1 .. Len(pieces) : pieces[q].kind \in Visible
    /\ \A c, q \in 1 .. Len(pieces) :
          pieces[c].kind = "semicolon" /\ pieces[q].kind # "space" => q <= c

LEMMA Separated ==
  ASSUME NEW pieces, NEW text, NEW at, NEW read, Layout(pieces, text, at, read),
         NEW p \in 1 .. Len(pieces), NEW q \in 1 .. Len(pieces),
         NEW i \in at[p] .. at[p + 1] - 1, NEW j \in at[q] .. at[q + 1] - 1
  PROVE  /\ p < q => i < j
         /\ p = q /\ pieces[p].kind = "semicolon" => i = j
  <1>1. Len(pieces) \in Nat
    BY DEF Layout
  <1>2. p + 1 \in 1 .. Len(pieces) + 1 /\ q \in 1 .. Len(pieces) + 1 /\ p \in 1 .. Len(pieces) + 1
        /\ q + 1 \in 1 .. Len(pieces) + 1
    BY <1>1
  <1>3. PICK a \in Nat, b \in Nat, c \in Nat, d \in Nat :
           a = at[p] /\ b = at[p + 1] /\ c = at[q] /\ d = at[q + 1]
    <2>1. \A x \in 1 .. Len(pieces) + 1 : at[x] \in Nat
      BY DEF Layout
    <2> QED
      BY <1>2, <2>1, Zenon
  <1>4. i \in a .. b - 1 /\ j \in c .. d - 1
    BY <1>3, Zenon
  <1>5. ASSUME p < q PROVE i < j
    <2>1. p + 1 = q \/ p + 1 < q
      BY <1>5
    <2>2. b = c \/ b < c
      BY <1>2, <1>3, <2>1, InOrder, Zenon
    <2> QED
      BY <1>4, <2>2
  <1>6. ASSUME p = q, pieces[p].kind = "semicolon" PROVE i = j
    <2>1. b = a + 1
      BY <1>3, <1>6, Zenon DEF Layout
    <2>2. a = c /\ b = d
      BY <1>3, <1>6, Zenon
    <2> QED
      BY <1>4, <2>1, <2>2
  <1> QED
    BY <1>5, <1>6

LEMMA AcceptsOne ==
  ASSUME NEW pieces, NEW text, NEW at, NEW read, Layout(pieces, text, at, read), at[1] = 1
  PROVE  Accepted(text, read[1], FALSE, FALSE) <=> OneStatement(pieces)
  <1>0. PICK R : R = read[1]
    OBVIOUS
  <1>1. Len(pieces) \in Nat /\ \A p \in 1 .. Len(pieces) : pieces[p].kind \in {"word", "semicolon", "token", "space"}
    BY Zenon DEF Layout
  <1>2. /\ \A m \in R : \E q \in 1 .. Len(pieces) :
              /\ m \in at[q] .. at[q + 1] - 1 /\ pieces[q].kind # "space"
              /\ text[m] = "semi" <=> pieces[q].kind = "semicolon"
        /\ \A q \in 1 .. Len(pieces) : pieces[q].kind = "semicolon" =>
              at[q] \in R /\ text[at[q]] = "semi"
        /\ \A q \in 1 .. Len(pieces) : pieces[q].kind \in Visible =>
              \E first \in 1 .. q :
                 /\ at[first] \in R /\ text[at[first]] # "semi"
                 /\ \A x \in first .. q : pieces[x].kind \in Visible
    <2>1. Knows(pieces, text, at, read, 1)
      BY KnowsAll, Zenon
    <2> QED
      BY <1>0, <2>1, Zenon DEF Knows
  <1>3. \A q \in 1 .. Len(pieces) : /\ pieces[q].kind \in Visible <=>
                                         pieces[q].kind # "space" /\ pieces[q].kind # "semicolon"
                                    /\ pieces[q].kind = "semicolon" => pieces[q].kind # "space"
    BY <1>1 DEF Visible
  <1>8. \A x \in 1 .. Len(pieces) + 1 : at[x] \in Nat
    BY DEF Layout
  <1>4. \A p \in 1 .. Len(pieces) : at[p] \in at[p] .. at[p + 1] - 1
    <2> TAKE p \in 1 .. Len(pieces)
    <2>1. at[p] < at[p + 1]
      BY Zenon DEF Layout
    <2>2. at[p] \in Nat /\ at[p + 1] \in Nat
      <3>1. p \in 1 .. Len(pieces) + 1 /\ p + 1 \in 1 .. Len(pieces) + 1
        BY <1>1
      <3> QED
        BY <1>8, <3>1, Zenon
    <2>3. PICK a \in Nat, b \in Nat : a = at[p] /\ b = at[p + 1] /\ a < b
      BY <2>1, <2>2, Zenon
    <2>4. a \in a .. b - 1
      BY <2>3
    <2> QED
      BY <2>3, <2>4, Zenon
  <1>5. Accepted(text, R, FALSE, FALSE) <=> Tokens(text, R) # {} /\ EndsIt(text, R)
    BY DEF Accepted
  <1>6. ASSUME OneStatement(pieces) PROVE Tokens(text, R) # {} /\ EndsIt(text, R)
    <2>1. PICK q \in 1 .. Len(pieces) : pieces[q].kind \in Visible
      BY <1>6, Zenon DEF OneStatement
    <2>2. PICK m \in R : text[m] # "semi"
      BY <1>2, <2>1, Zenon
    <2>3. Tokens(text, R) # {}
      BY <2>2 DEF Tokens
    <2>4. ASSUME NEW i \in R, NEW j \in R, text[i] = "semi" PROVE j <= i
      <3>1. PICK c \in 1 .. Len(pieces) : i \in at[c] .. at[c + 1] - 1 /\ pieces[c].kind = "semicolon"
        BY <1>2, <2>4, Zenon
      <3>2. PICK x \in 1 .. Len(pieces) : j \in at[x] .. at[x + 1] - 1 /\ pieces[x].kind # "space"
        BY <1>2, Zenon
      <3>3. x <= c
        BY <1>6, <3>1, <3>2, Zenon DEF OneStatement
      <3>4. x < c \/ x = c
        BY <3>3
      <3>5. j < i \/ j = i
        <4>1. CASE x < c
          BY <3>1, <3>2, <4>1, Separated
        <4>2. CASE x = c
          BY <3>1, <3>2, <4>2, Separated
        <4> QED
          BY <3>4, <4>1, <4>2
      <3>6. i \in Int /\ j \in Int
        BY <3>1, <3>2
      <3> QED
        BY <3>5, <3>6
    <2> QED
      BY <2>3, <2>4, Zenon DEF EndsIt
  <1>7. ASSUME Tokens(text, R) # {}, EndsIt(text, R) PROVE OneStatement(pieces)
    <2>1. PICK m \in R : text[m] # "semi"
      BY <1>7 DEF Tokens
    <2>2. \E q \in 1 .. Len(pieces) : pieces[q].kind \in Visible
      BY <1>2, <1>3, <2>1, Zenon
    <2>3. ASSUME NEW c \in 1 .. Len(pieces), NEW q \in 1 .. Len(pieces),
                 pieces[c].kind = "semicolon", pieces[q].kind # "space"
          PROVE  q <= c
      <3> SUFFICES ASSUME c < q PROVE FALSE
        OBVIOUS
      <3>1. PICK first \in 1 .. Len(pieces) : c < first /\ at[first] \in R
        <4>1. CASE pieces[q].kind \in Visible
          <5>1. PICK first \in 1 .. q : at[first] \in R /\ \A x \in first .. q : pieces[x].kind \in Visible
            BY <1>2, <4>1, Zenon
          <5>2. c \notin first .. q
            BY <1>3, <2>3, <5>1, Zenon
          <5>3. first \in 1 .. Len(pieces) /\ c < first
            BY <1>1, <5>2
          <5> QED
            BY <5>1, <5>3, Zenon
        <4>2. CASE pieces[q].kind = "semicolon"
          BY <1>2, <4>2, Zenon
        <4> QED
          BY <1>3, <2>3, <4>1, <4>2, Zenon
      <3>2. at[c] \in R /\ text[at[c]] = "semi"
        BY <1>2, <2>3, Zenon
      <3>3. at[first] <= at[c]
        BY <1>7, <3>1, <3>2, Zenon DEF EndsIt
      <3>4. at[c] < at[first]
        BY <1>4, <3>1, Separated
      <3>5. at[c] \in Nat /\ at[first] \in Nat
        <4>1. c \in 1 .. Len(pieces) + 1 /\ first \in 1 .. Len(pieces) + 1
          BY <1>1
        <4> QED
          BY <1>8, <4>1, Zenon
      <3> QED
        BY <3>3, <3>4, <3>5
    <2> QED
      BY <2>2, <2>3, Zenon DEF OneStatement
  <1> QED
    BY <1>0, <1>5, <1>6, <1>7, Zenon

LEMMA SingleIs ==
  ASSUME NEW pieces, Composed(pieces)
  PROVE  SingleBrowserStatement(Characters(pieces)) <=> OneStatement(pieces)
  <1>1. pieces \in Seq(Pieces \cup Unclosed)
    BY DEF Composed
  <1>2. \A p \in 1 .. Len(pieces) : pieces[p].chars \in Seq(Alphabet)
    <2> TAKE p \in 1 .. Len(pieces)
    <2>1. pieces[p] \in Pieces \cup Unclosed
      BY <1>1
    <2> QED
      BY <2>1, PiecesBegin, Zenon DEF BeginsWell
  <1>3. PICK text, at : text = Characters(pieces) /\ Cut(pieces, text, at)
    BY <1>1, <1>2, CutsExist, Zenon
  <1>4. text \in Seq(Alphabet) /\ at[1] = 1
    BY <1>3, Zenon DEF Cut
  <1>5. PICK read : Reads(read, text)
    BY <1>4, ReadsExist
  <1>6. Layout(pieces, text, at, read)
    BY <1>3, <1>5, LayoutOf, Zenon
  <1>7. Accepted(text, read[1], FALSE, FALSE) <=> OneStatement(pieces)
    BY <1>4, <1>6, AcceptsOne
  <1>8. SingleBrowserStatement(text) = Accepted(text, read[1], FALSE, FALSE)
    BY <1>4, <1>5, ScanAccepts
  <1> QED
    BY <1>3, <1>7, <1>8, Zenon

---------------------------------------------------------------------------
(* The statements of a text *)

SemicolonsBefore(pieces, p) == {q \in 1 .. p - 1 : pieces[q].kind = "semicolon"}
Visibles(pieces) == {q \in DOMAIN pieces : pieces[q].kind \in Visible}
IsSingle(script) == Len(script) = 1 /\ script # <<"empty">>

LEMMA StatementAtIs ==
  ASSUME NEW pieces, NEW p \in Nat
  PROVE  /\ StatementAt(pieces, p) \in Nat /\ StatementAt(pieces, p) >= 1
         /\ IsFiniteSet(SemicolonsBefore(pieces, p))
         /\ StatementAt(pieces, p) = 1 + Cardinality(SemicolonsBefore(pieces, p))
  <1>1. IsFiniteSet(1 .. p - 1)
    BY FS_Interval
  <1>2. IsFiniteSet(SemicolonsBefore(pieces, p))
    BY <1>1, FS_Subset DEF SemicolonsBefore
  <1>3. Cardinality(SemicolonsBefore(pieces, p)) \in Nat
    BY <1>2, FS_CardinalityType
  <1>4. StatementAt(pieces, p) = 1 + Cardinality(SemicolonsBefore(pieces, p))
    BY Zenon DEF StatementAt, SemicolonsBefore
  <1> QED
    BY <1>2, <1>3, <1>4

LEMMA StatementsLength ==
  ASSUME NEW pieces, NEW last \in Nat, last >= 1, last = StatementAt(pieces, Len(pieces) + 1)
  PROVE  \E counted \in Nat :
            /\ counted = IF last > 1 /\ StatementOf(pieces, last) = "empty" THEN last - 1 ELSE last
            /\ Len(StatementsOf(pieces)) = counted
            /\ StatementsOf(pieces) \in Seq({"write", "empty"})
            /\ counted >= 1 => StatementsOf(pieces)[1] = StatementOf(pieces, 1)
  <1>1. PICK counted \in Nat : counted = IF last > 1 /\ StatementOf(pieces, last) = "empty" THEN last - 1 ELSE last
    <2>1. (IF last > 1 /\ StatementOf(pieces, last) = "empty" THEN last - 1 ELSE last) \in Nat
      BY DEF StatementOf
    <2> QED
      BY <2>1
  <1>2. StatementsOf(pieces) = [k \in 1 .. counted |-> StatementOf(pieces, k)]
    BY <1>1, Zenon DEF StatementsOf
  <1>3. \A k : StatementOf(pieces, k) \in {"write", "empty"}
    BY DEF StatementOf
  <1>4. StatementsOf(pieces) \in Seq({"write", "empty"}) /\ Len(StatementsOf(pieces)) = counted
    BY <1>2, <1>3
  <1>5. counted >= 1 => StatementsOf(pieces)[1] = StatementOf(pieces, 1)
    BY <1>2
  <1> QED
    BY <1>1, <1>4, <1>5

LEMMA StatementsAreSingle ==
  ASSUME NEW pieces, Composed(pieces)
  PROVE  IsSingle(StatementsOf(pieces)) <=> OneStatement(pieces)
  <1>1. Len(pieces) \in Nat /\ DOMAIN pieces = 1 .. Len(pieces)
    BY DEF Composed
  <1>2. \A q \in 1 .. Len(pieces) : pieces[q].kind \in {"word", "semicolon", "token", "space"}
    <2> TAKE q \in 1 .. Len(pieces)
    <2>1. pieces[q] \in Pieces \cup Unclosed
      BY DEF Composed
    <2> QED
      BY <2>1, Kinds
  <1>3. PICK n \in Nat : n = Len(pieces)
    BY <1>1
  <1> DEFINE C == SemicolonsBefore(pieces, n + 1)
             V == Visibles(pieces)
  <1>4. C = {q \in 1 .. n : pieces[q].kind = "semicolon"} /\ V = {q \in 1 .. n : pieces[q].kind \in Visible}
    BY <1>1, <1>3 DEF SemicolonsBefore, Visibles
  <1>5. \A q \in 1 .. n : q \in C <=> pieces[q].kind = "semicolon"
    BY <1>4
  <1>6. \A q \in 1 .. n : q \in V <=> pieces[q].kind # "semicolon" /\ pieces[q].kind # "space"
    BY <1>2, <1>3, <1>4 DEF Visible
  <1>7. \A q \in C \cup V : q \in 1 .. n
    BY <1>4
  <1>8. IsFiniteSet(C) /\ \A p \in 1 .. n + 1 : /\ StatementAt(pieces, p) = 1 + Cardinality(SemicolonsBefore(pieces, p))
                                                /\ StatementAt(pieces, p) \in Nat /\ StatementAt(pieces, p) >= 1
    <2>1. \A p \in 1 .. n + 1 : p \in Nat
      OBVIOUS
    <2>2. n + 1 \in 1 .. n + 1
      OBVIOUS
    <2> QED
      BY <2>1, <2>2, StatementAtIs, Zenon
  <1>9. \A p \in 1 .. n + 1 : SemicolonsBefore(pieces, p) = {q \in C : q < p}
    BY DEF SemicolonsBefore
  <1>10. \A k : StatementOf(pieces, k) = IF \E p \in V : StatementAt(pieces, p) = k THEN "write" ELSE "empty"
    BY <1>1, <1>3 DEF StatementOf, Visibles, Visible
  <1>11. OneStatement(pieces) <=> V # {} /\ \A c \in C : \A q \in C \cup V : q <= c
    <2>1. \A q \in 1 .. n : pieces[q].kind # "space" <=> q \in C \cup V
      BY <1>2, <1>3, <1>5, <1>6
    <2>2. (\E q \in 1 .. n : pieces[q].kind \in Visible) <=> V # {}
      BY <1>4
    <2> HIDE DEF C, V
    <2>3. (\A c, q \in 1 .. n : pieces[c].kind = "semicolon" /\ pieces[q].kind # "space" => q <= c)
          <=> \A c \in C : \A q \in C \cup V : q <= c
      BY <1>5, <1>7, <2>1, Zenon
    <2> QED
      BY <1>3, <2>2, <2>3, Zenon DEF OneStatement
  <1>12. PICK last \in Nat : last = StatementAt(pieces, n + 1) /\ last >= 1 /\ last = 1 + Cardinality(C)
    <2>1. n + 1 \in 1 .. n + 1
      OBVIOUS
    <2> QED
      BY <1>8, <2>1, Zenon
  <1>13. PICK counted \in Nat, script \in Seq({"write", "empty"}) :
            /\ counted = IF last > 1 /\ StatementOf(pieces, last) = "empty" THEN last - 1 ELSE last
            /\ script = StatementsOf(pieces) /\ Len(script) = counted
            /\ counted >= 1 => script[1] = StatementOf(pieces, 1)
    BY <1>3, <1>12, StatementsLength
  <1>14. IsSingle(script) <=> counted = 1 /\ StatementOf(pieces, 1) = "write"
    <2>1. StatementOf(pieces, 1) \in {"write", "empty"} /\ "write" # "empty"
      BY <1>10
    <2>2. \A s \in Seq({"write", "empty"}) : Len(s) = 1 => (s = <<"empty">> <=> s[1] = "empty")
      OBVIOUS
    <2>3. Len(script) = counted /\ (counted = 1 => script[1] = StatementOf(pieces, 1))
      BY <1>13
    <2> QED
      BY <2>1, <2>2, <2>3 DEF IsSingle
  <1> HIDE DEF C, V
  <1>15. CASE C = {}
    <2>1. last = 1
      BY <1>12, <1>15, FS_EmptySet
    <2>2. counted = 1
      BY <1>13, <2>1
    <2>3. \A p \in V : StatementAt(pieces, p) = 1
      <3> TAKE p \in V
      <3>1. p \in 1 .. n + 1
        BY <1>7
      <3>2. SemicolonsBefore(pieces, p) = {}
        BY <1>9, <1>15, <3>1
      <3>3. StatementAt(pieces, p) = 1 + Cardinality({})
        BY <1>8, <3>1, <3>2, Zenon
      <3> QED
        BY <3>3, FS_EmptySet
    <2>4. StatementOf(pieces, 1) = "write" <=> V # {}
      BY <1>10, <2>3
    <2> QED
      BY <1>11, <1>13, <1>14, <1>15, <2>2, <2>4
  <1>16. CASE \E c \in C : C = {c}
    <2>1. PICK c \in C : C = {c}
      BY <1>16
    <2>2. last = 2
      <3>1. Cardinality({c}) = 1
        BY FS_Singleton
      <3> QED
        BY <1>12, <2>1, <3>1
    <2>3. \A p \in V : StatementAt(pieces, p) = IF p <= c THEN 1 ELSE 2
      <3> TAKE p \in V
      <3>1. p \in 1 .. n + 1 /\ c \in Int /\ p \in Int
        BY <1>7
      <3>2. CASE p <= c
        <4>1. SemicolonsBefore(pieces, p) = {}
          BY <1>9, <2>1, <3>1, <3>2
        <4>2. StatementAt(pieces, p) = 1 + Cardinality({})
          BY <1>8, <3>1, <4>1, Zenon
        <4>3. StatementAt(pieces, p) = 1
          BY <4>2, FS_EmptySet
        <4> QED
          BY <3>2, <4>3
      <3>3. CASE ~(p <= c)
        <4>1. SemicolonsBefore(pieces, p) = {c}
          BY <1>9, <2>1, <3>1, <3>3
        <4>2. Cardinality({c}) = 1
          BY FS_Singleton
        <4>3. StatementAt(pieces, p) = 1 + Cardinality({c})
          BY <1>8, <3>1, <4>1, Zenon
        <4>4. StatementAt(pieces, p) = 2
          BY <4>2, <4>3
        <4> QED
          BY <3>3, <4>4
      <3> QED
        BY <3>2, <3>3
    <2>4. OneStatement(pieces) <=> V # {} /\ \A q \in V : q <= c
      <3>1. c <= c
        BY <1>7
      <3> QED
        BY <1>11, <2>1, <3>1
    <2>5. StatementOf(pieces, 2) = "empty" <=> \A q \in V : q <= c
      BY <1>10, <2>3
    <2>6. StatementOf(pieces, 1) = "write" <=> \E q \in V : q <= c
      BY <1>10, <2>3
    <2>7. counted = 1 <=> StatementOf(pieces, 2) = "empty"
      BY <1>13, <2>2
    <2> QED
      BY <1>13, <1>14, <2>4, <2>5, <2>6, <2>7
  <1>17. CASE C # {} /\ ~\E c \in C : C = {c}
    <2>1. PICK c \in C, d \in C : c # d
      BY <1>17
    <2>2. c \in Int /\ d \in Int
      BY <1>7
    <2>3. ~OneStatement(pieces)
      BY <1>11, <2>1, <2>2
    <2>4. Cardinality(C) >= 2
      <3>1. IsFiniteSet({c, d}) /\ Cardinality({c, d}) <= Cardinality(C)
        BY <1>8, <2>1, FS_Subset
      <3>2. Cardinality({c, d}) = 2
        <4>1. IsFiniteSet({d}) /\ Cardinality({d}) = 1
          BY FS_Singleton
        <4>2. {c, d} = {d} \cup {c} /\ c \notin {d}
          BY <2>1
        <4>3. Cardinality({d} \cup {c}) = 1 + 1
          BY <4>1, <4>2, FS_AddElement
        <4>4. 1 + 1 = 2
          OBVIOUS
        <4> QED
          BY <4>2, <4>3, <4>4, Zenon
      <3>3. Cardinality(C) \in Nat
        BY <1>8, FS_CardinalityType
      <3> QED
        BY <3>1, <3>2, <3>3
    <2>5. counted >= 2
      <3>1. Cardinality(C) \in Nat
        BY <1>8, FS_CardinalityType
      <3>2. last >= 3
        BY <1>12, <2>4, <3>1
      <3> QED
        BY <1>13, <3>2
    <2> QED
      BY <1>13, <1>14, <2>3, <2>5
  <1> QED
    BY <1>15, <1>16, <1>17

\* singleBrowserStatement accepts the texts of one statement, whatever they are
\* composed of and however long they are.
THEOREM ScanKnowsStatements ==
  ASSUME NEW pieces \in Queries
  PROVE  SingleBrowserStatement(Characters(pieces)) <=> IsSingle(StatementsOf(pieces))
  <1>1. Composed(pieces)
    BY BrowserAssumption DEF Composed
  <1> QED
    BY <1>1, SingleIs, StatementsAreSingle

---------------------------------------------------------------------------
(* Queries *)

\* A request of the mode "query" runs nothing unless it has one statement.
AskedBy(req) == req.mode = "query" =>
    /\ IsSingle(req.script) => req.answer # "refused"
    /\ ~IsSingle(req.script) =>
          req.at = 1 /\ req.step \in {"answered", "done"} /\ req.answer \in {"refused", "error"}
Asked == \A r \in Requests : AskedBy(request[r])

LEMMA AskedStays ==
  ASSUME NEW req, NEW next, AskedBy(req), next.mode = req.mode, next.script = req.script,
         next.answer \in {req.answer, "ok", "error"},
         req.step \in {"answered", "done"} =>
            next.at = req.at /\ next.answer = req.answer /\ next.step \in {"answered", "done"}
  PROVE  AskedBy(next)
  BY DEF AskedBy

LEMMA AskedStep ==
  ASSUME BrowserInv, Asked, NEW r \in Requests, NEW next,
         request' = [request EXCEPT ![r] = next], AskedBy(next)
  PROVE  Asked'
  <1>1. request \in [Requests -> RequestState]
    BY DEF BrowserInv, TypeOK, RequestState
  <1>2. request'[r] = next /\ \A s \in Requests \ {r} : request'[s] = request[s]
    BY <1>1
  <1>3. ASSUME NEW s \in Requests PROVE AskedBy(request'[s])
    BY <1>2, <1>3, Zenon DEF Asked
  <1>4. Asked' <=> \A s \in Requests : AskedBy(request'[s])
    BY Zenon DEF Asked, AskedBy
  <1> QED
    BY <1>3, <1>4, Zenon

LEMMA AskedAnswer ==
  ASSUME BrowserInv, Asked, NEW r \in Requests, request[r].step \in {"running", "counted"},
         NEW answer \in {"ok", "error"}, Answer(r, answer)
  PROVE  Asked'
  <1> DEFINE mid == [request[r] EXCEPT !.step = "answered"]
             next == [mid EXCEPT !.answer = answer]
  <1>1. request[r] \in RequestState /\ AskedBy(request[r])
    BY Parts, Zenon DEF Asked
  <1>2. /\ mid \in RequestState /\ mid.mode = request[r].mode /\ mid.script = request[r].script
    BY <1>1 DEF RequestState
  <1>3. request' = [request EXCEPT ![r] = next]
    BY DEF Answer
  <1> HIDE DEF mid
  <1>4. next.mode = request[r].mode /\ next.script = request[r].script /\ next.answer = answer
    BY <1>2 DEF RequestState
  <1> HIDE DEF next
  <1>5. AskedBy(next)
    BY <1>1, <1>4, AskedStays
  <1> QED
    BY <1>3, <1>5, AskedStep

LEMMA AskedConnection ==
  ASSUME BrowserInv, Asked, NEW r \in Requests, NEW c \in Connections, NEW payload \in Payloads,
         BrowserConnection(r, c, payload)
  PROVE  Asked'
  <1>1. request[r] \in RequestState /\ request[r].step = "new" /\ request[r].at = 1
    BY Parts DEF BrowserConnection, Owned
  <1>2. PICK outcome \in Outcomes(payload) : request' = [request EXCEPT ![r] =
           [@ EXCEPT !.mode = payload.mode, !.script = payload.script, !.conn = c,
                     !.step = outcome.step, !.answer = outcome.answer]]
    BY DEF BrowserConnection
  <1>3. payload.mode = "query" =>
           (payload.accepted <=> IsSingle(payload.script))
    <2>1. CASE \E script \in Scripts : payload = AsScript(script)
      BY <2>1 DEF AsScript
    <2>2. CASE \E pieces \in Queries : payload = AsQuery(pieces)
      <3>1. PICK pieces \in Queries : payload = AsQuery(pieces)
        BY <2>2
      <3>2. /\ payload.script = StatementsOf(pieces)
            /\ payload.accepted = SingleBrowserStatement(Characters(pieces))
        BY <3>1 DEF AsQuery
      <3> QED
        BY <3>2, ScanKnowsStatements, Zenon
    <2> QED
      BY <2>1, <2>2 DEF Payloads
  <1>4. /\ payload.accepted => outcome.answer = "none"
        /\ ~payload.accepted => outcome.step = "answered" /\ outcome.answer \in {"refused", "error"}
    BY DEF Outcomes
  <1> DEFINE before == request[r]
             with1 == [before EXCEPT !.mode = payload.mode]
             with2 == [with1 EXCEPT !.script = payload.script]
             with3 == [with2 EXCEPT !.conn = c]
             with4 == [with3 EXCEPT !.step = outcome.step]
             next == [with4 EXCEPT !.answer = outcome.answer]
  <1>5. request' = [request EXCEPT ![r] = next]
    <2>1. next = [before EXCEPT !.mode = payload.mode, !.script = payload.script, !.conn = c,
                                !.step = outcome.step, !.answer = outcome.answer]
      OBVIOUS
    <2> QED
      BY <1>2, <2>1
  <1>6. /\ next.mode = payload.mode /\ next.script = payload.script /\ next.at = 1
        /\ next.step = outcome.step /\ next.answer = outcome.answer
    <2> DEFINE names == {"mode", "script", "at", "conn", "expired", "step", "answer"}
    <2>1. DOMAIN before = names /\ before.at = 1
      BY <1>1 DEF RequestState
    <2> HIDE DEF before, with1, with2, with3, with4, next
    <2>2. DOMAIN with1 = names /\ with1.at = 1 /\ with1.mode = payload.mode
      BY <2>1 DEF with1
    <2>3. DOMAIN with2 = names /\ with2.at = 1 /\ with2.mode = payload.mode /\ with2.script = payload.script
      BY <2>2 DEF with2
    <2>4. DOMAIN with3 = names /\ with3.at = 1 /\ with3.mode = payload.mode /\ with3.script = payload.script
      BY <2>3 DEF with3
    <2>5. /\ DOMAIN with4 = names /\ with4.at = 1 /\ with4.mode = payload.mode
          /\ with4.script = payload.script /\ with4.step = outcome.step
      BY <2>4 DEF with4
    <2> QED
      BY <2>5 DEF next
  <1> HIDE DEF next, with4, with3, with2, with1, before
  <1>7. AskedBy(next)
    BY <1>3, <1>4, <1>6 DEF AskedBy
  <1> QED
    BY <1>5, <1>7, AskedStep

LEMMA AskedNext ==
  ASSUME BrowserInv, Asked, [Next]_vars
  PROVE  Asked'
  <1>1. CASE UNCHANGED request
    BY <1>1 DEF Asked, AskedBy
  <1>2. ASSUME NEW r \in Requests, Execute(r) PROVE Asked'
    <2> DEFINE next == [request[r] EXCEPT !.at = @ + 1]
    <2>1. request' = [request EXCEPT ![r] = next] /\ request[r].step = "running"
      BY <1>2 DEF Execute, Running
    <2>2. request[r] \in RequestState /\ AskedBy(request[r])
      BY Parts, Zenon DEF Asked
    <2>3. next.mode = request[r].mode /\ next.script = request[r].script /\ next.answer = request[r].answer
      BY <2>2 DEF RequestState
    <2> HIDE DEF next
    <2>4. AskedBy(next)
      BY <2>1, <2>2, <2>3, AskedStays
    <2> QED
      BY <2>1, <2>4, AskedStep
  <1>3. ASSUME NEW r \in Requests, StatementFails(r) PROVE Asked'
    BY <1>3, AskedAnswer DEF StatementFails, Running
  <1>4. ASSUME NEW r \in Requests, CountChanges(r) PROVE Asked'
    <2>1. CASE Answer(r, "error")
      BY <1>4, <2>1, AskedAnswer DEF CountChanges
    <2>2. CASE request' = [request EXCEPT ![r].step = "counted"]
      <3> DEFINE next == [request[r] EXCEPT !.step = "counted"]
      <3>1. request' = [request EXCEPT ![r] = next] /\ request[r].step = "running"
        BY <1>4, <2>2 DEF CountChanges
      <3>2. request[r] \in RequestState /\ AskedBy(request[r])
        BY Parts, Zenon DEF Asked
      <3>3. next.mode = request[r].mode /\ next.script = request[r].script /\ next.answer = request[r].answer
        BY <3>2 DEF RequestState
      <3> HIDE DEF next
      <3>4. AskedBy(next)
        BY <3>1, <3>2, <3>3, AskedStays
      <3> QED
        BY <3>1, <3>4, AskedStep
    <2> QED
      BY <1>4, <2>1, <2>2 DEF CountChanges
  <1>5. ASSUME NEW r \in Requests, RollBackUnfinished(r) PROVE Asked'
    <2>1. request[r].step = "counted" /\ (Answer(r, "error") \/ Answer(r, "ok"))
      BY <1>5 DEF RollBackUnfinished
    <2> QED
      BY <2>1, AskedAnswer
  <1>6. ASSUME NEW r \in Requests, CloseConn(r) PROVE Asked'
    <2> DEFINE mid == [request[r] EXCEPT !.step = "done"]
               next == [mid EXCEPT !.conn = None]
    <2>1. request' = [request EXCEPT ![r] = next] /\ request[r].step = "answered"
      BY <1>6 DEF CloseConn
    <2>2. request[r] \in RequestState /\ AskedBy(request[r])
      BY Parts, Zenon DEF Asked
    <2>3. /\ mid \in RequestState /\ mid.mode = request[r].mode /\ mid.script = request[r].script
          /\ mid.answer = request[r].answer /\ mid.at = request[r].at /\ mid.step = "done"
      BY <2>2 DEF RequestState
    <2> HIDE DEF mid
    <2>4. /\ next.mode = request[r].mode /\ next.script = request[r].script
          /\ next.answer = request[r].answer /\ next.at = request[r].at /\ next.step = "done"
      BY <2>3 DEF RequestState
    <2> HIDE DEF next
    <2>5. AskedBy(next)
      BY <2>2, <2>4, AskedStays
    <2> QED
      BY <2>1, <2>5, AskedStep
  <1>7. ASSUME NEW r \in Requests, Expire(r) PROVE Asked'
    <2> DEFINE next == [request[r] EXCEPT !.expired = TRUE]
    <2>1. request' = [request EXCEPT ![r] = next] /\ request[r].step \in {"running", "counted"}
      BY <1>7 DEF Expire
    <2>2. request[r] \in RequestState /\ AskedBy(request[r])
      BY Parts, Zenon DEF Asked
    <2>3. next.mode = request[r].mode /\ next.script = request[r].script /\ next.answer = request[r].answer
      BY <2>2 DEF RequestState
    <2> HIDE DEF next
    <2>4. AskedBy(next)
      BY <2>1, <2>2, <2>3, AskedStays
    <2> QED
      BY <2>1, <2>4, AskedStep
  <1>8. ASSUME NEW c \in Connections, ApplicationRequest(c) PROVE UNCHANGED request
    BY <1>8 DEF ApplicationRequest
  <1> QED
    BY <1>1, <1>2, <1>3, <1>4, <1>5, <1>6, <1>7, <1>8, AskedConnection DEF Next, Advance, vars

\* Query mode runs a text of one statement and refuses any other, whatever strings,
\* names and comments hide its semicolons and each other: singleBrowserStatement
\* counts the statements that SQLite would.
THEOREM QueriesAreSingleHolds == Spec => []QueriesAreSingle
  <1>1. Init => Asked
    BY DEF Init, Asked, AskedBy
  <1>2. BrowserInv /\ Asked /\ [Next]_vars => Asked'
    BY AskedNext
  <1>3. Asked => QueriesAreSingle
    BY DEF Asked, AskedBy, QueriesAreSingle, IsSingle
  <1> QED
    BY <1>1, <1>2, <1>3, BrowserStateIsKnown, PTL DEF Spec
=============================================================================
