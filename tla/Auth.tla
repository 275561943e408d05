-------------------------------- MODULE Auth --------------------------------
(***************************************************************************)
(* Google sign-in of handlers/auth.go: login attempts, sessions and the    *)
(* cookies of the browsers that hold them. Attempts and sessions live in   *)
(* two maps of the server process, under one mutex. A callback takes its   *)
(* attempt under the mutex, gives the mutex up while it asks Google, and   *)
(* takes it again to create the session: other requests run in between,    *)
(* and the session cookie it read when it arrived may be old by then.      *)
(*                                                                         *)
(* Random values are nonces that are drawn once. The answer to a login or  *)
(* a callback may be lost: its cookies then do not reach the browser.      *)
(***************************************************************************)
EXTENDS Integers, FiniteSets

CONSTANTS
    Browsers, Users,
    Nonces,          \* bound: 1 .. n, the random values that can be drawn
    Callbacks,       \* bound: callback requests in progress
    AttemptLife,     \* 10 minutes
    SessionLife,     \* 8 hours
    MaxPending,      \* 10000
    MaxClock,        \* bound
    None

ASSUME AuthAssumption ==
    /\ Nonces \subseteq Nat
    /\ {AttemptLife, SessionLife, MaxPending, MaxClock} \subseteq Nat
    /\ None \notin Nat \cup Browsers

Session == [user: Users, expires: Nat]
ASSUME SessionAssumption == None \notin Session

VARIABLES
    clock,
    allowed,      \* the accounts the configuration of this process admits
    pending,      \* Auth.pending: when each login attempt expires
    sessions,     \* Auth.sessions
    stateCookie, sessionCookie,   \* selectq_oauth_state, selectq_session of each browser
    callback,     \* the callbacks in progress
    startedBy,    \* history: the browser whose login drew a nonce
    attemptOf,    \* history: the attempt a session was created for
    signedOut     \* history: the sessions that were signed out

cookies == <<stateCookie, sessionCookie>>
history == <<startedBy, attemptOf, signedOut>>
vars == <<clock, allowed, pending, sessions, cookies, callback, history>>

Idle == [step |-> "idle"]
Callback == [step: {"exchange"}, browser: Browsers, attempt: Nonces, old: Nonces \cup {None}]
            \cup [step: {"identified"}, browser: Browsers, attempt: Nonces,
                  old: Nonces \cup {None}, user: Users]

TypeOK ==
    /\ clock \in Nat
    /\ allowed \subseteq Users
    /\ pending \in [Nonces -> Nat \cup {None}]
    /\ sessions \in [Nonces -> Session \cup {None}]
    /\ stateCookie \in [Browsers -> Nonces \cup {None}]
    /\ sessionCookie \in [Browsers -> Nonces \cup {None}]
    /\ callback \in [Callbacks -> {Idle} \cup Callback]
    /\ startedBy \in [Nonces -> Browsers \cup {None}]
    /\ attemptOf \in [Nonces -> Nonces \cup {None}]
    /\ signedOut \subseteq Nonces

---------------------------------------------------------------------------
Unused(n) == startedBy[n] = None /\ attemptOf[n] = None
\* authRandom draws a value that was never drawn before.
Random(n) == Unused(n) /\ \A m \in Nonces : m < n => ~Unused(m)

Expiry(life) == clock + life

Configured == allowed # {}
Live(expires) == clock <= expires
Signed(s) == sessions[s] # None

\* Deleting an absent or unknown session does nothing.
Without(table, n) == [m \in Nonces |-> IF m = n THEN None ELSE table[m]]

Unexpired == [n \in Nonces |-> IF pending[n] # None /\ Live(pending[n]) THEN pending[n] ELSE None]
LiveSessions == [s \in Nonces |->
                    IF Signed(s) /\ Live(sessions[s].expires) THEN sessions[s] ELSE None]
Waiting(attempts) == {n \in Nonces : attempts[n] # None}

HasRoom(attempts) == Cardinality(Waiting(attempts)) < MaxPending

---------------------------------------------------------------------------
(* Requests *)

\* GET /auth/google: purges what has expired, then starts an attempt.
Login(b, n) ==
    /\ Configured
    /\ HasRoom(Unexpired)
    /\ Random(n)
    /\ pending' = [Unexpired EXCEPT ![n] = Expiry(AttemptLife)]
    /\ sessions' = LiveSessions
    /\ startedBy' = [startedBy EXCEPT ![n] = b]
    /\ stateCookie' \in {[stateCookie EXCEPT ![b] = n], stateCookie}
    /\ UNCHANGED <<clock, allowed, sessionCookie, callback, attemptOf, signedOut>>

\* "Please try again later"; the purge remains.
RefuseLogin ==
    /\ Configured
    /\ ~HasRoom(Unexpired)
    /\ pending' = Unexpired
    /\ sessions' = LiveSessions
    /\ UNCHANGED <<clock, allowed, cookies, callback, history>>

AnyState(b, n) == startedBy[n] # None
MatchesCookie(b, n) == stateCookie[b] = n

KeepAttempt(n) == pending
TakeAttempt(n) == Without(pending, n)

\* The fail answers, and the answer to a successful sign-in, forget the state.
ForgetState(b) == stateCookie' \in {[stateCookie EXCEPT ![b] = None], stateCookie}

\* GET /auth/google/callback, up to the exchange: any browser may open the URL
\* of an attempt, and open it again.
StartCallback(c, b, n) ==
    /\ callback[c] = Idle
    /\ Configured
    /\ startedBy[n] # None
    /\ MatchesCookie(b, n)
    /\ pending' = TakeAttempt(n)
    /\ \/ /\ pending[n] # None /\ Live(pending[n])
          /\ callback' = [callback EXCEPT ![c] =
                 [step |-> "exchange", browser |-> b, attempt |-> n, old |-> sessionCookie[b]]]
          /\ UNCHANGED stateCookie
       \* Expired, replayed or cancelled.
       \/ ForgetState(b) /\ UNCHANGED callback
    /\ UNCHANGED <<clock, allowed, sessions, sessionCookie, history>>

\* Google names an account that the configuration admits.
Identify(c, u) ==
    LET request == callback[c]
    IN  /\ request.step = "exchange"
        /\ u \in allowed
        /\ callback' = [callback EXCEPT ![c] =
               [step |-> "identified", browser |-> request.browser,
                attempt |-> request.attempt, old |-> request.old, user |-> u]]
        /\ UNCHANGED <<clock, allowed, pending, sessions, cookies, history>>

NeverFails(c) == FALSE
\* Google answers an error or another account, or the client's timeout ends the wait.
FailExchange(c) ==
    /\ callback[c].step = "exchange"
    /\ callback' = [callback EXCEPT ![c] = Idle]
    /\ ForgetState(callback[c].browser)
    /\ UNCHANGED <<clock, allowed, pending, sessions, sessionCookie, history>>

RenewedSession(request, s) ==
    [sessions EXCEPT ![IF request.old = None THEN s ELSE request.old] =
        [user |-> request.user, expires |-> Expiry(SessionLife)]]
\* A sign-in replaces the session that the browser had when it asked.
SessionsAfter(request, s) ==
    [Without(sessions, request.old) EXCEPT
        ![s] = [user |-> request.user, expires |-> Expiry(SessionLife)]]

SignIn(c, s) ==
    LET request == callback[c]
        b == request.browser
    IN  /\ request.step = "identified"
        /\ Random(s)
        /\ sessions' = SessionsAfter(request, s)
        /\ attemptOf' = [attemptOf EXCEPT ![s] = request.attempt]
        /\ callback' = [callback EXCEPT ![c] = Idle]
        /\ \/ /\ sessionCookie' = [sessionCookie EXCEPT ![b] = s]
              /\ stateCookie' = [stateCookie EXCEPT ![b] = None]
           \/ UNCHANGED cookies
        /\ UNCHANGED <<clock, allowed, pending, startedBy, signedOut>>

\* POST /auth/logout
Logout(b) ==
    LET s == sessionCookie[b]
    IN  /\ s # None
        /\ sessions' = Without(sessions, s)
        /\ sessionCookie' \in {[sessionCookie EXCEPT ![b] = None], sessionCookie}
        /\ signedOut' = signedOut \cup {s}
        /\ UNCHANGED <<clock, allowed, pending, stateCookie, callback, startedBy, attemptOf>>

\* What the API requires of a request, and its side effect on a stale session.
Authenticated(s) == Signed(s) /\ Live(sessions[s].expires) /\ sessions[s].user \in allowed
Require(b) ==
    LET s == sessionCookie[b]
    IN  /\ Configured
        /\ s # None
        /\ sessions' = IF Authenticated(s) THEN sessions ELSE Without(sessions, s)
        /\ UNCHANGED <<clock, allowed, pending, cookies, callback, history>>

---------------------------------------------------------------------------
(* The environment *)

Tick ==
    /\ clock < MaxClock
    /\ clock' = clock + 1
    /\ UNCHANGED <<allowed, pending, sessions, cookies, callback, history>>

\* The browser drops its cookies when they expire, or its user does.
DropCookies(b) ==
    /\ stateCookie' = [stateCookie EXCEPT ![b] = None]
    /\ sessionCookie' = [sessionCookie EXCEPT ![b] = None]
    /\ UNCHANGED <<clock, allowed, pending, sessions, callback, history>>

\* Restarting reads the configuration again and signs everybody out.
Restart(accounts) ==
    /\ allowed' = accounts
    /\ pending' = [n \in Nonces |-> None]
    /\ sessions' = [s \in Nonces |-> None]
    /\ callback' = [c \in Callbacks |-> Idle]
    /\ UNCHANGED <<clock, cookies, history>>

Init ==
    /\ clock = 0
    /\ allowed \in SUBSET Users
    /\ pending = [n \in Nonces |-> None]
    /\ sessions = [n \in Nonces |-> None]
    /\ stateCookie = [b \in Browsers |-> None]
    /\ sessionCookie = [b \in Browsers |-> None]
    /\ callback = [c \in Callbacks |-> Idle]
    /\ startedBy = [n \in Nonces |-> None]
    /\ attemptOf = [n \in Nonces |-> None]
    /\ signedOut = {}

Next ==
    \/ \E b \in Browsers, n \in Nonces : Login(b, n)
    \/ RefuseLogin
    \/ \E c \in Callbacks :
          \/ \E b \in Browsers, n \in Nonces : StartCallback(c, b, n)
          \/ \E u \in Users : Identify(c, u)
          \/ FailExchange(c)
          \/ \E s \in Nonces : SignIn(c, s)
    \/ \E b \in Browsers : Logout(b) \/ Require(b) \/ DropCookies(b)
    \/ Tick
    \/ \E accounts \in SUBSET Users : Restart(accounts)

Spec == Init /\ [][Next]_vars

\* The callback's goroutine runs and the client's timeout ends its wait. Nothing
\* is assumed of Google, of browsers or of time.
FairSpec ==
    /\ Spec
    /\ \A c \in Callbacks :
          WF_vars(FailExchange(c)) /\ WF_vars(\E s \in Nonces : SignIn(c, s))

---------------------------------------------------------------------------
(* Properties *)

\* A login attempt yields at most one session, however often its callback is
\* repeated and however the copies overlap.
OneSessionPerAttempt ==
    \A s, t \in Nonces : attemptOf[s] # None /\ attemptOf[s] = attemptOf[t] => s = t

\* A session that was signed out never authenticates again, even when a callback
\* that arrived with its cookie finishes later.
SignOutIsFinal == \A s \in signedOut : ~Signed(s)

\* The session a browser holds was created for an attempt that this browser
\* started: opening another browser's callback URL signs nobody in.
SessionsBelongToTheirBrowser ==
    \A b \in Browsers :
        sessionCookie[b] # None => startedBy[attemptOf[sessionCookie[b]]] = b

\* Every callback is answered, whatever Google does. The model alone can run out
\* of nonces.
CallbacksAreAnswered ==
    \A c \in Callbacks :
        callback[c] # Idle ~> callback[c] = Idle \/ \A n \in Nonces : ~Unused(n)
=============================================================================
