----------------------------- MODULE AuthProofs -----------------------------
(* Theorems of Auth, for every value of its constants. *)
EXTENDS Auth, TLAPS

---------------------------------------------------------------------------
(* The inductive invariant *)

\* An attempt is waiting, or held by one callback, or used by one session.
AttemptsAreHeldOnce ==
    /\ \A n \in Nonces : pending[n] # None => startedBy[n] # None
    /\ \A s \in Nonces : attemptOf[s] # None =>
          startedBy[attemptOf[s]] # None /\ pending[attemptOf[s]] = None
    /\ \A c \in Callbacks : callback[c] # Idle =>
          /\ pending[callback[c].attempt] = None
          /\ startedBy[callback[c].attempt] = callback[c].browser
          /\ \A s \in Nonces : attemptOf[s] # callback[c].attempt
          /\ \A d \in Callbacks \ {c} :
                callback[d] # Idle => callback[d].attempt # callback[c].attempt

\* A cookie was set by an answer of this server.
CookiesWereIssued ==
    /\ \A b \in Browsers : stateCookie[b] # None => startedBy[stateCookie[b]] = b
    /\ \A b \in Browsers : sessionCookie[b] # None =>
          /\ attemptOf[sessionCookie[b]] # None
          /\ startedBy[attemptOf[sessionCookie[b]]] = b
    /\ \A c \in Callbacks : callback[c] # Idle /\ callback[c].old # None =>
          attemptOf[callback[c].old] # None
    /\ \A s \in signedOut : attemptOf[s] # None

IInv == TypeOK /\ AttemptsAreHeldOnce /\ CookiesWereIssued /\ OneSessionPerAttempt /\ SignOutIsFinal

LEMMA NoneIsNoNonce == None \notin Nonces /\ None \notin Nat /\ None \notin Browsers
                       /\ None \notin Session
  BY AuthAssumption, SessionAssumption

LEMMA CallbackFields ==
  ASSUME NEW r \in Callback
  PROVE  /\ r.browser \in Browsers /\ r.attempt \in Nonces /\ r.old \in Nonces \cup {None}
         /\ r.step \in {"exchange", "identified"}
         /\ r.step = "identified" => r.user \in Users
         /\ r # Idle
  BY DEF Callback, Idle

LEMMA ExpiryType ==
  ASSUME TypeOK, NEW life \in Nat
  PROVE  Expiry(life) \in Nat
  BY DEF TypeOK, Expiry

LEMMA Initially == Init => IInv
  BY NoneIsNoNonce DEF Init, IInv, TypeOK, AttemptsAreHeldOnce, CookiesWereIssued,
     OneSessionPerAttempt, SignOutIsFinal

LEMMA LoginStep ==
  ASSUME IInv, NEW b \in Browsers, NEW n \in Nonces, Login(b, n)
  PROVE  IInv'
  <1>1. Expiry(AttemptLife) \in Nat
    BY ExpiryType, AuthAssumption DEF IInv
  <1>2. TypeOK'
    <2>1. Unexpired \in [Nonces -> Nat \cup {None}] /\ LiveSessions \in [Nonces -> Session \cup {None}]
      BY DEF IInv, TypeOK, Unexpired, LiveSessions, Signed
    <2> QED
      BY <1>1, <2>1 DEF IInv, TypeOK, Login, cookies, history
  <1>3. AttemptsAreHeldOnce'
    BY NoneIsNoNonce, CallbackFields DEF IInv, TypeOK, AttemptsAreHeldOnce, CookiesWereIssued, Login, Random, Unused,
       Unexpired, Idle
  <1>4. CookiesWereIssued'
    BY NoneIsNoNonce DEF IInv, TypeOK, AttemptsAreHeldOnce, CookiesWereIssued, Login, Random, Unused
  <1>5. OneSessionPerAttempt' /\ SignOutIsFinal'
    BY NoneIsNoNonce DEF IInv, TypeOK, CookiesWereIssued, OneSessionPerAttempt, SignOutIsFinal,
       Login, LiveSessions, Signed, Live
  <1> QED
    BY <1>2, <1>3, <1>4, <1>5 DEF IInv

LEMMA StartStep ==
  ASSUME IInv, NEW c \in Callbacks, NEW b \in Browsers, NEW n \in Nonces, StartCallback(c, b, n)
  PROVE  IInv'
  <1> DEFINE held == [step |-> "exchange", browser |-> b, attempt |-> n, old |-> sessionCookie[b]]
  <1>1. held \in Callback
    BY DEF IInv, TypeOK, Callback
  <1>2. /\ pending' = [m \in Nonces |-> IF m = n THEN None ELSE pending[m]]
        /\ UNCHANGED <<clock, allowed, sessions, sessionCookie, startedBy, attemptOf, signedOut>>
    BY DEF StartCallback, TakeAttempt, Without, history
  <1>3. stateCookie[b] = n /\ startedBy[n] = b
    BY NoneIsNoNonce DEF StartCallback, MatchesCookie, IInv, CookiesWereIssued
  <1>4. OneSessionPerAttempt' /\ SignOutIsFinal'
    BY <1>2 DEF IInv, OneSessionPerAttempt, SignOutIsFinal, Signed
  <1>5. CASE /\ pending[n] # None
             /\ callback' = [callback EXCEPT ![c] = held]
             /\ UNCHANGED stateCookie
    <2>1. TypeOK'
      BY <1>1, <1>2, <1>5 DEF IInv, TypeOK
    <2>2. AttemptsAreHeldOnce'
      BY <1>1, <1>2, <1>3, <1>5, NoneIsNoNonce, CallbackFields DEF IInv, TypeOK, AttemptsAreHeldOnce, StartCallback
    <2>3. CookiesWereIssued'
      BY <1>1, <1>2, <1>3, <1>5, NoneIsNoNonce DEF IInv, TypeOK, CookiesWereIssued
    <2> QED
      BY <1>4, <2>1, <2>2, <2>3 DEF IInv
  <1>6. CASE ForgetState(b) /\ UNCHANGED callback
    <2>1. TypeOK'
      BY <1>2, <1>6 DEF IInv, TypeOK, ForgetState
    <2>2. AttemptsAreHeldOnce'
      BY <1>2, <1>3, <1>6, NoneIsNoNonce, CallbackFields DEF IInv, TypeOK, AttemptsAreHeldOnce
    <2>3. CookiesWereIssued'
      BY <1>2, <1>6, NoneIsNoNonce DEF IInv, TypeOK, CookiesWereIssued, ForgetState
    <2> QED
      BY <1>4, <2>1, <2>2, <2>3 DEF IInv
  <1> QED
    BY <1>5, <1>6 DEF StartCallback

\* What Google answers changes neither sessions nor attempts.
LEMMA AnswerStep ==
  ASSUME IInv, NEW c \in Callbacks,
         FailExchange(c) \/ \E u \in Users : Identify(c, u)
  PROVE  IInv'
  <1>1. callback[c] \in Callback /\ callback[c] # Idle
    BY DEF IInv, TypeOK, FailExchange, Identify, Idle
  <1>2. CASE FailExchange(c)
    BY <1>1, <1>2, NoneIsNoNonce, CallbackFields DEF FailExchange, ForgetState, history, IInv, TypeOK,
       AttemptsAreHeldOnce, CookiesWereIssued, OneSessionPerAttempt, SignOutIsFinal, Signed
  <1>3. ASSUME NEW u \in Users, Identify(c, u)
        PROVE  IInv'
    <2> DEFINE held == [step |-> "identified", browser |-> callback[c].browser,
                        attempt |-> callback[c].attempt, old |-> callback[c].old, user |-> u]
    <2>1. held \in Callback
      BY <1>1, CallbackFields DEF Callback
    <2>2. /\ callback' = [callback EXCEPT ![c] = held]
          /\ UNCHANGED <<clock, allowed, pending, sessions, stateCookie, sessionCookie,
                         startedBy, attemptOf, signedOut>>
      BY <1>3 DEF Identify, cookies, history
    <2>3. TypeOK' /\ OneSessionPerAttempt' /\ SignOutIsFinal'
      BY <2>1, <2>2 DEF IInv, TypeOK, OneSessionPerAttempt, SignOutIsFinal, Signed
    <2>4. AttemptsAreHeldOnce' /\ CookiesWereIssued'
      BY <1>1, <2>1, <2>2 DEF IInv, TypeOK, AttemptsAreHeldOnce, CookiesWereIssued
    <2> QED
      BY <2>3, <2>4 DEF IInv
  <1> QED
    BY <1>2, <1>3

LEMMA SignInStep ==
  ASSUME IInv, NEW c \in Callbacks, NEW s \in Nonces, SignIn(c, s)
  PROVE  IInv'
  <1> DEFINE request == callback[c]
             created == [user |-> request.user, expires |-> Expiry(SessionLife)]
  <1>1. /\ request \in Callback /\ request # Idle /\ request.user \in Users
        /\ request.attempt \in Nonces /\ request.browser \in Browsers
    <2>1. request \in Callback
      BY DEF IInv, TypeOK, SignIn, Idle
    <2> QED
      BY <2>1, CallbackFields DEF SignIn
  <1>2. created \in Session
    BY <1>1, ExpiryType, AuthAssumption DEF IInv, Session
  <1>3. /\ startedBy[s] = None /\ attemptOf[s] = None
        /\ sessions' = [[n \in Nonces |-> IF n = request.old THEN None ELSE sessions[n]]
                           EXCEPT ![s] = created]
        /\ attemptOf' = [attemptOf EXCEPT ![s] = request.attempt]
        /\ callback' = [callback EXCEPT ![c] = Idle]
        /\ UNCHANGED <<clock, allowed, pending, startedBy, signedOut>>
        /\ \/ /\ sessionCookie' = [sessionCookie EXCEPT ![request.browser] = s]
              /\ stateCookie' = [stateCookie EXCEPT ![request.browser] = None]
           \/ UNCHANGED <<stateCookie, sessionCookie>>
    BY DEF SignIn, Random, Unused, SessionsAfter, Without, cookies
  <1>4. TypeOK'
    BY <1>1, <1>2, <1>3 DEF IInv, TypeOK
  <1>5. AttemptsAreHeldOnce'
    BY <1>1, <1>3, NoneIsNoNonce, CallbackFields DEF IInv, TypeOK, AttemptsAreHeldOnce
  <1>6. CookiesWereIssued'
    BY <1>1, <1>3, NoneIsNoNonce, CallbackFields DEF IInv, TypeOK, AttemptsAreHeldOnce, CookiesWereIssued
  <1>7. OneSessionPerAttempt'
    BY <1>1, <1>3, NoneIsNoNonce DEF IInv, TypeOK, AttemptsAreHeldOnce, OneSessionPerAttempt
  <1>8. SignOutIsFinal'
    BY <1>1, <1>3, NoneIsNoNonce DEF IInv, TypeOK, CookiesWereIssued, SignOutIsFinal, Signed
  <1> QED
    BY <1>4, <1>5, <1>6, <1>7, <1>8 DEF IInv

\* Steps that only remove sessions, attempts, callbacks or cookies.
LEMMA ForgettingStep ==
  ASSUME IInv,
         \/ RefuseLogin \/ Tick
         \/ \E b \in Browsers : Logout(b) \/ Require(b) \/ DropCookies(b)
         \/ \E accounts \in SUBSET Users : Restart(accounts)
  PROVE  IInv'
  <1>1. CASE RefuseLogin
    <2>1. /\ Unexpired \in [Nonces -> Nat \cup {None}]
          /\ \A n \in Nonces : pending[n] = None => Unexpired[n] = None
      BY DEF IInv, TypeOK, Unexpired
    <2>2. /\ LiveSessions \in [Nonces -> Session \cup {None}]
          /\ \A s \in Nonces : ~Signed(s) => LiveSessions[s] = None
      BY DEF IInv, TypeOK, LiveSessions, Signed
    <2>3. /\ pending' = Unexpired /\ sessions' = LiveSessions
          /\ UNCHANGED <<clock, allowed, stateCookie, sessionCookie, callback,
                         startedBy, attemptOf, signedOut>>
      BY <1>1 DEF RefuseLogin, cookies, history
    <2>4. TypeOK' /\ SignOutIsFinal'
      BY <2>1, <2>2, <2>3 DEF IInv, TypeOK, SignOutIsFinal, Signed
    <2>5. AttemptsAreHeldOnce'
      BY <2>1, <2>3, CallbackFields, NoneIsNoNonce DEF IInv, TypeOK, AttemptsAreHeldOnce
    <2>6. CookiesWereIssued' /\ OneSessionPerAttempt'
      BY <2>3 DEF IInv, CookiesWereIssued, OneSessionPerAttempt
    <2> QED
      BY <2>4, <2>5, <2>6 DEF IInv
  <1>2. CASE Tick
    BY <1>2 DEF Tick, cookies, history, IInv, TypeOK, AttemptsAreHeldOnce,
       CookiesWereIssued, OneSessionPerAttempt, SignOutIsFinal, Signed
  <1>3. ASSUME NEW b \in Browsers, Logout(b)
        PROVE  IInv'
    BY <1>3, NoneIsNoNonce DEF Logout, Without, IInv, TypeOK, AttemptsAreHeldOnce,
       CookiesWereIssued, OneSessionPerAttempt, SignOutIsFinal, Signed
  <1>4. ASSUME NEW b \in Browsers, Require(b)
        PROVE  IInv'
    BY <1>4, NoneIsNoNonce DEF Require, Without, cookies, history, IInv, TypeOK, AttemptsAreHeldOnce,
       CookiesWereIssued, OneSessionPerAttempt, SignOutIsFinal, Signed
  <1>5. ASSUME NEW b \in Browsers, DropCookies(b)
        PROVE  IInv'
    BY <1>5, NoneIsNoNonce DEF DropCookies, history, IInv, TypeOK, AttemptsAreHeldOnce,
       CookiesWereIssued, OneSessionPerAttempt, SignOutIsFinal, Signed
  <1>6. ASSUME NEW accounts \in SUBSET Users, Restart(accounts)
        PROVE  IInv'
    BY <1>6, NoneIsNoNonce DEF Restart, cookies, history, IInv, TypeOK, AttemptsAreHeldOnce,
       CookiesWereIssued, OneSessionPerAttempt, SignOutIsFinal, Signed
  <1> QED
    BY <1>1, <1>2, <1>3, <1>4, <1>5, <1>6

LEMMA Inductive == IInv /\ [Next]_vars => IInv'
  <1> SUFFICES ASSUME IInv, [Next]_vars PROVE IInv'
    OBVIOUS
  <1>1. CASE Next
    BY <1>1, LoginStep, StartStep, AnswerStep, SignInStep, ForgettingStep DEF Next
  <1>2. CASE UNCHANGED vars
    BY <1>2 DEF vars, cookies, history, IInv, TypeOK, AttemptsAreHeldOnce,
       CookiesWereIssued, OneSessionPerAttempt, SignOutIsFinal, Signed
  <1> QED
    BY <1>1, <1>2

THEOREM Invariance == Spec => []IInv
  BY Initially, Inductive, PTL DEF Spec

---------------------------------------------------------------------------
(* Results *)

\* A login attempt is used for at most one session, for any number of callbacks.
THEOREM AttemptsAreUsedOnce == Spec => []OneSessionPerAttempt
  <1>1. IInv => OneSessionPerAttempt
    BY DEF IInv
  <1> QED
    BY <1>1, Invariance, PTL

\* No interleaving of callbacks brings a signed-out session back.
THEOREM SignOutsAreFinal == Spec => []SignOutIsFinal
  <1>1. IInv => SignOutIsFinal
    BY DEF IInv
  <1> QED
    BY <1>1, Invariance, PTL

\* A browser holds sessions of its own login attempts only.
THEOREM OwnSessions == Spec => []SessionsBelongToTheirBrowser
  <1>1. IInv => SessionsBelongToTheirBrowser
    BY DEF IInv, CookiesWereIssued, SessionsBelongToTheirBrowser
  <1> QED
    BY <1>1, Invariance, PTL
=============================================================================
