SPECIFICATION FairSpec
CONSTANTS
  None = None
  Browsers = {b1, b2}
  Users = {u}
  Nonces = {1, 2, 3, 4}
  Callbacks = {c1, c2}
  AttemptLife = 1
  SessionLife = 2
  MaxPending = 2
  MaxClock = 2
INVARIANT OneSessionPerAttempt
INVARIANT SignOutIsFinal
INVARIANT SessionsBelongToTheirBrowser
PROPERTY CallbacksAreAnswered
