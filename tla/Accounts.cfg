SPECIFICATION Spec
CONSTANTS
  Users = {u1, u2}
  Emails = {e1, e2}
  SessionIds = {s1, s2}
  TokenIds = {t1, t2}
  Requests = {r1, r2}
  MaxNow = 2
  MaxFailed = 2
  MaxAttempts = 3
  Mixes <- MCMixes
  Null = Null
SYMMETRY MCSymmetry
INVARIANTS TypeOK CookieInStep BoundedGuesses DeletedIsLoggedOut VerifiedMeansProven TokenSpent
PROPERTIES RevokedForGood
