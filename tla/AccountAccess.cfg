SPECIFICATION AccountSpec
CONSTANTS
  Requests = {r1, r2}
  Sessions = {s1, s2}
  Tokens = {t1, t2}
  Threshold = 2
  LockTime = 1
  Lifetime = 0
  Anonymous = Anonymous
INVARIANTS LockIsEarned
PROPERTIES DisabledForGood DisabledIsOut SessionsEnd
