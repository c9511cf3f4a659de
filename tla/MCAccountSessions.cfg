CONSTANTS
  Users = {p1}
  Passwords = {w1, w2}
  Logins = {l1, l2}
  Requests = {r1, r2}
  MaxConcurrency = 1
  TTL = 1
  MaxTime = 1
  MaxSalt = 2
  None = none
SPECIFICATION Spec
INVARIANT
  LogoutIsFinal
PROPERTY
  IssuedOnCurrentPassword
  RehashKeepsThePassword
  LoginsEnd
CHECK_DEADLOCK FALSE
