SPECIFICATION Spec
CONSTANTS
  Ops = {o1, o2}
  Users = {u1, u2}
  Emails = {e1, e2, e3}
  Ips = {i1}
  Passwords = {p1, p2}
  None = None
  Kinds = {"logIn", "changePassword", "recover"}
  Faults = {"statement", "remote"}
  MaxTime = 4
  Lifetime = 4
  Margin = 3
  RoundTrip = 1
  Window = 2
SYMMETRY Symmetry
INVARIANTS
  AdminTokenIsFresh
  
  ThrottleIsExact
PROPERTY PasswordChangeIsProven
CHECK_DEADLOCK FALSE
