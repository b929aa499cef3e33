SPECIFICATION Spec
CONSTANTS
  Requests = {r1, r2, r3}
  Emails = {e1, e2}
  CompanyNames = {n1, n2}
  RegistrationNumbers = {k1, k2}
  NoOne = NoOne
  Others = Others
  HookBound = TRUE
  Reissue = FALSE
  Faults = {"statement", "lostReply", "connection", "cleanup", "crash"}
SYMMETRY Symmetry
INVARIANT CommittedIsWhole
PROPERTIES  AtomicSpec
CHECK_DEADLOCK FALSE
