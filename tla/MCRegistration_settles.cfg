SPECIFICATION FairSpec
CONSTANTS
  Requests = {r1, r2}
  Emails = {e1}
  CompanyNames = {n1, n2}
  RegistrationNumbers = {k1, k2}
  NoOne = NoOne
  Others = Others
  HookBound = TRUE
  Reissue = TRUE
  Faults = {"statement", "connection", "cleanup", "crash"}
PROPERTY EveryRequestSettles
CHECK_DEADLOCK FALSE
