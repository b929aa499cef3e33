SPECIFICATION Spec
CONSTANTS
  c1 = c1
  c2 = c2
  a1 = a1
  a2 = a2
  e1 = e1
  e2 = e2
  Ops = {o1}
  Companies <- OneCompany
  Emails = {e1, e2}
  Admins <- OneAdmin
  AdminOf <- OneAdminOf
  AdminEmail <- OneAdminEmail
  Roles = {"admin", "read_only"}
  OddRole = "auditor"
  None = None
  Kinds = {"createUser"}
  Overlap = FALSE
  Faults = {"statement"}
SYMMETRY Symmetry
INVARIANTS FailedCreateCanBeRetried
CHECK_DEADLOCK FALSE
