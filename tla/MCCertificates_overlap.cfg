SPECIFICATION Spec
CONSTANTS
  Ops = {o1, o2}
  Old = {x1, x2}
  Companies = {c1, c2}
  None = None
  Kinds = {"create", "reveal", "deleteKey", "verify", "list", "deleteCompany"}
  Faults = {"statement", "icid", "lostReply"}
  MaxTime = 1
  BatchSize = 1
  Ttl = 1
SYMMETRY Symmetry
INVARIANTS
  VerdictsAreBacked
  
  DeletedKeysStayHidden
  OnlyFailuresAreUnknown
CHECK_DEADLOCK FALSE
