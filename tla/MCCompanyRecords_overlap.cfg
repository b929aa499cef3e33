SPECIFICATION Spec
CONSTANTS
  c1 = c1
  c2 = c2
  u1 = u1
  None = None
  Ops = {o1, o2}
  AskedFor <- NoReads
  Users = {u1}
  Companies <- TwoCompanies
  EmployerOf <- OneUser
  GroupNames = {other}
  Kinds = {"createDevice", "createGroup", "setStatus", "updateCompany", "updateGroup", "deleteGroup", "deleteDevice", "deleteCompany", "read"}
  Faults = {"statement"}
  MaxTime = 1
  Ttl = 1
SYMMETRY Symmetry
INVARIANTS
  OneCategory
  OnlyLatecomersRemain
  TwinsCrossed
  
 
CHECK_DEADLOCK FALSE
