SPECIFICATION Spec
CONSTANTS
  c1 = c1
  c2 = c2
  a1 = a1
  a2 = a2
  e1 = e1
  e2 = e2
  Ops = {o1, o2, o3}
  Companies <- TwoCompanies
  Emails = {e1, e2, e3}
  Admins <- TwoAdmins
  AdminOf <- TwoAdminsOf
  AdminEmail <- TwoAdminEmails
  Roles = {"admin", "read_only"}
  OddRole = "auditor"
  None = None
  Kinds = {"createUser", "updateUser", "deleteUser", "deleteCompany"}
  Overlap = FALSE
  Faults = {"statement", "remote", "cleanup"}
SYMMETRY Symmetry
INVARIANTS
  InSync
  GrantsHaveUsers
  
  DeletedCompanyLeavesNothing
  
PROPERTY AccountsStayInTenant
CHECK_DEADLOCK FALSE
