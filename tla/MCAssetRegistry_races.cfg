SPECIFICATION Spec
CONSTANTS
  c1 = c1
  c2 = c2
  u1 = u1
  u2 = u2
  None = None
  Companies <- TwoCompanies
  Urns <- TwoUrns
  UrnsOf <- OwnUrns
  Ops = {o1, o2, o3}
  Locals = {}
  Keys = {k1}
  Kinds <- AllKinds
  Reissue = FALSE
  Faults = {"statement", "mint", "lostReply", "cleanup"}
SYMMETRY Symmetry
INVARIANTS
  DanglingIsARace
  MintedFactoriesHoldTheirId
  IdsAreAccountedFor
 
CHECK_DEADLOCK FALSE
