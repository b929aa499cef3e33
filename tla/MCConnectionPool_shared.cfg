SPECIFICATION PoolFairSpec
CONSTANTS
  Registrations = {r1, r2, r3}
  Readers = {q1, q2}
  Connections = {k1, k2}
  NoConnection = NoConnection
INVARIANTS
  StandstillIsLookups
  
PROPERTIES
  EveryWaitEnds
  EveryRegistrationEnds
CHECK_DEADLOCK FALSE
