SPECIFICATION Spec
CONSTANTS
  c1 = c1
  c2 = c2
  o1 = o1
  o2 = o2
  Sessions = {"s"}
  Owners <- MCOwners
  NoOwner = "nobody"
  Clients <- MCClients
  Keepers = {"k"}
  Policies = {"window", "auto"}
  Hooks = {"h"}
SYMMETRY MCSymmetry
INVARIANTS
  SessionsTypeOK
  DeferredEndHasAGuard
  RunningIsRun
  PolicyEndsWithSession
  FirstCleanupExact
PROPERTIES
  KeepsContract
