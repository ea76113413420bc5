SPECIFICATION PromotionSpec
CONSTANTS
  NumCandidates = 3
  ClassOf <- MCDrivers
  Outcomes = {"lost", "failed", "complete"}
  MaxConfirmations = 2
  SealedUses = 1
  DesktopSlots = 2
INVARIANTS
  ComparisonsCanComplete
CHECK_DEADLOCK FALSE
