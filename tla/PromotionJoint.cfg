SPECIFICATION PromotionSpec
CONSTANTS
  NumCandidates = 4
  ClassOf <- MCJoint
  Outcomes = {"complete"}
  MaxConfirmations = 2
  SealedUses = 0
  DesktopSlots = 1
INVARIANTS
  OpenWorkIsForLiveCandidates
CHECK_DEADLOCK FALSE
