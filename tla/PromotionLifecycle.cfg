SPECIFICATION PromotionSpec
CONSTANTS
  NumCandidates = 3
  ClassOf <- MCDrivers
  Outcomes = {"lost", "failed", "complete"}
  MaxConfirmations = 2
  SealedUses = 1
  DesktopSlots = 2
INVARIANTS
  PromotionTypeOK
  OneChampion
  PromotionsLeadToChampion
  PromotedOnEvidence
  ConfirmedOnce
  PrivateRunsAlone
PROPERTIES
  RolledBackStaysOut
  KeepsChampionLine
CHECK_DEADLOCK FALSE
