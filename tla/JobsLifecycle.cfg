SPECIFICATION JobsSpec
CONSTANTS
  e1 = e1
  e2 = e2
  NumReservations = 2
  NumBills = 1
  NumGroups = 1
  Amounts = {1}
  Costs = {0, 2}
  MaxTime = 2
  Receipts <- MCSettlements
  TotalLimit <- MCTotalLimit
  NormalLimit <- MCNormalLimit
  NumJobs = 2
  CampaignKinds = {"evaluation", "training", "research"}
  GroupLimit <- MCGroupLimit
  Timeouts = {1}
  CleanupGrace = 1
  CampaignDeadline = 2
  Providers = {1}
  Results = {1}
  Evidence <- MCEvidence
SYMMETRY MCEvidenceSymmetry
INVARIANTS
  JobsTypeOK
  SlotsRespected
  HoldsFollowJobs
  RefundsAreForWorkThatNeverRan
PROPERTIES
  JobsOnlyAdvance
CHECK_DEADLOCK FALSE
