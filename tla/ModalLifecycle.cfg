SPECIFICATION ModalFairSpec
CONSTANTS
  NumReservations = 1
  NumBills = 0
  NumGroups = 0
  Amounts = {1}
  Costs = {0}
  MaxTime = 2
  Receipts <- MCSettlements
  TotalLimit <- MCTotalLimit
  NormalLimit <- MCNormalLimit
  NumJobs = 1
  CampaignKinds = {"training"}
  GroupLimit <- MCGroupLimit
  Timeouts = {1}
  CleanupGrace = 1
  CampaignDeadline = 2
  Providers = {1, 2}
  Results = {1}
  Evidence = {1, 2}
  MaxCrashes = 2
INVARIANTS
  ModalTypeOK
  OneSandbox
  JournalsAgree
PROPERTIES
  KeepsProvision
  AcknowledgedWorkIsCleaned
CHECK_DEADLOCK FALSE
