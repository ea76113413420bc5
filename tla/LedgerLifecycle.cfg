SPECIFICATION Spec
CONSTANTS
  r1 = r1
  r2 = r2
  NumReservations = 2
  NumBills = 2
  NumGroups = 2
  Amounts = {1, 2}
  Costs = {0, 3}
  MaxTime = 1
  Receipts <- MCReceipts
  TotalLimit <- MCTotalLimit
  NormalLimit <- MCNormalLimit
SYMMETRY ReceiptSymmetry
INVARIANTS
  TypeOK
  LedgerSound
  AccountingBalances
  BillsCountedOnce
PROPERTIES
  AccountedUsageIsFinal
CHECK_DEADLOCK FALSE
