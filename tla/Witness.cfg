SPECIFICATION FairSpec
CONSTANTS
  a1 = a1
  a2 = a2
  a3 = a3
  Agents = {a1, a2, a3}
  Unsigned = {a3}
  None = None
  Unreadable = Unreadable
  Attempts = 2
  MaxReceipts = 2
  MaxArchives = 1
  MaxSeq = 3
  MaxRounds = 2
  MaxIssued = 5
  MaxCrashes = 1
INVARIANTS OneReceiptPerCheckpoint ReceiptsInv
PROPERTIES ImplementsRegistry SubmissionEnds
CHECK_DEADLOCK FALSE
