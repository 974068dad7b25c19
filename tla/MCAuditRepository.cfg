\* Four records of two sessions; the database refuses one of them, its driver
\* another.
SPECIFICATION AuditSpec
CONSTANTS
  Records <- MCRecords
  Sessions = {"one", "other"}
  SessionOf <- MCSessionOf
  Rejected = {2}
  Unsendable = {3}
  MaxAuditFaults = 3
INVARIANTS
  AuditTypeOK
  CompleteWithinProcess
  NothingInvented
  HiddenOnlyByRows
