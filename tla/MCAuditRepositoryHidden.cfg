\* Two records of one session, the second refused, then a restart.
SPECIFICATION AuditSpec
CONSTANTS
  Records <- MCRecords
  Sessions = {"one", "other"}
  SessionOf <- MCSessionOf
  Rejected = {2}
  Unsendable = {}
  MaxAuditFaults = 3
INVARIANTS
  NoRecordHidden
