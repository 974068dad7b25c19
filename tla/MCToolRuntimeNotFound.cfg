\* A "not found" is raised at once?
SPECIFICATION Spec
CONSTANTS
  Keys <- MCKeys
  Payloads <- MCPayloads
  Absent = Absent
  TTL = 1
  MaxTime = 2
  MaxFaults = 1
  Calls <- MCCalls
  NoKey = NoKey
  c1 = c1
  c2 = c2
  c3 = c3
  Catalog = {"owner", "other", "ill typed"}
  WellTyped = {"owner", "other", "unknown"}
  Sender <- MCSender
  Orders = {"CMD-10500"}
  OrderOf <- MCOrderOf
  LooksTransient = {"CMD-10500"}
  NoOrder = NoOrder
  NoOwner = "no owner"
  Cached = TRUE
  MaxAttempts = 2
  MaxEdits = 1
SYMMETRY MCSymmetry
INVARIANTS
  NotFoundFailsFast
CHECK_DEADLOCK FALSE
