\* All requests end; one fault of any kind.  The service stops when every
\* request has ended and no fault is left, so a deadlock is expected.
SPECIFICATION FairSpec
CONSTANTS
  Requests <- MCRequests
  Keys <- MCKeys
  KeyOf <- MCKeyOf
  Invalid = {4}
  Screened = {3}
  MaxIterations = 1
  Absent = Absent
  Rejected = {2}
  Unsendable = {1}
  MaxFaults = 1
INVARIANTS
  ServiceTypeOK
  SnapshotMatchesAudit
  AnswerIsDurable
  FailureLeavesNothing
  NoOrphanSnapshot
PROPERTIES
  EveryRequestEnds
  EnginesFollowOutline
CHECK_DEADLOCK FALSE
