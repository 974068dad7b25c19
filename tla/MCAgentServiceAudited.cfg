\* A run whose engine raises.
SPECIFICATION Spec
CONSTANTS
  Requests <- MCRequests
  Keys <- MCKeys
  KeyOf <- MCKeyOf
  Invalid = {4}
  Screened = {3}
  MaxIterations = 1
  Absent = Absent
  Rejected = {2}
  Unsendable = {1}
  MaxFaults = 1
INVARIANTS
  EveryCycleAudited
CHECK_DEADLOCK FALSE
