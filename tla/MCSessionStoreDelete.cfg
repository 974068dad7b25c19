\* A delete during an outage, then Redis returns.
SPECIFICATION StoreSpec
CONSTANTS
  Keys = {k1}
  Payloads = {s1, s2}
  Absent = Absent
  TTL = 2
  MaxTime = 5
  MaxFaults = 3
SYMMETRY SnapshotSymmetry
INVARIANTS
  DeletedStaysDeleted
