\* One key, three faults, a time to live that runs out twice.
SPECIFICATION StoreSpec
CONSTANTS
  Keys = {k1}
  Payloads = {s1, s2}
  Absent = Absent
  TTL = 2
  MaxTime = 5
  MaxFaults = 3
SYMMETRY SnapshotSymmetry
INVARIANTS
  StoreTypeOK
  NoStaleRead
  SurvivesRestart
  OutageReadsAreFresh
