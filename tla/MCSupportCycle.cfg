\* One cycle: two rounds of one tool call, two attempts of each call of the
\* model, one hidden repetition in each.  A cycle that has ended stops.
SPECIFICATION FairCycle
CONSTANTS
  MaxIterations = 2
  MaxCalls = 1
  Threshold = 80
  OrderIds = {1, 2}
  NoOrderId = NoOrderId
  Messages <- MCMessages
  Demands <- MCDemands
  Subjects <- MCSubjects
  Results <- MCResults
  Drafts <- MCDrafts
  MaxRetries = 2
  HiddenRetries = 1
INVARIANTS
  CycleTypeOK
  SpendIsBounded
  UsageIsReceived
  TransientFaultsAbsorbed
  NoDemandTurnedAway
PROPERTIES
  CycleEnds
CHECK_DEADLOCK FALSE
