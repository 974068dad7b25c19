\* One run of the engine: two rounds of at most two tool calls.
SPECIFICATION Spec
CONSTANTS
  MaxIterations = 2
  MaxCalls = 2
  Threshold = 80
  Demands <- MCDemands
  Subjects <- MCSubjects
  Results <- MCResults
  Drafts <- MCDrafts
INVARIANTS
  TypeOK
  LifecycleRespected
  BudgetKept
  OutcomeAgrees
  CompletedIsCertified
  ScreenedDemandsAreFree
PROPERTIES
  VerdictIsFinal
  KeepsPromise
  FollowsOutline
