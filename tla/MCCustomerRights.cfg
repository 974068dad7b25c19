\* Orders and emails over 22 days of two ticks.
SPECIFICATION Spec
CONSTANTS
  TicksPerDay = 2
  MaxTick = 44
  MaxLag = 1
  MaxCalls = 3
  Estimated = 3
  ItemsTotal = 4000
  ShippingFees <- MCShippingFees
  NotDelivered = NotDelivered
INVARIANTS
  RightsTypeOK
  WindowHonoured
  NothingAboveThePrice
  VouchersAreForLateExpress
  RefusalIsFinal
CHECK_DEADLOCK FALSE
