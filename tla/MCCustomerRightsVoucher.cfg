\* May a voucher be promised for an order that is not express?
SPECIFICATION Spec
CONSTANTS
  TicksPerDay = 2
  MaxTick = 44
  MaxLag = 1
  MaxCalls = 3
  Estimated = 3
  ItemsTotal = 4000
  ShippingFees <- MCShippingFees
  NotDelivered = NotDelivered
INVARIANTS
  VoucherPromisesFollowPolicy
CHECK_DEADLOCK FALSE
