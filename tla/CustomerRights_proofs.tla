----------------------- MODULE CustomerRights_proofs ------------------------
(***************************************************************************)
(* What the calculators grant, for every calendar (ticks per day), order,  *)
(* estimate and length of a session.  The calculators compare dates, the   *)
(* rights are stated in elapsed time: the lemmas on days relate the two.   *)
(* The invariant says that every tool result of a session is one the       *)
(* calculators give for the order as it is, or for what a call says of it  *)
(* that leaves optional arguments out (EvidenceIsCurrent), and that a      *)
(* window that was found closed has closed (ClosedForGood).                *)
(***************************************************************************)
EXTENDS CustomerRights, TLAPS

(* A tick lies within its day (business_rules.py, _to_utc_date). *)
LEMMA DayOfTick ==
  ASSUME NEW t \in Nat
  PROVE  /\ ToUtcDate(t) \in Nat
         /\ TicksPerDay * ToUtcDate(t) <= t
         /\ t < TicksPerDay * ToUtcDate(t) + TicksPerDay
<1>1. TicksPerDay \in Nat \ {0}
  BY RightsAssumption
<1>2. QED
  BY <1>1, SMT DEF ToUtcDate

(* Dates that are n days apart at most are less than n + 1 times 24 hours  *)
(* apart; dates more than n days apart are more than n times 24 hours.     *)
LEMMA DaysAgainstTicks ==
  ASSUME NEW s \in Nat, NEW t \in Nat, NEW n \in Nat
  PROVE  /\ ToUtcDate(t) - ToUtcDate(s) <= n => t - s < (n + 1) * TicksPerDay
         /\ ToUtcDate(t) - ToUtcDate(s) > n => t - s > n * TicksPerDay
         /\ t - s <= n * TicksPerDay => ToUtcDate(t) - ToUtcDate(s) <= n
<1> DEFINE T == TicksPerDay
           p == ToUtcDate(s)
           q == ToUtcDate(t)
<1>1. /\ T \in Nat /\ T >= 1 /\ p \in Nat /\ q \in Nat
      /\ T * p <= s /\ s < T * p + T /\ T * q <= t /\ t < T * q + T
  BY DayOfTick, RightsAssumption
<1> HIDE DEF T, p, q
<1>2. q - p <= n => T * q <= T * p + n * T
  BY <1>1, SMT
<1>3. q - p > n => T * q >= T * p + n * T + T
  BY <1>1, SMT
<1>4. /\ (n + 1) * T = n * T + T
      /\ n * T \in Nat /\ T * p \in Nat /\ T * q \in Nat
  BY <1>1, SMT
<1>5. /\ q - p <= n => t - s < (n + 1) * T
      /\ q - p > n => t - s > n * T
      /\ t - s <= n * T => q - p <= n
  BY <1>1, <1>2, <1>3, <1>4
<1>6. QED
  BY <1>5 DEF T, p, q

(* A later tick is on the same day or a later one. *)
LEMMA DaysAdvance ==
  ASSUME NEW s \in Nat, NEW t \in Nat, s <= t
  PROVE  ToUtcDate(s) <= ToUtcDate(t)
<1>1. s - t <= 0 * TicksPerDay
  BY RightsAssumption
<1>2. ToUtcDate(s) - ToUtcDate(t) <= 0
  BY <1>1, DaysAgainstTicks
<1>3. QED
  BY <1>2, DayOfTick

-----------------------------------------------------------------------------
(* The results the tools give a session, for the order as it is. *)
Reference == IF order.delivered = NotDelivered THEN now ELSE order.delivered

DaysLate == CalculateShippingDelay(Estimated, Reference).delay_days

DelayPayloads == {DelayPayload(Reference, a.express, a.fee) : a \in ExpressArguments}

RefundResult(delivery, items, a, days) ==
  CalculateStatutoryWithdrawal(delivery, asked, items, a.fee, a.express, days)

(* What the refund calculator gives calls with this delivery date or none. *)
ResultsFor(delivery) ==
  {RefundResult(delivery, items, a, days) :
     items \in {ItemsTotal, 0}, a \in ExpressArguments, days \in {0, DaysLate}}

RefundResults == ResultsFor(order.delivered) \cup ResultsFor(NotDelivered)

Trace(delivery, d) ==
  [arguments |-> [delivery_date |-> delivery], success |-> TRUE, error_code |-> NoReason,
   data |-> d]

Evidence ==
       {Trace(NotDelivered, d) :
          d \in {OrderDetails} \cup DelayPayloads \cup ResultsFor(NotDelivered)}
  \cup {Trace(order.delivered, d) : d \in ResultsFor(order.delivered)}

RightsTypes ==
  /\ now \in Nat /\ now <= MaxTick /\ expired \in BOOLEAN
  /\ asked \in Nat /\ (asked <= now \/ asked = NoEmail)
  /\ order \in [delivered: 0..now \cup {NotDelivered}, express: BOOLEAN, fee: ShippingFees]

EvidenceIsCurrent ==
  /\ traces \in Seq(Evidence)
  /\ traces # <<>> => asked <= now

Overdue(tick) ==
  /\ order.delivered # NotDelivered
  /\ ToUtcDate(tick) - ToUtcDate(order.delivered) > 14

ClosedForGood == expired => Overdue(now) /\ (asked <= now => Overdue(asked))

RightsInv == RightsTypes /\ EvidenceIsCurrent /\ ClosedForGood

(* What the payloads of a session are. *)
LEMMA PayloadsAreEvidence ==
  ASSUME RightsInv
  PROVE  Payloads(traces) \subseteq {OrderDetails} \cup DelayPayloads \cup RefundResults
<1> SUFFICES ASSUME NEW i \in DOMAIN traces
             PROVE  traces[i].data \in {OrderDetails} \cup DelayPayloads \cup RefundResults
  BY DEF Payloads
<1>1. traces[i] \in Evidence
  BY DEF RightsInv, EvidenceIsCurrent
<1>2. QED
  BY <1>1 DEF Evidence, Trace, RefundResults

(* A call that has the delivery date has that of the order. *)
LEMMA DatedAreOfOrder ==
  ASSUME RightsInv, NEW d \in DatedPayloads
  PROVE  order.delivered # NotDelivered /\ d \in ResultsFor(order.delivered)
<1>1. PICK i \in DOMAIN traces :
        traces[i].arguments.delivery_date # NotDelivered /\ d = traces[i].data
  BY DEF DatedPayloads
<1>2. traces[i] \in Evidence
  BY DEF RightsInv, EvidenceIsCurrent
<1>3. QED
  BY <1>1, <1>2 DEF Evidence, Trace

(* They are among the payloads of the session: every call succeeded. *)
LEMMA DatedArePayloads ==
  ASSUME RightsInv
  PROVE  DatedPayloads \subseteq Payloads(traces)
<1>1. \A i \in DOMAIN traces : traces[i] \in Evidence
  BY DEF RightsInv, EvidenceIsCurrent
<1>2. \A i \in DOMAIN traces : traces[i].success
  BY <1>1 DEF Evidence, Trace
<1>3. QED
  BY <1>2 DEF DatedPayloads, Payloads

(* The days late, and what a session passes as such.                       *)
LEMMA DaysLateIsNatural ==
  ASSUME RightsTypes
  PROVE  DaysLate \in Nat /\ Reference \in Nat
<1>1. Reference \in Nat
  BY DEF RightsTypes, Reference
<1>2. ToUtcDate(Reference) \in Nat /\ ToUtcDate(Estimated) \in Nat
  BY <1>1, DayOfTick, RightsAssumption
<1>3. QED
  BY <1>1, <1>2 DEF DaysLate, CalculateShippingDelay

(* The delay a payload states is none, or that of the order. *)
LEMMA DaysAreZeroOrLate ==
  ASSUME RightsInv, NEW d \in Payloads(traces)
  PROVE  ValueOr(d, "delay_days", 0) \in {0, DaysLate}
<1>1. CASE d = OrderDetails
  BY <1>1 DEF OrderDetails, ValueOr
<1>2. CASE d \in DelayPayloads
  BY <1>2 DEF DelayPayloads, DelayPayload, DaysLate, ValueOr
<1>3. CASE d \in RefundResults
  BY <1>3 DEF RefundResults, ResultsFor, RefundResult, CalculateStatutoryWithdrawal, ValueOr
<1>4. QED
  BY <1>1, <1>2, <1>3, PayloadsAreEvidence

(* The course of events starts without an email and without results. *)
LEMMA InitRights ==
  ASSUME Init
  PROVE  RightsInv
<1>1. now = 0 /\ asked = MaxTick + 1 /\ MaxTick \in Nat /\ traces = <<>> /\ expired = FALSE
  BY RightsAssumption DEF Init, NoEmail
<1>2. order \in [delivered: 0..now \cup {NotDelivered}, express: BOOLEAN, fee: ShippingFees]
  BY DEF Init
<1>3. RightsTypes
  <2>1. expired \in BOOLEAN
    BY <1>1
  <2>2. now \in Nat /\ now <= MaxTick /\ asked \in Nat /\ asked = NoEmail
    BY <1>1 DEF NoEmail
  <2>3. QED
    BY <1>2, <2>1, <2>2 DEF RightsTypes
<1>4. EvidenceIsCurrent /\ ClosedForGood
  BY <1>1 DEF EvidenceIsCurrent, ClosedForGood
<1>5. QED
  BY <1>3, <1>4 DEF RightsInv

(* A call of a tool adds a result for the order as it is.                  *)
LEMMA CallKeeps ==
  ASSUME RightsInv,
         GetOrderDetails \/ CalculateDeliveryDelay \/ CalculateRefundEligibility
  PROVE  RightsInv'
<1>1. UNCHANGED <<now, order, asked>> /\ asked <= now
  BY DEF GetOrderDetails, CalculateDeliveryDelay, CalculateRefundEligibility
<1>2. \E delivery, d : Answered(delivery, d) /\ Trace(delivery, d) \in Evidence
  <2>1. CASE GetOrderDetails
    BY <2>1 DEF GetOrderDetails, Evidence
  <2>2. CASE CalculateDeliveryDelay
    BY <2>2 DEF CalculateDeliveryDelay, DelayPayloads, Reference, Evidence
  <2>3. CASE CalculateRefundEligibility
    <3>1. PICK p \in RefundArguments, a \in ExpressArguments,
               days \in {0} \cup {ValueOr(e, "delay_days", 0) : e \in Payloads(traces)} :
                 Answered(p.delivery, RefundResult(p.delivery, p.items, a, days))
      BY <2>3 DEF CalculateRefundEligibility, RefundResult
    <3>2. /\ days \in {0, DaysLate} /\ p.items \in {ItemsTotal, 0}
          /\ p.delivery \in {order.delivered, NotDelivered}
      BY <3>1, DaysAreZeroOrLate DEF RefundArguments
    <3>3. RefundResult(p.delivery, p.items, a, days) \in ResultsFor(p.delivery)
      BY <3>1, <3>2 DEF ResultsFor
    <3>4. Trace(p.delivery, RefundResult(p.delivery, p.items, a, days)) \in Evidence
      BY <3>2, <3>3 DEF Evidence
    <3>5. QED
      BY <3>1, <3>4
  <2>4. QED
    BY <2>1, <2>2, <2>3
<1>3. traces' \in Seq(Evidence)
  <2>1. PICK delivery, d : Answered(delivery, d) /\ Trace(delivery, d) \in Evidence
    BY <1>2
  <2>2. traces' = Append(traces, Trace(delivery, d))
    BY <2>1 DEF Answered, Trace
  <2>3. QED
    BY <2>1, <2>2 DEF RightsInv, EvidenceIsCurrent
<1>4. Evidence' = Evidence
  BY <1>1 DEF Evidence, Trace, OrderDetails, DelayPayloads, DelayPayload, ResultsFor,
              RefundResult, DaysLate, Reference, ExpressArguments
<1>5. ClosedForGood'
  <2>1. CASE expired' = expired
    BY <1>1, <2>1 DEF RightsInv, ClosedForGood, Overdue
  <2>2. CASE expired' # expired
    <3>1. CalculateRefundEligibility
      BY <2>2 DEF GetOrderDetails, CalculateDeliveryDelay
    <3>2. PICK p \in RefundArguments, a \in ExpressArguments,
               days \in {0} \cup {ValueOr(e, "delay_days", 0) : e \in Payloads(traces)} :
                 expired' = (expired \/ RefundResult(p.delivery, p.items, a, days).reason_code
                                          = "TIMEFRAME_EXCEEDED")
      BY <3>1, Zenon DEF CalculateRefundEligibility, RefundResult
    <3>3. RefundResult(p.delivery, p.items, a, days).reason_code = "TIMEFRAME_EXCEEDED"
      BY <2>2, <3>2 DEF RightsInv, RightsTypes
    <3>4. /\ p.delivery # NotDelivered
          /\ ToUtcDate(p.delivery) <= ToUtcDate(asked)
          /\ ~(ToUtcDate(asked) - ToUtcDate(p.delivery) <= 14)
      BY <3>3 DEF RefundResult, CalculateStatutoryWithdrawal, ReasonCode, WithinWindow
    <3>5. /\ order.delivered # NotDelivered
          /\ ToUtcDate(order.delivered) <= ToUtcDate(asked)
          /\ ~(ToUtcDate(asked) - ToUtcDate(order.delivered) <= 14)
      <4>1. p.delivery = order.delivered
        BY <3>2, <3>4 DEF RefundArguments
      <4>2. QED
        BY <3>4, <4>1
    <3>6. /\ now \in Nat /\ asked \in Nat /\ order.delivered \in Nat
      BY <3>5 DEF RightsInv, RightsTypes
    <3>7. /\ ToUtcDate(asked) \in Nat /\ ToUtcDate(order.delivered) \in Nat
          /\ ToUtcDate(now) \in Nat /\ ToUtcDate(asked) <= ToUtcDate(now)
      BY <1>1, <3>6, DayOfTick, DaysAdvance
    <3>8. Overdue(asked) /\ Overdue(now)
      BY <3>5, <3>7 DEF Overdue
    <3>9. QED
      BY <1>1, <3>8 DEF ClosedForGood, Overdue
  <2>3. QED
    BY <2>1, <2>2
<1>6. RightsTypes'
  <2>1. expired' \in BOOLEAN
    BY DEF GetOrderDetails, CalculateDeliveryDelay, CalculateRefundEligibility, RightsInv,
           RightsTypes
  <2>2. QED
    BY <1>1, <2>1 DEF RightsInv, RightsTypes, NoEmail
<1>7. EvidenceIsCurrent'
  BY <1>1, <1>3, <1>4 DEF EvidenceIsCurrent
<1>8. QED
  BY <1>5, <1>6, <1>7 DEF RightsInv

(* The customer, the carrier and the clock move only between sessions, and *)
(* time does not open a window again.                                      *)
LEMMA WorldKeeps ==
  ASSUME RightsInv, CustomerWrites \/ SessionEnds \/ CarrierDelivers \/ TimePasses
  PROVE  RightsInv'
<1>0. /\ now \in Nat /\ MaxTick \in Nat /\ now <= MaxTick /\ asked \in Nat
      /\ asked <= now \/ asked = MaxTick + 1
      /\ NotDelivered \notin Int
  BY RightsAssumption DEF RightsInv, RightsTypes, NoEmail
<1>1. traces' = <<>> /\ (traces = <<>> \/ SessionEnds)
  BY <1>0 DEF CustomerWrites, SessionEnds, CarrierDelivers, TimePasses, RightsInv,
              EvidenceIsCurrent, NoEmail
<1>2. expired' = expired
  BY DEF CustomerWrites, SessionEnds, CarrierDelivers, TimePasses
<1>3. now' \in {now, now + 1} /\ now' <= MaxTick
  BY <1>0 DEF CustomerWrites, SessionEnds, CarrierDelivers, TimePasses
<1>4. \/ asked' = asked
      \/ asked' = MaxTick + 1
      \/ asked' = now /\ now' = now
  BY DEF CustomerWrites, SessionEnds, CarrierDelivers, TimePasses, NoEmail
<1>5. /\ order' = order \/ order.delivered = NotDelivered
      /\ order' \in [delivered: 0..now' \cup {NotDelivered}, express: BOOLEAN, fee: ShippingFees]
  <2>1. CASE order' = order
    BY <1>0, <1>3, <2>1 DEF RightsInv, RightsTypes
  <2>2. CASE CarrierDelivers
    BY <1>0, <2>2 DEF CarrierDelivers, RightsInv, RightsTypes
  <2>3. QED
    BY <2>1, <2>2 DEF CustomerWrites, SessionEnds, TimePasses
<1>6. RightsTypes'
  <2>1. expired' \in BOOLEAN
    BY <1>2 DEF RightsInv, RightsTypes
  <2>2. QED
    BY <1>0, <1>3, <1>4, <1>5, <2>1 DEF RightsTypes, NoEmail
<1>7. EvidenceIsCurrent'
  BY <1>1 DEF EvidenceIsCurrent
<1>8. ClosedForGood'
  <2> SUFFICES ASSUME expired
               PROVE  Overdue(now)' /\ ((asked <= now)' => Overdue(asked)')
    BY <1>2 DEF ClosedForGood
  <2>1. Overdue(now) /\ (asked <= now => Overdue(asked))
    BY DEF RightsInv, ClosedForGood
  <2>2. order' = order
    BY <1>5, <2>1 DEF Overdue
  <2>3. order.delivered \in Nat
    BY <1>0, <2>1 DEF Overdue, RightsInv, RightsTypes
  <2>4. Overdue(now')
    <3>1. /\ now' \in Nat /\ ToUtcDate(now) \in Nat /\ ToUtcDate(now') \in Nat
          /\ ToUtcDate(order.delivered) \in Nat /\ ToUtcDate(now) <= ToUtcDate(now')
      BY <1>0, <1>3, <2>3, DayOfTick, DaysAdvance
    <3>2. QED
      BY <2>1, <3>1 DEF Overdue
  <2>5. asked' <= now' => Overdue(asked')
    BY <1>0, <1>3, <1>4, <2>1, <2>4
  <2>6. QED
    BY <2>2, <2>4, <2>5 DEF Overdue
<1>9. QED
  BY <1>6, <1>7, <1>8 DEF RightsInv

(* The invariant holds of every course of events.                          *)
THEOREM RightsInvariant == Spec => []RightsInv
<1>1. RightsInv /\ [Next]_vars => RightsInv'
  <2> SUFFICES ASSUME RightsInv, [Next]_vars
               PROVE  RightsInv'
    OBVIOUS
  <2>1. CASE UNCHANGED vars
    <3>1. UNCHANGED <<Evidence, NoEmail>>
      BY <2>1 DEF vars, Evidence, Trace, OrderDetails, DelayPayloads, DelayPayload, ResultsFor,
                  RefundResult, DaysLate, Reference, ExpressArguments, NoEmail
    <3>2. QED
      BY <2>1, <3>1 DEF vars, RightsInv, RightsTypes, EvidenceIsCurrent, ClosedForGood, Overdue
  <2>2. QED
    BY <2>1, CallKeeps, WorldKeeps DEF Next
<1>2. QED
  BY <1>1, InitRights, PTL DEF Spec

-----------------------------------------------------------------------------
(* The voucher for some days of delay, given what a session says of express.*)
Voucher(a, days) == CalculateExpressCompensation(days, a.express, a.fee)

(* The order tool states the two sums of the order (order_status.py). *)
LEMMA OrderStates ==
  /\ DOMAIN OrderDetails = {"items_total_ttc_cents", "shipping_fee_ttc_cents"}
  /\ OrderDetails.items_total_ttc_cents = ItemsTotal
  /\ OrderDetails.shipping_fee_ttc_cents = order.fee
BY DEF OrderDetails

(* The delay tool states days late and a voucher for them (delay_calculator.py). *)
LEMMA DelayStates ==
  ASSUME NEW d \in DelayPayloads
  PROVE  \E a \in ExpressArguments :
           /\ DOMAIN d = {"delay_days", "is_delayed", "voucher_compensation_cents"}
           /\ d.delay_days = DaysLate
           /\ d.voucher_compensation_cents = Voucher(a, DaysLate)
BY DEF DelayPayloads, DelayPayload, DaysLate, Voucher

(* The refund tool states eligibility, a sum and a voucher: what follows   *)
(* from the delivery date a call has or leaves out (refund_calculator.py). *)
LEMMA RefundStates ==
  ASSUME RightsInv, NEW delivery \in {order.delivered, NotDelivered},
         NEW d \in ResultsFor(delivery)
  PROVE  /\ DOMAIN d = {"is_eligible_for_return", "days_elapsed",
                        "refundable_items_total_cents", "delay_compensation_voucher_cents",
                        "reason_code"}
         /\ d.is_eligible_for_return <=>
              /\ delivery # NotDelivered
              /\ ToUtcDate(delivery) <= ToUtcDate(asked)
              /\ ToUtcDate(asked) - ToUtcDate(delivery) <= 14
         /\ d.refundable_items_total_cents \in {0, ItemsTotal}
         /\ ~d.is_eligible_for_return => d.refundable_items_total_cents = 0
         /\ d.days_elapsed \in Nat
         /\ \E a \in ExpressArguments, days \in {0, DaysLate} :
              d.delay_compensation_voucher_cents = Voucher(a, days)
         /\ ~d.is_eligible_for_return /\ delivery # NotDelivered
              /\ ToUtcDate(delivery) <= ToUtcDate(asked) =>
              d.reason_code \in {"TIMEFRAME_EXCEEDED", "EXPRESS_DELAY_COMPENSATED"}
<1>1. PICK items \in {ItemsTotal, 0}, a \in ExpressArguments, days \in {0, DaysLate} :
        d = RefundResult(delivery, items, a, days)
  BY DEF ResultsFor
<1> DEFINE arrived == delivery # NotDelivered /\ ToUtcDate(delivery) <= ToUtcDate(asked)
           elapsed == IF arrived THEN ToUtcDate(asked) - ToUtcDate(delivery) ELSE 0
           eligible == arrived /\ WithinWindow(elapsed)
<1>2. d = [is_eligible_for_return |-> eligible,
           days_elapsed |-> elapsed,
           refundable_items_total_cents |-> IF eligible THEN items ELSE 0,
           delay_compensation_voucher_cents |-> Voucher(a, days),
           reason_code |-> IF eligible THEN "WITHIN_LEGAL_TIMEFRAME"
                           ELSE ReasonCode(Voucher(a, days),
                                           IF arrived THEN "TIMEFRAME_EXCEEDED"
                                           ELSE "NOT_DELIVERED_YET")]
  BY <1>1 DEF RefundResult, CalculateStatutoryWithdrawal, Voucher
<1>3. eligible <=> /\ delivery # NotDelivered
                   /\ ToUtcDate(delivery) <= ToUtcDate(asked)
                   /\ ToUtcDate(asked) - ToUtcDate(delivery) <= 14
  BY DEF WithinWindow
<1>4. arrived => ReasonCode(Voucher(a, days), IF arrived THEN "TIMEFRAME_EXCEEDED"
                                              ELSE "NOT_DELIVERED_YET")
                   \in {"TIMEFRAME_EXCEEDED", "EXPRESS_DELAY_COMPENSATED"}
  BY DEF ReasonCode
<1>5. elapsed \in Nat
  <2>1. arrived => ToUtcDate(delivery) \in Nat /\ ToUtcDate(asked) \in Nat
    BY DayOfTick DEF RightsInv, RightsTypes
  <2>2. QED
    BY <2>1
<1> HIDE DEF eligible, elapsed
<1>6. /\ DOMAIN d = {"is_eligible_for_return", "days_elapsed",
                     "refundable_items_total_cents", "delay_compensation_voucher_cents",
                     "reason_code"}
      /\ d.is_eligible_for_return = eligible
      /\ d.days_elapsed = elapsed
      /\ d.refundable_items_total_cents = IF eligible THEN items ELSE 0
      /\ d.delay_compensation_voucher_cents = Voucher(a, days)
      /\ ~eligible => d.reason_code = ReasonCode(Voucher(a, days),
                                        IF arrived THEN "TIMEFRAME_EXCEEDED"
                                        ELSE "NOT_DELIVERED_YET")
  BY <1>2
<1>7. d.refundable_items_total_cents \in {0, ItemsTotal}
  BY <1>6
<1>8. QED
  BY <1>3, <1>4, <1>5, <1>6, <1>7

(* Whichever of its arguments a call leaves out, its result is eligible    *)
(* only within the window of the order, and its sums are bounded.          *)
LEMMA RefundBounds ==
  ASSUME RightsInv, NEW d \in RefundResults
  PROVE  /\ DOMAIN d = {"is_eligible_for_return", "days_elapsed",
                        "refundable_items_total_cents", "delay_compensation_voucher_cents",
                        "reason_code"}
         /\ d.is_eligible_for_return =>
              /\ order.delivered # NotDelivered
              /\ ToUtcDate(asked) - ToUtcDate(order.delivered) <= 14
         /\ d.refundable_items_total_cents \in {0, ItemsTotal}
         /\ ~d.is_eligible_for_return => d.refundable_items_total_cents = 0
         /\ d.days_elapsed \in Nat
         /\ \E a \in ExpressArguments, days \in {0, DaysLate} :
              d.delay_compensation_voucher_cents = Voucher(a, days)
<1>1. PICK delivery \in {order.delivered, NotDelivered} : d \in ResultsFor(delivery)
  BY DEF RefundResults
<1>2. d.is_eligible_for_return => delivery = order.delivered
  BY <1>1, RefundStates
<1>3. QED
  BY <1>1, <1>2, RefundStates

(* A voucher is nothing or the whole fee of an express order that is more  *)
(* than five days late (business_rules.py line 188).                       *)
LEMMA VoucherStates ==
  ASSUME RightsInv, NEW a \in ExpressArguments, NEW days \in {0, DaysLate}
  PROVE  /\ Voucher(a, days) \in {0, order.fee}
         /\ Voucher(a, days) > 0 => order.express /\ DaysLate > 5
         /\ order.fee \in Nat
<1>1. order.fee \in Nat /\ order.express \in BOOLEAN
  BY RightsAssumption DEF RightsInv, RightsTypes
<1>2. a.express \in {order.express, FALSE} /\ a.fee \in {order.fee, 0}
  BY DEF ExpressArguments
<1>3. a.express => order.express
  BY <1>2
<1>4. DaysLate \in Nat
  BY DaysLateIsNatural DEF RightsInv
<1>5. Voucher(a, days) = IF a.express /\ days > 5 THEN a.fee ELSE 0
  BY DEF Voucher, CalculateExpressCompensation
<1>6. CASE a.express /\ days > 5
  BY <1>1, <1>2, <1>3, <1>4, <1>5, <1>6
<1>7. CASE ~(a.express /\ days > 5)
  BY <1>1, <1>5, <1>7
<1>8. QED
  BY <1>6, <1>7

(* A refund is authorized exactly when a refund result is eligible, and    *)
(* what the others state does not count (validator_rules.py lines 148-158).*)
LEMMA AuthorizedIsEligible ==
  ASSUME RightsInv
  PROVE  /\ RefundAuthorized(traces) =>
              \E d \in RefundResults : d.is_eligible_for_return
         /\ RefundPayloads \subseteq RefundResults
         /\ \A d \in RefundPayloads : d.is_eligible_for_return => RefundAuthorized(traces)
<1>1. ASSUME NEW d \in Payloads(traces), d \notin RefundResults
      PROVE  /\ "is_eligible_for_return" \notin DOMAIN d
             /\ "refundable_items_total_cents" \notin DOMAIN d
  <2>1. d = OrderDetails \/ d \in DelayPayloads
    BY <1>1, PayloadsAreEvidence
  <2>2. QED
    BY <2>1, OrderStates, DelayStates
<1>2. ASSUME NEW d \in RefundResults
      PROVE  /\ ValueOr(d, "is_eligible_for_return", FALSE) = d.is_eligible_for_return
             /\ ValueOr(d, "refundable_items_total_cents", 0) =
                  d.refundable_items_total_cents
  BY RefundBounds DEF ValueOr
<1>3. ASSUME RefundAuthorized(traces)
      PROVE  \E d \in RefundResults : d.is_eligible_for_return
  <2>1. PICK d \in Payloads(traces) :
          \/ ValueOr(d, "is_eligible_for_return", FALSE)
          \/ ValueOr(d, "refundable_items_total_cents", 0) > 0
    BY <1>3 DEF RefundAuthorized
  <2>2. d \in RefundResults
    BY <1>1, <2>1 DEF ValueOr
  <2>3. d.is_eligible_for_return \/ d.refundable_items_total_cents > 0
    BY <1>2, <2>1, <2>2
  <2>4. d.is_eligible_for_return
    BY <2>2, <2>3, RefundBounds
  <2>5. QED
    BY <2>2, <2>4
<1>4. RefundPayloads \subseteq RefundResults
  BY <1>1 DEF RefundPayloads
<1>5. \A d \in RefundPayloads : d.is_eligible_for_return => RefundAuthorized(traces)
  BY <1>2, <1>4 DEF RefundPayloads, RefundAuthorized
<1>6. QED
  BY <1>3, <1>4, <1>5

(* The withdrawal right in elapsed time, for every number of ticks in a    *)
(* day: calendar dates neither shorten the fourteen days nor add more than *)
(* one, for the calls that have the date of delivery; no other promises a  *)
(* refund (business_rules.py diff_days, validator_rules.py).               *)
THEOREM WindowSafe == Spec => []WindowHonoured
<1>1. RightsInv => WindowHonoured
  <2> SUFFICES ASSUME RightsInv
               PROVE  WindowHonoured
    OBVIOUS
  <2>1. /\ asked \in Nat
        /\ order.delivered # NotDelivered => order.delivered \in Nat
    BY DEF RightsInv, RightsTypes
  <2>2. ASSUME RefundAuthorized(traces)
        PROVE  order.delivered # NotDelivered /\ asked - order.delivered < 15 * TicksPerDay
    <3>1. PICK d \in RefundResults : d.is_eligible_for_return
      BY <2>2, AuthorizedIsEligible
    <3>2. /\ order.delivered # NotDelivered
          /\ ToUtcDate(asked) - ToUtcDate(order.delivered) <= 14
      BY <3>1, RefundBounds
    <3>3. QED
      BY <2>1, <3>2, DaysAgainstTicks
  <2>3. ASSUME DatedPayloads # {},
               asked - order.delivered \in 0..(14 * TicksPerDay)
        PROVE  RefundAuthorized(traces)
    <3>1. PICK d \in DatedPayloads : d \in ResultsFor(order.delivered)
      BY <2>3, DatedAreOfOrder
    <3>2. order.delivered # NotDelivered /\ order.delivered \in Nat
      BY <2>1, <3>1, DatedAreOfOrder
    <3>3. asked - order.delivered <= 14 * TicksPerDay /\ order.delivered <= asked
      BY <2>1, <2>3, <3>2, RightsAssumption
    <3>4. /\ ToUtcDate(asked) - ToUtcDate(order.delivered) <= 14
          /\ ToUtcDate(order.delivered) <= ToUtcDate(asked)
      BY <2>1, <3>2, <3>3, DaysAgainstTicks, DaysAdvance
    <3>5. d.is_eligible_for_return /\ "is_eligible_for_return" \in DOMAIN d
      BY <3>1, <3>2, <3>4, RefundStates
    <3>6. d \in RefundPayloads
      BY <3>1, <3>5, DatedArePayloads DEF RefundPayloads
    <3>7. QED
      BY <3>5, <3>6, AuthorizedIsEligible
  <2>4. QED
    BY <2>2, <2>3 DEF WindowHonoured
<1>2. QED
  BY <1>1, RightsInvariant, PTL

(* A refusal because the window has closed is final: no later call finds   *)
(* the order eligible, and none that has the delivery date says it is not  *)
(* delivered (business_rules.py lines 76-123).                             *)
THEOREM RefusalsAreFinal == Spec => []RefusalIsFinal
<1>1. RightsInv => RefusalIsFinal
  <2> SUFFICES ASSUME RightsInv, expired, NEW d \in RefundPayloads \cup DatedPayloads
               PROVE  /\ ~d.is_eligible_for_return
                      /\ d \in DatedPayloads =>
                           d.reason_code \in {"TIMEFRAME_EXCEEDED", "EXPRESS_DELAY_COMPENSATED"}
    BY DEF RefusalIsFinal
  <2>1. d \in Payloads(traces) /\ traces # <<>>
    BY DatedArePayloads DEF RefundPayloads, Payloads
  <2>2. Overdue(asked)
    BY <2>1 DEF RightsInv, EvidenceIsCurrent, ClosedForGood
  <2>3. /\ asked \in Nat /\ order.delivered \in Nat
    BY <2>2 DEF Overdue, RightsInv, RightsTypes
  <2>4. ToUtcDate(asked) \in Nat /\ ToUtcDate(order.delivered) \in Nat
    BY <2>3, DayOfTick
  <2>5. /\ order.delivered # NotDelivered
        /\ ToUtcDate(order.delivered) <= ToUtcDate(asked)
        /\ ~(ToUtcDate(asked) - ToUtcDate(order.delivered) <= 14)
    BY <2>2, <2>4 DEF Overdue
  <2>6. d \in RefundResults
    BY AuthorizedIsEligible, DatedAreOfOrder DEF RefundResults
  <2>7. ~d.is_eligible_for_return
    BY <2>5, <2>6, RefundBounds
  <2>8. ASSUME d \in DatedPayloads
        PROVE  d.reason_code \in {"TIMEFRAME_EXCEEDED", "EXPRESS_DELAY_COMPENSATED"}
    BY <2>5, <2>7, <2>8, DatedAreOfOrder, RefundStates
  <2>9. QED
    BY <2>7, <2>8
<1>2. QED
  BY <1>1, RightsInvariant, PTL

(* A voucher is stated only for an express order that is late by more than *)
(* five times 24 hours, and is its fee, for every number of ticks in a day *)
(* (business_rules.py line 188).                                           *)
THEOREM VouchersForLateExpress == Spec => []VouchersAreForLateExpress
<1>1. RightsInv => VouchersAreForLateExpress
  <2> SUFFICES ASSUME RightsInv, NEW d \in Payloads(traces),
                      NEW k \in {"voucher_compensation_cents",
                                 "delay_compensation_voucher_cents"},
                      ValueOr(d, k, 0) > 0
               PROVE  /\ d[k] = order.fee /\ order.express
                      /\ Reference - Estimated > 5 * TicksPerDay
    BY DEF VouchersAreForLateExpress, Reference
  <2>1. k \in DOMAIN d /\ d[k] > 0
    BY DEF ValueOr
  <2>2. PICK a \in ExpressArguments, days \in {0, DaysLate} : d[k] = Voucher(a, days)
    <3>1. CASE d = OrderDetails
      BY <2>1, <3>1, OrderStates
    <3>2. CASE d \in DelayPayloads
      BY <2>1, <3>2, DelayStates
    <3>3. CASE d \in RefundResults
      BY <2>1, <3>3, RefundBounds
    <3>4. QED
      BY <3>1, <3>2, <3>3, PayloadsAreEvidence
  <2>3. d[k] = order.fee /\ order.express /\ DaysLate > 5
    BY <2>1, <2>2, VoucherStates
  <2>4. Reference \in Nat /\ Estimated \in Nat
    BY DaysLateIsNatural, RightsAssumption DEF RightsInv
  <2>5. ToUtcDate(Reference) - ToUtcDate(Estimated) > 5
    <3>1. ToUtcDate(Reference) \in Nat /\ ToUtcDate(Estimated) \in Nat
      BY <2>4, DayOfTick
    <3>2. QED
      BY <2>3, <3>1 DEF DaysLate, CalculateShippingDelay
  <2>6. Reference - Estimated > 5 * TicksPerDay
    BY <2>4, <2>5, DaysAgainstTicks
  <2>7. QED
    BY <2>3, <2>6
<1>2. QED
  BY <1>1, RightsInvariant, PTL

(* No amount the guard certifies, sums of two fields included, exceeds the *)
(* price of the order (validator_rules.py lines 101-128).                  *)
THEOREM NothingAbovePrice == Spec => []NothingAboveThePrice
<1>1. RightsInv => NothingAboveThePrice
  <2> SUFFICES ASSUME RightsInv, NEW x \in CertifiedAmounts(traces)
               PROVE  x <= ItemsTotal + order.fee
    BY DEF NothingAboveThePrice
  <2>1. ItemsTotal \in Nat /\ order.fee \in Nat
    BY RightsAssumption DEF RightsInv, RightsTypes
  <2>2. CASE x = 0
    BY <2>1, <2>2
  <2>3. ASSUME NEW d \in Payloads(traces), x \in AmountsIn(d)
        PROVE  x <= ItemsTotal + order.fee
    <3>1. CASE d = OrderDetails
      <4>1. x \in {ItemsTotal, order.fee, ItemsTotal + order.fee}
        BY <2>3, <3>1, OrderStates DEF AmountsIn, MonetaryKey, SumOfBoth
      <4>2. QED
        BY <2>1, <4>1
    <3>2. CASE d \in DelayPayloads
      <4>1. PICK a \in ExpressArguments :
              /\ DOMAIN d = {"delay_days", "is_delayed", "voucher_compensation_cents"}
              /\ d.voucher_compensation_cents = Voucher(a, DaysLate)
        BY <3>2, DelayStates
      <4>2. x = Voucher(a, DaysLate)
        BY <2>3, <4>1 DEF AmountsIn, MonetaryKey, SumOfBoth
      <4>3. QED
        BY <2>1, <4>2, VoucherStates
    <3>3. CASE d \in RefundResults
      <4> DEFINE items == d.refundable_items_total_cents
                 voucher == d.delay_compensation_voucher_cents
      <4>1. items \in {0, ItemsTotal} /\ voucher \in {0, order.fee}
        BY <3>3, RefundBounds, VoucherStates
      <4>2. x \in {items, voucher, items + voucher}
        BY <2>3, <3>3, RefundBounds DEF AmountsIn, MonetaryKey, SumOfBoth
      <4> HIDE DEF items, voucher
      <4>3. QED
        BY <2>1, <4>1, <4>2
    <3>4. QED
      BY <3>1, <3>2, <3>3, PayloadsAreEvidence
  <2>4. QED
    BY <2>2, <2>3 DEF CertifiedAmounts
<1>2. QED
  BY <1>1, RightsInvariant, PTL

-----------------------------------------------------------------------------
(* Every variable keeps its type, and every amount and number of days a    *)
(* payload states is a natural number, early deliveries and requests older *)
(* than the delivery included (business_rules.py diff_days).               *)
THEOREM RightsTypeCorrect == Spec => []RightsTypeOK
<1>1. RightsInv => RightsTypeOK
  <2> SUFFICES ASSUME RightsInv
               PROVE  RightsTypeOK
    OBVIOUS
  <2>1. ItemsTotal \in Nat /\ order.fee \in Nat /\ DaysLate \in Nat
    BY DaysLateIsNatural, RightsAssumption DEF RightsInv, RightsTypes
  <2>2. ASSUME NEW d \in Payloads(traces),
               NEW k \in (MonetaryKey \cup {"delay_days", "days_elapsed"}) \cap DOMAIN d
        PROVE  d[k] \in Nat
    <3>1. CASE d = OrderDetails
      <4>1. k \in {"items_total_ttc_cents", "shipping_fee_ttc_cents"}
        BY <3>1, OrderStates
      <4>2. QED
        BY <2>1, <3>1, <4>1, OrderStates
    <3>2. CASE d \in DelayPayloads
      <4>1. PICK a \in ExpressArguments :
              /\ DOMAIN d = {"delay_days", "is_delayed", "voucher_compensation_cents"}
              /\ d.delay_days = DaysLate
              /\ d.voucher_compensation_cents = Voucher(a, DaysLate)
        BY <3>2, DelayStates
      <4>2. k \in {"delay_days", "voucher_compensation_cents"}
        BY <4>1 DEF MonetaryKey
      <4>3. Voucher(a, DaysLate) \in Nat
        BY <2>1, VoucherStates
      <4>4. QED
        BY <2>1, <4>1, <4>2, <4>3
    <3>3. CASE d \in RefundResults
      <4>1. /\ d.refundable_items_total_cents \in {0, ItemsTotal}
            /\ d.delay_compensation_voucher_cents \in {0, order.fee}
            /\ d.days_elapsed \in Nat
        BY <3>3, RefundBounds, VoucherStates
      <4>2. k \in {"refundable_items_total_cents", "delay_compensation_voucher_cents",
                   "days_elapsed"}
        BY <3>3, RefundBounds DEF MonetaryKey
      <4>3. QED
        BY <2>1, <4>1, <4>2
    <3>4. QED
      BY <3>1, <3>2, <3>3, PayloadsAreEvidence
  <2>3. now \in 0..MaxTick /\ asked \in 0..NoEmail
    BY RightsAssumption DEF RightsInv, RightsTypes, NoEmail
  <2>4. order.delivered \in 0..now \cup {NotDelivered}
    BY DEF RightsInv, RightsTypes
  <2>5. QED
    BY <2>2, <2>3, <2>4 DEF RightsTypeOK
<1>2. QED
  BY <1>1, RightsInvariant, PTL

-----------------------------------------------------------------------------
(* What a text may say about the order: no amount above its price, no      *)
(* change of the order, a refund only within 15 times 24 hours of the      *)
(* delivery, a voucher only for more than five times 24 hours of delay.    *)
Rightful(subject, body) ==
  /\ \A x \in MonetaryAmounts(subject, body) : x <= ItemsTotal + order.fee
  /\ ~MutationClaimed(subject, body)
  /\ "refund" \in ApprovalClaims(subject, body) =>
       order.delivered # NotDelivered /\ asked - order.delivered < 15 * TicksPerDay
  /\ "voucher" \in ApprovalClaims(subject, body) => Reference - Estimated > 5 * TicksPerDay

(* The reply that is assembled from a draft, whatever the draft says.      *)
RepliesKeepToRights ==
  \A draft \in Reply, threshold \in Nat, calls \in Nat :
    LET reply == CertifiedResponse(draft, traces, threshold, calls) IN
    /\ reply.body = SafeBody \/ Rightful(reply.subject, reply.body)
    /\ reply.status = "RESOLVED_AUTOMATICALLY" => Rightful(reply.subject, reply.body)

(* A voucher is authorized by an amount, which is granted for more than    *)
(* five days of delay only, or by the days themselves: it takes more than  *)
(* five times 24 hours either way (validator_rules.py lines 160-172).      *)
LEMMA VoucherTakesDelay ==
  ASSUME RightsInv, VouchersAreForLateExpress, VoucherAuthorized(traces)
  PROVE  Reference - Estimated > 5 * TicksPerDay
<1>1. PICK d \in Payloads(traces) :
        \/ ValueOr(d, "delay_compensation_voucher_cents", 0) > 0
        \/ ValueOr(d, "voucher_granted", FALSE)
        \/ ValueOr(d, "delay_days", 0) > 5 /\ ValueOr(d, "is_delayed", FALSE)
  BY DEF VoucherAuthorized
<1>2. CASE ValueOr(d, "delay_compensation_voucher_cents", 0) > 0
  BY <1>2 DEF VouchersAreForLateExpress, Reference
<1>3. ~ValueOr(d, "voucher_granted", FALSE)
  <2>1. "voucher_granted" \notin DOMAIN d
    BY PayloadsAreEvidence, OrderStates, DelayStates, RefundBounds
  <2>2. QED
    BY <2>1 DEF ValueOr
<1>4. CASE ValueOr(d, "delay_days", 0) > 5
  <2>1. DaysLate > 5
    BY <1>4, DaysAreZeroOrLate
  <2>2. Reference \in Nat /\ Estimated \in Nat
    BY DaysLateIsNatural, RightsAssumption DEF RightsInv
  <2>3. ToUtcDate(Reference) \in Nat /\ ToUtcDate(Estimated) \in Nat
    BY <2>2, DayOfTick
  <2>4. ToUtcDate(Reference) - ToUtcDate(Estimated) > 5
    BY <2>1, <2>3 DEF DaysLate, CalculateShippingDelay
  <2>5. QED
    BY <2>2, <2>4, DaysAgainstTicks
<1>5. QED
  BY <1>1, <1>2, <1>3, <1>4

(* A text without violation keeps to the rights.                           *)
LEMMA CertifiedIsRightful ==
  ASSUME RightsInv, WindowHonoured, NothingAboveThePrice, VouchersAreForLateExpress,
         NEW reply, Violations(reply, traces) = {}
  PROVE  Rightful(reply.subject, reply.body)
<1> DEFINE claims == ApprovalClaims(reply.subject, reply.body)
<1>1. /\ MonetaryAmounts(reply.subject, reply.body) \subseteq CertifiedAmounts(traces)
      /\ ~MutationClaimed(reply.subject, reply.body)
      /\ "refund" \in claims => RefundAuthorized(traces)
      /\ "voucher" \in claims => VoucherAuthorized(traces)
  BY Zenon DEF Violations, Flag
<1>2. \A x \in MonetaryAmounts(reply.subject, reply.body) : x <= ItemsTotal + order.fee
  BY <1>1 DEF NothingAboveThePrice
<1>3. "refund" \in claims =>
        order.delivered # NotDelivered /\ asked - order.delivered < 15 * TicksPerDay
  BY <1>1 DEF WindowHonoured
<1>4. "voucher" \in claims => Reference - Estimated > 5 * TicksPerDay
  BY <1>1, VoucherTakesDelay
<1>5. QED
  BY <1>1, <1>2, <1>3, <1>4 DEF Rightful

(* Guard and calculators together: whatever the model drafts, the reply    *)
(* that is assembled says nothing about the order that its customer is not *)
(* due, or its body is the safe one; an automatic resolution is rightful   *)
(* in its subject too (validator.py, response_builder.py,                  *)
(* business_rules.py).                                                     *)
THEOREM RepliesAreRightful == Spec => []RepliesKeepToRights
<1>1. RightsInv /\ WindowHonoured /\ NothingAboveThePrice /\ VouchersAreForLateExpress
      => RepliesKeepToRights
  <2> SUFFICES ASSUME RightsInv, WindowHonoured, NothingAboveThePrice, VouchersAreForLateExpress,
                      NEW draft \in Reply, NEW threshold \in Nat, NEW calls \in Nat
               PROVE  LET reply == CertifiedResponse(draft, traces, threshold, calls) IN
                      /\ reply.body = SafeBody \/ Rightful(reply.subject, reply.body)
                      /\ reply.status = "RESOLVED_AUTOMATICALLY" =>
                           Rightful(reply.subject, reply.body)
    BY DEF RepliesKeepToRights
  <2> DEFINE reply == CertifiedResponse(draft, traces, threshold, calls)
  <2>1. CASE Violations(draft, traces) = {}
    <3>1. reply.subject = draft.subject /\ reply.body = draft.body
      BY <2>1 DEF CertifiedResponse
    <3>2. QED
      BY <2>1, <3>1, CertifiedIsRightful
  <2>2. CASE Violations(draft, traces) # {}
    <3>1. reply.body = SafeBody /\ reply.status = "REQUIRES_HUMAN_REVIEW"
      BY <2>2 DEF CertifiedResponse
    <3>2. QED
      BY <3>1
  <2>3. QED
    BY <2>1, <2>2
<1>2. QED
  BY <1>1, RightsInvariant, WindowSafe, NothingAbovePrice, VouchersForLateExpress, PTL

=============================================================================
