--------------------------- MODULE CustomerRights ---------------------------
(***************************************************************************)
(* What an order entitles its customer to: the deterministic calculators   *)
(* (src/domain/business_rules.py), the tools that expose them              *)
(* (src/tools/refund_calculator.py, delay_calculator.py, order_status.py)  *)
(* and the evidence the authority guard draws from their payloads.         *)
(*                                                                         *)
(* An order is shipped and delivered while its customer writes; an email   *)
(* is processed by a session of tool calls in which no time passes.  The   *)
(* calculators take their arguments from the language model: here it       *)
(* copies them from the order and from the delay tool, and may leave out   *)
(* each of the optional ones, the delivery date included.  The order is    *)
(* external, it is the ERP's.                                              *)
(***************************************************************************)
EXTENDS AuthorityGuard, Integers

CONSTANTS
  TicksPerDay,    \* ticks in a calendar day (UTC)
  MaxTick,        \* bound on the clock
  MaxLag,         \* bound on the ticks from an email to its session
  MaxCalls,       \* bound on the tool calls of a session
  Estimated,      \* estimated_delivery
  ItemsTotal,     \* items_total_ttc_cents
  ShippingFees,   \* possible shipping_fee_ttc_cents
  NotDelivered    \* Python's None where a delivery date is optional

ASSUME RightsAssumption ==
  /\ TicksPerDay \in Nat \ {0}
  /\ {MaxTick, MaxLag, MaxCalls, Estimated, ItemsTotal} \subseteq Nat
  /\ ShippingFees \subseteq Nat
  /\ NotDelivered \notin Int

VARIABLES
  now,        \* the clock, in ticks
  order,      \* delivered, is_express and shipping fee of the order
  asked,      \* when the email that is being processed was sent
  traces,     \* tool traces of the session
  expired     \* history: a session stated TIMEFRAME_EXCEEDED

vars == <<now, order, asked, traces, expired>>

(***************************************************************************)
(* The calculators.                                                        *)
(***************************************************************************)
\* Mutant: the day of a month of 20 days, instead of the date.
DayOfMonth(tick) == (tick \div TicksPerDay) % 20

ToUtcDate(tick) == tick \div TicksPerDay

\* Mutant: a delay of five days is enough.
CompensatesFiveDays(delay_days, is_express, shipping_fee) ==
  IF is_express /\ delay_days >= 5 THEN shipping_fee ELSE 0

\* Mutant: the fee is granted for every day.
CompensatesByDay(delay_days, is_express, shipping_fee) ==
  IF is_express /\ delay_days > 5 THEN delay_days * shipping_fee ELSE 0

CalculateExpressCompensation(delay_days, is_express, shipping_fee) ==
  IF is_express /\ delay_days > 5 THEN shipping_fee ELSE 0

\* Mutant: an early delivery is a negative delay.
SignedShippingDelay(estimated, reference) ==
  LET diff == ToUtcDate(reference) - ToUtcDate(estimated) IN
  [delay_days |-> diff, is_delayed |-> diff > 0]

CalculateShippingDelay(estimated, reference) ==
  LET diff == ToUtcDate(reference) - ToUtcDate(estimated)
      days == IF diff > 0 THEN diff ELSE 0
  IN  [delay_days |-> days, is_delayed |-> days > 0]

\* Mutant: the fourteenth day does not count.
BeforeLastDay(elapsed) == elapsed < 14

WithinWindow(elapsed) == elapsed <= 14

(* The reason of a request that is not eligible; a voucher goes first. *)
ReasonCode(voucher, otherwise) ==
  IF voucher > 0 THEN "EXPRESS_DELAY_COMPENSATED" ELSE otherwise

CalculateStatutoryWithdrawal(delivery, request, items, shipping_fee, is_express, delay_days) ==
  LET voucher == CalculateExpressCompensation(delay_days, is_express, shipping_fee)
      arrived == delivery # NotDelivered /\ ToUtcDate(delivery) <= ToUtcDate(request)
      elapsed == IF arrived THEN ToUtcDate(request) - ToUtcDate(delivery) ELSE 0
      eligible == arrived /\ WithinWindow(elapsed)
  IN  [is_eligible_for_return |-> eligible,
       days_elapsed |-> elapsed,
       refundable_items_total_cents |-> IF eligible THEN items ELSE 0,
       delay_compensation_voucher_cents |-> voucher,
       reason_code |-> IF eligible THEN "WITHIN_LEGAL_TIMEFRAME"
                       ELSE ReasonCode(voucher, IF arrived THEN "TIMEFRAME_EXCEEDED"
                                                ELSE "NOT_DELIVERED_YET")]

(***************************************************************************)
(* The tools: their payloads, and the calls of a session.                  *)
(***************************************************************************)
OrderDetails ==
  [items_total_ttc_cents |-> ItemsTotal,
   shipping_fee_ttc_cents |-> order.fee]

DelayPayload(reference, is_express, shipping_fee) ==
  LET delay == CalculateShippingDelay(Estimated, reference) IN
  [delay_days |-> delay.delay_days,
   is_delayed |-> delay.is_delayed,
   voucher_compensation_cents |->
     CalculateExpressCompensation(delay.delay_days, is_express, shipping_fee)]

(* Of its arguments a trace keeps the delivery date, NotDelivered when the *)
(* call has none.                                                          *)
Answered(delivery_date, payload) ==
  /\ Len(traces) < MaxCalls
  /\ traces' = Append(traces, [arguments |-> [delivery_date |-> delivery_date],
                               success |-> TRUE, error_code |-> NoReason, data |-> payload])

GetOrderDetails ==
  /\ asked <= now
  /\ Answered(NotDelivered, OrderDetails)
  /\ UNCHANGED <<now, order, asked, expired>>

OrderKnown == \E d \in Payloads(traces) : "items_total_ttc_cents" \in DOMAIN d

(* is_express and shipping_fee_cents of both calculators are optional, and *)
(* so are delivery_date and item_prices_cents of the refund calculator.    *)
ExpressArguments == [express: {order.express, FALSE}, fee: {order.fee, 0}]

RefundArguments == [delivery: {order.delivered, NotDelivered}, items: {ItemsTotal, 0}]

CalculateDeliveryDelay ==
  /\ asked <= now /\ OrderKnown
  /\ \E a \in ExpressArguments :
       Answered(NotDelivered,
                DelayPayload(IF order.delivered = NotDelivered THEN now
                             ELSE order.delivered, a.express, a.fee))
  /\ UNCHANGED <<now, order, asked, expired>>

CalculateRefundEligibility ==
  /\ asked <= now /\ OrderKnown
  /\ \E p \in RefundArguments, a \in ExpressArguments,
        days \in {0} \cup {ValueOr(d, "delay_days", 0) : d \in Payloads(traces)} :
       LET result == CalculateStatutoryWithdrawal(p.delivery, asked, p.items,
                                                  a.fee, a.express, days)
       IN  /\ Answered(p.delivery, result)
           /\ expired' = (expired \/ result.reason_code = "TIMEFRAME_EXCEEDED")
  /\ UNCHANGED <<now, order, asked>>

(***************************************************************************)
(* The customer, the carrier and the clock.  asked = MaxTick + 1 when no   *)
(* email waits for a session.                                              *)
(***************************************************************************)
NoEmail == MaxTick + 1

Init ==
  /\ now = 0
  /\ order \in [delivered: {NotDelivered}, express: BOOLEAN, fee: ShippingFees]
  /\ asked = NoEmail /\ traces = <<>> /\ expired = FALSE

CustomerWrites ==
  /\ asked = NoEmail /\ asked' = now
  /\ UNCHANGED <<now, order, traces, expired>>

SessionEnds ==
  /\ traces # <<>>
  /\ asked' = NoEmail /\ traces' = <<>>
  /\ UNCHANGED <<now, order, expired>>

CarrierDelivers ==
  /\ order.delivered = NotDelivered /\ traces = <<>>
  /\ order' = [order EXCEPT !.delivered = now]
  /\ UNCHANGED <<now, asked, traces, expired>>

TimePasses ==
  /\ now < MaxTick /\ traces = <<>>
  /\ asked = NoEmail \/ now - asked < MaxLag
  /\ now' = now + 1
  /\ UNCHANGED <<order, asked, traces, expired>>

Next ==
  \/ GetOrderDetails \/ CalculateDeliveryDelay \/ CalculateRefundEligibility
  \/ CustomerWrites \/ SessionEnds \/ CarrierDelivers \/ TimePasses

Spec == Init /\ [][Next]_vars

-----------------------------------------------------------------------------
(* Every variable has its type. *)
RightsTypeOK ==
  /\ now \in 0..MaxTick /\ asked \in 0..NoEmail
  /\ order.delivered \in 0..now \cup {NotDelivered}
  /\ \A d \in Payloads(traces) :
       \A k \in (MonetaryKey \cup {"delay_days", "days_elapsed"}) \cap DOMAIN d : d[k] \in Nat

RefundPayloads == {d \in Payloads(traces) : "is_eligible_for_return" \in DOMAIN d}

\* Those the calculator drew from the date of delivery.
DatedPayloads ==
  {traces[i].data : i \in {j \in DOMAIN traces :
                             traces[j].arguments.delivery_date # NotDelivered}}

(* The withdrawal right, in elapsed time: whatever the hours of delivery   *)
(* and request, no refund may be promised for an order not delivered or    *)
(* after 15 times 24 hours, and a customer who asks within 14 times 24     *)
(* hours may be promised one once the calculator ran on the date of        *)
(* delivery (business_rules.py diff_days; validator_rules.py               *)
(* check_refund_...).  A call that leaves the date out proves nothing: it  *)
(* is told NOT_DELIVERED_YET, whatever the order.                          *)
WindowHonoured ==
  LET elapsed == asked - order.delivered IN
  /\ RefundAuthorized(traces) =>
       order.delivered # NotDelivered /\ elapsed < 15 * TicksPerDay
  /\ DatedPayloads # {} =>
       (elapsed \in 0..(14 * TicksPerDay) => RefundAuthorized(traces))

(* Every amount the guard lets a reply quote, the sums of two payload      *)
(* fields included, is at most what the customer paid.                     *)
NothingAboveThePrice ==
  \A a \in CertifiedAmounts(traces) : a <= ItemsTotal + order.fee

(* A voucher amount is stated only for an express order, and only when the *)
(* promise was missed by more than five times 24 hours, whatever the hours *)
(* that dates round away; it is then the whole fee (business_rules.py      *)
(* calculate_express_compensation, line 188).  The commercial policy needs *)
(* this much however it counts days: the code counts calendar days, while  *)
(* docs/specifications.md (lines 79, 343) asks for business days, for      *)
(* which this is not enough.                                               *)
VouchersAreForLateExpress ==
  LET arrival == IF order.delivered = NotDelivered THEN now ELSE order.delivered IN
  \A d \in Payloads(traces), k \in {"voucher_compensation_cents",
                                    "delay_compensation_voucher_cents"} :
    ValueOr(d, k, 0) > 0 =>
      /\ d[k] = order.fee /\ order.express
      /\ arrival - Estimated > 5 * TicksPerDay

(* A refusal because the window has closed is final: no later call for the *)
(* same order finds it eligible again, whatever it leaves out, and none    *)
(* that has the date of delivery says "not delivered yet"                  *)
(* (business_rules.py lines 76-123).                                       *)
RefusalIsFinal ==
  expired =>
    /\ \A d \in RefundPayloads : ~d.is_eligible_for_return
    /\ \A d \in DatedPayloads :
         d.reason_code \in {"TIMEFRAME_EXCEEDED", "EXPRESS_DELAY_COMPENSATED"}

(* A voucher may be promised only under the commercial policy, "for        *)
(* express deliveries" (docs/specifications.md line 343).                  *)
VoucherPromisesFollowPolicy == VoucherAuthorized(traces) => order.express

=============================================================================
