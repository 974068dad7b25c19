---------------------------- MODULE MCReActLoop -----------------------------
(***************************************************************************)
(* A small instance of ReActLoop: payloads the three tools really produce, *)
(* and drafts that exercise each rule of the guard.                        *)
(***************************************************************************)
EXTENDS ReActLoop

Payload(data) == [success |-> TRUE, error_code |-> "", data |-> data]
Failure(code) == [success |-> FALSE, error_code |-> code, data |-> <<>>]

MCResults ==
  {Payload([items_total_ttc_cents |-> 50, shipping_fee_ttc_cents |-> 10]),
   Payload([is_eligible_for_return |-> TRUE, days_elapsed |-> 3,
            refundable_items_total_cents |-> 50,
            delay_compensation_voucher_cents |-> 0]),
   Payload([is_eligible_for_return |-> FALSE, days_elapsed |-> 0,
            refundable_items_total_cents |-> 0,
            delay_compensation_voucher_cents |-> 10]),
   Failure("SECURITY_UNAUTHORIZED_ACCESS"),
   Failure("ORDER_NOT_FOUND")}

MCDemands ==
  {[threat |-> TRUE,  intent |-> "OUT_OF_SCOPE"],
   [threat |-> FALSE, intent |-> "OUT_OF_SCOPE"],
   [threat |-> FALSE, intent |-> "REFUND_REQUEST"],
   [threat |-> FALSE, intent |-> "INFORMATION_MISSING"]}

Quotes(cents) == [PlainSentence EXCEPT !.amounts = {cents}]

Grants(topic) == [PlainSentence EXCEPT !.topics = {topic}, !.grants = TRUE]

MCSubjects == {PlainSentence, Quotes(99)}

Writes(subject, body) ==
  [status |-> "RESOLVED_AUTOMATICALLY", reason |-> NoReason,
   confidence |-> 90, subject |-> subject, body |-> body]

MCDrafts ==
  {Writes(PlainSentence, <<PlainSentence>>),
   Writes(PlainSentence, <<Quotes(60), PlainSentence>>),
   Writes(Quotes(50), <<PlainSentence, Grants("refund")>>),
   Writes(PlainSentence, <<Grants("voucher")>>),
   Writes([PlainSentence EXCEPT !.topics = {"refund"}],
          <<[PlainSentence EXCEPT !.grants = TRUE]>>),
   Writes([PlainSentence EXCEPT !.negated = TRUE], <<Grants("refund")>>),
   Writes(PlainSentence, <<[PlainSentence EXCEPT !.mutation = TRUE]>>),
   [Writes(PlainSentence, <<Quotes(50)>>) EXCEPT !.confidence = 40],
   [Writes(PlainSentence, <<PlainSentence>>) EXCEPT
      !.status = "REQUIRES_HUMAN_REVIEW"],
   [Writes(PlainSentence, <<PlainSentence>>) EXCEPT
      !.status = "REQUIRES_HUMAN_REVIEW", !.reason = "blank"],
   [Writes(PlainSentence, <<PlainSentence>>) EXCEPT
      !.status = "REQUIRES_HUMAN_REVIEW", !.reason = "MODEL_STATED"]}

=============================================================================
