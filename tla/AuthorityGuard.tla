--------------------------- MODULE AuthorityGuard ---------------------------
(***************************************************************************)
(* The deterministic gate between what the language model writes and what  *)
(* the customer receives: feature extraction (src/agent/validator_rules.py)*)
(* the guard (src/agent/validator.py) and the assembly of the final reply  *)
(* (src/agent/response_builder.py, src/models/response.py).                *)
(*                                                                         *)
(* A sentence is what the regular expressions see of it: the amounts it    *)
(* quotes (in cents), the topics it names (refund, voucher), whether it    *)
(* holds a granting verb, a negation word, a claimed order modification.   *)
(* A subject is one sentence without a full stop, a body is a sequence of  *)
(* sentences; the guard reads the concatenation of both, so the subject    *)
(* and the first sentence of the body are ONE sentence to it.              *)
(***************************************************************************)
EXTENDS AgentFSM

Topic == {"refund", "voucher"}

Sentence ==
  [amounts: SUBSET Nat, topics: SUBSET Topic, grants: BOOLEAN,
   negated: BOOLEAN, mutation: BOOLEAN]

Body == Seq(Sentence) \ {<<>>}

PlainSentence ==
  [amounts |-> {}, topics |-> {}, grants |-> FALSE, negated |-> FALSE,
   mutation |-> FALSE]

SafeBody == <<PlainSentence>>   \* "Your inquiry has been forwarded to ..."

Status == {"RESOLVED_AUTOMATICALLY", "REQUIRES_HUMAN_REVIEW"}

(* Escalation reasons, up to wording.  "blank" is a reason made of spaces. *)
Reason ==
  {NoReason, "blank", "HOSTILE_OR_LEGAL_THREAT", "OUT_OF_SCOPE_INTENT",
   "LOOP_LIMIT_EXCEEDED", "SYNTHESIS_FAILURE", "AUTHORITY_VIOLATION",
   "LOW_CONFIDENCE", "SYNTHESIS_POLICY", "MODEL_STATED"}

(***************************************************************************)
(* Certified evidence: the payloads of successful tool calls.              *)
(***************************************************************************)
MonetaryKey ==   \* the keys of the tools' payloads whose name has "cents"
  {"refundable_items_total_cents", "delay_compensation_voucher_cents",
   "items_total_ttc_cents", "shipping_fee_ttc_cents",
   "voucher_compensation_cents"}

ValueOr(data, key, default) == IF key \in DOMAIN data THEN data[key] ELSE default

SumOfBoth(data, k1, k2) ==
  IF {k1, k2} \subseteq DOMAIN data THEN {data[k1] + data[k2]} ELSE {}

AmountsIn(data) ==
       {data[k] : k \in MonetaryKey \cap DOMAIN data}
  \cup SumOfBoth(data, "items_total_ttc_cents", "shipping_fee_ttc_cents")
  \cup SumOfBoth(data, "refundable_items_total_cents",
                       "delay_compensation_voucher_cents")

Payloads(traces) == {traces[i].data : i \in {j \in DOMAIN traces : traces[j].success}}

CertifiedAmounts(traces) == {0} \cup UNION {AmountsIn(d) : d \in Payloads(traces)}

RefundAuthorized(traces) ==
  \E d \in Payloads(traces) :
    \/ ValueOr(d, "is_eligible_for_return", FALSE)
    \/ ValueOr(d, "refundable_items_total_cents", 0) > 0

VoucherAuthorized(traces) ==
  \E d \in Payloads(traces) :
    \/ ValueOr(d, "delay_compensation_voucher_cents", 0) > 0
    \/ ValueOr(d, "voucher_granted", FALSE)
    \/ ValueOr(d, "delay_days", 0) > 5 /\ ValueOr(d, "is_delayed", FALSE)

SecurityBreach(traces) ==
  \E i \in DOMAIN traces : traces[i].error_code = "SECURITY_UNAUTHORIZED_ACCESS"

(***************************************************************************)
(* What the text says.                                                     *)
(***************************************************************************)
SentencesOf(subject, body) == {subject} \cup {body[i] : i \in DOMAIN body}

MonetaryAmounts(subject, body) == UNION {s.amounts : s \in SentencesOf(subject, body)}

Granted(s) == IF s.grants THEN s.topics ELSE {}

(* An approval pattern runs from a topic to a later granting verb of the   *)
(* same sentence; one negation word anywhere in the sentence silences it.  *)
ApprovalClaims(subject, body) ==
  LET first == Head(body)
      later == {body[i] : i \in {j \in DOMAIN body : j > 1}}
  IN  (IF subject.negated \/ first.negated THEN {}
       ELSE Granted(subject) \cup Granted(first)
              \cup (IF first.grants THEN subject.topics ELSE {}))
      \cup UNION {Granted(s) : s \in {t \in later : ~t.negated}}

MutationClaimed(subject, body) == \E s \in SentencesOf(subject, body) : s.mutation

Flag(condition, name) == IF condition THEN {name} ELSE {}

\* Mutant: quoted amounts are not looked up.
ViolationsButAmounts(reply, traces) ==
  LET claims == ApprovalClaims(reply.subject, reply.body) IN
           Flag("refund" \in claims /\ ~RefundAuthorized(traces), "refund")
      \cup Flag("voucher" \in claims /\ ~VoucherAuthorized(traces), "voucher")
      \cup Flag(MutationClaimed(reply.subject, reply.body), "mutation")
      \cup Flag(SecurityBreach(traces)
                  /\ reply.status = "RESOLVED_AUTOMATICALLY", "security")

(* validate(): the kinds of violation found, the empty set if none. *)
Violations(reply, traces) ==
  LET amounts == MonetaryAmounts(reply.subject, reply.body)
      claims  == ApprovalClaims(reply.subject, reply.body)
  IN       Flag(~(amounts \subseteq CertifiedAmounts(traces)), "amount")
      \cup Flag("refund" \in claims /\ ~RefundAuthorized(traces), "refund")
      \cup Flag("voucher" \in claims /\ ~VoucherAuthorized(traces), "voucher")
      \cup Flag(MutationClaimed(reply.subject, reply.body), "mutation")
      \cup Flag(SecurityBreach(traces)
                  /\ reply.status = "RESOLVED_AUTOMATICALLY", "security")

(***************************************************************************)
(* Replies.  calls is the number of model answers whose tokens and cost    *)
(* the reply accounts for.                                                 *)
(***************************************************************************)
Reply ==
  [status: Status, reason: Reason, confidence: Nat, subject: Sentence,
   body: Body, calls: Nat]

EscalatedResponse(session, reason, calls) ==
  [status |-> "REQUIRES_HUMAN_REVIEW", reason |-> reason, confidence |-> 0,
   subject |-> session.inbound_subject, body |-> SafeBody, calls |-> calls]

\* Mutant: the reason is not stripped before it is tested.
AcceptsBlankReason(reply) ==
  reply.status = "REQUIRES_HUMAN_REVIEW" => reply.reason # NoReason

(* AgentFinalResponse.validate_escalation_metadata *)
WellFormedReply(reply) ==
  reply.status = "REQUIRES_HUMAN_REVIEW" => reply.reason \notin {NoReason, "blank"}

(* guard_response(): downgrade a reply with a violation; the subject stays. *)
GuardResponse(reply, traces) ==
  IF Violations(reply, traces) = {} THEN reply
  ELSE [status |-> "REQUIRES_HUMAN_REVIEW", reason |-> "AUTHORITY_VIOLATION",
        confidence |-> 0, subject |-> reply.subject, body |-> SafeBody,
        calls |-> reply.calls]

(* The reply synthesize_certified_response() assembles from a draft of the *)
(* model; the constructor rejects it when it is not WellFormedReply.       *)
CertifiedResponse(draft, traces, threshold, calls) ==
  LET uncertified == Violations(draft, traces) # {}
      unsure      == draft.confidence < threshold
      status == IF uncertified \/ unsure THEN "REQUIRES_HUMAN_REVIEW"
                ELSE draft.status
      stated == CASE uncertified -> "AUTHORITY_VIOLATION"
                  [] ~uncertified /\ unsure -> "LOW_CONFIDENCE"
                  [] OTHER -> draft.reason
  IN  [status |-> status,
       reason |-> IF status = "REQUIRES_HUMAN_REVIEW" /\ stated = NoReason
                  THEN "SYNTHESIS_POLICY" ELSE stated,
       confidence |-> draft.confidence,
       subject |-> draft.subject,
       body |-> IF uncertified THEN SafeBody ELSE draft.body,
       calls |-> calls]

=============================================================================
