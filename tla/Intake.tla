------------------------------- MODULE Intake --------------------------------
(***************************************************************************)
(* What the deterministic intake makes of an inbound message before any    *)
(* model is asked: classify_text of src/security/pre_extraction.py, with   *)
(* the extraction of order ids of src/security/sanitizer.py.               *)
(*                                                                         *)
(* A message is what the patterns find in its subject and body together,   *)
(* scrubbed of control characters: words of a threat, words of a subject   *)
(* that is none of the shop's, the kinds of demand whose words occur, and  *)
(* the order ids, in capitals, in their order of appearance.               *)
(***************************************************************************)
EXTENDS Sequences, FiniteSets, Naturals

CONSTANTS
  OrderIds,     \* order identifiers a message can quote
  NoOrderId     \* None, where an order id is optional

ASSUME IntakeAssumption == NoOrderId \notin OrderIds

(* The kinds of demand that have a pattern, by family. *)
Families ==
  {{"ORDER_STATUS", "DELIVERY_DELAY"}, {"REFUND_REQUEST"}, {"ORDER_INFORMATION"}}

OrderIntent == UNION Families

Intent == OrderIntent \cup {"MIXED_QUERY", "OUT_OF_SCOPE", "INFORMATION_MISSING"}

Message ==
  [threat: BOOLEAN, offTopic: BOOLEAN, kinds: SUBSET OrderIntent,
   orders: Seq(OrderIds)]

ExtractOrderId(m) == IF m.orders = <<>> THEN NoOrderId ELSE Head(m.orders)

(* extract_all_order_ids lists each id once; only how many matters here. *)
AllOrderIds(m) == {m.orders[i] : i \in DOMAIN m.orders}

ActiveFamilies(m) == {f \in Families : f \cap m.kinds # {}}

IsMixed(m) == Cardinality(ActiveFamilies(m)) > 1 \/ Cardinality(AllOrderIds(m)) > 1

\* Mutant: words of another subject are looked for first.
OffTopicFirst(m) ==
  CASE m.offTopic             -> "OUT_OF_SCOPE"
    [] ~m.offTopic /\ IsMixed(m) -> "MIXED_QUERY"
    [] ~m.offTopic /\ ~IsMixed(m) /\ m.kinds = {} -> "OUT_OF_SCOPE"
    [] ~m.offTopic /\ ~IsMixed(m) /\ m.kinds # {} -> CHOOSE k \in m.kinds : TRUE

(* Several kinds of one family are logistics, where a delay says more.     *)
(* Words of another subject change nothing: a message without a demand is  *)
(* out of scope with or without them.                                      *)
CandidateIntent(m) ==
  CASE IsMixed(m) -> "MIXED_QUERY"
    [] ~IsMixed(m) /\ m.kinds = {} -> "OUT_OF_SCOPE"
    [] ~IsMixed(m) /\ Cardinality(m.kinds) = 1 -> CHOOSE k \in m.kinds : TRUE
    [] ~IsMixed(m) /\ Cardinality(m.kinds) > 1 ->
         IF "DELIVERY_DELAY" \in m.kinds THEN "DELIVERY_DELAY" ELSE "ORDER_STATUS"

NeedsOrder(intent) == intent \in OrderIntent \cup {"MIXED_QUERY"}

(* The ExtractedDemand the session starts with.                            *)
ClassifyText(m) ==
  LET candidate == CandidateIntent(m)
      id == ExtractOrderId(m)
  IN  [threat |-> m.threat,
       intent |-> CASE m.threat -> "OUT_OF_SCOPE"
                    [] ~m.threat /\ NeedsOrder(candidate) /\ id = NoOrderId ->
                         "INFORMATION_MISSING"
                    [] OTHER -> candidate,
       order_id |-> id]

=============================================================================
