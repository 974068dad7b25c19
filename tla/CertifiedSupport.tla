-------------------------- MODULE CertifiedSupport --------------------------
(***************************************************************************)
(* What one run of the engine promises to its caller, whatever the         *)
(* language model writes: evidence is only ever added, and the run ends in *)
(* one of three ways.                                                      *)
(*   - resolved:  a reply that the gathered evidence supports;             *)
(*   - escalated: a reply for human review, with a reason, whose body      *)
(*     promises nothing that the evidence does not support;                *)
(*   - aborted:   an exception, and no reply at all.                       *)
(***************************************************************************)
EXTENDS AuthorityGuard

CONSTANT Threshold      \* the least confidence of an automatic resolution

VARIABLES outcome,      \* "running", "resolved", "escalated" or "aborted"
          evidence,     \* the results of the tool calls, in order
          reply         \* the reply handed to the caller

csVars == <<outcome, evidence, reply>>

Supported(body, ev) ==
  /\ \A i \in DOMAIN body : body[i].amounts \subseteq CertifiedAmounts(ev)
  /\ \A i \in DOMAIN body : ~body[i].mutation
  /\ \A i \in DOMAIN body : i > 1 /\ ~body[i].negated =>
       /\ "refund" \in Granted(body[i]) => RefundAuthorized(ev)
       /\ "voucher" \in Granted(body[i]) => VoucherAuthorized(ev)

Init == outcome = "running" /\ evidence = <<>>

Gather ==
  /\ outcome = "running"
  /\ Len(evidence') = Len(evidence) + 1
  /\ SubSeq(evidence', 1, Len(evidence)) = evidence
  /\ UNCHANGED <<outcome, reply>>

Resolve ==
  /\ outcome = "running" /\ outcome' = "resolved"
  /\ reply'.status = "RESOLVED_AUTOMATICALLY"
  /\ reply'.confidence >= Threshold
  /\ Violations(reply', evidence) = {}
  /\ Supported(reply'.body, evidence)
  /\ UNCHANGED evidence

Escalate ==
  /\ outcome = "running" /\ outcome' = "escalated"
  /\ reply'.status = "REQUIRES_HUMAN_REVIEW"
  /\ reply'.reason \notin {NoReason, "blank"}
  /\ Supported(reply'.body, evidence)
  /\ UNCHANGED evidence

Abort ==
  /\ outcome = "running" /\ outcome' = "aborted"
  /\ UNCHANGED <<evidence, reply>>

Next == Gather \/ Resolve \/ Escalate \/ Abort

Spec == Init /\ [][Next]_csVars

=============================================================================
