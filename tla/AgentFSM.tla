------------------------------ MODULE AgentFSM ------------------------------
(***************************************************************************)
(* The lifecycle state machine of a support session: the transition table  *)
(* and the controller that applies it (src/agent/controller.py), and the   *)
(* session container it updates (src/agent/state.py).                      *)
(*                                                                         *)
(* Everything here is a pure operator on a session record, so that the     *)
(* engine can apply several transitions inside one uninterrupted segment.  *)
(***************************************************************************)
EXTENDS Naturals, Sequences

NoReason == "none"      \* Python's None where a reason is optional

LifecycleState ==
  {"RECEIVED", "ANALYZING", "EXECUTING_TOOL", "OBSERVING",
   "GENERATING_RESPONSE", "COMPLETED", "REQUIRES_HUMAN", "FAILED"}

TERMINAL_STATES == {"COMPLETED", "REQUIRES_HUMAN", "FAILED"}

VALID_TRANSITIONS ==
       {"RECEIVED"}  \X {"ANALYZING", "FAILED"}
  \cup {"ANALYZING"} \X {"EXECUTING_TOOL", "GENERATING_RESPONSE",
                         "REQUIRES_HUMAN", "FAILED"}
  \cup {"EXECUTING_TOOL"} \X {"OBSERVING", "REQUIRES_HUMAN", "FAILED"}
  \cup {"OBSERVING"} \X {"EXECUTING_TOOL", "GENERATING_RESPONSE",
                         "REQUIRES_HUMAN", "FAILED"}
  \cup {"GENERATING_RESPONSE"} \X {"COMPLETED", "REQUIRES_HUMAN", "FAILED"}

CanTransition(current, target) == <<current, target>> \in VALID_TRANSITIONS

(***************************************************************************)
(* The session container.  fsm_error is not a field of the code: it stands *)
(* for the FSMStateError that transition() raises, and stays TRUE once     *)
(* raised.  The engine is shown never to raise it.                         *)
(***************************************************************************)
NewSession(demand, subject) ==
  [current_state     |-> "RECEIVED",
   state_history     |-> <<>>,
   escalation_reason |-> NoReason,
   iteration_count   |-> 0,
   tool_traces       |-> <<>>,
   extracted_demand  |-> demand,
   inbound_subject   |-> subject,
   fsm_error         |-> FALSE]

RecordTrace(s, trace) == [s EXCEPT !.tool_traces = Append(@, trace)]

RecordTransition(s, target) == Append(s.state_history, <<s.current_state, target>>)

KeptReason(s, target, reason) ==
  IF reason # NoReason /\ target = "REQUIRES_HUMAN" /\ s.escalation_reason = NoReason
  THEN reason ELSE s.escalation_reason

(* transition(): validate, record, keep the first escalation reason, move. *)
Transition(s, target, reason) ==
  IF CanTransition(s.current_state, target)
  THEN [s EXCEPT !.state_history = RecordTransition(s, target),
                 !.current_state = target,
                 !.escalation_reason = KeptReason(s, target, reason)]
  ELSE [s EXCEPT !.fsm_error = TRUE]

\* Mutant: the reason is not passed on.
ToHumanWithoutReason(s, reason) == Transition(s, "REQUIRES_HUMAN", NoReason)

TransitionToHuman(s, reason) == Transition(s, "REQUIRES_HUMAN", reason)

=============================================================================
