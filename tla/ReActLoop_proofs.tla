-------------------------- MODULE ReActLoop_proofs --------------------------
(***************************************************************************)
(* Proofs about one run of the engine, for every ceiling, every set of     *)
(* tool results and every set of drafts the model may write.               *)
(***************************************************************************)
EXTENDS ReActLoop, TLAPS

(***************************************************************************)
(* What the controller does to a session when the transition is legal      *)
(* (AgentFSMController.transition).                                        *)
(***************************************************************************)
LEMMA TransitionFields ==
  ASSUME NEW s \in Session, NEW target \in LifecycleState, NEW reason \in Reason,
         CanTransition(s.current_state, target)
  PROVE  /\ Transition(s, target, reason) \in Session
         /\ Transition(s, target, reason).current_state = target
         /\ Transition(s, target, reason).state_history = RecordTransition(s, target)
         /\ Transition(s, target, reason).escalation_reason = KeptReason(s, target, reason)
         /\ Transition(s, target, reason).iteration_count = s.iteration_count
         /\ Transition(s, target, reason).tool_traces = s.tool_traces
         /\ Transition(s, target, reason).extracted_demand = s.extracted_demand
         /\ Transition(s, target, reason).inbound_subject = s.inbound_subject
         /\ Transition(s, target, reason).fsm_error = s.fsm_error
<1>1. RecordTransition(s, target) \in Seq(LifecycleState \X LifecycleState)
  BY DEF Session, RecordTransition
<1>2. KeptReason(s, target, reason) \in Reason
  BY DEF Session, KeptReason
<1>3. Transition(s, target, reason) =
        [s EXCEPT !.state_history = RecordTransition(s, target),
                  !.current_state = target,
                  !.escalation_reason = KeptReason(s, target, reason)]
  BY DEF Transition
<1>4. QED
  BY <1>1, <1>2, <1>3 DEF Session

(***************************************************************************)
(* Adding a trace and closing a round (record_trace, and lines 195-200 of  *)
(* loop.py).                                                               *)
(***************************************************************************)
LEMMA RecordTraceFields ==
  ASSUME NEW s \in Session, NEW r \in Results
  PROVE  /\ RecordTrace(s, r) \in Session
         /\ RecordTrace(s, r).tool_traces = Append(s.tool_traces, r)
         /\ RecordTrace(s, r).current_state = s.current_state
         /\ RecordTrace(s, r).state_history = s.state_history
         /\ RecordTrace(s, r).escalation_reason = s.escalation_reason
         /\ RecordTrace(s, r).iteration_count = s.iteration_count
         /\ RecordTrace(s, r).extracted_demand = s.extracted_demand
         /\ RecordTrace(s, r).fsm_error = s.fsm_error
<1>1. Append(s.tool_traces, r) \in Seq(Results)
  BY DEF Session
<1>2. QED
  BY <1>1 DEF Session, RecordTrace

(* Counting a round changes the round counter of the session and nothing   *)
(* else (loop.py, the last lines of a round).                              *)
LEMMA CountRoundFields ==
  ASSUME NEW s \in Session
  PROVE  /\ CountRound(s) \in Session
         /\ CountRound(s).current_state = s.current_state
         /\ CountRound(s).state_history = s.state_history
         /\ CountRound(s).escalation_reason = s.escalation_reason
         /\ CountRound(s).iteration_count = s.iteration_count + 1
         /\ CountRound(s).tool_traces = s.tool_traces
         /\ CountRound(s).extracted_demand = s.extracted_demand
         /\ CountRound(s).fsm_error = s.fsm_error
<1>1. s.iteration_count \in Nat
  BY DEF Session
<1>2. s.iteration_count + 1 \in Nat
  BY <1>1
<1>3. QED
  BY <1>2 DEF Session, CountRound

(* Ending a round moves the session to OBSERVING and counts the round, and *)
(* leaves its evidence and its demand as they are (loop.py).               *)
LEMMA ObserveFields ==
  ASSUME NEW s \in Session, s.current_state = "EXECUTING_TOOL"
  PROVE  /\ Observe(s) \in Session
         /\ Observe(s).current_state = "OBSERVING"
         /\ Observe(s).state_history = RecordTransition(s, "OBSERVING")
         /\ Observe(s).escalation_reason = s.escalation_reason
         /\ Observe(s).iteration_count = s.iteration_count + 1
         /\ Observe(s).tool_traces = s.tool_traces
         /\ Observe(s).extracted_demand = s.extracted_demand
         /\ Observe(s).fsm_error = s.fsm_error
<1> DEFINE t == Transition(s, "OBSERVING", NoReason)
<1>1. CanTransition(s.current_state, "OBSERVING")
  BY DEF CanTransition, VALID_TRANSITIONS
<1>2. NoReason \in Reason /\ "OBSERVING" \in LifecycleState
  BY DEF Reason, LifecycleState
<1>3. KeptReason(s, "OBSERVING", NoReason) = s.escalation_reason
  BY DEF KeptReason
<1>4. /\ t \in Session
      /\ t.current_state = "OBSERVING"
      /\ t.state_history = RecordTransition(s, "OBSERVING")
      /\ t.escalation_reason = s.escalation_reason
      /\ t.iteration_count = s.iteration_count
      /\ t.tool_traces = s.tool_traces
      /\ t.extracted_demand = s.extracted_demand
      /\ t.fsm_error = s.fsm_error
  BY <1>1, <1>2, <1>3, TransitionFields
<1>5. QED
  BY <1>4, CountRoundFields DEF Observe

(***************************************************************************)
(* The replies the engine can build are replies: the escalated one, the    *)
(* one assembled from a draft, and either of them after the guard.         *)
(***************************************************************************)
LEMMA SafeBodyType == PlainSentence \in Sentence /\ SafeBody \in Body
<1>1. PlainSentence \in Sentence
  BY DEF PlainSentence, Sentence
<1>2. <<PlainSentence>> \in Seq(Sentence) /\ <<PlainSentence>> # <<>>
  BY <1>1
<1>3. QED
  BY <1>1, <1>2 DEF SafeBody, Body

(* An escalated reply is a well-formed reply that carries its reason.      *)
LEMMA EscalatedResponseType ==
  ASSUME NEW s \in Session, NEW reason \in Reason \ {NoReason, "blank"}, NEW n \in Nat
  PROVE  LET reply == EscalatedResponse(s, reason, n) IN
         /\ reply \in Reply
         /\ reply.status = "REQUIRES_HUMAN_REVIEW"
         /\ reply.reason = reason
         /\ reply.body = SafeBody
         /\ WellFormedReply(reply)
<1>1. s.inbound_subject \in Sentence
  BY LoopAssumption DEF Session
<1>2. QED
  BY <1>1, SafeBodyType DEF EscalatedResponse, Reply, Status, WellFormedReply

(* The guard gives a well-formed reply: the one it was given if it finds   *)
(* no violation, else an escalated one with the safe body (validator.py).  *)
LEMMA GuardResponseType ==
  ASSUME NEW reply \in Reply, WellFormedReply(reply), NEW traces
  PROVE  LET final == GuardResponse(reply, traces) IN
         /\ final \in Reply
         /\ WellFormedReply(final)
         /\ \/ final = reply /\ Violations(reply, traces) = {}
            \/ final.status = "REQUIRES_HUMAN_REVIEW" /\ final.body = SafeBody
<1>1. CASE Violations(reply, traces) = {}
  BY <1>1 DEF GuardResponse
<1>2. CASE Violations(reply, traces) # {}
  <2>1. GuardResponse(reply, traces) =
          [status |-> "REQUIRES_HUMAN_REVIEW", reason |-> "AUTHORITY_VIOLATION",
           confidence |-> 0, subject |-> reply.subject, body |-> SafeBody,
           calls |-> reply.calls]
    BY <1>2 DEF GuardResponse
  <2>2. "REQUIRES_HUMAN_REVIEW" \in Status /\ "AUTHORITY_VIOLATION" \in Reason
    BY DEF Status, Reason
  <2>3. GuardResponse(reply, traces) \in Reply
    BY <2>1, <2>2, SafeBodyType DEF Reply
  <2>4. /\ GuardResponse(reply, traces).status = "REQUIRES_HUMAN_REVIEW"
        /\ GuardResponse(reply, traces).reason = "AUTHORITY_VIOLATION"
        /\ GuardResponse(reply, traces).body = SafeBody
    BY <2>1
  <2>5. QED
    BY <2>3, <2>4 DEF WellFormedReply, NoReason
<1>3. QED
  BY <1>1, <1>2

(* Whatever draft the model writes, the assembled reply is a reply, and it *)
(* resolves only from a resolving draft of enough confidence               *)
(* (response_builder.py).                                                  *)
LEMMA CertifiedResponseType ==
  ASSUME NEW d \in Drafts, NEW traces, NEW n \in Nat
  PROVE  LET reply == CertifiedResponse(d, traces, Threshold, n) IN
         /\ reply \in Reply
         /\ reply.status = "RESOLVED_AUTOMATICALLY" =>
              /\ reply.confidence >= Threshold
              /\ reply.reason = d.reason
              /\ d.status = "RESOLVED_AUTOMATICALLY"
<1> DEFINE uncertified == Violations(d, traces) # {}
           unsure == d.confidence < Threshold
           status == IF uncertified \/ unsure THEN "REQUIRES_HUMAN_REVIEW" ELSE d.status
           stated == CASE uncertified -> "AUTHORITY_VIOLATION"
                       [] ~uncertified /\ unsure -> "LOW_CONFIDENCE"
                       [] OTHER -> d.reason
           reason == IF status = "REQUIRES_HUMAN_REVIEW" /\ stated = NoReason
                     THEN "SYNTHESIS_POLICY" ELSE stated
           body == IF uncertified THEN SafeBody ELSE d.body
<1>1. /\ d.status \in Status /\ d.reason \in {NoReason, "blank", "MODEL_STATED"}
      /\ d.confidence \in Nat /\ d.subject \in Sentence /\ d.body \in Body
      /\ Threshold \in Nat
  BY LoopAssumption
<1>2. status \in Status
  BY <1>1 DEF Status
<1>3. stated \in Reason
  BY <1>1 DEF Reason
<1>4. reason \in Reason
  BY <1>3 DEF Reason
<1>5. body \in Body
  BY <1>1, SafeBodyType
<1>6. status = "RESOLVED_AUTOMATICALLY" =>
        ~uncertified /\ ~unsure /\ stated = d.reason /\ reason = d.reason
  BY <1>1
<1>7. CertifiedResponse(d, traces, Threshold, n) =
        [status |-> status, reason |-> reason, confidence |-> d.confidence,
         subject |-> d.subject, body |-> body, calls |-> n]
  BY DEF CertifiedResponse
<1> HIDE DEF uncertified, status, stated, reason, body
<1>8. QED
  BY <1>1, <1>2, <1>4, <1>5, <1>6, <1>7 DEF Reply, Status, status

-----------------------------------------------------------------------------
(***************************************************************************)
(* The inductive invariant: where the coroutine is suspended tells the     *)
(* state of the session, so every transition it asks for is legal.         *)
(***************************************************************************)
AtStart ==
  phase = "start" =>
    /\ session.current_state = "RECEIVED"
    /\ session.state_history = <<>>
    /\ session.tool_traces = <<>>
    /\ session.iteration_count = 0
    /\ answered = 0

Suspended ==
  /\ phase = "ask_model" => session.current_state \in {"ANALYZING", "OBSERVING"}
  /\ phase = "run_tools" => session.current_state = "EXECUTING_TOOL" /\ pending > 0
  /\ phase = "synthesize" => session.current_state = "GENERATING_RESPONSE"
  /\ phase = "returned" => session.current_state \in {"COMPLETED", "REQUIRES_HUMAN"}
  /\ phase \in Ended \ {"returned"} => session.current_state \notin TERMINAL_STATES

NotEscalated == phase # "returned" => session.escalation_reason = NoReason

IInv ==
  /\ TypeOK
  /\ AtStart
  /\ Suspended
  /\ NotEscalated
  /\ ~session.fsm_error

(* A session starts inside the invariant.                                  *)
LEMMA InitIInv == Init => IInv
<1> SUFFICES ASSUME Init PROVE IInv
  OBVIOUS
<1>1. PICK d \in Demands, s \in Subjects : session = NewSession(d, s)
  BY DEF Init
<1>2. session \in Session
  BY <1>1 DEF NewSession, Session, LifecycleState, Reason
<1>3. /\ session.current_state = "RECEIVED" /\ session.state_history = <<>>
      /\ session.tool_traces = <<>> /\ session.iteration_count = 0
      /\ session.escalation_reason = NoReason /\ session.fsm_error = FALSE
  BY <1>1 DEF NewSession
<1>4. TypeOK
  BY <1>2, LoopAssumption DEF TypeOK, Init, Phase
<1>5. QED
  BY <1>3, <1>4 DEF IInv, AtStart, Suspended, NotEscalated, Init, Ended

(***************************************************************************)
(* One lemma per kind of move, in the shape the step proofs need.          *)
(***************************************************************************)
LEMMA Escalation ==
  ASSUME NEW s \in Session, ~s.fsm_error, s.escalation_reason = NoReason,
         NEW reason \in Reason \ {NoReason},
         s.current_state \in LifecycleState \ (TERMINAL_STATES \cup {"RECEIVED"})
  PROVE  LET t == TransitionToHuman(s, reason) IN
         /\ t \in Session /\ ~t.fsm_error
         /\ t.current_state = "REQUIRES_HUMAN"
         /\ t.state_history = RecordTransition(s, "REQUIRES_HUMAN")
         /\ t.escalation_reason = reason
         /\ t.iteration_count = s.iteration_count
         /\ t.tool_traces = s.tool_traces
         /\ t.extracted_demand = s.extracted_demand
         /\ <<s.current_state, "REQUIRES_HUMAN">> \in VALID_TRANSITIONS
<1>1. <<s.current_state, "REQUIRES_HUMAN">> \in VALID_TRANSITIONS
  BY DEF LifecycleState, TERMINAL_STATES, VALID_TRANSITIONS
<1>2. "REQUIRES_HUMAN" \in LifecycleState
  BY DEF LifecycleState
<1>3. KeptReason(s, "REQUIRES_HUMAN", reason) = reason
  BY DEF KeptReason
<1>4. QED
  BY <1>1, <1>2, <1>3, TransitionFields DEF TransitionToHuman, CanTransition

(* A transition that is not an escalation goes where it was asked to, and  *)
(* leaves the lifecycle legal (AgentFSMController.transition).             *)
LEMMA Advance ==
  ASSUME NEW s \in Session, ~s.fsm_error, s.escalation_reason = NoReason,
         NEW target \in LifecycleState,
         <<s.current_state, target>> \in VALID_TRANSITIONS
  PROVE  LET t == Transition(s, target, NoReason) IN
         /\ t \in Session /\ ~t.fsm_error
         /\ t.current_state = target
         /\ t.state_history = RecordTransition(s, target)
         /\ t.escalation_reason = NoReason
         /\ t.iteration_count = s.iteration_count
         /\ t.tool_traces = s.tool_traces
         /\ t.extracted_demand = s.extracted_demand
         /\ t.inbound_subject = s.inbound_subject
<1>1. NoReason \in Reason
  BY DEF Reason
<1>2. KeptReason(s, target, NoReason) = NoReason
  BY DEF KeptReason
<1>3. QED
  BY <1>1, <1>2, TransitionFields DEF CanTransition

(* Ending a run on a reply returns the guarded reply, and moves the        *)
(* session to the verdict that reply states (loop.py, 219-234).            *)
LEMMA Conclusion ==
  ASSUME IInv, phase = "synthesize",
         NEW reply \in Reply, WellFormedReply(reply), Conclude(reply)
  PROVE  LET final == GuardResponse(reply, session.tool_traces) IN
         /\ phase' = "returned" /\ response' = final /\ response' \in Reply
         /\ session' \in Session /\ ~session'.fsm_error
         /\ session'.iteration_count = session.iteration_count
         /\ session'.tool_traces = session.tool_traces
         /\ session'.extracted_demand = session.extracted_demand
         /\ session'.state_history = RecordTransition(session, session'.current_state)
         /\ <<session.current_state, session'.current_state>> \in VALID_TRANSITIONS
         /\ \/ /\ final.status = "REQUIRES_HUMAN_REVIEW"
               /\ session'.current_state = "REQUIRES_HUMAN"
               /\ session'.escalation_reason = final.reason
               /\ final.reason \notin {NoReason, "blank"}
            \/ /\ final.status = "RESOLVED_AUTOMATICALLY"
               /\ session'.current_state = "COMPLETED"
               /\ session'.escalation_reason = NoReason
<1> DEFINE final == GuardResponse(reply, session.tool_traces)
<1>1. final \in Reply /\ WellFormedReply(final)
  BY GuardResponseType
<1>2. /\ session \in Session /\ ~session.fsm_error
      /\ session.escalation_reason = NoReason
      /\ session.current_state = "GENERATING_RESPONSE"
  BY DEF IInv, TypeOK, Suspended, NotEscalated
<1>3. phase' = "returned" /\ response' = final
  BY DEF Conclude, Return
<1>4. CASE final.status = "REQUIRES_HUMAN_REVIEW"
  <2>1. session' = TransitionToHuman(session, final.reason)
    BY <1>4 DEF Conclude
  <2>2. final.reason \in Reason \ {NoReason, "blank"}
    BY <1>1, <1>4 DEF Reply, WellFormedReply
  <2>3. session.current_state \in LifecycleState \ (TERMINAL_STATES \cup {"RECEIVED"})
    BY <1>2 DEF LifecycleState, TERMINAL_STATES
  <2> HIDE DEF final
  <2>4. /\ session' \in Session /\ ~session'.fsm_error
        /\ session'.current_state = "REQUIRES_HUMAN"
        /\ session'.state_history = RecordTransition(session, "REQUIRES_HUMAN")
        /\ session'.escalation_reason = final.reason
        /\ session'.iteration_count = session.iteration_count
        /\ session'.tool_traces = session.tool_traces
        /\ session'.extracted_demand = session.extracted_demand
        /\ <<session.current_state, "REQUIRES_HUMAN">> \in VALID_TRANSITIONS
    BY <1>2, <2>1, <2>2, <2>3, Escalation
  <2>5. QED
    BY <1>1, <1>3, <1>4, <2>2, <2>4 DEF final
<1>5. CASE final.status # "REQUIRES_HUMAN_REVIEW"
  <2>1. session' = Transition(session, "COMPLETED", NoReason)
    BY <1>5 DEF Conclude
  <2>2. final.status = "RESOLVED_AUTOMATICALLY"
    BY <1>1, <1>5 DEF Reply, Status
  <2>3. /\ "COMPLETED" \in LifecycleState
        /\ <<session.current_state, "COMPLETED">> \in VALID_TRANSITIONS
    BY <1>2 DEF LifecycleState, VALID_TRANSITIONS
  <2> HIDE DEF final
  <2>4. /\ session' \in Session /\ ~session'.fsm_error
        /\ session'.current_state = "COMPLETED"
        /\ session'.state_history = RecordTransition(session, "COMPLETED")
        /\ session'.escalation_reason = NoReason
        /\ session'.iteration_count = session.iteration_count
        /\ session'.tool_traces = session.tool_traces
        /\ session'.extracted_demand = session.extracted_demand
    BY <1>2, <2>1, <2>3, Advance
  <2>5. QED
    BY <1>1, <1>3, <2>2, <2>3, <2>4 DEF final
<1>6. QED
  BY <1>4, <1>5

-----------------------------------------------------------------------------
(***************************************************************************)
(* What each action of the engine does, from a state of the invariant.     *)
(***************************************************************************)
Kept ==   \* what no action but ToolReturns changes
  /\ session' \in Session /\ ~session'.fsm_error
  /\ session'.tool_traces = session.tool_traces
  /\ session'.iteration_count = session.iteration_count
  /\ session'.extracted_demand = session.extracted_demand

Moved ==  \* one legal transition, recorded
  /\ session'.state_history = RecordTransition(session, session'.current_state)
  /\ <<session.current_state, session'.current_state>> \in VALID_TRANSITIONS

EscalatedTo ==
  /\ phase' = "returned"
  /\ session'.current_state = "REQUIRES_HUMAN"
  /\ response' \in Reply
  /\ response'.status = "REQUIRES_HUMAN_REVIEW"
  /\ response'.reason = session'.escalation_reason
  /\ response'.reason \notin {NoReason, "blank"}
  /\ response'.body = SafeBody

(* A demand the screening escalates ends the run in REQUIRES_HUMAN, with   *)
(* nothing spent (loop.py, 77-97).                                         *)
LEMMA EscalateDemandEffect ==
  ASSUME IInv, phase = "start", NEW reason \in Reason \ {NoReason, "blank"},
         EscalateDemand(reason)
  PROVE  /\ Kept /\ EscalatedTo
         /\ session'.state_history =
              Append(RecordTransition(session, "ANALYZING"), <<"ANALYZING", "REQUIRES_HUMAN">>)
<1> DEFINE a == Transition(session, "ANALYZING", NoReason)
<1>1. /\ session \in Session /\ ~session.fsm_error
      /\ session.escalation_reason = NoReason
      /\ session.current_state = "RECEIVED"
  BY DEF IInv, TypeOK, AtStart, NotEscalated
<1>2. /\ "ANALYZING" \in LifecycleState
      /\ <<session.current_state, "ANALYZING">> \in VALID_TRANSITIONS
  BY <1>1 DEF LifecycleState, VALID_TRANSITIONS
<1>3. /\ a \in Session /\ ~a.fsm_error /\ a.current_state = "ANALYZING"
      /\ a.state_history = RecordTransition(session, "ANALYZING")
      /\ a.escalation_reason = NoReason
      /\ a.iteration_count = session.iteration_count
      /\ a.tool_traces = session.tool_traces
      /\ a.extracted_demand = session.extracted_demand
  BY <1>1, <1>2, Advance
<1>4. session' = TransitionToHuman(a, reason)
  BY DEF EscalateDemand, Analyzed
<1> HIDE DEF a
<1>5. a.current_state \in LifecycleState \ (TERMINAL_STATES \cup {"RECEIVED"})
  BY <1>3 DEF LifecycleState, TERMINAL_STATES
<1>6. /\ session' \in Session /\ ~session'.fsm_error
      /\ session'.current_state = "REQUIRES_HUMAN"
      /\ session'.state_history = RecordTransition(a, "REQUIRES_HUMAN")
      /\ session'.escalation_reason = reason
      /\ session'.iteration_count = a.iteration_count
      /\ session'.tool_traces = a.tool_traces
      /\ session'.extracted_demand = a.extracted_demand
  BY <1>3, <1>4, <1>5, Escalation
<1>7. RecordTransition(a, "REQUIRES_HUMAN") =
        Append(RecordTransition(session, "ANALYZING"), <<"ANALYZING", "REQUIRES_HUMAN">>)
  BY <1>3 DEF RecordTransition
<1>8. phase' = "returned" /\ response' = EscalatedResponse(session, reason, 0)
  BY DEF EscalateDemand, Return
<1>9. /\ response' \in Reply /\ response'.status = "REQUIRES_HUMAN_REVIEW"
      /\ response'.reason = reason /\ response'.body = SafeBody
  BY <1>1, <1>8, EscalatedResponseType
<1>10. Kept
  BY <1>3, <1>6 DEF Kept
<1>11. EscalatedTo
  BY <1>6, <1>8, <1>9 DEF EscalatedTo
<1>12. QED
  BY <1>6, <1>7, <1>10, <1>11

(* A demand that passes the screening leaves the session ANALYZING, with   *)
(* nothing spent (loop.py, 77-105).                                        *)
LEMMA BeginEffect ==
  ASSUME IInv, Begin
  PROVE  /\ Kept /\ phase = "start" /\ pending' = pending /\ answered' = answered
         /\ \/ /\ EscalatedTo
               /\ session'.state_history =
                    Append(RecordTransition(session, "ANALYZING"),
                           <<"ANALYZING", "REQUIRES_HUMAN">>)
            \/ /\ Moved
               /\ session'.current_state = "ANALYZING"
               /\ session'.escalation_reason = NoReason
               /\ phase' = "ask_model" /\ response' = response
               /\ ~session.extracted_demand.threat
               /\ session.extracted_demand.intent # "OUT_OF_SCOPE"
<1> DEFINE demand == session.extracted_demand
<1>1. phase = "start" /\ pending' = pending /\ answered' = answered
  BY DEF Begin
<1>2. CASE EscalateDemand("HOSTILE_OR_LEGAL_THREAT")
  <2>1. "HOSTILE_OR_LEGAL_THREAT" \in Reason \ {NoReason, "blank"}
    BY DEF Reason, NoReason
  <2>2. QED
    BY <1>1, <1>2, <2>1, EscalateDemandEffect
<1>3. CASE EscalateDemand("OUT_OF_SCOPE_INTENT")
  <2>1. "OUT_OF_SCOPE_INTENT" \in Reason \ {NoReason, "blank"}
    BY DEF Reason, NoReason
  <2>2. QED
    BY <1>1, <1>3, <2>1, EscalateDemandEffect
<1>4. CASE /\ ~demand.threat /\ demand.intent # "OUT_OF_SCOPE"
           /\ session' = Analyzed /\ phase' = "ask_model" /\ UNCHANGED response
  <2>1. /\ session \in Session /\ ~session.fsm_error
        /\ session.escalation_reason = NoReason
        /\ session.current_state = "RECEIVED"
    BY <1>1 DEF IInv, TypeOK, AtStart, NotEscalated
  <2>2. /\ "ANALYZING" \in LifecycleState
        /\ <<session.current_state, "ANALYZING">> \in VALID_TRANSITIONS
    BY <2>1 DEF LifecycleState, VALID_TRANSITIONS
  <2>3. session' = Transition(session, "ANALYZING", NoReason)
    BY <1>4 DEF Analyzed
  <2>4. /\ Kept /\ session'.current_state = "ANALYZING"
        /\ session'.state_history = RecordTransition(session, "ANALYZING")
        /\ session'.escalation_reason = NoReason
    BY <2>1, <2>2, <2>3, Advance DEF Kept
  <2>5. Moved
    BY <2>2, <2>4 DEF Moved
  <2>6. QED
    BY <1>1, <1>4, <2>4, <2>5
<1>5. QED
  BY <1>2, <1>3, <1>4 DEF Begin

(* A transition out of ANALYZING or OBSERVING that does not escalate. *)
LEMMA AskingAdvances ==
  ASSUME IInv, phase = "ask_model",
         NEW target \in {"GENERATING_RESPONSE", "EXECUTING_TOOL"},
         session' = Transition(session, target, NoReason)
  PROVE  /\ Kept /\ Moved
         /\ session'.current_state = target
         /\ session'.escalation_reason = NoReason
<1>1. /\ session \in Session /\ ~session.fsm_error
      /\ session.escalation_reason = NoReason
      /\ session.current_state \in {"ANALYZING", "OBSERVING"}
  BY DEF IInv, TypeOK, Suspended, NotEscalated
<1>2. /\ target \in LifecycleState
      /\ <<session.current_state, target>> \in VALID_TRANSITIONS
  BY <1>1 DEF LifecycleState, VALID_TRANSITIONS
<1>3. /\ Kept
      /\ session'.state_history = RecordTransition(session, target)
      /\ session'.current_state = target
      /\ session'.escalation_reason = NoReason
  BY <1>1, <1>2, Advance DEF Kept
<1>4. QED
  BY <1>2, <1>3 DEF Moved

(* An answer that asks for tools once the ceiling is reached ends the run  *)
(* in REQUIRES_HUMAN (loop.py).                                            *)
LEMMA ModelExceedsCeilingEffect ==
  ASSUME IInv, ModelExceedsCeiling
  PROVE  /\ Kept /\ Moved /\ EscalatedTo
         /\ phase = "ask_model" /\ pending' = pending /\ answered' = answered + 1
<1>1. /\ session \in Session /\ ~session.fsm_error
      /\ session.escalation_reason = NoReason
      /\ session.current_state \in {"ANALYZING", "OBSERVING"}
      /\ phase = "ask_model" /\ pending' = pending /\ answered' = answered + 1
      /\ answered \in Nat
  BY DEF IInv, TypeOK, Suspended, NotEscalated, ModelExceedsCeiling, ModelAnswers
<1>2. "LOOP_LIMIT_EXCEEDED" \in Reason \ {NoReason, "blank"}
  BY DEF Reason, NoReason
<1>3. session.current_state \in LifecycleState \ (TERMINAL_STATES \cup {"RECEIVED"})
  BY <1>1 DEF LifecycleState, TERMINAL_STATES
<1>4. session' = TransitionToHuman(session, "LOOP_LIMIT_EXCEEDED")
  BY DEF ModelExceedsCeiling
<1>5. /\ Kept
      /\ session'.current_state = "REQUIRES_HUMAN"
      /\ session'.state_history = RecordTransition(session, "REQUIRES_HUMAN")
      /\ session'.escalation_reason = "LOOP_LIMIT_EXCEEDED"
      /\ <<session.current_state, "REQUIRES_HUMAN">> \in VALID_TRANSITIONS
  BY <1>1, <1>2, <1>3, <1>4, Escalation DEF Kept
<1>6. /\ phase' = "returned"
      /\ response' = EscalatedResponse(session, "LOOP_LIMIT_EXCEEDED", answered + 1)
  BY DEF ModelExceedsCeiling, Return
<1>7. /\ response' \in Reply /\ response'.status = "REQUIRES_HUMAN_REVIEW"
      /\ response'.reason = "LOOP_LIMIT_EXCEEDED" /\ response'.body = SafeBody
  BY <1>1, <1>2, <1>6, EscalatedResponseType
<1>8. Moved
  BY <1>5 DEF Moved
<1>9. EscalatedTo
  BY <1>2, <1>5, <1>6, <1>7 DEF EscalatedTo
<1>10. QED
  BY <1>1, <1>5, <1>8, <1>9

(* A tool answer adds one trace; the last of a round also moves the        *)
(* session to OBSERVING, counts the round and asks the model again.        *)
LEMMA ToolReturnsEffect ==
  ASSUME IInv, ToolReturns
  PROVE  /\ phase = "run_tools" /\ session' \in Session /\ ~session'.fsm_error
         /\ pending' = pending - 1 /\ answered' = answered /\ response' = response
         /\ session'.extracted_demand = session.extracted_demand
         /\ session'.escalation_reason = NoReason
         /\ \E r \in Results : session'.tool_traces = Append(session.tool_traces, r)
         /\ \/ /\ pending # 1 /\ phase' = "run_tools"
               /\ session'.current_state = session.current_state
               /\ session'.state_history = session.state_history
               /\ session'.iteration_count = session.iteration_count
            \/ /\ pending = 1 /\ phase' = "ask_model" /\ Moved
               /\ session'.current_state = "OBSERVING"
               /\ session'.iteration_count = session.iteration_count + 1
<1>1. /\ session \in Session /\ ~session.fsm_error
      /\ session.escalation_reason = NoReason
      /\ session.current_state = "EXECUTING_TOOL" /\ phase = "run_tools"
  BY DEF IInv, TypeOK, Suspended, NotEscalated, ToolReturns
<1>2. PICK r \in Results :
        session' = IF pending = 1 THEN Observe(RecordTrace(session, r))
                   ELSE RecordTrace(session, r)
  BY DEF ToolReturns
<1> DEFINE u == RecordTrace(session, r)
<1>3. /\ u \in Session /\ ~u.fsm_error
      /\ u.tool_traces = Append(session.tool_traces, r)
      /\ u.current_state = "EXECUTING_TOOL"
      /\ u.state_history = session.state_history
      /\ u.escalation_reason = NoReason
      /\ u.iteration_count = session.iteration_count
      /\ u.extracted_demand = session.extracted_demand
  BY <1>1, RecordTraceFields
<1>4. /\ pending' = pending - 1 /\ answered' = answered /\ response' = response
      /\ phase' = IF pending = 1 THEN "ask_model" ELSE "run_tools"
  BY DEF ToolReturns
<1> HIDE DEF u
<1>5. CASE pending # 1
  <2>1. session' = u
    BY <1>2, <1>5 DEF u
  <2>2. QED
    BY <1>1, <1>3, <1>4, <1>5, <2>1
<1>6. CASE pending = 1
  <2>1. session' = Observe(u)
    BY <1>2, <1>6 DEF u
  <2>2. /\ session' \in Session /\ ~session'.fsm_error
        /\ session'.current_state = "OBSERVING"
        /\ session'.state_history = RecordTransition(u, "OBSERVING")
        /\ session'.escalation_reason = NoReason
        /\ session'.iteration_count = session.iteration_count + 1
        /\ session'.tool_traces = Append(session.tool_traces, r)
        /\ session'.extracted_demand = session.extracted_demand
    BY <1>3, <2>1, ObserveFields
  <2>3. RecordTransition(u, "OBSERVING") = RecordTransition(session, "OBSERVING")
    BY <1>1, <1>3 DEF RecordTransition
  <2>4. Moved
    BY <1>1, <2>2, <2>3 DEF Moved, VALID_TRANSITIONS
  <2>5. QED
    BY <1>1, <1>4, <1>6, <2>2, <2>4
<1>7. QED
  BY <1>5, <1>6

(* The end of the synthesis: the reply is the guarded form of some reply   *)
(* that resolves only with the confidence the threshold asks for.          *)
Concluded ==
  /\ Kept /\ Moved
  /\ phase' = "returned" /\ response' \in Reply
  /\ \/ /\ response'.status = "REQUIRES_HUMAN_REVIEW"
        /\ session'.current_state = "REQUIRES_HUMAN"
        /\ session'.escalation_reason = response'.reason
        /\ response'.reason \notin {NoReason, "blank"}
        /\ \/ response'.body = SafeBody
           \/ Violations(response', session.tool_traces) = {}
     \/ /\ response'.status = "RESOLVED_AUTOMATICALLY"
        /\ session'.current_state = "COMPLETED"
        /\ session'.escalation_reason = NoReason
        /\ response'.confidence >= Threshold
        /\ Violations(response', session.tool_traces) = {}

(* A reply that is well-formed, and confident enough when it resolves,     *)
(* ends the run as Concluded says.                                         *)
LEMMA ConcludeEffect ==
  ASSUME IInv, phase = "synthesize", NEW reply \in Reply, WellFormedReply(reply),
         reply.status = "RESOLVED_AUTOMATICALLY" => reply.confidence >= Threshold,
         Conclude(reply)
  PROVE  Concluded
<1> DEFINE traces == session.tool_traces
           final == GuardResponse(reply, traces)
<1>1. /\ phase' = "returned" /\ response' = final /\ response' \in Reply
      /\ Kept /\ Moved
      /\ \/ /\ final.status = "REQUIRES_HUMAN_REVIEW"
            /\ session'.current_state = "REQUIRES_HUMAN"
            /\ session'.escalation_reason = final.reason
            /\ final.reason \notin {NoReason, "blank"}
         \/ /\ final.status = "RESOLVED_AUTOMATICALLY"
            /\ session'.current_state = "COMPLETED"
            /\ session'.escalation_reason = NoReason
  BY Conclusion DEF Kept, Moved
<1>2. \/ final = reply /\ Violations(reply, traces) = {}
      \/ final.status = "REQUIRES_HUMAN_REVIEW" /\ final.body = SafeBody
  BY GuardResponseType
<1> HIDE DEF final
<1>3. CASE final = reply /\ Violations(reply, traces) = {}
  BY <1>1, <1>3 DEF Concluded
<1>4. CASE final.status = "REQUIRES_HUMAN_REVIEW" /\ final.body = SafeBody
  BY <1>1, <1>4 DEF Concluded
<1>5. QED
  BY <1>2, <1>3, <1>4

(* A synthesis concludes the run, or leaves it without a reply when the    *)
(* assembled one is malformed (pydantic raises).                           *)
LEMMA SynthesisReturnsEffect ==
  ASSUME IInv, SynthesisReturns
  PROVE  /\ phase = "synthesize" /\ pending' = pending /\ answered' = answered + 1
         /\ \/ Concluded
            \/ phase' = "invalid_reply" /\ UNCHANGED <<session, response>>
<1>1. /\ phase = "synthesize" /\ pending' = pending /\ answered' = answered + 1
      /\ answered \in Nat
  BY DEF IInv, TypeOK, SynthesisReturns
<1>2. PICK d \in Drafts :
        LET reply == CertifiedResponse(d, session.tool_traces, Threshold, answered) IN
        \/ WellFormedReply(reply) /\ Conclude(reply)
        \/ ~WellFormedReply(reply) /\ phase' = "invalid_reply"
             /\ UNCHANGED <<session, response>>
  BY DEF SynthesisReturns
<1> DEFINE reply == CertifiedResponse(d, session.tool_traces, Threshold, answered)
<1>3. /\ reply \in Reply
      /\ reply.status = "RESOLVED_AUTOMATICALLY" => reply.confidence >= Threshold
  BY <1>1, CertifiedResponseType
<1>4. CASE WellFormedReply(reply) /\ Conclude(reply)
  <2> HIDE DEF reply
  <2>1. QED
    BY <1>1, <1>3, <1>4, ConcludeEffect
<1>5. CASE phase' = "invalid_reply" /\ UNCHANGED <<session, response>>
  BY <1>1, <1>5
<1>6. QED
  BY <1>2, <1>4, <1>5

(* A failed synthesis ends the run in REQUIRES_HUMAN.                      *)
LEMMA SynthesisFailsEffect ==
  ASSUME IInv, SynthesisFails
  PROVE  /\ phase = "synthesize" /\ pending' = pending /\ answered' = answered
         /\ Concluded
<1> DEFINE reply == EscalatedResponse(session, "SYNTHESIS_FAILURE", answered)
<1>1. /\ phase = "synthesize" /\ pending' = pending /\ answered' = answered
      /\ answered \in Nat /\ session \in Session
      /\ Conclude(reply)
  BY DEF IInv, TypeOK, SynthesisFails
<1>2. "SYNTHESIS_FAILURE" \in Reason \ {NoReason, "blank"}
  BY DEF Reason, NoReason
<1>3. reply \in Reply /\ WellFormedReply(reply) /\ reply.status = "REQUIRES_HUMAN_REVIEW"
  BY <1>1, <1>2, EscalatedResponseType
<1> HIDE DEF reply
<1>4. QED
  BY <1>1, <1>3, ConcludeEffect

-----------------------------------------------------------------------------
(* Every step of the engine preserves the invariant: one step per action.  *)
LEMMA NextIInv == IInv /\ [Next]_vars => IInv'
<1> SUFFICES ASSUME IInv, [Next]_vars PROVE IInv'
  OBVIOUS
<1>0. /\ session \in Session /\ phase \in Phase /\ pending \in 0..MaxCalls
      /\ answered \in Nat /\ MaxCalls \in Nat
      /\ session.escalation_reason = NoReason \/ phase = "returned"
  BY LoopAssumption DEF IInv, TypeOK, NotEscalated
<1>00. phase # "returned" => response = NoReply
  BY DEF IInv, TypeOK
<1> USE DEF Phase, Ended, IInv, AtStart, Suspended, NotEscalated, TypeOK
<1>1. CASE Begin
  BY <1>0, <1>00, <1>1, BeginEffect DEF Kept, Moved, EscalatedTo
<1>2. CASE ModelIsDone
  <2>1. Kept /\ session'.current_state = "GENERATING_RESPONSE"
             /\ session'.escalation_reason = NoReason
    BY <1>2, AskingAdvances DEF ModelIsDone, ModelAnswers
  <2>2. QED
    BY <1>0, <1>00, <1>2, <2>1 DEF ModelIsDone, ModelAnswers, Kept
<1>3. CASE ModelExceedsCeiling
  BY <1>0, <1>3, ModelExceedsCeilingEffect DEF Kept, EscalatedTo
<1>4. CASE ModelCallsTools
  <2>1. Kept /\ session'.current_state = "EXECUTING_TOOL"
             /\ session'.escalation_reason = NoReason
    BY <1>4, AskingAdvances DEF ModelCallsTools, ModelAnswers
  <2>2. QED
    BY <1>0, <1>00, <1>4, <2>1 DEF ModelCallsTools, ModelAnswers, Kept
<1>5. CASE ModelFails
  BY <1>0, <1>00, <1>5 DEF ModelFails, TERMINAL_STATES
<1>6. CASE ToolReturns
  BY <1>0, <1>00, <1>6, ToolReturnsEffect
<1>7. CASE ToolCallClashes
  BY <1>0, <1>00, <1>7 DEF ToolCallClashes, TERMINAL_STATES
<1>8. CASE SynthesisReturns
  BY <1>0, <1>00, <1>8, SynthesisReturnsEffect DEF Concluded, Kept, TERMINAL_STATES
<1>9. CASE SynthesisFails
  BY <1>0, <1>9, SynthesisFailsEffect DEF Concluded, Kept
<1>10. CASE Terminated \/ UNCHANGED vars
  BY <1>10 DEF Terminated, vars
<1>11. QED
  BY <1>1, <1>2, <1>3, <1>4, <1>5, <1>6, <1>7, <1>8, <1>9, <1>10 DEF Next

(* The inductive invariant holds in every reachable state of the engine    *)
(* (loop.py, run).                                                         *)
THEOREM Invariant == Spec => []IInv
<1>1. QED
  BY InitIInv, NextIInv, PTL DEF Spec

(* Every variable of a run keeps its type: the session record, the phase   *)
(* the coroutine is in, and the reply it returns (agent/state.py, loop.py).*)
THEOREM TypeCorrect == Spec => []TypeOK
<1>1. IInv => TypeOK
  BY DEF IInv
<1>2. QED
  BY Invariant, <1>1, PTL

-----------------------------------------------------------------------------
(***************************************************************************)
(* The recorded history is a chain: what appending one legal move to a     *)
(* chain that ends in the current state gives.                             *)
(***************************************************************************)
Chain(h, current) ==
  /\ \A i \in DOMAIN h : h[i] \in VALID_TRANSITIONS
  /\ \A i \in DOMAIN h : i + 1 \in DOMAIN h => h[i][2] = h[i + 1][1]
  /\ h = <<>> => current = "RECEIVED"
  /\ h # <<>> => h[1][1] = "RECEIVED" /\ h[Len(h)][2] = current

(* A chain of transitions extended from its last state is a chain.         *)
LEMMA ChainAppend ==
  ASSUME NEW h \in Seq(LifecycleState \X LifecycleState),
         NEW from \in LifecycleState, NEW to \in LifecycleState,
         <<from, to>> \in VALID_TRANSITIONS, Chain(h, from)
  PROVE  Chain(Append(h, <<from, to>>), to)
<1> DEFINE g == Append(h, <<from, to>>)
<1>1. /\ Len(h) \in Nat /\ Len(g) = Len(h) + 1 /\ g \in Seq(LifecycleState \X LifecycleState)
      /\ DOMAIN h = 1..Len(h) /\ DOMAIN g = 1..(Len(h) + 1)
      /\ \A i \in 1..Len(h) : g[i] = h[i]
      /\ g[Len(h) + 1] = <<from, to>>
      /\ g # <<>>
  OBVIOUS
<1>2. h = <<>> <=> Len(h) = 0
  OBVIOUS
<1> HIDE DEF g
<1>3. \A i \in DOMAIN g : g[i] \in VALID_TRANSITIONS
  BY <1>1 DEF Chain
<1>4. ASSUME NEW i \in DOMAIN g, i + 1 \in DOMAIN g PROVE g[i][2] = g[i + 1][1]
  <2>1. CASE i + 1 \in DOMAIN h
    BY <1>1, <2>1 DEF Chain
  <2>2. CASE i = Len(h)
    <3>1. h # <<>> /\ h[Len(h)][2] = from
      BY <1>1, <1>2, <2>2 DEF Chain
    <3>2. g[i] = h[Len(h)] /\ g[i + 1] = <<from, to>>
      BY <1>1, <2>2
    <3>3. QED
      BY <3>1, <3>2
  <2>3. QED
    BY <1>1, <1>4, <2>1, <2>2
<1>5. g[1][1] = "RECEIVED"
  <2>1. CASE h = <<>>
    <3>1. g[1] = <<from, to>> /\ from = "RECEIVED"
      BY <1>1, <1>2, <2>1 DEF Chain
    <3>2. QED
      BY <3>1
  <2>2. CASE h # <<>>
    BY <1>1, <1>2, <2>2 DEF Chain
  <2>3. QED
    BY <2>1, <2>2
<1>6. g[Len(g)][2] = to
  <2>1. g[Len(g)] = <<from, to>>
    BY <1>1
  <2>2. QED
    BY <2>1
<1>7. QED
  BY <1>1, <1>3, <1>4, <1>5, <1>6 DEF Chain, g

ChainKept == Chain(session.state_history, session.current_state)

(* A move keeps the history of the session an unbroken chain.              *)
LEMMA MovedKeepsChain ==
  ASSUME IInv, IInv', ChainKept, Moved
  PROVE  ChainKept'
<1>1. /\ session \in Session /\ session' \in Session
      /\ session.state_history \in Seq(LifecycleState \X LifecycleState)
      /\ session.current_state \in LifecycleState
      /\ session'.current_state \in LifecycleState
  BY DEF IInv, TypeOK, Session
<1>2. session'.state_history =
        Append(session.state_history, <<session.current_state, session'.current_state>>)
  BY DEF Moved, RecordTransition
<1>3. QED
  BY <1>1, <1>2, ChainAppend DEF Moved, ChainKept

(* From the first call to the last, the engine asks the controller only    *)
(* for legal transitions, and the history it leaves in the session is an   *)
(* unbroken chain from RECEIVED (controller.py, loop.py).                  *)
THEOREM LifecycleSafe == Spec => []LifecycleRespected
<1>1. Init => ChainKept
  <2> SUFFICES ASSUME Init PROVE ChainKept
    OBVIOUS
  <2>1. session.state_history = <<>> /\ session.current_state = "RECEIVED"
    BY DEF Init, NewSession
  <2>2. DOMAIN <<>> = {}
    OBVIOUS
  <2>3. QED
    BY <2>1, <2>2 DEF ChainKept, Chain
<1>2. IInv /\ IInv' /\ ChainKept /\ [Next]_vars => ChainKept'
  <2> SUFFICES ASSUME IInv, IInv', ChainKept, [Next]_vars PROVE ChainKept'
    OBVIOUS
  <2>1. CASE Begin
    <3>1. CASE Moved
      BY <3>1, MovedKeepsChain
    <3>2. CASE EscalatedTo /\ session'.state_history =
                 Append(RecordTransition(session, "ANALYZING"),
                        <<"ANALYZING", "REQUIRES_HUMAN">>)
      <4> DEFINE h == RecordTransition(session, "ANALYZING")
      <4>1. /\ session.state_history \in Seq(LifecycleState \X LifecycleState)
            /\ session.current_state = "RECEIVED"
            /\ {"RECEIVED", "ANALYZING", "REQUIRES_HUMAN"} \subseteq LifecycleState
            /\ <<"RECEIVED", "ANALYZING">> \in VALID_TRANSITIONS
            /\ <<"ANALYZING", "REQUIRES_HUMAN">> \in VALID_TRANSITIONS
        BY <2>1 DEF IInv, TypeOK, AtStart, Session, Begin, LifecycleState,
                    VALID_TRANSITIONS
      <4>2. h \in Seq(LifecycleState \X LifecycleState)
        BY <4>1 DEF RecordTransition
      <4>3. Chain(h, "ANALYZING")
        BY <4>1, ChainAppend DEF RecordTransition, ChainKept
      <4> HIDE DEF h
      <4>4. Chain(Append(h, <<"ANALYZING", "REQUIRES_HUMAN">>), "REQUIRES_HUMAN")
        BY <4>1, <4>2, <4>3, ChainAppend
      <4>5. QED
        BY <3>2, <4>4 DEF ChainKept, EscalatedTo, h
    <3>3. QED
      BY <2>1, <3>1, <3>2, BeginEffect
  <2>2. CASE ModelIsDone
    BY <2>2, AskingAdvances, MovedKeepsChain DEF ModelIsDone, ModelAnswers
  <2>3. CASE ModelExceedsCeiling
    BY <2>3, ModelExceedsCeilingEffect, MovedKeepsChain
  <2>4. CASE ModelCallsTools
    BY <2>4, AskingAdvances, MovedKeepsChain DEF ModelCallsTools, ModelAnswers
  <2>5. CASE ToolReturns
    BY <2>5, ToolReturnsEffect, MovedKeepsChain DEF ChainKept
  <2>6. CASE SynthesisReturns
    BY <2>6, SynthesisReturnsEffect, MovedKeepsChain DEF Concluded, ChainKept
  <2>7. CASE SynthesisFails
    BY <2>7, SynthesisFailsEffect, MovedKeepsChain DEF Concluded
  <2>8. CASE UNCHANGED session
    BY <2>8 DEF ChainKept
  <2>9. QED
    BY <2>1, <2>2, <2>3, <2>4, <2>5, <2>6, <2>7, <2>8
       DEF Next, ModelFails, ToolCallClashes, Terminated, vars
<1>3. IInv /\ ChainKept => LifecycleRespected
  BY DEF IInv, ChainKept, Chain, LifecycleRespected
<1>4. QED
  BY Invariant, <1>1, <1>2, <1>3, PTL DEF Spec

-----------------------------------------------------------------------------
(***************************************************************************)
(* The budget.  While a round is being executed its pending calls are the  *)
(* only ones not yet traced.                                               *)
(***************************************************************************)
Budget ==
  LET rounds == session.iteration_count
      calls  == Len(session.tool_traces)
  IN  /\ rounds <= MaxIterations /\ rounds <= calls
      /\ phase = "run_tools" => /\ rounds < MaxIterations
                                /\ calls <= rounds * MaxCalls + (MaxCalls - pending)
      /\ phase \in {"start", "ask_model", "synthesize", "returned"} =>
           pending = 0 /\ calls <= rounds * MaxCalls

(* Multiplication by MaxCalls is monotone, and one round more allows       *)
(* MaxCalls calls more.                                                    *)
LEMMA ProductMonotone ==
  ASSUME NEW m \in Nat, NEW n \in Nat, NEW k \in Nat, m <= n
  PROVE  m * k <= n * k /\ m * k \in Nat /\ (m + 1) * k = m * k + k
<1>1. PICK d \in Nat : n = m + d
  <2>1. n - m \in Nat /\ n = m + (n - m)
    OBVIOUS
  <2>2. QED
    BY <2>1
<1>2. n * k = m * k + d * k /\ (m + 1) * k = m * k + k
  BY <1>1
<1>3. d * k \in Nat /\ m * k \in Nat
  OBVIOUS
<1>4. QED
  BY <1>2, <1>3

(* The engine executes at most MaxIterations rounds of at most MaxCalls    *)
(* tools, whatever the model asks for (loop.py, lines 108-200).            *)
THEOREM BudgetSafe == Spec => []BudgetKept
<1>1. Init => Budget
  <2> SUFFICES ASSUME Init PROVE Budget
    OBVIOUS
  <2>1. session.iteration_count = 0 /\ session.tool_traces = <<>> /\ pending = 0
        /\ phase = "start"
    BY DEF Init, NewSession
  <2>2. Len(<<>>) = 0 /\ 0 * MaxCalls = 0 /\ 0 <= MaxIterations
    BY LoopAssumption
  <2>3. QED
    BY <2>1, <2>2 DEF Budget
<1>2. IInv /\ IInv' /\ Budget /\ [Next]_vars => Budget'
  <2> SUFFICES ASSUME IInv, IInv', Budget, [Next]_vars PROVE Budget'
    OBVIOUS
  <2> DEFINE rounds == session.iteration_count
             calls  == Len(session.tool_traces)
  <2>1. /\ rounds \in Nat /\ calls \in Nat /\ pending \in 0..MaxCalls
        /\ MaxCalls \in Nat /\ MaxIterations \in Nat
        /\ rounds * MaxCalls \in Nat
    BY LoopAssumption, ProductMonotone DEF IInv, TypeOK, Session
  <2>2. CASE Begin
    BY <2>1, <2>2, BeginEffect DEF Budget, Kept, EscalatedTo
  <2>3. CASE ModelIsDone
    <3>1. Kept
      BY <2>3, AskingAdvances DEF ModelIsDone, ModelAnswers
    <3>2. QED
      BY <2>1, <2>3, <3>1 DEF Budget, Kept, ModelIsDone, ModelAnswers
  <2>4. CASE ModelExceedsCeiling
    BY <2>1, <2>4, ModelExceedsCeilingEffect DEF Budget, Kept, EscalatedTo
  <2>5. CASE ModelCallsTools
    <3>1. Kept
      BY <2>5, AskingAdvances DEF ModelCallsTools, ModelAnswers
    <3>2. /\ phase = "ask_model" /\ phase' = "run_tools" /\ pending' \in 1..MaxCalls
          /\ rounds < MaxIterations
      BY <2>1, <2>5 DEF ModelCallsTools, ModelAnswers, CeilingReached
    <3>3. QED
      BY <2>1, <3>1, <3>2 DEF Budget, Kept
  <2>6. CASE ToolReturns
    <3>1. /\ phase = "run_tools" /\ pending > 0
          /\ pending' = pending - 1 /\ rounds < MaxIterations
          /\ rounds <= calls /\ calls <= rounds * MaxCalls + (MaxCalls - pending)
      BY <2>6, ToolReturnsEffect DEF Budget, IInv, Suspended
    <3>2. Len(session'.tool_traces) = calls + 1
      BY <2>6, ToolReturnsEffect DEF IInv, TypeOK, Session
    <3>3. CASE pending # 1
      <4>1. phase' = "run_tools" /\ session'.iteration_count = rounds
        BY <2>6, <3>3, ToolReturnsEffect
      <4>2. QED
        BY <2>1, <3>1, <3>2, <4>1 DEF Budget
    <3>4. CASE pending = 1
      <4>1. phase' = "ask_model" /\ session'.iteration_count = rounds + 1
        BY <2>6, <3>4, ToolReturnsEffect
      <4>2. (rounds + 1) * MaxCalls = rounds * MaxCalls + MaxCalls
        BY <2>1, ProductMonotone
      <4>3. calls + 1 <= (rounds + 1) * MaxCalls /\ pending' = 0
        BY <2>1, <3>1, <3>4, <4>2
      <4> HIDE DEF rounds, calls
      <4>4. QED
        BY <2>1, <3>1, <3>2, <4>1, <4>3 DEF Budget
    <3>5. QED
      BY <3>3, <3>4
  <2>7. CASE SynthesisReturns
    BY <2>1, <2>7, SynthesisReturnsEffect DEF Budget, Concluded, Kept
  <2>8. CASE SynthesisFails
    BY <2>1, <2>8, SynthesisFailsEffect DEF Budget, Concluded, Kept
  <2>9. CASE ModelFails \/ ToolCallClashes \/ Terminated \/ UNCHANGED vars
    BY <2>9 DEF Budget, ModelFails, ToolCallClashes, Terminated, vars
  <2>10. QED
    BY <2>2, <2>3, <2>4, <2>5, <2>6, <2>7, <2>8, <2>9 DEF Next
<1>3. IInv /\ Budget => BudgetKept
  <2> SUFFICES ASSUME IInv, Budget PROVE BudgetKept
    OBVIOUS
  <2>1. /\ session.iteration_count \in Nat /\ Len(session.tool_traces) \in Nat
        /\ MaxCalls \in Nat /\ MaxIterations \in Nat
    BY LoopAssumption DEF IInv, TypeOK, Session
  <2>2. session.iteration_count * MaxCalls <= MaxIterations * MaxCalls
    BY <2>1, ProductMonotone DEF Budget
  <2>3. /\ session.iteration_count * MaxCalls \in Nat /\ MaxIterations * MaxCalls \in Nat
    BY <2>1
  <2>4. phase \in {"ask_model", "synthesize", "returned"} =>
          Len(session.tool_traces) <= MaxIterations * MaxCalls
    BY <2>1, <2>2, <2>3 DEF Budget
  <2>5. QED
    BY <2>4 DEF Budget, BudgetKept, IInv, Suspended
<1>4. QED
  BY Invariant, <1>1, <1>2, <1>3, PTL DEF Spec

(* The reply and the session tell the same verdict (loop.py, 219-234).     *)
THEOREM VerdictsAgree == Spec => []OutcomeAgrees
<1>1. Init => OutcomeAgrees
  BY DEF Init, OutcomeAgrees
<1>2. IInv /\ OutcomeAgrees /\ [Next]_vars => OutcomeAgrees'
  <2> SUFFICES ASSUME IInv, OutcomeAgrees, [Next]_vars PROVE OutcomeAgrees'
    OBVIOUS
  <2>1. CASE Begin
    BY <2>1, BeginEffect DEF OutcomeAgrees, EscalatedTo
  <2>2. CASE ModelExceedsCeiling
    BY <2>2, ModelExceedsCeilingEffect DEF OutcomeAgrees, EscalatedTo
  <2>3. CASE SynthesisReturns
    BY <2>3, SynthesisReturnsEffect DEF OutcomeAgrees, Concluded
  <2>4. CASE SynthesisFails
    BY <2>4, SynthesisFailsEffect DEF OutcomeAgrees, Concluded
  <2>5. CASE ToolReturns
    BY <2>5, ToolReturnsEffect DEF OutcomeAgrees
  <2>6. CASE ModelIsDone \/ ModelCallsTools \/ ModelFails \/ ToolCallClashes
    BY <2>6 DEF OutcomeAgrees, ModelIsDone, ModelCallsTools, ModelFails, ToolCallClashes
  <2>7. CASE Terminated \/ UNCHANGED vars
    BY <2>7 DEF OutcomeAgrees, Terminated, vars
  <2>8. QED
    BY <2>1, <2>2, <2>3, <2>4, <2>5, <2>6, <2>7 DEF Next
<1>3. QED
  BY Invariant, <1>1, <1>2, PTL DEF Spec

-----------------------------------------------------------------------------
(***************************************************************************)
(* Certification.                                                          *)
(***************************************************************************)
Certified ==
  session.current_state = "COMPLETED" =>
    /\ phase = "returned"
    /\ response.confidence >= Threshold
    /\ Violations(response, session.tool_traces) = {}
    /\ response.status = "RESOLVED_AUTOMATICALLY"

(* Without a violation each rule of the guard holds of the reply. *)
LEMMA NoViolation ==
  ASSUME NEW reply, NEW traces, Violations(reply, traces) = {}
  PROVE  LET claims == ApprovalClaims(reply.subject, reply.body) IN
         /\ MonetaryAmounts(reply.subject, reply.body) \subseteq CertifiedAmounts(traces)
         /\ "refund" \in claims => RefundAuthorized(traces)
         /\ "voucher" \in claims => VoucherAuthorized(traces)
         /\ ~MutationClaimed(reply.subject, reply.body)
         /\ reply.status = "RESOLVED_AUTOMATICALLY" => ~SecurityBreach(traces)
  BY DEF Violations, Flag

(* A session is COMPLETED only with a reply that the tool results certify  *)
(* (validator.py, response_builder.py).                                    *)
THEOREM OnlyCertifiedCompletions == Spec => []CompletedIsCertified
<1>1. Init => Certified
  <2> SUFFICES ASSUME Init PROVE Certified
    OBVIOUS
  <2>1. session.current_state = "RECEIVED"
    BY DEF Init, NewSession
  <2>2. QED
    BY <2>1 DEF Certified
<1>2. IInv /\ IInv' /\ Certified /\ [Next]_vars => Certified'
  <2> SUFFICES ASSUME IInv, IInv', Certified, [Next]_vars PROVE Certified'
    OBVIOUS
  <2>1. CASE Begin
    BY <2>1, BeginEffect DEF Certified, EscalatedTo
  <2>2. CASE ModelExceedsCeiling
    BY <2>2, ModelExceedsCeilingEffect DEF Certified, EscalatedTo
  <2>3. CASE ModelIsDone \/ ModelCallsTools
    BY <2>3, AskingAdvances DEF Certified, ModelIsDone, ModelCallsTools, ModelAnswers
  <2>4. CASE SynthesisReturns
    BY <2>4, SynthesisReturnsEffect DEF Certified, Concluded, Kept, IInv, Suspended
  <2>5. CASE SynthesisFails
    BY <2>5, SynthesisFailsEffect DEF Certified, Concluded, Kept
  <2>6. CASE ToolReturns
    BY <2>6, ToolReturnsEffect DEF Certified, IInv, Suspended
  <2>7. CASE ModelFails \/ ToolCallClashes
    BY <2>7 DEF Certified, ModelFails, ToolCallClashes, IInv, Suspended
  <2>8. CASE Terminated \/ UNCHANGED vars
    BY <2>8 DEF Certified, Terminated, vars
  <2>9. QED
    BY <2>1, <2>2, <2>3, <2>4, <2>5, <2>6, <2>7, <2>8 DEF Next
<1>3. Certified => CompletedIsCertified
  BY NoViolation DEF Certified, CompletedIsCertified
<1>4. QED
  BY Invariant, <1>1, <1>2, <1>3, PTL DEF Spec

(* A threat or an out-of-scope demand ends the run before any model answer *)
(* and any tool call (loop.py, lines 77-97).                               *)
THEOREM ScreenedSafe == Spec => []ScreenedDemandsAreFree
<1> DEFINE Screened == session.extracted_demand.threat
                         \/ session.extracted_demand.intent = "OUT_OF_SCOPE"
           Free == Screened =>
                     /\ answered = 0 /\ session.tool_traces = <<>>
                     /\ phase \in {"start", "returned"}
                     /\ phase = "returned" => session.current_state = "REQUIRES_HUMAN"
<1>1. Init => Free
  <2> SUFFICES ASSUME Init PROVE Free
    OBVIOUS
  <2>1. session.tool_traces = <<>>
    BY DEF Init, NewSession
  <2>2. QED
    BY <2>1 DEF Init
<1>2. IInv /\ IInv' /\ Free /\ [Next]_vars => Free'
  <2> SUFFICES ASSUME IInv, IInv', Free, [Next]_vars PROVE Free'
    OBVIOUS
  <2>1. CASE Begin
    BY <2>1, BeginEffect DEF EscalatedTo, Kept, IInv, AtStart
  <2>2. CASE phase \notin {"start", "returned"} /\ session'.extracted_demand = session.extracted_demand
    BY <2>2
  <2>3. CASE ModelIsDone \/ ModelCallsTools
    BY <2>2, <2>3, AskingAdvances DEF Kept, ModelIsDone, ModelCallsTools, ModelAnswers
  <2>4. CASE ModelExceedsCeiling
    BY <2>2, <2>4, ModelExceedsCeilingEffect DEF Kept
  <2>5. CASE ToolReturns
    BY <2>2, <2>5, ToolReturnsEffect
  <2>6. CASE SynthesisReturns
    BY <2>2, <2>6, SynthesisReturnsEffect DEF Concluded, Kept
  <2>7. CASE SynthesisFails
    BY <2>2, <2>7, SynthesisFailsEffect DEF Concluded, Kept
  <2>8. CASE ModelFails \/ ToolCallClashes
    BY <2>2, <2>8 DEF ModelFails, ToolCallClashes
  <2>9. CASE Terminated \/ UNCHANGED vars
    BY <2>9 DEF Terminated, vars
  <2>10. QED
    BY <2>1, <2>3, <2>4, <2>5, <2>6, <2>7, <2>8, <2>9 DEF Next
<1>3. Free => ScreenedDemandsAreFree
  BY DEF ScreenedDemandsAreFree
<1>4. QED
  BY Invariant, <1>1, <1>2, <1>3, PTL DEF Spec

(* No step changes the session or the reply once the session is in a       *)
(* terminal state (controller.py: terminal states have no successor).      *)
THEOREM VerdictsFinal == Spec => VerdictIsFinal
<1>1. IInv /\ [Next]_vars =>
        [session.current_state \in TERMINAL_STATES => UNCHANGED <<session, response>>]_vars
  <2> SUFFICES ASSUME IInv, Next, session.current_state \in TERMINAL_STATES
               PROVE  UNCHANGED <<session, response>>
    BY DEF vars
  <2>1. phase \in Ended
    BY DEF IInv, TypeOK, Phase, AtStart, Suspended, TERMINAL_STATES
  <2>2. QED
    BY <2>1 DEF Next, Begin, ModelIsDone, ModelExceedsCeiling, ModelCallsTools, ModelFails,
       ModelAnswers, ToolReturns, ToolCallClashes, SynthesisReturns, SynthesisFails,
       Terminated, vars, Ended
<1>2. QED
  BY Invariant, <1>1, PTL DEF Spec, VerdictIsFinal

-----------------------------------------------------------------------------
(***************************************************************************)
(* The engine implements CertifiedSupport.                                 *)
(***************************************************************************)
(* The promise reads replies and evidence as the guard does: its operators *)
(* are the guard's, under another name.                                    *)
LEMMA PromiseAmounts ==
  ASSUME NEW traces PROVE Promise!CertifiedAmounts(traces) = CertifiedAmounts(traces)
<1>1. \A data : Promise!AmountsIn(data) = AmountsIn(data)
  BY DEF Promise!AmountsIn, AmountsIn, Promise!MonetaryKey, MonetaryKey,
         Promise!SumOfBoth, SumOfBoth
<1>2. Promise!Payloads(traces) = Payloads(traces)
  BY DEF Promise!Payloads, Payloads
<1>3. QED
  BY <1>1, <1>2 DEF Promise!CertifiedAmounts, CertifiedAmounts

(* The promise reads the rights a reply states as the guard does.          *)
LEMMA PromiseRights ==
  ASSUME NEW traces
  PROVE  /\ Promise!RefundAuthorized(traces) <=> RefundAuthorized(traces)
         /\ Promise!VoucherAuthorized(traces) <=> VoucherAuthorized(traces)
<1>1. Promise!Payloads(traces) = Payloads(traces)
  BY DEF Promise!Payloads, Payloads
<1>2. \A data, key, default :
        Promise!ValueOr(data, key, default) = ValueOr(data, key, default)
  BY DEF Promise!ValueOr, ValueOr
<1>3. Promise!RefundAuthorized(traces) <=> RefundAuthorized(traces)
  BY <1>1, <1>2 DEF Promise!RefundAuthorized, RefundAuthorized
<1>4. Promise!VoucherAuthorized(traces) <=> VoucherAuthorized(traces)
  BY <1>1, <1>2 DEF Promise!VoucherAuthorized, VoucherAuthorized
<1>5. QED
  BY <1>3, <1>4

(* The promise finds the violations the guard finds.                       *)
LEMMA PromiseViolations ==
  ASSUME NEW reply, NEW traces
  PROVE  Promise!Violations(reply, traces) = Violations(reply, traces)
<1>1. \A s : Promise!Granted(s) = Granted(s)
  BY DEF Promise!Granted, Granted
<1>2. \A subject, body : Promise!ApprovalClaims(subject, body) = ApprovalClaims(subject, body)
  BY <1>1 DEF Promise!ApprovalClaims, ApprovalClaims
<1>3. \A subject, body :
        Promise!SentencesOf(subject, body) = SentencesOf(subject, body)
  BY DEF Promise!SentencesOf, SentencesOf
<1>4. \A subject, body :
        /\ Promise!MonetaryAmounts(subject, body) = MonetaryAmounts(subject, body)
        /\ Promise!MutationClaimed(subject, body) <=> MutationClaimed(subject, body)
  BY <1>3 DEF Promise!MonetaryAmounts, MonetaryAmounts, Promise!MutationClaimed,
              MutationClaimed
<1>5. Promise!SecurityBreach(traces) <=> SecurityBreach(traces)
  BY DEF Promise!SecurityBreach, SecurityBreach
<1>6. QED
  BY <1>2, <1>4, <1>5, PromiseAmounts, PromiseRights
     DEF Promise!Violations, Violations, Promise!Flag, Flag

(* A reply in which the guard finds no violation is supported by the       *)
(* evidence, in the sense of the promise (validator.py).                   *)
LEMMA SupportedWithoutViolation ==
  ASSUME NEW reply \in Reply, NEW traces, Violations(reply, traces) = {}
  PROVE  Promise!Supported(reply.body, traces)
<1> DEFINE subject == reply.subject
           body    == reply.body
           claims  == ApprovalClaims(subject, body)
<1>1. /\ MonetaryAmounts(subject, body) \subseteq CertifiedAmounts(traces)
      /\ "refund" \in claims => RefundAuthorized(traces)
      /\ "voucher" \in claims => VoucherAuthorized(traces)
      /\ ~MutationClaimed(subject, body)
  BY NoViolation
<1>2. ASSUME NEW i \in DOMAIN body
      PROVE  body[i].amounts \subseteq CertifiedAmounts(traces) /\ ~body[i].mutation
  BY <1>1 DEF MonetaryAmounts, MutationClaimed, SentencesOf
<1>3. body \in Seq(Sentence) /\ DOMAIN body = 1..Len(body) /\ Len(body) \in Nat
  BY DEF Reply, Body
<1>4. ASSUME NEW i \in DOMAIN body, i > 1, ~body[i].negated
      PROVE  Granted(body[i]) \subseteq claims
  <2>1. body[i] \in {t \in {body[j] : j \in {k \in DOMAIN body : k > 1}} : ~t.negated}
    BY <1>4
  <2>2. QED
    BY <2>1 DEF ApprovalClaims
<1>5. \A s : Promise!Granted(s) = Granted(s)
  BY DEF Promise!Granted, Granted
<1>6. QED
  BY <1>1, <1>2, <1>4, <1>5, PromiseAmounts, PromiseRights DEF Promise!Supported

(* The safe body claims nothing, so any evidence supports it.              *)
LEMMA SafeBodySupported == ASSUME NEW traces PROVE Promise!Supported(SafeBody, traces)
  BY DEF Promise!Supported, SafeBody, PlainSentence

(* How the control point of a run reads as an outcome. *)
LEMMA OutcomeRead ==
  /\ phase \notin Ended => Outcome = "running"
  /\ phase \in Ended \ {"returned"} => Outcome = "aborted"
  /\ phase = "returned" /\ response.status = "RESOLVED_AUTOMATICALLY" => Outcome = "resolved"
  /\ phase = "returned" /\ response.status = "REQUIRES_HUMAN_REVIEW" => Outcome = "escalated"
BY DEF Outcome, Ended

(* The same, in the state after a step.                                    *)
LEMMA OutcomeReadNext ==
  /\ phase' \notin Ended => Outcome' = "running"
  /\ phase' \in Ended \ {"returned"} => Outcome' = "aborted"
  /\ phase' = "returned" /\ response'.status = "RESOLVED_AUTOMATICALLY"
       => Outcome' = "resolved"
  /\ phase' = "returned" /\ response'.status = "REQUIRES_HUMAN_REVIEW"
       => Outcome' = "escalated"
BY DEF Outcome, Ended

(* Ending with an escalation, or with a concluded synthesis, is a step of  *)
(* the promise.                                                            *)
LEMMA EscalatedIsEscalate ==
  ASSUME phase \notin Ended, Kept, EscalatedTo
  PROVE  Promise!Escalate
<1>1. Outcome = "running" /\ Outcome' = "escalated"
  BY OutcomeRead, OutcomeReadNext DEF EscalatedTo
<1>2. Promise!Supported(response'.body, session.tool_traces)
  BY SafeBodySupported DEF EscalatedTo
<1>3. QED
  BY <1>1, <1>2 DEF Promise!Escalate, Kept, EscalatedTo, NoReason, Promise!NoReason

(* Ending on a draft is a step of the promise: a resolution if the guard   *)
(* finds no violation, an escalation otherwise.                            *)
LEMMA ConcludedKeepsPromise ==
  ASSUME phase \notin Ended, Concluded
  PROVE  Promise!Escalate \/ Promise!Resolve
<1>1. Outcome = "running" /\ session'.tool_traces = session.tool_traces
      /\ phase' = "returned" /\ response' \in Reply
  BY OutcomeRead DEF Concluded, Kept
<1>2. Promise!Supported(response'.body, session.tool_traces)
  BY SafeBodySupported, SupportedWithoutViolation, <1>1 DEF Concluded
<1>3. CASE response'.status = "REQUIRES_HUMAN_REVIEW"
  <2>1. Outcome' = "escalated" /\ response'.reason \notin {NoReason, "blank"}
    BY <1>1, <1>3, OutcomeReadNext DEF Concluded
  <2>2. QED
    BY <1>1, <1>2, <1>3, <2>1 DEF Promise!Escalate, NoReason, Promise!NoReason
<1>4. CASE response'.status = "RESOLVED_AUTOMATICALLY"
  <2>1. /\ Outcome' = "resolved" /\ response'.confidence >= Threshold
        /\ Violations(response', session.tool_traces) = {}
    BY <1>1, <1>4, OutcomeReadNext DEF Concluded
  <2>2. Promise!Violations(response', session.tool_traces) = {}
    BY <2>1, PromiseViolations
  <2>3. QED
    BY <1>1, <1>2, <1>4, <2>1, <2>2 DEF Promise!Resolve
<1>5. QED
  BY <1>3, <1>4 DEF Concluded

(* Whatever the model writes, a run of the engine does what CertifiedSupport *)
(* promises: evidence only grows, and the run ends resolved with a supported *)
(* reply, escalated with a reason, or aborted without a reply.               *)
THEOREM Refinement == Spec => KeepsPromise
<1>1. Init => Promise!Init
  <2> SUFFICES ASSUME Init PROVE Promise!Init
    OBVIOUS
  <2>1. session.tool_traces = <<>> /\ phase = "start"
    BY DEF Init, NewSession
  <2>2. QED
    BY <2>1, OutcomeRead DEF Promise!Init, Ended
<1>2. IInv /\ IInv' /\ [Next]_vars => [Promise!Next]_(Promise!csVars)
  <2> SUFFICES ASSUME IInv, IInv', [Next]_vars
               PROVE  [Promise!Next]_(Promise!csVars)
    OBVIOUS
  <2>0. ASSUME phase \notin Ended, phase' \notin Ended, response' = response,
               session'.tool_traces = session.tool_traces
        PROVE  UNCHANGED Promise!csVars
    BY <2>0, OutcomeRead, OutcomeReadNext DEF Promise!csVars
  <2>00. ASSUME phase \notin Ended, phase' \in Ended \ {"returned"},
                UNCHANGED <<session, response>>
         PROVE  Promise!Abort
    BY <2>00, OutcomeRead, OutcomeReadNext DEF Promise!Abort
  <2>1. CASE Begin
    BY <2>0, <2>1, BeginEffect, EscalatedIsEscalate DEF Kept, Ended, Promise!Next
  <2>2. CASE ModelIsDone \/ ModelCallsTools
    <3>1. Kept
      BY <2>2, AskingAdvances DEF ModelIsDone, ModelCallsTools, ModelAnswers
    <3>2. QED
      BY <2>0, <2>2, <3>1 DEF Kept, Ended, ModelIsDone, ModelCallsTools, ModelAnswers
  <2>3. CASE ModelExceedsCeiling
    BY <2>3, ModelExceedsCeilingEffect, EscalatedIsEscalate DEF Ended, Promise!Next
  <2>4. CASE ToolReturns
    <3>1. PICK r \in Results : session'.tool_traces = Append(session.tool_traces, r)
      BY <2>4, ToolReturnsEffect
    <3>2. session.tool_traces \in Seq(Results)
      BY DEF IInv, TypeOK, Session
    <3>3. /\ Len(session'.tool_traces) = Len(session.tool_traces) + 1
          /\ SubSeq(session'.tool_traces, 1, Len(session.tool_traces)) = session.tool_traces
      BY <3>1, <3>2
    <3>4. /\ phase \notin Ended /\ phase' \notin Ended /\ response' = response
      BY <2>4, ToolReturnsEffect DEF Ended
    <3>5. Outcome = "running" /\ Outcome' = "running"
      BY <3>4, OutcomeRead, OutcomeReadNext
    <3>6. Promise!Gather
      BY <3>3, <3>4, <3>5 DEF Promise!Gather
    <3>7. QED
      BY <3>6 DEF Promise!Next
  <2>5. CASE SynthesisReturns
    BY <2>00, <2>5, SynthesisReturnsEffect, ConcludedKeepsPromise DEF Ended, Promise!Next
  <2>6. CASE SynthesisFails
    BY <2>6, SynthesisFailsEffect, ConcludedKeepsPromise DEF Ended, Promise!Next
  <2>7. CASE ModelFails \/ ToolCallClashes
    BY <2>00, <2>7 DEF ModelFails, ToolCallClashes, Ended, Promise!Next
  <2>8. CASE Terminated \/ UNCHANGED vars
    BY <2>8 DEF Terminated, vars, Promise!csVars, Outcome
  <2>9. QED
    BY <2>1, <2>2, <2>3, <2>4, <2>5, <2>6, <2>7, <2>8 DEF Next
<1>3. QED
  BY Invariant, <1>1, <1>2, PTL DEF Spec, KeepsPromise, Promise!Spec

(* The service may rely on the outline of the engine: for every ceiling,   *)
(* the awaits come in its order and rounds are completed below the ceiling *)
(* (loop.py lines 108-219, awaited at service.py line 94).                 *)
THEOREM OutlineFollowed == Spec => FollowsOutline
<1>1. Init => Outline!Init
  BY DEF Init, NewSession, Outline!Init, Control
<1>2. IInv /\ [Next]_vars => [Outline!Next]_(Outline!outlineVars)
  <2> SUFFICES ASSUME IInv, [Next]_vars
               PROVE  [Outline!Next]_(Outline!outlineVars)
    OBVIOUS
  <2> DEFINE rounds == session.iteration_count
  <2> USE DEF Control, Outline!Goes
  <2>1. rounds \in Nat /\ MaxIterations \in Nat
    BY LoopAssumption DEF IInv, TypeOK, Session
  <2>2. CASE Begin
    <3>1. /\ phase = "start" /\ phase' \in {"ask_model", "returned"}
          /\ session'.iteration_count = rounds
      BY <2>2, BeginEffect DEF Kept, EscalatedTo
    <3>2. QED
      BY <3>1 DEF Outline!Next, Outline!Begin
  <2>3. CASE ModelIsDone
    <3>1. /\ phase = "ask_model" /\ phase' = "synthesize"
          /\ session'.iteration_count = rounds
      BY <2>3, AskingAdvances DEF ModelIsDone, ModelAnswers, Kept
    <3>2. QED
      BY <3>1 DEF Outline!Next, Outline!Finish
  <2>4. CASE ModelExceedsCeiling
    <3>1. /\ phase = "ask_model" /\ phase' = "returned"
          /\ session'.iteration_count = rounds /\ rounds >= MaxIterations
      BY <2>4, ModelExceedsCeilingEffect
         DEF ModelExceedsCeiling, CeilingReached, Kept, EscalatedTo
    <3>2. QED
      BY <3>1 DEF Outline!Next, Outline!StopAtCeiling
  <2>5. CASE ModelCallsTools
    <3>1. /\ phase = "ask_model" /\ phase' = "run_tools"
          /\ session'.iteration_count = rounds
      BY <2>5, AskingAdvances DEF ModelCallsTools, ModelAnswers, Kept
    <3>2. rounds < MaxIterations
      BY <2>1, <2>5 DEF ModelCallsTools, CeilingReached
    <3>3. QED
      BY <3>1, <3>2 DEF Outline!Next, Outline!CallTools
  <2>6. CASE ToolReturns
    <3>1. CASE pending # 1
      <4>1. /\ phase = "run_tools" /\ phase' = "run_tools"
            /\ session'.iteration_count = rounds
        BY <2>6, <3>1, ToolReturnsEffect
      <4>2. QED
        BY <4>1 DEF Outline!outlineVars
    <3>2. CASE pending = 1
      <4>1. /\ phase = "run_tools" /\ phase' = "ask_model"
            /\ session'.iteration_count = rounds + 1
        BY <2>6, <3>2, ToolReturnsEffect
      <4>2. QED
        BY <4>1 DEF Outline!Next, Outline!CompleteRound
    <3>3. QED
      BY <3>1, <3>2
  <2>7. CASE ModelFails \/ ToolCallClashes
    <3>1. /\ phase \in {"ask_model", "run_tools"}
          /\ phase' \in {"llm_error", "argument_clash"}
          /\ session' = session
      BY <2>7 DEF ModelFails, ToolCallClashes
    <3>2. QED
      BY <3>1 DEF Outline!Next, Outline!Raise
  <2>8. CASE SynthesisReturns \/ SynthesisFails
    <3>1. /\ phase = "synthesize" /\ phase' \in {"returned", "invalid_reply"}
          /\ session'.iteration_count = rounds
      BY <2>8, SynthesisReturnsEffect, SynthesisFailsEffect DEF Concluded, Kept
    <3>2. QED
      BY <3>1 DEF Outline!Next, Outline!Finish, Outline!Raise
  <2>9. CASE Terminated \/ UNCHANGED vars
    BY <2>9 DEF Terminated, vars, Outline!outlineVars
  <2>10. QED
    BY <2>2, <2>3, <2>4, <2>5, <2>6, <2>7, <2>8, <2>9 DEF Next
<1>3. QED
  BY Invariant, <1>1, <1>2, PTL DEF Spec, FollowsOutline, Outline!Spec

-----------------------------------------------------------------------------
(***************************************************************************)
(* How an action looks from outside: where the run is suspended before and *)
(* after it, and how many rounds it has completed.                         *)
(***************************************************************************)
Goes(from, to, rounds) ==
  /\ phase = from /\ phase' \in to
  /\ session'.iteration_count = session.iteration_count + rounds

(* How a step of the engine takes its await, as the client sees it. *)
LEMMA EngineCourse ==
  ASSUME IInv
  PROVE  /\ Begin => Goes("start", {"ask_model", "returned"}, 0)
         /\ ModelIsDone => Goes("ask_model", {"synthesize"}, 0)
         /\ ModelExceedsCeiling => Goes("ask_model", {"returned"}, 0)
         /\ ModelCallsTools => Goes("ask_model", {"run_tools"}, 0)
         /\ ModelFails => Goes("ask_model", {"llm_error"}, 0)
         /\ ToolReturns => \/ Goes("run_tools", {"run_tools"}, 0)
                           \/ Goes("run_tools", {"ask_model"}, 1)
         /\ ToolCallClashes => Goes("run_tools", {"argument_clash"}, 0)
         /\ SynthesisReturns => Goes("synthesize", {"returned", "invalid_reply"}, 0)
         /\ SynthesisFails => Goes("synthesize", {"returned"}, 0)
<1> USE DEF Goes
<1>0. session.iteration_count \in Nat
  BY DEF IInv, TypeOK, Session
<1>1. ASSUME Begin PROVE Goes("start", {"ask_model", "returned"}, 0)
  BY <1>0, <1>1, BeginEffect DEF Kept, EscalatedTo
<1>2. ASSUME ModelIsDone PROVE Goes("ask_model", {"synthesize"}, 0)
  BY <1>0, <1>2, AskingAdvances DEF ModelIsDone, ModelAnswers, Kept
<1>3. ASSUME ModelExceedsCeiling PROVE Goes("ask_model", {"returned"}, 0)
  BY <1>0, <1>3, ModelExceedsCeilingEffect DEF Kept, EscalatedTo
<1>4. ASSUME ModelCallsTools PROVE Goes("ask_model", {"run_tools"}, 0)
  BY <1>0, <1>4, AskingAdvances DEF ModelCallsTools, ModelAnswers, Kept
<1>5. ASSUME ModelFails PROVE Goes("ask_model", {"llm_error"}, 0)
  BY <1>0, <1>5 DEF ModelFails
<1>6. ASSUME ToolReturns
      PROVE  \/ Goes("run_tools", {"run_tools"}, 0)
             \/ Goes("run_tools", {"ask_model"}, 1)
  BY <1>0, <1>6, ToolReturnsEffect
<1>7. ASSUME ToolCallClashes PROVE Goes("run_tools", {"argument_clash"}, 0)
  BY <1>0, <1>7 DEF ToolCallClashes
<1>8. ASSUME SynthesisReturns
      PROVE  Goes("synthesize", {"returned", "invalid_reply"}, 0)
  BY <1>0, <1>8, SynthesisReturnsEffect DEF Concluded, Kept
<1>9. ASSUME SynthesisFails PROVE Goes("synthesize", {"returned"}, 0)
  BY <1>0, <1>9, SynthesisFailsEffect DEF Concluded, Kept
<1>10. QED
  BY <1>1, <1>2, <1>3, <1>4, <1>5, <1>6, <1>7, <1>8, <1>9

(***************************************************************************)
(* How much longer a run can last: every round left is a call of the model *)
(* and MaxCalls tools, then come one more call of the model and the        *)
(* synthesis.                                                              *)
(***************************************************************************)
Width == MaxCalls + 1

RoundsLeft == MaxIterations - session.iteration_count

StepsLeft ==
  CASE phase = "start"      -> MaxIterations * Width + 3
    [] phase = "ask_model"  -> RoundsLeft * Width + 2
    [] phase = "run_tools"  -> (RoundsLeft - 1) * Width + 2 + pending
    [] phase = "synthesize" -> 1
    [] phase \in Ended      -> 0

(* A bound on the steps left, for every await, and its value after a step. *)
LEMMA StepsRead ==
  /\ phase = "start" => StepsLeft = MaxIterations * Width + 3
  /\ phase = "ask_model" => StepsLeft = RoundsLeft * Width + 2
  /\ phase = "run_tools" => StepsLeft = (RoundsLeft - 1) * Width + 2 + pending
  /\ phase = "synthesize" => StepsLeft = 1
  /\ phase \in Ended => StepsLeft = 0
BY DEF StepsLeft, Ended

(* The same, in the state after a step.                                    *)
LEMMA StepsReadNext ==
  /\ phase' = "ask_model" => StepsLeft' = RoundsLeft' * Width + 2
  /\ phase' = "run_tools" => StepsLeft' = (RoundsLeft' - 1) * Width + 2 + pending'
  /\ phase' = "synthesize" => StepsLeft' = 1
  /\ phase' \in Ended => StepsLeft' = 0
BY DEF StepsLeft, Ended, Width

(* The rounds left, and what they cost. *)
LEMMA RoundsCost ==
  ASSUME IInv, BudgetKept
  PROVE  /\ RoundsLeft \in Nat /\ RoundsLeft <= MaxIterations /\ Width \in Nat
         /\ RoundsLeft * Width \in Nat
         /\ RoundsLeft * Width <= MaxIterations * Width
         /\ MaxIterations * Width \in Nat
         /\ phase = "run_tools" =>
              /\ RoundsLeft - 1 \in Nat /\ (RoundsLeft - 1) * Width \in Nat
              /\ RoundsLeft * Width = (RoundsLeft - 1) * Width + Width
<1>1. /\ MaxIterations \in Nat /\ MaxCalls \in Nat
      /\ session.iteration_count \in Nat /\ session.iteration_count <= MaxIterations
      /\ phase = "run_tools" => session.iteration_count < MaxIterations
  BY LoopAssumption DEF IInv, TypeOK, Session, BudgetKept
<1>2. /\ RoundsLeft \in Nat /\ RoundsLeft <= MaxIterations /\ Width \in Nat
      /\ phase = "run_tools" => RoundsLeft - 1 \in Nat
  BY <1>1 DEF RoundsLeft, Width
<1> HIDE DEF RoundsLeft, Width
<1>3. /\ RoundsLeft * Width <= MaxIterations * Width /\ RoundsLeft * Width \in Nat
      /\ MaxIterations * Width \in Nat
  BY <1>1, <1>2, ProductMonotone
<1>4. CASE phase = "run_tools"
  <2>1. /\ (RoundsLeft - 1) * Width \in Nat
        /\ ((RoundsLeft - 1) + 1) * Width = (RoundsLeft - 1) * Width + Width
    BY <1>2, <1>4, ProductMonotone
  <2>2. (RoundsLeft - 1) + 1 = RoundsLeft
    BY <1>2
  <2>3. QED
    BY <1>2, <1>3, <1>4, <2>1, <2>2
<1>5. QED
  BY <1>2, <1>3, <1>4

(* Every step of a run uses up some of what is left.                       *)
LEMMA StepTaken ==
  ASSUME IInv, BudgetKept, Next
  PROVE  StepsLeft' < StepsLeft \/ Terminated
<1> DEFINE rounds == session.iteration_count
<1>1. /\ rounds \in Nat /\ MaxIterations \in Nat /\ MaxCalls \in Nat
      /\ pending \in 0..MaxCalls /\ Width = MaxCalls + 1 /\ RoundsLeft = MaxIterations - rounds
      /\ RoundsLeft' = MaxIterations - session'.iteration_count
  BY LoopAssumption DEF IInv, TypeOK, Session, Width, RoundsLeft
<1> HIDE DEF rounds
<1>2. ASSUME Goes("ask_model", Ended \cup {"synthesize"}, 0)
      PROVE  StepsLeft' < StepsLeft
  BY <1>2, RoundsCost, StepsRead, StepsReadNext DEF Goes
<1>3. ASSUME Goes("run_tools", Ended, 0)
      PROVE  StepsLeft' < StepsLeft
  <2>1. pending > 0
    BY <1>3 DEF Goes, IInv, Suspended
  <2>2. QED
    BY <1>1, <1>3, <2>1, RoundsCost, StepsRead, StepsReadNext DEF Goes
<1>4. CASE Begin
  <2>1. Goes("start", {"ask_model", "returned"}, 0)
    BY <1>4, EngineCourse
  <2>2. RoundsLeft' = RoundsLeft
    BY <1>1, <2>1 DEF Goes, rounds
  <2>3. QED
    BY <2>1, <2>2, RoundsCost, StepsRead, StepsReadNext DEF Goes, Ended
<1>5. CASE ModelIsDone \/ ModelExceedsCeiling \/ ModelFails
  <2>1. Goes("ask_model", Ended \cup {"synthesize"}, 0)
    BY <1>5, EngineCourse DEF Goes, Ended
  <2>2. QED
    BY <1>2, <2>1
<1>6. CASE ModelCallsTools
  <2>1. Goes("ask_model", {"run_tools"}, 0) /\ pending' \in 1..MaxCalls
    BY <1>6, EngineCourse DEF ModelCallsTools
  <2>2. RoundsLeft' = RoundsLeft /\ RoundsLeft - 1 \in Nat
    BY <1>1, <1>6, <2>1, RoundsCost DEF Goes, rounds, ModelCallsTools, CeilingReached
  <2>3. RoundsLeft * Width = (RoundsLeft - 1) * Width + Width
    <3>1. /\ Width \in Nat /\ RoundsLeft \in Nat /\ (RoundsLeft - 1) + 1 = RoundsLeft
      BY <2>2, RoundsCost
    <3>2. ((RoundsLeft - 1) + 1) * Width = (RoundsLeft - 1) * Width + Width
      BY <2>2, <3>1, ProductMonotone
    <3>3. QED
      BY <3>1, <3>2
  <2>4. (RoundsLeft - 1) * Width \in Nat
    BY <2>2, RoundsCost, ProductMonotone
  <2>5. /\ StepsLeft = RoundsLeft * Width + 2
        /\ StepsLeft' = (RoundsLeft - 1) * Width + 2 + pending'
    BY <2>1, <2>2, StepsRead, StepsReadNext DEF Goes
  <2>6. Width \in Nat /\ pending' \in Nat /\ pending' < Width
    BY <1>1, <2>1
  <2>7. QED
    BY <2>3, <2>4, <2>5, <2>6
<1>7. CASE ToolReturns
  <2>1. /\ phase = "run_tools" /\ pending > 0 /\ pending' = pending - 1
        /\ \/ phase' = "run_tools" /\ session'.iteration_count = session.iteration_count
           \/ phase' = "ask_model" /\ session'.iteration_count = session.iteration_count + 1
    BY <1>7, ToolReturnsEffect DEF IInv, Suspended
  <2>2. \/ phase' = "run_tools" /\ RoundsLeft' = RoundsLeft
        \/ phase' = "ask_model" /\ RoundsLeft' = RoundsLeft - 1
    BY <1>1, <2>1 DEF rounds
  <2>3. StepsLeft = (RoundsLeft - 1) * Width + 2 + pending
    BY <2>1, StepsRead
  <2>4. \/ StepsLeft' = (RoundsLeft - 1) * Width + 2 + pending'
        \/ StepsLeft' = (RoundsLeft - 1) * Width + 2
    BY <2>2, StepsReadNext
  <2>5. QED
    BY <1>1, <2>1, <2>3, <2>4, RoundsCost
<1>8. CASE ToolCallClashes
  <2>1. Goes("run_tools", Ended, 0)
    BY <1>8, EngineCourse DEF Goes, Ended
  <2>2. QED
    BY <1>3, <2>1
<1>9. CASE SynthesisReturns \/ SynthesisFails
  <2>1. phase = "synthesize" /\ phase' \in Ended
    BY <1>9, EngineCourse DEF Goes, Ended
  <2>2. QED
    BY <2>1, StepsRead, StepsReadNext
<1>10. QED
  BY <1>4, <1>5, <1>6, <1>7, <1>8, <1>9 DEF Next

(* Every run comes to an end: whatever the model answers, each step uses   *)
(* up some of the steps left, and a run of MaxIterations rounds of         *)
(* MaxCalls tools has no more than these (loop.py lines 108-234).          *)
THEOREM RunsAreFinite ==
  Spec => /\ [](StepsLeft \in 0..(MaxIterations * (MaxCalls + 1) + 3))
          /\ [][StepsLeft' < StepsLeft]_vars
<1>1. IInv /\ BudgetKept => StepsLeft \in 0..(MaxIterations * (MaxCalls + 1) + 3)
  <2> SUFFICES ASSUME IInv, BudgetKept
               PROVE  StepsLeft \in 0..(MaxIterations * Width + 3)
    BY DEF Width
  <2>1. /\ RoundsLeft * Width \in Nat /\ MaxIterations * Width \in Nat
        /\ RoundsLeft * Width <= MaxIterations * Width
        /\ phase = "run_tools" =>
             /\ (RoundsLeft - 1) * Width \in Nat
             /\ RoundsLeft * Width = (RoundsLeft - 1) * Width + Width
    BY RoundsCost
  <2>2. phase \in Phase /\ pending \in Nat /\ pending <= Width /\ Width \in Nat
    BY LoopAssumption DEF IInv, TypeOK, Width
  <2>3. CASE phase = "run_tools"
    BY <2>1, <2>2, <2>3, StepsRead
  <2>4. CASE phase # "run_tools"
    BY <2>1, <2>2, <2>4, StepsRead DEF Phase
  <2>5. QED
    BY <2>3, <2>4
<1>2. IInv /\ BudgetKept /\ [Next]_vars => [StepsLeft' < StepsLeft]_vars
  BY StepTaken DEF Terminated
<1>3. QED
  BY Invariant, BudgetSafe, <1>1, <1>2, PTL DEF Spec

=============================================================================
