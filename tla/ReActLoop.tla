----------------------------- MODULE ReActLoop ------------------------------
(***************************************************************************)
(* One run of the ReAct engine on one session: ReActLoopEngine.run of      *)
(* src/agent/loop.py.  An action is the code between two awaits: the       *)
(* answer that resumes the coroutine and everything it then does until it  *)
(* awaits again, returns or raises.                                        *)
(*                                                                         *)
(* The language model is external and may answer anything: a call to any   *)
(* number of tools, no call, a draft of any content, or an exception.  A   *)
(* tool call always comes back as a result record, success or error.       *)
(***************************************************************************)
EXTENDS AuthorityGuard, Integers

CONSTANTS
  MaxIterations,   \* ReActLoopEngine.max_iterations (the setting allows 1..5)
  MaxCalls,        \* bound: tool calls in one answer of the model
  Threshold,       \* confidence_threshold, in percent
  Demands,         \* extracted demands a session can start with
  Subjects,        \* inbound subject lines, as the guard sees them
  Results,         \* tool results
  Drafts           \* drafts of the final reply the model can write

ASSUME LoopAssumption ==
  /\ MaxIterations \in Nat \ {0}
  /\ MaxCalls \in Nat \ {0}
  /\ Threshold \in Nat
  /\ Subjects \subseteq Sentence
  /\ \A d \in Demands : d.threat \in BOOLEAN
  /\ \A r \in Results : r.success \in BOOLEAN
  /\ \A d \in Drafts :
       /\ d.status \in Status
       /\ d.reason \in {NoReason, "blank", "MODEL_STATED"}
       /\ d.confidence \in Nat
       /\ d.subject \in Sentence
       /\ d.body \in Body

NoReply == "no reply"

VARIABLES
  session,    \* the AgentSessionState being advanced
  phase,      \* where the coroutine is suspended, or how it ended
  pending,    \* tool calls of the current answer not yet executed
  answered,   \* answers the model has given, the draft included
  response    \* the AgentFinalResponse returned, NoReply before

vars == <<session, phase, pending, answered, response>>

Ended == {"returned", "llm_error", "argument_clash", "invalid_reply"}

Phase == {"start", "ask_model", "run_tools", "synthesize"} \cup Ended

Init ==
  /\ \E d \in Demands, s \in Subjects : session = NewSession(d, s)
  /\ phase = "start"
  /\ pending = 0
  /\ answered = 0
  /\ response = NoReply

Return(reply) == phase' = "returned" /\ response' = reply

(***************************************************************************)
(* From the call to the first await: the session is analysed, and a threat *)
(* or an out-of-scope demand is escalated before any model call.           *)
(***************************************************************************)
Analyzed == Transition(session, "ANALYZING", NoReason)

\* Mutant: the reply is not returned, the run goes on to the model.
EscalateWithoutReturn(reason) ==
  /\ session' = TransitionToHuman(Analyzed, reason)
  /\ phase' = "ask_model"
  /\ UNCHANGED response

EscalateDemand(reason) ==
  /\ session' = TransitionToHuman(Analyzed, reason)
  /\ Return(EscalatedResponse(session, reason, 0))

Begin ==
  /\ phase = "start"
  /\ LET demand == session.extracted_demand IN
       \/ demand.threat /\ EscalateDemand("HOSTILE_OR_LEGAL_THREAT")
       \/ /\ ~demand.threat /\ demand.intent = "OUT_OF_SCOPE"
          /\ EscalateDemand("OUT_OF_SCOPE_INTENT")
       \/ /\ ~demand.threat /\ demand.intent # "OUT_OF_SCOPE"
          /\ session' = Analyzed
          /\ phase' = "ask_model"
          /\ UNCHANGED response
  /\ UNCHANGED <<pending, answered>>

(***************************************************************************)
(* generate_with_tools returns.                                            *)
(***************************************************************************)
ModelAnswers == phase = "ask_model" /\ answered' = answered + 1

ModelIsDone ==
  /\ ModelAnswers
  /\ session' = Transition(session, "GENERATING_RESPONSE", NoReason)
  /\ phase' = "synthesize"
  /\ UNCHANGED <<pending, response>>

\* Mutant: the ceiling is off by one.
CeilingPassed == session.iteration_count > MaxIterations

CeilingReached == session.iteration_count >= MaxIterations

\* Mutant: the reply is not returned, the model is asked again.
CeilingWithoutReturn ==
  /\ ModelAnswers
  /\ CeilingReached
  /\ session' = TransitionToHuman(session, "LOOP_LIMIT_EXCEEDED")
  /\ UNCHANGED <<phase, pending, response>>

ModelExceedsCeiling ==
  /\ ModelAnswers
  /\ CeilingReached
  /\ session' = TransitionToHuman(session, "LOOP_LIMIT_EXCEEDED")
  /\ Return(EscalatedResponse(session, "LOOP_LIMIT_EXCEEDED", answered + 1))
  /\ UNCHANGED pending

\* Mutant: an empty list of calls counts as calls.
ModelCallsNothing ==
  /\ ModelAnswers
  /\ ~CeilingReached
  /\ session' = Transition(session, "EXECUTING_TOOL", NoReason)
  /\ phase' = "run_tools"
  /\ pending' \in 0..MaxCalls
  /\ UNCHANGED response

ModelCallsTools ==
  /\ ModelAnswers
  /\ ~CeilingReached
  /\ session' = Transition(session, "EXECUTING_TOOL", NoReason)
  /\ phase' = "run_tools"
  /\ pending' \in 1..MaxCalls
  /\ UNCHANGED response

(* LLMClientError and its kin leave run() as they are. *)
ModelFails ==
  /\ phase = "ask_model"
  /\ phase' = "llm_error"
  /\ UNCHANGED <<session, pending, answered, response>>

(***************************************************************************)
(* tool_registry.execute returns, for the first pending call.              *)
(***************************************************************************)
CountRound(s) == [s EXCEPT !.iteration_count = @ + 1]

\* Mutant: the round is counted without the transition.
CountOnly(s) == CountRound(s)

Observe(s) == CountRound(Transition(s, "OBSERVING", NoReason))

ToolReturns ==
  /\ phase = "run_tools"
  /\ \E r \in Results :
       session' = IF pending = 1 THEN Observe(RecordTrace(session, r))
                  ELSE RecordTrace(session, r)
  /\ pending' = pending - 1
  /\ phase' = IF pending = 1 THEN "ask_model" ELSE "run_tools"
  /\ UNCHANGED <<answered, response>>

(* The model's arguments are spread as keywords next to tool_name and      *)
(* session_id: a call that uses one of these names raises TypeError.       *)
ToolCallClashes ==
  /\ phase = "run_tools"
  /\ phase' = "argument_clash"
  /\ UNCHANGED <<session, pending, answered, response>>

(***************************************************************************)
(* generate_structured returns or raises inside the synthesis.             *)
(***************************************************************************)
Conclude(reply) ==
  LET final == GuardResponse(reply, session.tool_traces) IN
  /\ session' = IF final.status = "REQUIRES_HUMAN_REVIEW"
                THEN TransitionToHuman(session, final.reason)
                ELSE Transition(session, "COMPLETED", NoReason)
  /\ Return(final)

SynthesisReturns ==
  /\ phase = "synthesize"
  /\ answered' = answered + 1
  /\ \E d \in Drafts :
       LET reply == CertifiedResponse(d, session.tool_traces, Threshold, answered) IN
       \/ WellFormedReply(reply) /\ Conclude(reply)
       \/ /\ ~WellFormedReply(reply)
          /\ phase' = "invalid_reply"
          /\ UNCHANGED <<session, response>>
  /\ UNCHANGED pending

\* Mutant: the tokens of the tool loop are not passed on.
SynthesisFailsUncounted ==
  /\ phase = "synthesize"
  /\ Conclude(EscalatedResponse(session, "SYNTHESIS_FAILURE", 0))
  /\ UNCHANGED <<pending, answered>>

SynthesisFails ==
  /\ phase = "synthesize"
  /\ Conclude(EscalatedResponse(session, "SYNTHESIS_FAILURE", answered))
  /\ UNCHANGED <<pending, answered>>

Terminated == phase \in Ended /\ UNCHANGED vars

Next ==
  \/ Begin
  \/ ModelIsDone \/ ModelExceedsCeiling \/ ModelCallsTools \/ ModelFails
  \/ ToolReturns \/ ToolCallClashes
  \/ SynthesisReturns \/ SynthesisFails
  \/ Terminated

Spec == Init /\ [][Next]_vars

-----------------------------------------------------------------------------
(***************************************************************************)
(* Properties.                                                             *)
(***************************************************************************)
Session ==
  [current_state: LifecycleState,
   state_history: Seq(LifecycleState \X LifecycleState),
   escalation_reason: Reason,
   iteration_count: Nat,
   tool_traces: Seq(Results),
   extracted_demand: Demands,
   inbound_subject: Subjects,
   fsm_error: BOOLEAN]

(* Every field of the session, the reply and the control point has its type. *)
TypeOK ==
  /\ session \in Session
  /\ phase \in Phase
  /\ pending \in 0..MaxCalls
  /\ answered \in Nat
  /\ IF phase = "returned" THEN response \in Reply ELSE response = NoReply

(* The engine never asks the controller for a forbidden transition, and    *)
(* the recorded history is an unbroken chain of legal transitions from     *)
(* RECEIVED to the current state (controller.py and every transition call  *)
(* of loop.py).                                                            *)
LifecycleRespected ==
  LET h == session.state_history IN
  /\ ~session.fsm_error
  /\ \A i \in DOMAIN h : h[i] \in VALID_TRANSITIONS
  /\ \A i \in DOMAIN h : i + 1 \in DOMAIN h => h[i][2] = h[i + 1][1]
  /\ h = <<>> => session.current_state = "RECEIVED"
  /\ h # <<>> => h[1][1] = "RECEIVED" /\ h[Len(h)][2] = session.current_state

(* However often the model asks for tools, the run executes at most        *)
(* MaxIterations rounds of calls, counts a round only once all its calls   *)
(* have been traced, and holds no call back (loop.py lines 108-200).       *)
BudgetKept ==
  /\ session.iteration_count <= MaxIterations
  /\ phase = "run_tools" => /\ pending > 0
                            /\ session.iteration_count < MaxIterations
  /\ phase \in {"ask_model", "synthesize", "returned"} =>
       /\ pending = 0
       /\ session.iteration_count <= Len(session.tool_traces)
       /\ Len(session.tool_traces) <= MaxIterations * MaxCalls

(* What the caller is told and what the session records are the same       *)
(* verdict: a resolution completes the session and leaves no escalation    *)
(* reason, an escalation puts it in REQUIRES_HUMAN with the reason the     *)
(* reply carries, up to its wording (loop.py lines 219-234).               *)
OutcomeAgrees ==
  phase = "returned" =>
    \/ /\ response.status = "RESOLVED_AUTOMATICALLY"
       /\ session.current_state = "COMPLETED"
       /\ session.escalation_reason = NoReason
    \/ /\ response.status = "REQUIRES_HUMAN_REVIEW"
       /\ session.current_state = "REQUIRES_HUMAN"
       /\ session.escalation_reason = response.reason
       /\ response.reason \notin {NoReason, "blank"}

(* A session is COMPLETED only with a reply the tool results support: every *)
(* amount is certified, every approval claim the guard reads is authorised, *)
(* nothing claims to have changed an order, no call was refused access and  *)
(* the confidence reaches the threshold (validator.py, response_builder.py).*)
CompletedIsCertified ==
  session.current_state = "COMPLETED" =>
    LET traces == session.tool_traces
        claims == ApprovalClaims(response.subject, response.body)
    IN  /\ MonetaryAmounts(response.subject, response.body)
             \subseteq CertifiedAmounts(traces)
        /\ "refund" \in claims => RefundAuthorized(traces)
        /\ "voucher" \in claims => VoucherAuthorized(traces)
        /\ ~MutationClaimed(response.subject, response.body)
        /\ ~SecurityBreach(traces)
        /\ response.confidence >= Threshold

(* A demand screened out (a threat, or out of scope) costs nothing: no     *)
(* answer of the model, no tool call, and the run is over as soon as it    *)
(* has begun (loop.py lines 77-97).                                        *)
ScreenedDemandsAreFree ==
  LET demand == session.extracted_demand IN
  demand.threat \/ demand.intent = "OUT_OF_SCOPE" =>
    /\ answered = 0 /\ session.tool_traces = <<>>
    /\ phase \in {"start", "returned"}
    /\ phase = "returned" => session.current_state = "REQUIRES_HUMAN"

(* A verdict is final: once the session is in a terminal state neither the *)
(* session nor the reply changes again.                                    *)
VerdictIsFinal ==
  [][session.current_state \in TERMINAL_STATES => UNCHANGED <<session, response>>]_vars

(* The run implements the promise of CertifiedSupport. *)
Outcome ==
  CASE phase = "returned" /\ response.status = "RESOLVED_AUTOMATICALLY" -> "resolved"
    [] phase = "returned" /\ response.status # "RESOLVED_AUTOMATICALLY" -> "escalated"
    [] phase \in Ended \ {"returned"} -> "aborted"
    [] OTHER -> "running"

Promise == INSTANCE CertifiedSupport WITH
  outcome <- Outcome, evidence <- session.tool_traces, reply <- response

KeepsPromise == Promise!Spec

(* The run keeps to the outline on which the application service relies:   *)
(* its awaits come in the order of EngineOutline, and it completes at most *)
(* MaxIterations rounds.                                                   *)
Control ==
  CASE phase = "start"      -> "new"
    [] phase = "ask_model"  -> "model"
    [] phase = "run_tools"  -> "tools"
    [] phase = "synthesize" -> "synthesis"
    [] phase = "returned"   -> "returned"
    [] OTHER                -> "raised"

Outline == INSTANCE EngineOutline WITH
  control <- Control, rounds <- session.iteration_count

FollowsOutline == Outline!Spec

=============================================================================
