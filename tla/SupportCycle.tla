---------------------------- MODULE SupportCycle ----------------------------
(***************************************************************************)
(* One support cycle from the message to the reply: the intake classifies  *)
(* the message, the engine of ReActLoop runs on it, and every await of the *)
(* engine on the model is carried out by the model's client:               *)
(* src/clients/llm_client.py, with the retries of llm_retry.py and the     *)
(* parsing of llm_parser.py.  The client is made for one engine and the    *)
(* engine for one request (src/api/dependencies.py), so that one call of   *)
(* the client is under way at a time.                                      *)
(*                                                                         *)
(* The provider and the OpenAI library are external: a request is answered *)
(* or fails in one of several ways, and the library may send it again by   *)
(* itself before it reports a failure.                                     *)
(***************************************************************************)
EXTENDS ReActLoop, Intake

CONSTANTS
  Messages,        \* inbound messages
  MaxRetries,      \* llm_max_retries: attempts of one call (1..10)
  HiddenRetries    \* requests the library repeats within one attempt

ASSUME CycleAssumption ==
  /\ Messages \subseteq Message
  /\ \A m \in Messages : ClassifyText(m) \in Demands
  /\ MaxRetries \in Nat \ {0}
  /\ HiddenRetries \in Nat

VARIABLES
  message,    \* the message the cycle is about
  call,       \* the client's call under way
  sent,       \* requests sent to the provider
  received,   \* completions received: in the tool loop, of the synthesis
  error       \* error_code of the exception that ended the cycle

clientVars == <<call, sent, received, error>>
cycleVars == <<vars, message, clientVars>>

(* RETRIABLE_OPENAI_EXCEPTIONS *)
Transient == {"rate_limit", "timeout", "connection", "server"}

(* 401; another status; TimeoutError; anything else raised by a request.   *)
Permanent == {"authentication", "other_status", "deadline", "unexpected"}

(* The except clauses of execute_with_retry, in their order: a timeout is  *)
(* also a connection error, and all but the last two are API errors.       *)
Shielded(fault) ==
  CASE fault = "authentication"          -> "LLM_AUTHENTICATION_ERROR"
    [] fault \in {"timeout", "deadline"} -> "LLM_TIMEOUT_ERROR"
    [] fault \in {"rate_limit", "connection", "server", "other_status"} ->
         "LLM_API_ERROR"
    [] fault = "unexpected"              -> "LLM_INFERENCE_UNEXPECTED"

(* A call of a tool whose arguments are not JSON is refused by the parser, *)
(* one whose arguments are not an object by the model of the call; the     *)
(* latter is no error of the domain.                                       *)
UnusableCode == {"LLM_RESPONSE_VALIDATION_ERROR", "INTERNAL_SERVER_ERROR"}

NoError == "no error"

ErrorCode ==
  {NoError} \cup UnusableCode \cup {Shielded(f) : f \in Transient \cup Permanent}

NoCall == [wire |-> "idle", attempt |-> 0, hidden |-> 0, faults |-> <<>>]

FirstAttempt == [wire |-> "in_flight", attempt |-> 1, hidden |-> 0, faults |-> <<>>]

CycleInit ==
  /\ message \in Messages
  /\ \E s \in Subjects : session = NewSession(ClassifyText(message), s)
  /\ phase = "start" /\ pending = 0 /\ answered = 0 /\ response = NoReply
  /\ call = NoCall /\ sent = 0
  /\ received = [turns |-> 0, drafts |-> 0]
  /\ error = NoError

(* The engine reaches its next await: on the model, which sends the first  *)
(* request of a call, or on something else.                                *)
ReachesAwait ==
  IF phase' \in {"ask_model", "synthesize"}
  THEN call' = FirstAttempt /\ sent' = sent + 1
  ELSE call' = NoCall /\ UNCHANGED sent

\* Mutant: only exceptions of the client are reported.
ReportsClientErrors == UNCHANGED error

(* An exception of the engine's own is reported as an internal error.      *)
ReportsOwnError ==
  error' = IF phase' \in {"argument_clash", "invalid_reply"}
           THEN "INTERNAL_SERVER_ERROR" ELSE error

EngineMoves ==
  /\ Begin \/ ToolReturns \/ ToolCallClashes
  /\ ReachesAwait /\ ReportsOwnError
  /\ UNCHANGED <<message, received>>

InFlight == call.wire = "in_flight"

Receives(field) == received' = [received EXCEPT ![field] = @ + 1]

(* A completion the client can use: its tokens are counted and the engine  *)
(* resumed with it.                                                        *)
Completion ==
  /\ InFlight
  /\ \/ /\ ModelIsDone \/ ModelExceedsCeiling \/ ModelCallsTools
        /\ Receives("turns")
     \/ SynthesisReturns /\ Receives("drafts")
  /\ ReachesAwait /\ ReportsOwnError
  /\ UNCHANGED message

(* A completion it cannot use, which is not asked for again: malformed     *)
(* arguments leave run(); a refusal, or a draft that does not fit the      *)
(* schema, is escalated by the synthesis.                                  *)
UnusableCompletion ==
  /\ InFlight
  /\ \/ ModelFails /\ error' \in UnusableCode /\ Receives("turns")
     \/ SynthesisFails /\ UNCHANGED error /\ Receives("drafts")
  /\ call' = [NoCall EXCEPT !.faults = call.faults]
  /\ UNCHANGED <<message, sent>>

(* The OpenAI library sends a request again by itself. *)
HiddenRetry ==
  /\ InFlight /\ call.hidden < HiddenRetries
  /\ call' = [call EXCEPT !.hidden = @ + 1]
  /\ sent' = sent + 1
  /\ UNCHANGED <<vars, message, received, error>>

\* Mutant: max_retries is taken for the number of repetitions.
LastRepetition == call.attempt > MaxRetries

(* stop_after_attempt *)
LastAttempt == call.attempt >= MaxRetries

\* Mutant: every failure is taken for a transient one.
RetriesAnyFault(fault) == fault \in Transient \cup Permanent

IsRetried(fault) == fault \in Transient

(* An attempt fails: the client sleeps, or raises what leaves run() from   *)
(* the tool loop and is escalated by the synthesis.                        *)
FaultSeen(fault) == Append(call.faults, fault)

Backoff(fault) ==
  /\ InFlight
  /\ IsRetried(fault) /\ ~LastAttempt
  /\ call' = [call EXCEPT !.wire = "backoff", !.faults = FaultSeen(fault)]
  /\ UNCHANGED <<vars, message, sent, received, error>>

GiveUp(fault) ==
  /\ InFlight
  /\ ~IsRetried(fault) \/ LastAttempt
  /\ call' = [NoCall EXCEPT !.faults = FaultSeen(fault)]
  /\ \/ ModelFails /\ error' = Shielded(fault)
     \/ SynthesisFails /\ UNCHANGED error
  /\ UNCHANGED <<message, sent, received>>

\* Mutant: the last attempt the limit allows is never made.
RetryEarlierOnly ==
  /\ call.wire = "backoff" /\ call.attempt + 1 < MaxRetries
  /\ call' = [call EXCEPT !.wire = "in_flight", !.attempt = @ + 1, !.hidden = 0]
  /\ sent' = sent + 1
  /\ UNCHANGED <<vars, message, received, error>>

(* The sleep is over: the next attempt sends the same request. *)
Retry ==
  /\ call.wire = "backoff"
  /\ call' = [call EXCEPT !.wire = "in_flight", !.attempt = @ + 1, !.hidden = 0]
  /\ sent' = sent + 1
  /\ UNCHANGED <<vars, message, received, error>>

CycleNext ==
  \/ EngineMoves
  \/ HiddenRetry
  \/ \E f \in Transient \cup Permanent : Backoff(f) \/ GiveUp(f)
  \/ Retry
  \/ Completion \/ UnusableCompletion

CycleSpec == CycleInit /\ [][CycleNext]_cycleVars

(* The provider answers or the library's timeout ends the wait, the sleeps *)
(* and the tools come to an end, and the event loop resumes the coroutine. *)
FairCycle == CycleSpec /\ WF_cycleVars(CycleNext)

-----------------------------------------------------------------------------
(* The engine's variables and the client's have their types. *)
CycleTypeOK ==
  /\ TypeOK
  /\ message \in Messages
  /\ call \in [wire: {"idle", "in_flight", "backoff"}, attempt: 0..MaxRetries,
               hidden: 0..HiddenRetries, faults: Seq(Transient \cup Permanent)]
  /\ call.wire # "idle" <=> phase \in {"ask_model", "synthesize"}
  /\ sent \in Nat
  /\ received \in [turns: Nat, drafts: Nat]
  /\ error \in ErrorCode
  /\ error # NoError <=> phase \in Ended \ {"returned"}

(* However the provider fails, and although the client's retries and those *)
(* of the library multiply, a cycle sends a bounded number of requests: a  *)
(* call for every round, one more to see the ceiling or the end, and the   *)
(* synthesis (llm_retry.py line 48, loop.py line 120).                     *)
SpendIsBounded ==
  sent <= (MaxIterations + 2) * MaxRetries * (1 + HiddenRetries)

(* The tokens and cost of a reply count every completion of the tool loop  *)
(* exactly once, however many attempts it took and whichever way the run   *)
(* ended, and count nothing that was not received (loop.py lines 113-115,  *)
(* response_builder.py).  It is no claim that the count is exact: whether  *)
(* the completion of the synthesis is counted is left open, because the    *)
(* code leaves it out where docs/architecture.md line 163 and              *)
(* docs/specifications.md line 611 promise the exact count.                *)
UsageIsReceived ==
  phase = "returned" =>
    received.turns <= response.calls /\ response.calls <= received.turns + received.drafts

(* A transient fault is absorbed: a cycle goes without the model's answer, *)
(* in the tool loop or in the synthesis, only after a fault that is not    *)
(* retried or as many faults in a row as a call has attempts, and no call  *)
(* goes on after a fault that is not retried (llm_retry.py).  What then    *)
(* becomes of the cycle is left open: from the tool loop the code lets the *)
(* exception out, where docs/architecture.md lines 442-444 and             *)
(* docs/specifications.md line 407 ask for an escalation to a human.       *)
TransientFaultsAbsorbed ==
  LET faults == call.faults
      persistent == /\ faults # <<>>
                    /\ \/ faults[Len(faults)] \in Permanent
                       \/ Len(faults) = MaxRetries
      noTurn == phase = "llm_error" /\ error \notin UnusableCode
      noDraft == /\ phase = "returned" /\ received.drafts = 0
                 /\ session.escalation_reason = "SYNTHESIS_FAILURE"
  IN  /\ noTurn \/ noDraft => persistent
      /\ \A i \in DOMAIN faults : i < Len(faults) => faults[i] \in Transient

(* The intake finds a demand it can hand on. *)
Processed(m) == ClassifyText(m).intent \notin {"OUT_OF_SCOPE", "INFORMATION_MISSING"}

(* One message says more of the same than another, threats aside. *)
SaysMore(m, n) ==
  /\ n.threat = m.threat
  /\ m.kinds \subseteq n.kinds
  /\ AllOrderIds(m) \subseteq AllOrderIds(n)

(* A customer who asks for something the shop handles is not turned away   *)
(* unread.  A message that is processed reaches the model, and stays so    *)
(* when it says more of the same, threats aside; one that holds a threat,  *)
(* or asks for nothing and quotes at most one order, costs no request      *)
(* (pre_extraction.py lines 147-199, loop.py lines 77-97).  A demand       *)
(* without its order is left open: the code gives it to the model, where   *)
(* docs/code.md line 478 and docs/specifications.md line 270 halt it.      *)
NoDemandTurnedAway ==
  /\ phase # "start" =>
       /\ Processed(message) => sent # 0
       /\ \/ message.threat
          \/ message.kinds = {} /\ Cardinality(AllOrderIds(message)) < 2
          => sent = 0
  /\ phase = "start" /\ Processed(message) =>
       \A n \in Messages : SaysMore(message, n) => Processed(n)

(* Every cycle ends, with a reply or an exception: the retries of a call,  *)
(* the rounds of the engine and the calls of a round are bounded.          *)
CycleEnds == <>(phase \in Ended)

=============================================================================
