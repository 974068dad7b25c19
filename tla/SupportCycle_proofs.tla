------------------------ MODULE SupportCycle_proofs -------------------------
(***************************************************************************)
(* Proofs about a whole support cycle, for every set of messages, every    *)
(* number of attempts and of repetitions by the library.                   *)
(***************************************************************************)
EXTENDS SupportCycle, ReActLoop_proofs, FiniteSetTheorems

(* However the client retries, what the engine sees of a cycle is a run of *)
(* ReActLoop: the theorems about runs hold of every cycle (loop.py line    *)
(* 109, llm_retry.py).                                                     *)
THEOREM CycleRunsEngine == CycleSpec => Spec
<1>1. CycleInit => Init
  BY CycleAssumption DEF CycleInit, Init
<1>2. [CycleNext]_cycleVars => [Next]_vars
  <2> SUFFICES ASSUME [CycleNext]_cycleVars PROVE [Next]_vars
    OBVIOUS
  <2>1. CASE EngineMoves
    BY <2>1 DEF EngineMoves, Next
  <2>2. CASE Completion
    BY <2>2 DEF Completion, Next
  <2>3. CASE UnusableCompletion
    BY <2>3 DEF UnusableCompletion, Next
  <2>4. CASE HiddenRetry
    BY <2>4 DEF HiddenRetry
  <2>5. CASE \E f \in Transient \cup Permanent : Backoff(f) \/ GiveUp(f)
    BY <2>5 DEF Backoff, GiveUp, Next
  <2>6. CASE Retry
    BY <2>6 DEF Retry
  <2>7. CASE UNCHANGED cycleVars
    BY <2>7 DEF cycleVars
  <2>8. QED
    BY <2>1, <2>2, <2>3, <2>4, <2>5, <2>6, <2>7 DEF CycleNext
<1>3. QED
  BY <1>1, <1>2, PTL DEF CycleSpec, Spec

(* What is promised of a run is promised of every cycle, through all its   *)
(* attempts, repetitions and errors: the certified answer and the outline  *)
(* of the engine are implemented, the verdict is final, the lifecycle is   *)
(* respected, and a completed session is a certified one (loop.py).        *)
THEOREM CycleGuarantees ==
  CycleSpec => /\ KeepsPromise /\ FollowsOutline /\ VerdictIsFinal
               /\ [](LifecycleRespected /\ OutcomeAgrees /\ CompletedIsCertified
                     /\ BudgetKept)
<1>1. Spec => [](LifecycleRespected /\ OutcomeAgrees /\ CompletedIsCertified
                /\ BudgetKept)
  BY LifecycleSafe, VerdictsAgree, OnlyCertifiedCompletions, BudgetSafe, PTL
<1>2. QED
  BY CycleRunsEngine, Refinement, OutlineFollowed, VerdictsFinal, <1>1

-----------------------------------------------------------------------------
Asking == {"ask_model", "synthesize"}

(***************************************************************************)
(* The client's call: one is under way exactly while the engine awaits the *)
(* model, in an attempt the limit allows.                                  *)
(***************************************************************************)
Fault == Transient \cup Permanent

Call ==
  [wire: {"idle", "in_flight", "backoff"}, attempt: 0..MaxRetries,
   hidden: 0..HiddenRetries, faults: Seq(Fault)]

CallFollows ==
  /\ call \in Call
  /\ call.wire # "idle" <=> phase \in Asking
  /\ call.wire # "idle" => call.attempt >= 1
  /\ call.wire = "backoff" => call.attempt < MaxRetries

(* A call not made and the first attempt of a call are calls. *)
LEMMA CallConstants ==
  /\ NoCall \in Call /\ NoCall.wire = "idle" /\ NoCall.faults = <<>>
  /\ FirstAttempt \in Call /\ FirstAttempt.wire = "in_flight"
  /\ FirstAttempt.attempt = 1 /\ FirstAttempt.hidden = 0
  /\ FirstAttempt.faults = <<>>
BY CycleAssumption DEF NoCall, FirstAttempt, Call

(* What each step of the client leaves of the call (llm_retry.py).         *)
LEMMA BackoffCall ==
  ASSUME CallFollows, NEW f \in Fault, Backoff(f)
  PROVE  /\ call.wire = "in_flight" /\ call.attempt < MaxRetries
         /\ f \in Transient
         /\ call' \in Call /\ call'.wire = "backoff"
         /\ call'.attempt = call.attempt /\ call'.hidden = call.hidden
         /\ call'.faults = Append(call.faults, f)
         /\ UNCHANGED <<vars, message, sent, received, error>>
<1>1. call \in Call /\ MaxRetries \in Nat /\ FaultSeen(f) \in Seq(Fault)
  BY CycleAssumption DEF CallFollows, Call, FaultSeen
<1>2. call' = [call EXCEPT !.wire = "backoff", !.faults = FaultSeen(f)]
  BY DEF Backoff
<1>3. call' = [wire |-> "backoff", attempt |-> call.attempt, hidden |-> call.hidden,
               faults |-> FaultSeen(f)]
  BY <1>1, <1>2 DEF Call
<1>4. call.attempt < MaxRetries
  BY <1>1 DEF Backoff, LastAttempt, Call
<1>5. QED
  BY <1>1, <1>3, <1>4 DEF Backoff, InFlight, IsRetried, FaultSeen, Call

(* A retry after the sleep starts the next attempt, with nothing repeated. *)
LEMMA RetryCall ==
  ASSUME CallFollows, Retry
  PROVE  /\ call.wire = "backoff" /\ call.attempt < MaxRetries
         /\ call' \in Call /\ call'.wire = "in_flight"
         /\ call'.attempt = call.attempt + 1 /\ call'.hidden = 0
         /\ call'.faults = call.faults
         /\ sent' = sent + 1 /\ UNCHANGED <<vars, message, received, error>>
<1>1. /\ call \in Call /\ MaxRetries \in Nat /\ HiddenRetries \in Nat
      /\ call.wire = "backoff" /\ call.attempt < MaxRetries
  BY CycleAssumption DEF CallFollows, Retry
<1>2. call' = [call EXCEPT !.wire = "in_flight", !.attempt = @ + 1, !.hidden = 0]
  BY DEF Retry
<1>3. call' = [wire |-> "in_flight", attempt |-> call.attempt + 1, hidden |-> 0,
               faults |-> call.faults]
  BY <1>1, <1>2 DEF Call
<1>4. QED
  BY <1>1, <1>3 DEF Retry, Call

(* A repetition by the client library leaves the attempt as it is.         *)
LEMMA HiddenRetryCall ==
  ASSUME CallFollows, HiddenRetry
  PROVE  /\ call.wire = "in_flight"
         /\ call' \in Call /\ call'.wire = "in_flight"
         /\ call'.attempt = call.attempt /\ call'.hidden = call.hidden + 1
         /\ call'.faults = call.faults
         /\ sent' = sent + 1 /\ UNCHANGED <<vars, message, received, error>>
<1>1. call \in Call /\ HiddenRetries \in Nat /\ call.hidden < HiddenRetries
  BY CycleAssumption DEF CallFollows, HiddenRetry
<1>2. call' = [wire |-> call.wire, attempt |-> call.attempt,
               hidden |-> call.hidden + 1, faults |-> call.faults]
  BY <1>1 DEF HiddenRetry, Call
<1>3. QED
  BY <1>1, <1>2 DEF HiddenRetry, InFlight, Call

(* A call that has ended keeps only the faults it has seen.                *)
LEMMA EndedCall ==
  ASSUME NEW seen \in Seq(Fault), call' = [NoCall EXCEPT !.faults = seen]
  PROVE  call' \in Call /\ call'.wire = "idle" /\ call'.faults = seen
<1> DEFINE ended == [wire |-> "idle", attempt |-> 0, hidden |-> 0, faults |-> seen]
<1>1. call' = ended
  BY DEF NoCall
<1>2. ended \in Call /\ ended.wire = "idle" /\ ended.faults = seen
  BY CycleAssumption DEF Call
<1> HIDE DEF ended
<1>3. QED
  BY <1>1, <1>2

(* The engine's steps start a call, or leave none behind.                  *)
LEMMA AwaitCall ==
  ASSUME ReachesAwait
  PROVE  /\ call' \in Call
         /\ phase' \in Asking =>
              /\ call'.wire = "in_flight" /\ call'.attempt = 1 /\ call'.hidden = 0
              /\ call'.faults = <<>> /\ sent' = sent + 1
         /\ phase' \notin Asking =>
              call'.wire = "idle" /\ call'.faults = <<>> /\ sent' = sent
<1>1. phase' \in Asking => call' = FirstAttempt /\ sent' = sent + 1
  BY DEF ReachesAwait, Asking
<1>2. phase' \notin Asking => call' = NoCall /\ sent' = sent
  BY DEF ReachesAwait, Asking
<1>3. QED
  BY <1>1, <1>2, CallConstants

(* A call is under way exactly while the engine awaits the model, and      *)
(* every attempt is within the limit (llm_client.py, llm_retry.py).        *)
LEMMA CallFollowsStep ==
  ASSUME IInv, CallFollows, [CycleNext]_cycleVars
  PROVE  CallFollows'
<1> USE DEF Asking
<1>0. call \in Call /\ call.faults \in Seq(Fault) /\ MaxRetries \in Nat \ {0}
  BY CycleAssumption DEF CallFollows, Call
<1>1. CASE EngineMoves \/ Completion
  <2>1. ReachesAwait
    BY <1>1 DEF EngineMoves, Completion
  <2>2. QED
    BY <1>0, <2>1, AwaitCall DEF CallFollows
<1>2. CASE UnusableCompletion
  <2>1. call' \in Call /\ call'.wire = "idle"
    BY <1>0, <1>2, EndedCall DEF UnusableCompletion
  <2>2. phase' \notin Asking
    BY <1>2, EngineCourse DEF UnusableCompletion, Goes
  <2>3. QED
    BY <2>1, <2>2 DEF CallFollows
<1>3. ASSUME NEW f \in Fault, GiveUp(f) PROVE CallFollows'
  <2>1. FaultSeen(f) \in Seq(Fault)
    BY <1>0 DEF FaultSeen
  <2>2. call' \in Call /\ call'.wire = "idle"
    BY <1>3, <2>1, EndedCall DEF GiveUp
  <2>3. phase' \notin Asking
    BY <1>3, EngineCourse DEF GiveUp, Goes
  <2>4. QED
    BY <2>2, <2>3 DEF CallFollows
<1>4. ASSUME NEW f \in Fault, Backoff(f) PROVE CallFollows'
  BY <1>0, <1>4, BackoffCall DEF CallFollows, vars
<1>5. CASE Retry
  <2>1. call.attempt \in Nat
    BY <1>0 DEF Call
  <2>2. QED
    BY <1>0, <1>5, <2>1, RetryCall DEF CallFollows, vars
<1>6. CASE HiddenRetry
  BY <1>0, <1>6, HiddenRetryCall DEF CallFollows, vars
<1>7. CASE UNCHANGED cycleVars
  BY <1>7 DEF CallFollows, cycleVars, clientVars, vars
<1>8. QED
  BY <1>1, <1>2, <1>3, <1>4, <1>5, <1>6, <1>7 DEF CycleNext, Fault

-----------------------------------------------------------------------------
(***************************************************************************)
(* The requests sent.  A call costs at most PerCall of them; the calls     *)
(* that came before are one per completed round, and one more once the     *)
(* model has been asked in the current one.                                *)
(***************************************************************************)
PerAttempt == 1 + HiddenRetries

PerCall == MaxRetries * PerAttempt

CallsBefore ==
  IF phase = "ask_model" THEN session.iteration_count ELSE session.iteration_count + 1

Spent ==
  /\ phase = "start" => sent = 0 /\ session.iteration_count = 0
  /\ phase = "run_tools" => sent <= CallsBefore * PerCall
  /\ call.wire = "in_flight" =>
       sent <= CallsBefore * PerCall + (call.attempt - 1) * PerAttempt + 1 + call.hidden
  /\ call.wire = "backoff" =>
       sent <= CallsBefore * PerCall + call.attempt * PerAttempt
  /\ phase \in Ended => sent <= (MaxIterations + 2) * PerCall

(* An attempt that has had all its repetitions makes way for the next, and *)
(* the last for the end of the call.                                       *)
LEMMA AttemptFits ==
  ASSUME NEW a \in 1..MaxRetries, NEW h \in 0..HiddenRetries
  PROVE  /\ (a - 1) * PerAttempt + 1 + h <= a * PerAttempt
         /\ a * PerAttempt <= PerCall
         /\ (a - 1) * PerAttempt \in Nat /\ a * PerAttempt \in Nat /\ PerCall \in Nat
<1>1. /\ MaxRetries \in Nat /\ HiddenRetries \in Nat
      /\ PerAttempt \in Nat /\ PerAttempt = 1 + HiddenRetries
      /\ a \in Nat /\ a - 1 \in Nat /\ a - 1 <= a /\ a <= MaxRetries
  BY CycleAssumption DEF PerAttempt
<1> HIDE DEF PerAttempt
<1>2. /\ a * PerAttempt <= MaxRetries * PerAttempt
      /\ a * PerAttempt \in Nat
  BY <1>1, ProductMonotone
<1>3. /\ (a - 1) * PerAttempt \in Nat
      /\ ((a - 1) + 1) * PerAttempt = (a - 1) * PerAttempt + PerAttempt
  BY <1>1, ProductMonotone
<1>4. (a - 1) + 1 = a
  BY <1>1
<1>5. PerCall = MaxRetries * PerAttempt /\ PerCall \in Nat
  BY <1>1 DEF PerCall
<1>6. QED
  BY <1>1, <1>2, <1>3, <1>4, <1>5

(* A call that ends has cost at most PerCall. *)
LEMMA CallFits ==
  ASSUME IInv, BudgetKept, CallFollows, Spent, sent \in Nat, call.wire = "in_flight"
  PROVE  /\ sent <= (CallsBefore + 1) * PerCall
         /\ (CallsBefore + 1) * PerCall <= (MaxIterations + 2) * PerCall
<1>1. /\ session.iteration_count \in Nat /\ MaxIterations \in Nat
      /\ session.iteration_count <= MaxIterations
  BY LoopAssumption DEF IInv, TypeOK, Session, BudgetKept
<1>2. CallsBefore \in Nat /\ CallsBefore + 1 \in Nat /\ CallsBefore + 1 <= MaxIterations + 2
  BY <1>1 DEF CallsBefore
<1>3. call.attempt \in 1..MaxRetries /\ call.hidden \in 0..HiddenRetries
  BY CycleAssumption DEF CallFollows, Call
<1>4. /\ (call.attempt - 1) * PerAttempt + 1 + call.hidden <= PerCall
      /\ PerCall \in Nat /\ (call.attempt - 1) * PerAttempt \in Nat
  BY <1>3, AttemptFits
<1>5. /\ (CallsBefore + 1) * PerCall = CallsBefore * PerCall + PerCall
      /\ CallsBefore * PerCall \in Nat
      /\ (CallsBefore + 1) * PerCall <= (MaxIterations + 2) * PerCall
  BY <1>1, <1>2, <1>4, ProductMonotone
<1>6. sent <= CallsBefore * PerCall + (call.attempt - 1) * PerAttempt + 1 + call.hidden
  BY DEF Spent
<1> HIDE DEF CallsBefore, PerCall, PerAttempt
<1>7. QED
  BY <1>3, <1>4, <1>5, <1>6

(* Where the engine goes when it leaves the tools, and what a call starts  *)
(* with: the first attempt has sent one request.                           *)
LEMMA FirstRequest ==
  ASSUME NEW n \in Nat, NEW s \in Nat, s <= n * PerCall,
         session'.iteration_count \in Nat,
         CallsBefore' = n, phase' \in Asking, ReachesAwait, sent = s
  PROVE  Spent'
<1>1. /\ call'.wire = "in_flight" /\ call'.attempt = 1 /\ call'.hidden = 0
      /\ sent' = s + 1
  BY AwaitCall
<1>2. (call'.attempt - 1) * PerAttempt' = 0
  <2>1. PerAttempt' \in Nat
    BY CycleAssumption DEF PerAttempt
  <2>2. QED
    BY <1>1, <2>1
<1>3. PerCall' = PerCall /\ PerCall \in Nat
  BY CycleAssumption DEF PerCall, PerAttempt
<1>4. n * PerCall \in Nat
  BY <1>3
<1>5. sent' <= CallsBefore' * PerCall' + (call'.attempt - 1) * PerAttempt' + 1 + call'.hidden
  BY <1>1, <1>2, <1>3, <1>4
<1>6. phase' \notin Ended \cup {"start", "run_tools"}
  BY DEF Asking, Ended
<1>7. QED
  BY <1>1, <1>5, <1>6 DEF Spent

(* Every step keeps to the allowance (llm_retry.py lines 48-56).           *)
LEMMA SpentStep ==
  ASSUME IInv, IInv', BudgetKept, CallFollows, Spent, sent \in Nat,
         [CycleNext]_cycleVars
  PROVE  Spent' /\ sent' \in Nat
<1> DEFINE n == session.iteration_count
<1>0. /\ n \in Nat /\ session'.iteration_count \in Nat /\ MaxIterations \in Nat
      /\ n <= MaxIterations /\ CallsBefore \in Nat
      /\ phase \in Asking <=> call.wire # "idle"
      /\ call.wire \in {"idle", "in_flight", "backoff"}
  BY LoopAssumption
     DEF IInv, TypeOK, Session, BudgetKept, CallsBefore, CallFollows, Call
<1>00. PerCall \in Nat /\ PerAttempt \in Nat /\ PerCall' = PerCall /\ PerAttempt' = PerAttempt
  BY CycleAssumption DEF PerCall, PerAttempt
<1>000. /\ n * PerCall \in Nat /\ (n + 1) * PerCall \in Nat
        /\ (MaxIterations + 2) * PerCall \in Nat
        /\ (n + 1) * PerCall <= (MaxIterations + 2) * PerCall
        /\ 0 * PerCall = 0
  <2>1. n + 1 \in Nat /\ MaxIterations + 2 \in Nat /\ n + 1 <= MaxIterations + 2
    BY <1>0
  <2>2. QED
    BY <1>0, <1>00, <2>1, ProductMonotone
<1> HIDE DEF n
<1>1. ASSUME phase' \in Ended, sent' = sent, call'.wire = "idle",
             \/ call.wire = "in_flight" \/ phase \in {"start", "run_tools"}
      PROVE  Spent' /\ sent' \in Nat
  <2>1. sent <= (MaxIterations + 2) * PerCall
    <3>1. CASE call.wire = "in_flight"
      <4>1. CallsBefore + 1 \in Nat /\ MaxIterations + 2 \in Nat
        BY <1>0
      <4>2. (CallsBefore + 1) * PerCall \in Nat
        BY <1>00, <4>1
      <4> HIDE DEF CallsBefore, PerCall
      <4>3. QED
        BY <1>000, <3>1, <4>2, CallFits
    <3>2. CASE phase = "start"
      BY <1>000, <3>2 DEF Spent
    <3>3. CASE phase = "run_tools"
      <4>1. CallsBefore = n + 1
        BY <3>3 DEF CallsBefore, n
      <4>2. QED
        BY <1>000, <3>3, <4>1 DEF Spent
    <3>4. QED
      BY <1>1, <3>1, <3>2, <3>3
  <2>2. phase' \notin {"start", "run_tools"}
    BY <1>1 DEF Ended
  <2>3. QED
    BY <1>00, <1>1, <2>1, <2>2 DEF Spent
<1>2. CASE EngineMoves
  <2>1. ReachesAwait
    BY <1>2 DEF EngineMoves
  <2>2. CASE Begin
    <3>1. phase = "start" /\ phase' \in {"ask_model", "returned"}
          /\ session'.iteration_count = 0 /\ sent = 0
      BY <1>0, <2>2, EngineCourse DEF Goes, Spent
    <3>2. CASE phase' = "returned"
      BY <1>1, <2>1, <3>1, <3>2, AwaitCall DEF Asking, Ended
    <3>3. CASE phase' = "ask_model"
      <4>1. CallsBefore' = 0
        BY <3>1, <3>3 DEF CallsBefore
      <4>2. Spent'
        BY <1>000, <2>1, <3>1, <3>3, <4>1, FirstRequest DEF Asking
      <4>3. QED
        BY <2>1, <3>3, <4>2, AwaitCall DEF Asking
    <3>4. QED
      BY <3>1, <3>2, <3>3
  <2>3. CASE ToolReturns
    <3>1. sent <= (n + 1) * PerCall
      BY <2>3, EngineCourse DEF Goes, Spent, CallsBefore, n
    <3>2. CASE Goes("run_tools", {"run_tools"}, 0)
      <4>1. CallsBefore' = n + 1 /\ phase' = "run_tools"
        BY <1>0, <3>2 DEF Goes, CallsBefore, n
      <4>2. sent' = sent /\ call'.wire = "idle"
        BY <2>1, <4>1, AwaitCall DEF Asking
      <4>3. QED
        BY <1>00, <3>1, <4>1, <4>2 DEF Spent, Ended
    <3>3. CASE Goes("run_tools", {"ask_model"}, 1)
      <4>1. CallsBefore' = n + 1 /\ phase' = "ask_model" /\ n + 1 \in Nat
        BY <1>0, <3>3 DEF Goes, CallsBefore, n
      <4>2. Spent'
        BY <1>0, <2>1, <3>1, <4>1, FirstRequest DEF Asking
      <4>3. QED
        BY <2>1, <4>1, <4>2, AwaitCall DEF Asking
    <3>4. QED
      BY <2>3, <3>2, <3>3, EngineCourse
  <2>4. CASE ToolCallClashes
    BY <1>1, <2>1, <2>4, AwaitCall, EngineCourse DEF Goes, Ended, Asking
  <2>5. QED
    BY <1>2, <2>2, <2>3, <2>4 DEF EngineMoves
<1>3. CASE Completion
  <2>1. ReachesAwait /\ call.wire = "in_flight"
    BY <1>3 DEF Completion, InFlight
  <2>2. sent <= (CallsBefore + 1) * PerCall
    BY <2>1, CallFits
  <2>3. CASE ModelExceedsCeiling \/ SynthesisReturns
    BY <1>1, <2>1, <2>3, AwaitCall, EngineCourse DEF Goes, Ended, Asking
  <2>4. CASE ModelIsDone
    <3>1. /\ CallsBefore = n /\ CallsBefore' = n + 1 /\ phase' = "synthesize"
          /\ n + 1 \in Nat
      BY <1>0, <2>4, EngineCourse DEF Goes, CallsBefore, n
    <3>2. Spent'
      BY <1>0, <2>1, <2>2, <3>1, FirstRequest DEF Asking
    <3>3. QED
      BY <2>1, <3>1, <3>2, AwaitCall DEF Asking
  <2>5. CASE ModelCallsTools
    <3>1. CallsBefore = n /\ CallsBefore' = n + 1 /\ phase' = "run_tools"
      BY <1>0, <2>5, EngineCourse DEF Goes, CallsBefore, n
    <3>2. sent' = sent /\ call'.wire = "idle"
      BY <2>1, <3>1, AwaitCall DEF Asking
    <3>3. QED
      BY <1>00, <2>2, <3>1, <3>2 DEF Spent, Ended
  <2>6. QED
    BY <1>3, <2>3, <2>4, <2>5 DEF Completion
<1>4. CASE UnusableCompletion \/ \E f \in Fault : GiveUp(f)
  <2>1. /\ call.wire = "in_flight" /\ sent' = sent
        /\ ModelFails \/ SynthesisFails
    BY <1>4 DEF UnusableCompletion, GiveUp, InFlight
  <2>2. phase' \in Ended /\ phase' \notin Asking
    BY <2>1, EngineCourse DEF Goes, Ended, Asking
  <2>3. CallFollows'
    BY <1>4, CallFollowsStep DEF CycleNext, Fault
  <2>4. QED
    BY <1>1, <2>1, <2>2, <2>3 DEF CallFollows
<1>5. ASSUME UNCHANGED vars PROVE CallsBefore' = CallsBefore /\ phase' = phase
                                  /\ session'.iteration_count = n
  BY <1>5 DEF vars, CallsBefore, n
<1>6. /\ call.attempt \in Nat /\ call.hidden \in Nat /\ CallsBefore * PerCall \in Nat
      /\ call.wire # "idle" => phase \notin Ended \cup {"start", "run_tools"}
  <2>1. call.wire # "idle" => phase \notin Ended \cup {"start", "run_tools"}
    BY <1>0 DEF Asking, Ended
  <2>2. QED
    BY <1>0, <1>00, <2>1 DEF CallFollows, Call
<1>7. ASSUME NEW f \in Fault, Backoff(f) PROVE Spent' /\ sent' \in Nat
  <2>1. /\ call.wire = "in_flight" /\ call'.wire = "backoff"
        /\ call'.attempt = call.attempt /\ UNCHANGED vars /\ sent' = sent
    BY <1>7, BackoffCall
  <2>2. /\ (call.attempt - 1) * PerAttempt + 1 + call.hidden <= call.attempt * PerAttempt
        /\ (call.attempt - 1) * PerAttempt \in Nat /\ call.attempt * PerAttempt \in Nat
    <3>1. call.attempt \in 1..MaxRetries /\ call.hidden \in 0..HiddenRetries
      BY <2>1, CycleAssumption DEF CallFollows, Call
    <3>2. QED
      BY <3>1, AttemptFits
  <2>3. sent <= CallsBefore * PerCall + (call.attempt - 1) * PerAttempt + 1 + call.hidden
    BY <2>1 DEF Spent
  <2>4. sent <= CallsBefore * PerCall + call.attempt * PerAttempt
    BY <1>6, <2>2, <2>3
  <2>5. QED
    BY <1>00, <1>5, <1>6, <2>1, <2>4 DEF Spent
<1>8. CASE Retry
  <2>1. /\ call.wire = "backoff" /\ call'.wire = "in_flight"
        /\ call'.attempt = call.attempt + 1 /\ call'.hidden = 0
        /\ UNCHANGED vars /\ sent' = sent + 1
    BY <1>8, RetryCall
  <2>2. sent <= CallsBefore * PerCall + call.attempt * PerAttempt
    BY <2>1 DEF Spent
  <2>3. (call'.attempt - 1) * PerAttempt = call.attempt * PerAttempt
        /\ call.attempt * PerAttempt \in Nat
    <3>1. call'.attempt - 1 = call.attempt
      BY <1>6, <2>1
    <3>2. QED
      BY <1>00, <1>6, <3>1
  <2>4. sent' <= CallsBefore * PerCall + (call'.attempt - 1) * PerAttempt + 1 + call'.hidden
    BY <1>6, <2>1, <2>2, <2>3
  <2>5. QED
    BY <1>00, <1>5, <1>6, <2>1, <2>4 DEF Spent
<1>9. CASE HiddenRetry
  <2>1. /\ call.wire = "in_flight" /\ call'.wire = "in_flight"
        /\ call'.attempt = call.attempt /\ call'.hidden = call.hidden + 1
        /\ UNCHANGED vars /\ sent' = sent + 1
    BY <1>9, HiddenRetryCall
  <2>2. sent <= CallsBefore * PerCall + (call.attempt - 1) * PerAttempt + 1 + call.hidden
    BY <2>1 DEF Spent
  <2>3. (call.attempt - 1) * PerAttempt \in Nat
    <3>1. call.attempt \in 1..MaxRetries /\ call.hidden \in 0..HiddenRetries
      BY <2>1, CycleAssumption DEF CallFollows, Call
    <3>2. QED
      BY <3>1, AttemptFits
  <2>4. sent' <= CallsBefore * PerCall + (call'.attempt - 1) * PerAttempt + 1 + call'.hidden
    BY <1>6, <2>1, <2>2, <2>3
  <2>5. QED
    BY <1>00, <1>5, <1>6, <2>1, <2>4 DEF Spent
<1>10. CASE UNCHANGED cycleVars
  <2>1. UNCHANGED vars /\ call' = call /\ sent' = sent
    BY <1>10 DEF cycleVars, clientVars
  <2>2. QED
    BY <1>00, <1>5, <2>1 DEF Spent, n
<1>11. QED
  BY <1>2, <1>3, <1>4, <1>7, <1>8, <1>9, <1>10 DEF CycleNext, Fault

(* The accounts of a cycle, as an invariant. *)
Accounted == CallFollows /\ Spent /\ sent \in Nat

(* The bound on the requests holds wherever the cycle is. *)
LEMMA AccountedIsBounded ==
  ASSUME IInv, BudgetKept, Accounted
  PROVE  SpendIsBounded
<1>1. /\ session.iteration_count \in Nat /\ MaxIterations \in Nat
      /\ session.iteration_count <= MaxIterations
      /\ PerCall \in Nat /\ phase \in Phase
  BY LoopAssumption, CycleAssumption
     DEF IInv, TypeOK, Session, BudgetKept, PerCall, PerAttempt
<1>2. /\ CallsBefore \in Nat /\ CallsBefore + 1 \in Nat
      /\ CallsBefore + 1 <= MaxIterations + 2 /\ MaxIterations + 2 \in Nat
  BY <1>1 DEF CallsBefore
<1>3. /\ CallsBefore * PerCall \in Nat
      /\ (CallsBefore + 1) * PerCall = CallsBefore * PerCall + PerCall
      /\ (CallsBefore + 1) * PerCall <= (MaxIterations + 2) * PerCall
      /\ (MaxIterations + 2) * PerCall \in Nat
  BY <1>1, <1>2, ProductMonotone
<1>4. sent <= (MaxIterations + 2) * PerCall
  <2>1. CASE phase = "start" \/ phase \in Ended
    BY <1>3, <2>1 DEF Accounted, Spent
  <2>2. CASE phase = "run_tools"
    <3>1. sent <= CallsBefore * PerCall /\ sent \in Nat
      BY <2>2 DEF Accounted, Spent
    <3> HIDE DEF CallsBefore, PerCall
    <3>2. QED
      BY <1>1, <1>3, <3>1
  <2>3. CASE call.wire = "in_flight"
    <3>1. sent <= (CallsBefore + 1) * PerCall /\ sent \in Nat
      BY <2>3, CallFits DEF Accounted
    <3>2. QED
      BY <1>1, <1>3, <3>1
  <2>4. CASE call.wire = "backoff"
    <3>1. call.attempt \in 1..MaxRetries /\ 0 \in 0..HiddenRetries
      BY <2>4, CycleAssumption DEF Accounted, CallFollows, Call
    <3>2. call.attempt * PerAttempt <= PerCall /\ call.attempt * PerAttempt \in Nat
      BY <3>1, AttemptFits
    <3>3. sent <= CallsBefore * PerCall + call.attempt * PerAttempt /\ sent \in Nat
      BY <2>4 DEF Accounted, Spent
    <3>4. QED
      BY <1>1, <1>3, <3>2, <3>3
  <2>5. QED
    BY <1>1, <2>1, <2>2, <2>3, <2>4
       DEF Phase, Accounted, CallFollows, Call, Asking, Ended
<1>5. ASSUME NEW a \in Nat, NEW b \in Nat, NEW c \in Nat
      PROVE  a * (b * c) = a * b * c
  OBVIOUS
<1>6. (MaxIterations + 2) * PerCall = (MaxIterations + 2) * MaxRetries * (1 + HiddenRetries)
  <2>1. MaxIterations + 2 \in Nat /\ MaxRetries \in Nat /\ 1 + HiddenRetries \in Nat
    BY <1>1, CycleAssumption
  <2>2. PerCall = MaxRetries * (1 + HiddenRetries)
    BY DEF PerCall, PerAttempt
  <2>3. QED
    BY <1>5, <2>1, <2>2
<1>7. QED
  BY <1>4, <1>6 DEF SpendIsBounded

(* However the provider fails, a cycle sends at most as many requests as   *)
(* calls, attempts and repetitions allow, for every value of the three     *)
(* limits (llm_retry.py line 48, loop.py line 120).                        *)
THEOREM SpendSafe == CycleSpec => []SpendIsBounded
<1>1. CycleInit => Accounted
  <2> SUFFICES ASSUME CycleInit PROVE Accounted
    OBVIOUS
  <2>1. phase = "start" /\ sent = 0 /\ call = NoCall /\ session.iteration_count = 0
    BY DEF CycleInit, NewSession
  <2>2. QED
    BY <2>1, CallConstants DEF Accounted, CallFollows, Spent, Asking, Ended
<1>2. IInv /\ IInv' /\ BudgetKept /\ Accounted /\ [CycleNext]_cycleVars => Accounted'
  BY CallFollowsStep, SpentStep DEF Accounted
<1>3. IInv /\ BudgetKept /\ Accounted => SpendIsBounded
  BY AccountedIsBounded
<1>4. QED
  BY CycleRunsEngine, Invariant, BudgetSafe, <1>1, <1>2, <1>3, PTL DEF CycleSpec

-----------------------------------------------------------------------------
(***************************************************************************)
(* What a reply reports as used: the guard and the assembly pass on the    *)
(* number of completions, which the engine counts as it receives them.     *)
(***************************************************************************)
(* The guard leaves the usage of a reply alone (validator.py).             *)
LEMMA GuardKeepsUsage ==
  ASSUME NEW reply, NEW traces
  PROVE  GuardResponse(reply, traces).calls = reply.calls
BY DEF GuardResponse

(* The assembly reports the number it is given (response_builder.py).      *)
LEMMA AssemblyKeepsUsage ==
  ASSUME NEW d, NEW traces, NEW n
  PROVE  CertifiedResponse(d, traces, Threshold, n).calls = n
BY DEF CertifiedResponse

(* So does the reply of an escalation (loop.py).                           *)
LEMMA EscalationKeepsUsage ==
  ASSUME NEW s, NEW reason, NEW n
  PROVE  EscalatedResponse(s, reason, n).calls = n
BY DEF EscalatedResponse

Counted ==
  /\ received \in [turns: Nat, drafts: Nat]
  /\ phase \notin Ended => received.turns = answered /\ received.drafts = 0
  /\ phase = "returned" => response.calls = received.turns /\ received.drafts <= 1

(* What an answer adds to the completions received.                        *)
LEMMA ReceivesCount ==
  ASSUME received \in [turns: Nat, drafts: Nat]
  PROVE  /\ Receives("turns") =>
              /\ received' \in [turns: Nat, drafts: Nat]
              /\ received'.turns = received.turns + 1
              /\ received'.drafts = received.drafts
         /\ Receives("drafts") =>
              /\ received' \in [turns: Nat, drafts: Nat]
              /\ received'.turns = received.turns
              /\ received'.drafts = received.drafts + 1
BY DEF Receives

(* Every step keeps the count (loop.py lines 113-115).                     *)
LEMMA CountedStep ==
  ASSUME IInv, IInv', Counted, [CycleNext]_cycleVars
  PROVE  Counted'
<1>0. /\ received \in [turns: Nat, drafts: Nat] /\ answered \in Nat
      /\ received.turns \in Nat /\ received.drafts \in Nat
  BY DEF Counted, IInv, TypeOK
<1>1. CASE EngineMoves
  <2>1. received' = received
    BY <1>1 DEF EngineMoves
  <2>2. CASE Begin
    <3>1. /\ phase = "start" /\ answered = 0 /\ answered' = answered
          /\ phase' \in {"ask_model", "returned"}
      BY <2>2, EngineCourse DEF Goes, Begin, IInv, AtStart
    <3>2. phase' = "returned" => response'.calls = 0
      BY <2>2, <3>1, EscalationKeepsUsage DEF Begin, EscalateDemand, Return
    <3>3. QED
      BY <1>0, <2>1, <3>1, <3>2 DEF Counted, Ended
  <2>3. CASE ToolReturns
    BY <1>0, <2>1, <2>3, EngineCourse DEF ToolReturns, Goes, Counted, Ended
  <2>4. CASE ToolCallClashes
    BY <1>0, <2>1, <2>4 DEF ToolCallClashes, Counted, Ended
  <2>5. QED
    BY <1>1, <2>2, <2>3, <2>4 DEF EngineMoves
<1>2. CASE Completion
  <2>1. CASE (ModelIsDone \/ ModelExceedsCeiling \/ ModelCallsTools) /\ Receives("turns")
    <3>1. /\ phase = "ask_model" /\ answered' = answered + 1
          /\ phase' \in {"synthesize", "run_tools", "returned"}
      BY <2>1, EngineCourse
         DEF ModelIsDone, ModelExceedsCeiling, ModelCallsTools, ModelAnswers, Goes
    <3>2. phase' = "returned" => response'.calls = answered + 1
      <4>1. phase' = "returned" => ModelExceedsCeiling
        BY <2>1, EngineCourse DEF Goes
      <4>2. QED
        BY <4>1, EscalationKeepsUsage DEF ModelExceedsCeiling, Return
    <3>3. QED
      BY <1>0, <2>1, <3>1, <3>2, ReceivesCount DEF Counted, Ended
  <2>2. CASE SynthesisReturns /\ Receives("drafts")
    <3>1. phase = "synthesize" /\ phase' \in {"returned", "invalid_reply"}
      BY <2>2, EngineCourse DEF Goes
    <3>2. phase' = "returned" => response'.calls = answered
      <4>1. SUFFICES ASSUME phase' = "returned" PROVE response'.calls = answered
        OBVIOUS
      <4>2. PICK d \in Drafts :
              Conclude(CertifiedResponse(d, session.tool_traces, Threshold, answered))
        BY <2>2, <4>1 DEF SynthesisReturns
      <4>3. QED
        BY <4>2, GuardKeepsUsage, AssemblyKeepsUsage DEF Conclude, Return
    <3>3. QED
      BY <1>0, <2>2, <3>1, <3>2, ReceivesCount DEF Counted, Ended
  <2>3. QED
    BY <1>2, <2>1, <2>2 DEF Completion
<1>3. CASE UnusableCompletion \/ \E f \in Fault : GiveUp(f)
  <2>1. /\ phase \notin Ended
        /\ phase' = "llm_error" \/ (SynthesisFails /\ phase' = "returned")
    BY <1>3, EngineCourse DEF UnusableCompletion, GiveUp, Goes, Ended
  <2>2. /\ received' \in [turns: Nat, drafts: Nat]
        /\ phase' = "returned" =>
             received'.turns = received.turns /\ received'.drafts <= received.drafts + 1
    <3>1. CASE \E f \in Fault : GiveUp(f)
      BY <1>0, <3>1 DEF GiveUp
    <3>2. CASE UnusableCompletion
      <4>1. (Receives("turns") /\ phase' # "returned") \/ Receives("drafts")
        BY <3>2, EngineCourse DEF UnusableCompletion, Goes
      <4>2. QED
        BY <1>0, <4>1, ReceivesCount
    <3>3. QED
      BY <1>3, <3>1, <3>2
  <2>3. SynthesisFails => response'.calls = answered
    BY EscalationKeepsUsage, GuardKeepsUsage DEF SynthesisFails, Conclude, Return
  <2>4. QED
    BY <1>0, <2>1, <2>2, <2>3 DEF Counted, Ended
<1>4. CASE \/ \E f \in Fault : Backoff(f)
           \/ Retry \/ HiddenRetry \/ UNCHANGED cycleVars
  <2>1. UNCHANGED <<vars, received>>
    BY <1>4 DEF Backoff, Retry, HiddenRetry, cycleVars, clientVars
  <2>2. QED
    BY <2>1 DEF Counted, vars
<1>5. QED
  BY <1>1, <1>2, <1>3, <1>4 DEF CycleNext, Fault

(* The usage of a reply counts every completion of the tool loop once,     *)
(* however many attempts and rounds they took, and nothing that was not    *)
(* received (loop.py lines 113-115).                                       *)
THEOREM UsageSafe == CycleSpec => []UsageIsReceived
<1>1. CycleInit => Counted
  BY DEF CycleInit, Counted, Ended
<1>2. IInv /\ IInv' /\ Counted /\ [CycleNext]_cycleVars => Counted'
  BY CountedStep
<1>3. Counted => UsageIsReceived
  <2> SUFFICES ASSUME Counted, phase = "returned"
               PROVE  /\ received.turns <= response.calls
                      /\ response.calls <= received.turns + received.drafts
    BY DEF UsageIsReceived
  <2>1. received.turns \in Nat /\ received.drafts \in Nat
    BY DEF Counted
  <2>2. response.calls = received.turns
    BY DEF Counted
  <2>3. QED
    BY <2>1, <2>2
<1>4. QED
  BY CycleRunsEngine, Invariant, <1>1, <1>2, <1>3, PTL DEF CycleSpec

-----------------------------------------------------------------------------
(***************************************************************************)
(* The faults of a call: one for every attempt that is over, all of them   *)
(* transient while the call goes on.                                       *)
(***************************************************************************)
AllTransient == \A i \in DOMAIN call.faults : call.faults[i] \in Transient

FaultsSeen ==
  /\ call.wire = "in_flight" => AllTransient /\ Len(call.faults) = call.attempt - 1
  /\ call.wire = "backoff" => AllTransient /\ Len(call.faults) = call.attempt
  /\ TransientFaultsAbsorbed

(* A run that goes on, or ends in another way, has nothing to answer for.  *)
LEMMA NothingGivenUp ==
  ASSUME call' \in Call,
         \A i \in DOMAIN call'.faults : call'.faults[i] \in Transient,
         phase' = "llm_error" => error' \in UnusableCode,
         phase' = "returned" =>
           received'.drafts # 0 \/ session'.escalation_reason # "SYNTHESIS_FAILURE"
  PROVE  TransientFaultsAbsorbed'
BY DEF TransientFaultsAbsorbed, Call

(* A call is given up after a fault that is not retried or the last that   *)
(* the limit allows (llm_retry.py).                                        *)
LEMMA GiveUpAbsorbs ==
  ASSUME CallFollows, FaultsSeen, NEW f \in Fault, GiveUp(f),
         phase' \in {"llm_error", "returned"}
  PROVE  TransientFaultsAbsorbed'
<1> DEFINE faults == Append(call.faults, f)
<1>1. /\ call.faults \in Seq(Fault) /\ faults \in Seq(Fault)
      /\ call.wire = "in_flight" /\ AllTransient
      /\ Len(call.faults) = call.attempt - 1
      /\ call.attempt \in 1..MaxRetries /\ MaxRetries \in Nat
  BY CycleAssumption DEF CallFollows, Call, FaultsSeen, GiveUp, InFlight
<1>2. /\ faults # <<>> /\ Len(faults) = call.attempt /\ faults[Len(faults)] = f
      /\ \A i \in DOMAIN faults : i < Len(faults) => faults[i] \in Transient
  BY <1>1 DEF AllTransient
<1>3. call'.faults = faults
  <2>1. call' = [NoCall EXCEPT !.faults = faults]
    BY DEF GiveUp, FaultSeen
  <2>2. QED
    BY <1>1, <2>1, EndedCall
<1>4. f \in Permanent \/ Len(faults) = MaxRetries
  <2>1. f \notin Transient \/ call.attempt >= MaxRetries
    BY DEF GiveUp, IsRetried, LastAttempt
  <2>2. QED
    BY <1>1, <1>2, <2>1 DEF Fault
<1> HIDE DEF faults
<1>5. QED
  BY <1>2, <1>3, <1>4 DEF TransientFaultsAbsorbed

(* Every step keeps the record of the faults.                              *)
LEMMA FaultsSeenStep ==
  ASSUME IInv, CallFollows, Counted, FaultsSeen, CallFollows', [CycleNext]_cycleVars
  PROVE  FaultsSeen'
<1>0. /\ call \in Call /\ call.faults \in Seq(Fault) /\ call.attempt \in Nat
      /\ call' \in Call /\ MaxRetries \in Nat
      /\ received.drafts \in Nat
      /\ call.wire # "idle" <=> phase \in Asking
      /\ call'.wire # "idle" <=> phase' \in Asking
  BY CycleAssumption DEF CallFollows, Call, Counted
<1>1. CASE EngineMoves \/ Completion
  <2>1. ReachesAwait
    BY <1>1 DEF EngineMoves, Completion
  <2>2. call'.faults = <<>> /\ (call'.wire # "idle" => call'.wire = "in_flight")
        /\ (call'.wire = "in_flight" => call'.attempt = 1)
    BY <1>0, <2>1, AwaitCall
  <2>3. phase' # "llm_error"
    BY <1>1, EngineCourse DEF EngineMoves, Completion, Goes
  <2>4. phase' = "returned" =>
          received'.drafts # 0 \/ session'.escalation_reason # "SYNTHESIS_FAILURE"
    <3>1. SUFFICES ASSUME phase' = "returned"
                   PROVE  \/ received'.drafts # 0
                          \/ session'.escalation_reason # "SYNTHESIS_FAILURE"
      OBVIOUS
    <3>2. CASE Begin
      <4>1. response'.reason = session'.escalation_reason
        BY <3>1, <3>2, BeginEffect DEF EscalatedTo
      <4>2. response'.reason \in {"HOSTILE_OR_LEGAL_THREAT", "OUT_OF_SCOPE_INTENT"}
        BY <3>1, <3>2 DEF Begin, EscalateDemand, Return, EscalatedResponse
      <4>3. QED
        BY <4>1, <4>2
    <3>3. CASE ModelExceedsCeiling
      <4>1. response'.reason = session'.escalation_reason
        BY <3>1, <3>3, ModelExceedsCeilingEffect DEF EscalatedTo
      <4>2. response'.reason = "LOOP_LIMIT_EXCEEDED"
        BY <3>3 DEF ModelExceedsCeiling, Return, EscalatedResponse
      <4>3. QED
        BY <4>1, <4>2
    <3>4. CASE SynthesisReturns /\ Receives("drafts")
      <4>1. received'.drafts = received.drafts + 1
        BY <3>4, ReceivesCount DEF Counted
      <4>2. QED
        BY <1>0, <4>1
    <3>5. \/ Begin \/ ModelExceedsCeiling
          \/ SynthesisReturns /\ Receives("drafts")
      BY <1>1, <3>1, EngineCourse DEF EngineMoves, Completion, Goes
    <3>6. QED
      BY <3>2, <3>3, <3>4, <3>5
  <2>5. TransientFaultsAbsorbed'
    BY <1>0, <2>2, <2>3, <2>4, NothingGivenUp
  <2>6. QED
    BY <2>2, <2>5 DEF FaultsSeen, AllTransient
<1>2. CASE UnusableCompletion
  <2>1. /\ call.wire = "in_flight" /\ AllTransient
        /\ call' = [NoCall EXCEPT !.faults = call.faults]
    BY <1>2 DEF UnusableCompletion, InFlight, FaultsSeen
  <2>2. call'.faults = call.faults /\ call'.wire = "idle"
    BY <1>0, <2>1, EndedCall
  <2>3. \/ phase' = "llm_error" /\ error' \in UnusableCode
        \/ phase' = "returned" /\ received'.drafts = received.drafts + 1
    BY <1>2, EngineCourse, ReceivesCount DEF UnusableCompletion, Goes, Counted
  <2>4. TransientFaultsAbsorbed'
    BY <1>0, <2>1, <2>2, <2>3, NothingGivenUp DEF AllTransient
  <2>5. QED
    BY <2>2, <2>4 DEF FaultsSeen
<1>3. ASSUME NEW f \in Fault, GiveUp(f) PROVE FaultsSeen'
  <2>1. phase' \in {"llm_error", "returned"}
    BY <1>3, EngineCourse DEF GiveUp, Goes
  <2>2. call'.wire = "idle"
    BY <1>0, <2>1 DEF Asking, Call
  <2>3. TransientFaultsAbsorbed'
    BY <1>3, <2>1, GiveUpAbsorbs
  <2>4. QED
    BY <2>2, <2>3 DEF FaultsSeen
<1>4. ASSUME UNCHANGED vars, call.wire # "idle" PROVE phase' \in Asking
  BY <1>0, <1>4 DEF vars
<1>5. ASSUME NEW f \in Fault, Backoff(f) PROVE FaultsSeen'
  <2>1. /\ call.wire = "in_flight" /\ f \in Transient /\ call'.wire = "backoff"
        /\ call'.attempt = call.attempt /\ call'.faults = Append(call.faults, f)
        /\ phase' \in Asking
    BY <1>4, <1>5, BackoffCall
  <2>2. Len(call.faults) = call.attempt - 1 /\ AllTransient
    BY <2>1 DEF FaultsSeen
  <2>3. /\ Len(call'.faults) = call'.attempt
        /\ \A i \in DOMAIN call'.faults : call'.faults[i] \in Transient
    BY <1>0, <2>1, <2>2 DEF AllTransient
  <2>4. TransientFaultsAbsorbed'
    BY <1>0, <2>1, <2>3, NothingGivenUp DEF Asking
  <2>5. QED
    BY <2>1, <2>3, <2>4 DEF FaultsSeen, AllTransient
<1>6. CASE Retry \/ HiddenRetry
  <2>1. /\ call'.wire = "in_flight" /\ call'.faults = call.faults /\ phase' \in Asking
        /\ \/ call.wire = "backoff" /\ call'.attempt = call.attempt + 1
           \/ call.wire = "in_flight" /\ call'.attempt = call.attempt
    BY <1>4, <1>6, RetryCall, HiddenRetryCall
  <2>2. AllTransient /\ Len(call'.faults) = call'.attempt - 1
    BY <1>0, <2>1 DEF FaultsSeen
  <2>3. TransientFaultsAbsorbed'
    BY <1>0, <2>1, <2>2, NothingGivenUp DEF Asking, AllTransient
  <2>4. QED
    BY <2>1, <2>2, <2>3 DEF FaultsSeen, AllTransient
<1>7. CASE UNCHANGED cycleVars
  BY <1>7 DEF FaultsSeen, AllTransient, TransientFaultsAbsorbed,
              cycleVars, clientVars, vars
<1>8. QED
  BY <1>1, <1>2, <1>3, <1>5, <1>6, <1>7 DEF CycleNext, Fault

(* A transient fault is absorbed, for every limit on the attempts: a cycle *)
(* goes without the model's answer only after a fault that is not retried  *)
(* or when the attempts are used up (llm_retry.py).                        *)
THEOREM FaultsAbsorbed == CycleSpec => []TransientFaultsAbsorbed
<1>1. CycleInit => CallFollows /\ Counted /\ FaultsSeen
  BY CallConstants
     DEF CycleInit, CallFollows, Counted, FaultsSeen, TransientFaultsAbsorbed,
         Asking, Ended
<1>2. /\ IInv /\ IInv' /\ CallFollows /\ Counted /\ FaultsSeen
      /\ [CycleNext]_cycleVars
      => CallFollows' /\ Counted' /\ FaultsSeen'
  BY CallFollowsStep, CountedStep, FaultsSeenStep
<1>3. FaultsSeen => TransientFaultsAbsorbed
  BY DEF FaultsSeen
<1>4. QED
  BY CycleRunsEngine, Invariant, <1>1, <1>2, <1>3, PTL DEF CycleSpec

-----------------------------------------------------------------------------
(***************************************************************************)
(* The exception that ended a cycle, and the types of all variables.       *)
(***************************************************************************)
ErrorNamed ==
  /\ error \in ErrorCode
  /\ error # NoError <=> phase \in Ended \ {"returned"}

(* Every fault has the code of a domain error. *)
LEMMA FaultHasCode ==
  ASSUME NEW f \in Fault
  PROVE  Shielded(f) \in ErrorCode /\ Shielded(f) # NoError
<1>1. Shielded(f) \in ErrorCode
  BY DEF Fault, ErrorCode
<1>2. Shielded(f) # NoError
  BY DEF Fault, Transient, Permanent, Shielded, NoError
<1>3. QED
  BY <1>1, <1>2

(* An exception leaves run() with its code, and nothing else sets one      *)
(* (llm_retry.py, llm_parser.py, loop.py).                                 *)
LEMMA ErrorNamedStep ==
  ASSUME IInv, CallFollows, ErrorNamed, [CycleNext]_cycleVars
  PROVE  ErrorNamed'
<1>0. /\ call.wire # "idle" <=> phase \in Asking
      /\ error \in ErrorCode /\ (phase \notin Ended => error = NoError)
  BY DEF CallFollows, ErrorNamed
<1>1. CASE EngineMoves \/ Completion
  <2>1. phase \notin Ended /\ phase' # "llm_error"
    BY <1>1, EngineCourse DEF EngineMoves, Completion, Goes, Ended
  <2>2. /\ error = NoError
        /\ error' = IF phase' \in {"argument_clash", "invalid_reply"}
                    THEN "INTERNAL_SERVER_ERROR" ELSE error
    BY <1>0, <1>1, <2>1 DEF EngineMoves, Completion, ReportsOwnError
  <2>3. "INTERNAL_SERVER_ERROR" \in ErrorCode /\ NoError \in ErrorCode
        /\ "INTERNAL_SERVER_ERROR" # NoError
    BY DEF ErrorCode, UnusableCode, NoError
  <2>4. QED
    BY <2>1, <2>2, <2>3 DEF ErrorNamed, Ended
<1>2. CASE UnusableCompletion
  <2>1. phase \notin Ended
        /\ \/ phase' = "llm_error" /\ error' \in UnusableCode
           \/ phase' = "returned" /\ error' = error
    BY <1>2, EngineCourse DEF UnusableCompletion, Goes, Ended
  <2>2. UnusableCode \subseteq ErrorCode /\ NoError \notin UnusableCode
    BY DEF ErrorCode, UnusableCode, NoError
  <2>3. QED
    BY <1>0, <2>1, <2>2 DEF ErrorNamed, Ended
<1>3. ASSUME NEW f \in Fault, GiveUp(f)
      PROVE  ErrorNamed'
  <2>1. phase \notin Ended
        /\ \/ phase' = "llm_error" /\ error' = Shielded(f)
           \/ phase' = "returned" /\ error' = error
    BY <1>3, EngineCourse DEF GiveUp, Goes, Ended
  <2>2. QED
    BY <1>0, <2>1, FaultHasCode DEF ErrorNamed, Ended
<1>4. CASE \/ \E f \in Fault : Backoff(f)
           \/ Retry \/ HiddenRetry \/ UNCHANGED cycleVars
  <2>1. UNCHANGED <<vars, error>>
    BY <1>4 DEF Backoff, Retry, HiddenRetry, cycleVars, clientVars
  <2>2. QED
    BY <2>1 DEF ErrorNamed, vars
<1>5. QED
  BY <1>1, <1>2, <1>3, <1>4 DEF CycleNext, Fault

(* Every variable of the cycle has its type, a call is under way exactly   *)
(* while the engine awaits the model, and an error code is there exactly   *)
(* when an exception ended the run (llm_client.py, llm_retry.py).          *)
THEOREM CycleTypeCorrect == CycleSpec => []CycleTypeOK
<1> DEFINE Known == message \in Messages
<1>1. CycleInit => Accounted /\ Counted /\ ErrorNamed /\ Known
  <2> SUFFICES ASSUME CycleInit PROVE Accounted /\ Counted /\ ErrorNamed /\ Known
    OBVIOUS
  <2>1. phase = "start" /\ sent = 0 /\ call = NoCall /\ session.iteration_count = 0
    BY DEF CycleInit, NewSession
  <2>2. Accounted
    BY <2>1, CallConstants DEF Accounted, CallFollows, Spent, Asking, Ended
  <2>3. Counted /\ ErrorNamed
    BY DEF CycleInit, Counted, ErrorNamed, ErrorCode, NoError, Ended
  <2>4. QED
    BY <2>2, <2>3 DEF CycleInit
<1>2. /\ IInv /\ IInv' /\ BudgetKept /\ Accounted /\ Counted /\ ErrorNamed
      /\ [CycleNext]_cycleVars
      => Accounted' /\ Counted' /\ ErrorNamed'
  BY CallFollowsStep, SpentStep, CountedStep, ErrorNamedStep DEF Accounted
<1>3. Known /\ [CycleNext]_cycleVars => Known'
  BY DEF CycleNext, EngineMoves, HiddenRetry, Backoff, GiveUp, Retry, Completion,
         UnusableCompletion, cycleVars
<1>4. IInv /\ Accounted /\ Counted /\ ErrorNamed /\ Known => CycleTypeOK
  <2> SUFFICES ASSUME IInv, Accounted, Counted, ErrorNamed, Known
               PROVE  CycleTypeOK
    OBVIOUS
  <2>1. /\ call \in Call /\ sent \in Nat
        /\ call.wire # "idle" <=> phase \in {"ask_model", "synthesize"}
    BY DEF Accounted, CallFollows, Asking
  <2>2. received \in [turns: Nat, drafts: Nat]
    BY DEF Counted
  <2>3. /\ error \in ErrorCode
        /\ error # NoError <=> phase \in Ended \ {"returned"}
    BY DEF ErrorNamed
  <2>4. /\ TypeOK
        /\ Call = [wire: {"idle", "in_flight", "backoff"}, attempt: 0..MaxRetries,
                   hidden: 0..HiddenRetries, faults: Seq(Transient \cup Permanent)]
    BY DEF IInv, Call, Fault
  <2> HIDE DEF Call
  <2>5. QED
    BY <2>1, <2>2, <2>3, <2>4 DEF CycleTypeOK
<1> HIDE DEF Known
<1>5. QED
  BY CycleRunsEngine, Invariant, BudgetSafe, <1>1, <1>2, <1>3, <1>4, PTL DEF CycleSpec

-----------------------------------------------------------------------------
(***************************************************************************)
(* What the intake makes of a message: when it is screened, and what more  *)
(* of the same changes.                                                    *)
(***************************************************************************)
Screened(m) == m.threat \/ ClassifyText(m).intent = "OUT_OF_SCOPE"

AsksForNothing(m) == m.kinds = {} /\ Cardinality(AllOrderIds(m)) < 2

(* The kinds of demand, the families and the order ids of a message are    *)
(* finitely many.                                                          *)
LEMMA MessageIsFinite ==
  ASSUME NEW m \in Message
  PROVE  /\ IsFiniteSet(m.kinds) /\ IsFiniteSet(ActiveFamilies(m))
         /\ IsFiniteSet(AllOrderIds(m))
<1>1. IsFiniteSet(Families) /\ IsFiniteSet(OrderIntent)
  <2>1. /\ IsFiniteSet({"ORDER_STATUS", "DELIVERY_DELAY"})
        /\ IsFiniteSet({"REFUND_REQUEST"}) /\ IsFiniteSet({"ORDER_INFORMATION"})
    <3>1. IsFiniteSet({"ORDER_STATUS"} \cup {"DELIVERY_DELAY"})
      BY FS_Singleton, FS_Union
    <3>2. {"ORDER_STATUS"} \cup {"DELIVERY_DELAY"} = {"ORDER_STATUS", "DELIVERY_DELAY"}
      OBVIOUS
    <3>3. QED
      BY <3>1, <3>2, FS_Singleton
  <2> DEFINE a == {"ORDER_STATUS", "DELIVERY_DELAY"}
             b == {"REFUND_REQUEST"}
             c == {"ORDER_INFORMATION"}
  <2>2. IsFiniteSet({a} \cup {b} \cup {c})
    <3> HIDE DEF a, b, c
    <3>1. IsFiniteSet({a}) /\ IsFiniteSet({b}) /\ IsFiniteSet({c})
      BY FS_Singleton
    <3>2. IsFiniteSet({a} \cup {b})
      BY <3>1, FS_Union
    <3>3. QED
      BY <3>1, <3>2, FS_Union
  <2>3. Families = {a} \cup {b} \cup {c}
    <3> HIDE DEF a, b, c
    <3>1. Families = {a, b, c}
      BY DEF Families, a, b, c
    <3>2. QED
      BY <3>1
  <2>4. \A f \in Families : IsFiniteSet(f)
    BY <2>1 DEF Families
  <2>5. IsFiniteSet(Families)
    BY <2>2, <2>3
  <2>6. QED
    BY <2>4, <2>5, FS_UNION DEF OrderIntent
<1>2. m.kinds \in SUBSET OrderIntent /\ ActiveFamilies(m) \in SUBSET Families
      /\ m.orders \in Seq(OrderIds)
  BY DEF Message, ActiveFamilies
<1>3. IsFiniteSet(AllOrderIds(m))
  <2>1. /\ DOMAIN m.orders = 1..Len(m.orders) /\ Len(m.orders) \in Nat
        /\ m.orders \in [1..Len(m.orders) -> OrderIds]
    BY <1>2
  <2>2. m.orders \in Surjection(1..Len(m.orders), AllOrderIds(m))
    <3>1. m.orders \in [1..Len(m.orders) -> AllOrderIds(m)]
      BY <2>1 DEF AllOrderIds
    <3>2. \A x \in AllOrderIds(m) : \E i \in 1..Len(m.orders) : m.orders[i] = x
      BY <2>1 DEF AllOrderIds
    <3>3. QED
      BY <3>1, <3>2 DEF Surjection
  <2>3. IsFiniteSet(1..Len(m.orders))
    BY <2>1, FS_Interval
  <2>4. QED
    BY <2>2, <2>3, FS_Surjection
<1>4. QED
  BY <1>1, <1>2, <1>3, FS_Subset

(* What a message asks for, before its order is looked at.                 *)
LEMMA CandidateOfMessage ==
  ASSUME NEW m \in Message
  PROVE  /\ CandidateIntent(m) \in OrderIntent \cup {"MIXED_QUERY", "OUT_OF_SCOPE"}
         /\ CandidateIntent(m) = "OUT_OF_SCOPE" <=> AsksForNothing(m)
<1>1. /\ Cardinality(m.kinds) \in Nat /\ (Cardinality(m.kinds) = 0 <=> m.kinds = {})
      /\ Cardinality(AllOrderIds(m)) \in Nat
      /\ Cardinality(ActiveFamilies(m)) \in Nat
  BY MessageIsFinite, FS_CardinalityType, FS_EmptySet
<1>2. m.kinds \subseteq OrderIntent
  BY DEF Message
<1>3. OrderIntent = {"ORDER_STATUS", "DELIVERY_DELAY", "REFUND_REQUEST", "ORDER_INFORMATION"}
  BY DEF OrderIntent, Families
<1>4. m.kinds = {} => (IsMixed(m) <=> Cardinality(AllOrderIds(m)) > 1)
  <2>1. m.kinds = {} => ActiveFamilies(m) = {}
    BY DEF ActiveFamilies
  <2>2. m.kinds = {} => Cardinality(ActiveFamilies(m)) = 0
    BY <2>1, FS_EmptySet
  <2>3. QED
    BY <1>1, <2>2 DEF IsMixed
<1>5. CASE IsMixed(m)
  <2>1. CandidateIntent(m) = "MIXED_QUERY"
    BY <1>5 DEF CandidateIntent
  <2>2. QED
    BY <1>1, <1>4, <1>5, <2>1 DEF AsksForNothing
<1>6. CASE ~IsMixed(m) /\ m.kinds = {}
  <2>1. CandidateIntent(m) = "OUT_OF_SCOPE"
    BY <1>1, <1>6 DEF CandidateIntent
  <2>2. QED
    BY <1>1, <1>4, <1>6, <2>1 DEF AsksForNothing
<1>7. CASE ~IsMixed(m) /\ m.kinds # {}
  <2>1. Cardinality(m.kinds) = 1 \/ Cardinality(m.kinds) > 1
    BY <1>1, <1>7
  <2>2. (CHOOSE k \in m.kinds : TRUE) \in m.kinds
    BY <1>7
  <2>3. CandidateIntent(m) \in OrderIntent
    <3>1. CASE Cardinality(m.kinds) = 1
      <4>1. CandidateIntent(m) = CHOOSE k \in m.kinds : TRUE
        BY <1>7, <3>1 DEF CandidateIntent
      <4>2. QED
        BY <1>2, <2>2, <4>1
    <3>2. CASE Cardinality(m.kinds) > 1
      <4>1. CandidateIntent(m) \in {"DELIVERY_DELAY", "ORDER_STATUS"}
        BY <1>1, <1>7, <3>2 DEF CandidateIntent
      <4>2. QED
        BY <1>3, <4>1
    <3>3. QED
      BY <2>1, <3>1, <3>2
  <2>4. QED
    BY <1>3, <1>7, <2>3 DEF AsksForNothing
<1>8. QED
  BY <1>5, <1>6, <1>7

(* A message is screened exactly when it threatens or asks for nothing     *)
(* (pre_extraction.py lines 147-199).                                      *)
LEMMA ScreeningOfMessage ==
  ASSUME NEW m \in Message
  PROVE  /\ Screened(m) <=> m.threat \/ AsksForNothing(m)
         /\ Processed(m) <=> ~m.threat /\ ~AsksForNothing(m) /\ m.orders # <<>>
         /\ ClassifyText(m).threat = m.threat
<1>1. m.threat \in BOOLEAN /\ m.orders \in Seq(OrderIds)
  BY DEF Message
<1>2. OrderIntent = {"ORDER_STATUS", "DELIVERY_DELAY", "REFUND_REQUEST", "ORDER_INFORMATION"}
  BY DEF OrderIntent, Families
<1>3. NeedsOrder(CandidateIntent(m)) <=> ~AsksForNothing(m)
  BY <1>2, CandidateOfMessage DEF NeedsOrder
<1>4. ExtractOrderId(m) = NoOrderId <=> m.orders = <<>>
  BY <1>1, IntakeAssumption DEF ExtractOrderId
<1>5. /\ ClassifyText(m).threat = m.threat
      /\ ClassifyText(m).intent =
           CASE m.threat -> "OUT_OF_SCOPE"
             [] ~m.threat /\ NeedsOrder(CandidateIntent(m)) /\ ExtractOrderId(m) = NoOrderId ->
                  "INFORMATION_MISSING"
             [] OTHER -> CandidateIntent(m)
  BY DEF ClassifyText
<1> DEFINE intent == ClassifyText(m).intent
           candidate == CandidateIntent(m)
<1>6. /\ candidate = "OUT_OF_SCOPE" <=> AsksForNothing(m)
      /\ candidate # "INFORMATION_MISSING"
  BY <1>2, CandidateOfMessage
<1> HIDE DEF candidate
<1>7. intent = IF m.threat THEN "OUT_OF_SCOPE"
               ELSE IF ~AsksForNothing(m) /\ m.orders = <<>> THEN "INFORMATION_MISSING"
               ELSE candidate
  BY <1>1, <1>3, <1>4, <1>5 DEF candidate
<1> HIDE DEF intent
<1>8. /\ intent = "OUT_OF_SCOPE" <=> m.threat \/ AsksForNothing(m)
      /\ intent \notin {"OUT_OF_SCOPE", "INFORMATION_MISSING"} <=>
           ~m.threat /\ ~AsksForNothing(m) /\ m.orders # <<>>
  BY <1>6, <1>7
<1>9. QED
  BY <1>5, <1>8 DEF Screened, Processed, intent

(* A message that is processed stays so when it says more of the same      *)
(* (pre_extraction.py lines 147-199).                                      *)
LEMMA MoreIsProcessed ==
  ASSUME NEW m \in Message, NEW n \in Message, Processed(m), SaysMore(m, n)
  PROVE  Processed(n)
<1>1. ~m.threat /\ ~AsksForNothing(m) /\ m.orders # <<>>
  BY ScreeningOfMessage
<1>2. AllOrderIds(m) \in SUBSET AllOrderIds(n) /\ m.kinds \subseteq n.kinds /\ n.threat = m.threat
  BY DEF SaysMore
<1>3. Cardinality(AllOrderIds(m)) <= Cardinality(AllOrderIds(n))
      /\ Cardinality(AllOrderIds(m)) \in Nat /\ Cardinality(AllOrderIds(n)) \in Nat
  BY <1>2, MessageIsFinite, FS_Subset, FS_CardinalityType
<1>4. ~AsksForNothing(n)
  BY <1>1, <1>2, <1>3 DEF AsksForNothing
<1>5. n.orders # <<>>
  <2>1. m.orders \in Seq(OrderIds) /\ n.orders \in Seq(OrderIds)
    BY DEF Message
  <2>2. m.orders[1] \in AllOrderIds(m)
    BY <1>1, <2>1 DEF AllOrderIds
  <2>3. m.orders[1] \in AllOrderIds(n)
    BY <1>2, <2>2
  <2>4. QED
    BY <2>1, <2>3 DEF AllOrderIds
<1>6. QED
  BY <1>1, <1>2, <1>4, <1>5, ScreeningOfMessage

(***************************************************************************)
(* The engine runs on what the intake made of the message, and only a      *)
(* screened one ends without a request.                                    *)
(***************************************************************************)
Screening ==
  /\ message \in Messages /\ sent \in Nat
  /\ session.extracted_demand = ClassifyText(message)
  /\ phase = "start" => sent = 0
  /\ phase # "start" => (sent = 0 <=> Screened(message))

(* No step changes the demand.                                             *)
LEMMA DemandKept ==
  ASSUME IInv, [Next]_vars
  PROVE  session'.extracted_demand = session.extracted_demand
<1>1. CASE Begin
  BY <1>1, BeginEffect DEF Kept
<1>2. CASE ModelIsDone \/ ModelCallsTools
  BY <1>2, AskingAdvances DEF Kept, ModelIsDone, ModelCallsTools, ModelAnswers
<1>3. CASE ModelExceedsCeiling
  BY <1>3, ModelExceedsCeilingEffect DEF Kept
<1>4. CASE ToolReturns
  BY <1>4, ToolReturnsEffect
<1>5. CASE SynthesisReturns \/ SynthesisFails
  BY <1>5, SynthesisReturnsEffect, SynthesisFailsEffect DEF Concluded, Kept
<1>6. CASE ModelFails \/ ToolCallClashes \/ Terminated \/ UNCHANGED vars
  BY <1>6 DEF ModelFails, ToolCallClashes, Terminated, vars
<1>7. QED
  BY <1>1, <1>2, <1>3, <1>4, <1>5, <1>6 DEF Next

(* The first segment of a run asks the model, unless the demand is         *)
(* screened; later steps of a cycle only add requests (loop.py lines 77-97 *)
(* and 109).                                                               *)
LEMMA ScreeningStep ==
  ASSUME IInv, CallFollows, ScreenedDemandsAreFree, Screening, [Next]_vars,
         [CycleNext]_cycleVars
  PROVE  Screening'
<1>1. message' = message /\ sent' \in {sent, sent + 1}
  BY DEF CycleNext, EngineMoves, ReachesAwait, HiddenRetry, Backoff, GiveUp, Retry, Completion,
         UnusableCompletion, cycleVars, clientVars
<1>2. session'.extracted_demand = session.extracted_demand
  BY DemandKept
<1>3. sent \in Nat /\ message \in Message
  BY CycleAssumption DEF Screening
<1>4. phase' # "start" \/ UNCHANGED <<phase, sent>>
  <2>1. CASE EngineMoves \/ Completion \/ UnusableCompletion \/ \E f \in Fault : GiveUp(f)
    BY <2>1, EngineCourse DEF EngineMoves, Completion, UnusableCompletion, GiveUp, Goes
  <2>2. CASE HiddenRetry \/ Retry \/ \E f \in Fault : Backoff(f)
    BY <2>2 DEF HiddenRetry, Retry, Backoff, InFlight, CallFollows, Asking, vars
  <2>3. CASE UNCHANGED cycleVars
    BY <2>3 DEF cycleVars, clientVars, vars
  <2>4. QED
    BY <2>1, <2>2, <2>3 DEF CycleNext, Fault
<1>5. Screened(message) <=> \/ session.extracted_demand.threat
                            \/ session.extracted_demand.intent = "OUT_OF_SCOPE"
  BY <1>3, ScreeningOfMessage DEF Screening, Screened
<1>6. CASE Begin /\ EngineMoves
  <2>1. phase = "start" /\ sent = 0
    BY <1>6 DEF Begin, Screening
  <2>2. Screened(message) <=> phase' = "returned"
    BY <1>5, <1>6 DEF Begin, EscalateDemand, Return
  <2>3. phase' \in {"ask_model", "returned"}
    BY <1>6, EngineCourse DEF Goes
  <2>4. sent' = IF phase' = "ask_model" THEN 1 ELSE 0
    BY <1>6, <2>1, <2>3 DEF EngineMoves, ReachesAwait
  <2>5. QED
    BY <1>1, <1>2, <2>2, <2>3, <2>4 DEF Screening, Screened
<1>7. CASE phase # "start" /\ UNCHANGED <<phase, sent>>
  BY <1>1, <1>2, <1>7 DEF Screening, Screened
<1>8. CASE phase \notin {"start", "returned"}
  <2>1. ~Screened(message) /\ sent > 0
    BY <1>3, <1>5, <1>8 DEF ScreenedDemandsAreFree, Screening
  <2>2. sent' > 0 /\ sent' \in Nat
    BY <1>1, <1>3, <2>1
  <2>3. phase' # "start"
    BY <1>4, <1>8
  <2>4. QED
    BY <1>1, <1>2, <2>1, <2>2, <2>3 DEF Screening, Screened
<1>9. QED
  <2>1. CASE phase = "start" /\ UNCHANGED <<phase, sent>>
    BY <1>1, <1>2, <2>1 DEF Screening
  <2>2. ASSUME phase \in {"start", "returned"}, ~UNCHANGED <<phase, sent>>
        PROVE  Begin /\ EngineMoves
    <3>1. CASE EngineMoves \/ Completion \/ UnusableCompletion \/ \E f \in Fault : GiveUp(f)
      BY <2>2, <3>1, EngineCourse
         DEF EngineMoves, Completion, UnusableCompletion, GiveUp, Goes, InFlight, CallFollows,
             Asking
    <3>2. CASE HiddenRetry \/ Retry \/ \E f \in Fault : Backoff(f)
      BY <2>2, <3>2 DEF HiddenRetry, Retry, Backoff, InFlight, CallFollows, Asking
    <3>3. CASE UNCHANGED cycleVars
      BY <2>2, <3>3 DEF cycleVars, clientVars, vars
    <3>4. QED
      BY <3>1, <3>2, <3>3 DEF CycleNext, Fault
  <2>3. QED
    BY <1>6, <1>7, <1>8, <2>1, <2>2

(* A customer who asks for something the shop handles is not turned away   *)
(* unread: a message that is processed reaches the model and stays so when *)
(* it says more of the same, and a threat, or a message that asks for      *)
(* nothing and quotes at most one order, costs no request                  *)
(* (pre_extraction.py lines 147-199, loop.py lines 77-97).                 *)
THEOREM DemandsAreHeard == CycleSpec => []NoDemandTurnedAway
<1>1. CycleInit => CallFollows /\ Screening
  <2> SUFFICES ASSUME CycleInit PROVE CallFollows /\ Screening
    OBVIOUS
  <2>1. /\ phase = "start" /\ sent = 0 /\ call = NoCall /\ message \in Messages
        /\ session.extracted_demand = ClassifyText(message)
    BY DEF CycleInit, NewSession
  <2>2. QED
    BY <2>1, CallConstants DEF CallFollows, Screening, Asking
<1>2. /\ IInv /\ CallFollows /\ ScreenedDemandsAreFree /\ Screening /\ [Next]_vars
      /\ [CycleNext]_cycleVars
      => CallFollows' /\ Screening'
  BY CallFollowsStep, ScreeningStep
<1>3. Screening => NoDemandTurnedAway
  <2> SUFFICES ASSUME Screening PROVE NoDemandTurnedAway
    OBVIOUS
  <2>1. message \in Message /\ \A n \in Messages : n \in Message
    BY CycleAssumption DEF Screening
  <2>2. phase # "start" =>
          /\ Processed(message) => sent # 0
          /\ message.threat \/ AsksForNothing(message) => sent = 0
    BY <2>1, ScreeningOfMessage DEF Screening
  <2>3. Processed(message) => \A n \in Messages : SaysMore(message, n) => Processed(n)
    BY <2>1, MoreIsProcessed
  <2>4. QED
    BY <2>2, <2>3 DEF NoDemandTurnedAway, AsksForNothing
<1>4. QED
  BY CycleRunsEngine, Invariant, ScreenedSafe, <1>1, <1>2, <1>3, PTL DEF CycleSpec, Spec

-----------------------------------------------------------------------------
(***************************************************************************)
(* How much longer a cycle can last: an attempt has its repetitions, a     *)
(* sleep and the next request; a step of the engine may start a call.      *)
(***************************************************************************)
TrySteps == HiddenRetries + 2

CallSteps == MaxRetries * TrySteps

CallLeft ==
  CASE call.wire = "in_flight" ->
         (MaxRetries - call.attempt) * TrySteps + (HiddenRetries - call.hidden) + 1
    [] call.wire = "backoff"   -> (MaxRetries - call.attempt) * TrySteps
    [] call.wire = "idle"      -> 0

CycleLeft == StepsLeft * CallSteps + CallLeft

(* What is left of a call, in any of its states, and after a step.         *)
LEMMA CallLeftRead ==
  /\ call.wire = "in_flight" => CallLeft =
       (MaxRetries - call.attempt) * TrySteps + (HiddenRetries - call.hidden) + 1
  /\ call.wire = "backoff" => CallLeft = (MaxRetries - call.attempt) * TrySteps
  /\ call.wire = "idle" => CallLeft = 0
  /\ call'.wire = "in_flight" => CallLeft' =
       (MaxRetries - call'.attempt) * TrySteps + (HiddenRetries - call'.hidden) + 1
  /\ call'.wire = "backoff" => CallLeft' = (MaxRetries - call'.attempt) * TrySteps
  /\ call'.wire = "idle" => CallLeft' = 0
BY DEF CallLeft, TrySteps

(* The attempts left, and what they cost.                                  *)
LEMMA AttemptsCost ==
  ASSUME NEW a \in 1..MaxRetries
  PROVE  /\ (MaxRetries - a) * TrySteps \in Nat
         /\ (MaxRetries - a) * TrySteps + TrySteps <= CallSteps
         /\ TrySteps \in Nat /\ CallSteps \in Nat
         /\ a < MaxRetries => (MaxRetries - a) * TrySteps =
                               (MaxRetries - (a + 1)) * TrySteps + TrySteps
<1>1. /\ MaxRetries \in Nat /\ TrySteps \in Nat /\ a \in Nat
      /\ MaxRetries - a \in Nat /\ (MaxRetries - a) + 1 \in Nat
      /\ (MaxRetries - a) + 1 <= MaxRetries
  BY CycleAssumption DEF TrySteps
<1> HIDE DEF TrySteps
<1>2. /\ (MaxRetries - a) * TrySteps \in Nat
      /\ ((MaxRetries - a) + 1) * TrySteps = (MaxRetries - a) * TrySteps + TrySteps
  BY <1>1, ProductMonotone
<1>3. ((MaxRetries - a) + 1) * TrySteps <= CallSteps /\ CallSteps \in Nat
  BY <1>1, ProductMonotone DEF CallSteps
<1>4. ASSUME a < MaxRetries
      PROVE  (MaxRetries - a) * TrySteps = (MaxRetries - (a + 1)) * TrySteps + TrySteps
  <2>1. MaxRetries - (a + 1) \in Nat /\ (MaxRetries - (a + 1)) + 1 = MaxRetries - a
    BY <1>1, <1>4
  <2>2. ((MaxRetries - (a + 1)) + 1) * TrySteps =
          (MaxRetries - (a + 1)) * TrySteps + TrySteps
    BY <1>1, <2>1, ProductMonotone
  <2>3. QED
    BY <2>1, <2>2
<1>5. QED
  BY <1>1, <1>2, <1>3, <1>4

(* A call never has more left than a step of the engine is worth.          *)
LEMMA CallLeftBounded ==
  ASSUME CallFollows
  PROVE  CallLeft \in Nat /\ CallLeft < CallSteps
<1>1. /\ call \in Call /\ MaxRetries \in Nat \ {0} /\ HiddenRetries \in Nat
      /\ call.hidden \in 0..HiddenRetries /\ TrySteps = HiddenRetries + 2
  BY CycleAssumption DEF CallFollows, Call, TrySteps
<1>2. CASE call.wire = "idle"
  <2>1. 1 \in 1..MaxRetries
    BY <1>1
  <2>2. /\ (MaxRetries - 1) * TrySteps \in Nat /\ TrySteps \in Nat /\ CallSteps \in Nat
        /\ (MaxRetries - 1) * TrySteps + TrySteps <= CallSteps
    BY <2>1, AttemptsCost
  <2>3. CallLeft = 0 /\ TrySteps > 0
    BY <1>1, <1>2, CallLeftRead
  <2>4. QED
    BY <2>2, <2>3
<1>3. CASE call.wire # "idle"
  <2>1. call.attempt \in 1..MaxRetries
    BY <1>1, <1>3 DEF CallFollows, Call
  <2>2. /\ (MaxRetries - call.attempt) * TrySteps \in Nat /\ CallSteps \in Nat
        /\ (MaxRetries - call.attempt) * TrySteps + TrySteps <= CallSteps
    BY <2>1, AttemptsCost
  <2>3. /\ HiddenRetries - call.hidden \in Nat
        /\ (HiddenRetries - call.hidden) + 1 < TrySteps /\ TrySteps \in Nat
    BY <1>1
  <2>4. \/ CallLeft = (MaxRetries - call.attempt) * TrySteps
        \/ CallLeft = (MaxRetries - call.attempt) * TrySteps + (HiddenRetries - call.hidden) + 1
    BY <1>1, <1>3, CallLeftRead DEF Call
  <2>5. QED
    BY <2>2, <2>3, <2>4
<1>4. QED
  BY <1>2, <1>3

(* Two numbers, the second below k, read as one: it drops with the first,  *)
(* and with the second while the first stays.                              *)
LEMMA PairDrops ==
  ASSUME NEW k \in Nat, NEW s \in Nat, NEW t \in Nat, NEW c \in Nat, NEW d \in Nat
  PROVE  /\ s < t /\ c < k => s * k + c < t * k + d
         /\ c < d => t * k + c < t * k + d
<1>1. s * k \in Nat /\ t * k \in Nat
  BY ProductMonotone
<1>2. s < t => s * k + k <= t * k
  <2> SUFFICES ASSUME s < t PROVE s * k + k <= t * k
    OBVIOUS
  <2>1. s + 1 \in Nat /\ s + 1 <= t
    OBVIOUS
  <2>2. (s + 1) * k <= t * k /\ (s + 1) * k = s * k + k
    BY <2>1, ProductMonotone
  <2>3. QED
    BY <2>2
<1>3. QED
  BY <1>1, <1>2

(* A step of the client within a call uses up some of the call, a step of  *)
(* the engine some of the run (llm_retry.py, loop.py).                     *)
LEMMA CycleStepTaken ==
  ASSUME IInv, BudgetKept, StepsLeft \in Nat, StepsLeft' \in Nat,
         CallFollows, CallFollows', CycleNext
  PROVE  CycleLeft' < CycleLeft
<1>1. /\ CallLeft \in Nat /\ CallLeft' \in Nat
      /\ CallLeft < CallSteps /\ CallLeft' < CallSteps /\ CallSteps \in Nat
  <2>1. CallLeft \in Nat /\ CallLeft < CallSteps
    BY CallLeftBounded
  <2>2. (CallLeft \in Nat /\ CallLeft < CallSteps)'
    BY CallLeftBounded, PTL
  <2>3. CallSteps' = CallSteps /\ CallSteps \in Nat
    BY CycleAssumption DEF CallSteps, TrySteps
  <2>4. QED
    BY <2>1, <2>2, <2>3
<1>2. CycleLeft' = StepsLeft' * CallSteps + CallLeft'
  BY DEF CycleLeft, CallSteps, TrySteps
<1>3. ASSUME StepsLeft' < StepsLeft
      PROVE  CycleLeft' < CycleLeft
  BY <1>1, <1>2, <1>3, PairDrops, Zenon DEF CycleLeft
<1>4. ASSUME UNCHANGED vars, CallLeft' < CallLeft
      PROVE  CycleLeft' < CycleLeft
  <2>1. StepsLeft' = StepsLeft
    BY <1>4 DEF vars, StepsLeft, RoundsLeft
  <2>2. StepsLeft * CallSteps + CallLeft' < StepsLeft * CallSteps + CallLeft
    BY <1>1, <1>4, PairDrops, Zenon
  <2>3. QED
    BY <1>2, <2>1, <2>2, Zenon DEF CycleLeft
<1>5. ASSUME \/ Begin \/ ToolReturns \/ ToolCallClashes
             \/ ModelIsDone \/ ModelExceedsCeiling \/ ModelCallsTools \/ ModelFails
             \/ SynthesisReturns \/ SynthesisFails
      PROVE  CycleLeft' < CycleLeft
  <2>1. Next
    BY <1>5 DEF Next
  <2>2. phase \notin Ended
    BY <1>5, EngineCourse DEF Goes, Ended
  <2>3. QED
    BY <1>3, <2>1, <2>2, StepTaken DEF Terminated
<1>6. CASE EngineMoves \/ Completion \/ UnusableCompletion
  BY <1>5, <1>6 DEF EngineMoves, Completion, UnusableCompletion
<1>7. ASSUME NEW f \in Fault, GiveUp(f) PROVE CycleLeft' < CycleLeft
  BY <1>5, <1>7 DEF GiveUp
<1> DEFINE a == call.attempt
<1>8. call.wire # "idle" => a \in 1..MaxRetries
  BY DEF CallFollows, Call
<1>9. /\ HiddenRetries \in Nat /\ call.hidden \in 0..HiddenRetries
      /\ TrySteps = HiddenRetries + 2
  BY CycleAssumption DEF CallFollows, Call, TrySteps
<1>10. ASSUME NEW f \in Fault, Backoff(f) PROVE CycleLeft' < CycleLeft
  <2>1. /\ call.wire = "in_flight" /\ call'.wire = "backoff" /\ call'.attempt = a
        /\ UNCHANGED vars
    BY <1>10, BackoffCall
  <2>2. (MaxRetries - a) * TrySteps \in Nat
    BY <1>8, <2>1, AttemptsCost
  <2>3. /\ CallLeft = (MaxRetries - a) * TrySteps + (HiddenRetries - call.hidden) + 1
        /\ CallLeft' = (MaxRetries - a) * TrySteps
    BY <2>1, CallLeftRead
  <2>4. HiddenRetries - call.hidden \in Nat
    BY <1>9
  <2>5. CallLeft' < CallLeft
    BY <2>2, <2>3, <2>4
  <2>6. QED
    BY <1>4, <2>1, <2>5
<1>11. CASE Retry
  <2>1. /\ call.wire = "backoff" /\ a < MaxRetries /\ call'.wire = "in_flight"
        /\ call'.attempt = a + 1 /\ call'.hidden = 0 /\ UNCHANGED vars
    BY <1>11, RetryCall
  <2>2. a + 1 \in 1..MaxRetries
    BY <1>8, <2>1, CycleAssumption
  <2>3. /\ (MaxRetries - a) * TrySteps = (MaxRetries - (a + 1)) * TrySteps + TrySteps
        /\ (MaxRetries - (a + 1)) * TrySteps \in Nat
    BY <1>8, <2>1, <2>2, AttemptsCost
  <2>4. /\ CallLeft = (MaxRetries - a) * TrySteps
        /\ CallLeft' = (MaxRetries - (a + 1)) * TrySteps + (HiddenRetries - 0) + 1
    BY <2>1, CallLeftRead
  <2>5. CallLeft' < CallLeft
    BY <1>9, <2>3, <2>4
  <2>6. QED
    BY <1>4, <2>1, <2>5
<1>12. CASE HiddenRetry
  <2>1. /\ call.wire = "in_flight" /\ call'.wire = "in_flight" /\ call'.attempt = a
        /\ call'.hidden = call.hidden + 1 /\ UNCHANGED vars
    BY <1>12, HiddenRetryCall
  <2>2. (MaxRetries - a) * TrySteps \in Nat
    BY <1>8, <2>1, AttemptsCost
  <2>3. /\ CallLeft = (MaxRetries - a) * TrySteps + (HiddenRetries - call.hidden) + 1
        /\ CallLeft' = (MaxRetries - a) * TrySteps + (HiddenRetries - (call.hidden + 1)) + 1
    BY <2>1, CallLeftRead
  <2>4. CallLeft' < CallLeft
    BY <1>9, <2>2, <2>3
  <2>5. QED
    BY <1>4, <2>1, <2>4
<1>13. QED
  BY <1>6, <1>7, <1>10, <1>11, <1>12 DEF CycleNext, Fault

(* Every cycle comes to an end: whatever the provider does, each step of   *)
(* the engine or of the client uses up some of a number that the limits    *)
(* on rounds, calls, attempts and repetitions bound (loop.py, llm_retry.py *)
(* lines 41-62).                                                           *)
THEOREM CyclesAreFinite ==
  CycleSpec => /\ [](CycleLeft \in 0..((MaxIterations * (MaxCalls + 1) + 4)
                                       * (MaxRetries * (HiddenRetries + 2))))
               /\ [][CycleLeft' < CycleLeft]_cycleVars
<1> DEFINE most == MaxIterations * (MaxCalls + 1) + 3
           inBounds == StepsLeft \in 0..most
<1>0. most \in Nat
  BY LoopAssumption
<1>1. CycleInit => CallFollows
  BY CallConstants DEF CycleInit, CallFollows, Asking
<1>2. IInv /\ CallFollows /\ [CycleNext]_cycleVars => CallFollows'
  BY CallFollowsStep
<1>3. IInv /\ BudgetKept /\ inBounds /\ inBounds' /\ CallFollows /\ CallFollows'
        /\ [CycleNext]_cycleVars
      => [CycleLeft' < CycleLeft]_cycleVars
  <2>1. inBounds => StepsLeft \in Nat
    BY <1>0
  <2>2. inBounds' => StepsLeft' \in Nat
    BY <1>0
  <2>3. QED
    BY <2>1, <2>2, CycleStepTaken
<1>4. inBounds /\ CallFollows
      => CycleLeft \in 0..((MaxIterations * (MaxCalls + 1) + 4)
                             * (MaxRetries * (HiddenRetries + 2)))
  <2> SUFFICES ASSUME inBounds, CallFollows
               PROVE  CycleLeft \in 0..((most + 1) * CallSteps)
    <3>1. MaxIterations * (MaxCalls + 1) \in Nat
      BY LoopAssumption
    <3>2. most + 1 = MaxIterations * (MaxCalls + 1) + 4
      BY <3>1
    <3>3. CallSteps = MaxRetries * (HiddenRetries + 2)
      BY DEF CallSteps, TrySteps
    <3>4. QED
      BY <3>2, <3>3
  <2>1. /\ CallLeft \in Nat /\ CallLeft < CallSteps /\ CallSteps \in Nat
    BY CallLeftBounded, CycleAssumption DEF CallSteps, TrySteps
  <2>2. StepsLeft \in Nat /\ StepsLeft + 1 <= most + 1 /\ StepsLeft + 1 \in Nat
        /\ most + 1 \in Nat
    BY <1>0
  <2> HIDE DEF most, CallSteps, CallLeft
  <2>3. /\ (StepsLeft + 1) * CallSteps <= (most + 1) * CallSteps
        /\ (StepsLeft + 1) * CallSteps = StepsLeft * CallSteps + CallSteps
        /\ StepsLeft * CallSteps \in Nat /\ (most + 1) * CallSteps \in Nat
    BY <2>1, <2>2, ProductMonotone
  <2>4. QED
    BY <2>1, <2>3 DEF CycleLeft
<1>5. CycleSpec => []inBounds
  BY CycleRunsEngine, RunsAreFinite, PTL
<1> HIDE DEF inBounds
<1>6. QED
  BY CycleRunsEngine, Invariant, BudgetSafe, <1>1, <1>2, <1>3, <1>4, <1>5, PTL
     DEF CycleSpec, Spec

=============================================================================
