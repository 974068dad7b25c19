--------------------------- MODULE EngineOutline ----------------------------
(***************************************************************************)
(* The outline of one run of the engine as its caller sees it: where the   *)
(* coroutine is suspended, and how many rounds of tool calls it has        *)
(* completed.  ReActLoop is shown to follow it, and so is every request of *)
(* AgentService, whose engine is this outline and no more.                 *)
(***************************************************************************)
EXTENDS Naturals

CONSTANT MaxIterations      \* the ceiling on rounds

VARIABLES
  control,   \* "new", an await, or how the run ended
  rounds     \* completed rounds

outlineVars == <<control, rounds>>

Init == control = "new" /\ rounds = 0

Goes(from, to) == control \in from /\ control' = to

(* The run begins: it asks the model, or returns without asking. *)
Begin == Goes({"new"}, "model") \/ Goes({"new"}, "returned")

(* The model is asked, calls tools below the ceiling only, or is done. *)
CallTools == Goes({"model"}, "tools") /\ rounds < MaxIterations

StopAtCeiling == Goes({"model"}, "returned") /\ rounds >= MaxIterations

Finish == Goes({"model"}, "synthesis") \/ Goes({"synthesis"}, "returned")

CompleteRound == Goes({"tools"}, "model") /\ rounds' = rounds + 1

(* An exception ends the run at an await.  The process may die there, or   *)
(* before the caller has done with what the run returned.                  *)
Raise == Goes({"model", "tools", "synthesis"}, "raised")

Die == Goes({"model", "tools", "synthesis", "returned"}, "lost")

Next ==
  \/ CompleteRound
  \/ /\ Begin \/ CallTools \/ StopAtCeiling \/ Finish \/ Raise \/ Die
     /\ UNCHANGED rounds

Spec == Init /\ [][Next]_outlineVars

=============================================================================
