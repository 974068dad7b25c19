--------------------------- MODULE MCToolRuntime ---------------------------
(* Calls of the owner and of another customer for one order, whose id      *)
(* reads like an error code, of an unknown tool, and with ill-typed        *)
(* arguments.  The calls are interchangeable.                              *)
EXTENDS ToolRuntime, TLC

CONSTANTS c1, c2, c3

MCCalls == {c1, c2, c3}
MCSymmetry == Permutations(MCCalls)

MCKeys == {"owner", "other", "unknown", "ill typed"}
MCOrderOf == [k \in MCKeys |-> "CMD-10500"]
MCSender == [k \in MCKeys |-> IF k = "other" THEN "bob" ELSE "alice"]

Order(version, defect) ==
  [owner |-> "alice", version |-> version, defect |-> defect]

MCPayloads ==
  {Order(1, ""), Order(2, ""), Order(3, "INVALID_ARGUMENTS"),
   [Order(4, "") EXCEPT !.owner = NoOwner]}

=============================================================================
