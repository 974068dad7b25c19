--------------------------- MODULE MCSupportCycle ---------------------------
(***************************************************************************)
(* A small instance of SupportCycle: every message that quotes no order,   *)
(* one, one twice or two (those with a threat up to one kind of demand),   *)
(* one result of the tools, drafts that are sure, unsure or ill-formed.    *)
(***************************************************************************)
EXTENDS SupportCycle

MCMessages ==
  {m \in [threat: BOOLEAN, offTopic: BOOLEAN, kinds: SUBSET OrderIntent,
          orders: {<<>>, <<1>>, <<1, 1>>, <<1, 2>>}] :
     m.threat => ~m.offTopic /\ Cardinality(m.kinds) < 2}

MCDemands == {ClassifyText(m) : m \in MCMessages}

MCSubjects == {PlainSentence}

MCResults ==
  {[success |-> FALSE, error_code |-> "ORDER_NOT_FOUND", data |-> <<>>]}

MCDrafts ==
  {[status |-> "RESOLVED_AUTOMATICALLY", reason |-> NoReason,
    confidence |-> c, subject |-> PlainSentence, body |-> SafeBody] :
     c \in {40, 90}}
  \cup
  {[status |-> "REQUIRES_HUMAN_REVIEW", reason |-> "blank",
    confidence |-> 90, subject |-> PlainSentence, body |-> SafeBody]}

=============================================================================
