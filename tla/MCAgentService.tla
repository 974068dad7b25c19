--------------------------- MODULE MCAgentService ---------------------------
(* Two requests with one session id, a screened one of another tenant with *)
(* the same session id, and one refused at the boundary.                   *)
EXTENDS AgentService

MCRequests == 1..4
MCKeys == {<<"a", "s">>, <<"b", "s">>}
MCKeyOf == [r \in MCRequests |-> IF r = 3 THEN <<"b", "s">> ELSE <<"a", "s">>]

=============================================================================
