------------------------- MODULE MCAuditRepository --------------------------
EXTENDS AuditRepository

MCRecords == 1..4
MCSessionOf == [r \in MCRecords |-> IF r = 4 THEN "other" ELSE "one"]

=============================================================================
