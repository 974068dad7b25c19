-------------------------- MODULE AuditRepository ---------------------------
(***************************************************************************)
(* The audit trail (src/persistence/repository.py): a record is inserted   *)
(* in PostgreSQL when the process has a connection, appended to a JSON     *)
(* Lines file, and kept in a list of the process; each of the two writes   *)
(* is shielded, so save never fails.  A query reads ONE of the three: the  *)
(* rows of the database if it returns any, else the file, else the list.   *)
(*                                                                         *)
(* PostgreSQL is external (modelled from src/persistence/postgres_client.py*)
(* and the statements above).  No error handler rolls back, so the first   *)
(* statement the server refuses leaves the one connection of the process   *)
(* in an aborted transaction: every later statement on it fails too.  A    *)
(* parameter the driver refuses never reaches the server: cur.execute      *)
(* raises, and the connection goes on working without that record.         *)
(***************************************************************************)
EXTENDS Integers, Sequences, SequencesExt

CONSTANTS
  Records,        \* audit records; one is saved at most once
  Sessions,       \* (session id, tenant) pairs
  SessionOf,      \* the pair a record belongs to
  Rejected,       \* records whose INSERT PostgreSQL refuses (a value too
                  \* long for its VARCHAR column, a NUL inside trace_data)
  Unsendable,     \* records whose parameters the driver refuses to send (a
                  \* NUL in a text column)
  MaxAuditFaults  \* bound on outages, failed appends and restarts, together

ASSUME AuditAssumption ==
  /\ SessionOf \in [Records -> Sessions]
  /\ Rejected \subseteq Records /\ Unsendable \subseteq Records
  /\ MaxAuditFaults \in Nat

VARIABLES
  rows,       \* committed rows of agent_audit_logs, oldest first
  pgUp,       \* PostgreSQL accepts connections
  conn,       \* _db_conn: "unset", "none", "open", or "failed" for good
  file,       \* lines of traces.jsonl
  list,       \* _in_memory_records
  auditFaults,
  saved,      \* history: records saved since the last clear
  unwritten,  \* history: records whose append to the file failed
  restarted   \* history: a process has ended

auditVars ==
  <<rows, pgUp, conn, file, list, auditFaults, saved, unwritten, restarted>>

AuditInit ==
  /\ rows = <<>> /\ file = <<>> /\ list = <<>>
  /\ pgUp \in BOOLEAN /\ conn = "unset"
  /\ auditFaults = 0
  /\ saved = {} /\ unwritten = {} /\ restarted = FALSE

\* Mutant: the state PostgreSQL was in is kept, not the connection.
ConnectionServer ==
  IF conn = "unset" THEN (IF pgUp THEN "up" ELSE "down") ELSE conn

(* _get_db(): one attempt to connect, on first use. *)
Connection == IF conn = "unset" THEN (IF pgUp THEN "open" ELSE "none") ELSE conn

CanInsert(record) == Connection = "open" /\ record \notin Rejected \cup Unsendable

\* Mutant: the transaction is rolled back and the connection used again.
StaysOpen(record) == Connection

(* An INSERT the server refuses leaves the transaction aborted, as nothing *)
(* rolls it back; one that is never sent leaves it as it was.              *)
ConnectionAfter(record) ==
  IF Connection = "open" /\ record \in Rejected \ Unsendable THEN "failed" ELSE Connection

(* save(): appended is FALSE when writing to the file raises. *)
SaveRecord(record, appended) ==
  /\ rows' = IF CanInsert(record) THEN Append(rows, record) ELSE rows
  /\ conn' = ConnectionAfter(record)
  /\ file' = IF appended THEN Append(file, record) ELSE file
  /\ list' = Append(list, record)
  /\ saved' = saved \cup {record}
  /\ unwritten' = IF appended THEN unwritten ELSE unwritten \cup {record}
  /\ UNCHANGED <<pgUp, restarted>>

Save(record) ==
  /\ record \notin saved
  /\ \/ SaveRecord(record, TRUE) /\ UNCHANGED auditFaults
     \/ /\ auditFaults < MaxAuditFaults /\ auditFaults' = auditFaults + 1
        /\ SaveRecord(record, FALSE)

\* Mutant: the file and the list are not filtered.
OfAnySession(s, seq) == seq

(* The records of a session among the first n of seq, for every n.         *)
OfSession(s, seq) ==
  LET upTo[n \in 0..Len(seq)] ==
        IF n = 0 THEN <<>>
        ELSE IF SessionOf[seq[n]] = s THEN Append(upTo[n - 1], seq[n]) ELSE upTo[n - 1]
  IN  upTo[Len(seq)]

\* Mutant: the file is not read.
FoundWithoutFile(s) ==
  IF Connection = "open" THEN Reverse(OfSession(s, rows)) ELSE OfSession(s, list)

(* get_by_session_id(): the newest row first, the oldest line first. *)
Found(s) ==
  LET dbRows == IF Connection = "open" THEN Reverse(OfSession(s, rows)) ELSE <<>>
      lines  == OfSession(s, file)
  IN  IF dbRows # <<>> THEN dbRows
      ELSE IF lines # <<>> THEN lines ELSE OfSession(s, list)

Query ==
  /\ conn' = Connection
  /\ UNCHANGED <<rows, pgUp, file, list, auditFaults, saved, unwritten, restarted>>

(* clear() empties the list and, unless that fails, the file; the table    *)
(* keeps its rows.                                                         *)
ClearRecords(truncated) ==
  /\ list' = <<>>
  /\ file' = IF truncated THEN <<>> ELSE file
  /\ saved' = ToSet(rows) \cup ToSet(file')
  /\ unwritten' = saved' \ ToSet(file')
  /\ UNCHANGED <<rows, pgUp, conn, restarted>>

Clear ==
  \/ ClearRecords(TRUE) /\ UNCHANGED auditFaults
  \/ /\ auditFaults < MaxAuditFaults /\ auditFaults' = auditFaults + 1
     /\ ClearRecords(FALSE)

(* A stop of the server ends the sessions of its clients. *)
PostgresStops ==
  /\ pgUp /\ auditFaults < MaxAuditFaults
  /\ pgUp' = FALSE /\ auditFaults' = auditFaults + 1
  /\ conn' = IF conn = "open" THEN "failed" ELSE conn
  /\ UNCHANGED <<rows, file, list, saved, unwritten, restarted>>

PostgresReturns ==
  /\ ~pgUp /\ pgUp' = TRUE
  /\ UNCHANGED <<rows, conn, file, list, auditFaults, saved, unwritten, restarted>>

(* The file outlives the process; the list and the connection do not. *)
NewProcess ==
  /\ list' = <<>> /\ conn' = "unset" /\ restarted' = TRUE
  /\ UNCHANGED <<rows, pgUp, file, saved, unwritten>>

AuditRestart ==
  /\ auditFaults < MaxAuditFaults /\ auditFaults' = auditFaults + 1
  /\ NewProcess

AuditNext ==
  \/ \E r \in Records : Save(r)
  \/ Query \/ Clear
  \/ PostgresStops \/ PostgresReturns \/ AuditRestart

AuditSpec == AuditInit /\ [][AuditNext]_auditVars

-----------------------------------------------------------------------------
(* Every variable has its type. *)
AuditTypeOK ==
  /\ rows \in Seq(Records) /\ file \in Seq(Records) /\ list \in Seq(Records)
  /\ pgUp \in BOOLEAN /\ restarted \in BOOLEAN
  /\ conn \in {"unset", "none", "open", "failed"}
  /\ auditFaults \in 0..MaxAuditFaults
  /\ saved \subseteq Records /\ unwritten \subseteq Records

SavedOf(s) == {r \in saved : SessionOf[r] = s}

(* Within the life of one process a query is complete, although it reads   *)
(* one tier only: an insert the server refuses takes the connection with   *)
(* it, so rows that miss that record are never consulted again             *)
(* (repository.py, save and get_by_session_id).  Two kinds of record may   *)
(* still be missed: one whose append failed, which the file hides, and one *)
(* the driver refused to send, which later rows of its session hide, as    *)
(* the connection survives it.                                             *)
CompleteWithinProcess ==
  ~restarted =>
    \A s \in Sessions : SavedOf(s) \ (unwritten \cup Unsendable) \subseteq ToSet(Found(s))

(* A query never returns a record twice, nor one of another session or     *)
(* tenant, nor one that was never saved or has been cleared.               *)
NothingInvented ==
  \A s \in Sessions :
    /\ IsInjective(Found(s))
    /\ ToSet(Found(s)) \subseteq SavedOf(s)

(* A record that reached the file or the table is returned as long as no   *)
(* other tier hides it: a query misses it only while the connection is     *)
(* open and shows other rows of its session.                               *)
HiddenOnlyByRows ==
  \A r \in saved \ unwritten :
    \/ r \in ToSet(Found(SessionOf[r]))
    \/ Connection = "open" /\ OfSession(SessionOf[r], rows) # <<>>

(* "Query audit log records by session_id and tenant_id" (line 109) over   *)
(* "every execution cycle" (docs/specifications.md, section 8.1): a record *)
(* that was saved and appended is returned.                                *)
NoRecordHidden ==
  \A r \in saved \ unwritten : r \in ToSet(Found(SessionOf[r]))

=============================================================================
