---------------------------- MODULE AgentService ----------------------------
(***************************************************************************)
(* The application service (src/api/service.py) under concurrent requests: *)
(* process_email creates a session, classifies the message, runs the       *)
(* engine, saves the session snapshot and appends the audit record;        *)
(* get_session reads a snapshot back.  SessionStore and AuditRepository    *)
(* are the singletons of src/api/dependencies.py; the engine, one per      *)
(* request, is the outline of ReActLoop: its suspension points and rounds. *)
(*                                                                         *)
(* One event loop runs all requests.  A request gives it up only at an     *)
(* await of its engine; the two saves at the end are synchronous, so       *)
(* nothing runs between them, although the process can die there.          *)
(***************************************************************************)
EXTENDS Integers, Sequences, SequencesExt

CONSTANTS
  Requests,        \* the requests clients send
  Keys,            \* (tenant, session id) pairs
  KeyOf,           \* the pair a request is processed under
  Invalid,         \* requests refused at the boundary
  Screened,        \* requests whose message is a threat or out of scope
  MaxIterations,   \* the engine's ceiling
  Absent,          \* no snapshot
  Rejected,        \* requests whose audit row PostgreSQL refuses
  Unsendable,      \* requests whose audit row the driver refuses to send
  MaxFaults        \* bound on outages, failed appends and crashes, together

ASSUME ServiceAssumption ==
  /\ KeyOf \in [Requests -> Keys]
  /\ Absent \notin Requests
  /\ Invalid \subseteq Requests /\ Screened \subseteq Requests
  /\ Rejected \subseteq Requests /\ Unsendable \subseteq Requests
  /\ MaxIterations \in Nat \ {0}
  /\ MaxFaults \in Nat

VARIABLES
  phase, rounds,            \* of every request: control point, tool rounds
  crashes,
  before,   \* history: the requests already answered when a run returned
  clock, redis, redisUp, memory, client, faults, latest, missed,
  rows, pgUp, conn, file, list, auditFaults, saved, unwritten, restarted

Store == INSTANCE SessionStore WITH
  Payloads <- Requests, TTL <- 1, MaxTime <- 0

Audit == INSTANCE AuditRepository WITH
  Records <- Requests, Sessions <- Keys, SessionOf <- KeyOf,
  MaxAuditFaults <- MaxFaults

storeVars == <<clock, redis, redisUp, memory, client, faults, latest, missed>>
auditVars ==
  <<rows, pgUp, conn, file, list, auditFaults, saved, unwritten, restarted>>
vars == <<phase, rounds, crashes, before, storeVars, auditVars>>

Awaiting == {"model", "tools", "synthesis"}
Final == {"answered", "error", "refused", "lost"}

Init ==
  /\ phase = [r \in Requests |-> "new"]
  /\ rounds = [r \in Requests |-> 0]
  /\ crashes = 0
  /\ before = [r \in Requests |-> {}]
  /\ Store!StoreInit
  /\ Audit!AuditInit

FaultLeft == faults + auditFaults + crashes < MaxFaults

(* The event loop is free unless a request is between its two saves. *)
LoopIsFree == \A r \in Requests : phase[r] # "stored"

\* Mutant: other requests run between the two saves.
MovesAnytime(r, from, to) ==
  /\ phase[r] \in from
  /\ phase' = [phase EXCEPT ![r] = to]
  /\ UNCHANGED crashes

Moves(r, from, to) ==
  /\ LoopIsFree
  /\ phase[r] \in from
  /\ phase' = [phase EXCEPT ![r] = to]
  /\ UNCHANGED crashes

Untouched == UNCHANGED <<before, storeVars, auditVars>>

(* validate_tenant_id, validate_session_id and the API key. *)
Refuse(r) ==
  /\ r \in Invalid
  /\ Moves(r, {"new"}, "refused")
  /\ UNCHANGED rounds /\ Untouched

(* create_session, classify_inbound_demand and the engine's first segment. *)
StartRun(r) ==
  /\ r \notin Invalid \cup Screened
  /\ Moves(r, {"new"}, "model")
  /\ UNCHANGED rounds /\ Untouched

\* Mutant: the ceiling is off by one.
ModelCallsOnceMore(r) ==
  /\ rounds[r] <= MaxIterations
  /\ Moves(r, {"model"}, "tools")
  /\ UNCHANGED rounds /\ Untouched

ModelCallsTools(r) ==
  /\ rounds[r] < MaxIterations
  /\ Moves(r, {"model"}, "tools")
  /\ UNCHANGED rounds /\ Untouched

\* Mutant: the round is not counted.
ToolsReturnUncounted(r) ==
  /\ Moves(r, {"tools"}, "model")
  /\ UNCHANGED rounds /\ Untouched

ToolsReturn(r) ==
  /\ Moves(r, {"tools"}, "model")
  /\ rounds' = [rounds EXCEPT ![r] = @ + 1]
  /\ Untouched

ModelIsDone(r) ==
  /\ Moves(r, {"model"}, "synthesis")
  /\ UNCHANGED rounds /\ Untouched

\* Mutant: the snapshot is saved on the way out.
EngineRaisesAfterSave(r) ==
  /\ Moves(r, Awaiting, "error")
  /\ Store!Save(KeyOf[r], r) /\ UNCHANGED faults
  /\ UNCHANGED <<rounds, before, auditVars>>

(* engine.run raises: nothing is saved, the handler maps the exception to  *)
(* an error status.                                                        *)
EngineRaises(r) ==
  /\ Moves(r, Awaiting, "error")
  /\ UNCHANGED rounds /\ Untouched

AnsweredSoFar == {r \in Requests : phase[r] = "answered"}

\* Mutant: a snapshot is kept for a session that has none yet only.
EngineReturnsKeeping(r) ==
  /\ Moves(r, {"synthesis"}, "stored")
  /\ IF Store!Found(KeyOf[r]) = Absent
     THEN Store!Save(KeyOf[r], r) ELSE UNCHANGED storeVars
  /\ faults' # faults => FaultLeft
  /\ before' = [before EXCEPT ![r] = AnsweredSoFar]
  /\ UNCHANGED <<rounds, auditVars>>

(* engine.run returns, then session_store.save.  A screened message never  *)
(* awaits; a run ends at the ceiling or with its synthesis.                *)
EngineReturns(r) ==
  /\ \/ r \in Screened \ Invalid /\ Moves(r, {"new"}, "stored")
     \/ rounds[r] >= MaxIterations /\ Moves(r, {"model"}, "stored")
     \/ Moves(r, {"synthesis"}, "stored")
  /\ Store!Save(KeyOf[r], r)
  /\ faults' # faults => FaultLeft
  /\ before' = [before EXCEPT ![r] = AnsweredSoFar]
  /\ UNCHANGED <<rounds, auditVars>>

\* Mutant: the reply is sent without an audit record.
AnswerUnaudited(r) ==
  /\ phase[r] = "stored"
  /\ phase' = [phase EXCEPT ![r] = "answered"]
  /\ UNCHANGED <<rounds, crashes>> /\ Untouched

(* audit_repo.save_response, then the reply. *)
SaveAudit(r) ==
  /\ phase[r] = "stored"
  /\ phase' = [phase EXCEPT ![r] = "answered"]
  /\ Audit!Save(r)
  /\ auditFaults' # auditFaults => FaultLeft
  /\ UNCHANGED <<rounds, crashes, before, storeVars>>

GetSession(k) ==
  /\ LoopIsFree
  /\ Store!Read(k)
  /\ UNCHANGED <<phase, rounds, crashes, before, auditVars>>

(* The process dies and is started again: requests in flight are lost. *)
Crash ==
  /\ FaultLeft /\ crashes' = crashes + 1
  /\ phase' = [r \in Requests |->
                 IF phase[r] \in Awaiting \cup {"stored"} THEN "lost" ELSE phase[r]]
  /\ Store!ProcessRestarts /\ UNCHANGED <<faults, latest, missed>>
  /\ Audit!NewProcess /\ UNCHANGED auditFaults
  /\ UNCHANGED <<rounds, before>>

Outage ==
  /\ \/ FaultLeft /\ Store!RedisStops /\ UNCHANGED <<latest, missed, auditVars>>
     \/ Store!RedisReturns /\ UNCHANGED <<latest, missed, auditVars>>
     \/ FaultLeft /\ Audit!PostgresStops /\ UNCHANGED storeVars
     \/ Audit!PostgresReturns /\ UNCHANGED storeVars
  /\ UNCHANGED <<phase, rounds, crashes, before>>

Step(r) ==
  \/ Refuse(r) \/ StartRun(r)
  \/ ModelCallsTools(r) \/ ToolsReturn(r) \/ ModelIsDone(r)
  \/ EngineRaises(r) \/ EngineReturns(r) \/ SaveAudit(r)

Next ==
  \/ \E r \in Requests : Step(r)
  \/ \E k \in Keys : GetSession(k)
  \/ Crash
  \/ Outage

Spec == Init /\ [][Next]_vars

(* The event loop resumes every coroutine whose await is over, and every   *)
(* await ends: the model's client and the tools answer or raise.           *)
FairSpec == Spec /\ \A r \in Requests : WF_vars(Step(r))

-----------------------------------------------------------------------------
(* Every request has a control point and a round count within the ceiling. *)
ServiceTypeOK ==
  /\ phase \in [Requests -> {"new", "stored"} \cup Awaiting \cup Final]
  /\ rounds \in [Requests -> 0..MaxIterations]
  /\ crashes \in 0..MaxFaults
  /\ before \in [Requests -> SUBSET Requests]
  /\ Store!StoreTypeOK
  /\ Audit!AuditTypeOK

Lines(k) == Audit!OfSession(k, file)

(* Whatever the interleaving of two requests with one session id, the      *)
(* snapshot a read finds and the last audit line of that session are of    *)
(* the same request: the two stores are updated in the same order          *)
(* (service.py lines 94-105).  A crash, a write Redis missed or a failed   *)
(* append each void it.                                                    *)
SnapshotMatchesAudit ==
  \A k \in Keys :
    LoopIsFree /\ crashes = 0 /\ unwritten = {} /\ k \notin missed =>
      IF Lines(k) = <<>> THEN Store!Found(k) = Absent
      ELSE Store!Found(k) = Lines(k)[Len(Lines(k))]

(* A client that got a reply can rely on it (service.py lines 94-105).     *)
(* Its audit line is in the file for good, unless the append failed, and   *)
(* while the process lives a query returns its record, unless the append   *)
(* failed or the driver refused its row.  A read of its session finds its  *)
(* snapshot or that of a run that returned after the reply: never nothing, *)
(* and never what was there before, unless Redis missed the last write or  *)
(* cannot be asked.                                                        *)
AnswerIsDurable ==
  \A r \in Requests : phase[r] = "answered" =>
    /\ r \notin unwritten => r \in ToSet(Lines(KeyOf[r]))
    /\ crashes = 0 /\ r \notin unwritten \cup Unsendable =>
         r \in ToSet(Audit!Found(KeyOf[r]))
    /\ KeyOf[r] \notin missed /\ Store!Reachable =>
         LET q == Store!Found(KeyOf[r]) IN
         q # Absent /\ (q = r \/ r \in before[q])

(* A request that ends without a reply of the engine leaves nothing behind *)
(* in either store, in no tier of them, whatever the other requests do.    *)
FailureLeavesNothing ==
  \A r \in Requests : phase[r] \in {"error", "refused"} =>
    /\ r \notin ToSet(rows) \cup ToSet(file) \cup ToSet(list)
    /\ \A k \in Keys : redis[k].payload # r /\ memory[k].payload # r

(* A snapshot without an audit record exists only after a crash. *)
NoOrphanSnapshot ==
  \A k \in Keys :
    LET r == Store!Found(k) IN
    LoopIsFree /\ r # Absent => r \in saved \/ (crashes > 0 /\ phase[r] = "lost")

(* Every request comes to an end: a reply, an error, or lost in a crash. *)
EveryRequestEnds == \A r \in Requests : <>(phase[r] \in Final)

(* Each request treats its engine as EngineOutline says, of which every    *)
(* run of ReActLoop is shown to be an instance.  What comes after the      *)
(* engine, and a request that never reaches it, are stutters of it.        *)
Control(r) ==
  CASE phase[r] \in {"new", "refused"}     -> "new"
    [] phase[r] \in {"stored", "answered"} -> "returned"
    [] phase[r] = "error"                  -> "raised"
    [] OTHER                               -> phase[r]

Outline(r) == INSTANCE EngineOutline WITH
  control <- Control(r), rounds <- rounds[r]

EnginesFollowOutline ==
  /\ \A r \in Requests : Outline(r)!Init
  /\ [][\A r \in Requests : Outline(r)!Next \/ UNCHANGED <<Control(r), rounds[r]>>]_vars

(* "Every execution cycle is appended to structured logs"                  *)
(* (docs/specifications.md line 597): a run that has ended is audited.     *)
EveryCycleAudited ==
  \A r \in Requests : phase[r] \in {"answered", "error"} => r \in saved

=============================================================================
