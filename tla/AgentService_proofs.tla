------------------------ MODULE AgentService_proofs -------------------------
(***************************************************************************)
(* What the service leaves in its stores, for any requests, keys, ceiling  *)
(* and number of faults.  The invariant says which requests the session    *)
(* store can hold (HeldByRun), that what the last write left is the reply  *)
(* of a request or one that followed it (RepliesKept), and that exactly    *)
(* the answered requests were saved (AuditFollows).  The service is then   *)
(* shown to implement both stores, whose own theorems hold of it, and to   *)
(* update them in one order (OrderInv).                                    *)
(***************************************************************************)
EXTENDS AgentService, SequenceTheorems, TLAPS

PhaseTypes ==
  /\ phase \in [Requests -> {"new", "stored"} \cup Awaiting \cup Final]
  /\ rounds \in [Requests -> 0..MaxIterations]

(* A round is begun below the ceiling only. *)
RoundsBelow == \A r \in Requests : phase[r] = "tools" => rounds[r] < MaxIterations

Held == [payload: Requests, expires: {1}] \cup {[payload |-> Absent, expires |-> 0]}

NoEntry == [payload |-> Absent, expires |-> 0]

StoreTypes ==
  /\ clock = 0
  /\ redis \in [Keys -> Held] /\ memory \in [Keys -> Held] /\ latest \in [Keys -> Held]
  /\ client \in {"unset", "connected", "none"}

CountTypes == crashes \in Nat /\ faults \in Nat /\ auditFaults \in Nat

TiersFollow ==
  /\ \A k \in Keys \ missed : redis[k] = latest[k]
  /\ \A k \in Keys : memory[k] \in {latest[k], NoEntry}

(* What a tier holds was written by a run that returned. *)
HeldByRun ==
  \A k \in Keys, r \in Requests :
    redis[k].payload = r \/ memory[k].payload = r =>
      phase[r] \in {"stored", "answered", "lost"}

(* q is r, or a request whose run returned after r was answered. *)
Follows(q, r) == q \in Requests /\ (q = r \/ r \in before[q])

RepliesKept ==
  \A r \in Requests :
    phase[r] \in {"stored", "answered"} => Follows(latest[KeyOf[r]].payload, r)

AuditFollows == \A r \in Requests : r \in saved <=> phase[r] = "answered"

LossesAreCrashes ==
  /\ \A r \in Requests : phase[r] = "lost" => crashes > 0
  /\ restarted => crashes > 0

BeforeTypes == before \in [Requests -> SUBSET Requests]

ServiceInv ==
  /\ PhaseTypes /\ RoundsBelow /\ StoreTypes /\ CountTypes
  /\ TiersFollow /\ HeldByRun /\ RepliesKept /\ AuditFollows /\ LossesAreCrashes
  /\ BeforeTypes

(* The service starts with empty stores and no request under way.          *)
LEMMA InitService ==
  ASSUME Init
  PROVE  ServiceInv
<1>1. PhaseTypes /\ RoundsBelow /\ CountTypes /\ LossesAreCrashes
  BY ServiceAssumption
     DEF Init, Store!StoreInit, Store!TierInit, Audit!AuditInit, PhaseTypes, RoundsBelow,
         CountTypes, LossesAreCrashes
<1>2. StoreTypes /\ TiersFollow
  BY DEF Init, Store!StoreInit, Store!TierInit, Store!Empty, Store!Nothing, StoreTypes, Held,
         TiersFollow, NoEntry
<1>3. HeldByRun /\ RepliesKept /\ AuditFollows /\ BeforeTypes
  BY ServiceAssumption
     DEF Init, Store!StoreInit, Store!TierInit, Store!Empty, Store!Nothing, Audit!AuditInit,
         HeldByRun, RepliesKept, AuditFollows, BeforeTypes
<1>4. QED
  BY <1>1, <1>2, <1>3 DEF ServiceInv

-----------------------------------------------------------------------------
(***************************************************************************)
(* One lemma per kind of step.                                             *)
(***************************************************************************)

(* The steps of a run, and a request refused, touch no store.              *)
LEMMA RunKeeps ==
  ASSUME ServiceInv, NEW r \in Requests,
         \/ Refuse(r) \/ StartRun(r) \/ ModelCallsTools(r) \/ ToolsReturn(r)
         \/ ModelIsDone(r) \/ EngineRaises(r)
  PROVE  ServiceInv'
<1>1. PICK to \in {"refused", "error"} \cup Awaiting :
        phase[r] \in {"new"} \cup Awaiting /\ phase' = [phase EXCEPT ![r] = to]
  BY DEF Refuse, StartRun, ModelCallsTools, ToolsReturn, ModelIsDone, EngineRaises, Moves,
         Awaiting
<1>2. UNCHANGED <<crashes, before, storeVars, auditVars>>
  BY DEF Refuse, StartRun, ModelCallsTools, ToolsReturn, ModelIsDone, EngineRaises, Moves,
         Untouched
<1>3. rounds' \in [Requests -> 0..MaxIterations]
  BY ServiceAssumption
     DEF Refuse, StartRun, ModelCallsTools, ToolsReturn, ModelIsDone, EngineRaises, Moves,
         ServiceInv, PhaseTypes, RoundsBelow
<1>4. PhaseTypes'
  BY <1>1, <1>3 DEF ServiceInv, PhaseTypes, Final
<1>5. RoundsBelow'
  BY <1>1 DEF Refuse, StartRun, ModelCallsTools, ToolsReturn, ModelIsDone, EngineRaises, Moves,
         ServiceInv, PhaseTypes, RoundsBelow
<1>6. StoreTypes' /\ CountTypes' /\ TiersFollow'
  BY <1>2 DEF ServiceInv, StoreTypes, CountTypes, TiersFollow, storeVars, auditVars
<1>7. \A q \in Requests :
        /\ phase'[q] \in {"stored", "answered", "lost"} => phase'[q] = phase[q]
        /\ phase[q] \in {"stored", "answered", "lost"} => phase'[q] = phase[q]
  BY <1>1 DEF ServiceInv, PhaseTypes, Awaiting
<1>8. HeldByRun' /\ RepliesKept' /\ LossesAreCrashes' /\ BeforeTypes'
  BY <1>2, <1>7
     DEF ServiceInv, HeldByRun, RepliesKept, Follows, LossesAreCrashes, BeforeTypes,
         storeVars, auditVars
<1>9. AuditFollows'
  BY <1>2, <1>7 DEF ServiceInv, AuditFollows, auditVars
<1>10. QED
  BY <1>4, <1>5, <1>6, <1>8, <1>9 DEF ServiceInv

(* A run returns, and its snapshot is saved over that of its session.      *)
LEMMA ReturnKeeps ==
  ASSUME ServiceInv, NEW r \in Requests, EngineReturns(r)
  PROVE  ServiceInv'
<1> DEFINE k == KeyOf[r]
           entry == [payload |-> r, expires |-> 1]
<1>1. /\ phase[r] \in {"new"} \cup Awaiting /\ phase' = [phase EXCEPT ![r] = "stored"]
      /\ UNCHANGED <<crashes, rounds, auditVars>>
  BY DEF EngineReturns, Moves, Awaiting
<1>2. k \in Keys /\ r # Absent /\ entry \in Held /\ entry.payload = r
  BY ServiceAssumption DEF Held
<1>3. Store!Fresh(r) = entry
  BY DEF Store!Fresh, ServiceInv, StoreTypes
<1>4. Store!Write(k, entry)
  BY <1>3 DEF EngineReturns, Store!Save
<1>5. /\ memory' = [memory EXCEPT ![k] = entry] /\ latest' = [latest EXCEPT ![k] = entry]
      /\ clock' = clock /\ client' = Store!Client
      /\ \/ redis' = [redis EXCEPT ![k] = entry] /\ missed' = missed \ {k}
         \/ redis' \in {redis, [redis EXCEPT ![k] = entry]} /\ missed' = missed \cup {k}
  BY <1>4 DEF Store!Write, Store!Connect
<1>6. faults' = faults \/ faults' = faults + 1
  BY <1>4 DEF Store!Write, Store!Fault
<1>7. PhaseTypes' /\ RoundsBelow'
  BY <1>1 DEF ServiceInv, PhaseTypes, RoundsBelow
<1>8. CountTypes'
  BY <1>1, <1>6 DEF ServiceInv, CountTypes, auditVars
<1>9. StoreTypes'
  <2>1. client' \in {"unset", "connected", "none"}
    BY <1>5 DEF Store!Client, ServiceInv, StoreTypes
  <2>2. QED
    BY <1>2, <1>5, <2>1 DEF ServiceInv, StoreTypes
<1> HIDE DEF entry
<1>10. /\ memory'[k] = entry /\ latest'[k] = entry
       /\ k \notin missed' => redis'[k] = entry
       /\ redis'[k] \in {redis[k], entry}
  BY <1>2, <1>5 DEF ServiceInv, StoreTypes
<1>11. ASSUME NEW j \in Keys, j # k
       PROVE  /\ redis'[j] = redis[j] /\ memory'[j] = memory[j] /\ latest'[j] = latest[j]
              /\ j \in missed' <=> j \in missed
  BY <1>5, <1>11 DEF ServiceInv, StoreTypes
<1> HIDE DEF k
<1>12. TiersFollow'
  <2>1. ASSUME NEW j \in Keys, j \notin missed'
        PROVE  redis'[j] = latest'[j]
    <3>1. CASE j = k
      BY <1>10, <2>1, <3>1
    <3>2. CASE j # k
      BY <1>11, <2>1, <3>2 DEF ServiceInv, TiersFollow
    <3>3. QED
      BY <3>1, <3>2
  <2>2. ASSUME NEW j \in Keys
        PROVE  memory'[j] \in {latest'[j], NoEntry}
    <3>1. CASE j = k
      BY <1>10, <3>1
    <3>2. CASE j # k
      BY <1>11, <3>2 DEF ServiceInv, TiersFollow
    <3>3. QED
      BY <3>1, <3>2
  <2>3. QED
    BY <2>1, <2>2 DEF TiersFollow
<1>13. phase'[r] = "stored" /\ \A q \in Requests : q # r => phase'[q] = phase[q]
  BY <1>1 DEF ServiceInv, PhaseTypes
<1>14. HeldByRun'
  <2> SUFFICES ASSUME NEW j \in Keys, NEW q \in Requests,
                      redis'[j].payload = q \/ memory'[j].payload = q
               PROVE  phase'[q] \in {"stored", "answered", "lost"}
    BY DEF HeldByRun
  <2>1. CASE q = r
    BY <1>13, <2>1
  <2>2. CASE q # r
    <3>1. redis[j].payload = q \/ memory[j].payload = q
      <4>1. CASE j = k
        BY <1>2, <1>10, <2>2, <4>1
      <4>2. CASE j # k
        BY <1>11, <4>2
      <4>3. QED
        BY <4>1, <4>2
    <3>2. QED
      BY <1>13, <2>2, <3>1 DEF ServiceInv, HeldByRun
  <2>3. QED
    BY <2>1, <2>2
<1>15. /\ before'[r] = AnsweredSoFar /\ BeforeTypes'
       /\ \A q \in Requests : q # r => before'[q] = before[q]
  BY DEF EngineReturns, AnsweredSoFar, ServiceInv, BeforeTypes
<1>16. RepliesKept'
  <2> SUFFICES ASSUME NEW q \in Requests, phase'[q] \in {"stored", "answered"}
               PROVE  Follows(latest[KeyOf[q]].payload, q)'
    BY DEF RepliesKept, Follows
  <2>1. KeyOf[q] \in Keys
    BY ServiceAssumption
  <2>2. CASE q = r
    BY <1>2, <1>10, <2>2 DEF k, Follows
  <2>3. CASE q # r
    <3>1. phase[q] = "answered"
      BY <1>1, <1>13, <2>3 DEF EngineReturns, Moves, LoopIsFree
    <3>2. q \in before'[r]
      BY <1>15, <3>1 DEF AnsweredSoFar
    <3>3. CASE KeyOf[q] = k
      BY <1>2, <1>10, <3>2, <3>3 DEF Follows
    <3>4. CASE KeyOf[q] # k
      <4>1. latest'[KeyOf[q]] = latest[KeyOf[q]] /\ Follows(latest[KeyOf[q]].payload, q)
        BY <1>11, <2>1, <3>1, <3>4 DEF ServiceInv, RepliesKept
      <4>2. QED
        BY <1>15, <3>2, <4>1 DEF Follows
    <3>5. QED
      BY <3>3, <3>4
  <2>4. QED
    BY <2>2, <2>3
<1>17. AuditFollows' /\ LossesAreCrashes'
  BY <1>1, <1>13 DEF ServiceInv, AuditFollows, LossesAreCrashes, auditVars, Awaiting
<1>18. QED
  BY <1>7, <1>8, <1>9, <1>12, <1>14, <1>15, <1>16, <1>17 DEF ServiceInv

(* The audit record of a reply is saved, whichever tier takes it.          *)
LEMMA AuditKeeps ==
  ASSUME ServiceInv, NEW r \in Requests, SaveAudit(r)
  PROVE  ServiceInv'
<1>1. /\ phase[r] = "stored" /\ phase' = [phase EXCEPT ![r] = "answered"]
      /\ UNCHANGED <<rounds, crashes, before, storeVars>>
  BY DEF SaveAudit
<1>2. /\ saved' = saved \cup {r} /\ restarted' = restarted
      /\ auditFaults' = auditFaults \/ auditFaults' = auditFaults + 1
  BY DEF SaveAudit, Audit!Save, Audit!SaveRecord
<1>3. \A q \in Requests : q # r => phase'[q] = phase[q]
  BY <1>1 DEF ServiceInv, PhaseTypes
<1>4. phase'[r] = "answered"
  BY <1>1 DEF ServiceInv, PhaseTypes
<1>5. PhaseTypes' /\ RoundsBelow'
  BY <1>1 DEF ServiceInv, PhaseTypes, RoundsBelow, Final
<1>6. StoreTypes' /\ TiersFollow'
  BY <1>1 DEF ServiceInv, StoreTypes, TiersFollow, storeVars
<1>7. CountTypes'
  BY <1>1, <1>2 DEF ServiceInv, CountTypes, storeVars
<1>8. HeldByRun' /\ RepliesKept' /\ LossesAreCrashes' /\ BeforeTypes'
  BY <1>1, <1>2, <1>3, <1>4
     DEF ServiceInv, HeldByRun, RepliesKept, Follows, LossesAreCrashes, BeforeTypes, storeVars
<1>9. AuditFollows'
  BY <1>2, <1>3, <1>4 DEF ServiceInv, AuditFollows
<1>10. QED
  BY <1>5, <1>6, <1>7, <1>8, <1>9 DEF ServiceInv

(* A read drops an expired entry at most, and none expires here.           *)
LEMMA GetKeeps ==
  ASSUME ServiceInv, NEW k \in Keys, GetSession(k)
  PROVE  ServiceInv'
<1>1. /\ UNCHANGED <<phase, rounds, crashes, before, auditVars>>
      /\ UNCHANGED <<clock, redis, redisUp, faults, latest, missed>>
      /\ client' = Store!Client
      /\ memory' = memory \/ memory' = [memory EXCEPT ![k] = NoEntry]
  BY DEF GetSession, Store!Read, Store!ReadEntry, Store!Connect, Store!Nothing, NoEntry
<1>2. client' \in {"unset", "connected", "none"}
  BY <1>1 DEF Store!Client, ServiceInv, StoreTypes
<1>3. memory' \in [Keys -> Held] /\ \A j \in Keys : memory'[j] \in {memory[j], NoEntry}
  BY <1>1 DEF ServiceInv, StoreTypes, Held, NoEntry
<1>4. StoreTypes' /\ TiersFollow'
  BY <1>1, <1>2, <1>3 DEF ServiceInv, StoreTypes, TiersFollow
<1>5. HeldByRun'
  BY <1>1, <1>3, ServiceAssumption DEF ServiceInv, HeldByRun, NoEntry
<1>6. QED
  BY <1>1, <1>4, <1>5
     DEF ServiceInv, PhaseTypes, RoundsBelow, CountTypes, RepliesKept, Follows, AuditFollows,
         LossesAreCrashes, BeforeTypes, auditVars

(* A crash loses the dictionary and the requests in flight.                *)
LEMMA CrashKeeps ==
  ASSUME ServiceInv, Crash
  PROVE  ServiceInv'
<1>1. /\ crashes' = crashes + 1
      /\ phase' = [r \in Requests |->
                     IF phase[r] \in Awaiting \cup {"stored"} THEN "lost" ELSE phase[r]]
      /\ UNCHANGED <<rounds, before, faults, latest, missed, auditFaults>>
      /\ UNCHANGED <<clock, redis, redisUp, saved>>
      /\ memory' = Store!Empty /\ client' = "unset"
  BY DEF Crash, Store!ProcessRestarts, Audit!NewProcess
<1>2. memory' \in [Keys -> Held] /\ \A k \in Keys : memory'[k] = NoEntry
  BY <1>1 DEF Store!Empty, Store!Nothing, Held, NoEntry
<1>3. \A r \in Requests :
        phase'[r] = IF phase[r] \in Awaiting \cup {"stored"} THEN "lost" ELSE phase[r]
  BY <1>1
<1>4. PhaseTypes' /\ RoundsBelow'
  BY <1>1 DEF ServiceInv, PhaseTypes, RoundsBelow, Final, Awaiting
<1>5. CountTypes' /\ crashes' > 0
  BY <1>1 DEF ServiceInv, CountTypes
<1>6. StoreTypes' /\ TiersFollow'
  BY <1>1, <1>2 DEF ServiceInv, StoreTypes, TiersFollow
<1>7. HeldByRun'
  BY <1>1, <1>2, <1>3, ServiceAssumption DEF ServiceInv, HeldByRun, NoEntry, Awaiting
<1>8. RepliesKept' /\ AuditFollows' /\ BeforeTypes'
  BY <1>1, <1>3 DEF ServiceInv, RepliesKept, Follows, AuditFollows, BeforeTypes, Awaiting
<1>9. LossesAreCrashes'
  BY <1>5 DEF LossesAreCrashes
<1>10. QED
  BY <1>4, <1>5, <1>6, <1>7, <1>8, <1>9 DEF ServiceInv

(* Servers stop and return: no entry and no record changes.                *)
LEMMA OutageKeeps ==
  ASSUME ServiceInv, Outage
  PROVE  ServiceInv'
<1>1. /\ UNCHANGED <<phase, rounds, crashes, before, clock, redis, memory, client>>
      /\ UNCHANGED <<latest, missed, saved, restarted>>
  BY DEF Outage, Store!RedisStops, Store!RedisReturns, Audit!PostgresStops,
         Audit!PostgresReturns, storeVars, auditVars
<1>2. /\ faults' = faults \/ faults' = faults + 1
      /\ auditFaults' = auditFaults \/ auditFaults' = auditFaults + 1
  BY DEF Outage, Store!RedisStops, Store!Fault, Store!RedisReturns, Audit!PostgresStops,
         Audit!PostgresReturns, storeVars, auditVars
<1>3. CountTypes'
  BY <1>1, <1>2 DEF ServiceInv, CountTypes
<1>4. QED
  BY <1>1, <1>3
     DEF ServiceInv, PhaseTypes, RoundsBelow, StoreTypes, TiersFollow, HeldByRun, RepliesKept,
         Follows, AuditFollows, LossesAreCrashes, BeforeTypes

(* The invariant holds of every run of the service.                        *)
THEOREM ServiceInvariant == Spec => []ServiceInv
<1>1. ServiceInv /\ [Next]_vars => ServiceInv'
  <2> SUFFICES ASSUME ServiceInv, [Next]_vars
               PROVE  ServiceInv'
    OBVIOUS
  <2>1. CASE \E r \in Requests : Step(r)
    BY <2>1, RunKeeps, ReturnKeeps, AuditKeeps DEF Step
  <2>2. CASE \E k \in Keys : GetSession(k)
    BY <2>2, GetKeeps
  <2>3. CASE Crash \/ Outage
    BY <2>3, CrashKeeps, OutageKeeps
  <2>4. CASE UNCHANGED vars
    BY <2>4
       DEF vars, storeVars, auditVars, ServiceInv, PhaseTypes, RoundsBelow, StoreTypes,
           CountTypes, TiersFollow, HeldByRun, RepliesKept, Follows, AuditFollows,
           LossesAreCrashes, BeforeTypes
  <2>5. QED
    BY <2>1, <2>2, <2>3, <2>4 DEF Next
<1>2. QED
  BY <1>1, InitService, PTL DEF Spec

(* What a read finds is held by a tier.                                    *)
LEMMA FoundIsHeld ==
  ASSUME NEW k \in Keys, Store!Found(k) # Absent
  PROVE  redis[k].payload = Store!Found(k) \/ memory[k].payload = Store!Found(k)
BY DEF Store!Found, Store!InMemory

(* A snapshot without an audit record exists only after a crash            *)
(* (service.py lines 97-105).                                              *)
THEOREM NoSnapshotOrphaned == Spec => []NoOrphanSnapshot
<1>1. ServiceInv => NoOrphanSnapshot
  <2> SUFFICES ASSUME ServiceInv, NEW k \in Keys, LoopIsFree, Store!Found(k) # Absent
               PROVE  \/ Store!Found(k) \in saved
                      \/ crashes > 0 /\ phase[Store!Found(k)] = "lost"
    BY DEF NoOrphanSnapshot
  <2> DEFINE r == Store!Found(k)
  <2>1. redis[k].payload = r \/ memory[k].payload = r
    BY FoundIsHeld
  <2>2. r \in Requests
    <3>1. redis[k] \in Held /\ memory[k] \in Held
      BY DEF ServiceInv, StoreTypes
    <3>2. QED
      BY <2>1, <3>1 DEF Held
  <2>3. phase[r] \in {"answered", "lost"}
    BY <2>1, <2>2 DEF ServiceInv, HeldByRun, LoopIsFree
  <2>4. QED
    BY <2>2, <2>3 DEF ServiceInv, AuditFollows, LossesAreCrashes
<1>2. QED
  BY <1>1, ServiceInvariant, PTL

-----------------------------------------------------------------------------
(***************************************************************************)
(* Every request treats its engine as the outline says.                    *)
(***************************************************************************)

(* Where a step takes a request, as the outline sees it.                   *)
LEMMA StepFollowsOutline ==
  ASSUME ServiceInv, NEW r \in Requests, Step(r)
  PROVE  Outline(r)!Next \/ UNCHANGED <<Control(r), rounds[r]>>
<1> USE DEF Control
<1>0. phase \in [Requests -> {"new", "stored"} \cup Awaiting \cup Final]
      /\ rounds \in [Requests -> 0..MaxIterations]
  BY DEF ServiceInv, PhaseTypes
<1>1. CASE Refuse(r)
  BY <1>0, <1>1 DEF Refuse, Moves
<1>2. CASE StartRun(r)
  BY <1>0, <1>2 DEF StartRun, Moves, Outline!Next, Outline!Begin, Outline!Goes
<1>3. CASE ModelCallsTools(r)
  BY <1>0, <1>3 DEF ModelCallsTools, Moves, Outline!Next, Outline!CallTools, Outline!Goes
<1>4. CASE ToolsReturn(r)
  BY <1>0, <1>4 DEF ToolsReturn, Moves, Outline!Next, Outline!CompleteRound, Outline!Goes
<1>5. CASE ModelIsDone(r)
  BY <1>0, <1>5 DEF ModelIsDone, Moves, Outline!Next, Outline!Finish, Outline!Goes
<1>6. CASE EngineRaises(r)
  BY <1>0, <1>6 DEF EngineRaises, Moves, Awaiting, Outline!Next, Outline!Raise, Outline!Goes
<1>7. CASE EngineReturns(r)
  BY <1>0, <1>7 DEF EngineReturns, Moves, Outline!Next, Outline!Begin, Outline!StopAtCeiling,
                    Outline!Finish, Outline!Goes
<1>8. CASE SaveAudit(r)
  BY <1>0, <1>8 DEF SaveAudit
<1>9. QED
  BY <1>1, <1>2, <1>3, <1>4, <1>5, <1>6, <1>7, <1>8 DEF Step

(* A crash ends the runs in flight, and every other step leaves them.      *)
LEMMA OthersFollowOutline ==
  ASSUME ServiceInv, NEW r \in Requests,
         \/ \E q \in Requests : q # r /\ Step(q)
         \/ (\E k \in Keys : GetSession(k)) \/ Crash \/ Outage
  PROVE  Outline(r)!Next \/ UNCHANGED <<Control(r), rounds[r]>>
<1> USE DEF Control
<1>0. phase \in [Requests -> {"new", "stored"} \cup Awaiting \cup Final]
      /\ rounds \in [Requests -> 0..MaxIterations]
  BY DEF ServiceInv, PhaseTypes
<1>1. ASSUME NEW q \in Requests, q # r, Step(q)
      PROVE  phase'[r] = phase[r] /\ rounds'[r] = rounds[r]
  BY <1>0, <1>1
     DEF Step, Refuse, StartRun, ModelCallsTools, ToolsReturn, ModelIsDone, EngineRaises,
         EngineReturns, SaveAudit, Moves
<1>2. CASE phase'[r] = phase[r] /\ rounds'[r] = rounds[r]
  BY <1>2
<1>3. CASE Crash
  BY <1>0, <1>3 DEF Crash, Awaiting, Final, Outline!Next, Outline!Die, Outline!Goes
<1>4. QED
  BY <1>1, <1>2, <1>3 DEF GetSession, Outage

(* Each request awaits its engine as EngineOutline says, for any number of *)
(* requests (service.py line 94).                                          *)
THEOREM EnginesFollow == Spec => EnginesFollowOutline
<1>1. Init => \A r \in Requests : Outline(r)!Init
  BY DEF Init, Outline!Init, Control
<1>2. ServiceInv /\ [Next]_vars =>
        [\A r \in Requests : Outline(r)!Next \/ UNCHANGED <<Control(r), rounds[r]>>]_vars
  <2> SUFFICES ASSUME ServiceInv, Next, NEW r \in Requests
               PROVE  Outline(r)!Next \/ UNCHANGED <<Control(r), rounds[r]>>
    OBVIOUS
  <2>1. QED
    BY StepFollowsOutline, OthersFollowOutline DEF Next
<1>3. QED
  BY <1>1, <1>2, ServiceInvariant, PTL DEF Spec, EnginesFollowOutline

-----------------------------------------------------------------------------
(***************************************************************************)
(* The service uses its two stores as SessionStore and AuditRepository say *)
(* they can be used: a crash is a restart of both, and is counted among    *)
(* the faults of each.  What is proved of the stores on their own then     *)
(* holds of them in the service.                                           *)
(***************************************************************************)
StoreView == INSTANCE SessionStore_proofs WITH
  Payloads <- Requests, TTL <- 1, MaxTime <- 0, faults <- faults + crashes

TrailView == INSTANCE AuditRepository_proofs WITH
  Records <- Requests, Sessions <- Keys, SessionOf <- KeyOf,
  MaxAuditFaults <- MaxFaults, auditFaults <- auditFaults + crashes

(* The assumptions of both stores hold of the service's constants.         *)
LEMMA StoreInstance ==
  /\ Absent \notin Requests
  /\ 1 \in Nat \ {0}
  /\ 0 \in Nat
  /\ MaxFaults \in Nat
BY ServiceAssumption

(* A fault that the service has left is one that each store has left.      *)
LEMMA FaultLeftForBoth ==
  ASSUME ServiceInv, FaultLeft
  PROVE  faults + crashes < MaxFaults /\ auditFaults + crashes < MaxFaults
BY ServiceAssumption DEF FaultLeft, ServiceInv, CountTypes

(* Every step of the service is one of the session store or none of its.   *)
LEMMA StepOfStore ==
  ASSUME ServiceInv, [Next]_vars
  PROVE  [StoreView!StoreNext]_(StoreView!storeVars)
<1>0. crashes \in Nat /\ faults \in Nat
  BY DEF ServiceInv, CountTypes
<1>1. CASE UNCHANGED <<crashes, storeVars>>
  BY <1>1 DEF storeVars, StoreView!storeVars, StoreView!tierVars
<1>2. ASSUME NEW r \in Requests, EngineReturns(r)
      PROVE  StoreView!StoreNext
  <2>1. Store!Save(KeyOf[r], r) /\ (faults' # faults => FaultLeft) /\ crashes' = crashes
    BY <1>2 DEF EngineReturns, Moves
  <2>2. KeyOf[r] \in Keys
    BY ServiceAssumption
  <2>3. StoreView!Save(KeyOf[r], r)
    BY <1>0, <2>1, FaultLeftForBoth
       DEF Store!Save, Store!Write, Store!Fresh, Store!Connect, Store!Client, Store!Reachable,
           Store!Fault, StoreView!Save, StoreView!Write, StoreView!Fresh, StoreView!Connect,
           StoreView!Client, StoreView!Reachable, StoreView!Fault
  <2>4. QED
    BY <2>2, <2>3 DEF StoreView!StoreNext
<1>3. ASSUME NEW k \in Keys, GetSession(k)
      PROVE  StoreView!StoreNext
  <2>1. StoreView!Read(k)
    BY <1>0, <1>3
       DEF GetSession, Store!Read, Store!ReadEntry, Store!Connect, Store!Client,
           Store!Reachable, Store!Answers, Store!Found, Store!InMemory, Store!RedisLive,
           Store!MemoryLive, Store!Nothing, StoreView!Read, StoreView!ReadEntry,
           StoreView!Connect, StoreView!Client, StoreView!Reachable, StoreView!Answers,
           StoreView!Found, StoreView!InMemory, StoreView!RedisLive, StoreView!MemoryLive,
           StoreView!Nothing
  <2>2. QED
    BY <2>1 DEF StoreView!StoreNext
<1>4. CASE Crash
  <2>1. StoreView!Restart /\ UNCHANGED <<latest, missed>>
    BY <1>0, <1>4, FaultLeftForBoth
       DEF Crash, Store!ProcessRestarts, Store!Empty, Store!Nothing, StoreView!Restart,
           StoreView!ProcessRestarts, StoreView!Empty, StoreView!Nothing, StoreView!Fault
  <2>2. QED
    BY <2>1 DEF StoreView!StoreNext, StoreView!Environment
<1>5. CASE Outage
  <2>1. CASE FaultLeft /\ Store!RedisStops /\ UNCHANGED <<latest, missed, crashes>>
    BY <1>0, <2>1, FaultLeftForBoth
       DEF Store!RedisStops, Store!Fault, StoreView!RedisStops, StoreView!Fault,
           StoreView!StoreNext, StoreView!Environment
  <2>2. CASE Store!RedisReturns /\ UNCHANGED <<latest, missed, crashes>>
    BY <1>0, <2>2
       DEF Store!RedisReturns, StoreView!RedisReturns, StoreView!StoreNext,
           StoreView!Environment
  <2>3. QED
    BY <1>1, <1>5, <2>1, <2>2 DEF Outage
<1>6. ASSUME NEW r \in Requests, Step(r), ~EngineReturns(r)
      PROVE  UNCHANGED <<crashes, storeVars>>
  BY <1>6
     DEF Step, Refuse, StartRun, ModelCallsTools, ToolsReturn, ModelIsDone, EngineRaises,
         SaveAudit, Moves, Untouched
<1>7. QED
  BY <1>1, <1>2, <1>3, <1>4, <1>5, <1>6 DEF Next, vars, storeVars

(* The service implements the session store: every request saves and every *)
(* read of a session reads as session_store.py does on its own             *)
(* (dependencies.py, get_session_store; service.py line 97).               *)
THEOREM StoreImplemented == Spec => StoreView!StoreSpec
<1>1. Init => StoreView!StoreInit
  BY DEF Init, Store!StoreInit, Store!TierInit, Store!Empty, Store!Nothing,
         StoreView!StoreInit, StoreView!TierInit, StoreView!Empty, StoreView!Nothing
<1>2. QED
  BY <1>1, StepOfStore, ServiceInvariant, PTL DEF Spec, StoreView!StoreSpec

(* Every step of the service is one of the audit trail or none of its.     *)
LEMMA StepOfTrail ==
  ASSUME ServiceInv, [Next]_vars
  PROVE  [TrailView!AuditNext]_(TrailView!auditVars)
<1>0. crashes \in Nat /\ auditFaults \in Nat
  BY DEF ServiceInv, CountTypes
<1>1. CASE UNCHANGED <<crashes, auditVars>>
  BY <1>1 DEF auditVars, TrailView!auditVars
<1>2. ASSUME NEW r \in Requests, SaveAudit(r)
      PROVE  TrailView!AuditNext
  <2>1. Audit!Save(r) /\ (auditFaults' # auditFaults => FaultLeft) /\ crashes' = crashes
    BY <1>2 DEF SaveAudit
  <2>2. ASSUME NEW appended \in BOOLEAN, Audit!SaveRecord(r, appended)
        PROVE  TrailView!SaveRecord(r, appended)
    BY <2>2
       DEF Audit!SaveRecord, Audit!CanInsert, Audit!ConnectionAfter, Audit!Connection,
           TrailView!SaveRecord, TrailView!CanInsert, TrailView!ConnectionAfter,
           TrailView!Connection
  <2>3. r \notin saved
    BY <2>1 DEF Audit!Save
  <2>4. CASE Audit!SaveRecord(r, TRUE) /\ UNCHANGED auditFaults
    <3>1. TrailView!SaveRecord(r, TRUE)
      BY <2>2, <2>4
    <3>2. (auditFaults + crashes)' = auditFaults + crashes
      BY <2>1, <2>4
    <3>3. TrailView!Save(r)
      BY <2>3, <3>1, <3>2, Zenon DEF TrailView!Save
    <3>4. QED
      BY <3>3, Zenon DEF TrailView!AuditNext
  <2>5. CASE auditFaults' = auditFaults + 1 /\ Audit!SaveRecord(r, FALSE)
    <3>1. TrailView!SaveRecord(r, FALSE)
      BY <2>2, <2>5
    <3>2. /\ auditFaults + crashes < MaxFaults
          /\ (auditFaults + crashes)' = (auditFaults + crashes) + 1
      BY <1>0, <2>1, <2>5, FaultLeftForBoth
    <3>3. TrailView!Save(r)
      BY <2>3, <3>1, <3>2, Zenon DEF TrailView!Save
    <3>4. QED
      BY <3>3, Zenon DEF TrailView!AuditNext
  <2>6. QED
    BY <2>1, <2>4, <2>5, Zenon DEF Audit!Save
<1>3. CASE Crash
  <2>1. TrailView!AuditRestart
    BY <1>0, <1>3, FaultLeftForBoth
       DEF Crash, Audit!NewProcess, TrailView!AuditRestart, TrailView!NewProcess
  <2>2. QED
    BY <2>1 DEF TrailView!AuditNext
<1>4. CASE Outage
  <2>1. CASE FaultLeft /\ Audit!PostgresStops /\ UNCHANGED crashes
    BY <1>0, <2>1, FaultLeftForBoth
       DEF Audit!PostgresStops, TrailView!PostgresStops, TrailView!AuditNext
  <2>2. CASE Audit!PostgresReturns /\ UNCHANGED crashes
    BY <1>0, <2>2
       DEF Audit!PostgresReturns, TrailView!PostgresReturns, TrailView!AuditNext
  <2>3. QED
    BY <1>1, <1>4, <2>1, <2>2 DEF Outage
<1>5. ASSUME NEW r \in Requests, Step(r), ~SaveAudit(r)
      PROVE  UNCHANGED <<crashes, auditVars>>
  BY <1>5
     DEF Step, Refuse, StartRun, ModelCallsTools, ToolsReturn, ModelIsDone, EngineRaises,
         EngineReturns, Moves, Untouched
<1>6. ASSUME NEW k \in Keys, GetSession(k)
      PROVE  UNCHANGED <<crashes, auditVars>>
  BY <1>6 DEF GetSession
<1>7. QED
  BY <1>1, <1>2, <1>3, <1>4, <1>5, <1>6 DEF Next, vars, auditVars

(* The service implements the audit trail: each reply saves one record, as *)
(* repository.py does on its own (service.py line 100).                    *)
THEOREM TrailImplemented == Spec => TrailView!AuditSpec
<1>1. Init => TrailView!AuditInit
  BY DEF Init, Store!StoreInit, Store!TierInit, Audit!AuditInit, TrailView!AuditInit
<1>2. QED
  BY <1>1, StepOfTrail, ServiceInvariant, PTL DEF Spec, TrailView!AuditSpec

(* The assumptions of the audit trail hold of the service's constants.     *)
LEMMA TrailInstance ==
  /\ KeyOf \in [Requests -> Keys]
  /\ Rejected \subseteq Requests /\ Unsendable \subseteq Requests
  /\ MaxFaults \in Nat
BY ServiceAssumption

(* Both stores keep their invariants within the service. *)
LEMMA StoresKeepInvariants == Spec => [](StoreView!StoreInv /\ TrailView!AuditInv)
<1>1. StoreView!StoreSpec => []StoreView!StoreInv
  BY StoreInstance, StoreView!StoreInvariant
<1>2. TrailView!AuditSpec => []TrailView!AuditInv
  BY TrailInstance, TrailView!AuditInvariant
<1>3. QED
  BY <1>1, <1>2, StoreImplemented, TrailImplemented, PTL

(* The guarantees of the session store hold in the service, whatever its   *)
(* requests do and whenever it dies: no stale read while Redis confirmed   *)
(* the last write, no snapshot lost that Redis has, and a fallback that is *)
(* never behind (session_store.py, save and get_raw).                      *)
THEOREM StoreGuarantees ==
  Spec => [](Store!NoStaleRead /\ Store!SurvivesRestart /\ Store!OutageReadsAreFresh)
<1>1. /\ StoreView!StoreSpec => []StoreView!NoStaleRead
      /\ StoreView!StoreSpec => []StoreView!SurvivesRestart
      /\ StoreView!StoreSpec => []StoreView!OutageReadsAreFresh
  BY StoreInstance, StoreView!ReadsAreFresh, StoreView!SnapshotsSurvive,
     StoreView!OutagesAreFresh
<1>2. /\ StoreView!NoStaleRead => Store!NoStaleRead
      /\ StoreView!SurvivesRestart => Store!SurvivesRestart
      /\ StoreView!OutageReadsAreFresh => Store!OutageReadsAreFresh
  BY DEF Store!NoStaleRead, Store!SurvivesRestart, Store!OutageReadsAreFresh,
         Store!Answers, Store!Found, Store!InMemory, Store!RedisLive, Store!MemoryLive,
         Store!Expected, Store!Reachable, Store!Client,
         StoreView!NoStaleRead, StoreView!SurvivesRestart, StoreView!OutageReadsAreFresh,
         StoreView!Answers, StoreView!Found, StoreView!InMemory, StoreView!RedisLive,
         StoreView!MemoryLive, StoreView!Expected, StoreView!Reachable, StoreView!Client
<1>3. QED
  BY <1>1, <1>2, StoreImplemented, PTL

(* The trail's operators are the same in every instance.                   *)
LEMMA SameTrail ==
  /\ \A k, q : Audit!OfSession(k, q) = TrailView!OfSession(k, q)
  /\ \A q : /\ Audit!ToSet(q) = TrailView!ToSet(q) /\ ToSet(q) = TrailView!ToSet(q)
            /\ Audit!Reverse(q) = TrailView!Reverse(q)
            /\ Audit!IsInjective(q) <=> TrailView!IsInjective(q)
<1>1. ASSUME NEW k, NEW q
      PROVE  Audit!OfSession(k, q) = TrailView!OfSession(k, q)
  BY DEF Audit!OfSession, TrailView!OfSession
<1>2. ASSUME NEW q
      PROVE  /\ Audit!ToSet(q) = TrailView!ToSet(q) /\ ToSet(q) = TrailView!ToSet(q)
             /\ Audit!Reverse(q) = TrailView!Reverse(q)
             /\ Audit!IsInjective(q) <=> TrailView!IsInjective(q)
  BY DEF ToSet, Audit!ToSet, TrailView!ToSet, Audit!Reverse, TrailView!Reverse, Audit!IsInjective,
         TrailView!IsInjective
<1>3. QED
  BY <1>1, <1>2

(* The guarantees of the audit trail hold in the service: within a process *)
(* a query misses no record but one whose append failed or that the driver *)
(* refused to send, it invents nothing, and only rows of the table hide a  *)
(* record of the file (repository.py, get_by_session_id).                  *)
THEOREM TrailGuarantees ==
  Spec => [](Audit!CompleteWithinProcess /\ Audit!NothingInvented /\ Audit!HiddenOnlyByRows)
<1>1. /\ TrailView!AuditSpec => []TrailView!CompleteWithinProcess
      /\ TrailView!AuditSpec => []TrailView!NothingInvented
      /\ TrailView!AuditSpec => []TrailView!HiddenOnlyByRows
  BY TrailInstance, TrailView!WithinProcessComplete, TrailView!NothingIsInvented,
     TrailView!OnlyRowsHide
<1>2. /\ Audit!Connection = TrailView!Connection
      /\ \A k : Audit!SavedOf(k) = TrailView!SavedOf(k)
  BY DEF Audit!Connection, TrailView!Connection, Audit!SavedOf, TrailView!SavedOf
<1>3. \A k : Audit!Found(k) = TrailView!Found(k)
  BY <1>2, SameTrail, Zenon DEF Audit!Found, TrailView!Found
<1>4. /\ TrailView!CompleteWithinProcess => Audit!CompleteWithinProcess
      /\ TrailView!NothingInvented => Audit!NothingInvented
      /\ TrailView!HiddenOnlyByRows => Audit!HiddenOnlyByRows
  <2>1. TrailView!CompleteWithinProcess => Audit!CompleteWithinProcess
    BY <1>2, <1>3, SameTrail, Zenon
       DEF Audit!CompleteWithinProcess, TrailView!CompleteWithinProcess
  <2>2. TrailView!NothingInvented => Audit!NothingInvented
    BY <1>2, <1>3, SameTrail, Zenon DEF Audit!NothingInvented, TrailView!NothingInvented
  <2>3. TrailView!HiddenOnlyByRows => Audit!HiddenOnlyByRows
    BY <1>2, <1>3, SameTrail, Zenon DEF Audit!HiddenOnlyByRows, TrailView!HiddenOnlyByRows
  <2>4. QED
    BY <2>1, <2>2, <2>3
<1>5. QED
  BY <1>1, <1>4, TrailImplemented, PTL

(* What a read finds of a session whose last write Redis confirmed is the  *)
(* snapshot of a request or of one that followed it.                       *)
LEMMA SnapshotFollows ==
  ASSUME ServiceInv, NEW r \in Requests, phase[r] = "answered",
         KeyOf[r] \notin missed, Store!Reachable
  PROVE  Follows(Store!Found(KeyOf[r]), r)
<1> DEFINE e == redis[KeyOf[r]]
<1>1. KeyOf[r] \in Keys
  BY ServiceAssumption
<1>2. e = latest[KeyOf[r]] /\ Follows(e.payload, r)
  BY <1>1 DEF ServiceInv, TiersFollow, RepliesKept
<1>3. e.payload # Absent
  BY <1>2, ServiceAssumption DEF Follows
<1>4. e.expires = 1 /\ clock = 0
  BY <1>1, <1>3 DEF ServiceInv, StoreTypes, Held
<1>5. Store!RedisLive(e)
  BY <1>3, <1>4 DEF Store!RedisLive
<1>6. QED
  BY <1>2, <1>5 DEF Store!Found

(* A reply that was sent is in the audit file unless its append failed, is *)
(* returned by a query of the same process unless the driver refused its   *)
(* row, and its session is found as it left it or as a later run did,      *)
(* unless Redis missed the last write (service.py lines 94-105).           *)
THEOREM AnswersAreDurable == Spec => []AnswerIsDurable
<1>1. ServiceInv /\ TrailView!AuditInv /\ Audit!CompleteWithinProcess => AnswerIsDurable
  <2> SUFFICES ASSUME ServiceInv, TrailView!AuditInv, Audit!CompleteWithinProcess,
                      NEW r \in Requests, phase[r] = "answered"
               PROVE  /\ r \notin unwritten => r \in ToSet(Lines(KeyOf[r]))
                      /\ crashes = 0 /\ r \notin unwritten \cup Unsendable =>
                           r \in ToSet(Audit!Found(KeyOf[r]))
                      /\ KeyOf[r] \notin missed /\ Store!Reachable =>
                           /\ Store!Found(KeyOf[r]) # Absent
                           /\ \/ Store!Found(KeyOf[r]) = r
                              \/ r \in before[Store!Found(KeyOf[r])]
    BY DEF AnswerIsDurable
  <2>1. r \in saved /\ KeyOf[r] \in Keys
    BY ServiceAssumption DEF ServiceInv, AuditFollows
  <2>2. ASSUME r \notin unwritten
        PROVE  r \in ToSet(Lines(KeyOf[r]))
    <3>1. file \in Seq(Requests) /\ r \in TrailView!ToSet(file)
      BY <2>1, <2>2
         DEF TrailView!AuditInv, TrailView!AuditTypeOK, TrailView!TiersAreSaved
    <3>2. r \in TrailView!ToSet(TrailView!OfSession(KeyOf[r], file))
      BY <3>1, TrailInstance, TrailView!OfSessionSelects
    <3>3. QED
      BY <3>2, SameTrail DEF Lines
  <2>3. ASSUME crashes = 0, r \notin unwritten \cup Unsendable
        PROVE  r \in ToSet(Audit!Found(KeyOf[r]))
    <3>1. ~restarted
      BY <2>3 DEF ServiceInv, LossesAreCrashes
    <3>2. r \in Audit!ToSet(Audit!Found(KeyOf[r]))
      BY <2>1, <2>3, <3>1 DEF Audit!CompleteWithinProcess, Audit!SavedOf
    <3>3. QED
      BY <3>2, SameTrail
  <2>4. ASSUME KeyOf[r] \notin missed, Store!Reachable
        PROVE  /\ Store!Found(KeyOf[r]) # Absent
               /\ \/ Store!Found(KeyOf[r]) = r
                  \/ r \in before[Store!Found(KeyOf[r])]
    BY <2>4, SnapshotFollows, ServiceAssumption DEF Follows
  <2>5. QED
    BY <2>2, <2>3, <2>4
<1>2. QED
  BY <1>1, ServiceInvariant, StoresKeepInvariants, TrailGuarantees, PTL

(* A request that ends without a reply leaves nothing in any tier of       *)
(* either store (service.py line 94).                                      *)
THEOREM FailuresLeaveNothing == Spec => []FailureLeavesNothing
<1>1. ServiceInv /\ TrailView!AuditInv => FailureLeavesNothing
  <2> SUFFICES ASSUME ServiceInv, TrailView!AuditInv,
                      NEW r \in Requests, phase[r] \in {"error", "refused"}
               PROVE  /\ r \notin ToSet(rows) \cup ToSet(file) \cup ToSet(list)
                      /\ \A k \in Keys : redis[k].payload # r /\ memory[k].payload # r
    BY DEF FailureLeavesNothing
  <2>1. phase[r] \notin {"stored", "answered", "lost"}
    OBVIOUS
  <2>2. r \notin saved /\ \A k \in Keys : redis[k].payload # r /\ memory[k].payload # r
    BY <2>1 DEF ServiceInv, AuditFollows, HeldByRun
  <2>3. ToSet(rows) \subseteq saved /\ ToSet(file) \subseteq saved /\ ToSet(list) \subseteq saved
    BY SameTrail DEF TrailView!AuditInv, TrailView!TiersAreSaved
  <2>4. QED
    BY <2>2, <2>3
<1>2. QED
  BY <1>1, ServiceInvariant, StoresKeepInvariants, PTL

(* Every variable of the service and of its stores has its type. *)
THEOREM ServiceTypeCorrect == Spec => []ServiceTypeOK
<1>1. ServiceInv /\ StoreView!StoreInv /\ TrailView!AuditInv => ServiceTypeOK
  <2> SUFFICES ASSUME ServiceInv, StoreView!StoreInv, TrailView!AuditInv
               PROVE  ServiceTypeOK
    OBVIOUS
  <2>1. crashes \in Nat /\ faults \in Nat /\ auditFaults \in Nat
    BY DEF ServiceInv, CountTypes
  <2>2. faults + crashes \in 0..MaxFaults /\ auditFaults + crashes \in 0..MaxFaults
    BY DEF StoreView!StoreInv, StoreView!StoreTypeOK, StoreView!TierTypeOK,
           TrailView!AuditInv, TrailView!AuditTypeOK
  <2>3. faults \in 0..MaxFaults /\ auditFaults \in 0..MaxFaults /\ crashes \in 0..MaxFaults
    BY <2>1, <2>2, ServiceAssumption
  <2>4. Store!StoreTypeOK
    BY <2>3
       DEF StoreView!StoreInv, StoreView!StoreTypeOK, StoreView!TierTypeOK, StoreView!Entry,
           StoreView!Nothing, Store!StoreTypeOK, Store!TierTypeOK, Store!Entry, Store!Nothing
  <2>5. Audit!AuditTypeOK
    BY <2>3 DEF TrailView!AuditInv, TrailView!AuditTypeOK, Audit!AuditTypeOK
  <2>6. QED
    BY <2>3, <2>4, <2>5 DEF ServiceTypeOK, ServiceInv, PhaseTypes, BeforeTypes
<1>2. QED
  BY <1>1, ServiceInvariant, StoresKeepInvariants, PTL

-----------------------------------------------------------------------------
(***************************************************************************)
(* Both stores are updated in the same order.  Until a crash, and while    *)
(* every append was written, the last write of a key is of the request in  *)
(* the last audit line of the key, or of the one request that is between   *)
(* its two saves; and until a crash the dictionary has the last write.     *)
(***************************************************************************)
LastLine(k) == IF Lines(k) = <<>> THEN Absent ELSE Lines(k)[Len(Lines(k))]

OneStored ==
  \A q, r \in Requests : phase[q] = "stored" /\ phase[r] = "stored" => q = r

StoredIsLatest ==
  \A r \in Requests : phase[r] = "stored" => latest[KeyOf[r]].payload = r

MemoryIsLatest == crashes = 0 => memory = latest

LinesFollow ==
  crashes = 0 /\ unwritten = {} =>
    \A k \in Keys :
      \/ latest[k].payload = LastLine(k)
      \/ \E r \in Requests : phase[r] = "stored" /\ KeyOf[r] = k

OrderInv == OneStored /\ StoredIsLatest /\ MemoryIsLatest /\ LinesFollow

(* Both stores start empty. *)
LEMMA InitOrder ==
  ASSUME Init
  PROVE  OrderInv
<1>1. /\ phase = [r \in Requests |-> "new"] /\ file = <<>>
      /\ memory = Store!Empty /\ latest = Store!Empty
  BY DEF Init, Store!StoreInit, Store!TierInit, Audit!AuditInit
<1>2. OneStored /\ StoredIsLatest /\ MemoryIsLatest
  BY <1>1 DEF OneStored, StoredIsLatest, MemoryIsLatest
<1>3. \A k : Lines(k) = <<>>
  BY <1>1, SameTrail, TrailInstance, TrailView!OfSessionEmpty DEF Lines
<1>4. \A k \in Keys : latest[k].payload = Absent
  BY <1>1 DEF Store!Empty, Store!Nothing
<1>5. LinesFollow
  BY <1>3, <1>4 DEF LinesFollow, LastLine
<1>6. QED
  BY <1>2, <1>5 DEF OrderInv

(* A step that changes neither the snapshots, the file nor who is between  *)
(* the two saves.                                                          *)
LEMMA OrderUndisturbed ==
  ASSUME OrderInv, UNCHANGED <<latest, file, unwritten, crashes>>,
         memory' = memory \/ (crashes = 0 => memory' = latest),
         \A r \in Requests : phase'[r] = "stored" <=> phase[r] = "stored"
  PROVE  OrderInv'
<1>1. OneStored' /\ StoredIsLatest' /\ MemoryIsLatest'
  BY DEF OrderInv, OneStored, StoredIsLatest, MemoryIsLatest
<1>2. \A k : LastLine(k)' = LastLine(k)
  BY DEF LastLine, Lines
<1>3. LinesFollow'
  BY <1>2 DEF OrderInv, LinesFollow
<1>4. QED
  BY <1>1, <1>3 DEF OrderInv

(* The snapshot of a run is saved while nobody else is between the saves.  *)
LEMMA ReturnKeepsOrder ==
  ASSUME ServiceInv, OrderInv, NEW r \in Requests, EngineReturns(r)
  PROVE  OrderInv'
<1>1. /\ LoopIsFree /\ phase' = [phase EXCEPT ![r] = "stored"]
      /\ UNCHANGED <<crashes, auditVars>>
  BY DEF EngineReturns, Moves
<1>2. /\ memory' = [memory EXCEPT ![KeyOf[r]] = Store!Fresh(r)]
      /\ latest' = [latest EXCEPT ![KeyOf[r]] = Store!Fresh(r)]
  BY DEF EngineReturns, Store!Save, Store!Write
<1>3. \A q \in Requests : phase'[q] = "stored" <=> q = r
  BY <1>1 DEF ServiceInv, PhaseTypes, LoopIsFree
<1>4. KeyOf[r] \in Keys /\ latest \in [Keys -> Held]
  BY ServiceAssumption DEF ServiceInv, StoreTypes
<1>5. /\ latest'[KeyOf[r]].payload = r
      /\ \A k \in Keys : k # KeyOf[r] => latest'[k] = latest[k]
  BY <1>2, <1>4 DEF Store!Fresh
<1>6. OneStored' /\ StoredIsLatest'
  BY <1>3, <1>5 DEF OneStored, StoredIsLatest
<1>7. MemoryIsLatest'
  BY <1>1, <1>2 DEF OrderInv, MemoryIsLatest
<1>8. \A k : LastLine(k)' = LastLine(k)
  BY <1>1 DEF LastLine, Lines, auditVars
<1>9. LinesFollow'
  <2> SUFFICES ASSUME (crashes = 0 /\ unwritten = {})', NEW k \in Keys
               PROVE  \/ latest'[k].payload = LastLine(k)'
                      \/ \E q \in Requests : phase'[q] = "stored" /\ KeyOf[q] = k
    BY DEF LinesFollow
  <2>1. CASE k = KeyOf[r]
    BY <1>3, <2>1
  <2>2. CASE k # KeyOf[r]
    <3>1. latest[k].payload = LastLine(k)
      BY <1>1 DEF OrderInv, LinesFollow, LoopIsFree, auditVars
    <3>2. QED
      BY <1>5, <1>8, <2>2, <3>1
  <2>3. QED
    BY <2>1, <2>2
<1>10. QED
  BY <1>6, <1>7, <1>9 DEF OrderInv

(* The audit line of a reply follows its snapshot before anybody else's.   *)
LEMMA AuditKeepsOrder ==
  ASSUME ServiceInv, TrailView!AuditInv, OrderInv, NEW r \in Requests, SaveAudit(r)
  PROVE  OrderInv'
<1>1. /\ phase[r] = "stored" /\ phase' = [phase EXCEPT ![r] = "answered"]
      /\ UNCHANGED <<crashes, storeVars>>
  BY DEF SaveAudit
<1>2. \/ file' = Append(file, r) /\ unwritten' = unwritten
      \/ unwritten' = unwritten \cup {r}
  BY DEF SaveAudit, Audit!Save, Audit!SaveRecord
<1>3. \A q \in Requests : phase'[q] # "stored"
  BY <1>1 DEF ServiceInv, PhaseTypes, OrderInv, OneStored
<1>4. OneStored' /\ StoredIsLatest' /\ MemoryIsLatest'
  BY <1>1, <1>3 DEF OrderInv, OneStored, StoredIsLatest, MemoryIsLatest, storeVars
<1>5. LinesFollow'
  <2> SUFFICES ASSUME (crashes = 0 /\ unwritten = {})', NEW k \in Keys
               PROVE  latest'[k].payload = LastLine(k)'
    BY DEF LinesFollow
  <2>1. file' = Append(file, r) /\ unwritten = {} /\ crashes = 0
    BY <1>1, <1>2
  <2>2. file \in Seq(Requests)
    BY DEF TrailView!AuditInv, TrailView!AuditTypeOK
  <2>3. Lines(k)' = TrailView!Keep(k, Lines(k), r)
    BY <2>1, <2>2, SameTrail, TrailInstance, TrailView!OfSessionAppend DEF Lines
  <2>4. Lines(k) \in Seq(Requests)
    BY <2>2, SameTrail, TrailInstance, TrailView!OfSessionSelects DEF Lines
  <2>5. CASE KeyOf[r] = k
    <3>1. Lines(k)' = Append(Lines(k), r)
      BY <2>3, <2>5 DEF TrailView!Keep
    <3>2. LastLine(k)' = r
      BY <2>4, <3>1, AppendProperties DEF LastLine
    <3>3. latest'[k].payload = r
      BY <1>1, <2>5 DEF OrderInv, StoredIsLatest, storeVars
    <3>4. QED
      BY <3>2, <3>3
  <2>6. CASE KeyOf[r] # k
    <3>1. LastLine(k)' = LastLine(k)
      BY <2>3, <2>6 DEF TrailView!Keep, LastLine
    <3>2. latest[k].payload = LastLine(k)
      BY <1>1, <2>1, <2>6 DEF OrderInv, OneStored, LinesFollow
    <3>3. QED
      BY <1>1, <3>1, <3>2 DEF storeVars
  <2>7. QED
    BY <2>5, <2>6
<1>6. QED
  BY <1>4, <1>5 DEF OrderInv

(* A read pops no entry that the last write left.                          *)
LEMMA GetKeepsOrder ==
  ASSUME ServiceInv, OrderInv, NEW k \in Keys, GetSession(k)
  PROVE  OrderInv'
<1>1. UNCHANGED <<phase, latest, file, unwritten, crashes>>
  BY DEF GetSession, Store!Read, auditVars
<1>2. \/ memory' = memory
      \/ Store!InMemory(k) = Absent /\ memory' = [memory EXCEPT ![k] = NoEntry]
  <2>1. PICK v : /\ v \in Store!Answers(k)
                 /\ memory' = IF v = Absent THEN [memory EXCEPT ![k] = NoEntry] ELSE memory
    BY DEF GetSession, Store!Read, Store!ReadEntry, Store!Nothing, NoEntry
  <2>2. Store!Found(k) = Absent => Store!InMemory(k) = Absent
    BY DEF Store!Found, Store!RedisLive
  <2>3. v = Absent => Store!InMemory(k) = Absent
    BY <2>1, <2>2 DEF Store!Answers
  <2>4. QED
    BY <2>1, <2>3
<1>3. memory[k] \in Held /\ clock = 0
  BY DEF ServiceInv, StoreTypes
<1>4. Store!InMemory(k) = Absent => memory[k] = NoEntry
  BY <1>3, ServiceAssumption DEF Held, NoEntry, Store!InMemory, Store!MemoryLive
<1>5. memory' = memory
  BY <1>2, <1>4 DEF ServiceInv, StoreTypes
<1>6. QED
  BY <1>1, <1>5, OrderUndisturbed

(* A crash ends the request between its saves, and voids the claim.        *)
LEMMA CrashKeepsOrder ==
  ASSUME ServiceInv, Crash
  PROVE  OrderInv'
<1>1. crashes' = crashes + 1 /\ crashes \in Nat
      /\ phase' = [r \in Requests |->
                     IF phase[r] \in Awaiting \cup {"stored"} THEN "lost" ELSE phase[r]]
  BY DEF Crash, ServiceInv, CountTypes
<1>2. crashes' # 0 /\ \A r \in Requests : phase'[r] # "stored"
  BY <1>1
<1>3. QED
  BY <1>2 DEF OrderInv, OneStored, StoredIsLatest, MemoryIsLatest, LinesFollow

(* The two stores are updated in one order in every run of the service.    *)
LEMMA OrderInvariant == Spec => []OrderInv
<1>1. ServiceInv /\ TrailView!AuditInv /\ OrderInv /\ [Next]_vars => OrderInv'
  <2> SUFFICES ASSUME ServiceInv, TrailView!AuditInv, OrderInv, [Next]_vars
               PROVE  OrderInv'
    OBVIOUS
  <2>1. ASSUME NEW r \in Requests, Step(r), ~EngineReturns(r), ~SaveAudit(r)
        PROVE  OrderInv'
    <3>1. UNCHANGED <<crashes, storeVars, auditVars>>
      BY <2>1 DEF Step, Refuse, StartRun, ModelCallsTools, ToolsReturn, ModelIsDone,
                  EngineRaises, Moves, Untouched
    <3>2. \A q \in Requests : phase'[q] = "stored" <=> phase[q] = "stored"
      BY <2>1 DEF Step, Refuse, StartRun, ModelCallsTools, ToolsReturn, ModelIsDone,
                  EngineRaises, Moves, ServiceInv, PhaseTypes, Awaiting
    <3>3. QED
      BY <3>1, <3>2, OrderUndisturbed DEF storeVars, auditVars
  <2>2. CASE Outage \/ UNCHANGED vars
    <3>1. UNCHANGED <<phase, memory, latest, file, unwritten, crashes>>
      BY <2>2 DEF Outage, Store!RedisStops, Store!RedisReturns, Audit!PostgresStops,
                  Audit!PostgresReturns, vars, storeVars, auditVars
    <3>2. QED
      BY <3>1, OrderUndisturbed
  <2>3. QED
    BY <2>1, <2>2, ReturnKeepsOrder, AuditKeepsOrder, GetKeepsOrder, CrashKeepsOrder DEF Next
<1>2. QED
  BY <1>1, InitOrder, ServiceInvariant, StoresKeepInvariants, PTL DEF Spec

(* Whatever the interleaving of requests with one session id, the snapshot *)
(* a read finds and the last audit line of the session are of one request, *)
(* until a crash, a write Redis missed or a failed append                  *)
(* (service.py lines 94-105).                                              *)
THEOREM SnapshotsMatchAudit == Spec => []SnapshotMatchesAudit
<1>1. ServiceInv /\ OrderInv => SnapshotMatchesAudit
  <2> SUFFICES ASSUME ServiceInv, OrderInv, NEW k \in Keys,
                      LoopIsFree, crashes = 0, unwritten = {}, k \notin missed
               PROVE  Store!Found(k) = LastLine(k)
    BY DEF SnapshotMatchesAudit, LastLine
  <2>1. latest[k].payload = LastLine(k)
    BY DEF OrderInv, LinesFollow, LoopIsFree
  <2>2. redis[k] = latest[k] /\ memory[k] = latest[k] /\ latest[k] \in Held /\ clock = 0
    BY DEF ServiceInv, TiersFollow, StoreTypes, OrderInv, MemoryIsLatest
  <2>3. Store!InMemory(k) = latest[k].payload
    BY <2>2 DEF Held, Store!InMemory, Store!MemoryLive
  <2>4. Store!Found(k) = latest[k].payload
    BY <2>2, <2>3 DEF Store!Found
  <2>5. QED
    BY <2>1, <2>4
<1>2. QED
  BY <1>1, ServiceInvariant, OrderInvariant, PTL

-----------------------------------------------------------------------------
(***************************************************************************)
(* How much longer a request can last: a round left is a call of the model *)
(* and its tools; then come one more call, the synthesis and the two saves.*)
(***************************************************************************)
StepsLeft(r) ==
  CASE phase[r] = "new"       -> 2 * MaxIterations + 4
    [] phase[r] = "model"     -> 2 * (MaxIterations - rounds[r]) + 3
    [] phase[r] = "tools"     -> 2 * (MaxIterations - rounds[r]) + 2
    [] phase[r] = "synthesis" -> 2
    [] phase[r] = "stored"    -> 1
    [] phase[r] \in Final     -> 0

(* The steps left at each control point, before and after a step.          *)
LEMMA StepsRead ==
  ASSUME NEW r \in Requests
  PROVE  /\ phase[r] = "new" => StepsLeft(r) = 2 * MaxIterations + 4
         /\ phase[r] = "model" => StepsLeft(r) = 2 * (MaxIterations - rounds[r]) + 3
         /\ phase[r] = "tools" => StepsLeft(r) = 2 * (MaxIterations - rounds[r]) + 2
         /\ phase[r] = "synthesis" => StepsLeft(r) = 2
         /\ phase[r] = "stored" => StepsLeft(r) = 1
         /\ phase[r] \in Final => StepsLeft(r) = 0
         /\ phase'[r] = "model" => StepsLeft(r)' = 2 * (MaxIterations - rounds'[r]) + 3
         /\ phase'[r] = "tools" => StepsLeft(r)' = 2 * (MaxIterations - rounds'[r]) + 2
         /\ phase'[r] = "synthesis" => StepsLeft(r)' = 2
         /\ phase'[r] = "stored" => StepsLeft(r)' = 1
         /\ phase'[r] \in Final => StepsLeft(r)' = 0
BY DEF StepsLeft, Final

StepsInRange == \A r \in Requests : StepsLeft(r) \in 0..(2 * MaxIterations + 4)

(* There are finitely many.                                                *)
LEMMA StepsBounded == PhaseTypes => StepsInRange
<1> SUFFICES ASSUME PhaseTypes, NEW r \in Requests
             PROVE  StepsLeft(r) \in 0..(2 * MaxIterations + 4)
  BY DEF StepsInRange
<1>1. /\ rounds[r] \in 0..MaxIterations /\ MaxIterations \in Nat
      /\ phase[r] \in {"new", "stored"} \cup Awaiting \cup Final
  BY ServiceAssumption DEF PhaseTypes
<1>2. QED
  BY <1>1, StepsRead DEF Awaiting

(* A request's own step uses up one of its steps at least.                 *)
LEMMA StepUsesUp ==
  ASSUME PhaseTypes, NEW r \in Requests, Step(r)
  PROVE  StepsLeft(r)' < StepsLeft(r)
<1>1. /\ rounds \in [Requests -> 0..MaxIterations] /\ rounds[r] \in 0..MaxIterations
      /\ MaxIterations \in Nat \ {0}
      /\ phase \in [Requests -> {"new", "stored"} \cup Awaiting \cup Final]
  BY ServiceAssumption DEF PhaseTypes
<1>2. CASE Refuse(r) \/ StartRun(r)
  <2>1. phase[r] = "new" /\ phase'[r] \in {"refused", "model"} /\ rounds'[r] = rounds[r]
    BY <1>1, <1>2 DEF Refuse, StartRun, Moves
  <2>2. QED
    BY <1>1, <2>1, StepsRead DEF Final
<1>3. CASE ModelCallsTools(r) \/ ModelIsDone(r)
  <2>1. phase[r] = "model" /\ phase'[r] \in {"tools", "synthesis"} /\ rounds'[r] = rounds[r]
    BY <1>1, <1>3 DEF ModelCallsTools, ModelIsDone, Moves
  <2>2. QED
    BY <1>1, <2>1, StepsRead
<1>4. CASE ToolsReturn(r)
  <2>1. phase[r] = "tools" /\ phase'[r] = "model" /\ rounds'[r] = rounds[r] + 1
    BY <1>1, <1>4 DEF ToolsReturn, Moves
  <2>2. QED
    BY <1>1, <2>1, StepsRead
<1>5. CASE EngineRaises(r)
  <2>1. phase[r] \in Awaiting /\ phase'[r] = "error"
    BY <1>1, <1>5 DEF EngineRaises, Moves
  <2>2. QED
    BY <1>1, <2>1, StepsRead DEF Awaiting, Final
<1>6. CASE EngineReturns(r)
  <2>1. phase[r] \in {"new", "model", "synthesis"} /\ phase'[r] = "stored"
    BY <1>1, <1>6 DEF EngineReturns, Moves
  <2>2. QED
    BY <1>1, <2>1, StepsRead
<1>7. CASE SaveAudit(r)
  <2>1. phase[r] = "stored" /\ phase'[r] = "answered"
    BY <1>1, <1>7 DEF SaveAudit
  <2>2. QED
    BY <2>1, StepsRead DEF Final
<1>8. QED
  BY <1>2, <1>3, <1>4, <1>5, <1>6, <1>7 DEF Step

(* No step of another request, no read, outage or crash gives any back.    *)
LEMMA NoStepGivesBack ==
  ASSUME PhaseTypes, PhaseTypes', NEW r \in Requests, [Next]_vars
  PROVE  StepsLeft(r)' <= StepsLeft(r)
<1>1. StepsLeft(r) \in Nat /\ StepsLeft(r)' \in Nat
  <2>1. StepsInRange /\ StepsInRange'
    BY StepsBounded, PTL
  <2>2. QED
    BY <2>1, ServiceAssumption DEF StepsInRange
<1>2. ASSUME phase'[r] = phase[r], rounds'[r] = rounds[r]
      PROVE  StepsLeft(r)' <= StepsLeft(r)
  <2>1. StepsLeft(r)' = StepsLeft(r)
    BY <1>2 DEF StepsLeft
  <2>2. QED
    BY <1>1, <2>1
<1>3. ASSUME NEW q \in Requests, Step(q)
      PROVE  StepsLeft(r)' <= StepsLeft(r)
  <2>1. CASE q = r
    <3>1. StepsLeft(r)' < StepsLeft(r)
      BY <1>3, <2>1, StepUsesUp
    <3>2. QED
      BY <1>1, <3>1
  <2>2. CASE q # r
    <3>1. phase'[r] = phase[r] /\ rounds'[r] = rounds[r]
      BY <1>3, <2>2
         DEF PhaseTypes, Step, Refuse, StartRun, ModelCallsTools, ToolsReturn, ModelIsDone,
             EngineRaises, EngineReturns, SaveAudit, Moves
    <3>2. QED
      BY <1>2, <3>1
  <2>3. QED
    BY <2>1, <2>2
<1>4. CASE Crash
  <2>1. \/ phase'[r] = "lost"
        \/ phase'[r] = phase[r] /\ rounds'[r] = rounds[r]
    BY <1>4 DEF Crash
  <2>2. CASE phase'[r] = "lost"
    <3>1. StepsLeft(r)' = 0
      BY <2>2, StepsRead DEF Final
    <3>2. QED
      BY <1>1, <3>1
  <2>3. QED
    BY <1>2, <2>1, <2>2
<1>5. CASE (\E k \in Keys : GetSession(k)) \/ Outage \/ UNCHANGED vars
  BY <1>2, <1>5 DEF GetSession, Outage, vars
<1>6. QED
  BY <1>3, <1>4, <1>5 DEF Next

(* Every request comes to an end: its own steps use up a number that the   *)
(* ceiling on rounds bounds, and nothing that the other requests, the      *)
(* servers or a crash do gives any of it back (service.py, process_email).   *)
THEOREM RequestsAreFinite ==
  Spec => /\ []StepsInRange
          /\ [][\A r \in Requests : /\ StepsLeft(r)' <= StepsLeft(r)
                                    /\ Step(r) => StepsLeft(r)' < StepsLeft(r)]_vars
<1>1. ServiceInv => StepsInRange
  BY StepsBounded DEF ServiceInv
<1>2. ServiceInv /\ ServiceInv' /\ [Next]_vars =>
        [\A r \in Requests : /\ StepsLeft(r)' <= StepsLeft(r)
                             /\ Step(r) => StepsLeft(r)' < StepsLeft(r)]_vars
  BY StepUsesUp, NoStepGivesBack DEF ServiceInv
<1>3. QED
  BY ServiceInvariant, <1>1, <1>2, PTL DEF Spec

=============================================================================
