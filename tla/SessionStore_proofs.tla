------------------------ MODULE SessionStore_proofs -------------------------
(***************************************************************************)
(* The safety of the session store, for all sets of keys and snapshots,    *)
(* every time to live and any number of faults.  The invariant relates the *)
(* two tiers to what the last write of a key left: Redis holds it unless   *)
(* that write is missed, and the dictionary holds it or nothing.           *)
(***************************************************************************)
EXTENDS SessionStore, TLAPS

TiersFollow ==
  /\ \A k \in Keys \ missed : redis[k] = latest[k]
  /\ \A k \in Keys : memory[k] \in {latest[k], Nothing}

StoreInv == StoreTypeOK /\ TiersFollow

(* An entry written now is one, and so is no entry. *)
LEMMA FreshIsEntry ==
  ASSUME NEW s \in Payloads, clock \in Nat
  PROVE  Fresh(s) \in Entry
BY StoreAssumption DEF Fresh, Entry

(* The store starts with both tiers empty. *)
LEMMA InitStore ==
  ASSUME StoreInit
  PROVE  StoreInv
BY StoreAssumption
   DEF StoreInit, TierInit, StoreInv, StoreTypeOK, TierTypeOK, TiersFollow, Empty, Entry, Nothing

(* A save or a delete, confirmed, missed or timed out, leaves its entry in *)
(* the dictionary, and in Redis unless it is missed.                       *)
LEMMA WriteKeeps ==
  ASSUME StoreInv, NEW k \in Keys, NEW entry \in Entry, Write(k, entry)
  PROVE  StoreInv'
<1> DEFINE written == [redis EXCEPT ![k] = entry]
<1>1. written \in [Keys -> Entry]
  BY DEF StoreInv, StoreTypeOK, TierTypeOK
<1>2. /\ memory' = [memory EXCEPT ![k] = entry]
      /\ latest' = [latest EXCEPT ![k] = entry]
      /\ clock' = clock /\ redisUp' = redisUp /\ client' = Client
  BY DEF Write, Connect
<1>3. \/ redis' = written /\ missed' = missed \ {k} /\ faults' = faults
      \/ redis' = redis /\ missed' = missed \cup {k} /\ faults' = faults
      \/ redis' \in {redis, written} /\ missed' = missed \cup {k} /\ Fault
  BY DEF Write
<1>4. client' \in {"unset", "connected", "none"}
  BY <1>2 DEF Client, StoreInv, StoreTypeOK, TierTypeOK
<1>5. faults' \in 0..MaxFaults
  BY <1>3, StoreAssumption DEF Fault, StoreInv, StoreTypeOK, TierTypeOK
<1>6. StoreTypeOK'
  BY <1>1, <1>2, <1>3, <1>4, <1>5 DEF StoreInv, StoreTypeOK, TierTypeOK
<1>7. \A j \in Keys : memory'[j] \in {latest'[j], Nothing}
  BY <1>2 DEF StoreInv, StoreTypeOK, TierTypeOK, TiersFollow
<1>8. \A j \in Keys \ missed' : redis'[j] = latest'[j]
  <2> SUFFICES ASSUME NEW j \in Keys, j \notin missed'
               PROVE  redis'[j] = latest'[j]
    OBVIOUS
  <2>1. CASE j = k
    BY <2>1, <1>2, <1>3 DEF StoreInv, StoreTypeOK, TierTypeOK
  <2>2. CASE j # k
    <3>1. j \notin missed
      BY <2>2, <1>3
    <3>2. redis[j] = latest[j]
      BY <3>1 DEF StoreInv, TiersFollow
    <3>3. redis'[j] = redis[j] /\ latest'[j] = latest[j]
      BY <2>2, <1>2, <1>3 DEF StoreInv, StoreTypeOK, TierTypeOK
    <3>4. QED
      BY <3>2, <3>3
  <2>3. QED
    BY <2>1, <2>2
<1>9. QED
  BY <1>6, <1>7, <1>8 DEF StoreInv, TiersFollow

(* A read writes nothing; at most it drops an expired entry.               *)
LEMMA ReadKeeps ==
  ASSUME StoreInv, NEW k \in Keys, Read(k)
  PROVE  StoreInv'
<1>1. PICK v \in Payloads \cup {Absent} : ReadEntry(k, v)
  BY DEF Read
<1>2. /\ memory' \in {memory, [memory EXCEPT ![k] = Nothing]}
      /\ client' = Client
      /\ UNCHANGED <<clock, redis, redisUp, faults, latest, missed>>
  BY <1>1 DEF ReadEntry, Connect, Read
<1>3. client' \in {"unset", "connected", "none"}
  BY <1>2 DEF Client, StoreInv, StoreTypeOK, TierTypeOK
<1>4. memory' \in [Keys -> Entry]
  BY <1>2 DEF Entry, StoreInv, StoreTypeOK, TierTypeOK
<1>5. \A j \in Keys : memory'[j] \in {latest'[j], Nothing}
  BY <1>2 DEF StoreInv, StoreTypeOK, TierTypeOK, TiersFollow
<1>6. QED
  BY <1>2, <1>3, <1>4, <1>5 DEF StoreInv, StoreTypeOK, TierTypeOK, TiersFollow

(* The environment and clear() only take entries from the dictionary.      *)
LEMMA OthersKeep ==
  ASSUME StoreInv, Clear \/ Environment
  PROVE  StoreInv'
<1>1. memory' \in {memory, Empty} /\ UNCHANGED <<redis, latest, missed>>
  BY DEF Clear, Environment, TimePasses, RedisStops, RedisReturns, Restart, ProcessRestarts
<1>2. clock' \in Nat
  BY DEF Clear, Environment, TimePasses, RedisStops, RedisReturns, Restart, ProcessRestarts,
         StoreInv, StoreTypeOK, TierTypeOK
<1>3. faults' \in 0..MaxFaults
  <2>1. faults \in 0..MaxFaults
    BY DEF StoreInv, StoreTypeOK, TierTypeOK
  <2>2. faults' = faults \/ Fault
    BY DEF Clear, Environment, TimePasses, RedisStops, RedisReturns, Restart
  <2>3. QED
    BY <2>1, <2>2, StoreAssumption DEF Fault
<1>4. redisUp' \in BOOLEAN /\ client' \in {"unset", "connected", "none"}
  BY DEF Clear, Environment, TimePasses, RedisStops, RedisReturns, Restart, ProcessRestarts,
         StoreInv, StoreTypeOK, TierTypeOK
<1>5. Empty \in [Keys -> Entry] /\ \A k \in Keys : Empty[k] = Nothing
  BY DEF Empty, Entry
<1>6. StoreTypeOK'
  BY <1>1, <1>2, <1>3, <1>4, <1>5 DEF StoreInv, StoreTypeOK, TierTypeOK
<1>7. TiersFollow'
  BY <1>1, <1>5 DEF StoreInv, TiersFollow
<1>8. QED
  BY <1>6, <1>7 DEF StoreInv

(* The invariant holds of every run of the store. *)
THEOREM StoreInvariant == StoreSpec => []StoreInv
<1>1. StoreInv /\ [StoreNext]_storeVars => StoreInv'
  <2> SUFFICES ASSUME StoreInv, [StoreNext]_storeVars
               PROVE  StoreInv'
    OBVIOUS
  <2>1. CASE \E k \in Keys, s \in Payloads : Save(k, s)
    <3>1. PICK k \in Keys, s \in Payloads : Save(k, s)
      BY <2>1
    <3>2. Fresh(s) \in Entry
      BY FreshIsEntry DEF StoreInv, StoreTypeOK, TierTypeOK
    <3>3. QED
      BY <3>1, <3>2, WriteKeeps DEF Save
  <2>2. CASE \E k \in Keys : Delete(k)
    BY <2>2, WriteKeeps DEF Delete, Entry
  <2>3. CASE \E k \in Keys : Read(k)
    BY <2>3, ReadKeeps
  <2>4. CASE Clear \/ Environment
    BY <2>4, OthersKeep
  <2>5. CASE UNCHANGED storeVars
    BY <2>5 DEF storeVars, tierVars, StoreInv, StoreTypeOK, TierTypeOK, TiersFollow
  <2>6. QED
    BY <2>1, <2>2, <2>3, <2>4, <2>5 DEF StoreNext
<1>2. QED
  BY <1>1, InitStore, PTL DEF StoreSpec

(* What the dictionary answers is what the last write left, or nothing.    *)
LEMMA MemoryAnswers ==
  ASSUME StoreInv, NEW k \in Keys
  PROVE  InMemory(k) \in {Expected(k), Absent}
BY DEF StoreInv, TiersFollow, InMemory, Expected, MemoryLive, Nothing

(* Every variable of the store keeps its type (session_store.py). *)
THEOREM StoreTypeCorrect == StoreSpec => []StoreTypeOK
<1>1. StoreInv => StoreTypeOK
  BY DEF StoreInv
<1>2. QED
  BY <1>1, StoreInvariant, PTL

(* No read of a key whose last write Redis confirmed returns anything      *)
(* older (session_store.py, save, get_raw and delete).                     *)
THEOREM ReadsAreFresh == StoreSpec => []NoStaleRead
<1>1. StoreInv => NoStaleRead
  <2> SUFFICES ASSUME StoreInv, NEW k \in Keys, k \notin missed
               PROVE  Answers(k) \subseteq {Expected(k), Absent}
    BY DEF NoStaleRead
  <2>1. redis[k] = latest[k]
    BY DEF StoreInv, TiersFollow
  <2>2. latest[k] \in Entry /\ clock \in Nat
    BY DEF StoreInv, StoreTypeOK, TierTypeOK
  <2>3. RedisLive(latest[k]) => MemoryLive(latest[k])
    BY <2>2 DEF RedisLive, MemoryLive, Entry, Nothing
  <2>4. Found(k) \in {Expected(k), Absent}
    BY <2>1, <2>3, MemoryAnswers DEF Found, Expected
  <2>5. QED
    BY <2>4, MemoryAnswers DEF Answers
<1>2. QED
  BY <1>1, StoreInvariant, PTL

(* A snapshot that Redis confirmed and still has is found by every process *)
(* that can ask for it (session_store.py, _get_redis and get_raw).         *)
THEOREM SnapshotsSurvive == StoreSpec => []SurvivesRestart
<1>1. StoreInv => SurvivesRestart
  BY DEF StoreInv, TiersFollow, SurvivesRestart, Found
<1>2. QED
  BY <1>1, StoreInvariant, PTL

(* While Redis cannot be asked the dictionary answers, and is never behind *)
(* (session_store.py, the fallback of get_raw).                            *)
THEOREM OutagesAreFresh == StoreSpec => []OutageReadsAreFresh
<1>1. StoreInv => OutageReadsAreFresh
  BY MemoryAnswers DEF OutageReadsAreFresh, Found
<1>2. QED
  BY <1>1, StoreInvariant, PTL

=============================================================================
