------------------------- MODULE ToolRuntime_proofs -------------------------
(***************************************************************************)
(* The safety of the tool runtime, for all sets of calls, keys, orders and *)
(* records, every number of attempts and every time to live.  The          *)
(* invariant says where a call stands (CallFollows), that both tiers hold  *)
(* only orders their key has fetched, for its owner and no longer than the *)
(* time to live (EntriesDated), and that until the process is restarted    *)
(* the dictionary covers what was fetched (FetchesCovered).                *)
(***************************************************************************)
EXTENDS ToolRuntime, TLAPS

Counted(code, n) ==
  /\ code = "CIRCUIT_BREAKER_TRIPPED" => n = MaxAttempts
  /\ n = 0 => code \in {"TOOL_NOT_FOUND", "INVALID_ARGUMENTS"}

CallFollows(c) ==
  /\ phase[c] = "new" => attempts[c] = 0
  /\ phase[c] = "sleeping" =>
       /\ key[c] \in Keys \cap Catalog
       /\ attempts[c] \in 1..(MaxAttempts - 1)
       /\ outcome[c] \in {"network", "missing"}
  /\ phase[c] # "done" => result[c] = Failure("none")
  /\ phase[c] = "done" =>
       \/ \E r \in Payloads : result[c] = Success(r) /\ r.owner = Sender[key[c]]
       \/ \E code : result[c] = Failure(code) /\ Counted(code, attempts[c])

(* An entry under k: an order its owner fetched, at most TTL before it expires. *)
Dated(k, entry) ==
  entry.payload # Absent =>
    /\ entry.payload.owner = Sender[k]
    /\ fetched[k][entry.payload] # Never
    /\ entry.expires <= fetched[k][entry.payload] + TTL

EntriesDated == \A k \in Keys : Dated(k, redis[k]) /\ Dated(k, memory[k])

FetchTimes ==
  /\ fetched \in [Keys -> [Payloads -> Int]]
  /\ \A k \in Keys, r \in Payloads :
       fetched[k][r] # Never => k \in Catalog /\ fetched[k][r] <= clock

FetchesCovered ==
  Cached /\ ~crashed => \A k \in Keys, r \in Payloads :
    \/ memory[k].payload # Absent /\ fetched[k][r] + TTL <= memory[k].expires
    \/ fetched[k][r] + TTL <= clock

CallTypes ==
  /\ key \in [Calls -> Keys \cup {NoKey}]
  /\ phase \in [Calls -> {"new", "sleeping", "done", "lost"}]
  /\ attempts \in [Calls -> 0..MaxAttempts]
  /\ outcome \in [Calls -> {"none", "network", "unreadable", "missing", "record"}]
  /\ DOMAIN result = Calls
  /\ result = [c \in Calls |-> result[c]]

OrderTypes ==
  erp \in [Orders -> Payloads \cup {NoOrder}] /\ edits \in 0..MaxEdits

RuntimeInv ==
  /\ TierTypeOK /\ OrderTypes /\ CallTypes /\ crashed \in BOOLEAN
  /\ \A c \in Calls : CallFollows(c)
  /\ EntriesDated /\ FetchTimes /\ FetchesCovered

(* The two bounds that the assumption gives. *)
LEMMA BoundsAreNatural == MaxAttempts \in Nat /\ MaxAttempts >= 1 /\ MaxEdits \in Nat
<1>1. MaxAttempts \in Nat \ {0} /\ MaxEdits \in Nat
  BY ONLY RuntimeAssumption, Zenon
<1>2. QED
  BY <1>1

(* The runtime starts with empty tiers and no call under way. *)
LEMMA InitRuntime ==
  ASSUME Init
  PROVE  RuntimeInv
<1>1. TierTypeOK
  BY StoreAssumption DEF Init, TierInit, TierTypeOK, Empty, Entry
<1>2. OrderTypes /\ crashed \in BOOLEAN
  <2>1. erp \in [Orders -> Payloads \cup {NoOrder}] /\ edits = 0 /\ crashed = FALSE
    BY DEF Init
  <2>2. OrderTypes
    BY <2>1, BoundsAreNatural DEF OrderTypes
  <2>3. QED
    BY <2>1, <2>2
<1>3. CallTypes
  BY BoundsAreNatural DEF Init, CallTypes
<1>4. \A c \in Calls : CallFollows(c)
  BY DEF Init, CallFollows
<1>5. EntriesDated
  BY DEF Init, TierInit, EntriesDated, Dated, Empty, Nothing
<1>6. FetchTimes
  BY StoreAssumption DEF Init, FetchTimes, Never
<1>7. FetchesCovered
  BY StoreAssumption DEF Init, TierInit, FetchesCovered, Never
<1>8. QED
  BY <1>1, <1>2, <1>3, <1>4, <1>5, <1>6, <1>7 DEF RuntimeInv

-----------------------------------------------------------------------------
(***************************************************************************)
(* What the steps of a call do.                                            *)
(***************************************************************************)
OrdersStay == UNCHANGED <<erp, edits>>

(* The call ends with a failure: nothing is fetched and nothing cached.    *)
FailsAs(c, code, n) ==
  /\ phase[c] \in {"new", "sleeping"}
  /\ phase' = [phase EXCEPT ![c] = "done"]
  /\ result' = [result EXCEPT ![c] = Failure(code)]
  /\ attempts' = [attempts EXCEPT ![c] = n] /\ n \in 0..MaxAttempts
  /\ Counted(code, n)
  /\ UNCHANGED <<clock, redis, redisUp, memory, faults, fetched, crashed, erp, edits>>

(* The call sleeps before its next attempt. *)
Sleeps(c, k) ==
  /\ phase[c] \in {"new", "sleeping"}
  /\ phase' = [phase EXCEPT ![c] = "sleeping"]
  /\ key'[c] = k /\ k \in Keys \cap Catalog
  /\ attempts' = [attempts EXCEPT ![c] = @ + 1]
  /\ attempts'[c] \in 1..(MaxAttempts - 1)
  /\ outcome'[c] \in {"network", "missing"}
  /\ UNCHANGED <<clock, redis, redisUp, memory, faults, result, fetched, crashed, erp, edits>>

(* The call ends with an order of its customer, which is cached.           *)
Fetches(c, k, r) ==
  /\ phase[c] \in {"new", "sleeping"}
  /\ phase' = [phase EXCEPT ![c] = "done"]
  /\ key'[c] = k /\ k \in Keys \cap Catalog
  /\ r \in Payloads /\ r.owner = Sender[k]
  /\ result' = [result EXCEPT ![c] = Success(r)]
  /\ attempts' = [attempts EXCEPT ![c] = @ + 1] /\ attempts'[c] \in 1..MaxAttempts
  /\ fetched' = [fetched EXCEPT ![k][r] = clock]
  /\ Remember(k, Success(r))
  /\ UNCHANGED <<clock, redisUp, crashed, erp, edits>>

(* The call ends with a live entry of one of the tiers.                    *)
Hits(c, k, r) ==
  /\ phase[c] = "new"
  /\ phase' = [phase EXCEPT ![c] = "done"]
  /\ key'[c] = k /\ k \in Keys
  /\ r \in Payloads /\ r \in Answers(k)
  /\ result' = [result EXCEPT ![c] = Success(r)]
  /\ UNCHANGED <<clock, redis, redisUp, memory, faults, attempts, fetched, crashed, erp, edits>>

(* One call moves; its key and outcome and the client keep their types.    *)
Moves(c) ==
  /\ client' \in {client, Client}
  /\ \E k \in Keys \cup {NoKey} : key' = [key EXCEPT ![c] = k]
  /\ \E o \in {"none", "network", "unreadable", "missing", "record"} :
       outcome' = [outcome EXCEPT ![c] = o]

(* A refusal, a bad record and a failed attempt end a call with a code of  *)
(* their own, and only the owner is shown the order (order_status.py).     *)
LEMMA ResultIsCounted ==
  ASSUME RuntimeInv, NEW k \in Keys, NEW o \in AttemptOutcomes(k), NEW n \in 1..MaxAttempts,
         o = "network" => n = MaxAttempts
  PROVE  \/ \E code : ResultOf(k, o) = Failure(code) /\ Counted(code, n)
         \/ \E r \in Payloads : ResultOf(k, o) = Success(r) /\ r.owner = Sender[k]
<1>1. CASE o = "record"
  <2> DEFINE record == erp[OrderOf[k]]
  <2>1. record \in Payloads
    BY <1>1, RuntimeAssumption DEF AttemptOutcomes, RuntimeInv, OrderTypes
  <2>2. Sender[k] # NoOwner
    BY RuntimeAssumption
  <2>3. ResultOf(k, o) = Deliver(k)
    BY <1>1 DEF ResultOf
  <2>4. CASE record.owner = Sender[k]
    <3>1. Refusal(Sender[k], record) = ""
      BY <2>2, <2>4 DEF Refusal
    <3>2. CASE record.defect = ""
      BY <2>1, <2>3, <2>4, <3>1, <3>2 DEF Deliver
    <3>3. CASE record.defect # ""
      <4>1. record.defect \in {"INVALID_ARGUMENTS", "TOOL_EXECUTION_ERROR"}
        BY <2>1, <3>3, RuntimeAssumption
      <4>2. ResultOf(k, o) = Failure(record.defect)
        BY <2>3, <3>1, <3>3 DEF Deliver
      <4>3. QED
        BY <4>1, <4>2 DEF Counted
    <3>4. QED
      BY <3>2, <3>3
  <2>5. CASE record.owner # Sender[k]
    <3> DEFINE code == Refusal(Sender[k], record)
    <3>1. code \in {"MISSING_CUSTOMER_EMAIL", "SECURITY_UNAUTHORIZED_ACCESS"}
      BY <2>2, <2>5 DEF Refusal
    <3>2. ResultOf(k, o) = Failure(code)
      BY <2>3, <3>1 DEF Deliver
    <3>3. QED
      BY <3>1, <3>2 DEF Counted
  <2>6. QED
    BY <2>4, <2>5
<1>2. CASE o # "record"
  <2>1. o \in {"network", "unreadable", "missing"}
    BY <1>2 DEF AttemptOutcomes
  <2>2. QED
    BY <2>1 DEF ResultOf, Counted
<1>3. QED
  BY <1>1, <1>2

(* An attempt on the ERP: the call sleeps, fails or has fetched an order.  *)
LEMMA AttemptEffect ==
  ASSUME RuntimeInv, NEW c \in Calls, NEW k \in Keys, k \in Catalog, Attempt(c, k),
         phase[c] \in {"new", "sleeping"}, key'[c] = k, attempts[c] \in 0..(MaxAttempts - 1),
         UNCHANGED crashed
  PROVE  \/ \E code : FailsAs(c, code, attempts[c] + 1)
         \/ Sleeps(c, k)
         \/ \E r \in Payloads : Fetches(c, k, r)
<1>1. PICK o \in AttemptOutcomes(k) :
        /\ outcome' = [outcome EXCEPT ![c] = o]
        /\ IF IsRetryable(k, o) /\ AttemptsLeft(c)
           THEN Retry(c) ELSE Conclude(c, k, ResultOf(k, o))
  BY DEF Attempt
<1>2. /\ attempts' = [attempts EXCEPT ![c] = @ + 1]
      /\ UNCHANGED <<clock, redisUp, erp, edits>>
  BY DEF Attempt
<1>3. attempts'[c] = attempts[c] + 1 /\ attempts[c] + 1 \in 1..MaxAttempts
  BY <1>2, BoundsAreNatural DEF RuntimeInv, CallTypes
<1>4. CASE IsRetryable(k, o) /\ AttemptsLeft(c)
  <2>1. attempts[c] + 1 < MaxAttempts
    BY <1>4 DEF AttemptsLeft
  <2>2. outcome'[c] \in {"network", "missing"}
    BY <1>1, <1>4 DEF IsRetryable, RuntimeInv, CallTypes
  <2>3. Sleeps(c, k)
    BY <1>1, <1>2, <1>3, <1>4, <2>1, <2>2, BoundsAreNatural DEF Retry, Sleeps
  <2>4. QED
    BY <2>3
<1>5. CASE ~(IsRetryable(k, o) /\ AttemptsLeft(c))
  <2>1. o = "network" => attempts[c] + 1 = MaxAttempts
    BY <1>3, <1>5, BoundsAreNatural DEF IsRetryable, AttemptsLeft
  <2>2. Conclude(c, k, ResultOf(k, o))
    BY <1>1, <1>5
  <2>3. CASE \E code : ResultOf(k, o) = Failure(code) /\ Counted(code, attempts[c] + 1)
    <3>1. PICK code : ResultOf(k, o) = Failure(code) /\ Counted(code, attempts[c] + 1)
      BY <2>3
    <3>2. ~ResultOf(k, o).success
      BY <3>1 DEF Failure
    <3>3. FailsAs(c, code, attempts[c] + 1)
      BY <1>2, <1>3, <2>2, <3>1, <3>2, BoundsAreNatural
         DEF Conclude, Finish, Remember, FailsAs, RuntimeInv, CallTypes
    <3>4. QED
      BY <3>3
  <2>4. CASE \E r \in Payloads : ResultOf(k, o) = Success(r) /\ r.owner = Sender[k]
    <3>1. PICK r \in Payloads : ResultOf(k, o) = Success(r) /\ r.owner = Sender[k]
      BY <2>4
    <3>2. Success(r).success /\ Success(r).order = r
      BY DEF Success
    <3>3. /\ result' = [result EXCEPT ![c] = Success(r)]
          /\ phase' = [phase EXCEPT ![c] = "done"]
          /\ Remember(k, Success(r))
          /\ fetched' = [fetched EXCEPT ![k][r] = clock]
      BY <2>2, <3>1, <3>2 DEF Conclude, Finish
    <3>4. Fetches(c, k, r)
      BY <1>2, <1>3, <3>1, <3>3 DEF Fetches
    <3>5. QED
      BY <3>4
  <2>5. QED
    BY <1>3, <2>1, <2>3, <2>4, ResultIsCounted
<1>6. QED
  BY <1>4, <1>5

(* A step of a call is one of these four (registry.py execute).            *)
LEMMA ExecuteEffect ==
  ASSUME RuntimeInv, NEW c \in Calls, Execute(c)
  PROVE  /\ Moves(c)
         /\ \/ \E code, n : FailsAs(c, code, n)
            \/ \E k \in Keys : Sleeps(c, k)
            \/ \E k \in Keys, r \in Payloads : Fetches(c, k, r) \/ Hits(c, k, r)
<1> USE DEF RuntimeInv, CallTypes
<1>0. outcome = [outcome EXCEPT ![c] = outcome[c]] /\ key = [key EXCEPT ![c] = key[c]]
      /\ attempts = [attempts EXCEPT ![c] = attempts[c]]
  OBVIOUS
<1>1. ASSUME NEW k \in Keys, RefuseUnknown(c, k)
      PROVE  Moves(c) /\ FailsAs(c, "TOOL_NOT_FOUND", 0)
  <2>1. phase[c] = "new" /\ attempts[c] = 0
    BY <1>1 DEF RefuseUnknown, Starts, CallFollows
  <2>2. Moves(c)
    BY <1>0, <1>1 DEF RefuseUnknown, Starts, EndsWithoutErp, tierVars, Moves
  <2>3. QED
    BY <1>0, <1>1, <2>1, <2>2, RuntimeAssumption
       DEF RefuseUnknown, Starts, Finish, EndsWithoutErp, tierVars, FailsAs, Counted
<1>2. ASSUME NEW k \in Keys, RefuseArguments(c, k)
      PROVE  Moves(c) /\ FailsAs(c, "INVALID_ARGUMENTS", 0)
  <2>1. phase[c] = "new" /\ attempts[c] = 0
    BY <1>2 DEF RefuseArguments, CacheMiss, Starts, CallFollows
  <2>2. Moves(c)
    BY <1>0, <1>2 DEF RefuseArguments, CacheMiss, Starts, EndsWithoutErp, Moves
  <2>3. QED
    BY <1>0, <1>2, <2>1, <2>2, RuntimeAssumption
       DEF RefuseArguments, CacheMiss, Starts, Finish, EndsWithoutErp, FailsAs, Counted
<1>3. ASSUME NEW k \in Keys, CacheHit(c, k)
      PROVE  Moves(c) /\ \E r \in Payloads : Hits(c, k, r)
  <2>1. PICK r \in Payloads : ReadEntry(k, r) /\ Finish(c, Success(r))
    BY <1>3 DEF CacheHit
  <2>2. r # Absent
    BY StoreAssumption
  <2>3. memory' = memory /\ UNCHANGED <<clock, redis, redisUp, faults>> /\ r \in Answers(k)
        /\ client' = Client
    BY <2>1, <2>2 DEF ReadEntry, Connect
  <2>4. /\ phase[c] = "new" /\ key' = [key EXCEPT ![c] = k] /\ crashed' = crashed
        /\ UNCHANGED <<erp, edits, attempts, outcome, fetched>>
    BY <1>3 DEF CacheHit, Starts, EndsWithoutErp
  <2>5. Moves(c)
    BY <1>0, <2>3, <2>4 DEF Moves
  <2>6. Hits(c, k, r)
    BY <2>1, <2>3, <2>4 DEF Finish, Hits
  <2>7. QED
    BY <2>5, <2>6
<1>4. ASSUME NEW k \in Keys, k \in Catalog, Attempt(c, k), phase[c] \in {"new", "sleeping"},
             key' = [key EXCEPT ![c] = k], UNCHANGED crashed, client' \in {client, Client}
      PROVE  /\ Moves(c)
             /\ \/ \E code, n : FailsAs(c, code, n)
                \/ Sleeps(c, k)
                \/ \E r \in Payloads : Fetches(c, k, r)
  <2>1. attempts[c] \in 0..(MaxAttempts - 1)
    BY <1>4, BoundsAreNatural DEF CallFollows
  <2>2. key'[c] = k
    BY <1>4
  <2>3. PICK o \in AttemptOutcomes(k) : outcome' = [outcome EXCEPT ![c] = o]
    BY <1>4 DEF Attempt
  <2>4. o \in {"none", "network", "unreadable", "missing", "record"}
    BY <2>3 DEF AttemptOutcomes
  <2>5. Moves(c)
    BY <1>4, <2>3, <2>4 DEF Moves
  <2>6. QED
    BY <1>4, <2>1, <2>2, <2>5, AttemptEffect
<1>5. ASSUME NEW k \in Keys, FirstAttempt(c, k)
      PROVE  /\ Moves(c)
             /\ \/ \E code, n : FailsAs(c, code, n)
                \/ Sleeps(c, k)
                \/ \E r \in Payloads : Fetches(c, k, r)
  BY <1>4, <1>5 DEF FirstAttempt, CacheMiss, Starts
<1>6. ASSUME NextAttempt(c)
      PROVE  /\ Moves(c)
             /\ \/ \E code, n : FailsAs(c, code, n)
                \/ Sleeps(c, key[c])
                \/ \E r \in Payloads : Fetches(c, key[c], r)
  <2>1. key[c] \in Keys \cap Catalog
    BY <1>6 DEF NextAttempt, CallFollows
  <2>2. QED
    BY <1>0, <1>4, <1>6, <2>1 DEF NextAttempt
<1>7. CASE NextAttempt(c)
  <2>1. key[c] \in Keys
    BY <1>7 DEF NextAttempt, CallFollows
  <2>2. QED
    BY <1>6, <1>7, <2>1
<1>8. CASE \E k \in Keys : \/ RefuseUnknown(c, k) \/ CacheHit(c, k)
                           \/ RefuseArguments(c, k) \/ FirstAttempt(c, k)
  BY <1>1, <1>2, <1>3, <1>5, <1>8
<1>9. QED
  BY <1>7, <1>8 DEF Execute

-----------------------------------------------------------------------------
(***************************************************************************)
(* A step of a call preserves each part of the invariant.                  *)
(***************************************************************************)
CallStep(c) ==
  /\ Moves(c)
  /\ \/ \E code, n : FailsAs(c, code, n)
     \/ \E k \in Keys : Sleeps(c, k)
     \/ \E k \in Keys, r \in Payloads : Fetches(c, k, r) \/ Hits(c, k, r)

(* A success is written to Redis unless a live entry is there, and to the  *)
(* dictionary; nothing is written without a cache (cache.py set).          *)
LEMMA RememberEffect ==
  ASSUME RuntimeInv, NEW k \in Keys, NEW r \in Payloads, Remember(k, Success(r))
  PROVE  /\ redis' \in {redis, [redis EXCEPT ![k] = Fresh(r)]}
         /\ memory' = IF Cached THEN [memory EXCEPT ![k] = Fresh(r)] ELSE memory
         /\ faults' \in 0..MaxFaults
<1>1. Success(r).success /\ Success(r).order = r
  BY DEF Success
<1>2. faults \in 0..MaxFaults
  BY DEF RuntimeInv, TierTypeOK
<1>3. CASE Cached
  <2>1. CacheSet(k, r)
    BY <1>1, <1>3 DEF Remember
  <2>2. /\ redis' \in {redis, [redis EXCEPT ![k] = Fresh(r)]}
        /\ memory' = [memory EXCEPT ![k] = Fresh(r)]
        /\ faults' = faults \/ Fault
    BY <2>1 DEF CacheSet
  <2>3. faults' \in 0..MaxFaults
    BY <1>2, <2>2, StoreAssumption DEF Fault
  <2>4. QED
    BY <1>3, <2>2, <2>3
<1>4. CASE ~Cached
  BY <1>2, <1>4 DEF Remember
<1>5. QED
  BY <1>3, <1>4

(* Every variable keeps its type in a step of a call. *)
LEMMA CallKeepsTypes ==
  ASSUME RuntimeInv, NEW c \in Calls, CallStep(c)
  PROVE  (TierTypeOK /\ OrderTypes /\ CallTypes /\ crashed \in BOOLEAN)'
<1>1. /\ client' \in {"unset", "connected", "none"}
      /\ key' \in [Calls -> Keys \cup {NoKey}]
      /\ outcome' \in [Calls -> {"none", "network", "unreadable", "missing", "record"}]
  BY DEF CallStep, Moves, Client, RuntimeInv, CallTypes, TierTypeOK
<1>2. UNCHANGED <<clock, redisUp, crashed, erp, edits>>
  BY DEF CallStep, FailsAs, Sleeps, Fetches, Hits
<1>3. /\ phase' \in [Calls -> {"new", "sleeping", "done", "lost"}]
      /\ DOMAIN result' = Calls /\ result' = [d \in Calls |-> result'[d]]
  BY DEF CallStep, FailsAs, Sleeps, Fetches, Hits, RuntimeInv, CallTypes
<1>4. attempts' \in [Calls -> 0..MaxAttempts]
  BY BoundsAreNatural DEF CallStep, FailsAs, Sleeps, Fetches, Hits, RuntimeInv, CallTypes
<1>5. \A r \in Payloads : Fresh(r) \in Entry
  BY StoreAssumption DEF Fresh, Entry, RuntimeInv, TierTypeOK
<1>6. redis' \in [Keys -> Entry] /\ memory' \in [Keys -> Entry] /\ faults' \in 0..MaxFaults
  <2>1. CASE UNCHANGED <<redis, memory, faults>>
    BY <2>1 DEF RuntimeInv, TierTypeOK
  <2>2. CASE \E k \in Keys, r \in Payloads : Fetches(c, k, r)
    <3>1. PICK k \in Keys, r \in Payloads : Remember(k, Success(r))
      BY <2>2 DEF Fetches
    <3>2. QED
      BY <1>5, <3>1, RememberEffect DEF RuntimeInv, TierTypeOK
  <2>3. QED
    BY <2>1, <2>2 DEF CallStep, FailsAs, Sleeps, Hits
<1>7. QED
  BY <1>1, <1>2, <1>3, <1>4, <1>6 DEF RuntimeInv, TierTypeOK, OrderTypes, CallTypes

(* What a live entry of a tier holds, its key has fetched (cache.py get).  *)
LEMMA AnswerIsDated ==
  ASSUME RuntimeInv, NEW k \in Keys, NEW r \in Payloads, r \in Answers(k)
  PROVE  /\ r.owner = Sender[k]
         /\ fetched[k][r] # Never
         /\ clock <= fetched[k][r] + TTL
<1>1. r # Absent
  BY StoreAssumption
<1>2. \/ RedisLive(redis[k]) /\ r = redis[k].payload
      \/ MemoryLive(memory[k]) /\ r = memory[k].payload
  BY <1>1 DEF Answers, Found, InMemory
<1>3. /\ fetched[k][r] \in Int /\ clock \in Nat /\ TTL \in Nat
      /\ redis[k].payload # Absent => redis[k].expires \in Nat
      /\ memory[k].payload # Absent => memory[k].expires \in Nat
  BY StoreAssumption DEF RuntimeInv, FetchTimes, TierTypeOK, Entry, Nothing
<1>4. Dated(k, redis[k]) /\ Dated(k, memory[k])
  BY DEF RuntimeInv, EntriesDated
<1>5. QED
  BY <1>1, <1>2, <1>3, <1>4 DEF RedisLive, MemoryLive, Dated

(* A step of a call keeps attempts, waits and fetches of the calls in line (base.py execute, retry.py). *)
LEMMA CallKeepsCalls ==
  ASSUME RuntimeInv, NEW c \in Calls, CallStep(c)
  PROVE  \A d \in Calls : CallFollows(d)'
<1> USE DEF RuntimeInv, CallTypes
<1>1. ASSUME NEW d \in Calls, d # c
      PROVE  CallFollows(d)'
  <2>1. /\ phase'[d] = phase[d] /\ attempts'[d] = attempts[d] /\ result'[d] = result[d]
        /\ key'[d] = key[d] /\ outcome'[d] = outcome[d]
    BY <1>1 DEF CallStep, Moves, FailsAs, Sleeps, Fetches, Hits
  <2>2. CallFollows(d)
    OBVIOUS
  <2>3. QED
    BY <2>1, <2>2 DEF CallFollows
<1>2. CallFollows(c)'
  <2>1. ASSUME NEW code, NEW n, FailsAs(c, code, n)
        PROVE  CallFollows(c)'
    <3>1. phase'[c] = "done" /\ attempts'[c] = n /\ result'[c] = Failure(code)
          /\ Counted(code, n)
      BY <2>1 DEF FailsAs
    <3>2. Counted(code, attempts'[c])
      BY <3>1
    <3>3. QED
      BY <3>1, <3>2 DEF CallFollows
  <2>2. ASSUME NEW k \in Keys, Sleeps(c, k)
        PROVE  CallFollows(c)'
    <3>1. CallFollows(c)
      OBVIOUS
    <3>2. /\ phase'[c] = "sleeping" /\ key'[c] \in Keys \cap Catalog
          /\ result'[c] = result[c] /\ result[c] = Failure("none")
          /\ attempts'[c] \in 1..(MaxAttempts - 1)
          /\ outcome'[c] \in {"network", "missing"}
      BY <2>2, <3>1 DEF Sleeps, CallFollows
    <3>3. QED
      BY <3>2 DEF CallFollows
  <2>3. ASSUME NEW k \in Keys, NEW r \in Payloads, Fetches(c, k, r) \/ Hits(c, k, r)
        PROVE  CallFollows(c)'
    <3>1. phase'[c] = "done" /\ result'[c] = Success(r) /\ key'[c] = k
      BY <2>3 DEF Fetches, Hits
    <3>2. r.owner = Sender[k]
      BY <2>3, AnswerIsDated DEF Fetches, Hits
    <3>3. QED
      BY <3>1, <3>2 DEF CallFollows
  <2>4. QED
    BY <2>1, <2>2, <2>3 DEF CallStep
<1>3. QED
  BY <1>1, <1>2

(* An order just fetched is the newest of its key, and covers its entry.   *)
LEMMA FetchKeepsTiers ==
  ASSUME RuntimeInv, NEW c \in Calls, NEW k \in Keys, NEW r \in Payloads, Fetches(c, k, r)
  PROVE  (EntriesDated /\ FetchTimes /\ FetchesCovered)'
<1>1. /\ redis' \in {redis, [redis EXCEPT ![k] = Fresh(r)]}
      /\ memory' = IF Cached THEN [memory EXCEPT ![k] = Fresh(r)] ELSE memory
      /\ fetched' = [fetched EXCEPT ![k][r] = clock]
      /\ UNCHANGED <<clock, crashed>> /\ r.owner = Sender[k] /\ k \in Catalog
  BY RememberEffect DEF Fetches
<1>2. /\ clock \in Nat /\ TTL \in Nat /\ TTL >= 1 /\ Never \in Int /\ Never < 0
      /\ redis \in [Keys -> Entry] /\ memory \in [Keys -> Entry]
      /\ fetched \in [Keys -> [Payloads -> Int]]
  BY StoreAssumption DEF RuntimeInv, TierTypeOK, FetchTimes, Never
<1>3. /\ fetched' \in [Keys -> [Payloads -> Int]]
      /\ fetched'[k][r] = clock
      /\ \A j \in Keys, q \in Payloads :
           <<j, q>> # <<k, r>> => fetched'[j][q] = fetched[j][q]
  BY <1>1, <1>2
<1>4. \A j \in Keys, q \in Payloads :
        /\ fetched'[j][q] # Never => j \in Catalog /\ fetched'[j][q] <= clock
        /\ fetched[j][q] # Never => fetched'[j][q] # Never /\ fetched[j][q] <= fetched'[j][q]
  BY <1>1, <1>2, <1>3 DEF RuntimeInv, FetchTimes
<1>5. FetchTimes'
  BY <1>1, <1>3, <1>4 DEF FetchTimes
<1>6. ASSUME NEW j \in Keys, NEW e \in Entry, Dated(j, e)
      PROVE  Dated(j, e)'
  <2>1. CASE e.payload = Absent
    BY <2>1 DEF Dated
  <2>2. CASE e.payload # Absent
    <3>1. e.payload \in Payloads /\ e.expires \in Nat
      BY <2>2 DEF Entry, Nothing
    <3>2. QED
      BY <1>2, <1>3, <1>4, <1>6, <3>1 DEF Dated
  <2>3. QED
    BY <2>1, <2>2
<1>7. Dated(k, Fresh(r))'
  BY <1>1, <1>2, <1>3 DEF Dated, Fresh
<1>8. ASSUME NEW j \in Keys
      PROVE  Dated(j, redis[j])' /\ Dated(j, memory[j])'
  <2>1. Dated(j, redis[j]) /\ Dated(j, memory[j])
    BY DEF RuntimeInv, EntriesDated
  <2>2. redis'[j] \in {redis[j], Fresh(r)} /\ (redis'[j] # redis[j] => j = k)
    BY <1>1, <1>2
  <2>3. memory'[j] \in {memory[j], Fresh(r)} /\ (memory'[j] # memory[j] => j = k)
    BY <1>1, <1>2
  <2>4. redis[j] \in Entry /\ memory[j] \in Entry
    BY <1>2
  <2> DEFINE DatedNow(e) == e.payload # Absent =>
               /\ e.payload.owner = Sender[j]
               /\ fetched'[j][e.payload] # Never
               /\ e.expires <= fetched'[j][e.payload] + TTL
  <2>5. DatedNow(redis[j]) /\ DatedNow(memory[j])
    BY <1>6, <2>1, <2>4 DEF Dated
  <2>6. j = k => DatedNow(Fresh(r))
    BY <1>1, <1>2, <1>3 DEF Fresh
  <2>7. DatedNow(redis'[j]) /\ DatedNow(memory'[j])
    <3> HIDE DEF DatedNow
    <3>1. QED
      BY <2>2, <2>3, <2>5, <2>6
  <2>8. QED
    BY <2>7 DEF Dated
<1>9. EntriesDated'
  BY <1>8 DEF EntriesDated
<1>10. FetchesCovered'
  <2> SUFFICES ASSUME Cached, ~crashed, NEW j \in Keys, NEW q \in Payloads
               PROVE  \/ /\ memory'[j].payload # Absent
                         /\ fetched'[j][q] + TTL <= memory'[j].expires
                      \/ fetched'[j][q] + TTL <= clock'
    BY <1>1 DEF FetchesCovered
  <2>1. CASE j = k
    <3>1. memory'[j] = Fresh(r) /\ r # Absent
      BY <1>1, <1>2, <2>1, StoreAssumption
    <3>2. fetched'[j][q] \in Int /\ fetched'[j][q] <= clock
      BY <1>2, <1>3, <1>4
    <3>3. QED
      BY <1>2, <3>1, <3>2 DEF Fresh
  <2>2. CASE j # k
    BY <1>1, <1>2, <1>3, <2>2 DEF RuntimeInv, FetchesCovered
  <2>3. QED
    BY <2>1, <2>2
<1>11. QED
  BY <1>5, <1>9, <1>10

(* A step of a call writes no entry its key has not fetched (registry.py execute, cache.py set). *)
LEMMA CallKeepsTiers ==
  ASSUME RuntimeInv, NEW c \in Calls, CallStep(c)
  PROVE  (EntriesDated /\ FetchTimes /\ FetchesCovered)'
<1>1. CASE UNCHANGED <<clock, redis, memory, fetched, crashed>>
  BY <1>1 DEF RuntimeInv, EntriesDated, FetchTimes, FetchesCovered, Dated
<1>2. CASE \E k \in Keys, r \in Payloads : Fetches(c, k, r)
  BY <1>2, FetchKeepsTiers
<1>3. QED
  BY <1>1, <1>2 DEF CallStep, FailsAs, Sleeps, Hits

-----------------------------------------------------------------------------
(* Edits of the orders change nothing else.                                *)
LEMMA EditKeeps ==
  ASSUME RuntimeInv, NEW o \in Orders, Edit(o)
  PROVE  RuntimeInv'
<1>1. erp' \in [Orders -> Payloads \cup {NoOrder}]
  BY DEF Edit, RuntimeInv, OrderTypes
<1>2. edits' \in 0..MaxEdits
  BY BoundsAreNatural DEF Edit, RuntimeInv, OrderTypes
<1>3. UNCHANGED <<tierVars, key, phase, attempts, outcome, result, fetched, crashed>>
  BY DEF Edit, histVars
<1>4. QED
  BY <1>1, <1>2, <1>3
     DEF RuntimeInv, TierTypeOK, OrderTypes, CallTypes, CallFollows, EntriesDated, Dated,
         FetchTimes, FetchesCovered, tierVars

(* Time lets an entry of the dictionary expire only when what it covers is *)
(* older than the time to live; Redis may stop and return.                 *)
LEMMA EnvironmentKeeps ==
  ASSUME RuntimeInv, Environment
  PROVE  RuntimeInv'
<1>1. UNCHANGED <<redis, memory, client, erp, edits, key, phase, attempts, outcome, result,
                  fetched, crashed>>
  BY DEF Environment, TimePasses, RedisStops, RedisReturns, histVars
<1>2. /\ clock \in Nat /\ clock' \in Nat /\ clock <= clock'
      /\ redisUp' \in BOOLEAN
  <2>1. clock \in Nat /\ redisUp \in BOOLEAN
    BY DEF RuntimeInv, TierTypeOK
  <2>2. clock' = clock \/ clock' = clock + 1
    BY DEF Environment, TimePasses, RedisStops, RedisReturns
  <2>3. redisUp' \in BOOLEAN
    BY <2>1 DEF Environment, TimePasses, RedisStops, RedisReturns
  <2>4. QED
    BY <2>1, <2>2, <2>3
<1>3. faults' \in 0..MaxFaults
  BY StoreAssumption
     DEF Environment, TimePasses, RedisStops, RedisReturns, Fault, RuntimeInv, TierTypeOK
<1>4. (TierTypeOK /\ OrderTypes /\ CallTypes /\ crashed \in BOOLEAN)'
  BY <1>1, <1>2, <1>3 DEF RuntimeInv, TierTypeOK, OrderTypes, CallTypes
<1>5. (\A c \in Calls : CallFollows(c))' /\ EntriesDated'
  BY <1>1 DEF RuntimeInv, CallFollows, EntriesDated, Dated
<1>6. FetchTimes'
  BY <1>1, <1>2 DEF RuntimeInv, FetchTimes
<1>7. FetchesCovered'
  BY <1>1, <1>2, StoreAssumption DEF RuntimeInv, FetchTimes, FetchesCovered
<1>8. QED
  BY <1>4, <1>5, <1>6, <1>7 DEF RuntimeInv

(* A restart loses the dictionary and the calls that sleep.                *)
LEMMA CrashKeeps ==
  ASSUME RuntimeInv, Crash
  PROVE  RuntimeInv'
<1>1. /\ memory' = Empty /\ client' = "unset" /\ crashed' = TRUE
      /\ phase' = [c \in Calls |-> IF phase[c] = "sleeping" THEN "lost" ELSE phase[c]]
      /\ UNCHANGED <<clock, redis, redisUp, erp, edits, key, attempts, outcome, result, fetched>>
      /\ Fault
  BY DEF Crash, ProcessRestarts
<1>2. faults' \in 0..MaxFaults
  BY <1>1, StoreAssumption DEF Fault, RuntimeInv, TierTypeOK
<1>3. Empty \in [Keys -> Entry] /\ \A k \in Keys : Empty[k].payload = Absent
  BY DEF Empty, Entry, Nothing
<1>4. (TierTypeOK /\ OrderTypes /\ CallTypes /\ crashed \in BOOLEAN)'
  BY <1>1, <1>2, <1>3 DEF RuntimeInv, TierTypeOK, OrderTypes, CallTypes
<1>5. ASSUME NEW c \in Calls
      PROVE  CallFollows(c)'
  <2>1. CallFollows(c)
    BY DEF RuntimeInv
  <2>2. phase'[c] = IF phase[c] = "sleeping" THEN "lost" ELSE phase[c]
    BY <1>1
  <2>3. QED
    BY <1>1, <2>1, <2>2 DEF CallFollows
<1>6. EntriesDated' /\ FetchTimes' /\ FetchesCovered'
  BY <1>1, <1>3 DEF RuntimeInv, EntriesDated, Dated, FetchTimes, FetchesCovered
<1>7. QED
  BY <1>4, <1>5, <1>6 DEF RuntimeInv

(* The invariant holds of every run of the tool runtime.                   *)
THEOREM RuntimeInvariant == Spec => []RuntimeInv
<1>1. RuntimeInv /\ [Next]_vars => RuntimeInv'
  <2> SUFFICES ASSUME RuntimeInv, [Next]_vars
               PROVE  RuntimeInv'
    OBVIOUS
  <2>1. CASE \E c \in Calls : Execute(c)
    <3>1. PICK c \in Calls : Execute(c)
      BY <2>1
    <3>2. CallStep(c)
      BY <3>1, ExecuteEffect DEF CallStep
    <3>3. QED
      BY <3>2, CallKeepsTypes, CallKeepsCalls, CallKeepsTiers DEF RuntimeInv
  <2>2. CASE \E o \in Orders : Edit(o)
    BY <2>2, EditKeeps
  <2>3. CASE Environment
    BY <2>3, EnvironmentKeeps
  <2>4. CASE Crash
    BY <2>4, CrashKeeps
  <2>5. CASE UNCHANGED vars
    BY <2>5 DEF vars, histVars, tierVars, RuntimeInv, TierTypeOK, OrderTypes, CallTypes,
                CallFollows, EntriesDated, Dated, FetchTimes, FetchesCovered
  <2>6. QED
    BY <2>1, <2>2, <2>3, <2>4, <2>5 DEF Next
<1>2. QED
  BY <1>1, InitRuntime, PTL DEF Spec

(* An order is shown to its owner only, cached or not, for any records,    *)
(* senders and edits (access_control.py, registry.py line 131).            *)
THEOREM OwnersOnly == Spec => []OnlyOwnersSeeOrders
<1>1. RuntimeInv => OnlyOwnersSeeOrders
  <2> SUFFICES ASSUME RuntimeInv, NEW c \in Calls, result[c].success
               PROVE  result[c].order.owner = Sender[key[c]]
    BY DEF OnlyOwnersSeeOrders
  <2>1. CallFollows(c)
    BY DEF RuntimeInv
  <2>2. \A code : ~Failure(code).success
    BY DEF Failure
  <2>3. PICK r \in Payloads : result[c] = Success(r) /\ r.owner = Sender[key[c]]
    BY <2>1, <2>2 DEF CallFollows
  <2>4. Success(r).order = r
    BY DEF Success
  <2>5. QED
    BY <2>3, <2>4
<1>2. QED
  BY <1>1, RuntimeInvariant, PTL

(* A circuit breaker result means that every attempt was made, for every   *)
(* limit on the attempts (retry.py, base.py).                              *)
THEOREM RetriesCounted == Spec => []RetriesAreCounted
<1>1. RuntimeInv => RetriesAreCounted
  <2> SUFFICES ASSUME RuntimeInv, NEW c \in Calls
               PROVE  /\ result[c].code = "CIRCUIT_BREAKER_TRIPPED" => attempts[c] = MaxAttempts
                      /\ phase[c] = "sleeping" =>
                           /\ attempts[c] \in 1..(MaxAttempts - 1)
                           /\ outcome[c] \in {"network", "missing"}
                      /\ phase[c] = "done" /\ attempts[c] = 0 =>
                           \/ result[c].success
                           \/ result[c].code \in {"TOOL_NOT_FOUND", "INVALID_ARGUMENTS"}
    BY DEF RetriesAreCounted
  <2>1. CallFollows(c)
    BY DEF RuntimeInv
  <2>2. \A code : Failure(code).code = code
    BY DEF Failure
  <2>3. \A r : Success(r).code = "" /\ Success(r).success
    BY DEF Success
  <2>4. QED
    BY <2>1, <2>2, <2>3 DEF CallFollows, Counted
<1>2. QED
  BY <1>1, RuntimeInvariant, PTL

(* A result was read from the ERP at most a time to live before the call   *)
(* ended, whichever tier answered (cache.py get and set).                  *)
THEOREM StalenessSafe == Spec => StalenessBounded
<1> DEFINE AgeBounded ==
      \A c \in Calls :
        phase[c] # "done" /\ phase'[c] = "done" /\ result'[c].success =>
          clock <= fetched'[key'[c]][result'[c].order] + TTL
<1>1. RuntimeInv /\ [Next]_vars => [AgeBounded]_vars
  <2> SUFFICES ASSUME RuntimeInv, Next, NEW d \in Calls,
                      phase[d] # "done", phase'[d] = "done", result'[d].success
               PROVE  clock <= fetched'[key'[d]][result'[d].order] + TTL
    OBVIOUS
  <2>1. CASE \E c \in Calls : Execute(c)
    <3>1. PICK c \in Calls : CallStep(c)
      BY <2>1, ExecuteEffect DEF CallStep
    <3>2. d = c
      BY <3>1 DEF CallStep, FailsAs, Sleeps, Fetches, Hits, RuntimeInv, CallTypes
    <3>3. PICK k \in Keys, r \in Payloads : Fetches(c, k, r) \/ Hits(c, k, r)
      BY <3>1, <3>2 DEF CallStep, FailsAs, Sleeps, Failure, RuntimeInv, CallTypes
    <3>4. key'[c] = k /\ result'[c] = Success(r)
      BY <3>3 DEF Fetches, Hits, RuntimeInv, CallTypes
    <3>5. clock <= fetched'[k][r] + TTL
      <4>1. CASE Fetches(c, k, r)
        <5>1. fetched'[k][r] = clock
          BY <4>1 DEF Fetches, RuntimeInv, FetchTimes
        <5>2. QED
          BY <5>1, StoreAssumption DEF RuntimeInv, TierTypeOK
      <4>2. CASE Hits(c, k, r)
        BY <4>2, AnswerIsDated DEF Hits
      <4>3. QED
        BY <3>3, <4>1, <4>2
    <3>6. Success(r).order = r
      BY DEF Success
    <3>7. QED
      BY <3>2, <3>4, <3>5, <3>6
  <2>2. CASE (\E o \in Orders : Edit(o)) \/ Environment
    BY <2>2 DEF Edit, Environment
  <2>3. CASE Crash
    BY <2>3 DEF Crash
  <2>4. QED
    BY <2>1, <2>2, <2>3 DEF Next
<1>2. QED
  BY <1>1, RuntimeInvariant, PTL DEF Spec, StalenessBounded

(* With a cache, what was fetched within the time to live is not asked for *)
(* again until the process is restarted: the dictionary has it even when   *)
(* Redis has not (registry.py execute, cache.py set).                      *)
THEOREM RepeatsAnswered == ASSUME Cached PROVE Spec => RepeatIsAnswered
<1> DEFINE Repeated ==
      \A c \in Calls :
        phase[c] = "new" /\ phase'[c] # "new" /\ ~crashed =>
        LET known == fetched[key'[c]] IN
        (\E r \in Payloads : clock < known[r] + TTL) =>
          /\ attempts'[c] = 0
          /\ \E r \in Payloads : known[r] # Never /\ result'[c] = Success(r)
<1>1. RuntimeInv /\ [Next]_vars => [Repeated]_vars
  <2> SUFFICES ASSUME RuntimeInv, Next, NEW d \in Calls,
                      phase[d] = "new", phase'[d] # "new", ~crashed,
                      NEW q \in Payloads, clock < fetched[key'[d]][q] + TTL
               PROVE  /\ attempts'[d] = 0
                      /\ \E r \in Payloads : /\ fetched[key'[d]][r] # Never
                                             /\ result'[d] = Success(r)
    OBVIOUS
  <2>1. CASE \E c \in Calls : Execute(c)
    <3>1. PICK c \in Calls : Execute(c) /\ CallStep(c)
      BY <2>1, ExecuteEffect DEF CallStep
    <3>2. d = c
      BY <3>1 DEF CallStep, FailsAs, Sleeps, Fetches, Hits, RuntimeInv, CallTypes
    <3>3. PICK k \in Keys : \/ RefuseUnknown(d, k) \/ CacheHit(d, k)
                            \/ RefuseArguments(d, k) \/ FirstAttempt(d, k)
      BY <3>1, <3>2 DEF Execute, NextAttempt
    <3>4. key'[d] = k
      BY <3>3 DEF RefuseUnknown, CacheHit, RefuseArguments, FirstAttempt, CacheMiss, Starts,
                  RuntimeInv, CallTypes
    <3>5. /\ clock \in Nat /\ TTL \in Nat /\ TTL >= 1
          /\ fetched[k][q] \in Int /\ clock < fetched[k][q] + TTL
      BY <3>4, StoreAssumption DEF RuntimeInv, TierTypeOK, FetchTimes
    <3>6. k \in Catalog
      BY <3>5, StoreAssumption DEF Never, RuntimeInv, FetchTimes
    <3>7. memory[k].payload # Absent /\ fetched[k][q] + TTL <= memory[k].expires
      BY <3>5 DEF RuntimeInv, FetchesCovered
    <3>8. MemoryLive(memory[k]) /\ memory[k].payload # Absent
      <4>1. memory[k].expires \in Nat
        BY <3>7 DEF RuntimeInv, TierTypeOK, Entry, Nothing
      <4>2. QED
        BY <3>5, <3>7, <4>1 DEF MemoryLive
    <3>9. Absent \notin Answers(k)
      BY <3>8 DEF Answers, Found, InMemory, RedisLive
    <3>10. CacheHit(d, k)
      BY <3>3, <3>6, <3>9 DEF RefuseUnknown, RefuseArguments, FirstAttempt, CacheMiss
    <3>11. PICK r \in Payloads : ReadEntry(k, r) /\ Finish(d, Success(r))
      BY <3>10 DEF CacheHit
    <3>12. fetched[k][r] # Never
      BY <3>11, AnswerIsDated DEF ReadEntry
    <3>13. attempts'[d] = 0
      BY <3>10 DEF CacheHit, EndsWithoutErp, RuntimeInv, CallFollows
    <3>14. result'[d] = Success(r)
      BY <3>11 DEF Finish, RuntimeInv, CallTypes
    <3>15. QED
      BY <3>4, <3>12, <3>13, <3>14
  <2>2. CASE (\E o \in Orders : Edit(o)) \/ Environment
    BY <2>2 DEF Edit, Environment
  <2>3. CASE Crash
    BY <2>3 DEF Crash, RuntimeInv, CallTypes
  <2>4. QED
    BY <2>1, <2>2, <2>3 DEF Next
<1>2. QED
  BY <1>1, RuntimeInvariant, PTL DEF Spec, RepeatIsAnswered

-----------------------------------------------------------------------------
(* Every variable keeps its type: a call never makes more attempts than    *)
(* allowed, and a success always carries an order (retry.py, registry.py). *)
THEOREM RuntimeTypeCorrect == Spec => []RuntimeTypeOK
<1>1. RuntimeInv => RuntimeTypeOK
  <2> SUFFICES ASSUME RuntimeInv
               PROVE  RuntimeTypeOK
    OBVIOUS
  <2>1. ASSUME NEW c \in Calls, result[c].success
        PROVE  result[c].order \in Payloads
    <3>1. CallFollows(c) /\ phase[c] \in {"new", "sleeping", "done", "lost"}
      BY DEF RuntimeInv, CallTypes
    <3>2. ASSUME NEW code
          PROVE  result[c] # Failure(code)
      BY <2>1 DEF Failure
    <3>3. PICK r \in Payloads : result[c] = Success(r)
      BY <3>1, <3>2 DEF CallFollows
    <3>4. Success(r).order = r
      BY DEF Success
    <3>5. QED
      BY <3>3, <3>4
  <2>2. QED
    BY <2>1 DEF RuntimeTypeOK, RuntimeInv, CallTypes, OrderTypes
<1>2. QED
  BY <1>1, RuntimeInvariant, PTL

-----------------------------------------------------------------------------
(***************************************************************************)
(* Calls end.  TriesLeft counts the steps that a call may still take: one  *)
(* for every attempt on the ERP that the retry policy still allows.        *)
(***************************************************************************)
TriesLeft(c) == CASE phase[c] = "new"              -> MaxAttempts
                  [] phase[c] = "sleeping"         -> MaxAttempts - attempts[c]
                  [] phase[c] \in {"done", "lost"} -> 0

TriesInRange == \A c \in Calls : TriesLeft(c) \in 0..MaxAttempts

LEMMA TriesRead ==
  ASSUME NEW c
  PROVE  /\ phase[c] = "new" => TriesLeft(c) = MaxAttempts
         /\ phase[c] = "sleeping" => TriesLeft(c) = MaxAttempts - attempts[c]
         /\ phase[c] \in {"done", "lost"} => TriesLeft(c) = 0
         /\ phase'[c] = "sleeping" => TriesLeft(c)' = MaxAttempts - attempts'[c]
         /\ phase'[c] \in {"done", "lost"} => TriesLeft(c)' = 0
  BY DEF TriesLeft

LEMMA TriesBounded == RuntimeInv => TriesInRange
<1> SUFFICES ASSUME RuntimeInv, NEW c \in Calls
             PROVE  TriesLeft(c) \in 0..MaxAttempts
  BY DEF TriesInRange
<1>1. phase[c] \in {"new", "sleeping", "done", "lost"} /\ attempts[c] \in 0..MaxAttempts
  BY DEF RuntimeInv, CallTypes
<1>2. QED
  BY <1>1, TriesRead, BoundsAreNatural

(* A step of the call itself uses up one of them at least.                 *)
LEMMA ExecuteUsesUp ==
  ASSUME RuntimeInv, NEW c \in Calls, Execute(c)
  PROVE  TriesLeft(c)' < TriesLeft(c)
<1>1. CallFollows(c) /\ phase \in [Calls -> {"new", "sleeping", "done", "lost"}]
      /\ attempts \in [Calls -> 0..MaxAttempts]
  BY DEF RuntimeInv, CallTypes
<1>2. phase[c] \in {"new", "sleeping"} => TriesLeft(c) \in Nat /\ TriesLeft(c) > 0
  BY <1>1, TriesRead, BoundsAreNatural DEF CallFollows
<1>3. ASSUME phase[c] \in {"new", "sleeping"}, phase'[c] = "done"
      PROVE  TriesLeft(c)' < TriesLeft(c)
  BY <1>2, <1>3, TriesRead
<1>4. ASSUME NEW k \in Keys, Sleeps(c, k)
      PROVE  TriesLeft(c)' < TriesLeft(c)
  <2>1. /\ phase[c] \in {"new", "sleeping"} /\ phase'[c] = "sleeping"
        /\ attempts'[c] = attempts[c] + 1
    BY <1>1, <1>4 DEF Sleeps
  <2>2. phase[c] = "new" => attempts[c] = 0
    BY <1>1 DEF CallFollows
  <2>3. TriesLeft(c) = MaxAttempts - attempts[c]
    BY <2>1, <2>2, TriesRead, BoundsAreNatural
  <2>4. TriesLeft(c)' = MaxAttempts - attempts'[c]
    BY <2>1, TriesRead
  <2>5. attempts[c] \in Nat
    BY <1>1, BoundsAreNatural
  <2>6. QED
    BY <2>1, <2>3, <2>4, <2>5, BoundsAreNatural
<1>5. ASSUME NEW code, NEW n, FailsAs(c, code, n)
      PROVE  TriesLeft(c)' < TriesLeft(c)
  BY <1>1, <1>3, <1>5 DEF FailsAs
<1>6. ASSUME NEW k \in Keys, NEW r \in Payloads, Fetches(c, k, r) \/ Hits(c, k, r)
      PROVE  TriesLeft(c)' < TriesLeft(c)
  BY <1>1, <1>3, <1>6 DEF Fetches, Hits
<1>7. QED
  BY <1>4, <1>5, <1>6, ExecuteEffect

(* Neither another call, nor an edit, an outage or a restart gives any     *)
(* back: there is no attempt outside the calls' own.                       *)
LEMMA NoStepGivesTriesBack ==
  ASSUME RuntimeInv, RuntimeInv', NEW c \in Calls, [Next]_vars
  PROVE  TriesLeft(c)' <= TriesLeft(c)
<1>1. TriesLeft(c) \in Nat /\ TriesLeft(c)' \in Nat
  <2>1. TriesInRange /\ TriesInRange'
    BY TriesBounded, PTL
  <2>2. QED
    BY <2>1, BoundsAreNatural DEF TriesInRange
<1>2. ASSUME phase'[c] = phase[c], attempts'[c] = attempts[c]
      PROVE  TriesLeft(c)' <= TriesLeft(c)
  <2>1. TriesLeft(c)' = TriesLeft(c)
    BY <1>2 DEF TriesLeft
  <2>2. QED
    BY <1>1, <2>1
<1>3. ASSUME NEW d \in Calls, Execute(d)
      PROVE  TriesLeft(c)' <= TriesLeft(c)
  <2>1. CASE d = c
    <3>1. TriesLeft(c)' < TriesLeft(c)
      BY <1>3, <2>1, ExecuteUsesUp
    <3>2. QED
      BY <1>1, <3>1
  <2>2. CASE d # c
    <3>1. phase \in [Calls -> {"new", "sleeping", "done", "lost"}]
          /\ attempts \in [Calls -> 0..MaxAttempts]
      BY DEF RuntimeInv, CallTypes
    <3>2. phase'[c] = phase[c] /\ attempts'[c] = attempts[c]
      BY <1>3, <2>2, <3>1, ExecuteEffect DEF FailsAs, Sleeps, Fetches, Hits
    <3>3. QED
      BY <1>2, <3>2
  <2>3. QED
    BY <2>1, <2>2
<1>4. CASE Crash
  <2>1. attempts'[c] = attempts[c]
        /\ phase'[c] = IF phase[c] = "sleeping" THEN "lost" ELSE phase[c]
    BY <1>4 DEF Crash
  <2>2. CASE phase[c] = "sleeping"
    <3>1. TriesLeft(c)' = 0
      BY <2>1, <2>2, TriesRead
    <3>2. QED
      BY <1>1, <3>1
  <2>3. QED
    BY <1>2, <2>1, <2>2
<1>5. CASE (\E o \in Orders : Edit(o)) \/ Environment \/ UNCHANGED vars
  BY <1>2, <1>5 DEF Edit, Environment, vars
<1>6. QED
  BY <1>3, <1>4, <1>5 DEF Next

(* Every tool call comes to an end, after at most as many steps as it may  *)
(* make attempts, whatever the ERP answers, whoever edits its records and  *)
(* whatever the tiers hold (retry.py retry_async_call, base.py).           *)
THEOREM CallsAreFinite ==
  Spec => /\ []TriesInRange
          /\ [][\A c \in Calls : /\ TriesLeft(c)' <= TriesLeft(c)
                                 /\ Execute(c) => TriesLeft(c)' < TriesLeft(c)]_vars
<1>1. RuntimeInv => TriesInRange
  BY TriesBounded
<1>2. RuntimeInv /\ RuntimeInv' /\ [Next]_vars =>
        [\A c \in Calls : /\ TriesLeft(c)' <= TriesLeft(c)
                          /\ Execute(c) => TriesLeft(c)' < TriesLeft(c)]_vars
  BY ExecuteUsesUp, NoStepGivesTriesBack
<1>3. QED
  BY RuntimeInvariant, <1>1, <1>2, PTL DEF Spec

=============================================================================
