---------------------------- MODULE TwoTierStore ----------------------------
(***************************************************************************)
(* What the session store (src/persistence/session_store.py) and the       *)
(* idempotency cache (src/persistence/cache.py) have in common: entries    *)
(* with a time to live in Redis, when it can be reached, and in a          *)
(* dictionary of the process; reads ask Redis first, the dictionary else.  *)
(* Every Redis call is shielded: a failure is logged and otherwise ignored.*)
(*                                                                         *)
(* Redis is external (modelled from src/persistence/redis_client.py and    *)
(* the calls above): it can be unreachable for a while and keeps its data, *)
(* and a call can time out (0.2 s) whether or not it was executed.         *)
(***************************************************************************)
EXTENDS Integers

CONSTANTS
  Keys,         \* keys of the entries
  Payloads,     \* what an entry holds
  Absent,       \* no entry under a key
  TTL,          \* ttl_seconds, in ticks
  MaxTime,      \* bound on the clock
  MaxFaults     \* bound on outages, timed-out writes and restarts, together

ASSUME StoreAssumption ==
  /\ Absent \notin Payloads
  /\ TTL \in Nat \ {0}
  /\ MaxTime \in Nat
  /\ MaxFaults \in Nat

VARIABLES
  clock,      \* time.time(); Redis is taken to keep the same time
  redis,      \* what Redis holds
  redisUp,    \* Redis answers
  memory,     \* _in_memory_store
  client,     \* _redis and _redis_initialized: "unset", "connected", "none"
  faults      \* outages, timed-out writes and restarts so far

tierVars == <<clock, redis, redisUp, memory, client, faults>>

Nothing == [payload |-> Absent, expires |-> 0]

Entry == [payload: Payloads, expires: Nat] \cup {Nothing}

Empty == [k \in Keys |-> Nothing]

TierInit ==
  /\ clock = 0
  /\ redis = Empty /\ redisUp \in BOOLEAN
  /\ memory = Empty /\ client = "unset"
  /\ faults = 0

TierTypeOK ==
  /\ clock \in Nat /\ faults \in 0..MaxFaults
  /\ redisUp \in BOOLEAN /\ client \in {"unset", "connected", "none"}
  /\ redis \in [Keys -> Entry]
  /\ memory \in [Keys -> Entry]

Fresh(payload) == [payload |-> payload, expires |-> clock + TTL]

\* Mutant: the entry is set without EX.
NeverExpires(entry) == entry.payload # Absent

(* Redis drops a key when its EX has run out; the dictionary keeps its     *)
(* entry one instant longer (time.time() > expires_at).                    *)
RedisLive(entry) == entry.payload # Absent /\ clock < entry.expires

MemoryLive(entry) == entry.payload # Absent /\ clock <= entry.expires

(* _get_redis(): one attempt to connect, when the client is first needed;  *)
(* its outcome is kept for the life of the process.                        *)
Client == IF client = "unset" THEN (IF redisUp THEN "connected" ELSE "none")
          ELSE client

Reachable == Client = "connected" /\ redisUp

Connect == client' = Client

(* What a read of k returns, and what it returns when Redis cannot be      *)
(* asked or its GET times out.                                             *)
\* Mutant: the dictionary's deadline is not read.
InMemoryForever(k) == memory[k].payload

InMemory(k) == IF MemoryLive(memory[k]) THEN memory[k].payload ELSE Absent

\* Mutant: only the dictionary is read.
FoundInMemory(k) == InMemory(k)

Found(k) ==
  IF Reachable /\ RedisLive(redis[k]) THEN redis[k].payload ELSE InMemory(k)

Answers(k) == {Found(k)} \cup (IF Reachable THEN {InMemory(k)} ELSE {})

(* A read that answers v: it connects, and one that falls back on the      *)
(* dictionary pops the entry it finds expired.                             *)
ReadEntry(k, v) ==
  /\ v \in Answers(k)
  /\ Connect
  /\ memory' = IF v = Absent THEN [memory EXCEPT ![k] = Nothing] ELSE memory
  /\ UNCHANGED <<clock, redis, redisUp, faults>>

Fault == faults < MaxFaults /\ faults' = faults + 1

(* Redis drops a key whose EX has run out; RedisLive hides it until then. *)
TimePasses ==
  /\ clock < MaxTime
  /\ clock' = clock + 1
  /\ UNCHANGED <<redis, redisUp, memory, client, faults>>

RedisStops ==
  /\ redisUp /\ redisUp' = FALSE
  /\ Fault
  /\ UNCHANGED <<clock, redis, memory, client>>

RedisReturns ==
  /\ ~redisUp /\ redisUp' = TRUE
  /\ UNCHANGED <<clock, redis, memory, client, faults>>

(* A new process starts with an empty dictionary and no client. *)
ProcessRestarts ==
  /\ memory' = Empty /\ client' = "unset"
  /\ UNCHANGED <<clock, redis, redisUp>>

=============================================================================
