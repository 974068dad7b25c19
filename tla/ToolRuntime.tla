---------------------------- MODULE ToolRuntime -----------------------------
(***************************************************************************)
(* The tool runtime: the registry that executes a call of the model        *)
(* (src/tools/registry.py), its idempotency cache (src/persistence/        *)
(* cache.py), the shield around every tool (src/tools/base.py), the order  *)
(* tool (src/tools/order_status.py) with its ownership check (src/security/*)
(* access_control.py), the ERP client (src/clients/erp_client.py) and the  *)
(* retry policy (src/core/retry.py).  The calculators are CustomerRights.  *)
(*                                                                         *)
(* Calls of several sessions interleave: a call gives up the event loop    *)
(* only while it sleeps between two attempts on the ERP, so an action is   *)
(* one attempt, with what precedes the first and what follows the last.    *)
(* The ERP is external: a file of order records that others edit.          *)
(***************************************************************************)
EXTENDS TwoTierStore

CONSTANTS
  Calls,           \* tool calls, each executed once
                   \* Keys are the calls' session, tool and arguments
  NoKey,           \* no key chosen yet
  Orders, OrderOf, \* order ids, and the one a key asks for
  Catalog,         \* keys whose tool is registered
  WellTyped,       \* keys whose arguments the tool's schema accepts
  Sender,          \* the customer_email argument of a key
  LooksTransient,  \* order ids that contain a keyword of the retry policy,
                   \* such as "500": the "not found" message quotes the id
  NoOrder,         \* no order under this id
  NoOwner,         \* a record without a valid customer_email
  Cached,          \* the registry was given a cache
  MaxAttempts,     \* MockERPClient.max_attempts
  MaxEdits         \* bound on the edits of the ERP file

(* The payloads are order records: their owner, their version, and what    *)
(* making an OrderDetailsResult of them ends with: "" when it succeeds,    *)
(* else the code of its exception once shielded (a ValidationError reads   *)
(* INVALID_ARGUMENTS, an unknown status TOOL_EXECUTION_ERROR).             *)
ASSUME RuntimeAssumption ==
  /\ NoKey \notin Keys
  /\ OrderOf \in [Keys -> Orders] /\ LooksTransient \subseteq Orders
  /\ Catalog \subseteq Keys /\ WellTyped \subseteq Keys
  /\ \A r \in Payloads :
       r.defect \in {"", "INVALID_ARGUMENTS", "TOOL_EXECUTION_ERROR"}
  /\ NoOrder \notin Payloads
  /\ \A k \in Keys : Sender[k] # NoOwner
  /\ Cached \in BOOLEAN
  /\ MaxAttempts \in Nat \ {0} /\ MaxEdits \in Nat

VARIABLES
  erp,        \* the record of every order
  edits,      \* edits of the ERP file so far
  key,        \* what every call asks for, once the model has called
  phase,      \* of every call: "new", "sleeping", "done", or "lost" in a crash
  attempts,   \* attempts on the ERP
  outcome,    \* what the last attempt ended with
  result,     \* what execute() returned
  fetched,    \* history: when a key last obtained an order from the ERP
  crashed     \* history: the process has been restarted

histVars == <<fetched, crashed>>
vars == <<tierVars, erp, edits, key, phase, attempts, outcome, result, histVars>>

Never == 0 - (TTL + 1)

Failure(code) == [success |-> FALSE, code |-> code, order |-> NoOrder]
Success(record) == [success |-> TRUE, code |-> "", order |-> record]

Init ==
  /\ TierInit
  /\ erp \in [Orders -> Payloads \cup {NoOrder}] /\ edits = 0
  /\ key = [c \in Calls |-> NoKey]
  /\ phase = [c \in Calls |-> "new"]
  /\ attempts = [c \in Calls |-> 0]
  /\ outcome = [c \in Calls |-> "none"]
  /\ result = [c \in Calls |-> Failure("none")]
  /\ fetched = [k \in Keys |-> [r \in Payloads |-> Never]]
  /\ crashed = FALSE

(***************************************************************************)
(* One attempt on the ERP and the retry policy.  At any attempt the        *)
(* network can fail, and the file be unreadable, or missing and taken for  *)
(* an empty one.                                                           *)
(***************************************************************************)
AttemptOutcomes(k) ==
  {"network", "unreadable", "missing"}
    \cup (IF erp[OrderOf[k]] = NoOrder THEN {} ELSE {"record"})

\* Mutant: every failure is transient.
RetriesAnything(k, o) == o # "record"

IsRetryable(k, o) == o = "network" \/ (o = "missing" /\ OrderOf[k] \in LooksTransient)

\* Mutant: the sender is not compared with the owner.
DeliverToAnyone(k) ==
  LET record == erp[OrderOf[k]] IN
  IF record.defect # "" THEN Failure(record.defect) ELSE Success(record)

(* verify_order_record_access(): what access is refused with, "" if it is  *)
(* not.  Addresses are compared stripped and in lower case, so a customer  *)
(* stands for all spellings of an address.                                 *)
Refusal(sender, record) ==
  CASE record.owner = NoOwner -> "MISSING_CUSTOMER_EMAIL"
    [] record.owner \notin {NoOwner, sender} -> "SECURITY_UNAUTHORIZED_ACCESS"
    [] record.owner = sender -> ""

Deliver(k) ==
  LET record == erp[OrderOf[k]]
      code == Refusal(Sender[k], record)
  IN  IF code # "" THEN Failure(code)
      ELSE IF record.defect # "" THEN Failure(record.defect)
      ELSE Success(record)

ResultOf(k, o) ==
  CASE o = "network"    -> Failure("CIRCUIT_BREAKER_TRIPPED")
    [] o = "unreadable" -> Failure("CONFIGURATION_ERROR")
    [] o = "missing"    -> Failure("ORDER_NOT_FOUND")
    [] o = "record"     -> Deliver(k)

(***************************************************************************)
(* The cache.  set() writes with EX and NX, so Redis keeps a live entry,   *)
(* while the dictionary is overwritten; only successes are stored.         *)
(***************************************************************************)
CacheSet(k, payload) ==
  LET kept == IF RedisLive(redis[k]) THEN redis
              ELSE [redis EXCEPT ![k] = Fresh(payload)]
  IN  /\ \/ Reachable /\ redis' = kept /\ UNCHANGED faults
         \/ ~Reachable /\ UNCHANGED <<redis, faults>>
         \/ Reachable /\ redis' \in {redis, kept} /\ Fault      \* it times out
      /\ memory' = [memory EXCEPT ![k] = Fresh(payload)]

\* Mutant: nothing is kept while Redis cannot be asked.
RememberInRedisOnly(k, r) ==
  IF Cached /\ r.success /\ Reachable THEN CacheSet(k, r.order)
  ELSE UNCHANGED <<redis, memory, faults>>

Remember(k, r) ==
  IF Cached /\ r.success THEN CacheSet(k, r.order)
  ELSE UNCHANGED <<redis, memory, faults>>

(***************************************************************************)
(* ToolRegistry.execute: an unknown tool is refused and a cached result    *)
(* returned before the arguments are validated.                            *)
(***************************************************************************)
Starts(c, k) ==
  /\ phase[c] = "new"
  /\ key' = [key EXCEPT ![c] = k]
  /\ UNCHANGED crashed

Finish(c, r) ==
  /\ phase' = [phase EXCEPT ![c] = "done"]
  /\ result' = [result EXCEPT ![c] = r]

EndsWithoutErp ==
  UNCHANGED <<erp, edits, attempts, outcome, fetched>>

RefuseUnknown(c, k) ==
  /\ Starts(c, k) /\ k \notin Catalog
  /\ Finish(c, Failure("TOOL_NOT_FOUND"))
  /\ EndsWithoutErp /\ UNCHANGED tierVars

CacheHit(c, k) ==
  /\ Starts(c, k) /\ k \in Catalog /\ Cached
  /\ \E v \in Payloads : ReadEntry(k, v) /\ Finish(c, Success(v))
  /\ EndsWithoutErp

CacheMiss(c, k) ==
  /\ Starts(c, k) /\ k \in Catalog
  /\ Cached => Absent \in Answers(k)
  /\ client' = IF Cached THEN Client ELSE client

RefuseArguments(c, k) ==
  /\ CacheMiss(c, k) /\ k \notin WellTyped
  /\ Finish(c, Failure("INVALID_ARGUMENTS"))
  /\ EndsWithoutErp
  /\ UNCHANGED <<clock, redis, redisUp, memory, faults>>

\* Mutant: one attempt too many.
OneMoreAttempt(c) == attempts[c] < MaxAttempts

AttemptsLeft(c) == attempts[c] + 1 < MaxAttempts

(* An attempt is followed by a sleep, or by the end of the call, its       *)
(* result shielded and, if it is a success, cached.                        *)
Retry(c) ==
  /\ phase' = [phase EXCEPT ![c] = "sleeping"]
  /\ UNCHANGED <<redis, memory, faults, result, fetched>>

Conclude(c, k, r) ==
  /\ Finish(c, r)
  /\ Remember(k, r)
  /\ fetched' = IF r.success
                THEN [fetched EXCEPT ![k][r.order] = clock]
                ELSE fetched

Attempt(c, k) ==
  /\ \E o \in AttemptOutcomes(k) :
       /\ outcome' = [outcome EXCEPT ![c] = o]
       /\ IF IsRetryable(k, o) /\ AttemptsLeft(c)
          THEN Retry(c) ELSE Conclude(c, k, ResultOf(k, o))
  /\ attempts' = [attempts EXCEPT ![c] = @ + 1]
  /\ UNCHANGED <<clock, redisUp, erp, edits>>

FirstAttempt(c, k) ==
  /\ CacheMiss(c, k) /\ k \in WellTyped
  /\ Attempt(c, k)

NextAttempt(c) ==
  /\ phase[c] = "sleeping"
  /\ Attempt(c, key[c])
  /\ UNCHANGED <<client, key, crashed>>

Execute(c) ==
  \/ \E k \in Keys : \/ RefuseUnknown(c, k) \/ CacheHit(c, k)
                     \/ RefuseArguments(c, k) \/ FirstAttempt(c, k)
  \/ NextAttempt(c)

(***************************************************************************)
(* The environment: others edit the orders, Redis stops and returns, time  *)
(* passes, the process is restarted and its calls are lost.                *)
(***************************************************************************)
Edit(o) ==
  /\ edits < MaxEdits /\ edits' = edits + 1
  /\ \E r \in Payloads \cup {NoOrder} : r # erp[o] /\ erp' = [erp EXCEPT ![o] = r]
  /\ UNCHANGED <<tierVars, key, phase, attempts, outcome, result, histVars>>

Environment ==
  /\ TimePasses \/ RedisStops \/ RedisReturns
  /\ UNCHANGED <<erp, edits, key, phase, attempts, outcome, result, histVars>>

Crash ==
  /\ ProcessRestarts /\ Fault
  /\ crashed' = TRUE
  /\ phase' = [c \in Calls |-> IF phase[c] = "sleeping" THEN "lost" ELSE phase[c]]
  /\ UNCHANGED <<erp, edits, key, attempts, outcome, result, fetched>>

Next ==
  \/ \E c \in Calls : Execute(c)
  \/ \E o \in Orders : Edit(o)
  \/ Environment
  \/ Crash

Spec == Init /\ [][Next]_vars

-----------------------------------------------------------------------------
(* Every variable has its type. *)
RuntimeTypeOK ==
  /\ TierTypeOK
  /\ erp \in [Orders -> Payloads \cup {NoOrder}] /\ edits \in 0..MaxEdits
  /\ key \in [Calls -> Keys \cup {NoKey}]
  /\ phase \in [Calls -> {"new", "sleeping", "done", "lost"}]
  /\ attempts \in [Calls -> 0..MaxAttempts]
  /\ outcome \in [Calls -> {"none", "network", "unreadable", "missing", "record"}]
  /\ \A c \in Calls : result[c].success => result[c].order \in Payloads

(* Idempotency: once a call has fetched an order, a call of the same       *)
(* session with the same arguments that starts within the time to live     *)
(* does not ask the ERP again and returns a result already fetched,        *)
(* although Redis and the dictionary may hold different ones after two     *)
(* calls that overlapped (cache.py set; registry.py execute).              *)
RepeatIsAnswered ==
  [][\A c \in Calls :
       phase[c] = "new" /\ phase'[c] # "new" /\ ~crashed =>
       LET known == fetched[key'[c]] IN
       (\E r \in Payloads : clock < known[r] + TTL) =>
         /\ attempts'[c] = 0
         /\ \E r \in Payloads : known[r] # Never /\ result'[c] = Success(r)]_vars

(* A result is never older than the time to live: whichever tier answers,  *)
(* and whatever outage or restart came in between, it was read from the    *)
(* ERP at most TTL before the call ended.                                  *)
StalenessBounded ==
  [][\A c \in Calls :
       phase[c] # "done" /\ phase'[c] = "done" /\ result'[c].success =>
         clock <= fetched'[key'[c]][result'[c].order] + TTL]_vars

(* An order is shown to its owner only, whether it is fetched or cached,   *)
(* and an order that was refused once is not served later from the cache   *)
(* (access_control.py verify_order_record_access; registry.py line 131).   *)
OnlyOwnersSeeOrders ==
  \A c \in Calls : result[c].success => result[c].order.owner = Sender[key[c]]

(* The retry policy: a circuit breaker result means that every attempt     *)
(* allowed was made, a call sleeps only before an attempt it may still     *)
(* make, and neither a refusal nor a success is tried again.               *)
RetriesAreCounted ==
  \A c \in Calls :
    /\ result[c].code = "CIRCUIT_BREAKER_TRIPPED" => attempts[c] = MaxAttempts
    /\ phase[c] = "sleeping" => /\ attempts[c] \in 1..(MaxAttempts - 1)
                                /\ outcome[c] \in {"network", "missing"}
    /\ phase[c] = "done" /\ attempts[c] = 0 =>
         result[c].success \/ result[c].code \in {"TOOL_NOT_FOUND", "INVALID_ARGUMENTS"}

(* "OrderNotFoundError is raised immediately ... is_retryable_exception    *)
(* bypasses retries" (docs/code.md line 308).                              *)
NotFoundFailsFast == \A c \in Calls : outcome[c] = "missing" => phase[c] = "done"

=============================================================================
