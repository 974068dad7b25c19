---------------------------- MODULE SessionStore ----------------------------
(***************************************************************************)
(* The session state store (src/persistence/session_store.py): one         *)
(* snapshot per tenant and session id, saved over the previous one.        *)
(* One process serves all requests and every operation runs to its end     *)
(* without suspending, so an operation is one action.  A key stands for a  *)
(* (tenant, session id) pair: the key string build_key makes of it is      *)
(* injective, as neither part may contain its ":" separator.               *)
(***************************************************************************)
EXTENDS TwoTierStore

VARIABLES
  latest,     \* history: the last snapshot saved, Absent once deleted
  missed      \* history: keys whose last save or delete Redis did not confirm

storeVars == <<tierVars, latest, missed>>

StoreInit == TierInit /\ latest = Empty /\ missed = {}

(* One shielded SET or DEL, and its counterpart in the dictionary. *)
Write(k, entry) ==
  LET written == [redis EXCEPT ![k] = entry] IN
  /\ Connect
  /\ \/ Reachable /\ redis' = written
        /\ missed' = missed \ {k} /\ UNCHANGED faults
     \/ ~Reachable /\ redis' = redis
        /\ missed' = missed \cup {k} /\ UNCHANGED faults
     \/ Reachable /\ redis' \in {redis, written}       \* the call times out
        /\ missed' = missed \cup {k} /\ Fault
  /\ memory' = [memory EXCEPT ![k] = entry]
  /\ latest' = [latest EXCEPT ![k] = entry]
  /\ UNCHANGED <<clock, redisUp>>

Save(k, snapshot) == Write(k, Fresh(snapshot))

\* Mutant: a deletion saves an empty snapshot.
DeleteByTombstone(k) == Write(k, Fresh(Absent))

Delete(k) == Write(k, Nothing)

(* get_raw() and everything that reads through it. *)
Read(k) == (\E v \in Payloads \cup {Absent} : ReadEntry(k, v)) /\ UNCHANGED <<latest, missed>>

(* clear() purges the dictionary only. *)
Clear ==
  /\ memory' = Empty
  /\ UNCHANGED <<clock, redis, redisUp, client, faults, latest, missed>>

(* The environment: time, Redis, and the process. *)
Restart == ProcessRestarts /\ Fault

Environment ==
  /\ TimePasses \/ RedisStops \/ RedisReturns \/ Restart
  /\ UNCHANGED <<latest, missed>>

StoreNext ==
  \/ \E k \in Keys, s \in Payloads : Save(k, s)
  \/ \E k \in Keys : Read(k)
  \/ \E k \in Keys : Delete(k)
  \/ Clear
  \/ Environment

StoreSpec == StoreInit /\ [][StoreNext]_storeVars

-----------------------------------------------------------------------------
(* Every variable has its type. *)
StoreTypeOK ==
  /\ TierTypeOK
  /\ latest \in [Keys -> Entry]
  /\ missed \subseteq Keys

Expected(k) == IF MemoryLive(latest[k]) THEN latest[k].payload ELSE Absent

(* While Redis confirmed the last save or delete of a key, a read returns  *)
(* what it left or nothing: never an older snapshot, never a deleted or an *)
(* expired one, whatever outages, restarts and reads came in between, and  *)
(* even if its GET times out (session_store.py, save, get_raw and delete). *)
NoStaleRead ==
  \A k \in Keys \ missed : Answers(k) \subseteq {Expected(k), Absent}

(* A snapshot is not lost as long as Redis has it and can be asked: a read *)
(* returns it even in a process that did not write it.                     *)
SurvivesRestart ==
  \A k \in Keys \ missed :
    Reachable /\ RedisLive(latest[k]) => Found(k) = latest[k].payload

(* During an outage the dictionary answers, and it is never behind: even   *)
(* for a key whose last write missed Redis, a read returns what that write *)
(* left or nothing (get_raw's fallback).                                   *)
OutageReadsAreFresh ==
  \A k \in Keys : ~Reachable => Found(k) \in {Expected(k), Absent}

(* "Evict session state from Redis and memory store" (delete, line 136):   *)
(* a key whose last operation is a delete is not found again.              *)
DeletedStaysDeleted ==
  \A k \in Keys : latest[k].payload = Absent => Found(k) = Absent

=============================================================================
