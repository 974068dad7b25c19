# Verification of support_agent

`support_agent` answers the emails customers write to a shop. A language model
chooses tool calls and writes replies; everything around it is deterministic
code whose purpose is that *nothing the model writes can promise what the
shop's data does not support*. This directory models that code in TLA+, checks
small instances with TLC and proves all its safety properties with TLAPS.

Run TLC on `MCx.tla` with each of its `.cfg` files, and `tlapm` on each
`x_proofs.tla`. `PROJECT.json` maps every definition to
the lines it stands for, and lists hazards, runs, findings and theorems.

## 1. The system

| Component (under `src/src/`) | State it keeps | Operations |
|---|---|---|
| Session lifecycle: `agent/controller.py`, `agent/state.py` | `AgentSessionState`: current state, history, escalation reason, round count, tool traces | `transition`, `transition_to_human`, `record_*` |
| ReAct engine: `agent/loop.py` | none beyond the session; the suspended coroutine | `run` |
| Authority guard: `agent/validator.py`, `validator_rules.py`, `response_builder.py`, `models/response.py` | none | `validate`, `guard_response`, `synthesize_certified_response` |
| Tool registry and shield: `tools/registry.py`, `tools/base.py` | table of tools | `execute`, `register`, `unregister` |
| Idempotency cache: `persistence/cache.py` | Redis keys, dictionary, client | `get`, `set`, `clear` |
| Order tool, access control, ERP, retry: `tools/order_status.py`, `security/access_control.py`, `clients/erp_client.py`, `core/retry.py` | order file, attempts of a call | `get_order`, `verify_order_record_access`, `execute_with_retry` |
| Calculators: `domain/business_rules.py`, `tools/refund_calculator.py`, `tools/delay_calculator.py` | none | window, delay and voucher computations |
| Session store: `persistence/session_store.py` | Redis keys, dictionary, client | `save`, `get`, `delete`, `clear` |
| Audit trail: `persistence/repository.py` | PostgreSQL rows, `traces.jsonl`, list, connection | `save_response`, `get_by_session_id`, `clear` |
| Application service: `api/service.py`, `api/dependencies.py` | requests in flight | `process_email`, `get_session` |
| Intake: `security/pre_extraction.py`, `sanitizer.py` | none | `classify_text`, extraction of order ids |
| Model client: `clients/llm_client.py`, `llm_retry.py`, `llm_parser.py` | attempts of the call under way | `generate_with_tools`, `generate_structured` |
| Observability, prompts, configuration, CLI | see section 7 | |

How they interact. A request reaches `process_email`, which creates a session,
classifies the message and runs the engine. The engine suspends at every call
of the model and of a tool. A call of the model goes through the client, which
repeats it after a sleep when the provider fails for a while; a tool call goes through the registry to the
cache, then to a tool, which may sleep between attempts on the ERP. The engine
asks the controller for every transition, and the guard for the last word on
the reply. The service then saves the snapshot, appends the audit record and
answers. One event loop runs all requests, so code between two awaits is
atomic with respect to the other requests; it is not with respect to a crash.

What is hard here:

- *Interleaving.* Requests with the same session id overlap at every await;
  equal tool calls can both miss the cache.
- *Two or three tiers.* Sessions and cache are in Redis and in a dictionary;
  audit records in a table, a file and a list. Every tier may fail alone, each
  failure is logged and swallowed, and a read consults the tiers in an order.
- *Crashes and outages.* A Redis call may time out after it was executed; one
  insert that the server refuses aborts the connection's transaction for good,
  one that the driver refuses to send does not; a process may die between two
  saves.
- *Sequences.* Rounds of calls, ceilings and early exits must only ask for
  transitions that exist, and session and reply must end with one verdict.
- *Retries inside retries.* A message may cost rounds, times attempts of the
  client, times repetitions of the library; a fault is retried by its class,
  and classes overlap.
- *Boundaries.* Windows and delays count calendar days of instants with hours.

What makes each component correct is stated, property by property, in section
3. The properties come from the list of hazards in `PROJECT.json`.

## 2. The modules

```
AgentFSM <- AuthorityGuard <- CertifiedSupport  (abstract promise of a run)
                           <- ReActLoop         (implements CertifiedSupport)
                                <- MCReActLoop, ReActLoop_proofs
                           <- CustomerRights    <- MCCustomerRights, CustomerRights_proofs
ReActLoop, Intake <- SupportCycle <- MCSupportCycle, SupportCycle_proofs
EngineOutline  (implemented by ReActLoop and by each request of AgentService)
TwoTierStore <- SessionStore <- MCSessionStore, SessionStore_proofs
             <- ToolRuntime  <- MCToolRuntime, ToolRuntime_proofs
AuditRepository <- MCAuditRepository, AuditRepository_proofs
SessionStore, AuditRepository <- AgentService (by INSTANCE) <- MCAgentService, AgentService_proofs
SessionStore_proofs, AuditRepository_proofs, EngineOutline <- AgentService_proofs (by INSTANCE)
ReActLoop_proofs <- SupportCycle_proofs
```

**AgentFSM** has the transition table and the controller as operators on a
session record, because the engine may apply several transitions in one atomic
segment. A forbidden transition, which raises in the code, sets `fsm_error`.

**AuthorityGuard** describes a text by what the regular expressions extract
from each sentence: amounts, topics, a granting verb, a negation, a claimed
order change. Subject and body are concatenated without a full stop, so the
subject and the first sentence of the body are one sentence to the guard; the
operators keep that. `Violations` is `validate`, `GuardResponse` is
`guard_response`, `CertifiedResponse` is `synthesize_certified_response`.
Certified amounts include 0 and the two sums the code adds.

**ReActLoop** is `run`. `phase` is the await at which the coroutine is
suspended; an action is an answer and the code it resumes up to the next await,
return or exception. The model is external and may answer anything. The
exceptions that leave `run` are end states: the client's (`llm_error`), a
`TypeError` from arguments that clash with `tool_name` or `session_id`
(`argument_clash`), a reply whose constructor refuses it (`invalid_reply`).

**CertifiedSupport** says what a run promises its caller: evidence only grows,
and the run ends resolved by a supported reply, escalated with a reason and a
body that promises nothing unsupported, or aborted without a reply. It knows
nothing of rounds, transitions or drafts. `ReActLoop!KeepsPromise` is the
refinement: `outcome` is read from `phase` and the reply's status.

**Intake** is `classify_text` over what its patterns find: a threat, words of a
subject that is none of the shop's, kinds of demand, order ids in their order.
The decisions are taken in the order of the code.

**SupportCycle** composes `Intake`, `ReActLoop` and the model's client. Every
action of the engine that resumes from an await on the model is joined with
what the client did: a completion, one it cannot use, or a fault given up.
Between them the client backs off and sends again, and the library may repeat a
request by itself; the engine stutters there. One client exists per engine and
one engine per request (`dependencies.py`), so one call is under way at a time.
`sent`, `received` and `error` record requests, completions and the code of the
exception. A call of a tool that is not well formed ends the run in the parser
with a code of its own, as in `llm_parser.py`.

**EngineOutline** is what a caller knows of a run: awaits, rounds, and the ways
it ends. `ReActLoop!FollowsOutline` and `AgentService!EnginesFollowOutline`
show that the engine implements it and that the service relies on no more.

**TwoTierStore** has what session store and cache share: entries with a
deadline in Redis and in a dictionary, one attempt to connect per process,
reads that fall back, and a clock. The dictionary keeps an entry one instant
longer than Redis (`>` and `EX`). A GET that times out is a fallback read.
**SessionStore** adds `Save`, `Read`, `Delete`, `Clear` and two history
variables: `latest`, what the last write left, and `missed`, the keys whose
last write Redis did not confirm.

**ToolRuntime** is `execute` with its cache and shield, the order tool, the
ownership check and the ERP with its retries. A call leaves the event loop only
while it sleeps between two attempts, so an action is one attempt. The cache is
written with NX in Redis and overwritten in the dictionary, as in `cache.py`.

**AuditRepository** is `save`, `get_by_session_id` and `clear` over its tiers.
`conn = "failed"` is the aborted transaction nobody rolls back. Two kinds of
record never reach the table. `Rejected` ones are refused by the server (a value
too long for its column, a NUL inside `trace_data`), which aborts the
transaction; `Unsendable` ones by the driver (a NUL in a text parameter), where
`cur.execute` raises before anything is sent and the connection goes on. What a query
selects from a tier, `OfSession`, is a recursive function of how much of the
tier has been read, so that it can be reasoned about.

**AgentService** runs several requests over both stores, which it instantiates;
a request's engine is `EngineOutline`, its awaits and rounds. The
two saves at the end of `process_email` are two actions between which only a
crash, an outage or a recovery of a server can happen. The history variable
`before` has, for each request, those already answered when its run returned: it
says which snapshots are *later* than a reply.

**CustomerRights** moves a clock in fractions of a day while an order is
shipped, delivered and written about; a session calls the calculators, and the
guard reads their payloads as evidence. A call may leave out each optional
argument on its own (`ExpressArguments`, `RefundArguments`), the delivery date
and the prices of the items included; a trace keeps the delivery date of its
call, as the properties tell a dated result from one without a date.

The modules named `x_proofs` extend module x with its theorems.

## 3. What the runs check

| Run | Properties | States |
|---|---|---|
| `loop` | `LifecycleRespected`: no forbidden transition is asked for, the history is a legal chain. `BudgetKept`: ceiling and round count. `OutcomeAgrees`: reply and session give one verdict and reason. `CompletedIsCertified`: only supported replies complete a session. `ScreenedDemandsAreFree`. `VerdictIsFinal`. `KeepsPromise`: implements `CertifiedSupport`. `FollowsOutline`: implements `EngineOutline` | 47 thousand |
| `cycle` | `SpendIsBounded`: requests to the provider, with the client's and the library's retries. `UsageIsReceived`: a reply reports each completion of the tool loop once and nothing that was not received. `TransientFaultsAbsorbed`: a cycle goes without an answer only after faults that are not retried or use up the attempts. `NoDemandTurnedAway`: a processed message reaches the model, saying more keeps it processed, threats and empty messages cost no request. `CycleEnds` (liveness) | 325 thousand |
| `session_store` | `NoStaleRead`: as long as Redis confirmed the last write of a key, no read returns anything older. `SurvivesRestart`. `OutageReadsAreFresh`: during an outage the dictionary is never behind | 4 thousand |
| `audit` | `CompleteWithinProcess`: a query reads one tier only and, until a restart, misses no record but one whose append failed or whose row the driver refused. `NothingInvented`. `HiddenOnlyByRows`: the only way to miss a record | 36 thousand |
| `service` | `SnapshotMatchesAudit`: under all interleavings of two requests with one id, both stores end with the same request. `AnswerIsDurable`: whoever was answered is in the audit file, in what a query of the same process returns, and finds his snapshot or a later one, but for the losses it names. `FailureLeavesNothing`: in none of the five tiers. `NoOrphanSnapshot`. `EnginesFollowOutline`. `EveryRequestEnds` (liveness) | 86 thousand |
| `tools` | `RepeatIsAnswered`: idempotency within the time to live. `StalenessBounded`. `OnlyOwnersSeeOrders`, cached or not. `RetriesAreCounted` | 1.4 million |
| `rights` | `WindowHonoured`: calendar days against elapsed hours. `NothingAboveThePrice`: no sum the guard certifies exceeds what was paid. `VouchersAreForLateExpress`. `RefusalIsFinal` | 296 thousand |

Each passing run also checks the type invariant of its module.

Bounds, and why they are enough:

- `loop`: two rounds of up to two calls, so that a round is entered, completed
  and repeated, and the ceiling is reached after a full round; eleven drafts,
  at least one per rule of the guard and per way a reason is filled in; five
  tool results, among them a refusal of access.
- `cycle`: 148 messages, every combination of kinds, other subjects and no
  order, one, the same twice or two; two rounds of one call, two attempts of
  each call and one hidden repetition in each, so that a call can fail at once,
  at its last attempt, or succeed after either kind of repetition, in the tool
  loop and in the synthesis.
- `session_store`: one key (keys do not interact; `service` has two), two
  snapshots, a time to live of 2 in 5 ticks so that an entry can expire and be
  written again, three faults so that an outage, a timed-out call and a restart
  can meet.
- `audit`: four records, three of one session, one refused by the server and
  one by the driver; three faults. `audit_hidden` leaves out the latter, so that
  what it finds is due to outages alone.
- `service`: two requests with one id, a screened one of another tenant with
  the same session id, one refused at the boundary; the driver refuses the row
  of one of the first two; one round; one fault.
  Expiry is left to `session_store`, so the clock stands still here.
- `tools`: three interchangeable calls, each choosing the owner's key, another
  customer's, one of an unknown tool or one of the wrong types; one order, one
  edit, two attempts, a time to live of 1 in 2 ticks, one fault. The order has
  two good versions, one that the result model refuses and one without
  an owner. Two calls can
  overlap and a third can come later. The calls are symmetric and the
  properties quantify over all of them.
- `rights`: two ticks a day for 22 days, an estimate at tick 3, so that day
  boundaries fall inside, before and after every window, and a window can close
  after a late delivery; sessions of three calls, sent up to a tick after the
  email. Times matter only by differences of dates and of ticks.

Deadlock is left unchecked where the system may stop: a cycle that has ended,
the service and the tool
runtime once all requests and calls are done and the bounds are used up, and
the rights model when its clock has ended. In `ReActLoop` a finished run
stutters by an explicit action, so that a run that is stuck would be found.

**Fairness.** Two specifications have any. The service has weak fairness of the
steps of each request, the cycle (`FairCycle`) of the steps of the engine and
the client together: the provider answers or the library's timeout ends the
request, a sleep ends, a tool returns. The event loop resumes every coroutine
whose await is over. Every await is: a call of the model ends by the timeout of the OpenAI client, after
bounded retries, with an exception at the latest; a tool has bounded attempts
and always comes back through the shield; Redis calls have a socket timeout of
0.2 seconds. `EveryRequestEnds` then rests on the ceiling on rounds, and `CycleEnds` also on
the bounds on attempts. Faults and outages carry no fairness.

### Where code and documentation disagree

Five runs check a sentence of the repository and find it violated.

- `session_store_delete`: a snapshot deleted while Redis does not answer is
  found again when it does, although `delete` promises to evict it from both.
- `audit_hidden`: after a restart, rows in the table hide records of the same
  session that only the file holds.
- `service_audited`: a run that ends with an exception leaves no audit record,
  against "every execution cycle is appended" (`docs/specifications.md:597`).
- `tools_not_found`: an order that does not exist and whose id contains, say,
  "500" is asked for again after a wait, because the retry policy looks for
  words in the message of the exception (`docs/code.md:308` says it fails fast).
- `rights_voucher`: the guard accepts `delay_days > 5` as authority for a
  voucher, so one may be promised for an order that is not express, against
  the policy in `docs/specifications.md:343`.

More disagreements, and in the last point a gap the documents do not mention, show
in the models. The properties of the passing runs
take no side in them: they hold of the code and would hold if it did what the
documents ask. A property that holds is therefore no evidence for the code here.

- *Calendar days for business days.* `business_rules.py:188` grants a voucher
  after more than five calendar days, `docs/specifications.md:343` and `:79` ask
  for business days: six days over a weekend are paid for. More than five
  times 24 hours is necessary either way, and that is all that
  `VouchersAreForLateExpress` says.
- *Tokens of the synthesis.* The usage of a reply leaves out the completion of
  the synthesis (`loop.py:113-115`, `:208-217`), where `docs/architecture.md:163`
  and `docs/specifications.md:611` promise the exact count. `UsageIsReceived`
  bounds the report from both sides and leaves that completion open.
- *Faults that persist.* In the tool loop they leave `run` as an exception, so
  the client gets an error; `docs/architecture.md:442-444` and
  `docs/specifications.md:407` hand the session to a human with
  `UPSTREAM_SERVICE_UNAVAILABLE`. `TransientFaultsAbsorbed` says only when a
  call is given up, not what follows. (On a status of 500 the documents differ
  with each other: `docs/specifications.md:407` has it retried, as the code
  does, `docs/architecture.md:435` does not name it.)
- *A demand without its order.* `classify_text` finds INFORMATION_MISSING, but
  `loop.py:77-97` stops for OUT_OF_SCOPE and threats only, so the model is asked;
  `docs/code.md:478`, `docs/specifications.md:270` and the state diagram
  (`docs/architecture.md:175`) stop it before. Neither clause of
  `NoDemandTurnedAway` speaks of such a message.
- *A call without the delivery date.* `RefundCalculatorArgs` makes it optional,
  and the calculator then answers `NOT_DELIVERED_YET` for an order that was
  delivered (`business_rules.py:76-88`): a customer in the window is told no, and
  one after it hears that the window has not begun. No refund can be promised on
  such a result (`WindowHonoured`, `RefusalIsFinal`), but neither can a right to
  one be read from it.

## 4. What is proved

Every theorem holds for all values of the constants that satisfy the named
assumption of its module: any number of requests, calls, keys, faults, rounds,
any time to live and any division of the day.

| Module | Theorem | States |
|---|---|---|
| `ReActLoop_proofs` | `Invariant` | `Spec => []IInv` |
| | `TypeCorrect`, `LifecycleSafe`, `BudgetSafe`, `VerdictsAgree`, `OnlyCertifiedCompletions`, `ScreenedSafe` | the type invariant and the five safety invariants of `loop` |
| | `VerdictsFinal` | `VerdictIsFinal`, an action property |
| | `Refinement`, `OutlineFollowed` | a run implements `CertifiedSupport` and `EngineOutline` |
| | `RunsAreFinite` | a variant: every step uses up `StepsLeft` |
| `SupportCycle_proofs` | `CycleRunsEngine`, `CycleGuarantees` | `CycleSpec => Spec`: a cycle implements `ReActLoop`; what follows for cycles |
| | `CycleTypeCorrect`, `SpendSafe`, `UsageSafe`, `FaultsAbsorbed`, `DemandsAreHeard` | the type invariant, `SpendIsBounded`, `UsageIsReceived`, `TransientFaultsAbsorbed`, `NoDemandTurnedAway` |
| | `CyclesAreFinite` | a variant: every step uses up `CycleLeft` |
| `SessionStore_proofs` | `StoreInvariant`, `StoreTypeCorrect` | `[]StoreInv`, the type invariant |
| | `ReadsAreFresh`, `SnapshotsSurvive`, `OutagesAreFresh` | `NoStaleRead`, `SurvivesRestart`, `OutageReadsAreFresh` |
| `AuditRepository_proofs` | `AuditInvariant`, `AuditTypeCorrect` | `[]AuditInv`, the type invariant |
| | `WithinProcessComplete`, `NothingIsInvented`, `OnlyRowsHide` | `CompleteWithinProcess`, `NothingInvented`, `HiddenOnlyByRows` |
| `ToolRuntime_proofs` | `RuntimeInvariant`, `RuntimeTypeCorrect` | `[]RuntimeInv`, the type invariant |
| | `OwnersOnly`, `RetriesCounted` | `OnlyOwnersSeeOrders`, `RetriesAreCounted` |
| | `StalenessSafe`, `RepeatsAnswered` | `StalenessBounded`, `RepeatIsAnswered`, action properties |
| | `CallsAreFinite` | a variant: every step of a call uses up `TriesLeft` |
| `AgentService_proofs` | `ServiceInvariant`, `ServiceTypeCorrect` | `[]ServiceInv`, the type invariant |
| | `StoreImplemented`, `TrailImplemented` | the service implements `SessionStore` and `AuditRepository` |
| | `StoreGuarantees`, `TrailGuarantees` | the properties of both stores, in the service |
| | `FailuresLeaveNothing`, `AnswersAreDurable`, `NoSnapshotOrphaned`, `SnapshotsMatchAudit` | `FailureLeavesNothing`, `AnswerIsDurable`, `NoOrphanSnapshot`, `SnapshotMatchesAudit` |
| | `EnginesFollow` | each request implements `EngineOutline` |
| | `RequestsAreFinite` | a variant: every step of a request uses up `StepsLeft(r)` |
| `CustomerRights_proofs` | `RightsInvariant`, `RightsTypeCorrect` | `[]RightsInv`, the type invariant |
| | `WindowSafe`, `RefusalsAreFinal`, `VouchersForLateExpress`, `NothingAbovePrice` | `WindowHonoured`, `RefusalIsFinal`, `VouchersAreForLateExpress`, `NothingAboveThePrice` |
| | `RepliesAreRightful` | guard and calculators together: every reply keeps to the customer's rights |

**The engine.** `LoopAssumption` says that ceilings are positive, that subjects are sentences
and drafts have the fields the response model requires. Nothing is assumed of
the payloads of tool results.

*The inductive invariant.* None of the properties is inductive: that a
transition is legal depends on where the session is when an answer arrives.
`IInv` adds what links the coroutine's await to the session: `Suspended` (the
lifecycle state at each await, and that tools are awaited only while a call is
pending), `AtStart` (a fresh session), `NotEscalated` (no escalation reason
before the run returns, so the *first* reason kept by the controller is the one
of the reply), and `~fsm_error`. With it every transition asked for is one of
the table. TLC agrees that `IInv` is an invariant of the instance of `loop`.

*The argument.* Lemmas on the operators first: what a transition, an
escalation, the guard and the assembly leave, whatever they are given. Then one
lemma per action (`BeginEffect`, `ToolReturnsEffect`, ...), which says what the
action does to session and reply as seen from `IInv`; these carry the
preservation of `IInv` and of each property, which is one step per action. The
history of transitions is a chain because each move appends one legal pair
(`MovedKeepsChain`). The bound on the number of traces is a product of rounds
and calls, strengthened by the calls already made in the round. For the
refinement, `SupportedWithoutViolation` is the heart: a reply in which the
guard finds no violation is supported in the sense of `CertifiedSupport`.

**The cycle.** `CycleRunsEngine` is a step simulation with the identity mapping:
every action of `SupportCycle` is a step of `ReActLoop` or leaves its variables
alone. So all theorems on runs hold of cycles, whatever the client retries. The
bound on requests needs `Accounted`, which charges every completed round, and
the call under way by its attempt and hidden repetitions, against `sent`; at the
end of a run it is at most (rounds + 2) calls. `UsageIsReceived` needs `Counted`
(the completions the engine counts are those received), and
`TransientFaultsAbsorbed` needs `FaultsSeen`: in a call under way every fault so
far was transient, and there were as many as attempts that failed.
`CycleAssumption` asks that every message's classification is a demand of the
instance, and that at least one attempt is allowed. `CycleTypeOK` needs
`ErrorNamed`, that an error is recorded exactly when an exception ends the run.
`NoDemandTurnedAway` rests on `Screening` (the engine runs on what the intake
made of the message, and no request was made exactly for a screened one) and on
lemmas about `ClassifyText`: when a message is screened, and that adding kinds
or order ids to one that is not leaves it so. "More than one order" is a
cardinality, which can only grow.

**The session store.** `StoreInv`: Redis holds what the last write of a key left
unless that write is in `missed`, and the dictionary holds it or nothing. The
second part is what makes a fall-back read harmless: the dictionary can lose an
entry but not keep an old one. A read then finds `latest`, or nothing when it
has expired.

**The audit trail.** `AuditInv`: no record is twice in a tier (`SavedOnce`),
the file has what was saved but for failed appends and the other tiers have
nothing else (`TiersAreSaved`), and in the first process an open connection
means that no record but an unsendable one has missed the table
(`RowsComplete`), which is why reading one tier is nearly enough: an unsendable
record is found as long as no other of its session has a row. What a query selects is defined by recursion on the
tier. The library states its induction principles with an operator as a
parameter; the module restates them with sets (`NatSetInduction`,
`SeqSetInduction`), proved from the well-foundedness of the natural numbers, and
derives what `OfSession` returns for the empty tier, after an append, and as a
set (`OfSessionSelects`). `OfSession` is a recursive function and not a
`SelectSeq`, whose definition is by an operator the prover knows nothing about.

**The tool runtime.** `CallFollows` says where a call can be with how many
attempts, `EntriesDated` that both tiers hold for a key only orders that its
sender owns and that were fetched no longer than a time to live before they
expire, `FetchesCovered` that until a restart the dictionary covers what
was fetched. That the tool results are cached *after* the ownership check is
what carries `OwnersOnly`. `RepeatsAnswered` is stated for a runtime that has a
cache. The proof uses that an NX write in Redis and an overwriting one in the
dictionary may leave two different, equally admissible orders.

**The service.** `HeldByRun` says that a tier holds snapshots of runs that
returned, `RepliesKept` that once a reply is stored the last write of its
session left it or that of a run that returned after it was answered
(`Follows`, read from `before`), `AuditFollows` that exactly the answered
requests were handed to the audit trail, `LossesAreCrashes` that only a crash
separates the two saves or restarts the trail. The clock stands still in this
model, so nothing expires. `AnswersAreDurable` speaks of the tiers themselves:
that an answered request has its line in the file, and is in what a query
returns, comes from the theorems on the audit trail (`TrailGuarantees`), and
that its snapshot is found from the session store's.

`StoreImplemented` and `TrailImplemented` show that the service, seen through
either store's variables, is a run of that store's own specification: a save is
a save, a query a query, and a crash of the service is a crash of each store,
charged to the bound on faults of both (`StoreView`, `TrailView` are the stores with
`faults + crashes` in the place of their counters). The theorems on the stores
then hold in the service without another proof.

`SnapshotMatchesAudit` relates the *last* entries of the two, so it needs to know
in which order requests go through their two saves. `OrderInv` says so: at most
one request is between them (`OneStored`: there is no await between the two, as
`LoopIsFree` guards every other step), its snapshot is the latest
(`StoredIsLatest`), and otherwise the latest snapshot is of the last audit line
(`LinesFollow`). It holds until a crash separates the two.

**The calculators.** `DayOfTick` and `DaysAgainstTicks` relate dates to elapsed
time: instants at most n times 24 hours apart are at most n dates apart, and
dates more than n apart are more than n times 24 hours apart. With
`EvidenceIsCurrent`, every payload of a session is a result of the calculators
for the order as it is, with or without each optional argument, and a call that
has a delivery date has the order's; `ClosedForGood` says that a window once found closed has
closed, as time does not run backwards and a delivery date is not changed.

`RepliesAreRightful` joins the two halves of the system. `CertifiedSupport`
says that a reply is supported by tool results, the theorems above that tool
results are supported by the order's history; `RepliesKeepToRights` says of any
draft that what is assembled from it claims no amount above the price, no
change of the order, no refund after 15 times 24 hours and no voucher unless
the delay is more than five times 24 hours, or has the safe body. The subject of a
reply that was replaced is the draft's (`response_builder.py`), so for an
escalated reply nothing is claimed of it.

**Termination.** Four theorems give a *variant*: a natural number, bounded by
the constants, that every step of the run, cycle, call or request decreases and
no other step increases. They rule out every endless sequence of answers, faults,
retries and repetitions, which is half of liveness. The other half, that some
step remains possible and is eventually taken, is about ENABLED and fairness.
For the engine a round left is worth `MaxCalls + 1` steps; for the cycle each
of these is worth a whole call, `MaxRetries * (HiddenRetries + 2)` steps of the
client. A call of a tool has as many steps as attempts, a request of the service
two per round and four more.

## 5. What is only model-checked

Every safety invariant, action property and refinement that a passing run
checks is also a theorem. What remains with TLC:

- Liveness under fairness: `EveryRequestEnds` and `CycleEnds`. The variants of
  section 4 are their arithmetic; that a step stays enabled until it is taken
  needs ENABLED, which the prover does not handle.
- That a run which has not ended can take a step: the deadlock check of `loop`.
- The five disagreements of section 3, which are counterexamples.

## 6. What is assumed of the environment

- Redis keeps its data through an outage and its clock is the process's.
- PostgreSQL does not lose a commit, and the table can be created. An insert
  that raises was not committed. A parameter with a NUL in it is refused by the
  driver, before the server sees a statement.
- A crash ends the process between two actions, and appended lines survive it.
- In `CustomerRights` the model copies arguments from the order and the delay
  tool and may leave out each optional one; arguments it makes up are outside the
  model, as the calculators compute from what they are given. Dates carry a
  time zone and amounts are not negative (the code raises otherwise).
- The provider answers anything or fails in any of eight ways; the OpenAI
  library repeats a request by itself a bounded number of times, as the client
  leaves its default in place, and its timeout ends a request that hangs.
- Session ids and tenants do not contain the separator of the key, as their
  validation demands.

## 7. What is not modelled

- *Of the intake*: the removal of tags and the detection of injections, which
  only shape the prompt; sub-queries, which only the prompt reads; the
  validation of addresses, which refuses a request at the boundary.
- *Of the model's client*: prices, and what a completion says. *Prompts*: text
  for a model whose answers are arbitrary here.
- *Observability*: logs, prices and exports are formatting. Nothing calls
  the tracer: no step of the system opens a span, so its stack has no
  behaviour here to be right or wrong about.
- *HTTP status codes, configuration, command line*: input and output.
- `register` and `unregister`, which run before the first request; `clear` of
  the cache, and payloads in it that do not parse, which `get_result` counts as a miss;
  the synchronous twins of the stores, which are the same code.
- A sender whose address is malformed (`INVALID_EMAIL_SYNTAX`): the order tool
  refuses it at the place, and with the effect, of a sender who is not the owner.
- The extraction of features from a text: the properties speak of the claims
  and amounts the guard reads, not of those it fails to read.

## 8. Plan

Built, in this order: lifecycle, guard and engine, with the promise they
implement and its proof; the stores; the service over both; the tool runtime;
the calculators against the customer's rights; the intake and the model's
client around the engine; the outline that ties the service to the engine; the
theorems on cycle, session store, tool runtime, service and calculators; those
on the audit trail, the stores as the service uses them, the order of its two
saves, termination, and replies against the customer's rights.

Next: the subject an escalated reply keeps (`docs/specifications.md:561`), and,
once the code or the documents are changed on one of the open points of
section 3, a property that takes the side they agree on.
