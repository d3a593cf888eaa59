# roll-agent: a verification project in TLA+

roll-agent is a TypeScript monorepo: an agent runtime with a conversation store, a command line, a scheduler that runs
turns unattended, agents for particular sites, a typed client and a companion that bridges a runtime to a remote device.
This directory models the parts whose correctness depends on the order in which processes, timers, crashes and
transactions meet, checks them with TLC on small instances, and proves their safety properties with TLAPS for every value of
the constants. All paths below are relative to `src/`.

- [1. The system](#1-the-system)
- [2. Modules](#2-modules)
- [3. Runs and what they show](#3-runs-and-what-they-show)
- [4. Proofs](#4-proofs)
- [5. Disagreements between documentation and code](#5-disagreements-between-documentation-and-code)
- [6. What the models leave out](#6-what-the-models-leave-out)
- [7. Plan](#7-plan)

## 1. The system

### Inventory

| Component | State it keeps | Operations | What is hard | What makes it correct |
|---|---|---|---|---|
| **Schedule ledger** `packages/runtime/src/scheduler/schedule-store.ts` | SQLite tables `schedules`, `invocations`, `schedule_extensions`; ownership columns (worker, token, lease, attempt) | create, pause/resume, extend, remove; enqueue, claim, discard a manual run; `claimDue`; begin, renew, record the tree, complete, fail, reclassify; cancel, finalize, shut down, prune | several processes write the file; leases lapse while their owners live; one read of the rows is walked by many writes; quota, trigger and status are changed in different transactions | one run of a schedule at a time; a lost claim can write nothing; no more attempts than the budget, no more rounds than the quota; a schedule is completed exactly when it is done; an extension takes effect once |
| **Scheduler hosts** `packages/core/src/scheduler-host/{daemon,execute-invocation,cancel-invocation,...}.ts`, `cli/commands/schedule-*.ts` | the daemon's map of runs, its timers; each executor's progress; a cancel command's reads | tick, launch, renew, max-run, kill, on exit, stop; begin, preflight, turn, settle, result; cancel `--kill`; run now `--inline` | crash at any point, executors that survive the daemon, probes that cannot tell, awaits between a read and a write | turns of one schedule never overlap; an attempt runs once; a result is written only after the processes of the turn are gone |
| **Triggers and calendar** `scheduler/{calendar,trigger}.ts` | none (pure) | next instant of a trigger | time zones, gaps of the clock | the next instant is the least one after the given one |
| **Scheduled turn, tool binding, history** `scheduler-host/{run-scheduled-turn,schedule-tool-binding,schedule-history}.ts` | none of their own | run a turn, read the ledger back | I/O | outcome is classified as result, failure or final failure |
| **Admission and service** `scheduler-host/{scheduler-admission,service,...}.ts` | lock files, a service record with a generation | install, replace, remove the service; admit a claim | two installers; a claim while the service is replaced | no claim is admitted under maintenance |
| **Session claims** `packages/runtime/src/ownership/session-claims.ts` | table `claims` (one row per thread, plus the gate of the library); per process a map `held` | acquire, maintenance, initialize the library, release, close, reap | the owner's death is probed outside the transaction that deletes its row; the delete of a release may fail | a live holder never loses its row; maintenance and creation are exclusive; a process knows each row it has |
| **Client requests** `server/runtime-client-request-coordinator.ts`, `runtime-client-interaction-lifecycle.ts` | interactions with their responder, delivery and deadline; attachments with a set of methods and whether it is acknowledged; timers | attach, detach, request, redeliver, answer, set the methods and commit them, cancel, expire | answers to an old delivery; a commit that runs after its response was written, when a later set, a detach or a new attachment came between; a send that throws; keys used again | answered only by the client that shows the delivery; a pending request is always delivered or waits for a commit that comes; no prompt outlives its request |
| **User input and approval gates** `interaction/user-input-interaction-manager.ts`, `approval/approval-gate.ts` | pending promises, one map in the session and one in the service | ask, answer, abort, time out | answer against timeout against abort; calls of an aborted turn that still ask | settled once; clients are told what the call was told |
| **Thread store** `store/thread-store.ts` | SQLite store of conversations, revisions, queue of inputs | append, queue, drain, compact | crash between store and turn; concurrent revisions | no input is lost or run twice |
| **Runtime service and engine** `service/runtime-service.ts`, `engine/agent-session.ts`, `event-queue.ts` | sessions, openings, claims, active and settled turns, jobs of turns, pending approvals; per session the turn, its abort and its queue of events | start, cancel, end a turn; open, detach, delete a thread; answer, fail an approval; close | awaits between a check and the write it allows; the loop that writes events is not the one that makes them; the store fails inside a handler; close waits for what waits for clients | one turn of a thread at a time, told from start to end; nothing runs when the thread's claim is given back; cancel, detach and close end |
| **Tool execution coordinator** `tool-bridge/tool-execution-coordinator.ts` | batches of calls, what was decided about each, tables by call id; read and write locks of resources with queues | open and seal a batch, prepare, execute, finish a turn; take and give back locks, abort | late preparations, ids used again, a stream that fails, a batch nobody seals; an abort between a release and the call it woke; crossing locks | a call runs once its whole batch was decided and only on its own decision; conflicting calls never run together; every call is answered |
| **Shell sessions** `bash/{exec,profile}.ts` | processes and output buffers | spawn, read, kill | I/O | a command's process group can be killed |
| **Agent registry** `packages/core/src/registry/*`, `cli/commands/agent-*.ts` | installed agents and their status; per agent a lifecycle lock, a pid file, a sidecar, and a lease file per process that uses it | use, connect, start, promote, stop, release, recover an interrupted release; install, update, remove | processes of one user meet in files only; any may die with the lock, between spawn and record, or in the middle of a release; stale locks are reclaimed; probes may not tell | one process at work on an agent; one runtime, on record; nobody stops what another uses; the last user stops what was started for it |
| **MCP clients, configuration, authentication** `packages/core/src/{mcp,config,auth}` | connections, documents, tokens | connect, write, refresh | concurrent refresh | one refresh at a time |
| **Companion and relay** `packages/companion`, `packages/relay-client` | interactions of a remote device, resume cursor | publish, answer, resume | reconnect, duplicates | each interaction answered once; no gap after a resume |
| **Client library** `packages/client-node` | event cursor | subscribe, recover | missed events | no event lost or doubled |
| **Agents and browser** `agents/*`, `packages/browser` | a page, an outbox of feedback | browse, reply | I/O | — |
| **Protocols and SDK** `packages/{protocol,sdk,relay-protocol}` | none | schemas | — | — |

Modelled, in whole or in part: the schedule ledger and its hosts, the session claims, the client requests, the tool
execution coordinator, the runtime service with its engine, the approval gate, and the usage leases of agents. `PROJECT.json` gives the status of each
part and every known hazard with its line.

### How the modelled parts interact

```
  user commands ──────────────┐          cancel --kill ──┐
  (create, pause, run now)    │                          │ reads, kills, reads, tears down, writes
                              ▼                          ▼
  daemon ── claimDue ───► ScheduleLedger (one SQLite file) ◄── begin, renew, record, result ── executors
    │   ◄── claims ──                                                                            ▲   │
    └──── spawn, SIGTERM, SIGKILL, exit events ─────────────────────────────────────────────────┘   └─► tool processes
                                                                 (own process group or the executor's)
```

Every host talks to the others through the ledger and through signals alone. The ledger asks the world two things, "is
this executor dead" and "is the process tree of this run gone"; a host answers by a probe, which may fail to tell.
An executor's turn writes a conversation; who may do that is settled by the session claims, a table shared by all
processes that open the library.

```
  clients ──turn.start, turn.cancel, detach, close──► RuntimeService ──send──► AgentSession ──► model's stream (SDK)
     ▲  │                                              │     ▲                    │   ▲               │ calls
     │  └─answers─► RuntimeClientRequestCoordinator ──►│     └──AsyncEventQueue───┘   │ decision      ▼
     └──prompts──── (delivery, deadline, redelivery)   │                        ApprovalGate ◄── ToolExecutionCoordinator
                                                       ▼                                           (batches, resource locks)
                                        log of the thread, under its session claim
```

Inside one process everything happens between awaits. `SessionClaims` is where `RuntimeTurns` gets its claim from, and the
claim is what the service must hold until nothing of a turn is left. A call that wants to run goes through the preparation
of `ToolBatches`, where it may ask the user: the question is the `Ask` of `RuntimeTurns`, which the coordinator of
`ClientRequests` brings to a client; an admitted call then waits in `ResourceLocks`. The four modules are checked one by
one, each with the others' answers left open, which covers every order they can come in.

## 2. Modules

| Module | What it is |
|---|---|
| `ScheduleLedger` | the ledger: the three tables, a `claimDue` under way, one action per operation of the store |
| `FencedRuns` | what the ledger promises, with tables and timers taken away: each schedule is a lock, held under fencing tokens |
| `MCScheduleLedger` | small instances; symmetry of ids |
| `ScheduleLedgerProofs` | theorems about `ScheduleLedger` |
| `SchedulerHost` | EXTENDS the ledger with the daemon, executors, inline runs, cancel commands and the processes of a run; each of its ledger steps *is* an action of `ScheduleLedger` |
| `MCSchedulerHost` | small instances |
| `SchedulerHostProofs` | theorems about `SchedulerHost`; EXTENDS `ScheduleLedgerProofs`, whose theorems it carries over |
| `SessionClaims` | the claims table and each process's map and call |
| `MCSessionClaims` | small instances |
| `SessionClaimsProofs` | theorems about `SessionClaims` |
| `ClientRequests`, `MCClientRequests` | the requests of the runtime to its clients: interactions, deliveries, attachments, timers |
| `ClientRequestsProofs` | theorems about `ClientRequests` |
| `ResourceLocks`, `MCResourceLocks` | the locks of resources that approved tool calls take |
| `ConflictFree` | what the locks promise, with queues and counters taken away |
| `ResourceLocksProofs` | theorems about `ResourceLocks` |
| `ToolBatches`, `MCToolBatches` | the batches of the tool execution coordinator: preparation, admission, end of a turn |
| `ToolBatchesProofs` | theorems about `ToolBatches` |
| `RuntimeTurns`, `MCRuntimeTurns` | the turns of a thread in the service, its sessions, approvals, detach, delete and close |
| `RuntimeTurnsProofs` | theorems about `RuntimeTurns` |
| `AgentUsage`, `MCAgentUsage` | the processes that share an agent: lifecycle lock, runtime files, leases; start, use, release, stop, recovery |
| `AgentUsageProofs` | theorems about `AgentUsage` |

Operators whose name has the form `X_mistake` and whose comment starts with "(bug)" are versions of `X` with a plausible
mistake. No specification uses them; `PROJECT.json` ("mutants") pairs each with a property that must notice it.

### ScheduleLedger

`schedules`, `invocations` and `extensions` are the tables, keyed by id; a row that was never inserted has the status
"unused", a deleted one "deleted" (it keeps its schedule and mode so that the quota can be audited). The columns that
only describe (prompt, error text, timings) are dropped. Each method of the class that writes is one action, because
each runs in one `BEGIN IMMEDIATE` transaction. The exception is `claimDue`: it is one transaction in the code, but a
loop over the rows its first SELECT returned, so it is modelled row by row (`beginClaimDue`, then per row
`claimDueAbandon`, `claimDueSkip`, `claimDueExhaust`, `claimDueReclaim` or `claimDueSchedule`, then `commitClaimDue`),
with the variable `claim` as its local state; nothing else can run meanwhile (`Idle`). That is what lets
`SnapshotFresh` ask whether a row that is decided late is still what the SELECT saw.

Time is three facts per row: a lease is "future" or "past" (`leaseExpires`), a retry is due or not (`retryFallsDue`), a
trigger has fired or not (`nextRunFallsDue`). Anything may become due at any moment, so every choice of the
durations of `SCHEDULER_LIMITS` (lease 120 s, deferral 15 s, backoff 10 s, renewal 30 s, poll 15 s) is covered.
Tokens are random in the code and a counter here (`issued`): all the code uses is that they differ.

The callers are unconstrained: any worker may present any token ever issued, name any attempt, and report any probe
result. The module is therefore about what the store guarantees by itself, whoever calls it.

### SchedulerHost

Adds what the callers really do. An executor (`procs`) goes through the phases of `executeInvocation`
(`starting → preflight → turn → settle → write → leaving → gone`, `refused` after a failed preflight); its tools may leave
processes in its group or in a group of their own; it may die at any point. The daemon (`daemon`, `entries`,
`launching`) claims, launches, renews, reaches max-run, kills, handles exits, bounds orphans, stops, and may crash at any
point. A cancel command (`cancel`) is four actions because the code awaits between them. The answers the ledger wants
are computed from the processes: `ExecutorDead` (the root is gone and so is its group, `executor-liveness.ts`) and
`TreeGone` (nothing carries the run's mark, `invocation-tree.ts`), through `ProbeAnswers`, which may say "not confirmed"
at any time in the scenarios where probes may fail.

### SessionClaims

A method runs to its end without a callback, but it consists of transactions with a probe between them; the variable
`calls` records, per process, which of them comes next and which row it met. The open transaction of the initialization
of a library is `gate`, and whoever waits for the write lock may give up (`busy`, `releaseFails`). A process dies
between any two steps (`die`); its map goes with it, its rows stay.

### ClientRequests

Every method of the coordinator is synchronous and is one action: `AttachResponder`, `DetachResponder`, `MakeRequest`,
`HandleResponse`, `SetServerRequestMethods`, `Cancel`, `CancelAll`, `Redeliver`, and what the event loop does by itself:
`TimerFires`, and `ResponseWritten`, the commit that `setServerRequestMethodsForAttachment` defers until its response is on the
wire. `req` is the map of interactions (a key may be used again after it was settled; `nth` is the identity of the
object), `deliveries` and `timers` are the two maps beside it, `att` the attachments. `prompts` is the client's side: what it
shows. A send throws on a broken attachment, and may throw for any single delivery (`throws`, `lost`): in a request, in a
redelivery, or in the middle of a commit, where it fails the interaction that was delivered and the loop goes on. `told` is a history variable: the capability sets a client got a response to.

### ResourceLocks and ConflictFree

`readers`, `writer` and `queue` are the `LockState` of each key; `pc`, `held` and `ahead` are the progress of `run`, which takes
the locks of a call in the order of their keys with an await after each. `Take` and `Enqueue` are the two outcomes of
`acquire`, `Release` is the `finally` that gives all locks back and drains the queues in one synchronous step, `Abort` is the
abort listener of every waiter of a turn. `ConflictFree` says only that conflicting calls never run together and that each
runs once; the mapping is `busy <- Running, over <- ran \ Running`.

### ToolBatches

A call is ⟨id, model call⟩, because ids are used again and the tables `toolCallBatches` and `prepared` are keyed by id. `prep`
and `exec` are the continuations of `prepare` and `execute` at their awaits; `tail` is the promise chain that lets one
preparation at a time ask the user; `batch`, `mapped`, `byCall`, `active` and `prepared` are the fields of the class. The SDK is
external: it streams calls into the batch that is open, may end a model call before its last calls are prepared, may fail,
and opens the next batch when every call of the last one is answered, or, in the same turn, when the last model call failed before it
had a call (`Repeats`; the batch may never have been sealed and is cancelled then). A recovery from a stream that failed with
calls, and a turn that pauses, call `finishTurn` in the middle of a turn (`agent-session.ts:2163`, `2300`); what follows is
the next turn of the model, whose tables are as empty. The locks are one await here.

### RuntimeTurns

One action is what runs between two awaits. `BeginStart` is the handler of `turn.start` up to `await requireSession`, and
`StartTurn` the rest with `driveTurn` up to its first event; `Opened` is the promise of `resumeSession`, which every request and
`openThread` shares. `sess` is an `AgentSession`: its turn, whether that is aborted, the queue that its `emit` pushes to. The
body of `runTurn` is abstracted to what it tells: approvals (`Ask`), an error, its end (`EndRun`). A turn that completes has
waited for its approvals; one that is aborted or whose stream fails ends while some are open. `ProjectAsk`, `ProjectOther`, `ProjectEnd` and
`EndTurn` are the loop of `driveTurn`, which reads the queue of its turn and writes the log; of the events of messages and tools only
an append that fails matters, and that one abandons the turn (`ProjectOther`). An approval (`ask`) is in two maps,
the gate of its session and `pendingApprovals` of the service; `decision` is what the call of the tool was told and `told` what
clients were. `down` is a detach or a delete under way and `closeAt` the progress of `close()`, action by action from one await
to the next. Every append to the log may fail once (`faults`), at any place where the code makes one, with what the
handler had changed before it kept and its `finally` run, and so may the cleanup of a session's processes. An append
under a claim that was released always fails, as `SessionClaims` makes it.

### AgentUsage

The state is what is on disk (`lock`, `pidFile`, `sidecar`, `leases`), what runs (`runtimes`, `alive`), and where each process is
in its command (`procs`). A command takes the lock, works, lets go of it: `use` and `connect` are `acquireAgentUsageLease`
(the first may start the agent) with the release, `start` is `prepareAgentStartAttempt` and, if the agent does not answer,
`finalizeAgentStartAttempt`; `stop` is the maintenance guard with `stopAgentGracefully`, `recover` the same command when the user
approved the recovery. The lock is modelled access by access (`Create`, `Judge`, `Compare`, `Unlink`, `Recreate`; `Unlock`,
`Remove`), since other processes run in between. Under the lock an action is what happens between two points where the
process may wait, die or fail (`Acquire`, `Spawn`, `Record`, `Write`; `Quarantine`, `Decide`, `Signal`, `Wait`, `Clear`). `mayFail`, chosen
at the start, says whether probes, writes and waits may fail in a behaviour: then the owner of a lease may be impossible
to verify, a write may be undone or fail with the lease file already in its place, the start of a runtime that was spawned may be
rolled back, a recovery may stop between two of the leases it removes, a runtime may not stop in time. A process may die at any
step (`Dies`), also later, with a lease it left behind; a runtime may end at any time (`Exits`).

`raced` becomes true when a process removes a lock file other than the one it had read. The code can do that (section 5),
and afterwards two processes work at once; the properties that rest on the lock are stated up to there, `LeaseKept` is
not: it holds without the lock. `RuntimeRecorded` makes one more exception, which is what the code does: of a process that dies between
the spawn and the pid file the runtime is on no record, and the next user starts another beside it (`process-manager.ts:571`).

## 3. Runs and what they show

| Run | Bounds | Distinct states | What it shows |
|---|---|---|---|
| `ledger` | 1 schedule, 2 runs of 2 attempts, 1 worker, quota ≤ 3, 2 instants of its trigger, 2 extension requests | 365 608 | one active run; rows agree with their ownership, their budget and the rows they refer to; quota, trigger and status of a schedule agree with its runs; extensions take effect exactly once; tokens fence; the SELECT of `claimDue` stays valid through its walk; the ledger implements `FencedRuns` |
| `ledger_occupancy` | 3 runs | violation | section 5 |
| `hosts` | 2 runs, 2 executors, 2 attempts; four scenarios: a crash beside manual runs, inline runs that may die (probes may fail in both), stop and start with pause and resume, a crash and two cancel commands (probes may fail) | 1.7 million | turns of a schedule exclude each other across hosts, and what an earlier attempt left; no attempt runs its turn twice; results only after cleanup; every step of the hosts is a step of `ScheduleLedger` or leaves it alone |
| `host_trees` | no crash, probes reliable | violation | section 5 |
| `session_claims` | 3 processes, 2 threads and the gate, 2 attempts per call, 4 claims, 2 handles | 755 012 | a live holder is never dispossessed; maintenance and creation are exclusive; a process's map names each of its rows |
| `client_requests` | 1 key used twice, 2 clients over 2 attachments, 2 capability sets each, 2 deliveries, sends that throw | 4.73 million | the three maps agree; deliveries are made only under a set the client was told of; a result counts only from the client that shows the delivery |
| `client_requests_live` | 2 requests, one with a deadline; one client over 2 attachments, one set each | 559 469 | no request is stranded, no prompt outlives its request; a request with a deadline ends |
| `resource_locks` | 5 calls of 2 turns and of none, 2 keys, two calls crossing, both turns may be cancelled | 21 000 | no wake-up is lost, waiters are served in order, every call ends; the locks implement `ConflictFree` |
| `tool_batches` | 2 model calls of one or two turns, 3 calls of which two share an id | 136 884 | a rejected batch does not run, a call runs on its own decision once its batch is decided, the tables forget a finished turn, every executed call is answered |
| `runtime_turns` | 2 turns, one requested twice, 1 approval, 2 sessions, 1 fault | 535 781 | the log is bracketed, clients are told what calls were told, a thread is released quiet, no turn runs twice, cancel, detach, delete and close end |
| `agent_usage` | 3 processes with any of the 5 commands, 2 runtimes, 2 deaths | 790 856 | one process at work, one runtime on record; nobody stops what another uses; nobody's lease is removed; the last user stops what was started for it |
| `agent_underneath` | 3 processes that use or stop, 1 death | violation | section 5 |

**The bounds.** *Ledger and hosts:* two runs of one schedule are what a violation of the singleton needs; two attempts make
every run meet "there is a next attempt" and "this was the last"; two executors let one be left over while the other works.
Quotas of 0 to 3 rounds include no quota, the round that uses up the quota, and one that does not; a quota of one leaves room for
two extensions that follow one another, and two requests are enough for one to be repeated after the other took effect. Instances with two schedules are too large together with this;
that schedules do not disturb each other is in the proofs, which hold for any number. In the host runs the variable
`scenario`, chosen in `Init`, says which families of user commands a behaviour has, how often the daemon crashes and
whether probes may fail; one run covers several scenarios. Inline runs with
a crash of the daemon besides (971 968 states) gave the same answers: the daemon knows an inline run by its row alone,
before its restart and after. *Claims:* three processes are the holder, the one that probes a
row, and the one that takes the thread in between; the 32 attempts of an acquisition are 2 here (`Attempts`), enough to
have another attempt and to run out; `MaxClaims` and `MaxReferences` bound the history. *Client requests:* a key used
twice, two deliveries and two sets make an old delivery, an old timer and an old commit meet a newer one; the liveness run
needs two requests, so that one fails in the middle of a commit while another waits. *Locks:* the accesses of the five calls
cross on two keys, with a reader before and after a writer; `EveryCallEnds` needs the crossing and the abort.
*Batches:* an id is used twice, in one turn or in two. *Agent usage:* three processes are a dead
owner of the lock and two that reclaim it, or two users and one that stops; the second runtime is the one that must not be
started beside the first; two deaths let the one that recovers die too. *Turns:* two turns and two sessions are what one needs to start
over after a detach, the repeated request is still under way meanwhile; one fault can hit any append or cleanup. An instance
with two approvals (safety only, 6.3 million states) gave the same answers as the run with one. Symmetry is over ids
that no action tells apart, and is used in safety runs only.

**Deadlock** is checked for `resource_locks`, where the end of all calls is a step of its own. Elsewhere it is not: the ids
of runs, claims, deliveries and turns are finite and used once, clients may stop asking, and a command of `AgentUsage` ends, so
the models really may stop.

**Fairness.** The ledger, the hosts, the claims and the agent usage assume none: their properties hold of every prefix. Elsewhere it is weak
fairness of what the event loop, the clock or the operating system does without anyone asking:

- `ClientRequests`: deadlines pass, an armed timer fires, a response that was queued is written. Clients owe nothing.
- `ResourceLocks`: the continuations of a call run, and an operation that was started ends (tools have time limits).
- `ToolBatches`: the model's stream ends or fails, the `finally` of a turn is reached, continuations run; the preparation of a
  call ends, because the question to the user has a deadline or the turn is cancelled.
- `RuntimeTurns`: promises that are settled are acted on (`StartTurn`, the loop of `driveTurn`, the steps of cleanup, detach and
  close), the engine answers whether it can open a session, and `runTurn` ends *once its signal is aborted*, since the
  signal reaches the model's stream. A turn nobody aborts may run for ever, a client may never answer: neither is needed.

### The properties

Beyond type invariants, which are part of the first conjunction of their module:

- *Ledger.* `SingleActiveRun`, `SnapshotFresh`, `RowsConsistent` (types, ownership columns, attempts, and references between rows), `ScheduleAccounts` (quota,
  trigger, completion, and each extension exactly once), and the action properties `ClaimFenced`, `ScheduledStartsActive`;
  `ImplementsFencedRuns` maps each schedule to the set of pairs ⟨run, token⟩ that are active.
- *Hosts.* `TurnsApart` (`TurnExclusive` and `TurnAlone`), `HostsConsistent` (with `TurnOnce`), `ResultAfterCleanup`, `ImplementsLedger`.
- *Claims.* `NeverDispossessed`, `GateExclusive` (`MaintenanceAlone` and `InitializationAlone`), `RowsRemembered`.
- *Client requests.* `MapsAgree` (with `AckedMeansTold`), `AnswerAccepted`, `NeverStranded`, `NoOrphanPrompt`, `DeadlineSettles`.
- *Locks.* `NoLostWakeup`, `NoOvertaking`, `EveryCallEnds`, `RefinesPromise`.
- *Batches.* `TablesExact`, `RejectionStopsBatch`, `OwnDecision`, `WholeBatchFirst`, `StartedIsTold`, `EveryCallAnswered`.
- *Turns.* `TurnBrackets` (turns do not overlap in the log, approvals are resolved before their turn ends, an aborted turn is
  not told to be completed), `DecisionAgreed`, `ReleasedQuiet`, `TurnOnce`, `CancelEnds`, `TeardownEnds`. `TurnOnce` is a promise
  of the cache of settled turns and lasts as long as the cache remembers the turn: `CacheSize` is 2 here, the number of
  turns; with a smaller cache an old request does run its turn again.
- *Agent usage.* `UsageConsistent` (`LockExclusive` and `RuntimeRecorded`), `LastOutStops`, `SparesUsers`, `LeaseKept`.

Each is preceded in its module by a statement in words and the code it is about.

## 4. Proofs

Every safety property that a passing run checks is a theorem: an invariant or action property of the specification for every
value of the constants that satisfies the named assumptions, so for any number of schedules, runs, workers, processes,
threads, attempts, clients, requests, tool calls, turns, sessions and failures. The assumptions are `LedgerAssumption`,
`HostAssumption`, `ClaimsAssumption`, `RequestsAssumption`, `BatchesAssumption`, `TurnsAssumption`, `UsageAssumption` and those of
`ResourceLocks`. Apart from the types of the bounds they say that `None` is none of the things it stands beside (an id is not
NULL, a lock file does not hold an empty token), and that the sets which a program only ever fills one by one are finite where the
code takes their size: the keys of requests, the ids of calls, the approvals, the calls that take locks. `TurnOnce` has one
more hypothesis, below.

**ScheduleLedger.** `TypeCorrect`, `SnapshotNeverStale`, `OneActiveRun`, `LedgerImplementsFencedRuns`, `RowsAreConsistent`,
`AccountsBalance`, `ClaimsAreFenced`, `ScheduledRunsStartActive`. For the first four the inductive invariant is `TypeOK /\
SnapshotFresh /\ SingleActiveRun`. `SnapshotFresh` has to be in it: the walk of `claimDue`
decides a row from the SELECT, and only because the row is still live is the write that follows well typed and the
run it reclaims the one that was counted. The key lemma for the singleton is that most steps only let runs go
(`RunsKept`: each active run was active, for the same schedule and under the same token), and that the three that
claim (`claimPendingInvocation`, `claimDueReclaim`, `claimDueSchedule`) are guarded by `HasOtherLiveRun`. The same two
facts give the refinement: a step of the first kind is a `Release` of `FencedRuns` (or nothing), one of the second a `Grant`
with a token above every token so far.

The other four rest on `Inv`, which adds the `Books` of the ledger to `TypeOK` and `SnapshotFresh`:

- `Rows`: each row by itself (`RowFine`). Beyond what `RowsConsistent` says, a pending run is a manual one that has made no attempt,
  and a run in retry has one left. `claimPendingInvocation` compares no attempts with the budget (`claimDueReclaim` does); that
  the first attempt is within it follows from how a row came to be pending.
- `Tokens`: no token is ahead of the counter, so a new claim shares its token with nobody.
- `Parents`: the schedule of a run that is there is there (the foreign key); without it a schedule could be created over
  runs that count against its quota.
- `Accounts`, `Counts`: the account of each schedule, and its `roundsStarted` as the number of scheduled runs it has had, the deleted ones
  included. That the set of those is finite is part of the invariant: each step adds one at most.
- `Chain`: the extensions of a schedule do not overlap, and one ends at its quota, so that a request which is repeated after another took
  effect finds its own entry and no second one is founded on the same rounds.

Most steps only let a row follow from what it was (`Follows`: what a step that claims nothing may do to a row) and move the
accounts in the ways an account may move; one lemma, `OrdinaryKeeps`, says that those keep the books. Claiming, enqueueing, creating
and removing a schedule, extending its quota and starting a round have a lemma each.

**SchedulerHost.** `HostsImplementLedger` and `HostsKeepLedger` (`HostSpec => Spec`): what the daemon, the executors, the inline runs
and the cancel commands do to the ledger are its operations, with answers that probes can give. So all theorems about
the ledger hold of the one these hosts share. `NoAttemptTwice`, `TurnsStayApart` and `ResultsAreEarned` are about the
processes. Their inductive invariant is `Good == Inv /\ SingleActiveRun /\ HostInv`, where `HostInv` ties each process and each entry of a
host to the row it was launched for:

- `Processes`, `Unique`, `Named`: a process belongs to one attempt and no two to the same; a run that is `running` names the
  process of its present attempt.
- `Owned`: a process at work, or one that left something in its group, is the executor of a run that is `running`; at work it holds
  the token of the row. That is the sense in which the token an executor carries excludes a second executor. With
  `SingleActiveRun` it gives `TurnExclusive`.
- `TodoDead`: `claimDue` visits a running row only if its executor was found dead. The probe is made at the SELECT and the
  row is reclaimed later; it has to be known that the executor has not come back.
- `Pending`, `Recorded`: a run that is still to be launched has an attempt that no process has; an entry whose token is good is about
  the present attempt. Both are about the await between the claim and the spawn.
- `Alone`: from its turn on an executor is the only thing left of its run. This is what the preflight established, and it lasts
  because nothing of an earlier attempt comes back. It gives `TurnAlone` and `ResultAfterCleanup`.
- `Budgeted`, `FewEntries`: the attempts a claim may make and the limit on runs are compared with numbers.

Almost every step lets rows `Calm` down (no row becomes active, changes owner or attempt) and processes `Wind` down (no process comes
back or gains a token); such a step `Rests`, and one lemma, `RestKeeps`,
says that it keeps the invariant. The exceptions are a claim, the launch of a claimed
run, and the begin that makes it `running`; each has a lemma of its own
(`ClaimingKeeps`, `LaunchKeeps`, `BeginKeeps`).

**SessionClaims.** `ClaimsTypeCorrect`, `NoLiveHolderDispossessed`, `WritersExcludeMaintenance`, `CreationAlone` (together
`GateKeeps`) and `RowsStayRemembered`. The inductive invariant `Inv` adds to the stated properties what a process relies on outside of a
transaction:

- `SightingsFenced`: the row a call met is still that row *if it still has that id*, and an owner found dead stays dead.
  Without it the `DELETE ... WHERE claim_id = ?` of `reap` could not be told from one that takes a successor's row.
  It rests on `RowsMinted`: an id in the table was issued, so a new row has one nobody has seen.
- `GateRowAlone`, `InitializationFenced`: the table while the gate is held, and while a library is being created.
- `EndedQuiet`: a process that is closed or dead holds nothing and is in no call.

Mutual exclusion of writers and maintenance then follows from `NeverDispossessed` (each holder is in the table) and
`GateRowAlone`.

**ClientRequests.** `Agree`, `Reached`, `NothingOrphaned` and `Accepted`. The inductive invariant `Inv` has the deliveries (`Mapped`) and the timers
(`TimersExact`) as functions of the interactions that are pending, and says of each of those that it is `Served`: its responder
is attached under the scope of the request; while it waits, the methods of that attachment are not acknowledged; once it is
delivered, the method is accepted and the delivery on record names this use of the key and this attachment. `NeverStranded` follows:
what waits has a responder that is attached and has yet to acknowledge its methods. `Shown` and `Numbered` are there for
`NoOrphanPrompt` and `AnswerAccepted`: a client shows only what was delivered to it, each delivery has an id of its own.
One set of lemmas says what it means that a set of interactions ends (`Settles`), and one what a delivery does; the handlers, which
end and deliver several at once, are composed of these.

**ResourceLocks.** `TypeCorrect`, `Counts`, `Wakeups`, `Cancelled`, `Excludes`, `Implements` and `InOrder`, for any calls (finitely
many), any accesses and any signals. `Counts`, `Excludes` and `Cancelled` state `CountsExact`, `Exclusion` and `NoAbortedWaiter`,
which are parts of the argument and are not runs of their own. The inductive invariant `Inv` adds to them what a queue is:

- `WaitersWait`, `OneQueue`: who is in a queue waits for that key, needs it and does not have it, and is in no other queue;
  otherwise a wake-up would give a call a lock it does not want, and the counters would drift.
- `QueuesOrdered`: the order of a queue is total, so that a non-empty queue has a first waiter (by induction over finite
  sets of waiters, `FirstWaiter`); a drain of a free lock then grants something, which is what `NoLostWakeup` needs.
- `Progress`: a running call has all its keys. With `CountsExact` that gives `Exclusion`, and with it the refinement.

The lemmas `ExactTake`, `ExactRelease` and `ExactGrant` say what one entry of `held` does to the counters; `DrainStep` composes
them for the one step that changes many at once, a release that gives back several locks and wakes calls on each.

**ToolBatches.** `Tables`, `Rejection`, `Decision`, `Whole` and `Told`. The tables `toolCallBatches` and `prepared` are keyed by ids that
models use again, so the invariant has to say which call an entry is about. `TablesCurrent`: of the latest batch of the turn that
runs, while it is incomplete. That needs `Batches` (a batch before the latest one is complete or was cancelled; a batch is
released as soon as it is ready), `StreamKnows` (when the stream is over its batch is sealed and knows its calls) and `CallsOf` (what a
batch counts is where its calls are). `Allowed` then says of a call past its admission that it carries its own
decision, of a batch in which all was decided and nothing rejected; once a batch is decided no step changes that.

**RuntimeTurns.** `Brackets`, `Agreed`, `Released` and `Once`. The inductive invariant `Inv` is a conjunction of parts, each about two or
three of the maps that the service keeps side by side: `Sessions` (the session that is remembered, its claim, and which sessions may run
a turn), `Openings` and `Teardowns` (what a request holds across its await, and what a detach, delete or close has stopped),
`Jobs` (the turn of the job is the one told to have started, in the session that is remembered), `Asks` (one approval in the two maps that
have it: the gate, and what clients are told), `Events` (an approval is in one place of one queue and nobody was told of it
yet), `Running` (a turn that was aborted has that in its queue or has read it). Without `Events` the loop could tell clients of
an approval that was decided meanwhile; without `Running` a turn could end as completed after its cancellation. Each step is
described by how it changes the sessions (`Rested`), the approvals (`Calm`, `Later`) and the turns, and one lemma per part
says that such changes keep it.

`Once` is proved for no more turns than the cache of settled owners has entries (`Cardinality(Turn) <= CacheSize`), and the
hypothesis is needed: the cache, which all threads of the service share, forgets its oldest entry, and a request for a turn that was
forgotten starts it again. Its own invariant, `Memory`, is that no turn is recorded twice, so that a cache of that size never
evicts (`UniqueIsShort`), and that every turn that ended is recorded while the service is open.

**AgentUsage.** `Invariance`, and from it `LockExcludes`, `LeasesKept`, `UsersSpared` and `LastOut`: for any number of processes, runtimes
and deaths. The inductive invariant `Inv` is the types, `RuntimeRecorded`, and what each process that is alive `Knows` of the files
at its step: that it holds the lock while it works (`LockOwned`), that the lock it is about to remove is of a dead process
(`SeenDead`), that nobody uses the runtime it is about to start or stop (`NoUsers`, `StopsUnretained`), that nothing else is on
record while it records (`RecordingAlone`), and at which steps it has a lease itself (`OwnLease`). Without it the decision
taken when the leases were read could not be related to the signal sent steps later. The argument has two halves.
`OthersKnow`: a step of one process leaves true what another knows, because of what only the owner of the lock changes
(`LockMoves`, `FilesMove`) and what only the owner of a lease does (`LeasesMove`). `LockSteps`, `SectionSteps`, `StartSteps`, `StopSteps`
and `TurnSteps`: each step of a process establishes what it has to know next.

`LastOut` rests on a second invariant, `Tidy`, about behaviours in which nothing has died, failed or raced (`Calm`): every lease is of the runtime
on record, unless that has stopped (`Shares`); a runtime started for a lease has one or is about to get it (`Wanted`); and a process that
stops or starts a runtime is alone with it, its own lease being of that runtime (`Careful`). The delicate step is `Decide`: a
release that leaves the runtime to another user relies on that user's lease being of the same runtime.

**Only model-checked:** the properties under fairness (`DeadlineSettles`, `EveryCallEnds`, `EveryCallAnswered`, `CancelEnds`,
`TeardownEnds`), which are out of the prover's reach, as is what a recursive definition computes for every input. The three
statements of section 5 are refuted by TLC. That the invariants hold on the instances of the runs was checked by TLC before they were proved.

## 5. Disagreements between documentation and code

Two statements of `docs/how-to-schedule-tasks.md` and one of a change log are not what the code does. Each is a property of
its own, and each run ends with a trace.

1. `ledger_occupancy` / `SingleOccupancy`. Lines 340–341: a schedule has one run claimed or running, and a retry whose
   process tree is not cleared occupies the same slot. `finalizeCancellation` (`schedule-store.ts:1437`) writes the
   report of the cancelling command onto the retry it read without asking whether another run became active
   since; then both occupy the schedule.
2. `host_trees` / `TreesNeverOverlap`. Line 511: two process trees that Roll manages and can still verify to be alive
   never run at the same time. The probe that releases a schedule looks at the executor's own process group
   (`executor-liveness.ts:106`); a command of the shell tool has a group of its own (`bash/profile.ts:152`) and, though it is
   verifiable by its mark, does not keep the schedule. `TurnExclusive` is what does hold.
3. `agent_underneath` / `NeverUnderneath`. `packages/core/CHANGELOG.md:870-871`: clients share one runtime without one client
   shutting it down underneath another. `removeStaleAgentLifecycleLock` (`process-manager.ts:921`) compares the lock file with
   what it read and then removes whatever has that name. When the owner of the lock died and two processes reclaim
   it, the second can remove the new lock of the first; then both work, and one stops the runtime while the other writes
   its lease. `SparesUsers` is what does hold.

One more statement was read and needs no run: lines 486–487 of the guide say that an invocation stays `running` when the cleanup
before or after it does not succeed. A failed preflight fails the attempt (`execute-invocation.ts:193`), which puts the run in
retry while attempts are left; a test expects that (`execute-invocation.test.ts:272`). After a run the statement is right.

## 6. What the models leave out

- *Ledger.* The digest of an authority and the writes that refresh it, the table of thread references, `nextWakeAtMs`,
  rows that cannot be decoded, migration of old files. The order in which `claimDue` visits rows, and which of them
  it probes, are nondeterministic (the rotation by `executor_probed_at` is not kept). The comparison of `finished_at` with
  the timeout in `reclassifyTimedOutInvocation` is left to the caller: in `SchedulerHost`, `late`. `UNIQUE (schedule,
  expected_max_rounds)` of the extensions adds nothing to the check that `max_rounds` is what the caller expected.
- *Hosts.* Linux, where the mark in the environment finds the processes of a run. The composition leaves out
  `--abandon`, remove, prune and extend (checked in the ledger with unconstrained callers), the admission lock and the
  service. A crash inside a transaction is a crash before it. A lease that was renewed does not lapse before a kill timer
  that is already armed fires (max-run grace against 120 s). `boundOrphans`, which sends SIGTERM first and SIGKILL after a
  grace, is the SIGKILL: that the executor leaves on the SIGTERM is `executorEnds`. A teardown that is not clean kills
  nothing by itself: what it kills, `leftoverEnds` and `executorEnds` may end at any time. The probes of the store ask about
  processes of others.
- *Claims.* The check for aliases of the library in the file system, which only raises errors; two `SessionClaims` in one
  process.
- *Client requests.* Parsing of parameters and results, and diagnostics. Deliveries are bounded numbers in place of UUIDs.
- *Locks and batches.* How a call's resources are found from its input, and calls outside a batch, which a session never
  makes. The revalidation between the locks and the run is in `ToolBatches`.
- *Turns.* The content of messages, tools and attachments; user input, whose requests are not in the log; the cache of
  answered requests (`MutationRequestCache`), so that a repeated `turn.start` always reaches its handler, the harder case; other
  threads. A turn of the engine is what it asks, tells and ends with: its steps, the compaction of its context and
  recovery from model errors are not here. A preparation left behind by an aborted turn may ask under the next turn of the
  session (`stray`), and so may one left by a stream that failed; the next turn does not wait for that answer before it ends. Requests that hold a session go on before
  the session's cleanup ends: they wait for microtasks only, the cleanup for processes.

- *Agent usage.* The registry file with its lock and the status of an agent (the registry lock keeps some commands apart
  that interleave here); the guards of install, update and remove, which take the lock as `Stop` does; the reuse of pids, which
  start tokens tell apart; files that are half-written or written by anything else; the runtime's own answer to SIGTERM.

### Not modelled

Most of the repository's lines are outside: agents for particular sites and their browser automation, terminal rendering,
schemas, and thin adapters of SDKs. They keep no state of their own that outlives a call, or their state is a web page or a
terminal; a model of them would restate them. What is stateful and not modelled yet is in the plan. For each
component the note in `PROJECT.json` says which of the two it is.

## 7. Plan

In order of importance:

1. **Progress of the scheduler.** Under weak fairness of tick, renewal, exits and timers: a run that is active does not
   stay so for ever.
2. **Request cache and user input** in `RuntimeTurns`: `MutationRequestCache` with its replay, and
   `UserInputInteractionManager` beside the gate.
3. **Event stream**: the cursor of a subscription, replay and the client's recovery of missed events.
4. **Triggers** as operators, checked against a reference definition over bounded inputs.
5. **Admission and service**; the registry's lock and status around `AgentUsage`; the thread store's revisions and its queue of inputs across a crash.
6. **Companion and relay**: the interaction broker and the resume protocol.
