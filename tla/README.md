# A formal model of Omni AGI Studio

TLA+ specifications, TLC configurations and TLAPS proofs for the part of Omni
AGI Studio whose correctness lies in the order of things: who writes a brain,
who owns the neural worker, when a brain is loaded, how an unfinished turn
survives, how the construction of a brain recovers, which brain thinks by itself,
how an automation keeps its receipts, how live capture passes a running reply, and
how a save that writes little of a brain is still a save of all of it. Paths are those of the
repository; `src/src/main/...` is the Electron main process, `src/engine/...` the
Python worker.

Contents: [the system](#the-system) · [modules](#modules-and-the-code-they-model)
· [runs](#what-the-runs-check) · [bounds](#bounds-and-why-they-are-enough) ·
[fairness](#fairness-and-what-justifies-it) · [proofs](#what-is-proved) ·
[disagreements](#where-code-and-documentation-disagree) ·
[not modelled](#what-is-not-modelled) · [plan](#plan)

## The system

Three processes take part (docs/ARCHITECTURE.md:26-46):

    renderer (React)  --typed IPC-->  main process (Electron, TypeScript)
                                        |  one JSON object per line over stdio
                                        v
                                      worker (Python, PyTorch)

The renderer holds no state that matters. The main process owns the brain
documents, the jobs, the journals and the life of the worker. The worker owns
the neural state. The main process is single-threaded but every `await` is a
point where another handler runs; the worker has one dispatcher thread for
neural work and a reader thread that takes in lines meanwhile. Either may end at
any time, so whatever must survive is in files replaced atomically.

### Components

| Component | State | Operations | Interacts with | Hard behaviour | Correct if |
|---|---|---|---|---|---|
| Brain write coordinator `main/brainWriteCoordinator.ts` | a chain of promises per brain (`tails`) | `run` with abort | every writer of a brain document | aborted waiters in the middle of a chain, scopes of several brains, callbacks in any order | exclusive, first come first served, no save of a stale document, nobody waits for ever |
| Engine supervisor, process `main/engineSupervisor.ts` | `child`, `starting`, `stopping`, `terminating`, pending requests | start, handshake, deadline, forced cancel, interrupt, stop | worker; request queue | a killed process that does not exit, exit before close, a late timer, several waiters on one launch | one worker at a time, no request on a dead one, start and stop return |
| Engine supervisor, requests (same file) | turn queue, `activeRequest`, foreground claims, holds | request, cancelRequest, claims and preemption, hold, withHostCompute | process half; lifecycle; idle cognition | cancellation against answer, background against foreground, cold start, holds against the turn queue | one request executes, background yields, cancellation is final and settles |
| Instance lifecycle `main/instanceLifecycleController.ts`, chat loop of `brainService.ts` | phase, admission, resume frontier, operation | load, unload, status, waitUntilLoaded, completed, workerClosed | write coordinator, request queue, worker | stale inspections, a worker that dies after its reply, a turn admitted before an unload | loaded means resident, a committed turn is not executed again, no lost wakeup, Load and Unload return (up to a chat held back with the writer) |
| Execution checkpoint `engine/omni_core/execution_checkpoint.py`, `worker_lifecycle.py`, `chat_tool_observation.py` | `brain.json`, checkpoint directories, `active.json`, resident brain, observation inbox | suspend, resume, finish, stop, load, unload, deliver | lifecycle (it calls it), AdaptiveBrain | crash or failed write between any two writes, repeated deliveries and retries | pointer intact, each input learned once, each turn answered once, no stopped frontier is resumed |
| Build initialization `main/buildInitializationCoordinator.ts`, `...Plan.ts`, `buildResourceSelections.ts` | plan per brain, shared selection index (memory and file), runtime jobs, readiness | create, retry, recoverAll, runTask, complete, recordFailure | repository, jobs, worker | four stores that cannot be written together, jobs nobody waits for, restarts | ready only when everything is learned, no single failure lets a selection train two brains, calls return |
| Active mode (`setActiveMode`, `reconcileActiveModeLease` in `main/brainRepository.ts`) | the `idleCognition` flag of every document | enable, disable, reconcile; create, save and delete of documents | write coordinator, Builds, renderer's switch | the list of brains is read before the locks, Builds save without one, a crash between two saves | at most one owner and no switch undone, up to what Builds save without the lock |
| OS work lease `main/osWorkLeaseService.ts` | live work, sleep blocker, priority | observe, release | activity events of the request queue | a terminal event that never comes | released when nothing works |
| Idle cognition `main/idleCognitionScheduler.ts`, `idleCycle` of `brainService.ts` | running tick, quiet period per brain, backoff | tick, cancel, reserve for the foreground, a cycle | engine requests, active mode, Builds, chats | a cancel, a failure and a new tick write one quiet window | a cancelled brain has its quiet time, the owner thinks again and again |
| Live sensory queue `engine/live_sensory_queue.py`, `worker_live_sensory.py`, `stdio_request_admission.py` | inbox per turn, session, RAM receipts; the application's record of the capture | offer, take, integrate, reject, retire, close; retain and release | reader thread and main thread, `brainService.ts` | two threads, an offer racing the close of its turn or the retirement of its session | what is rejected was not used, receipts follow their payload, every request is answered (up to a signal inside the lock) |
| Owner lease of a brain `omni_core/brain_lease.py` | lock file | acquire, release | load and unload | a crashed owner | one owner per directory |
| Connected transaction `omni_core/connected_transaction.py` | staged and published neural state | begin, stage, publish, roll back | neural core | failure between two publications | all or nothing |
| Persistence `omni_core/paged_dirty_journal.py`, `paged_substrate_writer.py`, `committed_paged_cache.py`, the save of `brain.py` | rows in SQLite, journal of changes, generations and blobs, the generation of `brain.json` | learn, decay, plan, write, commit, rebase, reclaim, load | execution checkpoint, neural core | a crash or failure in a save, rows that change under it, decay that touches no row, groups at their limit | a save is one of all rows at one moment, and what is committed loads |
| Conversation ledger, tool intents `main/conversationLedger.ts`, `toolIntentJournal.ts` | append-only files | append, replay | chat loop | a crash between an effect and its receipt | no effect is repeated |
| MCP tasks `main/mcpTaskStore.ts`, `mcpTaskCustody.ts` | tasks and custody on disk | create, poll, cancel, recover | remote servers | restart with a task in flight | a task has one outcome |
| Automations `main/automationService.ts`, its calls of `toolExecutor.ts` | the row of a run, a receipt per step and attempt, the pump, approvals | pump, pause, resume, stop, approve, review, revoke, recover, quit | tool executor, authority, clocks | a crash between intent, effect and receipt; a late outcome after a pause | no unconfirmed repetition, no step passed without receipt, a pause holds, a stop returns |
| Clocks `main/clockService.ts` | schedules, missed firings | arm, fire, recover | automations, chats | sleep and restart across a due time | each occurrence fires once |

`PROJECT.json` lists these and every other part (tools, plugins, MCP client,
learning and evolution, codec runtimes, teachers, resource planning, mobile,
renderer, portability, distributed training, the neural core) with its reason
for being left out.

### Interactions that matter

* A chat takes the brain's writer (write coordinator), checks that the brain is
  loaded (lifecycle), reserves a turn in the engine's queue, and is dispatched
  once earlier turns are over and no hold is set. `InstanceLifecycle` has these
  four in one module, since the deadlock it finds runs through all of them.
* The main process learns of the worker through replies and `close` events. Both
  lag: a reply that was written before the worker died is read after it, and the
  exit of a process comes before the close of its streams.
* Foreground requests interrupt background ones, but only a background request
  that is active at that moment; the claim, the cold start and the turn are
  separate awaits.
* A Build's runtime job writes the same two journals as the call that waits for
  it, and outlives that call when a write after its start fails.
* Active Mode, a Build and an idle cycle all save the same document. The switch
  and the cycle do so under the brain's lock, the Build without it; the scheduler
  reads the documents long before its cycle has the lock.
* Every save of a brain, that of a checkpoint among them, replaces `brain.json` last.
  What it names was written by the generation protocol before, and the journal the
  next save trusts is brought up to date after.
* During a reply the worker's reader thread answers for requests that its main
  thread integrates. Retirement of a session, the drain and the end of the turn
  each may reject a request that another of them has in hand.

## Modules and the code they model

| Module | Models | Lines |
|---|---|---|
| `AtomicBrainWrites` | the abstract promise of the write coordinator | comment of the class |
| `BrainWriteCoordinator` | `brainWriteCoordinator.ts` | all of it, and its callers' use |
| `BrainWriteCoordinatorProofs` | its proofs | |
| `WorkerProcess` | `engineSupervisor.ts`, child-process half | 648 lines of it |
| `WorkerProcessProofs` | its proofs | |
| `EngineRequests` | `engineSupervisor.ts`, request half | 998 lines of it, some shared with `WorkerProcess` |
| `EngineRequestsProofs` | its proofs | |
| `InstanceLifecycle` | `instanceLifecycleController.ts`, chat loop and `suspendInstanceRuntime` of `brainService.ts`, worker side of suspension | 174 of the controller, 530 of the service and the supervisor, 233 of the worker |
| `ExecutionCheckpoint` | `execution_checkpoint.py`, `worker_lifecycle.py`, `chat_tool_observation.py`, receipts of `brain.py` | 161 of the store, 747 around it |
| `ExecutionCheckpointProofs` | its proofs, and those of `InstanceLifecycle` | |
| `BuildInitialization` | `buildInitializationCoordinator.ts`, `buildInitializationPlan.ts`, `buildResourceSelections.ts`, their jobs | 547 of the three, 484 of services and worker |
| `ActiveMode` | Active Mode in `brainRepository.ts`, `idleCognitionScheduler.ts`, the cycle and the saves of Builds in `brainService.ts`, cancellation | 309 of the repository, 263 of the scheduler, 361 around them |
| `ActiveModeProofs` | its proofs | |
| `Automations` | `automationService.ts` and the part of `toolExecutor.ts` it relies on | 228 and 274, dense lines |
| `AutomationsProofs` | its proofs, and those of `BuildInitialization` | |
| `LiveSensory` | `live_sensory_queue.py`, `worker_live_sensory.py`, receipts, reader thread and the application's side | 279 of the two, 467 around them |
| `LiveSensoryProofs` | its proofs | |
| `AtomicSave` | the abstract promise of a save | comments of the save in `brain.py` |
| `PagedCheckpoint` | `paged_dirty_journal.py`, `paged_substrate_writer.py`, the save and load in `brain.py`, reclaim and load in `vsa.py`, the cache rebuild | 422 and 240 lines of the two, 642 around them |
| `PagedCheckpointProofs` | its proofs | |
| `MC...` | the instances TLC runs | |

`PROJECT.json` maps each definition to its exact lines.

**BrainWriteCoordinator.** One action per stretch of `run` between two awaits:
`Start` and `Acquire` link a promise behind the tail of the next brain in order,
`Operate` reads the documents, `Save` writes one, `Finish`, `Abort` and
`AbandonWait` end the work or the wait, `Release` unwinds one `finally` frame.
`Settle` and `Forget` are the promise callbacks; each is a step of its own so
that any delay is explored. `ahead` is a history variable: who was queued
earlier. `AtomicBrainWrites` says what a caller relies on, and the refinement
maps the scope of a call to the brains of its running operation.

**WorkerProcess.** A generation is one ChildProcess object. `os` is the process,
`closed` its streams, `term` the terminateChild operation with its soft and hard
timers, `child` and `unack` are the fields of the supervisor. The host's own
computations, for which `start()` waits and which `stop()` aborts and awaits
(engineSupervisor.ts:631-633, 2128-2133), are `EngineRequests`' and left out here, as
is the inspection worker that `stop()` stops before. Callers run
`start()` and a request; one `Starter` is the single flight behind
`this.starting`, one `Stopper` is `stop()`. JavaScript continues resolved awaits
before it delivers the next event, so events of the environment are guarded by
`Calm`. A process may ignore a kill for ever and its streams may never close.

**EngineRequests.** The life of a request from reservation to settlement: wait
for host computations, claim the worker (twice: before and after a cold start),
reserve a turn, start the worker, park on a hold, run the before-dispatch hook,
be sent, be answered, killed, cancelled or timed out. `queue` is the chain of
turns, `active` is `this.activeRequest`, `claims` the foreground ownership,
`preempting` the interruption of background work. A request may be graceful
(asked to stop first), draining (never forced) or exempt from holds. The worker
is reduced to down, starting, up, ending and stuck.

**InstanceLifecycle.** One brain. `phase`, `admitted`, `frontier` and `op` are the
controller's fields; `hold` and `line` are the engine's; `writer` is the FIFO that
`BrainWriteCoordinator` proves; `resident`, `saved`, `asked` and `committed` are
the worker's; `replies` are lines on the way to the host. A turn goes through the
chat loop: wait until loaded, take the writer, check again, dispatch, and on a
suspension wait outside every lock. The worker commits a turn with its receipt
(`NativeCommit`) and closes the checkpoint it resumed afterwards (`NativeFinish`); a
death or a failure between the two leaves the saved frontier of a committed turn, and
a later dispatch of that turn finds the receipt and only answers (`Entered`). Whoever
calls chat() may send any turn again.

**ExecutionCheckpoint.** On disk `learned` (brain.json), `manifests` and `active`
(the pointer); in memory `brain`, `segment`, `draft`. The order of writes is that
of the code: freeze the inbox, save the brain, write the manifest, replace the
pointer, clean up. `Crash` loses the memory between any two; a failed write takes
the exception path. The number of a save stands for the hashes and the paused
clock by which a checkpoint is bound to a neural state. A turn that was stopped may be
sent again: what the chat path consults is receipts, not tombstones, so it is executed
and may be suspended again, under another identity. What the tombstone ends is its
checkpoint.

**BuildInitialization.** One call per brain with a program counter, the plan on
disk, the selection index in memory and on disk, runtime jobs with the stage they
are in, and `orphans`, jobs whose call has given up. Two properties of the code
shape it: `persist` changes the memory before it writes, and its write queue is
poisoned by a rejected write (`broken`), after which every later write is
rejected too until the next start. A single write covers the releases of one
call; a write and the memory it follows are one step, since a restart loses both
and a failed one leaves the memory changed. Left out: telemetry and progress, the
validation of what is read, the `.bak` files, and two concurrent calls for one
brain, which the renderer prevents (`App.tsx` offers Retry on a failed card and
not while it is busy). recoverAll beside a create that has just begun is not
modelled either.

**ActiveMode.** `doc` is what is on disk per brain, `newest` the order of their
last saves, `writer` the lock of each brain (a section starts when every lock it
wants is free: how a caller waits in line is `BrainWriteCoordinator`'s). A call of
setActiveMode lists the brains (`Ask`), and with the locks held reads, disables the
prior owners one by one and enables the target; any save may fail. `Restart` keeps
only the documents and `Reconcile` collapses what a crash left. A Build creates
its document with the flag set and saves its own copy without the lock, twice
(`SaveBuilt`); one that was interrupted or failed may be taken up again at any time
after (`Resume`), reads the document and saves that copy minutes later
(`SaveResumed`). `written` records the brains whose documents a Build has written
since the start.
`IdleCognitionScheduler` is `tick`: it lists, reads one document after another,
admits the newest owner that is due, takes its lock, asks the worker and saves.
Moments (`due`, the retry backoff) are kept as the time left, so that no clock
grows. The engine's part is that a request may be preempted. A tick that finds the
brain learning replaces its quiet time by a shorter one, as the code does
(idleCognitionScheduler.ts:319-324, without a maximum); that is not a quiet window
kept, and `due` is reset there.

**Automations.** `run` and `step` are the rows of the database, whose transactions
are durable; `pump` is the loop that owns a run, `exec` the tool call it awaits,
`stop` a Stop that has not returned, `quit` and `revoking` the other writers. Each
action is what runs between two awaits. `started`, `confirmed` and `held` are
history variables: how often an effect began, how often the operator confirmed a
new attempt, and whether anything has stopped the run since the user last let
it go on. What a permission asks for, when a wait is due and which approvals are
left are any the code can see.

**LiveSensory.** `place` says where each request is: on the wire, in the ordinary
queue, with the reader, pending in the inbox, taken by the drain, or rejected.
`reader` and `main` are the two threads, each with its control point, the item it
has in hand and the items it is rejecting; `inbox` and `session` are what both
write under the inbox's lock, and every other step of one may fall between two of
the other. `lease` is the count of a RequestAllocationReceipt, `host` the record the
application keeps of the capture. `begun` is a history variable: the requests
whose effects on the brain have begun. The inbox retains the receipt of a request it
accepts and the reader gives up its own share afterwards (`ReleaseReceipt`), while the
main thread may already have finished the request; an answer and the release of the
receipt by the thread that sends it are one step. `SignalInLock` is the arrival of
SIGUSR1 while the main thread holds the lock its handler takes: it may happen at every
boundary, and leaves the thread stuck for good.

**PagedCheckpoint.** A blob is a function from the rows of a group to what they
hold, a generation has the blob of each group (a bucket and a part), and its
identity is its content. `rows` and `journal` are tables of one SQLite file:
triggers mark a changed row in the transaction that changes it, and decay, which
changes what all neurons mean and no row, marks them all. `manifest` is the
generation in memory, `committed` the one `brain.json` names. A save plans row by
row in one transaction (`PlaceKnown`, `PlaceNew`), writes group by group, seals the
manifest, commits, and then bases the journal on the result (`Rebase`) or, after a
save of all rows (`PlanFull`), drops it and makes it again. Learning and decay may
fall between any two of these steps; the code says that its caller prevents it and
compares revisions all the same, so the model lets it happen and requires that no
save goes wrong by it. `SaveFails`, `MaintenanceStops` and `PruneStops` are the
exceptions before, around and after the commit. `AtomicSave` is what the rest of the
system believes a save is (`ExecutionCheckpoint` has it as one step): the snapshot of
one moment replaces the disk in one step. Under the mapping the snapshot is taken
by `Seal`.

## What the runs check

| Run | Specification | Question |
|---|---|---|
| `brain_writes` | FairSpec | Is the lock fair in order, is no save stale, do the promise chains implement `AtomicBrainWrites`; do all calls return if operations settle, and a cancelled waiter even if they do not? |
| `worker_process` | FairSpec | Is there ever a second worker, a request on a dead one, a cancellation reported too early, and do start and stop return whatever the process does? |
| `engine_requests_safety` | Spec | Does one request execute at a time, does background work yield, does a queued cancellation hold, is no bystander stopped, does a hold keep its order? |
| `engine_requests_liveness` | FairSpec | Does a local teacher compute alone, is foreground work served over background work that never answers, does every cancellation settle? |
| `instance_lifecycle` | FairSpec | Do host, engine and worker agree on what is loaded and saved (`HostViewIsTrue`), is a committed turn neither executed nor suspended again (`CommittedOnce`), is no waiter and no hold left behind (`NothingStranded`), does every Load and Unload return unless a chat is held back for ever with the brain's writer (`OperationsSettle`)? |
| `execution_checkpoint` | Spec | Over crashes and failed writes, is the pointer intact, each input learned and answered at most once, each acknowledged observation kept and used once, and is no checkpoint of a stopped turn resumed (`TombstoneIsFinal`)? |
| `build_initialization` | FairSpec | Is a brain ready only with all of its learning done (`ReadyMeansLearned`), does a selection train one brain unless a write of the index was rejected and the application restarted (`OneFailureTrainsOnce`), does every call return? |
| `build_recovery` | FairSpec | *violated*: does recoverAll succeed for a Build interrupted while it learned? |
| `active_mode` | MCFairSpec | Is there one owner among the brains no Build has written since the start (`OneOwner`), do no idle cycle and no other switch undo a switch or a deletion (`FlagSticks`), does no cycle fall in a cancelled brain's quiet time, does the owner think again and again? |
| `automations` | FairSpec | Is an unconfirmed effect started once, is no step passed without its receipt, does a pause hold, does every stop return, over crashes and withdrawn access? |
| `live_sensory` | FairSpec | Between the threads: is what was rejected unused, does retirement empty the queue, do receipts follow their payload, is every request answered unless a signal leaves the main thread stuck? |
| `paged_checkpoint` | Spec | Do saves that write only what changed implement an atomic save of everything (`AtomicSave`), over changes during the save, failures and a crash anywhere; can what is committed always be loaded? |

Each module states its types as `TypeOK` (`LifecycleTypeOK`, `BuildsTypeOK` where two
components share a proof module and their names must differ); the theorems `Typing` state
it, and TLC reads it with any configuration. It is not among the properties of the
runs, which ask what could really be wrong.

Each property of a passing run has a mutant in `PROJECT.json`: a definition of the
model replaced by a plausible bug (in the modules: the operators commented as a
variant for mutation), under which TLC finds the property violated.

Run one with, for instance,

    tlc -workers 2 -config BuildInitialization.cfg MCBuildInitialization

A deadlock check makes sense only where the system must always be able to go on;
`InstanceLifecycle` keeps it. Elsewhere every call may have been made and have
returned (or the bound on faults be used up), which is a proper end.

## Bounds and why they are enough

* **Brain writes**: three calls over two brains, one for the first, one for both,
  one for the second or for both. Up to three queue on a brain (a predecessor, an
  aborted waiter in the middle and a successor are the smallest chain in which a
  wrong release shows) and two on both brains. The theorems hold for any number
  of calls with any scopes.
* **Worker**: a worker and its replacement, two callers beside stop(), two launch
  candidates. Every decision of the code is about the current generation and the
  one being ended.
* **Requests**: three requests in different roles; a request interacts with the
  owner of the turn, one in front of it and one that preempts. The two runs
  split the roles: holds and graceful cancellation in one, host computation and
  a warm background request in the other. `MaxHolds` is one hold.
* **Lifecycle**: two turns, one worker death or failed end of a checkpoint (`MaxDeaths`);
  994,000 states. Suspension involves the
  saved turn and one other. That two can be too few is shown by the claim of
  `LifecyclePriority.cfg`, which holds of two turns and one death and fails of three
  turns and two; the safety properties of the run are therefore also proved, for any
  turns and deaths.
* **Checkpoint**: two turns, two observations, three identifiers, four saves
  (`MaxSaves`), two faults (`MaxFaults`); 701,000 states. A turn can be suspended,
  resumed, suspended again and answered, or stopped, sent again, suspended under
  another identity and answered, with a fault at any step and a second fault in
  its recovery. The theorems hold for any values.
* **Build**: two brains that both name the folder, one that also learns a site;
  two faults (`MaxFaults`: failed writes, failed requests, worker exits and
  restarts together), one retry (`MaxRetries`). A second claimant needs two
  brains. With these bounds `SelectionLearnedOnce` can be lost only by two faults
  together, a rejected write of the index and a restart, so the run asks for
  `OneFailureTrainsOnce`, and `BuildSelection.cfg` (two retries) shows the rest; the
  safety properties are proved for any brains, resources and faults.
* **Active mode**: a saved brain and one being built, one switch of the user
  besides the Build's own and the start's, two mishaps (`MaxMishaps`: cancels,
  crashes, deletions, failed saves and cycles, Builds taken up again together); 401,000
  states. The saved brain is ready at the start (`MCFairSpec`): what an interrupted Build
  leaves to the next process is reached through `Restart`. `Cooldown` is 2, `Rest`
  and `Settle` are 1 and the backoff ends at `MaxBackoff` 2: the order of the three
  durations is that of the code (a cancel reserves longer than a cycle rests), and
  only their order decides. A second owner needs two brains; a lost flag needs a
  copy read before the switch and saved after it.
* **Automations**: a tool, a wait and a tool; two attempts of a step
  (`MaxAttempts`), one mishap (`MaxMishaps`: crash, failure, withdrawn access or
  Quit).
* **Live capture**: two packets, a control and each way to end a capture, one
  reply, two packets in flight (`MaxInFlight`), one answer the application gives up
  (`MaxTimeouts`); 2.2 million states. A reply stops being current at most once
  and drains at any number of boundaries, so that two packets meet each other at
  every pair of points.
* **Paged checkpoint**: three neurons in one bucket, two rows to a part (`PartSize`),
  two changes since the last load (`MaxChanges`), one crash or failure
  (`MaxMishaps`); 2.1 million states. Failures caused by a row that changed are not
  counted. A part can be full, partly rewritten or emptied and a row can move to a
  new part, in two saves one after the other or around a restart, which gives the
  changes back; two changes can be one before a save and one within it.
  `PagedCheckpointKinds.cfg` is a second instance with an assembly, which decay
  leaves alone, and one row to a part; it holds there too, with `TypeOK` and with
  `JournalCovers`: a journal a plan may trust forgets nothing.

A bound that is reached disables only the action it counts: a fault, a crash, a
hold, a save, an attempt or a retry. Symmetry is used by `execution_checkpoint`
alone, over turns, observations and identifiers; no run with a liveness property
uses it.

## Fairness and what justifies it

Weak fairness throughout: whatever stays possible is done at last. Nothing that
depends on a user or on another process's good will is fair.

* `CallbackFairness` (brain writes): promise callbacks run. That operations
  settle is a hypothesis of one half of `EveryCallReturns` only; that a cancelled
  waiter returns does without it.
* `WorkerProcess`: microtasks run, the timers of terminateChild and forced close
  fire, a spawn reports success or an error, a handshake is answered or times
  out. Neither an exit nor a close of the streams is assumed.
* `EngineRequests`: continuations run, a foreground request is answered, at its deadline
  at the latest; some foreground callers pass none (`NO_DEADLINE`), and for those the
  answer is a premise of `ForegroundServed`, which is about background work in the
  way and not about a foreground request that never ends. Launches and terminations
  settle (`WorkerProcess` shows they do). A background
  request has no deadline and need not be answered, and no hold need end.
* `InstanceLifecycle`: promises, replies and close events arrive, and the worker
  completes what it began. The user owes nothing, a Stop neither. `OperationsSettle`
  therefore excepts the behaviours that end with a chat held back in the engine's queue
  while it has the brain's writer, and says that this is the only way an operation can
  wait for ever; `LifecycleUnload.cfg` shows that it is one.
* `BuildInitialization`: the steps of a brain's call and of its jobs are taken;
  writes, requests and jobs settle. The call waits for its job with a timeout of
  zero, which means none, so this is where a hanging worker would show.
* `ActiveMode`: locks are given in arrival order (strong fairness of a section's
  start: `BrainWriteCoordinator` proves the order), timers fire, reads and requests
  settle. Strong fairness of an admission says that a due brain is not found at
  other work at every single tick. `OwnerThinks` is about a brain that stays the
  newest owner and ready from some point on.
* `Automations`: the pump, the tool executor and the writes of a Stop go on; an
  aborted tool call ends. The user, the timers and the authority owe nothing.
* `LiveSensory`: both threads run, and a reply ends however often it stops at a
  boundary (strong fairness of `EndTurn`: its tokens are bounded). A thread that waits for
  a lock it holds itself does nothing any more; `EveryRequestAnswered` excepts that one
  state, and `LiveSensorySignal.cfg` shows that it strands requests. The application
  need not send anything, and need not wait for an answer.

## What is proved

Eight modules hold theorems, proved from nothing by TLAPS with no step left open, for
every value of the constants the named assumptions allow: any number of calls,
brains, requests, turns, packets, rows, steps and faults, where TLC has two or three.
For each component an inductive invariant that TLC had found true of the instances of
the runs is proved (`InvariantHolds`; `HostInvariant` and `BuildInvariant` for the two
components that share a module), and the theorems follow from it. Every safety and
action property of the runs, and both refinements, is stated by a theorem.

| Module | Theorems | Assumptions |
|---|---|---|
| `BrainWriteCoordinatorProofs` | `WritersExclude`, `FirstComeFirstServed` (`ArrivalOrder`), `NoLostUpdate` (`NoStaleCopy`), `Refinement` (`ImplementsAtomicWrites`) | `BrainsAssumption`, `ScopesAssumption`, `NoneAssumption` |
| `WorkerProcessProofs` | `OneWorkerAtATime` (`AtMostOneWorker`), `NoOrphanedRequest` (`PendingOnCurrentWorker`), `CancelWaitsForExit` (`CancelledMeansExited`) | `GensAssumption`, `CandidatesAssumption`, `CallersAssumption` |
| `EngineRequestsProofs` | `OneExecutes` (`OneInSlot`), `BackgroundIsTold` (`BackgroundYields`), `HostAlone` (`HostComputesAlone`), `CancellationExact` (`CancellationIsExact`), `HoldOrder` (`HoldKeepsOrder`) | `KindsAssumption`, `MaxHoldsAssumption` |
| `ExecutionCheckpointProofs` | `PointerAlwaysIntact`, `TurnsAnsweredOnce` (`AnsweredOnce`), `TombstonesFinal`, `ObservationsOnce` (`ObservationsCountOnce`) | `ConstantsAssumption` |
| the same, of `InstanceLifecycle` | `HostViewHolds` (`HostViewIsTrue`), `CommittedOnceHolds`, `NothingStrandedHolds` | `NoneAssumption`, `NamesAssumption` |
| `ActiveModeProofs` | `OwnerIsOne` (`OneOwner`), `FlagKept` (`FlagSticks`), `QuietKept` (`CancelIsQuiet`) | `ActiveModeAssumption` |
| `AutomationsProofs` | `UnconfirmedOnce` (`NeverReplayed`), `ReceiptsBeforeNext` (`PassedHaveReceipts`), `HoldIsRespected` (`HeldStaysHeld`) | `AutomationsAssumption` |
| the same, of `BuildInitialization` | `ReadyMeansLearnedHolds`, `OneFailureTrainsOnceHolds`, `IntactIndexTrainsOnceHolds` | `ResourcesAssumption` |
| `LiveSensoryProofs` | `RejectedUnused` (`HonestAnswer`), `RetirementDrains` (`StopEmptiesQueue`), `ReceiptsFollow` (`LeaseFollowsRequest`) | `TurnsAssumption`, `MaxInFlightAssumption`, `MaxTimeoutsAssumption`, `RequestsAssumption` |
| `PagedCheckpointProofs` | `AlwaysLoadable` (`CommittedLoadable`), `JournalForgetsNothing`, `SavesAreAtomic` (`ImplementsAtomicSave`) | `RecordsAssumption`, `BucketAssumption`, `ValuesAssumption`, `PartSizeAssumption`, `NoneAssumption` |

The assumptions say that markers such as `None` are not values, that bounds are
numbers, and what the kinds of requests and rows are: a host computation is not of
background priority, the buckets of neurons are not those of assemblies, a decayed
strength is a strength, a chat turn is not called "op", "status" or "stopper", the
resources of a Build are distinct and some are selections. Every run evaluates those of
its module.

**BrainWriteCoordinatorProofs.** Exclusion is not inductive. What carries it is that
the links of one brain form a queue (`QueueIsTotal`), that the tail is its youngest
link (`TailIsLast`), that the captured predecessor is the one just ahead or nothing is
left ahead (`PredecessorIsNearest`), and that a tail settles only behind everything
before it (`SettledInOrder`); `FramesMatchLinks` ties the open links to the frames a
call is inside of. Two holders of one brain are then ordered by the queue, and the
later one has waited for the earlier one's link, which is still open. `NoStaleCopy` is
part of the invariant because a save of another call could only come from a second
holder.

**WorkerProcessProofs.** A process that has not exited is the one being spawned, the
child, the one being terminated or the one nobody acknowledged (`Life`), and only one
of these cases exists at a time (`Exclusive`). `At` says what each process may rely on
at its control point; a continuation in the microtask queue may rely on more, since no
event comes before it.

**EngineRequestsProofs.** Only the head of the turn queue gets past its turn, and what
executes is the active request (`At`); from this a claim that stops the active
background request stops nobody else. A host computation and any other live request
have one of them waiting for the other (`Ordered`), and whoever launches a worker
still waits for the launch (`Launches`), so that nobody can have launched it under a
host computation. Once an exempt request was dispatched under a hold, nothing ordinary
is past its turn (`Kept`): it was the head, and whoever becomes it parks.

**ExecutionCheckpointProofs.** The resident brain equals the committed one except while
an input is being admitted (`BrainCommitted`); a turn that runs is admitted and
unanswered, and one that is saved is admitted (`TurnsOpen`); the checkpoint in the making
has an identifier of its own, so the cleanup of a failed save cannot remove the
manifest that the pointer names (`DraftOwned`). `TombstonesFinal` rests on a third of
its own (`Buried`): no pointer or draft revives a stopped manifest, and a segment that
was resumed has its frontier still suspended. It does not say that a stopped turn never
runs again, which is not so. `ObservationsOnce` needs a second
invariant on top (`OInv`): an observation waits in an inbox at most once and before it
was used (`Inboxes`); an acknowledged one is in the inbox of the running segment or of
the saved frontier (`Delivered`), and no draft loses one (`DraftComplete`); a saved
turn that was answered meanwhile is bound to an older save and cannot be loaded
(`AnsweredSaved`), so nothing is acknowledged to it.

**ExecutionCheckpointProofs, the host's side.** `HostInv` relates what the host believes
to what the worker holds by way of the replies between them, which are read in the order
they were written. An operation or an inspection waits for exactly one reply, and it is
in the stream (`RepliesSent`). What an inspection saw, and what a loaded brain's host
believes of the saved turn, may be out of date only while a reply that corrects it comes
later in the stream (`ViewsTrue`, with `LastWord` and `Quiet`): each of them is the
answer to a turn or to a Stop of a saved turn, which the host applies as it reads it. A
committed turn may be sent to the worker again, and its frontier may be left saved by a
death before the checkpoint was closed; since its receipt is consulted first, it is
answered there and neither runs nor pauses (`Fates`).
`NothingStranded` is a part of the invariant as it stands. The engine's line and the
writer queue do not occur in `HostInv`: the theorems hold whatever the order in them,
and their types stay with TLC.

**ActiveModeProofs.** Of the brains whose documents no Build has written since the start
(`Kept`), the calls of setActiveMode have asked for the locks of all there are, and so
exclude each other as to them; the owners among these are then those an enabling section
has still to disable, and its target (`Lease`). What Builds save to the other brains,
in the same process or after a restart, does not enter. A cycle on the worker holds its brain's lock and its copy is the
document; a Build writes without a lock, but only to a brain that is not ready, which
no cycle can have entered (`Cycle`, `Builds`). A due time never lies beyond the quiet
time (`Times`).

**AutomationsProofs.** The receipts passed are exactly those before the next step
(`RowFollowsReceipts`); a call under way has its intent in the receipt until an outcome
is (`IntentBeforeCall`); a step that may be called without asking the operator has
had no effect (`EffectsRecorded`); a held row lets no pump go on, however old what it
read (`HeldRow`). The proof does not need the case of `Decide` that advances the row
past a completed step without a call: with `RowFollowsReceipts` no state reaches it.

**AutomationsProofs, Builds.** `BuildInv` says that what a plan has ticked off and what
the index has as complete is learned (`PlansTrue`, `IndexesSound`), of the index in memory
and of the one on disk, which differ only after a rejected write (`Journalled`); that a
call at its commit has a core, its packs and all of its learning behind it (`CallsTrue`);
and that whoever works on a selection, a call or a job nobody waits for, learns for the
brain that owns it (`JobsTrue`, `WorkersHold`). `ReadyMeansLearned` is a part of it.
That a selection trains one brain is not inductive and, with a rejected write, not
true. What carries it is `Exclusive`: a brain that has learned a selection owns it or the
entry is gone, a call that is about to start a job owns it at that moment, and an entry
goes only when whoever still works on it has learned it. Every step keeps `Exclusive` but
a restart with a rejected write to forget (`ExclusiveSteps`). A rejected write is one
fault and a restart is another, so one fault keeps it (`OneFailureTrainsOnceHolds`), and
any number do while no write of the index is rejected (`IntactIndexTrainsOnceHolds`,
which no run states since its bound on faults makes it the weaker question there).

**LiveSensoryProofs.** A request is in one hand at a time, and `place` says in which
(`OnLines`, `InInbox`, `InHands`, `Rejected`); its receipt, its answer and what may have
begun of it follow from there (`Followed`), and the bytes of an inbox are those of the
packets it answers for (`Accounted`). A receipt counts one for the payload while anybody
holds it and one for the reader until it has released its share. A retirement passes no packet sent before it
(`RetireOrder`).

**PagedCheckpointProofs.** A journal mirrors its base group by group and marks what
differs (`JournalMirrors`); a plan that nothing has overtaken says of every row where
it is to be (`PlanIncremental`, `PlanWhole`, `PlanFits`); a group of the new generation
is taken over or holds exactly the rows assigned to it (`WritesWhatIsPlanned`), so the
sealed generation is the rows (`SealedIsWhole`), and what a restart, a failed save or a
plan goes back to is on disk (`GenerationsKept`). What a row does after the plan raises
the revision above the save's stamp, on which every fact about present contents
depends. The proof does not use the comparison of row counts at the sealing
(`Observed`): the comparison of revisions suffices.

Only model-checked: liveness, since fairness and ENABLED are outside this prover's reach
(`EveryCallReturns`, `CallsSettle`, `ForegroundServed`, `CancelSettles`,
`OperationsSettle`, `BuildSettles`, `OwnerThinks`, `StopReturns`,
`EveryRequestAnswered`), and `LifecycleTypeOK`: that no entry is twice in the engine's
line or the writer queue needs what `SelectSeq` computes, which is an induction over
data. The other components' types are theorems. No module declares a RECURSIVE operator.

## Where code and documentation disagree

One run ends in a counterexample; PROJECT.json quotes the lines.

* `build_recovery`. After a restart in the phase of initial learning nothing has
  the worker load the core; the learning job is refused and the Build fails, and
  so does each retry.

Others, reproduced by configurations outside the runs (each ends in a violation; where
one shows several, TLC stops at the first and finds the others when its line is left out):

| Configuration | Module | What it shows |
|---|---|---|
| `WorkerStopTearsDown.cfg` | MCWorkerProcess | `stop()` ends the child it sees and does not join a launch in progress; a worker comes up after it returned, where docs/v2/learning.md has Quit tear the worker down |
| `WorkerSuccessMeansLive.cfg` | MCWorkerProcess | start() may report success although the worker has exited, where its comment has an exited worker waited out and replaced |
| `EngineReports.cfg` | MCEngineRequests | a request may settle without a terminal activity event, on which the OS work lease relies |
| the same | | a cancellation may be acknowledged as the end of a worker that has not exited |
| `EngineHostInversion.cfg` | MCEngineRequests | a foreground request behind a local teacher that waits for background work is never served |
| `LifecycleUnload.cfg` | MCInstanceLifecycle | Unload sets the dispatch hold while a chat holds the brain's writer and is not yet dispatched: chat, Unload and Load wait for each other until the user stops the chat |
| `LifecycleReported.cfg` | MCInstanceLifecycle | a brain is reported unloaded or suspended while the worker holds it |
| `LifecyclePriority.cfg` | MCInstanceLifecycle | another turn is executed while a turn is saved, where docs/v2/instance-lifecycle.md:71-73 has the saved one go first: completed() clears the frontier of whichever turn is saved by then, and a reconciliation that is slow (brainService.ts:6673) calls it after another turn was suspended. Three turns and two deaths |
| `CheckpointFrontier.cfg` | MCExecutionCheckpoint | the worker dies between the completion receipt of a resumed turn and the end of its checkpoint: the saved frontier no longer matches the brain, and what would reconcile it needs a loaded instance |
| the same | | a second suspension that fails after brain.json was replaced makes the first frontier unusable |
| the same | | a turn that was stopped while it was saved is executed when it is sent again: no chat path reads a tombstone |
| `BuildFoundation.cfg` | MCBuildInitialization | a plan write that fails in create, then a retry, makes the Build learn without a constructed core |
| `BuildSelection.cfg` | MCBuildInitialization | one folder trains two brains, where buildResourceSelections.ts:228 has a brain keep "exclusive ownership": `update` changes the memory before `persist` writes, and the write queue stays rejected after a failure, so a claim the disk never saw is worked on, by a job that goes on when the write after its start is refused (buildInitializationCoordinator.ts:346), and a restart forgets it. Two retries |
| `ActiveModeOwner.cfg` | MCActiveMode | two owners when no Build is under way any more: a Build's activation failed after its document was written with the flag set, or a Build saved the copy it had read before a switch (brainService.ts:5994, 6036; after a restart 6062, 6086), where brainRepository.ts:5682-5683 has there never be two |
| the same | | such a save undoes a switch, or brings a deleted brain back |
| the same | | a cycle admitted on a document read earlier starts for a brain whose Active Mode was switched off while the cycle waited for its lock |
| `AutomationsReplay.cfg` | MCAutomations | a retry the operator confirmed keeps its confirmation after it has begun (automationService.ts:225); if a crash interrupts it while the run is paused, Resume starts its effect again, where docs/v2/host-automations.md:93-94 has a started operation not repeated |
| `AutomationsOwner.cfg` | MCAutomations | a run may be left running with neither pump nor timer: its pump sees the Quit and ends, and the Quit is then refused |
| `LiveSensoryRefusal.cfg` | MCLiveSensory | a packet refused before the brain took any of it may be answered with unknown effects and abort the reply, where docs/v2/live-sensory-handoff.md:44 has it reported as not started |
| the same | | a control the worker refuses leaves the application's capture revision ahead of the worker's |
| `LiveSensorySignal.cfg` | MCLiveSensory | SIGUSR1 is handled by the main thread while it holds `_active_request_lock`, which is not reentrant: the thread waits for itself, the reader for the thread, and requests stay unanswered |

## What is not modelled

The numerical core (tensors, learning rules, decoding) is beyond a model checker;
the models see its commits and receipts only. Of the modelled components:

* the second supervisor for inspection, streams, codec set-up, and the requests
  that bypass the queue (loaded-owner and control requests);
* executions inherited from another brain, incompatible runtimes, detachment of
  the host, and Auto-load;
* in `WorkerProcess`: that start() waits for the host's computations, and that stop()
  aborts and awaits them and stops the inspection worker;
* in `LiveSensory`: start_observation inside a reply, a failed delivery of an
  answer, several capture sessions, and the byte arithmetic of the admission;
* in `Automations`: saving and activating a file, the authority's own decision,
  missed occurrences of its schedule;
* in `ActiveMode`: the status shown to the user and the timers of the ticks;
* in `PagedCheckpoint`: synapses and their indexes, the growth of the store, an
  assembly's ties to its neuron, the path of a brain held in memory, migrations, and
  a save that reuses the generation;
* the encoding of what is saved and the atomic replacement of a file, which is taken
  as one step (`persistence.py`);
* wording, telemetry, progress, formatting and validation.

Everything else is listed with its reason under components with status
`not_modelled`.

## Plan

Done: `BrainWriteCoordinator`, `WorkerProcess`, `EngineRequests`,
`InstanceLifecycle`, `ExecutionCheckpoint`, `BuildInitialization`, `ActiveMode` (with
the idle cognition scheduler), `Automations`, `LiveSensory`, `PagedCheckpoint`.

Theorems: every safety property of the runs is proved. What a further proof would add is
the order in the writer queue of `InstanceLifecycle`, as an implementation of
`AtomicBrainWrites`.

Modules not written yet: `OsWorkLease` (observe and release over the activity events of
`EngineRequests`), `BrainOwnerLease` and `ConnectedTransaction`, tool intents and the
conversation ledger, MCP task custody.
