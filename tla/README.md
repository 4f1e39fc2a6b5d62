# A TLA+ development of aiperf's credit, timing and control core

aiperf drives load against an inference server. A *timing manager* decides when
each request may be sent and hands out one *credit* per request; a *router*
takes each credit to a worker process; the worker sends the request and gives
the credit back; a *records manager* waits for one record per completed request
and publishes the results; the *system controller* starts all of them and ends
the run when the results are there. If a credit, a slot, a wake-up or a message
is lost the benchmark hangs or runs at the wrong concurrency; if one is made up
the numbers it reports are wrong. This directory models that core, checks it
with TLC and proves parts of it with TLAPS. Paths below are relative to
`src/src/aiperf/` of the repository.

## 1. Inventory

### Components that are modelled

| component | code | state | operations |
|---|---|---|---|
| dynamic limit | `timing/concurrency.py`, `DynamicConcurrencyLimit` | an `asyncio.Semaphore` (counter, queue of futures), `_debt`, `_current_limit` | `acquire`, `try_acquire`, `release`, `set_limit`, `locked` |
| phase limiter | `timing/concurrency.py`, `GlobalPhaseConcurrencyLimiter`, `ConcurrencyManager` | one limit for the run, one per phase, `_enabled` | `configure_for_phase`, `acquire`, `try_acquire`, `release`, `get_held_slots`, `set_*_limit`, `release_stuck_slots` |
| credit phase | `timing/phase/*`, `credit/issuer.py`, `credit/callback_handler.py`, `timing/strategies/request_rate.py` | lifecycle state, counters, two events, the queue of continuation turns, the slots | issue loop, `on_credit_return`, `on_first_token`, think-time timers, the inside of `PhaseRunner` |
| sticky router | `credit/sticky_router.py` | workers and loads, an index by load, a cached least load, sticky entries with reference counts and aliases, strikes | `send_credit`, returns, `register/release_child_routing`, `evict_unclaimed_sticky`, worker registration, shutdown, stale sweep, cancellation |
| session trees | `timing/session_tree.py` | for each tree whether its root is pending and how many descendants are out | `open_tree`, `register_descendants`, `on_descendant_done`, `on_root_terminal`, `release_all` |
| branch orchestrator | `timing/branch_orchestrator.py`, with what the callback handler, the issuer and the strategies do for a tree | pending joins, tracked children, descendant counts, parent locks, the router's references | `intercept`, delayed and failed dispatches, `on_child_leaf_reached`, `on_child_stopped`, FAIL_FAST, snapshots, `cleanup` |
| replay dependencies | `timing/replay_dependencies.py` | for each request which ones must be answered first; per tree the answered and the retained requests | `infer_cross_stream_predecessors`, `submit`, `complete`, `cancel_pending` |
| phase orchestrator | `timing/phase_orchestrator.py`, the outside of `timing/phase/runner.py` | active runners, detached return waits, profiler owners, deferred stops, fatal errors | `_execute_phases`, `cancel`, the barrier, `_record_control_fatal_error`, the lifecycle messages |
| records manager | `records/records_manager.py`, `records/records_tracker.py` | per-phase counts and final counts, flags, the lock and cache of results | the phase messages, `_on_records`, finalization, PROFILE_CANCEL, the failed-request abort, the stall watchdog |
| worker credits | `workers/worker.py`, `zmq/streaming_push_client.py` | a task and a context per credit, the push client's backlog | credit drop, first token, request, return, cancellation, done callback, retries, drain |
| system controller | `controller/system_controller.py`, the result join, `common/base_service.py` | registered services, the barrier (required, completed, evicted domains), exit errors, lifecycle | start sequence, result messages, SERVICE_ERROR, reaped services, signals, cancel, shutdown, exit code |

### How they interact

* Everything in the timing manager runs on one asyncio event loop, and so does
  everything in each other service. Code between two `await`s is atomic;
  whatever it read before an `await` may be stale after.
* The issue loop of a strategy takes a session slot (first turn) and a prefill
  slot (every turn) from the `ConcurrencyManager`, counts the credit in the
  `CreditCounter` and sends it through the router.
* A worker's `FirstToken` frees the prefill slot, its `CreditReturn` the rest.
  The router calls `on_credit_return`, which counts the return, frees slots,
  perhaps sets `all_credits_returned_event` and queues the session's next turn.
* A DAG turn forks or spawns child sessions. The `BranchOrchestrator` registers
  them in the session tree and FORK children on their parent's sticky entry, and
  sends the parent's gated turn when the children it waits for have ended. In an
  agentic replay each dispatch passes the replay barrier in the issuer, which
  keeps it until what the recording had finished before it is answered.
* The `PhaseRunner` waits for `all_credits_sent_event` (or the duration), freezes
  the sent count, then waits for `all_credits_returned_event` (or the grace
  period, after which it cancels and drains), then completes the phase. The
  `PhaseOrchestrator` leaves it behind if the next phase is *seamless*.
* Each phase's start, end of sending and completion, and the end of all credits
  go over the message bus to the `RecordsManager` and the controller; records
  come from workers on another socket.
* The controller waits until every registered result domain has been published
  or its producer is gone, then stops everything.
* The router and the controller hear heartbeats, and drop whoever is silent.

### Components that are not modelled

`PROJECT.json` lists all of them with the reason. Within reach of later modules:
the accelerated warmup and its hand-over, the fixed schedule and the
user-centric rate, the sweep orchestrator's ask/tell loop. Out of scope: ZMQ
sockets and proxies (delivery is the library's), datasets, endpoints and
transports, metrics, telemetry scraping, exporters, user interfaces,
configuration and plugins, the Kubernetes operator: they are I/O, formatting or
numeric computation without shared mutable state of their own, and they are most
of the repository's lines, as is test support.

### What is hard here

* wake-ups of `asyncio.Semaphore`: a released slot belongs to a future whose task
  has not run yet, while `set_limit` changes the counter behind the semaphore;
* slots acquired in two layers, with a stop condition, a refusal or a
  cancellation between them;
* the final credit's return may overtake the freezing of the counts, because
  `send_credit` suspends in between;
* timeouts that race with the last return; returns and first tokens that arrive
  after the phase completed;
* incrementally maintained tables in the router, changed from many places;
* workers that die, stall, or answer after they were given up;
* a gated turn that four code paths may send, and a child whose end five may
  account for;
* a dispatch the barrier retains, while whoever dispatched it goes on;
* a cancel that empties lists other tasks are iterating or awaiting;
* three tasks that may process the results, and many that may stop the controller.

## 2. Modules

| module | models | depends on |
|---|---|---|
| `LimitOps` | one `DynamicConcurrencyLimit` as a record, an operator per synchronous operation | |
| `DynamicLimit` | tasks sharing one limit while it is raised and lowered | `LimitOps` |
| `PhaseLimiter` | one dimension of the `ConcurrencyManager` over the phases of a run | `LimitOps` |
| `PhaseContract` | abstract: what a phase promises to its surroundings | |
| `CreditPhase` | one phase under the request-rate strategy | refines `PhaseContract` |
| `RouterOps` | the router's tables as a record, an operator per operation | |
| `StickyRouter` | sessions and workers around the router | `RouterOps` |
| `SessionTree` | the registry's methods on the record of one tree; abstract: trees whose members keep the registry's rule | |
| `ReplayOrder` | which requests of a recording must be answered before one is sent | |
| `BranchOrchestrator` | one tree of sessions, its gates, dispatches, barrier and ends | takes `SessionTree`'s and `ReplayOrder`'s operators, refines `SessionTree`'s `Spec` |
| `RunEvents` | abstract: the messages about the phases of a run | |
| `PhaseOrchestrator` | the phases of a run, overlapping, failing and cancelled | refines `RunEvents` |
| `RecordsManager` | records, final counts, and who publishes the result | takes `RunEvents`' actions as its environment |
| `WorkerCredits` | the credits of one worker and its push socket | |
| `SystemController` | start, result barrier, deaths, signals, exit | |
| `MC*` | instances for TLC | |
| `DynamicLimit_proofs`, `PhaseLimiter_proofs`, `CreditPhase_proofs`, `StickyRouter_proofs`, `PhaseOrchestrator_proofs`, `WorkerCredits_proofs`, `RecordsManager_proofs`, `Joins_proofs` | see 4 | |

An operator preceded by a comment that begins with *Mutant* is not part of the
model: it is a wrong variant of the definition after it, kept to show that a
property notices the mistake (`PROJECT.json`, "mutants").

Several modules have a variable that never changes, `plan`, `setup` or `run`: it
says which instance (which tree, which faults, which limits) the behaviour is
about. One run checks all instances, without multiplying them with each other.

### How the modules compose

* `PhaseOrchestrator` implements `RunEvents!Spec` (`KeepsContract`, proved), and
  `RecordsManager` hears exactly the messages `RunEvents` allows: what is shown
  of the records manager holds for every run the orchestrator can produce. Its
  fairness assumption that an undisturbed run ends is `RunEnds`.
* `CreditPhase` implements `PhaseContract` (proved): the counts a phase reports are final
  when it completes, which is what `RecordsManager!PhaseCompletes` sends.
* `BranchOrchestrator` calls `SessionTree`'s operators on the record of its tree
  and implements `SessionTree!Spec` (`KeepsRegistry`, checked by TLC for the
  trees of the run); its theorems in `Joins_proofs` then say, for any
  number of trees and descendants, that slots are freed once and at rest.
* `BranchOrchestrator`'s `Ready` asks `ReplayOrder` for the predecessors of a
  request; that waiting for these few is enough, for recordings of any size, is
  what `Joins_proofs` shows.
* `WorkerCredits` shows what the timing side assumes: a credit is returned once
  and in the end, and its first token comes first; and what `RecordsManager`
  assumes: a completed credit has a record.
* `SystemController` takes of all this only that results come, fail or stay away.

### LimitOps and DynamicLimit

The semaphore is not in the repository. It is modelled as CPython 3.11 (the
lowest version `pyproject.toml` allows) defines it: `release` increments the
counter and completes the oldest pending future, taking the slot back out of the
counter for it (`WakeNext`); the task that owns that future runs later
(`Resume`), wakes the next one if there is a free slot, and until then
`locked()` answers True; a task cancelled in between releases its slot
(`AbortWait`). `set_limit`, `release` and `try_acquire` are the code of
`DynamicConcurrencyLimit`. A loop of n releases is one operator
(`SemReleaseMany`, `ReleaseMany`) because nothing can run in between.

### PhaseLimiter

`place` says for each credit whether it waits for the global limit, owns a slot of it and
waits for the phase limit, or holds both. `Acquire` continues through both
layers as long as neither suspends; `WakeFromGlobal` and `WakeFromPhase`
continue after a wait and look at `can_proceed_fn` again. `stopped` holds the
phases whose `can_proceed_fn` answers False. `configure_for_phase(None)` only
clears `enabled`, for all phases, as the code does. `asyncio.CancelledError` is
no `Exception`, so a cancelled acquire keeps the global slot it already had.

`ReleaseStuckSlots` and `ReleaseTrees` free slots of credits that are still out; these
credits are then `given`. They may be heard of all the same: `LateRelease` is what such a
message releases once more, `Ignored` is the late return that is only logged. Nothing
is asked of the limits when slots are freed, so `get_held_slots` also counts the slots
of tasks that were woken and have yet to run; these back out and release theirs
themselves. `twice`, which no action reads, counts the slots released a second time in
either way. Only a setup with `trees` has `ReleaseTrees`: its slots are the sessions'
of AGENTIC_REPLAY.

### CreditPhase

The steps are those of the event loop. `Issue` ends where `send_credit`
suspends; `CreditSent` is what follows, and between the two any return may be
handled. `CreditReturn` is the whole of `on_credit_return`, including the
release of cut-short sessions on the last return and the strategy's
`handle_credit_return`. The runner's steps follow `_run_strategy`,
`_wait_for_sending_complete` and `_wait_for_returning_complete`, with the fast
path, the grace period, the cancellation, the drain and the forced completion.
Time is one bit, `timeUp`: no time is left of the duration. The rate generator
is left out: the loop may take its next step at any time. A phase alone uses the
limits, so a limit is the number of its free slots. Sessions have no children
here; those are `BranchOrchestrator`'s.

### RouterOps and StickyRouter

The router's handlers never suspend between a read and a write, so each is one
step. The tables are a record `r`. Entries are named by the root session they
were made for, a key may be the root or an alias. What the code does one by one in
a loop without an `await` is one operator (`RegisterChildren`, `ReleaseChildren`,
`UnregisterAll`): the entry of a parent is dropped by the first release that finds
no holder left, and the least load is only looked for when the last worker that had
it is gone. Ties that
`active_sessions` does not break are broken arbitrarily. `CreditReturn` contains
the part of `on_credit_return` and of the orchestrator that touches the router,
in the code's order: the finished child is released (`on_child_leaf_reached`),
then the children of its last turn are registered (`intercept`), those that may
not send are released again, unclaimed entries are evicted, and a child that is
stopped is released. A step contains all dispatches of one turn; the code
suspends between them, so a sibling's first credit may in reality precede the
release of a refused one. Heartbeats are the set `quiet`: the workers whose last
heartbeat is older than the cutoff. A crash loses some of the worker's credits;
returns of others are already under way. A credit sent to a worker that is dead
or has stopped reading is lost.

### SessionTree, ReplayOrder and BranchOrchestrator

`SessionTree` has the registry's methods as operators on the record of one tree;
its own actions put them in the hands of a tree that keeps the rule that whoever
registers descendants is still counted itself. `early` is what was registered
before the tree was opened, as a snapshot does.

`ReplayOrder` translates `infer_cross_stream_predecessors`: `Elsewhere` are the
requests of other streams that were over when a request began, `Frontier` the
latest of each stream, `Predecessors` the frontier without those that another
member has waited for. A start or a duration that is missing or not finite is
`Unknown`.

In `BranchOrchestrator` a session is a conversation of a few turns, `at` says
where each turn's credit is: to be sent, on the wire, or at which `await` of the
handler of its return. A dispatch waits in the issuer as a member of `jobs` until
it is sent or refused; a handler that awaits it is named in it. The tables are a
record `book`: gates (`PendingBranchJoin`: who has registered, who is due, who
has ended), tracked children, counts, router references, locks and the tree's
record. The handler of a return is `Return` (up to `intercept`), `LeaveOn` (the
joins a child's end resumes, one awaited after the other), `Intercept`, `Settle`
(all first turns are sent or refused), `Joined`, and `Decide` is its end: the
next turn is left to its gate or handed to the strategy. `Wake` and `Woken` are
a child that starts after an offset, under its parent's lock. `Teardown` is
`cleanup` with `release_all`. `plan.spine` is agentic replay, whose satisfied
gates are sent by the orchestrator. Left out: branches started while the spawning
request runs, pre-session branches, the accelerated warmup, cache-bust markers,
statistics.

`plan.rec` is the recording the barrier works from; without one it lets everything
through. `submit` is in `Job`: a request that is not `Ready` is retained, and
`by = Nobody` says that its sender does not wait for it. `complete` needs no step
of its own: `Answered` says which returns have come that far, and a retained
request that has become `Ready` is sent by the task `complete` started (`Send`),
refused (`Refuse`, with `on_refused` for a child's first turn), or cancelled with
that task at the end of the phase (`Withdraw`).

### PhaseOrchestrator and RunEvents

`at[p]` is where `run()` of phase p's runner stands, `wait[p]` its detached return
wait, `main` the orchestrator's loop, barrier and exit. How a phase sends and
counts is `CreditPhase`; here it ends sending and gets its last return at any
time. `Sweep` is the part of `cancel()` after `cancel_all_credits`: a detached
wait that has not started ends at once, one that has returned is cut before or
after it publishes. `PublishMissing` is the failure path that publishes what was
not published yet. The profiler is its owners, the deferred stops and one bit.

### RecordsManager

Each bus message and each record is handled by a task; the model's step is what
such a task does between two awaits, so the two halves of
`_on_credit_phase_complete` are `OnPhaseStats` and `OnPhaseComplete`. Three
callers may process the results (`Callers`); `caller[c]` follows each through
the lock and the cache of `_process_results`. A result is its completeness, its
cancelled flag and its number of records. Warm-up phases, the dataset gate and
telemetry results are left out.

### WorkerCredits

A credit's task is scheduled, requests, waits in the send of its first token, or
in the send of its return; a cancellation arrives at any of these. `Deliver` and
`SleepAndRetry` are the push client: a send is tried while nothing is parked,
sleeps and tries again, and is parked after its last retry or behind others. A
send that finds the peer back after a sleep does not look at the backlog, as in
the code. An exception while a failure record is emitted is not modelled.

### SystemController

`start` is where the start sequence is, `system` the system state, which only
moves forward, `required`, `completed` and `evicted` the result join, `stopper`
the one task that is to call `stop()`. A death is silent or announced by a
SERVICE_ERROR; `Reaped` is the watchdog's verdict, certain for a process it can
ask and, if `plan.inferred`, a guess. Services are reduced to their process,
their registration and the domains they own or publish for; PROFILE_CONFIGURE
and PROFILE_START are steps that succeed or fail. Kubernetes, artifact
finalization and console output are left out.

## 3. Runs

| run | question | instance and bounds |
|---|---|---|
| `limit` | are slots and wake-ups kept under any mix of waits, cancellations and limit changes; does everybody get a turn | 4 tasks, limits 1..3: one holder, a waiter behind a waiter, debt of 2 |
| `phases` | do both layers keep their slots over seamless phases, is the phase limit hard; can a slot be made up, and by what | 4 credits, 3 phases, any of them given up; limits 1 and 3, or 2 with trees, or limit 1 or None with ramps and cancelled tasks |
| `phase` | do counters, slots, freezing and completion agree; does it keep `PhaseContract` and end | 5 requests, 4 sessions of up to 2 turns, 2 session slots, 1 prefill slot: a phase with a duration, a cancel and lost credits, and one that only counts |
| `router` | do the tables agree, is every entry of use, do sessions stay on their worker | 3 workers, 2 roots, a FORK and a SPAWN child, turns of one or two, crashes |
| `router_loss` | do loads match credits in flight, is every loss reported, is a dead worker noticed | 2 workers, 2 roots, all faults |
| `branch` | are joins sent once and not too early, is everybody resumed, do the tables balance, does the slot come back once, is the recorded order kept | 16 trees of up to 4 sessions and 3 turns (`MCBranchOrchestrator`), 5 of them recorded |
| `run_phases` | do the messages keep `RunEvents`, is no failure lost, is the profiler off at the end, does the run end | 3 phases, all overlaps, durations and a profiler or not, any two of cancel, failing phases, failing node |
| `run_cancel` | *violation*: see 5 | the same |
| `records` | one result, complete only if all was counted, and it arrives | 1 or 2 phases of 1 or 2 requests, any two disturbances |
| `worker` | each credit returned once, with its record, after its first token, and in the end | 3 credits, 1 retry, 1 outage |
| `controller` | does exit code 0 mean a whole result, is every survivor heard, is `stop()` called once, does every run end | 2 required services, an optional producer, 2 domains; two deaths, or a death and two Ctrl+C, a refused command, a guessing watchdog, a failing finalization |
| `controller_stuck` | *violation*: see 5 | the failing finalization |

The bounds are the smallest at which each contended case occurs at once: more
tasks than slots plus a second waiter, debt larger than one release, more
sessions than slots, continuations queued behind a busy prefill slot, both the
request cap and the session cap reached first, two workers with the same load
and one without, a family and an independent session on one worker; in `branch`
one tree for each way of passing a gate met by one way of ending children; in
`run_phases`, `records` and `controller` every pair of disturbances, and three
phases so that one is left behind, one is active and one is to come; in `worker`
two frames parked behind a sleeping one. Symmetry is used for credits and
workers, only in runs without liveness. Deadlock is checked in `limit`;
elsewhere the system really stops (phases end, workers die, runs finish).

Bounds named in the modules: `MaxLimit`, `NumPhases`, `MaxTurns`, `MaxSessions`
(the sessions a phase starts), `MaxSpawn`, `MaxRequests`, `MaxLag` (bus messages
not yet handled), `MaxRetries`, `MaxOutages`, and `deaths` and `signals` of a
controller plan. `MaxFailed` and `GraceFloor` are the code's threshold options.

### Fairness

* `DynamicLimit`: the event loop runs a woken task, and a holder releases (in
  aiperf, credits come back or are given up). Nothing is assumed of `set_limit`
  or of new acquires.
* `CreditPhase`: ready tasks run, timers fire, a credit that is not lost is
  answered, the duration ends. Which of several ready steps the loop takes is
  not constrained. The phase that only counts uses no timer but think times.
* `StickyRouter`: a dead worker's heartbeats stop, a drain window closes (it is
  bounded by `CANCEL_DRAIN_TIMEOUT`), and sweeps are strongly fair: they come at
  their interval, cancellations do not coincide with all of them, and not every
  sweep that could confirm a suspicion comes too late.
* `BranchOrchestrator`: weak fairness of all work together, credits being
  answered included; nobody has to stop.
* `PhaseOrchestrator`: every task that does not wait runs; a phase ends sending
  and its credits return, except a phase without a duration that was cancelled
  while it sends: nothing but a late return would set its event.
* `RecordsManager`: handlers run, requests of the controller are answered or
  time out, the stall watchdog of a Kubernetes run is periodic, and the
  TimingManager ends an undisturbed run.
* `WorkerCredits`: tasks run, requests are answered or time out, the drain task
  runs and the peer comes back.
* `SystemController`: services come up, answer and publish, the benchmark ends,
  a death is noticed by the watchdog, and a stop once begun is completed (its
  steps are bounded by time-outs). Nothing is assumed of the user or of faults.

### What is checked

Every state machine has a type invariant. It is a conjunct of the invariant that holds
the module's books together, so that it is checked with it; those of all but
`BranchOrchestrator` are proved with it.

* *Slots.* `SlotConservation` of one limit: free slots and slots in use add up to limit
  and debt. `Conservation` of the two layers: they add up to limit, debt and the slots
  that were released twice (the code does that, see 5). `NoSlotMadeUp`: with all
  faults the sum may fall short and exceeds limit and debt by no more than those; and
  slots are only released twice in a phase that has stopped, and only if phases are
  completed by force or leave `run()` with sessions open. `PhaseLimitIsHard`: what a
  phase has out is within its own limit, even where the global limit has too many free
  slots after a double release. `BooksMatchWork`: counters, slots and frozen counts of a
  phase agree with what is out there.
* *Waiting.* `NoLostWakeUp`, `NoBarging`, `WaitersServed`.
* *Phases.* `CompletesDrained`, `PhaseCompletes`; `KeepsContract`: the phase
  implements `PhaseContract`, with its lifecycle state and two of its counters as
  the refinement mapping.
* *Routing.* `TablesAgree`, `LoadMatchesCredits`, `EntryHasUse`,
  `SessionsStayHome`; `LossesReported`, `DeadWorkersNoticed`.
* *Trees.* `DispatchedOnceInOrder`, `NobodyWaitsInVain`, `BooksBalance`,
  `SlotCoversWork`, `BranchWorkDrains`; `NeverTooEarly`: a gated turn waits for
  its children (`JoinBarrier`), a recorded one for the answers to all that the
  recording had finished (`RecordedOrder`); `KeepsRegistry`: the tree's record,
  its accounted children and its root implement `SessionTree`.
* *Runs.* `KeepsContract` (of `RunEvents`), `NodeFailureFailsRun`,
  `ProfilerMatchesOwners`, `RunEnds`.
* *Results.* `OneResult`, `CompleteMeansAll`, `ResultArrives`,
  `CompleteIfUndisturbed`.
* *Credits in a worker.* `ReturnedOnce`, `CompletedHasRecord`,
  `FirstTokenComesFirst`, `EveryCreditReturns`.
* *The end.* `ZeroMeansWhole`, `SurvivorsAreHeard`, `StopsOnce`, `EveryRunEnds`.

## 4. Proofs

### The dynamic limit

`DynamicLimit_proofs` proves, for every finite set of tasks and every
`MaxLimit`: `TypeCorrect`, `SlotsConserved`, `WaitsInOnePlace`, `WakeUpNotLost`
and `NobodyOvertakes`. The only assumption is `LimitAssumption` (`MaxLimit` is a
natural number, `Callers` is finite).

`SlotConservation` alone is not inductive. A release that wakes several tasks at
once removes them from the queue, so the queue must not hold a task twice;
waking a task moves a slot from the counter to the woken tasks, so these must
not be holders already, or the cardinality of their union would not grow. The
inductive invariant `LimitInv` therefore has:

* `Sound(lim, Callers)`: the record is well typed, the queue has no repetitions,
  nobody is both queued and woken;
* `Prompt(lim)`: a free slot with a non-empty queue has a woken task (otherwise
  the free slot would never be handed over);
* queued and woken tasks are not among the holders;
* `SlotBalance`: `Slots(lim)` (counter plus woken tasks) plus holders equals limit
  plus debt.

The first half of the module states what each operator of `LimitOps` does to `Sound`,
`Prompt` and `Slots`: `SemReleaseSound`, `SemReleaseManySound`, `ReleaseSlotSound`,
`TakeSlotSound`, `EnqueueSound`, `ResumeSound`, `AbortWaitSound`,
`SetLimitSound`. `LimitNextInv` has one step per action and cites one such lemma in
each. These lemmas say nothing of the variables of `DynamicLimit`, so that the phase
limiter, which has other ones, uses them too.
`NobodyOvertakes` needs no invariant beyond the guard of the actions:
`Locked` answers True while anybody is queued or woken.

### The phase limiter

`PhaseLimiter_proofs` proves, for every number of phases, every set of setups
(limits, ramps, phases without a limit, cancellations, trees) and every finite set of
credits, `ConservationThm`, `NoSlotMadeUpThm` and `PhaseLimitIsHardThm`. It
cites the lemmas about `LimitOps` for each of the two layers.
`PhaseLimiterAssumption` is all that is assumed; the set of tasks that exist at
any time is finite in any program.

`NoSlotMadeUp` is not inductive. `release_stuck_slots` computes the number of
slots to give back from the limit of one phase, and gives that many to both
layers. If the phase layer has lost slots (a late release into a phase without a
limit), they come back in the global layer as well, and that layer must have
lost them too, or it would gain. It has, but several phases may have losses, and
a step changes one of them. So the invariant has `LossesCovered`: all configured
phases together never lack more slots than the global limit does. The sum over
the phases is the cardinality of a disjoint union (`Lost`; `LostSplit` takes one
phase out of it), because no fold can be reasoned about. A slot that was released twice
hides one that is lost, so what a layer lacks (`GlobalMissing`, `PhaseMissing`) is
counted with `twice`; what `get_held_slots` answers is bounded by what the phase
lacks, holds and has handed to woken tasks (`HeldBound`). The rest of `IInv` is
`Sound` and `Prompt` of each limit, who waits for which limit, that a limit that
is not ramped owes nothing, and that in a steady run the global limit lacks no
slot; then the phases lack none either, and `Conservation` follows.

The bound of `HeldBound` is only good enough if a phase that released slots twice has
no credit out when it is completed by force. That is `Late`, the other half of
`FullInv`: whatever was given up or released twice belongs to a phase that has stopped,
was given up (`GaveUp`) and holds nothing any more, since a stopped phase admits
nobody (`StepQuiet`: no step makes a task a holder of a stopped phase). `Late` also
gives `NoSlotMadeUp` its second half and `PhaseLimitIsHard` its case of a phase with
double releases.

### The credit phase

`CreditPhase_proofs` proves, for every set of plans, every number of sessions and
turns and every concurrency (`CreditPhaseAssumption`): `BooksMatchWorkThm`,
`CompletesDrainedThm` and `KeepsContractThm`, which is the refinement of
`PhaseContract`.

The properties compare counters with the number of sessions in some state. `Census`
counts the sessions whose record is of a kind, and `CensusGains`, `CensusLoses`
and `CensusSame` say what the move of one session does to it. The invariant:

* `Books`: counters and free slots against the census, until the phase completes;
  when the last return came, the session slots may all be back already;
* `Places`: what the books need of the sessions: those beyond `sentSessions` are
  new, one between two turns has a turn left, the queue holds each session
  once and only waiting ones, and the loop waits for a session that is held;
* `Stages`: the runner, the lifecycle and the loop keep step. Once the counts are
  frozen the loop is over (so that nothing is sent any more), and until the phase
  is complete `all_credits_returned_event` implies that all is back;
* `Turns`: `count.sent` is the number of turns sent, as a set of pairs;
* the caps.

The last point of `Stages` is why slots are not given back twice: the return that
finds all credits back releases the slots of the sessions that were cut short, and
it happens once, because a return needs a credit in flight, so the event was not
set before. `KeepsContractThm` needs `Books` for `Return` (fewer are back than
were sent) and `Stages` for `Complete`.

### The router

`StickyRouter_proofs` proves, for any families of sessions, any workers, numbers of
turns and faults (`StickyRouterAssumption`): `TablesAgreeThm`,
`LoadMatchesCreditsThm` and `LossesReportedThm`. Two facts about the record of tables
carry the proof:

* `Sound`: a worker owns just the entries that name it, and counts them; every name
  leads to an entry, and an entry is found under its root and its aliases and
  nowhere else;
* `Book`: a load is the number of the credits, the index by load and the least load
  say what the loads are.

What sessions do to an entry leaves the loads alone (`Keeps`: `SendFinalKeeps`,
`RegisterKeeps`, `ReleaseKeeps`, `EvictKeeps`, chained by `KeepsBoth` through the
five operations of a `CreditReturn`); what a credit does to the loads leaves the
entries alone (`HomesKept`: `TrackSentKeeps`, `TrackReturnedKeeps`); a worker that
goes takes its share of both (`UnregisterAllKeeps`). There is one lemma for each
operator and one for each action. Two of them show where the code takes a shortcut and why
it may. `_track_credit_sent` moves the least load up by one without a search: the
only worker that had it has just been moved there. `_unregister_worker` searches only
if the worker had the least load, and if its bucket is empty.

`Sound` does not rest on the reference counts, and could not: a release may count
down an entry that its child was never counted in (section 5), so a count may become
negative, and in `TypeOK` it is an integer. Who is evicted too soon is evicted from
all tables all the same.

The books alone do not survive the next credit: a load could go below zero, or beyond
the last bucket of the index. So the invariant has the sessions in it:
`CreditsKnown` (a registered worker has the credits that it was sent and did not
return), `Announced` (the children a return will start are not there yet),
`TurnsLeft`, `Fresh` (a worker that registers has no credits) and `Reported`, which is
`LossesReported` of the workers that are still alive too: a worker that was evicted
as stale may die later.

### The phases of a run

`PhaseOrchestrator_proofs` proves, for every number of phases and every set of
plans (`PhaseOrchestratorAssumption`): `ProfilerMatchesOwnersThm`,
`NodeFailureFailsRunThm` and `KeepsContractThm`, which is the refinement of
`RunEvents`. The loop is at one phase, but the runners it left behind go on in
detached waits nobody awaits before the barrier. The inductive invariant has one
part for each question a step asks:

* `Spots`: the loop has left the phases before `pos` and not begun those after
  it; how it came to where it stands;
* `Waits`: why a runner is on the list of active ones, or what took it off;
* `Dues`: the barrier waits for every detached wait that has not called back;
* `Profiler`: who owns the profiler, at each point of a phase's life;
* `Failure`: where the error of a failed node is until it reaches the exit;
* `Stages`: which messages each phase has sent, given where its runner stands.

Each step of the refinement is one message of `RunEvents` or a stutter. That
CREDITS_COMPLETE comes last needs `Dues`; that phases which are not seamless do
not overlap needs `Spots`.

### The credits of a worker

`WorkerCredits_proofs` proves, for any set of credits and any number of retries and
outages (`WorkerCreditsAssumption`): `ReturnedOnceThm`, `CompletedHasRecordThm`
and `FirstTokenComesFirstThm`. They are about the order of two frames of one credit
on a socket that all credits share. A send that was asleep in a retry reaches the
wire ahead of what was parked meanwhile, so a frame may be inserted in the middle
of the sequence of frames. `DeliverInserts` says where, and `Settled` that it
is harmless: a credit whose send sleeps has nothing parked, so its token cannot be
overtaken by its return. `Progress` says what the context of a task holds at each
of its places, `Sent` which frames it has sent by then.

### The records manager

`RecordsManager_proofs` proves, for any number of phases, requests and messages
not yet handled and any set of runs (`RecordsManagerAssumption`):
`CompleteMeansAllThm` and `OneResultThm`. Typical of both is that what a handler
concludes rests on messages that were sent long before it, so the invariant has to
speak of the bus as well as of the trackers:

* `Told`: of a phase that has not completed only progress is on the bus; of one
  that has, either its tracker has the final count, or that count is on the bus,
  once and behind all progress;
* `Announces`: a phase that was started is known to the tracker by the time the
  message that the credits are complete is at the head of the bus. Without it the
  check of all trackers could pass over a phase nobody had heard of;
* `Covered`: records counted and records on their way are no more than the requests
  completed. With the final count reached, none is on its way, so the count cannot
  be passed later;
* `Ended`, which holds once natural completion has been started (unless the stall
  watchdog gave up) and is stable: no phase starts, completes a request or gets a
  record afterwards. It is what a result's claim to be complete amounts to;
* `Held`: who is inside the lock, who has published and not yet kept, who reports a
  failure, and what `cached` and `published` are at each of these.

`MessageSent` and `MessageTaken` say what `Append` and `Tail` do to each statement
about the bus; there is one lemma per handler, and `HandlerStep` for what handlers
have in common. The number of records of a run is a sum over its phases. It is
written as the cardinality of a set of pairs (`Total`), because a fold cannot be
reasoned about.

### The end of the run

`Joins_proofs` proves, for any services, domains, owners, publishers and plans
(`SystemControllerAssumption`): `ZeroMeansWholeThm`, `StopsOnceThm` and
`SurvivorsAreHeardThm`. The invariant:

* `Clean`: as long as nobody is to blame and nothing was cancelled, each domain has
  been handled, is still required, or belongs to a service that never came up or is
  yet to register. The handlers that take a domain out of the barrier either blame
  its owner or find the results there; that is the whole of `ZeroMeansWhole`;
* `Early`: while services register the benchmark has not ended and the state is
  *initializing*, in which the barrier is not looked at; afterwards no service is
  yet to come up. Otherwise an empty barrier would open at once;
* `Alive`: the domains of a registered service that lives are required;
* `Delivered`: what is completed was handled, and the RecordsManager publishes for
  others only after the profile's results. This is what makes its terminal failure
  consistent with what went out before;
* `Once`: without a failed start and without Ctrl+C, whoever is to call `stop()` has
  triggered the shutdown, and after the call nobody is left to.

There is one lemma per part (`TypedStep`, `OnceStep`, `DeliveredStep`, `AliveStep`,
`EarlyStep`, `CleanStep`), each with one step per action, and `BarrierOpens` for the
four places where the barrier may open.

### The session trees

`Joins_proofs`, about the instance `Reg` of `SessionTree`, proves for any set
`Roots` and any `MaxSpawn`:
`SlotFreedOnceThm` (no tree's slot is released twice), `FreedAtRestThm` (it is
released when the root has ended and no descendant is left) and
`RestFreesSlotThm` (a tree that has come to rest has released it). The released
slot of a tree is not enough for an induction: that a tree without an entry in
the registry has nothing left that could end, and so could release again, must be
part of it. The inductive invariant says for each tree which of three it is:

* *waiting* to be opened: what was registered early is what is live;
* *tracked*: what the record counts as out is what is live, its root is pending
  as long as the root is up, something is still at work, and nothing was freed;
* *resting*: its slot was freed once and nothing is at work.

`RegisteredTree`, `OpenedTree`, `ReleasedTree` and `EndedTree` say what each
registry operator makes of a record, `OneTree` that a step of one tree leaves the
others alone, and `OpenInv`, `SpawnInv`, `EndInv` and `SweepInv` take one action
each. `BranchOrchestrator` implements `SessionTree!Spec` as far as TLC can tell
(`KeepsRegistry`), so the theorems speak about its trees.

### The recorded order

`Joins_proofs` is here about recordings of any number of requests and streams
(`Recording`: integers or `Unknown`, turn numbers bounded, starts bounded below):

* `FrontierSuffices`: if what is answered so far is a prefix of each stream and in
  recorded order, and the inferred predecessors of a request are answered, then
  so is everything of other streams that was over when it began. The barrier
  knows only the latest request of each stream and prunes even these, so this is
  what `RecordedOrder` rests on.
* `OrderKept`: answering that request keeps both hypotheses, so that they hold of
  the whole replay.
* `NoStandstill`: while requests are left, one that is the next of its stream has
  its predecessors answered. Two requests never wait for each other in a circle.

The argument takes of the requests in question an extreme one (the latest of a
stream, the latest of the frontier, the earliest of the heads); that a bounded
set of integers has one (`LeastOf`, `GreatestOf`, `LeastIntOf`) comes from the
library's well-founded induction (`WFMin`). The hypothesis `Sequential` says
that the turns of one stream begin and end in their order. The code does not
enforce it; for a stream that overlaps itself the barrier waits for the request
that ended last and need not wait for a later turn that ended sooner.

### Only model-checked

Liveness under fairness is out of the prover's reach (`WaitersServed`,
`PhaseCompletes`, `DeadWorkersNoticed`, `RunEnds`, `ResultArrives` and the others of
their kind); so is what a recursion or a fold computes, by which the branch
orchestrator's resumptions are written. So the invariants and action properties of
`BranchOrchestrator`, and `KeepsRegistry`, the refinement of `SessionTree` by it, are
model-checked only. Of the router, `EntryHasUse` and `SessionsStayHome` are: they speak
of the generations of one family, two in the runs, and `EntryHasUse` of reference counts,
which are right only as long as no worker is lost between the registration of two
children. `CancelIsNoFailure`, `FailedExportEnds` and `SiblingsStayHome` are
violated (section 5).

## 5. Where the code and its words differ

Two runs show one each; "findings" in `PROJECT.json` quotes the words.

* `run_cancel`: `cancel()` clears `_active_runners` while `_execute_phases` awaits
  one of them. When that phase returns, `remove(runner)` raises `ValueError`
  (`phase_orchestrator.py:470`), `start()` fails, and a run that was merely
  cancelled is reported as failed, which `manager.py:247` says it is not.
* `controller_stuck`: `_finalize_and_process_results` promises that every failure
  is published so that the run can terminate (`records_manager.py:1229`, `:1245`),
  but publishes the profile domain only; the telemetry and accuracy domains stay
  required, and the controller waits for ever.

Known without a run of their own, met while reading and modelling.

Timing:

* `release_stuck_slots` relies on `get_held_slots`, which derives the slots held
  from limit, value and debt. After a ramp has lowered the limit below the slots
  in use it counts too few, and the global limit stays short.
* With a phase without a limit between two limited ones, late releases of the
  first do nothing and the global limit is short afterwards.
* `set_limit` does not drain free slots while a woken task has yet to run, so
  they become debt; until it is paid a lowered global limit may admit credits
  beyond it (the phase limits, made afresh, still hold: `PhaseLimitIsHard`).
* If the last credit returns before the counts are frozen (the time is up while
  sessions are in a think time), the fast path completes the phase and nobody
  releases those sessions' slots.
* Slots are released twice, in both layers, so that the phases after a forced or
  seamless one may have more in flight than the global limit allows. `NoSlotMadeUp` counts
  them and says which phases they need. `on_first_token` does not look at
  `is_complete` (`callback_handler.py:694`): a first token after `release_stuck_slots`
  frees a prefill slot again. `get_held_slots` counts the slots of tasks that were woken
  but have not run, which release theirs when they find the phase stopped. In
  AGENTIC_REPLAY the `finally` of `run()` calls `release_all`
  (`phase/runner.py:587`, `session_tree.py:245`): after `release_stuck_slots` it releases
  the slots of open trees again, and in a phase that flows into a seamless one it
  comes while sessions are in flight, whose last turn, finding no tree, releases
  their slots again (`callback_handler.py:672`, `:684`). The phase limits, made
  afresh, still hold (`PhaseLimitIsHard`).
* A phase without a duration that is cancelled while it sends waits for ever for
  `all_credits_sent_event`.
* DAG children are sent after the counts are frozen (`credit_counter.py:397`):
  what has completed may exceed the frozen count, and the phase can complete with
  a credit on the wire.
* A cancel during a detached wait's publication cuts PHASE_COMPLETE off;
  CREDITS_COMPLETE may precede PHASE_COMPLETE after a cancel or a failure; the
  grace time-out of one phase cancels credits of those that overlap with it.

Router and trees:

* "All siblings in a fork hit the **same worker** as the parent"
  (`docs/benchmark-modes/dag.md:320`): they need not, even if nothing fails. While the
  root's final turn is on the wire, `send_credit` keeps the entry for the children which
  that turn will fork, but with a reference count that only earlier FORK children hold up
  (`sticky_router.py:604`). When the last of those ends, `release_child_routing`
  (`:766`) evicts the entry, and the later siblings go to any worker, without their
  parent's history. `SiblingsStayHome` states the sentence, and
  `tlc -config MCStickyRouterFork.cfg MCStickyRouter`, which is not among the runs,
  prints the counterexample: two workers, a root of two turns that forks one child on
  each, no faults. `SessionsStayHome` therefore speaks of roots and of FORK children
  without FORK siblings.
* `release_child_routing` counts down whatever entry the parent has now. A child that
  was registered on an entry that went with its worker counts down the one that the
  root made on another worker since, which is evicted while a second child, registered
  on it, still runs (`:731` has it survive "until every descendant child session has
  terminated").
* A FORK child whose last turn forks is released before its children are
  registered (`callback_handler.py:453`). If the root has finished and nobody else
  holds the entry, the grandchild does not find it and goes to any worker
  (`tests/unit/credit/test_sticky_router.py:1606` expects it to stay).
* A root session cut short before its final turn keeps its sticky entry, so the
  departure of its idle worker counts as a loss. A credit sent while a
  `WorkerShutdown` is under way is treated as draining.
* A second gate further out than the next turn is sent early; a child suspended
  at its own gate when the stop condition refuses its join stays pending; a child
  whose last turn declares branches releases the tree's slot too early.
* FAIL_FAST calls `abort_session`, which does nothing (`credit/issuer.py:624`),
  while `docs/benchmark-modes/dag.md:413` says that the run is aborted and pending
  siblings are cancelled.

Replay:

* A root that waits at a join when the cache-pressure warmup's duration ends, with
  children that have not all finished, has neither a returned credit nor a pending
  turn, so `_build_handoff_states` (`strategies/agentic_replay.py:834`) drops it:
  its children go on ungated and its remaining turns never run.
  `docs/tutorials/agentx-mvp.md:421` says that every live root and unresolved join
  is part of the snapshot. A live stream whose turn had passed the gate and was
  not sent when the duration ends is dropped too.
* `cancel_pending` cancels the tasks of released dispatches. A `CancelledError` is
  no `Exception`, so `_dispatch_pending` (`replay_dependencies.py:334`) does not
  call `on_refused`, and the join of such a child waits for the drain time-out,
  which the comment at 338 says it shall not. The model has this (`Withdraw`); the
  stopped recorded tree of the run retains turns of the root only.
* The dependants of a stream that is cut short (an overflow, a refused first
  dispatch), its parent's join turn among them, stay at the barrier for the rest
  of the phase. The recorded trees with faults have no such dependence.
* The last return of a recycled tree closes the tree's barrier state before
  `complete` is called, which makes it anew (`replay_dependencies.py:226`).

Records and workers:

* A cancel between a phase's final statistics and CREDITS_COMPLETE can give a
  result that is called complete though later phases never ran. A local run with
  a lost record has no time-out.
* A worker whose return is cut in the sleep of a retried send has emitted the
  record of a completed request, and gives the credit back as cancelled.
* The push client's comment promises first-in first-out; a send that was asleep in
  a retry overtakes what was parked meanwhile.

Controller:

* A second `stop()` kills the children at once. A failed PROFILE_CONFIGURE after a
  Ctrl+C calls `stop()` again, and `_check_and_trigger_shutdown` starts another
  after a failed start.
* The first Ctrl+C after an automatic cancel force-quits; the start sequence goes
  on after a cancel.
* A producer reaped by mistake that registers again is waited for without end; so
  are the telemetry results of a records manager that dies after it published the
  profile's, or that meets an exception while publishing them.

## 6. Plan

Done, with their proofs: the limit, the phase limiter, the phase and its contract,
the router, the session trees, the recorded order, the phases of a run, the worker's credits,
the records manager, the controller.
Done, model-checked: the branch orchestrator with the replay barrier.

Left to model, in this order: DAG children in `CreditPhase` (with the counts of
sends after the freeze), the accelerated warmup with its hand-over of the
barrier's state, branches started when a turn is issued, the fixed schedule and the
user-centric rate, the ask/tell loop of the sweep
orchestrator.

Left to prove: `BooksBalance` of `BranchOrchestrator`, whose resumptions have to be
written without folds first, and with it `SlotCoversWork` and `KeepsRegistry`.

### Not modelled

What remains of the repository is mostly I/O, formatting and numeric computation
(section 1 lists it): it has no shared mutable state between actors for a state
machine to say anything about, and it is far larger than the core modelled here.
`PROJECT.json` gives the reason for each component.

Of what is modelled, these are left out: a SERVICE_ERROR of a TimingManager that goes on
living, and whatever a section above says of its module.
