# A verification project for rs-thread-pool

TLA+ models of the two thread pools of this repository, the TLC instances that
check them, an abstract executor service both pools are shown to implement, and
TLAPS proofs, for any number of threads, of the lock-free core the pools share,
of both pools and their refinements, and of what panicking user code may do to
them. Every safety property of a passing run is also a theorem. Paths below are
relative to the repository root.

## The system

| Part | Code | State | Operations |
|---|---|---|---|
| Admission gate | `src/internal/admission_gate.rs` | one atomic word: closed bit and entrant count | `try_enter`, `leave`, `close`, `is_open`, `inflight_count` |
| Pool accounting | `src/internal/pool_accounting.rs` | the gate and seven atomic counters | reserve, roll back, publish, claim, cancel, finish, `is_idle`, `snapshot` |
| Dynamic pool | `src/dynamic/thread_pool_inner.rs`, `thread_pool_worker.rs`, `thread_pool_state.rs` | monitor (lifecycle, live and exiting workers, sizes), stop flag, idle count, wake tokens, waiter counts, FIFO queue, termination channel | `submit`, worker loop, `shutdown`, `stop`, `join`, `wait_termination`, resizing, prestart |
| Job tickets | `src/pool_job_ticket.rs`, `src/pool_job/internal/queued_job*.rs` | one `QueuedJobState` per prepared job | `cancel_queued` |
| Fixed pool | `src/fixed/fixed_thread_pool_inner.rs`, `fixed_worker.rs` | monitor (lifecycle, live workers), stop flag, idle count, wake tokens, lock-free injector | as above without resizing and tickets |
| Fixed pool construction | `src/fixed/fixed_thread_pool.rs`, `fixed_thread_pool_builder.rs` | the workers started so far | `new_with_builder`, its failure path |
| Facade and builder of the dynamic pool | `src/dynamic/thread_pool.rs`, `thread_pool_builder.rs` | the workers prestarted so far | `build` and its failure path, delegation, `Drop` as `shutdown` |
| Capacity channel | `thread_pool_inner.rs`, feature `async-wait` | a generation number | bumped whenever a slot may be free or admission closes |
| Jobs | `src/pool_job.rs`, `src/pool_job/` | per job its callbacks and what they captured | accept, run, cancel, discard |
| Hooks | `src/thread_pool_hooks.rs` | none | four user callbacks, panics contained |
| Statistics, reports, errors | the other files | snapshots and values | |

How they meet: a submitter enters the gate, reserves a slot (under the monitor
in the dynamic pool, with a compare-exchange in the fixed one), runs the user's
acceptance callback outside every lock, publishes, requests a wake through an
atomic token, and leaves; the last to leave notifies whoever waits for the
gate to empty. Workers take jobs without the monitor and use it only to decide
whether to park, retire or exit. `stop`, `join` and `wait_termination` share
that monitor and its single condition variable, but wait for predicates over
counters that are changed without it. Asynchronous callers watch two channels,
one for termination and one for capacity, that are written beside the monitor.
Callbacks, hooks and destructors are user code on threads of the pool, of the
submitter, of a ticket's holder or of the caller of `stop`.

What is hard: the counters are read one by one and never under the lock that
guards the decision taken from them; every wakeup must be paid by the thread
that makes the predicate true; jobs are owned by whoever removed them from the
queue; any user code may panic, threads may be refused, keep-alives and
timeouts elapse, and a submitter told "saturated" waits for a change that may
have happened before it looked.

What makes each part correct: the gate admits atomically and knows its last
leaver; the accounting balances and `is_idle` does not lie; no job has two
owners or two outcomes; no sleeper is forgotten; no accepted job is stranded;
termination is true when reported; a ticket's answer is the truth; a failed
construction leaves no thread behind; a saturated submitter hears of the next
free slot; whatever panics, jobs are settled, handles resolved and captured
values dropped before the pool calls itself idle. `PROJECT.json` lists the
hazards line by line with the properties aimed at each.

## Modules

* `AdmissionGateSpec` is the promise: a gate that is open or closed, and per
  submitter a result. `AdmissionGate` is the word: `Load` is the first load of
  `try_enter`, `Exchange` and `ExchangeFails` the two outcomes of the weak
  compare-exchange (which may fail for no reason), `Leave` and `Close` the two
  read-modify-writes. `CLOSED` is a parameter so that the count can overflow in
  an instance.
* `PoolAccounting` has one step per atomic operation of `pool_accounting.rs`
  and an observer that performs the four loads of `is_idle` one at a time.
* `ExecutorService` is the promise of both pools: whether they admit, what
  `lifecycle()` returns, and per job how far it has come. A job is accepted once
  and then either runs to its end or is withdrawn and cancelled; the lifecycle
  only advances; a terminated service has nothing left to do. Both pools check
  `ImplementsService` with the mapping `phase` = "Terminated" when
  `is_terminated` holds and the monitor's lifecycle otherwise, and `stage` read
  off a job's state and whether its submitter is inside (`Stage`).
* `DynamicPool` models submitters, workers, ticket holders and the callers of
  every control operation as threads with a program counter. A step is one
  critical section of the monitor or of the queue mutex; where a critical
  section reads or writes the lock-free counters, each such access is a step of
  its own and the monitor is held (`lock`) across them. `Retriers` are
  submitters that follow the loop of the user guide: subscribe to
  `capacity_changes`, submit, and on `Saturated` wait for a change; `unseen`
  holds those whose receiver has a change to report. A builder thread prestarts
  the core workers (or not) and, when a thread is refused, stops the pool and
  waits for its end. Termination waiters wait without limit, with a timeout
  that may elapse at any time, or on the watch channel. `report` is the
  cancellation count of a `StopReport`.
* `FixedPool` does the same for the fixed pool: counting and pushing, stealing
  and accounting are separate steps, because no mutex covers them, and the
  constructor runs beside the workers it has already started.
* `PoolJobs` leaves the locks aside and takes user code apart: what a thread
  still has to execute is a sequence of callbacks, destructors, hooks and
  accounting steps, between marks for the limits of each `catch_unwind`; any of
  the user's steps may panic, and a panic skips to the next limit or, where the
  code has none, unwinds the thread. Jobs are detached, callable (with a
  `TaskHandle`), custom (`PoolJob::new`, `with_accept`, or prepared with a
  ticket) or foreign (prepared for another pool), in either pool (`fixed`).
* `MC*` modules add the symmetry sets and the bound on which control calls meet
  (`Together`); the `.cfg` files choose the threads.
* `AdmissionGate_proofs` and `PoolAccounting_proofs` hold the theorems about the
  shared core, `FixedPool_proofs` and `DynamicPool_proofs` those about the pools,
  `FixedPoolRefinement_proofs` and `DynamicPoolRefinement_proofs` the step
  simulations of `ExecutorService`, and `PoolJobs_proofs` those about user code.
  `PoolLemmas` holds what both pools need of counters that stand for sets and of
  queues in which no job occurs twice.

Definitions named "Seeded fault" are deliberately wrong variants of the one
that follows. They are used by no specification; substituting one for the
definition it precedes must make a property fail, which shows that the property
depends on the code it is about.

### Abstractions and why they are sound

* In the pool modules the task counters are the sets of jobs they count, and
  `is_idle` is one evaluation. `Ledger` says that each counter equals the size
  of that set. `IdleObservationSound` and `SealedObservationExact` say what the
  four separate loads guarantee, and it is what the callers use: `join` speaks
  about earlier submissions, termination is only asked behind a closed gate.
  All three are proved for any number of submissions.
* A claim, publication, cancellation or completion is one step on those sets in
  the pool modules; the module `PoolAccounting` takes them apart.
* The monitor's condition variable has no spurious wakeups: every wait in the
  code rechecks its predicate, and a spurious wakeup could only hide a lost one.
* A timed wait may end at any time; durations do not appear.
* The generation number of the capacity channel is abstracted to the receivers
  that have not seen its last value, which is all `changed()` depends on.
* A builder's `validate` is the assumption `ValidConfig` on the constants; the
  setters of sizes apply the same test (`ValidSizes`) at run time. Stack size
  and keep-alive are not represented.
* Each submitter submits once, except that a retrier submits again whenever it
  was told "saturated", and each caller calls once. A worker that has
  exited may be started again, so `Workers` bounds the threads alive at once,
  not those ever created. A submission that needs a worker waits in the model
  while all of them are taken by threads still in their exit hooks.
* The pool's memory is sequentially consistent. The code uses acquire/release
  orderings; the idle-count/queue-count handshake is listed as a hazard that
  these models do not settle.
* Left out because nothing reads them back: `submit_waiter_count`,
  `live_worker_count`, worker indices, the monitor's copy of the idle count,
  statistics, and the counts in the fixed pool's `StopReport` (best effort,
  `doc/design.md`).
* `PoolJobs` keeps the order of admission, claiming and settling and drops the
  waiting, which the pool modules check: a panic cannot hold a lock, since no
  user code runs under one. A worker that is shutting down reads the queue count
  and the admission count in two steps there too, so the jobs that `strand` is
  about can be left behind; `PanicsAreContained` names that case (`Stranded`)
  and asks for everything else: a job that was taken is settled, a queued job is
  taken and a shutdown ends unless stranded, a stopped pool always terminates.

## What TLC checks

Instances have two or three submitters, one or two workers and one caller of
each operation under test. That is enough for the cases that matter: a
publisher, a second submitter inside the gate, and a third whose token is
stale; a worker that decides while another exits; a queue at its capacity of
one or two. Symmetry over submitters and workers is used in safety runs only.
`Together` names the control calls that meet in one behaviour (for example
`stop` with a termination waiter, or `shutdown` with one), and the constraint
`CallsTogether` restricts `lifecycle`, `retire`, `tickets` and `fixed_lifecycle`
to them: the runs cover those combinations and not all of them at once.
`shutdown` followed by `stop` in one behaviour, configuration calls during
`shutdown`, and `join` during a configuration call are covered by the theorems
below, for the properties they state, and by no run. The same holds of
`NoLostWakeup` with acceptance that panics during `stop` or in the fixed pool,
and of `SoleOwner` with tickets (where `tickets` checks `TicketTruth` and the
refinement). In `live` one thread calls either `stop` or `join`.

| Run | Calls | Question | Distinct states |
|---|---|---|---|
| `gate` | `close` | Does the packed word implement the abstract gate, with the count at its limit? | |
| `accounting` | | Does the ledger balance between any two atomic operations, is `is_idle` sound, is the capacity kept? | |
| `lifecycle` | `stop` or `shutdown`, with a waiter | Does `stop` wait for the right submitters, give every job one owner and start nothing afterwards? Are waiters (timed, untimed, asynchronous) woken, and is termination reported only when it is true? | 1,553,530 |
| `retire` | `build`, then `join` or one configuration call | Does a build whose threads are refused end clean? Do workers that time out, or threads that are refused, leave work behind? Does every queued job have a waker of its own? Do sleeping workers learn of new sizes? Are the worker counts exact at every step? Is `join` ever asleep or wrong, also when acceptance panics? | 969,275 |
| `tickets` | `stop` or `shutdown`, two `cancel_queued` | Is `cancel_queued` truthful, and answered, against acceptance that may panic, workers, `stop` and a rival? Is every cancellation reported once, by a ticket or by `stop`? Does a saturated submitter learn of the next free slot? Does the pool implement the executor service? | 1,106,826 |
| `live` | `stop` or `join` | Do stops, joins, retried submissions and accepted jobs come to an end? | 118,514 |
| `fixed_lifecycle` | construction; then `stop` or `shutdown`, with a waiter; or `join` | The same questions of the fixed pool, whose jobs are counted and moved in separate steps and whose construction may fail beside running workers. | 1,124,082 |
| `fixed_live` | `stop` | Does nothing reach a worker of the fixed pool once `stop` has returned? Do stops and accepted jobs come to an end, with acceptance that panics and workers that spin? | 121,710 |
| `jobs` | `shutdown`, `stop`, tickets, handles | With every pair of job kinds and every callback, destructor and hook free to panic: is the callback protocol kept, is every handle resolved, does anything outlive an idle or terminated pool? Is every job that somebody has taken settled, and does a stopped pool terminate? | 191,753 |
| `strand`, `fixed_strand`, `token` | `shutdown` | Three disagreements, below. | |

`CHECK_DEADLOCK FALSE` in the pool runs: a pool with parked workers and no
caller may stay quiet for ever. What a forbidden standstill is, `NoLostWakeup`
says: when every thread sleeps or has not called, no sleeper's reason to wake
may hold. Dynamic and fixed runs check it with every kind of waiter. It speaks of
the place where a thread sleeps and not of its role, because a thread may be
free to call `stop` or `join`, as in `live`.

Fairness (`FairSpec`) is strong fairness of each thread once its call has
begun. It is justified by the scheduler and by the eventual fairness of
`parking_lot`: a thread that finds the monitor free again and again gets it.
No call has to begin, no keep-alive or timeout has to elapse, callbacks return.
A spinning worker (`Spins`) may probe any number of times in the model, where
the code stops after 256; strong fairness still makes it take a queued job.
`PoolJobs` needs only weak fairness: user code ends, by returning or by a panic,
and threads of the pool keep running; nobody has to submit, cancel or close.

### Disagreements between code and documentation

* `strand`, `fixed_strand` (`NoStrandedWork`): a worker that finds the pool
  shutting down reads the queue count and then the admission count. A job that
  is published by a submitter who also leaves between the two reads is seen by
  neither, and the worker exits; with no other worker the accepted job is never
  run and the pool never terminates. Reading the admission count first, or the
  queue count once more, closes the window.
* `token` (`QueuedJobHasWaker`): while shutting down a worker
  parks without looking at the wake tokens, although `doc/design.md` says
  workers check them. With a stale token a queued job then waits for an
  unrelated submission to leave. The fixed worker parks in the same way. In a
  running pool the property holds (`retire`, `fixed_lifecycle`).

`NoStrandedWork` and `QueuedJobHasWaker` are therefore not asked of a pool that
is shutting down in the passing runs: `retire` has no `shutdown`, and the fixed
pool's `QueuedJobHasWaker` speaks of a running pool. `PoolJobs` has the window of
`strand` too, and `PanicsAreContained` leaves that case out by name.

## What is proved

The theorems hold for every value of the constants allowed by the assumptions.

### The shared core

`GateAssumption`: the submitters are finitely many and the closed bit is greater
than 1. `AccountingAssumption`: the jobs are finitely many, the capacity is a
natural number.

* `GateTypeCorrect`, `GateCountCorrect`: the word stays in range and its count
  bits are the number of entrants inside. The second is inductive only with the
  fact that a submitter about to exchange holds a word it saw open and below
  the limit, since the exchange tests nothing but equality.
* `GateImplementsSpec`: with results and openness read off the word, every step
  of the loop is a step of `AdmissionGateSpec` or a stutter.
* `AccountingTypeCorrect`, `AccountingLedger`, `AccountingIdleSound`,
  `AccountingSealedExact`, `AccountingCapacity`. The run does not check the
  types apart: `Ledger` already excludes a counter below zero. The inductive
  invariant `AccInv` adds to the properties that an unpublished submission has
  no job (`Shape`), and what an observer already knows (`ObsInv`): after the first
  load the earlier submitters have left, after the second their jobs are past
  their slot, after the third they are finished. A job cannot move back over
  the point a load has passed, because `running` is raised before the slot is
  released. Each action is reduced to one lemma: a step on counter c that moves
  one submission keeps the ledger if its increment is the change of that
  submission's weight under c (`MoveKeepsLedger`).

### The pools

`PoolAssumption` and `FixedPoolAssumption` give the constants their types and
require a valid configuration, as the builders do. `RolesAssumption` says that
the threads are finitely many and that each plays one part: the pool starts its
workers itself, at most one thread builds the pool, and submissions and ticket
calls are named by the thread that makes them. Each caller calls once; which of
`shutdown`, `stop` and `join` it is may be left open. The number of threads, the
sizes, the capacity and which of the calls meet are not bounded.

| Theorem | Fixed pool | Dynamic pool |
|---|---|---|
| The counters are exact, so no `checked_sub` fails | `TypeCorrect` | `TypeCorrect` |
| A job has one owner | `JobsHaveOneOwner` | `JobsHaveOneOwner` |
| Termination is true when reported | `TerminationIsTrue` | `TerminationIsTrue` |
| `join` returns when earlier work is settled | `JoinIsSound` | `JoinIsSound` |
| No wakeup is lost | `NoWakeupIsLost` | `NoWakeupIsLost` |
| A queued job of a running pool has a waker | `QueuedJobsHaveAWaker` | `QueuedJobsHaveAWaker` |
| A running pool keeps a worker for the work it owes | | `WorkIsNotStranded` |
| `cancel_queued` tells the truth, and answers | | `TicketsTellTheTruth`, `DecisionsCome` |
| Every cancellation is reported once, by a ticket or by `stop` | | `CancellationsAreReportedOnce` |
| A failed build leaves no thread | | `FailedBuildsAreClean` |
| A saturated submitter hears of the next slot | | `RetriesAreTold` |
| Sleeping workers follow the configured policy | | `SleepersFollowThePolicy` |
| Nothing starts after `stop` has returned | `StopIsFinal` | `StopIsFinal` |
| Every step is one of the executor service | `FixedPoolImplementsService` | `DynamicPoolImplementsService` |

An empty cell means that the fixed pool has no such operation, or that the
property is not asked of it (stranded work, its construction). All of the
theorems rest on one inductive invariant per pool, `Inv`, proved by `InitInv`
and `NextInv` (one lemma per actor and part). Its parts, and why each is needed:

* `TypeOK` has the counters equal to the numbers of threads at given places.
  Each action changes the weight of one thread by what it adds to the counter
  (`Balanced`, or `Starts` when it starts a worker).
* `Own` says who holds which job: a thread's hands are full exactly between its
  claim, drain or withdrawal and its callback (`HandsFit`), the stage of a job
  follows from its holder (`OneHolder`), the mutex holder finds a job in front
  (`QueueHeld`), and the entry of a ticket, or a job not yet pushed in the fixed
  pool, follows from the place of its submitter (`EntryFits`, `Unpushed`).
  `SoleOwner` alone does not say that nobody else is about to take the job.
* `TicketsFit`: among the callers of `cancel_queued` one at most was promised a
  given job.
* `GateFirst`: the gate closes before the lifecycle changes, and nobody calls a
  pool that is not built. Termination is only sound behind a closed gate.
* `StopKnows`: after its drain `stop` has seen an empty gate and an empty queue,
  which stay empty. In the fixed pool it stands beside `Inv`
  (`StopKnowsHolds`): there the gate is empty from the drain on, and only the
  empty gate makes an injector that was found empty stay so, since no lock
  covers the push.
* `JoinerKnows` and `JoinSound`: only `join` has noted submissions, and a
  settled one stays settled.
* `Told`/`ToldWaiters`, `GaveUp`: what the channel or a wait has said of the end
  is true, and a failed build's end is on the channel.
* `RetrierKnows`: somebody has yet to announce a free slot or the closed gate to
  a retrier that has no change to see.
* `ParkedFit`: the monitor is held where the code holds it, and the workers that
  sleep without a timeout are as many as the sizes allow.

Wakeups need a second invariant, `WakeInv`, proved on top of `Inv`. Each of its
parts has the form: whenever a sleeper's reason to wake holds, some thread has
yet to notify. `StopWoken` and `JoinWoken` name the departing submitter, or
whoever settles the last job; `EndWoken` (`WaiterWoken`) adds a `stop` that has
not drained; `WorkerWoken` the `stop` and the last departure of a shutdown.
`JobWoken` is the handshake of `wake_one_idle_worker`: a publisher that has not
decided will see the worker's idle mark, and one that decided against a token
found one, which the worker finds too before it parks or retires. It holds in a
running pool only, since a worker that parks in shutdown does not look at the
tokens. `LastLeaves` and `WorkerLeft` of the dynamic pool follow from the same
handshake: the last worker unregisters with no slot reserved and no job queued,
because `should_retire` reads the queue, then the tokens, then the submitters
inside, while the worker is still marked idle.

Cancellations need a third, `ReportInv` of the dynamic pool. `RequestsFit`: a
cancellation reserved during acceptance has the ticket's caller that was
promised it. So a cancelled job is some ticket's (`Ticketed`, one caller per job
by `TicketsFit`) or was found by a drain (`StopsJobs`). `StopsFit` and
`ReportsFit`: however many calls of `stop` there are, at most one drain finds
jobs, because the first leaves queue and gate empty for good; its report counts
exactly those jobs, and without such a report there are none. The sums of the
statement are cardinalities of sets, so the proof is a one-to-one map
(`ImageCardinality`) and needs no induction.

The refinements map a job's stage and its submitter's place to the service's
stage (`Stage`). A step that moves one job is a service step (`JobMoves`), a
step that moves the lifecycle or ends the pool is `Advance` (`PhaseMoves`), and
every other step is not seen (`Unseen`); a terminated pool has nothing left to
move (`TerminatedIsOver`).

What the proofs taught about the model:

* `JoinSound` was false when a retrier and a joiner meet: a retried submission
  is a new one, so `BeginSubmit` takes it out of what earlier joins wait for.
* `NoLostWakeup` had to speak of the place where a thread sleeps (see above).
* The fixed pool's `QueuedJobHasWaker` could be strengthened: the waker is a
  submitter between its count and its notification, never just anybody inside.
* `StopIsFinal` needs its hypothesis: "done" must mean that `stop` returned, so
  the stopping thread is not free to make another call instead.
* `QueuedJobHasWaker` and `NoStrandedWork` of the dynamic pool are theorems of a
  running pool. In shutdown they are false, which `token` and `strand` show.

### User code

`MixesAssumption` gives the kinds of the jobs their type; `PartsAssumption` says
that workers, submitters, ticket holders and the caller of `stop` are different
threads. The numbers of jobs, workers and tickets and the kinds that meet are
not bounded, and any step of the user's may panic.

* `CallbacksFollowTheProtocol`: nothing is called for a refused job, only
  `accept` when that panics, and otherwise `accept` before exactly one of `run`
  and `cancel`.
* `HandlesAreResolved`: the handle of a settled callable is resolved, with a
  result if and only if the callable was called.
* `NothingIsLeftBehind`: an idle pool has destroyed what the jobs it admitted
  had captured; in a terminated one no user code is left to run.
* `WorkersSurvivePanics`: no panic unwinds a worker thread.

The properties speak of settled jobs, so they say nothing of the steps between.
The inductive invariant ties the code a thread has still to execute to the
stage, the callbacks, the handle and the captured values of the job it executes
it for. Its parts: a submitter's code follows from how far its job has come
(`SubmitterFits`); a thread that has yet to settle a job is the only one that
does (`SoleHolder`), and each place in its code fits the callbacks already called
and the state of the handle (`HolderFits`, with `RunFits` and `CancelFits`);
what a settled, queued or refused job looks like (`JobFits`); which code a
worker, a ticket or `stop` may be at (`WorkerFits`, `CancellerFits`); and only
jobs with a ticket have a cancellation reserved (`RequestsFit`). The code
sequences are named after their first instruction (`AtCancelDrop`, ...); the
lemmas `Heads`, `Follows` and `PanicsAreCaught` compute once what is first, what
follows, and where a panic at each place leads. That every panic leads to
another of the named places, and none out of the thread, is what the limits of
`catch_unwind` in the code are for.

### Only model-checked

Liveness, because the prover handles neither fairness nor `ENABLED`:
`ClosedReleasesContenders`, `CallsEnd`, `StopTerminates`, `AcceptedJobsFinish`
and `PanicsAreContained`. Nothing in the project needs recursion.

## Not modelled

* `ThreadPoolStats` and the counts of the fixed pool's `StopReport`: snapshots
  of counters read one after the other, which `doc/design.md` calls best effort.
* Weak memory, stack sizes, durations, worker indices and names.
* `TaskSlot`, `TaskRunner` and `TaskHandle` belong to `qubit_executor`; they
  appear in `PoolJobs` only as the code here uses them.
* Reentrance: a ticket used by its own acceptance callback (the code answers
  `false` by comparing thread ids), pool calls from inside a job.
* A second panic while a thread unwinds, which aborts the process, and a panic
  payload whose own destructor panics.
* Capacity in the sense of room to grow. A retiring worker, or a raised
  maximum, makes a saturated submission possible without a message on the
  capacity channel; its documentation promises queue capacity and lifecycle
  changes only, and `RetryIsTold` asks for no more.
* Error values, re-exports, benchmarks.

## Plan

Written so far, in this order: the gate and its abstract specification, the
accounting, the dynamic pool with its tickets, the fixed pool, the proofs of
the first two, the executor service and its refinement by both pools, the
capacity channel, the builders, the jobs with their panics, and the proofs
about the pools, their refinements and the jobs. What is left:

1. `StopReport` of the fixed pool: by how much it may differ from the jobs
   cancelled.
