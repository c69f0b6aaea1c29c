------------------------------ MODULE FixedPool ------------------------------
(***************************************************************************)
(* The fixed-size pool: FixedThreadPoolInner, FixedWorker and the          *)
(* construction of FixedThreadPool, src/fixed.                             *)
(*                                                                         *)
(* It differs from the dynamic pool where it is hardest: the queue is a    *)
(* lock-free injector (publication counts a job before it pushes it, a     *)
(* worker steals a job before it accounts for it), every worker is started *)
(* by the constructor, and a worker that wakes re-examines the lifecycle   *)
(* without releasing the monitor.  Atomicity, counters and the condition   *)
(* variable are treated as in module DynamicPool.                          *)
(***************************************************************************)
EXTENDS Integers, Sequences, FiniteSets, SequencesExt

CONSTANTS Submitters,     \* threads that each submit one job; they also name the jobs
          Workers,        \* the pool_size workers
          Builder,        \* the thread that constructs the pool
          Shutdowners,    \* threads that call shutdown
          Stoppers,       \* threads that call stop
          Joiners,        \* threads that call join (wait_until_idle)
          Waiters,        \* threads that call wait_for_termination
          Bounded, Capacity,   \* queue_capacity
          Spins,          \* whether pool_size > 4, so that idle workers spin first
          SpawnMayFail,   \* whether the operating system may refuse a thread
          AcceptMayPanic, \* whether acceptance callbacks may panic
          Free            \* no thread

Controllers == Shutdowners \cup Stoppers \cup Joiners \cup Waiters
Callers == Submitters \cup Controllers
Threads == Callers \cup Workers \cup {Builder}

\* FixedThreadPoolBuilder::validate
ValidConfig == Workers # {} /\ (Bounded => Capacity > 0)

ASSUME FixedPoolAssumption ==
    /\ Bounded \in BOOLEAN /\ Capacity \in Nat
    /\ Spins \in BOOLEAN /\ SpawnMayFail \in BOOLEAN /\ AcceptMayPanic \in BOOLEAN
    /\ ValidConfig /\ Free \notin Threads

(***************************************************************************)
(* The threads are finitely many and each plays one part.  The pool starts *)
(* its workers itself, a submission and a construction are named by the    *)
(* thread that makes them, and a caller of wait_for_termination ends with  *)
(* what it was told; which of shutdown, stop and join a thread calls may   *)
(* be open.                                                                *)
(***************************************************************************)
ASSUME RolesAssumption ==
    /\ IsFiniteSet(Threads)
    /\ Workers \cap Callers = {} /\ Builder \notin Callers \cup Workers
    /\ Submitters \cap Controllers = {}
    /\ Waiters \cap (Shutdowners \cup Stoppers \cup Joiners) = {}

VARIABLES
    lifecycle, live,     \* protected by the state monitor
    lock, waiting,       \* the monitor's holder and its wait queue
    open, stopNow, idle, pending, idleWaiters,   \* lock-free
    queue,               \* global_queue, by job
    job,                 \* per job: the counter it stands under
    pc,                  \* per thread: what it does next
    work,                \* per thread: the jobs it has taken out of the queue
    seen,                \* per submitter: idle_workers as wake_one_idle_worker loaded it
    before               \* history: per joiner, the submissions under way when it called join

monitor == <<lifecycle, live>>
flags == <<open, stopNow, idleWaiters>>
wakes == <<idle, pending>>
jobs == <<queue, job, work>>
locals == <<seen, before>>
vars == <<monitor, lock, waiting, flags, wakes, jobs, pc, locals>>

Inside == {s \in Submitters : pc[s] \in {"reserve", "accepting", "rejectNotify", "push",
                                         "wake", "token", "wakeNotify", "leave"}}
Under(stages) == {j \in Submitters : job[j] \in stages}
Slots == Under({"reserved", "queued", "cancelling"})
Queued == Under({"queued"})

IsIdle == Inside = {} /\ Under({"reserved", "queued", "running", "cancelling"}) = {}

\* Seeded fault: accepted jobs are overlooked once the workers are gone.
TerminatedWithoutWorkers == lifecycle # "Running" /\ live = 0

\* is_terminated_locked
IsTerminated == lifecycle # "Running" /\ live = 0 /\ IsIdle

At(t, p) == pc[t] = p
Goto(t, p) == pc' = [pc EXCEPT ![t] = p]
CanLock == lock = Free
NotifyAll == waiting' = {}
Wait(t, p) == Goto(t, p) /\ waiting' = waiting \cup {t} /\ lock' = Free
Notified(t) == t \notin waiting /\ CanLock

Init == /\ lifecycle = "Running" /\ live = 0
        /\ lock = Free /\ waiting = {}
        /\ open = TRUE /\ stopNow = FALSE /\ idleWaiters = 0
        /\ idle = 0 /\ pending = 0
        /\ queue = <<>>
        /\ job = [j \in Submitters |-> "none"]
        /\ pc = [t \in Threads |-> CASE t \in Workers -> "new"
                                     [] t = Builder   -> "build"
                                     [] OTHER         -> "start"]
        /\ work = [t \in Threads |-> <<>>]
        /\ seen = [s \in Submitters |-> 0]
        /\ before = [t \in Joiners |-> {}]

-----------------------------------------------------------------------------
\* new_with_builder: the pool is shared with nobody but its workers yet.

ReserveWorkerSlot ==
    /\ At(Builder, "build") /\ CanLock
    /\ IF \E w \in Workers : pc[w] = "new"
       THEN live' = live + 1 /\ Goto(Builder, "spawn")
       ELSE Goto(Builder, "ready") /\ UNCHANGED live
    /\ UNCHANGED <<lifecycle, lock, waiting, flags, wakes, jobs, locals>>

SpawnWorker ==
    /\ At(Builder, "spawn")
    /\ \/ \E w \in Workers : /\ pc[w] = "new"
                             /\ pc' = [pc EXCEPT ![w] = "take", ![Builder] = "build"]
       \/ SpawnMayFail /\ Goto(Builder, "rollback")
    /\ UNCHANGED <<monitor, lock, waiting, flags, wakes, jobs, locals>>

RollbackWorkerSlot ==
    /\ At(Builder, "rollback") /\ CanLock
    /\ live' = live - 1
    /\ Goto(Builder, "failClose")
    /\ UNCHANGED <<lifecycle, lock, waiting, flags, wakes, jobs, locals>>

\* Seeded fault: workers that were started and already sleep are not told.
FailWithoutNotify ==
    \/ /\ At(Builder, "failClose")
       /\ open' = FALSE /\ Goto(Builder, "failFlag")
       /\ UNCHANGED <<monitor, lock, waiting, stopNow, idleWaiters, wakes, jobs, locals>>
    \/ /\ At(Builder, "failFlag")
       /\ stopNow' = TRUE /\ Goto(Builder, "failState")
       /\ UNCHANGED <<monitor, lock, waiting, open, idleWaiters, wakes, jobs, locals>>
    \/ /\ At(Builder, "failState") /\ CanLock
       /\ lifecycle' = "Stopping" /\ Goto(Builder, "joinWorkers")
       /\ UNCHANGED <<live, lock, waiting, flags, wakes, jobs, locals>>

\* stop_after_failed_build: the gate, the flag, then the lifecycle.
StopAfterFailedBuild ==
    \/ /\ At(Builder, "failClose")
       /\ open' = FALSE /\ Goto(Builder, "failFlag")
       /\ UNCHANGED <<monitor, lock, waiting, stopNow, idleWaiters, wakes, jobs, locals>>
    \/ /\ At(Builder, "failFlag")
       /\ stopNow' = TRUE /\ Goto(Builder, "failState")
       /\ UNCHANGED <<monitor, lock, waiting, open, idleWaiters, wakes, jobs, locals>>
    \/ /\ At(Builder, "failState") /\ CanLock
       /\ lifecycle' = "Stopping" /\ NotifyAll /\ Goto(Builder, "joinWorkers")
       /\ UNCHANGED <<live, lock, flags, wakes, jobs, locals>>

\* The threads of the workers that were started end.
JoinStartedWorkers ==
    /\ At(Builder, "joinWorkers") /\ \A w \in Workers : pc[w] \in {"new", "off"}
    /\ Goto(Builder, "failed")
    /\ UNCHANGED <<monitor, lock, waiting, flags, wakes, jobs, locals>>

BuilderStep == \/ ReserveWorkerSlot \/ SpawnWorker \/ RollbackWorkerSlot
               \/ StopAfterFailedBuild \/ JoinStartedWorkers

\* Callers have the pool only after its construction succeeded.
Calls(t) == At(t, "start") /\ At(Builder, "ready")

-----------------------------------------------------------------------------
\* submit

BeginSubmit(s) == /\ Calls(s)
                  /\ Goto(s, IF open THEN "reserve" ELSE "refused")
                  /\ UNCHANGED <<monitor, lock, waiting, flags, wakes, jobs, locals>>

HasRoom == Bounded => Cardinality(Slots) < Capacity

ReserveQueueSlot(s) ==
    /\ At(s, "reserve")
    /\ \/ ~HasRoom /\ Goto(s, "leave") /\ UNCHANGED job
       \/ HasRoom /\ Goto(s, "accepting") /\ job' = [job EXCEPT ![s] = "reserved"]
    /\ UNCHANGED <<monitor, lock, waiting, flags, wakes, queue, work, locals>>

\* The acceptance callback panicked: release the slot, then tell the waiters.
AcceptPanics(s) == /\ At(s, "accepting") /\ AcceptMayPanic
                   /\ job' = [job EXCEPT ![s] = "none"]
                   /\ Goto(s, "rejectNotify")
                   /\ UNCHANGED <<monitor, lock, waiting, flags, wakes, queue, work, locals>>

\* Seeded fault: the job can be stolen before it is counted as queued.
PushBeforePublish(s) ==
    \/ /\ At(s, "accepting")
       /\ queue' = Append(queue, s)
       /\ Goto(s, "push")
       /\ UNCHANGED <<monitor, lock, waiting, flags, wakes, job, work, locals>>
    \/ /\ At(s, "push")
       /\ job' = [job EXCEPT ![s] = "queued"]
       /\ Goto(s, "wake")
       /\ UNCHANGED <<monitor, lock, waiting, flags, wakes, queue, work, locals>>

\* enqueue_job: the accounting is published before the injector holds the job.
EnqueueJob(s) ==
    \/ /\ At(s, "accepting")
       /\ job' = [job EXCEPT ![s] = "queued"]
       /\ Goto(s, "push")
       /\ UNCHANGED <<monitor, lock, waiting, flags, wakes, queue, work, locals>>
    \/ /\ At(s, "push")
       /\ queue' = Append(queue, s)
       /\ Goto(s, "wake")
       /\ UNCHANGED <<monitor, lock, waiting, flags, wakes, job, work, locals>>

LoadIdle(s) == /\ At(s, "wake")
               /\ seen' = [seen EXCEPT ![s] = idle]
               /\ Goto(s, IF idle = 0 THEN "leave" ELSE "token")
               /\ UNCHANGED <<monitor, lock, waiting, flags, wakes, jobs, before>>

RequestWake(s) == /\ At(s, "token")
                  /\ \/ pending < seen[s] /\ pending' = pending + 1 /\ Goto(s, "wakeNotify")
                     \/ pending >= seen[s] /\ UNCHANGED pending /\ Goto(s, "leave")
                  /\ seen' = [seen EXCEPT ![s] = 0]
                  /\ UNCHANGED <<monitor, lock, waiting, flags, idle, jobs, before>>

\* The submit guard is dropped.
Leave(s) == /\ At(s, "leave")
            /\ Goto(s, IF Inside = {s} THEN "departOpen" ELSE "done")
            /\ UNCHANGED <<monitor, lock, waiting, flags, wakes, jobs, locals>>

\* Seeded fault: a departure notifies only the callers of join.
DepartIfJoined(s) == /\ \/ At(s, "departOpen") /\ Goto(s, "departWaiters")
                        \/ At(s, "departWaiters") /\ Goto(s, IF idleWaiters > 0 THEN "departNotify" ELSE "done")
                     /\ UNCHANGED <<monitor, lock, waiting, flags, wakes, jobs, locals>>

\* notify_submitter_departure: two separate reads.
Depart(s) == /\ \/ At(s, "departOpen") /\ Goto(s, IF open THEN "departWaiters" ELSE "departNotify")
                \/ At(s, "departWaiters") /\ Goto(s, IF idleWaiters > 0 THEN "departNotify" ELSE "done")
             /\ UNCHANGED <<monitor, lock, waiting, flags, wakes, jobs, locals>>

\* state.lock().notify_all() at the end of an operation.
NotifyUnderLock(t) ==
    /\ CanLock /\ NotifyAll
    /\ \/ pc[t] \in {"wakeNotify", "rejectNotify"} /\ Goto(t, "leave")
       \/ pc[t] \in {"departNotify", "stopNotify"} /\ Goto(t, "done")
       \/ At(t, "settleNotify") /\ Goto(t, "take")
       \/ At(t, "cancelNotify") /\ Goto(t, IF t \in Workers THEN "check"
                                          ELSE IF work[t] = <<>> THEN "stopNotify" ELSE "cancel")
    /\ UNCHANGED <<monitor, lock, flags, wakes, jobs, locals>>

SubmitterStep(s) == \/ BeginSubmit(s) \/ ReserveQueueSlot(s) \/ AcceptPanics(s) \/ EnqueueJob(s)
                    \/ LoadIdle(s) \/ RequestWake(s) \/ Leave(s) \/ Depart(s) \/ NotifyUnderLock(s)

-----------------------------------------------------------------------------
\* FixedWorker

Reads(w, p, next) == /\ At(w, p)
                     /\ Goto(w, next)
                     /\ UNCHANGED <<monitor, lock, waiting, flags, wakes, jobs, locals>>

\* try_take_job: the stop flag ...
TryTakeJob(w) == Reads(w, "take", IF stopNow THEN "check" ELSE "steal")

\* ... one job of the injector ...
StealOne(w) == \/ queue = <<>> /\ Reads(w, "steal", "check")
               \/ /\ At(w, "steal") /\ queue # <<>>
                  /\ queue' = Tail(queue)
                  /\ work' = [work EXCEPT ![w] = <<Head(queue)>>]
                  /\ Goto(w, "accept")
                  /\ UNCHANGED <<monitor, lock, waiting, flags, wakes, job, locals>>

\* Seeded fault: a job stolen while stop began is dropped.
DropClaimedJob(w) == \/ ~stopNow /\ Reads(w, "accept", "mark")
                     \/ /\ At(w, "accept") /\ stopNow
                        /\ work' = [work EXCEPT ![w] = <<>>]
                        /\ Goto(w, "check")
                        /\ UNCHANGED <<monitor, lock, waiting, flags, wakes, queue, job, locals>>

\* ... and the stop flag again: accept_claimed_job runs it or cancels it.
AcceptClaimedJob(w) == Reads(w, "accept", IF stopNow THEN "cancelClaimed" ELSE "mark")

MarkRunning(w) == /\ At(w, "mark")
                  /\ job' = [job EXCEPT ![Head(work[w])] = "running"]
                  /\ Goto(w, "run")
                  /\ UNCHANGED <<monitor, lock, waiting, flags, wakes, queue, work, locals>>

BeginCancelClaimed(w) == /\ At(w, "cancelClaimed")
                         /\ job' = [job EXCEPT ![Head(work[w])] = "cancelling"]
                         /\ Goto(w, "cancel")
                         /\ UNCHANGED <<monitor, lock, waiting, flags, wakes, queue, work, locals>>

\* The run callback (its panics are contained), then the counters of finish_running_job.
Run(w) == /\ At(w, "run")
          /\ job' = [job EXCEPT ![Head(work[w])] = "completed"]
          /\ work' = [work EXCEPT ![w] = <<>>]
          /\ Goto(w, "settle")
          /\ UNCHANGED <<monitor, lock, waiting, flags, wakes, queue, locals>>

Settle(w) == Reads(w, "settle", IF IsIdle THEN "settleNotify" ELSE "take")

\* job.cancel(), then finish_cancelled_job, which always notifies.
CancelCallback(t) == /\ At(t, "cancel")
                     /\ job' = [job EXCEPT ![Head(work[t])] = "cancelled"]
                     /\ work' = [work EXCEPT ![t] = Tail(@)]
                     /\ Goto(t, "cancelNotify")
                     /\ UNCHANGED <<monitor, lock, waiting, flags, wakes, queue, locals>>

(***************************************************************************)
(* wait_for_fixed_pool_work: the monitor is taken on entry ("check") and   *)
(* still held when the loop goes round ("loop").                           *)
(***************************************************************************)
Loop(w) ==
    /\ (At(w, "check") /\ CanLock) \/ At(w, "loop")
    /\ \/ /\ lifecycle \in {"Running", "ShuttingDown"} /\ Queued # {}
          /\ Goto(w, "take") /\ lock' = Free
       \/ /\ lifecycle = "Running" /\ Queued = {}
          /\ Goto(w, IF Spins THEN "spinQueued" ELSE "relock") /\ lock' = Free
       \/ /\ lifecycle = "ShuttingDown" /\ Queued = {}
          /\ Goto(w, "sdInflight") /\ lock' = w
       \/ /\ lifecycle = "Stopping"
          /\ Goto(w, "exit") /\ lock' = Free
    /\ UNCHANGED <<monitor, waiting, flags, wakes, jobs, locals>>

\* spin_for_fixed_pool_work: the probes may run out after any round.
SpinQueued(w) == Reads(w, "spinQueued", IF Queued # {} THEN "take" ELSE "spinPending")
SpinPending(w) == Reads(w, "spinPending", IF pending > 0 THEN "take" ELSE "spinOpen")
SpinOpen(w) == Reads(w, "spinOpen", "relock") \/ (open /\ Reads(w, "spinOpen", "spinQueued"))

\* Seeded fault: a worker about to park is not counted as idle.
ForgetMark(w, next) == /\ lock' = w
                       /\ Goto(w, next)
                       /\ UNCHANGED <<monitor, waiting, flags, wakes, jobs, locals>>

MarkIdle(w, next) == /\ lock' = w
                     /\ idle' = idle + 1
                     /\ Goto(w, next)
                     /\ UNCHANGED <<monitor, waiting, flags, pending, jobs, locals>>

Relock(w) == /\ At(w, "relock") /\ CanLock
             /\ \/ lifecycle = "Running" /\ MarkIdle(w, "idleQueued")
                \/ /\ lifecycle # "Running"
                   /\ lock' = w
                   /\ Goto(w, "loop")
                   /\ UNCHANGED <<monitor, waiting, flags, wakes, jobs, locals>>

Parks(w) == Wait(w, "parked") /\ UNCHANGED <<monitor, flags, wakes, jobs, locals>>

\* Seeded fault: the queue is not examined again after the worker is marked idle.
SkipQueueCheck(w) == Reads(w, "idleQueued", "idlePending")

IdleQueued(w) == Reads(w, "idleQueued", IF Queued = {} THEN "idlePending" ELSE "unmark")

IdlePending(w) == \/ pending > 0 /\ Reads(w, "idlePending", "unmark")
                  \/ pending = 0 /\ At(w, "idlePending") /\ Parks(w)

Awaken(w) == /\ At(w, "parked") /\ Notified(w)
             /\ lock' = w
             /\ Goto(w, "unmarkLoop")
             /\ UNCHANGED <<monitor, waiting, flags, wakes, jobs, locals>>

\* unmark_fixed_worker_idle: the idle count ...
Unmark(w) == /\ pc[w] \in {"unmark", "unmarkLoop"}
             /\ idle' = idle - 1
             /\ Goto(w, IF At(w, "unmark") THEN "consume" ELSE "consumeLoop")
             /\ UNCHANGED <<monitor, lock, waiting, flags, pending, jobs, locals>>

\* ... then one pending token; the worker returns, or goes round with the monitor.
Consume(w) == /\ pending' = IF pending > 0 THEN pending - 1 ELSE 0
              /\ \/ At(w, "consume") /\ Goto(w, "take") /\ lock' = Free
                 \/ At(w, "consumeLoop") /\ Goto(w, "loop") /\ UNCHANGED lock
              /\ UNCHANGED <<monitor, waiting, flags, idle, jobs, locals>>

\* ShuttingDown with an empty queue: exit, unless a submitter is still inside.
SdInflight(w) == \/ /\ At(w, "sdInflight") /\ Inside = {}
                    /\ Goto(w, "exit") /\ lock' = Free
                    /\ UNCHANGED <<monitor, waiting, flags, wakes, jobs, locals>>
                 \/ Inside # {} /\ Reads(w, "sdInflight", "sdMark")

SdMark(w) == At(w, "sdMark") /\ MarkIdle(w, "sdQueued")

SdQueued(w) == Reads(w, "sdQueued", IF Queued = {} THEN "sdPark" ELSE "unmarkLoop")

SdPark(w) == \/ Inside = {} /\ Reads(w, "sdPark", "unmarkLoop")
             \/ Inside # {} /\ At(w, "sdPark") /\ Parks(w)

\* run_after_worker_stop, then worker_exited.
WorkerExited(w) == /\ At(w, "exit") /\ CanLock
                   /\ live' = live - 1
                   /\ NotifyAll
                   /\ Goto(w, "off")
                   /\ UNCHANGED <<lifecycle, lock, flags, wakes, jobs, locals>>

WorkerStep(w) == \/ TryTakeJob(w) \/ StealOne(w) \/ AcceptClaimedJob(w) \/ MarkRunning(w)
                 \/ BeginCancelClaimed(w) \/ CancelCallback(w) \/ Run(w) \/ Settle(w) \/ NotifyUnderLock(w)
                 \/ Loop(w) \/ SpinQueued(w) \/ SpinPending(w) \/ SpinOpen(w) \/ Relock(w)
                 \/ IdleQueued(w) \/ IdlePending(w) \/ Awaken(w) \/ Unmark(w) \/ Consume(w)
                 \/ SdInflight(w) \/ SdMark(w) \/ SdQueued(w) \/ SdPark(w) \/ WorkerExited(w)

-----------------------------------------------------------------------------
\* shutdown and stop

\* Seeded fault: the gate stays open.
KeepAdmission(t, next) == /\ Calls(t)
                          /\ Goto(t, next)
                          /\ UNCHANGED <<monitor, lock, waiting, flags, wakes, jobs, locals>>

CloseAdmission(t, next) == /\ Calls(t)
                           /\ open' = FALSE
                           /\ Goto(t, next)
                           /\ UNCHANGED <<monitor, lock, waiting, stopNow, idleWaiters, wakes, jobs, locals>>

BeginShutdown(t) ==
    /\ At(t, "shutdown") /\ CanLock
    /\ lifecycle' = IF lifecycle = "Running" THEN "ShuttingDown" ELSE lifecycle
    /\ NotifyAll
    /\ Goto(t, "done")
    /\ UNCHANGED <<live, lock, flags, wakes, jobs, locals>>

ShutdownStep(t) == CloseAdmission(t, "shutdown") \/ BeginShutdown(t)

SetStopNow(t) == /\ At(t, "stopNow")
                 /\ stopNow' = TRUE
                 /\ Goto(t, "stop")
                 /\ UNCHANGED <<monitor, lock, waiting, open, idleWaiters, wakes, jobs, locals>>

BeginStop(t) == /\ At(t, "stop") /\ CanLock
                /\ lock' = t
                /\ lifecycle' = IF lifecycle \in {"Running", "ShuttingDown"} THEN "Stopping" ELSE lifecycle
                /\ Goto(t, "stopInflight")
                /\ UNCHANGED <<live, waiting, flags, wakes, jobs, locals>>

\* Seeded fault: the queue is drained without waiting for the submitters inside.
DrainAtOnce(t) == /\ At(t, "stopInflight")
                  /\ Goto(t, "drain")
                  /\ UNCHANGED <<monitor, lock, waiting, flags, wakes, jobs, locals>>

\* Submitters that were admitted push or give up before the queue is drained.
AwaitSubmitters(t) ==
    /\ At(t, "stopInflight")
    /\ \/ Inside = {} /\ Goto(t, "drain") /\ UNCHANGED <<lock, waiting>>
       \/ Inside # {} /\ Wait(t, "stopWait")
    /\ UNCHANGED <<monitor, flags, wakes, jobs, locals>>

ResumeStop(t) == /\ At(t, "stopWait") /\ Notified(t)
                 /\ lock' = t
                 /\ Goto(t, "stopInflight")
                 /\ UNCHANGED <<monitor, waiting, flags, wakes, jobs, locals>>

\* drain_visible_queued_jobs steals one job at a time, beside the workers that
\* had passed the stop flag; then the drained jobs are counted as cancelling.
Drain(t) ==
    /\ At(t, "drain")
    /\ \/ /\ queue # <<>>
          /\ queue' = Tail(queue)
          /\ work' = [work EXCEPT ![t] = Append(@, Head(queue))]
          /\ UNCHANGED <<job, pc, lock, waiting>>
       \/ /\ queue = <<>>
          /\ job' = [j \in Submitters |-> IF j \in ToSet(work[t]) THEN "cancelling" ELSE job[j]]
          /\ Goto(t, IF work[t] = <<>> THEN "stopNotify" ELSE "cancel")
          /\ lock' = Free /\ NotifyAll
          /\ UNCHANGED <<queue, work>>
    /\ UNCHANGED <<monitor, flags, wakes, locals>>

StopStep(t) == \/ CloseAdmission(t, "stopNow") \/ SetStopNow(t) \/ BeginStop(t)
               \/ AwaitSubmitters(t) \/ ResumeStop(t) \/ Drain(t)
               \/ CancelCallback(t) \/ NotifyUnderLock(t)

-----------------------------------------------------------------------------
\* join and wait_for_termination

BeginJoin(t) == /\ Calls(t)
                /\ idleWaiters' = idleWaiters + 1
                /\ before' = [before EXCEPT ![t] = Inside \cup Under({"queued", "running", "cancelling"})]
                /\ Goto(t, "join")
                /\ UNCHANGED <<monitor, lock, waiting, open, stopNow, wakes, jobs, seen>>

\* Seeded fault: a single wait, whatever woke it.
JoinOnce(t) == /\ At(t, "join") /\ Notified(t)
               /\ idleWaiters' = idleWaiters - 1
               /\ Goto(t, "done")
               /\ UNCHANGED <<monitor, lock, waiting, open, stopNow, wakes, jobs, locals>>

Join(t) ==
    /\ At(t, "join") /\ Notified(t)
    /\ \/ IsIdle /\ idleWaiters' = idleWaiters - 1 /\ Goto(t, "done") /\ UNCHANGED <<lock, waiting>>
       \/ ~IsIdle /\ Wait(t, "join") /\ UNCHANGED idleWaiters
    /\ UNCHANGED <<monitor, open, stopNow, wakes, jobs, locals>>

AwaitTermination(t) ==
    /\ Calls(t) /\ Notified(t)
    /\ \/ IsTerminated /\ Goto(t, "done") /\ UNCHANGED <<lock, waiting>>
       \/ ~IsTerminated /\ Wait(t, "start")
    /\ UNCHANGED <<monitor, flags, wakes, jobs, locals>>

\* wait_for_termination_timeout: the time is over, and the state is polled once more
\* under the monitor.  A caller that was told false may call again.
TimeoutElapses(t) ==
    /\ At(t, "start") /\ t \in waiting /\ CanLock
    /\ waiting' = waiting \ {t}
    /\ Goto(t, IF IsTerminated THEN "done" ELSE "start")
    /\ UNCHANGED <<monitor, lock, flags, wakes, jobs, locals>>

-----------------------------------------------------------------------------

ThreadStep(t) == \/ t = Builder /\ BuilderStep
                 \/ t \in Submitters /\ SubmitterStep(t)
                 \/ t \in Workers /\ WorkerStep(t)
                 \/ t \in Shutdowners /\ ShutdownStep(t)
                 \/ t \in Stoppers /\ StopStep(t)
                 \/ t \in Joiners /\ (BeginJoin(t) \/ Join(t))
                 \/ t \in Waiters /\ AwaitTermination(t)

Next == \/ \E t \in Threads : ThreadStep(t)
        \/ \E t \in Waiters : TimeoutElapses(t)

(***************************************************************************)
(* As for the dynamic pool: threads inside a call keep running, and a      *)
(* thread that finds the monitor free again and again gets it in the end.  *)
(* No call has to begin and no timeout has to elapse.                      *)
(***************************************************************************)
Fairness == \A t \in Threads : SF_vars(pc[t] # "start" /\ ThreadStep(t))

Spec == Init /\ [][Next]_vars
FairSpec == Spec /\ Fairness

-----------------------------------------------------------------------------

JobStages == {"none", "reserved", "queued", "running", "completed", "cancelling", "cancelled"}

DataOK == /\ lifecycle \in {"Running", "ShuttingDown", "Stopping"}
          /\ lock \in Threads \cup {Free} /\ waiting \subseteq Threads
          /\ open \in BOOLEAN /\ stopNow \in BOOLEAN /\ pending \in Nat
          /\ queue \in Seq(Submitters)
          /\ job \in [Submitters -> JobStages]
          /\ work \in [Threads -> Seq(Submitters)]
          /\ seen \in [Submitters -> Nat]
          /\ before \in [Joiners -> SUBSET Submitters]

\* Where a thread of each role can be.
BuilderPcs == {"build", "spawn", "rollback", "failClose", "failFlag", "failState", "joinWorkers",
               "failed", "ready"}
SubmitterPcs == {"start", "refused", "reserve", "accepting", "rejectNotify", "push", "wake", "token",
                 "wakeNotify", "leave", "departOpen", "departWaiters", "departNotify", "done"}
WorkerPcs == {"new", "take", "steal", "accept", "mark", "cancelClaimed", "cancel", "cancelNotify",
              "run", "settle", "settleNotify", "check", "loop", "spinQueued", "spinPending", "spinOpen",
              "relock", "idleQueued", "idlePending", "parked", "unmark", "unmarkLoop", "consume",
              "consumeLoop", "sdInflight", "sdMark", "sdQueued", "sdPark", "exit", "off"}
ControllerPcs == {"start", "shutdown", "stopNow", "stop", "stopInflight", "stopWait", "drain",
                  "cancel", "cancelNotify", "stopNotify", "join", "done"}
PcOK == /\ pc \in [Threads -> BuilderPcs \cup SubmitterPcs \cup WorkerPcs \cup ControllerPcs]
        /\ pc[Builder] \in BuilderPcs
        /\ \A s \in Submitters : pc[s] \in SubmitterPcs
        /\ \A w \in Workers : pc[w] \in WorkerPcs
        /\ \A t \in Controllers : pc[t] \in ControllerPcs
        /\ \A t \in Waiters : pc[t] \in {"start", "done"}

\* What live_workers, the idle count and the waiter count stand for.
Active == {w \in Workers : pc[w] \notin {"new", "off"}}
MarkedIdle == {w \in Workers : pc[w] \in {"idleQueued", "idlePending", "parked", "unmark", "unmarkLoop",
                                           "sdQueued", "sdPark"}}
Joining == {t \in Joiners : pc[t] = "join"}
CountersExact ==
    /\ live = Cardinality(Active) + (IF pc[Builder] \in {"spawn", "rollback"} THEN 1 ELSE 0)
    /\ idle = Cardinality(MarkedIdle)
    /\ idleWaiters = Cardinality(Joining)

(***************************************************************************)
(* Types.  live_workers, the idle count and the waiter count are exact at  *)
(* every step, so no checked_sub in the pool can fail: a worker is live    *)
(* from the reservation of its slot to its exit, and idle from mark to     *)
(* unmark, however shutdown, stop and a failed construction interleave.    *)
(***************************************************************************)
TypeOK == DataOK /\ PcOK /\ CountersExact /\ live \in Nat /\ idle \in Nat /\ idleWaiters \in Nat

AllAsleep == \A t \in Threads : t \in waiting \/ pc[t] \in {"new", "start", "off", "done", "refused",
                                                            "ready", "failed", "joinWorkers"}

(***************************************************************************)
(* No lost wakeup: when every thread sleeps, no sleeper's reason to wake   *)
(* holds.  In particular no worker sleeps through a failed construction,   *)
(* whose constructor waits for it.                                         *)
(***************************************************************************)
NoLostWakeup ==
    AllAsleep => \A t \in waiting : /\ At(t, "parked") => Queued = {} /\ lifecycle = "Running"
                                    /\ At(t, "join") => ~IsIdle
                                    /\ At(t, "stopWait") => Inside # {}
                                    /\ At(t, "start") => ~IsTerminated

(***************************************************************************)
(* A queued job never waits for somebody else's acceptance callback: while *)
(* the pool runs and every worker sleeps beside it, a submitter that has   *)
(* published has yet to decide on a wake-up, or to deliver one.            *)
(***************************************************************************)
QueuedJobHasWaker ==
    lifecycle = "Running" /\ Queued # {} /\ live > 0 /\ (\A w \in Workers : w \in waiting)
    => \E s \in Submitters : pc[s] \in {"push", "wake", "token", "wakeNotify"}

(***************************************************************************)
(* Work is never stranded: before stop, a queued job implies a worker that *)
(* has not left its loop.                                                  *)
(***************************************************************************)
NoStrandedWork ==
    lifecycle # "Stopping" /\ Queued # {} => \E w \in Workers : pc[w] \notin {"off", "exit"}

Holders(j) == {t \in Threads : j \in ToSet(work[t])}

(***************************************************************************)
(* A job between two hands belongs to exactly one: its publisher, the      *)
(* injector, or the thread that stole it, though counting and moving it    *)
(* are separate steps.  A running job is a worker's.                       *)
(***************************************************************************)
SoleOwner ==
    \A j \in Submitters :
       /\ Cardinality(Holders(j)) + Cardinality({i \in DOMAIN queue : queue[i] = j})
             + (IF pc[j] = "push" THEN 1 ELSE 0)
          = IF job[j] \in {"queued", "running", "cancelling"} THEN 1 ELSE 0
       /\ job[j] = "running" => Holders(j) \subseteq Workers

\* Nothing of the pool is left: no worker, no submitter inside, no unfinished job.
PoolIsOver == /\ lifecycle # "Running" /\ ~open
              /\ \A w \in Workers : pc[w] \in {"new", "off"}
              /\ Inside = {} /\ \A j \in Submitters : job[j] \in {"none", "completed", "cancelled"}

(***************************************************************************)
(* Termination is true: whoever learns of it, by polling or by waiting,    *)
(* learns that no worker is in its loop or its exit hook and no accepted   *)
(* job is unfinished, although is_idle is read without the monitor.  A     *)
(* construction that failed has terminated its pool in the same sense: the *)
(* workers it had started are gone and live workers are accounted for.     *)
(***************************************************************************)
TerminationTrue ==
    /\ IsTerminated \/ (\E t \in Waiters : pc[t] = "done") => PoolIsOver
    /\ pc[Builder] = "failed" => IsTerminated

\* When join returns, every submission under way when it was called is over.
JoinSound == \A t \in Joiners :
                pc[t] = "done" => \A j \in before[t] : /\ j \notin Inside
                                                       /\ job[j] \in {"none", "completed", "cancelled"}

(***************************************************************************)
(* When stop returns, the queue stays empty and no worker gets a job any   *)
(* more: each may still run the one it stole before it could see the flag. *)
(***************************************************************************)
StopFinal ==
    [][(\E t \in Stoppers : pc[t] = "done")
          => queue' = <<>> /\ \A w \in Workers : ToSet(work'[w]) \subseteq ToSet(work[w])]_vars

(***************************************************************************)
(* The pool implements the executor service, though its workers steal jobs *)
(* before they account for them and stop drains beside them.               *)
(***************************************************************************)
Stage(j) == IF j \in Inside /\ job[j] \in {"none", "reserved"} THEN "submitting"
            ELSE IF job[j] = "queued" THEN "accepted"
            ELSE IF job[j] = "cancelling" THEN "withdrawn"
            ELSE job[j]

Service == INSTANCE ExecutorService
              WITH Jobs <- Submitters,
                   phase <- IF IsTerminated THEN "Terminated" ELSE lifecycle,
                   stage <- [j \in Submitters |-> Stage(j)]

ImplementsService == Service!Spec

-----------------------------------------------------------------------------

\* Every call of stop returns and the pool terminates.
StopTerminates == \A t \in Stoppers : pc[t] = "stopNow" ~> pc[t] = "done" /\ IsTerminated

\* Every accepted job completes or is cancelled.
AcceptedJobsFinish ==
    \A j \in Submitters : job[j] = "queued" ~> job[j] \in {"completed", "cancelled"}
=============================================================================
