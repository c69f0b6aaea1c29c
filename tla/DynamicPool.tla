----------------------------- MODULE DynamicPool -----------------------------
(***************************************************************************)
(* The dynamic thread pool: ThreadPoolInner and ThreadPoolWorker of        *)
(* src/dynamic, with the tickets of src/pool_job_ticket.rs.                *)
(*                                                                         *)
(* A step is one critical section of the state monitor or of the queue     *)
(* mutex, or, where a critical section also reads or writes the lock-free  *)
(* counters, one such access.  The task counters appear as the sets of     *)
(* jobs they count and is_idle as one evaluation: module PoolAccounting    *)
(* justifies both.  The condition variable has no spurious wakeups, which  *)
(* could only hide a lost one.                                             *)
(***************************************************************************)
EXTENDS Integers, Sequences, FiniteSets, SequencesExt

CONSTANTS Submitters,     \* threads that each submit one job; they also name the jobs
          Tickets,        \* the jobs prepared with a cancellation ticket
          Retriers,       \* the submitters that retry when the capacity channel changes
          Builders,       \* the thread that builds the pool, if construction is modelled
          Workers,        \* bound: worker threads alive at once
          Cancellers,     \* threads that call cancel_queued on some ticket
          Shutdowners,    \* threads that call shutdown
          Stoppers,       \* threads that call stop
          Joiners,        \* threads that call join (wait_until_idle)
          Waiters,        \* threads that call wait_for_termination
          Tuners,         \* threads that each make one configuration call
          CoreSize, MaximumSize, CoreTimeout,   \* the initial configuration
          Sizes,          \* the pool sizes a tuner may ask for
          Bounded, Capacity,                    \* queue_capacity
          SpawnMayFail,   \* whether the operating system may refuse a thread
          AcceptMayPanic, \* whether acceptance callbacks may panic
          Free            \* no thread

Controllers == Shutdowners \cup Stoppers \cup Joiners \cup Waiters \cup Tuners
Threads == Submitters \cup Workers \cup Cancellers \cup Controllers \cup Builders

\* ThreadPoolBuilder::validate, and the tests of the configuration calls.
ValidSizes(c, n) == n > 0 /\ c <= n
ValidConfig == ValidSizes(CoreSize, MaximumSize) /\ (Bounded => Capacity > 0)

ASSUME PoolAssumption ==
    /\ Tickets \subseteq Submitters /\ Retriers \subseteq Submitters
    /\ CoreSize \in Nat /\ MaximumSize \in Nat
    /\ CoreTimeout \in BOOLEAN /\ SpawnMayFail \in BOOLEAN /\ AcceptMayPanic \in BOOLEAN
    /\ Sizes \subseteq Nat
    /\ Bounded \in BOOLEAN /\ Capacity \in Nat
    /\ ValidConfig
    /\ Free \notin Threads

(***************************************************************************)
(* The threads are finitely many and each plays one part.  The pool starts *)
(* its workers itself, a submission and a ticket's call are named by the   *)
(* thread that makes them, one thread at most builds the pool, and callers *)
(* of wait_for_termination and of the configuration end with what they     *)
(* were told; which of shutdown, stop and join a thread calls may be open. *)
(***************************************************************************)
ASSUME RolesAssumption ==
    /\ IsFiniteSet(Threads)
    /\ Submitters \cap (Workers \cup Cancellers \cup Controllers \cup Builders) = {}
    /\ Workers \cap (Cancellers \cup Controllers \cup Builders) = {}
    /\ Cancellers \cap (Controllers \cup Builders) = {}
    /\ Controllers \cap Builders = {} /\ \A a, b \in Builders : a = b
    /\ (Waiters \cup Tuners) \cap (Shutdowners \cup Stoppers \cup Joiners) = {}
    /\ Waiters \cap Tuners = {}

VARIABLES
    \* protected by the state monitor
    lifecycle, live, exiting, core, maximum, coreTimeout,
    lock,          \* the holder of the state monitor
    waiting,       \* the threads in its wait queue
    \* lock-free
    open,          \* the admission gate
    stopNow, idle, pending, idleWaiters,
    \* protected by the queue mutex
    queue,         \* global_queue, by job
    qlock,         \* the worker inside try_take_queued_job
    \* jobs and threads
    job,           \* per job: the counter it stands under
    entry,         \* per job: QueuedJobState
    pc,            \* per thread: what it does next
    work,          \* per thread: the jobs whose callbacks it owns
    seen,          \* per submitter: idle_workers as wake_one_idle_worker loaded it
    timed,         \* per worker: its wait has the keep-alive timeout
    target,        \* per canceller: the job of its ticket
    before,        \* history: per joiner, the submissions under way when it called join
                   \* (a retry of one that was told Saturated is another submission)
    report,        \* per stopper: the cancelled count of its StopReport
    terminationTx, \* the value of the termination watch channel
    unseen         \* the retriers whose receiver has a capacity change they have not seen

config == <<core, maximum, coreTimeout>>
monitor == <<lifecycle, live, exiting, config>>
flags == <<open, stopNow, idleWaiters>>
wakes == <<idle, pending>>
jobs == <<queue, job, entry>>
own == <<seen, timed, target, before, report>>
locals == <<own, unseen>>
vars == <<monitor, lock, waiting, flags, wakes, jobs, qlock, pc, work, locals, terminationTx>>

-----------------------------------------------------------------------------
\* What the counters stand for.

Inside == {s \in Submitters : pc[s] \in {"reserve", "accept", "accepting", "released", "rejectEntry", "rejectNotify",
                                         "cancel", "settle", "settleNotify", "cancelEntry",
                                         "wake", "token", "wakeNotify", "leave"}}
Under(stages) == {j \in Submitters : job[j] \in stages}
Slots == Under({"reserved", "queued", "cancelling"})
Queued == Under({"queued"})

IsIdle == Inside = {} /\ Under({"reserved", "queued", "running", "cancelling"}) = {}

\* Seeded fault: workers still in their exit hooks are overlooked.
TerminatedIgnoringExit(lc, lv, ex) == lc # "Running" /\ lv = 0 /\ IsIdle

\* Seeded fault: jobs that are being cancelled do not hold termination back.
TerminatedWhileCancelling(lc, lv, ex) ==
    lc # "Running" /\ lv = 0 /\ ex = 0 /\ Inside = {} /\ Under({"reserved", "queued", "running"}) = {}

\* is_terminated_locked, of a monitor state that may just have been changed.
Terminated(lc, lv, ex) == lc # "Running" /\ lv = 0 /\ ex = 0 /\ IsIdle
IsTerminated == Terminated(lifecycle, live, exiting)

-----------------------------------------------------------------------------
\* Threads, the monitor and its wait queue.

At(t, p) == pc[t] = p
Goto(t, p) == pc' = [pc EXCEPT ![t] = p]

CanLock == lock = Free
NotifyAll == waiting' = {}
\* Seeded fault: a change is told only to the retriers that already wait for one.
NotifySleepers == unseen' = unseen \cup {s \in Retriers : At(s, "awaitCapacity")}

\* notify_capacity_changed reaches the retriers that tried or are about to: a new
\* generation their receivers have not seen.  A receiver that is done is dropped.
NotifyCapacity == unseen' = {s \in Retriers : At(s, "reserve") \/ job[s] = "saturated"}

PublishTermination(lc, lv, ex) == terminationTx' = (terminationTx \/ Terminated(lc, lv, ex))

\* state.wait(): release the monitor and join the wait queue.
Wait(t, p) == /\ Goto(t, p)
              /\ waiting' = waiting \cup {t}
              /\ lock' = Free

\* A notified thread competes for the monitor again.
Notified(t) == t \notin waiting /\ CanLock

Init == /\ lifecycle = "Running" /\ live = 0 /\ exiting = 0
        /\ core = CoreSize /\ maximum = MaximumSize /\ coreTimeout = CoreTimeout
        /\ lock = Free /\ waiting = {}
        /\ open = TRUE /\ stopNow = FALSE /\ idleWaiters = 0
        /\ idle = 0 /\ pending = 0
        /\ queue = <<>> /\ qlock = Free
        /\ job = [j \in Submitters |-> "none"]
        /\ entry = [j \in Submitters |-> "prepared"]
        /\ \E built \in {"prestart", "ready"} :
              pc = [t \in Threads |-> CASE t \in Workers  -> "off"
                                        [] t \in Builders -> built
                                        [] OTHER          -> "start"]
        /\ work = [t \in Threads |-> <<>>]
        /\ seen = [s \in Submitters |-> 0]
        /\ timed = [w \in Workers |-> FALSE]
        /\ target = [c \in Cancellers |-> Free]
        /\ before = [t \in Joiners |-> {}]
        /\ report = [t \in Stoppers \cup Builders |-> 0]
        /\ terminationTx = FALSE /\ unseen = {}

\* Callers have the pool only after its construction succeeded.
Calls(t) == At(t, "start") /\ \A b \in Builders : At(b, "ready")

(***************************************************************************)
(* Critical sections that only notify: wake_one_idle_worker, the end of    *)
(* stop and set_*_pool_size (no publication), and                          *)
(* notify_waiters_after_atomic_change, which also publishes termination.   *)
(***************************************************************************)
AfterSettle(t) == IF t \in Submitters THEN "cancelEntry"
                  ELSE IF t \in Workers THEN "take"
                  ELSE IF t \in Cancellers THEN "true"
                  ELSE IF work[t] = <<>> THEN "stopNotify" ELSE "cancel"

\* A submission that was told Saturated is retried by a retrier, and given up by others.
AfterSubmit(s) == IF job[s] = "saturated" THEN "awaitCapacity" ELSE "done"

NotifyUnderLock(t) ==
    /\ CanLock
    /\ \/ At(t, "wakeNotify") /\ Goto(t, "leave") /\ UNCHANGED terminationTx
       \/ At(t, "stopNotify") /\ Goto(t, IF t \in Builders THEN "awaitEnd" ELSE "done") /\ UNCHANGED terminationTx
       \/ At(t, "rejectNotify") /\ Goto(t, "leave") /\ PublishTermination(lifecycle, live, exiting)
       \/ At(t, "departNotify") /\ Goto(t, AfterSubmit(t)) /\ PublishTermination(lifecycle, live, exiting)
       \/ At(t, "settleNotify") /\ Goto(t, AfterSettle(t)) /\ PublishTermination(lifecycle, live, exiting)
    /\ NotifyAll
    /\ UNCHANGED <<monitor, lock, flags, wakes, jobs, qlock, work, locals>>

\* finish_running_job and finish_cancelled_job after their counters: the capacity
\* channel, then the idle test.
Settle(t) == /\ At(t, "settle")
             /\ NotifyCapacity
             /\ Goto(t, IF IsIdle THEN "settleNotify" ELSE AfterSettle(t))
             /\ UNCHANGED <<monitor, lock, waiting, flags, wakes, jobs, qlock, work, own, terminationTx>>

\* job.cancel() outside every lock, then the counters of finish_cancelled_job.
CancelCallback(t) ==
    /\ At(t, "cancel")
    /\ job' = [job EXCEPT ![Head(work[t])] = "cancelled"]
    /\ work' = [work EXCEPT ![t] = Tail(@)]
    /\ Goto(t, "settle")
    /\ UNCHANGED <<monitor, lock, waiting, flags, wakes, queue, entry, qlock, locals, terminationTx>>

-----------------------------------------------------------------------------
\* submit

BeginSubmit(s) == /\ Calls(s) \/ At(s, "retry")
                  /\ Goto(s, IF open THEN "reserve" ELSE "refused")
                  /\ job' = [job EXCEPT ![s] = "none"]
                  /\ unseen' = IF open THEN unseen ELSE unseen \ {s}
                  /\ before' = [t \in Joiners |-> before[t] \ {s}]
                  /\ UNCHANGED <<monitor, lock, waiting, flags, wakes, queue, entry, qlock, work, seen, timed, target,
                                 report, terminationTx>>

\* The retry loop of the user guide: changes.changed().await, then submit again.
AwaitCapacity(s) == /\ At(s, "awaitCapacity") /\ s \in unseen
                    /\ unseen' = unseen \ {s}
                    /\ Goto(s, "retry")
                    /\ UNCHANGED <<monitor, lock, waiting, flags, wakes, jobs, qlock, work, own, terminationTx>>

\* reserve_worker_locked and spawn_reserved_worker_locked, the successful case.
Spawn(w, t, next) == /\ pc[w] = "off"
                     /\ live' = live + 1
                     /\ pc' = [pc EXCEPT ![w] = "take", ![t] = next]

SpawnFails(t, next) == /\ SpawnMayFail
                       /\ Goto(t, next)
                       /\ waiting' = IF IsIdle \/ IsTerminated THEN {} ELSE waiting
                       /\ PublishTermination(lifecycle, live, exiting)
                       /\ UNCHANGED live

HasRoom == Bounded => Cardinality(Slots) < Capacity
NeedsWorker == live < core \/ live = 0 \/ (~HasRoom /\ live < maximum)

AfterReserve(s) == IF s \in Tickets THEN "accept" ELSE "accepting"

\* reserve_submission_with_state_lock
ReserveSubmission(s) ==
    /\ At(s, "reserve") /\ CanLock
    /\ \/ /\ lifecycle # "Running"
          /\ Goto(s, "leave")
          /\ UNCHANGED <<live, job, waiting, terminationTx>>
       \/ /\ lifecycle = "Running" /\ ~NeedsWorker /\ ~HasRoom
          /\ job' = [job EXCEPT ![s] = IF s \in Retriers THEN "saturated" ELSE "none"]
          /\ Goto(s, "leave")
          /\ UNCHANGED <<live, waiting, terminationTx>>
       \/ /\ lifecycle = "Running" /\ NeedsWorker
          /\ \E w \in Workers : Spawn(w, s, AfterReserve(s))
          /\ job' = [job EXCEPT ![s] = "reserved"]
          /\ UNCHANGED <<waiting, terminationTx>>
       \/ /\ lifecycle = "Running" /\ NeedsWorker
          /\ SpawnFails(s, "leave")
          /\ UNCHANGED job
       \/ /\ lifecycle = "Running" /\ ~NeedsWorker /\ HasRoom
          /\ job' = [job EXCEPT ![s] = "reserved"]
          /\ Goto(s, AfterReserve(s))
          /\ UNCHANGED <<live, waiting, terminationTx>>
    /\ unseen' = IF job'[s] = "saturated" THEN unseen ELSE unseen \ {s}
    /\ UNCHANGED <<lifecycle, exiting, config, lock, flags, wakes, queue, entry, qlock, work, own>>

\* accept_and_enqueue_reserved_job: the entry records that acceptance runs.
BeginAccept(s) == /\ At(s, "accept")
                  /\ entry' = [entry EXCEPT ![s] = "accepting"]
                  /\ Goto(s, "accepting")
                  /\ UNCHANGED <<monitor, lock, waiting, flags, wakes, queue, job, qlock, work, locals, terminationTx>>

\* The acceptance callback panicked: the slot, then the entry, then the waiters.
AcceptPanics(s) == /\ At(s, "accepting") /\ AcceptMayPanic
                   /\ job' = [job EXCEPT ![s] = "none"]
                   /\ Goto(s, "released")
                   /\ UNCHANGED <<monitor, lock, waiting, flags, wakes, queue, entry, qlock, work, locals, terminationTx>>

\* release_queue_slot announces the slot after it is free.
AnnounceRelease(s) == /\ At(s, "released")
                      /\ NotifyCapacity
                      /\ Goto(s, IF s \in Tickets THEN "rejectEntry" ELSE "rejectNotify")
                      /\ UNCHANGED <<monitor, lock, waiting, flags, wakes, jobs, qlock, work, own, terminationTx>>

\* Seeded fault: the ticket is not told that acceptance failed.
RejectSilently(s) == /\ At(s, "rejectEntry")
                     /\ Goto(s, "rejectNotify")
                     /\ UNCHANGED <<monitor, lock, waiting, flags, wakes, jobs, qlock, work, locals, terminationTx>>

RejectEntry(s) == /\ At(s, "rejectEntry")
                  /\ entry' = [entry EXCEPT ![s] = "rejected"]
                  /\ Goto(s, "rejectNotify")
                  /\ UNCHANGED <<monitor, lock, waiting, flags, wakes, queue, job, qlock, work, locals, terminationTx>>

\* Seeded fault: a cancellation reserved during acceptance is overlooked.
PublishRegardless(s) ==
    /\ At(s, "accepting") /\ qlock = Free
    /\ entry' = [entry EXCEPT ![s] = "queued"]
    /\ job' = [job EXCEPT ![s] = "queued"]
    /\ queue' = Append(queue, s)
    /\ Goto(s, "wake")
    /\ UNCHANGED <<monitor, lock, waiting, flags, wakes, qlock, work, locals, terminationTx>>

\* Accepted: publish under the queue mutex, or honour a reserved cancellation.
Publish(s) ==
    /\ At(s, "accepting") /\ qlock = Free
    /\ \/ /\ entry[s] = "requested"
          /\ entry' = [entry EXCEPT ![s] = "cancelling"]
          /\ job' = [job EXCEPT ![s] = "cancelling"]
          /\ work' = [work EXCEPT ![s] = <<s>>]
          /\ Goto(s, "cancel")
          /\ UNCHANGED queue
       \/ /\ entry[s] # "requested"
          /\ entry' = [entry EXCEPT ![s] = "queued"]
          /\ job' = [job EXCEPT ![s] = "queued"]
          /\ queue' = Append(queue, s)
          /\ Goto(s, "wake")
          /\ UNCHANGED work
    /\ UNCHANGED <<monitor, lock, waiting, flags, wakes, qlock, locals, terminationTx>>

CancelEntry(s) == /\ At(s, "cancelEntry")
                  /\ entry' = [entry EXCEPT ![s] = "cancelled"]
                  /\ Goto(s, "leave")
                  /\ UNCHANGED <<monitor, lock, waiting, flags, wakes, queue, job, qlock, work, locals, terminationTx>>

\* wake_one_idle_worker: load the idle count ...
LoadIdle(s) == /\ At(s, "wake")
               /\ seen' = [seen EXCEPT ![s] = idle]
               /\ Goto(s, IF idle = 0 THEN "leave" ELSE "token")
               /\ UNCHANGED <<monitor, lock, waiting, flags, wakes, jobs, qlock, work, timed, target, before, report, unseen, terminationTx>>

\* ... and request a wake unless the tokens already cover it.
RequestWake(s) == /\ At(s, "token")
                  /\ \/ /\ pending < seen[s]
                        /\ pending' = pending + 1
                        /\ Goto(s, "wakeNotify")
                     \/ /\ pending >= seen[s]
                        /\ Goto(s, "leave")
                        /\ UNCHANGED pending
                  /\ seen' = [seen EXCEPT ![s] = 0]
                  /\ UNCHANGED <<monitor, lock, waiting, flags, idle, jobs, qlock, work, timed, target, before, report, unseen, terminationTx>>

\* The submit guard is dropped: only the last departure goes on to notify.
Leave(s) == /\ At(s, "leave")
            /\ Goto(s, IF Inside = {s} THEN "departOpen" ELSE AfterSubmit(s))
            /\ UNCHANGED <<monitor, lock, waiting, flags, wakes, jobs, qlock, work, locals, terminationTx>>

\* Seeded fault: a departure notifies only when admission is closed.
DepartIfClosed(s) == /\ At(s, "departOpen")
                     /\ Goto(s, IF open THEN AfterSubmit(s) ELSE "departNotify")
                     /\ UNCHANGED <<monitor, lock, waiting, flags, wakes, jobs, qlock, work, locals, terminationTx>>

\* Seeded fault: a departure notifies only the callers of join.
DepartIfJoined(s) == /\ At(s, "departOpen")
                     /\ Goto(s, "departWaiters")
                     /\ UNCHANGED <<monitor, lock, waiting, flags, wakes, jobs, qlock, work, locals, terminationTx>>

\* notify_submitter_departure: two separate reads.
DepartOpen(s) == /\ At(s, "departOpen")
                 /\ Goto(s, IF open THEN "departWaiters" ELSE "departNotify")
                 /\ UNCHANGED <<monitor, lock, waiting, flags, wakes, jobs, qlock, work, locals, terminationTx>>

DepartWaiters(s) == /\ At(s, "departWaiters")
                    /\ Goto(s, IF idleWaiters > 0 THEN "departNotify" ELSE AfterSubmit(s))
                    /\ UNCHANGED <<monitor, lock, waiting, flags, wakes, jobs, qlock, work, locals, terminationTx>>

SubmitterStep(s) == \/ BeginSubmit(s) \/ ReserveSubmission(s) \/ BeginAccept(s)
                    \/ AcceptPanics(s) \/ AnnounceRelease(s) \/ RejectEntry(s) \/ Publish(s)
                    \/ CancelCallback(s) \/ Settle(s) \/ CancelEntry(s)
                    \/ LoadIdle(s) \/ RequestWake(s) \/ NotifyUnderLock(s)
                    \/ Leave(s) \/ DepartOpen(s) \/ DepartWaiters(s) \/ AwaitCapacity(s)

-----------------------------------------------------------------------------
\* ThreadPoolWorker

\* try_take_queued_job: under the queue mutex, first the stop flag ...
TryTake(w) ==
    /\ At(w, "take") /\ qlock = Free
    /\ \/ /\ stopNow \/ queue = <<>>
          /\ Goto(w, "check")
          /\ UNCHANGED qlock
       \/ /\ ~stopNow /\ queue # <<>>
          /\ qlock' = w
          /\ Goto(w, "claim")
    /\ UNCHANGED <<monitor, lock, waiting, flags, wakes, jobs, work, locals, terminationTx>>

\* ... then the front of the queue, whose callbacks the worker now owns.
Claim(w) ==
    /\ At(w, "claim")
    /\ LET j == Head(queue) IN
          /\ entry' = [entry EXCEPT ![j] = "taken"]
          /\ job' = [job EXCEPT ![j] = "running"]
          /\ work' = [work EXCEPT ![w] = <<j>>]
    /\ queue' = Tail(queue)
    /\ Goto(w, "claimed")
    /\ UNCHANGED <<monitor, lock, waiting, flags, wakes, qlock, locals, terminationTx>>

\* Seeded fault: the slot that a claim frees is not announced.
ClaimSilently(w) ==
    /\ At(w, "claimed")
    /\ qlock' = Free
    /\ Goto(w, "run")
    /\ UNCHANGED <<monitor, lock, waiting, flags, wakes, jobs, work, locals, terminationTx>>

\* The claim freed a slot: it is announced before the mutex is released.
AnnounceClaim(w) ==
    /\ At(w, "claimed")
    /\ NotifyCapacity
    /\ qlock' = Free
    /\ Goto(w, "run")
    /\ UNCHANGED <<monitor, lock, waiting, flags, wakes, jobs, work, own, terminationTx>>

\* The run callback (its panics are contained), then the counters of finish_running_job.
Run(w) == /\ At(w, "run")
          /\ job' = [job EXCEPT ![Head(work[w])] = "completed"]
          /\ work' = [work EXCEPT ![w] = <<>>]
          /\ Goto(w, "settle")
          /\ UNCHANGED <<monitor, lock, waiting, flags, wakes, queue, entry, qlock, locals, terminationTx>>

\* Seeded fault: the worker is not counted as exiting.
UnregisterForgetsExit(w) == /\ live' = live - 1
                            /\ lock' = Free
                            /\ Goto(w, "exit")
                            /\ UNCHANGED <<lifecycle, exiting, config, waiting, terminationTx>>

\* unregister_exiting_worker, then the guard is dropped.
Unregister(w) == /\ live' = live - 1
                 /\ exiting' = exiting + 1
                 /\ lock' = Free
                 /\ Goto(w, "exit")
                 /\ waiting' = IF Terminated(lifecycle, live - 1, exiting + 1) THEN {} ELSE waiting
                 /\ PublishTermination(lifecycle, live - 1, exiting + 1)
                 /\ UNCHANGED <<lifecycle, config>>

\* wait_for_job: nothing was taken, so the lifecycle decides.
Check(w) ==
    /\ At(w, "check") /\ CanLock
    /\ \/ /\ \/ lifecycle = "Running" /\ Queued = {} /\ live > maximum
             \/ lifecycle = "Stopping"
          /\ Unregister(w)
       \/ /\ lifecycle = "Running" /\ ~(Queued = {} /\ live > maximum)
          /\ Goto(w, "relock")
          /\ UNCHANGED <<monitor, lock, waiting, terminationTx>>
       \/ /\ lifecycle = "ShuttingDown" /\ Queued # {}
          /\ Goto(w, "take")
          /\ UNCHANGED <<monitor, lock, waiting, terminationTx>>
       \/ /\ lifecycle = "ShuttingDown" /\ Queued = {}
          /\ lock' = w
          /\ Goto(w, "sdInflight")
          /\ UNCHANGED <<monitor, waiting, terminationTx>>
    /\ UNCHANGED <<flags, wakes, jobs, qlock, work, locals>>

\* worker_wait_is_timed
WaitIsTimed == coreTimeout \/ live > core

\* idle_worker_can_retire
CanRetire == live > maximum \/ (WaitIsTimed /\ (live > core \/ coreTimeout))

\* Running: the monitor is taken again and the worker registers as idle.
Relock(w) ==
    /\ At(w, "relock") /\ CanLock
    /\ \/ /\ lifecycle # "Running"
          /\ Goto(w, "take")
          /\ UNCHANGED <<lock, idle, timed>>
       \/ /\ lifecycle = "Running"
          /\ lock' = w
          /\ idle' = idle + 1
          /\ timed' = [timed EXCEPT ![w] = WaitIsTimed]
          /\ Goto(w, "idleQueued")
    /\ UNCHANGED <<monitor, waiting, flags, pending, jobs, qlock, work, seen, target, before, report, unseen, terminationTx>>

\* A read of a lock-free counter by the worker that holds the monitor.
Reads(w, p, next) == /\ At(w, p)
                     /\ Goto(w, next)
                     /\ UNCHANGED <<monitor, lock, waiting, flags, wakes, jobs, qlock, work, locals, terminationTx>>

\* The reads that end in a wait.
Parks(w) == /\ Wait(w, "parked")
            /\ UNCHANGED <<monitor, flags, wakes, jobs, qlock, work, locals, terminationTx>>

\* Seeded fault: the idle worker trusts the tokens and does not look at the queue.
SkipQueueCheck(w) == Reads(w, "idleQueued", "idlePending")

IdleQueued(w) == Reads(w, "idleQueued", IF Queued = {} THEN "idlePending" ELSE "unmark")

IdlePending(w) == \/ pending > 0 /\ Reads(w, "idlePending", "unmark")
                  \/ pending = 0 /\ At(w, "idlePending") /\ Parks(w)

Awaken(w) == /\ At(w, "parked") /\ Notified(w)
             /\ lock' = w
             /\ timed' = [timed EXCEPT ![w] = FALSE]
             /\ Goto(w, "unmark")
             /\ UNCHANGED <<monitor, waiting, flags, wakes, jobs, qlock, work, seen, target, before, report, unseen, terminationTx>>

\* The keep-alive elapses; a notification may have come first and be missed.
KeepAliveElapses(w) ==
    /\ At(w, "parked") /\ timed[w]
    /\ waiting' = waiting \ {w}
    /\ timed' = [timed EXCEPT ![w] = FALSE]
    /\ Goto(w, "timedOut")
    /\ UNCHANGED <<monitor, lock, flags, wakes, jobs, qlock, work, seen, target, before, report, unseen, terminationTx>>

TimedOut(w) == /\ At(w, "timedOut") /\ CanLock
               /\ lock' = w
               /\ Goto(w, "retireQueued")
               /\ UNCHANGED <<monitor, waiting, flags, wakes, jobs, qlock, work, locals, terminationTx>>

\* should_retire: three reads in order, then the retirement policy.
RetireQueued(w) == Reads(w, "retireQueued", IF Queued = {} THEN "retirePending" ELSE "unmark")

RetirePending(w) == Reads(w, "retirePending", IF pending = 0 THEN "retireInflight" ELSE "unmark")

\* Seeded fault: the last worker retires while a submitter is inside.
RetireAnyway(w) == Reads(w, "retireInflight", IF CanRetire THEN "unmarkRetire" ELSE "unmark")

RetireInflight(w) ==
    Reads(w, "retireInflight",
          IF (live > 1 \/ Inside = {}) /\ CanRetire THEN "unmarkRetire" ELSE "unmark")

\* unmark_worker_idle: the idle count ...
Unmark(w) == /\ pc[w] \in {"unmark", "unmarkRetire"}
             /\ idle' = idle - 1
             /\ Goto(w, IF At(w, "unmark") THEN "consume" ELSE "consumeRetire")
             /\ UNCHANGED <<monitor, lock, waiting, flags, pending, jobs, qlock, work, locals, terminationTx>>

\* ... then one pending token; the guard is dropped or the worker unregisters.
Consume(w) == /\ pending' = IF pending > 0 THEN pending - 1 ELSE 0
              /\ \/ At(w, "consumeRetire") /\ Unregister(w)
                 \/ /\ At(w, "consume")
                    /\ lock' = Free
                    /\ Goto(w, "take")
                    /\ UNCHANGED <<monitor, waiting, terminationTx>>
              /\ UNCHANGED <<flags, idle, jobs, qlock, work, locals>>

\* ShuttingDown with an empty queue: exit, unless a submitter is still inside.
SdInflight(w) == \/ /\ At(w, "sdInflight") /\ Inside = {}
                    /\ Unregister(w)
                    /\ UNCHANGED <<flags, wakes, jobs, qlock, work, locals>>
                 \/ Inside # {} /\ Reads(w, "sdInflight", "sdMark")

SdMark(w) == /\ At(w, "sdMark")
             /\ idle' = idle + 1
             /\ Goto(w, "sdQueued")
             /\ UNCHANGED <<monitor, lock, waiting, flags, pending, jobs, qlock, work, locals, terminationTx>>

SdQueued(w) == Reads(w, "sdQueued", IF Queued = {} THEN "sdPark" ELSE "unmark")

SdPark(w) == \/ Inside = {} /\ Reads(w, "sdPark", "unmark")
             \/ Inside # {} /\ At(w, "sdPark") /\ Parks(w)

\* run_after_worker_stop, then finish_worker_exit.
FinishExit(w) == /\ At(w, "exit") /\ CanLock
                 /\ exiting' = exiting - 1
                 /\ Goto(w, "off")
                 /\ NotifyAll
                 /\ PublishTermination(lifecycle, live, exiting - 1)
                 /\ UNCHANGED <<lifecycle, live, config, lock, flags, wakes, jobs, qlock, work, locals>>

WorkerStep(w) == \/ TryTake(w) \/ Claim(w) \/ AnnounceClaim(w) \/ Run(w) \/ Settle(w) \/ NotifyUnderLock(w)
                 \/ Check(w) \/ Relock(w) \/ IdleQueued(w) \/ IdlePending(w)
                 \/ Awaken(w) \/ TimedOut(w)
                 \/ RetireQueued(w) \/ RetirePending(w) \/ RetireInflight(w)
                 \/ Unmark(w) \/ Consume(w)
                 \/ SdInflight(w) \/ SdMark(w) \/ SdQueued(w) \/ SdPark(w)
                 \/ FinishExit(w)

-----------------------------------------------------------------------------
\* cancel_queued: a ticket.

AskTicket(c) ==
    /\ Calls(c)
    /\ \E j \in Tickets :
          /\ target' = [target EXCEPT ![c] = j]
          /\ entry' = [entry EXCEPT ![j] = IF @ = "accepting" THEN "requested" ELSE @]
          /\ Goto(c, IF entry[j] = "accepting" THEN "await"
                     ELSE IF entry[j] = "queued" THEN "withdraw" ELSE "false")
    /\ UNCHANGED <<monitor, lock, waiting, flags, wakes, queue, job, qlock, work,
                   seen, timed, before, report, unseen, terminationTx>>

\* The entry's own condition variable: the submitter decides and notifies.
AwaitDecision(c) ==
    /\ At(c, "await")
    /\ entry[target[c]] \notin {"accepting", "requested", "cancelling"}
    /\ Goto(c, IF entry[target[c]] = "cancelled" THEN "true" ELSE "false")
    /\ UNCHANGED <<monitor, lock, waiting, flags, wakes, jobs, qlock, work, locals, terminationTx>>

\* cancel_queued_entry: the ticket wins only if the job is still in the queue.
Withdraw(c) ==
    /\ At(c, "withdraw") /\ qlock = Free
    /\ LET j == target[c] IN
          \/ /\ entry[j] = "queued"
             /\ \E i \in DOMAIN queue : queue[i] = j /\ queue' = RemoveAt(queue, i)
             /\ entry' = [entry EXCEPT ![j] = "taken"]
             /\ job' = [job EXCEPT ![j] = "cancelling"]
             /\ work' = [work EXCEPT ![c] = <<j>>]
             /\ Goto(c, "cancel")
          \/ /\ j \notin ToSet(queue) \/ entry[j] # "queued"
             /\ Goto(c, "false")
             /\ UNCHANGED <<jobs, work>>
    /\ UNCHANGED <<monitor, lock, waiting, flags, wakes, qlock, locals, terminationTx>>

CancellerStep(c) == \/ AskTicket(c) \/ AwaitDecision(c) \/ Withdraw(c)
                    \/ CancelCallback(c) \/ Settle(c) \/ NotifyUnderLock(c)

-----------------------------------------------------------------------------
\* shutdown

CloseAdmission(t, next) == /\ Calls(t) \/ At(t, "buildFailed")
                           /\ open' = FALSE
                           /\ Goto(t, next)
                           /\ UNCHANGED <<monitor, lock, waiting, stopNow, idleWaiters, wakes, jobs, qlock,
                                          work, locals, terminationTx>>

\* The capacity channel learns of the closed gate before the monitor is taken.
AnnounceShutdown(t) == /\ At(t, "announce")
                       /\ NotifyCapacity
                       /\ Goto(t, "shutdown")
                       /\ UNCHANGED <<monitor, lock, waiting, flags, wakes, jobs, qlock, work, own, terminationTx>>

BeginShutdown(t) ==
    /\ At(t, "shutdown") /\ CanLock
    /\ lifecycle' = IF lifecycle = "Running" THEN "ShuttingDown" ELSE lifecycle
    /\ Goto(t, "done")
    /\ NotifyAll
    /\ PublishTermination(lifecycle', live, exiting)
    /\ UNCHANGED <<live, exiting, config, lock, flags, wakes, jobs, qlock, work, locals>>

ShutdownStep(t) == CloseAdmission(t, "announce") \/ AnnounceShutdown(t) \/ BeginShutdown(t)

-----------------------------------------------------------------------------
\* stop

\* The capacity channel, then the flag.
SetStopNow(t) == /\ At(t, "stopNow")
                 /\ NotifyCapacity
                 /\ stopNow' = TRUE
                 /\ Goto(t, "stop")
                 /\ UNCHANGED <<monitor, lock, waiting, open, idleWaiters, wakes, jobs, qlock, work, own, terminationTx>>

BeginStop(t) == /\ At(t, "stop") /\ CanLock
                /\ lock' = t
                /\ lifecycle' = IF lifecycle \in {"Running", "ShuttingDown"} THEN "Stopping" ELSE lifecycle
                /\ Goto(t, "stopInflight")
                /\ UNCHANGED <<live, exiting, config, waiting, flags, wakes, jobs, qlock, work, locals, terminationTx>>

\* Seeded fault: the queue is drained without waiting for the submitters inside.
DrainAtOnce(t) == /\ At(t, "stopInflight")
                  /\ Goto(t, "drain")
                  /\ UNCHANGED <<monitor, lock, waiting, flags, wakes, jobs, qlock, work, locals, terminationTx>>

\* Submitters that were admitted publish or give up before the queue is drained.
AwaitSubmitters(t) ==
    /\ At(t, "stopInflight")
    /\ \/ Inside = {} /\ Goto(t, "drain") /\ UNCHANGED <<lock, waiting>>
       \/ Inside # {} /\ Wait(t, "stopWait")
    /\ UNCHANGED <<monitor, flags, wakes, jobs, qlock, work, locals, terminationTx>>

ResumeStop(t) == /\ At(t, "stopWait") /\ Notified(t)
                 /\ lock' = t
                 /\ Goto(t, "stopInflight")
                 /\ UNCHANGED <<monitor, waiting, flags, wakes, jobs, qlock, work, locals, terminationTx>>

\* Seeded fault: the drained jobs also stay in the queue.
DrainCopies(t) ==
    /\ At(t, "drain") /\ qlock = Free
    /\ work' = [work EXCEPT ![t] = queue]
    /\ job' = [j \in Submitters |-> IF j \in ToSet(queue) THEN "cancelling" ELSE job[j]]
    /\ Goto(t, IF queue = <<>> THEN "stopNotify" ELSE "cancel")
    /\ lock' = Free
    /\ NotifyAll
    /\ UNCHANGED <<monitor, flags, wakes, queue, entry, qlock, locals, terminationTx>>

\* Seeded fault: the report counts what the counters call unstarted, a ticket's job too.
CountSlots == Cardinality(Slots)

\* The queued and cancelled counts of the StopReport: the jobs drained by this call.
Drained == Len(queue)

\* drain_visible_queued_jobs, still under the monitor.
Drain(t) ==
    /\ At(t, "drain") /\ qlock = Free
    /\ work' = [work EXCEPT ![t] = queue]
    /\ job' = [j \in Submitters |-> IF j \in ToSet(queue) THEN "cancelling" ELSE job[j]]
    /\ entry' = [j \in Submitters |-> IF j \in ToSet(queue) THEN "taken" ELSE entry[j]]
    /\ queue' = <<>>
    /\ Goto(t, IF queue = <<>> THEN "stopNotify" ELSE "cancel")
    /\ lock' = Free
    /\ NotifyAll
    /\ report' = [report EXCEPT ![t] = Drained]
    /\ PublishTermination(lifecycle, live, exiting)
    /\ UNCHANGED <<monitor, flags, wakes, qlock, seen, timed, target, before, unseen>>

StopStep(t) == \/ CloseAdmission(t, "stopNow") \/ SetStopNow(t) \/ BeginStop(t)
               \/ AwaitSubmitters(t) \/ ResumeStop(t) \/ Drain(t)
               \/ CancelCallback(t) \/ Settle(t) \/ NotifyUnderLock(t)

-----------------------------------------------------------------------------
\* join and wait_for_termination

\* wait_until_idle announces itself before it takes the monitor.
BeginJoin(t) == /\ Calls(t)
                /\ idleWaiters' = idleWaiters + 1
                /\ before' = [before EXCEPT ![t] = Inside \cup Under({"queued", "running", "cancelling"})]
                /\ Goto(t, "join")
                /\ UNCHANGED <<monitor, lock, waiting, open, stopNow, wakes, jobs, qlock, work,
                               seen, timed, target, report, unseen, terminationTx>>

\* Seeded fault: a single wait, whatever woke it.
JoinOnce(t) == /\ At(t, "join") /\ Notified(t)
               /\ idleWaiters' = idleWaiters - 1
               /\ Goto(t, "done")
               /\ UNCHANGED <<lock, waiting>>

Join(t) ==
    /\ At(t, "join") /\ Notified(t)
    /\ \/ /\ IsIdle
          /\ idleWaiters' = idleWaiters - 1
          /\ Goto(t, "done")
          /\ UNCHANGED <<lock, waiting>>
       \/ /\ ~IsIdle
          /\ Wait(t, "join")
          /\ UNCHANGED idleWaiters

JoinStep(t) ==
    \/ BeginJoin(t)
    \/ Join(t) /\ UNCHANGED <<monitor, open, stopNow, wakes, jobs, qlock, work, locals, terminationTx>>

AwaitTermination(t) ==
    /\ Calls(t) /\ Notified(t)
    /\ \/ IsTerminated /\ Goto(t, "done") /\ UNCHANGED <<lock, waiting>>
       \/ ~IsTerminated /\ Wait(t, "start")
    /\ UNCHANGED <<monitor, flags, wakes, jobs, qlock, work, locals, terminationTx>>

\* wait_for_termination_timeout: the time is over, and the state is polled once more
\* under the monitor.  A caller that was told false may call again.
TimeoutElapses(t) ==
    /\ At(t, "start") /\ t \in waiting /\ CanLock
    /\ waiting' = waiting \ {t}
    /\ Goto(t, IF IsTerminated THEN "done" ELSE "start")
    /\ UNCHANGED <<monitor, lock, flags, wakes, jobs, qlock, work, locals, terminationTx>>

\* await_termination: subscribe_termination publishes what is already true ...
SubscribeTermination(t) ==
    /\ Calls(t) /\ Notified(t)
    /\ PublishTermination(lifecycle, live, exiting)
    /\ UNCHANGED <<monitor, lock, waiting, flags, wakes, jobs, qlock, pc, work, locals>>

\* ... and the future is ready once the channel says so.
WatchTermination(t) ==
    /\ Calls(t) /\ t \notin waiting /\ terminationTx
    /\ Goto(t, "done")
    /\ UNCHANGED <<monitor, lock, waiting, flags, wakes, jobs, qlock, work, locals, terminationTx>>

WaiterStep(t) == AwaitTermination(t) \/ SubscribeTermination(t) \/ WatchTermination(t)

-----------------------------------------------------------------------------
\* Configuration calls.

\* set_core_pool_size and set_maximum_pool_size notify after the monitor is released.
SetCorePoolSize(t, n) == /\ core' = IF ValidSizes(n, maximum) THEN n ELSE core
                         /\ Goto(t, IF ValidSizes(n, maximum) THEN "tuned" ELSE "done")
                         /\ UNCHANGED <<live, maximum, coreTimeout, waiting, terminationTx>>

SetMaximumPoolSize(t, n) == /\ maximum' = IF ValidSizes(core, n) THEN n ELSE maximum
                            /\ Goto(t, IF ValidSizes(core, n) THEN "tuned" ELSE "done")
                            /\ UNCHANGED <<live, core, coreTimeout, waiting, terminationTx>>

AllowCoreThreadTimeout(t, allow) == /\ coreTimeout' = allow
                                    /\ Goto(t, "done")
                                    /\ NotifyAll
                                    /\ UNCHANGED <<live, core, maximum, terminationTx>>

\* The duration itself is abstracted: a timed wait may end at any time.
SetKeepAlive(t) == Goto(t, "done") /\ NotifyAll /\ UNCHANGED <<live, config, terminationTx>>

PrestartCoreThread(t) ==
    /\ UNCHANGED config
    /\ \/ /\ lifecycle # "Running" \/ live >= core
          /\ Goto(t, "done")
          /\ UNCHANGED <<live, waiting, terminationTx>>
       \/ /\ lifecycle = "Running" /\ live < core
          /\ \E w \in Workers : Spawn(w, t, "done")
          /\ UNCHANGED <<waiting, terminationTx>>
       \/ lifecycle = "Running" /\ live < core /\ SpawnFails(t, "done")

Tune(t) ==
    /\ Calls(t) /\ CanLock
    /\ \/ \E n \in Sizes : SetCorePoolSize(t, n) \/ SetMaximumPoolSize(t, n)
       \/ \E allow \in BOOLEAN : AllowCoreThreadTimeout(t, allow)
       \/ SetKeepAlive(t)
       \/ PrestartCoreThread(t)
    /\ UNCHANGED <<lifecycle, exiting, lock, flags, wakes, jobs, qlock, work, locals>>

\* Seeded fault: sleeping workers do not learn of the new sizes.
TunedSilently(t) == /\ At(t, "tuned")
                    /\ Goto(t, "done")
                    /\ UNCHANGED <<monitor, lock, waiting, flags, wakes, jobs, qlock, work, locals, terminationTx>>

NotifyTuned(t) == /\ At(t, "tuned")
                  /\ NotifyAll
                  /\ Goto(t, "done")
                  /\ UNCHANGED <<monitor, lock, flags, wakes, jobs, qlock, work, locals, terminationTx>>

TuneStep(t) == Tune(t) \/ NotifyTuned(t)

-----------------------------------------------------------------------------
\* build: prestart_all_core_threads, and what follows when a thread is refused.

PrestartAll(b) ==
    /\ At(b, "prestart") /\ CanLock
    /\ \/ live >= core /\ Goto(b, "ready") /\ UNCHANGED <<live, waiting, terminationTx>>
       \/ live < core /\ (\E w \in Workers : Spawn(w, b, "prestart")) /\ UNCHANGED <<waiting, terminationTx>>
       \/ live < core /\ SpawnFails(b, "buildFailed")
    /\ UNCHANGED <<lifecycle, exiting, config, lock, flags, wakes, jobs, qlock, work, locals>>

\* Seeded fault: the error is returned while started workers are still there.
FailAtOnce(b) == /\ At(b, "awaitEnd")
                 /\ Goto(b, "failed")
                 /\ UNCHANGED <<monitor, lock, waiting, flags, wakes, jobs, qlock, work, locals, terminationTx>>

\* The failed build stops the pool, then waits for its end.
AwaitEnd(b) ==
    /\ At(b, "awaitEnd") /\ Notified(b)
    /\ \/ IsTerminated /\ Goto(b, "failed") /\ UNCHANGED <<lock, waiting>>
       \/ ~IsTerminated /\ Wait(b, "awaitEnd")
    /\ UNCHANGED <<monitor, flags, wakes, jobs, qlock, work, locals, terminationTx>>

BuilderStep(b) == PrestartAll(b) \/ StopStep(b) \/ AwaitEnd(b)

-----------------------------------------------------------------------------

ThreadStep(t) == \/ t \in Submitters /\ SubmitterStep(t)
                 \/ t \in Workers /\ WorkerStep(t)
                 \/ t \in Cancellers /\ CancellerStep(t)
                 \/ t \in Shutdowners /\ ShutdownStep(t)
                 \/ t \in Stoppers /\ StopStep(t)
                 \/ t \in Joiners /\ JoinStep(t)
                 \/ t \in Waiters /\ WaiterStep(t)
                 \/ t \in Tuners /\ TuneStep(t)
                 \/ t \in Builders /\ BuilderStep(t)

Next == \/ \E t \in Threads : ThreadStep(t)
        \/ \E w \in Workers : KeepAliveElapses(w)
        \/ \E t \in Waiters : TimeoutElapses(t)

(***************************************************************************)
(* A thread inside a call, and a worker, keeps running.  Fairness is       *)
(* strong because the monitor and the queue mutex are shared: a thread     *)
(* that finds them free again and again gets them in the end (the eventual *)
(* fairness of parking_lot).  No call has to begin and no keep-alive or    *)
(* timeout has to elapse.                                                  *)
(***************************************************************************)
Fairness == \A t \in Threads : SF_vars(pc[t] # "start" /\ ThreadStep(t))

Spec == Init /\ [][Next]_vars
FairSpec == Spec /\ Fairness

-----------------------------------------------------------------------------

Lifecycles == {"Running", "ShuttingDown", "Stopping"}
JobStages == {"none", "saturated", "reserved", "queued", "running", "completed", "cancelling", "cancelled"}
EntryStates == {"prepared", "accepting", "requested", "queued", "taken", "cancelling", "cancelled", "rejected"}

DataOK == /\ lifecycle \in Lifecycles
          /\ core \in Nat /\ maximum \in Nat /\ maximum > 0 /\ coreTimeout \in BOOLEAN
          /\ open \in BOOLEAN /\ stopNow \in BOOLEAN /\ pending \in Nat
          /\ lock \in Threads \cup {Free} /\ waiting \subseteq Threads
          /\ queue \in Seq(Submitters) /\ qlock \in Workers \cup {Free}
          /\ job \in [Submitters -> JobStages]
          /\ entry \in [Submitters -> EntryStates]
          /\ work \in [Threads -> Seq(Submitters)]
          /\ seen \in [Submitters -> Nat] /\ timed \in [Workers -> BOOLEAN]
          /\ target \in [Cancellers -> Tickets \cup {Free}]
          /\ before \in [Joiners -> SUBSET Submitters]
          /\ report \in [Stoppers \cup Builders -> Nat]
          /\ terminationTx \in BOOLEAN /\ unseen \subseteq Retriers

\* Where a thread of each role can be.
SubmitterPcs == {"start", "retry", "refused", "reserve", "accept", "accepting", "released", "rejectEntry",
                 "rejectNotify", "cancel", "settle", "settleNotify", "cancelEntry", "wake", "token", "wakeNotify",
                 "leave", "departOpen", "departWaiters", "departNotify", "awaitCapacity", "done"}
WorkerPcs == {"off", "take", "claim", "claimed", "run", "settle", "settleNotify", "check", "relock", "idleQueued",
              "idlePending", "parked", "timedOut", "retireQueued", "retirePending", "retireInflight", "unmark",
              "unmarkRetire", "consume", "consumeRetire", "sdInflight", "sdMark", "sdQueued", "sdPark", "exit"}
CancellerPcs == {"start", "await", "withdraw", "cancel", "settle", "settleNotify", "true", "false"}
StopPcs == {"stopNow", "stop", "stopInflight", "stopWait", "drain", "cancel", "settle", "settleNotify", "stopNotify"}
ControllerPcs == StopPcs \cup {"start", "announce", "shutdown", "join", "tuned", "done"}
BuilderPcs == StopPcs \cup {"prestart", "ready", "buildFailed", "awaitEnd", "failed"}
PcOK == /\ pc \in [Threads -> SubmitterPcs \cup WorkerPcs \cup CancellerPcs \cup ControllerPcs \cup BuilderPcs]
        /\ \A s \in Submitters : pc[s] \in SubmitterPcs
        /\ \A w \in Workers : pc[w] \in WorkerPcs
        /\ \A c \in Cancellers : pc[c] \in CancellerPcs
        /\ \A t \in Controllers : pc[t] \in ControllerPcs
        /\ \A t \in Waiters : pc[t] \in {"start", "done"}
        /\ \A t \in Tuners : pc[t] \in {"start", "tuned", "done"}
        /\ \A b \in Builders : pc[b] \in BuilderPcs

\* What live_workers, exiting_workers, the idle count and the waiter count stand for.
Looping == {w \in Workers : pc[w] \notin {"off", "exit"}}
Exiting == {w \in Workers : pc[w] = "exit"}
MarkedIdle == {w \in Workers : pc[w] \in {"idleQueued", "idlePending", "parked", "timedOut", "retireQueued",
                                           "retirePending", "retireInflight", "unmark", "unmarkRetire",
                                           "sdQueued", "sdPark"}}
Joining == {t \in Joiners : pc[t] = "join"}
CountersExact == /\ live = Cardinality(Looping) /\ exiting = Cardinality(Exiting)
                 /\ idle = Cardinality(MarkedIdle) /\ idleWaiters = Cardinality(Joining)

(***************************************************************************)
(* Types.  live_workers, exiting_workers, the idle count and the waiter    *)
(* count are exact at every step, so no checked_sub in the pool can fail:  *)
(* a worker is live from its spawn to its unregistration and exiting until *)
(* its hook has run, however retirement, shutdown and stop interleave.     *)
(***************************************************************************)
TypeOK == /\ DataOK /\ PcOK /\ CountersExact
          /\ live \in Nat /\ exiting \in Nat /\ idle \in Nat /\ idleWaiters \in Nat

\* Every thread has finished, need not call, or sleeps in a wait that only a notification ends.
AllAsleep ==
    \A t \in Threads : \/ t \in waiting
                       \/ pc[t] \in {"start", "off", "done", "refused", "true", "false", "ready", "failed"}
                       \/ At(t, "awaitCapacity") /\ t \notin unseen

(***************************************************************************)
(* No lost wakeup: when every thread sleeps, no sleeper's reason to wake   *)
(* holds.  A worker does not sleep beside a queued job or through the end  *)
(* of the pool, join and stop do not wait for what has already happened,   *)
(* and a terminated pool has said so on its watch channel.                 *)
(***************************************************************************)
NoLostWakeup ==
    AllAsleep => /\ \A t \in waiting : /\ At(t, "parked") => Queued = {} /\ lifecycle = "Running"
                                       /\ At(t, "join") => ~IsIdle
                                       /\ At(t, "stopWait") => Inside # {}
                                       /\ pc[t] \in {"start", "awaitEnd"} => ~IsTerminated
                 /\ IsTerminated => terminationTx

(***************************************************************************)
(* A queued job never waits for somebody else's acceptance callback: when  *)
(* every live worker sleeps beside a queued job, a submitter that has      *)
(* published, or is departing, is on its way to notify them.               *)
(***************************************************************************)
QueuedJobHasWaker ==
    /\ lifecycle # "Stopping" /\ Queued # {} /\ live > 0
    /\ \A w \in Workers : w \in waiting \/ pc[w] \in {"off", "exit"}
    => \/ \E s \in Submitters : pc[s] \in {"wake", "token", "wakeNotify", "leave",
                                         "departOpen", "departWaiters", "departNotify"}
       \/ \E t \in Shutdowners \cup Stoppers : pc[t] \in {"announce", "shutdown", "stopNow", "stop"}

(***************************************************************************)
(* Work is never stranded: while the lifecycle still lets jobs run, a      *)
(* queued job, or a submitter that has reserved a slot, implies a worker   *)
(* thread that has not left its loop.                                      *)
(***************************************************************************)
NoStrandedWork ==
    lifecycle # "Stopping" /\ Under({"reserved", "queued"}) # {}
       => \E w \in Workers : pc[w] \notin {"off", "exit"}

(***************************************************************************)
(* The callbacks of an accepted job have one owner: its place in the queue *)
(* or one thread, which runs it or cancels it according to its stage.      *)
(***************************************************************************)
Owners(j) == {t \in Threads : j \in ToSet(work[t])}
SoleOwner ==
    \A j \in Submitters :
       /\ job[j] = "queued" <=> j \in ToSet(queue)
       /\ Cardinality({i \in DOMAIN queue : queue[i] = j}) <= 1
       /\ Cardinality(Owners(j)) = IF job[j] \in {"running", "cancelling"} THEN 1 ELSE 0
       /\ job[j] = "running" => Owners(j) \subseteq Workers
       /\ job[j] = "cancelling" => Owners(j) \cap Workers = {}

Settled == {"none", "saturated", "completed", "cancelled"}

\* Nothing of the pool is left: no worker thread, no submitter inside, no unfinished job.
PoolIsOver == /\ lifecycle # "Running" /\ ~open
              /\ \A w \in Workers : pc[w] = "off"
              /\ Inside = {} /\ \A j \in Submitters : job[j] \in Settled

(***************************************************************************)
(* Termination is true and final: whoever learns of it, by polling, by     *)
(* waiting or from the watch channel, learns that the pool is over, and    *)
(* because the channel never goes back it stays over: workers have         *)
(* finished their exit hooks and no accepted job is unfinished.            *)
(***************************************************************************)
TerminationTrue ==
    IsTerminated \/ terminationTx \/ (\E t \in Waiters : pc[t] = "done") => PoolIsOver

(***************************************************************************)
(* The retirement policy is never applied stale: once every configuration  *)
(* call has returned, at most core_pool_size workers sleep without a       *)
(* timeout, and none when core threads may time out.                       *)
(***************************************************************************)
UntimedWithinCore ==
    lifecycle = "Running" /\ (\A t \in Tuners : pc[t] # "tuned")
       => Cardinality({w \in Workers \cap waiting : ~timed[w]}) <= IF coreTimeout THEN 0 ELSE core

(***************************************************************************)
(* When join returns, every submission that was under way when it was      *)
(* called is over and its job, if accepted, has completed or is cancelled. *)
(***************************************************************************)
JoinSound == \A t \in Joiners :
                pc[t] = "done" => \A j \in before[t] : /\ j \notin Inside
                                                       /\ job[j] \in Settled

(***************************************************************************)
(* When stop returns, the queue stays empty and no further job starts.     *)
(***************************************************************************)
StopFinal ==
    [][(\E t \in Stoppers : pc[t] = "done")
          => queue' = <<>> /\ \A j \in Submitters : job'[j] = "running" => job[j] = "running"]_vars

(***************************************************************************)
(* cancel_queued tells the truth: true only when the job is cancelled and  *)
(* its accounting is over, to at most one caller per job.  A cancellation  *)
(* reserved while acceptance runs is honoured before the job reaches a     *)
(* worker, unless acceptance fails.                                        *)
(***************************************************************************)
TicketTruth ==
    \A c \in Cancellers :
       /\ pc[c] = "true" =>
             /\ job[target[c]] = "cancelled"
             /\ \A d \in Cancellers \ {c} : ~(pc[d] = "true" /\ target[d] = target[c])
       /\ At(c, "await") => job[target[c]] \notin {"queued", "running", "completed"}

(***************************************************************************)
(* A ticket's caller that waits for the outcome of an acceptance is always *)
(* answered: while the entry is undecided, its submitter has yet to take   *)
(* the step that decides it and notifies, also when acceptance panics.     *)
(***************************************************************************)
AwaitedDecisionComes ==
    \A c \in Cancellers :
       At(c, "await") /\ entry[target[c]] \in {"accepting", "requested", "cancelling"}
       => pc[target[c]] \in {"accepting", "released", "rejectEntry", "cancel", "settle", "settleNotify", "cancelEntry"}

(***************************************************************************)
(* Every cancellation is reported once: when the tickets and stop have     *)
(* answered, the tickets that were told true and the counts of the         *)
(* StopReports add up to the jobs that were cancelled, however the two     *)
(* raced for the queue.                                                    *)
(***************************************************************************)
Reported == UNION {{t} \X (1 .. report[t]) : t \in Stoppers}   \* one pair per job a StopReport counts
CancellationsReportedOnce ==
    (\A t \in Cancellers \cup Stoppers : pc[t] \in {"start", "true", "false", "done"})
       => Cardinality(Under({"cancelled"})) = Cardinality({c \in Cancellers : pc[c] = "true"}) + Cardinality(Reported)

(***************************************************************************)
(* No missed capacity: a retrier that waits although its retry would find  *)
(* a free slot or a closed pool has a change to see, or the thread that    *)
(* freed the slot or closed the pool has yet to announce it.               *)
(***************************************************************************)
RetryIsTold ==
    \A s \in Retriers : At(s, "awaitCapacity") /\ s \notin unseen /\ (HasRoom \/ ~open)
       => \E t \in Threads : pc[t] \in {"claimed", "settle", "released", "announce", "stopNow"}

(***************************************************************************)
(* A build that fails because a core thread was refused leaves nothing     *)
(* behind: the workers it had started are gone when the error is returned. *)
(***************************************************************************)
FailedBuildIsClean == \A b \in Builders : pc[b] = "failed" => PoolIsOver /\ terminationTx

(***************************************************************************)
(* The pool implements the executor service: a job is accepted once and    *)
(* runs or is cancelled but never both, lifecycle() only advances, and a   *)
(* terminated pool stays so.                                               *)
(***************************************************************************)
Stage(j) == IF j \in Inside /\ job[j] \in {"none", "saturated", "reserved"} THEN "submitting"
            ELSE IF job[j] = "saturated" THEN "none"
            ELSE IF job[j] = "queued" THEN "accepted"
            ELSE IF job[j] = "cancelling" THEN "withdrawn"
            ELSE job[j]

Service == INSTANCE ExecutorService
              WITH Jobs <- Submitters,
                   phase <- IF IsTerminated THEN "Terminated" ELSE lifecycle,
                   stage <- [j \in Submitters |-> Stage(j)]

ImplementsService == Service!Spec

-----------------------------------------------------------------------------

\* Every accepted job completes or is cancelled.
AcceptedJobsFinish ==
    \A j \in Submitters : job[j] = "queued" ~> job[j] \in {"completed", "cancelled"}

(***************************************************************************)
(* Every call ends: stop with a terminated pool whose watchers know it,    *)
(* join because submissions are finite and the pool becomes idle, and a    *)
(* submission retried on every capacity change, accepted or refused.       *)
(***************************************************************************)
CallsEnd ==
    /\ \A t \in Stoppers : pc[t] = "stopNow" ~> pc[t] = "done" /\ terminationTx
    /\ \A t \in Joiners : pc[t] = "join" ~> pc[t] = "done"
    /\ \A s \in Retriers : pc[s] = "awaitCapacity" ~> pc[s] \in {"done", "refused"}
=============================================================================
