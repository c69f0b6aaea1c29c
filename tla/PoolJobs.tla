------------------------------ MODULE PoolJobs ------------------------------
(***************************************************************************)
(* User code in both pools: the callbacks and captured values of PoolJob   *)
(* (src/pool_job.rs), the worker hooks (src/thread_pool_hooks.rs), and the *)
(* places where their panics are caught.                                   *)
(*                                                                         *)
(* A thread's code is the sequence of what it has yet to do.  A callback,  *)
(* the destruction of captured values or a hook may return or panic; a     *)
(* panic unwinds to the end of the enclosing catch_unwind, whose limits    *)
(* the code holds as the marks "try" and "caught", and without one it ends *)
(* the thread.  How the pools schedule their threads, wake them and count  *)
(* is the matter of the other modules: here a worker may claim any queued  *)
(* job.                                                                    *)
(*                                                                         *)
(* A second panic while a panic unwinds aborts the process, and a panic    *)
(* payload whose own destructor panics is not considered.                  *)
(***************************************************************************)
EXTENDS Naturals, Sequences, FiniteSets, FiniteSetsExt

CONSTANTS Jobs,      \* the jobs; each also names the thread that submits it
          Workers,   \* worker threads
          Tickets,   \* threads that hold tickets of the ticketed jobs
          Stopper,   \* the thread that calls stop
          Mixes      \* the kinds of jobs that meet: a set of assignments of kinds to jobs

Threads == Jobs \cup Workers \cup Tickets \cup {Stopper}

(***************************************************************************)
(* "detached" comes from submit, "callable" from submit_callable and       *)
(* submit_tracked_callable, "custom" from PoolJob::new, with_accept and    *)
(* prepare_cancellable (whose ticket need not be used), and "foreign" from *)
(* prepare_cancellable of another pool.                                    *)
(***************************************************************************)
Kinds == {"detached", "callable", "custom", "foreign"}

ASSUME MixesAssumption == Mixes \subseteq [Jobs -> Kinds]

\* Each thread plays one part: workers belong to the pool, the others call it.
ASSUME PartsAssumption == /\ Jobs \cap Workers = {} /\ Jobs \cap Tickets = {} /\ Workers \cap Tickets = {}
                          /\ Stopper \notin Jobs \cup Workers \cup Tickets

VARIABLES
    fixed,      \* whether this is the fixed pool
    kind,       \* per job: how it was made
    open,       \* the admission gate
    stopNow,    \* stop has begun
    inside,     \* the submitters that hold the submit guard
    stage,      \* per job: what the pool counts it as
    parts,      \* per job: the user's closures and values not yet destroyed
    called,     \* history: per job, the callbacks invoked, in order
    requested,  \* the jobs whose cancellation was reserved during acceptance
    slot,       \* per job: the state of its TaskSlot
    worker,     \* per worker: its life
    code,       \* per thread: what it has yet to do
    what,       \* per thread: the job it does it for (itself if it never had one)
    unwound     \* per thread: whether its last catch_unwind caught a panic

vars == <<fixed, kind, open, stopNow, inside, stage, parts, called, requested, slot,
          worker, code, what, unwound>>
pool == <<fixed, kind, open, stopNow>>

-----------------------------------------------------------------------------
\* The code of the operations, down to the user code it calls.

UserCode == {"accept", "run", "cancel", "drop",
             "before_worker_start", "before_task", "after_task", "after_worker_stop"}

\* run_hook
RunHook(h) == <<"try", h, "caught">>

\* PoolJob::accept
Accept(j) == CASE kind[j] = "detached" -> <<>>
               [] kind[j] = "callable" -> <<"slotAccept">>
               [] OTHER                -> <<"try", "accept", "caught">>

\* Seeded fault: only the callback is protected, not what is left of the job.
RunUncaught(j) ==
    IF kind[j] = "callable" THEN <<"slotStart", "try", "run", "caught", "slotFinish", "drop">>
                            ELSE <<"try", "run", "caught", "drop">>

\* PoolJob::run inside the worker's own catch_unwind; what the job still holds is
\* destroyed between the two.
Run(j) ==
    IF kind[j] = "callable" THEN <<"try", "slotStart", "try", "run", "caught", "slotFinish", "drop", "caught">>
                            ELSE <<"try", "try", "run", "caught", "drop", "caught">>

\* Seeded fault: the handle of a cancelled callable is forgotten.
CancelForgetsHandle(j) == CASE kind[j] \in {"detached", "callable"} -> <<"try", "drop", "caught">>
                            [] OTHER                                -> <<"try", "try", "cancel", "caught", "drop", "caught">>

\* PoolJob::cancel
Cancel(j) == CASE kind[j] = "detached" -> <<"try", "drop", "caught">>
               [] kind[j] = "callable" -> <<"try", "slotCancel", "drop", "caught">>
               [] OTHER                -> <<"try", "try", "cancel", "caught", "drop", "caught">>

\* PoolJob::discard
Discard == <<"try", "drop", "caught">>

\* job.cancel() and finish_cancelled_job, the same for stop, tickets, submitters and workers.
CancelThenFinish(j) == Cancel(j) \o <<"finish">>

\* run_with_task_hooks and finish_running_job
RunThenFinish(j) == RunHook("before_task") \o Run(j) \o RunHook("after_task") \o <<"finish">>

\* Seeded fault: the captures of a rejected job outlive the submit guard.
LeaveThenDiscard == <<"leave">> \o Discard

\* The rest of a submission that failed inside admission.
DiscardThenLeave == Discard \o <<"leave">>

\* The end of a worker.
HookThenExit == RunHook("after_worker_stop") \o <<"exit">>

-----------------------------------------------------------------------------
\* The steps of a thread's code.

Marks == {"try", "caught"}

\* The suffix of c from position i; the limits of a catch_unwind are passed without a step.
Suffix(c, i) == SubSeq(c, i, Len(c))
Skip(c) == Suffix(c, Min({i \in DOMAIN c : c[i] \notin Marks} \cup {Len(c) + 1}))

At(t, i) == code[t] # <<>> /\ Head(code[t]) = i
Does(t, c) == code' = [code EXCEPT ![t] = Skip(c)]
Continue(t) == Does(t, Tail(code[t]))

\* The ends of the catch_unwinds that enclose the first instruction of c.
Enclosing(c) == LET count(m, i) == Cardinality({k \in 1 .. i : c[k] = m})
                IN  {i \in DOMAIN c : c[i] = "caught" /\ count("caught", i) > count("try", i)}

\* The constructor of the fixed pool has started its workers.
Init == /\ fixed \in BOOLEAN
        /\ kind \in Mixes /\ (fixed => \A j \in Jobs : kind[j] # "foreign")
        /\ open = TRUE /\ stopNow = FALSE /\ inside = {}
        /\ stage = [j \in Jobs |-> "new"]
        /\ parts = [j \in Jobs |-> IF kind[j] \in {"detached", "callable"} THEN {"run"} ELSE {"accept", "run", "cancel"}]
        /\ called = [j \in Jobs |-> <<>>]
        /\ requested = {}
        /\ slot = [j \in Jobs |-> IF kind[j] = "callable" THEN "pending" ELSE "absent"]
        /\ worker = [w \in Workers |-> IF fixed THEN "live" ELSE "off"]
        /\ code = [t \in Threads |-> IF fixed /\ t \in Workers THEN Skip(RunHook("before_worker_start"))
                                                         ELSE <<>>]
        /\ what = [t \in Threads |-> t]
        /\ unwound = [t \in Threads |-> FALSE]

\* User code ends: a callback has consumed its closure, a drop everything left.
EndsUserCode(t) ==
    LET i == Head(code[t])
        j == what[t]
    IN  /\ parts' = CASE i = "drop"                      -> [parts EXCEPT ![j] = {}]
                      [] i \in {"accept", "run", "cancel"} -> [parts EXCEPT ![j] = @ \ {i}]
                      [] OTHER                           -> parts
        /\ called' = IF i \in {"accept", "run", "cancel"} THEN [called EXCEPT ![j] = Append(@, i)] ELSE called
        /\ UNCHANGED <<pool, stage, requested, slot, what>>

Returns(t) == /\ code[t] # <<>> /\ Head(code[t]) \in UserCode
              /\ EndsUserCode(t)
              /\ Continue(t)
              /\ unwound' = [unwound EXCEPT ![t] = FALSE]
              /\ UNCHANGED <<inside, worker>>

\* Uncaught, it ends the thread: a submitter's guard is released, a worker stays counted.
Panics(t) == /\ code[t] # <<>> /\ Head(code[t]) \in UserCode
             /\ EndsUserCode(t)
             /\ unwound' = [unwound EXCEPT ![t] = TRUE]
             /\ LET ends == Enclosing(code[t])
                    dies == ends = {} IN
                   /\ Does(t, IF dies THEN <<>> ELSE Suffix(code[t], 1 + Min(ends)))
                   /\ inside' = IF dies THEN inside \ {t} ELSE inside
                   /\ worker' = IF dies /\ t \in Workers THEN [worker EXCEPT ![t] = "dead"] ELSE worker

\* TaskSlot and TaskRunner: a callable whose handle was cancelled is not run.
SlotStep(t) ==
    LET j == what[t] IN
    /\ \/ /\ At(t, "slotAccept")
          /\ slot' = [slot EXCEPT ![j] = "accepted"]
          /\ Continue(t)
       \/ /\ At(t, "slotStart") /\ slot[j] = "accepted"
          /\ slot' = [slot EXCEPT ![j] = "started"]
          /\ Continue(t)
       \/ /\ At(t, "slotStart") /\ slot[j] = "cancelled"
          /\ Does(t, Suffix(code[t], Min({i \in DOMAIN code[t] : code[t][i] = "drop"})))
          /\ UNCHANGED slot
       \/ /\ At(t, "slotFinish")
          /\ slot' = [slot EXCEPT ![j] = "done"]
          /\ Continue(t)
       \/ /\ At(t, "slotCancel")
          /\ slot' = [slot EXCEPT ![j] = IF @ = "accepted" THEN "cancelled" ELSE @]
          /\ Continue(t)
    /\ UNCHANGED <<pool, inside, stage, parts, called, requested, worker, what, unwound>>

\* The handle is cancelled by its owner before the callable starts.
CancelHandle(j) == /\ slot[j] = "accepted" /\ j \notin inside
                   /\ slot' = [slot EXCEPT ![j] = "cancelled"]
                   /\ UNCHANGED <<pool, inside, stage, parts, called, requested, worker, code, what, unwound>>

Finish(t) == /\ At(t, "finish")
             /\ stage' = [stage EXCEPT ![what[t]] = IF @ = "running" THEN "completed" ELSE "cancelled"]
             /\ Continue(t)
             /\ UNCHANGED <<pool, inside, parts, called, requested, slot, worker, what, unwound>>

CodeStep(t) == Returns(t) \/ Panics(t) \/ SlotStep(t) \/ Finish(t)

-----------------------------------------------------------------------------
\* submit

(***************************************************************************)
(* A ticketed job of another pool makes the dynamic pool's assert_pool     *)
(* panic in the caller, which destroys the job.  A closed gate refuses the *)
(* job outside admission.                                                  *)
(***************************************************************************)
Submit(j) ==
    /\ stage[j] = "new"
    /\ \/ /\ kind[j] = "foreign"
          /\ stage' = [stage EXCEPT ![j] = "refused"]
          /\ parts' = [parts EXCEPT ![j] = {}]
          /\ UNCHANGED <<inside, code>>
       \/ /\ kind[j] # "foreign" /\ ~open
          /\ stage' = [stage EXCEPT ![j] = "refused"]
          /\ Does(j, Discard)
          /\ UNCHANGED <<inside, parts>>
       \/ /\ kind[j] # "foreign" /\ open
          /\ stage' = [stage EXCEPT ![j] = "entered"]
          /\ inside' = inside \cup {j}
          /\ Does(j, <<"reserve">>)
          /\ UNCHANGED parts
    /\ UNCHANGED <<pool, called, requested, slot, worker, what, unwound>>

\* A worker's thread begins with its start hook; it is counted from here on.
Spawn(w) == /\ worker[w] = "off"
            /\ worker' = [worker EXCEPT ![w] = "live"]

\* The reservation fails, or a worker is there, or one is spawned; the fixed pool
\* only reserves a slot of the queue.
Reserve(j) ==
    /\ At(j, "reserve")
    /\ \/ /\ stage' = [stage EXCEPT ![j] = "refused"]
          /\ Does(j, DiscardThenLeave)
          /\ UNCHANGED worker
       \/ /\ stage' = [stage EXCEPT ![j] = "reserved"]
          /\ \/ /\ fixed \/ \E w \in Workers : worker[w] = "live"
                /\ Does(j, Accept(j) \o <<"enqueue", "leave">>)
                /\ UNCHANGED worker
             \/ \E w \in Workers :
                   /\ Spawn(w)
                   /\ code' = [code EXCEPT ![j] = Skip(Accept(j) \o <<"enqueue", "leave">>),
                                           ![w] = Skip(RunHook("before_worker_start"))]
    /\ UNCHANGED <<pool, inside, parts, called, requested, slot, what, unwound>>

\* Seeded fault: a job whose acceptance panicked is cancelled.
RejectByCancelling(j) ==
    /\ At(j, "enqueue") /\ unwound[j]
    /\ stage' = [stage EXCEPT ![j] = "rejected"]
    /\ Does(j, Cancel(j) \o <<"leave">>)
    /\ UNCHANGED <<pool, inside, parts, called, requested, slot, worker, what, unwound>>

\* Acceptance panicked: the slot is released, then the job is discarded.
RejectJob(j) ==
    /\ At(j, "enqueue") /\ unwound[j]
    /\ stage' = [stage EXCEPT ![j] = "rejected"]
    /\ Does(j, DiscardThenLeave)
    /\ UNCHANGED <<pool, inside, parts, called, requested, slot, worker, what, unwound>>

\* Accepted: publish, or cancel at once when a ticket asked for it meanwhile.
Enqueue(j) ==
    /\ At(j, "enqueue") /\ ~unwound[j]
    /\ \/ /\ j \in requested
          /\ stage' = [stage EXCEPT ![j] = "cancelling"]
          /\ Does(j, CancelThenFinish(j) \o <<"leave">>)
       \/ /\ j \notin requested
          /\ stage' = [stage EXCEPT ![j] = "queued"]
          /\ Continue(j)
    /\ UNCHANGED <<pool, inside, parts, called, requested, slot, worker, what, unwound>>

Leave(j) == /\ At(j, "leave")
            /\ inside' = inside \ {j}
            /\ Continue(j)
            /\ UNCHANGED <<pool, stage, parts, called, requested, slot, worker, what, unwound>>

SubmitterStep(j) == Submit(j) \/ Reserve(j) \/ RejectJob(j) \/ Enqueue(j) \/ Leave(j) \/ CodeStep(j)

-----------------------------------------------------------------------------
\* Workers

SpawnWorker(w) == /\ open
                  /\ Spawn(w)
                  /\ Does(w, RunHook("before_worker_start"))
                  /\ UNCHANGED <<pool, inside, stage, parts, called, requested, slot, what, unwound>>

Ready(w) == worker[w] = "live" /\ code[w] = <<>>

\* A worker takes a queued job to run; the fixed pool's worker may have stolen it
\* before it sees that stop has begun, and cancels it.
Claim(w) ==
    /\ Ready(w)
    /\ \E j \in Jobs :
          /\ stage[j] = "queued"
          /\ what' = [what EXCEPT ![w] = j]
          /\ \/ /\ ~stopNow
                /\ stage' = [stage EXCEPT ![j] = "running"]
                /\ Does(w, RunThenFinish(j))
             \/ /\ stopNow /\ fixed
                /\ stage' = [stage EXCEPT ![j] = "cancelling"]
                /\ Does(w, CancelThenFinish(j))
    /\ UNCHANGED <<pool, inside, parts, called, requested, slot, worker, unwound>>

\* When the pool is shutting down a worker that finds nothing queued ...
LoadQueued(w) == /\ Ready(w)
                 /\ ~open /\ ~stopNow /\ \A j \in Jobs : stage[j] # "queued"
                 /\ Does(w, <<"inflight">>)
                 /\ UNCHANGED <<pool, inside, stage, parts, called, requested, slot, worker, what, unwound>>

Exits(w) == /\ worker' = [worker EXCEPT ![w] = "exiting"]
            /\ Does(w, HookThenExit)

\* ... reads the submitters inside, and exits when there are none: one of them may
\* have published and left since.
LoadInflight(w) == /\ At(w, "inflight")
                   /\ \/ inside = {} /\ Exits(w)
                      \/ inside # {} /\ Continue(w) /\ UNCHANGED worker
                   /\ UNCHANGED <<pool, inside, stage, parts, called, requested, slot, what, unwound>>

\* When the pool is stopping it exits at once.
ExitOnStop(w) == /\ Ready(w) /\ stopNow
                 /\ Exits(w)
                 /\ UNCHANGED <<pool, inside, stage, parts, called, requested, slot, what, unwound>>

Exit(w) == /\ At(w, "exit")
           /\ worker' = [worker EXCEPT ![w] = "gone"]
           /\ Continue(w)
           /\ UNCHANGED <<pool, inside, stage, parts, called, requested, slot, what, unwound>>

WorkerStep(w) == Claim(w) \/ LoadQueued(w) \/ LoadInflight(w) \/ ExitOnStop(w) \/ Exit(w) \/ CodeStep(w)

-----------------------------------------------------------------------------
\* Tickets, shutdown and stop

\* cancel_queued while acceptance runs on another thread reserves the cancellation ...
ReserveCancellation(j) ==
    /\ kind[j] = "custom" /\ ~fixed
    /\ stage[j] = "reserved" /\ (At(j, "accept") \/ At(j, "enqueue"))
    /\ requested' = requested \cup {j}
    /\ UNCHANGED <<pool, inside, stage, parts, called, slot, worker, code, what, unwound>>

\* ... and of a queued job withdraws it.
Withdraw(t) ==
    /\ code[t] = <<>>
    /\ \E j \in Jobs : /\ kind[j] = "custom" /\ ~fixed /\ stage[j] = "queued"
                       /\ stage' = [stage EXCEPT ![j] = "cancelling"]
                       /\ what' = [what EXCEPT ![t] = j]
                       /\ Does(t, CancelThenFinish(j))
    /\ UNCHANGED <<pool, inside, parts, called, requested, slot, worker, unwound>>

TicketStep(t) == Withdraw(t) \/ CodeStep(t)

Shutdown == /\ open
            /\ open' = FALSE
            /\ UNCHANGED <<fixed, kind, stopNow, inside, stage, parts, called, requested, slot,
                           worker, code, what, unwound>>

BeginStop == /\ ~stopNow
             /\ open' = FALSE /\ stopNow' = TRUE
             /\ UNCHANGED <<fixed, kind, inside, stage, parts, called, requested, slot,
                            worker, code, what, unwound>>

\* stop cancels the queue once the submitters have left, one job after the other.
DrainOne == /\ stopNow /\ inside = {} /\ code[Stopper] = <<>>
            /\ \E j \in Jobs : /\ stage[j] = "queued"
                               /\ stage' = [stage EXCEPT ![j] = "cancelling"]
                               /\ what' = [what EXCEPT ![Stopper] = j]
                               /\ Does(Stopper, CancelThenFinish(j))
            /\ UNCHANGED <<pool, inside, parts, called, requested, slot, worker, unwound>>

StopStep == DrainOne \/ CodeStep(Stopper)

-----------------------------------------------------------------------------

ThreadStep(t) == \/ t \in Jobs /\ SubmitterStep(t)
                 \/ t \in Workers /\ WorkerStep(t)
                 \/ t \in Tickets /\ TicketStep(t)
                 \/ t = Stopper /\ StopStep

Next == \/ \E t \in Threads : ThreadStep(t)
        \/ \E w \in Workers : SpawnWorker(w)
        \/ \E j \in Jobs : CancelHandle(j) \/ ReserveCancellation(j)
        \/ Shutdown
        \/ BeginStop

(***************************************************************************)
(* User code comes to an end, by returning or by a panic, and the threads  *)
(* of the pool keep running.  Nobody has to submit, cancel or shut down.   *)
(***************************************************************************)
Fairness == /\ \A t \in Jobs \cup Tickets : WF_vars(code[t] # <<>> /\ ThreadStep(t))
            /\ \A w \in Workers : WF_vars(WorkerStep(w))
            /\ WF_vars(StopStep)

Spec == Init /\ [][Next]_vars /\ Fairness

-----------------------------------------------------------------------------

IsIdle == inside = {} /\ \A j \in Jobs : stage[j] \notin {"reserved", "queued", "running", "cancelling"}
IsTerminated == ~open /\ IsIdle /\ \A w \in Workers : worker[w] \in {"off", "gone"}

InUserCode(t) == code[t] # <<>> /\ \E i \in DOMAIN code[t] : code[t][i] \in UserCode

(***************************************************************************)
(* Nothing outlives what the pool reports.  When it is idle and join may   *)
(* return, every job that was admitted has lost its callbacks and captured *)
(* values, also a job that was cancelled or whose acceptance panicked.     *)
(* When it is terminated no callback, destructor or hook runs in it, on    *)
(* whatever thread; only a submitter that the closed gate refused may      *)
(* still discard its job.                                                  *)
(***************************************************************************)
NothingOutlivesThePool ==
    /\ IsIdle => \A j \in Jobs : stage[j] \notin {"new", "refused"} => parts[j] = {}
    /\ IsTerminated => \A t \in Threads : InUserCode(t) => t \in Jobs /\ stage[t] = "refused"

(***************************************************************************)
(* The callback protocol, whoever wins the job: nothing is called for a    *)
(* refused job, only accept when that panics, and otherwise accept before  *)
(* exactly one of run and cancel.  A callable whose handle was cancelled   *)
(* in time is called neither way.                                          *)
(***************************************************************************)
Accepted(j) == IF kind[j] \in {"detached", "callable"} THEN <<>> ELSE <<"accept">>
CallbackProtocol ==
    \A j \in Jobs :
       called[j] = CASE stage[j] = "completed" ->
                           IF slot[j] = "cancelled" THEN <<>> ELSE Accepted(j) \o <<"run">>
                     [] stage[j] = "cancelled" ->
                           IF kind[j] \in {"detached", "callable"} THEN <<>> ELSE <<"accept", "cancel">>
                     [] stage[j] = "rejected"  -> <<"accept">>
                     [] stage[j] = "queued"    -> Accepted(j)
                     [] stage[j] = "refused"   -> <<>>
                     [] OTHER                  -> called[j]

(***************************************************************************)
(* The handle of a callable is never left waiting and never lies: when the *)
(* pool has settled the job the handle is resolved, with a result if and   *)
(* only if the callable was called.                                        *)
(***************************************************************************)
HandleResolved ==
    \A j \in Jobs : kind[j] = "callable" /\ stage[j] \in {"completed", "cancelled"}
       => slot[j] = IF called[j] = <<"run">> THEN "done" ELSE "cancelled"

\* The workers of a pool that was shut down are gone and an accepted job is left: the
\* last of them read the queue before the job was published and the gate after its
\* submitter had left.  No panic has part in it (NoStrandedWork of the pool modules).
Stranded == /\ ~open /\ \E j \in Jobs : stage[j] = "queued"
            /\ \A w \in Workers : worker[w] \in {"off", "gone"}

(***************************************************************************)
(* Whatever panics, and on whatever thread: a job that somebody has taken  *)
(* is settled in the end, no thread is lost on the way.  A queued job is   *)
(* taken and a pool that was shut down terminates unless its workers left  *)
(* the job behind; a stopped pool terminates in any case.                  *)
(***************************************************************************)
PanicsAreContained ==
    /\ \A j \in Jobs : stage[j] \in {"running", "cancelling"} ~> stage[j] \in {"completed", "cancelled"}
    /\ \A j \in Jobs : stage[j] = "queued" ~> stage[j] # "queued" \/ Stranded
    /\ ~open ~> IsTerminated \/ Stranded
    /\ stopNow ~> IsTerminated
=============================================================================
