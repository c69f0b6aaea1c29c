--------------------- MODULE FixedPoolRefinement_proofs ---------------------
(***************************************************************************)
(* The fixed pool implements the executor service, step by step.           *)
(***************************************************************************)
EXTENDS FixedPool_proofs

\* A pool that says it is terminated is over, in the state a step leads to as well.
LEMMA OverNext == Inv' /\ IsTerminated' => PoolIsOver'
  <1>1. Inv /\ IsTerminated => PoolIsOver
    BY TerminatedIsOver DEF Inv
  <1> QED
    BY <1>1, PTL

\* A step the service does not see.
LEMMA Stutter ==
  ASSUME UNCHANGED <<open, lifecycle>>, IsTerminated' <=> IsTerminated,
         \A j \in Submitters : Stage(j)' = Stage(j)
  PROVE  UNCHANGED Service!vars
  BY DEF Service!vars

\* A step that moves one job.  It may end the service, if that was its last work.
LEMMA JobMoves ==
  ASSUME TypeOK, UNCHANGED <<open, lifecycle>>, ~IsTerminated, IsTerminated' => PoolIsOver',
         NEW j \in Submitters,
         \A i \in Submitters \ {j} : Stage(i)' = Stage(i),
         \/ Stage(j) = "none" /\ Stage(j)' = "submitting" /\ open
         \/ Stage(j) = "submitting" /\ Stage(j)' \in {"none", "accepted"}
         \/ Stage(j) = "accepted" /\ Stage(j)' \in {"running", "withdrawn"}
         \/ Stage(j) = "running" /\ Stage(j)' = "completed"
         \/ Stage(j) = "withdrawn" /\ Stage(j)' = "cancelled"
  PROVE  Service!Next
  <1> DEFINE stg == [i \in Submitters |-> Stage(i)]
             stp == [i \in Submitters |-> Stage(i)']
             from == Stage(j)
             to == Stage(j)'
  <1>1. stp[j] = to /\ stg[j] = from /\ to # from
    OBVIOUS
  <1>2. stp = [stg EXCEPT ![j] = to]
    <2>1. \A i \in Submitters \ {j} : Stage(i)' = Stage(i)
      OBVIOUS
    <2> HIDE DEF to, from
    <2> QED
      BY <1>1, <2>1 DEF to
  <1>3. Service!MayTerminate
    <2>1. CASE ~IsTerminated'
      BY <2>1 DEF Service!MayTerminate
    <2>2. CASE IsTerminated'
      <3>1. Service!Quiet'
        BY <2>2 DEF Service!Quiet, PoolIsOver, Stage
      <3> QED
        BY <2>2, <3>1 DEF Service!MayTerminate, IsTerminated
    <2> QED
      BY <2>1, <2>2
  <1>4. Service!Step(j)
    BY <1>1, <1>2, <1>3 DEF Service!Step, Service!Submit, Service!Reject, Service!Accept, Service!Start, Service!Complete,
                      Service!Withdraw, Service!Cancel, Service!Moves
  <1> QED
    BY <1>1, <1>4 DEF Service!Next

\* A step of which the service sees neither jobs, gate nor lifecycle.
LEMMA Unseen ==
  ASSUME UNCHANGED <<open, lifecycle, live, job>>, Inside' = Inside
  PROVE  UNCHANGED Service!vars
  <1>1. IsTerminated' <=> IsTerminated
    BY DEF IsTerminated, IsIdle, Under
  <1>2. \A j \in Submitters : Stage(j)' = Stage(j)
    BY DEF Stage
  <1> QED
    BY <1>1, <1>2, Stutter

\* A step that only advances the lifecycle, or only ends the service.
LEMMA PhaseMoves ==
  ASSUME TypeOK, open' = open, IsTerminated => IsTerminated', IsTerminated' => PoolIsOver',
         \A j \in Submitters : Stage(j)' = Stage(j),
         \/ lifecycle' = lifecycle
         \/ ~open /\ lifecycle = "Running" /\ lifecycle' \in {"ShuttingDown", "Stopping"}
         \/ ~open /\ lifecycle = "ShuttingDown" /\ lifecycle' = "Stopping"
  PROVE  [Service!Next]_Service!vars
  <1>0. [j \in Submitters |-> Stage(j)'] = [j \in Submitters |-> Stage(j)]
    OBVIOUS
  <1>1. CASE IsTerminated
    BY <1>0, <1>1 DEF Service!vars
  <1>2. CASE ~IsTerminated /\ ~IsTerminated'
    <2>1. CASE lifecycle' = lifecycle
      BY <1>0, <1>2, <2>1 DEF Service!vars
    <2>2. CASE lifecycle' # lifecycle
      BY <1>0, <1>2, <2>2 DEF Service!Next, Service!Advance, Service!Rank
    <2> QED
      BY <2>1, <2>2
  <1>3. CASE ~IsTerminated /\ IsTerminated'
    <2>1. Service!Quiet
      <3>1. ~open' /\ \A j \in Submitters : Stage(j)' \in {"none", "completed", "cancelled"}
        BY <1>3 DEF PoolIsOver, Stage
      <3> QED
        BY <3>1 DEF Service!Quiet
    <2>2. ~open
      BY <1>3 DEF PoolIsOver
    <2> QED
      BY <1>0, <1>3, <2>1, <2>2 DEF Service!Next, Service!Advance, Service!Rank, TypeOK, DataOK
  <1> QED
    BY <1>1, <1>2, <1>3

\* While a worker lives, the pool is not terminated.
LEMMA LiveWorker ==
  ASSUME TypeOK, NEW w \in Workers, pc[w] \notin {"new", "off"}
  PROVE  ~IsTerminated
  <1>1. w \in Active
    BY DEF Active
  <1>2. Cardinality(Active) # 0
    BY <1>1, CountersFinite, FS_EmptySet
  <1> QED
    BY <1>2, CountersFinite DEF TypeOK, CountersExact, IsTerminated

USE DEF monitor, flags, wakes, jobs, locals, At, Goto, CanLock, NotifyAll, Reads

\* A submission, from the gate to the last departure.
LEMMA SubmitterRefines ==
  ASSUME Inv, Inv', NEW s \in Submitters, SubmitterStep(s)
  PROVE  [Service!Next]_Service!vars
  <1> USE Roles
  <1>0. /\ s \in Threads /\ DOMAIN pc = Threads /\ DOMAIN job = Submitters /\ TypeOK
        /\ UNCHANGED <<lifecycle, open>> /\ \A u \in Submitters \ {s} : pc'[u] = pc[u]
    BY SubmitterFrame DEF Inv, TypeOK, PcOK, DataOK
  <1>1. ASSUME s \in Inside, s \in Inside'
        PROVE  ~IsTerminated /\ ~IsTerminated'
    BY <1>1 DEF IsTerminated, IsIdle
  <1>2. CASE BeginSubmit(s)
    <2>1. CASE open
      <3>1. Stage(s) = "none" /\ Stage(s)' = "submitting" /\ \A i \in Submitters \ {s} : Stage(i)' = Stage(i)
        BY <1>0, <1>2, <2>1 DEF BeginSubmit, Calls, Stage, Inside, Inv, Own, Unpushed
      <3>2. ~IsTerminated /\ ~IsTerminated'
        BY <1>0, <2>1 DEF Inv, GateFirst, IsTerminated
      <3> QED
        BY <1>0, <2>1, <3>1, <3>2, JobMoves
    <2>2. CASE ~open
      <3>1. UNCHANGED <<live, job>> /\ Inside' = Inside
        BY <1>0, <1>2, <2>2 DEF BeginSubmit, Calls, Inside
      <3> QED
        BY <1>0, <3>1, Unseen
    <2> QED
      BY <2>1, <2>2
  <1>3. CASE ReserveQueueSlot(s) \/ AcceptPanics(s)
    <2>1. s \in Inside /\ s \in Inside'
      BY <1>0, <1>3 DEF ReserveQueueSlot, AcceptPanics, Inside
    <2>2. \A i \in Submitters : Stage(i)' = Stage(i)
      BY <1>0, <1>3, <2>1 DEF ReserveQueueSlot, AcceptPanics, Stage, Inside, Inv, Own, Unpushed
    <2> QED
      BY <1>0, <1>1, <2>1, <2>2, Stutter
  <1>4. CASE EnqueueJob(s)
    <2>1. CASE At(s, "accepting")
      <3>1. s \in Inside /\ s \in Inside'
        BY <1>0, <1>4, <2>1 DEF EnqueueJob, Inside
      <3>2. Stage(s) = "submitting" /\ Stage(s)' = "accepted" /\ \A i \in Submitters \ {s} : Stage(i)' = Stage(i)
        BY <1>0, <1>4, <2>1, <3>1 DEF EnqueueJob, Stage, Inside, Inv, Own, Unpushed
      <3> QED
        BY <1>0, <1>1, <3>1, <3>2, JobMoves
    <2>2. CASE At(s, "push")
      <3>1. UNCHANGED <<live, job>> /\ Inside' = Inside
        BY <1>0, <1>4, <2>2 DEF EnqueueJob, Inside
      <3> QED
        BY <1>0, <3>1, Unseen
    <2> QED
      BY <1>4, <2>1, <2>2 DEF EnqueueJob
  <1>5. CASE LoadIdle(s) \/ RequestWake(s) \/ Depart(s)
    <2>1. UNCHANGED <<live, job>> /\ Inside' = Inside
      BY <1>0, <1>5 DEF LoadIdle, RequestWake, Depart, Inside
    <2> QED
      BY <1>0, <2>1, Unseen
  <1>6. CASE NotifyUnderLock(s)
    <2>1. pc[s] \in SubmitterPcs
      BY DEF Inv, TypeOK, PcOK
    <2>2. UNCHANGED <<live, job>> /\ Inside' = Inside
      BY <1>0, <1>6, <2>1 DEF NotifyUnderLock, Inside, SubmitterPcs
    <2> QED
      BY <1>0, <2>2, Unseen
  <1>7. CASE Leave(s)
    <2>1. /\ UNCHANGED <<live, job>> /\ s \in Inside /\ s \notin Inside'
          /\ \A i \in Submitters \ {s} : i \in Inside' <=> i \in Inside
      BY <1>0, <1>7 DEF Leave, Inside
    <2>2. \A i \in Submitters \ {s} : Stage(i)' = Stage(i)
      BY <2>1 DEF Stage
    <2>3. ~IsTerminated
      BY <2>1 DEF IsTerminated, IsIdle
    <2>4. CASE job[s] = "none"
      <3>1. Stage(s) = "submitting" /\ Stage(s)' = "none"
        BY <2>1, <2>4 DEF Stage
      <3> QED
        BY <1>0, <2>2, <2>3, <3>1, JobMoves, OverNext
    <2>5. CASE job[s] # "none"
      <3>1. job[s] # "reserved"
        BY <1>7 DEF Leave, Inv, Own, Unpushed
      <3>2. Stage(s)' = Stage(s)
        BY <2>1, <2>5, <3>1 DEF Stage
      <3>3. \A i \in Submitters : Stage(i)' = Stage(i)
        BY <2>2, <3>2
      <3> QED
        BY <1>0, <2>3, <3>3, PhaseMoves, OverNext
    <2> QED
      BY <2>4, <2>5
  <1> QED
    BY <1>2, <1>3, <1>4, <1>5, <1>6, <1>7 DEF SubmitterStep

\* The job a thread is about to move is an unfinished job in its hands.
LEMMA InHand ==
  ASSUME Inv, NEW t \in Workers \cup Stoppers, pc[t] \in {"mark", "cancelClaimed", "run", "cancel"},
         pc[t] = "cancel" \/ t \in Workers
  PROVE  /\ Head(work[t]) \in Submitters /\ job[Head(work[t])] = Hand(pc[t])
         /\ ~IsTerminated
  <1> USE Roles
  <1> DEFINE j == Head(work[t])
  <1>1. t \in Threads /\ work[t] # <<>> /\ work[t] \in Seq(Submitters) /\ IsInjective(work[t])
    <2>1. work[t] # <<>>
      <3>1. CASE pc[t] = "cancel"
        BY <3>1 DEF Inv, Own, HandsFit
      <3>2. CASE t \in Workers
        <4> PICK i \in Submitters : work[t] = <<i>>
          BY <3>2 DEF Inv, Own, HandsFit
        <4> QED
          BY OneJob
      <3> QED
        BY <3>1, <3>2
    <2> QED
      BY <2>1 DEF Inv, TypeOK, DataOK, Own, OneHolder
  <1>2. j \in Submitters /\ j \in ToSet(work[t])
    BY <1>1, TailDistinct
  <1> HIDE DEF j
  <1>3. job[j] = Hand(pc[t])
    BY <1>1, <1>2 DEF Inv, Own, OneHolder
  <1>4. ~IsTerminated
    BY <1>2, <1>3 DEF IsTerminated, IsIdle, Under, Hand
  <1> QED
    BY <1>2, <1>3, <1>4 DEF j

\* One job moves and no thread enters or leaves.
LEMMA HandMoves ==
  ASSUME Inv, Inv', UNCHANGED <<open, lifecycle>>, Inside' = Inside, ~IsTerminated,
         NEW j \in Submitters, \A i \in Submitters \ {j} : job'[i] = job[i],
         \/ job[j] = "queued" /\ job'[j] \in {"running", "cancelling"}
         \/ job[j] = "running" /\ job'[j] = "completed"
         \/ job[j] = "cancelling" /\ job'[j] = "cancelled"
  PROVE  Service!Next
  <1>1. \A i \in Submitters \ {j} : Stage(i)' = Stage(i)
    BY DEF Stage
  <1>2. \/ Stage(j) = "accepted" /\ Stage(j)' \in {"running", "withdrawn"}
        \/ Stage(j) = "running" /\ Stage(j)' = "completed"
        \/ Stage(j) = "withdrawn" /\ Stage(j)' = "cancelled"
    BY DEF Stage
  <1>3. TypeOK
    BY DEF Inv
  <1>4. IsTerminated' => PoolIsOver'
    BY OverNext
  <1> QED
    BY <1>1, <1>2, <1>3, <1>4, JobMoves

\* A cancellation, by the worker that claimed the job or by stop.
LEMMA CancelRefines ==
  ASSUME Inv, Inv', NEW t \in Workers \cup Stoppers, CancelCallback(t)
  PROVE  Service!Next
  <1> USE Roles
  <1> DEFINE j == Head(work[t])
  <1>1. t \in Threads /\ pc[t] = "cancel" /\ DOMAIN job = Submitters /\ DOMAIN pc = Threads
    BY DEF CancelCallback, Inv, TypeOK, DataOK, PcOK
  <1>2. j \in Submitters /\ job[j] = "cancelling" /\ ~IsTerminated
    BY <1>1, InHand DEF Hand
  <1>3. job'[j] = "cancelled" /\ \A i \in Submitters \ {j} : job'[i] = job[i]
    BY <1>1, <1>2 DEF CancelCallback
  <1> HIDE DEF j
  <1>4. UNCHANGED <<open, lifecycle>> /\ Inside' = Inside
    BY <1>1 DEF CancelCallback, Inside
  <1> QED
    BY <1>2, <1>3, <1>4, HandMoves

\* A worker claims, runs and settles a job, or cancels it; its exit may end the service.
LEMMA WorkerRefines ==
  ASSUME Inv, Inv', NEW w \in Workers, WorkerStep(w)
  PROVE  [Service!Next]_Service!vars
  <1> USE Roles
  <1> DEFINE j == Head(work[w])
  <1>0. /\ w \in Threads /\ DOMAIN pc = Threads /\ DOMAIN job = Submitters /\ TypeOK
        /\ UNCHANGED <<lifecycle, open>> /\ Inside' = Inside
    <2>1. /\ UNCHANGED <<lifecycle, open>> /\ \A u \in Threads \ {w} : pc'[u] = pc[u]
      BY WorkerFrame DEF Inv
    <2>2. Inside' = Inside
      BY <2>1 DEF Inside
    <2> QED
      BY <2>1, <2>2 DEF Inv, TypeOK, PcOK, DataOK
  <1>1. CASE MarkRunning(w) \/ BeginCancelClaimed(w)
    <2>1. pc[w] \in {"mark", "cancelClaimed"}
      BY <1>1 DEF MarkRunning, BeginCancelClaimed
    <2>2. j \in Submitters /\ job[j] = "queued" /\ ~IsTerminated
      BY <2>1, InHand DEF Hand
    <2>3. job'[j] \in {"running", "cancelling"} /\ \A i \in Submitters \ {j} : job'[i] = job[i]
      BY <1>0, <1>1, <2>2 DEF MarkRunning, BeginCancelClaimed
    <2> HIDE DEF j
    <2> QED
      BY <1>0, <2>2, <2>3, HandMoves
  <1>2. CASE Run(w)
    <2>1. pc[w] = "run"
      BY <1>2 DEF Run
    <2>2. j \in Submitters /\ job[j] = "running" /\ ~IsTerminated
      BY <2>1, InHand DEF Hand
    <2>3. job'[j] = "completed" /\ \A i \in Submitters \ {j} : job'[i] = job[i]
      BY <1>0, <1>2, <2>2 DEF Run
    <2> HIDE DEF j
    <2> QED
      BY <1>0, <2>2, <2>3, HandMoves
  <1>3. CASE CancelCallback(w)
    BY <1>3, CancelRefines
  <1>4. CASE WorkerExited(w)
    <2>1. pc[w] \notin {"new", "off"} /\ job' = job
      BY <1>4 DEF WorkerExited
    <2>2. ~IsTerminated
      BY <1>0, <2>1, LiveWorker
    <2>3. \A i \in Submitters : Stage(i)' = Stage(i)
      BY <1>0, <2>1 DEF Stage
    <2> QED
      BY <1>0, <2>2, <2>3, PhaseMoves, OverNext
  <1>5. ASSUME UNCHANGED <<live, job>>
        PROVE  UNCHANGED Service!vars
    BY <1>0, <1>5, Unseen
  <1>6. CASE TryTakeJob(w) \/ StealOne(w) \/ AcceptClaimedJob(w) \/ Settle(w) \/ NotifyUnderLock(w)
    BY <1>5, <1>6 DEF TryTakeJob, StealOne, AcceptClaimedJob, Settle, NotifyUnderLock
  <1>7. CASE Loop(w) \/ SpinQueued(w) \/ SpinPending(w) \/ SpinOpen(w) \/ Relock(w)
    BY <1>5, <1>7 DEF Loop, SpinQueued, SpinPending, SpinOpen, Relock, MarkIdle
  <1>8. CASE IdleQueued(w) \/ IdlePending(w) \/ Awaken(w) \/ Unmark(w) \/ Consume(w)
    BY <1>5, <1>8 DEF IdleQueued, IdlePending, Parks, Awaken, Unmark, Consume
  <1>9. CASE SdInflight(w) \/ SdMark(w) \/ SdQueued(w) \/ SdPark(w)
    BY <1>5, <1>9 DEF SdInflight, SdMark, MarkIdle, SdQueued, SdPark, Parks
  <1> QED
    BY <1>1, <1>2, <1>3, <1>4, <1>6, <1>7, <1>8, <1>9 DEF WorkerStep

\* stop withdraws what it drained in one step.
LEMMA DrainRefines ==
  ASSUME Inv, Inv', NEW t \in Stoppers, Drain(t)
  PROVE  [Service!Next]_Service!vars
  <1> USE Roles
  <1>0. /\ t \in Threads /\ t \notin Submitters /\ pc[t] = "drain" /\ DOMAIN pc = Threads
        /\ UNCHANGED <<lifecycle, open, live>> /\ Inside' = Inside
    <2>1. t \in Threads /\ t \notin Submitters /\ pc[t] = "drain" /\ DOMAIN pc = Threads
      BY DEF Drain, Inv, TypeOK, PcOK
    <2> QED
      BY <2>1 DEF Drain, Inside
  <1>1. CASE queue # <<>>
    BY <1>0, <1>1, Unseen DEF Drain
  <1>2. CASE queue = <<>>
    <2>1. \A i \in Submitters : job'[i] = IF i \in ToSet(work[t]) THEN "cancelling" ELSE job[i]
      BY <1>2 DEF Drain
    <2>2. \A i \in Submitters : i \in ToSet(work[t]) => job[i] = "queued"
      BY <1>0 DEF Inv, Own, OneHolder, Hand
    <2>3. \A i \in Submitters : \/ Stage(i)' = Stage(i)
                                \/ Stage(i) = "accepted" /\ Stage(i)' = "withdrawn"
      BY <1>0, <2>1, <2>2 DEF Stage
    <2>4. IsTerminated' <=> IsTerminated
      BY <1>0, <2>1, <2>2 DEF IsTerminated, IsIdle, Under
    <2>5. CASE \A i \in Submitters : Stage(i)' = Stage(i)
      BY <1>0, <2>4, <2>5, Stutter
    <2>6. CASE \E i \in Submitters : Stage(i)' # Stage(i)
      <3> DEFINE stg == [i \in Submitters |-> Stage(i)]
                 stp == [i \in Submitters |-> Stage(i)']
      <3>1. stp # stg
        BY <2>6
      <3>2. \A i \in Submitters : stp[i] = stg[i] \/ (stg[i] = "accepted" /\ stp[i] = "withdrawn")
        BY <2>3
      <3>3. Service!WithdrawAll
        BY <1>0, <2>4, <3>1, <3>2 DEF Service!WithdrawAll
      <3> QED
        BY <3>3 DEF Service!Next
    <2> QED
      BY <2>5, <2>6
  <1> QED
    BY <1>1, <1>2

\* Closing the gate, by shutdown, stop or a failed construction.
LEMMA CloseRefines ==
  ASSUME Inv, open' = FALSE, UNCHANGED <<lifecycle, live, job>>, Inside' = Inside
  PROVE  [Service!Next]_Service!vars
  <1>1. IsTerminated' <=> IsTerminated
    BY DEF IsTerminated, IsIdle, Under
  <1>2. \A j \in Submitters : Stage(j)' = Stage(j)
    BY DEF Stage
  <1>3. [j \in Submitters |-> Stage(j)'] = [j \in Submitters |-> Stage(j)]
    BY <1>2
  <1>4. CASE open
    BY <1>1, <1>3, <1>4 DEF Service!Next, Service!Close, Inv, TypeOK, DataOK
  <1>5. CASE ~open
    <2>1. open' = open
      BY <1>5 DEF Inv, TypeOK, DataOK
    <2> QED
      BY <1>1, <1>2, <2>1, Stutter
  <1> QED
    BY <1>4, <1>5

\* The callers of shutdown, stop, join and wait_for_termination.
LEMMA ControllerRefines ==
  ASSUME Inv, Inv', NEW t \in Controllers, ControllerStep(t)
  PROVE  [Service!Next]_Service!vars
  <1> USE Roles
  <1>0. /\ t \in Threads /\ t \notin Workers \cup Submitters /\ pc[t] \in ControllerPcs
        /\ DOMAIN pc = Threads /\ TypeOK /\ Inside' = Inside
    <2>1. t \in Threads /\ t \notin Workers \cup Submitters /\ pc[t] \in ControllerPcs /\ DOMAIN pc = Threads
      BY DEF Inv, TypeOK, PcOK
    <2>2. \A u \in Threads \ {t} : pc'[u] = pc[u]
      BY ControllerFrame DEF Inv
    <2> QED
      BY <2>1, <2>2 DEF Inside, Inv
  <1>1. ASSUME UNCHANGED <<live, job, open, lifecycle>>
        PROVE  UNCHANGED Service!vars
    BY <1>0, <1>1, Unseen
  <1>2. ASSUME UNCHANGED <<live, job, open>>, pc[t] \in {"shutdown", "stop"}
        PROVE  [Service!Next]_Service!vars
    <2>1. ~open
      BY <1>2 DEF Inv, GateFirst
    <2>2. \A i \in Submitters : Stage(i)' = Stage(i)
      BY <1>0, <1>2 DEF Stage
    <2>3. \/ lifecycle' = lifecycle
          \/ lifecycle = "Running" /\ lifecycle' = "ShuttingDown"
          \/ lifecycle # "Stopping" /\ lifecycle' = "Stopping"
      BY ControllerFrame DEF Inv
    <2>4. lifecycle \in {"Running", "ShuttingDown", "Stopping"}
      BY <1>0 DEF TypeOK, DataOK
    <2>5. IsTerminated => IsTerminated'
      BY <1>0, <1>2, <2>3, <2>4 DEF IsTerminated, IsIdle, Under
    <2> QED
      BY <1>0, <1>2, <2>1, <2>2, <2>3, <2>4, <2>5, PhaseMoves, OverNext
  <1>3. CASE CloseAdmission(t, "shutdown") \/ CloseAdmission(t, "stopNow")
    BY <1>0, <1>3, CloseRefines DEF CloseAdmission
  <1>4. CASE BeginShutdown(t) \/ BeginStop(t)
    BY <1>2, <1>4 DEF BeginShutdown, BeginStop
  <1>5. CASE SetStopNow(t) \/ AwaitSubmitters(t) \/ ResumeStop(t) \/ NotifyUnderLock(t)
    BY <1>1, <1>5 DEF SetStopNow, AwaitSubmitters, ResumeStop, NotifyUnderLock
  <1>6. CASE BeginJoin(t) \/ Join(t) \/ AwaitTermination(t) \/ TimeoutElapses(t)
    BY <1>1, <1>6 DEF BeginJoin, Join, AwaitTermination, TimeoutElapses
  <1>7. CASE t \in Stoppers /\ Drain(t)
    BY <1>7, DrainRefines
  <1>8. CASE t \in Stoppers /\ CancelCallback(t)
    BY <1>8, CancelRefines
  <1> QED
    BY <1>3, <1>4, <1>5, <1>6, <1>7, <1>8 DEF ControllerStep, ShutdownStep, StopStep

\* While the pool is built its service runs, untouched; a failed construction stops it.
LEMMA BuilderRefines ==
  ASSUME Inv, Inv', BuilderStep
  PROVE  [Service!Next]_Service!vars
  <1> USE Roles
  <1>0. DOMAIN pc = Threads /\ TypeOK
    BY DEF Inv, TypeOK, PcOK
  <1>1. job' = job /\ Inside' = Inside
    <2>1. CASE SpawnWorker
      BY <1>0, <2>1 DEF SpawnWorker, Inside
    <2>2. CASE ReserveWorkerSlot \/ RollbackWorkerSlot \/ StopAfterFailedBuild \/ JoinStartedWorkers
      BY <1>0, <2>2 DEF ReserveWorkerSlot, RollbackWorkerSlot, StopAfterFailedBuild, JoinStartedWorkers, Inside
    <2> QED
      BY <2>1, <2>2 DEF BuilderStep
  <1>2. \A i \in Submitters : Stage(i)' = Stage(i)
    BY <1>1 DEF Stage
  <1>3. CASE ReserveWorkerSlot \/ RollbackWorkerSlot
    <2>1. lifecycle = "Running" /\ UNCHANGED <<lifecycle, open>>
      BY <1>3 DEF ReserveWorkerSlot, RollbackWorkerSlot, Inv, GateFirst
    <2>2. ~IsTerminated /\ ~IsTerminated'
      BY <2>1 DEF IsTerminated
    <2> QED
      BY <1>2, <2>1, <2>2, Stutter
  <1>4. CASE SpawnWorker \/ JoinStartedWorkers \/ (At(Builder, "failFlag") /\ StopAfterFailedBuild)
    BY <1>1, <1>4, Unseen DEF SpawnWorker, JoinStartedWorkers, StopAfterFailedBuild
  <1>5. CASE At(Builder, "failClose") /\ StopAfterFailedBuild
    BY <1>1, <1>5, CloseRefines DEF StopAfterFailedBuild
  <1>6. CASE At(Builder, "failState") /\ StopAfterFailedBuild
    <2>1. /\ ~open /\ lifecycle = "Running" /\ lifecycle' = "Stopping" /\ open' = open
      BY <1>6 DEF StopAfterFailedBuild, Inv, GateFirst
    <2>2. ~IsTerminated
      BY <2>1 DEF IsTerminated
    <2> QED
      BY <1>0, <1>2, <2>1, <2>2, PhaseMoves, OverNext
  <1>7. ASSUME StopAfterFailedBuild
        PROVE  At(Builder, "failClose") \/ At(Builder, "failFlag") \/ At(Builder, "failState")
    BY <1>7 DEF StopAfterFailedBuild
  <1> QED
    BY <1>3, <1>4, <1>5, <1>6, <1>7 DEF BuilderStep

\* The initial state, and every step.
LEMMA InitRefines == Init => Service!Init
  <1> SUFFICES ASSUME Init
               PROVE  Service!Init
    OBVIOUS
  <1>1. \A j \in Submitters : pc[j] = "start" /\ job[j] = "none"
    BY RolesAssumption DEF Init, Threads, Callers
  <1>2. \A j \in Submitters : Stage(j) = "none"
    BY <1>1 DEF Stage, Inside
  <1>3. open = TRUE /\ ~IsTerminated /\ lifecycle = "Running"
    BY DEF Init, IsTerminated
  <1> QED
    BY <1>2, <1>3 DEF Service!Init

\* Every step of the pool is a step of the service, or unseen by it.
LEMMA StepRefines == Inv /\ Inv' /\ [Next]_vars => [Service!Next]_Service!vars
  <1> SUFFICES ASSUME Inv, Inv', [Next]_vars
               PROVE  [Service!Next]_Service!vars
    OBVIOUS
  <1> USE Roles
  <1>1. CASE UNCHANGED vars
    <2>1. UNCHANGED <<open, lifecycle, live, job>> /\ Inside' = Inside
      BY <1>1 DEF vars, Inside
    <2> QED
      BY <2>1, Unseen
  <1>2. CASE Next
    BY <1>2, SubmitterRefines, WorkerRefines, ControllerRefines, BuilderRefines DEF Next, ThreadStep, ControllerStep
  <1> QED
    BY <1>1, <1>2

(***************************************************************************)
(* The fixed pool implements the executor service, for any number of       *)
(* workers, callers and jobs: counting, moving, running and cancelling a   *)
(* job are separate steps of several threads, and its clients see each job *)
(* admitted while the pool is open, accepted once, then run or cancelled   *)
(* and never both, and a lifecycle that only advances and ends for good    *)
(* with no work left.                                                      *)
(***************************************************************************)
THEOREM FixedPoolImplementsService == Spec => ImplementsService
  BY InitRefines, StepRefines, InvHolds, PTL DEF Spec, ImplementsService, Service!Spec
=============================================================================
