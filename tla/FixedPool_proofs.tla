-------------------------- MODULE FixedPool_proofs --------------------------
(***************************************************************************)
(* The fixed pool for any number of submitters, workers and callers.       *)
(***************************************************************************)
EXTENDS FixedPool, PoolLemmas

-----------------------------------------------------------------------------
(***************************************************************************)
(* Types and counters.  A step moves one thread, or starts a worker, and   *)
(* a counter changes by what the move adds to the set it stands for.       *)
(***************************************************************************)

\* What a thread at p adds to live_workers, to the idle count and to the waiter count.
LiveWeight(t, p) == IF \/ t \in Workers /\ p \notin {"new", "off"}
                       \/ t = Builder /\ p \in {"spawn", "rollback"} THEN 1 ELSE 0
IdleWeight(t, p) == IF t \in Workers /\ p \in {"idleQueued", "idlePending", "parked", "unmark", "unmarkLoop",
                                               "sdQueued", "sdPark"} THEN 1 ELSE 0
JoinWeight(t, p) == IF t \in Joiners /\ p = "join" THEN 1 ELSE 0

\* A step that moves t alone and keeps the counters in step with the move.
Balanced(t) == /\ \A u \in Threads \ {t} : pc'[u] = pc[u]
               /\ live' = live + LiveWeight(t, pc'[t]) - LiveWeight(t, pc[t])
               /\ idle' = idle + IdleWeight(t, pc'[t]) - IdleWeight(t, pc[t])
               /\ idleWaiters' = idleWaiters + JoinWeight(t, pc'[t]) - JoinWeight(t, pc[t])

\* The workers and the joiners are finitely many, so the counters are natural numbers.
LEMMA CountersFinite ==
  /\ IsFiniteSet(Active) /\ Cardinality(Active) \in Nat
  /\ IsFiniteSet(MarkedIdle) /\ Cardinality(MarkedIdle) \in Nat
  /\ IsFiniteSet(Joining) /\ Cardinality(Joining) \in Nat
  <1>1. Active \subseteq Threads /\ MarkedIdle \subseteq Threads /\ Joining \subseteq Threads
    BY DEF Active, MarkedIdle, Joining, Threads, Callers, Controllers
  <1> QED
    BY <1>1, FS_Subset, FS_CardinalityType, RolesAssumption

\* Exact counters are natural numbers, so are those of the next state.
LEMMA CountersPositive ==
  /\ CountersExact => live \in Nat /\ idle \in Nat /\ idleWaiters \in Nat
  /\ CountersExact' => live' \in Nat /\ idle' \in Nat /\ idleWaiters' \in Nat
  <1>1. \A S : S \subseteq Threads => Cardinality(S) \in Nat
    BY FS_Subset, FS_CardinalityType, RolesAssumption
  <1>2. /\ Active' \subseteq Threads /\ MarkedIdle' \subseteq Threads /\ Joining' \subseteq Threads
        /\ Active \subseteq Threads /\ MarkedIdle \subseteq Threads /\ Joining \subseteq Threads
    BY DEF Active, MarkedIdle, Joining, Threads, Callers, Controllers
  <1> QED
    BY <1>1, <1>2 DEF CountersExact

\* The counters are exact again after a balanced step.
LEMMA BalancedKeepsCounters ==
  ASSUME PcOK, CountersExact, NEW t \in Threads, Balanced(t)
  PROVE  CountersExact'
  <1>0. \A u \in Threads \ {t} : pc'[u] = pc[u]
    BY DEF Balanced, PcOK
  <1>1. Workers \subseteq Threads /\ Joiners \subseteq Threads /\ Builder \in Threads /\ Builder \notin Workers
    BY RolesAssumption DEF Threads, Callers, Controllers
  <1>2. Active \ {t} = Active' \ {t} /\ MarkedIdle \ {t} = MarkedIdle' \ {t} /\ Joining \ {t} = Joining' \ {t}
    BY <1>0, <1>1 DEF Active, MarkedIdle, Joining
  <1>3. /\ Cardinality(Active') = Cardinality(Active) + (IF t \in Active' THEN 1 ELSE 0) - (IF t \in Active THEN 1 ELSE 0)
        /\ Cardinality(MarkedIdle') = Cardinality(MarkedIdle) + (IF t \in MarkedIdle' THEN 1 ELSE 0)
                                                              - (IF t \in MarkedIdle THEN 1 ELSE 0)
        /\ Cardinality(Joining') = Cardinality(Joining) + (IF t \in Joining' THEN 1 ELSE 0) - (IF t \in Joining THEN 1 ELSE 0)
    BY <1>2, CardinalityStep, CountersFinite
  <1>4. live' = Cardinality(Active') + (IF pc'[Builder] \in {"spawn", "rollback"} THEN 1 ELSE 0)
    <2>1. CASE t = Builder
      BY <1>1, <1>3, <2>1, CountersFinite DEF Balanced, CountersExact, LiveWeight, Active
    <2>2. CASE t # Builder
      BY <1>0, <1>1, <1>3, <2>2, CountersFinite DEF Balanced, CountersExact, LiveWeight, Active
    <2> QED
      BY <2>1, <2>2
  <1>5. idle' = Cardinality(MarkedIdle') /\ idleWaiters' = Cardinality(Joining')
    BY <1>1, <1>3, CountersFinite DEF Balanced, CountersExact, IdleWeight, JoinWeight, MarkedIdle, Joining
  <1> QED
    BY <1>4, <1>5 DEF CountersExact

-----------------------------------------------------------------------------
(***************************************************************************)
(* Who holds which job.  The stage of a job in a thread's hands follows    *)
(* from where that thread is; a thread whose place says nothing holds      *)
(* nothing.                                                                *)
(***************************************************************************)
Hand(p) == IF p \in {"accept", "mark", "cancelClaimed", "drain"} THEN "queued"
           ELSE IF p = "run" THEN "running"
           ELSE IF p \in {"cancel", "cancelNotify"} THEN "cancelling" ELSE "none"

\* A worker carries the one job it stole; whoever is about to cancel has a job to cancel.
HandsFit ==
  /\ \A t \in Threads : Hand(pc[t]) = "none" => work[t] = <<>>
  /\ \A t \in Threads : pc[t] = "cancel" => work[t] # <<>>
  /\ \A w \in Workers : /\ pc[w] \in {"accept", "mark", "cancelClaimed", "run", "cancel"}
                              => \E j \in Submitters : work[w] = <<j>>
                        /\ pc[w] = "cancelNotify" => work[w] = <<>>

\* A job is with its publisher, in the injector or in one thread's hands, never twice.
OneHolder ==
  /\ IsInjective(queue) /\ \A t \in Threads : IsInjective(work[t])
  /\ \A j \in Submitters : j \in ToSet(queue) => job[j] = "queued" /\ pc[j] # "push"
  /\ \A t \in Threads : \A j \in Submitters :
        j \in ToSet(work[t]) => job[j] = Hand(pc[t]) /\ pc[j] # "push" /\ j \notin ToSet(queue)
  /\ \A t, u \in Threads : \A j \in Submitters : j \in ToSet(work[t]) /\ j \in ToSet(work[u]) => t = u
  /\ \A j \in Submitters : job[j] \in {"queued", "running", "cancelling"}
        => pc[j] = "push" \/ j \in ToSet(queue) \/ \E t \in Threads : j \in ToSet(work[t])

\* The stage of a job while its submitter has not pushed it.
Unpushed ==
  \A s \in Submitters :
     /\ pc[s] \in {"start", "refused", "reserve", "rejectNotify"} => job[s] = "none"
     /\ pc[s] = "accepting" <=> job[s] = "reserved"
     /\ pc[s] = "push" => job[s] = "queued"

Own == HandsFit /\ OneHolder /\ Unpushed

(***************************************************************************)
(* A failed build, shutdown and stop close the gate before they change the *)
(* lifecycle, and nobody calls a pool that is not built.                   *)
(***************************************************************************)
GateFirst ==
  /\ lifecycle # "Running" => ~open
  /\ \A t \in Controllers : pc[t] \in {"shutdown", "stopNow", "stop"} => ~open
  /\ pc[Builder] \in {"failFlag", "failState"} => ~open
  /\ pc[Builder] \in {"joinWorkers", "failed"} => lifecycle = "Stopping"
  /\ pc[Builder] \notin {"joinWorkers", "failed", "ready"} => lifecycle = "Running"
  /\ pc[Builder] = "failed" => \A w \in Workers : pc[w] \in {"new", "off"}
  /\ pc[Builder] # "ready" => \A t \in Callers : pc[t] = "start" /\ t \notin waiting

\* A submission that join waits for has begun, and only join has noted any.
JoinerKnows == \A t \in Joiners : /\ \A j \in before[t] : pc[j] # "start"
                                  /\ pc[t] \notin {"join", "done"} => before[t] = {}

\* A waiter was told of termination, and it stays true.
ToldWaiters == (\E t \in Waiters : pc[t] = "done") => PoolIsOver

Inv == TypeOK /\ Own /\ GateFirst /\ JoinerKnows /\ JoinSound /\ ToldWaiters

-----------------------------------------------------------------------------
\* Types and counters are kept, one step of each actor at a time.

USE DEF monitor, flags, wakes, jobs, locals, At, Goto, CanLock, NotifyAll, Reads

\* Every role is a set of threads, and the roles do not overlap.
LEMMA Roles ==
  /\ Submitters \subseteq Threads /\ Workers \subseteq Threads /\ Controllers \subseteq Threads
  /\ Builder \in Threads /\ Builder \notin Submitters \cup Workers \cup Controllers
  /\ Submitters \cap Workers = {} /\ Submitters \cap Controllers = {} /\ Workers \cap Controllers = {}
  /\ Shutdowners \subseteq Controllers /\ Stoppers \subseteq Controllers
  /\ Joiners \subseteq Controllers /\ Waiters \subseteq Controllers
  /\ Waiters \cap (Shutdowners \cup Stoppers \cup Joiners) = {}
  BY RolesAssumption DEF Threads, Callers, Controllers

\* The steps of the constructor other than a successful spawn keep the types of the shared state ...
LEMMA BuilderData ==
  ASSUME TypeOK, Own, BuilderStep, ~SpawnWorker
  PROVE  DataOK'
  <1> USE Roles DEF TypeOK, DataOK
  <1>1. CASE ReserveWorkerSlot
    BY <1>1 DEF ReserveWorkerSlot
  <1>2. CASE RollbackWorkerSlot
    BY <1>2 DEF RollbackWorkerSlot
  <1>3. CASE StopAfterFailedBuild
    BY <1>3 DEF StopAfterFailedBuild
  <1>4. CASE JoinStartedWorkers
    BY <1>4 DEF JoinStartedWorkers
  <1> QED
    BY <1>1, <1>2, <1>3, <1>4 DEF BuilderStep

\* ... stay within their code ...
LEMMA BuilderPlaces ==
  ASSUME TypeOK, BuilderStep, ~SpawnWorker
  PROVE  PcOK'
  <1> USE Roles DEF TypeOK, PcOK, BuilderPcs
  <1>1. CASE ReserveWorkerSlot
    BY <1>1 DEF ReserveWorkerSlot
  <1>2. CASE RollbackWorkerSlot
    BY <1>2 DEF RollbackWorkerSlot
  <1>3. CASE StopAfterFailedBuild
    BY <1>3 DEF StopAfterFailedBuild
  <1>4. CASE JoinStartedWorkers
    BY <1>4 DEF JoinStartedWorkers
  <1> QED
    BY <1>1, <1>2, <1>3, <1>4 DEF BuilderStep

\* ... and balance the counters.
LEMMA BuilderCounters ==
  ASSUME TypeOK, BuilderStep, ~SpawnWorker
  PROVE  Balanced(Builder)
  <1> USE Roles DEF TypeOK, PcOK, Balanced, LiveWeight, IdleWeight, JoinWeight
  <1>1. CASE ReserveWorkerSlot
    BY <1>1 DEF ReserveWorkerSlot
  <1>2. CASE RollbackWorkerSlot
    BY <1>2 DEF RollbackWorkerSlot
  <1>3. CASE StopAfterFailedBuild
    BY <1>3 DEF StopAfterFailedBuild
  <1>4. CASE JoinStartedWorkers
    BY <1>4 DEF JoinStartedWorkers
  <1> QED
    BY <1>1, <1>2, <1>3, <1>4 DEF BuilderStep

\* Submitters keep the types of the shared state ...
LEMMA SubmitterData ==
  ASSUME TypeOK, Own, NEW s \in Submitters, SubmitterStep(s)
  PROVE  DataOK'
  <1> USE Roles DEF TypeOK, DataOK
  <1>1. CASE BeginSubmit(s)
    BY <1>1 DEF BeginSubmit, Calls
  <1>2. CASE ReserveQueueSlot(s)
    BY <1>2 DEF ReserveQueueSlot, JobStages
  <1>3. CASE AcceptPanics(s)
    BY <1>3 DEF AcceptPanics, JobStages
  <1>4. CASE EnqueueJob(s)
    <2>1. Append(queue, s) \in Seq(Submitters)
      BY AppendDistinct
    <2> QED
      BY <1>4, <2>1 DEF EnqueueJob, JobStages
  <1>5. CASE LoadIdle(s)
    BY <1>5 DEF LoadIdle
  <1>6. CASE RequestWake(s)
    BY <1>6 DEF RequestWake
  <1>7. CASE Leave(s)
    BY <1>7 DEF Leave
  <1>8. CASE Depart(s)
    BY <1>8 DEF Depart
  <1>9. CASE NotifyUnderLock(s)
    BY <1>9 DEF NotifyUnderLock
  <1> QED
    BY <1>1, <1>2, <1>3, <1>4, <1>5, <1>6, <1>7, <1>8, <1>9 DEF SubmitterStep

\* ... stay within their code ...
LEMMA SubmitterPlaces ==
  ASSUME TypeOK, NEW s \in Submitters, SubmitterStep(s)
  PROVE  PcOK'
  <1> USE Roles DEF TypeOK, PcOK, SubmitterPcs
  <1>1. CASE BeginSubmit(s)
    BY <1>1 DEF BeginSubmit, Calls
  <1>2. CASE ReserveQueueSlot(s)
    BY <1>2 DEF ReserveQueueSlot
  <1>3. CASE AcceptPanics(s)
    BY <1>3 DEF AcceptPanics
  <1>4. CASE EnqueueJob(s)
    BY <1>4 DEF EnqueueJob
  <1>5. CASE LoadIdle(s)
    BY <1>5 DEF LoadIdle
  <1>6. CASE RequestWake(s)
    BY <1>6 DEF RequestWake
  <1>7. CASE Leave(s)
    BY <1>7 DEF Leave
  <1>8. CASE Depart(s)
    BY <1>8 DEF Depart
  <1>9. CASE NotifyUnderLock(s)
    BY <1>9 DEF NotifyUnderLock
  <1> QED
    BY <1>1, <1>2, <1>3, <1>4, <1>5, <1>6, <1>7, <1>8, <1>9 DEF SubmitterStep

\* ... and balance the counters.
LEMMA SubmitterCounters ==
  ASSUME TypeOK, NEW s \in Submitters, SubmitterStep(s)
  PROVE  Balanced(s)
  <1> USE Roles DEF TypeOK, PcOK, Balanced, LiveWeight, IdleWeight, JoinWeight
  <1>1. CASE BeginSubmit(s)
    BY <1>1 DEF BeginSubmit, Calls
  <1>2. CASE ReserveQueueSlot(s)
    BY <1>2 DEF ReserveQueueSlot
  <1>3. CASE AcceptPanics(s)
    BY <1>3 DEF AcceptPanics
  <1>4. CASE EnqueueJob(s)
    BY <1>4 DEF EnqueueJob
  <1>5. CASE LoadIdle(s)
    BY <1>5 DEF LoadIdle
  <1>6. CASE RequestWake(s)
    BY <1>6 DEF RequestWake
  <1>7. CASE Leave(s)
    BY <1>7 DEF Leave
  <1>8. CASE Depart(s)
    BY <1>8 DEF Depart
  <1>9. CASE NotifyUnderLock(s)
    BY <1>9 DEF NotifyUnderLock
  <1> QED
    BY <1>1, <1>2, <1>3, <1>4, <1>5, <1>6, <1>7, <1>8, <1>9 DEF SubmitterStep

\* Workers keep the types of the shared state ...
LEMMA WorkerData ==
  ASSUME TypeOK, Own, NEW w \in Workers, WorkerStep(w)
  PROVE  DataOK'
  <1> USE Roles DEF TypeOK, DataOK
  <1>1. CASE TryTakeJob(w)
    BY <1>1 DEF TryTakeJob
  <1>2. CASE StealOne(w)
    <2>1. queue # <<>> => Tail(queue) \in Seq(Submitters) /\ <<Head(queue)>> \in Seq(Submitters)
      BY TailDistinct, OneJob
    <2>2. CASE queue = <<>>
      BY <1>2, <2>2 DEF StealOne
    <2>3. CASE queue # <<>>
      <3>1. work' \in [Threads -> Seq(Submitters)]
        BY <1>2, <2>1, <2>3 DEF StealOne
      <3> QED
        BY <1>2, <2>1, <2>3, <3>1 DEF StealOne
    <2> QED
      BY <2>2, <2>3
  <1>3. CASE AcceptClaimedJob(w)
    BY <1>3 DEF AcceptClaimedJob
  <1>4. CASE MarkRunning(w)
    BY <1>4 DEF MarkRunning, JobStages
  <1>5. CASE BeginCancelClaimed(w)
    BY <1>5 DEF BeginCancelClaimed, JobStages
  <1>6. CASE CancelCallback(w)
    BY <1>6, TailDistinct DEF CancelCallback, JobStages, Own, HandsFit
  <1>7. CASE Run(w)
    BY <1>7, NoJob DEF Run, JobStages
  <1>8. CASE Settle(w)
    BY <1>8 DEF Settle
  <1>9. CASE NotifyUnderLock(w)
    BY <1>9 DEF NotifyUnderLock
  <1>10. CASE Loop(w)
    BY <1>10 DEF Loop
  <1>11. CASE SpinQueued(w)
    BY <1>11 DEF SpinQueued
  <1>12. CASE SpinPending(w)
    BY <1>12 DEF SpinPending
  <1>13. CASE SpinOpen(w)
    BY <1>13 DEF SpinOpen
  <1>14. CASE Relock(w)
    BY <1>14 DEF Relock, MarkIdle
  <1>15. CASE IdleQueued(w)
    BY <1>15 DEF IdleQueued
  <1>16. CASE IdlePending(w)
    BY <1>16 DEF IdlePending, Parks, Wait
  <1>17. CASE Awaken(w)
    BY <1>17 DEF Awaken, Notified
  <1>18. CASE Unmark(w)
    BY <1>18 DEF Unmark
  <1>19. CASE Consume(w)
    BY <1>19 DEF Consume
  <1>20. CASE SdInflight(w)
    BY <1>20 DEF SdInflight
  <1>21. CASE SdMark(w)
    BY <1>21 DEF SdMark, MarkIdle
  <1>22. CASE SdQueued(w)
    BY <1>22 DEF SdQueued
  <1>23. CASE SdPark(w)
    BY <1>23 DEF SdPark, Parks, Wait
  <1>24. CASE WorkerExited(w)
    BY <1>24 DEF WorkerExited
  <1> QED
    BY <1>1, <1>2, <1>3, <1>4, <1>5, <1>6, <1>7, <1>8, <1>9, <1>10, <1>11, <1>12, <1>13, <1>14, <1>15, <1>16, <1>17, <1>18, <1>19, <1>20, <1>21, <1>22, <1>23, <1>24 DEF WorkerStep

\* ... stay within their code ...
LEMMA WorkerPlaces ==
  ASSUME TypeOK, NEW w \in Workers, WorkerStep(w)
  PROVE  PcOK'
  <1> USE Roles DEF TypeOK, PcOK, WorkerPcs
  <1>1. CASE TryTakeJob(w)
    BY <1>1 DEF TryTakeJob
  <1>2. CASE StealOne(w)
    BY <1>2 DEF StealOne
  <1>3. CASE AcceptClaimedJob(w)
    BY <1>3 DEF AcceptClaimedJob
  <1>4. CASE MarkRunning(w)
    BY <1>4 DEF MarkRunning
  <1>5. CASE BeginCancelClaimed(w)
    BY <1>5 DEF BeginCancelClaimed
  <1>6. CASE CancelCallback(w)
    BY <1>6 DEF CancelCallback
  <1>7. CASE Run(w)
    BY <1>7 DEF Run
  <1>8. CASE Settle(w)
    BY <1>8 DEF Settle
  <1>9. CASE NotifyUnderLock(w)
    <2>1. pc[w] \in {"settleNotify", "cancelNotify"} /\ pc'[w] \in {"take", "check"}
      BY <1>9 DEF NotifyUnderLock
    <2>2. \A t \in Threads \ {w} : pc'[t] = pc[t]
      BY <1>9 DEF NotifyUnderLock
    <2> QED
      BY <1>9, <2>1, <2>2 DEF NotifyUnderLock
  <1>10. CASE Loop(w)
    BY <1>10 DEF Loop
  <1>11. CASE SpinQueued(w)
    BY <1>11 DEF SpinQueued
  <1>12. CASE SpinPending(w)
    BY <1>12 DEF SpinPending
  <1>13. CASE SpinOpen(w)
    BY <1>13 DEF SpinOpen
  <1>14. CASE Relock(w)
    BY <1>14 DEF Relock, MarkIdle
  <1>15. CASE IdleQueued(w)
    BY <1>15 DEF IdleQueued
  <1>16. CASE IdlePending(w)
    BY <1>16 DEF IdlePending, Parks, Wait
  <1>17. CASE Awaken(w)
    BY <1>17 DEF Awaken, Notified
  <1>18. CASE Unmark(w)
    BY <1>18 DEF Unmark
  <1>19. CASE Consume(w)
    BY <1>19 DEF Consume
  <1>20. CASE SdInflight(w)
    BY <1>20 DEF SdInflight
  <1>21. CASE SdMark(w)
    BY <1>21 DEF SdMark, MarkIdle
  <1>22. CASE SdQueued(w)
    BY <1>22 DEF SdQueued
  <1>23. CASE SdPark(w)
    BY <1>23 DEF SdPark, Parks, Wait
  <1>24. CASE WorkerExited(w)
    BY <1>24 DEF WorkerExited
  <1> QED
    BY <1>1, <1>2, <1>3, <1>4, <1>5, <1>6, <1>7, <1>8, <1>9, <1>10, <1>11, <1>12, <1>13, <1>14, <1>15, <1>16, <1>17, <1>18, <1>19, <1>20, <1>21, <1>22, <1>23, <1>24 DEF WorkerStep

\* ... and balance the counters.
LEMMA WorkerCounters ==
  ASSUME TypeOK, NEW w \in Workers, WorkerStep(w)
  PROVE  Balanced(w)
  <1> USE Roles DEF TypeOK, PcOK, Balanced, LiveWeight, IdleWeight, JoinWeight
  <1>1. CASE TryTakeJob(w)
    BY <1>1 DEF TryTakeJob
  <1>2. CASE StealOne(w)
    BY <1>2 DEF StealOne
  <1>3. CASE AcceptClaimedJob(w)
    BY <1>3 DEF AcceptClaimedJob
  <1>4. CASE MarkRunning(w)
    BY <1>4 DEF MarkRunning
  <1>5. CASE BeginCancelClaimed(w)
    BY <1>5 DEF BeginCancelClaimed
  <1>6. CASE CancelCallback(w)
    BY <1>6 DEF CancelCallback
  <1>7. CASE Run(w)
    BY <1>7 DEF Run
  <1>8. CASE Settle(w)
    BY <1>8 DEF Settle
  <1>9. CASE NotifyUnderLock(w)
    BY <1>9 DEF NotifyUnderLock
  <1>10. CASE Loop(w)
    BY <1>10 DEF Loop
  <1>11. CASE SpinQueued(w)
    BY <1>11 DEF SpinQueued
  <1>12. CASE SpinPending(w)
    BY <1>12 DEF SpinPending
  <1>13. CASE SpinOpen(w)
    BY <1>13 DEF SpinOpen
  <1>14. CASE Relock(w)
    BY <1>14 DEF Relock, MarkIdle
  <1>15. CASE IdleQueued(w)
    BY <1>15 DEF IdleQueued
  <1>16. CASE IdlePending(w)
    BY <1>16 DEF IdlePending, Parks, Wait
  <1>17. CASE Awaken(w)
    BY <1>17 DEF Awaken, Notified
  <1>18. CASE Unmark(w)
    BY <1>18 DEF Unmark
  <1>19. CASE Consume(w)
    BY <1>19 DEF Consume
  <1>20. CASE SdInflight(w)
    BY <1>20 DEF SdInflight
  <1>21. CASE SdMark(w)
    BY <1>21 DEF SdMark, MarkIdle
  <1>22. CASE SdQueued(w)
    BY <1>22 DEF SdQueued
  <1>23. CASE SdPark(w)
    BY <1>23 DEF SdPark, Parks, Wait
  <1>24. CASE WorkerExited(w)
    BY <1>24 DEF WorkerExited
  <1> QED
    BY <1>1, <1>2, <1>3, <1>4, <1>5, <1>6, <1>7, <1>8, <1>9, <1>10, <1>11, <1>12, <1>13, <1>14, <1>15, <1>16, <1>17, <1>18, <1>19, <1>20, <1>21, <1>22, <1>23, <1>24 DEF WorkerStep

\* Callers of shutdown keep the types of the shared state ...
LEMMA ShutdownData ==
  ASSUME TypeOK, Own, NEW t \in Shutdowners, ShutdownStep(t)
  PROVE  DataOK'
  <1> USE Roles DEF TypeOK, DataOK
  <1>1. CASE CloseAdmission(t, "shutdown")
    BY <1>1 DEF CloseAdmission, Calls
  <1>2. CASE BeginShutdown(t)
    BY <1>2 DEF BeginShutdown
  <1> QED
    BY <1>1, <1>2 DEF ShutdownStep

\* ... stay within their code ...
LEMMA ShutdownPlaces ==
  ASSUME TypeOK, NEW t \in Shutdowners, ShutdownStep(t)
  PROVE  PcOK'
  <1> USE Roles DEF TypeOK, PcOK, ControllerPcs
  <1>1. CASE CloseAdmission(t, "shutdown")
    BY <1>1 DEF CloseAdmission, Calls
  <1>2. CASE BeginShutdown(t)
    BY <1>2 DEF BeginShutdown
  <1> QED
    BY <1>1, <1>2 DEF ShutdownStep

\* ... and balance the counters.
LEMMA ShutdownCounters ==
  ASSUME TypeOK, NEW t \in Shutdowners, ShutdownStep(t)
  PROVE  Balanced(t)
  <1> USE Roles DEF TypeOK, PcOK, Balanced, LiveWeight, IdleWeight, JoinWeight
  <1>1. CASE CloseAdmission(t, "shutdown")
    BY <1>1 DEF CloseAdmission, Calls
  <1>2. CASE BeginShutdown(t)
    BY <1>2 DEF BeginShutdown
  <1> QED
    BY <1>1, <1>2 DEF ShutdownStep

\* Callers of stop keep the types of the shared state ...
LEMMA StopData ==
  ASSUME TypeOK, Own, NEW t \in Stoppers, StopStep(t)
  PROVE  DataOK'
  <1> USE Roles DEF TypeOK, DataOK
  <1>1. CASE CloseAdmission(t, "stopNow")
    BY <1>1 DEF CloseAdmission, Calls
  <1>2. CASE SetStopNow(t)
    BY <1>2 DEF SetStopNow
  <1>3. CASE BeginStop(t)
    BY <1>3 DEF BeginStop
  <1>4. CASE AwaitSubmitters(t)
    BY <1>4 DEF AwaitSubmitters, Wait
  <1>5. CASE ResumeStop(t)
    BY <1>5 DEF ResumeStop, Notified
  <1>6. CASE Drain(t)
    <2>1. queue # <<>> => /\ Tail(queue) \in Seq(Submitters)
                         /\ Append(work[t], Head(queue)) \in Seq(Submitters)
      BY TailDistinct, AppendDistinct
    <2>2. CASE queue = <<>>
      BY <1>6, <2>2 DEF Drain, JobStages
    <2>3. CASE queue # <<>>
      <3>1. work' \in [Threads -> Seq(Submitters)]
        BY <1>6, <2>1, <2>3 DEF Drain
      <3> QED
        BY <1>6, <2>1, <2>3, <3>1 DEF Drain
    <2> QED
      BY <2>2, <2>3
  <1>7. CASE CancelCallback(t)
    BY <1>7, TailDistinct DEF CancelCallback, JobStages, Own, HandsFit
  <1>8. CASE NotifyUnderLock(t)
    BY <1>8 DEF NotifyUnderLock
  <1> QED
    BY <1>1, <1>2, <1>3, <1>4, <1>5, <1>6, <1>7, <1>8 DEF StopStep

\* ... stay within their code ...
LEMMA StopPlaces ==
  ASSUME TypeOK, NEW t \in Stoppers, StopStep(t)
  PROVE  PcOK'
  <1> USE Roles DEF TypeOK, PcOK, ControllerPcs
  <1>1. CASE CloseAdmission(t, "stopNow")
    BY <1>1 DEF CloseAdmission, Calls
  <1>2. CASE SetStopNow(t)
    BY <1>2 DEF SetStopNow
  <1>3. CASE BeginStop(t)
    BY <1>3 DEF BeginStop
  <1>4. CASE AwaitSubmitters(t)
    BY <1>4 DEF AwaitSubmitters, Wait
  <1>5. CASE ResumeStop(t)
    BY <1>5 DEF ResumeStop, Notified
  <1>6. CASE Drain(t)
    BY <1>6 DEF Drain
  <1>7. CASE CancelCallback(t)
    BY <1>7 DEF CancelCallback
  <1>8. CASE NotifyUnderLock(t)
    BY <1>8 DEF NotifyUnderLock
  <1> QED
    BY <1>1, <1>2, <1>3, <1>4, <1>5, <1>6, <1>7, <1>8 DEF StopStep

\* ... and balance the counters.
LEMMA StopCounters ==
  ASSUME TypeOK, NEW t \in Stoppers, StopStep(t)
  PROVE  Balanced(t)
  <1> USE Roles DEF TypeOK, PcOK, Balanced, LiveWeight, IdleWeight, JoinWeight
  <1>1. CASE CloseAdmission(t, "stopNow")
    BY <1>1 DEF CloseAdmission, Calls
  <1>2. CASE SetStopNow(t)
    BY <1>2 DEF SetStopNow
  <1>3. CASE BeginStop(t)
    BY <1>3 DEF BeginStop
  <1>4. CASE AwaitSubmitters(t)
    BY <1>4 DEF AwaitSubmitters, Wait
  <1>5. CASE ResumeStop(t)
    BY <1>5 DEF ResumeStop, Notified
  <1>6. CASE Drain(t)
    BY <1>6 DEF Drain
  <1>7. CASE CancelCallback(t)
    BY <1>7 DEF CancelCallback
  <1>8. CASE NotifyUnderLock(t)
    BY <1>8 DEF NotifyUnderLock
  <1> QED
    BY <1>1, <1>2, <1>3, <1>4, <1>5, <1>6, <1>7, <1>8 DEF StopStep

\* Callers of join and of wait_for_termination, and the timeout of the latter.
LEMMA WaiterTypes ==
  ASSUME TypeOK, NEW t \in Controllers,
         \/ t \in Joiners /\ (BeginJoin(t) \/ Join(t))
         \/ t \in Waiters /\ (AwaitTermination(t) \/ TimeoutElapses(t))
  PROVE  DataOK' /\ PcOK' /\ Balanced(t)
  <1>1. DataOK'
    <2> USE Roles DEF TypeOK, DataOK
    <2>1. CASE BeginJoin(t) /\ t \in Joiners
      BY <2>1 DEF BeginJoin, Inside, Under
    <2>2. CASE Join(t)
      BY <2>2 DEF Join, Wait
    <2>3. CASE AwaitTermination(t)
      BY <2>3 DEF AwaitTermination, Wait
    <2>4. CASE TimeoutElapses(t)
      BY <2>4 DEF TimeoutElapses
    <2> QED
      BY <2>1, <2>2, <2>3, <2>4
  <1>2. PcOK'
    <2> USE Roles DEF TypeOK, PcOK, ControllerPcs
    <2>1. CASE BeginJoin(t) /\ t \in Joiners
      BY <2>1 DEF BeginJoin
    <2>2. CASE Join(t) /\ t \in Joiners
      BY <2>2 DEF Join, Wait
    <2>3. CASE AwaitTermination(t)
      BY <2>3 DEF AwaitTermination, Wait
    <2>4. CASE TimeoutElapses(t)
      BY <2>4 DEF TimeoutElapses
    <2> QED
      BY <2>1, <2>2, <2>3, <2>4
  <1>3. Balanced(t)
    <2> USE Roles DEF TypeOK, PcOK, Balanced, LiveWeight, IdleWeight, JoinWeight
    <2>1. CASE BeginJoin(t) /\ t \in Joiners
      BY <2>1 DEF BeginJoin, Calls
    <2>2. CASE Join(t) /\ t \in Joiners
      BY <2>2 DEF Join, Wait
    <2>3. CASE AwaitTermination(t) /\ t \in Waiters
      BY <2>3 DEF AwaitTermination, Wait
    <2>4. CASE TimeoutElapses(t) /\ t \in Waiters
      BY <2>4 DEF TimeoutElapses
    <2> QED
      BY <2>1, <2>2, <2>3, <2>4
  <1> QED
    BY <1>1, <1>2, <1>3

\* A worker that starts takes over the slot its constructor had reserved.
LEMMA SpawnTypes ==
  ASSUME TypeOK, SpawnWorker
  PROVE  DataOK' /\ PcOK' /\ CountersExact'
  <1>1. DataOK'
    BY DEF SpawnWorker, TypeOK, DataOK
  <1>2. CASE Goto(Builder, "rollback")
    <2>1. PcOK'
      BY <1>2, Roles DEF TypeOK, PcOK, BuilderPcs
    <2>2. Balanced(Builder)
      BY <1>2, Roles DEF SpawnWorker, TypeOK, PcOK, Balanced, LiveWeight, IdleWeight, JoinWeight
    <2> QED
      BY <1>1, <2>1, <2>2, Roles, BalancedKeepsCounters DEF TypeOK
  <1>3. ASSUME NEW w \in Workers, pc[w] = "new", pc' = [pc EXCEPT ![w] = "take", ![Builder] = "build"]
        PROVE  PcOK' /\ CountersExact'
    <2>1. /\ pc'[w] = "take" /\ pc'[Builder] = "build" /\ pc[Builder] = "spawn"
          /\ \A t \in Threads \ {w, Builder} : pc'[t] = pc[t]
      BY <1>3, Roles DEF SpawnWorker, TypeOK, PcOK
    <2>2. PcOK'
      BY <1>3, <2>1, Roles DEF TypeOK, PcOK, BuilderPcs, WorkerPcs
    <2>3. Active' = Active \cup {w} /\ w \notin Active /\ MarkedIdle' = MarkedIdle /\ Joining' = Joining
      BY <1>3, <2>1, Roles DEF Active, MarkedIdle, Joining
    <2>4. Cardinality(Active') = Cardinality(Active) + 1
      BY <2>3, CountersFinite, FS_AddElement
    <2>5. UNCHANGED <<live, idle, idleWaiters>>
      BY DEF SpawnWorker
    <2> QED
      BY <2>1, <2>2, <2>3, <2>4, <2>5, CountersFinite DEF TypeOK, CountersExact
  <1> QED
    BY <1>1, <1>2, <1>3 DEF SpawnWorker

\* Every step keeps the types and the counters.
LEMMA TypeStep ==
  ASSUME TypeOK, Own, [Next]_vars
  PROVE  TypeOK'
  <1>0. ASSUME NEW t \in Threads, DataOK', PcOK', Balanced(t)
        PROVE  TypeOK'
    BY <1>0, BalancedKeepsCounters, CountersPositive DEF TypeOK
  <1>1. CASE SpawnWorker
    BY <1>1, SpawnTypes, CountersPositive DEF TypeOK
  <1>2. CASE BuilderStep /\ ~SpawnWorker
    BY <1>0, <1>2, BuilderData, BuilderPlaces, BuilderCounters, Roles
  <1>3. ASSUME NEW s \in Submitters, SubmitterStep(s)
        PROVE  TypeOK'
    BY <1>0, <1>3, SubmitterData, SubmitterPlaces, SubmitterCounters, Roles
  <1>4. ASSUME NEW w \in Workers, WorkerStep(w)
        PROVE  TypeOK'
    BY <1>0, <1>4, WorkerData, WorkerPlaces, WorkerCounters, Roles
  <1>5. ASSUME NEW t \in Shutdowners, ShutdownStep(t)
        PROVE  TypeOK'
    BY <1>0, <1>5, ShutdownData, ShutdownPlaces, ShutdownCounters, Roles
  <1>6. ASSUME NEW t \in Stoppers, StopStep(t)
        PROVE  TypeOK'
    BY <1>0, <1>6, StopData, StopPlaces, StopCounters, Roles
  <1>7. ASSUME NEW t \in Controllers,
               \/ t \in Joiners /\ (BeginJoin(t) \/ Join(t))
               \/ t \in Waiters /\ (AwaitTermination(t) \/ TimeoutElapses(t))
        PROVE  TypeOK'
    BY <1>0, <1>7, WaiterTypes, Roles
  <1>8. CASE UNCHANGED vars
    BY <1>8 DEF vars, TypeOK, DataOK, PcOK, CountersExact, Active, MarkedIdle, Joining
  <1> QED
    BY <1>1, <1>2, <1>3, <1>4, <1>5, <1>6, <1>7, <1>8, Roles DEF Next, ThreadStep

-----------------------------------------------------------------------------
\* Who holds which job is kept.

\* A step that touches no job: the thread holds nothing, or goes on with what it holds.
LEMMA QuietKeepsOwn ==
  ASSUME TypeOK, Own, NEW t \in Threads, UNCHANGED jobs,
         \A u \in Threads \ {t} : pc'[u] = pc[u],
         \/ work[t] = <<>> /\ pc'[t] \notin {"accept", "mark", "cancelClaimed", "run", "cancel"}
         \/ pc[t] = "accept" /\ pc'[t] \in {"mark", "cancelClaimed"}
         \/ pc[t] = "cancelNotify" /\ pc'[t] = "cancel" /\ work[t] # <<>> /\ t \notin Workers,
         t \in Submitters => /\ pc[t] \notin {"accepting", "push"} /\ pc'[t] \notin {"accepting", "push"}
                             /\ pc'[t] \in {"start", "refused", "reserve", "rejectNotify"} => job[t] = "none"
  PROVE  Own'
  <1> USE Roles, NoJob
  <1>1. HandsFit'
    BY DEF Own, HandsFit, Hand
  <1>2. OneHolder'
    <2>1. \A j \in Submitters : pc'[j] = "push" <=> pc[j] = "push"
      OBVIOUS
    <2>2. \A u \in Threads : \A j \in Submitters : j \in ToSet(work[u]) => Hand(pc'[u]) = Hand(pc[u])
      BY DEF Hand
    <2> QED
      BY <2>1, <2>2 DEF Own, OneHolder
  <1>3. Unpushed'
    BY DEF Own, Unpushed
  <1> QED
    BY <1>1, <1>2, <1>3 DEF Own

\* Where a worker or a caller of stop has nothing in its hands.
LEMMA EmptyHands ==
  ASSUME TypeOK, Own, NEW t \in Threads,
         pc[t] \notin {"accept", "mark", "cancelClaimed", "run", "cancel", "cancelNotify", "drain"}
  PROVE  work[t] = <<>>
  BY DEF Own, HandsFit, Hand

\* The submitter's own steps on its job: reserve, release, publish, push.
LEMMA SubmitterOwn ==
  ASSUME TypeOK, Own, NEW s \in Submitters, SubmitterStep(s)
  PROVE  Own'
  <1> USE Roles
  <1>0. s \in Threads /\ pc[s] \in SubmitterPcs /\ work[s] = <<>> /\ DOMAIN pc = Threads /\ DOMAIN job = Submitters
    BY EmptyHands DEF TypeOK, PcOK, SubmitterPcs, DataOK
  <1>1. ASSUME UNCHANGED jobs, \A u \in Threads \ {s} : pc'[u] = pc[u],
               pc'[s] \in SubmitterPcs \ {"accepting", "push"}, pc[s] \notin {"accepting", "push"},
               pc'[s] \in {"start", "refused", "reserve", "rejectNotify"} => job[s] = "none"
        PROVE  Own'
    BY <1>0, <1>1, QuietKeepsOwn DEF SubmitterPcs
  <1>2. CASE BeginSubmit(s)
    BY <1>0, <1>1, <1>2 DEF BeginSubmit, Calls, Own, Unpushed, SubmitterPcs, TypeOK, PcOK
  <1>3. CASE LoadIdle(s) \/ RequestWake(s)
    BY <1>0, <1>1, <1>3 DEF LoadIdle, RequestWake, SubmitterPcs
  <1>4. CASE Leave(s) \/ Depart(s) \/ NotifyUnderLock(s)
    BY <1>0, <1>1, <1>4 DEF Leave, Depart, NotifyUnderLock, SubmitterPcs
  <1>5. CASE ReserveQueueSlot(s)
    <2>1. CASE job' = job
      BY <1>0, <1>1, <1>5, <2>1 DEF ReserveQueueSlot, SubmitterPcs, Own, Unpushed
    <2>2. CASE job' # job
      <3>1. s \notin ToSet(queue) /\ \A t \in Threads : s \notin ToSet(work[t])
        BY <1>0, <1>5, NoJob DEF ReserveQueueSlot, Own, HandsFit, OneHolder, Unpushed
      <3> QED
        BY <1>0, <1>5, <2>2, <3>1 DEF ReserveQueueSlot, Own, HandsFit, Hand, OneHolder, Unpushed
    <2> QED
      BY <2>1, <2>2
  <1>6. CASE AcceptPanics(s)
    BY <1>0, <1>6 DEF AcceptPanics, Own, HandsFit, Hand, OneHolder, Unpushed
  <1>7. CASE EnqueueJob(s)
    <2>1. CASE At(s, "accepting")
      BY <1>0, <1>7, <2>1 DEF EnqueueJob, Own, HandsFit, Hand, OneHolder, Unpushed
    <2>2. CASE At(s, "push")
      <3>1. s \notin ToSet(queue) /\ \A t \in Threads : s \notin ToSet(work[t])
        BY <2>2 DEF Own, OneHolder
      <3>2. IsInjective(queue') /\ ToSet(queue') = ToSet(queue) \cup {s}
        <4>1. queue' = Append(queue, s) /\ queue \in Seq(Submitters) /\ IsInjective(queue)
          BY <1>7, <2>2 DEF EnqueueJob, TypeOK, DataOK, Own, OneHolder
        <4> QED
          BY <3>1, <4>1, AppendDistinct
      <3> QED
        BY <1>0, <1>7, <2>2, <3>1, <3>2 DEF EnqueueJob, Own, HandsFit, Hand, OneHolder, Unpushed
    <2> QED
      BY <1>7, <2>1, <2>2 DEF EnqueueJob
  <1> QED
    BY <1>2, <1>3, <1>4, <1>5, <1>6, <1>7 DEF SubmitterStep

\* Whoever calls job.cancel() gives up the first job of its hands, which nobody else holds.
LEMMA CancelOwn ==
  ASSUME TypeOK, Own, NEW t \in Workers \cup Stoppers, CancelCallback(t)
  PROVE  Own'
  <1> USE Roles
  <1> DEFINE j == Head(work[t])
  <1>1. t \in Threads /\ work[t] # <<>> /\ work[t] \in Seq(Submitters) /\ IsInjective(work[t])
    BY DEF CancelCallback, Own, HandsFit, OneHolder, TypeOK, DataOK
  <1>2. /\ j \in Submitters /\ j \in ToSet(work[t]) /\ job[j] = "cancelling" /\ pc[j] # "push"
        /\ j \notin ToSet(queue) /\ \A u \in Threads \ {t} : j \notin ToSet(work[u])
    <2>1. j \in Submitters /\ j \in ToSet(work[t])
      BY <1>1, TailDistinct
    <2> HIDE DEF j
    <2> QED
      BY <1>1, <2>1 DEF CancelCallback, Own, OneHolder, Hand
  <1>3. /\ pc'[t] = "cancelNotify" /\ pc[t] = "cancel"
        /\ \A u \in Threads \ {t} : pc'[u] = pc[u] /\ work'[u] = work[u]
        /\ job'[j] = "cancelled" /\ \A i \in Submitters \ {j} : job'[i] = job[i]
        /\ queue' = queue
    BY <1>1, <1>2 DEF CancelCallback, TypeOK, PcOK, DataOK
  <1>4. /\ ToSet(work'[t]) = ToSet(work[t]) \ {j} /\ IsInjective(work'[t])
        /\ t \in Workers => work'[t] = <<>>
    <2>1. work'[t] = Tail(work[t])
      BY <1>1 DEF CancelCallback, TypeOK, DataOK
    <2>2. ASSUME t \in Workers
          PROVE  Tail(work[t]) = <<>>
      <3> PICK i \in Submitters : work[t] = <<i>>
        BY <1>3, <2>2 DEF Own, HandsFit
      <3> QED
        BY OneJob
    <2> QED
      BY <1>1, <2>1, <2>2, TailDistinct
  <1> HIDE DEF j
  <1>5. \A s \in Submitters : pc'[s] = pc[s]
    BY <1>3
  <1>6. HandsFit'
    BY <1>3, <1>4 DEF Own, HandsFit, Hand
  <1>7. OneHolder'
    BY <1>2, <1>3, <1>4, <1>5 DEF Own, OneHolder, Hand
  <1>8. Unpushed'
    BY <1>2, <1>3, <1>5 DEF Own, Unpushed
  <1> QED
    BY <1>6, <1>7, <1>8 DEF Own

\* A worker steals a job, accounts for it, and runs or cancels it.
LEMMA WorkerOwn ==
  ASSUME TypeOK, Own, NEW w \in Workers, WorkerStep(w)
  PROVE  Own'
  <1> USE Roles
  <1>0. w \in Threads /\ pc[w] \in WorkerPcs /\ DOMAIN pc = Threads /\ DOMAIN job = Submitters /\ DOMAIN work = Threads
    BY DEF TypeOK, PcOK, DataOK
  <1>1. ASSUME UNCHANGED jobs, \A u \in Threads \ {w} : pc'[u] = pc[u],
               pc[w] \notin {"accept", "mark", "cancelClaimed", "run", "cancel"},
               pc'[w] \notin {"accept", "mark", "cancelClaimed", "run", "cancel"}
        PROVE  Own'
    <2>1. work[w] = <<>>
      BY <1>0, <1>1, EmptyHands DEF Own, HandsFit, WorkerPcs
    <2> QED
      BY <1>0, <1>1, <2>1, QuietKeepsOwn
  <1>2. CASE TryTakeJob(w) \/ Settle(w) \/ NotifyUnderLock(w)
    BY <1>0, <1>1, <1>2 DEF TryTakeJob, Settle, NotifyUnderLock, WorkerPcs
  <1>3. CASE Loop(w) \/ SpinQueued(w) \/ SpinPending(w) \/ SpinOpen(w)
    BY <1>0, <1>1, <1>3 DEF Loop, SpinQueued, SpinPending, SpinOpen
  <1>4. CASE Relock(w) \/ IdleQueued(w) \/ IdlePending(w) \/ Awaken(w)
    BY <1>0, <1>1, <1>4 DEF Relock, MarkIdle, IdleQueued, IdlePending, Parks, Wait, Awaken
  <1>5. CASE Unmark(w) \/ Consume(w) \/ WorkerExited(w)
    BY <1>0, <1>1, <1>5 DEF Unmark, Consume, WorkerExited
  <1>6. CASE SdInflight(w) \/ SdMark(w) \/ SdQueued(w) \/ SdPark(w)
    BY <1>0, <1>1, <1>6 DEF SdInflight, SdMark, MarkIdle, SdQueued, SdPark, Parks, Wait
  <1>7. CASE AcceptClaimedJob(w)
    BY <1>0, <1>7, QuietKeepsOwn DEF AcceptClaimedJob
  <1>8. CASE StealOne(w)
    <2>1. CASE queue = <<>>
      BY <1>0, <1>1, <1>8, <2>1 DEF StealOne
    <2>2. CASE queue # <<>>
      <3> DEFINE j == Head(queue)
      <3>1. /\ j \in Submitters /\ j \in ToSet(queue)
            /\ ToSet(Tail(queue)) = ToSet(queue) \ {j} /\ IsInjective(Tail(queue))
            /\ ToSet(<<j>>) = {j} /\ IsInjective(<<j>>) /\ <<j>> # <<>>
        BY <2>2, TailDistinct, OneJob DEF TypeOK, DataOK, Own, OneHolder
      <3>2. /\ pc'[w] = "accept" /\ work'[w] = <<j>> /\ queue' = Tail(queue) /\ job' = job
            /\ \A u \in Threads \ {w} : pc'[u] = pc[u] /\ work'[u] = work[u]
            /\ work[w] = <<>>
        BY <1>0, <1>8, <2>2, EmptyHands DEF StealOne
      <3> HIDE DEF j
      <3>3. HandsFit'
        BY <3>1, <3>2 DEF Own, HandsFit, Hand
      <3>4. OneHolder'
        <4>1. job[j] = "queued" /\ pc[j] # "push" /\ \A u \in Threads : j \notin ToSet(work[u])
          BY <3>1 DEF Own, OneHolder
        <4>2. \A i \in Submitters : pc'[i] = pc[i]
          BY <3>2
        <4>3. \A u \in Threads : \A i \in Submitters :
                 i \in ToSet(work'[u]) <=> (u = w /\ i = j) \/ i \in ToSet(work[u])
          BY <3>1, <3>2, NoJob
        <4>4. \A u \in Threads : IsInjective(work'[u])
          BY <3>1, <3>2 DEF Own, OneHolder
        <4>5. \A u \in Threads : \A i \in Submitters :
                 i \in ToSet(work'[u]) => job'[i] = Hand(pc'[u]) /\ pc'[i] # "push" /\ i \notin ToSet(queue')
          BY <3>1, <3>2, <4>1, <4>2, NoJob DEF Own, OneHolder, Hand
        <4> QED
          BY <3>1, <3>2, <4>1, <4>2, <4>3, <4>4, <4>5 DEF Own, OneHolder
      <3>5. Unpushed'
        BY <3>2 DEF Own, Unpushed
      <3> QED
        BY <3>3, <3>4, <3>5 DEF Own
    <2> QED
      BY <2>1, <2>2
  <1>9. CASE MarkRunning(w) \/ BeginCancelClaimed(w) \/ Run(w)
    <2> PICK j \in Submitters : work[w] = <<j>>
      BY <1>9 DEF MarkRunning, BeginCancelClaimed, Run, Own, HandsFit
    <2>1. Head(work[w]) = j /\ ToSet(work[w]) = {j} /\ work[w] # <<>>
      BY OneJob
    <2>2. /\ job[j] = Hand(pc[w]) /\ pc[j] # "push" /\ j \notin ToSet(queue)
          /\ \A u \in Threads \ {w} : j \notin ToSet(work[u])
      BY <2>1 DEF Own, OneHolder
    <2>3. /\ queue' = queue
          /\ \A u \in Threads \ {w} : pc'[u] = pc[u] /\ work'[u] = work[u]
          /\ \A i \in Submitters \ {j} : job'[i] = job[i]
          /\ \A i \in Submitters : pc'[i] = pc[i]
      BY <1>0, <1>9, <2>1 DEF MarkRunning, BeginCancelClaimed, Run
    <2>4. \/ pc'[w] = "run" /\ job'[j] = "running" /\ work'[w] = work[w]
          \/ pc'[w] = "cancel" /\ job'[j] = "cancelling" /\ work'[w] = work[w]
          \/ pc'[w] = "settle" /\ job'[j] = "completed" /\ work'[w] = <<>>
      BY <1>0, <1>9, <2>1 DEF MarkRunning, BeginCancelClaimed, Run
    <2>5. HandsFit'
      BY <2>1, <2>3, <2>4 DEF Own, HandsFit, Hand
    <2>6. OneHolder'
      BY <2>1, <2>2, <2>3, <2>4, NoJob DEF Own, OneHolder, Hand
    <2>7. Unpushed'
      <3>1. job[j] \in {"queued", "running"}
        BY <1>9, <2>2 DEF MarkRunning, BeginCancelClaimed, Run, Hand
      <3>2. pc[j] \notin {"start", "refused", "reserve", "rejectNotify", "accepting", "push"}
        BY <2>2, <3>1 DEF Own, Unpushed
      <3> QED
        BY <2>3, <2>4, <3>2 DEF Own, Unpushed
    <2> QED
      BY <2>5, <2>6, <2>7 DEF Own
  <1> QED
    BY <1>2, <1>3, <1>4, <1>5, <1>6, <1>7, <1>8, <1>9, CancelOwn DEF WorkerStep

\* stop takes what is left in the injector, one job at a time, then counts it as cancelling.
LEMMA DrainOwn ==
  ASSUME TypeOK, Own, NEW t \in Stoppers, Drain(t)
  PROVE  Own'
  <1> USE Roles
  <1>0. t \in Threads /\ pc[t] = "drain" /\ DOMAIN pc = Threads /\ DOMAIN job = Submitters /\ DOMAIN work = Threads
    BY DEF Drain, TypeOK, PcOK, DataOK
  <1>1. CASE queue # <<>>
    <2> DEFINE j == Head(queue)
    <2>1. /\ j \in Submitters /\ j \in ToSet(queue) /\ queue' = Tail(queue)
          /\ ToSet(queue') = ToSet(queue) \ {j} /\ IsInjective(queue')
      <3>1. queue \in Seq(Submitters) /\ IsInjective(queue) /\ queue' = Tail(queue)
        BY <1>1 DEF Drain, TypeOK, DataOK, Own, OneHolder
      <3> QED
        BY <1>1, <3>1, TailDistinct
    <2>2. /\ work'[t] = Append(work[t], j) /\ job' = job /\ pc' = pc
          /\ \A u \in Threads \ {t} : work'[u] = work[u]
      BY <1>0, <1>1 DEF Drain
    <2> HIDE DEF j
    <2>3. job[j] = "queued" /\ pc[j] # "push" /\ \A u \in Threads : j \notin ToSet(work[u])
      BY <2>1 DEF Own, OneHolder
    <2>4. ToSet(work'[t]) = ToSet(work[t]) \cup {j} /\ IsInjective(work'[t])
      BY <1>0, <2>1, <2>2, <2>3, AppendDistinct DEF TypeOK, DataOK, Own, OneHolder
    <2>5. HandsFit'
      BY <1>0, <2>2 DEF Own, HandsFit, Hand
    <2>6. OneHolder'
      <3>1. \A u \in Threads : IsInjective(work'[u])
        BY <2>2, <2>4 DEF Own, OneHolder
      <3>2. \A u \in Threads : \A i \in Submitters :
               i \in ToSet(work'[u]) <=> (u = t /\ i = j) \/ i \in ToSet(work[u])
        BY <2>2, <2>4
      <3>3. Hand(pc[t]) = "queued"
        BY <1>0 DEF Hand
      <3> QED
        BY <1>0, <2>1, <2>2, <2>3, <3>1, <3>2, <3>3 DEF Own, OneHolder
    <2>7. Unpushed'
      BY <2>2 DEF Own, Unpushed
    <2> QED
      BY <2>5, <2>6, <2>7 DEF Own
  <1>2. CASE queue = <<>>
    <2>1. /\ queue' = queue /\ work' = work /\ ToSet(queue) = {}
          /\ \A u \in Threads \ {t} : pc'[u] = pc[u]
          /\ \A i \in Submitters : pc'[i] = pc[i]
          /\ pc'[t] = IF work[t] = <<>> THEN "stopNotify" ELSE "cancel"
          /\ \A i \in Submitters : job'[i] = IF i \in ToSet(work[t]) THEN "cancelling" ELSE job[i]
      BY <1>0, <1>2, NoJob DEF Drain
    <2>2. \A i \in Submitters : i \in ToSet(work[t]) => /\ job[i] = "queued" /\ pc[i] # "push"
                                                      /\ \A u \in Threads \ {t} : i \notin ToSet(work[u])
      BY <1>0 DEF Own, OneHolder, Hand
    <2>3. HandsFit'
      BY <1>0, <2>1 DEF Own, HandsFit, Hand
    <2>4. OneHolder'
      BY <1>0, <2>1, <2>2, NoJob DEF Own, OneHolder, Hand
    <2>5. Unpushed'
      BY <2>1, <2>2 DEF Own, Unpushed
    <2> QED
      BY <2>3, <2>4, <2>5 DEF Own
  <1> QED
    BY <1>1, <1>2

\* The other steps of the callers and of the constructor touch no job.
LEMMA ControllerOwn ==
  ASSUME TypeOK, Own, NEW t \in Controllers,
         \/ t \in Shutdowners /\ ShutdownStep(t)
         \/ t \in Stoppers /\ StopStep(t)
         \/ t \in Joiners /\ (BeginJoin(t) \/ Join(t))
         \/ t \in Waiters /\ (AwaitTermination(t) \/ TimeoutElapses(t))
  PROVE  Own'
  <1> USE Roles
  <1>0. t \in Threads /\ t \notin Workers \cup Submitters /\ pc[t] \in ControllerPcs /\ DOMAIN pc = Threads
    BY DEF TypeOK, PcOK
  <1>1. ASSUME UNCHANGED jobs, \A u \in Threads \ {t} : pc'[u] = pc[u],
               pc[t] \notin {"drain", "cancel", "cancelNotify"}, pc'[t] \in ControllerPcs \ {"cancel"}
        PROVE  Own'
    <2>1. work[t] = <<>>
      BY <1>0, <1>1, EmptyHands DEF ControllerPcs
    <2> QED
      BY <1>0, <1>1, <2>1, QuietKeepsOwn DEF ControllerPcs
  <1>2. CASE ShutdownStep(t)
    BY <1>0, <1>1, <1>2 DEF ShutdownStep, CloseAdmission, Calls, BeginShutdown, ControllerPcs
  <1>3. CASE BeginJoin(t) \/ Join(t)
    BY <1>0, <1>1, <1>3 DEF BeginJoin, Calls, Join, Wait, ControllerPcs
  <1>4. CASE AwaitTermination(t) \/ TimeoutElapses(t)
    BY <1>0, <1>1, <1>4 DEF AwaitTermination, Calls, Wait, TimeoutElapses, ControllerPcs
  <1>5. CASE StopStep(t) /\ t \in Stoppers
    <2>1. CASE CloseAdmission(t, "stopNow") \/ SetStopNow(t) \/ BeginStop(t)
      BY <1>0, <1>1, <2>1 DEF CloseAdmission, Calls, SetStopNow, BeginStop, ControllerPcs
    <2>2. CASE AwaitSubmitters(t) \/ ResumeStop(t)
      BY <1>0, <1>1, <2>2 DEF AwaitSubmitters, Wait, ResumeStop, ControllerPcs
    <2>3. CASE NotifyUnderLock(t)
      <3>1. /\ UNCHANGED jobs /\ \A u \in Threads \ {t} : pc'[u] = pc[u]
            /\ \/ pc[t] = "stopNotify" /\ pc'[t] = "done"
               \/ pc[t] = "cancelNotify" /\ pc'[t] = IF work[t] = <<>> THEN "stopNotify" ELSE "cancel"
        BY <1>0, <2>3 DEF NotifyUnderLock, ControllerPcs
      <3> QED
        BY <1>0, <1>1, <3>1, QuietKeepsOwn DEF ControllerPcs
    <2> QED
      BY <1>5, <2>1, <2>2, <2>3, DrainOwn, CancelOwn DEF StopStep
  <1> QED
    BY <1>2, <1>3, <1>4, <1>5

\* Construction starts workers, or stops the pool, and moves no job.
LEMMA BuilderOwn ==
  ASSUME TypeOK, Own, BuilderStep
  PROVE  Own'
  <1> USE Roles
  <1>0. pc[Builder] \in BuilderPcs /\ DOMAIN pc = Threads /\ UNCHANGED jobs /\ work[Builder] = <<>>
    <2>1. pc[Builder] \in BuilderPcs /\ DOMAIN pc = Threads
      BY DEF TypeOK, PcOK
    <2>2. UNCHANGED jobs
      BY DEF BuilderStep, ReserveWorkerSlot, SpawnWorker, RollbackWorkerSlot, StopAfterFailedBuild, JoinStartedWorkers
    <2> QED
      BY <2>1, <2>2, EmptyHands DEF BuilderPcs
  <1>1. CASE SpawnWorker /\ ~Goto(Builder, "rollback")
    <2> PICK w \in Workers : pc[w] = "new" /\ pc' = [pc EXCEPT ![w] = "take", ![Builder] = "build"]
      BY <1>1 DEF SpawnWorker
    <2>1. /\ pc'[w] = "take" /\ pc'[Builder] = "build" /\ \A t \in Threads \ {w, Builder} : pc'[t] = pc[t]
          /\ work[w] = <<>>
      BY <1>0, EmptyHands
    <2>2. \A s \in Submitters : pc'[s] = pc[s]
      BY <2>1
    <2> QED
      BY <1>0, <2>1, <2>2, NoJob DEF Own, HandsFit, Hand, OneHolder, Unpushed
  <1>2. CASE ~(SpawnWorker /\ ~Goto(Builder, "rollback"))
    <2>1. pc'[Builder] \in BuilderPcs /\ \A u \in Threads \ {Builder} : pc'[u] = pc[u]
      BY <1>0, <1>2 DEF BuilderStep, ReserveWorkerSlot, SpawnWorker, RollbackWorkerSlot, StopAfterFailedBuild,
                        JoinStartedWorkers, BuilderPcs
    <2> QED
      BY <1>0, <2>1, QuietKeepsOwn DEF BuilderPcs
  <1> QED
    BY <1>1, <1>2

\* No step of the pool loses a job or gives it a second holder.
LEMMA OwnStep ==
  ASSUME TypeOK, Own, [Next]_vars
  PROVE  Own'
  <1>1. CASE UNCHANGED vars
    BY <1>1 DEF vars, Own, HandsFit, OneHolder, Unpushed
  <1> QED
    BY <1>1, Roles, BuilderOwn, SubmitterOwn, WorkerOwn, ControllerOwn DEF Next, ThreadStep

(***************************************************************************)
(* A job between two hands belongs to exactly one, as SoleOwner counts.    *)
(***************************************************************************)
LEMMA OwnIsSole ==
  ASSUME TypeOK, Own
  PROVE  SoleOwner
  <1> SUFFICES ASSUME NEW j \in Submitters
               PROVE  /\ Cardinality(Holders(j)) + Cardinality({i \in DOMAIN queue : queue[i] = j})
                            + (IF pc[j] = "push" THEN 1 ELSE 0)
                         = IF job[j] \in {"queued", "running", "cancelling"} THEN 1 ELSE 0
                      /\ job[j] = "running" => Holders(j) \subseteq Workers
    BY DEF SoleOwner
  <1> DEFINE Places == {i \in DOMAIN queue : queue[i] = j}
  <1>1. Cardinality(Holders(j)) = IF Holders(j) = {} THEN 0 ELSE 1
    BY CardinalityAtMostOne DEF Holders, Own, OneHolder
  <1>2. Cardinality(Places) = IF Places = {} THEN 0 ELSE 1
    BY CardinalityAtMostOne DEF Own, OneHolder, IsInjective
  <1>3. (Places # {} <=> j \in ToSet(queue)) /\ (Holders(j) # {} <=> \E t \in Threads : j \in ToSet(work[t]))
    BY DEF ToSet, Holders
  <1>4. \A t \in Threads : j \in ToSet(work[t]) => job[j] \in {"queued", "running", "cancelling"}
    BY NoJob DEF Own, HandsFit, OneHolder, Hand
  <1>5. ASSUME job[j] \in {"queued", "running", "cancelling"}
        PROVE  Cardinality(Holders(j)) + Cardinality(Places) + (IF pc[j] = "push" THEN 1 ELSE 0) = 1
    <2>1. pc[j] = "push" \/ Places # {} \/ Holders(j) # {}
      BY <1>3, <1>5 DEF Own, OneHolder
    <2>2. /\ pc[j] = "push" => Places = {} /\ Holders(j) = {}
          /\ Places # {} => Holders(j) = {}
      BY <1>3 DEF Own, OneHolder
    <2> HIDE DEF Places
    <2> QED
      BY <1>1, <1>2, <2>1, <2>2
  <1>6. ASSUME job[j] \notin {"queued", "running", "cancelling"}
        PROVE  Cardinality(Holders(j)) + Cardinality(Places) + (IF pc[j] = "push" THEN 1 ELSE 0) = 0
    <2>1. pc[j] # "push" /\ Places = {} /\ Holders(j) = {}
      BY <1>3, <1>4, <1>6 DEF Own, OneHolder, Unpushed
    <2> HIDE DEF Places
    <2> QED
      BY <1>1, <1>2, <2>1
  <1>7. job[j] = "running" => Holders(j) \subseteq Workers
    <2> SUFFICES ASSUME job[j] = "running", NEW t \in Threads, j \in ToSet(work[t])
                 PROVE  t \in Workers
      BY DEF Holders
    <2>1. pc[t] = "run"
      BY DEF Own, OneHolder, Hand
    <2> QED
      BY <2>1 DEF TypeOK, PcOK, Threads, Callers, BuilderPcs, SubmitterPcs, ControllerPcs
  <1> QED
    BY <1>5, <1>6, <1>7

-----------------------------------------------------------------------------
\* The gate is closed first.

\* A worker's step concerns neither the gate nor the lifecycle nor another thread.
LEMMA WorkerFrame ==
  ASSUME TypeOK, NEW w \in Workers, WorkerStep(w)
  PROVE  /\ UNCHANGED <<lifecycle, open, before>> /\ pc[w] \notin {"new", "off"}
         /\ \A u \in Threads \ {w} : pc'[u] = pc[u]
         /\ waiting' \subseteq waiting \cup {w}
  <1>1. \A u \in Threads \ {w} : pc'[u] = pc[u]
    BY WorkerCounters DEF Balanced
  <1>2. CASE TryTakeJob(w) \/ StealOne(w) \/ AcceptClaimedJob(w) \/ MarkRunning(w) \/ BeginCancelClaimed(w)
    BY <1>1, <1>2 DEF TryTakeJob, StealOne, AcceptClaimedJob, MarkRunning, BeginCancelClaimed
  <1>3. CASE CancelCallback(w) \/ Run(w) \/ Settle(w) \/ NotifyUnderLock(w)
    BY <1>1, <1>3 DEF CancelCallback, Run, Settle, NotifyUnderLock
  <1>4. CASE Loop(w) \/ SpinQueued(w) \/ SpinPending(w) \/ SpinOpen(w) \/ Relock(w)
    BY <1>1, <1>4 DEF Loop, SpinQueued, SpinPending, SpinOpen, Relock, MarkIdle
  <1>5. CASE IdleQueued(w) \/ IdlePending(w) \/ Awaken(w) \/ Unmark(w) \/ Consume(w)
    BY <1>1, <1>5 DEF IdleQueued, IdlePending, Parks, Wait, Awaken, Unmark, Consume
  <1>6. CASE SdInflight(w) \/ SdMark(w) \/ SdQueued(w) \/ SdPark(w) \/ WorkerExited(w)
    BY <1>1, <1>6 DEF SdInflight, SdMark, MarkIdle, SdQueued, SdPark, Parks, Wait, WorkerExited
  <1> QED
    BY <1>2, <1>3, <1>4, <1>5, <1>6 DEF WorkerStep

\* A submitter's step begins with the call, and leaves the gate and the lifecycle alone.
LEMMA SubmitterFrame ==
  ASSUME TypeOK, NEW s \in Submitters, SubmitterStep(s)
  PROVE  /\ UNCHANGED <<lifecycle, open, before>>
         /\ pc[s] = "start" => pc[Builder] = "ready"
         /\ pc'[s] # "start"
         /\ \A u \in Threads \ {s} : pc'[u] = pc[u]
         /\ waiting' \subseteq waiting
  <1>0. s \in Threads /\ DOMAIN pc = Threads
    BY Roles DEF TypeOK, PcOK
  <1>1. \A u \in Threads \ {s} : pc'[u] = pc[u]
    BY SubmitterCounters DEF Balanced
  <1>2. CASE BeginSubmit(s)
    BY <1>0, <1>1, <1>2 DEF BeginSubmit, Calls
  <1>3. CASE ReserveQueueSlot(s) \/ AcceptPanics(s) \/ EnqueueJob(s)
    BY <1>0, <1>1, <1>3 DEF ReserveQueueSlot, AcceptPanics, EnqueueJob
  <1>4. CASE LoadIdle(s) \/ RequestWake(s) \/ Leave(s) \/ Depart(s) \/ NotifyUnderLock(s)
    BY <1>0, <1>1, <1>4, Roles DEF LoadIdle, RequestWake, Leave, Depart, NotifyUnderLock
  <1> QED
    BY <1>2, <1>3, <1>4 DEF SubmitterStep

\* The kinds of steps by which callers and the constructor touch gate, lifecycle and history.
ControllerStep(t) == \/ t \in Shutdowners /\ ShutdownStep(t)
                     \/ t \in Stoppers /\ StopStep(t)
                     \/ t \in Joiners /\ (BeginJoin(t) \/ Join(t))
                     \/ t \in Waiters /\ (AwaitTermination(t) \/ TimeoutElapses(t))

\* What shutdown, stop, join and wait_for_termination leave alone.
LEMMA ControllerFrame ==
  ASSUME TypeOK, Own, NEW t \in Controllers, ControllerStep(t)
  PROVE  /\ \A u \in Threads \ {t} : pc'[u] = pc[u]
         /\ pc[t] = "start" /\ t \notin waiting => pc[Builder] = "ready"
         /\ waiting' \subseteq waiting \cup {t}
         /\ open' => open
         /\ pc'[t] \in {"shutdown", "stopNow"} => ~open'
         /\ pc'[t] = "stop" => pc[t] = "stopNow"
         /\ \/ lifecycle' = lifecycle
            \/ lifecycle = "Running" /\ lifecycle' = "ShuttingDown" /\ pc[t] = "shutdown"
            \/ lifecycle # "Stopping" /\ lifecycle' = "Stopping" /\ pc[t] = "stop"
  <1>0. t \in Threads /\ DOMAIN pc = Threads /\ pc[t] \in ControllerPcs
    BY Roles DEF TypeOK, PcOK
  <1>1. \A u \in Threads \ {t} : pc'[u] = pc[u]
    BY ShutdownCounters, StopCounters, WaiterTypes DEF Balanced, ControllerStep
  <1>2. CASE ShutdownStep(t)
    BY <1>0, <1>1, <1>2 DEF ShutdownStep, CloseAdmission, Calls, BeginShutdown
  <1>3. CASE BeginJoin(t) \/ Join(t)
    BY <1>0, <1>1, <1>3 DEF BeginJoin, Calls, Join, Wait
  <1>4. CASE AwaitTermination(t) \/ TimeoutElapses(t)
    BY <1>0, <1>1, <1>4 DEF AwaitTermination, Calls, Wait, TimeoutElapses
  <1>5. CASE StopStep(t) /\ t \in Stoppers
    <2>1. CASE CloseAdmission(t, "stopNow") \/ SetStopNow(t)
      BY <1>0, <1>1, <2>1 DEF CloseAdmission, Calls, SetStopNow
    <2>2. CASE BeginStop(t)
      BY <1>0, <1>1, <2>2 DEF BeginStop, TypeOK, DataOK
    <2>3. CASE AwaitSubmitters(t) \/ ResumeStop(t) \/ Drain(t)
      BY <1>0, <1>1, <2>3 DEF AwaitSubmitters, Wait, ResumeStop, Drain
    <2>4. CASE CancelCallback(t) \/ NotifyUnderLock(t)
      BY <1>0, <1>1, <2>4, Roles DEF CancelCallback, NotifyUnderLock, ControllerPcs
    <2> QED
      BY <1>5, <2>1, <2>2, <2>3, <2>4 DEF StopStep
  <1> QED
    BY <1>2, <1>3, <1>4, <1>5 DEF ControllerStep

\* The gate closes before the lifecycle leaves Running, and nothing reopens it.
LEMMA GateStep ==
  ASSUME TypeOK, Own, GateFirst, [Next]_vars
  PROVE  GateFirst'
  <1> USE Roles DEF GateFirst
  <1>0. Callers \subseteq Threads /\ Callers = Submitters \cup Controllers /\ DOMAIN pc = Threads
    BY DEF Threads, Callers, TypeOK, PcOK
  <1>1. ASSUME NEW w \in Workers, WorkerStep(w)
        PROVE  GateFirst'
    BY <1>0, <1>1, WorkerFrame
  <1>2. ASSUME NEW s \in Submitters, SubmitterStep(s)
        PROVE  GateFirst'
    BY <1>0, <1>2, SubmitterFrame
  <1>3. ASSUME NEW t \in Controllers, ControllerStep(t)
        PROVE  GateFirst'
    <2>1. /\ pc'[Builder] = pc[Builder] /\ pc[Builder] = "ready"
          /\ \A w \in Workers : pc'[w] = pc[w]
          /\ \A u \in Controllers \ {t} : pc'[u] = pc[u]
      BY <1>0, <1>3, ControllerFrame
    <2>2. lifecycle' # "Running" => ~open'
      BY <1>3, ControllerFrame
    <2>3. pc'[t] \in {"shutdown", "stopNow", "stop"} => ~open'
      BY <1>3, ControllerFrame
    <2>4. open' => open
      BY <1>3, ControllerFrame
    <2> QED
      BY <2>1, <2>2, <2>3, <2>4
  <1>4. CASE BuilderStep
    <2>1. pc[Builder] \in BuilderPcs /\ \A u \in Controllers : pc'[u] = pc[u]
      BY <1>0, <1>4 DEF BuilderStep, ReserveWorkerSlot, SpawnWorker, RollbackWorkerSlot, StopAfterFailedBuild,
                        JoinStartedWorkers, TypeOK, PcOK
    <2>2. \A u \in Callers : pc'[u] = pc[u]
      BY <1>0, <1>4 DEF BuilderStep, ReserveWorkerSlot, SpawnWorker, RollbackWorkerSlot, StopAfterFailedBuild,
                        JoinStartedWorkers, TypeOK, PcOK
    <2>3. CASE ReserveWorkerSlot \/ RollbackWorkerSlot
      BY <1>0, <2>1, <2>2, <2>3 DEF ReserveWorkerSlot, RollbackWorkerSlot
    <2>4. CASE SpawnWorker
      <3>1. /\ UNCHANGED <<lifecycle, open, waiting>>
            /\ pc[Builder] = "spawn" /\ pc'[Builder] \in {"build", "rollback"}
        BY <1>0, <2>4 DEF SpawnWorker
      <3> QED
        BY <2>1, <2>2, <3>1
    <2>5. CASE StopAfterFailedBuild
      BY <1>0, <2>1, <2>2, <2>5 DEF StopAfterFailedBuild
    <2>6. CASE JoinStartedWorkers
      BY <1>0, <2>1, <2>2, <2>6 DEF JoinStartedWorkers
    <2> QED
      BY <1>4, <2>3, <2>4, <2>5, <2>6 DEF BuilderStep
  <1>5. CASE UNCHANGED vars
    BY <1>5 DEF vars
  <1> QED
    BY <1>1, <1>2, <1>3, <1>4, <1>5 DEF Next, ThreadStep, ControllerStep

-----------------------------------------------------------------------------
\* What is over stays over.

Settled == {"none", "completed", "cancelled"}

\* A settled job is in nobody's hands, so only its own submitter could touch it.
LEMMA SettledUnheld ==
  ASSUME TypeOK, Own, NEW j \in Submitters, job[j] \in Settled
  PROVE  j \notin ToSet(queue) /\ \A t \in Threads : j \notin ToSet(work[t])
  BY NoJob DEF Settled, Own, HandsFit, OneHolder, Hand

(***************************************************************************)
(* A submission that is not inside and whose job is settled stays so, and  *)
(* can only begin, once, at an open gate.                                  *)
(***************************************************************************)
LEMMA SettledStays ==
  ASSUME TypeOK, Own, [Next]_vars, NEW j \in Submitters, j \notin Inside, job[j] \in Settled
  PROVE  /\ job'[j] = job[j]
         /\ pc[j] # "start" \/ ~open => j \notin Inside'
         /\ pc[j] # "start" => pc'[j] # "start"
  <1> USE Roles
  <1>0. /\ DOMAIN pc = Threads /\ DOMAIN job = Submitters /\ j \in Threads /\ pc[j] \in SubmitterPcs
        /\ j \notin ToSet(queue) /\ \A t \in Threads : j \notin ToSet(work[t])
    BY SettledUnheld DEF TypeOK, PcOK, DataOK
  <1>1. ASSUME job'[j] = job[j], pc'[j] = pc[j]
        PROVE  /\ job'[j] = job[j]
               /\ pc[j] # "start" \/ ~open => j \notin Inside'
               /\ pc[j] # "start" => pc'[j] # "start"
    BY <1>1 DEF Inside
  <1>2. CASE SubmitterStep(j)
    <2>1. pc[j] \in {"start", "refused", "departOpen", "departWaiters", "departNotify", "done"}
      BY <1>0 DEF Inside, SubmitterPcs
    <2>2. CASE BeginSubmit(j)
      BY <1>0, <2>2 DEF BeginSubmit, Calls, Inside
    <2>3. CASE Depart(j)
      BY <1>0, <2>3 DEF Depart, Inside
    <2>4. CASE NotifyUnderLock(j)
      BY <1>0, <2>1, <2>4 DEF NotifyUnderLock, Inside
    <2> QED
      BY <1>2, <2>1, <2>2, <2>3, <2>4 DEF SubmitterStep, ReserveQueueSlot, AcceptPanics, EnqueueJob, LoadIdle,
                                          RequestWake, Leave
  <1>3. ASSUME NEW s \in Submitters, s # j, SubmitterStep(s)
        PROVE  job'[j] = job[j] /\ pc'[j] = pc[j]
    <2>1. pc'[j] = pc[j]
      BY <1>0, <1>3, SubmitterFrame
    <2>2. CASE BeginSubmit(s) \/ ReserveQueueSlot(s) \/ AcceptPanics(s) \/ EnqueueJob(s)
      BY <1>0, <1>3, <2>1, <2>2 DEF BeginSubmit, ReserveQueueSlot, AcceptPanics, EnqueueJob
    <2>3. CASE LoadIdle(s) \/ RequestWake(s) \/ Leave(s) \/ Depart(s) \/ NotifyUnderLock(s)
      BY <2>1, <2>3 DEF LoadIdle, RequestWake, Leave, Depart, NotifyUnderLock
    <2> QED
      BY <1>3, <2>2, <2>3 DEF SubmitterStep
  <1>4. ASSUME NEW t \in Workers \cup Stoppers, CancelCallback(t)
        PROVE  job'[j] = job[j] /\ pc'[j] = pc[j]
    <2>1. t \in Threads /\ work[t] # <<>> /\ work[t] \in Seq(Submitters)
      BY <1>4 DEF CancelCallback, Own, HandsFit, TypeOK, DataOK
    <2>2. Head(work[t]) \in ToSet(work[t])
      BY <2>1, TailDistinct
    <2>3. Head(work[t]) # j
      BY <1>0, <2>1, <2>2
    <2> QED
      BY <1>0, <1>4, <2>3 DEF CancelCallback
  <1>5. ASSUME NEW w \in Workers, MarkRunning(w) \/ BeginCancelClaimed(w) \/ Run(w)
        PROVE  job'[j] = job[j] /\ pc'[j] = pc[j]
    <2> PICK i \in Submitters : work[w] = <<i>>
      BY <1>5 DEF MarkRunning, BeginCancelClaimed, Run, Own, HandsFit
    <2>1. Head(work[w]) = i /\ i # j
      BY <1>0, OneJob
    <2> QED
      BY <1>0, <1>5, <2>1 DEF MarkRunning, BeginCancelClaimed, Run
  <1>6. ASSUME NEW w \in Workers, WorkerStep(w), ~CancelCallback(w), ~MarkRunning(w), ~BeginCancelClaimed(w), ~Run(w)
        PROVE  job' = job
    <2>1. CASE TryTakeJob(w) \/ StealOne(w) \/ AcceptClaimedJob(w) \/ Settle(w) \/ NotifyUnderLock(w)
      BY <2>1 DEF TryTakeJob, StealOne, AcceptClaimedJob, Settle, NotifyUnderLock
    <2>2. CASE Loop(w) \/ SpinQueued(w) \/ SpinPending(w) \/ SpinOpen(w) \/ Relock(w) \/ IdleQueued(w) \/ IdlePending(w)
      BY <2>2 DEF Loop, SpinQueued, SpinPending, SpinOpen, Relock, MarkIdle, IdleQueued, IdlePending, Parks
    <2>3. CASE Awaken(w) \/ Unmark(w) \/ Consume(w) \/ SdInflight(w) \/ SdMark(w) \/ SdQueued(w) \/ SdPark(w) \/ WorkerExited(w)
      BY <2>3 DEF Awaken, Unmark, Consume, SdInflight, SdMark, MarkIdle, SdQueued, SdPark, Parks, WorkerExited
    <2> QED
      BY <1>6, <2>1, <2>2, <2>3 DEF WorkerStep
  <1>7. ASSUME NEW w \in Workers, WorkerStep(w)
        PROVE  job'[j] = job[j] /\ pc'[j] = pc[j]
    BY <1>0, <1>4, <1>5, <1>6, <1>7, WorkerFrame
  <1>8. ASSUME NEW t \in Controllers, ControllerStep(t)
        PROVE  job'[j] = job[j] /\ pc'[j] = pc[j]
    <2>0. pc'[j] = pc[j]
      BY <1>0, <1>8, ControllerFrame
    <2>1. CASE ShutdownStep(t)
      BY <2>0, <2>1 DEF ShutdownStep, CloseAdmission, BeginShutdown
    <2>2. CASE BeginJoin(t) \/ Join(t) \/ AwaitTermination(t) \/ TimeoutElapses(t)
      BY <2>0, <2>2 DEF BeginJoin, Join, AwaitTermination, TimeoutElapses
    <2>3. CASE Drain(t)
      BY <1>0, <2>0, <2>3 DEF Drain
    <2>4. CASE CloseAdmission(t, "stopNow") \/ SetStopNow(t) \/ BeginStop(t) \/ AwaitSubmitters(t) \/ ResumeStop(t)
               \/ NotifyUnderLock(t)
      BY <2>0, <2>4 DEF CloseAdmission, SetStopNow, BeginStop, AwaitSubmitters, ResumeStop, NotifyUnderLock
    <2> QED
      BY <1>4, <1>8, <2>1, <2>2, <2>3, <2>4 DEF ControllerStep, StopStep
  <1>9. CASE BuilderStep
    <2>1. job' = job /\ pc'[j] = pc[j]
      BY <1>0, <1>9 DEF BuilderStep, ReserveWorkerSlot, SpawnWorker, RollbackWorkerSlot, StopAfterFailedBuild,
                        JoinStartedWorkers
    <2> QED
      BY <1>1, <2>1
  <1>10. CASE UNCHANGED vars
    BY <1>1, <1>10 DEF vars
  <1> QED
    BY <1>1, <1>2, <1>3, <1>7, <1>8, <1>9, <1>10 DEF Next, ThreadStep, ControllerStep

\* A submission begins once.
LEMMA StartedStays ==
  ASSUME TypeOK, Own, [Next]_vars, NEW j \in Submitters, pc[j] # "start"
  PROVE  pc'[j] # "start"
  <1> USE Roles
  <1>0. j \in Threads /\ DOMAIN pc = Threads
    BY DEF TypeOK, PcOK
  <1>1. ASSUME NEW s \in Submitters, SubmitterStep(s)
        PROVE  pc'[j] # "start"
    BY <1>0, <1>1, SubmitterFrame
  <1>2. ASSUME NEW w \in Workers, WorkerStep(w)
        PROVE  pc'[j] # "start"
    BY <1>0, <1>2, WorkerFrame
  <1>3. ASSUME NEW t \in Controllers, ControllerStep(t)
        PROVE  pc'[j] # "start"
    BY <1>0, <1>3, ControllerFrame
  <1>4. CASE BuilderStep
    BY <1>0, <1>4 DEF BuilderStep, ReserveWorkerSlot, SpawnWorker, RollbackWorkerSlot, StopAfterFailedBuild,
                      JoinStartedWorkers
  <1>5. CASE UNCHANGED vars
    BY <1>5 DEF vars
  <1> QED
    BY <1>1, <1>2, <1>3, <1>4, <1>5 DEF Next, ThreadStep, ControllerStep

\* How a caller of join moves: it notes the submissions under way when it calls, and
\* returns from an idle pool.
LEMMA JoinerMoves ==
  ASSUME TypeOK, Own, [Next]_vars, NEW t \in Joiners
  PROVE  /\ \/ before'[t] = before[t]
            \/ /\ before'[t] = Inside \cup Under({"queued", "running", "cancelling"})
               /\ pc' = [pc EXCEPT ![t] = "join"]
         /\ pc[t] = "join" /\ pc'[t] # "join" => IsIdle /\ pc'[t] = "done" /\ job' = job
                                                  /\ \A s \in Submitters : pc'[s] = pc[s]
         /\ pc[t] = "done" => pc'[t] = "done"
  <1> USE Roles
  <1>0. t \in Threads /\ t \in Controllers /\ DOMAIN pc = Threads /\ before \in [Joiners -> SUBSET Submitters]
    BY DEF TypeOK, PcOK, DataOK
  <1>1. ASSUME NEW w \in Workers, WorkerStep(w)
        PROVE  before' = before /\ pc'[t] = pc[t]
    BY <1>0, <1>1, WorkerFrame
  <1>2. ASSUME NEW s \in Submitters, SubmitterStep(s)
        PROVE  before' = before /\ pc'[t] = pc[t]
    BY <1>0, <1>2, SubmitterFrame
  <1>3. CASE BuilderStep
    BY <1>0, <1>3 DEF BuilderStep, ReserveWorkerSlot, SpawnWorker, RollbackWorkerSlot, StopAfterFailedBuild,
                      JoinStartedWorkers
  <1>4. ASSUME NEW u \in Controllers, ControllerStep(u)
        PROVE  /\ \/ before' = before
                  \/ u \in Joiners /\ BeginJoin(u)
               /\ pc[u] = "join" => Join(u)
               /\ pc[u] # "done"
    <2>0. pc[u] \in ControllerPcs /\ u \notin Workers
      BY DEF TypeOK, PcOK
    <2>1. CASE ShutdownStep(u)
      BY <2>0, <2>1 DEF ShutdownStep, CloseAdmission, Calls, BeginShutdown
    <2>2. CASE u \in Joiners /\ (BeginJoin(u) \/ Join(u))
      BY <2>0, <2>2 DEF BeginJoin, Calls, Join
    <2>3. CASE AwaitTermination(u) \/ TimeoutElapses(u)
      BY <2>0, <2>3 DEF AwaitTermination, Calls, TimeoutElapses
    <2>4. CASE CloseAdmission(u, "stopNow") \/ SetStopNow(u) \/ BeginStop(u) \/ AwaitSubmitters(u) \/ ResumeStop(u)
      BY <2>0, <2>4 DEF CloseAdmission, Calls, SetStopNow, BeginStop, AwaitSubmitters, ResumeStop
    <2>5. CASE Drain(u) \/ CancelCallback(u) \/ NotifyUnderLock(u)
      BY <2>0, <2>5 DEF Drain, CancelCallback, NotifyUnderLock, ControllerPcs
    <2> QED
      BY <1>4, <2>1, <2>2, <2>3, <2>4, <2>5 DEF ControllerStep, StopStep
  <1>5. ASSUME NEW u \in Controllers, ControllerStep(u), u # t
        PROVE  before'[t] = before[t] /\ pc'[t] = pc[t]
    BY <1>0, <1>4, <1>5, ControllerFrame DEF BeginJoin
  <1>6. CASE ControllerStep(t)
    <2>1. CASE BeginJoin(t)
      BY <1>0, <1>4, <1>6, <2>1 DEF BeginJoin, Calls
    <2>2. CASE Join(t)
      BY <1>0, <2>2 DEF Join, Wait
    <2>3. CASE ~BeginJoin(t) /\ ~Join(t)
      BY <1>0, <1>4, <1>6, <2>3
    <2> QED
      BY <2>1, <2>2, <2>3
  <1>7. CASE UNCHANGED vars
    BY <1>7 DEF vars
  <1> QED
    BY <1>0, <1>1, <1>2, <1>3, <1>5, <1>6, <1>7 DEF Next, ThreadStep, ControllerStep

\* An idle pool has no submission inside and no unsettled job.
LEMMA IdleIsSettled ==
  ASSUME TypeOK, IsIdle, NEW j \in Submitters
  PROVE  j \notin Inside /\ job[j] \in Settled
  BY DEF TypeOK, DataOK, IsIdle, Inside, Under, JobStages, Settled

\* join returns only from an idle pool, and what it waited for stays settled.
LEMMA JoinStep ==
  ASSUME TypeOK, Own, JoinerKnows, JoinSound, [Next]_vars
  PROVE  JoinerKnows' /\ JoinSound'
  <1> SUFFICES ASSUME NEW t \in Joiners
               PROVE  /\ \A j \in before'[t] : pc'[j] # "start"
                      /\ pc'[t] \notin {"join", "done"} => before'[t] = {}
                      /\ pc'[t] = "done" => \A j \in before'[t] : j \notin Inside' /\ job'[j] \in Settled
    BY DEF JoinerKnows, JoinSound, Settled
  <1>0. /\ before[t] \subseteq Submitters /\ t \in Threads /\ t \notin Submitters /\ Submitters \subseteq Threads
        /\ DOMAIN pc = Threads
    BY Roles DEF TypeOK, DataOK, PcOK
  <1>1. CASE before'[t] # before[t]
    <2>1. \A j \in before'[t] : j \in Submitters /\ pc[j] # "start"
      <3> SUFFICES ASSUME NEW j \in before'[t] PROVE j \in Submitters /\ pc[j] # "start"
        OBVIOUS
      <3>1. j \in Inside \/ j \in Under({"queued", "running", "cancelling"})
        BY <1>1, JoinerMoves
      <3> QED
        BY <3>1 DEF Inside, Under, Own, Unpushed
    <2>2. pc'[t] = "join" /\ \A j \in Submitters : pc'[j] = pc[j]
      BY <1>0, <1>1, JoinerMoves
    <2> QED
      BY <2>1, <2>2
  <1>2. CASE before'[t] = before[t]
    <2>1. ASSUME NEW j \in before[t]
          PROVE  pc'[j] # "start"
      <3>1. j \in Submitters /\ pc[j] # "start"
        BY <1>0 DEF JoinerKnows
      <3> QED
        BY <1>0, <3>1, StartedStays
    <2>2. ASSUME before[t] # {}
          PROVE  pc[t] \in {"join", "done"} /\ pc'[t] \in {"join", "done"}
      BY <2>2, JoinerMoves DEF JoinerKnows
    <2>3. ASSUME pc'[t] = "done", NEW j \in before[t]
          PROVE  j \notin Inside' /\ job'[j] \in Settled
      <3>1. j \in Submitters /\ pc[j] # "start"
        BY <1>0 DEF JoinerKnows
      <3>2. CASE pc[t] = "done"
        BY <3>1, <3>2, SettledStays DEF JoinSound, Settled
      <3>3. CASE pc[t] = "join"
        <4>1. IsIdle /\ job' = job /\ \A s \in Submitters : pc'[s] = pc[s]
          BY <2>3, <3>3, JoinerMoves
        <4> QED
          BY <3>1, <4>1, IdleIsSettled DEF Inside
      <3> QED
        BY <2>2, <3>2, <3>3
    <2> QED
      BY <1>2, <2>1, <2>2, <2>3
  <1> QED
    BY <1>1, <1>2

\* is_terminated_locked tells the truth ...
LEMMA TerminatedIsOver ==
  ASSUME TypeOK, GateFirst, IsTerminated
  PROVE  PoolIsOver
  <1>1. lifecycle # "Running" /\ ~open /\ live = 0 /\ IsIdle
    BY DEF IsTerminated, GateFirst
  <1>2. Cardinality(Active) = 0
    BY <1>1, CountersFinite DEF TypeOK, CountersExact
  <1>3. Active = {}
    BY <1>2, CountersFinite, FS_EmptySet
  <1>4. \A j \in Submitters : j \notin Inside /\ job[j] \in Settled
    BY <1>1, IdleIsSettled
  <1> QED
    BY <1>1, <1>3, <1>4 DEF PoolIsOver, Active, Inside, Settled

\* ... and for good: a built pool that is over stays over.
LEMMA OverStep ==
  ASSUME TypeOK, Own, GateFirst, PoolIsOver, pc[Builder] = "ready", [Next]_vars
  PROVE  PoolIsOver'
  <1> USE Roles
  <1>0. ~open /\ lifecycle # "Running" /\ DOMAIN pc = Threads
    BY DEF PoolIsOver, TypeOK, PcOK
  <1>1. \A j \in Submitters : j \notin Inside' /\ job'[j] \in Settled
    BY <1>0, SettledStays DEF PoolIsOver, Settled
  <1>2. ~open' /\ lifecycle' # "Running" /\ \A w \in Workers : pc'[w] = pc[w]
    <2>1. ASSUME NEW w \in Workers, WorkerStep(w)
          PROVE  FALSE
      BY <2>1, WorkerFrame DEF PoolIsOver
    <2>2. ASSUME NEW s \in Submitters, SubmitterStep(s)
          PROVE  ~open' /\ lifecycle' # "Running" /\ \A w \in Workers : pc'[w] = pc[w]
      BY <1>0, <2>2, SubmitterFrame
    <2>3. ASSUME NEW t \in Controllers, ControllerStep(t)
          PROVE  ~open' /\ lifecycle' # "Running" /\ \A w \in Workers : pc'[w] = pc[w]
      BY <1>0, <2>3, ControllerFrame DEF TypeOK, DataOK
    <2>4. ASSUME BuilderStep
          PROVE  FALSE
      BY <2>4 DEF BuilderStep, ReserveWorkerSlot, SpawnWorker, RollbackWorkerSlot, StopAfterFailedBuild,
                  JoinStartedWorkers
    <2>5. CASE UNCHANGED vars
      BY <1>0, <2>5 DEF vars
    <2> QED
      BY <2>1, <2>2, <2>3, <2>4, <2>5 DEF Next, ThreadStep, ControllerStep
  <1> QED
    BY <1>1, <1>2 DEF PoolIsOver, Inside, Settled

\* A waiter returns from a terminated pool, and the others are told of nothing.
LEMMA ToldStep ==
  ASSUME TypeOK, Own, GateFirst, ToldWaiters, [Next]_vars
  PROVE  ToldWaiters'
  <1> USE Roles
  <1> SUFFICES ASSUME NEW t \in Waiters, pc'[t] = "done"
               PROVE  PoolIsOver'
    BY DEF ToldWaiters
  <1>0. t \in Threads /\ t \in Callers /\ DOMAIN pc = Threads
    BY DEF Callers, TypeOK, PcOK
  <1>1. CASE pc[t] = "done"
    BY <1>0, <1>1, OverStep DEF ToldWaiters, GateFirst
  <1>2. CASE pc[t] # "done"
    <2>1. ASSUME NEW w \in Workers, WorkerStep(w)
          PROVE  FALSE
      BY <1>0, <1>2, <2>1, WorkerFrame
    <2>2. ASSUME NEW s \in Submitters, SubmitterStep(s)
          PROVE  FALSE
      BY <1>0, <1>2, <2>2, SubmitterFrame
    <2>3. ASSUME BuilderStep
          PROVE  FALSE
      BY <1>0, <1>2, <2>3 DEF BuilderStep, ReserveWorkerSlot, SpawnWorker, RollbackWorkerSlot,
                              StopAfterFailedBuild, JoinStartedWorkers
    <2>4. ASSUME NEW u \in Controllers, ControllerStep(u)
          PROVE  IsTerminated /\ pc[Builder] = "ready"
      <3>1. u = t
        BY <1>0, <1>2, <2>4, ControllerFrame
      <3>2. AwaitTermination(t) \/ TimeoutElapses(t)
        BY <2>4, <3>1 DEF ControllerStep
      <3> QED
        BY <1>0, <1>2, <3>2 DEF AwaitTermination, Calls, Wait, TimeoutElapses, GateFirst
    <2>5. ~UNCHANGED vars
      BY <1>2 DEF vars
    <2>6. IsTerminated /\ pc[Builder] = "ready"
      BY <2>1, <2>2, <2>3, <2>4, <2>5 DEF Next, ThreadStep, ControllerStep
    <2> QED
      BY <2>6, TerminatedIsOver, OverStep
  <1> QED
    BY <1>1, <1>2

\* A construction that failed has terminated its pool.
LEMMA FailedIsTerminated ==
  ASSUME TypeOK, Own, GateFirst, pc[Builder] = "failed"
  PROVE  IsTerminated
  <1>1. \A s \in Submitters : pc[s] = "start" /\ job[s] = "none"
    BY DEF GateFirst, Own, Unpushed, Callers
  <1>2. IsIdle
    BY <1>1 DEF IsIdle, Inside, Under
  <1>3. Active = {}
    BY DEF GateFirst, Active
  <1>4. live = 0
    BY <1>3, FS_EmptySet DEF TypeOK, CountersExact
  <1> QED
    BY <1>2, <1>4 DEF IsTerminated, GateFirst

-----------------------------------------------------------------------------
(***************************************************************************)
(* Wake-ups.  Whenever a sleeper's reason to wake holds, some thread has   *)
(* yet to notify: each part names the threads that may be that one.        *)
(***************************************************************************)
Somebody(places) == \E t \in Threads : pc[t] \in places
Asleep(place) == \E t \in waiting : pc[t] = place

\* The monitor is held where the code holds it, and threads wait where the code waits.
Holding == {"loop", "idleQueued", "idlePending", "unmark", "unmarkLoop", "consume", "consumeLoop",
            "sdInflight", "sdMark", "sdQueued", "sdPark", "stopInflight", "drain"}
MonitorFit ==
  /\ \A t \in Threads : pc[t] \in Holding => lock = t
  /\ \A t \in waiting : \/ t \in Workers /\ pc[t] = "parked"
                        \/ t \in Joiners /\ pc[t] = "join"
                        \/ t \in Stoppers /\ pc[t] = "stopWait"
                        \/ t \in Waiters /\ pc[t] = "start"
  /\ \A t \in Stoppers : pc[t] \in {"stopInflight", "stopWait", "drain"} => lifecycle = "Stopping"
  /\ \A w \in Workers : /\ pc[w] \in {"idleQueued", "idlePending"} => lifecycle = "Running"
                        /\ pc[w] \in {"sdInflight", "sdMark", "sdQueued", "sdPark"} => lifecycle = "ShuttingDown"

\* The last to leave a closed gate notifies ...
Departs == Somebody({"departOpen", "departNotify"})
StopWoken == Asleep("stopWait") /\ Inside = {} => Departs
\* ... and so does, in the end, every stop.
WaiterWoken == Asleep("start") /\ IsTerminated => Departs \/ Somebody({"stopInflight", "drain", "cancelNotify"})
\* join is told by the last departure, or by whoever settles the last job.
JoinWoken == Asleep("join") /\ IsIdle
                => Departs \/ Somebody({"departWaiters", "settle", "settleNotify", "cancelNotify"})

\* Sleeping workers learn of stop from its drain, and of shutdown's end from the last departure.
WorkerWoken == /\ Asleep("parked") /\ lifecycle = "Stopping" => Somebody({"stopInflight", "stopWait", "drain"})
               /\ Asleep("parked") /\ lifecycle = "ShuttingDown" => Inside # {} \/ Departs

(***************************************************************************)
(* The handshake of wake_one_idle_worker with a worker that parks.  A      *)
(* publisher that has not yet decided sees the worker's idle mark; one     *)
(* that decided against a token found one, and the worker finds it too.    *)
(***************************************************************************)
TokenFit == \A s \in Submitters : pc[s] = "token" => seen[s] > 0
Deciding == {"push", "wake", "token"}
JobWoken ==
  /\ Somebody({"idlePending"}) /\ Queued # {} => pending > 0 \/ Somebody(Deciding)
  /\ Asleep("parked") /\ lifecycle = "Running" =>
        /\ pending > 0 => Somebody({"wakeNotify"})
        /\ Queued # {} => Somebody(Deciding \cup {"wakeNotify"})

WakeInv == MonitorFit /\ StopWoken /\ WaiterWoken /\ JoinWoken /\ WorkerWoken /\ TokenFit /\ JobWoken

\* A thread that does not move, or moves within these places, is still one of them.
LEMMA SomebodyStays ==
  ASSUME NEW t \in Threads, \A u \in Threads \ {t} : pc'[u] = pc[u], NEW places, Somebody(places),
         pc[t] \in places => pc'[t] \in places
  PROVE  Somebody(places)'
  BY DEF Somebody

\* A worker that is marked idle is counted, and so is a caller of join.
LEMMA CountedOnes ==
  ASSUME CountersExact
  PROVE  /\ \A w \in MarkedIdle : idle \in Nat /\ idle > 0
         /\ \A t \in Joining : idleWaiters \in Nat /\ idleWaiters > 0
  <1>1. \A S : IsFiniteSet(S) /\ S # {} => Cardinality(S) \in Nat /\ Cardinality(S) # 0
    BY FS_EmptySet, FS_CardinalityType
  <1> QED
    BY <1>1, CountersFinite DEF CountersExact

\* The way of a submission, with what its wake-up depends on.
SubmitterPath(s) ==
  \/ pc[s] = "start" /\ pc'[s] \in {"reserve", "refused"} /\ UNCHANGED <<job, pending, seen, waiting>>
  \/ /\ pc[s] \in {"reserve", "accepting"} /\ pc'[s] \in {"leave", "accepting", "rejectNotify"}
     /\ UNCHANGED <<pending, seen, waiting>> /\ Queued' = Queued
  \/ pc[s] = "accepting" /\ pc'[s] = "push" /\ UNCHANGED <<pending, seen, waiting>>
  \/ pc[s] = "push" /\ pc'[s] = "wake" /\ UNCHANGED <<job, pending, seen, waiting>>
  \/ /\ pc[s] = "wake" /\ UNCHANGED <<job, pending, waiting>> /\ seen' = [seen EXCEPT ![s] = idle]
     /\ \/ idle = 0 /\ pc'[s] = "leave"
        \/ idle # 0 /\ pc'[s] = "token"
  \/ /\ pc[s] = "token" /\ UNCHANGED <<job, waiting>> /\ seen' = [seen EXCEPT ![s] = 0]
     /\ \/ pending' = pending + 1 /\ pc'[s] = "wakeNotify"
        \/ pending >= seen[s] /\ pending' = pending /\ pc'[s] = "leave"
  \/ /\ pc[s] \in {"wakeNotify", "rejectNotify"} /\ pc'[s] = "leave"
     /\ waiting' = {} /\ UNCHANGED <<job, pending, seen>>
  \/ /\ pc[s] = "leave" /\ UNCHANGED <<job, pending, seen, waiting>>
     /\ pc'[s] = IF Inside = {s} THEN "departOpen" ELSE "done"
  \/ /\ pc[s] = "departOpen" /\ UNCHANGED <<job, pending, seen, waiting>>
     /\ pc'[s] = IF open THEN "departWaiters" ELSE "departNotify"
  \/ /\ pc[s] = "departWaiters" /\ UNCHANGED <<job, pending, seen, waiting>>
     /\ pc'[s] = IF idleWaiters > 0 THEN "departNotify" ELSE "done"
  \/ pc[s] = "departNotify" /\ pc'[s] = "done" /\ waiting' = {} /\ UNCHANGED <<job, pending, seen>>

\* Every step of a submission is on it.
LEMMA SubmitterOnPath ==
  ASSUME Inv, NEW s \in Submitters, SubmitterStep(s)
  PROVE  /\ SubmitterPath(s)
         /\ UNCHANGED <<lifecycle, live, lock, open, idle, idleWaiters>>
         /\ s \in Threads /\ \A u \in Threads \ {s} : pc'[u] = pc[u]
  <1> USE Roles
  <1>0. /\ s \in Threads /\ s \notin Workers /\ DOMAIN pc = Threads /\ DOMAIN job = Submitters /\ pc[s] \in SubmitterPcs
        /\ \A u \in Threads \ {s} : pc'[u] = pc[u]
    BY SubmitterFrame DEF Inv, TypeOK, PcOK, DataOK
  <1>1. CASE BeginSubmit(s)
    BY <1>0, <1>1 DEF BeginSubmit, Calls, SubmitterPath
  <1>2. CASE ReserveQueueSlot(s)
    <2>1. pc[s] = "reserve" /\ job[s] = "none"
      BY <1>2 DEF ReserveQueueSlot, Inv, Own, Unpushed
    <2>2. Queued' = Queued
      BY <1>0, <1>2, <2>1 DEF ReserveQueueSlot, Queued, Under
    <2> QED
      BY <1>0, <1>2, <2>1, <2>2 DEF ReserveQueueSlot, SubmitterPath
  <1>3. CASE AcceptPanics(s)
    <2>1. pc[s] = "accepting" /\ job[s] = "reserved"
      BY <1>3 DEF AcceptPanics, Inv, Own, Unpushed
    <2>2. Queued' = Queued
      BY <1>0, <1>3, <2>1 DEF AcceptPanics, Queued, Under
    <2> QED
      BY <1>0, <1>3, <2>1, <2>2 DEF AcceptPanics, SubmitterPath
  <1>4. CASE EnqueueJob(s)
    BY <1>0, <1>4 DEF EnqueueJob, SubmitterPath
  <1>5. CASE LoadIdle(s)
    BY <1>0, <1>5 DEF LoadIdle, SubmitterPath
  <1>6. CASE RequestWake(s)
    BY <1>0, <1>6 DEF RequestWake, SubmitterPath
  <1>7. CASE Leave(s)
    BY <1>0, <1>7 DEF Leave, SubmitterPath
  <1>8. CASE Depart(s)
    BY <1>0, <1>8 DEF Depart, SubmitterPath
  <1>9. CASE NotifyUnderLock(s)
    BY <1>0, <1>9 DEF NotifyUnderLock, SubmitterPath, SubmitterPcs
  <1> QED
    BY <1>1, <1>2, <1>3, <1>4, <1>5, <1>6, <1>7, <1>8, <1>9 DEF SubmitterStep

\* A submission leaves no sleeper behind.
LEMMA SubmitterWakes ==
  ASSUME Inv, Inv', WakeInv, NEW s \in Submitters, SubmitterStep(s)
  PROVE  WakeInv'
  <1> USE Roles
  <1>0. /\ SubmitterPath(s) /\ UNCHANGED <<lifecycle, live, lock, open, idle, idleWaiters>> /\ TypeOK
        /\ s \in Threads /\ \A u \in Threads \ {s} : pc'[u] = pc[u]
    BY SubmitterOnPath DEF Inv
  <1>1. waiting' \subseteq waiting /\ s \notin waiting
    BY <1>0 DEF SubmitterPath, WakeInv, MonitorFit
  <1>2. \A t \in waiting' : t \in waiting /\ pc'[t] = pc[t]
    BY <1>0, <1>1 DEF TypeOK, DataOK
  <1>3. MonitorFit'
    <2>1. pc'[s] \notin Holding
      BY <1>0 DEF SubmitterPath, Holding
    <2> QED
      BY <1>0, <1>1, <1>2, <2>1 DEF WakeInv, MonitorFit
  <1>4. TokenFit'
    <2>1. \A u \in Submitters \ {s} : pc'[u] = pc[u] /\ seen'[u] = seen[u]
      BY <1>0 DEF SubmitterPath, TypeOK, DataOK
    <2>2. pc'[s] = "token" => seen'[s] > 0
      BY <1>0 DEF SubmitterPath, TypeOK, DataOK
    <2> QED
      BY <2>1, <2>2 DEF WakeInv, TokenFit
  <1>5. Inside' = {} => Inside = {} \/ pc'[s] = "departOpen"
    BY <1>0 DEF SubmitterPath, Inside
  <1>6. IsIdle' => IsIdle \/ pc'[s] = "departOpen"
    <2>1. s \notin Inside' => job' = job
      BY <1>0 DEF SubmitterPath, Inside
    <2> QED
      BY <1>5, <2>1 DEF IsIdle, Under
  <1>7. \A p : Asleep(p)' => Asleep(p)
    BY <1>2 DEF Asleep
  <1>8. ASSUME Departs, ~open, waiting' # {}
        PROVE  Departs'
    <2>1. pc[s] \in {"departOpen", "departNotify"} => pc'[s] \in {"departOpen", "departNotify"}
      BY <1>0, <1>8 DEF SubmitterPath
    <2> QED
      BY <1>0, <1>8, <2>1, SomebodyStays DEF Departs
  <1>9. pc'[s] = "departOpen" => Departs'
    BY <1>0 DEF Departs, Somebody
  <1>10. ASSUME NEW p, Asleep(p)'
         PROVE  waiting' # {}
    BY <1>10 DEF Asleep
  <1>11. StopWoken'
    <2> SUFFICES ASSUME Asleep("stopWait")', Inside' = {}
                 PROVE  Departs'
      BY DEF StopWoken
    <2>1. ~open
      BY <1>7 DEF Asleep, WakeInv, MonitorFit, Inv, GateFirst
    <2> QED
      BY <1>5, <1>7, <1>8, <1>9, <1>10, <2>1 DEF WakeInv, StopWoken
  <1>12. WaiterWoken'
    <2> DEFINE stops == {"stopInflight", "drain", "cancelNotify"}
    <2> SUFFICES ASSUME Asleep("start")', IsTerminated'
                 PROVE  Departs' \/ Somebody(stops)'
      BY DEF WaiterWoken
    <2>1. ~open
      BY <1>0 DEF IsTerminated, Inv, GateFirst
    <2>2. IsTerminated \/ pc'[s] = "departOpen"
      BY <1>0, <1>6 DEF IsTerminated
    <2>3. Somebody(stops) => Somebody(stops)'
      <3>1. pc[s] \notin stops
        BY <1>0 DEF SubmitterPath
      <3> QED
        BY <1>0, <3>1, SomebodyStays
    <2> QED
      BY <1>7, <1>8, <1>9, <1>10, <2>1, <2>2, <2>3 DEF WakeInv, WaiterWoken
  <1>13. JoinWoken'
    <2> DEFINE enders == {"departWaiters", "settle", "settleNotify", "cancelNotify"}
    <2> SUFFICES ASSUME Asleep("join")', IsIdle'
                 PROVE  Departs' \/ Somebody(enders)'
      BY DEF JoinWoken
    <2>1. idleWaiters > 0
      <3>1. PICK t \in Joiners : pc[t] = "join"
        BY <1>0, <1>7 DEF Asleep, WakeInv, MonitorFit
      <3> QED
        BY <1>0, <3>1, CountedOnes DEF Joining, TypeOK
    <2>2. CASE pc'[s] \in {"departOpen", "departNotify", "departWaiters"}
      BY <1>0, <2>2 DEF Departs, Somebody
    <2>3. CASE pc'[s] \notin {"departOpen", "departNotify", "departWaiters"}
      <3>1. pc[s] \notin enders \cup {"departOpen", "departNotify"}
        BY <1>0, <1>10, <2>1, <2>3 DEF SubmitterPath
      <3>2. Departs => Departs'
        BY <1>0, <3>1, SomebodyStays DEF Departs
      <3>3. Somebody(enders) => Somebody(enders)'
        BY <1>0, <3>1, SomebodyStays
      <3> QED
        BY <1>6, <1>7, <2>3, <3>2, <3>3 DEF WakeInv, JoinWoken
    <2> QED
      BY <2>2, <2>3
  <1>14. WorkerWoken'
    <2>1. Somebody({"stopInflight", "stopWait", "drain"}) => Somebody({"stopInflight", "stopWait", "drain"})'
      <3>1. pc[s] \notin {"stopInflight", "stopWait", "drain"}
        BY <1>0 DEF SubmitterPath
      <3> QED
        BY <1>0, <3>1, SomebodyStays
    <2>2. lifecycle = "ShuttingDown" => ~open
      BY DEF Inv, GateFirst
    <2> QED
      BY <1>0, <1>5, <1>7, <1>8, <1>9, <1>10, <2>1, <2>2 DEF WakeInv, WorkerWoken
  <1>15. JobWoken'
    <2>0. pending \in Nat /\ (pc[s] = "token" => seen[s] \in Nat /\ seen[s] > 0) /\ (pending' > 0 => pending > 0 \/ pc'[s] = "wakeNotify")
      BY <1>0 DEF SubmitterPath, TypeOK, DataOK, WakeInv, TokenFit
    <2>1. Queued' # {} => Queued # {} \/ pc'[s] = "push"
      BY <1>0 DEF SubmitterPath, Queued, Under
    <2>2. ASSUME idle > 0, pc[s] \in Deciding, pc'[s] \notin Deciding
          PROVE  pc[s] = "token" /\ pending' > 0 /\ (pc'[s] = "wakeNotify" \/ pending > 0)
      BY <1>0, <2>0, <2>2 DEF SubmitterPath, Deciding
    <2>3. Somebody({"idlePending"})' => Somebody({"idlePending"}) /\ idle > 0
      <3>1. pc'[s] # "idlePending"
        BY <1>0 DEF SubmitterPath
      <3>2. \A t \in Threads : pc[t] = "idlePending" => t \in MarkedIdle
        BY DEF Inv, TypeOK, PcOK, MarkedIdle, Threads, Callers, BuilderPcs, SubmitterPcs, ControllerPcs
      <3> QED
        BY <1>0, <3>1, <3>2, CountedOnes DEF Somebody, TypeOK
    <2>4. Asleep("parked")' => Asleep("parked") /\ idle > 0
      <3>1. \A t \in waiting : pc[t] = "parked" => t \in MarkedIdle
        BY DEF WakeInv, MonitorFit, MarkedIdle
      <3> QED
        BY <1>0, <1>7, <3>1, CountedOnes DEF Asleep, TypeOK
    <2>5. ASSUME NEW p, Somebody(p), pc[s] \notin p
          PROVE  Somebody(p)'
      BY <1>0, <2>5, SomebodyStays
    <2>6. pending > 0 => pending' > 0
      BY <1>0, <2>0 DEF SubmitterPath
    <2>7. waiting' # {} => pc[s] # "wakeNotify"
      BY <1>0 DEF SubmitterPath
    <2>8. Somebody({"idlePending"})' /\ Queued' # {} => pending' > 0 \/ Somebody(Deciding)'
      <3>1. pc'[s] \in Deciding => Somebody(Deciding)'
        BY <1>0 DEF Somebody
      <3>2. pc'[s] = "push" => pc'[s] \in Deciding
        BY DEF Deciding
      <3> QED
        BY <2>1, <2>2, <2>3, <2>5, <2>6, <3>1, <3>2 DEF WakeInv, JobWoken
    <2>9. ASSUME Asleep("parked")', lifecycle' = "Running", pending' > 0
          PROVE  Somebody({"wakeNotify"})'
      <3>1. CASE pc'[s] = "wakeNotify"
        BY <1>0, <3>1 DEF Somebody
      <3>2. CASE pc'[s] # "wakeNotify"
        <4>1. Somebody({"wakeNotify"}) /\ pc[s] \notin {"wakeNotify"}
          BY <1>0, <1>10, <2>0, <2>4, <2>7, <2>9, <3>2 DEF WakeInv, JobWoken
        <4> QED
          BY <2>5, <4>1
      <3> QED
        BY <3>1, <3>2
    <2>10. ASSUME Asleep("parked")', lifecycle' = "Running", Queued' # {}
           PROVE  Somebody(Deciding \cup {"wakeNotify"})'
      <3>1. CASE pc'[s] \in Deciding \cup {"wakeNotify"}
        BY <1>0, <3>1 DEF Somebody
      <3>2. CASE pc'[s] \notin Deciding \cup {"wakeNotify"}
        <4>1. /\ Asleep("parked") /\ lifecycle = "Running" /\ idle > 0 /\ pc[s] # "wakeNotify"
              /\ Queued # {}
          BY <1>0, <1>10, <2>1, <2>4, <2>7, <2>10, <3>2 DEF Deciding
        <4>2. /\ Somebody(Deciding \cup {"wakeNotify"})
              /\ pending > 0 => Somebody({"wakeNotify"})
          BY <4>1 DEF WakeInv, JobWoken
        <4>3. CASE pc[s] \in Deciding
          <5>1. Somebody({"wakeNotify"})
            BY <2>2, <3>2, <4>1, <4>2, <4>3
          <5>2. Somebody({"wakeNotify"})'
            BY <2>5, <4>1, <5>1
          <5> QED
            BY <5>2 DEF Somebody
        <4> QED
          BY <2>5, <4>1, <4>2, <4>3
      <3> QED
        BY <3>1, <3>2
    <2> QED
      BY <2>8, <2>9, <2>10 DEF JobWoken
  <1> QED
    BY <1>3, <1>4, <1>11, <1>12, <1>13, <1>14, <1>15 DEF WakeInv

\* The way of a worker, with what it does to the monitor and the sleepers.
WorkerPath(w) ==
  \/ /\ pc[w] \in {"take", "steal", "accept", "spinQueued", "spinPending", "spinOpen"}
     /\ pc'[w] \in {"take", "steal", "accept", "mark", "cancelClaimed", "check", "relock",
                    "spinQueued", "spinPending", "spinOpen"}
     /\ UNCHANGED <<job, lock, waiting, pending>>
  \/ /\ pc[w] \in {"mark", "cancelClaimed"} /\ pc'[w] \in {"run", "cancel"}
     /\ ~IsIdle' /\ Queued' \subseteq Queued /\ UNCHANGED <<lock, waiting, pending>>
  \/ /\ \/ pc[w] = "run" /\ pc'[w] = "settle"
        \/ pc[w] = "cancel" /\ pc'[w] = "cancelNotify"
     /\ Queued' \subseteq Queued /\ UNCHANGED <<lock, waiting, pending>>
  \/ /\ pc[w] = "settle" /\ pc'[w] = IF IsIdle THEN "settleNotify" ELSE "take"
     /\ UNCHANGED <<job, lock, waiting, pending>>
  \/ /\ pc[w] \in {"settleNotify", "cancelNotify"} /\ pc'[w] \in {"take", "check"}
     /\ waiting' = {} /\ UNCHANGED <<job, lock, pending>>
  \/ /\ (pc[w] = "check" /\ lock = Free) \/ pc[w] = "loop"
     /\ \/ pc'[w] \in {"take", "spinQueued", "relock", "exit"} /\ lock' = Free
        \/ pc'[w] = "sdInflight" /\ lock' = w /\ lifecycle = "ShuttingDown"
     /\ UNCHANGED <<job, waiting, pending>>
  \/ /\ pc[w] = "relock" /\ lock = Free /\ lock' = w
     /\ (lifecycle = "Running" /\ pc'[w] = "idleQueued") \/ pc'[w] = "loop"
     /\ UNCHANGED <<job, waiting, pending>>
  \/ /\ pc[w] = "idleQueued" /\ pc'[w] = IF Queued = {} THEN "idlePending" ELSE "unmark"
     /\ UNCHANGED <<job, lock, waiting, pending>>
  \/ /\ pc[w] = "idlePending" /\ pending > 0 /\ pc'[w] = "unmark"
     /\ UNCHANGED <<job, lock, waiting, pending>>
  \/ /\ \/ pc[w] = "idlePending" /\ pending = 0
        \/ pc[w] = "sdPark" /\ Inside # {}
     /\ pc'[w] = "parked" /\ waiting' = waiting \cup {w} /\ lock' = Free
     /\ UNCHANGED <<job, pending>>
  \/ /\ pc[w] = "parked" /\ w \notin waiting /\ lock = Free /\ pc'[w] = "unmarkLoop" /\ lock' = w
     /\ UNCHANGED <<job, waiting, pending>>
  \/ /\ pc[w] \in {"unmark", "unmarkLoop"} /\ pc'[w] \in {"consume", "consumeLoop"}
     /\ UNCHANGED <<job, lock, waiting, pending>>
  \/ /\ \/ pc[w] = "consume" /\ pc'[w] = "take" /\ lock' = Free
        \/ pc[w] = "consumeLoop" /\ pc'[w] = "loop" /\ UNCHANGED lock
     /\ pending' = IF pending > 0 THEN pending - 1 ELSE 0
     /\ UNCHANGED <<job, waiting>>
  \/ /\ \/ pc[w] = "sdInflight" /\ pc'[w] = "exit" /\ lock' = Free
        \/ pc[w] = "sdInflight" /\ pc'[w] = "sdMark" /\ UNCHANGED lock
        \/ pc[w] = "sdMark" /\ pc'[w] = "sdQueued" /\ lock' = w
        \/ pc[w] = "sdQueued" /\ pc'[w] \in {"sdPark", "unmarkLoop"} /\ UNCHANGED lock
        \/ pc[w] = "sdPark" /\ pc'[w] = "unmarkLoop" /\ UNCHANGED lock
     /\ UNCHANGED <<job, waiting, pending>>
  \/ pc[w] = "exit" /\ pc'[w] = "off" /\ waiting' = {} /\ UNCHANGED <<job, lock, pending>>

\* Every step of a worker is on it.
LEMMA WorkerOnPath ==
  ASSUME Inv, NEW w \in Workers, WorkerStep(w)
  PROVE  /\ WorkerPath(w)
         /\ UNCHANGED <<lifecycle, open, idleWaiters, seen>>
         /\ w \in Threads /\ \A u \in Threads \ {w} : pc'[u] = pc[u]
  <1> USE Roles
  <1>0. /\ w \in Threads /\ DOMAIN pc = Threads /\ DOMAIN job = Submitters /\ pc[w] \in WorkerPcs
        /\ \A u \in Threads \ {w} : pc'[u] = pc[u]
    BY WorkerFrame DEF Inv, TypeOK, PcOK, DataOK
  <1>1. CASE TryTakeJob(w)
    BY <1>0, <1>1 DEF TryTakeJob, WorkerPath
  <1>2. CASE StealOne(w)
    BY <1>0, <1>2 DEF StealOne, WorkerPath
  <1>3. CASE AcceptClaimedJob(w)
    BY <1>0, <1>3 DEF AcceptClaimedJob, WorkerPath
  <1>4. CASE MarkRunning(w) \/ BeginCancelClaimed(w)
    <2>1. PICK j \in Submitters : work[w] = <<j>>
      BY <1>0, <1>4 DEF Inv, Own, HandsFit, MarkRunning, BeginCancelClaimed
    <2>2. Head(work[w]) = j
      BY <2>1
    <2>3. job' = [job EXCEPT ![j] = "running"] \/ job' = [job EXCEPT ![j] = "cancelling"]
      BY <1>4, <2>2 DEF MarkRunning, BeginCancelClaimed
    <2>4. Queued' \subseteq Queued /\ ~IsIdle'
      BY <1>0, <2>3 DEF Queued, Under, IsIdle
    <2> QED
      BY <1>0, <1>4, <2>4 DEF MarkRunning, BeginCancelClaimed, WorkerPath
  <1>5. CASE CancelCallback(w) \/ Run(w)
    <2>1. PICK j \in Submitters : work[w] = <<j>>
      BY <1>0, <1>5 DEF Inv, Own, HandsFit, CancelCallback, Run
    <2>2. Head(work[w]) = j
      BY <2>1
    <2>3. job' = [job EXCEPT ![j] = "cancelled"] \/ job' = [job EXCEPT ![j] = "completed"]
      BY <1>5, <2>2 DEF CancelCallback, Run
    <2>4. Queued' \subseteq Queued
      BY <1>0, <2>3 DEF Queued, Under
    <2> QED
      BY <1>0, <1>5, <2>4 DEF CancelCallback, Run, WorkerPath
  <1>6. CASE Settle(w)
    BY <1>0, <1>6 DEF Settle, WorkerPath
  <1>7. CASE NotifyUnderLock(w)
    BY <1>0, <1>7 DEF NotifyUnderLock, WorkerPath, WorkerPcs
  <1>8. CASE Loop(w)
    BY <1>0, <1>8 DEF Loop, WorkerPath
  <1>9. CASE SpinQueued(w) \/ SpinPending(w) \/ SpinOpen(w)
    BY <1>0, <1>9 DEF SpinQueued, SpinPending, SpinOpen, WorkerPath
  <1>10. CASE Relock(w)
    BY <1>0, <1>10 DEF Relock, MarkIdle, WorkerPath
  <1>11. CASE IdleQueued(w)
    BY <1>0, <1>11 DEF IdleQueued, WorkerPath
  <1>12. CASE IdlePending(w)
    BY <1>0, <1>12 DEF IdlePending, Parks, Wait, WorkerPath
  <1>13. CASE Awaken(w)
    BY <1>0, <1>13 DEF Awaken, Notified, WorkerPath
  <1>14. CASE Unmark(w)
    BY <1>0, <1>14 DEF Unmark, WorkerPath
  <1>15. CASE Consume(w)
    BY <1>0, <1>15 DEF Consume, WorkerPath
  <1>16. CASE SdInflight(w) \/ SdMark(w) \/ SdQueued(w)
    BY <1>0, <1>16 DEF SdInflight, SdMark, SdQueued, MarkIdle, WorkerPath
  <1>17. CASE SdPark(w)
    BY <1>0, <1>17 DEF SdPark, Parks, Wait, WorkerPath
  <1>18. CASE WorkerExited(w)
    BY <1>0, <1>18 DEF WorkerExited, WorkerPath
  <1> QED
    BY <1>1, <1>2, <1>3, <1>4, <1>5, <1>6, <1>7, <1>8, <1>9, <1>10, <1>11, <1>12, <1>13, <1>14, <1>15,
       <1>16, <1>17, <1>18 DEF WorkerStep

\* A terminated pool is over, in this state as in the next.
LEMMA TerminatedNow == Inv /\ IsTerminated => PoolIsOver
  BY TerminatedIsOver DEF Inv

\* A worker leaves no sleeper behind, and does not sleep on a reason to wake.
LEMMA WorkerWakes ==
  ASSUME Inv, Inv', WakeInv, NEW w \in Workers, WorkerStep(w)
  PROVE  WakeInv'
  <1> USE Roles
  <1>0. /\ WorkerPath(w) /\ UNCHANGED <<lifecycle, open, idleWaiters, seen>> /\ TypeOK
        /\ w \in Threads /\ w \notin Submitters /\ w \notin Controllers
        /\ \A u \in Threads \ {w} : pc'[u] = pc[u]
        /\ waiting \subseteq Threads /\ lock \in Threads \cup {Free} /\ Free \notin Threads /\ pending \in Nat
    BY WorkerOnPath, FixedPoolAssumption DEF Inv, TypeOK, DataOK
  <1>1. /\ w \notin waiting
        /\ pc[w] \in Holding => lock = w
    BY <1>0 DEF WorkerPath, WakeInv, MonitorFit
  <1>2. pc[w] \notin Deciding \cup {"departOpen", "departNotify", "departWaiters", "wakeNotify",
                                    "stopInflight", "stopWait", "drain"}
    BY <1>0 DEF WorkerPath, Deciding
  <1>3. ASSUME NEW p, Somebody(p), pc[w] \notin p
        PROVE  Somebody(p)'
    BY <1>0, <1>3, SomebodyStays
  <1>4. /\ Departs => Departs'
        /\ Somebody(Deciding) => Somebody(Deciding)'
        /\ Somebody(Deciding \cup {"wakeNotify"}) => Somebody(Deciding \cup {"wakeNotify"})'
        /\ Somebody({"wakeNotify"}) => Somebody({"wakeNotify"})'
        /\ Somebody({"stopInflight", "stopWait", "drain"}) => Somebody({"stopInflight", "stopWait", "drain"})'
    BY <1>2, <1>3 DEF Departs
  \* Only w itself falls asleep.
  <1>5. \/ waiting' \subseteq waiting
        \/ /\ waiting' = waiting \cup {w} /\ pc'[w] = "parked" /\ UNCHANGED <<job, pending>>
           /\ \/ pc[w] = "idlePending" /\ pending = 0
              \/ pc[w] = "sdPark" /\ Inside # {}
    BY <1>0 DEF WorkerPath
  <1>6. \A t \in waiting' : t # w => t \in waiting /\ pc'[t] = pc[t]
    BY <1>0, <1>5
  <1>7. w \in waiting' => pc'[w] = "parked"
    BY <1>1, <1>5
  <1>8. ASSUME NEW p, p # "parked", Asleep(p)'
        PROVE  Asleep(p) /\ waiting' # {}
    BY <1>6, <1>7, <1>8 DEF Asleep
  <1>9. Inside' = Inside
    BY <1>0 DEF Inside
  <1>10. MonitorFit'
    <2>1. pc'[w] \in Holding => lock' = w
      BY <1>0, <1>1 DEF WorkerPath, Holding
    <2>2. lock' = lock \/ lock \in {Free, w}
      <3>1. pc[w] \in {"loop", "idlePending", "sdPark", "consume", "sdInflight", "sdMark"} => pc[w] \in Holding
        BY DEF Holding
      <3> QED
        BY <1>0, <1>1, <3>1 DEF WorkerPath
    <2>3. \A t \in Threads : pc'[t] \in Holding => lock' = t
      BY <1>0, <2>1, <2>2 DEF WakeInv, MonitorFit
    <2>4. \A t \in waiting' : \/ t \in Workers /\ pc'[t] = "parked"
                              \/ t \in Joiners /\ pc'[t] = "join"
                              \/ t \in Stoppers /\ pc'[t] = "stopWait"
                              \/ t \in Waiters /\ pc'[t] = "start"
      BY <1>6, <1>7 DEF WakeInv, MonitorFit
    <2>5. \A t \in Stoppers : pc'[t] \in {"stopInflight", "stopWait", "drain"} => lifecycle' = "Stopping"
      BY <1>0 DEF WakeInv, MonitorFit
    <2>6. /\ pc'[w] \in {"idleQueued", "idlePending"} => lifecycle = "Running"
          /\ pc'[w] \in {"sdInflight", "sdMark", "sdQueued", "sdPark"} => lifecycle = "ShuttingDown"
      <3>1. /\ pc[w] \in {"idleQueued", "idlePending"} => lifecycle = "Running"
            /\ pc[w] \in {"sdInflight", "sdMark", "sdQueued", "sdPark"} => lifecycle = "ShuttingDown"
        BY DEF WakeInv, MonitorFit
      <3> QED
        BY <1>0, <3>1 DEF WorkerPath
    <2>7. \A u \in Workers : /\ pc'[u] \in {"idleQueued", "idlePending"} => lifecycle' = "Running"
                             /\ pc'[u] \in {"sdInflight", "sdMark", "sdQueued", "sdPark"} => lifecycle' = "ShuttingDown"
      BY <1>0, <2>6 DEF WakeInv, MonitorFit
    <2> QED
      BY <2>3, <2>4, <2>5, <2>7 DEF MonitorFit
  <1>11. StopWoken'
    BY <1>4, <1>8, <1>9 DEF WakeInv, StopWoken
  <1>12. WaiterWoken'
    <2> SUFFICES ASSUME Asleep("start")', IsTerminated'
                 PROVE  FALSE
      BY DEF WaiterWoken
    <2>1. pc'[w] \in {"new", "off"}
      <3>1. PoolIsOver'
        BY TerminatedNow, PTL
      <3> QED
        BY <3>1 DEF PoolIsOver
    <2>2. waiting' = {}
      BY <1>0, <2>1 DEF WorkerPath
    <2> QED
      BY <2>2 DEF Asleep
  <1>13. JoinWoken'
    <2> DEFINE enders == {"departWaiters", "settle", "settleNotify", "cancelNotify"}
    <2> SUFFICES ASSUME Asleep("join")', IsIdle'
                 PROVE  Departs' \/ Somebody(enders)'
      BY DEF JoinWoken
    <2>1. Asleep("join") /\ waiting' # {}
      BY <1>8
    <2>2. CASE pc'[w] \in enders
      BY <1>0, <2>2 DEF Somebody
    <2>3. CASE pc'[w] \notin enders
      <3>1. job' = job
        BY <1>0, <2>3 DEF WorkerPath
      <3>2. IsIdle
        BY <1>9, <3>1 DEF IsIdle, Under
      <3>3. pc[w] \notin enders
        BY <1>0, <2>1, <2>3, <3>2 DEF WorkerPath
      <3> QED
        BY <1>3, <1>4, <2>1, <3>2, <3>3 DEF WakeInv, JoinWoken
    <2> QED
      BY <2>2, <2>3
  <1>14. WorkerWoken'
    <2>1. CASE waiting' \subseteq waiting
      <3>1. Asleep("parked")' => Asleep("parked")
        BY <1>1, <1>6, <2>1 DEF Asleep
      <3> QED
        BY <1>0, <1>4, <1>9, <3>1 DEF WakeInv, WorkerWoken
    <2>2. CASE pc[w] = "idlePending"
      BY <1>0, <2>2 DEF WakeInv, MonitorFit, WorkerWoken
    <2>3. CASE pc[w] = "sdPark" /\ Inside # {}
      BY <1>0, <1>9, <2>3 DEF WakeInv, MonitorFit, WorkerWoken
    <2> QED
      BY <1>5, <2>1, <2>2, <2>3
  <1>15. TokenFit'
    BY <1>0 DEF WakeInv, TokenFit
  <1>16. JobWoken'
    <2>1. Queued' \subseteq Queued /\ pending' <= pending
      BY <1>0 DEF WorkerPath, Queued, Under
    <2>2. Somebody({"idlePending"})' /\ Queued' # {} => pending' > 0 \/ Somebody(Deciding)'
      <3> SUFFICES ASSUME NEW t \in Threads, pc'[t] = "idlePending", Queued' # {}
                   PROVE  pending' > 0 \/ Somebody(Deciding)'
        BY DEF Somebody
      <3>1. t # w
        <4>1. pc'[w] = "idlePending" => job' = job /\ Queued = {}
          BY <1>0 DEF WorkerPath
        <4> QED
          BY <2>1, <4>1
      <3>2. pc[t] = "idlePending" /\ lock = t
        BY <1>0, <3>1 DEF WakeInv, MonitorFit, Holding
      <3>3. pending' = pending
        <4>1. pc[w] \notin {"consume", "consumeLoop"}
          BY <1>1, <3>1, <3>2 DEF Holding
        <4> QED
          BY <1>0, <4>1 DEF WorkerPath
      <3>4. Somebody({"idlePending"}) /\ Queued # {}
        BY <2>1, <3>2 DEF Somebody
      <3> QED
        BY <1>4, <3>3, <3>4 DEF WakeInv, JobWoken
    <2>3. ASSUME Asleep("parked")', lifecycle' = "Running"
          PROVE  /\ pending' > 0 => Somebody({"wakeNotify"})'
                 /\ Queued' # {} => Somebody(Deciding \cup {"wakeNotify"})'
      <3>1. CASE waiting' \subseteq waiting
        <4>1. Asleep("parked") /\ lifecycle = "Running"
          BY <1>0, <1>1, <1>6, <2>3, <3>1 DEF Asleep
        <4>2. pending' > 0 => pending > 0
          BY <1>0, <2>1 DEF WorkerPath
        <4> QED
          BY <1>4, <2>1, <4>1, <4>2 DEF WakeInv, JobWoken
      <3>2. CASE pc[w] = "idlePending" /\ pending = 0 /\ UNCHANGED <<job, pending>>
        <4>1. Somebody({"idlePending"})
          BY <1>0, <3>2 DEF Somebody
        <4>2. Queued' # {} => Somebody(Deciding)'
          BY <1>4, <2>1, <3>2, <4>1 DEF WakeInv, JobWoken
        <4> QED
          BY <3>2, <4>2 DEF Somebody
      <3>3. CASE pc[w] = "sdPark"
        BY <1>0, <2>3, <3>3 DEF WakeInv, MonitorFit
      <3> QED
        BY <1>5, <3>1, <3>2, <3>3
    <2> QED
      BY <2>2, <2>3 DEF JobWoken
  <1> QED
    BY <1>10, <1>11, <1>12, <1>13, <1>14, <1>15, <1>16 DEF WakeInv

\* The ways of shutdown, stop, join and wait_for_termination.
ControllerPath(t) ==
  \/ /\ pc[t] = "start" /\ pc'[t] \in {"shutdown", "stopNow", "join"} /\ t \notin Waiters
     /\ UNCHANGED <<lifecycle, job, lock, waiting>>
  \/ /\ pc[t] = "shutdown" /\ pc'[t] = "done" /\ lock = Free /\ waiting' = {}
     /\ lifecycle' = IF lifecycle = "Running" THEN "ShuttingDown" ELSE lifecycle
     /\ UNCHANGED <<job, lock>>
  \/ pc[t] = "stopNow" /\ pc'[t] = "stop" /\ UNCHANGED <<lifecycle, job, lock, waiting>>
  \/ /\ t \in Stoppers /\ pc[t] = "stop" /\ pc'[t] = "stopInflight" /\ lock = Free /\ lock' = t
     /\ lifecycle' = "Stopping" /\ UNCHANGED <<job, waiting>>
  \/ /\ t \in Stoppers /\ pc[t] = "stopInflight" /\ Inside = {} /\ pc'[t] = "drain"
     /\ UNCHANGED <<lifecycle, job, lock, waiting>>
  \/ /\ t \in Stoppers /\ pc[t] = "stopInflight" /\ Inside # {} /\ pc'[t] = "stopWait"
     /\ waiting' = waiting \cup {t} /\ lock' = Free /\ UNCHANGED <<lifecycle, job>>
  \/ /\ t \in Stoppers /\ pc[t] = "stopWait" /\ pc'[t] = "stopInflight" /\ t \notin waiting
     /\ lock = Free /\ lock' = t /\ UNCHANGED <<lifecycle, job, waiting>>
  \/ /\ t \in Stoppers /\ pc[t] = "drain" /\ pc'[t] = "drain"
     /\ UNCHANGED <<lifecycle, job, lock, waiting>>
  \/ /\ pc[t] = "drain" /\ pc'[t] \in {"stopNotify", "cancel"} /\ waiting' = {} /\ lock' = Free
     /\ Queued' \subseteq Queued /\ UNCHANGED lifecycle
  \/ /\ pc[t] = "cancel" /\ pc'[t] = "cancelNotify" /\ Queued' \subseteq Queued
     /\ UNCHANGED <<lifecycle, lock, waiting>>
  \/ /\ pc[t] \in {"cancelNotify", "stopNotify"} /\ pc'[t] \in {"stopNotify", "cancel", "done"}
     /\ waiting' = {} /\ UNCHANGED <<lifecycle, job, lock>>
  \/ /\ pc[t] = "join" /\ t \notin waiting /\ pc'[t] = "done" /\ UNCHANGED <<lifecycle, job, lock, waiting>>
  \/ /\ t \in Joiners /\ pc[t] = "join" /\ t \notin waiting /\ lock = Free /\ ~IsIdle
     /\ pc'[t] = "join" /\ waiting' = waiting \cup {t} /\ UNCHANGED <<lifecycle, job, lock>>
  \/ /\ pc[t] = "start" /\ t \notin waiting /\ pc'[t] = "done" /\ UNCHANGED <<lifecycle, job, lock, waiting>>
  \/ /\ t \in Waiters /\ pc[t] = "start" /\ t \notin waiting /\ lock = Free /\ ~IsTerminated
     /\ pc'[t] = "start" /\ waiting' = waiting \cup {t} /\ UNCHANGED <<lifecycle, job, lock>>
  \/ /\ pc[t] = "start" /\ t \in waiting /\ pc'[t] \in {"start", "done"} /\ waiting' = waiting \ {t}
     /\ UNCHANGED <<lifecycle, job, lock>>

\* Every step of a controlling call is on one of them.
LEMMA ControllerOnPath ==
  ASSUME Inv, NEW t \in Controllers, ControllerStep(t)
  PROVE  /\ ControllerPath(t)
         /\ UNCHANGED <<live, pending, seen>>
         /\ t \in Threads /\ \A u \in Threads \ {t} : pc'[u] = pc[u]
  <1> USE Roles
  <1>0. /\ t \in Threads /\ t \notin Workers /\ DOMAIN pc = Threads /\ DOMAIN job = Submitters
        /\ pc[t] \in ControllerPcs /\ lifecycle \in {"Running", "ShuttingDown", "Stopping"}
        /\ \A u \in Threads \ {t} : pc'[u] = pc[u]
    BY ControllerFrame DEF Inv, TypeOK, PcOK, DataOK
  <1>1. CASE t \in Shutdowners /\ ShutdownStep(t)
    BY <1>0, <1>1 DEF ShutdownStep, CloseAdmission, Calls, BeginShutdown, ControllerPath
  <1>2. CASE t \in Joiners /\ BeginJoin(t)
    BY <1>0, <1>2 DEF BeginJoin, Calls, ControllerPath
  <1>3. CASE t \in Joiners /\ Join(t)
    BY <1>0, <1>3 DEF Join, Wait, Notified, ControllerPath
  <1>4. CASE t \in Waiters /\ AwaitTermination(t)
    BY <1>0, <1>4 DEF AwaitTermination, Calls, Wait, Notified, ControllerPath
  <1>5. CASE t \in Waiters /\ TimeoutElapses(t)
    BY <1>0, <1>5 DEF TimeoutElapses, ControllerPath
  <1>6. CASE t \in Stoppers /\ StopStep(t)
    <2>1. CASE CloseAdmission(t, "stopNow") \/ SetStopNow(t)
      BY <1>0, <1>6, <2>1 DEF CloseAdmission, Calls, SetStopNow, ControllerPath
    <2>2. CASE BeginStop(t)
      BY <1>0, <1>6, <2>2 DEF BeginStop, ControllerPath
    <2>3. CASE AwaitSubmitters(t)
      BY <1>0, <1>6, <2>3 DEF AwaitSubmitters, Wait, ControllerPath
    <2>4. CASE ResumeStop(t)
      BY <1>0, <1>6, <2>4 DEF ResumeStop, Notified, ControllerPath
    <2>5. CASE Drain(t)
      <3>1. CASE queue # <<>>
        BY <1>0, <1>6, <2>5, <3>1 DEF Drain, ControllerPath
      <3>2. CASE queue = <<>>
        <4>1. Queued' \subseteq Queued
          BY <2>5, <3>2 DEF Drain, Queued, Under
        <4> QED
          BY <1>0, <2>5, <3>2, <4>1 DEF Drain, ControllerPath
      <3> QED
        BY <3>1, <3>2
    <2>6. CASE CancelCallback(t)
      <3>1. Queued' \subseteq Queued
        BY <1>0, <2>6 DEF CancelCallback, Queued, Under
      <3> QED
        BY <1>0, <2>6, <3>1 DEF CancelCallback, ControllerPath
    <2>7. CASE NotifyUnderLock(t)
      BY <1>0, <2>7 DEF NotifyUnderLock, ControllerPath, ControllerPcs
    <2> QED
      BY <1>6, <2>1, <2>2, <2>3, <2>4, <2>5, <2>6, <2>7 DEF StopStep
  <1> QED
    BY <1>1, <1>2, <1>3, <1>4, <1>5, <1>6 DEF ControllerStep

\* A controlling call leaves no sleeper behind, and does not sleep on a reason to wake.
LEMMA ControllerWakes ==
  ASSUME Inv, Inv', WakeInv, NEW t \in Controllers, ControllerStep(t)
  PROVE  WakeInv'
  <1> USE Roles
  <1>0. /\ ControllerPath(t) /\ UNCHANGED <<live, pending, seen>> /\ TypeOK
        /\ t \in Threads /\ t \notin Submitters /\ t \notin Workers
        /\ \A u \in Threads \ {t} : pc'[u] = pc[u]
        /\ waiting \subseteq Threads /\ lock \in Threads \cup {Free} /\ Free \notin Threads
        /\ pc[t] \in ControllerPcs /\ lifecycle \in {"Running", "ShuttingDown", "Stopping"}
    BY ControllerOnPath, FixedPoolAssumption DEF Inv, TypeOK, DataOK, PcOK
  <1>1. /\ pc[t] \in {"stopInflight", "drain"} => lock = t /\ t \notin waiting
        /\ pc[t] \in {"stopInflight", "stopWait", "drain"} /\ t \in Stoppers => lifecycle = "Stopping"
        /\ pc[t] \in {"shutdown", "stopNow", "stop", "cancel", "cancelNotify", "stopNotify"} => t \notin waiting
        /\ pc[t] = "start" /\ t \notin Waiters => t \notin waiting
    BY <1>0 DEF WakeInv, MonitorFit, Holding
  <1>2. pc[t] \notin Deciding \cup {"departOpen", "departNotify", "departWaiters", "wakeNotify", "settle",
                                    "settleNotify", "idlePending", "parked"}
    BY <1>0 DEF ControllerPath, Deciding
  <1>3. ASSUME NEW p, Somebody(p), pc[t] \notin p
        PROVE  Somebody(p)'
    BY <1>0, <1>3, SomebodyStays
  <1>4. /\ Departs => Departs'
        /\ Somebody(Deciding) => Somebody(Deciding)'
        /\ Somebody(Deciding \cup {"wakeNotify"}) => Somebody(Deciding \cup {"wakeNotify"})'
        /\ Somebody({"wakeNotify"}) => Somebody({"wakeNotify"})'
    BY <1>2, <1>3 DEF Departs
  \* Only t itself falls asleep.
  <1>5. \/ waiting' \subseteq waiting /\ t \notin waiting'
        \/ /\ waiting' = waiting \cup {t} /\ UNCHANGED <<lifecycle, job>>
           /\ \/ t \in Stoppers /\ pc'[t] = "stopWait" /\ Inside # {}
              \/ t \in Joiners /\ pc'[t] = "join" /\ ~IsIdle
              \/ t \in Waiters /\ pc'[t] = "start" /\ ~IsTerminated
    BY <1>0, <1>1 DEF ControllerPath
  <1>6. \A u \in waiting' : u # t => u \in waiting /\ pc'[u] = pc[u]
    BY <1>0, <1>5
  <1>7. Inside' = Inside
    BY <1>0 DEF Inside
  <1>8. ASSUME UNCHANGED <<lifecycle, job>>
        PROVE  (IsIdle' <=> IsIdle) /\ (IsTerminated' <=> IsTerminated)
    <2>1. IsIdle' <=> IsIdle
      BY <1>7, <1>8 DEF IsIdle, Under
    <2> QED
      BY <1>0, <1>8, <2>1 DEF IsTerminated
  <1>9. ASSUME NEW p, Asleep(p)'
        PROVE  (Asleep(p) \/ (t \in waiting' /\ pc'[t] = p)) /\ waiting' # {}
    BY <1>6, <1>9 DEF Asleep
  <1>10. MonitorFit'
    <2>1. pc'[t] \in Holding => lock' = t
      BY <1>0, <1>1 DEF ControllerPath, Holding
    <2>2. lock' = lock \/ lock \in {Free, t}
      BY <1>0, <1>1 DEF ControllerPath
    <2>3. \A u \in Threads : pc'[u] \in Holding => lock' = u
      BY <1>0, <2>1, <2>2 DEF WakeInv, MonitorFit
    <2>4. \A u \in waiting' : \/ u \in Workers /\ pc'[u] = "parked"
                              \/ u \in Joiners /\ pc'[u] = "join"
                              \/ u \in Stoppers /\ pc'[u] = "stopWait"
                              \/ u \in Waiters /\ pc'[u] = "start"
      BY <1>5, <1>6 DEF WakeInv, MonitorFit
    <2>5. lifecycle = "Stopping" => lifecycle' = "Stopping"
      BY <1>0 DEF ControllerPath
    <2>6. pc'[t] \in {"stopInflight", "stopWait", "drain"} => lifecycle' = "Stopping"
      BY <1>0, <1>1 DEF ControllerPath
    <2>7. \A u \in Stoppers : pc'[u] \in {"stopInflight", "stopWait", "drain"} => lifecycle' = "Stopping"
      BY <1>0, <2>5, <2>6 DEF WakeInv, MonitorFit
    <2>8. lifecycle' = lifecycle \/ lock = Free
      BY <1>0 DEF ControllerPath
    <2>9. \A u \in Workers : pc'[u] = pc[u] /\ u # Free
      BY <1>0
    <2>10. \A u \in Workers : /\ pc'[u] \in {"idleQueued", "idlePending"} => lifecycle' = "Running"
                              /\ pc'[u] \in {"sdInflight", "sdMark", "sdQueued", "sdPark"} => lifecycle' = "ShuttingDown"
      BY <2>8, <2>9 DEF WakeInv, MonitorFit, Holding
    <2> QED
      BY <2>3, <2>4, <2>7, <2>10 DEF MonitorFit
  <1>11. StopWoken'
    <2>1. t \in waiting' /\ pc'[t] = "stopWait" => Inside # {}
      BY <1>5
    <2> QED
      BY <1>4, <1>7, <1>9, <2>1 DEF WakeInv, StopWoken
  <1>12. WaiterWoken'
    <2> DEFINE stops == {"stopInflight", "drain", "cancelNotify"}
    <2> SUFFICES ASSUME Asleep("start")', IsTerminated', pc'[t] \notin stops
                 PROVE  Departs' \/ Somebody(stops)'
      BY <1>0 DEF WaiterWoken, Somebody
    <2>1. UNCHANGED <<lifecycle, job>>
      <3>1. lifecycle' # "Running"
        BY DEF IsTerminated
      <3> QED
        BY <1>0, <1>9, <3>1 DEF ControllerPath
    <2>2. IsTerminated /\ Asleep("start")
      <3>1. IsTerminated
        BY <1>8, <2>1
      <3>2. t \in waiting' => pc'[t] # "start"
        BY <1>5, <3>1
      <3> QED
        BY <1>9, <3>1, <3>2
    <2>3. pc[t] \notin stops
      <3>1. Inside = {}
        BY <2>2 DEF IsTerminated, IsIdle
      <3> QED
        BY <1>0, <1>9, <3>1 DEF ControllerPath
    <2> QED
      BY <1>3, <1>4, <2>2, <2>3 DEF WakeInv, WaiterWoken
  <1>13. JoinWoken'
    <2> DEFINE enders == {"departWaiters", "settle", "settleNotify", "cancelNotify"}
    <2> SUFFICES ASSUME Asleep("join")', IsIdle', pc'[t] \notin enders
                 PROVE  Departs' \/ Somebody(enders)'
      BY <1>0 DEF JoinWoken, Somebody
    <2>1. job' = job /\ IsIdle
      <3>1. job' = job
        BY <1>0, <1>9 DEF ControllerPath
      <3> QED
        BY <1>7, <3>1 DEF IsIdle, Under
    <2>2. Asleep("join")
      BY <1>5, <1>9, <2>1
    <2>3. pc[t] \notin enders
      BY <1>0, <1>9 DEF ControllerPath
    <2> QED
      BY <1>3, <1>4, <2>1, <2>2, <2>3 DEF WakeInv, JoinWoken
  <1>14. Asleep("parked")' => Asleep("parked")
    <2>1. pc'[t] # "parked"
      BY <1>0 DEF ControllerPath
    <2> QED
      BY <1>9, <2>1
  <1>15. WorkerWoken'
    <2>1. ASSUME Asleep("parked")', lifecycle' = "Stopping", pc'[t] \notin {"stopInflight", "stopWait", "drain"}
          PROVE  Somebody({"stopInflight", "stopWait", "drain"})'
      <3>1. lifecycle = "Stopping" /\ pc[t] \notin {"stopInflight", "stopWait", "drain"}
        BY <1>0, <1>9, <2>1 DEF ControllerPath
      <3> QED
        BY <1>3, <1>14, <2>1, <3>1 DEF WakeInv, WorkerWoken
    <2>2. ASSUME Asleep("parked")', lifecycle' = "ShuttingDown"
          PROVE  lifecycle = "ShuttingDown"
      BY <1>0, <1>9, <2>2 DEF ControllerPath
    <2>3. pc'[t] \in {"stopInflight", "stopWait", "drain"} => Somebody({"stopInflight", "stopWait", "drain"})'
      BY <1>0 DEF Somebody
    <2> QED
      BY <1>4, <1>7, <1>14, <2>1, <2>2, <2>3 DEF WakeInv, WorkerWoken
  <1>16. TokenFit'
    BY <1>0 DEF WakeInv, TokenFit
  <1>17. JobWoken'
    <2>1. Queued' \subseteq Queued
      BY <1>0 DEF ControllerPath, Queued, Under
    <2>2. lifecycle' = "Running" => lifecycle = "Running"
      BY <1>0 DEF ControllerPath
    <2>3. Somebody({"idlePending"})' => Somebody({"idlePending"})
      <3>1. pc'[t] # "idlePending"
        BY <1>0 DEF ControllerPath
      <3> QED
        BY <1>0, <3>1 DEF Somebody
    <2> QED
      BY <1>0, <1>4, <1>14, <2>1, <2>2, <2>3 DEF WakeInv, JobWoken
  <1> QED
    BY <1>10, <1>11, <1>12, <1>13, <1>15, <1>16, <1>17 DEF WakeInv

\* The constructor has no sleeping callers yet, and a failed construction wakes the workers.
LEMMA BuilderWakes ==
  ASSUME Inv, WakeInv, BuilderStep
  PROVE  WakeInv'
  <1> USE Roles
  <1>0. /\ DOMAIN pc = Threads /\ Callers = Submitters \cup Controllers /\ pc[Builder] \in BuilderPcs
        /\ Threads = Callers \cup Workers \cup {Builder} /\ Free \notin Threads
    BY FixedPoolAssumption DEF Inv, TypeOK, PcOK, Threads, Callers
  <1>1. /\ pc[Builder] # "ready" /\ UNCHANGED <<job, pending, seen, lock>>
        /\ \/ UNCHANGED <<lifecycle, waiting>>
           \/ lock = Free /\ lifecycle' = "Stopping" /\ waiting' = {}
    BY DEF BuilderStep, ReserveWorkerSlot, SpawnWorker, RollbackWorkerSlot, StopAfterFailedBuild, JoinStartedWorkers
  <1>2. \A u \in Threads \ {Builder} : pc'[u] = pc[u] \/ (pc[u] = "new" /\ pc'[u] = "take")
    BY <1>0 DEF BuilderStep, ReserveWorkerSlot, SpawnWorker, RollbackWorkerSlot, StopAfterFailedBuild, JoinStartedWorkers
  <1>3. pc'[Builder] \in BuilderPcs
    BY <1>0 DEF BuilderStep, ReserveWorkerSlot, SpawnWorker, RollbackWorkerSlot, StopAfterFailedBuild,
                JoinStartedWorkers, BuilderPcs
  <1>4. \A t \in Callers : pc[t] = "start" /\ t \notin waiting
    BY <1>1 DEF Inv, GateFirst
  <1>5. \A t \in waiting : t \in Workers /\ pc[t] = "parked"
    BY <1>0, <1>4 DEF WakeInv, MonitorFit
  <1>6. waiting' \subseteq waiting /\ \A t \in waiting' : t \in Workers /\ pc[t] = "parked" /\ pc'[t] = "parked"
    BY <1>0, <1>1, <1>2, <1>5
  <1>7. \A t \in Callers : pc'[t] = "start"
    BY <1>0, <1>2, <1>4
  <1>8. \A p : Asleep(p)' => p = "parked" /\ Asleep("parked")
    BY <1>6 DEF Asleep
  <1>9. \A t \in Threads : pc[t] \notin Deciding \cup {"wakeNotify", "stopInflight", "stopWait", "drain"}
    BY <1>0, <1>4 DEF Inv, TypeOK, PcOK, BuilderPcs, WorkerPcs, Deciding
  <1>10. Inside = {} /\ Inside' = {} /\ Queued' = Queued
    BY <1>0, <1>1, <1>4, <1>7 DEF Inside, Queued, Under
  <1>11. MonitorFit'
    <2>1. \A u \in Threads : pc'[u] \in Holding => pc'[u] = pc[u]
      BY <1>0, <1>2, <1>3 DEF Holding, BuilderPcs
    <2>2. \A u \in Threads : pc'[u] \in Holding => lock' = u
      BY <1>1, <2>1 DEF WakeInv, MonitorFit
    <2>3. \A u \in Workers : /\ pc'[u] \in {"idleQueued", "idlePending"} => lifecycle' = "Running"
                             /\ pc'[u] \in {"sdInflight", "sdMark", "sdQueued", "sdPark"} => lifecycle' = "ShuttingDown"
      <3>1. \A u \in Workers : u # Free
        BY <1>0
      <3> QED
        BY <1>1, <2>1, <2>2, <3>1 DEF WakeInv, MonitorFit, Holding
    <2> QED
      BY <1>0, <1>6, <1>7, <2>2, <2>3 DEF MonitorFit
  <1>12. StopWoken' /\ WaiterWoken' /\ JoinWoken'
    BY <1>8 DEF StopWoken, WaiterWoken, JoinWoken
  <1>13. WorkerWoken'
    <2>1. ~(Asleep("parked") /\ lifecycle = "Stopping")
      BY <1>9 DEF WakeInv, WorkerWoken, Somebody
    <2>2. Departs => Departs'
      BY <1>0, <1>2 DEF Departs, Somebody, BuilderPcs
    <2>3. Asleep("parked")' => waiting' # {}
      BY DEF Asleep
    <2> QED
      BY <1>1, <1>8, <1>10, <2>1, <2>2, <2>3 DEF WakeInv, WorkerWoken
  <1>14. TokenFit'
    BY <1>0, <1>7 DEF TokenFit
  <1>15. JobWoken'
    <2>1. Somebody({"idlePending"})' => Somebody({"idlePending"})
      BY <1>0, <1>2, <1>3 DEF Somebody, BuilderPcs
    <2>2. ~Somebody(Deciding) /\ ~Somebody({"wakeNotify"}) /\ ~Somebody(Deciding \cup {"wakeNotify"})
      BY <1>9 DEF Somebody
    <2>3. lifecycle' = "Running" => lifecycle = "Running"
      BY <1>1
    <2> QED
      BY <1>1, <1>8, <1>10, <2>1, <2>2, <2>3 DEF WakeInv, JobWoken
  <1> QED
    BY <1>11, <1>12, <1>13, <1>14, <1>15 DEF WakeInv

\* Whatever happens, whoever has a reason to wake will be told.
LEMMA WakeStep == Inv /\ Inv' /\ WakeInv /\ [Next]_vars => WakeInv'
  <1> SUFFICES ASSUME Inv, Inv', WakeInv, [Next]_vars
               PROVE  WakeInv'
    OBVIOUS
  <1>1. CASE UNCHANGED vars
    <2>1. UNCHANGED <<pc, waiting, lock, lifecycle, pending, seen, job, live>>
      BY <1>1 DEF vars
    <2>2. MonitorFit' /\ TokenFit'
      BY <2>1 DEF WakeInv, MonitorFit, TokenFit
    <2>3. \A p : (Somebody(p)' <=> Somebody(p)) /\ (Asleep(p)' <=> Asleep(p))
      BY <2>1 DEF Somebody, Asleep
    <2>4. Inside' = Inside /\ Queued' = Queued /\ (IsIdle' <=> IsIdle) /\ (IsTerminated' <=> IsTerminated)
      BY <2>1 DEF Inside, Queued, Under, IsIdle, IsTerminated
    <2>5. Departs' <=> Departs
      BY <2>3 DEF Departs
    <2>6. StopWoken' /\ WaiterWoken' /\ JoinWoken'
      BY <2>3, <2>4, <2>5 DEF WakeInv, StopWoken, WaiterWoken, JoinWoken
    <2>7. WorkerWoken' /\ JobWoken'
      BY <2>1, <2>3, <2>4, <2>5 DEF WakeInv, WorkerWoken, JobWoken
    <2> QED
      BY <2>2, <2>6, <2>7 DEF WakeInv
  <1>2. CASE Next
    <2>1. ASSUME NEW t \in Waiters, TimeoutElapses(t)
          PROVE  WakeInv'
      BY <2>1, Roles, ControllerWakes DEF ControllerStep
    <2>2. ASSUME NEW t \in Threads, ThreadStep(t)
          PROVE  WakeInv'
      BY <2>2, Roles, ControllerWakes, WorkerWakes, SubmitterWakes, BuilderWakes DEF ThreadStep, ControllerStep
    <2> QED
      BY <1>2, <2>1, <2>2 DEF Next
  <1> QED
    BY <1>1, <1>2

\* Nobody sleeps at first.
LEMMA InitWakes == Init => WakeInv
  <1> SUFFICES ASSUME Init
               PROVE  WakeInv
    OBVIOUS
  <1>1. \A t \in Threads : pc[t] \in {"new", "build", "start"}
    BY DEF Init
  <1>2. waiting = {} /\ Queued = {} /\ Threads = Threads \cup Stoppers \cup Workers \cup Submitters
    BY Roles DEF Init, Queued, Under
  <1>3. MonitorFit /\ TokenFit
    <2>1. \A t \in Stoppers \cup Workers \cup Submitters : pc[t] \in {"new", "build", "start"}
      BY <1>1, <1>2
    <2> QED
      BY <1>1, <1>2, <2>1 DEF MonitorFit, Holding, TokenFit
  <1> QED
    BY <1>2, <1>3 DEF WakeInv, StopWoken, WaiterWoken, JoinWoken, WorkerWoken, JobWoken, Asleep

\* When all are asleep, nobody is left to notify.
LEMMA AsleepIsQuiet ==
  ASSUME WakeInv, AllAsleep
  PROVE  /\ Inside = {} /\ ~Departs /\ ~Somebody(Deciding \cup {"wakeNotify"})
         /\ ~Somebody({"stopInflight", "drain", "cancelNotify"})
         /\ ~Somebody({"departWaiters", "settle", "settleNotify", "cancelNotify"})
         /\ \A t \in Threads : pc[t] = "stopWait" => t \in waiting
  <1>1. \A t \in Threads : pc[t] \in {"new", "start", "off", "done", "refused", "ready", "failed", "joinWorkers",
                                     "parked", "join", "stopWait"}
    BY DEF WakeInv, MonitorFit, AllAsleep
  <1>2. ASSUME NEW p, p \cap {"new", "start", "off", "done", "refused", "ready", "failed", "joinWorkers",
                              "parked", "join", "stopWait"} = {}
        PROVE  ~Somebody(p)
    BY <1>1, <1>2 DEF Somebody
  <1>3. Inside = {}
    BY <1>1, Roles DEF Inside
  <1>4. ~Departs /\ ~Somebody(Deciding \cup {"wakeNotify"})
    BY <1>2 DEF Departs, Deciding
  <1>5. /\ ~Somebody({"stopInflight", "drain", "cancelNotify"})
        /\ ~Somebody({"departWaiters", "settle", "settleNotify", "cancelNotify"})
    BY <1>2
  <1>6. \A t \in Threads : pc[t] = "stopWait" => t \in waiting
    BY DEF AllAsleep
  <1> QED
    BY <1>3, <1>4, <1>5, <1>6

\* A pool in which all are asleep is one in which nobody has a reason to wake.
LEMMA WakeInvIsNoLostWakeup == Inv /\ WakeInv => NoLostWakeup
  <1> SUFFICES ASSUME Inv, WakeInv, AllAsleep, NEW t \in waiting
               PROVE  /\ pc[t] = "parked" => Queued = {} /\ lifecycle = "Running"
                      /\ pc[t] = "join" => ~IsIdle
                      /\ pc[t] = "stopWait" => Inside # {}
                      /\ pc[t] = "start" => ~IsTerminated
    BY DEF NoLostWakeup
  <1>1. Asleep(pc[t])
    BY DEF Asleep
  <1>2. pc[t] # "stopWait"
    BY <1>1, AsleepIsQuiet DEF WakeInv, StopWoken
  <1>3. ~Somebody({"stopInflight", "stopWait", "drain"})
    <2> SUFFICES ASSUME NEW u \in Threads, pc[u] \in {"stopInflight", "stopWait", "drain"}
                 PROVE  FALSE
      BY DEF Somebody
    <2>1. pc[u] = "stopWait"
      BY AsleepIsQuiet DEF Somebody
    <2>2. Asleep("stopWait")
      BY <2>1, AsleepIsQuiet DEF Asleep
    <2> QED
      BY <2>2, AsleepIsQuiet DEF WakeInv, StopWoken
  <1>4. pc[t] = "parked" => lifecycle = "Running"
    BY <1>1, <1>3, AsleepIsQuiet DEF WakeInv, WorkerWoken, Inv, TypeOK, DataOK
  <1>5. pc[t] = "parked" => Queued = {}
    BY <1>1, <1>4, AsleepIsQuiet DEF WakeInv, JobWoken
  <1>6. pc[t] = "join" => ~IsIdle
    BY <1>1, AsleepIsQuiet DEF WakeInv, JoinWoken
  <1>7. pc[t] = "start" => ~IsTerminated
    BY <1>1, AsleepIsQuiet DEF WakeInv, WaiterWoken
  <1> QED
    BY <1>2, <1>4, <1>5, <1>6, <1>7

\* The handshake, seen from a job in the queue.
LEMMA WakeInvIsWaker == Inv /\ WakeInv => QueuedJobHasWaker
  <1> SUFFICES ASSUME Inv, WakeInv, lifecycle = "Running", Queued # {}, \A w \in Workers : w \in waiting
               PROVE  \E s \in Submitters : pc[s] \in {"push", "wake", "token", "wakeNotify"}
    BY DEF QueuedJobHasWaker
  <1>1. PICK w \in Workers : TRUE
    BY FixedPoolAssumption DEF ValidConfig
  <1>2. pc[w] = "parked"
    BY Roles DEF WakeInv, MonitorFit
  <1>3. Asleep("parked")
    BY <1>2 DEF Asleep
  <1>4. PICK t \in Threads : pc[t] \in Deciding \cup {"wakeNotify"}
    BY <1>3 DEF WakeInv, JobWoken, Somebody
  <1>5. t \in Submitters
    BY <1>4 DEF Deciding, Inv, TypeOK, PcOK, Threads, Callers, BuilderPcs, WorkerPcs, ControllerPcs
  <1> QED
    BY <1>4, <1>5 DEF Deciding

-----------------------------------------------------------------------------
\* The theorems.

\* A pool under construction satisfies the inductive invariant.
LEMMA InitInv == Init => Inv
  <1> SUFFICES ASSUME Init
               PROVE  Inv
    OBVIOUS
  <1> USE Roles
  <1>1. /\ pc[Builder] = "build" /\ (\A w \in Workers : pc[w] = "new")
        /\ (\A t \in Callers : pc[t] = "start") /\ DOMAIN pc = Threads
    BY RolesAssumption DEF Init, Threads
  <1>2. \A t \in Submitters \cup Controllers : pc[t] = "start"
    BY <1>1 DEF Callers
  <1>3. DataOK
    BY NoJob DEF Init, DataOK, JobStages
  <1>4. PcOK
    <2>1. \A t \in Threads : pc[t] \in {"build", "new", "start"}
      BY <1>1 DEF Threads
    <2>2. pc \in [Threads -> {"build", "new", "start"}]
      BY <2>1 DEF Init
    <2> QED
      BY <1>1, <1>2, <2>2 DEF PcOK, BuilderPcs, SubmitterPcs, WorkerPcs, ControllerPcs
  <1>5. CountersExact
    <2>1. Active = {} /\ MarkedIdle = {} /\ Joining = {}
      BY <1>1, <1>2 DEF Active, MarkedIdle, Joining
    <2> QED
      BY <1>1, <2>1, FS_EmptySet DEF CountersExact, Init
  <1>6. TypeOK
    BY <1>3, <1>4, <1>5 DEF TypeOK, Init
  <1>7. Own
    <2>1. queue = <<>> /\ \A t \in Threads : work[t] = <<>>
      BY DEF Init
    <2>2. \A t \in Threads : pc[t] \in {"build", "new", "start"}
      BY <1>1 DEF Threads
    <2>3. HandsFit
      BY <2>1, <2>2 DEF HandsFit
    <2>4. \A j \in Submitters : job[j] = "none"
      BY DEF Init
    <2>5. OneHolder /\ Unpushed
      BY <1>2, <2>1, <2>2, <2>4, NoJob DEF OneHolder, Unpushed
    <2> QED
      BY <2>3, <2>5 DEF Own
  <1>8. GateFirst
    BY <1>1, <1>2 DEF GateFirst, Init, Callers
  <1>9. JoinerKnows /\ JoinSound /\ ToldWaiters
    BY <1>2 DEF JoinerKnows, JoinSound, ToldWaiters, Init
  <1> QED
    BY <1>6, <1>7, <1>8, <1>9 DEF Inv

\* Every step of every thread preserves it.
LEMMA NextInv == Inv /\ [Next]_vars => Inv'
  BY TypeStep, OwnStep, GateStep, JoinStep, ToldStep DEF Inv

(***************************************************************************)
(* The inductive invariant holds of every fixed pool.                      *)
(***************************************************************************)
THEOREM InvHolds == Spec => []Inv
  BY InitInv, NextInv, PTL DEF Spec

(***************************************************************************)
(* live_workers, idle_workers and the count of join's callers equal the    *)
(* threads they stand for at every step of every pool, whatever its size:  *)
(* rollback_worker_slot, worker_exited, unmark_fixed_worker_idle and the   *)
(* idle waiter guard never subtract from zero.                             *)
(***************************************************************************)
THEOREM TypeCorrect == Spec => []TypeOK
  <1>1. Inv => TypeOK
    BY DEF Inv
  <1> QED
    BY <1>1, InvHolds, PTL

(***************************************************************************)
(* An accepted job has one owner at every step: its publisher between      *)
(* enqueue_job's two halves, the injector, the worker that stole it or the *)
(* stop that drained it.                                                   *)
(***************************************************************************)
THEOREM JobsHaveOneOwner == Spec => []SoleOwner
  <1>1. Inv => SoleOwner
    BY OwnIsSole DEF Inv
  <1> QED
    BY <1>1, InvHolds, PTL

(***************************************************************************)
(* What is_terminated_locked, wait_for_termination and a failed            *)
(* construction say of the end of the pool is true and stays true.         *)
(***************************************************************************)
THEOREM TerminationIsTrue == Spec => []TerminationTrue
  <1>1. Inv => TerminationTrue
    BY TerminatedIsOver, FailedIsTerminated DEF Inv, TerminationTrue, ToldWaiters
  <1> QED
    BY <1>1, InvHolds, PTL

(***************************************************************************)
(* When join returns, every submission under way when it was called is     *)
(* over, for good.                                                         *)
(***************************************************************************)
THEOREM JoinIsSound == Spec => []JoinSound
  <1>1. Inv => JoinSound
    BY DEF Inv
  <1> QED
    BY <1>1, InvHolds, PTL

\* The threads that have yet to notify are there at every step.
THEOREM WakeInvHolds == Spec => []WakeInv
  BY InvHolds, InitWakes, WakeStep, PTL DEF Spec

(***************************************************************************)
(* No wake-up is lost, however many threads there are: the submitters that *)
(* leave without the monitor, the workers that park, stop, join and        *)
(* wait_for_termination never all sleep while one has a reason to wake.    *)
(***************************************************************************)
THEOREM NoWakeupIsLost == Spec => []NoLostWakeup
  BY WakeInvIsNoLostWakeup, InvHolds, WakeInvHolds, PTL

(***************************************************************************)
(* wake_one_idle_worker's unlocked reads of the idle count and of the      *)
(* pending tokens never leave a queued job to sleeping workers.            *)
(***************************************************************************)
THEOREM QueuedJobsHaveAWaker == Spec => []QueuedJobHasWaker
  BY WakeInvIsWaker, InvHolds, WakeInvHolds, PTL

-----------------------------------------------------------------------------
(***************************************************************************)
(* The end of stop.  From its drain on, the submitters that stop awaited   *)
(* have left a closed gate; once it has drained, the queue is empty too,   *)
(* and with nobody inside nothing is pushed again.                         *)
(***************************************************************************)
Emptied == ~open /\ Inside = {} /\ queue = <<>>
StopKnows ==
  \A t \in Stoppers :
     /\ pc[t] \in {"stopInflight", "stopWait", "drain"} => lifecycle = "Stopping"
     /\ pc[t] = "drain" => Inside = {}
     /\ pc[t] \in {"cancel", "cancelNotify", "stopNotify"} => Emptied
     /\ t \notin Shutdowners \cup Joiners /\ pc[t] = "done" => Emptied

\* Nobody enters a closed gate, and with nobody inside nothing is pushed.
LEMMA NobodyEnters ==
  ASSUME TypeOK, Own, [Next]_vars, ~open, Inside = {}
  PROVE  /\ ~open' /\ Inside' = {}
         /\ queue = <<>> => queue' = <<>> /\ \A w \in Workers : ToSet(work'[w]) \subseteq ToSet(work[w])
  <1> USE Roles
  <1> DEFINE Kept == /\ ~open' /\ (\A s \in Submitters : pc'[s] = pc[s])
                     /\ queue = <<>> => queue' = <<>> /\ \A w \in Workers : ToSet(work'[w]) \subseteq ToSet(work[w])
  <1>0. DOMAIN pc = Threads /\ DOMAIN work = Threads /\ \A t \in Threads : work[t] \in Seq(Submitters)
    BY DEF TypeOK, PcOK, DataOK
  <1>1. ASSUME Kept
        PROVE  /\ ~open' /\ Inside' = {}
               /\ queue = <<>> => queue' = <<>> /\ \A w \in Workers : ToSet(work'[w]) \subseteq ToSet(work[w])
    BY <1>1 DEF Inside
  <1>2. ASSUME NEW s \in Submitters, SubmitterStep(s)
        PROVE  /\ ~open' /\ Inside' = {}
               /\ queue = <<>> => queue' = <<>> /\ \A w \in Workers : ToSet(work'[w]) \subseteq ToSet(work[w])
    <2>1. pc[s] \notin {"reserve", "accepting", "rejectNotify", "push", "wake", "token", "wakeNotify", "leave"}
      BY DEF Inside
    <2>2. open' = open /\ \A u \in Submitters \ {s} : pc'[u] = pc[u]
      BY <1>2, SubmitterFrame
    <2>3. BeginSubmit(s) \/ Depart(s) \/ NotifyUnderLock(s)
      BY <1>2, <2>1 DEF SubmitterStep, ReserveQueueSlot, AcceptPanics, EnqueueJob, LoadIdle, RequestWake, Leave
    <2>4. queue' = queue /\ work' = work
      BY <2>3 DEF BeginSubmit, Depart, NotifyUnderLock
    <2>5. pc'[s] \notin {"reserve", "accepting", "rejectNotify", "push", "wake", "token", "wakeNotify", "leave"}
      <3>1. CASE BeginSubmit(s) \/ Depart(s)
        BY <1>0, <3>1 DEF BeginSubmit, Depart
      <3>2. CASE NotifyUnderLock(s)
        BY <1>0, <2>1, <3>2 DEF NotifyUnderLock, TypeOK, PcOK, SubmitterPcs
      <3> QED
        BY <2>3, <3>1, <3>2
    <2>6. Inside' = {}
      BY <2>2, <2>5 DEF Inside
    <2> QED
      BY <2>2, <2>4, <2>6
  <1>3. ASSUME NEW w \in Workers, WorkerStep(w)
        PROVE  Kept
    <2>1. ~open' /\ \A s \in Submitters : pc'[s] = pc[s]
      BY <1>3, WorkerFrame
    <2>2. queue = <<>> => queue' = <<>> /\ \A u \in Workers : ToSet(work'[u]) \subseteq ToSet(work[u])
      <3> SUFFICES ASSUME queue = <<>>
                   PROVE  queue' = <<>> /\ \A u \in Workers : ToSet(work'[u]) \subseteq ToSet(work[u])
        OBVIOUS
      <3>1. CASE Run(w)
        <4>1. queue' = queue /\ work'[w] = <<>> /\ \A u \in Workers \ {w} : work'[u] = work[u]
          BY <1>0, <3>1 DEF Run
        <4> QED
          BY <4>1, NoJob
      <3>2. CASE CancelCallback(w)
        <4>1. queue' = queue /\ work'[w] = Tail(work[w]) /\ \A u \in Workers \ {w} : work'[u] = work[u]
          BY <1>0, <3>2 DEF CancelCallback
        <4>2. work[w] \in Seq(Submitters) /\ work[w] # <<>> /\ IsInjective(work[w])
          BY <1>0, <3>2 DEF CancelCallback, Own, HandsFit, OneHolder
        <4>3. ToSet(Tail(work[w])) \subseteq ToSet(work[w])
          BY <4>2, TailDistinct
        <4> QED
          BY <4>1, <4>3
      <3>3. CASE ~(Run(w) \/ CancelCallback(w))
        <4>1. CASE TryTakeJob(w) \/ StealOne(w) \/ AcceptClaimedJob(w) \/ MarkRunning(w) \/ BeginCancelClaimed(w)
          BY <4>1 DEF TryTakeJob, StealOne, AcceptClaimedJob, MarkRunning, BeginCancelClaimed
        <4>2. CASE Settle(w) \/ NotifyUnderLock(w) \/ Loop(w) \/ SpinQueued(w) \/ SpinPending(w) \/ SpinOpen(w)
          BY <4>2 DEF Settle, NotifyUnderLock, Loop, SpinQueued, SpinPending, SpinOpen
        <4>3. CASE Relock(w) \/ IdleQueued(w) \/ IdlePending(w) \/ Awaken(w) \/ Unmark(w) \/ Consume(w)
          BY <4>3 DEF Relock, MarkIdle, IdleQueued, IdlePending, Parks, Awaken, Unmark, Consume
        <4>4. CASE SdInflight(w) \/ SdMark(w) \/ SdQueued(w) \/ SdPark(w) \/ WorkerExited(w)
          BY <4>4 DEF SdInflight, SdMark, MarkIdle, SdQueued, SdPark, Parks, WorkerExited
        <4> QED
          BY <1>3, <3>3, <4>1, <4>2, <4>3, <4>4 DEF WorkerStep
      <3> QED
        BY <3>1, <3>2, <3>3
    <2> QED
      BY <2>1, <2>2
  <1>4. ASSUME NEW t \in Controllers, ControllerStep(t)
        PROVE  Kept
    <2>1. ~open' /\ \A s \in Submitters : pc'[s] = pc[s]
      BY <1>4, ControllerFrame
    <2>2. t \notin Workers
      OBVIOUS
    <2>3. queue = <<>> => queue' = <<>> /\ \A w \in Workers : work'[w] = work[w]
      <3>1. CASE ShutdownStep(t) \/ BeginJoin(t) \/ Join(t) \/ AwaitTermination(t) \/ TimeoutElapses(t)
        BY <3>1 DEF ShutdownStep, CloseAdmission, BeginShutdown, BeginJoin, Join, AwaitTermination, TimeoutElapses
      <3>2. CASE Drain(t) \/ CancelCallback(t)
        BY <1>0, <2>2, <3>2 DEF Drain, CancelCallback
      <3>3. CASE StopStep(t) /\ ~(Drain(t) \/ CancelCallback(t))
        BY <3>3 DEF StopStep, CloseAdmission, SetStopNow, BeginStop, AwaitSubmitters, ResumeStop, NotifyUnderLock
      <3> QED
        BY <1>4, <3>1, <3>2, <3>3 DEF ControllerStep
    <2> QED
      BY <2>1, <2>3
  <1>5. ASSUME BuilderStep
        PROVE  Kept
    <2>1. UNCHANGED <<queue, work>> /\ ~open'
      BY <1>5 DEF BuilderStep, ReserveWorkerSlot, SpawnWorker, RollbackWorkerSlot, StopAfterFailedBuild, JoinStartedWorkers
    <2>2. \A s \in Submitters : pc'[s] = pc[s]
      BY <1>0, <1>5 DEF BuilderStep, ReserveWorkerSlot, SpawnWorker, RollbackWorkerSlot, StopAfterFailedBuild,
                        JoinStartedWorkers
    <2> QED
      BY <2>1, <2>2
  <1>6. ASSUME UNCHANGED vars
        PROVE  Kept
    BY <1>6 DEF vars
  <1> HIDE DEF Kept
  <1> QED
    BY <1>1, <1>2, <1>3, <1>4, <1>5, <1>6 DEF Next, ThreadStep, ControllerStep

\* Every step keeps what stop knows.
LEMMA StopStays ==
  ASSUME TypeOK, Own, GateFirst, StopKnows, [Next]_vars
  PROVE  StopKnows'
  <1> USE Roles
  <1>0. /\ Emptied => Emptied'
        /\ ~open /\ Inside = {} => ~open' /\ Inside' = {}
        /\ lifecycle = "Stopping" => ~open
    BY NobodyEnters DEF Emptied, GateFirst
  <1>1. ASSUME NEW t \in Stoppers, ControllerStep(t)
        PROVE  /\ pc'[t] \in {"stopInflight", "stopWait", "drain"} => lifecycle' = "Stopping"
               /\ pc'[t] = "drain" => Inside' = {}
               /\ pc'[t] \in {"cancel", "cancelNotify", "stopNotify"} => Emptied'
               /\ t \notin Shutdowners \cup Joiners /\ pc'[t] = "done" => Emptied'
    <2>0. /\ t \in DOMAIN pc /\ t \notin Waiters /\ t \notin Workers /\ pc[t] \in ControllerPcs
          /\ lifecycle \in {"Running", "ShuttingDown", "Stopping"}
      BY DEF TypeOK, PcOK, DataOK
    <2>1. CASE (t \in Shutdowners /\ ShutdownStep(t)) \/ (t \in Joiners /\ (BeginJoin(t) \/ Join(t)))
      <3>1. pc'[t] \in {"shutdown", "done", "join"}
        BY <2>0, <2>1 DEF ShutdownStep, CloseAdmission, BeginShutdown, BeginJoin, Join, Wait
      <3> QED
        BY <2>1, <3>1
    <2>2. CASE CloseAdmission(t, "stopNow") \/ SetStopNow(t)
      <3>1. pc'[t] \in {"stopNow", "stop"}
        BY <2>0, <2>2 DEF CloseAdmission, SetStopNow
      <3> QED
        BY <3>1
    <2>3. CASE BeginStop(t)
      <3>1. pc'[t] = "stopInflight" /\ lifecycle' = "Stopping"
        BY <2>0, <2>3 DEF BeginStop
      <3> QED
        BY <3>1
    <2>4. CASE AwaitSubmitters(t) \/ ResumeStop(t)
      <3>1. /\ pc[t] \in {"stopInflight", "stopWait"} /\ lifecycle' = lifecycle
            /\ pc'[t] \in {"stopInflight", "stopWait"} \/ (pc'[t] = "drain" /\ Inside = {})
        BY <2>0, <2>4 DEF AwaitSubmitters, ResumeStop, Wait
      <3>2. lifecycle = "Stopping"
        BY <3>1 DEF StopKnows
      <3>3. pc'[t] = "drain" => Inside' = {}
        BY <1>0, <3>1, <3>2
      <3> QED
        BY <3>1, <3>2, <3>3
    <2>5. CASE Drain(t)
      <3>1. /\ pc[t] = "drain" /\ lifecycle' = lifecycle
            /\ pc'[t] = "drain" \/ (queue = <<>> /\ pc'[t] \in {"cancel", "stopNotify"})
        BY <2>0, <2>5 DEF Drain
      <3>2. lifecycle = "Stopping" /\ Inside = {} /\ Inside' = {} /\ (queue = <<>> => Emptied)
        BY <1>0, <3>1 DEF StopKnows, Emptied
      <3> QED
        BY <1>0, <3>1, <3>2
    <2>6. CASE CancelCallback(t) \/ NotifyUnderLock(t)
      <3>1. /\ pc[t] \in {"cancel", "cancelNotify", "stopNotify"}
            /\ pc'[t] \in {"cancel", "cancelNotify", "stopNotify", "done"}
        BY <2>0, <2>6 DEF CancelCallback, NotifyUnderLock, ControllerPcs
      <3>2. Emptied'
        BY <1>0, <3>1 DEF StopKnows
      <3> QED
        BY <3>1, <3>2
    <2> QED
      BY <1>1, <2>0, <2>1, <2>2, <2>3, <2>4, <2>5, <2>6 DEF ControllerStep, StopStep
  <1>2. ASSUME NEW t \in Stoppers, pc'[t] = pc[t], lifecycle = "Stopping" => lifecycle' = "Stopping"
        PROVE  /\ pc'[t] \in {"stopInflight", "stopWait", "drain"} => lifecycle' = "Stopping"
               /\ pc'[t] = "drain" => Inside' = {}
               /\ pc'[t] \in {"cancel", "cancelNotify", "stopNotify"} => Emptied'
               /\ t \notin Shutdowners \cup Joiners /\ pc'[t] = "done" => Emptied'
    BY <1>0, <1>2 DEF StopKnows
  <1>3. \A t \in Stoppers : ControllerStep(t) \/ (pc'[t] = pc[t] /\ (lifecycle = "Stopping" => lifecycle' = "Stopping"))
    <2>0. Stoppers \subseteq Controllers /\ Controllers \subseteq Threads /\ DOMAIN pc = Threads
      BY DEF TypeOK, PcOK
    <2>1. ASSUME NEW s \in Submitters, SubmitterStep(s)
          PROVE  lifecycle' = lifecycle /\ \A t \in Stoppers : pc'[t] = pc[t]
      BY <2>0, <2>1, SubmitterFrame
    <2>2. ASSUME NEW w \in Workers, WorkerStep(w)
          PROVE  lifecycle' = lifecycle /\ \A t \in Stoppers : pc'[t] = pc[t]
      BY <2>0, <2>2, WorkerFrame
    <2>3. ASSUME NEW u \in Controllers, ControllerStep(u)
          PROVE  /\ lifecycle = "Stopping" => lifecycle' = "Stopping"
                 /\ \A t \in Stoppers \ {u} : pc'[t] = pc[t]
      BY <2>0, <2>3, ControllerFrame
    <2>4. ASSUME BuilderStep
          PROVE  /\ lifecycle = "Stopping" => lifecycle' = "Stopping"
                 /\ \A t \in Stoppers : pc'[t] = pc[t]
      BY <2>0, <2>4 DEF BuilderStep, ReserveWorkerSlot, SpawnWorker, RollbackWorkerSlot, StopAfterFailedBuild,
                        JoinStartedWorkers
    <2>5. CASE UNCHANGED vars
      BY <2>5 DEF vars
    <2> QED
      BY <2>1, <2>2, <2>3, <2>4, <2>5 DEF Next, ThreadStep, ControllerStep
  <1> QED
    BY <1>1, <1>2, <1>3 DEF StopKnows

\* Nobody has stopped at first.
LEMMA InitStops == Init => StopKnows
  BY Roles DEF Init, StopKnows

\* What a stop knows holds at every step.
THEOREM StopKnowsHolds == Spec => []StopKnows
  <1>1. Inv /\ StopKnows /\ [Next]_vars => StopKnows'
    BY StopStays DEF Inv
  <1> QED
    BY <1>1, InvHolds, InitStops, PTL DEF Spec

(***************************************************************************)
(* When stop has returned, nothing is pushed any more and steal_one finds  *)
(* nothing: a worker that passed the stop flag in try_take_job before stop *)
(* raised it may run the job it then stole, and no other.  "done" must     *)
(* mean that stop returned, so a stopping thread makes no other call.      *)
(***************************************************************************)
THEOREM StopIsFinal ==
  ASSUME Stoppers \cap (Shutdowners \cup Joiners) = {}
  PROVE  Spec => StopFinal
  <1> DEFINE Final == (\E t \in Stoppers : pc[t] = "done")
                         => queue' = <<>> /\ \A w \in Workers : ToSet(work'[w]) \subseteq ToSet(work[w])
  <1>1. Inv /\ StopKnows /\ [Next]_vars => [Final]_vars
    <2> SUFFICES ASSUME Inv, StopKnows, [Next]_vars, NEW t \in Stoppers, pc[t] = "done"
                 PROVE  queue' = <<>> /\ \A w \in Workers : ToSet(work'[w]) \subseteq ToSet(work[w])
      OBVIOUS
    <2>1. TypeOK /\ Own /\ ~open /\ Inside = {} /\ queue = <<>>
      BY DEF Inv, StopKnows, Emptied
    <2> QED
      BY <2>1, NobodyEnters
  <1> QED
    BY <1>1, InvHolds, StopKnowsHolds, PTL DEF Spec, StopFinal
=============================================================================
