-------------------- MODULE DynamicPoolRefinement_proofs --------------------
(***************************************************************************)
(* The dynamic pool implements the executor service, step by step.         *)
(***************************************************************************)
EXTENDS DynamicPool_proofs

\* A pool that says it is terminated is over, in the state a step leads to as well.
LEMMA OverNext == Inv' /\ IsTerminated' => PoolIsOver'
  <1>1. Inv /\ IsTerminated => PoolIsOver
    BY TerminatedIsOver DEF Inv
  <1> QED
    BY <1>1, PTL

\* A step the service does not see.
LEMMA Stutter ==
  ASSUME UNCHANGED <<open, lifecycle>>, IsTerminated' <=> IsTerminated,
         \A j \in Submitters : Stage(j)' = Stage(j)
  PROVE  UNCHANGED Service!vars
  BY DEF Service!vars

\* A step that moves one job.  It may end the service, if that was its last work.
LEMMA JobMoves ==
  ASSUME TypeOK, UNCHANGED <<open, lifecycle>>, ~IsTerminated, IsTerminated' => PoolIsOver',
         NEW j \in Submitters,
         \A i \in Submitters \ {j} : Stage(i)' = Stage(i),
         \/ Stage(j) = "none" /\ Stage(j)' = "submitting" /\ open
         \/ Stage(j) = "submitting" /\ Stage(j)' \in {"none", "accepted", "withdrawn"}
         \/ Stage(j) = "accepted" /\ Stage(j)' \in {"running", "withdrawn"}
         \/ Stage(j) = "running" /\ Stage(j)' = "completed"
         \/ Stage(j) = "withdrawn" /\ Stage(j)' = "cancelled"
  PROVE  Service!Next
  <1> DEFINE stg == [i \in Submitters |-> Stage(i)]
             stp == [i \in Submitters |-> Stage(i)']
             from == Stage(j)
             to == Stage(j)'
  <1>1. stp[j] = to /\ stg[j] = from /\ to # from
    OBVIOUS
  <1>2. stp = [stg EXCEPT ![j] = to]
    <2>1. \A i \in Submitters \ {j} : Stage(i)' = Stage(i)
      OBVIOUS
    <2> HIDE DEF to, from
    <2> QED
      BY <1>1, <2>1 DEF to
  <1>3. Service!MayTerminate
    <2>1. CASE ~IsTerminated'
      BY <2>1 DEF Service!MayTerminate
    <2>2. CASE IsTerminated'
      <3>1. \A i \in Submitters : Stage(i)' \in {"none", "completed", "cancelled"}
        BY <2>2 DEF PoolIsOver, Stage, Settled
      <3>2. ~open' /\ lifecycle # "Running"
        BY <2>2 DEF PoolIsOver
      <3>3. Service!Quiet'
        BY <3>1, <3>2 DEF Service!Quiet
      <3> QED
        BY <2>2, <3>2, <3>3 DEF Service!MayTerminate
    <2> QED
      BY <2>1, <2>2
  <1>4. Service!Step(j)
    BY <1>1, <1>2, <1>3 DEF Service!Step, Service!Submit, Service!Reject, Service!Accept, Service!Start, Service!Complete,
                      Service!Withdraw, Service!Cancel, Service!Moves
  <1> QED
    BY <1>1, <1>4 DEF Service!Next

\* A step of which the service sees neither jobs, gate nor lifecycle.
LEMMA Unseen ==
  ASSUME UNCHANGED <<open, lifecycle, live, exiting, job>>, Inside' = Inside
  PROVE  UNCHANGED Service!vars
  <1>1. IsTerminated' <=> IsTerminated
    BY DEF IsTerminated, Terminated, IsIdle, Under
  <1>2. \A j \in Submitters : Stage(j)' = Stage(j)
    BY DEF Stage
  <1> QED
    BY <1>1, <1>2, Stutter

\* A worker more in a running pool is not seen either.
LEMMA RunningUnseen ==
  ASSUME UNCHANGED <<open, lifecycle>>, lifecycle = "Running", \A j \in Submitters : Stage(j)' = Stage(j)
  PROVE  UNCHANGED Service!vars
  <1>1. ~IsTerminated /\ ~IsTerminated'
    BY DEF IsTerminated, Terminated
  <1> QED
    BY <1>1, Stutter

\* A step that only advances the lifecycle, or only ends the service.
LEMMA PhaseMoves ==
  ASSUME TypeOK, open' = open, IsTerminated => IsTerminated', IsTerminated' => PoolIsOver',
         \A j \in Submitters : Stage(j)' = Stage(j),
         \/ lifecycle' = lifecycle
         \/ ~open /\ lifecycle = "Running" /\ lifecycle' \in {"ShuttingDown", "Stopping"}
         \/ ~open /\ lifecycle = "ShuttingDown" /\ lifecycle' = "Stopping"
  PROVE  [Service!Next]_Service!vars
  <1>0. [j \in Submitters |-> Stage(j)'] = [j \in Submitters |-> Stage(j)]
    OBVIOUS
  <1>1. CASE IsTerminated
    BY <1>0, <1>1 DEF Service!vars
  <1>2. CASE ~IsTerminated /\ ~IsTerminated'
    <2>1. CASE lifecycle' = lifecycle
      BY <1>0, <1>2, <2>1 DEF Service!vars
    <2>2. CASE lifecycle' # lifecycle
      BY <1>0, <1>2, <2>2 DEF Service!Next, Service!Advance, Service!Rank
    <2> QED
      BY <2>1, <2>2
  <1>3. CASE ~IsTerminated /\ IsTerminated'
    <2>1. Service!Quiet
      <3>1. ~open' /\ \A j \in Submitters : Stage(j)' \in {"none", "completed", "cancelled"}
        BY <1>3 DEF PoolIsOver, Stage, Settled
      <3> QED
        BY <3>1 DEF Service!Quiet
    <2>2. ~open
      BY <1>3 DEF PoolIsOver
    <2> QED
      BY <1>0, <1>3, <2>1, <2>2 DEF Service!Next, Service!Advance, Service!Rank, TypeOK, DataOK, Lifecycles
  <1> QED
    BY <1>1, <1>2, <1>3

USE DEF monitor, config, flags, wakes, jobs, own, locals, At, Goto, CanLock, NotifyAll, Reads

\* One job moves and no thread enters or leaves.
LEMMA HandMoves ==
  ASSUME Inv, Inv', UNCHANGED <<open, lifecycle>>, Inside' = Inside,
         NEW j \in Submitters, \A i \in Submitters \ {j} : job'[i] = job[i],
         \/ job[j] = "queued" /\ job'[j] \in {"running", "cancelling"}
         \/ job[j] = "running" /\ job'[j] = "completed"
         \/ job[j] = "cancelling" /\ job'[j] = "cancelled"
  PROVE  Service!Next
  <1>1. \A i \in Submitters \ {j} : Stage(i)' = Stage(i)
    BY DEF Stage
  <1>2. \/ Stage(j) = "accepted" /\ Stage(j)' \in {"running", "withdrawn"}
        \/ Stage(j) = "running" /\ Stage(j)' = "completed"
        \/ Stage(j) = "withdrawn" /\ Stage(j)' = "cancelled"
    BY DEF Stage
  <1>3. TypeOK
    BY DEF Inv
  <1>4. IsTerminated' => PoolIsOver'
    BY OverNext
  <1>5. ~IsTerminated
    BY DEF IsTerminated, Terminated, IsIdle, Under
  <1> QED
    BY <1>1, <1>2, <1>3, <1>4, <1>5, JobMoves

\* A cancellation, by the submission, the ticket's caller or stop.
LEMMA CancelRefines ==
  ASSUME Inv, Inv', NEW t \in Threads \ Workers, CancelCallback(t)
  PROVE  Service!Next
  <1> USE Roles
  <1>1. TypeOK /\ Own
    BY DEF Inv
  <1>2. \E j \in Submitters : Ends(j, "cancelling", "cancelled") /\ \A i \in Submitters \ {j} : Stays(i)
    BY <1>1, CancelMoves
  <1> PICK j \in Submitters : Ends(j, "cancelling", "cancelled") /\ \A i \in Submitters \ {j} : Stays(i)
    BY <1>2
  <1>3. UNCHANGED <<open, lifecycle>> /\ pc[t] = "cancel" /\ pc'[t] = "settle" /\ \A u \in Threads \ {t} : pc'[u] = pc[u]
    BY <1>1, CancelMoves
  <1>4. Inside' = Inside
    BY <1>3 DEF Inside
  <1> QED
    BY <1>3, <1>4, HandMoves DEF Ends, Stays

\* A submission, from the gate to the last departure.
LEMMA SubmitterRefines ==
  ASSUME Inv, Inv', NEW s \in Submitters, SubmitterStep(s)
  PROVE  [Service!Next]_Service!vars
  <1> USE Roles
  <1>0. /\ s \in Threads /\ s \in Threads \ Workers /\ DOMAIN pc = Threads /\ DOMAIN job = Submitters /\ TypeOK
        /\ pc[s] \in SubmitterPcs /\ EntryFit(s) /\ UNCHANGED <<lifecycle, open, exiting>>
    BY SubmitterFrame DEF Inv, TypeOK, PcOK, DataOK, Own, EntryFits
  <1>1. \A i \in Submitters \ {s} : pc'[i] = pc[i] /\ job'[i] = job[i]
    BY SubmitterFrame DEF Inv, Stays
  <1>2. \A i \in Submitters \ {s} : Stage(i)' = Stage(i)
    BY <1>1 DEF Stage, Inside
  <1>3. s \in Inside => ~IsTerminated
    BY DEF IsTerminated, Terminated, IsIdle
  <1>4. s \in Inside' => ~IsTerminated'
    BY DEF IsTerminated, Terminated, IsIdle
  <1>5. ASSUME job' = job, live' = live, s \in Inside' <=> s \in Inside
        PROVE  UNCHANGED Service!vars
    <2>1. Inside' = Inside
      BY <1>1, <1>5 DEF Inside
    <2> QED
      BY <1>0, <1>5, <2>1, Unseen
  <1>6. CASE BeginSubmit(s)
    <2>1. pc[s] \in {"start", "retry"} /\ job'[s] = "none" /\ pc'[s] = (IF open THEN "reserve" ELSE "refused") /\ live' = live
      BY <1>0, <1>6 DEF BeginSubmit, Calls
    <2>2. job[s] \in {"none", "saturated"}
      BY <1>0, <2>1 DEF EntryFit
    <2>3. Stage(s) = "none"
      BY <2>1, <2>2 DEF Stage, Inside
    <2>4. CASE open
      <3>1. Stage(s)' = "submitting"
        BY <2>1, <2>4 DEF Stage, Inside
      <3>2. ~IsTerminated /\ ~IsTerminated'
        BY <1>0, <2>4 DEF Inv, GateFirst, IsTerminated, Terminated
      <3> QED
        BY <1>0, <1>2, <2>3, <2>4, <3>1, <3>2, JobMoves
    <2>5. CASE ~open
      <3>1. Stage(s)' = "none"
        BY <2>1, <2>5 DEF Stage, Inside
      <3>2. IsTerminated' <=> IsTerminated
        <4>1. Inside' = Inside
          BY <1>1, <2>1, <2>5 DEF Inside
        <4>2. Under({"reserved", "queued", "running", "cancelling"})' = Under({"reserved", "queued", "running", "cancelling"})
          BY <1>1, <2>1, <2>2 DEF Under
        <4> QED
          BY <1>0, <2>1, <4>1, <4>2 DEF IsTerminated, Terminated, IsIdle
      <3> QED
        BY <1>0, <1>2, <2>3, <3>1, <3>2, Stutter
    <2> QED
      BY <2>4, <2>5
  <1>7. CASE ReserveSubmission(s)
    <2>1. pc[s] = "reserve" /\ job[s] = "none"
      BY <1>0, <1>7 DEF ReserveSubmission, EntryFit
    <2>2. pc'[s] \in {"leave", "accept", "accepting"}
      BY <1>0, <1>7, <2>1 DEF ReserveSubmission, Spawn, SpawnFails, AfterReserve
    <2>3. job'[s] \in {"none", "saturated", "reserved"}
      BY <1>7, <2>1, SubmitterFrame DEF Inv
    <2>4. s \in Inside /\ s \in Inside'
      BY <2>1, <2>2 DEF Inside
    <2>5. Stage(s)' = Stage(s)
      BY <2>1, <2>3, <2>4 DEF Stage
    <2> QED
      BY <1>0, <1>2, <1>3, <1>4, <2>4, <2>5, Stutter
  <1>8. CASE AcceptPanics(s)
    <2>1. pc[s] = "accepting" /\ pc'[s] = "released" /\ job'[s] = "none" /\ job[s] = "reserved"
      BY <1>0, <1>8 DEF AcceptPanics, EntryFit
    <2>2. s \in Inside /\ s \in Inside'
      BY <2>1 DEF Inside
    <2>3. Stage(s)' = Stage(s)
      BY <2>1, <2>2 DEF Stage
    <2> QED
      BY <1>0, <1>2, <1>3, <1>4, <2>2, <2>3, Stutter
  <1>9. CASE Publish(s)
    <2>1. /\ pc[s] = "accepting" /\ pc'[s] \in {"cancel", "wake"} /\ job'[s] \in {"queued", "cancelling"}
          /\ job[s] = "reserved"
      BY <1>0, <1>9 DEF Publish, EntryFit
    <2>2. s \in Inside /\ s \in Inside'
      BY <2>1 DEF Inside
    <2>3. Stage(s) = "submitting" /\ Stage(s)' \in {"accepted", "withdrawn"}
      BY <2>1, <2>2 DEF Stage
    <2> QED
      BY <1>0, <1>2, <1>3, <1>4, <2>2, <2>3, JobMoves
  <1>10. CASE CancelCallback(s)
    BY <1>0, <1>10, CancelRefines
  <1>11. CASE BeginAccept(s) \/ AnnounceRelease(s) \/ RejectEntry(s) \/ CancelEntry(s) \/ LoadIdle(s) \/ RequestWake(s)
    <2>1. job' = job /\ live' = live /\ (s \in Inside' <=> s \in Inside)
      BY <1>0, <1>11 DEF BeginAccept, AnnounceRelease, RejectEntry, CancelEntry, LoadIdle, RequestWake, Inside
    <2> QED
      BY <1>5, <2>1
  <1>12. CASE Settle(s)
    <2>1. job' = job /\ live' = live /\ pc[s] = "settle" /\ pc'[s] \in {"settleNotify", "cancelEntry"}
      BY <1>0, <1>12 DEF Settle, AfterSettle
    <2> QED
      BY <1>5, <2>1 DEF Inside
  <1>13. CASE NotifyUnderLock(s)
    <2>1. job' = job /\ live' = live
      BY <1>13 DEF NotifyUnderLock
    <2>2. s \in Inside' <=> s \in Inside
      BY <1>0, <1>13 DEF NotifyUnderLock, AfterSettle, AfterSubmit, Inside, SubmitterPcs
    <2> QED
      BY <1>5, <2>1, <2>2
  <1>14. CASE DepartOpen(s) \/ DepartWaiters(s) \/ AwaitCapacity(s)
    <2>1. job' = job /\ live' = live
      BY <1>14 DEF DepartOpen, DepartWaiters, AwaitCapacity
    <2>2. s \in Inside' <=> s \in Inside
      BY <1>0, <1>14 DEF DepartOpen, DepartWaiters, AwaitCapacity, AfterSubmit, Inside
    <2> QED
      BY <1>5, <2>1, <2>2
  <1>15. CASE Leave(s)
    <2>1. pc[s] = "leave" /\ job' = job /\ live' = live /\ pc'[s] \in {"departOpen", "awaitCapacity", "done"}
      BY <1>0, <1>15 DEF Leave, AfterSubmit
    <2>2. s \in Inside /\ s \notin Inside' /\ job[s] # "reserved"
      BY <1>0, <2>1 DEF Inside, EntryFit
    <2>3. CASE job[s] \in {"none", "saturated"}
      <3>1. Stage(s) = "submitting" /\ Stage(s)' = "none"
        BY <2>1, <2>2, <2>3 DEF Stage
      <3> QED
        BY <1>0, <1>2, <1>3, <2>2, <3>1, JobMoves, OverNext
    <2>4. CASE job[s] \notin {"none", "saturated"}
      <3>1. Stage(s)' = Stage(s)
        BY <2>1, <2>2, <2>4 DEF Stage
      <3>2. \A i \in Submitters : Stage(i)' = Stage(i)
        BY <1>2, <3>1
      <3> QED
        BY <1>0, <1>3, <2>2, <3>2, PhaseMoves, OverNext
    <2> QED
      BY <2>3, <2>4
  <1> QED
    BY <1>6, <1>7, <1>8, <1>9, <1>10, <1>11, <1>12, <1>13, <1>14, <1>15 DEF SubmitterStep

\* A worker claims and completes a job; its exit may end the service.
LEMMA WorkerRefines ==
  ASSUME Inv, Inv', NEW w \in Workers, WorkerStep(w) \/ KeepAliveElapses(w)
  PROVE  [Service!Next]_Service!vars
  <1> USE Roles
  <1>0. /\ w \in Threads /\ DOMAIN pc = Threads /\ DOMAIN job = Submitters /\ TypeOK /\ Own
        /\ queue \in Seq(Submitters)
    BY DEF Inv, TypeOK, PcOK, DataOK
  <1>1. /\ UNCHANGED <<lifecycle, open>> /\ pc[w] # "off" /\ \A u \in Threads \ {w} : pc'[u] = pc[u]
    BY <1>0, WorkerFrame
  <1>2. Inside' = Inside
    BY <1>1 DEF Inside
  <1>3. ~IsTerminated
    <2>1. Inv /\ IsTerminated => PoolIsOver
      BY TerminatedIsOver DEF Inv
    <2> QED
      BY <1>1, <2>1 DEF PoolIsOver
  <1>4. ASSUME UNCHANGED <<live, exiting, job>>
        PROVE  UNCHANGED Service!vars
    BY <1>1, <1>2, <1>4, Unseen
  <1>5. ASSUME job' = job
        PROVE  [Service!Next]_Service!vars
    <2>1. \A j \in Submitters : Stage(j)' = Stage(j)
      BY <1>2, <1>5 DEF Stage
    <2> QED
      BY <1>0, <1>1, <1>3, <2>1, PhaseMoves, OverNext
  <1>6. CASE Claim(w)
    <2>1. queue # <<>>
      BY <1>0, <1>6 DEF Claim, Own, QueueHeld
    <2>2. Head(queue) \in Submitters /\ Head(queue) \in ToSet(queue)
      BY <1>0, <2>1 DEF ToSet
    <2>3. job[Head(queue)] = "queued"
      BY <1>0, <2>2 DEF Own, OneHolder
    <2>4. job' = [job EXCEPT ![Head(queue)] = "running"]
      BY <1>6 DEF Claim
    <2>5. job'[Head(queue)] = "running" /\ \A i \in Submitters \ {Head(queue)} : job'[i] = job[i]
      BY <1>0, <2>2, <2>4
    <2> QED
      BY <1>1, <1>2, <2>2, <2>3, <2>5, HandMoves
  <1>7. CASE Run(w)
    <2>1. pc[w] = "run" /\ job' = [job EXCEPT ![Head(work[w])] = "completed"]
      BY <1>7 DEF Run
    <2> PICK j \in Submitters : work[w] = <<j>>
      BY <1>0, <2>1 DEF Own, HandsFit, HandFit
    <2>2. Head(work[w]) = j /\ j \in ToSet(work[w])
      BY OneJob
    <2>3. job[j] = "running"
      BY <1>0, <2>2 DEF Own, OneHolder
    <2>4. job'[j] = "completed" /\ \A i \in Submitters \ {j} : job'[i] = job[i]
      BY <1>0, <2>1, <2>2
    <2> QED
      BY <1>1, <1>2, <2>3, <2>4, HandMoves
  <1>8. CASE Check(w) \/ Consume(w) \/ SdInflight(w) \/ FinishExit(w)
    <2>1. job' = job
      BY <1>8 DEF Check, Consume, SdInflight, FinishExit
    <2> QED
      BY <1>5, <2>1
  <1>9. CASE TryTake(w) \/ AnnounceClaim(w) \/ Settle(w) \/ NotifyUnderLock(w) \/ Relock(w) \/ Awaken(w) \/ TimedOut(w)
    BY <1>4, <1>9 DEF TryTake, AnnounceClaim, Settle, NotifyUnderLock, Relock, Awaken, TimedOut
  <1>10. CASE IdleQueued(w) \/ IdlePending(w) \/ RetireQueued(w) \/ RetirePending(w) \/ RetireInflight(w) \/ Unmark(w)
    BY <1>4, <1>10 DEF IdleQueued, IdlePending, Parks, RetireQueued, RetirePending, RetireInflight, Unmark
  <1>11. CASE SdMark(w) \/ SdQueued(w) \/ SdPark(w) \/ KeepAliveElapses(w)
    BY <1>4, <1>11 DEF SdMark, SdQueued, SdPark, Parks, KeepAliveElapses
  <1> QED
    BY <1>6, <1>7, <1>8, <1>9, <1>10, <1>11 DEF WorkerStep

\* A ticket's caller withdraws its job from the queue, or learns that it came too late.
LEMMA CancellerRefines ==
  ASSUME Inv, Inv', NEW c \in Cancellers, CancellerStep(c)
  PROVE  [Service!Next]_Service!vars
  <1> USE Roles
  <1>0. /\ c \in Threads /\ c \in Threads \ Workers /\ c \notin Submitters /\ DOMAIN pc = Threads
        /\ DOMAIN job = Submitters /\ TypeOK /\ Own
    BY DEF Inv, TypeOK, PcOK, DataOK
  <1>1. ASSUME UNCHANGED <<open, lifecycle, live, exiting, job>>, \A u \in Threads \ {c} : pc'[u] = pc[u]
        PROVE  UNCHANGED Service!vars
    <2>1. Inside' = Inside
      BY <1>0, <1>1 DEF Inside
    <2> QED
      BY <1>1, <2>1, Unseen
  <1>2. CASE AskTicket(c) \/ AwaitDecision(c) \/ Settle(c) \/ NotifyUnderLock(c)
    <2>1. UNCHANGED <<open, lifecycle, live, exiting, job>>
      BY <1>2 DEF AskTicket, AwaitDecision, Settle, NotifyUnderLock
    <2>2. \A u \in Threads \ {c} : pc'[u] = pc[u]
      BY <1>0, <1>2 DEF AskTicket, AwaitDecision, Settle, NotifyUnderLock
    <2> QED
      BY <1>1, <2>1, <2>2
  <1>3. CASE CancelCallback(c)
    BY <1>0, <1>3, CancelRefines
  <1>4. CASE Withdraw(c)
    <2>1. UNCHANGED <<open, lifecycle, live, exiting>> /\ \A u \in Threads \ {c} : pc'[u] = pc[u]
      BY <1>0, <1>4 DEF Withdraw
    <2>2. Inside' = Inside
      BY <1>0, <2>1 DEF Inside
    <2>3. CASE job' = job
      BY <1>1, <2>1, <2>3
    <2>4. CASE job' # job
      <3>1. /\ job' = [job EXCEPT ![target[c]] = "cancelling"]
            /\ \E i \in DOMAIN queue : queue[i] = target[c]
        BY <1>4, <2>4 DEF Withdraw
      <3>2. target[c] \in ToSet(queue) /\ ToSet(queue) \subseteq Submitters
        BY <1>0, <3>1 DEF ToSet, TypeOK, DataOK
      <3>3. target[c] \in Submitters /\ job[target[c]] = "queued"
        BY <1>0, <3>2 DEF Own, OneHolder
      <3>4. job'[target[c]] = "cancelling" /\ \A i \in Submitters \ {target[c]} : job'[i] = job[i]
        BY <1>0, <3>1, <3>3
      <3> QED
        BY <2>1, <2>2, <3>3, <3>4, HandMoves
    <2> QED
      BY <2>3, <2>4
  <1> QED
    BY <1>2, <1>3, <1>4 DEF CancellerStep

\* stop withdraws what it drained in one step.
LEMMA DrainRefines ==
  ASSUME Inv, Inv', NEW t \in Stops, Drain(t), Inside' = Inside
  PROVE  [Service!Next]_Service!vars
  <1> USE Roles
  <1>1. UNCHANGED <<lifecycle, open, live, exiting>>
    BY DEF Drain
  <1>2. \A i \in Submitters : job'[i] = IF i \in ToSet(queue) THEN "cancelling" ELSE job[i]
    BY DEF Drain
  <1>3. \A i \in Submitters : i \in ToSet(queue) => job[i] = "queued"
    BY DEF Inv, Own, OneHolder
  <1>4. \A i \in Submitters : \/ Stage(i)' = Stage(i)
                              \/ Stage(i) = "accepted" /\ Stage(i)' = "withdrawn"
    BY <1>2, <1>3 DEF Stage
  <1>5. IsTerminated' <=> IsTerminated
    BY <1>1, <1>2, <1>3 DEF IsTerminated, Terminated, IsIdle, Under
  <1>6. CASE \A i \in Submitters : Stage(i)' = Stage(i)
    BY <1>1, <1>5, <1>6, Stutter
  <1>7. CASE \E i \in Submitters : Stage(i)' # Stage(i)
    <2> DEFINE stg == [i \in Submitters |-> Stage(i)]
               stp == [i \in Submitters |-> Stage(i)']
    <2>1. stp # stg
      BY <1>7
    <2>2. \A i \in Submitters : stp[i] = stg[i] \/ (stg[i] = "accepted" /\ stp[i] = "withdrawn")
      BY <1>4
    <2>3. Service!WithdrawAll
      BY <1>1, <1>5, <2>1, <2>2 DEF Service!WithdrawAll
    <2> QED
      BY <2>3 DEF Service!Next
  <1> QED
    BY <1>6, <1>7

\* Closing the gate, by shutdown, stop or a failed build.
LEMMA CloseRefines ==
  ASSUME Inv, open' = FALSE, UNCHANGED <<lifecycle, live, exiting, job>>, Inside' = Inside
  PROVE  [Service!Next]_Service!vars
  <1>1. IsTerminated' <=> IsTerminated
    BY DEF IsTerminated, Terminated, IsIdle, Under
  <1>2. \A j \in Submitters : Stage(j)' = Stage(j)
    BY DEF Stage
  <1>3. [j \in Submitters |-> Stage(j)'] = [j \in Submitters |-> Stage(j)]
    BY <1>2
  <1>4. CASE open
    BY <1>1, <1>3, <1>4 DEF Service!Next, Service!Close, Inv, TypeOK, DataOK
  <1>5. CASE ~open
    <2>1. open' = open
      BY <1>5 DEF Inv, TypeOK, DataOK
    <2> QED
      BY <1>1, <1>2, <2>1, Stutter
  <1> QED
    BY <1>4, <1>5

\* The callers of shutdown, stop, join, wait_for_termination and the configuration, and the builder.
LEMMA ControllerRefines ==
  ASSUME Inv, Inv', NEW t \in Controllers \cup Builders, ControllerStep(t)
  PROVE  [Service!Next]_Service!vars
  <1> USE Roles
  <1>0. /\ t \in Threads /\ t \in Threads \ Workers /\ t \notin Submitters /\ DOMAIN pc = Threads /\ TypeOK /\ Own
        /\ GateFirst
    BY DEF Inv, TypeOK, PcOK
  <1>1. ControllerMoves(t)
    BY <1>0, ControllerFrame
  <1>2. Inside' = Inside /\ exiting' = exiting
    BY <1>0, <1>1 DEF ControllerMoves, Inside
  <1>3. ASSUME UNCHANGED <<live, job, open, lifecycle>>
        PROVE  UNCHANGED Service!vars
    BY <1>2, <1>3, Unseen
  <1>4. ASSUME UNCHANGED <<job, open, lifecycle>>, lifecycle = "Running"
        PROVE  UNCHANGED Service!vars
    <2>1. \A i \in Submitters : Stage(i)' = Stage(i)
      BY <1>2, <1>4 DEF Stage
    <2> QED
      BY <1>4, <2>1, RunningUnseen
  <1>5. CASE BeginShutdown(t) \/ BeginStop(t)
    <2>1. UNCHANGED <<live, job, open>> /\ pc[t] \in {"shutdown", "stop"}
      BY <1>5 DEF BeginShutdown, BeginStop
    <2>2. ~open
      BY <1>0, <2>1 DEF GateFirst
    <2>3. \A i \in Submitters : Stage(i)' = Stage(i)
      BY <1>2, <2>1 DEF Stage
    <2>4. lifecycle \in {"Running", "ShuttingDown", "Stopping"}
      BY <1>0 DEF TypeOK, DataOK, Lifecycles
    <2>5. \/ lifecycle' = lifecycle
          \/ lifecycle = "Running" /\ lifecycle' \in {"ShuttingDown", "Stopping"}
          \/ lifecycle = "ShuttingDown" /\ lifecycle' = "Stopping"
      BY <1>1, <2>4 DEF ControllerMoves
    <2>6. IsTerminated => IsTerminated'
      BY <1>2, <2>1, <2>5 DEF IsTerminated, Terminated, IsIdle, Under
    <2> QED
      BY <1>0, <2>1, <2>2, <2>3, <2>5, <2>6, PhaseMoves, OverNext
  <1>6. CASE CloseAdmission(t, "announce") \/ CloseAdmission(t, "stopNow")
    <2>1. open' = FALSE /\ UNCHANGED <<lifecycle, live, job>>
      BY <1>6 DEF CloseAdmission
    <2> QED
      BY <1>2, <2>1, CloseRefines
  <1>7. CASE AnnounceShutdown(t) \/ SetStopNow(t) \/ AwaitSubmitters(t) \/ ResumeStop(t) \/ Settle(t) \/ NotifyUnderLock(t)
    BY <1>3, <1>7 DEF AnnounceShutdown, SetStopNow, AwaitSubmitters, ResumeStop, Settle, NotifyUnderLock
  <1>8. CASE t \in Stops /\ Drain(t)
    BY <1>2, <1>8, DrainRefines
  <1>9. CASE CancelCallback(t)
    BY <1>0, <1>9, CancelRefines
  <1>10. CASE JoinStep(t) \/ WaiterStep(t) \/ TimeoutElapses(t)
    BY <1>3, <1>10 DEF JoinStep, BeginJoin, WaiterStep, AwaitTermination, SubscribeTermination, WatchTermination, TimeoutElapses
  <1>11. CASE NotifyTuned(t) \/ AwaitEnd(t)
    BY <1>3, <1>11 DEF NotifyTuned, AwaitEnd
  <1>12. CASE t \in Tuners /\ Tune(t)
    <2>1. UNCHANGED <<job, open, lifecycle>> /\ (live' = live \/ lifecycle = "Running")
      BY <1>0, <1>12, TuneMoves
    <2> QED
      BY <1>3, <1>4, <2>1
  <1>13. CASE t \in Builders /\ PrestartAll(t)
    <2>1. UNCHANGED <<job, open, lifecycle>> /\ pc[t] = "prestart"
      BY <1>0, <1>13, PrestartMoves
    <2>2. lifecycle = "Running"
      BY <1>0, <1>13, <2>1 DEF GateFirst
    <2> QED
      BY <1>4, <2>1, <2>2
  <1> QED
    BY <1>5, <1>6, <1>7, <1>8, <1>9, <1>10, <1>11, <1>12, <1>13 DEF ControllerStep, ShutdownStep, StopStep, TuneStep

\* The initial state.
LEMMA InitRefines == Init => Service!Init
  <1> SUFFICES ASSUME Init
               PROVE  Service!Init
    OBVIOUS
  <1> USE Roles
  <1>1. \A j \in Submitters : pc[j] = "start" /\ job[j] = "none"
    BY DEF Init
  <1>2. \A j \in Submitters : Stage(j) = "none"
    BY <1>1 DEF Stage, Inside
  <1>3. open = TRUE /\ ~IsTerminated /\ lifecycle = "Running"
    BY DEF Init, IsTerminated, Terminated
  <1> QED
    BY <1>2, <1>3 DEF Service!Init

\* Every step of the pool is a step of the service, or unseen by it.
LEMMA StepRefines == Inv /\ Inv' /\ [Next]_vars => [Service!Next]_Service!vars
  <1> SUFFICES ASSUME Inv, Inv', [Next]_vars
               PROVE  [Service!Next]_Service!vars
    OBVIOUS
  <1>1. CASE UNCHANGED vars
    <2>1. UNCHANGED <<open, lifecycle, live, exiting, job>> /\ Inside' = Inside
      BY <1>1 DEF vars, Inside
    <2> QED
      BY <2>1, Unseen
  <1> QED
    BY <1>1, Steps, SubmitterRefines, WorkerRefines, CancellerRefines, ControllerRefines

(***************************************************************************)
(* The dynamic pool implements the executor service, for any number of     *)
(* workers, callers, tickets and jobs: submission, claiming, running,      *)
(* withdrawal by a ticket, draining by stop and cancellation are separate  *)
(* steps of several threads, and its clients see each job admitted while   *)
(* the pool is open, accepted once, then run or cancelled and never both,  *)
(* and a lifecycle that only advances and ends for good with no work left. *)
(***************************************************************************)
THEOREM DynamicPoolImplementsService == Spec => ImplementsService
  BY InitRefines, StepRefines, InvHolds, PTL DEF Spec, ImplementsService, Service!Spec
=============================================================================
