--------------------------- MODULE PoolAccounting ---------------------------
(***************************************************************************)
(* The task accounting shared by both pools, src/internal/                 *)
(* pool_accounting.rs, at the granularity of its atomic operations: every  *)
(* read-modify-write is a step, and is_idle is four separate loads.  The   *)
(* admission gate appears as its specification (AdmissionGateSpec).        *)
(*                                                                         *)
(* Each job is one submission.  Until it is published its submitter moves  *)
(* it; afterwards the submitter only leaves, while a worker claims the job *)
(* or a canceller withdraws it.                                            *)
(***************************************************************************)
EXTENDS Integers, FiniteSets

CONSTANTS Jobs,          \* submissions, one job each
          Observers,     \* threads that evaluate is_idle
          Bounded,       \* whether queue_capacity is Some(Capacity)
          Capacity       \* the limit when there is one

ASSUME AccountingAssumption == /\ IsFiniteSet(Jobs)
                               /\ Bounded \in BOOLEAN
                               /\ Capacity \in Nat

VARIABLES open,          \* the admission gate accepts new entrants
          count,         \* the atomic counters, by name
          sub,           \* per job: where its submitter is
          job,           \* per job: where the published job is
          handoff,       \* jobs whose slot was reserved regardless of the capacity
          obs,           \* per observer: the load of is_idle it does next, or its result
          before,        \* history: per observer, the submissions that had entered at its first load
          sealed         \* history: per observer, whether admission was closed at its first load

accounting == <<open, count, sub, job, handoff>>
observation == <<obs, before, sealed>>
vars == <<open, count, sub, job, handoff, obs, before, sealed>>

Counters == {"inflight", "slots", "queued", "running", "cancelling",
             "submitted", "completed", "cancelled"}

SubStages == {"idle", "refused", "admitted", "reserved", "submitted", "leaving", "left"}

JobStages == {"none", "queued",
              "claimed", "owned", "running", "finishing", "completed",
              "withdrawn", "cancelling", "reported", "released", "cancelled"}

ObsStages == {"inflight", "slots", "running", "cancelling", "busy", "idle"}

Init == /\ open = TRUE
        /\ count = [c \in Counters |-> 0]
        /\ sub = [j \in Jobs |-> "idle"]
        /\ job = [j \in Jobs |-> "none"]
        /\ handoff = {}
        /\ obs = [o \in Observers |-> "inflight"]
        /\ before = [o \in Observers |-> {}]
        /\ sealed = [o \in Observers |-> FALSE]

-----------------------------------------------------------------------------
\* One fetch_add or fetch_sub, taken by a submitter or by a job's owner.

Add(c, d) == count' = [count EXCEPT ![c] = @ + d]

SubStep(j, from, to, c, d) == /\ sub[j] = from
                              /\ sub' = [sub EXCEPT ![j] = to]
                              /\ Add(c, d)
                              /\ UNCHANGED <<open, job, observation>>

JobStep(j, from, to, c, d) == /\ job[j] = from
                              /\ job' = [job EXCEPT ![j] = to]
                              /\ Add(c, d)
                              /\ UNCHANGED <<open, sub, handoff, observation>>

SubMoves(j, from, to) == /\ sub[j] = from
                         /\ sub' = [sub EXCEPT ![j] = to]
                         /\ UNCHANGED <<open, count, job, handoff, observation>>

HasRoom == Bounded => count["slots"] < Capacity

-----------------------------------------------------------------------------
\* The submitter.

TryEnter(j) == open /\ SubStep(j, "idle", "admitted", "inflight", 1) /\ UNCHANGED handoff

Refused(j) == ~open /\ SubMoves(j, "idle", "refused")

CloseAdmission == open' = FALSE /\ UNCHANGED <<count, sub, job, handoff, observation>>

\* Seeded fault: the limit is tested with <= instead of <.
ReservePastLimit(j) == /\ Bounded => count["slots"] <= Capacity
                       /\ SubStep(j, "admitted", "reserved", "slots", 1)
                       /\ UNCHANGED handoff

TryReserveBoundedSlot(j) == /\ HasRoom
                            /\ SubStep(j, "admitted", "reserved", "slots", 1)
                            /\ UNCHANGED handoff

ReserveWorkerHandoffSlot(j) == /\ SubStep(j, "admitted", "reserved", "slots", 1)
                               /\ handoff' = handoff \cup {j}

\* No slot and no worker, or a lifecycle that no longer accepts.
Reject(j) == SubMoves(j, "admitted", "leaving")

\* Seeded fault: a panicking acceptance callback keeps its reservation.
LeakReservation(j) == SubMoves(j, "reserved", "leaving")

\* Acceptance panicked.
RollbackReservedSlot(j) == /\ SubStep(j, "reserved", "leaving", "slots", -1)
                           /\ UNCHANGED handoff

\* The second increment makes the job claimable.
PublishAcceptedJob(j) ==
    \/ SubStep(j, "reserved", "submitted", "submitted", 1) /\ UNCHANGED handoff
    \/ /\ sub[j] = "submitted"
       /\ sub' = [sub EXCEPT ![j] = "leaving"]
       /\ job' = [job EXCEPT ![j] = "queued"]
       /\ Add("queued", 1)
       /\ UNCHANGED <<open, handoff, observation>>

Leave(j) == SubStep(j, "leaving", "left", "inflight", -1) /\ UNCHANGED handoff

-----------------------------------------------------------------------------
\* The owner of a published job.

\* Seeded fault: the reservation is released before running is published.
ReleaseBeforeRunning(j) == \/ JobStep(j, "queued", "claimed", "queued", -1)
                           \/ JobStep(j, "claimed", "owned", "slots", -1)
                           \/ JobStep(j, "owned", "running", "running", 1)

ClaimQueuedJob(j) == \/ JobStep(j, "queued", "claimed", "queued", -1)
                     \/ JobStep(j, "claimed", "owned", "running", 1)
                     \/ JobStep(j, "owned", "running", "slots", -1)

FinishRunningJob(j) == \/ JobStep(j, "running", "finishing", "completed", 1)
                       \/ JobStep(j, "finishing", "completed", "running", -1)

BeginCancelQueuedJob(j) == \/ JobStep(j, "queued", "withdrawn", "queued", -1)
                           \/ JobStep(j, "withdrawn", "cancelling", "cancelling", 1)

FinishCancelledJob(j) == \/ JobStep(j, "cancelling", "reported", "cancelled", 1)
                         \/ JobStep(j, "reported", "released", "cancelling", -1)
                         \/ JobStep(j, "released", "cancelled", "slots", -1)

-----------------------------------------------------------------------------
\* is_idle: four loads in order, stopping at the first one that is not zero.

Entered == {j \in Jobs : sub[j] \notin {"idle", "refused"}}

\* Seeded fault: running jobs are read before the reservations.
RunningBeforeSlots(c) == [inflight |-> "running", running |-> "slots",
                          slots |-> "cancelling", cancelling |-> "idle"][c]

NextLoad(c) == [inflight |-> "slots", slots |-> "running",
                running |-> "cancelling", cancelling |-> "idle"][c]

FirstLoad == "inflight"

BeginObservation(o) == /\ obs[o] \in {"busy", "idle"}
                       /\ obs' = [obs EXCEPT ![o] = FirstLoad]
                       /\ before' = [before EXCEPT ![o] = {}]
                       /\ sealed' = [sealed EXCEPT ![o] = FALSE]
                       /\ UNCHANGED accounting

ObserveLoad(o) ==
    /\ obs[o] \notin {"busy", "idle"}
    /\ obs' = [obs EXCEPT ![o] = IF count[obs[o]] = 0 THEN NextLoad(obs[o]) ELSE "busy"]
    /\ before' = [before EXCEPT ![o] = IF obs[o] = FirstLoad THEN Entered ELSE @]
    /\ sealed' = [sealed EXCEPT ![o] = IF obs[o] = FirstLoad THEN ~open ELSE @]
    /\ UNCHANGED accounting

-----------------------------------------------------------------------------

Next == \/ CloseAdmission
        \/ \E j \in Jobs :
              \/ TryEnter(j) \/ Refused(j)
              \/ TryReserveBoundedSlot(j) \/ ReserveWorkerHandoffSlot(j) \/ Reject(j)
              \/ RollbackReservedSlot(j) \/ PublishAcceptedJob(j) \/ Leave(j)
              \/ ClaimQueuedJob(j) \/ FinishRunningJob(j)
              \/ BeginCancelQueuedJob(j) \/ FinishCancelledJob(j)
        \/ \E o \in Observers : BeginObservation(o) \/ ObserveLoad(o)

Spec == Init /\ [][Next]_vars

-----------------------------------------------------------------------------

(***************************************************************************)
(* Types.  Counters are natural numbers: none of the underflow assertions  *)
(* (slots, queued, running, cancelling, admission) can fire.               *)
(***************************************************************************)
TypeOK == /\ open \in BOOLEAN
          /\ count \in [Counters -> Nat]
          /\ sub \in [Jobs -> SubStages]
          /\ job \in [Jobs -> JobStages]
          /\ handoff \subseteq Jobs
          /\ obs \in [Observers -> ObsStages]
          /\ before \in [Observers -> SUBSET Jobs]
          /\ sealed \in [Observers -> BOOLEAN]

\* Whether counter c counts a submission whose submitter is at s and whose job is at b.
Counts(c, s, b) ==
    \/ c = "inflight"   /\ s \in {"admitted", "reserved", "submitted", "leaving"}
    \/ c = "slots"      /\ \/ s \in {"reserved", "submitted"}
                           \/ b \in {"queued", "claimed", "owned", "withdrawn",
                                     "cancelling", "reported", "released"}
    \/ c = "queued"     /\ b = "queued"
    \/ c = "running"    /\ b \in {"owned", "running", "finishing"}
    \/ c = "cancelling" /\ b \in {"cancelling", "reported"}
    \/ c = "submitted"  /\ (s = "submitted" \/ b # "none")
    \/ c = "completed"  /\ b \in {"finishing", "completed"}
    \/ c = "cancelled"  /\ b \in {"reported", "released", "cancelled"}

Holders(c) == {j \in Jobs : Counts(c, sub[j], job[j])}

(***************************************************************************)
(* Every counter equals the number of jobs it stands for, at every point   *)
(* between two atomic operations.                                          *)
(***************************************************************************)
Ledger == \A c \in Counters : count[c] = Cardinality(Holders(c))

\* The submission is over: its submitter left and its job, if any, finished.
Settled(j) == /\ sub[j] = "left"
              /\ job[j] \in {"none", "completed", "cancelled"}

(***************************************************************************)
(* is_idle is sound although it is four loads: when it returns true, every *)
(* submission that had entered before its first load is settled.  join     *)
(* relies on it.  It needs running to be published before the reservation  *)
(* is released, and the loads in the order of the code.                    *)
(***************************************************************************)
IdleObservationSound ==
    \A o \in Observers : obs[o] = "idle" => \A j \in before[o] : Settled(j)

(***************************************************************************)
(* With admission already closed is_idle is exact: when it returns true no *)
(* submission is unsettled, so is_terminated_locked cannot be mistaken.    *)
(***************************************************************************)
SealedObservationExact ==
    \A o \in Observers :
       obs[o] = "idle" /\ sealed[o] => \A j \in Entered : Settled(j)

(***************************************************************************)
(* Worker handoffs may exceed the queue capacity; other reservations never *)
(* do, however submitters interleave.                                      *)
(***************************************************************************)
CapacityRespected ==
    Bounded => Cardinality(Holders("slots") \ handoff) <= Capacity
=============================================================================
