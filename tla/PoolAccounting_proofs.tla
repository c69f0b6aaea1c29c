----------------------- MODULE PoolAccounting_proofs -----------------------
(***************************************************************************)
(* The accounting for any number of submissions and observers.             *)
(***************************************************************************)
EXTENDS PoolAccounting, FiniteSetTheorems, TLAPS

\* A job or its submitter counts one under a counter, or nothing.
Weight(c, s, b) == IF Counts(c, s, b) THEN 1 ELSE 0

\* Two sets that differ in one element at most differ by its weight.
LEMMA CardinalityStep ==
  ASSUME NEW A, NEW B, NEW j, IsFiniteSet(A), A \ {j} = B \ {j}
  PROVE  /\ IsFiniteSet(B)
         /\ Cardinality(B) = Cardinality(A) + (IF j \in B THEN 1 ELSE 0)
                                            - (IF j \in A THEN 1 ELSE 0)
  <1> DEFINE R == A \ {j}
  <1>1. IsFiniteSet(R) /\ Cardinality(R) = IF j \in A THEN Cardinality(A) - 1 ELSE Cardinality(A)
    BY FS_RemoveElement
  <1>2. Cardinality(A) \in Nat /\ Cardinality(R) \in Nat
    BY <1>1, FS_CardinalityType
  <1>3. CASE j \in B
    <2>1. B = R \cup {j} /\ j \notin R
      BY <1>3
    <2>2. IsFiniteSet(B) /\ Cardinality(B) = Cardinality(R) + 1
      BY <1>1, <2>1, FS_AddElement
    <2> QED
      BY <1>1, <1>2, <1>3, <2>2
  <1>4. CASE j \notin B
    <2>1. B = R
      BY <1>4
    <2> QED
      BY <1>1, <1>2, <1>4, <2>1
  <1> QED
    BY <1>3, <1>4

\* The holders of a counter are finitely many.
LEMMA HoldersFinite ==
  ASSUME NEW c
  PROVE  IsFiniteSet(Holders(c)) /\ Cardinality(Holders(c)) \in Nat
  <1>1. Holders(c) \subseteq Jobs
    BY DEF Holders
  <1>2. IsFiniteSet(Holders(c))
    BY <1>1, FS_Subset, AccountingAssumption
  <1> QED
    BY <1>2, FS_CardinalityType

-----------------------------------------------------------------------------
(***************************************************************************)
(* The inductive invariant.  A job exists only after its submitter has     *)
(* published it; an observer's progress through the four loads bounds the  *)
(* stages of the submissions that entered before it began.                 *)
(***************************************************************************)
Unpublished == {"idle", "refused", "admitted", "reserved", "submitted"}
Shape == \A j \in Jobs : sub[j] \in Unpublished => job[j] = "none"

PastSlots == {"none", "running", "finishing", "completed", "cancelled"}
Finished == {"none", "completed", "cancelled"}

ObsInv ==
  \A o \in Observers :
    /\ obs[o] \in {"slots", "running", "cancelling", "idle"} => \A j \in before[o] : sub[j] = "left"
    /\ obs[o] \in {"running", "cancelling", "idle"} => \A j \in before[o] : job[j] \in PastSlots
    /\ obs[o] \in {"cancelling", "idle"} => \A j \in before[o] : job[j] \in Finished
    /\ sealed[o] => ~open /\ Entered \subseteq before[o]

AccInv == TypeOK /\ Ledger /\ Shape /\ ObsInv /\ CapacityRespected

(***************************************************************************)
(* One atomic operation on counter c that moves one submission keeps the   *)
(* ledger when its increment is the change of that submission's weight     *)
(* under c, and no other counter's weight changes.                         *)
(***************************************************************************)
LEMMA MoveKeepsLedger ==
  ASSUME TypeOK, Ledger,
         NEW j \in Jobs, NEW c \in Counters, NEW d \in Int,
         Add(c, d),
         \A i \in Jobs : i # j => sub'[i] = sub[i] /\ job'[i] = job[i],
         \A k \in Counters : Weight(k, sub'[j], job'[j]) - Weight(k, sub[j], job[j])
                               = IF k = c THEN d ELSE 0
  PROVE  Ledger' /\ count' \in [Counters -> Nat]
  <1>1. ASSUME NEW k \in Counters PROVE count'[k] = Cardinality(Holders(k)') /\ count'[k] \in Nat
    <2>1. count'[k] = count[k] + (IF k = c THEN d ELSE 0) /\ count[k] \in Nat
      BY DEF Add, TypeOK
    <2>2. Holders(k) \ {j} = Holders(k)' \ {j}
      BY DEF Holders
    <2>3. IsFiniteSet(Holders(k))
      BY HoldersFinite
    <2>4. /\ Cardinality(Holders(k)') = Cardinality(Holders(k)) + (IF j \in Holders(k)' THEN 1 ELSE 0)
                                                                - (IF j \in Holders(k) THEN 1 ELSE 0)
          /\ IsFiniteSet(Holders(k)')
      BY <2>2, <2>3, CardinalityStep
    <2>5. /\ (IF j \in Holders(k)' THEN 1 ELSE 0) = Weight(k, sub'[j], job'[j])
          /\ (IF j \in Holders(k) THEN 1 ELSE 0) = Weight(k, sub[j], job[j])
      BY DEF Holders, Weight
    <2>6. count[k] = Cardinality(Holders(k))
      BY DEF Ledger
    <2>7. Weight(k, sub'[j], job'[j]) \in Int /\ Weight(k, sub[j], job[j]) \in Int
      BY DEF Weight
    <2>8. Weight(k, sub'[j], job'[j]) - Weight(k, sub[j], job[j]) = IF k = c THEN d ELSE 0
      OBVIOUS
    <2>9. Cardinality(Holders(k)') \in Nat
      BY <2>4, FS_CardinalityType
    <2> QED
      BY <2>1, <2>4, <2>5, <2>6, <2>7, <2>8, <2>9
  <1>2. count' \in [Counters -> Nat]
    <2>1. DOMAIN count' = Counters /\ count' = [k \in Counters |-> count'[k]]
      BY DEF Add, TypeOK
    <2> QED
      BY <1>1, <2>1
  <1> QED
    BY <1>1, <1>2 DEF Ledger

-----------------------------------------------------------------------------
\* The capacity bound survives any step that adds no bounded reservation.
LEMMA CapacityShrinks ==
  ASSUME CapacityRespected, (Holders("slots") \ handoff)' \subseteq Holders("slots") \ handoff
  PROVE  CapacityRespected'
  <1> DEFINE A == Holders("slots") \ handoff
  <1> DEFINE B == (Holders("slots") \ handoff)'
  <1>1. IsFiniteSet(A)
    <2>1. A \subseteq Holders("slots")
      OBVIOUS
    <2> QED
      BY <2>1, HoldersFinite, FS_Subset
  <1>2. B \in SUBSET A
    OBVIOUS
  <1>3. Cardinality(B) <= Cardinality(A) /\ IsFiniteSet(B)
    BY <1>1, <1>2, FS_Subset
  <1>4. Cardinality(A) \in Nat /\ Cardinality(B) \in Nat
    BY <1>1, <1>3, FS_CardinalityType
  <1>5. Bounded => Cardinality(A) <= Capacity
    BY DEF CapacityRespected
  <1>6. Bounded => Cardinality(B) <= Capacity
    BY <1>3, <1>4, <1>5, AccountingAssumption
  <1> QED
    BY <1>6 DEF CapacityRespected

\* A step of a submitter that is still inside, or about to enter, disturbs no observation.
LEMMA SubmitterKeepsObs ==
  ASSUME AccInv, NEW j \in Jobs, NEW s \in SubStages,
         sub[j] # "left", sub' = [sub EXCEPT ![j] = s],
         \A i \in Jobs : i # j => job'[i] = job[i],
         UNCHANGED <<open, observation>>,
         ~open /\ s \notin {"idle", "refused"} => sub[j] \notin {"idle", "refused"}
  PROVE  ObsInv'
  <1> USE DEF AccInv
  <1> SUFFICES ASSUME NEW o \in Observers
               PROVE  /\ obs[o] \in {"slots", "running", "cancelling", "idle"} => \A i \in before[o] : sub'[i] = "left"
                      /\ obs[o] \in {"running", "cancelling", "idle"} => \A i \in before[o] : job'[i] \in PastSlots
                      /\ obs[o] \in {"cancelling", "idle"} => \A i \in before[o] : job'[i] \in Finished
                      /\ sealed[o] => ~open /\ Entered' \subseteq before[o]
    BY DEF ObsInv, observation
  <1>1. before[o] \subseteq Jobs
    BY DEF TypeOK
  <1>2. obs[o] \in {"slots", "running", "cancelling", "idle"} => j \notin before[o]
    BY DEF ObsInv
  <1>3. obs[o] \in {"slots", "running", "cancelling", "idle"} => \A i \in before[o] : sub'[i] = "left"
    BY <1>1, <1>2 DEF ObsInv, TypeOK
  <1>4. obs[o] \in {"running", "cancelling", "idle"} => \A i \in before[o] : job'[i] \in PastSlots
    BY <1>1, <1>2 DEF ObsInv
  <1>5. obs[o] \in {"cancelling", "idle"} => \A i \in before[o] : job'[i] \in Finished
    BY <1>1, <1>2 DEF ObsInv
  <1>6. ~open => Entered' \subseteq Entered
    BY DEF Entered, TypeOK
  <1>7. sealed[o] => ~open /\ Entered' \subseteq before[o]
    BY <1>6 DEF ObsInv
  <1> QED
    BY <1>3, <1>4, <1>5, <1>7

\* The typed part of the state after a submitter's operation on a counter.
LEMMA SubStepKeeps ==
  ASSUME AccInv, NEW j \in Jobs, NEW from \in Unpublished \cup {"leaving"}, NEW to \in SubStages,
         NEW c \in Counters, NEW d \in Int,
         SubStep(j, from, to, c, d), handoff' \subseteq Jobs,
         to \in Unpublished \/ from = "leaving" \/ job[j] = "none",
         ~open /\ to \notin {"idle", "refused"} => from \notin {"idle", "refused"},
         \A b \in JobStages : (from \in Unpublished => b = "none") =>
            \A k \in Counters : Weight(k, to, b) - Weight(k, from, b) = IF k = c THEN d ELSE 0,
         to \in Unpublished => from \in Unpublished
  PROVE  TypeOK' /\ Ledger' /\ Shape' /\ ObsInv'
  <1> USE DEF AccInv
  <1>1. sub'[j] = to /\ job' = job /\ sub[j] = from /\ job[j] \in JobStages
    BY DEF SubStep, TypeOK
  <1>2. from \in Unpublished => job[j] = "none"
    BY <1>1 DEF Shape
  <1>3. \A k \in Counters : Weight(k, sub'[j], job'[j]) - Weight(k, sub[j], job[j]) = IF k = c THEN d ELSE 0
    BY <1>1, <1>2
  <1>4. \A i \in Jobs : i # j => sub'[i] = sub[i] /\ job'[i] = job[i]
    BY <1>1 DEF SubStep, TypeOK
  <1>5. Add(c, d)
    BY DEF SubStep
  <1>6. Ledger' /\ count' \in [Counters -> Nat]
    BY <1>3, <1>4, <1>5, MoveKeepsLedger
  <1>7. TypeOK'
    BY <1>6 DEF SubStep, TypeOK, observation
  <1>8. Shape'
    BY <1>1, <1>2, <1>4 DEF Shape
  <1>9. ObsInv'
    <2>1. sub[j] # "left"
      BY <1>1 DEF Unpublished
    <2>2. UNCHANGED <<open, observation>> /\ sub' = [sub EXCEPT ![j] = to]
      BY DEF SubStep
    <2>3. ~open /\ to \notin {"idle", "refused"} => sub[j] \notin {"idle", "refused"}
      BY <1>1
    <2> QED
      BY <1>4, <2>1, <2>2, <2>3, SubmitterKeepsObs
  <1> QED
    BY <1>6, <1>7, <1>8, <1>9

\* A step of a job's owner: it needs the weights of published jobs only.
LEMMA JobStepKeeps ==
  ASSUME AccInv, NEW j \in Jobs, NEW from \in JobStages, NEW to \in JobStages,
         NEW c \in Counters, NEW d \in Int,
         JobStep(j, from, to, c, d), from # "none",
         from \in PastSlots => to \in PastSlots,
         from \in Finished => to \in Finished,
         \A s \in {"leaving", "left"} :
            /\ \A k \in Counters : Weight(k, s, to) - Weight(k, s, from) = IF k = c THEN d ELSE 0
            /\ Counts("slots", s, to) => Counts("slots", s, from)
  PROVE  AccInv'
  <1> USE DEF AccInv
  <1>1. job'[j] = to /\ job[j] = from /\ sub' = sub /\ handoff' = handoff
    BY DEF JobStep, TypeOK
  <1>2. sub[j] \in {"leaving", "left"}
    BY <1>1 DEF Shape, Unpublished, TypeOK, SubStages
  <1>3. \A k \in Counters : Weight(k, sub'[j], job'[j]) - Weight(k, sub[j], job[j]) = IF k = c THEN d ELSE 0
    BY <1>1, <1>2
  <1>4. \A i \in Jobs : i # j => sub'[i] = sub[i] /\ job'[i] = job[i]
    BY <1>1 DEF JobStep, TypeOK
  <1>5. Add(c, d)
    BY DEF JobStep
  <1>6. Ledger' /\ count' \in [Counters -> Nat]
    BY <1>3, <1>4, <1>5, MoveKeepsLedger
  <1>7. TypeOK'
    BY <1>6 DEF JobStep, TypeOK, observation
  <1>8. Shape'
    BY <1>1, <1>2, <1>4 DEF Shape, Unpublished
  <1>9. ObsInv'
    <2>1. UNCHANGED <<open, observation>>
      BY DEF JobStep
    <2>2. Entered' = Entered
      BY <1>1 DEF Entered
    <2>3. ASSUME NEW o \in Observers, NEW i \in before[o]
          PROVE  /\ job[i] \in PastSlots => job'[i] \in PastSlots
                 /\ job[i] \in Finished => job'[i] \in Finished
      <3>1. i \in Jobs
        BY DEF TypeOK
      <3> QED
        BY <1>1, <1>4, <3>1
    <2> QED
      BY <1>1, <2>1, <2>2, <2>3 DEF ObsInv, observation
  <1>10. CapacityRespected'
    <2>1. Counts("slots", sub'[j], job'[j]) => Counts("slots", sub[j], job[j])
      BY <1>1, <1>2
    <2>2. (Holders("slots") \ handoff)' \subseteq Holders("slots") \ handoff
      BY <1>1, <1>4, <2>1 DEF Holders
    <2> QED
      BY <2>2, CapacityShrinks
  <1> QED
    BY <1>6, <1>7, <1>8, <1>9, <1>10

-----------------------------------------------------------------------------
(***************************************************************************)
(* Each action keeps the invariant.                                        *)
(***************************************************************************)

\* Claiming, finishing and cancelling.
LEMMA OwnerKeeps ==
  ASSUME AccInv, NEW j \in Jobs,
         \/ ClaimQueuedJob(j) \/ FinishRunningJob(j)
         \/ BeginCancelQueuedJob(j) \/ FinishCancelledJob(j)
  PROVE  AccInv'
  <1> USE DEF Weight, Counts, Counters, JobStages, PastSlots, Finished
  <1>1. CASE JobStep(j, "queued", "claimed", "queued", -1)
    BY <1>1, JobStepKeeps
  <1>2. CASE JobStep(j, "claimed", "owned", "running", 1)
    BY <1>2, JobStepKeeps
  <1>3. CASE JobStep(j, "owned", "running", "slots", -1)
    BY <1>3, JobStepKeeps
  <1>4. CASE JobStep(j, "running", "finishing", "completed", 1)
    BY <1>4, JobStepKeeps
  <1>5. CASE JobStep(j, "finishing", "completed", "running", -1)
    BY <1>5, JobStepKeeps
  <1>6. CASE JobStep(j, "queued", "withdrawn", "queued", -1)
    BY <1>6, JobStepKeeps
  <1>7. CASE JobStep(j, "withdrawn", "cancelling", "cancelling", 1)
    BY <1>7, JobStepKeeps
  <1>8. CASE JobStep(j, "cancelling", "reported", "cancelled", 1)
    BY <1>8, JobStepKeeps
  <1>9. CASE JobStep(j, "reported", "released", "cancelling", -1)
    BY <1>9, JobStepKeeps
  <1>10. CASE JobStep(j, "released", "cancelled", "slots", -1)
    BY <1>10, JobStepKeeps
  <1> QED
    BY <1>1, <1>2, <1>3, <1>4, <1>5, <1>6, <1>7, <1>8, <1>9, <1>10
    DEF ClaimQueuedJob, FinishRunningJob, BeginCancelQueuedJob, FinishCancelledJob

\* A submitter's operation that reserves nothing bounded.
LEMMA UnreservingKeeps ==
  ASSUME AccInv, NEW j \in Jobs,
         \/ TryEnter(j) \/ ReserveWorkerHandoffSlot(j) \/ RollbackReservedSlot(j) \/ Leave(j)
         \/ SubStep(j, "reserved", "submitted", "submitted", 1) /\ UNCHANGED handoff
  PROVE  AccInv'
  <1>1. CASE TryEnter(j)
    <2>1. open /\ SubStep(j, "idle", "admitted", "inflight", 1) /\ handoff' = handoff
      BY <1>1 DEF TryEnter
    <2>2. TypeOK' /\ Ledger' /\ Shape' /\ ObsInv'
      BY <2>1, SubStepKeeps DEF Weight, Counts, Counters, JobStages, SubStages, Unpublished, AccInv, TypeOK
    <2>3. (Holders("slots") \ handoff)' \subseteq Holders("slots") \ handoff
      BY <2>1 DEF Holders, Counts, SubStep, AccInv, TypeOK
    <2> QED
      BY <2>2, <2>3, CapacityShrinks DEF AccInv
  <1>2. CASE ReserveWorkerHandoffSlot(j)
    <2>1. SubStep(j, "admitted", "reserved", "slots", 1) /\ handoff' = handoff \cup {j}
      BY <1>2 DEF ReserveWorkerHandoffSlot
    <2>2. TypeOK' /\ Ledger' /\ Shape' /\ ObsInv'
      BY <2>1, SubStepKeeps DEF Weight, Counts, Counters, JobStages, SubStages, Unpublished, AccInv, TypeOK
    <2>3. (Holders("slots") \ handoff)' \subseteq Holders("slots") \ handoff
      BY <2>1 DEF Holders, Counts, SubStep, AccInv, TypeOK
    <2> QED
      BY <2>2, <2>3, CapacityShrinks DEF AccInv
  <1>3. CASE RollbackReservedSlot(j)
    <2>1. SubStep(j, "reserved", "leaving", "slots", -1) /\ handoff' = handoff
      BY <1>3 DEF RollbackReservedSlot
    <2>2. job[j] = "none"
      BY <2>1 DEF SubStep, AccInv, Shape, Unpublished
    <2>3. TypeOK' /\ Ledger' /\ Shape' /\ ObsInv'
      BY <2>1, <2>2, SubStepKeeps DEF Weight, Counts, Counters, JobStages, SubStages, Unpublished, AccInv, TypeOK
    <2>4. (Holders("slots") \ handoff)' \subseteq Holders("slots") \ handoff
      BY <2>1 DEF Holders, Counts, SubStep, AccInv, TypeOK
    <2> QED
      BY <2>3, <2>4, CapacityShrinks DEF AccInv
  <1>4. CASE Leave(j)
    <2>1. SubStep(j, "leaving", "left", "inflight", -1) /\ handoff' = handoff
      BY <1>4 DEF Leave
    <2>2. TypeOK' /\ Ledger' /\ Shape' /\ ObsInv'
      BY <2>1, SubStepKeeps DEF Weight, Counts, Counters, JobStages, SubStages, Unpublished, AccInv, TypeOK
    <2>3. (Holders("slots") \ handoff)' \subseteq Holders("slots") \ handoff
      BY <2>1 DEF Holders, Counts, SubStep, AccInv, TypeOK
    <2> QED
      BY <2>2, <2>3, CapacityShrinks DEF AccInv
  <1>5. CASE SubStep(j, "reserved", "submitted", "submitted", 1) /\ UNCHANGED handoff
    <2>1. SubStep(j, "reserved", "submitted", "submitted", 1) /\ handoff' = handoff
      BY <1>5
    <2>2. TypeOK' /\ Ledger' /\ Shape' /\ ObsInv'
      BY <2>1, SubStepKeeps DEF Weight, Counts, Counters, JobStages, SubStages, Unpublished, AccInv, TypeOK
    <2>3. (Holders("slots") \ handoff)' \subseteq Holders("slots") \ handoff
      BY <2>1 DEF Holders, Counts, SubStep, AccInv, TypeOK
    <2> QED
      BY <2>2, <2>3, CapacityShrinks DEF AccInv
  <1> QED
    BY <1>1, <1>2, <1>3, <1>4, <1>5

\* The compare-and-swap that reserves a bounded slot found room for it.
LEMMA TryReserveKeeps ==
  ASSUME AccInv, NEW j \in Jobs, TryReserveBoundedSlot(j)
  PROVE  AccInv'
  <1>1. HasRoom /\ SubStep(j, "admitted", "reserved", "slots", 1) /\ handoff' = handoff
    BY DEF TryReserveBoundedSlot
  <1>2. TypeOK' /\ Ledger' /\ Shape' /\ ObsInv'
    BY <1>1, SubStepKeeps DEF Weight, Counts, Counters, JobStages, SubStages, Unpublished, AccInv, TypeOK
  <1>3. ASSUME Bounded PROVE Cardinality((Holders("slots") \ handoff)') <= Capacity
    <2> DEFINE B == (Holders("slots") \ handoff)'
    <2>1. count["slots"] < Capacity /\ count["slots"] = Cardinality(Holders("slots"))
      BY <1>1, <1>3 DEF HasRoom, AccInv, Ledger, Counters
    <2>2. count'["slots"] = count["slots"] + 1 /\ count["slots"] \in Nat
      BY <1>1 DEF SubStep, Add, AccInv, TypeOK, Counters
    <2>3. count'["slots"] = Cardinality(Holders("slots")')
      BY <1>2 DEF Ledger, Counters
    <2>4. IsFiniteSet(Holders("slots")')
      <3>1. Holders("slots")' \subseteq Jobs
        BY DEF Holders
      <3> QED
        BY <3>1, FS_Subset, AccountingAssumption
    <2>5. B \in SUBSET (Holders("slots")')
      OBVIOUS
    <2>6. Cardinality(B) <= Cardinality(Holders("slots")') /\ IsFiniteSet(B)
      BY <2>4, <2>5, FS_Subset
    <2>7. Cardinality(B) \in Nat /\ Cardinality(Holders("slots")') \in Nat
      BY <2>4, <2>6, FS_CardinalityType
    <2>8. Cardinality(B) <= Capacity
      BY <2>1, <2>2, <2>3, <2>6, <2>7, AccountingAssumption
    <2> QED
      BY <2>8
  <1> QED
    BY <1>2, <1>3 DEF AccInv, CapacityRespected

\* The increment of queued turns a reservation into a queued job.
LEMMA PublishKeeps ==
  ASSUME AccInv, NEW j \in Jobs, PublishAcceptedJob(j)
  PROVE  AccInv'
  <1>1. CASE SubStep(j, "reserved", "submitted", "submitted", 1) /\ UNCHANGED handoff
    BY <1>1, UnreservingKeeps
  <1>2. CASE /\ sub[j] = "submitted"
             /\ sub' = [sub EXCEPT ![j] = "leaving"]
             /\ job' = [job EXCEPT ![j] = "queued"]
             /\ Add("queued", 1)
             /\ UNCHANGED <<open, handoff, observation>>
    <2>1. /\ sub'[j] = "leaving" /\ job'[j] = "queued" /\ job[j] = "none"
          /\ \A i \in Jobs : i # j => sub'[i] = sub[i] /\ job'[i] = job[i]
      BY <1>2 DEF AccInv, TypeOK, Shape, Unpublished
    <2>2. \A k \in Counters : Weight(k, sub'[j], job'[j]) - Weight(k, sub[j], job[j])
                                 = IF k = "queued" THEN 1 ELSE 0
      BY <1>2, <2>1 DEF Weight, Counts, Counters
    <2>3. Ledger' /\ count' \in [Counters -> Nat]
      <3>1. "queued" \in Counters /\ 1 \in Int /\ Add("queued", 1) /\ TypeOK /\ Ledger
        BY <1>2 DEF Counters, AccInv
      <3> QED
        BY <2>1, <2>2, <3>1, MoveKeepsLedger
    <2>4. TypeOK'
      BY <1>2, <2>3 DEF AccInv, TypeOK, observation, SubStages, JobStages
    <2>5. Shape'
      BY <1>2, <2>1 DEF AccInv, Shape, Unpublished
    <2>6. ObsInv'
      <3>1. "leaving" \in SubStages /\ sub[j] # "left" /\ sub[j] \notin {"idle", "refused"}
        BY <1>2 DEF SubStages
      <3> QED
        BY <1>2, <2>1, <3>1, SubmitterKeepsObs
    <2>7. (Holders("slots") \ handoff)' \subseteq Holders("slots") \ handoff
      <3>1. j \in Holders("slots") /\ handoff' = handoff
        BY <1>2 DEF Holders, Counts
      <3> QED
        BY <2>1, <3>1 DEF Holders
    <2> QED
      BY <2>3, <2>4, <2>5, <2>6, <2>7, CapacityShrinks DEF AccInv
  <1> QED
    BY <1>1, <1>2 DEF PublishAcceptedJob

\* A submission refused by the gate, or rejected inside it, moves no counter.
LEMMA SubMovesKeeps ==
  ASSUME AccInv, NEW j \in Jobs, Refused(j) \/ Reject(j)
  PROVE  AccInv'
  <1>1. /\ \/ sub[j] = "idle" /\ sub' = [sub EXCEPT ![j] = "refused"]
           \/ sub[j] = "admitted" /\ sub' = [sub EXCEPT ![j] = "leaving"]
        /\ UNCHANGED <<open, count, job, handoff, observation>>
    BY DEF Refused, Reject, SubMoves
  <1>2. /\ \A i \in Jobs : i # j => sub'[i] = sub[i] /\ job'[i] = job[i]
        /\ sub'[j] \in {"refused", "leaving"} /\ job[j] = "none" /\ job' = job
    BY <1>1 DEF AccInv, TypeOK, Shape, Unpublished
  <1>3. \A c \in Counters : Counts(c, sub'[j], job'[j]) <=> Counts(c, sub[j], job[j])
    BY <1>1, <1>2 DEF Counts, AccInv, TypeOK
  <1>4. \A c \in Counters : Holders(c)' = Holders(c)
    BY <1>2, <1>3 DEF Holders
  <1>5. TypeOK'
    BY <1>1 DEF AccInv, TypeOK, observation, SubStages
  <1>6. Ledger'
    BY <1>1, <1>4 DEF AccInv, Ledger
  <1>7. Shape'
    BY <1>2 DEF AccInv, Shape
  <1>8. ObsInv'
    <2>1. CASE sub[j] = "idle" /\ sub' = [sub EXCEPT ![j] = "refused"]
      BY <1>1, <1>2, <2>1, SubmitterKeepsObs DEF SubStages
    <2>2. CASE sub[j] = "admitted" /\ sub' = [sub EXCEPT ![j] = "leaving"]
      BY <1>1, <1>2, <2>2, SubmitterKeepsObs DEF SubStages
    <2> QED
      BY <1>1, <2>1, <2>2
  <1>9. CapacityRespected'
    <2>1. (Holders("slots") \ handoff)' \subseteq Holders("slots") \ handoff
      BY <1>1, <1>4 DEF Counters
    <2> QED
      BY <2>1, CapacityShrinks DEF AccInv
  <1> QED
    BY <1>5, <1>6, <1>7, <1>8, <1>9 DEF AccInv

\* Closing admission only helps the observers.
LEMMA CloseKeeps ==
  ASSUME AccInv, CloseAdmission
  PROVE  AccInv'
  <1>1. ~open' /\ open' \in BOOLEAN /\ UNCHANGED <<count, sub, job, handoff, observation>>
    BY DEF CloseAdmission
  <1>2. Entered' = Entered /\ \A c \in Counters : Holders(c)' = Holders(c)
    BY <1>1 DEF Entered, Holders
  <1>3. TypeOK' /\ Shape'
    BY <1>1 DEF AccInv, TypeOK, Shape, observation
  <1>4. Ledger' /\ CapacityRespected'
    BY <1>1, <1>2 DEF AccInv, Ledger, CapacityRespected, Counters
  <1>5. ObsInv'
    BY <1>1, <1>2 DEF AccInv, ObsInv, observation
  <1> QED
    BY <1>3, <1>4, <1>5 DEF AccInv

\* An observer that reads zero knows that the counter has no holders.
LEMMA ZeroHasNoHolder ==
  ASSUME AccInv, NEW c \in Counters, count[c] = 0
  PROVE  \A j \in Jobs : ~Counts(c, sub[j], job[j])
  <1>1. Cardinality(Holders(c)) = 0 /\ IsFiniteSet(Holders(c))
    BY HoldersFinite DEF AccInv, Ledger
  <1>2. Holders(c) = {}
    BY <1>1, FS_EmptySet
  <1> QED
    BY <1>2 DEF Holders

\* The loads of is_idle change no counter and extend what the observer knows.
LEMMA ObserverKeeps ==
  ASSUME AccInv, NEW o \in Observers, BeginObservation(o) \/ ObserveLoad(o)
  PROVE  AccInv'
  <1>1. UNCHANGED accounting
    BY DEF BeginObservation, ObserveLoad
  <1>2. Entered' = Entered /\ \A c \in Counters : Holders(c)' = Holders(c)
    BY <1>1 DEF Entered, Holders, accounting
  <1>3. Ledger' /\ CapacityRespected' /\ Shape'
    BY <1>1, <1>2 DEF AccInv, Ledger, CapacityRespected, Shape, Counters, accounting
  <1>4. obs[o] \in ObsStages /\ Entered \subseteq Jobs
    BY DEF AccInv, TypeOK, Entered
  <1>5. TypeOK'
    <2>1. CASE BeginObservation(o)
      BY <1>1, <2>1 DEF AccInv, TypeOK, BeginObservation, accounting, ObsStages, FirstLoad
    <2>2. CASE ObserveLoad(o)
      <3>1. obs[o] \notin {"busy", "idle"} => NextLoad(obs[o]) \in ObsStages
        BY <1>4 DEF NextLoad, ObsStages
      <3>2. obs'[o] \in ObsStages
        BY <2>2, <3>1 DEF ObserveLoad, AccInv, TypeOK, ObsStages
      <3> QED
        BY <1>1, <1>4, <2>2, <3>2 DEF AccInv, TypeOK, ObserveLoad, accounting
    <2> QED
      BY <2>1, <2>2
  <1>6. \A p \in Observers : p # o => /\ obs'[p] = obs[p] /\ before'[p] = before[p]
                                     /\ sealed'[p] = sealed[p]
    BY DEF BeginObservation, ObserveLoad, AccInv, TypeOK
  <1> DEFINE Knows ==
        /\ obs'[o] \in {"slots", "running", "cancelling", "idle"} => \A j \in before'[o] : sub[j] = "left"
        /\ obs'[o] \in {"running", "cancelling", "idle"} => \A j \in before'[o] : job[j] \in PastSlots
        /\ obs'[o] \in {"cancelling", "idle"} => \A j \in before'[o] : job[j] \in Finished
        /\ sealed'[o] => ~open /\ Entered \subseteq before'[o]
  <1>7. CASE BeginObservation(o)
    <2>1. obs'[o] = "inflight" /\ sealed'[o] = FALSE
      BY <1>7 DEF BeginObservation, FirstLoad, AccInv, TypeOK
    <2> QED
      BY <1>1, <1>2, <1>3, <1>5, <1>6, <2>1 DEF AccInv, ObsInv, accounting
  <1>8. CASE ObserveLoad(o)
    <2>1. ASSUME obs[o] = "inflight" PROVE Knows
      <3>1. before'[o] = Entered /\ sealed'[o] = ~open
        BY <1>8, <2>1 DEF ObserveLoad, FirstLoad, AccInv, TypeOK
      <3>2. obs'[o] = IF count["inflight"] = 0 THEN "slots" ELSE "busy"
        BY <1>8, <2>1 DEF ObserveLoad, NextLoad, AccInv, TypeOK
      <3>3. count["inflight"] = 0 => \A j \in Entered : sub[j] = "left"
        BY ZeroHasNoHolder DEF Counters, Counts, Entered, AccInv, TypeOK, SubStages
      <3> QED
        BY <3>1, <3>2, <3>3
    <2>2. ASSUME obs[o] = "slots" PROVE Knows
      <3>1. before'[o] = before[o] /\ sealed'[o] = sealed[o]
        BY <1>8, <2>2 DEF ObserveLoad, FirstLoad, AccInv, TypeOK
      <3>2. obs'[o] = IF count["slots"] = 0 THEN "running" ELSE "busy"
        BY <1>8, <2>2 DEF ObserveLoad, NextLoad, AccInv, TypeOK
      <3>3. before[o] \subseteq Jobs
        BY DEF AccInv, TypeOK
      <3>4. count["slots"] = 0 => \A j \in Jobs : job[j] \in PastSlots
        BY ZeroHasNoHolder DEF Counters, Counts, PastSlots, AccInv, TypeOK, JobStages
      <3> QED
        BY <2>2, <3>1, <3>2, <3>3, <3>4 DEF AccInv, ObsInv
    <2>3. ASSUME obs[o] = "running" PROVE Knows
      <3>1. before'[o] = before[o] /\ sealed'[o] = sealed[o]
        BY <1>8, <2>3 DEF ObserveLoad, FirstLoad, AccInv, TypeOK
      <3>2. obs'[o] = IF count["running"] = 0 THEN "cancelling" ELSE "busy"
        BY <1>8, <2>3 DEF ObserveLoad, NextLoad, AccInv, TypeOK
      <3>3. before[o] \subseteq Jobs
        BY DEF AccInv, TypeOK
      <3>4. count["running"] = 0 => \A j \in Jobs : job[j] \in PastSlots => job[j] \in Finished
        BY ZeroHasNoHolder DEF Counters, Counts, PastSlots, Finished
      <3> QED
        BY <2>3, <3>1, <3>2, <3>3, <3>4 DEF AccInv, ObsInv
    <2>4. ASSUME obs[o] = "cancelling" PROVE Knows
      <3>1. before'[o] = before[o] /\ sealed'[o] = sealed[o]
        BY <1>8, <2>4 DEF ObserveLoad, FirstLoad, AccInv, TypeOK
      <3>2. obs'[o] \in {"idle", "busy"}
        BY <1>8, <2>4 DEF ObserveLoad, NextLoad, AccInv, TypeOK
      <3> QED
        BY <2>4, <3>1, <3>2 DEF AccInv, ObsInv
    <2>5. obs[o] \in {"inflight", "slots", "running", "cancelling"}
      BY <1>4, <1>8 DEF ObserveLoad, ObsStages
    <2>6. Knows
      BY <2>1, <2>2, <2>3, <2>4, <2>5
    <2> QED
      BY <1>1, <1>2, <1>3, <1>5, <1>6, <2>6 DEF AccInv, ObsInv, accounting
  <1> QED
    BY <1>7, <1>8

-----------------------------------------------------------------------------

\* Every counter starts at zero and counts nothing.
LEMMA AccInit == Init => AccInv
  <1> SUFFICES ASSUME Init PROVE AccInv
    OBVIOUS
  <1>1. TypeOK
    BY DEF Init, TypeOK, SubStages, JobStages, ObsStages
  <1>2. Shape /\ ObsInv
    BY DEF Init, Shape, ObsInv
  <1>3. ASSUME NEW c \in Counters PROVE Holders(c) = {}
    BY DEF Init, Holders, Counts
  <1>4. Ledger
    BY <1>3, FS_EmptySet DEF Init, Ledger
  <1>5. CapacityRespected
    <2>1. Holders("slots") \ handoff = {}
      BY <1>3 DEF Counters
    <2> QED
      BY <2>1, FS_EmptySet, AccountingAssumption DEF CapacityRespected
  <1> QED
    BY <1>1, <1>2, <1>4, <1>5 DEF AccInv

\* Every step keeps the invariant.
LEMMA AccNext == AccInv /\ [Next]_vars => AccInv'
  <1> SUFFICES ASSUME AccInv, [Next]_vars PROVE AccInv'
    OBVIOUS
  <1>1. CASE CloseAdmission
    BY <1>1, CloseKeeps
  <1>2. ASSUME NEW j \in Jobs, TryEnter(j) \/ ReserveWorkerHandoffSlot(j) \/ RollbackReservedSlot(j) \/ Leave(j)
        PROVE  AccInv'
    BY <1>2, UnreservingKeeps
  <1>3. ASSUME NEW j \in Jobs, TryReserveBoundedSlot(j) PROVE AccInv'
    BY <1>3, TryReserveKeeps
  <1>4. ASSUME NEW j \in Jobs, Refused(j) \/ Reject(j) PROVE AccInv'
    BY <1>4, SubMovesKeeps
  <1>5. ASSUME NEW j \in Jobs, PublishAcceptedJob(j) PROVE AccInv'
    BY <1>5, PublishKeeps
  <1>6. ASSUME NEW j \in Jobs, \/ ClaimQueuedJob(j) \/ FinishRunningJob(j)
                               \/ BeginCancelQueuedJob(j) \/ FinishCancelledJob(j)
        PROVE  AccInv'
    BY <1>6, OwnerKeeps
  <1>7. ASSUME NEW o \in Observers, BeginObservation(o) \/ ObserveLoad(o) PROVE AccInv'
    BY <1>7, ObserverKeeps
  <1>8. CASE UNCHANGED vars
    BY <1>8 DEF vars, AccInv, TypeOK, Ledger, Shape, ObsInv, CapacityRespected, Holders, Entered
  <1> QED
    BY <1>1, <1>2, <1>3, <1>4, <1>5, <1>6, <1>7, <1>8 DEF Next

\* What the observers know is what the two properties say.
LEMMA ObservationFacts == AccInv => IdleObservationSound /\ SealedObservationExact
  BY DEF AccInv, ObsInv, IdleObservationSound, SealedObservationExact, Settled, Finished

(***************************************************************************)
(* No counter of pool_accounting.rs leaves the natural numbers, so none of *)
(* its underflow assertions can fire, for any number of submissions.       *)
(***************************************************************************)
THEOREM AccountingTypeCorrect == Spec => []TypeOK
  <1>1. AccInv => TypeOK
    BY DEF AccInv
  <1> QED
    BY <1>1, AccInit, AccNext, PTL DEF Spec

(***************************************************************************)
(* Every counter equals the number of jobs it stands for between any two   *)
(* atomic operations, for any number of submissions.                       *)
(***************************************************************************)
THEOREM AccountingLedger == Spec => []Ledger
  <1>1. AccInv => Ledger
    BY DEF AccInv
  <1> QED
    BY <1>1, AccInit, AccNext, PTL DEF Spec

(***************************************************************************)
(* When the four loads of is_idle all read zero, every submission that had *)
(* entered before the first is settled, whatever ran between them.         *)
(***************************************************************************)
THEOREM AccountingIdleSound == Spec => []IdleObservationSound
  <1>1. AccInv => IdleObservationSound
    BY ObservationFacts
  <1> QED
    BY <1>1, AccInit, AccNext, PTL DEF Spec

(***************************************************************************)
(* Behind a closed gate, is_idle returns true only when nothing is left.   *)
(***************************************************************************)
THEOREM AccountingSealedExact == Spec => []SealedObservationExact
  <1>1. AccInv => SealedObservationExact
    BY ObservationFacts
  <1> QED
    BY <1>1, AccInit, AccNext, PTL DEF Spec

(***************************************************************************)
(* Concurrent submitters never reserve past the queue capacity.            *)
(***************************************************************************)
THEOREM AccountingCapacity == Spec => []CapacityRespected
  <1>1. AccInv => CapacityRespected
    BY DEF AccInv
  <1> QED
    BY <1>1, AccInit, AccNext, PTL DEF Spec
=============================================================================
