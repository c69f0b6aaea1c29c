------------------------- MODULE DynamicPool_proofs -------------------------
(***************************************************************************)
(* The dynamic pool for any number of submitters, workers, tickets and     *)
(* callers, any configuration and any capacity.                            *)
(***************************************************************************)
EXTENDS DynamicPool, PoolLemmas

-----------------------------------------------------------------------------
(***************************************************************************)
(* Types and counters.  A step moves one thread, or starts a worker, and   *)
(* a counter changes by what the move adds to the set it stands for.       *)
(***************************************************************************)

\* What a thread at p adds to each counter.
LiveWeight(t, p) == IF t \in Workers /\ p \notin {"off", "exit"} THEN 1 ELSE 0
ExitWeight(t, p) == IF t \in Workers /\ p = "exit" THEN 1 ELSE 0
IdleWeight(t, p) == IF t \in Workers /\ p \in {"idleQueued", "idlePending", "parked", "timedOut", "retireQueued",
                                               "retirePending", "retireInflight", "unmark", "unmarkRetire",
                                               "sdQueued", "sdPark"} THEN 1 ELSE 0
JoinWeight(t, p) == IF t \in Joiners /\ p = "join" THEN 1 ELSE 0

\* A step that moves t alone and keeps the counters in step with the move.
Balanced(t) == /\ \A u \in Threads \ {t} : pc'[u] = pc[u]
               /\ live' = live + LiveWeight(t, pc'[t]) - LiveWeight(t, pc[t])
               /\ exiting' = exiting + ExitWeight(t, pc'[t]) - ExitWeight(t, pc[t])
               /\ idle' = idle + IdleWeight(t, pc'[t]) - IdleWeight(t, pc[t])
               /\ idleWaiters' = idleWaiters + JoinWeight(t, pc'[t]) - JoinWeight(t, pc[t])

\* A step in which t starts the worker w.
Starts(w, t) == /\ pc[w] = "off" /\ pc'[w] = "take"
                /\ \A u \in Threads \ {w, t} : pc'[u] = pc[u]
                /\ live' = live + 1
                /\ UNCHANGED <<exiting, idle, idleWaiters>>

\* Every role is a set of threads, and the roles do not overlap.
LEMMA Roles ==
  /\ Submitters \subseteq Threads /\ Workers \subseteq Threads /\ Cancellers \subseteq Threads
  /\ Controllers \subseteq Threads /\ Builders \subseteq Threads
  /\ Submitters \cap Workers = {} /\ Submitters \cap Cancellers = {} /\ Submitters \cap Controllers = {}
  /\ Submitters \cap Builders = {} /\ Workers \cap Cancellers = {} /\ Workers \cap Controllers = {}
  /\ Workers \cap Builders = {} /\ Cancellers \cap Controllers = {} /\ Cancellers \cap Builders = {}
  /\ Controllers \cap Builders = {}
  /\ Shutdowners \subseteq Controllers /\ Stoppers \subseteq Controllers /\ Joiners \subseteq Controllers
  /\ Waiters \subseteq Controllers /\ Tuners \subseteq Controllers
  /\ (Waiters \cup Tuners) \cap (Shutdowners \cup Stoppers \cup Joiners) = {} /\ Waiters \cap Tuners = {}
  BY RolesAssumption DEF Threads, Controllers

\* The workers and the joiners are finitely many, so the counters are natural numbers.
LEMMA CountersFinite ==
  /\ IsFiniteSet(Looping) /\ Cardinality(Looping) \in Nat
  /\ IsFiniteSet(Exiting) /\ Cardinality(Exiting) \in Nat
  /\ IsFiniteSet(MarkedIdle) /\ Cardinality(MarkedIdle) \in Nat
  /\ IsFiniteSet(Joining) /\ Cardinality(Joining) \in Nat
  <1>1. Looping \subseteq Threads /\ Exiting \subseteq Threads /\ MarkedIdle \subseteq Threads /\ Joining \subseteq Threads
    BY Roles DEF Looping, Exiting, MarkedIdle, Joining
  <1> QED
    BY <1>1, FS_Subset, FS_CardinalityType, RolesAssumption

\* Exact counters are natural numbers, so are those of the next state.
LEMMA CountersPositive ==
  /\ CountersExact => live \in Nat /\ exiting \in Nat /\ idle \in Nat /\ idleWaiters \in Nat
  /\ CountersExact' => live' \in Nat /\ exiting' \in Nat /\ idle' \in Nat /\ idleWaiters' \in Nat
  <1>1. \A S : S \subseteq Threads => Cardinality(S) \in Nat
    BY FS_Subset, FS_CardinalityType, RolesAssumption
  <1>2. /\ Looping' \subseteq Threads /\ Exiting' \subseteq Threads /\ MarkedIdle' \subseteq Threads
        /\ Joining' \subseteq Threads
        /\ Looping \subseteq Threads /\ Exiting \subseteq Threads /\ MarkedIdle \subseteq Threads
        /\ Joining \subseteq Threads
    BY Roles DEF Looping, Exiting, MarkedIdle, Joining
  <1> QED
    BY <1>1, <1>2 DEF CountersExact

\* The counters are exact again after a balanced step ...
LEMMA BalancedKeepsCounters ==
  ASSUME CountersExact, NEW t \in Threads, Balanced(t)
  PROVE  CountersExact'
  <1>0. \A u \in Threads \ {t} : pc'[u] = pc[u]
    BY DEF Balanced
  <1>1. Workers \subseteq Threads /\ Joiners \subseteq Threads
    BY Roles
  <1>2. /\ Looping \ {t} = Looping' \ {t} /\ Exiting \ {t} = Exiting' \ {t}
        /\ MarkedIdle \ {t} = MarkedIdle' \ {t} /\ Joining \ {t} = Joining' \ {t}
    BY <1>0, <1>1 DEF Looping, Exiting, MarkedIdle, Joining
  <1>3. /\ Cardinality(Looping') = Cardinality(Looping) + (IF t \in Looping' THEN 1 ELSE 0)
                                                        - (IF t \in Looping THEN 1 ELSE 0)
        /\ Cardinality(Exiting') = Cardinality(Exiting) + (IF t \in Exiting' THEN 1 ELSE 0)
                                                        - (IF t \in Exiting THEN 1 ELSE 0)
        /\ Cardinality(MarkedIdle') = Cardinality(MarkedIdle) + (IF t \in MarkedIdle' THEN 1 ELSE 0)
                                                              - (IF t \in MarkedIdle THEN 1 ELSE 0)
        /\ Cardinality(Joining') = Cardinality(Joining) + (IF t \in Joining' THEN 1 ELSE 0)
                                                        - (IF t \in Joining THEN 1 ELSE 0)
    BY <1>2, CardinalityStep, CountersFinite
  <1>4. live' = Cardinality(Looping') /\ exiting' = Cardinality(Exiting')
    BY <1>1, <1>3, CountersFinite DEF Balanced, CountersExact, LiveWeight, ExitWeight, Looping, Exiting
  <1>5. idle' = Cardinality(MarkedIdle') /\ idleWaiters' = Cardinality(Joining')
    BY <1>1, <1>3, CountersFinite DEF Balanced, CountersExact, IdleWeight, JoinWeight, MarkedIdle, Joining
  <1> QED
    BY <1>4, <1>5 DEF CountersExact

\* ... and after a spawn.
LEMMA StartKeepsCounters ==
  ASSUME CountersExact, NEW w \in Workers, NEW t \in Threads \ Workers, Starts(w, t),
         t \in Joiners => pc[t] # "join" /\ pc'[t] # "join"
  PROVE  CountersExact'
  <1>1. Looping' = Looping \cup {w} /\ w \notin Looping /\ Exiting' = Exiting /\ MarkedIdle' = MarkedIdle
    BY Roles DEF Starts, Looping, Exiting, MarkedIdle
  <1>2. Joining' = Joining
    BY Roles DEF Starts, Joining
  <1>3. Cardinality(Looping') = Cardinality(Looping) + 1
    BY <1>1, CountersFinite, FS_AddElement
  <1> QED
    BY <1>1, <1>2, <1>3 DEF Starts, CountersExact

-----------------------------------------------------------------------------
(***************************************************************************)
(* Who holds which job.  A worker holds the one job it claimed, from the   *)
(* claim to the end of its run; a submitter or a ticket's caller the one   *)
(* it cancels; stop what is left of what it drained.                       *)
(***************************************************************************)
Stops == Stoppers \cup Builders

HandFit(t) ==
  /\ t \in Workers => IF pc[t] \in {"claimed", "run"} THEN \E j \in Submitters : work[t] = <<j>>
                      ELSE work[t] = <<>>
  /\ t \in Submitters => /\ pc[t] = "cancel" => work[t] = <<t>>
                         /\ pc[t] # "cancel" => work[t] = <<>>
  /\ t \in Cancellers => /\ pc[t] = "cancel" => work[t] = <<target[t]>>
                         /\ pc[t] # "cancel" => work[t] = <<>>
  /\ t \in Controllers \cup Builders => /\ pc[t] \notin {"cancel", "settle", "settleNotify"} => work[t] = <<>>
                                        /\ pc[t] = "cancel" => work[t] # <<>>
HandsFit == \A t \in Threads : HandFit(t)

\* The stage of a job follows from who holds it, and nobody holds it twice.
OneHolder ==
  /\ IsInjective(queue) /\ \A t \in Threads : IsInjective(work[t])
  /\ \A j \in Submitters : job[j] = "queued" <=> j \in ToSet(queue)
  /\ \A t \in Threads : \A j \in Submitters :
        j \in ToSet(work[t]) => job[j] = IF t \in Workers THEN "running" ELSE "cancelling"
  /\ \A t, u \in Threads : \A j \in Submitters : j \in ToSet(work[t]) /\ j \in ToSet(work[u]) => t = u
  /\ \A j \in Submitters : job[j] \in {"running", "cancelling"} => \E t \in Threads : j \in ToSet(work[t])

\* A worker that looks at the front of the queue has the queue mutex, and there is a front.
QueueHeld == \A w \in Workers : /\ pc[w] \in {"claim", "claimed"} => qlock = w
                                /\ pc[w] = "claim" => queue # <<>>

(***************************************************************************)
(* A submission and its entry.  What the entry says follows from where the *)
(* submitter is, until the job is published.                               *)
(***************************************************************************)
EntryFit(s) ==
  /\ pc[s] \in {"start", "refused", "reserve"} => job[s] = "none" /\ entry[s] = "prepared"
  /\ pc[s] \in {"retry", "awaitCapacity"} => job[s] = "saturated"
  /\ pc[s] \in {"accept", "accepting"} <=> job[s] = "reserved"
  /\ pc[s] \in {"released", "rejectEntry", "rejectNotify"} => job[s] = "none"
  /\ pc[s] = "accept" => entry[s] = "prepared" /\ s \in Tickets
  /\ pc[s] = "cancel" => job[s] = "cancelling"
  /\ pc[s] \in {"settle", "settleNotify", "cancelEntry"} => job[s] = "cancelled"
  /\ job[s] = "saturated" => /\ entry[s] = "prepared" /\ s \in Retriers
                             /\ pc[s] \in {"leave", "departOpen", "departWaiters", "departNotify",
                                           "awaitCapacity", "retry"}
  /\ entry[s] = "prepared" => job[s] \in {"none", "saturated", "reserved"}
  /\ entry[s] \in {"accepting", "requested"} => pc[s] \in {"accepting", "released", "rejectEntry"} /\ s \in Tickets
  /\ entry[s] = "queued" <=> job[s] = "queued"
  /\ entry[s] = "taken" => job[s] \in {"running", "completed", "cancelling", "cancelled"}
  /\ entry[s] = "cancelling" <=> pc[s] \in {"cancel", "settle", "settleNotify", "cancelEntry"}
  /\ entry[s] = "cancelled" => job[s] = "cancelled"
  /\ entry[s] = "rejected" => job[s] = "none"
EntryFits == \A s \in Submitters : EntryFit(s)

Own == HandsFit /\ OneHolder /\ QueueHeld /\ EntryFits

(***************************************************************************)
(* Tickets.  A caller of cancel_queued that was promised the cancellation  *)
(* is the only one for its job.                                            *)
(***************************************************************************)
TicketFit(c) ==
  /\ pc[c] # "start" => target[c] \in Tickets
  /\ pc[c] = "await" => entry[target[c]] \in {"requested", "cancelling", "cancelled", "rejected"}
  /\ pc[c] = "cancel" => entry[target[c]] = "taken"
  /\ pc[c] \in {"settle", "settleNotify", "true"}
        => job[target[c]] = "cancelled" /\ entry[target[c]] \in {"taken", "cancelled"}
Promised == {c \in Cancellers : pc[c] \in {"await", "cancel", "settle", "settleNotify", "true"}}
TicketsFit == /\ \A c \in Cancellers : TicketFit(c)
              /\ \A c, d \in Promised : target[c] = target[d] => c = d

-----------------------------------------------------------------------------
(***************************************************************************)
(* A failed build, shutdown and stop close the gate before they change the *)
(* lifecycle, and nobody calls a pool that is not built.                   *)
(***************************************************************************)
GateFirst ==
  /\ lifecycle # "Running" => ~open
  /\ \A t \in Controllers \cup Builders : pc[t] \in {"announce", "shutdown", "stopNow", "stop"} => ~open
  /\ \A t \in Stops : pc[t] \in {"stopInflight", "stopWait", "drain", "cancel", "settle", "settleNotify", "stopNotify"}
        => lifecycle = "Stopping"
  /\ \A b \in Builders : /\ pc[b] \in {"prestart", "buildFailed", "stopNow", "stop"} => lifecycle = "Running"
                         /\ pc[b] \in {"awaitEnd", "failed"} => lifecycle = "Stopping"
                         /\ pc[b] # "ready" => \A t \in Threads \ (Workers \cup Builders) :
                                                  pc[t] = "start" /\ t \notin waiting

\* stop drains a queue to which nothing is added any more.
Emptied == ~open /\ Inside = {} /\ queue = <<>>
StopKnows ==
  /\ \A t \in Stops : /\ pc[t] = "drain" => Inside = {}
                      /\ pc[t] \in {"cancel", "settle", "settleNotify", "stopNotify"} => Emptied
  /\ \A t \in Stoppers \ (Shutdowners \cup Joiners) : pc[t] = "done" => Emptied

\* Only join has noted submissions.
JoinerKnows == \A t \in Joiners : pc[t] \notin {"join", "done"} => before[t] = {}

\* Who was told of termination, on the channel or by a wait, was told the truth.
Told == terminationTx \/ (\E t \in Waiters : pc[t] = "done") => PoolIsOver

\* The builder that gave up: its pool ends, and the channel says so.
GaveUp == \A b \in Builders :
             /\ pc[b] \in {"stopNotify", "awaitEnd"} /\ IsTerminated => terminationTx
             /\ pc[b] = "failed" => terminationTx

\* The announcement of a free slot, or of a closed gate, that somebody has yet to make.
Freed == \E t \in Threads : pc[t] \in {"claimed", "settle", "released"}
Closing == \E t \in Threads : pc[t] \in {"announce", "stopNow"}
Saturated(s) == job[s] = "saturated" /\ pc[s] # "retry"
RetrierKnows ==
  \A s \in Retriers \ unseen : /\ ~open /\ (pc[s] = "reserve" \/ Saturated(s)) => Closing
                               /\ HasRoom /\ Saturated(s) => Freed

\* The monitor is held where the code holds it; a parked worker sleeps by the current policy.
Holding == {"idleQueued", "idlePending", "retireQueued", "retirePending", "retireInflight", "unmark",
            "unmarkRetire", "consume", "consumeRetire", "sdInflight", "sdMark", "sdQueued", "sdPark",
            "stopInflight", "drain"}
Untimed == {w \in Workers \cap waiting : ~timed[w]}
ParkedFit ==
  /\ \A t \in Threads : pc[t] \in Holding => lock = t
  /\ \A w \in Workers : w \in waiting => pc[w] = "parked"
  /\ \A w \in Workers : pc[w] \in {"sdInflight", "sdMark", "sdQueued", "sdPark"} => lifecycle # "Running"
  /\ \A w \in Workers : pc[w] \in {"idleQueued", "idlePending"} /\ lifecycle = "Running" => (timed[w] <=> WaitIsTimed)
  /\ lifecycle = "Running" /\ (\A t \in Tuners : pc[t] # "tuned")
        => Cardinality(Untimed) <= IF coreTimeout THEN 0 ELSE core

Inv == /\ TypeOK /\ Own /\ TicketsFit /\ GateFirst /\ StopKnows /\ JoinerKnows /\ JoinSound
       /\ Told /\ GaveUp /\ RetrierKnows /\ ParkedFit

-----------------------------------------------------------------------------
\* Types and counters are kept, one step of each actor at a time.

USE DEF config, monitor, flags, wakes, jobs, own, locals, At, Goto, CanLock, NotifyAll, Reads

\* A cancellation takes its job out of the hands that hold it.
LEMMA CancelData ==
  ASSUME TypeOK, Own, NEW t \in Threads \ Workers, CancelCallback(t)
  PROVE  DataOK'
  <1> USE Roles DEF TypeOK, DataOK
  <1>1. work[t] # <<>>
    <2>1. CASE t \in Submitters
      BY <2>1, OneJob DEF CancelCallback, Own, HandsFit, HandFit
    <2>2. CASE t \in Cancellers
      <3>1. work[t] = <<target[t]>>
        BY <2>2 DEF CancelCallback, Own, HandsFit, HandFit
      <3> QED
        BY <3>1
    <2>3. CASE t \in Controllers \cup Builders
      BY <2>3 DEF CancelCallback, Own, HandsFit, HandFit
    <2> QED
      BY <2>1, <2>2, <2>3 DEF Threads
  <1>2. Tail(work[t]) \in Seq(Submitters)
    BY <1>1, TailDistinct
  <1>3. work' \in [Threads -> Seq(Submitters)]
    BY <1>2 DEF CancelCallback
  <1> QED
    BY <1>3 DEF CancelCallback, JobStages

\* Submitters keep the types of the shared state ...
LEMMA SubmitterData ==
  ASSUME TypeOK, Own, NEW s \in Submitters, SubmitterStep(s), ~ReserveSubmission(s)
  PROVE  DataOK'
  <1> USE Roles DEF TypeOK, DataOK
  <1>1. CASE BeginSubmit(s)
    BY <1>1 DEF BeginSubmit, JobStages
  <1>2. CASE BeginAccept(s)
    BY <1>2 DEF BeginAccept, EntryStates
  <1>3. CASE AcceptPanics(s)
    BY <1>3 DEF AcceptPanics, JobStages
  <1>4. CASE AnnounceRelease(s)
    BY <1>4 DEF AnnounceRelease, NotifyCapacity
  <1>5. CASE RejectEntry(s)
    BY <1>5 DEF RejectEntry, EntryStates
  <1>6. CASE Publish(s)
    <2> DEFINE hand == <<s>>
    <2>1. Append(queue, s) \in Seq(Submitters) /\ hand \in Seq(Submitters)
      BY AppendDistinct, OneJob
    <2>2. queue' \in Seq(Submitters) /\ (work' = work \/ work' = [work EXCEPT ![s] = hand])
      BY <1>6, <2>1 DEF Publish
    <2> HIDE DEF hand
    <2>3. work' \in [Threads -> Seq(Submitters)]
      <3>0. work \in [Threads -> Seq(Submitters)]
        BY DEF TypeOK, DataOK
      <3>1. CASE work' = work
        BY <3>0, <3>1
      <3>2. CASE work' = [work EXCEPT ![s] = hand]
        BY <2>1, <3>0, <3>2
      <3> QED
        BY <2>2, <3>1, <3>2
    <2> QED
      BY <1>6, <2>2, <2>3 DEF Publish, JobStages, EntryStates
  <1>7. CASE CancelCallback(s)
    BY <1>7, CancelData
  <1>8. CASE Settle(s)
    BY <1>8 DEF Settle, NotifyCapacity
  <1>9. CASE CancelEntry(s)
    BY <1>9 DEF CancelEntry, EntryStates
  <1>10. CASE LoadIdle(s)
    BY <1>10 DEF LoadIdle
  <1>11. CASE RequestWake(s)
    BY <1>11 DEF RequestWake
  <1>12. CASE NotifyUnderLock(s)
    BY <1>12 DEF NotifyUnderLock, PublishTermination
  <1>13. CASE Leave(s)
    BY <1>13 DEF Leave
  <1>14. CASE DepartOpen(s)
    BY <1>14 DEF DepartOpen
  <1>15. CASE DepartWaiters(s)
    BY <1>15 DEF DepartWaiters
  <1>16. CASE AwaitCapacity(s)
    BY <1>16 DEF AwaitCapacity
  <1> QED
    BY <1>1, <1>2, <1>3, <1>4, <1>5, <1>6, <1>7, <1>8, <1>9, <1>10, <1>11, <1>12, <1>13, <1>14, <1>15, <1>16 DEF SubmitterStep

\* ... stay within their code ...
LEMMA SubmitterPlaces ==
  ASSUME TypeOK, NEW s \in Submitters, SubmitterStep(s), ~ReserveSubmission(s)
  PROVE  PcOK'
  <1> USE Roles DEF TypeOK, PcOK, SubmitterPcs
  <1>1. CASE BeginSubmit(s)
    BY <1>1 DEF BeginSubmit, Calls
  <1>2. CASE BeginAccept(s)
    BY <1>2 DEF BeginAccept
  <1>3. CASE AcceptPanics(s)
    BY <1>3 DEF AcceptPanics
  <1>4. CASE AnnounceRelease(s)
    BY <1>4 DEF AnnounceRelease
  <1>5. CASE RejectEntry(s)
    BY <1>5 DEF RejectEntry
  <1>6. CASE Publish(s)
    BY <1>6 DEF Publish
  <1>7. CASE CancelCallback(s)
    BY <1>7 DEF CancelCallback
  <1>8. CASE Settle(s)
    BY <1>8 DEF Settle, AfterSettle
  <1>9. CASE CancelEntry(s)
    BY <1>9 DEF CancelEntry
  <1>10. CASE LoadIdle(s)
    BY <1>10 DEF LoadIdle
  <1>11. CASE RequestWake(s)
    BY <1>11 DEF RequestWake
  <1>12. CASE NotifyUnderLock(s)
    BY <1>12 DEF NotifyUnderLock, AfterSettle, AfterSubmit
  <1>13. CASE Leave(s)
    BY <1>13 DEF Leave, AfterSubmit
  <1>14. CASE DepartOpen(s)
    BY <1>14 DEF DepartOpen
  <1>15. CASE DepartWaiters(s)
    BY <1>15 DEF DepartWaiters, AfterSubmit
  <1>16. CASE AwaitCapacity(s)
    BY <1>16 DEF AwaitCapacity
  <1> QED
    BY <1>1, <1>2, <1>3, <1>4, <1>5, <1>6, <1>7, <1>8, <1>9, <1>10, <1>11, <1>12, <1>13, <1>14, <1>15, <1>16 DEF SubmitterStep

\* ... and balance the counters.
LEMMA SubmitterCounters ==
  ASSUME TypeOK, NEW s \in Submitters, SubmitterStep(s), ~ReserveSubmission(s)
  PROVE  Balanced(s)
  <1> USE Roles DEF TypeOK, PcOK, Balanced, LiveWeight, ExitWeight, IdleWeight, JoinWeight
  <1>1. CASE BeginSubmit(s)
    BY <1>1 DEF BeginSubmit, Calls
  <1>2. CASE BeginAccept(s)
    BY <1>2 DEF BeginAccept
  <1>3. CASE AcceptPanics(s)
    BY <1>3 DEF AcceptPanics
  <1>4. CASE AnnounceRelease(s)
    BY <1>4 DEF AnnounceRelease
  <1>5. CASE RejectEntry(s)
    BY <1>5 DEF RejectEntry
  <1>6. CASE Publish(s)
    BY <1>6 DEF Publish
  <1>7. CASE CancelCallback(s)
    BY <1>7 DEF CancelCallback
  <1>8. CASE Settle(s)
    BY <1>8 DEF Settle, AfterSettle
  <1>9. CASE CancelEntry(s)
    BY <1>9 DEF CancelEntry
  <1>10. CASE LoadIdle(s)
    BY <1>10 DEF LoadIdle
  <1>11. CASE RequestWake(s)
    BY <1>11 DEF RequestWake
  <1>12. CASE NotifyUnderLock(s)
    BY <1>12 DEF NotifyUnderLock, AfterSettle, AfterSubmit
  <1>13. CASE Leave(s)
    BY <1>13 DEF Leave, AfterSubmit
  <1>14. CASE DepartOpen(s)
    BY <1>14 DEF DepartOpen
  <1>15. CASE DepartWaiters(s)
    BY <1>15 DEF DepartWaiters, AfterSubmit
  <1>16. CASE AwaitCapacity(s)
    BY <1>16 DEF AwaitCapacity
  <1> QED
    BY <1>1, <1>2, <1>3, <1>4, <1>5, <1>6, <1>7, <1>8, <1>9, <1>10, <1>11, <1>12, <1>13, <1>14, <1>15, <1>16 DEF SubmitterStep

\* Workers keep the types of the shared state ...
LEMMA WorkerData ==
  ASSUME TypeOK, Own, NEW w \in Workers, WorkerStep(w) \/ KeepAliveElapses(w)
  PROVE  DataOK'
  <1> USE Roles DEF TypeOK, DataOK
  <1>1. CASE TryTake(w)
    BY <1>1 DEF TryTake
  <1>2. CASE Claim(w)
    <2>1. queue # <<>>
      BY <1>2 DEF Claim, Own, QueueHeld
    <2>2. Tail(queue) \in Seq(Submitters) /\ <<Head(queue)>> \in Seq(Submitters)
      BY <2>1, TailDistinct, OneJob
    <2>3. work' \in [Threads -> Seq(Submitters)] /\ queue' \in Seq(Submitters)
      BY <1>2, <2>2 DEF Claim
    <2> QED
      BY <1>2, <2>3 DEF Claim, JobStages, EntryStates
  <1>3. CASE AnnounceClaim(w)
    BY <1>3 DEF AnnounceClaim, NotifyCapacity
  <1>4. CASE Run(w)
    <2>1. work' \in [Threads -> Seq(Submitters)]
      BY <1>4, NoJob DEF Run
    <2> QED
      BY <1>4, <2>1 DEF Run, JobStages
  <1>5. CASE Settle(w)
    BY <1>5 DEF Settle, NotifyCapacity
  <1>6. CASE NotifyUnderLock(w)
    BY <1>6 DEF NotifyUnderLock, PublishTermination
  <1>7. CASE Check(w)
    <2>1. CASE Unregister(w)
      BY <1>7, <2>1 DEF Check, Unregister, PublishTermination
    <2>2. CASE UNCHANGED <<monitor, waiting, terminationTx>>
      BY <1>7, <2>2 DEF Check, Unregister
    <2> QED
      BY <1>7, <2>1, <2>2 DEF Check
  <1>8. CASE Relock(w)
    <2>1. timed' \in [Workers -> BOOLEAN]
      <3>1. WaitIsTimed \in BOOLEAN
        BY DEF WaitIsTimed
      <3> QED
        BY <1>8, <3>1 DEF Relock
    <2> QED
      BY <1>8, <2>1 DEF Relock
  <1>9. CASE IdleQueued(w)
    BY <1>9 DEF IdleQueued
  <1>10. CASE IdlePending(w)
    <2>1. CASE Reads(w, "idlePending", "unmark")
      BY <2>1
    <2>2. CASE Parks(w)
      <3>1. waiting' = waiting \cup {w} /\ lock' = Free
        BY <2>2 DEF Parks, Wait
      <3>2. waiting' \subseteq Threads /\ lock' \in Threads \cup {Free}
        BY <3>1
      <3> QED
        BY <2>2, <3>2 DEF Parks
    <2> QED
      BY <1>10, <2>1, <2>2 DEF IdlePending
  <1>11. CASE Awaken(w)
    BY <1>11 DEF Awaken
  <1>12. CASE TimedOut(w)
    BY <1>12 DEF TimedOut
  <1>13. CASE RetireQueued(w)
    BY <1>13 DEF RetireQueued
  <1>14. CASE RetirePending(w)
    BY <1>14 DEF RetirePending
  <1>15. CASE RetireInflight(w)
    BY <1>15 DEF RetireInflight
  <1>16. CASE Unmark(w)
    BY <1>16 DEF Unmark
  <1>17. CASE Consume(w)
    <2>1. CASE Unregister(w)
      BY <1>17, <2>1 DEF Consume, Unregister, PublishTermination
    <2>2. CASE UNCHANGED <<monitor, waiting, terminationTx>>
      BY <1>17, <2>2 DEF Consume, Unregister
    <2> QED
      BY <1>17, <2>1, <2>2 DEF Consume
  <1>18. CASE SdInflight(w)
    BY <1>18 DEF SdInflight, Unregister, PublishTermination
  <1>19. CASE SdMark(w)
    BY <1>19 DEF SdMark
  <1>20. CASE SdQueued(w)
    BY <1>20 DEF SdQueued
  <1>21. CASE SdPark(w)
    BY <1>21 DEF SdPark, Parks, Wait
  <1>22. CASE FinishExit(w)
    BY <1>22 DEF FinishExit, PublishTermination
  <1>23. CASE KeepAliveElapses(w)
    BY <1>23 DEF KeepAliveElapses
  <1> QED
    BY <1>1, <1>2, <1>3, <1>4, <1>5, <1>6, <1>7, <1>8, <1>9, <1>10, <1>11, <1>12, <1>13, <1>14, <1>15, <1>16, <1>17, <1>18, <1>19, <1>20, <1>21, <1>22, <1>23 DEF WorkerStep

\* ... stay within their code ...
LEMMA WorkerPlaces ==
  ASSUME TypeOK, NEW w \in Workers, WorkerStep(w) \/ KeepAliveElapses(w)
  PROVE  PcOK'
  <1> USE Roles DEF TypeOK, PcOK, WorkerPcs
  <1>1. CASE TryTake(w)
    BY <1>1 DEF TryTake
  <1>2. CASE Claim(w)
    BY <1>2 DEF Claim
  <1>3. CASE AnnounceClaim(w)
    BY <1>3 DEF AnnounceClaim
  <1>4. CASE Run(w)
    BY <1>4 DEF Run
  <1>5. CASE Settle(w)
    BY <1>5 DEF Settle, AfterSettle
  <1>6. CASE NotifyUnderLock(w)
    BY <1>6 DEF NotifyUnderLock, AfterSettle, AfterSubmit
  <1>7. CASE Check(w)
    BY <1>7 DEF Check, Unregister
  <1>8. CASE Relock(w)
    BY <1>8 DEF Relock
  <1>9. CASE IdleQueued(w)
    BY <1>9 DEF IdleQueued
  <1>10. CASE IdlePending(w)
    BY <1>10 DEF IdlePending, Parks, Wait
  <1>11. CASE Awaken(w)
    BY <1>11 DEF Awaken
  <1>12. CASE TimedOut(w)
    BY <1>12 DEF TimedOut
  <1>13. CASE RetireQueued(w)
    BY <1>13 DEF RetireQueued
  <1>14. CASE RetirePending(w)
    BY <1>14 DEF RetirePending
  <1>15. CASE RetireInflight(w)
    BY <1>15 DEF RetireInflight
  <1>16. CASE Unmark(w)
    BY <1>16 DEF Unmark
  <1>17. CASE Consume(w)
    BY <1>17 DEF Consume, Unregister
  <1>18. CASE SdInflight(w)
    BY <1>18 DEF SdInflight, Unregister
  <1>19. CASE SdMark(w)
    BY <1>19 DEF SdMark
  <1>20. CASE SdQueued(w)
    BY <1>20 DEF SdQueued
  <1>21. CASE SdPark(w)
    BY <1>21 DEF SdPark, Parks, Wait
  <1>22. CASE FinishExit(w)
    BY <1>22 DEF FinishExit
  <1>23. CASE KeepAliveElapses(w)
    BY <1>23 DEF KeepAliveElapses
  <1> QED
    BY <1>1, <1>2, <1>3, <1>4, <1>5, <1>6, <1>7, <1>8, <1>9, <1>10, <1>11, <1>12, <1>13, <1>14, <1>15, <1>16, <1>17, <1>18, <1>19, <1>20, <1>21, <1>22, <1>23 DEF WorkerStep

\* ... and balance the counters.
LEMMA WorkerCounters ==
  ASSUME TypeOK, NEW w \in Workers, WorkerStep(w) \/ KeepAliveElapses(w)
  PROVE  Balanced(w)
  <1> USE Roles DEF TypeOK, PcOK, Balanced, LiveWeight, ExitWeight, IdleWeight, JoinWeight
  <1>1. CASE TryTake(w)
    BY <1>1 DEF TryTake
  <1>2. CASE Claim(w)
    BY <1>2 DEF Claim
  <1>3. CASE AnnounceClaim(w)
    BY <1>3 DEF AnnounceClaim
  <1>4. CASE Run(w)
    BY <1>4 DEF Run
  <1>5. CASE Settle(w)
    BY <1>5 DEF Settle, AfterSettle
  <1>6. CASE NotifyUnderLock(w)
    BY <1>6 DEF NotifyUnderLock, AfterSettle, AfterSubmit
  <1>7. CASE Check(w)
    BY <1>7 DEF Check, Unregister
  <1>8. CASE Relock(w)
    BY <1>8 DEF Relock
  <1>9. CASE IdleQueued(w)
    BY <1>9 DEF IdleQueued
  <1>10. CASE IdlePending(w)
    BY <1>10 DEF IdlePending, Parks, Wait
  <1>11. CASE Awaken(w)
    BY <1>11 DEF Awaken
  <1>12. CASE TimedOut(w)
    BY <1>12 DEF TimedOut
  <1>13. CASE RetireQueued(w)
    BY <1>13 DEF RetireQueued
  <1>14. CASE RetirePending(w)
    BY <1>14 DEF RetirePending
  <1>15. CASE RetireInflight(w)
    BY <1>15 DEF RetireInflight
  <1>16. CASE Unmark(w)
    BY <1>16 DEF Unmark
  <1>17. CASE Consume(w)
    BY <1>17 DEF Consume, Unregister
  <1>18. CASE SdInflight(w)
    BY <1>18 DEF SdInflight, Unregister
  <1>19. CASE SdMark(w)
    BY <1>19 DEF SdMark
  <1>20. CASE SdQueued(w)
    BY <1>20 DEF SdQueued
  <1>21. CASE SdPark(w)
    BY <1>21 DEF SdPark, Parks, Wait
  <1>22. CASE FinishExit(w)
    BY <1>22 DEF FinishExit
  <1>23. CASE KeepAliveElapses(w)
    BY <1>23 DEF KeepAliveElapses
  <1> QED
    BY <1>1, <1>2, <1>3, <1>4, <1>5, <1>6, <1>7, <1>8, <1>9, <1>10, <1>11, <1>12, <1>13, <1>14, <1>15, <1>16, <1>17, <1>18, <1>19, <1>20, <1>21, <1>22, <1>23 DEF WorkerStep

\* Callers of cancel_queued keep the types of the shared state ...
LEMMA CancellerData ==
  ASSUME TypeOK, Own, NEW c \in Cancellers, CancellerStep(c)
  PROVE  DataOK'
  <1> USE Roles DEF TypeOK, DataOK
  <1>1. CASE AskTicket(c)
    <2> PICK j \in Tickets : /\ target' = [target EXCEPT ![c] = j]
                             /\ entry' = [entry EXCEPT ![j] = IF @ = "accepting" THEN "requested" ELSE @]
      BY <1>1 DEF AskTicket
    <2>1. target' \in [Cancellers -> Tickets \cup {Free}] /\ entry' \in [Submitters -> EntryStates]
      BY PoolAssumption DEF EntryStates
    <2> QED
      BY <1>1, <2>1 DEF AskTicket
  <1>2. CASE AwaitDecision(c)
    BY <1>2 DEF AwaitDecision
  <1>3. CASE Withdraw(c)
    <2>1. CASE UNCHANGED <<jobs, work>>
      BY <1>3, <2>1 DEF Withdraw
    <2>2. CASE entry[target[c]] = "queued" /\ \E i \in DOMAIN queue : queue[i] = target[c] /\ queue' = RemoveAt(queue, i)
      <3> DEFINE hand == <<target[c]>>
      <3> PICK i \in DOMAIN queue : queue[i] = target[c] /\ queue' = RemoveAt(queue, i)
        BY <2>2
      <3>1. queue' \in Seq(Submitters) /\ hand \in Seq(Submitters)
        BY RemoveAtDistinct, OneJob
      <3>2. /\ entry' = [entry EXCEPT ![target[c]] = "taken"] \/ entry' = entry
            /\ job' = [job EXCEPT ![target[c]] = "cancelling"] \/ job' = job
            /\ work' = [work EXCEPT ![c] = hand] \/ work' = work
        BY <1>3 DEF Withdraw
      <3>3. entry' \in [Submitters -> EntryStates] /\ job' \in [Submitters -> JobStages]
        BY <3>2 DEF JobStages, EntryStates
      <3> HIDE DEF hand
      <3>4. work' \in [Threads -> Seq(Submitters)]
        <4>0. work \in [Threads -> Seq(Submitters)]
          BY DEF TypeOK, DataOK
        <4>1. CASE work' = work
          BY <4>0, <4>1
        <4>2. CASE work' = [work EXCEPT ![c] = hand]
          BY <3>1, <4>0, <4>2
        <4> QED
          BY <3>2, <4>1, <4>2
      <3> QED
        BY <1>3, <3>1, <3>3, <3>4 DEF Withdraw
    <2> QED
      BY <1>3, <2>1, <2>2 DEF Withdraw
  <1>4. CASE CancelCallback(c)
    BY <1>4, CancelData
  <1>5. CASE Settle(c)
    BY <1>5 DEF Settle, NotifyCapacity
  <1>6. CASE NotifyUnderLock(c)
    BY <1>6 DEF NotifyUnderLock, PublishTermination
  <1> QED
    BY <1>1, <1>2, <1>3, <1>4, <1>5, <1>6 DEF CancellerStep

\* ... stay within their code ...
LEMMA CancellerPlaces ==
  ASSUME TypeOK, NEW c \in Cancellers, CancellerStep(c)
  PROVE  PcOK'
  <1> USE Roles DEF TypeOK, PcOK, CancellerPcs
  <1>1. CASE AskTicket(c)
    BY <1>1 DEF AskTicket, Calls
  <1>2. CASE AwaitDecision(c)
    BY <1>2 DEF AwaitDecision
  <1>3. CASE Withdraw(c)
    BY <1>3 DEF Withdraw
  <1>4. CASE CancelCallback(c)
    BY <1>4 DEF CancelCallback
  <1>5. CASE Settle(c)
    BY <1>5 DEF Settle, AfterSettle
  <1>6. CASE NotifyUnderLock(c)
    BY <1>6 DEF NotifyUnderLock, AfterSettle, AfterSubmit
  <1> QED
    BY <1>1, <1>2, <1>3, <1>4, <1>5, <1>6 DEF CancellerStep

\* ... and balance the counters.
LEMMA CancellerCounters ==
  ASSUME TypeOK, NEW c \in Cancellers, CancellerStep(c)
  PROVE  Balanced(c)
  <1> USE Roles DEF TypeOK, PcOK, Balanced, LiveWeight, ExitWeight, IdleWeight, JoinWeight
  <1>1. CASE AskTicket(c)
    BY <1>1 DEF AskTicket, Calls
  <1>2. CASE AwaitDecision(c)
    BY <1>2 DEF AwaitDecision
  <1>3. CASE Withdraw(c)
    BY <1>3 DEF Withdraw
  <1>4. CASE CancelCallback(c)
    BY <1>4 DEF CancelCallback
  <1>5. CASE Settle(c)
    BY <1>5 DEF Settle, AfterSettle
  <1>6. CASE NotifyUnderLock(c)
    BY <1>6 DEF NotifyUnderLock, AfterSettle, AfterSubmit
  <1> QED
    BY <1>1, <1>2, <1>3, <1>4, <1>5, <1>6 DEF CancellerStep

\* shutdown and stop keep the types of the shared state ...
LEMMA StopData ==
  ASSUME TypeOK, Own, NEW t \in Controllers \cup Builders, StopStep(t), t \in Stops
  PROVE  DataOK'
  <1> USE Roles DEF TypeOK, DataOK
  <1>1. CASE CloseAdmission(t, "stopNow")
    BY <1>1 DEF CloseAdmission
  <1>2. CASE SetStopNow(t)
    BY <1>2 DEF SetStopNow, NotifyCapacity
  <1>3. CASE BeginStop(t)
    BY <1>3 DEF BeginStop, Lifecycles
  <1>4. CASE AwaitSubmitters(t)
    BY <1>4 DEF AwaitSubmitters, Wait
  <1>5. CASE ResumeStop(t)
    BY <1>5 DEF ResumeStop
  <1>6. CASE Drain(t)
    <2>1. work' \in [Threads -> Seq(Submitters)] /\ queue' \in Seq(Submitters)
      BY <1>6, NoJob DEF Drain
    <2>2. entry' \in [Submitters -> EntryStates] /\ job' \in [Submitters -> JobStages]
      BY <1>6 DEF Drain, JobStages, EntryStates
    <2>3. report' \in [Stoppers \cup Builders -> Nat]
      <3>1. Len(queue) \in Nat /\ report' = [report EXCEPT ![t] = Len(queue)]
        BY <1>6 DEF Drain, Drained
      <3> QED
        BY <3>1
    <2> QED
      BY <1>6, <2>1, <2>2, <2>3 DEF Drain, PublishTermination
  <1>7. CASE CancelCallback(t)
    BY <1>7, CancelData
  <1>8. CASE Settle(t)
    BY <1>8 DEF Settle, NotifyCapacity
  <1>9. CASE NotifyUnderLock(t)
    BY <1>9 DEF NotifyUnderLock, PublishTermination
  <1> QED
    BY <1>1, <1>2, <1>3, <1>4, <1>5, <1>6, <1>7, <1>8, <1>9 DEF StopStep

\* ... stay within their code ...
LEMMA StopPlaces ==
  ASSUME TypeOK, NEW t \in Controllers \cup Builders, StopStep(t), t \in Stops
  PROVE  PcOK'
  <1> USE Roles DEF TypeOK, PcOK, ControllerPcs, BuilderPcs, StopPcs, Stops
  <1>1. CASE CloseAdmission(t, "stopNow")
    BY <1>1 DEF CloseAdmission, Calls
  <1>2. CASE SetStopNow(t)
    BY <1>2 DEF SetStopNow
  <1>3. CASE BeginStop(t)
    BY <1>3 DEF BeginStop
  <1>4. CASE AwaitSubmitters(t)
    BY <1>4 DEF AwaitSubmitters, Wait
  <1>5. CASE ResumeStop(t)
    BY <1>5 DEF ResumeStop
  <1>6. CASE Drain(t)
    BY <1>6 DEF Drain
  <1>7. CASE CancelCallback(t)
    BY <1>7 DEF CancelCallback
  <1>8. CASE Settle(t)
    BY <1>8 DEF Settle, AfterSettle
  <1>9. CASE NotifyUnderLock(t)
    BY <1>9 DEF NotifyUnderLock, AfterSettle, AfterSubmit
  <1> QED
    BY <1>1, <1>2, <1>3, <1>4, <1>5, <1>6, <1>7, <1>8, <1>9 DEF StopStep

\* ... and balance the counters.
LEMMA StopCounters ==
  ASSUME TypeOK, NEW t \in Controllers \cup Builders, StopStep(t), t \in Stops
  PROVE  Balanced(t)
  <1> USE Roles DEF TypeOK, PcOK, Balanced, LiveWeight, ExitWeight, IdleWeight, JoinWeight
  <1>1. CASE CloseAdmission(t, "stopNow")
    BY <1>1 DEF CloseAdmission, Calls
  <1>2. CASE SetStopNow(t)
    BY <1>2 DEF SetStopNow
  <1>3. CASE BeginStop(t)
    BY <1>3 DEF BeginStop
  <1>4. CASE AwaitSubmitters(t)
    BY <1>4 DEF AwaitSubmitters, Wait
  <1>5. CASE ResumeStop(t)
    BY <1>5 DEF ResumeStop
  <1>6. CASE Drain(t)
    BY <1>6 DEF Drain
  <1>7. CASE CancelCallback(t)
    BY <1>7 DEF CancelCallback
  <1>8. CASE Settle(t)
    BY <1>8 DEF Settle, AfterSettle
  <1>9. CASE NotifyUnderLock(t)
    BY <1>9 DEF NotifyUnderLock, AfterSettle, AfterSubmit
  <1> QED
    BY <1>1, <1>2, <1>3, <1>4, <1>5, <1>6, <1>7, <1>8, <1>9 DEF StopStep

\* reserve_submission_with_state_lock: rejected, or accepted with or without a new worker.
LEMMA ReserveMoves ==
  ASSUME TypeOK, NEW s \in Submitters, ReserveSubmission(s)
  PROVE  /\ pc[s] = "reserve"
         /\ UNCHANGED <<lifecycle, exiting, config, lock, flags, wakes, queue, entry, qlock, work, own>>
         /\ waiting' \subseteq waiting /\ (terminationTx' => terminationTx) /\ terminationTx' \in BOOLEAN
         /\ \A i \in Submitters \ {s} : job'[i] = job[i]
         /\ unseen' = IF job'[s] = "saturated" THEN unseen ELSE unseen \ {s}
         /\ \/ /\ pc'[s] = "leave" /\ live' = live /\ \A u \in Threads \ {s} : pc'[u] = pc[u]
               /\ \/ job' = job
                  \/ job'[s] = "none" /\ job' \in [Submitters -> JobStages]
                  \/ /\ job'[s] = "saturated" /\ s \in Retriers /\ ~HasRoom /\ lifecycle = "Running"
                     /\ job' \in [Submitters -> JobStages]
            \/ /\ pc'[s] = AfterReserve(s) /\ job'[s] = "reserved" /\ lifecycle = "Running"
               /\ job' \in [Submitters -> JobStages]
               /\ \/ live' = live /\ \A u \in Threads \ {s} : pc'[u] = pc[u]
                  \/ \E w \in Workers : Starts(w, s)
  <1> USE Roles
  <1>0. /\ s \in Threads /\ DOMAIN pc = Threads /\ job \in [Submitters -> JobStages]
        /\ terminationTx \in BOOLEAN /\ pc[s] = "reserve"
        /\ UNCHANGED <<lifecycle, exiting, config, lock, flags, wakes, queue, entry, qlock, work, own>>
        /\ unseen' = IF job'[s] = "saturated" THEN unseen ELSE unseen \ {s}
    BY DEF ReserveSubmission, TypeOK, PcOK, DataOK
  <1>1. CASE /\ lifecycle # "Running" /\ Goto(s, "leave") /\ UNCHANGED <<live, job, waiting, terminationTx>>
    BY <1>0, <1>1
  <1>2. CASE /\ lifecycle = "Running" /\ ~HasRoom /\ Goto(s, "leave") /\ UNCHANGED <<live, waiting, terminationTx>>
             /\ job' = [job EXCEPT ![s] = IF s \in Retriers THEN "saturated" ELSE "none"]
    BY <1>0, <1>2 DEF JobStages
  <1>3. CASE /\ lifecycle = "Running" /\ (\E w \in Workers : Spawn(w, s, AfterReserve(s)))
             /\ job' = [job EXCEPT ![s] = "reserved"] /\ UNCHANGED <<waiting, terminationTx>>
    <2> PICK w \in Workers : Spawn(w, s, AfterReserve(s))
      BY <1>3
    <2>1. Starts(w, s) /\ pc'[s] = AfterReserve(s)
      BY <1>0 DEF Spawn, Starts
    <2> QED
      BY <1>0, <1>3, <2>1 DEF JobStages
  <1>4. CASE lifecycle = "Running" /\ SpawnFails(s, "leave") /\ UNCHANGED job
    <2>1. ~Terminated(lifecycle, live, exiting)
      BY <1>4 DEF Terminated
    <2> QED
      BY <1>0, <1>4, <2>1 DEF SpawnFails, PublishTermination
  <1>5. CASE /\ lifecycle = "Running" /\ job' = [job EXCEPT ![s] = "reserved"] /\ Goto(s, AfterReserve(s))
             /\ UNCHANGED <<live, waiting, terminationTx>>
    BY <1>0, <1>5 DEF JobStages
  <1> QED
    BY <1>1, <1>2, <1>3, <1>4, <1>5 DEF ReserveSubmission

\* Where a thread of another role goes does not concern a spawn.
LEMMA StartPlaces ==
  ASSUME TypeOK, NEW w \in Workers, NEW t \in Threads \ Workers, Starts(w, t), pc' = [u \in Threads |-> pc'[u]],
         \/ t \in Submitters /\ pc'[t] \in SubmitterPcs
         \/ t \in Tuners /\ pc'[t] = "done"
         \/ t \in Builders /\ pc'[t] \in BuilderPcs
  PROVE  PcOK'
  <1> USE Roles DEF TypeOK, PcOK
  <1>1. \A u \in Threads \ {w, t} : pc'[u] = pc[u]
    BY DEF Starts
  <1>2. pc'[w] \in WorkerPcs
    BY DEF Starts, WorkerPcs
  <1>3. t \in Tuners => t \in Controllers /\ pc'[t] \in ControllerPcs
    BY DEF ControllerPcs
  <1>4. /\ \A s \in Submitters : pc'[s] \in SubmitterPcs
        /\ \A u \in Workers : pc'[u] \in WorkerPcs
        /\ \A c \in Cancellers : pc'[c] \in CancellerPcs
    BY <1>1, <1>2
  <1>5. /\ \A u \in Controllers : pc'[u] \in ControllerPcs
        /\ \A u \in Waiters : pc'[u] \in {"start", "done"}
        /\ \A u \in Tuners : pc'[u] \in {"start", "tuned", "done"}
        /\ \A b \in Builders : pc'[b] \in BuilderPcs
    BY <1>1, <1>3
  <1>6. \A u \in Threads : pc'[u] \in SubmitterPcs \cup WorkerPcs \cup CancellerPcs \cup ControllerPcs \cup BuilderPcs
    BY <1>4, <1>5 DEF Threads
  <1> QED
    BY <1>4, <1>5, <1>6

\* The admission of a submission keeps the types.
LEMMA ReserveTypes ==
  ASSUME TypeOK, NEW s \in Submitters, ReserveSubmission(s)
  PROVE  TypeOK'
  <1> USE Roles
  <1>0. s \in Threads \ Workers /\ s \notin Joiners
    OBVIOUS
  <1>1. DataOK'
    <2>1. job' \in [Submitters -> JobStages]
      BY ReserveMoves DEF TypeOK, DataOK
    <2>2. waiting' \subseteq Threads /\ terminationTx' \in BOOLEAN
      BY ReserveMoves DEF TypeOK, DataOK
    <2>3. unseen' \subseteq Retriers
      <3>1. unseen' = IF job'[s] = "saturated" THEN unseen ELSE unseen \ {s}
        BY ReserveMoves
      <3>2. unseen \subseteq Retriers
        BY DEF TypeOK, DataOK
      <3> QED
        BY <3>1, <3>2
    <2>4. UNCHANGED <<lifecycle, config, lock, flags, queue, entry, qlock, work, own>>
      BY ReserveMoves
    <2>5. pending' = pending
      BY ReserveMoves DEF wakes
    <2> QED
      BY <2>1, <2>2, <2>3, <2>4, <2>5 DEF TypeOK, DataOK
  <1>2. AfterReserve(s) \in SubmitterPcs /\ "leave" \in SubmitterPcs /\ pc'[s] \in SubmitterPcs
    BY ReserveMoves DEF AfterReserve, SubmitterPcs
  <1>3. pc' = [u \in Threads |-> pc'[u]]
    BY DEF ReserveSubmission, Spawn, SpawnFails, TypeOK, PcOK
  <1>4. PcOK' /\ CountersExact'
    <2>1. CASE live' = live /\ \A u \in Threads \ {s} : pc'[u] = pc[u]
      <3>1. Balanced(s)
        BY <1>0, <2>1, ReserveMoves DEF Balanced, LiveWeight, ExitWeight, IdleWeight, JoinWeight, TypeOK
      <3>2. \A u \in Threads : pc'[u] \in SubmitterPcs \cup WorkerPcs \cup CancellerPcs \cup ControllerPcs \cup BuilderPcs
        BY <1>2, <2>1 DEF TypeOK, PcOK
      <3>3. PcOK'
        BY <1>0, <1>2, <1>3, <2>1, <3>2 DEF TypeOK, PcOK
      <3> QED
        BY <3>1, <3>3, BalancedKeepsCounters DEF TypeOK
    <2>2. CASE \E w \in Workers : Starts(w, s)
      BY <1>0, <1>2, <1>3, <2>2, StartPlaces, StartKeepsCounters DEF TypeOK
    <2> QED
      BY <2>1, <2>2, ReserveMoves
  <1> QED
    BY <1>1, <1>4, CountersPositive DEF TypeOK

\* Callers of shutdown keep the types of the shared state ...
LEMMA ShutdownData ==
  ASSUME TypeOK, Own, NEW t \in Shutdowners, ShutdownStep(t)
  PROVE  DataOK'
  <1> USE Roles DEF TypeOK, DataOK
  <1>1. CASE CloseAdmission(t, "announce")
    BY <1>1 DEF CloseAdmission
  <1>2. CASE AnnounceShutdown(t)
    BY <1>2 DEF AnnounceShutdown, NotifyCapacity
  <1>3. CASE BeginShutdown(t)
    BY <1>3 DEF BeginShutdown, PublishTermination, Lifecycles
  <1> QED
    BY <1>1, <1>2, <1>3 DEF ShutdownStep

\* ... stay within their code ...
LEMMA ShutdownPlaces ==
  ASSUME TypeOK, NEW t \in Shutdowners, ShutdownStep(t)
  PROVE  PcOK'
  <1> USE Roles DEF TypeOK, PcOK, ControllerPcs, StopPcs
  <1>1. CASE CloseAdmission(t, "announce")
    BY <1>1 DEF CloseAdmission, Calls
  <1>2. CASE AnnounceShutdown(t)
    BY <1>2 DEF AnnounceShutdown
  <1>3. CASE BeginShutdown(t)
    BY <1>3 DEF BeginShutdown
  <1> QED
    BY <1>1, <1>2, <1>3 DEF ShutdownStep

\* ... and balance the counters.
LEMMA ShutdownCounters ==
  ASSUME TypeOK, NEW t \in Shutdowners, ShutdownStep(t)
  PROVE  Balanced(t)
  <1> USE Roles DEF TypeOK, PcOK, Balanced, LiveWeight, ExitWeight, IdleWeight, JoinWeight
  <1>1. CASE CloseAdmission(t, "announce")
    BY <1>1 DEF CloseAdmission, Calls
  <1>2. CASE AnnounceShutdown(t)
    BY <1>2 DEF AnnounceShutdown
  <1>3. CASE BeginShutdown(t)
    BY <1>3 DEF BeginShutdown
  <1> QED
    BY <1>1, <1>2, <1>3 DEF ShutdownStep

\* Callers of join keep the types of the shared state ...
LEMMA JoinData ==
  ASSUME TypeOK, Own, NEW t \in Joiners, JoinStep(t)
  PROVE  DataOK'
  <1> USE Roles DEF TypeOK, DataOK
  <1>1. CASE JoinStep(t)
    <2>1. CASE BeginJoin(t)
      <3>1. Inside \cup Under({"queued", "running", "cancelling"}) \in SUBSET Submitters
        BY DEF Inside, Under
      <3>2. before' \in [Joiners -> SUBSET Submitters]
        BY <2>1, <3>1 DEF BeginJoin
      <3> QED
        BY <2>1, <3>2 DEF BeginJoin
    <2>2. CASE Join(t) /\ UNCHANGED <<monitor, open, stopNow, wakes, jobs, qlock, work, locals, terminationTx>>
      BY <2>2 DEF Join, Wait
    <2> QED
      BY <1>1, <2>1, <2>2 DEF JoinStep
  <1> QED
    BY <1>1

\* ... stay within their code ...
LEMMA JoinPlaces ==
  ASSUME TypeOK, NEW t \in Joiners, JoinStep(t)
  PROVE  PcOK'
  <1> USE Roles DEF TypeOK, PcOK, ControllerPcs, StopPcs
  <1>1. CASE JoinStep(t)
    BY <1>1 DEF JoinStep, BeginJoin, Calls, Join, Wait
  <1> QED
    BY <1>1

\* ... and balance the counters.
LEMMA JoinCounters ==
  ASSUME TypeOK, NEW t \in Joiners, JoinStep(t)
  PROVE  Balanced(t)
  <1> USE Roles DEF TypeOK, PcOK, Balanced, LiveWeight, ExitWeight, IdleWeight, JoinWeight
  <1>1. CASE JoinStep(t)
    BY <1>1 DEF JoinStep, BeginJoin, Calls, Join, Wait
  <1> QED
    BY <1>1

\* Callers of wait_for_termination and await_termination keep the types of the shared state ...
LEMMA WaitData ==
  ASSUME TypeOK, Own, NEW t \in Waiters, WaiterStep(t) \/ TimeoutElapses(t)
  PROVE  DataOK'
  <1> USE Roles DEF TypeOK, DataOK
  <1>1. CASE AwaitTermination(t)
    BY <1>1 DEF AwaitTermination, Wait
  <1>2. CASE SubscribeTermination(t)
    BY <1>2 DEF SubscribeTermination, PublishTermination
  <1>3. CASE WatchTermination(t)
    BY <1>3 DEF WatchTermination
  <1>4. CASE TimeoutElapses(t)
    BY <1>4 DEF TimeoutElapses
  <1> QED
    BY <1>1, <1>2, <1>3, <1>4 DEF WaiterStep

\* ... stay within their code ...
LEMMA WaitPlaces ==
  ASSUME TypeOK, NEW t \in Waiters, WaiterStep(t) \/ TimeoutElapses(t)
  PROVE  PcOK'
  <1> USE Roles DEF TypeOK, PcOK, ControllerPcs, StopPcs
  <1>1. CASE AwaitTermination(t)
    BY <1>1 DEF AwaitTermination, Calls, Wait
  <1>2. CASE SubscribeTermination(t)
    BY <1>2 DEF SubscribeTermination, Calls
  <1>3. CASE WatchTermination(t)
    BY <1>3 DEF WatchTermination, Calls
  <1>4. CASE TimeoutElapses(t)
    BY <1>4 DEF TimeoutElapses
  <1> QED
    BY <1>1, <1>2, <1>3, <1>4 DEF WaiterStep

\* ... and balance the counters.
LEMMA WaitCounters ==
  ASSUME TypeOK, NEW t \in Waiters, WaiterStep(t) \/ TimeoutElapses(t)
  PROVE  Balanced(t)
  <1> USE Roles DEF TypeOK, PcOK, Balanced, LiveWeight, ExitWeight, IdleWeight, JoinWeight
  <1>1. CASE AwaitTermination(t)
    BY <1>1 DEF AwaitTermination, Calls, Wait
  <1>2. CASE SubscribeTermination(t)
    BY <1>2 DEF SubscribeTermination, Calls
  <1>3. CASE WatchTermination(t)
    BY <1>3 DEF WatchTermination, Calls
  <1>4. CASE TimeoutElapses(t)
    BY <1>4 DEF TimeoutElapses
  <1> QED
    BY <1>1, <1>2, <1>3, <1>4 DEF WaiterStep

\* A configuration call changes the sizes, wakes the sleepers, or starts a worker.
LEMMA TuneMoves ==
  ASSUME TypeOK, NEW t \in Tuners, Tune(t)
  PROVE  /\ pc[t] = "start" /\ Calls(t) /\ lock = Free
         /\ UNCHANGED <<lifecycle, exiting, lock, flags, wakes, jobs, qlock, work, locals>>
         /\ waiting' \subseteq waiting /\ (terminationTx' => terminationTx) /\ terminationTx' \in BOOLEAN
         /\ core' \in Nat /\ maximum' \in Nat /\ maximum' > 0 /\ coreTimeout' \in BOOLEAN
         /\ UNCHANGED <<core, coreTimeout>> \/ pc'[t] = "tuned" \/ waiting' = {}
         /\ \/ live' = live /\ pc'[t] \in {"tuned", "done"} /\ \A u \in Threads \ {t} : pc'[u] = pc[u]
            \/ lifecycle = "Running" /\ pc'[t] = "done" /\ \E w \in Workers : Starts(w, t)
         /\ pc' = [u \in Threads |-> pc'[u]]
  <1> USE Roles
  <1>0. /\ t \in Threads /\ DOMAIN pc = Threads /\ terminationTx \in BOOLEAN /\ pc[t] = "start" /\ Calls(t) /\ lock = Free
        /\ core \in Nat /\ maximum \in Nat /\ maximum > 0 /\ coreTimeout \in BOOLEAN
        /\ UNCHANGED <<lifecycle, exiting, lock, flags, wakes, jobs, qlock, work, locals>>
        /\ pc = [u \in Threads |-> pc[u]]
    BY DEF Tune, Calls, TypeOK, PcOK, DataOK
  <1>1. ASSUME NEW n \in Sizes, SetCorePoolSize(t, n) \/ SetMaximumPoolSize(t, n)
        PROVE  /\ core' \in Nat /\ maximum' \in Nat /\ maximum' > 0 /\ UNCHANGED <<live, coreTimeout, waiting, terminationTx>>
               /\ pc'[t] \in {"tuned", "done"} /\ (UNCHANGED core \/ pc'[t] = "tuned")
               /\ \A u \in Threads \ {t} : pc'[u] = pc[u]
               /\ pc' = [u \in Threads |-> pc'[u]]
    <2>1. n \in Nat
      BY PoolAssumption
    <2> QED
      BY <1>0, <1>1, <2>1 DEF SetCorePoolSize, SetMaximumPoolSize, ValidSizes
  <1>2. ASSUME NEW allow \in BOOLEAN, AllowCoreThreadTimeout(t, allow)
        PROVE  /\ UNCHANGED <<live, core, maximum, terminationTx>> /\ coreTimeout' \in BOOLEAN /\ waiting' = {}
               /\ pc'[t] = "done" /\ \A u \in Threads \ {t} : pc'[u] = pc[u]
               /\ pc' = [u \in Threads |-> pc'[u]]
    BY <1>0, <1>2 DEF AllowCoreThreadTimeout
  <1>3. CASE SetKeepAlive(t)
    BY <1>0, <1>3 DEF SetKeepAlive
  <1>4. ASSUME PrestartCoreThread(t)
        PROVE  /\ UNCHANGED config /\ pc'[t] = "done"
               /\ waiting' \subseteq waiting /\ (terminationTx' => terminationTx) /\ terminationTx' \in BOOLEAN
               /\ \/ live' = live /\ \A u \in Threads \ {t} : pc'[u] = pc[u]
                  \/ lifecycle = "Running" /\ \E w \in Workers : Starts(w, t)
               /\ pc' = [u \in Threads |-> pc'[u]]
    <2>1. CASE Goto(t, "done") /\ UNCHANGED <<live, waiting, terminationTx>>
      BY <1>0, <1>4, <2>1 DEF PrestartCoreThread
    <2>2. CASE lifecycle = "Running" /\ (\E w \in Workers : Spawn(w, t, "done")) /\ UNCHANGED <<waiting, terminationTx>>
      <3> PICK w \in Workers : Spawn(w, t, "done")
        BY <2>2
      <3>1. Starts(w, t) /\ pc'[t] = "done" /\ pc' = [u \in Threads |-> pc'[u]]
        BY <1>0 DEF Spawn, Starts
      <3> QED
        BY <1>0, <1>4, <2>2, <3>1 DEF PrestartCoreThread
    <2>3. CASE lifecycle = "Running" /\ SpawnFails(t, "done")
      <3>1. ~Terminated(lifecycle, live, exiting)
        BY <2>3 DEF Terminated
      <3> QED
        BY <1>0, <1>4, <2>3, <3>1 DEF PrestartCoreThread, SpawnFails, PublishTermination
    <2> QED
      BY <1>4, <2>1, <2>2, <2>3 DEF PrestartCoreThread
  <1>5. \/ \E n \in Sizes : SetCorePoolSize(t, n) \/ SetMaximumPoolSize(t, n)
        \/ \E allow \in BOOLEAN : AllowCoreThreadTimeout(t, allow)
        \/ SetKeepAlive(t) \/ PrestartCoreThread(t)
    BY DEF Tune
  <1>6. CASE \E n \in Sizes : SetCorePoolSize(t, n) \/ SetMaximumPoolSize(t, n)
    <2> PICK n \in Sizes : SetCorePoolSize(t, n) \/ SetMaximumPoolSize(t, n)
      BY <1>6
    <2> QED
      BY <1>0, <1>1
  <1>7. CASE \E allow \in BOOLEAN : AllowCoreThreadTimeout(t, allow)
    <2> PICK allow \in BOOLEAN : AllowCoreThreadTimeout(t, allow)
      BY <1>7
    <2> QED
      BY <1>0, <1>2
  <1>8. CASE PrestartCoreThread(t)
    BY <1>0, <1>4, <1>8
  <1> QED
    BY <1>3, <1>5, <1>6, <1>7, <1>8

\* prestart_all_core_threads: ready, one more worker, or refused.
LEMMA PrestartMoves ==
  ASSUME TypeOK, NEW b \in Builders, PrestartAll(b)
  PROVE  /\ pc[b] = "prestart"
         /\ UNCHANGED <<lifecycle, exiting, config, lock, flags, wakes, jobs, qlock, work, locals>>
         /\ waiting' \subseteq waiting /\ terminationTx' \in BOOLEAN
         /\ terminationTx' => terminationTx \/ IsTerminated
         /\ \/ live' = live /\ pc'[b] \in {"ready", "buildFailed"} /\ \A u \in Threads \ {b} : pc'[u] = pc[u]
            \/ pc'[b] = "prestart" /\ \E w \in Workers : Starts(w, b)
         /\ pc' = [u \in Threads |-> pc'[u]]
  <1> USE Roles
  <1>0. /\ b \in Threads /\ terminationTx \in BOOLEAN /\ pc[b] = "prestart" /\ pc = [u \in Threads |-> pc[u]]
        /\ UNCHANGED <<lifecycle, exiting, config, lock, flags, wakes, jobs, qlock, work, locals>>
        /\ DOMAIN pc = Threads
    BY DEF PrestartAll, TypeOK, PcOK, DataOK
  <1>1. CASE Goto(b, "ready") /\ UNCHANGED <<live, waiting, terminationTx>>
    BY <1>0, <1>1
  <1>2. CASE (\E w \in Workers : Spawn(w, b, "prestart")) /\ UNCHANGED <<waiting, terminationTx>>
    <2> PICK w \in Workers : Spawn(w, b, "prestart")
      BY <1>2
    <2>1. Starts(w, b) /\ pc'[b] = "prestart" /\ pc' = [u \in Threads |-> pc'[u]]
      BY <1>0 DEF Spawn, Starts
    <2> QED
      BY <1>0, <1>2, <2>1
  <1>3. CASE SpawnFails(b, "buildFailed")
    <2>1. /\ terminationTx' \in BOOLEAN /\ (terminationTx' => terminationTx \/ IsTerminated)
      BY <1>0, <1>3 DEF SpawnFails, PublishTermination, IsTerminated
    <2> QED
      BY <1>0, <1>3, <2>1 DEF SpawnFails
  <1> QED
    BY <1>1, <1>2, <1>3 DEF PrestartAll

\* A configuration call and the construction keep the types.
LEMMA TuneTypes ==
  ASSUME TypeOK, NEW t \in Threads, \/ t \in Tuners /\ Tune(t)
                                    \/ t \in Builders /\ PrestartAll(t)
  PROVE  TypeOK'
  <1> USE Roles
  <1>0. t \in Threads \ Workers /\ t \notin Joiners
    OBVIOUS
  <1>1. DataOK'
    BY TuneMoves, PrestartMoves DEF TypeOK, DataOK
  <1>2. /\ pc' = [u \in Threads |-> pc'[u]]
        /\ t \in Tuners => pc'[t] \in {"tuned", "done"} /\ pc'[t] \in ControllerPcs
        /\ t \in Builders => pc'[t] \in BuilderPcs
    BY TuneMoves, PrestartMoves DEF ControllerPcs, BuilderPcs
  <1>3. CASE live' = live /\ \A u \in Threads \ {t} : pc'[u] = pc[u]
    <2>1. Balanced(t)
      BY <1>0, <1>3, TuneMoves, PrestartMoves DEF Balanced, LiveWeight, ExitWeight, IdleWeight, JoinWeight, TypeOK
    <2>2. \A u \in Threads : pc'[u] \in SubmitterPcs \cup WorkerPcs \cup CancellerPcs \cup ControllerPcs \cup BuilderPcs
      BY <1>2, <1>3 DEF TypeOK, PcOK
    <2>3. PcOK'
      BY <1>0, <1>2, <1>3, <2>2 DEF TypeOK, PcOK
    <2> QED
      BY <1>1, <2>1, <2>3, BalancedKeepsCounters, CountersPositive DEF TypeOK
  <1>4. CASE \E w \in Workers : Starts(w, t)
    <2> PICK w \in Workers : Starts(w, t)
      BY <1>4
    <2>1. t \in Tuners => pc'[t] = "done"
      <3>1. ASSUME t \in Tuners, live' = live
            PROVE  FALSE
        BY <3>1 DEF Starts, TypeOK
      <3> QED
        BY <3>1, TuneMoves
    <2>2. PcOK'
      BY <1>0, <1>2, <2>1, StartPlaces
    <2> QED
      BY <1>0, <1>1, <2>2, StartKeepsCounters, CountersPositive DEF TypeOK
  <1> QED
    BY <1>3, <1>4, TuneMoves, PrestartMoves

\* The remaining steps of tuners and builders.
LEMMA EndTypes ==
  ASSUME TypeOK, NEW t \in Threads, \/ t \in Tuners /\ NotifyTuned(t)
                                    \/ t \in Builders /\ AwaitEnd(t)
  PROVE  DataOK' /\ PcOK' /\ Balanced(t)
  <1> USE Roles DEF TypeOK
  <1>1. CASE t \in Tuners /\ NotifyTuned(t)
    <2>1. DataOK'
      BY <1>1 DEF NotifyTuned, DataOK
    <2>2. PcOK'
      BY <1>1 DEF NotifyTuned, PcOK, ControllerPcs
    <2>3. Balanced(t)
      BY <1>1 DEF NotifyTuned, PcOK, Balanced, LiveWeight, ExitWeight, IdleWeight, JoinWeight
    <2> QED
      BY <2>1, <2>2, <2>3
  <1>2. CASE t \in Builders /\ AwaitEnd(t)
    <2>1. DataOK'
      BY <1>2 DEF AwaitEnd, Wait, DataOK
    <2>2. PcOK'
      BY <1>2 DEF AwaitEnd, Wait, PcOK, BuilderPcs
    <2>3. Balanced(t)
      BY <1>2 DEF AwaitEnd, Wait, PcOK, Balanced, LiveWeight, ExitWeight, IdleWeight, JoinWeight
    <2> QED
      BY <2>1, <2>2, <2>3
  <1> QED
    BY <1>1, <1>2

\* Every step keeps types and counters.
LEMMA TypeStep ==
  ASSUME TypeOK, Own, [Next]_vars
  PROVE  TypeOK'
  <1> USE Roles
  <1>1. ASSUME NEW t \in Threads, DataOK', PcOK', Balanced(t)
        PROVE  TypeOK'
    BY <1>1, BalancedKeepsCounters, CountersPositive DEF TypeOK
  <1>2. ASSUME NEW s \in Submitters, SubmitterStep(s)
        PROVE  TypeOK'
    BY <1>1, <1>2, ReserveTypes, SubmitterData, SubmitterPlaces, SubmitterCounters
  <1>3. ASSUME NEW w \in Workers, WorkerStep(w) \/ KeepAliveElapses(w)
        PROVE  TypeOK'
    BY <1>1, <1>3, WorkerData, WorkerPlaces, WorkerCounters
  <1>4. ASSUME NEW c \in Cancellers, CancellerStep(c)
        PROVE  TypeOK'
    BY <1>1, <1>4, CancellerData, CancellerPlaces, CancellerCounters
  <1>5. ASSUME NEW t \in Stops, StopStep(t)
        PROVE  TypeOK'
    <2>1. t \in Controllers \cup Builders
      BY DEF Stops
    <2> QED
      BY <1>1, <1>5, <2>1, StopData, StopPlaces, StopCounters
  <1>6. ASSUME NEW t \in Shutdowners, ShutdownStep(t)
        PROVE  TypeOK'
    BY <1>1, <1>6, ShutdownData, ShutdownPlaces, ShutdownCounters
  <1>7. ASSUME NEW t \in Joiners, JoinStep(t)
        PROVE  TypeOK'
    BY <1>1, <1>7, JoinData, JoinPlaces, JoinCounters
  <1>8. ASSUME NEW t \in Waiters, WaiterStep(t) \/ TimeoutElapses(t)
        PROVE  TypeOK'
    BY <1>1, <1>8, WaitData, WaitPlaces, WaitCounters
  <1>9. ASSUME NEW t \in Tuners, TuneStep(t)
        PROVE  TypeOK'
    BY <1>1, <1>9, TuneTypes, EndTypes DEF TuneStep
  <1>10. ASSUME NEW b \in Builders, PrestartAll(b) \/ AwaitEnd(b)
         PROVE  TypeOK'
    BY <1>1, <1>10, TuneTypes, EndTypes
  <1>11. CASE UNCHANGED vars
    BY <1>11 DEF vars, TypeOK, DataOK, PcOK, CountersExact, Looping, Exiting, MarkedIdle, Joining
  <1>12. ASSUME NEW t \in Threads, ThreadStep(t)
         PROVE  TypeOK'
    BY <1>2, <1>3, <1>4, <1>5, <1>6, <1>7, <1>8, <1>9, <1>10, <1>12 DEF ThreadStep, BuilderStep, Stops
  <1> QED
    BY <1>3, <1>8, <1>11, <1>12 DEF Next

-----------------------------------------------------------------------------
\* Every job keeps one holder.

\* A thread's move that leaves its hands as they are.
HandKept(u) ==
  /\ u \in Workers => (pc[u] \in {"claimed", "run"} <=> pc'[u] \in {"claimed", "run"})
  /\ u \in Submitters \cup Cancellers => (pc[u] = "cancel" <=> pc'[u] = "cancel")
  /\ u \in Controllers \cup Builders => /\ pc'[u] \notin {"cancel", "settle", "settleNotify"} => work[u] = <<>>
                                        /\ pc'[u] = "cancel" => work[u] # <<>>

\* Hands that nothing is put into or taken out of still fit.
LEMMA HandsKept ==
  ASSUME HandsFit, NEW u \in Threads, pc'[u] = pc[u] \/ HandKept(u), work'[u] = work[u],
         u \in Cancellers /\ pc[u] = "cancel" => target'[u] = target[u]
  PROVE  HandFit(u)'
  <1>1. HandFit(u)
    BY DEF HandsFit
  <1>2. CASE u \in Workers
    BY <1>1, <1>2, Roles DEF HandFit, HandKept
  <1>3. CASE u \in Submitters
    BY <1>1, <1>3, Roles DEF HandFit, HandKept
  <1>4. CASE u \in Cancellers
    BY <1>1, <1>4, Roles DEF HandFit, HandKept
  <1>5. CASE u \in Controllers \cup Builders
    BY <1>1, <1>5, Roles DEF HandFit, HandKept
  <1> QED
    BY <1>2, <1>3, <1>4, <1>5 DEF Threads

\* Where nothing is handed over, the holders stay.
LEMMA HoldersKept ==
  ASSUME OneHolder, UNCHANGED <<queue, work>>,
         \A j \in Submitters : \/ job'[j] = job[j]
                               \/ /\ job[j] \notin {"queued", "running", "cancelling"}
                                  /\ job'[j] \notin {"queued", "running", "cancelling"}
  PROVE  OneHolder'
  BY DEF OneHolder

\* An entry is as fitting as it was, or was seen to be.
LEMMA EntriesKept ==
  ASSUME Own, \A s \in Submitters : \/ pc'[s] = pc[s] /\ job'[s] = job[s] /\ entry'[s] = entry[s]
                                    \/ EntryFit(s)'
  PROVE  EntryFits'
  <1> SUFFICES ASSUME NEW s \in Submitters
               PROVE  EntryFit(s)'
    BY DEF EntryFits
  <1>1. EntryFit(s)
    BY DEF Own, EntryFits
  <1>2. CASE pc'[s] = pc[s] /\ job'[s] = job[s] /\ entry'[s] = entry[s]
    BY <1>1, <1>2 DEF EntryFit
  <1> QED
    BY <1>2

\* The queue mutex stays with its holder.
LEMMA QueueKept ==
  ASSUME Own, \A w \in Workers : pc'[w] = pc[w] \/ pc'[w] \notin {"claim", "claimed"},
         \/ UNCHANGED <<qlock, queue>>
         \/ \A w \in Workers : qlock # w
  PROVE  QueueHeld'
  BY DEF Own, QueueHeld

\* A cancellation: the job leaves the hands of the thread whose callback ends.
LEMMA CancelOwn ==
  ASSUME TypeOK, Own, NEW t \in Threads \ Workers, CancelCallback(t)
  PROVE  Own'
  <1> USE Roles
  <1>0. t \in Threads /\ DOMAIN pc = Threads /\ DOMAIN job = Submitters /\ DOMAIN work = Threads /\ pc[t] = "cancel"
    BY DEF CancelCallback, TypeOK, PcOK, DataOK
  <1>1. work[t] # <<>> /\ work[t] \in Seq(Submitters) /\ IsInjective(work[t])
    <2>0. work[t] \in Seq(Submitters) /\ IsInjective(work[t])
      BY DEF Own, OneHolder, TypeOK, DataOK
    <2>1. CASE t \in Submitters
      <3>1. work[t] = <<t>>
        BY <1>0, <2>1 DEF Own, HandsFit, HandFit
      <3> QED
        BY <2>0, <3>1
    <2>2. CASE t \in Cancellers
      <3>1. work[t] = <<target[t]>>
        BY <1>0, <2>2 DEF Own, HandsFit, HandFit
      <3> QED
        BY <2>0, <3>1
    <2>3. CASE t \in Controllers \cup Builders
      BY <1>0, <2>0, <2>3 DEF Own, HandsFit, HandFit
    <2> QED
      BY <2>1, <2>2, <2>3 DEF Threads
  <1> PICK j \in Submitters : j = Head(work[t])
    BY <1>1, TailDistinct
  <1>2. /\ j \in Submitters /\ j \in ToSet(work[t]) /\ job[j] = "cancelling"
        /\ j \notin ToSet(queue) /\ \A u \in Threads \ {t} : j \notin ToSet(work[u])
    <2>1. j \in Submitters /\ j \in ToSet(work[t])
      BY <1>1, TailDistinct
    <2> QED
      BY <1>0, <2>1 DEF Own, OneHolder
  <1>3. /\ pc'[t] = "settle" /\ work'[t] = Tail(work[t])
        /\ \A u \in Threads \ {t} : pc'[u] = pc[u] /\ work'[u] = work[u]
        /\ job'[j] = "cancelled" /\ \A i \in Submitters \ {j} : job'[i] = job[i]
        /\ UNCHANGED <<queue, entry, qlock, target>>
    BY <1>0, <1>2 DEF CancelCallback
  <1>4. ToSet(work'[t]) = ToSet(work[t]) \ {j} /\ IsInjective(work'[t])
    BY <1>1, <1>3, TailDistinct
  <1>5. /\ t \in Submitters => t = j /\ work'[t] = <<>>
        /\ t \in Cancellers => work'[t] = <<>>
    <2>1. CASE t \in Submitters
      <3>1. work[t] = <<t>>
        BY <1>0, <2>1 DEF Own, HandsFit, HandFit
      <3> QED
        BY <1>3, <2>1, <3>1, OneJob
    <2>2. CASE t \in Cancellers
      <3>1. work[t] = <<target[t]>>
        BY <1>0, <2>2 DEF Own, HandsFit, HandFit
      <3>2. Tail(<<target[t]>>) = <<>>
        OBVIOUS
      <3> QED
        BY <1>3, <2>2, <3>1, <3>2
    <2> QED
      BY <2>1, <2>2
  <1>6. HandsFit'
    <2>1. ASSUME NEW u \in Threads \ {t}
          PROVE  HandFit(u)'
      BY <1>3, HandsKept DEF Own
    <2>2. HandFit(t)'
      BY <1>3, <1>5 DEF HandFit
    <2> QED
      BY <2>1, <2>2 DEF HandsFit
  <1>7. OneHolder'
    <2>1. \A u \in Threads : IsInjective(work'[u])
      BY <1>3, <1>4 DEF Own, OneHolder
    <2>2. \A u \in Threads : \A i \in Submitters : i \in ToSet(work'[u]) <=> i \in ToSet(work[u]) /\ i # j
      BY <1>2, <1>3, <1>4
    <2> QED
      BY <1>2, <1>3, <2>1, <2>2 DEF Own, OneHolder
  <1>8. EntryFits'
    <2>1. ASSUME NEW s \in Submitters, s # j, s # t
          PROVE  pc'[s] = pc[s] /\ job'[s] = job[s] /\ entry'[s] = entry[s]
      BY <1>3, <2>1
    <2>2. CASE t = j
      <3>1. EntryFit(j)
        BY <1>2 DEF Own, EntryFits
      <3>2. EntryFit(j)'
        BY <1>0, <1>2, <1>3, <2>2, <3>1 DEF EntryFit
      <3>3. \A s \in Submitters : (pc'[s] = pc[s] /\ job'[s] = job[s] /\ entry'[s] = entry[s]) \/ EntryFit(s)'
        BY <2>1, <2>2, <3>2
      <3> QED
        BY <3>3, EntriesKept
    <2>3. CASE t # j
      <3>1. t \notin Submitters /\ pc'[j] = pc[j] /\ entry'[j] = entry[j]
        BY <1>2, <1>3, <1>5, <2>3
      <3>2. pc[j] # "cancel"
        <4>1. ASSUME pc[j] = "cancel"
              PROVE  FALSE
          <5>1. work[j] = <<j>>
            BY <1>2, <4>1 DEF Own, HandsFit, HandFit
          <5>2. j \in ToSet(work[j])
            BY <1>2, <5>1, OneJob
          <5> QED
            BY <1>2, <2>3, <5>2
        <4> QED
          BY <4>1
      <3>3. EntryFit(j)
        BY <1>2 DEF Own, EntryFits
      <3>4. EntryFit(j)'
        BY <1>2, <1>3, <3>1, <3>2, <3>3 DEF EntryFit
      <3>5. \A s \in Submitters : (pc'[s] = pc[s] /\ job'[s] = job[s] /\ entry'[s] = entry[s]) \/ EntryFit(s)'
        BY <2>1, <3>1, <3>4
      <3> QED
        BY <3>5, EntriesKept
    <2> QED
      BY <2>2, <2>3
  <1>9. QueueHeld'
    BY <1>3, QueueKept
  <1> QED
    BY <1>6, <1>7, <1>8, <1>9 DEF Own

\* A step that hands nothing over keeps the holders.
LEMMA OwnKept ==
  ASSUME Own, UNCHANGED <<queue, work, qlock>>,
         \A u \in Threads : pc'[u] = pc[u] \/ HandKept(u),
         \A c \in Cancellers : pc[c] = "cancel" => target'[c] = target[c],
         \A w \in Workers : pc'[w] = pc[w] \/ pc'[w] \notin {"claim", "claimed"},
         \A j \in Submitters : \/ job'[j] = job[j]
                               \/ /\ job[j] \notin {"queued", "running", "cancelling"}
                                  /\ job'[j] \notin {"queued", "running", "cancelling"},
         \A s \in Submitters : \/ pc'[s] = pc[s] /\ job'[s] = job[s] /\ entry'[s] = entry[s]
                               \/ EntryFit(s)'
  PROVE  Own'
  <1>1. HandsFit'
    <2> SUFFICES ASSUME NEW u \in Threads
                 PROVE  HandFit(u)'
      BY DEF HandsFit
    <2> QED
      BY HandsKept DEF Own
  <1>2. OneHolder'
    BY HoldersKept DEF Own
  <1>3. QueueHeld'
    BY QueueKept
  <1>4. EntryFits'
    BY EntriesKept
  <1> QED
    BY <1>1, <1>2, <1>3, <1>4 DEF Own

\* A submitter's step that hands nothing over.
SubmitterQuiet(s) ==
  /\ UNCHANGED <<queue, work, qlock, target>>
  /\ \A u \in Threads \ {s} : pc'[u] = pc[u]
  /\ pc[s] # "cancel" /\ pc'[s] # "cancel"
  /\ \A i \in Submitters \ {s} : job'[i] = job[i] /\ entry'[i] = entry[i]
  /\ \/ job'[s] = job[s]
     \/ job[s] \notin {"queued", "running", "cancelling"} /\ job'[s] \notin {"queued", "running", "cancelling"}
  /\ EntryFit(s)'

\* What a submitter does to its own entry.
LEMMA SubmitterKeepsOwn ==
  ASSUME TypeOK, Own, NEW s \in Submitters, SubmitterQuiet(s)
  PROVE  Own'
  <1>1. HandKept(s)
    BY Roles DEF HandKept, SubmitterQuiet
  <1>2. \A u \in Threads : pc'[u] = pc[u] \/ HandKept(u)
    BY <1>1 DEF SubmitterQuiet
  <1>3. \A i \in Submitters : \/ pc'[i] = pc[i] /\ job'[i] = job[i] /\ entry'[i] = entry[i]
                              \/ EntryFit(i)'
    BY Roles DEF SubmitterQuiet
  <1> QED
    BY <1>2, <1>3, OwnKept, Roles DEF SubmitterQuiet

\* Publish: the job is queued, or handed to its submitter to be cancelled.
LEMMA PublishOwn ==
  ASSUME TypeOK, Own, NEW s \in Submitters, Publish(s)
  PROVE  Own'
  <1> USE Roles
  <1>0. /\ s \in Threads /\ DOMAIN pc = Threads /\ DOMAIN job = Submitters /\ DOMAIN work = Threads
        /\ DOMAIN entry = Submitters /\ pc[s] = "accepting" /\ queue \in Seq(Submitters) /\ EntryFit(s)
        /\ UNCHANGED <<qlock, target>> /\ job[s] = "reserved"
    <2>1. EntryFit(s) /\ pc[s] = "accepting"
      BY DEF Publish, Own, EntryFits
    <2>2. job[s] = "reserved"
      BY <2>1 DEF EntryFit
    <2> QED
      BY <2>1, <2>2 DEF Publish, TypeOK, PcOK, DataOK
  <1>1. s \notin ToSet(queue) /\ \A u \in Threads : s \notin ToSet(work[u])
    BY <1>0 DEF Own, OneHolder
  <1>2. CASE entry[s] = "requested"
    <2> DEFINE hand == <<s>>
    <2>1. /\ pc'[s] = "cancel" /\ entry'[s] = "cancelling" /\ job'[s] = "cancelling" /\ queue' = queue
          /\ \A u \in Threads \ {s} : pc'[u] = pc[u]
          /\ \A i \in Submitters \ {s} : job'[i] = job[i] /\ entry'[i] = entry[i]
      BY <1>0, <1>2 DEF Publish
    <2>2. work'[s] = hand /\ \A u \in Threads \ {s} : work'[u] = work[u]
      BY <1>0, <1>2 DEF Publish
    <2>3. hand \in Seq(Submitters) /\ ToSet(hand) = {s} /\ IsInjective(hand)
      BY OneJob
    <2>4. HandsFit'
      <3>1. ASSUME NEW u \in Threads \ {s}
            PROVE  HandFit(u)'
        BY <1>0, <2>1, <2>2, HandsKept DEF Own
      <3>2. HandFit(s)'
        BY <2>1, <2>2 DEF HandFit
      <3> QED
        BY <3>1, <3>2 DEF HandsFit
    <2> HIDE DEF hand
    <2>5. OneHolder'
      <3>1. \A u \in Threads : IsInjective(work'[u])
        BY <2>2, <2>3 DEF Own, OneHolder
      <3>2. \A u \in Threads : \A i \in Submitters : i \in ToSet(work'[u]) <=> i \in ToSet(work[u]) \/ (u = s /\ i = s)
        <4>1. work[s] = <<>>
          BY <1>0 DEF Own, HandsFit, HandFit
        <4>2. ToSet(work[s]) = {}
          BY <4>1, NoJob
        <4> QED
          BY <2>2, <2>3, <4>2
      <3> QED
        BY <1>1, <2>1, <3>1, <3>2 DEF Own, OneHolder
    <2>6. EntryFit(s)'
      BY <1>0, <2>1 DEF EntryFit
    <2>7. \A i \in Submitters : (pc'[i] = pc[i] /\ job'[i] = job[i] /\ entry'[i] = entry[i]) \/ EntryFit(i)'
      BY <2>1, <2>6
    <2>8. EntryFits'
      BY <2>7, EntriesKept
    <2>9. QueueHeld'
      BY <1>0, <2>1, QueueKept
    <2> QED
      BY <2>4, <2>5, <2>8, <2>9 DEF Own
  <1>3. CASE entry[s] # "requested"
    <2>1. /\ pc'[s] = "wake" /\ entry'[s] = "queued" /\ job'[s] = "queued" /\ queue' = Append(queue, s)
          /\ work' = work
          /\ \A u \in Threads \ {s} : pc'[u] = pc[u]
          /\ \A i \in Submitters \ {s} : job'[i] = job[i] /\ entry'[i] = entry[i]
      BY <1>0, <1>3 DEF Publish
    <2>2. IsInjective(queue') /\ ToSet(queue') = ToSet(queue) \cup {s} /\ queue' \in Seq(Submitters)
      BY <1>0, <1>1, <2>1, AppendDistinct DEF Own, OneHolder
    <2>3. HandsFit'
      <3>1. ASSUME NEW u \in Threads
            PROVE  pc'[u] = pc[u] \/ HandKept(u)
        BY <1>0, <2>1 DEF HandKept
      <3>2. ASSUME NEW u \in Threads
            PROVE  HandFit(u)'
        BY <1>0, <2>1, <3>1, HandsKept DEF Own
      <3> QED
        BY <3>2 DEF HandsFit
    <2>4. OneHolder'
      BY <1>1, <2>1, <2>2 DEF Own, OneHolder
    <2>6. EntryFit(s)'
      BY <1>0, <2>1 DEF EntryFit
    <2>7. \A i \in Submitters : (pc'[i] = pc[i] /\ job'[i] = job[i] /\ entry'[i] = entry[i]) \/ EntryFit(i)'
      BY <2>1, <2>6
    <2>8. EntryFits'
      BY <2>7, EntriesKept
    <2>9. QueueHeld'
      <3>1. queue' # <<>>
        BY <2>2, NoJob
      <3> QED
        BY <1>0, <2>1, <3>1 DEF Own, QueueHeld
    <2> QED
      BY <2>3, <2>4, <2>8, <2>9 DEF Own
  <1> QED
    BY <1>2, <1>3

\* reserve_submission_with_state_lock hands nothing over; a new worker starts with empty hands.
LEMMA ReserveOwn ==
  ASSUME TypeOK, Own, NEW s \in Submitters, ReserveSubmission(s)
  PROVE  Own'
  <1> USE Roles
  <1>1. /\ UNCHANGED <<queue, work, qlock, target>> /\ entry' = entry /\ s \in Threads /\ pc[s] = "reserve"
        /\ \A i \in Submitters \ {s} : job'[i] = job[i]
    BY ReserveMoves
  <1>2. EntryFit(s) /\ job[s] = "none" /\ entry[s] = "prepared"
    <2>1. EntryFit(s)
      BY DEF Own, EntryFits
    <2> QED
      BY <1>1, <2>1 DEF EntryFit
  <1>3. /\ pc'[s] = "leave" \/ pc'[s] = AfterReserve(s)
        /\ pc'[s] = "leave" => job'[s] = "none" \/ (job'[s] = "saturated" /\ s \in Retriers)
        /\ pc'[s] = AfterReserve(s) => job'[s] = "reserved"
    <2>1. AfterReserve(s) # "leave"
      BY DEF AfterReserve
    <2> QED
      BY <1>2, <2>1, ReserveMoves
  <1>4. EntryFit(s)'
    BY <1>1, <1>2, <1>3 DEF EntryFit, AfterReserve
  <1>5. \A u \in Threads \ {s} : pc'[u] = pc[u] \/ (u \in Workers /\ pc[u] = "off" /\ pc'[u] = "take")
    BY ReserveMoves DEF Starts
  <1>6. HandKept(s) /\ \A u \in Threads \ {s} : pc'[u] = pc[u] \/ HandKept(u)
    BY <1>1, <1>3, <1>5 DEF HandKept, AfterReserve
  <1>7. job[s] \notin {"queued", "running", "cancelling"} /\ job'[s] \notin {"queued", "running", "cancelling"}
    BY <1>2, <1>3
  <1>8. \A i \in Submitters : (pc'[i] = pc[i] /\ job'[i] = job[i] /\ entry'[i] = entry[i]) \/ EntryFit(i)'
    BY <1>1, <1>4, <1>5
  <1>9. /\ \A u \in Threads : pc'[u] = pc[u] \/ HandKept(u)
        /\ \A w \in Workers : pc'[w] = pc[w] \/ pc'[w] \notin {"claim", "claimed"}
        /\ \A j \in Submitters : \/ job'[j] = job[j]
                                 \/ /\ job[j] \notin {"queued", "running", "cancelling"}
                                    /\ job'[j] \notin {"queued", "running", "cancelling"}
    BY <1>1, <1>5, <1>6, <1>7
  <1> QED
    BY <1>1, <1>8, <1>9, OwnKept

\* What remains of a submission hands nothing over.
LEMMA SubmitterOwn ==
  ASSUME TypeOK, Own, NEW s \in Submitters, SubmitterStep(s)
  PROVE  Own'
  <1> SUFFICES ASSUME ~Publish(s), ~ReserveSubmission(s), ~CancelCallback(s)
               PROVE  SubmitterQuiet(s)
    BY PublishOwn, ReserveOwn, CancelOwn, SubmitterKeepsOwn, Roles
  <1> DEFINE Others == /\ UNCHANGED <<queue, work, qlock, target>>
                       /\ \A u \in Threads \ {s} : pc'[u] = pc[u]
                       /\ \A i \in Submitters \ {s} : job'[i] = job[i] /\ entry'[i] = entry[i]
  <1> USE Roles
  <1>0. /\ s \in Threads /\ DOMAIN pc = Threads /\ DOMAIN job = Submitters /\ DOMAIN entry = Submitters
        /\ EntryFit(s)
    BY DEF TypeOK, PcOK, DataOK, Own, EntryFits
  <1>1. CASE BeginSubmit(s)
    <2>1. Others /\ pc[s] \in {"start", "retry"} /\ pc'[s] \in {"reserve", "refused"} /\ job'[s] = "none" /\ entry'[s] = entry[s]
      BY <1>0, <1>1 DEF BeginSubmit, Calls
    <2>2. EntryFit(s)'
      BY <1>0, <2>1 DEF EntryFit
    <2> QED
      BY <1>0, <2>1, <2>2 DEF SubmitterQuiet, EntryFit
  <1>2. CASE BeginAccept(s)
    <2>1. Others /\ pc[s] = "accept" /\ pc'[s] = "accepting" /\ job'[s] = job[s] /\ entry'[s] = "accepting"
      BY <1>0, <1>2 DEF BeginAccept
    <2>2. EntryFit(s)'
      BY <1>0, <2>1 DEF EntryFit
    <2> QED
      BY <1>0, <2>1, <2>2 DEF SubmitterQuiet, EntryFit
  <1>3. CASE AcceptPanics(s)
    <2>1. Others /\ pc[s] = "accepting" /\ pc'[s] = "released" /\ job'[s] = "none" /\ entry'[s] = entry[s]
      BY <1>0, <1>3 DEF AcceptPanics
    <2>2. EntryFit(s)'
      BY <1>0, <2>1 DEF EntryFit
    <2> QED
      BY <1>0, <2>1, <2>2 DEF SubmitterQuiet, EntryFit
  <1>4. CASE AnnounceRelease(s)
    <2>1. Others /\ pc[s] = "released" /\ pc'[s] = (IF s \in Tickets THEN "rejectEntry" ELSE "rejectNotify") /\ job'[s] = job[s] /\ entry'[s] = entry[s]
      BY <1>0, <1>4 DEF AnnounceRelease
    <2>2. EntryFit(s)'
      BY <1>0, <2>1 DEF EntryFit
    <2> QED
      BY <1>0, <2>1, <2>2 DEF SubmitterQuiet, EntryFit
  <1>5. CASE RejectEntry(s)
    <2>1. Others /\ pc[s] = "rejectEntry" /\ pc'[s] = "rejectNotify" /\ job'[s] = job[s] /\ entry'[s] = "rejected"
      BY <1>0, <1>5 DEF RejectEntry
    <2>2. EntryFit(s)'
      BY <1>0, <2>1 DEF EntryFit
    <2> QED
      BY <1>0, <2>1, <2>2 DEF SubmitterQuiet, EntryFit
  <1>6. CASE Settle(s)
    <2>1. Others /\ pc[s] = "settle" /\ pc'[s] \in {"settleNotify", "cancelEntry"} /\ job'[s] = job[s] /\ entry'[s] = entry[s]
      BY <1>0, <1>6 DEF Settle, AfterSettle
    <2>2. EntryFit(s)'
      BY <1>0, <2>1 DEF EntryFit
    <2> QED
      BY <1>0, <2>1, <2>2 DEF SubmitterQuiet, EntryFit
  <1>7. CASE CancelEntry(s)
    <2>1. Others /\ pc[s] = "cancelEntry" /\ pc'[s] = "leave" /\ job'[s] = job[s] /\ entry'[s] = "cancelled"
      BY <1>0, <1>7 DEF CancelEntry
    <2>2. EntryFit(s)'
      BY <1>0, <2>1 DEF EntryFit
    <2> QED
      BY <1>0, <2>1, <2>2 DEF SubmitterQuiet, EntryFit
  <1>8. CASE LoadIdle(s)
    <2>1. Others /\ pc[s] = "wake" /\ pc'[s] \in {"leave", "token"} /\ job'[s] = job[s] /\ entry'[s] = entry[s]
      BY <1>0, <1>8 DEF LoadIdle
    <2>2. EntryFit(s)'
      BY <1>0, <2>1 DEF EntryFit
    <2> QED
      BY <1>0, <2>1, <2>2 DEF SubmitterQuiet, EntryFit
  <1>9. CASE RequestWake(s)
    <2>1. Others /\ pc[s] = "token" /\ pc'[s] \in {"leave", "wakeNotify"} /\ job'[s] = job[s] /\ entry'[s] = entry[s]
      BY <1>0, <1>9 DEF RequestWake
    <2>2. EntryFit(s)'
      BY <1>0, <2>1 DEF EntryFit
    <2> QED
      BY <1>0, <2>1, <2>2 DEF SubmitterQuiet, EntryFit
  <1>10. CASE NotifyUnderLock(s)
    <2>0. pc[s] # "stopNotify"
      BY DEF TypeOK, PcOK, SubmitterPcs
    <2>1. /\ Others /\ job'[s] = job[s] /\ entry'[s] = entry[s]
          /\ \/ pc[s] = "wakeNotify" /\ pc'[s] = "leave"
             \/ pc[s] = "rejectNotify" /\ pc'[s] = "leave"
             \/ pc[s] = "departNotify" /\ pc'[s] = AfterSubmit(s)
             \/ pc[s] = "settleNotify" /\ pc'[s] = "cancelEntry"
      BY <1>0, <1>10, <2>0 DEF NotifyUnderLock, AfterSettle
    <2>2. EntryFit(s)'
      BY <1>0, <2>1 DEF EntryFit, AfterSubmit
    <2> QED
      BY <1>0, <2>1, <2>2 DEF SubmitterQuiet, EntryFit, AfterSubmit
  <1>11. CASE Leave(s)
    <2>1. Others /\ pc[s] = "leave" /\ pc'[s] \in {"departOpen", AfterSubmit(s)} /\ job'[s] = job[s] /\ entry'[s] = entry[s]
      BY <1>0, <1>11 DEF Leave
    <2>2. EntryFit(s)'
      BY <1>0, <2>1 DEF EntryFit, AfterSubmit
    <2> QED
      BY <1>0, <2>1, <2>2 DEF SubmitterQuiet, EntryFit, AfterSubmit
  <1>12. CASE DepartOpen(s)
    <2>1. Others /\ pc[s] = "departOpen" /\ pc'[s] \in {"departWaiters", "departNotify"} /\ job'[s] = job[s] /\ entry'[s] = entry[s]
      BY <1>0, <1>12 DEF DepartOpen
    <2>2. EntryFit(s)'
      BY <1>0, <2>1 DEF EntryFit
    <2> QED
      BY <1>0, <2>1, <2>2 DEF SubmitterQuiet, EntryFit
  <1>13. CASE DepartWaiters(s)
    <2>1. Others /\ pc[s] = "departWaiters" /\ pc'[s] \in {"departNotify", AfterSubmit(s)} /\ job'[s] = job[s] /\ entry'[s] = entry[s]
      BY <1>0, <1>13 DEF DepartWaiters
    <2>2. EntryFit(s)'
      BY <1>0, <2>1 DEF EntryFit, AfterSubmit
    <2> QED
      BY <1>0, <2>1, <2>2 DEF SubmitterQuiet, EntryFit, AfterSubmit
  <1>14. CASE AwaitCapacity(s)
    <2>1. Others /\ pc[s] = "awaitCapacity" /\ pc'[s] = "retry" /\ job'[s] = job[s] /\ entry'[s] = entry[s]
      BY <1>0, <1>14 DEF AwaitCapacity
    <2>2. EntryFit(s)'
      BY <1>0, <2>1 DEF EntryFit
    <2> QED
      BY <1>0, <2>1, <2>2 DEF SubmitterQuiet, EntryFit
  <1> QED
    BY <1>1, <1>2, <1>3, <1>4, <1>5, <1>6, <1>7, <1>8, <1>9, <1>10, <1>11, <1>12, <1>13, <1>14 DEF SubmitterStep

\* try_take_queued_job hands the front of the queue to the worker.
LEMMA ClaimOwn ==
  ASSUME TypeOK, Own, NEW w \in Workers, Claim(w)
  PROVE  Own'
  <1> USE Roles
  <1>0. /\ w \in Threads /\ DOMAIN pc = Threads /\ DOMAIN job = Submitters /\ DOMAIN work = Threads
        /\ DOMAIN entry = Submitters /\ pc[w] = "claim" /\ queue \in Seq(Submitters)
        /\ UNCHANGED <<qlock, target>> /\ qlock = w /\ queue # <<>> /\ IsInjective(queue)
    BY DEF Claim, TypeOK, PcOK, DataOK, Own, QueueHeld, OneHolder
  <1> PICK j \in Submitters : j = Head(queue)
    BY <1>0, TailDistinct
  <1> DEFINE hand == <<j>>
  <1>1. /\ pc'[w] = "claimed" /\ entry'[j] = "taken" /\ job'[j] = "running" /\ queue' = Tail(queue)
        /\ \A u \in Threads \ {w} : pc'[u] = pc[u]
        /\ \A i \in Submitters \ {j} : job'[i] = job[i] /\ entry'[i] = entry[i]
    BY <1>0 DEF Claim
  <1>2. work'[w] = hand /\ \A u \in Threads \ {w} : work'[u] = work[u]
    BY <1>0 DEF Claim
  <1>3. hand \in Seq(Submitters) /\ ToSet(hand) = {j} /\ IsInjective(hand)
    BY OneJob
  <1>4. j \in ToSet(queue) /\ ToSet(queue') = ToSet(queue) \ {j} /\ IsInjective(queue')
    BY <1>0, <1>1, TailDistinct
  <1>5. job[j] = "queued" /\ EntryFit(j)
    BY <1>4 DEF Own, OneHolder, EntryFits
  <1>6. HandsFit'
    <2>1. ASSUME NEW u \in Threads \ {w}
          PROVE  HandFit(u)'
      BY <1>0, <1>1, <1>2, HandsKept DEF Own
    <2>2. HandFit(w)'
      BY <1>1, <1>2 DEF HandFit
    <2> QED
      BY <2>1, <2>2 DEF HandsFit
  <1> HIDE DEF hand
  <1>7. OneHolder'
    <2>1. \A u \in Threads : IsInjective(work'[u])
      BY <1>2, <1>3 DEF Own, OneHolder
    <2>2. ToSet(work[w]) = {}
      <3>1. work[w] = <<>>
        BY <1>0 DEF Own, HandsFit, HandFit
      <3> QED
        BY <3>1, NoJob
    <2>3. \A u \in Threads : \A i \in Submitters : i \in ToSet(work'[u]) <=> i \in ToSet(work[u]) \/ (u = w /\ i = j)
      BY <1>2, <1>3, <2>2
    <2>4. \A u \in Threads : j \notin ToSet(work[u])
      BY <1>5 DEF Own, OneHolder
    <2> QED
      BY <1>1, <1>4, <1>5, <2>1, <2>3, <2>4 DEF Own, OneHolder
  <1>8. EntryFits'
    <2>1. pc'[j] = pc[j]
      BY <1>1
    <2>2. EntryFit(j)'
      BY <1>1, <1>5, <2>1 DEF EntryFit
    <2>3. \A i \in Submitters : (pc'[i] = pc[i] /\ job'[i] = job[i] /\ entry'[i] = entry[i]) \/ EntryFit(i)'
      BY <1>1, <2>2
    <2> QED
      BY <2>3, EntriesKept
  <1>9. QueueHeld'
    BY <1>0, <1>1 DEF Own, QueueHeld
  <1> QED
    BY <1>6, <1>7, <1>8, <1>9 DEF Own

\* The run callback ends: the worker lets go of its job.
LEMMA RunOwn ==
  ASSUME TypeOK, Own, NEW w \in Workers, Run(w)
  PROVE  Own'
  <1> USE Roles
  <1>0. /\ w \in Threads /\ DOMAIN pc = Threads /\ DOMAIN job = Submitters /\ DOMAIN work = Threads
        /\ pc[w] = "run" /\ UNCHANGED <<queue, entry, qlock, target>>
    BY DEF Run, TypeOK, PcOK, DataOK
  <1>1. \E j \in Submitters : work[w] = <<j>>
    BY <1>0 DEF Own, HandsFit, HandFit
  <1> PICK j \in Submitters : work[w] = <<j>>
    BY <1>1
  <1>2. Head(work[w]) = j /\ ToSet(work[w]) = {j}
    BY OneJob
  <1>3. /\ pc'[w] = "settle" /\ job'[j] = "completed" /\ work'[w] = <<>>
        /\ \A u \in Threads \ {w} : pc'[u] = pc[u] /\ work'[u] = work[u]
        /\ \A i \in Submitters \ {j} : job'[i] = job[i]
    BY <1>0, <1>2 DEF Run
  <1>4. ToSet(work'[w]) = {} /\ IsInjective(work'[w])
    BY <1>3, NoJob
  <1>5. job[j] = "running" /\ EntryFit(j)
    BY <1>0, <1>2 DEF Own, OneHolder, EntryFits
  <1>6. HandsFit'
    <2>1. ASSUME NEW u \in Threads \ {w}
          PROVE  HandFit(u)'
      BY <1>0, <1>3, HandsKept DEF Own
    <2>2. HandFit(w)'
      BY <1>3 DEF HandFit
    <2> QED
      BY <2>1, <2>2 DEF HandsFit
  <1>7. OneHolder'
    <2>1. \A u \in Threads : IsInjective(work'[u])
      BY <1>3, <1>4 DEF Own, OneHolder
    <2>2. \A u \in Threads : \A i \in Submitters : i \in ToSet(work'[u]) <=> i \in ToSet(work[u]) /\ i # j
      <3>1. \A u \in Threads \ {w} : j \notin ToSet(work[u])
        BY <1>0, <1>2 DEF Own, OneHolder
      <3> QED
        BY <1>2, <1>3, <1>4, <3>1
    <2> QED
      BY <1>0, <1>3, <1>5, <2>1, <2>2 DEF Own, OneHolder
  <1>8. EntryFits'
    <2>1. pc'[j] = pc[j] /\ entry'[j] = entry[j]
      BY <1>0, <1>3
    <2>2. EntryFit(j)'
      BY <1>3, <1>5, <2>1 DEF EntryFit
    <2>3. \A i \in Submitters : (pc'[i] = pc[i] /\ job'[i] = job[i] /\ entry'[i] = entry[i]) \/ EntryFit(i)'
      BY <1>0, <1>3, <2>2
    <2> QED
      BY <2>3, EntriesKept
  <1>9. QueueHeld'
    BY <1>0, <1>3, QueueKept
  <1> QED
    BY <1>6, <1>7, <1>8, <1>9 DEF Own

\* A thread's step that touches neither jobs nor the queue mutex.
Bystander(t) ==
  /\ UNCHANGED <<queue, work, job, entry, qlock, target>>
  /\ \A u \in Threads \ {t} : pc'[u] = pc[u]

\* The queue mutex is taken or released.
LEMMA MutexOwn ==
  ASSUME TypeOK, Own, NEW w \in Workers, TryTake(w) \/ AnnounceClaim(w)
  PROVE  Own'
  <1> USE Roles
  <1>0. /\ w \in Threads /\ UNCHANGED <<queue, work, job, entry, target>> /\ DOMAIN pc = Threads
        /\ \A u \in Threads \ {w} : pc'[u] = pc[u] /\ qlock \in Workers \cup {Free}
    BY DEF TryTake, AnnounceClaim, TypeOK, PcOK, DataOK
  <1>1. HandKept(w)
    BY <1>0 DEF TryTake, AnnounceClaim, HandKept
  <1>2. HandsFit'
    <2> SUFFICES ASSUME NEW u \in Threads
                 PROVE  HandFit(u)'
      BY DEF HandsFit
    <2> QED
      BY <1>0, <1>1, HandsKept DEF Own
  <1>3. OneHolder'
    BY <1>0, HoldersKept DEF Own
  <1>4. EntryFits'
    <2>1. \A i \in Submitters : (pc'[i] = pc[i] /\ job'[i] = job[i] /\ entry'[i] = entry[i]) \/ EntryFit(i)'
      BY <1>0
    <2> QED
      BY <2>1, EntriesKept
  <1>5. QueueHeld'
    <2>1. Free \notin Workers
      BY PoolAssumption
    <2> QED
      BY <1>0, <2>1 DEF TryTake, AnnounceClaim, Own, QueueHeld
  <1> QED
    BY <1>2, <1>3, <1>4, <1>5 DEF Own

\* A bystander keeps the holders.
LEMMA BystanderOwn ==
  ASSUME TypeOK, Own, NEW t \in Threads \ Submitters, Bystander(t), HandKept(t),
         t \in Workers => pc'[t] \notin {"claim", "claimed"}
  PROVE  Own'
  <1>1. /\ \A u \in Threads : pc'[u] = pc[u] \/ HandKept(u)
        /\ \A w \in Workers : pc'[w] = pc[w] \/ pc'[w] \notin {"claim", "claimed"}
    BY Roles DEF Bystander
  <1>2. \A i \in Submitters : (pc'[i] = pc[i] /\ job'[i] = job[i] /\ entry'[i] = entry[i]) \/ EntryFit(i)'
    BY Roles DEF Bystander
  <1> QED
    BY <1>1, <1>2, OwnKept, Roles DEF Bystander

\* Workers keep one holder for every job.
LEMMA WorkerOwn ==
  ASSUME TypeOK, Own, NEW w \in Workers, WorkerStep(w) \/ KeepAliveElapses(w)
  PROVE  Own'
  <1> DEFINE Quiet == Bystander(w) /\ pc[w] \notin {"claimed", "run"} /\ pc'[w] \notin {"claim", "claimed", "run"}
  <1>0. ASSUME Quiet
        PROVE  Own'
    <2>1. HandKept(w) /\ w \in Threads \ Submitters
      BY <1>0, Roles DEF HandKept
    <2> QED
      BY <1>0, <2>1, BystanderOwn
  <1> SUFFICES ASSUME ~Claim(w), ~Run(w), ~TryTake(w), ~AnnounceClaim(w)
               PROVE  Quiet
    BY <1>0, ClaimOwn, RunOwn, MutexOwn
  <1>1. w \in Threads /\ w \notin Submitters /\ DOMAIN pc = Threads /\ pc[w] \in WorkerPcs
    BY Roles DEF TypeOK, PcOK
  <1> USE <1>1 DEF Bystander
  <1>2. CASE Settle(w)
    BY <1>2 DEF Settle, AfterSettle
  <1>3. CASE NotifyUnderLock(w)
    BY <1>3 DEF NotifyUnderLock, AfterSettle, WorkerPcs
  <1>4. CASE Check(w)
    BY <1>4 DEF Check, Unregister
  <1>5. CASE Relock(w)
    BY <1>5 DEF Relock
  <1>6. CASE IdleQueued(w)
    BY <1>6 DEF IdleQueued
  <1>7. CASE IdlePending(w)
    BY <1>7 DEF IdlePending, Parks, Wait
  <1>8. CASE Awaken(w)
    BY <1>8 DEF Awaken
  <1>9. CASE TimedOut(w)
    BY <1>9 DEF TimedOut
  <1>10. CASE RetireQueued(w)
    BY <1>10 DEF RetireQueued
  <1>11. CASE RetirePending(w)
    BY <1>11 DEF RetirePending
  <1>12. CASE RetireInflight(w)
    BY <1>12 DEF RetireInflight
  <1>13. CASE Unmark(w)
    BY <1>13 DEF Unmark
  <1>14. CASE Consume(w)
    BY <1>14 DEF Consume, Unregister
  <1>15. CASE SdInflight(w)
    BY <1>15 DEF SdInflight, Unregister
  <1>16. CASE SdMark(w)
    BY <1>16 DEF SdMark
  <1>17. CASE SdQueued(w)
    BY <1>17 DEF SdQueued
  <1>18. CASE SdPark(w)
    BY <1>18 DEF SdPark, Parks, Wait
  <1>19. CASE FinishExit(w)
    BY <1>19 DEF FinishExit
  <1>20. CASE KeepAliveElapses(w)
    BY <1>20 DEF KeepAliveElapses
  <1> QED
    BY <1>2, <1>3, <1>4, <1>5, <1>6, <1>7, <1>8, <1>9, <1>10, <1>11, <1>12, <1>13, <1>14, <1>15, <1>16, <1>17, <1>18, <1>19, <1>20 DEF WorkerStep

\* A ticket's question reserves a cancellation while acceptance runs.
LEMMA AskOwn ==
  ASSUME TypeOK, Own, NEW c \in Cancellers, AskTicket(c)
  PROVE  Own'
  <1> USE Roles
  <1> PICK j \in Tickets : /\ target' = [target EXCEPT ![c] = j]
                           /\ entry' = [entry EXCEPT ![j] = IF @ = "accepting" THEN "requested" ELSE @]
                           /\ Goto(c, IF entry[j] = "accepting" THEN "await"
                                      ELSE IF entry[j] = "queued" THEN "withdraw" ELSE "false")
    BY DEF AskTicket
  <1>0. /\ c \in Threads /\ DOMAIN pc = Threads /\ DOMAIN entry = Submitters /\ pc[c] = "start" /\ j \in Submitters
        /\ UNCHANGED <<queue, work, job, qlock>> /\ DOMAIN target = Cancellers
    BY PoolAssumption DEF AskTicket, Calls, TypeOK, PcOK, DataOK
  <1>1. /\ \A u \in Threads \ {c} : pc'[u] = pc[u]
        /\ pc'[c] # "cancel" /\ \A d \in Cancellers \ {c} : target'[d] = target[d]
        /\ \A i \in Submitters \ {j} : entry'[i] = entry[i]
        /\ entry'[j] = entry[j] \/ (entry[j] = "accepting" /\ entry'[j] = "requested")
    BY <1>0
  <1>2. HandKept(c)
    BY <1>0, <1>1 DEF HandKept
  <1>3. EntryFit(j)'
    <2>1. EntryFit(j) /\ pc'[j] = pc[j] /\ job'[j] = job[j]
      BY <1>0, <1>1 DEF Own, EntryFits
    <2> QED
      BY <1>0, <1>1, <2>1 DEF EntryFit
  <1>4. \A i \in Submitters : (pc'[i] = pc[i] /\ job'[i] = job[i] /\ entry'[i] = entry[i]) \/ EntryFit(i)'
    BY <1>0, <1>1, <1>3
  <1>5. /\ \A u \in Threads : pc'[u] = pc[u] \/ HandKept(u)
        /\ \A d \in Cancellers : pc[d] = "cancel" => target'[d] = target[d]
        /\ \A w \in Workers : pc'[w] = pc[w] \/ pc'[w] \notin {"claim", "claimed"}
    BY <1>0, <1>1, <1>2
  <1> QED
    BY <1>0, <1>4, <1>5, OwnKept

\* A withdrawal hands the job from the queue to the ticket's caller.
LEMMA WithdrawOwn ==
  ASSUME TypeOK, Own, NEW c \in Cancellers, Withdraw(c), entry[target[c]] = "queued", pc'[c] = "cancel"
  PROVE  Own'
  <1> USE Roles
  <1>0. /\ c \in Threads /\ DOMAIN pc = Threads /\ DOMAIN job = Submitters /\ DOMAIN work = Threads
        /\ DOMAIN entry = Submitters /\ pc[c] = "withdraw" /\ queue \in Seq(Submitters)
        /\ UNCHANGED <<qlock, target>> /\ qlock = Free /\ IsInjective(queue)
    BY DEF Withdraw, TypeOK, PcOK, DataOK, Own, OneHolder
  <1>1. \E i \in DOMAIN queue : /\ queue[i] = target[c] /\ queue' = RemoveAt(queue, i)
                                /\ entry' = [entry EXCEPT ![target[c]] = "taken"]
                                /\ job' = [job EXCEPT ![target[c]] = "cancelling"]
                                /\ work' = [work EXCEPT ![c] = <<target[c]>>]
                                /\ Goto(c, "cancel")
    <2>1. ~Goto(c, "false")
      BY <1>0
    <2> QED
      BY <2>1 DEF Withdraw
  <1> PICK i \in DOMAIN queue : /\ queue[i] = target[c] /\ queue' = RemoveAt(queue, i)
                                /\ entry' = [entry EXCEPT ![target[c]] = "taken"]
                                /\ job' = [job EXCEPT ![target[c]] = "cancelling"]
                                /\ work' = [work EXCEPT ![c] = <<target[c]>>]
                                /\ Goto(c, "cancel")
    BY <1>1
  <1>2. target[c] \in Submitters
    BY <1>0
  <1> PICK j \in Submitters : j = target[c]
    BY <1>2
  <1> DEFINE hand == <<j>>
  <1>3. /\ pc'[c] = "cancel" /\ entry'[j] = "taken" /\ job'[j] = "cancelling"
        /\ \A u \in Threads \ {c} : pc'[u] = pc[u]
        /\ \A k \in Submitters \ {j} : job'[k] = job[k] /\ entry'[k] = entry[k]
    BY <1>0
  <1>4. work'[c] = hand /\ \A u \in Threads \ {c} : work'[u] = work[u]
    BY <1>0
  <1>5. hand \in Seq(Submitters) /\ ToSet(hand) = {j} /\ IsInjective(hand)
    BY OneJob
  <1>6. j \in ToSet(queue) /\ ToSet(queue') = ToSet(queue) \ {j} /\ IsInjective(queue')
    BY <1>0, RemoveAtDistinct
  <1>7. job[j] = "queued" /\ EntryFit(j)
    BY <1>6 DEF Own, OneHolder, EntryFits
  <1>8. HandsFit'
    <2>1. ASSUME NEW u \in Threads \ {c}
          PROVE  HandFit(u)'
      BY <1>0, <1>3, <1>4, HandsKept DEF Own
    <2>2. HandFit(c)'
      <3>1. target'[c] = j
        BY <1>0
      <3> QED
        BY <1>3, <1>4, <3>1 DEF HandFit
    <2> QED
      BY <2>1, <2>2 DEF HandsFit
  <1> HIDE DEF hand
  <1>9. OneHolder'
    <2>1. \A u \in Threads : IsInjective(work'[u])
      BY <1>4, <1>5 DEF Own, OneHolder
    <2>2. ToSet(work[c]) = {}
      <3>1. work[c] = <<>>
        BY <1>0 DEF Own, HandsFit, HandFit
      <3> QED
        BY <3>1, NoJob
    <2>3. \A u \in Threads : \A k \in Submitters : k \in ToSet(work'[u]) <=> k \in ToSet(work[u]) \/ (u = c /\ k = j)
      BY <1>4, <1>5, <2>2
    <2>4. \A u \in Threads : j \notin ToSet(work[u])
      BY <1>7 DEF Own, OneHolder
    <2> QED
      BY <1>3, <1>6, <1>7, <2>1, <2>3, <2>4 DEF Own, OneHolder
  <1>10. EntryFits'
    <2>1. pc'[j] = pc[j]
      BY <1>3
    <2>2. EntryFit(j)'
      BY <1>3, <1>7, <2>1 DEF EntryFit
    <2>3. \A k \in Submitters : (pc'[k] = pc[k] /\ job'[k] = job[k] /\ entry'[k] = entry[k]) \/ EntryFit(k)'
      BY <1>3, <2>2
    <2> QED
      BY <2>3, EntriesKept
  <1>11. QueueHeld'
    <2>1. \A w \in Workers : qlock # w
      BY <1>0, PoolAssumption
    <2>2. \A w \in Workers : pc'[w] = pc[w]
      BY <1>0, <1>3
    <2> QED
      BY <2>1, <2>2, QueueKept
  <1> QED
    BY <1>8, <1>9, <1>10, <1>11 DEF Own

\* Callers of cancel_queued keep one holder for every job.
LEMMA CancellerOwn ==
  ASSUME TypeOK, Own, NEW c \in Cancellers, CancellerStep(c)
  PROVE  Own'
  <1> USE Roles
  <1> DEFINE Quiet == Bystander(c) /\ pc[c] # "cancel" /\ pc'[c] # "cancel"
  <1>0. ASSUME Quiet
        PROVE  Own'
    <2>1. HandKept(c) /\ c \in Threads \ Submitters /\ c \notin Workers
      BY <1>0 DEF HandKept
    <2> QED
      BY <1>0, <2>1, BystanderOwn
  <1>1. c \in Threads /\ c \notin Submitters /\ c \notin Workers /\ DOMAIN pc = Threads /\ pc[c] \in CancellerPcs
    BY DEF TypeOK, PcOK
  <1>2. CASE AwaitDecision(c)
    <2>1. Quiet
      BY <1>1, <1>2 DEF AwaitDecision, Bystander
    <2> QED
      BY <1>0, <2>1
  <1>3. CASE Settle(c)
    <2>1. Quiet
      BY <1>1, <1>3 DEF Settle, AfterSettle, Bystander
    <2> QED
      BY <1>0, <2>1
  <1>4. CASE NotifyUnderLock(c)
    <2>1. Quiet
      BY <1>1, <1>4 DEF NotifyUnderLock, AfterSettle, Bystander, CancellerPcs
    <2> QED
      BY <1>0, <2>1
  <1>5. CASE Withdraw(c)
    <2>1. CASE Goto(c, "false") /\ UNCHANGED <<jobs, work>>
      <3>1. Quiet
        BY <1>1, <1>5, <2>1 DEF Withdraw, Bystander
      <3> QED
        BY <1>0, <3>1
    <2>2. CASE entry[target[c]] = "queued" /\ Goto(c, "cancel")
      <3>1. pc'[c] = "cancel"
        BY <1>1, <2>2
      <3> QED
        BY <1>5, <2>2, <3>1, WithdrawOwn
    <2> QED
      BY <1>5, <2>1, <2>2 DEF Withdraw
  <1>6. c \in Threads \ Workers
    BY <1>1
  <1> QED
    BY <1>2, <1>3, <1>4, <1>5, <1>6, AskOwn, CancelOwn DEF CancellerStep

\* drain_visible_queued_jobs hands the whole queue to the caller of stop.
LEMMA DrainOwn ==
  ASSUME TypeOK, Own, NEW t \in Stops, Drain(t)
  PROVE  Own'
  <1> USE Roles
  <1>0. /\ t \in Controllers \cup Builders /\ t \in Threads /\ t \notin Submitters /\ t \notin Workers
        /\ t \notin Cancellers
        /\ DOMAIN pc = Threads /\ DOMAIN work = Threads /\ queue \in Seq(Submitters)
        /\ pc[t] = "drain" /\ qlock = Free /\ UNCHANGED <<qlock, target>> /\ IsInjective(queue)
    BY DEF Stops, Drain, TypeOK, PcOK, DataOK, Own, OneHolder
  <1>1. /\ work'[t] = queue /\ \A u \in Threads \ {t} : work'[u] = work[u]
        /\ queue' = <<>>
        /\ \A i \in ToSet(queue) \cap Submitters : job'[i] = "cancelling" /\ entry'[i] = "taken"
        /\ \A i \in Submitters \ ToSet(queue) : job'[i] = job[i] /\ entry'[i] = entry[i]
        /\ pc'[t] = (IF queue = <<>> THEN "stopNotify" ELSE "cancel")
        /\ \A u \in Threads \ {t} : pc'[u] = pc[u]
    BY <1>0 DEF Drain
  <1>2. ToSet(queue') = {} /\ IsInjective(queue')
    BY <1>1, NoJob
  <1>3. work[t] = <<>> /\ ToSet(work[t]) = {}
    <2>1. work[t] = <<>>
      BY <1>0 DEF Own, HandsFit, HandFit
    <2> QED
      BY <2>1, NoJob
  <1>4. HandsFit'
    <2>1. ASSUME NEW u \in Threads \ {t}
          PROVE  HandFit(u)'
      BY <1>0, <1>1, HandsKept DEF Own
    <2>2. HandFit(t)'
      BY <1>0, <1>1 DEF HandFit
    <2> QED
      BY <2>1, <2>2 DEF HandsFit
  <1>5. OneHolder'
    <2>1. \A u \in Threads : IsInjective(work'[u])
      BY <1>0, <1>1 DEF Own, OneHolder
    <2>2. \A u \in Threads : \A i \in Submitters :
            i \in ToSet(work'[u]) <=> i \in ToSet(work[u]) \/ (u = t /\ i \in ToSet(queue))
      BY <1>1, <1>3
    <2>3. \A u \in Threads : \A i \in Submitters : i \in ToSet(queue) => i \notin ToSet(work[u]) /\ job[i] = "queued"
      BY DEF Own, OneHolder
    <2> QED
      BY <1>0, <1>1, <1>2, <2>1, <2>2, <2>3 DEF Own, OneHolder
  <1>6. EntryFits'
    <2>1. ASSUME NEW i \in Submitters, i \in ToSet(queue)
          PROVE  EntryFit(i)'
      <3>1. EntryFit(i) /\ job[i] = "queued" /\ pc'[i] = pc[i] /\ job'[i] = "cancelling" /\ entry'[i] = "taken"
        BY <1>0, <1>1, <2>1 DEF Own, OneHolder, EntryFits
      <3> QED
        BY <3>1 DEF EntryFit
    <2>2. \A i \in Submitters : (pc'[i] = pc[i] /\ job'[i] = job[i] /\ entry'[i] = entry[i]) \/ EntryFit(i)'
      BY <1>0, <1>1, <2>1
    <2> QED
      BY <2>2, EntriesKept
  <1>7. QueueHeld'
    <2>1. \A w \in Workers : qlock # w
      BY <1>0, PoolAssumption
    <2>2. \A w \in Workers : pc'[w] = pc[w]
      BY <1>0, <1>1
    <2> QED
      BY <2>1, <2>2, QueueKept
  <1> QED
    BY <1>4, <1>5, <1>6, <1>7 DEF Own

\* Callers of stop, and a build that failed, keep one holder for every job.
LEMMA StopOwn ==
  ASSUME TypeOK, Own, NEW t \in Stops, StopStep(t)
  PROVE  Own'
  <1> USE Roles
  <1>0. /\ t \in Controllers \cup Builders /\ t \in Threads /\ t \notin Submitters /\ t \notin Workers
        /\ t \notin Cancellers /\ DOMAIN pc = Threads /\ pc[t] \in ControllerPcs \cup BuilderPcs
        /\ t \in Threads \ Workers /\ t \in Threads \ Submitters
    BY DEF Stops, TypeOK, PcOK
  <1>1. HandFit(t)
    BY <1>0 DEF Own, HandsFit
  <1>2. ASSUME Bystander(t), HandKept(t)
        PROVE  Own'
    BY <1>0, <1>2, BystanderOwn
  <1> SUFFICES ASSUME ~Drain(t), ~CancelCallback(t)
               PROVE  Bystander(t) /\ HandKept(t)
    BY <1>0, <1>2, DrainOwn, CancelOwn
  <1> USE <1>0, <1>1 DEF Bystander, HandKept, HandFit
  <1>3. CASE CloseAdmission(t, "stopNow")
    BY <1>3 DEF CloseAdmission, Calls
  <1>4. CASE SetStopNow(t)
    BY <1>4 DEF SetStopNow
  <1>5. CASE BeginStop(t)
    BY <1>5 DEF BeginStop
  <1>6. CASE AwaitSubmitters(t)
    BY <1>6 DEF AwaitSubmitters, Wait
  <1>7. CASE ResumeStop(t)
    BY <1>7 DEF ResumeStop
  <1>8. CASE Settle(t)
    BY <1>8 DEF Settle, AfterSettle
  <1>9. CASE NotifyUnderLock(t)
    BY <1>9 DEF NotifyUnderLock, AfterSettle, ControllerPcs, BuilderPcs, StopPcs
  <1> QED
    BY <1>3, <1>4, <1>5, <1>6, <1>7, <1>8, <1>9 DEF StopStep

\* The other callers, and the construction, have nothing to do with jobs.
LEMMA OtherOwn ==
  ASSUME TypeOK, Own, NEW t \in Threads,
         \/ t \in Shutdowners /\ ShutdownStep(t)
         \/ t \in Joiners /\ JoinStep(t)
         \/ t \in Waiters /\ (WaiterStep(t) \/ TimeoutElapses(t))
         \/ t \in Tuners /\ TuneStep(t)
         \/ t \in Builders /\ (PrestartAll(t) \/ AwaitEnd(t))
  PROVE  Own'
  <1> USE Roles
  <1>0. /\ t \in Controllers \cup Builders /\ t \notin Submitters /\ t \notin Workers
        /\ t \notin Cancellers /\ DOMAIN pc = Threads /\ t \in Threads \ Submitters
    BY DEF TypeOK, PcOK
  <1>1. HandFit(t)
    BY DEF Own, HandsFit
  <1>2. ASSUME Bystander(t), pc[t] \notin {"cancel", "settle", "settleNotify"},
               pc'[t] \notin {"cancel", "settle", "settleNotify"}
        PROVE  Own'
    <2>1. HandKept(t)
      BY <1>0, <1>1, <1>2 DEF HandKept, HandFit
    <2> QED
      BY <1>0, <1>2, <2>1, BystanderOwn
  <1>3. CASE t \in Shutdowners /\ ShutdownStep(t)
    <2>1. Bystander(t) /\ pc[t] \in {"start", "announce", "shutdown", "buildFailed"} /\ pc'[t] \in {"announce", "shutdown", "done"}
      BY <1>0, <1>3 DEF ShutdownStep, CloseAdmission, Calls, AnnounceShutdown, BeginShutdown, Bystander
    <2> QED
      BY <1>2, <2>1
  <1>4. CASE t \in Joiners /\ JoinStep(t)
    <2>1. Bystander(t) /\ pc[t] \in {"start", "join"} /\ pc'[t] \in {"join", "done"}
      BY <1>0, <1>4 DEF JoinStep, BeginJoin, Calls, Join, Wait, Bystander
    <2> QED
      BY <1>2, <2>1
  <1>5. CASE t \in Waiters /\ (WaiterStep(t) \/ TimeoutElapses(t))
    <2>1. Bystander(t) /\ pc[t] = "start" /\ pc'[t] \in {"start", "done"}
      BY <1>0, <1>5 DEF WaiterStep, AwaitTermination, SubscribeTermination, WatchTermination, TimeoutElapses,
                        Calls, Wait, Bystander
    <2> QED
      BY <1>2, <2>1
  <1>6. CASE (t \in Tuners /\ NotifyTuned(t)) \/ (t \in Builders /\ AwaitEnd(t))
    <2>1. Bystander(t) /\ pc[t] \in {"tuned", "awaitEnd"} /\ pc'[t] \in {"done", "awaitEnd", "failed"}
      BY <1>0, <1>6 DEF NotifyTuned, AwaitEnd, Wait, Bystander
    <2> QED
      BY <1>2, <2>1
  <1>7. CASE (t \in Tuners /\ Tune(t)) \/ (t \in Builders /\ PrestartAll(t))
    <2>1. /\ UNCHANGED <<queue, work, job, entry, qlock, target>>
          /\ pc[t] \in {"start", "prestart"} /\ pc'[t] \in {"tuned", "done", "ready", "buildFailed", "prestart"}
      BY <1>7, TuneMoves, PrestartMoves
    <2>2. \A u \in Threads \ {t} : pc'[u] = pc[u] \/ (u \in Workers /\ pc[u] = "off" /\ pc'[u] = "take")
      BY <1>7, TuneMoves, PrestartMoves DEF Starts
    <2>3. HandKept(t)
      BY <1>0, <1>1, <2>1 DEF HandKept, HandFit
    <2>4. /\ \A u \in Threads : pc'[u] = pc[u] \/ HandKept(u)
          /\ \A w \in Workers : pc'[w] = pc[w] \/ pc'[w] \notin {"claim", "claimed"}
      BY <1>0, <2>2, <2>3 DEF HandKept
    <2>5. \A i \in Submitters : (pc'[i] = pc[i] /\ job'[i] = job[i] /\ entry'[i] = entry[i]) \/ EntryFit(i)'
      BY <1>0, <2>1, <2>2
    <2> QED
      BY <2>1, <2>4, <2>5, OwnKept
  <1> QED
    BY <1>3, <1>4, <1>5, <1>6, <1>7 DEF TuneStep

\* Every step keeps one holder for every job.
LEMMA OwnStep ==
  ASSUME TypeOK, Own, [Next]_vars
  PROVE  Own'
  <1> USE Roles
  <1>1. ASSUME NEW t \in Threads, ThreadStep(t)
        PROVE  Own'
    BY <1>1, SubmitterOwn, WorkerOwn, CancellerOwn, StopOwn, OtherOwn DEF ThreadStep, BuilderStep, Stops
  <1>2. CASE UNCHANGED vars
    <2>1. UNCHANGED <<queue, work, qlock, target, job, entry, pc>>
      BY <1>2 DEF vars
    <2>2. \A s \in Submitters : \/ pc'[s] = pc[s] /\ job'[s] = job[s] /\ entry'[s] = entry[s]
                               \/ EntryFit(s)'
      BY <2>1
    <2> QED
      BY <2>1, <2>2, OwnKept
  <1> QED
    BY <1>1, <1>2, WorkerOwn, OtherOwn DEF Next

(***************************************************************************)
(* A job has exactly one holder while it runs or is being cancelled, as    *)
(* SoleOwner counts.                                                       *)
(***************************************************************************)
LEMMA OwnIsSole ==
  ASSUME TypeOK, Own
  PROVE  SoleOwner
  <1> SUFFICES ASSUME NEW j \in Submitters
               PROVE  /\ job[j] = "queued" <=> j \in ToSet(queue)
                      /\ Cardinality({i \in DOMAIN queue : queue[i] = j}) <= 1
                      /\ Cardinality(Owners(j)) = IF job[j] \in {"running", "cancelling"} THEN 1 ELSE 0
                      /\ job[j] = "running" => Owners(j) \subseteq Workers
                      /\ job[j] = "cancelling" => Owners(j) \cap Workers = {}
    BY DEF SoleOwner
  <1> DEFINE Places == {i \in DOMAIN queue : queue[i] = j}
  <1>1. Cardinality(Owners(j)) = IF Owners(j) = {} THEN 0 ELSE 1
    BY CardinalityAtMostOne DEF Owners, Own, OneHolder
  <1>2. Cardinality(Places) = IF Places = {} THEN 0 ELSE 1
    BY CardinalityAtMostOne DEF Own, OneHolder, IsInjective
  <1>3. Cardinality(Places) <= 1
    BY <1>2
  <1>4. Owners(j) = {} <=> job[j] \notin {"running", "cancelling"}
    BY DEF Owners, Own, OneHolder
  <1>5. Cardinality(Owners(j)) = IF job[j] \in {"running", "cancelling"} THEN 1 ELSE 0
    BY <1>1, <1>4
  <1>6. job[j] = "queued" <=> j \in ToSet(queue)
    BY DEF Own, OneHolder
  <1>7. \A t \in Threads : j \in ToSet(work[t]) => job[j] = IF t \in Workers THEN "running" ELSE "cancelling"
    BY DEF Own, OneHolder
  <1>8. job[j] = "running" => Owners(j) \subseteq Workers
    BY <1>7 DEF Owners
  <1>9. job[j] = "cancelling" => Owners(j) \cap Workers = {}
    BY <1>7, Roles DEF Owners
  <1> QED
    BY <1>3, <1>5, <1>6, <1>8, <1>9

-----------------------------------------------------------------------------
\* What a step of each actor may change.

Stays(j) == job'[j] = job[j] /\ entry'[j] = entry[j]
Taken(j, next) == job[j] = "queued" /\ job'[j] = next /\ entry'[j] = "taken"
Ends(j, from, to) == job[j] = from /\ job'[j] = to /\ entry'[j] = entry[j]

\* A worker takes jobs from the queue and completes them, and concerns no other thread.
LEMMA WorkerFrame ==
  ASSUME TypeOK, Own, NEW w \in Workers, WorkerStep(w) \/ KeepAliveElapses(w)
  PROVE  /\ UNCHANGED <<lifecycle, config, flags, target, before, report>>
         /\ pc[w] # "off" /\ \A u \in Threads \ {w} : pc'[u] = pc[u]
         /\ waiting' \subseteq waiting \cup {w}
         /\ \A j \in Submitters : Stays(j) \/ Taken(j, "running") \/ Ends(j, "running", "completed")
         /\ queue' = queue \/ queue # <<>>
  <1> USE Roles
  <1>0. \A u \in Threads \ {w} : pc'[u] = pc[u]
    BY WorkerCounters DEF Balanced
  <1>1. CASE Claim(w)
    <2>1. queue # <<>> /\ queue \in Seq(Submitters) /\ DOMAIN job = Submitters /\ DOMAIN entry = Submitters
      BY <1>1 DEF Claim, Own, QueueHeld, TypeOK, DataOK
    <2>2. Head(queue) \in Submitters /\ Head(queue) \in ToSet(queue)
      BY <2>1, TailDistinct
    <2>3. job[Head(queue)] = "queued"
      BY <2>2 DEF Own, OneHolder
    <2>4. \A j \in Submitters : Stays(j) \/ Taken(j, "running")
      BY <1>1, <2>1, <2>2, <2>3 DEF Claim, Stays, Taken
    <2> QED
      BY <1>0, <1>1, <2>1, <2>4 DEF Claim
  <1>2. CASE Run(w)
    <2>1. \E j \in Submitters : work[w] = <<j>>
      BY <1>2 DEF Run, Own, HandsFit, HandFit
    <2> PICK j \in Submitters : work[w] = <<j>>
      BY <2>1
    <2>2. Head(work[w]) = j /\ ToSet(work[w]) = {j} /\ DOMAIN job = Submitters
      BY OneJob DEF TypeOK, DataOK
    <2>3. job[j] = "running"
      BY <2>2 DEF Own, OneHolder
    <2>4. \A i \in Submitters : Stays(i) \/ Ends(i, "running", "completed")
      BY <1>2, <2>2, <2>3 DEF Run, Stays, Ends
    <2> QED
      BY <1>0, <1>2, <2>4 DEF Run
  <1>3. CASE TryTake(w) \/ AnnounceClaim(w) \/ Settle(w)
    BY <1>0, <1>3 DEF TryTake, AnnounceClaim, Settle, Stays
  <1>4. CASE NotifyUnderLock(w) \/ FinishExit(w)
    BY <1>0, <1>4 DEF NotifyUnderLock, FinishExit, Stays
  <1>5. CASE Check(w) \/ Relock(w)
    BY <1>0, <1>5 DEF Check, Unregister, Relock, Stays
  <1>6. CASE IdleQueued(w) \/ IdlePending(w) \/ Awaken(w) \/ TimedOut(w) \/ KeepAliveElapses(w)
    BY <1>0, <1>6 DEF IdleQueued, IdlePending, Parks, Wait, Awaken, TimedOut, KeepAliveElapses, Stays
  <1>7. CASE RetireQueued(w) \/ RetirePending(w) \/ RetireInflight(w) \/ Unmark(w)
    BY <1>0, <1>7 DEF RetireQueued, RetirePending, RetireInflight, Unmark, Stays
  <1>8. CASE Consume(w) \/ SdInflight(w)
    BY <1>0, <1>8 DEF Consume, SdInflight, Unregister, Stays
  <1>9. CASE SdMark(w) \/ SdQueued(w) \/ SdPark(w)
    BY <1>0, <1>9 DEF SdMark, SdQueued, SdPark, Parks, Wait, Stays
  <1> QED
    BY <1>1, <1>2, <1>3, <1>4, <1>5, <1>6, <1>7, <1>8, <1>9 DEF WorkerStep

\* A cancellation ends the job in the hands of the thread.
LEMMA CancelMoves ==
  ASSUME TypeOK, Own, NEW t \in Threads \ Workers, CancelCallback(t)
  PROVE  /\ UNCHANGED <<monitor, lock, waiting, flags, wakes, queue, entry, qlock, locals, terminationTx>>
         /\ pc[t] = "cancel" /\ pc'[t] = "settle" /\ \A u \in Threads \ {t} : pc'[u] = pc[u]
         /\ \E j \in ToSet(work[t]) \cap Submitters : /\ Ends(j, "cancelling", "cancelled")
                                                      /\ \A i \in Submitters \ {j} : Stays(i)
         /\ t \in Submitters => Ends(t, "cancelling", "cancelled")
         /\ t \in Cancellers => target[t] \in Submitters /\ Ends(target[t], "cancelling", "cancelled")
  <1> USE Roles
  <1>0. /\ t \in Threads /\ DOMAIN pc = Threads /\ DOMAIN job = Submitters /\ pc[t] = "cancel"
        /\ work[t] \in Seq(Submitters) /\ HandFit(t)
    BY DEF CancelCallback, TypeOK, PcOK, DataOK, Own, HandsFit
  <1>1. /\ t \in Submitters => work[t] = <<t>>
        /\ t \in Cancellers => work[t] = <<target[t]>>
        /\ t \in Controllers \cup Builders => work[t] # <<>>
    BY <1>0 DEF HandFit
  <1>2. work[t] # <<>>
    <2>1. CASE t \in Submitters \cup Cancellers
      BY <1>1, <2>1
    <2> QED
      BY <1>1, <2>1 DEF Threads
  <1> PICK j \in Submitters : j = Head(work[t])
    BY <1>0, <1>2, TailDistinct
  <1>3. j \in ToSet(work[t]) /\ job[j] = "cancelling"
    <2>1. j \in ToSet(work[t])
      BY <1>0, <1>2, TailDistinct
    <2> QED
      BY <1>0, <2>1 DEF Own, OneHolder
  <1>4. (t \in Submitters => j = t) /\ (t \in Cancellers => j = target[t])
    BY <1>1
  <1>5. Ends(j, "cancelling", "cancelled") /\ \A i \in Submitters \ {j} : Stays(i)
    BY <1>0, <1>3 DEF CancelCallback, Ends, Stays
  <1>6. pc'[t] = "settle" /\ \A u \in Threads \ {t} : pc'[u] = pc[u]
    BY <1>0 DEF CancelCallback
  <1> QED
    BY <1>0, <1>3, <1>4, <1>5, <1>6 DEF CancelCallback

\* Where a submission may go, and what it may do to its own job.
LEMMA SubmitterFrame ==
  ASSUME TypeOK, Own, NEW s \in Submitters, SubmitterStep(s)
  PROVE  /\ UNCHANGED <<lifecycle, exiting, config, lock, flags, idle, target, timed, report>>
         /\ waiting' \subseteq waiting
         /\ \A u \in Threads \ {s} : \/ pc'[u] = pc[u]
                                     \/ /\ lifecycle = "Running" /\ lock = Free /\ pc[s] = "reserve"
                                        /\ u \in Workers /\ pc[u] = "off" /\ pc'[u] = "take"
         /\ \A i \in Submitters \ {s} : Stays(i)
         /\ pc'[s] # "start"
         /\ \/ /\ pc[s] \in {"start", "retry"} /\ job'[s] = "none" /\ entry'[s] = entry[s]
               /\ pc'[s] = (IF open THEN "reserve" ELSE "refused")
               /\ pc[s] = "start" => Calls(s)
               /\ before' = [t \in Joiners |-> before[t] \ {s}] /\ queue' = queue
            \/ /\ pc[s] \notin {"start", "retry", "accepting", "cancel"} /\ before' = before /\ queue' = queue
               /\ s \notin Inside => pc'[s] \notin {"reserve", "accept", "accepting", "released", "rejectEntry",
                                         "rejectNotify", "cancel", "settle", "settleNotify", "cancelEntry",
                                         "wake", "token", "wakeNotify", "leave"}
               /\ pc[s] # "reserve" => job'[s] = job[s]
               /\ pc[s] = "reserve" => job'[s] \in {"none", "saturated", "reserved"} /\ entry'[s] = entry[s]
               /\ \/ entry'[s] = entry[s]
                  \/ pc[s] = "accept" /\ entry'[s] = "accepting"
                  \/ pc[s] = "rejectEntry" /\ entry'[s] = "rejected"
                  \/ pc[s] = "cancelEntry" /\ entry'[s] = "cancelled"
            \/ /\ pc[s] = "accepting" /\ before' = before
               /\ \/ pc'[s] = "released" /\ job'[s] = "none" /\ entry'[s] = entry[s] /\ queue' = queue
                  \/ /\ pc'[s] = "cancel" /\ entry[s] = "requested" /\ job'[s] = "cancelling"
                     /\ entry'[s] = "cancelling" /\ queue' = queue
                  \/ /\ pc'[s] = "wake" /\ entry[s] # "requested" /\ job'[s] = "queued" /\ entry'[s] = "queued"
            \/ /\ pc[s] = "cancel" /\ pc'[s] = "settle" /\ Ends(s, "cancelling", "cancelled")
               /\ before' = before /\ queue' = queue
  <1> USE Roles
  <1>0. s \in Threads /\ DOMAIN pc = Threads /\ DOMAIN job = Submitters /\ DOMAIN entry = Submitters /\ pc[s] \in SubmitterPcs
    BY DEF TypeOK, PcOK, DataOK
  <1>1. ~ReserveSubmission(s) => \A u \in Threads \ {s} : pc'[u] = pc[u]
    BY SubmitterCounters DEF Balanced
  <1>2. CASE ReserveSubmission(s)
    <2>1. pc[s] = "reserve" /\ lock = Free
      BY <1>2 DEF ReserveSubmission
    <2>2. EntryFit(s) /\ job[s] = "none"
      BY <2>1 DEF Own, EntryFits, EntryFit
    <2>3. job'[s] \in {"none", "saturated", "reserved"} /\ pc'[s] \in {"leave", "accept", "accepting"}
      BY <1>2, <2>2, ReserveMoves DEF AfterReserve
    <2>4. \A i \in Submitters \ {s} : Stays(i)
      BY <1>2, ReserveMoves DEF Stays
    <2>5. \A u \in Threads \ {s} : \/ pc'[u] = pc[u]
                                   \/ /\ lifecycle = "Running" /\ u \in Workers /\ pc[u] = "off" /\ pc'[u] = "take"
      BY <1>2, ReserveMoves DEF Starts
    <2>6. s \in Inside
      BY <2>1 DEF Inside
    <2> QED
      BY <1>2, <2>1, <2>3, <2>4, <2>5, <2>6, ReserveMoves
  <1>3. CASE BeginSubmit(s)
    BY <1>0, <1>1, <1>3 DEF BeginSubmit, Stays, Calls
  <1>4. CASE BeginAccept(s)
    BY <1>0, <1>1, <1>4 DEF BeginAccept, Stays, Inside
  <1>5. CASE AcceptPanics(s)
    BY <1>0, <1>1, <1>5 DEF AcceptPanics, Stays
  <1>6. CASE AnnounceRelease(s) \/ RejectEntry(s)
    BY <1>0, <1>1, <1>6 DEF AnnounceRelease, RejectEntry, Stays, Inside
  <1>7. CASE Publish(s)
    BY <1>0, <1>1, <1>7 DEF Publish, Stays
  <1>8. CASE CancelCallback(s)
    <2>1. s \in Threads \ Workers
      BY <1>0
    <2>2. /\ pc[s] = "cancel" /\ pc'[s] = "settle" /\ Ends(s, "cancelling", "cancelled")
          /\ \A i \in Submitters \ {s} : Stays(i)
      BY <1>8, <2>1, CancelMoves DEF Ends, Stays
    <2> QED
      BY <1>1, <1>8, <2>1, <2>2, CancelMoves
  <1>9. CASE Settle(s) \/ CancelEntry(s)
    BY <1>0, <1>1, <1>9 DEF Settle, AfterSettle, CancelEntry, Stays, Inside
  <1>10. CASE LoadIdle(s) \/ RequestWake(s)
    BY <1>0, <1>1, <1>10 DEF LoadIdle, RequestWake, Stays, Inside
  <1>11. CASE NotifyUnderLock(s)
    BY <1>0, <1>1, <1>11 DEF NotifyUnderLock, AfterSettle, AfterSubmit, Stays, Inside, SubmitterPcs
  <1>12. CASE Leave(s) \/ DepartOpen(s) \/ DepartWaiters(s) \/ AwaitCapacity(s)
    BY <1>0, <1>1, <1>12 DEF Leave, DepartOpen, DepartWaiters, AwaitCapacity, AfterSubmit, Stays, Inside
  <1> QED
    BY <1>2, <1>3, <1>4, <1>5, <1>6, <1>7, <1>8, <1>9, <1>10, <1>11, <1>12 DEF SubmitterStep

\* What a ticket's call may do: reserve the cancellation, wait, withdraw the job, cancel it.
LEMMA CancellerFrame ==
  ASSUME TypeOK, Own, NEW c \in Cancellers, CancellerStep(c)
  PROVE  /\ UNCHANGED <<monitor, lock, flags, wakes, seen, timed, before, report>>
         /\ waiting' \subseteq waiting
         /\ \A u \in Threads \ {c} : pc'[u] = pc[u]
         /\ \A j \in Submitters : \/ Stays(j) \/ Taken(j, "cancelling") \/ Ends(j, "cancelling", "cancelled")
                                  \/ job'[j] = job[j] /\ entry[j] = "accepting" /\ entry'[j] = "requested"
         /\ queue' = queue \/ queue # <<>>
         /\ pc[c] = "start" => Calls(c)
         /\ \A d \in Cancellers \ {c} : target'[d] = target[d]
         /\ \/ /\ pc[c] = "start" /\ target'[c] \in Tickets
               /\ \/ pc'[c] = "await" /\ entry[target'[c]] = "accepting" /\ entry'[target'[c]] = "requested"
                  \/ pc'[c] \in {"withdraw", "false"}
            \/ /\ pc[c] = "await" /\ target' = target /\ \A j \in Submitters : Stays(j)
               /\ \/ pc'[c] = "true" /\ entry[target[c]] = "cancelled"
                  \/ pc'[c] = "false"
            \/ /\ pc[c] = "withdraw" /\ target' = target
               /\ pc'[c] = "false" \/ (pc'[c] = "cancel" /\ entry[target[c]] = "queued" /\ Taken(target[c], "cancelling"))
            \/ /\ pc[c] = "cancel" /\ target' = target /\ pc'[c] = "settle" /\ Ends(target[c], "cancelling", "cancelled")
            \/ /\ pc[c] \in {"settle", "settleNotify"} /\ target' = target /\ pc'[c] \in {"settleNotify", "true"}
               /\ \A j \in Submitters : Stays(j)
  <1> USE Roles
  <1>0. /\ c \in Threads /\ c \in Threads \ Workers /\ c \notin Submitters /\ DOMAIN pc = Threads
        /\ DOMAIN job = Submitters /\ DOMAIN entry = Submitters /\ DOMAIN target = Cancellers /\ pc[c] \in CancellerPcs
    BY DEF TypeOK, PcOK, DataOK
  <1>1. \A u \in Threads \ {c} : pc'[u] = pc[u]
    BY CancellerCounters DEF Balanced
  <1>2. CASE AskTicket(c)
    <2> PICK j \in Tickets : /\ target' = [target EXCEPT ![c] = j]
                             /\ entry' = [entry EXCEPT ![j] = IF @ = "accepting" THEN "requested" ELSE @]
                             /\ Goto(c, IF entry[j] = "accepting" THEN "await"
                                        ELSE IF entry[j] = "queued" THEN "withdraw" ELSE "false")
      BY <1>2 DEF AskTicket
    <2>1. /\ j \in Submitters /\ target'[c] = j /\ \A d \in Cancellers \ {c} : target'[d] = target[d]
          /\ \/ pc'[c] = "await" /\ entry[j] = "accepting" /\ entry'[j] = "requested"
             \/ pc'[c] \in {"withdraw", "false"}
          /\ \A i \in Submitters : entry'[i] = entry[i] \/ (entry[i] = "accepting" /\ entry'[i] = "requested")
      BY <1>0, PoolAssumption
    <2> QED
      BY <1>1, <1>2, <2>1 DEF AskTicket, Calls, Stays
  <1>3. CASE AwaitDecision(c)
    BY <1>0, <1>1, <1>3 DEF AwaitDecision, Stays
  <1>4. CASE Withdraw(c)
    <2>1. CASE Goto(c, "false") /\ UNCHANGED <<jobs, work>>
      BY <1>0, <1>1, <1>4, <2>1 DEF Withdraw, Stays
    <2>2. CASE ~(Goto(c, "false") /\ UNCHANGED <<jobs, work>>)
      <3>1. /\ entry[target[c]] = "queued" /\ pc'[c] = "cancel" /\ target' = target
            /\ \E i \in DOMAIN queue : queue[i] = target[c]
            /\ entry' = [entry EXCEPT ![target[c]] = "taken"]
            /\ job' = [job EXCEPT ![target[c]] = "cancelling"]
        BY <1>0, <1>4, <2>2 DEF Withdraw
      <3> PICK i \in DOMAIN queue : queue[i] = target[c]
        BY <3>1
      <3>2. target[c] \in Submitters /\ target[c] \in ToSet(queue) /\ queue # <<>>
        <4>1. queue \in Seq(Submitters)
          BY DEF TypeOK, DataOK
        <4> QED
          BY <4>1, RemoveAtDistinct
      <3>3. job[target[c]] = "queued"
        BY <3>2 DEF Own, OneHolder
      <3>4. Taken(target[c], "cancelling") /\ \A j \in Submitters \ {target[c]} : Stays(j)
        BY <1>0, <3>1, <3>2, <3>3 DEF Taken, Stays
      <3> QED
        BY <1>1, <1>4, <3>1, <3>2, <3>4 DEF Withdraw
    <2> QED
      BY <2>1, <2>2
  <1>5. CASE CancelCallback(c)
    BY <1>0, <1>1, <1>5, CancelMoves
  <1>6. CASE Settle(c)
    BY <1>0, <1>1, <1>6 DEF Settle, AfterSettle, Stays
  <1>7. CASE NotifyUnderLock(c)
    BY <1>0, <1>1, <1>7 DEF NotifyUnderLock, AfterSettle, Stays, CancellerPcs
  <1> QED
    BY <1>2, <1>3, <1>4, <1>5, <1>6, <1>7 DEF CancellerStep

\* The steps of callers that are neither submitters nor tickets, and of the construction.
ControllerStep(t) == \/ t \in Shutdowners /\ ShutdownStep(t)
                     \/ t \in Stops /\ StopStep(t)
                     \/ t \in Joiners /\ JoinStep(t)
                     \/ t \in Waiters /\ (WaiterStep(t) \/ TimeoutElapses(t))
                     \/ t \in Tuners /\ TuneStep(t)
                     \/ t \in Builders /\ (PrestartAll(t) \/ AwaitEnd(t))

ControllerMoves(t) ==
  /\ UNCHANGED <<exiting, wakes, qlock, seen, timed, target>>
  /\ \A u \in Threads \ {t} : \/ pc'[u] = pc[u]
                              \/ /\ lifecycle = "Running" \/ (t \in Builders /\ pc[t] = "prestart")
                                 /\ lock = Free /\ u \in Workers /\ pc[u] = "off" /\ pc'[u] = "take"
  /\ waiting' \subseteq waiting \cup {t}
  /\ open' => open
  /\ \A j \in Submitters : Stays(j) \/ Taken(j, "cancelling") \/ Ends(j, "cancelling", "cancelled")
  /\ queue' = queue \/ (t \in Stops /\ pc[t] = "drain" /\ queue' = <<>>)
  /\ \/ lifecycle' = lifecycle
     \/ lifecycle = "Running" /\ lifecycle' = "ShuttingDown" /\ pc[t] = "shutdown"
     \/ lifecycle' = "Stopping" /\ pc[t] = "stop"
  /\ t \in Controllers /\ pc[t] = "start" => Calls(t) \/ t \in waiting
  /\ pc'[t] \in {"announce", "stopNow"} => ~open'
  /\ pc'[t] = "shutdown" => pc[t] = "announce"
  /\ pc'[t] = "stop" => pc[t] = "stopNow"
  /\ pc'[t] = "stopInflight" => lifecycle' = "Stopping" \/ pc[t] = "stopWait"
  /\ pc'[t] \in {"stopWait", "drain"} => pc[t] = "stopInflight"
  /\ pc'[t] = "drain" => Inside = {}
  /\ pc'[t] \in {"cancel", "stopNotify"} => \/ pc[t] = "drain" /\ queue' = <<>>
                                            \/ pc[t] \in {"settle", "settleNotify"}
  /\ pc'[t] \in {"settle", "settleNotify"} => pc[t] \in {"cancel", "settle"}
  /\ t \in Stops \ (Shutdowners \cup Joiners) /\ pc'[t] = "done" => pc[t] = "stopNotify"
  /\ pc[t] # "done" /\ (pc[t] = "join" => pc'[t] = "join" \/ (pc'[t] = "done" /\ IsIdle))

\* stop and a failed build.
LEMMA StopMoves ==
  ASSUME TypeOK, Own, NEW t \in Stops, StopStep(t)
  PROVE  ControllerMoves(t) /\ before' = before
  <1> USE Roles
  <1>0. /\ t \in Controllers \cup Builders /\ t \in Threads /\ t \notin Submitters /\ t \notin Workers
        /\ t \notin Cancellers /\ DOMAIN pc = Threads /\ pc[t] \in ControllerPcs \cup BuilderPcs
        /\ t \in Threads \ Workers /\ (t \in Builders => pc[t] \in BuilderPcs) /\ open \in BOOLEAN
        /\ lifecycle \in Lifecycles
    BY DEF Stops, TypeOK, PcOK, DataOK
  <1>1. \A u \in Threads \ {t} : pc'[u] = pc[u]
    BY <1>0, StopCounters DEF Balanced
  <1>2. CASE CloseAdmission(t, "stopNow")
    BY <1>0, <1>1, <1>2 DEF CloseAdmission, Calls, ControllerMoves, Stays
  <1>3. CASE SetStopNow(t)
    BY <1>0, <1>1, <1>3 DEF SetStopNow, ControllerMoves, Stays
  <1>4. CASE BeginStop(t)
    BY <1>0, <1>1, <1>4 DEF BeginStop, ControllerMoves, Stays, Lifecycles
  <1>5. CASE AwaitSubmitters(t)
    BY <1>0, <1>1, <1>5 DEF AwaitSubmitters, Wait, ControllerMoves, Stays
  <1>6. CASE ResumeStop(t)
    BY <1>0, <1>1, <1>6 DEF ResumeStop, ControllerMoves, Stays
  <1>7. CASE Drain(t)
    <2>1. \A j \in Submitters : Stays(j) \/ Taken(j, "cancelling")
      BY <1>7 DEF Drain, Stays, Taken, Own, OneHolder
    <2>2. /\ pc'[t] \in {"stopNotify", "cancel"} /\ pc[t] = "drain" /\ queue' = <<>> /\ waiting' = {}
          /\ UNCHANGED <<exiting, wakes, qlock, seen, timed, target, open, lifecycle, before>>
      BY <1>0, <1>7 DEF Drain
    <2> QED
      BY <1>0, <1>1, <2>1, <2>2 DEF ControllerMoves
  <1>8. CASE CancelCallback(t)
    BY <1>0, <1>1, <1>8, CancelMoves DEF ControllerMoves
  <1>9. CASE Settle(t)
    BY <1>0, <1>1, <1>9 DEF Settle, AfterSettle, ControllerMoves, Stays
  <1>10. CASE NotifyUnderLock(t)
    BY <1>0, <1>1, <1>10 DEF NotifyUnderLock, AfterSettle, ControllerMoves, Stays, ControllerPcs, BuilderPcs, StopPcs
  <1> QED
    BY <1>2, <1>3, <1>4, <1>5, <1>6, <1>7, <1>8, <1>9, <1>10 DEF StopStep

\* All of them.
LEMMA ControllerFrame ==
  ASSUME TypeOK, Own, NEW t \in Controllers \cup Builders, ControllerStep(t)
  PROVE  /\ ControllerMoves(t)
         /\ before' = before \/ (t \in Joiners /\ BeginJoin(t))
  <1> USE Roles
  <1>0. /\ t \in Threads /\ t \notin Submitters /\ t \notin Workers
        /\ t \notin Cancellers /\ DOMAIN pc = Threads /\ (t \in Builders => pc[t] \in BuilderPcs) /\ open \in BOOLEAN
        /\ lifecycle \in Lifecycles /\ (t \in Controllers => pc[t] \in ControllerPcs)
    BY DEF TypeOK, PcOK, DataOK
  <1>1. CASE t \in Stops /\ StopStep(t)
    BY <1>1, StopMoves
  <1>2. CASE t \in Shutdowners /\ ShutdownStep(t)
    <2>1. \A u \in Threads \ {t} : pc'[u] = pc[u]
      BY <1>2, ShutdownCounters DEF Balanced
    <2> QED
      BY <1>0, <1>2, <2>1 DEF ShutdownStep, CloseAdmission, Calls, AnnounceShutdown, BeginShutdown, ControllerMoves, Stays,
                              ControllerPcs, StopPcs
  <1>3. CASE t \in Joiners /\ JoinStep(t)
    <2>1. \A u \in Threads \ {t} : pc'[u] = pc[u]
      BY <1>3, JoinCounters DEF Balanced
    <2> QED
      BY <1>0, <1>3, <2>1 DEF JoinStep, BeginJoin, Calls, Join, Wait, ControllerMoves, Stays
  <1>4. CASE t \in Waiters /\ (WaiterStep(t) \/ TimeoutElapses(t))
    <2>1. \A u \in Threads \ {t} : pc'[u] = pc[u]
      BY <1>4, WaitCounters DEF Balanced
    <2> QED
      BY <1>0, <1>4, <2>1 DEF WaiterStep, AwaitTermination, SubscribeTermination, WatchTermination, TimeoutElapses,
                              Calls, Wait, ControllerMoves, Stays, Stops
  <1>5. CASE t \in Tuners /\ NotifyTuned(t)
    BY <1>0, <1>5 DEF NotifyTuned, ControllerMoves, Stays, Stops
  <1>6. CASE t \in Builders /\ AwaitEnd(t)
    BY <1>0, <1>6 DEF AwaitEnd, Wait, ControllerMoves, Stays
  <1>7. CASE t \in Tuners /\ Tune(t)
    <2>1. \A u \in Threads \ {t} : \/ pc'[u] = pc[u]
                                   \/ lifecycle = "Running" /\ u \in Workers /\ pc[u] = "off" /\ pc'[u] = "take"
      BY <1>7, TuneMoves DEF Starts
    <2>2. pc'[t] \in {"tuned", "done"}
      BY <1>7, TuneMoves
    <2> QED
      BY <1>0, <1>7, <2>1, <2>2, TuneMoves DEF ControllerMoves, Stays, Stops
  <1>8. CASE t \in Builders /\ PrestartAll(t)
    <2>1. \A u \in Threads \ {t} : \/ pc'[u] = pc[u]
                                   \/ u \in Workers /\ pc[u] = "off" /\ pc'[u] = "take"
      BY <1>8, PrestartMoves DEF Starts
    <2>2. pc'[t] \in {"prestart", "ready", "buildFailed"} /\ lock = Free
      BY <1>8, PrestartMoves DEF PrestartAll
    <2> QED
      BY <1>0, <1>8, <2>1, <2>2, PrestartMoves DEF ControllerMoves, Stays
  <1> QED
    BY <1>1, <1>2, <1>3, <1>4, <1>5, <1>6, <1>7, <1>8 DEF ControllerStep, TuneStep

\* Every step is one of these.
LEMMA Steps ==
  ASSUME [Next]_vars
  PROVE  \/ \E s \in Submitters : SubmitterStep(s)
         \/ \E w \in Workers : WorkerStep(w) \/ KeepAliveElapses(w)
         \/ \E c \in Cancellers : CancellerStep(c)
         \/ \E t \in Controllers \cup Builders : ControllerStep(t)
         \/ UNCHANGED vars
  BY Roles DEF Next, ThreadStep, BuilderStep, ControllerStep, Stops

-----------------------------------------------------------------------------
\* Tickets.

\* An entry only goes forward, and a cancelled job stays cancelled.
LEMMA EntryMoves ==
  ASSUME TypeOK, Own, [Next]_vars, NEW j \in Submitters
  PROVE  /\ \/ entry'[j] = entry[j]
            \/ entry[j] \in {"prepared", "accepting"}
            \/ entry[j] = "requested" /\ entry'[j] \in {"cancelling", "rejected"}
            \/ entry[j] = "cancelling" /\ entry'[j] = "cancelled"
            \/ entry[j] = "queued" /\ entry'[j] = "taken"
         /\ job[j] = "cancelled" => job'[j] = "cancelled"
  <1>0. EntryFit(j) /\ entry[j] \in EntryStates /\ job[j] \in JobStages
    BY DEF Own, EntryFits, TypeOK, DataOK
  <1>1. CASE Stays(j)
    BY <1>1 DEF Stays
  <1>2. CASE Taken(j, "running") \/ Taken(j, "cancelling")
    BY <1>0, <1>2 DEF Taken, EntryFit
  <1>3. CASE Ends(j, "running", "completed") \/ Ends(j, "cancelling", "cancelled")
    BY <1>3 DEF Ends
  <1>4. CASE SubmitterStep(j)
    <2>1. CASE pc[j] \in {"start", "retry"}
      BY <1>0, <1>4, <2>1, SubmitterFrame DEF EntryFit
    <2>2. CASE pc[j] = "accepting"
      <3>1. job[j] = "reserved"
        BY <1>0, <2>2 DEF EntryFit
      <3>2. entry[j] \in {"prepared", "accepting", "requested"}
        BY <1>0, <3>1 DEF EntryFit, EntryStates
      <3> QED
        BY <1>4, <2>2, <3>1, <3>2, SubmitterFrame
    <2>3. CASE pc[j] = "cancel"
      BY <1>3, <1>4, <2>3, SubmitterFrame
    <2>4. CASE pc[j] \notin {"start", "retry", "accepting", "cancel"}
      <3>1. /\ pc[j] = "accept" => entry[j] = "prepared"
            /\ pc[j] = "rejectEntry" => entry[j] \in {"prepared", "accepting", "requested", "rejected"}
            /\ pc[j] = "cancelEntry" => entry[j] = "cancelling"
            /\ pc[j] = "reserve" => job[j] = "none"
        BY <1>0 DEF EntryFit, EntryStates
      <3> QED
        BY <1>4, <2>4, <3>1, SubmitterFrame
    <2> QED
      BY <2>1, <2>2, <2>3, <2>4
  <1>5. ASSUME NEW s \in Submitters, SubmitterStep(s), s # j
        PROVE  Stays(j)
    BY <1>5, SubmitterFrame
  <1>6. CASE UNCHANGED vars
    BY <1>1, <1>6 DEF vars, Stays
  <1> QED
    BY <1>1, <1>2, <1>3, <1>4, <1>5, <1>6, Steps, WorkerFrame, CancellerFrame, ControllerFrame DEF ControllerMoves

\* Only a ticket's caller changes what it asks for, or goes on.
LEMMA TicketHolders ==
  ASSUME TypeOK, Own, [Next]_vars, \A c \in Cancellers : ~CancellerStep(c)
  PROVE  \A c \in Cancellers : pc'[c] = pc[c] /\ target'[c] = target[c]
  <1> USE Roles
  <1>1. ASSUME NEW s \in Submitters, SubmitterStep(s)
        PROVE  \A c \in Cancellers : pc'[c] = pc[c] /\ target'[c] = target[c]
    BY <1>1, SubmitterFrame
  <1>2. ASSUME NEW w \in Workers, WorkerStep(w) \/ KeepAliveElapses(w)
        PROVE  \A c \in Cancellers : pc'[c] = pc[c] /\ target'[c] = target[c]
    BY <1>2, WorkerFrame
  <1>3. ASSUME NEW t \in Controllers \cup Builders, ControllerStep(t)
        PROVE  \A c \in Cancellers : pc'[c] = pc[c] /\ target'[c] = target[c]
    BY <1>3, ControllerFrame DEF ControllerMoves
  <1>4. CASE UNCHANGED vars
    BY <1>4 DEF vars
  <1> QED
    BY <1>1, <1>2, <1>3, <1>4, Steps

\* A promise is kept by the steps of others.
LEMMA PromiseKept ==
  ASSUME TypeOK, Own, [Next]_vars, NEW c \in Cancellers, TicketFit(c), pc'[c] = pc[c], target'[c] = target[c]
  PROVE  TicketFit(c)'
  <1>1. CASE pc[c] = "start"
    BY <1>1 DEF TicketFit
  <1>2. CASE pc[c] # "start"
    <2>1. target[c] \in Tickets
      BY <1>2 DEF TicketFit
    <2> PICK j \in Submitters : j = target[c]
      BY <2>1, PoolAssumption
    <2>2. /\ \/ entry'[j] = entry[j]
             \/ entry[j] \in {"prepared", "accepting"}
             \/ entry[j] = "requested" /\ entry'[j] \in {"cancelling", "rejected"}
             \/ entry[j] = "cancelling" /\ entry'[j] = "cancelled"
             \/ entry[j] = "queued" /\ entry'[j] = "taken"
          /\ job[j] = "cancelled" => job'[j] = "cancelled"
      BY EntryMoves
    <2>3. target'[c] = j
      OBVIOUS
    <2> QED
      BY <2>1, <2>2, <2>3 DEF TicketFit
  <1> QED
    BY <1>1, <1>2

\* Nobody is promised a cancellation that somebody else was promised.
LEMMA TicketsStep ==
  ASSUME TypeOK, Own, TicketsFit, [Next]_vars
  PROVE  TicketsFit'
  <1> USE Roles
  <1>0. \A c \in Cancellers : TicketFit(c)
    BY DEF TicketsFit
  <1>2. CASE \A c \in Cancellers : ~CancellerStep(c)
    <2>1. \A c \in Cancellers : pc'[c] = pc[c] /\ target'[c] = target[c]
      BY <1>2, TicketHolders
    <2>2. \A c \in Cancellers : TicketFit(c)'
      BY <1>0, <2>1, PromiseKept
    <2>3. \A c, d \in Promised' : target'[c] = target'[d] => c = d
      BY <2>1 DEF Promised, TicketsFit
    <2> QED
      BY <2>2, <2>3 DEF TicketsFit
  <1>3. ASSUME NEW c \in Cancellers, CancellerStep(c)
        PROVE  TicketsFit'
    <2>0. c \in Threads /\ TicketFit(c) /\ \A d \in Cancellers \ {c} : pc'[d] = pc[d] /\ target'[d] = target[d]
      BY <1>0, <1>3, CancellerFrame
    <2>1. \A d \in Cancellers \ {c} : TicketFit(d)'
      BY <1>0, <2>0, PromiseKept
    <2>2. CASE pc[c] = "start"
      <3>1. /\ target'[c] \in Tickets
            /\ \/ pc'[c] = "await" /\ entry[target'[c]] = "accepting" /\ entry'[target'[c]] = "requested"
               \/ pc'[c] \in {"withdraw", "false"}
        BY <1>3, <2>2, CancellerFrame
      <3>2. TicketFit(c)'
        BY <3>1 DEF TicketFit
      <3>3. \A d \in Promised : entry[target[d]] # "accepting"
        BY <1>0 DEF Promised, TicketFit
      <3>4. \A a, d \in Promised' : target'[a] = target'[d] => a = d
        BY <2>0, <3>1, <3>3 DEF Promised, TicketsFit
      <3>5. \A d \in Cancellers : TicketFit(d)'
        BY <2>1, <3>2
      <3> QED
        BY <3>4, <3>5 DEF TicketsFit
    <2>3. CASE pc[c] = "withdraw"
      <3>1. /\ target'[c] = target[c] /\ target[c] \in Tickets
            /\ pc'[c] = "false" \/ (pc'[c] = "cancel" /\ entry[target[c]] = "queued" /\ Taken(target[c], "cancelling"))
        BY <1>3, <2>0, <2>3, CancellerFrame DEF TicketFit
      <3>2. TicketFit(c)'
        BY <3>1 DEF TicketFit, Taken
      <3>3. \A d \in Promised : entry[target[d]] # "queued"
        BY <1>0 DEF Promised, TicketFit
      <3>4. \A a, d \in Promised' : target'[a] = target'[d] => a = d
        BY <2>0, <3>1, <3>3 DEF Promised, TicketsFit
      <3>5. \A d \in Cancellers : TicketFit(d)'
        BY <2>1, <3>2
      <3> QED
        BY <3>4, <3>5 DEF TicketsFit
    <2>4. CASE pc[c] \in {"await", "cancel", "settle", "settleNotify"}
      <3>1. target'[c] = target[c] /\ target[c] \in Tickets /\ target[c] \in Submitters
        BY <1>3, <2>0, <2>4, CancellerFrame, PoolAssumption DEF TicketFit
      <3>2. TicketFit(c)'
        <4>1. CASE pc[c] = "await"
          <5>1. \/ pc'[c] = "true" /\ entry[target[c]] = "cancelled" /\ Stays(target[c])
                \/ pc'[c] = "false"
            BY <1>3, <3>1, <4>1, CancellerFrame
          <5>2. EntryFit(target[c])
            BY <3>1 DEF Own, EntryFits
          <5>3. entry[target[c]] = "cancelled" => job[target[c]] = "cancelled"
            BY <5>2 DEF EntryFit
          <5> QED
            BY <3>1, <5>1, <5>3 DEF TicketFit, Stays
        <4>2. CASE pc[c] = "cancel"
          <5>1. pc'[c] = "settle" /\ Ends(target[c], "cancelling", "cancelled")
            BY <1>3, <4>2, CancellerFrame
          <5> QED
            BY <2>0, <3>1, <4>2, <5>1 DEF TicketFit, Ends
        <4>3. CASE pc[c] \in {"settle", "settleNotify"}
          <5>1. pc'[c] \in {"settleNotify", "true"} /\ Stays(target[c])
            BY <1>3, <3>1, <4>3, CancellerFrame
          <5> QED
            BY <2>0, <3>1, <4>3, <5>1 DEF TicketFit, Stays
        <4> QED
          BY <2>4, <4>1, <4>2, <4>3
      <3>3. c \in Promised
        BY <2>4 DEF Promised
      <3>4. \A a, d \in Promised' : target'[a] = target'[d] => a = d
        BY <2>0, <3>1, <3>3 DEF Promised, TicketsFit
      <3>5. \A d \in Cancellers : TicketFit(d)'
        BY <2>1, <3>2
      <3> QED
        BY <3>4, <3>5 DEF TicketsFit
    <2> QED
      BY <1>3, <2>2, <2>3, <2>4, CancellerFrame
  <1> QED
    BY <1>2, <1>3

-----------------------------------------------------------------------------
\* The gate, and stop.

\* Nobody calls a pool that is not built.
LEMMA ReadyFirst ==
  ASSUME TypeOK, Own, GateFirst, NEW t \in Threads,
         \/ t \in Submitters /\ SubmitterStep(t)
         \/ t \in Cancellers /\ CancellerStep(t)
         \/ t \in Controllers /\ ControllerStep(t)
  PROVE  \A b \in Builders : pc[b] = "ready"
  <1> USE Roles
  <1> SUFFICES ASSUME NEW b \in Builders, pc[b] # "ready"
               PROVE  FALSE
    OBVIOUS
  <1>1. pc[t] = "start" /\ t \notin waiting
    BY DEF GateFirst
  <1>2. ~Calls(t)
    BY DEF Calls
  <1>3. ControllerStep(t) /\ t \in Controllers => ControllerMoves(t)
    BY ControllerFrame
  <1> QED
    BY <1>1, <1>2, <1>3, SubmitterFrame, CancellerFrame DEF ControllerMoves

\* What GateFirst says of the builder.
BuildHeld(b) ==
  /\ pc[b] \in {"prestart", "buildFailed", "stopNow", "stop"} => lifecycle = "Running"
  /\ pc[b] \in {"awaitEnd", "failed"} => lifecycle = "Stopping"
  /\ pc[b] # "ready" => \A t \in Threads \ (Workers \cup Builders) : pc[t] = "start" /\ t \notin waiting

\* Where neither the gate nor the lifecycle nor a caller that closes it moves.
LEMMA GateKept ==
  ASSUME GateFirst, UNCHANGED <<lifecycle, open>>, \A t \in Controllers \cup Builders : pc'[t] = pc[t],
         \/ \A b \in Builders : pc[b] = "ready"
         \/ \A t \in Threads \ (Workers \cup Builders) : pc'[t] = pc[t] /\ (t \in waiting' => t \in waiting)
  PROVE  GateFirst'
  BY Roles DEF GateFirst, Stops

\* A builder's step: the lifecycle is the one it left, until it stops the pool.
LEMMA BuilderGate ==
  ASSUME TypeOK, Own, GateFirst, NEW b \in Builders, ControllerStep(b)
  PROVE  GateFirst'
  <1> USE Roles
  <1>0. /\ b \in Controllers \cup Builders /\ b \in Threads /\ b \notin Controllers /\ b \in Stops
        /\ pc[b] \in BuilderPcs /\ Builders = {b} /\ b \notin Shutdowners /\ b \notin Joiners /\ b \notin Waiters
        /\ b \notin Tuners /\ DOMAIN pc = Threads
    BY RolesAssumption DEF Stops, TypeOK, PcOK
  <1>1. ControllerMoves(b)
    BY <1>0, ControllerFrame
  <1>2. /\ pc[b] # "ready"
        /\ pc'[b] \in {"prestart", "buildFailed"} => pc[b] = "prestart"
        /\ pc'[b] \in {"prestart", "buildFailed", "stopNow", "stop"} => lifecycle' = lifecycle
        /\ pc'[b] = "stopNow" => pc[b] = "buildFailed"
        /\ pc'[b] = "awaitEnd" => pc[b] \in {"stopNotify", "awaitEnd"} /\ lifecycle' = lifecycle
        /\ pc'[b] = "failed" => pc[b] = "awaitEnd" /\ lifecycle' = lifecycle
    <2>1. CASE PrestartAll(b)
      <3>1. pc[b] = "prestart" /\ pc'[b] \in {"ready", "buildFailed", "prestart"} /\ lifecycle' = lifecycle
        BY <2>1, PrestartMoves
      <3> QED
        BY <3>1
    <2>2. CASE AwaitEnd(b)
      BY <1>0, <2>2 DEF AwaitEnd, Wait
    <2>3. CASE CloseAdmission(b, "stopNow")
      BY <1>0, <2>3 DEF CloseAdmission, Calls, BuilderPcs, StopPcs
    <2>4. CASE SetStopNow(b) \/ BeginStop(b)
      BY <1>0, <2>4 DEF SetStopNow, BeginStop
    <2>5. CASE AwaitSubmitters(b) \/ ResumeStop(b) \/ Drain(b)
      BY <1>0, <2>5 DEF AwaitSubmitters, Wait, ResumeStop, Drain
    <2>6. CASE CancelCallback(b) \/ Settle(b)
      BY <1>0, <2>6 DEF CancelCallback, Settle, AfterSettle
    <2>7. CASE NotifyUnderLock(b)
      BY <1>0, <2>7 DEF NotifyUnderLock, AfterSettle, BuilderPcs, StopPcs
    <2> QED
      BY <1>0, <2>1, <2>2, <2>3, <2>4, <2>5, <2>6, <2>7 DEF ControllerStep, StopStep
  <1>3. /\ \A u \in Controllers : pc'[u] = pc[u]
        /\ \A u \in Threads \ (Workers \cup Builders) : pc'[u] = pc[u] /\ (u \in waiting' => u \in waiting)
    BY <1>0, <1>1 DEF ControllerMoves
  <1>4. open' => open
    BY <1>1 DEF ControllerMoves
  <1>5. /\ lifecycle' # "Running" => ~open'
        /\ lifecycle = "Stopping" => lifecycle' = "Stopping"
    BY <1>0, <1>1, <1>4 DEF ControllerMoves, GateFirst
  <1>6. \A u \in Controllers : pc'[u] \in {"announce", "shutdown", "stopNow", "stop"} => ~open'
    BY <1>3, <1>4 DEF GateFirst
  <1>7. pc'[b] \in {"announce", "shutdown", "stopNow", "stop"} => ~open'
    BY <1>0, <1>1, <1>4 DEF ControllerMoves, GateFirst
  <1>8. \A u \in Stops : pc'[u] \in {"stopInflight", "stopWait", "drain", "cancel", "settle", "settleNotify", "stopNotify"}
           => lifecycle' = "Stopping"
    <2>1. \A u \in Stops \ {b} : pc'[u] = pc[u]
      BY <1>0, <1>3 DEF Stops
    <2>2. pc'[b] \in {"stopInflight", "stopWait", "drain", "cancel", "settle", "settleNotify", "stopNotify"}
             => lifecycle' = "Stopping"
      BY <1>0, <1>1, <1>5 DEF ControllerMoves, GateFirst
    <2> QED
      BY <1>5, <2>1, <2>2 DEF GateFirst
  <1>9. BuildHeld(b)'
    <2>1. pc'[b] \in {"prestart", "buildFailed", "stopNow", "stop"} => lifecycle' = "Running"
      BY <1>0, <1>1, <1>2 DEF ControllerMoves, GateFirst
    <2>2. pc'[b] \in {"awaitEnd", "failed"} => lifecycle' = "Stopping"
      BY <1>0, <1>2 DEF GateFirst
    <2>3. \A t \in Threads \ (Workers \cup Builders) : pc'[t] = "start" /\ t \notin waiting'
      BY <1>0, <1>2, <1>3 DEF GateFirst
    <2> QED
      BY <2>1, <2>2, <2>3 DEF BuildHeld
  <1> QED
    BY <1>0, <1>5, <1>6, <1>7, <1>8, <1>9 DEF GateFirst, BuildHeld

\* Every step keeps the order of gate and lifecycle.
LEMMA GateStep ==
  ASSUME TypeOK, Own, GateFirst, [Next]_vars
  PROVE  GateFirst'
  <1> USE Roles
  <1>1. ASSUME NEW s \in Submitters, SubmitterStep(s)
        PROVE  GateFirst'
    BY <1>1, SubmitterFrame, ReadyFirst, GateKept
  <1>2. ASSUME NEW w \in Workers, WorkerStep(w) \/ KeepAliveElapses(w)
        PROVE  GateFirst'
    BY <1>2, WorkerFrame, GateKept
  <1>3. ASSUME NEW c \in Cancellers, CancellerStep(c)
        PROVE  GateFirst'
    BY <1>3, CancellerFrame, ReadyFirst, GateKept
  <1>4. ASSUME NEW t \in Controllers, ControllerStep(t)
        PROVE  GateFirst'
    <2>0. t \in Controllers \cup Builders /\ t \in Threads /\ lifecycle \in Lifecycles
      BY DEF TypeOK, DataOK
    <2>1. ControllerMoves(t) /\ \A b \in Builders : pc[b] = "ready"
      BY <1>4, <2>0, ControllerFrame, ReadyFirst
    <2>2. \A b \in Builders : pc'[b] = "ready"
      BY <2>0, <2>1 DEF ControllerMoves
    <2>3. /\ open' => open
          /\ lifecycle' # "Running" => ~open'
          /\ lifecycle = "Stopping" => lifecycle' = "Stopping"
      BY <2>0, <2>1 DEF ControllerMoves, GateFirst
    <2>4. \A u \in Controllers : pc'[u] \in {"announce", "shutdown", "stopNow", "stop"} => ~open'
      BY <2>0, <2>1, <2>3 DEF ControllerMoves, GateFirst
    <2>5. \A u \in Stops : pc'[u] \in {"stopInflight", "stopWait", "drain", "cancel", "settle", "settleNotify", "stopNotify"}
             => lifecycle' = "Stopping"
      <3>1. \A u \in Stops \ {t} : pc'[u] = pc[u]
        BY <2>0, <2>1 DEF ControllerMoves, Stops
      <3>2. t \in Stops /\ pc'[t] \in {"stopInflight", "stopWait", "drain", "cancel", "settle", "settleNotify", "stopNotify"}
               => lifecycle' = "Stopping"
        BY <2>1, <2>3 DEF ControllerMoves, GateFirst
      <3> QED
        BY <2>3, <3>1, <3>2 DEF GateFirst
    <2> QED
      BY <2>2, <2>3, <2>4, <2>5 DEF GateFirst
  <1>5. CASE UNCHANGED vars
    BY <1>5, GateKept DEF vars
  <1> QED
    BY <1>1, <1>2, <1>3, <1>4, <1>5, Steps, BuilderGate

\* Through a closed gate nobody comes in.
LEMMA NobodyEnters ==
  ASSUME TypeOK, Own, [Next]_vars
  PROVE  /\ open' => open
         /\ ~open => Inside' \subseteq Inside
         /\ Inside = {} /\ queue = <<>> => queue' = <<>>
  <1> USE Roles
  <1>1. ASSUME NEW s \in Submitters, SubmitterStep(s)
        PROVE  /\ open' = open /\ (~open => Inside' \subseteq Inside)
               /\ Inside = {} => queue' = queue
    <2>1. open' = open /\ \A i \in Submitters \ {s} : pc'[i] = pc[i]
      BY <1>1, SubmitterFrame
    <2>2. ~open /\ s \notin Inside => s \notin Inside'
      <3>1. CASE pc[s] \in {"start", "retry"}
        BY <1>1, <3>1, SubmitterFrame DEF Inside
      <3>2. CASE pc[s] \in {"accepting", "cancel"}
        BY <3>2 DEF Inside
      <3>3. CASE pc[s] \notin {"start", "retry", "accepting", "cancel"}
        BY <1>1, <3>3, SubmitterFrame DEF Inside
      <3> QED
        BY <3>1, <3>2, <3>3
    <2>3. Inside = {} => queue' = queue
      <3>1. pc[s] = "accepting" => s \in Inside
        BY DEF Inside
      <3> QED
        BY <1>1, <3>1, SubmitterFrame
    <2>4. ~open => Inside' \subseteq Inside
      <3> SUFFICES ASSUME ~open, NEW i \in Submitters, i \in Inside'
                   PROVE  i \in Inside
        BY DEF Inside
      <3> QED
        BY <2>1, <2>2 DEF Inside
    <2> QED
      BY <2>1, <2>3, <2>4
  <1>2. ASSUME \A s \in Submitters : pc'[s] = pc[s]
        PROVE  Inside' = Inside
    BY <1>2 DEF Inside
  <1>3. ASSUME NEW w \in Workers, WorkerStep(w) \/ KeepAliveElapses(w)
        PROVE  open' = open /\ (queue' = queue \/ queue # <<>>) /\ \A s \in Submitters : pc'[s] = pc[s]
    BY <1>3, WorkerFrame
  <1>4. ASSUME NEW c \in Cancellers, CancellerStep(c)
        PROVE  open' = open /\ (queue' = queue \/ queue # <<>>) /\ \A s \in Submitters : pc'[s] = pc[s]
    BY <1>4, CancellerFrame
  <1>5. ASSUME NEW t \in Controllers \cup Builders, ControllerStep(t)
        PROVE  (open' => open) /\ (queue' = queue \/ queue' = <<>>) /\ \A s \in Submitters : pc'[s] = pc[s]
    BY <1>5, ControllerFrame DEF ControllerMoves
  <1>6. CASE UNCHANGED vars
    BY <1>6 DEF vars, Inside
  <1> QED
    BY <1>1, <1>2, <1>3, <1>4, <1>5, <1>6, Steps

\* An emptied queue stays empty.
LEMMA EmptiedStays ==
  ASSUME TypeOK, Own, [Next]_vars, Emptied
  PROVE  Emptied'
  <1>1. ~open /\ Inside = {} /\ queue = <<>>
    BY DEF Emptied
  <1>2. ~open' /\ Inside' = {} /\ queue' = <<>>
    BY <1>1, NobodyEnters
  <1> QED
    BY <1>2 DEF Emptied

\* Every step keeps what stop knows.
LEMMA StopStays ==
  ASSUME TypeOK, Own, GateFirst, StopKnows, [Next]_vars
  PROVE  StopKnows'
  <1> USE Roles
  <1>0. Stops \subseteq Controllers \cup Builders /\ Stops \subseteq Threads
    BY DEF Stops
  <1>1. ASSUME NEW t \in Stops, pc'[t] = pc[t]
        PROVE  /\ pc'[t] = "drain" => Inside' = {}
               /\ pc'[t] \in {"cancel", "settle", "settleNotify", "stopNotify"} => Emptied'
               /\ t \in Stoppers \ (Shutdowners \cup Joiners) /\ pc'[t] = "done" => Emptied'
    <2>1. pc[t] = "drain" => Inside = {} /\ ~open
      BY DEF StopKnows, GateFirst
    <2>2. pc[t] = "drain" => Inside' = {}
      BY <2>1, NobodyEnters
    <2> QED
      BY <1>1, <2>2, EmptiedStays DEF StopKnows
  <1>2. ASSUME NEW t \in Stops, ControllerStep(t)
        PROVE  /\ pc'[t] = "drain" => Inside' = {}
               /\ pc'[t] \in {"cancel", "settle", "settleNotify", "stopNotify"} => Emptied'
               /\ t \in Stoppers \ (Shutdowners \cup Joiners) /\ pc'[t] = "done" => Emptied'
    <2>0. ControllerMoves(t)
      BY <1>0, <1>2, ControllerFrame
    <2>1. pc'[t] = "drain" => Inside' = {}
      <3>1. pc'[t] = "drain" => Inside = {} /\ ~open
        BY <2>0 DEF ControllerMoves, GateFirst
      <3> QED
        BY <3>1, NobodyEnters
    <2>2. pc[t] = "drain" /\ queue' = <<>> => Emptied'
      <3>1. pc[t] = "drain" => Inside = {} /\ ~open
        BY DEF StopKnows, GateFirst
      <3>2. pc[t] = "drain" => Inside' = {} /\ ~open'
        BY <3>1, NobodyEnters
      <3> QED
        BY <3>2 DEF Emptied
    <2>3. pc[t] \in {"cancel", "settle", "settleNotify", "stopNotify"} => Emptied'
      BY EmptiedStays DEF StopKnows
    <2>4. Stoppers \subseteq Stops
      BY DEF Stops
    <2> QED
      BY <2>0, <2>1, <2>2, <2>3, <2>4 DEF ControllerMoves
  <1>3. ASSUME NEW u \in Controllers \cup Builders, ControllerStep(u)
        PROVE  \A t \in Stops \ {u} : pc'[t] = pc[t]
    BY <1>0, <1>3, ControllerFrame DEF ControllerMoves
  <1>4. \A t \in Stops : pc'[t] = pc[t] \/ ControllerStep(t)
    <2>1. CASE UNCHANGED vars
      BY <2>1 DEF vars
    <2> QED
      BY <1>0, <1>3, <2>1, Steps, SubmitterFrame, WorkerFrame, CancellerFrame
  <1>5. Stoppers \subseteq Stops
    BY DEF Stops
  <1> QED
    BY <1>1, <1>2, <1>4, <1>5 DEF StopKnows

-----------------------------------------------------------------------------
\* join, and the end of the pool.

\* A submission that is over stays over, or is made anew, and then join does not wait for it.
LEMMA SettledStays ==
  ASSUME TypeOK, Own, [Next]_vars, NEW j \in Submitters, job[j] \in Settled, j \notin Inside
  PROVE  /\ job'[j] \in Settled
         /\ \/ j \notin Inside'
            \/ open /\ \A t \in Joiners : j \notin before'[t]
  <1> USE Roles DEF Settled
  <1>1. ASSUME NEW s \in Submitters, SubmitterStep(s), s # j
        PROVE  pc'[j] = pc[j] /\ Stays(j)
    BY <1>1, SubmitterFrame
  <1>2. ASSUME pc'[j] = pc[j], Stays(j)
        PROVE  job'[j] \in Settled /\ j \notin Inside'
    BY <1>2 DEF Stays, Inside
  <1>3. CASE SubmitterStep(j)
    <2>1. CASE pc[j] \in {"start", "retry"}
      <3>1. /\ job'[j] = "none" /\ pc'[j] = (IF open THEN "reserve" ELSE "refused")
            /\ before' = [t \in Joiners |-> before[t] \ {j}]
        BY <1>3, <2>1, SubmitterFrame
      <3> QED
        BY <3>1 DEF Inside
    <2>2. CASE pc[j] \notin {"start", "retry"}
      <3>1. pc[j] \notin {"accepting", "cancel", "reserve"}
        BY DEF Inside
      <3> QED
        BY <1>3, <2>2, <3>1, SubmitterFrame DEF Inside
    <2> QED
      BY <2>1, <2>2
  <1>4. ASSUME NEW w \in Workers, WorkerStep(w) \/ KeepAliveElapses(w)
        PROVE  pc'[j] = pc[j] /\ Stays(j)
    BY <1>4, WorkerFrame DEF Taken, Ends
  <1>5. ASSUME NEW c \in Cancellers, CancellerStep(c)
        PROVE  pc'[j] = pc[j] /\ job'[j] = job[j]
    BY <1>5, CancellerFrame DEF Taken, Ends, Stays
  <1>6. ASSUME NEW t \in Controllers \cup Builders, ControllerStep(t)
        PROVE  pc'[j] = pc[j] /\ Stays(j)
    BY <1>6, ControllerFrame DEF ControllerMoves, Taken, Ends
  <1>7. CASE UNCHANGED vars
    BY <1>2, <1>7 DEF vars, Stays
  <1>8. ASSUME pc'[j] = pc[j], job'[j] = job[j]
        PROVE  job'[j] \in Settled /\ j \notin Inside'
    BY <1>8 DEF Inside
  <1> QED
    BY <1>1, <1>2, <1>3, <1>4, <1>5, <1>6, <1>7, <1>8, Steps

\* An idle pool has nothing unfinished.
LEMMA IdleIsSettled ==
  ASSUME TypeOK, IsIdle
  PROVE  Inside = {} /\ \A j \in Submitters : job[j] \in Settled
  BY DEF TypeOK, DataOK, IsIdle, Under, JobStages, Settled

\* Others do not add to what join waits for.
LEMMA JoinersUntouched ==
  ASSUME TypeOK, Own, [Next]_vars, NEW t \in Joiners, ~ControllerStep(t)
  PROVE  pc'[t] = pc[t] /\ before'[t] \subseteq before[t]
  <1> USE Roles
  <1>1. ASSUME NEW s \in Submitters, SubmitterStep(s)
        PROVE  pc'[t] = pc[t] /\ before'[t] \subseteq before[t]
    BY <1>1, SubmitterFrame
  <1>2. ASSUME NEW u \in Controllers \cup Builders, ControllerStep(u)
        PROVE  pc'[t] = pc[t] /\ before'[t] \subseteq before[t]
    <2>1. u # t /\ ControllerMoves(u) /\ (before' = before \/ (u \in Joiners /\ BeginJoin(u)))
      BY <1>2, ControllerFrame
    <2>2. before'[t] = before[t]
      BY <2>1 DEF BeginJoin, TypeOK, DataOK
    <2> QED
      BY <2>1, <2>2 DEF ControllerMoves
  <1>3. CASE UNCHANGED vars
    BY <1>3 DEF vars
  <1> QED
    BY <1>1, <1>2, <1>3, Steps, WorkerFrame, CancellerFrame

\* Every step keeps what join was told.
LEMMA JoinStays ==
  ASSUME TypeOK, Own, JoinerKnows, JoinSound, [Next]_vars
  PROVE  JoinerKnows' /\ JoinSound'
  <1> USE Roles
  <1> SUFFICES ASSUME NEW t \in Joiners
               PROVE  /\ pc'[t] \notin {"join", "done"} => before'[t] = {}
                      /\ pc'[t] = "done" => \A j \in before'[t] : j \notin Inside' /\ job'[j] \in Settled
    BY DEF JoinerKnows, JoinSound
  <1>0. before[t] \subseteq Submitters /\ t \in Threads /\ t \in Controllers \cup Builders /\ DOMAIN pc = Threads
    BY DEF TypeOK, DataOK, PcOK
  <1>1. CASE ~ControllerStep(t)
    <2>1. pc'[t] = pc[t] /\ before'[t] \subseteq before[t]
      BY <1>1, JoinersUntouched
    <2>2. ASSUME pc[t] = "done", NEW j \in before'[t]
          PROVE  j \notin Inside' /\ job'[j] \in Settled
      <3>1. j \in Submitters /\ j \notin Inside /\ job[j] \in Settled
        BY <1>0, <2>1, <2>2 DEF JoinSound
      <3> QED
        BY <2>2, <3>1, SettledStays
    <2> QED
      BY <2>1, <2>2 DEF JoinerKnows
  <1>2. CASE ControllerStep(t)
    <2>1. ControllerMoves(t) /\ (before' = before \/ BeginJoin(t))
      BY <1>0, <1>2, ControllerFrame
    <2>2. CASE BeginJoin(t)
      <3>1. pc'[t] = "join"
        BY <1>0, <2>2 DEF BeginJoin
      <3> QED
        BY <3>1
    <2>3. CASE before' = before /\ pc[t] # "join"
      <3>1. pc[t] # "done"
        BY <2>1 DEF ControllerMoves
      <3>2. before[t] = {}
        BY <2>3, <3>1 DEF JoinerKnows
      <3> QED
        BY <2>3, <3>2
    <2>4. CASE before' = before /\ pc[t] = "join"
      <3>1. pc'[t] = "join" \/ (pc'[t] = "done" /\ IsIdle)
        BY <2>1, <2>4 DEF ControllerMoves
      <3>2. CASE IsIdle
        <4>1. Inside = {} /\ \A j \in Submitters : job[j] \in Settled
          BY <3>2, IdleIsSettled
        <4>2. Inside' = {}
          BY <1>0, <2>1, <4>1 DEF ControllerMoves, Inside
        <4>3. \A j \in Submitters : job'[j] \in Settled
          BY <4>1, SettledStays
        <4> QED
          BY <1>0, <2>4, <3>1, <4>2, <4>3
      <3> QED
        BY <3>1, <3>2
    <2> QED
      BY <2>1, <2>2, <2>3, <2>4
  <1> QED
    BY <1>1, <1>2

\* What termination is: published only together with what is_terminated_locked says of the new state.
Publishes == /\ terminationTx => terminationTx'
             /\ \/ terminationTx' = terminationTx
                \/ /\ lifecycle' # "Running" /\ live' = 0 /\ exiting' = 0 /\ IsIdle

\* Workers publish when they exit, or notify.
LEMMA WorkerPublishes ==
  ASSUME TypeOK, Own, NEW w \in Workers, WorkerStep(w) \/ KeepAliveElapses(w)
  PROVE  Publishes
  <1>0. terminationTx \in BOOLEAN
    BY DEF TypeOK, DataOK
  <1> USE <1>0 DEF Publishes
  <1>1. CASE TryTake(w) \/ Claim(w) \/ AnnounceClaim(w) \/ Run(w) \/ Settle(w)
    BY <1>1 DEF TryTake, Claim, AnnounceClaim, Run, Settle
  <1>2. CASE NotifyUnderLock(w) \/ FinishExit(w)
    BY <1>2 DEF NotifyUnderLock, FinishExit, PublishTermination, Terminated
  <1>3. CASE Check(w)
    BY <1>3 DEF Check, Unregister, PublishTermination, Terminated
  <1>4. CASE Relock(w) \/ IdleQueued(w) \/ IdlePending(w)
    BY <1>4 DEF Relock, IdleQueued, IdlePending, Parks
  <1>5. CASE Awaken(w) \/ TimedOut(w) \/ KeepAliveElapses(w)
    BY <1>5 DEF Awaken, TimedOut, KeepAliveElapses
  <1>6. CASE RetireQueued(w) \/ RetirePending(w) \/ RetireInflight(w) \/ Unmark(w)
    BY <1>6 DEF RetireQueued, RetirePending, RetireInflight, Unmark
  <1>7. CASE Consume(w) \/ SdInflight(w)
    BY <1>7 DEF Consume, SdInflight, Unregister, PublishTermination, Terminated
  <1>8. CASE SdMark(w) \/ SdQueued(w) \/ SdPark(w)
    BY <1>8 DEF SdMark, SdQueued, SdPark, Parks
  <1> QED
    BY <1>1, <1>2, <1>3, <1>4, <1>5, <1>6, <1>7, <1>8 DEF WorkerStep

\* Submissions and tickets publish when they notify.
LEMMA CallerPublishes ==
  ASSUME TypeOK, Own, NEW t \in Threads, \/ t \in Submitters /\ SubmitterStep(t)
                                         \/ t \in Cancellers /\ CancellerStep(t)
  PROVE  Publishes
  <1>0. terminationTx \in BOOLEAN
    BY DEF TypeOK, DataOK
  <1> USE <1>0 DEF Publishes
  <1>1. CASE t \in Submitters /\ ReserveSubmission(t)
    <2>1. CASE UNCHANGED terminationTx
      BY <2>1
    <2>2. CASE lifecycle = "Running" /\ SpawnFails(t, "leave")
      BY <2>2 DEF SpawnFails, PublishTermination, Terminated
    <2> QED
      BY <1>1, <2>1, <2>2 DEF ReserveSubmission
  <1>2. CASE NotifyUnderLock(t)
    BY <1>2 DEF NotifyUnderLock, PublishTermination, Terminated
  <1>3. CASE CancelCallback(t) \/ Settle(t)
    BY <1>3 DEF CancelCallback, Settle
  <1>4. CASE BeginSubmit(t) \/ BeginAccept(t) \/ AcceptPanics(t) \/ AnnounceRelease(t) \/ RejectEntry(t) \/ Publish(t)
    BY <1>4 DEF BeginSubmit, BeginAccept, AcceptPanics, AnnounceRelease, RejectEntry, Publish
  <1>5. CASE CancelEntry(t) \/ LoadIdle(t) \/ RequestWake(t) \/ Leave(t) \/ DepartOpen(t) \/ DepartWaiters(t) \/ AwaitCapacity(t)
    BY <1>5 DEF CancelEntry, LoadIdle, RequestWake, Leave, DepartOpen, DepartWaiters, AwaitCapacity
  <1>6. CASE AskTicket(t) \/ AwaitDecision(t) \/ Withdraw(t)
    BY <1>6 DEF AskTicket, AwaitDecision, Withdraw
  <1> QED
    BY <1>1, <1>2, <1>3, <1>4, <1>5, <1>6 DEF SubmitterStep, CancellerStep

\* shutdown, stop, subscribe_termination and a refused thread publish.
LEMMA ControllerPublishes ==
  ASSUME TypeOK, Own, GateFirst, NEW t \in Controllers \cup Builders, ControllerStep(t)
  PROVE  Publishes
  <1>0. terminationTx \in BOOLEAN
    BY DEF TypeOK, DataOK
  <1> USE <1>0 DEF Publishes
  <1>1. CASE t \in Shutdowners /\ ShutdownStep(t)
    BY <1>1 DEF ShutdownStep, CloseAdmission, AnnounceShutdown, BeginShutdown, PublishTermination, Terminated
  <1>2. CASE t \in Stops /\ StopStep(t)
    <2>1. CASE CloseAdmission(t, "stopNow") \/ SetStopNow(t) \/ BeginStop(t) \/ AwaitSubmitters(t) \/ ResumeStop(t)
      BY <2>1 DEF CloseAdmission, SetStopNow, BeginStop, AwaitSubmitters, ResumeStop
    <2>2. CASE CancelCallback(t) \/ Settle(t)
      BY <2>2 DEF CancelCallback, Settle
    <2>3. CASE Drain(t) \/ NotifyUnderLock(t)
      BY <2>3 DEF Drain, NotifyUnderLock, PublishTermination, Terminated
    <2> QED
      BY <1>2, <2>1, <2>2, <2>3 DEF StopStep
  <1>3. CASE t \in Joiners /\ JoinStep(t)
    BY <1>3 DEF JoinStep, BeginJoin
  <1>4. CASE t \in Waiters /\ (WaiterStep(t) \/ TimeoutElapses(t))
    BY <1>4 DEF WaiterStep, AwaitTermination, SubscribeTermination, WatchTermination, TimeoutElapses,
                PublishTermination, Terminated
  <1>5. CASE (t \in Tuners /\ NotifyTuned(t)) \/ (t \in Builders /\ AwaitEnd(t))
    BY <1>5 DEF NotifyTuned, AwaitEnd
  <1>6. CASE t \in Tuners /\ Tune(t)
    <2>1. CASE UNCHANGED terminationTx
      BY <2>1
    <2>2. CASE lifecycle = "Running" /\ SpawnFails(t, "done")
      BY <2>2 DEF SpawnFails, PublishTermination, Terminated
    <2> QED
      BY <1>6, <2>1, <2>2 DEF Tune, SetCorePoolSize, SetMaximumPoolSize, AllowCoreThreadTimeout, SetKeepAlive, PrestartCoreThread
  <1>7. CASE t \in Builders /\ PrestartAll(t)
    <2>1. CASE UNCHANGED terminationTx
      BY <2>1
    <2>2. CASE SpawnFails(t, "buildFailed")
      <3>1. lifecycle = "Running"
        BY <1>7 DEF PrestartAll, GateFirst
      <3> QED
        BY <2>2, <3>1 DEF SpawnFails, PublishTermination, Terminated
    <2> QED
      BY <1>7, <2>1, <2>2 DEF PrestartAll
  <1> QED
    BY <1>1, <1>2, <1>3, <1>4, <1>5, <1>6, <1>7 DEF ControllerStep, TuneStep

\* Every step publishes nothing but the end of the pool.
LEMMA StepPublishes ==
  ASSUME TypeOK, Own, GateFirst, [Next]_vars
  PROVE  Publishes
  <1>1. CASE UNCHANGED vars
    BY <1>1 DEF vars, Publishes
  <1> QED
    BY <1>1, Roles, Steps, WorkerPublishes, CallerPublishes, ControllerPublishes

\* The lifecycle changes only behind a closed gate and never goes back.
LEMMA ClosedBefore ==
  ASSUME TypeOK, Own, GateFirst, [Next]_vars
  PROVE  /\ lifecycle' # "Running" => ~open
         /\ lifecycle # "Running" => lifecycle' # "Running"
  <1> USE Roles
  <1>0. lifecycle # "Running" => ~open
    BY DEF GateFirst
  <1>1. ASSUME NEW t \in Controllers \cup Builders, ControllerStep(t)
        PROVE  /\ lifecycle' # "Running" => ~open
               /\ lifecycle # "Running" => lifecycle' # "Running"
    <2>1. ControllerMoves(t) /\ (pc[t] \in {"shutdown", "stop"} => ~open)
      BY <1>1, ControllerFrame DEF GateFirst
    <2> QED
      BY <1>0, <2>1 DEF ControllerMoves
  <1>2. CASE UNCHANGED vars
    BY <1>0, <1>2 DEF vars, monitor
  <1> QED
    BY <1>0, <1>1, <1>2, Steps, SubmitterFrame, WorkerFrame, CancellerFrame DEF monitor

\* Every worker thread has ended.
WorkersOff == \A w \in Workers : pc[w] = "off"

\* Exact counters at zero: no worker thread is left.
LEMMA NoWorkerLeft ==
  TypeOK /\ live = 0 /\ exiting = 0 => WorkersOff
  <1> SUFFICES ASSUME TypeOK, live = 0, exiting = 0
               PROVE  \A w \in Workers : pc[w] = "off"
    BY DEF WorkersOff
  <1>1. Looping = {} /\ Exiting = {}
    BY CountersFinite, FS_EmptySet DEF TypeOK, CountersExact
  <1> QED
    BY <1>1 DEF Looping, Exiting

\* is_terminated_locked tells the truth.
LEMMA TerminatedIsOver ==
  TypeOK /\ GateFirst /\ IsTerminated => PoolIsOver
  <1> SUFFICES ASSUME TypeOK, GateFirst, IsTerminated
               PROVE  PoolIsOver
    OBVIOUS
  <1>1. lifecycle # "Running" /\ live = 0 /\ exiting = 0 /\ IsIdle
    BY DEF IsTerminated, Terminated
  <1>2. ~open
    BY <1>1 DEF GateFirst
  <1> QED
    BY <1>1, <1>2, NoWorkerLeft, IdleIsSettled DEF PoolIsOver, WorkersOff

\* A pool that is over stays over.
LEMMA OverStays ==
  ASSUME TypeOK, Own, GateFirst, [Next]_vars, PoolIsOver
  PROVE  PoolIsOver'
  <1> USE Roles
  <1>1. /\ lifecycle # "Running" /\ ~open /\ Inside = {}
        /\ (\A w \in Workers : pc[w] = "off") /\ \A j \in Submitters : job[j] \in Settled
    BY DEF PoolIsOver
  <1>2. lifecycle' # "Running" /\ ~open' /\ Inside' = {}
    BY <1>1, ClosedBefore, NobodyEnters
  <1>3. \A j \in Submitters : job'[j] \in Settled
    BY <1>1, SettledStays
  <1>4. ASSUME NEW t \in Controllers \cup Builders, ControllerStep(t)
        PROVE  \A w \in Workers : pc'[w] = "off"
    <2>1. ControllerMoves(t) /\ (t \in Builders => pc[t] # "prestart") /\ t \notin Workers
      BY <1>1, <1>4, ControllerFrame DEF GateFirst
    <2> QED
      BY <1>1, <2>1 DEF ControllerMoves
  <1>5. ASSUME NEW s \in Submitters, SubmitterStep(s)
        PROVE  \A w \in Workers : pc'[w] = "off"
    BY <1>1, <1>5, SubmitterFrame
  <1>6. ASSUME NEW c \in Cancellers, CancellerStep(c)
        PROVE  \A w \in Workers : pc'[w] = "off"
    BY <1>1, <1>6, CancellerFrame
  <1>7. ASSUME UNCHANGED vars
        PROVE  \A w \in Workers : pc'[w] = "off"
    BY <1>1, <1>7 DEF vars
  <1>8. \A w \in Workers : pc'[w] = "off"
    BY <1>1, <1>4, <1>5, <1>6, <1>7, Steps, WorkerFrame
  <1> QED
    BY <1>2, <1>3, <1>8 DEF PoolIsOver

\* A caller of wait_for_termination returns from a terminated pool.
LEMMA WaiterLearns ==
  ASSUME TypeOK, Own, [Next]_vars, NEW t \in Waiters, pc'[t] = "done"
  PROVE  pc[t] = "done" \/ IsTerminated \/ terminationTx
  <1> USE Roles
  <1>0. t \in Threads /\ t \in Controllers /\ DOMAIN pc = Threads /\ t \notin Stops /\ t \notin Workers
    BY DEF Stops, TypeOK, PcOK
  <1>1. CASE WaiterStep(t) \/ TimeoutElapses(t)
    BY <1>0, <1>1 DEF WaiterStep, AwaitTermination, SubscribeTermination, WatchTermination, TimeoutElapses, Wait
  <1>2. CASE ~(WaiterStep(t) \/ TimeoutElapses(t))
    <2>0. ~ControllerStep(t)
      BY <1>0, <1>2 DEF ControllerStep
    <2>1. ASSUME NEW u \in Controllers \cup Builders, ControllerStep(u)
          PROVE  pc'[t] = pc[t]
      <3>1. u # t /\ ControllerMoves(u)
        BY <2>0, <2>1, ControllerFrame
      <3> QED
        BY <1>0, <3>1 DEF ControllerMoves
    <2>2. CASE UNCHANGED vars
      BY <2>2 DEF vars
    <2> QED
      BY <1>0, <2>1, <2>2, Steps, SubmitterFrame, WorkerFrame, CancellerFrame
  <1> QED
    BY <1>1, <1>2

\* Whoever is told of termination is told the truth, for good.
LEMMA ToldStays ==
  ASSUME TypeOK, Own, GateFirst, Told, TypeOK', GateFirst', [Next]_vars
  PROVE  Told'
  <1>1. PoolIsOver => PoolIsOver'
    BY OverStays
  <1>2. IsTerminated => PoolIsOver
    BY TerminatedIsOver
  <1>3. ASSUME NEW t \in Waiters, pc'[t] = "done"
        PROVE  PoolIsOver'
    BY <1>1, <1>2, <1>3, WaiterLearns DEF Told
  <1>4. CASE terminationTx' /\ terminationTx
    BY <1>1, <1>4 DEF Told
  <1>5. CASE terminationTx' /\ ~terminationTx
    <2>1. lifecycle' # "Running" /\ live' = 0 /\ exiting' = 0 /\ IsIdle
      BY <1>5, StepPublishes DEF Publishes
    <2>2. ~open /\ ~open'
      BY <2>1, ClosedBefore, NobodyEnters
    <2>3. Inside = {} /\ \A j \in Submitters : job[j] \in Settled
      BY <2>1, IdleIsSettled
    <2>4. Inside' = {} /\ \A j \in Submitters : job'[j] \in Settled
      BY <2>2, <2>3, NobodyEnters, SettledStays
    <2>5. \A w \in Workers : pc'[w] = "off"
      <3>1. (TypeOK /\ live = 0 /\ exiting = 0)'
        BY <2>1
      <3>2. WorkersOff'
        BY <3>1, NoWorkerLeft, PTL
      <3> QED
        BY <3>2 DEF WorkersOff
    <2> QED
      BY <2>1, <2>2, <2>4, <2>5 DEF PoolIsOver, Told
  <1> QED
    BY <1>3, <1>4, <1>5 DEF Told

\* Idleness depends on the submitters' places and the jobs' stages.
LEMMA IdleSame ==
  ASSUME \A s \in Submitters : pc'[s] = pc[s], job' = job
  PROVE  IsIdle' <=> IsIdle
  BY DEF IsIdle, Inside, Under

\* The last worker to leave its exit hook publishes the end of the pool.
LEMMA LastExitPublishes ==
  ASSUME TypeOK, Own, TypeOK', GateFirst', NEW w \in Workers, WorkerStep(w) \/ KeepAliveElapses(w), IsTerminated'
  PROVE  terminationTx'
  <1> USE Roles
  <1>0. w \in Threads /\ w \notin Cancellers /\ w \notin Submitters /\ DOMAIN pc = Threads /\ terminationTx \in BOOLEAN
    BY DEF TypeOK, PcOK, DataOK
  <1>1. pc'[w] = "off" /\ pc[w] # "off"
    <2>1. PoolIsOver'
      BY TerminatedIsOver, PTL
    <2> QED
      BY <2>1, WorkerFrame DEF PoolIsOver
  <1>2. FinishExit(w)
    <2>1. ~(TryTake(w) \/ Claim(w) \/ AnnounceClaim(w) \/ Run(w))
      BY <1>0, <1>1 DEF TryTake, Claim, AnnounceClaim, Run
    <2>2. ~(Settle(w) \/ NotifyUnderLock(w))
      BY <1>0, <1>1 DEF Settle, NotifyUnderLock, AfterSettle, AfterSubmit
    <2>3. ~(Check(w) \/ Relock(w) \/ IdleQueued(w) \/ IdlePending(w))
      BY <1>0, <1>1 DEF Check, Unregister, Relock, IdleQueued, IdlePending, Parks, Wait
    <2>4. ~(Awaken(w) \/ TimedOut(w) \/ KeepAliveElapses(w) \/ RetireQueued(w) \/ RetirePending(w) \/ RetireInflight(w))
      BY <1>0, <1>1 DEF Awaken, TimedOut, KeepAliveElapses, RetireQueued, RetirePending, RetireInflight
    <2>5. ~(Unmark(w) \/ Consume(w) \/ SdInflight(w) \/ SdMark(w) \/ SdQueued(w) \/ SdPark(w))
      BY <1>0, <1>1 DEF Unmark, Consume, SdInflight, Unregister, SdMark, SdQueued, SdPark, Parks, Wait
    <2> QED
      BY <2>1, <2>2, <2>3, <2>4, <2>5 DEF WorkerStep
  <1>3. job' = job /\ (\A s \in Submitters : pc'[s] = pc[s]) /\ UNCHANGED <<lifecycle, live>> /\ exiting' = exiting - 1
    BY <1>0, <1>2, WorkerFrame DEF FinishExit
  <1>4. Terminated(lifecycle, live, exiting - 1)
    BY <1>3, IdleSame DEF IsTerminated, Terminated
  <1> QED
    BY <1>0, <1>2, <1>4 DEF FinishExit, PublishTermination

\* A builder that gives up leaves a pool whose end is published, or still to come.
LEMMA BuilderPublishes ==
  ASSUME TypeOK, Own, GateFirst, GaveUp, NEW b \in Builders, ControllerStep(b)
  PROVE  /\ pc'[b] \in {"stopNotify", "awaitEnd"} /\ IsTerminated' => terminationTx'
         /\ pc'[b] = "failed" => terminationTx'
  <1> USE Roles
  <1>0. /\ b \in Threads /\ b \notin Submitters /\ b \notin Workers /\ b \notin Cancellers /\ DOMAIN pc = Threads
        /\ terminationTx \in BOOLEAN /\ b \in Controllers \cup Builders /\ pc[b] \in BuilderPcs /\ b \notin Controllers
        /\ b \in Threads \ Workers /\ DOMAIN job = Submitters /\ job = [s \in Submitters |-> job[s]]
    BY DEF TypeOK, PcOK, DataOK
  <1>1. ASSUME UNCHANGED <<lifecycle, live, exiting, job>>, \A s \in Submitters : pc'[s] = pc[s]
        PROVE  IsTerminated' <=> IsTerminated
    BY <1>1, IdleSame DEF IsTerminated, Terminated
  <1>2. \A u \in Threads \ {b} : u \in Submitters => pc'[u] = pc[u]
    BY <1>0, ControllerFrame DEF ControllerMoves
  <1>3. \A s \in Submitters : pc'[s] = pc[s]
    BY <1>0, <1>2
  <1>4. CASE Drain(b)
    <2>1. pc'[b] = "stopNotify" => queue = <<>>
      BY <1>0, <1>4 DEF Drain
    <2>2. pc'[b] \in {"stopNotify", "cancel"}
      BY <1>0, <1>4 DEF Drain
    <2>3. queue = <<>> => job' = job
      BY <1>0, <1>4, NoJob DEF Drain
    <2> QED
      BY <1>0, <1>1, <1>3, <1>4, <2>1, <2>2, <2>3 DEF Drain, PublishTermination, IsTerminated, monitor
  <1>5. CASE Settle(b)
    <2>1. pc'[b] = "stopNotify" => ~IsIdle
      BY <1>0, <1>5 DEF Settle
    <2>2. pc'[b] \in {"stopNotify", "cancel", "settleNotify"}
      BY <1>0, <1>5 DEF Settle, AfterSettle
    <2>3. job' = job
      BY <1>5 DEF Settle, jobs
    <2> QED
      BY <1>3, <2>1, <2>2, <2>3, IdleSame DEF IsTerminated, Terminated
  <1>6. CASE NotifyUnderLock(b)
    <2>1. UNCHANGED <<lifecycle, live, exiting, job>>
      BY <1>6 DEF NotifyUnderLock, monitor, jobs
    <2>2. CASE At(b, "settleNotify")
      <3>1. PublishTermination(lifecycle, live, exiting) /\ pc'[b] \in {"stopNotify", "cancel"}
        BY <1>0, <1>6, <2>2 DEF NotifyUnderLock, At, AfterSettle
      <3> QED
        BY <1>0, <1>1, <1>3, <2>1, <3>1 DEF PublishTermination, IsTerminated
    <2>3. CASE At(b, "stopNotify")
      <3>1. terminationTx' = terminationTx /\ pc'[b] = "awaitEnd" /\ pc[b] = "stopNotify"
        BY <1>0, <1>6, <2>3 DEF NotifyUnderLock, At
      <3> QED
        BY <1>0, <1>1, <1>3, <2>1, <3>1 DEF GaveUp
    <2> QED
      BY <1>0, <1>6, <2>2, <2>3 DEF NotifyUnderLock, At, BuilderPcs, StopPcs
  <1>7. CASE AwaitEnd(b)
    <2>1. UNCHANGED <<lifecycle, live, exiting, job, terminationTx>> /\ pc[b] = "awaitEnd" /\ pc'[b] \in {"awaitEnd", "failed"}
      BY <1>0, <1>7 DEF AwaitEnd, Wait, monitor, jobs
    <2>2. pc'[b] = "failed" => IsTerminated
      BY <1>0, <1>7 DEF AwaitEnd, Wait
    <2> QED
      BY <1>1, <1>3, <2>1, <2>2 DEF GaveUp
  <1>8. CASE PrestartAll(b)
    <2>1. pc'[b] \in {"prestart", "ready", "buildFailed"}
      BY <1>8, PrestartMoves
    <2> QED
      BY <2>1
  <1>9. CASE CloseAdmission(b, "stopNow") \/ SetStopNow(b) \/ BeginStop(b) \/ AwaitSubmitters(b) \/ ResumeStop(b) \/ CancelCallback(b)
    <2>1. pc'[b] \notin {"stopNotify", "awaitEnd", "failed"}
      BY <1>0, <1>9 DEF CloseAdmission, SetStopNow, BeginStop, AwaitSubmitters, Wait, ResumeStop, CancelCallback
    <2> QED
      BY <2>1
  <1>10. StopStep(b) \/ PrestartAll(b) \/ AwaitEnd(b)
    BY <1>0 DEF ControllerStep
  <1> QED
    BY <1>4, <1>5, <1>6, <1>7, <1>8, <1>9, <1>10 DEF StopStep

\* The builder that gave up returns its error from a pool whose end is published.
LEMMA GaveUpStays ==
  ASSUME TypeOK, Own, GateFirst, GaveUp, TypeOK', GateFirst', [Next]_vars
  PROVE  GaveUp'
  <1> USE Roles
  <1> SUFFICES ASSUME NEW b \in Builders
               PROVE  /\ pc'[b] \in {"stopNotify", "awaitEnd"} /\ IsTerminated' => terminationTx'
                      /\ pc'[b] = "failed" => terminationTx'
    BY DEF GaveUp
  <1>0. b \in Threads /\ (terminationTx => terminationTx')
    BY StepPublishes DEF Publishes
  <1>1. CASE UNCHANGED vars
    <2>1. (IsTerminated' <=> IsTerminated) /\ pc'[b] = pc[b] /\ terminationTx' = terminationTx
      BY <1>1, IdleSame DEF vars, monitor, jobs, IsTerminated, Terminated
    <2> QED
      BY <2>1 DEF GaveUp
  <1>2. ASSUME NEW w \in Workers, WorkerStep(w) \/ KeepAliveElapses(w)
        PROVE  /\ pc'[b] \in {"stopNotify", "awaitEnd"} /\ IsTerminated' => terminationTx'
               /\ pc'[b] = "failed" => terminationTx'
    <2>1. pc'[b] = pc[b]
      BY <1>0, <1>2, WorkerFrame
    <2> QED
      BY <1>0, <1>2, <2>1, LastExitPublishes DEF GaveUp
  <1>3. ASSUME NEW t \in Threads, \/ t \in Submitters /\ SubmitterStep(t)
                                  \/ t \in Cancellers /\ CancellerStep(t)
                                  \/ t \in Controllers /\ ControllerStep(t)
        PROVE  pc'[b] = "ready"
    <2>1. pc[b] = "ready" /\ b \notin Workers /\ b # t
      BY <1>3, ReadyFirst
    <2>2. t \in Controllers /\ ControllerStep(t) => pc'[b] = pc[b]
      BY <1>0, <2>1, ControllerFrame DEF ControllerMoves
    <2> QED
      BY <1>0, <1>3, <2>1, <2>2, SubmitterFrame, CancellerFrame
  <1>4. \A t \in Builders : t = b
    BY RolesAssumption
  <1>5. CASE ControllerStep(b)
    BY <1>5, BuilderPublishes
  <1> QED
    BY <1>1, <1>2, <1>3, <1>4, <1>5, Steps

-----------------------------------------------------------------------------
(***************************************************************************)
(* Retries.  A step either announces a change on the capacity channel, and *)
(* then every receiver that matters has a change to see, or it takes away  *)
(* neither an announcement that is still to come nor a free slot.          *)
(***************************************************************************)
Announcing == {"claimed", "settle", "released", "announce", "stopNow"}
Announced == \A s \in Retriers : pc'[s] = "reserve" \/ job'[s] = "saturated" => s \in unseen'

\* A retrier without a change to see was one before, or has just tried and failed.
RetrierQuiet(s) ==
  \/ /\ s \notin unseen
     /\ Saturated(s)' => Saturated(s)
     /\ pc'[s] = "reserve" => pc[s] = "reserve"
  \/ pc'[s] = "reserve" /\ job'[s] # "saturated" /\ open'
  \/ s \notin unseen /\ pc[s] = "reserve" /\ pc'[s] # "reserve" /\ ~HasRoom /\ Slots' = Slots
  \/ pc'[s] # "reserve" /\ ~Saturated(s)'

Quiet == /\ \A t \in Threads : pc[t] \in Announcing => pc'[t] = pc[t]
         /\ open' = open \/ Closing'
         /\ Slots \subseteq Slots' \/ Freed'
         /\ \A s \in Retriers : s \notin unseen' => RetrierQuiet(s)

\* Slots that stay taken leave no more room.
LEMMA RoomShrinks ==
  ASSUME Slots \subseteq Slots', HasRoom'
  PROVE  HasRoom
  <1>1. IsFiniteSet(Slots')
    <2>1. Slots' \subseteq Threads
      BY Roles DEF Slots, Under
    <2> QED
      BY <2>1, RolesAssumption, FS_Subset
  <1>2. Cardinality(Slots) <= Cardinality(Slots') /\ Cardinality(Slots) \in Nat /\ Cardinality(Slots') \in Nat
    BY <1>1, FS_Subset, FS_CardinalityType
  <1>3. Capacity \in Nat
    BY PoolAssumption
  <1> QED
    BY <1>2, <1>3 DEF HasRoom

\* Such steps keep what the retriers may rely on.
LEMMA RetryKept ==
  ASSUME RetrierKnows, Announced \/ Quiet
  PROVE  RetrierKnows'
  <1>1. CASE Announced
    BY <1>1 DEF Announced, RetrierKnows, Saturated
  <1>2. CASE Quiet
    <2>1. (Freed => Freed') /\ (Closing => Closing')
      BY <1>2 DEF Quiet, Announcing, Freed, Closing
    <2>2. HasRoom' => HasRoom \/ Freed'
      BY <1>2, RoomShrinks DEF Quiet
    <2> SUFFICES ASSUME NEW s \in Retriers, s \notin unseen'
                 PROVE  /\ ~open' /\ (pc'[s] = "reserve" \/ Saturated(s)') => Closing'
                        /\ HasRoom' /\ Saturated(s)' => Freed'
      BY DEF RetrierKnows, Saturated
    <2>3. RetrierQuiet(s) /\ (open' = open \/ Closing')
      BY <1>2 DEF Quiet
    <2>4. s \notin unseen => /\ ~open /\ (pc[s] = "reserve" \/ Saturated(s)) => Closing
                             /\ HasRoom /\ Saturated(s) => Freed
      BY DEF RetrierKnows
    <2>5. Slots' = Slots /\ ~HasRoom => ~HasRoom'
      BY DEF HasRoom
    <2> QED
      BY <2>1, <2>2, <2>3, <2>4, <2>5 DEF RetrierQuiet, Saturated
  <1> QED
    BY <1>1, <1>2

\* A step of a thread that is not a submission.
LEMMA BystanderQuiet ==
  ASSUME TypeOK, NEW t \in Threads \ Submitters, pc[t] \notin Announcing, unseen' = unseen,
         \A u \in Threads \ {t} : pc'[u] = pc[u] \/ (u \in Workers /\ pc[u] = "off"),
         open' = open \/ pc'[t] \in {"announce", "stopNow"},
         \A j \in Submitters : job'[j] = "saturated" => job[j] = "saturated",
         \/ \A j \in Submitters : job[j] \in {"reserved", "queued", "cancelling"}
                                     => job'[j] \in {"reserved", "queued", "cancelling"}
         \/ pc'[t] \in {"claimed", "settle"}
  PROVE  Quiet
  <1> USE Roles
  <1>1. \A u \in Threads : pc[u] \in Announcing => pc'[u] = pc[u]
    BY DEF Announcing
  <1>2. open' = open \/ Closing'
    BY DEF Closing
  <1>3. Slots \subseteq Slots' \/ Freed'
    BY DEF Slots, Under, Freed
  <1>4. \A s \in Retriers : s \notin unseen' => RetrierQuiet(s)
    <2>1. \A s \in Retriers : pc'[s] = pc[s] /\ (job'[s] = "saturated" => job[s] = "saturated")
      BY PoolAssumption
    <2> QED
      BY <2>1 DEF RetrierQuiet, Saturated
  <1> QED
    BY <1>1, <1>2, <1>3, <1>4 DEF Quiet

\* A step of a submission.
LEMMA SubmissionQuiet ==
  ASSUME TypeOK, NEW s \in Submitters, pc[s] \notin Announcing, open' = open,
         \A u \in Threads \ {s} : pc'[u] = pc[u] \/ (u \in Workers /\ pc[u] = "off"),
         \A i \in Submitters \ {s} : job'[i] = job[i] /\ (i \in unseen => i \in unseen'),
         \/ job[s] \in {"reserved", "queued", "cancelling"} => job'[s] \in {"reserved", "queued", "cancelling"}
         \/ pc'[s] \in {"settle", "released"},
         s \in Retriers /\ s \notin unseen' => RetrierQuiet(s)
  PROVE  Quiet
  <1> USE Roles
  <1>1. \A u \in Threads : pc[u] \in Announcing => pc'[u] = pc[u]
    BY DEF Announcing
  <1>3. Slots \subseteq Slots' \/ Freed'
    BY DEF Slots, Under, Freed
  <1>4. \A i \in Retriers : i \notin unseen' => RetrierQuiet(i)
    <2>1. \A i \in Retriers \ {s} : pc'[i] = pc[i] /\ job'[i] = job[i] /\ (i \notin unseen' => i \notin unseen)
      BY PoolAssumption
    <2> QED
      BY <2>1 DEF RetrierQuiet, Saturated
  <1> QED
    BY <1>1, <1>3, <1>4 DEF Quiet

\* An announcement: whoever tries, or was told Saturated, has a change to see.
LEMMA AnnouncementReaches ==
  ASSUME NEW t \in Threads, NotifyCapacity, job' = job, pc'[t] # "reserve", \A u \in Threads \ {t} : pc'[u] = pc[u]
  PROVE  Announced
  <1>1. Retriers \subseteq Threads
    BY Roles, PoolAssumption
  <1> QED
    BY <1>1 DEF NotifyCapacity, At, Announced

\* A worker announces the slot that its claim freed.
LEMMA WorkerTells ==
  ASSUME TypeOK, Own, NEW w \in Workers, WorkerStep(w) \/ KeepAliveElapses(w)
  PROVE  Announced \/ Quiet
  <1> USE Roles
  <1>0. /\ w \in Threads /\ w \notin Submitters /\ w \notin Cancellers /\ DOMAIN pc = Threads /\ pc[w] \in WorkerPcs
        /\ \A u \in Threads \ {w} : pc'[u] = pc[u]
    BY WorkerFrame DEF TypeOK, PcOK
  <1>1. CASE AnnounceClaim(w) \/ Settle(w)
    <2>1. NotifyCapacity /\ job' = job
      BY <1>1 DEF AnnounceClaim, Settle, jobs
    <2>2. pc'[w] # "reserve"
      BY <1>0, <1>1 DEF AnnounceClaim, Settle, AfterSettle
    <2> QED
      BY <1>0, <2>1, <2>2, AnnouncementReaches
  <1>2. CASE ~(AnnounceClaim(w) \/ Settle(w))
    <2>1. pc[w] \notin {"claimed", "settle"} /\ unseen' = unseen
      <3>1. CASE TryTake(w) \/ Claim(w) \/ Run(w)
        BY <3>1 DEF TryTake, Claim, Run, At, locals
      <3>2. CASE NotifyUnderLock(w) \/ FinishExit(w)
        BY <3>2 DEF NotifyUnderLock, FinishExit, At, locals
      <3>3. CASE Check(w) \/ Relock(w) \/ IdleQueued(w) \/ IdlePending(w)
        BY <3>3 DEF Check, Relock, IdleQueued, IdlePending, Parks, Reads, At, locals
      <3>4. CASE Awaken(w) \/ TimedOut(w) \/ KeepAliveElapses(w) \/ RetireQueued(w) \/ RetirePending(w) \/ RetireInflight(w)
        BY <3>4 DEF Awaken, TimedOut, KeepAliveElapses, RetireQueued, RetirePending, RetireInflight, Reads, At, locals
      <3>5. CASE Unmark(w) \/ Consume(w) \/ SdInflight(w) \/ SdMark(w) \/ SdQueued(w) \/ SdPark(w)
        BY <3>5 DEF Unmark, Consume, SdInflight, SdMark, SdQueued, SdPark, Parks, Reads, At, locals
      <3> QED
        BY <1>2, <3>1, <3>2, <3>3, <3>4, <3>5 DEF WorkerStep
    <2>2. pc[w] \notin Announcing
      BY <1>0, <2>1 DEF Announcing, WorkerPcs
    <2>3. open' = open /\ \A j \in Submitters : Stays(j) \/ Taken(j, "running") \/ Ends(j, "running", "completed")
      BY WorkerFrame DEF flags
    <2>4. \A j \in Submitters : job'[j] = "saturated" => job[j] = "saturated"
      BY <2>3 DEF Stays, Taken, Ends
    <2>5. CASE Claim(w)
      <3>1. pc'[w] = "claimed"
        BY <1>0, <2>5 DEF Claim
      <3> QED
        BY <1>0, <2>1, <2>2, <2>3, <2>4, <3>1, BystanderQuiet
    <2>6. CASE ~Claim(w)
      <3>1. \A j \in Submitters : job[j] = "queued" => job'[j] = "queued"
        <4>1. CASE TryTake(w) \/ NotifyUnderLock(w) \/ FinishExit(w)
          BY <4>1 DEF TryTake, NotifyUnderLock, FinishExit, jobs
        <4>2. CASE Check(w) \/ Relock(w) \/ IdleQueued(w) \/ IdlePending(w)
          BY <4>2 DEF Check, Relock, IdleQueued, IdlePending, Parks, Reads, jobs
        <4>3. CASE Awaken(w) \/ TimedOut(w) \/ KeepAliveElapses(w) \/ RetireQueued(w) \/ RetirePending(w) \/ RetireInflight(w)
          BY <4>3 DEF Awaken, TimedOut, KeepAliveElapses, RetireQueued, RetirePending, RetireInflight, Reads, jobs
        <4>4. CASE Unmark(w) \/ Consume(w) \/ SdInflight(w) \/ SdMark(w) \/ SdQueued(w) \/ SdPark(w)
          BY <4>4 DEF Unmark, Consume, SdInflight, SdMark, SdQueued, SdPark, Parks, Reads, jobs
        <4>5. CASE Run(w)
          <5>1. work[w] \in Seq(Submitters) /\ DOMAIN job = Submitters /\ \E j \in Submitters : work[w] = <<j>>
            BY <1>0, <4>5 DEF Run, At, TypeOK, DataOK, Own, HandsFit, HandFit
          <5> PICK i \in Submitters : work[w] = <<i>>
            BY <5>1
          <5>2. Head(work[w]) = i /\ job[i] = "running"
            <6>1. Head(work[w]) = i /\ ToSet(work[w]) = {i}
              BY OneJob
            <6> QED
              BY <1>0, <6>1 DEF Own, OneHolder
          <5> QED
            BY <4>5, <5>1, <5>2 DEF Run
        <4> QED
          BY <1>2, <2>6, <4>1, <4>2, <4>3, <4>4, <4>5 DEF WorkerStep
      <3>2. \A j \in Submitters : job[j] \in {"reserved", "queued", "cancelling"}
                                     => job'[j] \in {"reserved", "queued", "cancelling"}
        BY <2>3, <3>1 DEF Stays, Taken, Ends
      <3> QED
        BY <1>0, <2>1, <2>2, <2>3, <2>4, <3>2, BystanderQuiet
    <2> QED
      BY <2>5, <2>6
  <1> QED
    BY <1>1, <1>2

\* A submission that gives up its slot, or ends a cancellation, announces the slot.
LEMMA SubmitterTells ==
  ASSUME TypeOK, Own, NEW s \in Submitters, SubmitterStep(s)
  PROVE  Announced \/ Quiet
  <1> USE Roles
  <1>0. /\ s \in Threads /\ DOMAIN pc = Threads /\ pc[s] \in SubmitterPcs /\ open' = open /\ DOMAIN job = Submitters
        /\ EntryFit(s) /\ unseen \subseteq Retriers
    BY SubmitterFrame DEF TypeOK, PcOK, DataOK, flags, Own, EntryFits
  <1>1. \A u \in Threads \ {s} : pc'[u] = pc[u] \/ (u \in Workers /\ pc[u] = "off")
    BY SubmitterFrame
  <1>2. \A i \in Submitters \ {s} : job'[i] = job[i]
    BY SubmitterFrame DEF Stays
  <1>3. ASSUME unseen' = unseen, pc[s] \notin Announcing, pc'[s] # "reserve", pc[s] # "retry",
               job'[s] = "saturated" => job[s] = "saturated",
               \/ job[s] \in {"reserved", "queued", "cancelling"} => job'[s] \in {"reserved", "queued", "cancelling"}
               \/ pc'[s] \in {"settle", "released"}
        PROVE  Quiet
    <2>1. s \in Retriers /\ s \notin unseen' => RetrierQuiet(s)
      BY <1>3 DEF RetrierQuiet, Saturated
    <2> QED
      BY <1>0, <1>1, <1>2, <1>3, <2>1, SubmissionQuiet
  <1>4. CASE BeginSubmit(s)
    <2>1. /\ job'[s] = "none" /\ (pc'[s] = "reserve" => open') /\ pc[s] \in {"start", "retry"}
          /\ \A i \in Submitters \ {s} : i \in unseen => i \in unseen'
      BY <1>0, <1>4 DEF BeginSubmit, Calls, At, flags
    <2>2. RetrierQuiet(s)
      BY <2>1 DEF RetrierQuiet, Saturated
    <2>3. job[s] \in {"none", "saturated"} /\ pc[s] \notin Announcing
      BY <1>0, <2>1 DEF EntryFit, Announcing
    <2> QED
      BY <1>0, <1>1, <1>2, <2>1, <2>2, <2>3, SubmissionQuiet
  <1>5. CASE ReserveSubmission(s)
    <2>1. /\ pc[s] = "reserve" /\ pc'[s] \in {"leave", "accept", "accepting"} /\ pc[s] \notin Announcing
          /\ job'[s] \in {"none", "saturated", "reserved"} /\ job[s] = "none"
      <3>1. pc[s] = "reserve" /\ job[s] = "none"
        BY <1>0, <1>5 DEF ReserveSubmission, At, EntryFit
      <3>2. pc'[s] \in {"leave", "accept", "accepting"}
        BY <1>0, <1>5, ReserveMoves, <3>1 DEF ReserveSubmission, Spawn, SpawnFails, AfterReserve
      <3>3. job'[s] \in {"none", "saturated", "reserved"}
        BY <1>5, <3>1, SubmitterFrame
      <3> QED
        BY <3>1, <3>2, <3>3 DEF Announcing
    <2>2. unseen' = IF job'[s] = "saturated" THEN unseen ELSE unseen \ {s}
      BY <1>5 DEF ReserveSubmission
    <2>3. CASE job'[s] # "saturated"
      <3>1. RetrierQuiet(s)
        BY <2>1, <2>3 DEF RetrierQuiet, Saturated
      <3> QED
        BY <1>0, <1>1, <1>2, <2>1, <2>2, <3>1, SubmissionQuiet
    <2>4. CASE job'[s] = "saturated"
      <3>1. ~HasRoom
        BY <1>0, <1>5, <2>1, <2>4 DEF ReserveSubmission
      <3>2. Slots' = Slots
        BY <1>2, <2>1, <2>4 DEF Slots, Under
      <3>3. s \notin unseen' => RetrierQuiet(s)
        BY <2>1, <2>2, <2>4, <3>1, <3>2 DEF RetrierQuiet
      <3> QED
        BY <1>0, <1>1, <1>2, <2>1, <2>2, <2>4, <3>3, SubmissionQuiet
    <2> QED
      BY <2>3, <2>4
  <1>6. CASE AnnounceRelease(s) \/ Settle(s)
    <2>1. NotifyCapacity /\ job' = job
      BY <1>6 DEF AnnounceRelease, Settle, jobs
    <2>2. pc'[s] # "reserve" /\ \A u \in Threads \ {s} : pc'[u] = pc[u]
      BY <1>0, <1>6 DEF AnnounceRelease, Settle, AfterSettle
    <2> QED
      BY <1>0, <2>1, <2>2, AnnouncementReaches
  <1>7. CASE AwaitCapacity(s)
    <2>1. /\ pc[s] = "awaitCapacity" /\ pc'[s] = "retry" /\ job' = job /\ unseen' = unseen \ {s}
      BY <1>0, <1>7 DEF AwaitCapacity, At, jobs
    <2>2. RetrierQuiet(s) /\ pc[s] \notin Announcing
      BY <2>1 DEF RetrierQuiet, Saturated, Announcing
    <2> QED
      BY <1>0, <1>1, <1>2, <2>1, <2>2, SubmissionQuiet
  <1>8. CASE AcceptPanics(s)
    <2>1. pc[s] = "accepting" /\ pc'[s] = "released" /\ job'[s] = "none" /\ unseen' = unseen
      BY <1>0, <1>8 DEF AcceptPanics, At, locals
    <2> QED
      BY <1>3, <2>1 DEF Announcing
  <1>9. CASE Publish(s)
    <2>1. pc[s] = "accepting" /\ pc'[s] \in {"cancel", "wake"} /\ job'[s] \in {"queued", "cancelling"} /\ unseen' = unseen
      BY <1>0, <1>9 DEF Publish, At, locals
    <2> QED
      BY <1>3, <2>1 DEF Announcing
  <1>10. CASE CancelCallback(s)
    <2>1. /\ pc[s] = "cancel" /\ pc'[s] = "settle" /\ job'[s] = "cancelled" /\ unseen' = unseen
      BY <1>0, <1>10, CancelMoves DEF Ends, locals
    <2> QED
      BY <1>3, <2>1 DEF Announcing
  <1>11. CASE BeginAccept(s) \/ RejectEntry(s) \/ CancelEntry(s) \/ LoadIdle(s) \/ RequestWake(s)
    <2>1. /\ pc[s] \in {"accept", "rejectEntry", "cancelEntry", "wake", "token"} /\ job' = job /\ unseen' = unseen
          /\ pc'[s] # "reserve"
      BY <1>0, <1>11 DEF BeginAccept, RejectEntry, CancelEntry, LoadIdle, RequestWake, At, locals, jobs
    <2> QED
      BY <1>3, <2>1 DEF Announcing
  <1>12. CASE NotifyUnderLock(s)
    <2>1. /\ pc[s] \in {"wakeNotify", "stopNotify", "rejectNotify", "departNotify", "settleNotify"}
          /\ job' = job /\ unseen' = unseen
      BY <1>12 DEF NotifyUnderLock, At, locals, jobs
    <2>2. pc'[s] # "reserve"
      BY <1>0, <1>12 DEF NotifyUnderLock, AfterSettle, AfterSubmit
    <2> QED
      BY <1>3, <2>1, <2>2 DEF Announcing
  <1>13. CASE Leave(s) \/ DepartOpen(s) \/ DepartWaiters(s)
    <2>1. /\ pc[s] \in {"leave", "departOpen", "departWaiters"} /\ job' = job /\ unseen' = unseen
      BY <1>13 DEF Leave, DepartOpen, DepartWaiters, At, locals, jobs
    <2>2. pc'[s] # "reserve"
      BY <1>0, <1>13 DEF Leave, DepartOpen, DepartWaiters, AfterSubmit
    <2> QED
      BY <1>3, <2>1, <2>2 DEF Announcing
  <1> QED
    BY <1>4, <1>5, <1>6, <1>7, <1>8, <1>9, <1>10, <1>11, <1>12, <1>13 DEF SubmitterStep

\* A ticket's cancellation announces the slot of its job.
LEMMA CancellerTells ==
  ASSUME TypeOK, Own, NEW c \in Cancellers, CancellerStep(c)
  PROVE  Announced \/ Quiet
  <1> USE Roles
  <1>0. /\ c \in Threads /\ c \notin Submitters /\ c \notin Workers /\ c \in Threads \ Workers /\ c \in Threads \ Submitters
        /\ DOMAIN pc = Threads /\ pc[c] \in CancellerPcs /\ open' = open /\ \A u \in Threads \ {c} : pc'[u] = pc[u]
    BY CancellerFrame DEF TypeOK, PcOK, flags
  <1>1. \A j \in Submitters : \/ job'[j] = job[j] \/ (job[j] = "queued" /\ job'[j] = "cancelling")
                              \/ (job[j] = "cancelling" /\ job'[j] = "cancelled")
    BY CancellerFrame DEF Stays, Taken, Ends
  <1>2. CASE Settle(c)
    <2>1. NotifyCapacity /\ job' = job
      BY <1>2 DEF Settle, jobs
    <2>2. pc'[c] # "reserve"
      BY <1>0, <1>2 DEF Settle, AfterSettle
    <2> QED
      BY <1>0, <2>1, <2>2, AnnouncementReaches
  <1>3. CASE CancelCallback(c)
    <2>1. pc[c] = "cancel" /\ pc'[c] = "settle" /\ unseen' = unseen
      BY <1>0, <1>3, CancelMoves DEF locals
    <2> QED
      BY <1>0, <1>1, <2>1, BystanderQuiet DEF Announcing
  <1>4. CASE AskTicket(c) \/ AwaitDecision(c) \/ NotifyUnderLock(c)
    <2>1. pc[c] \notin {"settle", "claimed", "released", "announce", "stopNow"} /\ unseen' = unseen /\ job' = job
      BY <1>0, <1>4 DEF AskTicket, Calls, AwaitDecision, NotifyUnderLock, At, locals, jobs
    <2> QED
      BY <1>0, <1>1, <2>1, BystanderQuiet DEF Announcing
  <1>5. CASE Withdraw(c)
    <2>1. pc[c] = "withdraw" /\ unseen' = unseen
      BY <1>5 DEF Withdraw, At, locals
    <2>2. \A j \in Submitters : job'[j] # "cancelled" \/ job'[j] = job[j]
      BY <1>5 DEF Withdraw, jobs, TypeOK, DataOK
    <2> QED
      BY <1>0, <1>1, <2>1, <2>2, BystanderQuiet DEF Announcing
  <1> QED
    BY <1>2, <1>3, <1>4, <1>5 DEF CancellerStep

\* shutdown and stop close the gate and then announce it; stop announces what it cancels.
LEMMA ControllerTells ==
  ASSUME TypeOK, Own, NEW t \in Controllers \cup Builders, ControllerStep(t)
  PROVE  Announced \/ Quiet
  <1> USE Roles
  <1>0. /\ t \in Threads /\ t \notin Submitters /\ t \notin Workers /\ t \notin Cancellers /\ t \in Threads \ Workers
        /\ t \in Threads \ Submitters /\ DOMAIN pc = Threads /\ (t \in Controllers => pc[t] \in ControllerPcs)
        /\ (t \in Builders => pc[t] \in BuilderPcs)
    BY DEF TypeOK, PcOK
  <1>1. /\ \A u \in Threads \ {t} : pc'[u] = pc[u] \/ (u \in Workers /\ pc[u] = "off")
        /\ \A j \in Submitters : \/ job'[j] = job[j] \/ (job[j] = "queued" /\ job'[j] = "cancelling")
                                 \/ (job[j] = "cancelling" /\ job'[j] = "cancelled")
    BY ControllerFrame DEF ControllerMoves, Stays, Taken, Ends
  <1>2. ASSUME pc[t] \notin Announcing, unseen' = unseen, open' = open \/ pc'[t] \in {"announce", "stopNow"}, job' = job
        PROVE  Quiet
    BY <1>0, <1>1, <1>2, BystanderQuiet
  <1>3. CASE AnnounceShutdown(t) \/ SetStopNow(t) \/ Settle(t)
    <2>1. NotifyCapacity /\ job' = job
      BY <1>3 DEF AnnounceShutdown, SetStopNow, Settle, jobs
    <2>2. pc'[t] # "reserve" /\ \A u \in Threads \ {t} : pc'[u] = pc[u]
      BY <1>0, <1>3 DEF AnnounceShutdown, SetStopNow, Settle, AfterSettle
    <2> QED
      BY <1>0, <2>1, <2>2, AnnouncementReaches
  <1>4. CASE CloseAdmission(t, "announce") \/ CloseAdmission(t, "stopNow")
    <2>1. pc[t] \in {"start", "buildFailed"} /\ pc'[t] \in {"announce", "stopNow"} /\ job' = job /\ unseen' = unseen
      BY <1>0, <1>4 DEF CloseAdmission, Calls, At, jobs, locals
    <2> QED
      BY <1>2, <2>1 DEF Announcing
  <1>5. CASE BeginShutdown(t) \/ BeginStop(t) \/ AwaitSubmitters(t) \/ ResumeStop(t) \/ NotifyUnderLock(t)
    <2>1. pc[t] \notin {"settle", "claimed", "released", "announce", "stopNow"} /\ unseen' = unseen /\ job' = job /\ open' = open
      BY <1>5 DEF BeginShutdown, BeginStop, AwaitSubmitters, ResumeStop, NotifyUnderLock, At, locals, jobs, flags
    <2> QED
      BY <1>2, <2>1 DEF Announcing
  <1>6. CASE Drain(t)
    <2>1. pc[t] = "drain" /\ unseen' = unseen /\ open' = open
      BY <1>6 DEF Drain, At, flags
    <2>2. \A j \in Submitters : job'[j] # "cancelled" \/ job'[j] = job[j]
      BY <1>6 DEF Drain
    <2> QED
      BY <1>0, <1>1, <2>1, <2>2, BystanderQuiet DEF Announcing
  <1>7. CASE CancelCallback(t)
    <2>1. pc[t] = "cancel" /\ pc'[t] = "settle" /\ unseen' = unseen /\ open' = open
      BY <1>0, <1>7, CancelMoves DEF locals, flags
    <2> QED
      BY <1>0, <1>1, <2>1, BystanderQuiet DEF Announcing
  <1>8. CASE JoinStep(t)
    <2>1. pc[t] \in {"start", "join"} /\ unseen' = unseen /\ job' = job /\ open' = open
      BY <1>8 DEF JoinStep, BeginJoin, Join, Calls, At, locals, jobs, flags
    <2> QED
      BY <1>2, <2>1 DEF Announcing
  <1>9. CASE WaiterStep(t) \/ TimeoutElapses(t)
    <2>1. pc[t] = "start" /\ unseen' = unseen /\ job' = job /\ open' = open
      BY <1>9 DEF WaiterStep, AwaitTermination, SubscribeTermination, WatchTermination, TimeoutElapses, Calls, At, locals,
                  jobs, flags
    <2> QED
      BY <1>2, <2>1 DEF Announcing
  <1>10. CASE Tune(t) \/ NotifyTuned(t)
    <2>1. pc[t] \in {"start", "tuned"} /\ unseen' = unseen /\ job' = job /\ open' = open
      BY <1>10 DEF Tune, NotifyTuned, Calls, At, locals, jobs, flags
    <2> QED
      BY <1>2, <2>1 DEF Announcing
  <1>11. CASE PrestartAll(t) \/ AwaitEnd(t)
    <2>1. pc[t] \in {"prestart", "awaitEnd"} /\ unseen' = unseen /\ job' = job /\ open' = open
      BY <1>11 DEF PrestartAll, AwaitEnd, At, locals, jobs, flags
    <2> QED
      BY <1>2, <2>1 DEF Announcing
  <1> QED
    BY <1>3, <1>4, <1>5, <1>6, <1>7, <1>8, <1>9, <1>10, <1>11 DEF ControllerStep, ShutdownStep, StopStep, TuneStep

\* Every step keeps what the retriers may rely on.
LEMMA RetryStays ==
  ASSUME TypeOK, Own, RetrierKnows, [Next]_vars
  PROVE  RetrierKnows'
  <1>1. CASE UNCHANGED vars
    <2>1. /\ UNCHANGED <<pc, job, unseen, open>> /\ Slots' = Slots
      BY <1>1 DEF vars, jobs, locals, flags, Slots, Under
    <2>2. (HasRoom' <=> HasRoom) /\ (Freed' <=> Freed) /\ (Closing' <=> Closing)
      BY <2>1 DEF HasRoom, Freed, Closing
    <2> QED
      BY <2>1, <2>2 DEF RetrierKnows, Saturated
  <1> QED
    BY <1>1, Steps, WorkerTells, SubmitterTells, CancellerTells, ControllerTells, RetryKept

-----------------------------------------------------------------------------
(***************************************************************************)
(* The monitor and the retirement policy.  A thread has the monitor where  *)
(* the code holds the guard, and what the policy reads changes only under  *)
(* it, so a worker parks by the policy of that moment.                     *)
(***************************************************************************)
ShutdownPath == {"sdInflight", "sdMark", "sdQueued", "sdPark"}
LockMoves(t) ==
  /\ \A u \in Threads \ {t} : pc'[u] = pc[u] \/ (u \in Workers /\ pc[u] = "off" /\ pc'[u] = "take")
  /\ \/ lock' = lock /\ (pc'[t] \in Holding => pc[t] \in Holding)
     \/ lock = Free /\ lock' = t
     \/ pc[t] \in Holding /\ lock' = Free /\ pc'[t] \notin Holding
  /\ UNCHANGED <<live, core, coreTimeout, lifecycle>> \/ lock = Free \/ pc[t] \in Holding

\* What a worker does with the monitor.
WorkerMonitor(w) ==
  /\ LockMoves(w)
  /\ \A v \in Workers \ {w} : timed'[v] = timed[v]
  /\ w \in waiting' => /\ pc[w] \in {"idlePending", "sdPark"} /\ pc'[w] = "parked"
                       /\ timed' = timed /\ UNCHANGED live
  /\ pc'[w] \in {"idleQueued", "idlePending"} =>
        /\ UNCHANGED <<live, core, coreTimeout, lifecycle>>
        /\ \/ timed'[w] <=> WaitIsTimed
           \/ pc[w] = "idleQueued" /\ timed' = timed
  /\ pc'[w] \in ShutdownPath => pc[w] \in ShutdownPath \/ lifecycle = "ShuttingDown"

\* Every step of a worker uses the state monitor and the wait queue in one of these ways.
LEMMA WorkerHolds ==
  ASSUME TypeOK, Own, ParkedFit, NEW w \in Workers, WorkerStep(w) \/ KeepAliveElapses(w)
  PROVE  WorkerMonitor(w)
  <1> USE Roles
  <1>0. /\ w \in Threads /\ w \notin Submitters /\ w \notin Cancellers /\ w \notin Builders /\ DOMAIN pc = Threads
        /\ DOMAIN timed = Workers /\ (w \in waiting => pc[w] = "parked")
        /\ \A u \in Threads \ {w} : pc'[u] = pc[u]
    BY WorkerFrame DEF TypeOK, PcOK, DataOK, ParkedFit
  <1>1. CASE TryTake(w) \/ Claim(w) \/ AnnounceClaim(w) \/ Run(w) \/ Settle(w)
    <2>1. /\ UNCHANGED <<live, core, coreTimeout, lifecycle, lock, timed, waiting>>
          /\ pc[w] \in {"take", "claim", "claimed", "run", "settle"}
      BY <1>1 DEF TryTake, Claim, AnnounceClaim, Run, Settle, At
    <2>2. pc'[w] \in {"check", "claim", "claimed", "run", "settle", "settleNotify", "take"}
      BY <1>0, <1>1 DEF TryTake, Claim, AnnounceClaim, Run, Settle, At, AfterSettle
    <2> QED
      BY <1>0, <2>1, <2>2 DEF WorkerMonitor, LockMoves, Holding, ShutdownPath
  <1>2. CASE NotifyUnderLock(w) \/ FinishExit(w)
    <2>1. /\ UNCHANGED <<core, coreTimeout, lifecycle, lock, timed>> /\ waiting' = {} /\ lock = Free
      BY <1>2 DEF NotifyUnderLock, FinishExit
    <2>2. pc'[w] \in {"leave", "done", "take", "off"}
      BY <1>0, <1>2 DEF NotifyUnderLock, FinishExit, AfterSettle, AfterSubmit, TypeOK, PcOK, WorkerPcs
    <2> QED
      BY <1>0, <2>1, <2>2 DEF WorkerMonitor, LockMoves, Holding, ShutdownPath
  <1>3. CASE Check(w)
    <2>1. /\ UNCHANGED <<core, coreTimeout, lifecycle, timed>> /\ waiting' \subseteq waiting /\ lock = Free /\ pc[w] = "check"
          /\ lock' \in {Free, w}
      BY <1>3 DEF Check, Unregister, At
    <2>2. /\ pc'[w] \in {"exit", "relock", "take", "sdInflight"}
          /\ pc'[w] = "sdInflight" => lifecycle = "ShuttingDown" /\ lock' = w
      BY <1>0, <1>3 DEF Check, Unregister
    <2> QED
      BY <1>0, <2>1, <2>2 DEF WorkerMonitor, LockMoves, Holding, ShutdownPath
  <1>4. CASE Relock(w)
    <2>1. /\ UNCHANGED <<live, core, coreTimeout, lifecycle, waiting>> /\ lock = Free /\ pc[w] = "relock"
      BY <1>4 DEF Relock, At
    <2>2. \/ pc'[w] = "take" /\ lock' = lock /\ timed' = timed
          \/ /\ pc'[w] = "idleQueued" /\ lock' = w /\ (timed'[w] <=> WaitIsTimed)
             /\ \A v \in Workers \ {w} : timed'[v] = timed[v]
      BY <1>0, <1>4 DEF Relock
    <2> QED
      BY <1>0, <2>1, <2>2 DEF WorkerMonitor, LockMoves, Holding, ShutdownPath
  <1>5. CASE IdleQueued(w) \/ RetireQueued(w) \/ RetirePending(w) \/ RetireInflight(w) \/ SdMark(w) \/ SdQueued(w) \/ Unmark(w)
    <2>1. /\ UNCHANGED <<live, core, coreTimeout, lifecycle, waiting, lock, timed>>
          /\ pc[w] \in {"idleQueued", "retireQueued", "retirePending", "retireInflight", "sdMark", "sdQueued", "unmark", "unmarkRetire"}
      BY <1>5 DEF IdleQueued, RetireQueued, RetirePending, RetireInflight, SdMark, SdQueued, Unmark, Reads, At
    <2>2. /\ pc'[w] \notin {"idleQueued", "parked", "sdInflight", "sdMark"}
          /\ pc'[w] = "idlePending" => pc[w] = "idleQueued"
          /\ pc'[w] \in {"sdPark", "sdQueued"} => pc[w] \in {"sdQueued", "sdMark"}
      BY <1>0, <1>5 DEF IdleQueued, RetireQueued, RetirePending, RetireInflight, SdMark, SdQueued, Unmark, Reads, At
    <2> QED
      BY <1>0, <2>1, <2>2 DEF WorkerMonitor, LockMoves, Holding, ShutdownPath
  <1>6. CASE IdlePending(w) \/ SdPark(w)
    <2>1. /\ UNCHANGED <<live, core, coreTimeout, lifecycle, timed>> /\ pc[w] \in {"idlePending", "sdPark"}
          /\ \/ lock' = lock /\ pc'[w] = "unmark" /\ waiting' = waiting
             \/ lock' = Free /\ pc'[w] = "parked"
      BY <1>0, <1>6 DEF IdlePending, SdPark, Parks, Wait, Reads, At
    <2> QED
      BY <1>0, <2>1 DEF WorkerMonitor, LockMoves, Holding, ShutdownPath
  <1>7. CASE Awaken(w) \/ TimedOut(w)
    <2>1. /\ UNCHANGED <<live, core, coreTimeout, lifecycle, waiting>> /\ lock = Free /\ lock' = w
          /\ w \notin waiting /\ pc'[w] \in {"unmark", "retireQueued"}
          /\ \A v \in Workers \ {w} : timed'[v] = timed[v]
      BY <1>0, <1>7 DEF Awaken, TimedOut, Notified, At
    <2> QED
      BY <1>0, <2>1 DEF WorkerMonitor, LockMoves, Holding, ShutdownPath
  <1>8. CASE KeepAliveElapses(w)
    <2>1. /\ UNCHANGED <<live, core, coreTimeout, lifecycle, lock>> /\ w \notin waiting' /\ pc'[w] = "timedOut"
          /\ \A v \in Workers \ {w} : timed'[v] = timed[v]
      BY <1>0, <1>8 DEF KeepAliveElapses
    <2> QED
      BY <1>0, <2>1 DEF WorkerMonitor, LockMoves, Holding, ShutdownPath
  <1>9. CASE Consume(w) \/ SdInflight(w)
    <2>1. /\ UNCHANGED <<core, coreTimeout, lifecycle, timed>> /\ waiting' \subseteq waiting
          /\ pc[w] \in {"consume", "consumeRetire", "sdInflight"}
          /\ \/ lock' = lock /\ pc'[w] = "sdMark" /\ pc[w] = "sdInflight"
             \/ lock' = Free /\ pc'[w] \in {"take", "exit"}
      BY <1>0, <1>9 DEF Consume, SdInflight, Unregister, Reads, At
    <2> QED
      BY <1>0, <2>1 DEF WorkerMonitor, LockMoves, Holding, ShutdownPath
  <1> QED
    BY <1>1, <1>2, <1>3, <1>4, <1>5, <1>6, <1>7, <1>8, <1>9 DEF WorkerStep

\* What every other thread does with it.
CallerMonitor(t) ==
  /\ LockMoves(t) /\ timed' = timed /\ waiting' \subseteq waiting \cup {t}
  /\ t \in Tuners => UNCHANGED lifecycle
  /\ \/ UNCHANGED <<core, coreTimeout>> /\ \A u \in Tuners : pc[u] = "tuned" => pc'[u] = "tuned"
     \/ t \in Tuners /\ pc'[t] = "tuned"
     \/ waiting' = {}

\* So do submissions and calls of cancel_queued.
LEMMA CallerHolds ==
  ASSUME TypeOK, Own, TypeOK', NEW t \in Threads, \/ t \in Submitters /\ SubmitterStep(t)
                                                  \/ t \in Cancellers /\ CancellerStep(t)
  PROVE  CallerMonitor(t)
  <1> USE Roles
  <1>0. t \notin Workers /\ t \notin Tuners /\ t \notin Joiners /\ pc'[t] \in SubmitterPcs \cup CancellerPcs
    BY DEF TypeOK, PcOK
  <1>1. pc'[t] \notin Holding
    BY <1>0 DEF Holding, SubmitterPcs, CancellerPcs
  <1>2. CASE t \in Submitters /\ SubmitterStep(t)
    <2>1. /\ UNCHANGED <<lifecycle, core, coreTimeout, lock, timed>> /\ waiting' \subseteq waiting
          /\ \A u \in Threads \ {t} : pc'[u] = pc[u] \/ (u \in Workers /\ pc[u] = "off" /\ pc'[u] = "take")
      BY <1>2, SubmitterFrame
    <2>2. UNCHANGED live \/ lock = Free
      <3>1. CASE ReserveSubmission(t)
        BY <3>1 DEF ReserveSubmission, CanLock
      <3>2. CASE ~ReserveSubmission(t)
        <4>1. Balanced(t) /\ live \in Nat
          BY <1>2, <3>2, SubmitterCounters DEF TypeOK
        <4> QED
          BY <1>0, <4>1 DEF Balanced, LiveWeight
      <3> QED
        BY <3>1, <3>2
    <2>3. \A u \in Tuners : pc'[u] = pc[u]
      BY <1>2, <2>1
    <2> QED
      BY <1>0, <1>1, <2>1, <2>2, <2>3 DEF CallerMonitor, LockMoves
  <1>3. CASE t \in Cancellers /\ CancellerStep(t)
    <2>1. /\ UNCHANGED <<live, lifecycle, core, coreTimeout, lock, timed>> /\ waiting' \subseteq waiting
          /\ \A u \in Threads \ {t} : pc'[u] = pc[u]
      BY <1>3, CancellerFrame
    <2>3. \A u \in Tuners : pc'[u] = pc[u]
      BY <1>3, <2>1
    <2> QED
      BY <1>0, <1>1, <2>1, <2>3 DEF CallerMonitor, LockMoves
  <1> QED
    BY <1>2, <1>3

\* And shutdown, stop, join, the waits for termination and the configuration calls.
LEMMA ControllerHolds ==
  ASSUME TypeOK, Own, ParkedFit, NEW t \in Controllers \cup Builders, ControllerStep(t)
  PROVE  CallerMonitor(t)
  <1> USE Roles
  <1>0. /\ t \in Threads /\ t \notin Submitters /\ t \notin Workers /\ t \notin Cancellers /\ DOMAIN pc = Threads
        /\ t \in Threads \ Workers /\ (pc[t] \in Holding => lock = t) /\ (t \in Stops => t \notin Tuners)
        /\ (t \in Controllers => pc[t] \in ControllerPcs) /\ (t \in Builders => pc[t] \in BuilderPcs)
    BY DEF TypeOK, PcOK, ParkedFit, Stops
  <1>1. timed' = timed /\ waiting' \subseteq waiting \cup {t}
    BY ControllerFrame DEF ControllerMoves
  <1>2. ASSUME t \notin Tuners, UNCHANGED <<core, coreTimeout>>, LockMoves(t)
        PROVE  CallerMonitor(t)
    <2>1. \A u \in Tuners : pc'[u] = pc[u]
      BY <1>2 DEF LockMoves
    <2> QED
      BY <1>1, <1>2, <2>1 DEF CallerMonitor
  <1>3. CASE t \in Shutdowners /\ ShutdownStep(t)
    <2>1. /\ UNCHANGED <<live, core, coreTimeout, lock>> /\ (UNCHANGED lifecycle \/ lock = Free)
          /\ \A u \in Threads \ {t} : pc'[u] = pc[u]
      BY <1>0, <1>3 DEF ShutdownStep, CloseAdmission, AnnounceShutdown, BeginShutdown, CanLock
    <2>2. pc'[t] \in {"announce", "shutdown", "done"}
      BY <1>0, <1>3 DEF ShutdownStep, CloseAdmission, AnnounceShutdown, BeginShutdown
    <2> QED
      BY <1>2, <1>3, <2>1, <2>2 DEF LockMoves, Holding
  <1>4. CASE t \in Stops /\ StopStep(t)
    <2>0. UNCHANGED <<core, coreTimeout>> /\ t \notin Tuners /\ \A u \in Threads \ {t} : pc'[u] = pc[u]
      BY <1>0, <1>4, StopCounters DEF Balanced, StopStep, CloseAdmission, SetStopNow, BeginStop, AwaitSubmitters, ResumeStop, Drain,
                                      CancelCallback, Settle, NotifyUnderLock
    <2>1. CASE CloseAdmission(t, "stopNow") \/ SetStopNow(t) \/ CancelCallback(t)
      <3>1. UNCHANGED <<live, lifecycle, lock>> /\ pc'[t] \in {"stopNow", "stop", "settle"}
        BY <1>0, <2>1 DEF CloseAdmission, SetStopNow, CancelCallback
      <3> QED
        BY <1>2, <2>0, <3>1 DEF LockMoves, Holding
    <2>2. CASE Settle(t) \/ NotifyUnderLock(t)
      <3>1. UNCHANGED <<live, lifecycle, lock>>
        BY <2>2 DEF Settle, NotifyUnderLock
      <3>2. pc'[t] \in {"settleNotify", "stopNotify", "cancel", "awaitEnd", "done", "leave", "awaitCapacity"}
        BY <1>0, <2>2 DEF Settle, NotifyUnderLock, AfterSettle, AfterSubmit
      <3> QED
        BY <1>2, <2>0, <3>1, <3>2 DEF LockMoves, Holding
    <2>3. CASE BeginStop(t) \/ ResumeStop(t)
      <3>1. lock = Free /\ lock' = t
        BY <2>3 DEF BeginStop, ResumeStop, Notified, CanLock
      <3> QED
        BY <1>2, <2>0, <3>1 DEF LockMoves
    <2>4. CASE AwaitSubmitters(t)
      <3>1. /\ UNCHANGED <<live, lifecycle>> /\ pc[t] = "stopInflight"
            /\ \/ lock' = lock /\ pc'[t] = "drain"
               \/ lock' = Free /\ pc'[t] = "stopWait"
        BY <1>0, <2>4 DEF AwaitSubmitters, Wait, At
      <3> QED
        BY <1>2, <2>0, <3>1 DEF LockMoves, Holding
    <2>5. CASE Drain(t)
      <3>1. UNCHANGED <<live, lifecycle>> /\ pc[t] = "drain" /\ lock' = Free /\ pc'[t] \in {"stopNotify", "cancel"}
        BY <1>0, <2>5 DEF Drain, At
      <3> QED
        BY <1>2, <2>0, <3>1 DEF LockMoves, Holding
    <2> QED
      BY <1>4, <2>1, <2>2, <2>3, <2>4, <2>5 DEF StopStep
  <1>5. CASE t \in Joiners /\ JoinStep(t)
    <2>1. /\ UNCHANGED <<live, lifecycle, core, coreTimeout, lock>> /\ pc'[t] \in {"join", "done"}
          /\ \A u \in Threads \ {t} : pc'[u] = pc[u]
      BY <1>0, <1>5 DEF JoinStep, BeginJoin, Join, Wait, Notified, CanLock
    <2> QED
      BY <1>2, <1>5, <2>1 DEF LockMoves, Holding
  <1>6. CASE t \in Waiters /\ (WaiterStep(t) \/ TimeoutElapses(t))
    <2>1. /\ UNCHANGED <<live, lifecycle, core, coreTimeout, lock>> /\ (pc'[t] = pc[t] \/ pc'[t] \in {"start", "done"})
          /\ \A u \in Threads \ {t} : pc'[u] = pc[u]
      BY <1>0, <1>6 DEF WaiterStep, AwaitTermination, SubscribeTermination, WatchTermination, TimeoutElapses,
                        Wait, Notified, CanLock
    <2> QED
      BY <1>2, <1>6, <2>1 DEF LockMoves, Holding
  <1>7. CASE t \in Builders /\ (PrestartAll(t) \/ AwaitEnd(t))
    <2>1. /\ UNCHANGED <<lifecycle, core, coreTimeout, lock>> /\ lock = Free
      BY <1>7 DEF PrestartAll, AwaitEnd, Wait, Notified, CanLock
    <2>2. /\ pc'[t] \in {"prestart", "ready", "buildFailed", "awaitEnd", "failed"}
          /\ \A u \in Threads \ {t} : pc'[u] = pc[u] \/ (u \in Workers /\ pc[u] = "off" /\ pc'[u] = "take")
      <3>1. CASE PrestartAll(t)
        BY <1>7, <3>1, PrestartMoves DEF Starts
      <3>2. CASE AwaitEnd(t)
        BY <1>0, <3>2 DEF AwaitEnd, Wait
      <3> QED
        BY <1>7, <3>1, <3>2
    <2> QED
      BY <1>2, <1>7, <2>1, <2>2 DEF LockMoves, Holding
  <1>8. CASE t \in Tuners /\ NotifyTuned(t)
    <2>1. /\ UNCHANGED <<live, lifecycle, core, coreTimeout, lock>> /\ pc'[t] = "done" /\ waiting' = {}
          /\ \A u \in Threads \ {t} : pc'[u] = pc[u]
      BY <1>0, <1>8 DEF NotifyTuned
    <2> QED
      BY <1>1, <2>1 DEF LockMoves, Holding, CallerMonitor
  <1>9. CASE t \in Tuners /\ Tune(t)
    <2>1. /\ UNCHANGED <<lifecycle, lock>> /\ lock = Free /\ pc[t] = "start" /\ pc'[t] \in {"tuned", "done"}
          /\ UNCHANGED <<core, coreTimeout>> \/ pc'[t] = "tuned" \/ waiting' = {}
          /\ \A u \in Threads \ {t} : pc'[u] = pc[u] \/ (u \in Workers /\ pc[u] = "off" /\ pc'[u] = "take")
      BY <1>9, TuneMoves DEF Starts
    <2>2. LockMoves(t)
      BY <2>1 DEF LockMoves, Holding
    <2>3. \A u \in Tuners : pc[u] = "tuned" => pc'[u] = "tuned"
      BY <1>9, <2>1
    <2> QED
      BY <1>1, <1>9, <2>1, <2>2, <2>3 DEF CallerMonitor
  <1> QED
    BY <1>3, <1>4, <1>5, <1>6, <1>7, <1>8, <1>9 DEF ControllerStep, TuneStep

\* Who holds the monitor still does.
LEMMA LockKept ==
  ASSUME TypeOK, ParkedFit, NEW t \in Threads, LockMoves(t)
  PROVE  \A u \in Threads : pc'[u] \in Holding => lock' = u
  <1>0. Free \notin Threads /\ \A u \in Threads : pc[u] \in Holding => lock = u
    BY PoolAssumption DEF ParkedFit
  <1>1. \A u \in Threads \ {t} : pc'[u] \in Holding => pc[u] \in Holding
    BY DEF LockMoves, Holding
  <1> QED
    BY <1>0, <1>1 DEF LockMoves

\* Parked workers are counted once, and are live.
LEMMA UntimedFinite ==
  /\ IsFiniteSet(Untimed) /\ Cardinality(Untimed) \in Nat
  /\ \A S : S \subseteq Untimed => Cardinality(S) <= Cardinality(Untimed) /\ Cardinality(S) \in Nat
  <1>1. Untimed \subseteq Threads
    BY Roles DEF Untimed
  <1> QED
    BY <1>1, RolesAssumption, FS_Subset, FS_CardinalityType

PolicyKept == lifecycle = "Running" /\ (\A t \in Tuners : pc[t] # "tuned")
                 => Cardinality(Untimed) <= IF coreTimeout THEN 0 ELSE core

\* Fewer sleepers under the same policy.
LEMMA FewerSleep ==
  ASSUME TypeOK, PolicyKept, Untimed' \subseteq Untimed, UNCHANGED <<core, coreTimeout>>,
         lifecycle' = "Running" => lifecycle = "Running",
         \A u \in Tuners : pc[u] = "tuned" => pc'[u] = "tuned"
  PROVE  PolicyKept'
  <1>1. Cardinality(Untimed') <= Cardinality(Untimed) /\ Cardinality(Untimed') \in Nat /\ Cardinality(Untimed) \in Nat
    BY UntimedFinite
  <1>2. core \in Nat
    BY DEF TypeOK, DataOK
  <1>3. CASE lifecycle' = "Running" /\ (\A t \in Tuners : pc'[t] # "tuned")
    <2>1. Cardinality(Untimed) <= IF coreTimeout THEN 0 ELSE core
      BY <1>3 DEF PolicyKept
    <2>2. Cardinality(Untimed') <= IF coreTimeout' THEN 0 ELSE core'
      BY <1>1, <1>2, <2>1
    <2> QED
      BY <2>2 DEF PolicyKept
  <1> QED
    BY <1>3 DEF PolicyKept

\* Callers do not disturb the policy.
LEMMA CallerParked ==
  ASSUME TypeOK, TypeOK', ParkedFit, NEW t \in Threads \ Workers, CallerMonitor(t),
         lifecycle' = "Running" => lifecycle = "Running"
  PROVE  ParkedFit'
  <1> USE Roles
  <1>0. LockMoves(t) /\ timed' = timed /\ waiting' \subseteq waiting \cup {t} /\ PolicyKept
    BY DEF CallerMonitor, ParkedFit, PolicyKept
  <1>1. \A u \in Threads : pc'[u] \in Holding => lock' = u
    BY <1>0, LockKept
  <1>2. \A w \in Workers : pc'[w] = pc[w] \/ (pc[w] = "off" /\ pc'[w] = "take")
    BY <1>0 DEF LockMoves
  <1>3. \A w \in Workers : w \in waiting' => pc'[w] = "parked"
    <2>1. \A w \in Workers : w \in waiting' => pc[w] = "parked"
      BY <1>0 DEF ParkedFit
    <2> QED
      BY <1>2, <2>1
  <1>4. \A w \in Workers : pc'[w] \in {"sdInflight", "sdMark", "sdQueued", "sdPark"} => lifecycle' # "Running"
    BY <1>2 DEF ParkedFit
  <1>5. ASSUME NEW w \in Workers, pc'[w] \in {"idleQueued", "idlePending"}, lifecycle' = "Running"
        PROVE  timed'[w] <=> WaitIsTimed'
    <2>1. pc[w] = pc'[w] /\ pc[w] \in Holding
      BY <1>2, <1>5 DEF Holding
    <2>2. lock = w /\ (timed[w] <=> WaitIsTimed)
      BY <1>5, <2>1 DEF ParkedFit
    <2>3. lock # Free /\ pc[t] \notin Holding
      BY <2>2, PoolAssumption DEF ParkedFit
    <2>4. UNCHANGED <<live, core, coreTimeout>>
      BY <1>0, <2>3 DEF LockMoves
    <2> QED
      BY <1>0, <2>2, <2>4 DEF WaitIsTimed
  <1>6. PolicyKept'
    <2>1. CASE UNCHANGED <<core, coreTimeout>> /\ \A u \in Tuners : pc[u] = "tuned" => pc'[u] = "tuned"
      <3>1. Untimed' \subseteq Untimed
        BY <1>0 DEF Untimed
      <3> QED
        BY <1>0, <2>1, <3>1, FewerSleep
    <2>2. CASE t \in Tuners /\ pc'[t] = "tuned"
      BY <2>2 DEF PolicyKept
    <2>3. CASE waiting' = {}
      <3>1. Untimed' = {} /\ core' \in Nat /\ coreTimeout' \in BOOLEAN
        BY <2>3 DEF Untimed, TypeOK, DataOK
      <3>2. Cardinality(Untimed') = 0
        BY <3>1, FS_EmptySet
      <3> QED
        BY <3>1, <3>2 DEF PolicyKept
    <2> QED
      BY <2>1, <2>2, <2>3 DEF CallerMonitor
  <1> QED
    BY <1>1, <1>3, <1>4, <1>5, <1>6 DEF ParkedFit, PolicyKept

\* Workers follow it.
LEMMA WorkerParked ==
  ASSUME TypeOK, Own, TypeOK', ParkedFit, NEW w \in Workers, WorkerStep(w) \/ KeepAliveElapses(w)
  PROVE  ParkedFit'
  <1> USE Roles
  <1>0. /\ WorkerMonitor(w) /\ PolicyKept /\ w \in Threads
        /\ UNCHANGED <<lifecycle, core, coreTimeout>> /\ waiting' \subseteq waiting \cup {w}
        /\ \A u \in Threads \ {w} : pc'[u] = pc[u]
    BY WorkerHolds, WorkerFrame DEF ParkedFit, PolicyKept
  <1>1. \A u \in Threads : pc'[u] \in Holding => lock' = u
    BY <1>0, LockKept DEF WorkerMonitor
  <1>3. \A v \in Workers : v \in waiting' => pc'[v] = "parked"
    BY <1>0 DEF WorkerMonitor, ParkedFit
  <1>4. \A v \in Workers : pc'[v] \in {"sdInflight", "sdMark", "sdQueued", "sdPark"} => lifecycle' # "Running"
    BY <1>0 DEF WorkerMonitor, ParkedFit, ShutdownPath
  <1>5. ASSUME NEW v \in Workers, pc'[v] \in {"idleQueued", "idlePending"}, lifecycle' = "Running"
        PROVE  timed'[v] <=> WaitIsTimed'
    <2>1. CASE v # w
      <3>1. pc[v] = pc'[v] /\ pc[v] \in Holding
        BY <1>0, <1>5, <2>1 DEF Holding
      <3>2. lock = v /\ (timed[v] <=> WaitIsTimed)
        BY <1>0, <1>5, <3>1 DEF ParkedFit
      <3>3. lock # Free /\ pc[w] \notin Holding
        BY <2>1, <3>2, PoolAssumption DEF ParkedFit
      <3>4. UNCHANGED live /\ timed'[v] = timed[v]
        BY <1>0, <2>1, <3>3 DEF LockMoves, WorkerMonitor
      <3> QED
        BY <1>0, <3>2, <3>4 DEF WaitIsTimed
    <2>2. CASE v = w
      <3>1. /\ UNCHANGED <<live, core, coreTimeout>>
            /\ (timed'[w] <=> WaitIsTimed) \/ (pc[w] = "idleQueued" /\ timed' = timed)
        BY <1>0, <1>5, <2>2 DEF WorkerMonitor
      <3>2. timed'[w] <=> WaitIsTimed
        BY <1>0, <1>5, <2>2, <3>1 DEF ParkedFit
      <3> QED
        BY <2>2, <3>1, <3>2 DEF WaitIsTimed
    <2> QED
      BY <2>1, <2>2
  <1>6. PolicyKept'
    <2>0. \A u \in Tuners : pc'[u] = pc[u]
      BY <1>0
    <2>1. CASE w \notin waiting'
      <3>1. Untimed' \subseteq Untimed
        BY <1>0, <2>1 DEF WorkerMonitor, Untimed
      <3> QED
        BY <1>0, <2>0, <3>1, FewerSleep
    <2>2. CASE w \in waiting' /\ lifecycle' = "Running"
      <3>1. pc[w] = "idlePending" /\ pc'[w] = "parked" /\ timed' = timed /\ UNCHANGED live
        BY <1>0, <2>2 DEF WorkerMonitor, ParkedFit
      <3>2. timed[w] <=> WaitIsTimed
        BY <1>0, <2>2, <3>1 DEF ParkedFit
      <3>3. CASE timed[w]
        <4>1. Untimed' \subseteq Untimed
          BY <1>0, <3>1, <3>3 DEF Untimed
        <4> QED
          BY <1>0, <2>0, <4>1, FewerSleep
      <3>4. CASE ~timed[w]
        <4>1. ~coreTimeout' /\ live' <= core' /\ live' \in Nat /\ core' \in Nat
          BY <1>0, <3>1, <3>2, <3>4 DEF WaitIsTimed, TypeOK, DataOK
        <4>2. Untimed' \subseteq Looping'
          BY <1>3 DEF Untimed, Looping
        <4>3. IsFiniteSet(Looping') /\ live' = Cardinality(Looping')
          <5>1. Looping' \subseteq Threads
            BY DEF Looping
          <5> QED
            BY <5>1, RolesAssumption, FS_Subset DEF TypeOK, CountersExact
        <4>4. Cardinality(Untimed') <= live' /\ Cardinality(Untimed') \in Nat
          BY <4>2, <4>3, FS_Subset, FS_CardinalityType
        <4> QED
          BY <4>1, <4>4 DEF PolicyKept
      <3> QED
        BY <3>3, <3>4
    <2>3. CASE lifecycle' # "Running"
      BY <2>3 DEF PolicyKept
    <2> QED
      BY <2>1, <2>2, <2>3
  <1> QED
    BY <1>1, <1>3, <1>4, <1>5, <1>6 DEF ParkedFit, PolicyKept

\* Every step keeps the monitor and the policy.
LEMMA ParkedStays ==
  ASSUME TypeOK, Own, TypeOK', GateFirst, ParkedFit, [Next]_vars
  PROVE  ParkedFit'
  <1> USE Roles
  <1>0. lifecycle' = "Running" => lifecycle = "Running"
    BY ClosedBefore
  <1>1. ASSUME NEW s \in Submitters, SubmitterStep(s)
        PROVE  ParkedFit'
    BY <1>0, <1>1, CallerHolds, CallerParked
  <1>2. ASSUME NEW c \in Cancellers, CancellerStep(c)
        PROVE  ParkedFit'
    BY <1>0, <1>2, CallerHolds, CallerParked
  <1>3. ASSUME NEW t \in Controllers \cup Builders, ControllerStep(t)
        PROVE  ParkedFit'
    BY <1>0, <1>3, ControllerHolds, CallerParked
  <1>4. CASE UNCHANGED vars
    <2>1. UNCHANGED <<pc, lock, waiting, lifecycle, live, core, coreTimeout, timed>>
      BY <1>4 DEF vars
    <2> QED
      BY <2>1 DEF ParkedFit, Untimed, WaitIsTimed
  <1> QED
    BY <1>1, <1>2, <1>3, <1>4, Steps, WorkerParked

-----------------------------------------------------------------------------
(***************************************************************************)
(* Wake-ups.  Whenever a sleeper's reason to wake holds, some thread has   *)
(* yet to notify: each part names the threads that may be that one.        *)
(***************************************************************************)
Somebody(places) == \E t \in Threads : pc[t] \in places
Asleep(place) == \E t \in waiting : pc[t] = place

\* Threads wait where the code waits, and decide by the lifecycle of the critical section.
WaitFit ==
  /\ \A t \in waiting : \/ t \in Workers /\ pc[t] = "parked"
                        \/ t \in Joiners /\ pc[t] = "join"
                        \/ t \in Stops /\ pc[t] = "stopWait"
                        \/ t \in Waiters /\ pc[t] = "start"
                        \/ t \in Builders /\ pc[t] = "awaitEnd"
  /\ \A w \in Workers : /\ pc[w] \in {"idleQueued", "idlePending"} => lifecycle = "Running"
                        /\ pc[w] \in ShutdownPath => lifecycle = "ShuttingDown"

\* The last to leave a closed gate notifies ...
Departs == Somebody({"departOpen", "departNotify"})
StopWoken == Asleep("stopWait") /\ Inside = {} => Departs
\* ... and so does whoever settles the last job, and every stop.
Ending == {"settle", "settleNotify", "stopInflight", "drain"}
EndWoken == IsTerminated /\ (Asleep("start") \/ Asleep("awaitEnd") \/ ~terminationTx) => Departs \/ Somebody(Ending)
\* join is told by the last departure, or by whoever settles the last job.
JoinWoken == Asleep("join") /\ IsIdle => Departs \/ Somebody({"departWaiters", "settle", "settleNotify"})

\* Sleeping workers learn of stop from its drain, and of shutdown's end from the last departure.
WorkerWoken == /\ Asleep("parked") /\ lifecycle = "Stopping" => Somebody({"stopInflight", "stopWait", "drain"})
               /\ Asleep("parked") /\ lifecycle = "ShuttingDown" => Inside # {} \/ Departs

(***************************************************************************)
(* The handshake of wake_one_idle_worker with a worker that parks or       *)
(* retires.  A publisher that has not yet decided sees the worker's idle   *)
(* mark; one that decided against a token found one, and the worker finds  *)
(* it too.                                                                 *)
(***************************************************************************)
TokenFit == \A s \in Submitters : pc[s] = "token" => seen[s] > 0
Deciding == {"wake", "token"}
Resting == (Asleep("parked") /\ lifecycle = "Running") \/ Somebody({"retireInflight"})
JobWoken ==
  /\ Somebody({"idlePending", "retirePending"}) /\ Queued # {} => pending > 0 \/ Somebody(Deciding)
  /\ Resting => /\ pending > 0 => Somebody({"wakeNotify"})
                /\ Queued # {} => Somebody(Deciding \cup {"wakeNotify"})

\* The last worker retires from a pool that owes nobody a job, and a running pool keeps one otherwise.
Owed == Under({"reserved", "queued"})
LastLeaves == \A w \in Workers : pc[w] \in {"unmarkRetire", "consumeRetire"} /\ live = 1 => Owed = {}
WorkerLeft == lifecycle = "Running" /\ Owed # {} => live > 0

WakeInv == /\ WaitFit /\ StopWoken /\ EndWoken /\ JoinWoken /\ WorkerWoken /\ TokenFit /\ JobWoken
           /\ LastLeaves /\ WorkerLeft

\* A thread that does not move, or moves within these places, is still one of them.
LEMMA SomebodyStays ==
  ASSUME NEW t \in Threads, NEW places, "off" \notin places, Somebody(places), pc[t] \in places => pc'[t] \in places,
         \A u \in Threads \ {t} : pc'[u] = pc[u] \/ (pc[u] = "off" /\ pc'[u] = "take")
  PROVE  Somebody(places)'
  BY DEF Somebody

\* A worker that is marked idle is counted, and so is a caller of join.
LEMMA CountedOnes ==
  ASSUME CountersExact
  PROVE  /\ \A w \in MarkedIdle : idle \in Nat /\ idle > 0
         /\ \A t \in Joining : idleWaiters \in Nat /\ idleWaiters > 0
  <1>1. \A S : IsFiniteSet(S) /\ S # {} => Cardinality(S) \in Nat /\ Cardinality(S) # 0
    BY FS_EmptySet, FS_CardinalityType
  <1> QED
    BY <1>1, CountersFinite DEF CountersExact

\* The way of a submission, with what wake-ups depend on.
SubmitterPath(s) ==
  \/ /\ pc[s] \in {"start", "retry"} /\ pc'[s] \in {"reserve", "refused"}
     /\ Queued' = Queued /\ Owed' = Owed /\ (pc'[s] = "refused" => (IsIdle' <=> IsIdle))
     /\ UNCHANGED <<pending, seen, waiting, live>>
  \/ /\ pc[s] = "reserve" /\ lock = Free /\ Queued' = Queued /\ UNCHANGED <<pending, seen>>
     /\ \/ pc'[s] = "leave" /\ waiting' \subseteq waiting /\ Owed' = Owed /\ live' = live
        \/ pc'[s] \in {"accept", "accepting"} /\ waiting' = waiting /\ live' > 0
  \/ /\ pc[s] = "accepting" /\ pc'[s] = "wake" /\ Owed' \subseteq Owed /\ UNCHANGED <<pending, seen, waiting, live>>
  \/ /\ pc[s] \in {"accepting", "cancel"} /\ pc'[s] \in {"released", "cancel", "settle"}
     /\ Queued' \subseteq Queued /\ Owed' \subseteq Owed /\ UNCHANGED <<pending, seen, waiting, live>>
  \/ /\ \/ /\ pc[s] \in {"accept", "released", "rejectEntry", "settle", "cancelEntry"}
           /\ pc'[s] \in {"accepting", "rejectEntry", "rejectNotify", "settleNotify", "cancelEntry", "leave"}
        \/ pc[s] = "awaitCapacity" /\ pc'[s] = "retry"
     /\ UNCHANGED <<job, pending, seen, waiting, live>>
  \/ /\ pc[s] = "wake" /\ UNCHANGED <<job, pending, waiting, live>> /\ seen' = [seen EXCEPT ![s] = idle]
     /\ \/ idle = 0 /\ pc'[s] = "leave"
        \/ idle # 0 /\ pc'[s] = "token"
  \/ /\ pc[s] = "token" /\ UNCHANGED <<job, waiting, live>> /\ seen' = [seen EXCEPT ![s] = 0]
     /\ \/ pending' = pending + 1 /\ pc'[s] = "wakeNotify"
        \/ pending >= seen[s] /\ pending' = pending /\ pc'[s] = "leave"
  \/ /\ pc[s] \in {"wakeNotify", "rejectNotify", "settleNotify"} /\ pc'[s] \in {"leave", "cancelEntry"}
     /\ lock = Free /\ waiting' = {} /\ UNCHANGED <<job, pending, seen, live>>
  \/ /\ pc[s] = "leave" /\ UNCHANGED <<job, pending, seen, waiting, live>>
     /\ \/ Inside = {s} /\ pc'[s] = "departOpen"
        \/ Inside # {s} /\ pc'[s] \in {"awaitCapacity", "done"}
  \/ /\ pc[s] = "departOpen" /\ UNCHANGED <<job, pending, seen, waiting, live>>
     /\ pc'[s] = IF open THEN "departWaiters" ELSE "departNotify"
  \/ /\ pc[s] = "departWaiters" /\ UNCHANGED <<job, pending, seen, waiting, live>>
     /\ \/ idleWaiters > 0 /\ pc'[s] = "departNotify"
        \/ ~(idleWaiters > 0) /\ pc'[s] \in {"awaitCapacity", "done"}
  \/ /\ pc[s] = "departNotify" /\ pc'[s] \in {"awaitCapacity", "done"} /\ waiting' = {}
     /\ (IsTerminated => terminationTx') /\ UNCHANGED <<job, pending, seen, live>>

\* A job that changes its stage outside the queue.
LEMMA StageMoves ==
  ASSUME NEW s \in Submitters, \A i \in Submitters \ {s} : job'[i] = job[i]
  PROVE  /\ job'[s] # "queued" => Queued' \subseteq Queued
         /\ job[s] # "queued" => Queued \subseteq Queued'
         /\ job'[s] \notin {"reserved", "queued"} \/ job[s] \in {"reserved", "queued"} => Owed' \subseteq Owed
         /\ job[s] \notin {"reserved", "queued"} => Owed \subseteq Owed'
  BY DEF Queued, Owed, Under

\* Every step of a submission is on it.
LEMMA SubmitterOnPath ==
  ASSUME Inv, NEW s \in Submitters, SubmitterStep(s)
  PROVE  /\ SubmitterPath(s)
         /\ UNCHANGED <<lifecycle, exiting, lock, open, idle, idleWaiters>> /\ (terminationTx => terminationTx')
         /\ s \in Threads /\ s \notin Workers
         /\ \A u \in Threads \ {s} : pc'[u] = pc[u] \/ (u \in Workers /\ pc[u] = "off" /\ pc'[u] = "take")
  <1> USE Roles
  <1>0. /\ s \in Threads /\ s \notin Workers /\ s \notin Cancellers /\ s \notin Builders
        /\ DOMAIN pc = Threads /\ DOMAIN job = Submitters
        /\ pc[s] \in SubmitterPcs /\ live \in Nat /\ (s \notin Tickets => pc[s] # "accept") /\ EntryFit(s)
    BY DEF Inv, TypeOK, PcOK, DataOK, Own, EntryFits, EntryFit
  <1>1. /\ UNCHANGED <<lifecycle, exiting, lock, open, idle, idleWaiters>> /\ (terminationTx => terminationTx')
        /\ \A u \in Threads \ {s} : pc'[u] = pc[u] \/ (u \in Workers /\ pc[u] = "off" /\ pc'[u] = "take")
        /\ \A i \in Submitters \ {s} : job'[i] = job[i]
    BY SubmitterFrame, CallerPublishes DEF Inv, Publishes, Stays
  <1>2. SubmitterPath(s)
    <2>1. CASE BeginSubmit(s)
      <3>1. /\ pc[s] \in {"start", "retry"} /\ pc'[s] \in {"reserve", "refused"} /\ UNCHANGED <<pending, seen, waiting, live>>
            /\ job[s] \in {"none", "saturated"} /\ job'[s] = "none" /\ \A u \in Threads \ {s} : pc'[u] = pc[u]
        BY <1>0, <2>1 DEF BeginSubmit, Calls, EntryFit
      <3>2. pc'[s] = "refused" => (IsIdle' <=> IsIdle)
        <4>1. pc'[s] = "refused" => Inside' = Inside
          BY <3>1 DEF Inside
        <4>2. Under({"reserved", "queued", "running", "cancelling"})' = Under({"reserved", "queued", "running", "cancelling"})
          BY <1>1, <3>1 DEF Under
        <4> QED
          BY <4>1, <4>2 DEF IsIdle
      <3>3. Queued' = Queued /\ Owed' = Owed
        BY <1>1, <3>1, StageMoves
      <3> QED
        BY <3>1, <3>2, <3>3 DEF SubmitterPath
    <2>2. CASE ReserveSubmission(s)
      <3>1. pc[s] = "reserve" /\ lock = Free /\ UNCHANGED <<pending, seen>> /\ job[s] = "none"
        BY <1>0, <2>2 DEF ReserveSubmission, EntryFit
      <3>2. \/ pc'[s] = "leave" /\ waiting' \subseteq waiting /\ job'[s] \in {"none", "saturated"} /\ live' = live
            \/ pc'[s] \in {"accept", "accepting"} /\ waiting' = waiting /\ live' > 0 /\ job'[s] = "reserved"
        BY <1>0, <2>2, <3>1 DEF ReserveSubmission, NeedsWorker, Spawn, SpawnFails, AfterReserve
      <3>3. Queued' = Queued
        BY <1>1, <3>1, <3>2, StageMoves
      <3>4. pc'[s] = "leave" => Owed' = Owed
        BY <1>1, <3>1, <3>2, StageMoves
      <3> QED
        BY <3>1, <3>2, <3>3, <3>4 DEF SubmitterPath
    <2>3. CASE Publish(s)
      <3>1. /\ pc[s] = "accepting" /\ job[s] = "reserved" /\ UNCHANGED <<pending, seen, waiting, live>>
            /\ \/ pc'[s] = "wake" /\ job'[s] = "queued"
               \/ pc'[s] = "cancel" /\ job'[s] = "cancelling"
        BY <1>0, <2>3 DEF Publish, EntryFit
      <3>2. Owed' \subseteq Owed /\ (pc'[s] = "cancel" => Queued' \subseteq Queued)
        BY <1>1, <3>1, StageMoves
      <3> QED
        BY <3>1, <3>2 DEF SubmitterPath
    <2>4. CASE AcceptPanics(s)
      <3>1. /\ pc[s] = "accepting" /\ pc'[s] = "released" /\ job'[s] = "none" /\ UNCHANGED <<pending, seen, waiting, live>>
        BY <1>0, <2>4 DEF AcceptPanics
      <3>2. Queued' \subseteq Queued /\ Owed' \subseteq Owed
        BY <1>1, <3>1, StageMoves
      <3> QED
        BY <3>1, <3>2 DEF SubmitterPath
    <2>5. CASE CancelCallback(s)
      <3>1. /\ pc[s] = "cancel" /\ pc'[s] = "settle" /\ job'[s] = "cancelled" /\ UNCHANGED <<pending, seen, waiting, live>>
        BY <1>0, <2>5, CancelMoves DEF Inv, Ends
      <3>2. Queued' \subseteq Queued /\ Owed' \subseteq Owed
        BY <1>1, <3>1, StageMoves
      <3> QED
        BY <3>1, <3>2 DEF SubmitterPath
    <2>6. CASE BeginAccept(s) \/ AnnounceRelease(s) \/ RejectEntry(s) \/ CancelEntry(s)
      BY <1>0, <2>6 DEF BeginAccept, AnnounceRelease, RejectEntry, CancelEntry, SubmitterPath
    <2>7. CASE Settle(s) \/ AwaitCapacity(s)
      BY <1>0, <2>7 DEF Settle, AfterSettle, AwaitCapacity, SubmitterPath
    <2>8. CASE LoadIdle(s)
      BY <1>0, <2>8 DEF LoadIdle, SubmitterPath
    <2>9. CASE RequestWake(s)
      BY <1>0, <2>9 DEF RequestWake, SubmitterPath
    <2>10. CASE Leave(s)
      BY <1>0, <2>10 DEF Leave, AfterSubmit, SubmitterPath
    <2>11. CASE DepartOpen(s) \/ DepartWaiters(s)
      BY <1>0, <2>11 DEF DepartOpen, DepartWaiters, AfterSubmit, SubmitterPath
    <2>12. CASE NotifyUnderLock(s)
      <3>1. /\ lock = Free /\ waiting' = {} /\ UNCHANGED <<job, pending, seen, live>>
            /\ \/ pc[s] \in {"wakeNotify", "rejectNotify", "settleNotify"} /\ pc'[s] \in {"leave", "cancelEntry"}
               \/ /\ pc[s] = "departNotify" /\ pc'[s] = AfterSubmit(s)
                  /\ PublishTermination(lifecycle, live, exiting)
        BY <1>0, <2>12 DEF NotifyUnderLock, AfterSettle, SubmitterPcs
      <3>2. pc[s] = "departNotify" => (IsTerminated => terminationTx') /\ pc'[s] \in {"awaitCapacity", "done"}
        BY <3>1 DEF PublishTermination, IsTerminated, AfterSubmit
      <3> QED
        BY <3>1, <3>2 DEF SubmitterPath
    <2> QED
      BY <2>1, <2>2, <2>3, <2>4, <2>5, <2>6, <2>7, <2>8, <2>9, <2>10, <2>11, <2>12 DEF SubmitterStep
  <1> QED
    BY <1>0, <1>1, <1>2

\* A submission leaves no sleeper behind.
LEMMA SubmitterWakes ==
  ASSUME Inv, Inv', WakeInv, NEW s \in Submitters, SubmitterStep(s)
  PROVE  WakeInv'
  <1> USE Roles
  <1>0. /\ SubmitterPath(s) /\ TypeOK /\ live \in Nat /\ live' \in Nat /\ pending \in Nat
        /\ UNCHANGED <<lifecycle, exiting, lock, open, idle, idleWaiters>> /\ (terminationTx => terminationTx')
        /\ s \in Threads /\ s \notin Workers /\ waiting \subseteq Threads /\ Free \notin Threads
        /\ \A u \in Threads \ {s} : pc'[u] = pc[u] \/ (u \in Workers /\ pc[u] = "off" /\ pc'[u] = "take")
    BY SubmitterOnPath, PoolAssumption DEF Inv, TypeOK, DataOK
  <1>1. waiting' \subseteq waiting /\ s \notin waiting
    <2>1. s \notin Joiners /\ s \notin Stops /\ s \notin Waiters /\ s \notin Builders
      BY DEF Stops
    <2> QED
      BY <1>0, <2>1 DEF SubmitterPath, WakeInv, WaitFit
  <1>2. \A t \in waiting' : t \in waiting /\ pc'[t] = pc[t]
    <2>1. \A t \in waiting : pc[t] # "off"
      BY DEF WakeInv, WaitFit
    <2> QED
      BY <1>0, <1>1, <2>1
  <1>3. WaitFit'
    <2>1. \A w \in Workers : pc'[w] = pc[w] \/ pc'[w] = "take"
      BY <1>0
    <2>2. \A w \in Workers : /\ pc'[w] \in {"idleQueued", "idlePending"} => lifecycle' = "Running"
                             /\ pc'[w] \in ShutdownPath => lifecycle' = "ShuttingDown"
      BY <1>0, <2>1 DEF WakeInv, WaitFit, ShutdownPath
    <2> QED
      BY <1>2, <2>2 DEF WakeInv, WaitFit
  <1>4. TokenFit'
    <2>1. \A u \in Submitters \ {s} : pc'[u] = pc[u] /\ seen'[u] = seen[u]
      BY <1>0 DEF SubmitterPath, TypeOK, DataOK
    <2>2. pc'[s] = "token" => seen'[s] > 0
      BY <1>0 DEF SubmitterPath, TypeOK, DataOK
    <2> QED
      BY <2>1, <2>2 DEF WakeInv, TokenFit
  <1>5. Inside' = {} => Inside = {} \/ pc'[s] = "departOpen"
    <2>1. \A u \in Submitters \ {s} : pc'[u] = pc[u]
      BY <1>0
    <2> QED
      BY <1>0, <2>1 DEF SubmitterPath, Inside
  <1>6. IsIdle' => IsIdle \/ pc'[s] = "departOpen"
    <2>1. s \notin Inside' => job' = job \/ (IsIdle' <=> IsIdle)
      BY <1>0 DEF SubmitterPath, Inside
    <2> QED
      BY <1>5, <2>1 DEF IsIdle, Under
  <1>7. \A p : Asleep(p)' => Asleep(p) /\ waiting' # {}
    BY <1>2 DEF Asleep
  <1>8. ASSUME NEW p, "off" \notin p, Somebody(p), pc[s] \in p => pc'[s] \in p
        PROVE  Somebody(p)'
    BY <1>0, <1>8, SomebodyStays
  <1>9. pc'[s] = "departOpen" => Departs'
    BY <1>0 DEF Departs, Somebody
  <1>10. ASSUME Departs, ~open, pc[s] # "departNotify"
         PROVE  Departs'
    <2>1. pc[s] \in {"departOpen", "departNotify"} => pc'[s] \in {"departOpen", "departNotify"}
      BY <1>0, <1>10 DEF SubmitterPath
    <2> QED
      BY <1>8, <1>10, <2>1 DEF Departs
  <1>11. pc[s] = "departNotify" => waiting' = {} /\ (IsTerminated => terminationTx')
    BY <1>0 DEF SubmitterPath
  <1>12. StopWoken'
    <2> SUFFICES ASSUME Asleep("stopWait")', Inside' = {}
                 PROVE  Departs'
      BY DEF StopWoken
    <2>1. ~open
      <3>1. PICK t \in waiting : pc[t] = "stopWait"
        BY <1>7 DEF Asleep
      <3>2. t \in Stops
        BY <3>1 DEF WakeInv, WaitFit
      <3> QED
        BY <3>1, <3>2 DEF Inv, GateFirst
    <2> QED
      BY <1>5, <1>7, <1>9, <1>10, <1>11, <2>1 DEF WakeInv, StopWoken
  <1>13. EndWoken'
    <2> SUFFICES ASSUME IsTerminated', Asleep("start")' \/ Asleep("awaitEnd")' \/ ~terminationTx', pc'[s] # "departOpen"
                 PROVE  Departs' \/ Somebody(Ending)'
      BY <1>9 DEF EndWoken
    <2>1. lifecycle # "Running" /\ live' = 0 /\ exiting = 0 /\ IsIdle' /\ ~open
      BY <1>0 DEF IsTerminated, Terminated, Inv, GateFirst
    <2>2. s \notin Inside'
      BY <2>1 DEF IsIdle
    <2>3. live' = live /\ pc[s] \notin Ending
      BY <1>0, <2>2 DEF SubmitterPath, Inside, Ending
    <2>4. IsTerminated
      BY <1>0, <1>6, <2>1, <2>3 DEF IsTerminated, Terminated
    <2>5. pc[s] # "departNotify"
      BY <1>7, <1>11, <2>4
    <2>6. Departs \/ Somebody(Ending)
      BY <1>0, <1>7, <2>4 DEF WakeInv, EndWoken
    <2>7. Somebody(Ending) => Somebody(Ending)'
      <3>1. "off" \notin Ending
        BY DEF Ending
      <3> QED
        BY <1>8, <2>3, <3>1
    <2> QED
      BY <1>10, <2>1, <2>5, <2>6, <2>7
  <1>14. JoinWoken'
    <2> DEFINE enders == {"departWaiters", "settle", "settleNotify"}
    <2> SUFFICES ASSUME Asleep("join")', IsIdle'
                 PROVE  Departs' \/ Somebody(enders)'
      BY DEF JoinWoken
    <2>1. idleWaiters > 0
      <3>1. PICK t \in Joiners : pc[t] = "join"
        BY <1>0, <1>7 DEF Asleep, WakeInv, WaitFit
      <3> QED
        BY <1>0, <3>1, CountedOnes DEF Joining, TypeOK
    <2>2. CASE pc'[s] \in {"departOpen", "departNotify", "departWaiters"}
      BY <1>0, <2>2 DEF Departs, Somebody
    <2>3. CASE pc'[s] \notin {"departOpen", "departNotify", "departWaiters"}
      <3>0. s \notin Inside'
        BY DEF IsIdle
      <3>1. pc[s] \notin enders \cup {"departOpen", "departNotify"}
        BY <1>0, <1>7, <1>11, <2>1, <2>3, <3>0 DEF SubmitterPath, Inside
      <3>2. Departs => Departs'
        BY <1>8, <3>1 DEF Departs
      <3>3. Somebody(enders) => Somebody(enders)'
        BY <1>8, <3>1
      <3> QED
        BY <1>6, <1>7, <2>3, <3>2, <3>3 DEF WakeInv, JoinWoken
    <2> QED
      BY <2>2, <2>3
  <1>15. WorkerWoken'
    <2>1. Somebody({"stopInflight", "stopWait", "drain"}) => Somebody({"stopInflight", "stopWait", "drain"})'
      <3>1. pc[s] \notin {"stopInflight", "stopWait", "drain"}
        BY <1>0 DEF SubmitterPath
      <3> QED
        BY <1>8, <3>1
    <2>2. lifecycle = "ShuttingDown" => ~open
      BY DEF Inv, GateFirst
    <2> QED
      BY <1>0, <1>5, <1>7, <1>9, <1>10, <1>11, <2>1, <2>2 DEF WakeInv, WorkerWoken
  <1>16. JobWoken'
    <2>0. /\ pc[s] = "token" => seen[s] \in Nat /\ seen[s] > 0
          /\ pending' > 0 => pending > 0 \/ pc'[s] = "wakeNotify"
      BY <1>0 DEF SubmitterPath, TypeOK, DataOK, WakeInv, TokenFit
    <2>1. Queued' # {} => Queued # {} \/ pc'[s] = "wake"
      BY <1>0 DEF SubmitterPath, Queued, Under
    <2>2. ASSUME idle > 0, pc[s] \in Deciding, pc'[s] \notin Deciding
          PROVE  pc[s] = "token" /\ pending' > 0 /\ (pc'[s] = "wakeNotify" \/ pending > 0)
      BY <1>0, <2>0, <2>2 DEF SubmitterPath, Deciding
    <2>3. ASSUME NEW p \in {{"idlePending", "retirePending"}, {"retireInflight"}}, Somebody(p)'
          PROVE  /\ Somebody(p) /\ idle > 0
                 /\ \E w \in Workers : pc[w] \in p /\ pc[w] \in Holding
      <3>1. PICK t \in Threads : pc'[t] \in p
        BY <2>3 DEF Somebody
      <3>2. pc'[s] \notin {"idlePending", "retirePending", "retireInflight"}
        BY <1>0 DEF SubmitterPath
      <3>3. pc[t] \in p /\ pc[t] \in {"idlePending", "retirePending", "retireInflight"}
        BY <1>0, <2>3, <3>1, <3>2
      <3>4. t \in Workers
        BY <3>3 DEF Inv, TypeOK, PcOK, Threads, SubmitterPcs, CancellerPcs, ControllerPcs, BuilderPcs, StopPcs
      <3>5. t \in MarkedIdle
        BY <3>3, <3>4 DEF MarkedIdle
      <3> QED
        BY <1>0, <3>3, <3>4, <3>5, CountedOnes DEF Somebody, TypeOK, Holding
    <2>4. Asleep("parked")' => Asleep("parked") /\ idle > 0
      <3>1. \A t \in waiting : pc[t] = "parked" => t \in MarkedIdle
        BY DEF WakeInv, WaitFit, MarkedIdle
      <3> QED
        BY <1>0, <1>7, <3>1, CountedOnes DEF Asleep, TypeOK
    <2>5. Resting' => Resting /\ idle > 0 /\ (waiting' # {} \/ lock # Free)
      <3>1. Somebody({"retireInflight"})' => Somebody({"retireInflight"}) /\ idle > 0 /\ lock # Free
        BY <1>0, <2>3 DEF Inv, ParkedFit
      <3> QED
        BY <1>0, <1>7, <2>4, <3>1 DEF Resting
    <2>6. pending > 0 => pending' > 0
      BY <1>0, <2>0 DEF SubmitterPath
    <2>7. Resting' => pc[s] # "wakeNotify"
      BY <1>0, <2>5 DEF SubmitterPath
    <2>8. "off" \notin Deciding /\ "off" \notin Deciding \cup {"wakeNotify"}
      BY DEF Deciding
    <2>9. Somebody({"idlePending", "retirePending"})' /\ Queued' # {} => pending' > 0 \/ Somebody(Deciding)'
      <3>1. pc'[s] \in Deciding => Somebody(Deciding)'
        BY <1>0 DEF Somebody
      <3>2. pc'[s] = "wake" => pc'[s] \in Deciding
        BY DEF Deciding
      <3>3. Somebody({"idlePending", "retirePending"})' => Somebody({"idlePending", "retirePending"}) /\ idle > 0
        BY <2>3
      <3> QED
        BY <1>8, <2>1, <2>2, <2>6, <2>8, <3>1, <3>2, <3>3 DEF WakeInv, JobWoken
    <2>10. ASSUME Resting', pending' > 0
           PROVE  Somebody({"wakeNotify"})'
      <3>1. CASE pc'[s] = "wakeNotify"
        BY <1>0, <3>1 DEF Somebody
      <3>2. CASE pc'[s] # "wakeNotify"
        <4>1. Somebody({"wakeNotify"}) /\ pc[s] \notin {"wakeNotify"}
          BY <2>0, <2>5, <2>7, <2>10, <3>2 DEF WakeInv, JobWoken
        <4> QED
          BY <1>8, <4>1
      <3> QED
        BY <3>1, <3>2
    <2>11. ASSUME Resting', Queued' # {}
           PROVE  Somebody(Deciding \cup {"wakeNotify"})'
      <3>1. CASE pc'[s] \in Deciding \cup {"wakeNotify"}
        BY <1>0, <3>1 DEF Somebody
      <3>2. CASE pc'[s] \notin Deciding \cup {"wakeNotify"}
        <4>1. Resting /\ idle > 0 /\ pc[s] # "wakeNotify" /\ Queued # {}
          BY <2>1, <2>5, <2>7, <2>11, <3>2 DEF Deciding
        <4>2. /\ Somebody(Deciding \cup {"wakeNotify"})
              /\ pending > 0 => Somebody({"wakeNotify"})
          BY <4>1 DEF WakeInv, JobWoken
        <4>3. CASE pc[s] \in Deciding
          <5>1. Somebody({"wakeNotify"})
            BY <2>2, <3>2, <4>1, <4>2, <4>3
          <5>2. Somebody({"wakeNotify"})'
            BY <1>8, <4>1, <5>1
          <5> QED
            BY <5>2 DEF Somebody
        <4>4. CASE pc[s] \notin Deciding
          BY <1>8, <2>8, <4>1, <4>2, <4>4
        <4> QED
          BY <4>3, <4>4
      <3> QED
        BY <3>1, <3>2
    <2> QED
      BY <2>9, <2>10, <2>11 DEF JobWoken
  <1>17. LastLeaves'
    <2> SUFFICES ASSUME NEW w \in Workers, pc'[w] \in {"unmarkRetire", "consumeRetire"}, live' = 1
                 PROVE  Owed' = {}
      BY DEF LastLeaves
    <2>1. pc[w] \in {"unmarkRetire", "consumeRetire"} /\ w \in Threads
      BY <1>0
    <2>2. lock # Free
      BY <1>0, <2>1 DEF Inv, ParkedFit, Holding
    <2>3. live' = live /\ Owed' \subseteq Owed
      BY <1>0, <2>2 DEF SubmitterPath, Owed, Under
    <2> QED
      BY <2>1, <2>3 DEF WakeInv, LastLeaves
  <1>18. WorkerLeft'
    <2>1. live' > 0 \/ (live' = live /\ Owed' \subseteq Owed)
      BY <1>0 DEF SubmitterPath, Owed, Under
    <2> QED
      BY <1>0, <2>1 DEF WakeInv, WorkerLeft
  <1> QED
    BY <1>3, <1>4, <1>12, <1>13, <1>14, <1>15, <1>16, <1>17, <1>18 DEF WakeInv

\* The way of a worker, with what it does to the monitor and the sleepers.
WorkerPath(w) ==
  \/ /\ pc[w] \in {"take", "claimed"} /\ pc'[w] \in {"check", "claim", "run"}
     /\ UNCHANGED <<job, lock, waiting, pending, live>>
  \/ /\ \/ pc[w] = "claim" /\ pc'[w] = "claimed" /\ ~IsIdle'
        \/ pc[w] = "run" /\ pc'[w] = "settle"
     /\ Queued' \subseteq Queued /\ Owed' \subseteq Owed /\ UNCHANGED <<lock, waiting, pending, live>>
  \/ /\ pc[w] = "settle" /\ pc'[w] = IF IsIdle THEN "settleNotify" ELSE "take"
     /\ UNCHANGED <<job, lock, waiting, pending, live>>
  \/ pc[w] = "settleNotify" /\ pc'[w] = "take" /\ waiting' = {} /\ UNCHANGED <<job, lock, pending, live>>
  \/ /\ pc[w] = "check" /\ lock = Free /\ UNCHANGED <<job, waiting, pending, live>>
     /\ \/ pc'[w] \in {"relock", "take"} /\ UNCHANGED lock
        \/ pc'[w] = "sdInflight" /\ lock' = w /\ lifecycle = "ShuttingDown"
  \* unregister_exiting_worker
  \/ /\ pc'[w] = "exit" /\ live' = live - 1 /\ lock' = Free /\ waiting' \subseteq waiting /\ UNCHANGED job
     /\ \/ pc[w] = "check" /\ lock = Free /\ (lifecycle = "Running" => live > maximum) /\ UNCHANGED pending
        \/ pc[w] = "consumeRetire" /\ pending' <= pending
        \/ pc[w] = "sdInflight" /\ UNCHANGED pending
  \/ /\ pc[w] = "relock" /\ lock = Free /\ UNCHANGED <<job, waiting, pending, live>>
     /\ \/ pc'[w] = "take" /\ UNCHANGED lock
        \/ pc'[w] = "idleQueued" /\ lifecycle = "Running" /\ lock' = w
  \/ /\ \/ pc[w] = "idleQueued" /\ pc'[w] = IF Queued = {} THEN "idlePending" ELSE "unmark"
        \/ pc[w] = "idlePending" /\ pending > 0 /\ pc'[w] = "unmark"
        \/ pc[w] = "retireQueued" /\ pc'[w] = IF Queued = {} THEN "retirePending" ELSE "unmark"
        \/ pc[w] = "retirePending" /\ pc'[w] = IF pending = 0 THEN "retireInflight" ELSE "unmark"
        \/ pc[w] = "retireInflight" /\ pc'[w] = "unmarkRetire" /\ (live > 1 \/ Inside = {})
        \/ pc[w] = "retireInflight" /\ pc'[w] = "unmark"
        \/ pc[w] \in {"unmark", "sdMark", "sdQueued", "sdPark"} /\ pc'[w] \in {"consume", "sdQueued", "sdPark", "unmark"}
        \/ pc[w] = "unmarkRetire" /\ pc'[w] = "consumeRetire"
        \/ pc[w] = "sdInflight" /\ pc'[w] = "sdMark"
     /\ (pc'[w] \in ShutdownPath => pc[w] \in ShutdownPath)
     /\ UNCHANGED <<job, lock, waiting, pending, live>>
  \/ /\ \/ pc[w] = "idlePending" /\ pending = 0
        \/ pc[w] = "sdPark" /\ Inside # {}
     /\ pc'[w] = "parked" /\ waiting' = waiting \cup {w} /\ UNCHANGED <<job, pending, live>>
  \/ /\ \/ pc[w] = "parked" /\ w \notin waiting /\ pc'[w] = "unmark"
        \/ pc[w] = "timedOut" /\ pc'[w] = "retireQueued"
     /\ lock = Free /\ UNCHANGED <<job, waiting, pending, live>>
  \/ pc[w] = "parked" /\ pc'[w] = "timedOut" /\ waiting' = waiting \ {w} /\ UNCHANGED <<job, lock, pending, live>>
  \/ /\ pc[w] = "consume" /\ pc'[w] = "take" /\ pending' <= pending /\ UNCHANGED <<job, waiting, live>>
  \/ pc[w] = "exit" /\ pc'[w] = "off" /\ waiting' = {} /\ UNCHANGED <<job, lock, pending, live>>

\* Every step of a worker is on it.
LEMMA WorkerOnPath ==
  ASSUME Inv, NEW w \in Workers, WorkerStep(w) \/ KeepAliveElapses(w)
  PROVE  /\ WorkerPath(w)
         /\ UNCHANGED <<lifecycle, open, idleWaiters, seen>> /\ (terminationTx => terminationTx')
         /\ w \in Threads /\ \A u \in Threads \ {w} : pc'[u] = pc[u]
  <1> USE Roles
  <1>0. /\ w \in Threads /\ w \notin Submitters /\ w \notin Cancellers /\ w \notin Builders
        /\ DOMAIN pc = Threads /\ DOMAIN job = Submitters /\ pc[w] \in WorkerPcs
        /\ live \in Nat /\ pending \in Nat /\ lifecycle \in Lifecycles
        /\ UNCHANGED <<lifecycle, open, idleWaiters>> /\ (terminationTx => terminationTx')
        /\ \A u \in Threads \ {w} : pc'[u] = pc[u]
        /\ \A j \in Submitters : job'[j] = "queued" => job[j] = "queued"
        /\ \A j \in Submitters : job'[j] \in {"reserved", "queued"} => job[j] \in {"reserved", "queued"}
    BY WorkerFrame, WorkerPublishes DEF Inv, TypeOK, PcOK, DataOK, Publishes, Stays, Taken, Ends
  <1>1. Queued' \subseteq Queued /\ Owed' \subseteq Owed
    BY <1>0 DEF Queued, Owed, Under
  <1>2. seen' = seen
    <2>1. CASE TryTake(w) \/ Claim(w) \/ AnnounceClaim(w) \/ Run(w) \/ Settle(w) \/ NotifyUnderLock(w) \/ Check(w) \/ Relock(w)
      BY <2>1 DEF TryTake, Claim, AnnounceClaim, Run, Settle, NotifyUnderLock, Check, Relock
    <2>2. CASE IdleQueued(w) \/ IdlePending(w) \/ Awaken(w) \/ TimedOut(w) \/ RetireQueued(w) \/ RetirePending(w)
               \/ RetireInflight(w) \/ Unmark(w) \/ Consume(w)
      BY <2>2 DEF IdleQueued, IdlePending, Parks, Awaken, TimedOut, RetireQueued, RetirePending, RetireInflight, Unmark, Consume
    <2>3. CASE SdInflight(w) \/ SdMark(w) \/ SdQueued(w) \/ SdPark(w) \/ FinishExit(w) \/ KeepAliveElapses(w)
      BY <2>3 DEF SdInflight, SdMark, SdQueued, SdPark, Parks, FinishExit, KeepAliveElapses
    <2> QED
      BY <2>1, <2>2, <2>3 DEF WorkerStep
  <1>3. WorkerPath(w)
    <2>1. CASE TryTake(w) \/ AnnounceClaim(w)
      BY <1>0, <2>1 DEF TryTake, AnnounceClaim, WorkerPath
    <2>2. CASE Claim(w)
      <3>1. queue \in Seq(Submitters) /\ queue # <<>>
        BY <2>2 DEF Claim, Inv, Own, QueueHeld, TypeOK, DataOK
      <3>2. Head(queue) \in Submitters /\ job' = [job EXCEPT ![Head(queue)] = "running"]
        BY <2>2, <3>1 DEF Claim
      <3>3. ~IsIdle'
        BY <1>0, <3>2 DEF IsIdle, Under
      <3> QED
        BY <1>0, <1>1, <2>2, <3>3 DEF Claim, WorkerPath
    <2>3. CASE Run(w)
      BY <1>0, <1>1, <2>3 DEF Run, WorkerPath
    <2>4. CASE Settle(w)
      BY <1>0, <2>4 DEF Settle, AfterSettle, WorkerPath
    <2>5. CASE NotifyUnderLock(w) \/ FinishExit(w)
      BY <1>0, <2>5 DEF NotifyUnderLock, FinishExit, AfterSettle, WorkerPath, WorkerPcs
    <2>6. CASE Check(w)
      <3>1. /\ pc[w] = "check" /\ lock = Free /\ UNCHANGED <<job, pending>>
            /\ \/ /\ Unregister(w)
                  /\ lifecycle = "Running" => live > maximum
               \/ pc'[w] \in {"relock", "take"} /\ UNCHANGED <<lock, waiting, live>>
               \/ pc'[w] = "sdInflight" /\ lock' = w /\ lifecycle = "ShuttingDown" /\ UNCHANGED <<waiting, live>>
        BY <1>0, <2>6 DEF Check
      <3>2. Unregister(w) => pc'[w] = "exit" /\ live' = live - 1 /\ lock' = Free /\ waiting' \subseteq waiting
        BY <1>0 DEF Unregister
      <3> QED
        BY <3>1, <3>2 DEF WorkerPath
    <2>7. CASE Relock(w)
      BY <1>0, <2>7 DEF Relock, WorkerPath
    <2>8. CASE IdleQueued(w) \/ RetireQueued(w) \/ RetirePending(w)
      BY <1>0, <2>8 DEF IdleQueued, RetireQueued, RetirePending, WorkerPath, ShutdownPath
    <2>9. CASE RetireInflight(w) \/ Unmark(w)
      BY <1>0, <2>9 DEF RetireInflight, Unmark, WorkerPath, ShutdownPath
    <2>10. CASE IdlePending(w)
      BY <1>0, <2>10 DEF IdlePending, Parks, Wait, WorkerPath, ShutdownPath
    <2>11. CASE SdPark(w)
      BY <1>0, <2>11 DEF SdPark, Parks, Wait, WorkerPath, ShutdownPath
    <2>12. CASE SdMark(w) \/ SdQueued(w)
      BY <1>0, <2>12 DEF SdMark, SdQueued, WorkerPath, ShutdownPath
    <2>13. CASE Awaken(w) \/ TimedOut(w)
      BY <1>0, <2>13 DEF Awaken, TimedOut, Notified, WorkerPath
    <2>14. CASE KeepAliveElapses(w)
      BY <1>0, <2>14 DEF KeepAliveElapses, WorkerPath
    <2>15. CASE Consume(w) \/ SdInflight(w)
      <3>1. Unregister(w) => pc'[w] = "exit" /\ live' = live - 1 /\ lock' = Free /\ waiting' \subseteq waiting
        BY <1>0 DEF Unregister
      <3>2. CASE Consume(w)
        <4>1. /\ pending' <= pending /\ UNCHANGED job
              /\ \/ pc[w] = "consumeRetire" /\ Unregister(w)
                 \/ pc[w] = "consume" /\ pc'[w] = "take" /\ UNCHANGED <<waiting, live>>
          BY <1>0, <3>2 DEF Consume
        <4> QED
          BY <3>1, <4>1 DEF WorkerPath
      <3>3. CASE SdInflight(w)
        <4>1. /\ pc[w] = "sdInflight" /\ UNCHANGED <<job, pending>>
              /\ \/ Unregister(w)
                 \/ pc'[w] = "sdMark" /\ UNCHANGED <<lock, waiting, live>>
          BY <1>0, <3>3 DEF SdInflight
        <4> QED
          BY <3>1, <4>1 DEF WorkerPath, ShutdownPath
      <3> QED
        BY <2>15, <3>2, <3>3
    <2> QED
      BY <2>1, <2>2, <2>3, <2>4, <2>5, <2>6, <2>7, <2>8, <2>9, <2>10, <2>11, <2>12, <2>13, <2>14, <2>15 DEF WorkerStep
  <1> QED
    BY <1>0, <1>2, <1>3

\* A terminated pool is over, in this state as in the next.
LEMMA TerminatedNow == Inv /\ IsTerminated => PoolIsOver
  BY TerminatedIsOver DEF Inv

\* Who requests a wake is inside, and so is whoever has a slot.
LEMMA InsideOwes ==
  ASSUME Inv, Inside = {}
  PROVE  ~Somebody(Deciding \cup {"wakeNotify"}) /\ Owed = Queued
  <1>1. \A t \in Threads : pc[t] \in Deciding \cup {"wakeNotify"} => t \in Submitters
    BY DEF Inv, TypeOK, PcOK, Threads, Deciding, WorkerPcs, CancellerPcs, ControllerPcs, BuilderPcs, StopPcs
  <1>2. \A s \in Submitters : pc[s] \notin Deciding \cup {"wakeNotify"} /\ job[s] # "reserved"
    BY DEF Inside, Deciding, Inv, Own, EntryFits, EntryFit
  <1> QED
    BY <1>1, <1>2 DEF Somebody, Owed, Queued, Under

\* A worker leaves no sleeper behind, and neither sleeps nor leaves on a reason to stay.
LEMMA WorkerWakes ==
  ASSUME Inv, Inv', WakeInv, NEW w \in Workers, WorkerStep(w) \/ KeepAliveElapses(w)
  PROVE  WakeInv'
  <1> USE Roles
  <1>0. /\ WorkerPath(w) /\ UNCHANGED <<lifecycle, open, idleWaiters, seen>> /\ TypeOK
        /\ w \in Threads /\ w \notin Submitters /\ w \notin Controllers /\ w \notin Builders
        /\ \A u \in Threads \ {w} : pc'[u] = pc[u]
        /\ waiting \subseteq Threads /\ Free \notin Threads
        /\ pending \in Nat /\ pending' \in Nat /\ live \in Nat /\ live' \in Nat /\ maximum \in Nat /\ maximum > 0
        /\ (w \in waiting => pc[w] = "parked") /\ \A u \in Threads : pc[u] \in Holding => lock = u
    BY WorkerOnPath, PoolAssumption DEF Inv, TypeOK, DataOK, ParkedFit
  <1>1. pc[w] \notin Deciding \cup {"departOpen", "departNotify", "departWaiters", "wakeNotify",
                                    "stopInflight", "stopWait", "drain"}
    BY <1>0 DEF WorkerPath, Deciding
  <1>2. ASSUME NEW p, "off" \notin p, Somebody(p), pc[w] \notin p
        PROVE  Somebody(p)'
    BY <1>0, <1>2, SomebodyStays
  <1>3. /\ Departs => Departs'
        /\ Somebody(Deciding) => Somebody(Deciding)'
        /\ Somebody(Deciding \cup {"wakeNotify"}) => Somebody(Deciding \cup {"wakeNotify"})'
        /\ Somebody({"wakeNotify"}) => Somebody({"wakeNotify"})'
        /\ Somebody({"stopInflight", "stopWait", "drain"}) => Somebody({"stopInflight", "stopWait", "drain"})'
    <2>1. "off" \notin Deciding
      BY DEF Deciding
    <2> QED
      BY <1>1, <1>2, <2>1 DEF Departs
  \* Only w itself falls asleep.
  <1>4. \/ waiting' \subseteq waiting /\ w \notin waiting'
        \/ /\ waiting' = waiting \cup {w} /\ pc'[w] = "parked" /\ UNCHANGED <<job, pending>>
           /\ \/ pc[w] = "idlePending" /\ pending = 0
              \/ pc[w] = "sdPark" /\ Inside # {}
    BY <1>0 DEF WorkerPath
  <1>5. \A t \in waiting' : t # w => t \in waiting /\ pc'[t] = pc[t]
    BY <1>0, <1>4
  <1>6. w \in waiting' => pc'[w] = "parked"
    BY <1>4
  <1>7. ASSUME NEW p, Asleep(p)', p # "parked" \/ w \notin waiting'
        PROVE  Asleep(p) /\ waiting' # {}
    BY <1>5, <1>6, <1>7 DEF Asleep
  <1>8. Inside' = Inside
    BY <1>0 DEF Inside
  <1>9. Queued' \subseteq Queued /\ Owed' \subseteq Owed /\ pending' <= pending
    BY <1>0 DEF WorkerPath, Queued, Owed, Under
  <1>10. WaitFit'
    <2>1. \A t \in waiting' : \/ t \in Workers /\ pc'[t] = "parked"
                              \/ t \in Joiners /\ pc'[t] = "join"
                              \/ t \in Stops /\ pc'[t] = "stopWait"
                              \/ t \in Waiters /\ pc'[t] = "start"
                              \/ t \in Builders /\ pc'[t] = "awaitEnd"
      BY <1>5, <1>6 DEF WakeInv, WaitFit
    <2>2. /\ pc'[w] \in {"idleQueued", "idlePending"} => lifecycle = "Running"
          /\ pc'[w] \in ShutdownPath => lifecycle = "ShuttingDown"
      <3>1. /\ pc[w] \in {"idleQueued", "idlePending"} => lifecycle = "Running"
            /\ pc[w] \in ShutdownPath => lifecycle = "ShuttingDown"
        BY DEF WakeInv, WaitFit
      <3>2. pc'[w] \in {"idleQueued", "idlePending"} => pc[w] \in {"idleQueued", "idlePending"} \/ lifecycle = "Running"
        BY <1>0 DEF WorkerPath
      <3>3. pc'[w] \in ShutdownPath => pc[w] \in ShutdownPath \/ lifecycle = "ShuttingDown"
        BY <1>0 DEF WorkerPath, ShutdownPath
      <3> QED
        BY <3>1, <3>2, <3>3
    <2>3. \A u \in Workers : /\ pc'[u] \in {"idleQueued", "idlePending"} => lifecycle' = "Running"
                             /\ pc'[u] \in ShutdownPath => lifecycle' = "ShuttingDown"
      BY <1>0, <2>2 DEF WakeInv, WaitFit
    <2> QED
      BY <2>1, <2>3 DEF WaitFit
  <1>11. StopWoken'
    BY <1>3, <1>7, <1>8 DEF WakeInv, StopWoken
  <1>12. EndWoken'
    <2> SUFFICES ASSUME IsTerminated', Asleep("start")' \/ Asleep("awaitEnd")' \/ ~terminationTx'
                 PROVE  FALSE
      BY DEF EndWoken
    <2>1. pc'[w] = "off"
      <3>1. PoolIsOver'
        BY TerminatedNow, PTL
      <3> QED
        BY <3>1 DEF PoolIsOver
    <2>2. waiting' = {}
      BY <1>0, <2>1 DEF WorkerPath
    <2>3. terminationTx'
      BY LastExitPublishes DEF Inv
    <2> QED
      BY <2>2, <2>3 DEF Asleep
  <1>13. JoinWoken'
    <2> DEFINE enders == {"departWaiters", "settle", "settleNotify"}
    <2> SUFFICES ASSUME Asleep("join")', IsIdle'
                 PROVE  Departs' \/ Somebody(enders)'
      BY DEF JoinWoken
    <2>1. Asleep("join") /\ waiting' # {}
      BY <1>7
    <2>2. CASE pc'[w] \in enders
      BY <1>0, <2>2 DEF Somebody
    <2>3. CASE pc'[w] \notin enders
      <3>1. job' = job
        BY <1>0, <2>3 DEF WorkerPath
      <3>2. IsIdle
        BY <1>8, <3>1 DEF IsIdle, Under
      <3>3. pc[w] \notin enders
        BY <1>0, <2>1, <2>3, <3>2 DEF WorkerPath
      <3> QED
        BY <1>2, <1>3, <2>1, <3>2, <3>3 DEF WakeInv, JoinWoken
    <2> QED
      BY <2>2, <2>3
  <1>14. WorkerWoken'
    <2>1. CASE w \notin waiting'
      BY <1>0, <1>3, <1>7, <1>8, <2>1 DEF WakeInv, WorkerWoken
    <2>2. CASE pc[w] = "idlePending"
      BY <1>0, <2>2 DEF WakeInv, WaitFit, WorkerWoken
    <2>3. CASE pc[w] = "sdPark" /\ Inside # {}
      BY <1>0, <1>8, <2>3 DEF WakeInv, WaitFit, ShutdownPath, WorkerWoken
    <2> QED
      BY <1>4, <2>1, <2>2, <2>3
  <1>15. TokenFit'
    BY <1>0 DEF WakeInv, TokenFit
  <1>16. JobWoken'
    <2>1. ASSUME NEW t \in Threads, pc'[t] \in {"idlePending", "retirePending"}, Queued' # {}
          PROVE  pending' > 0 \/ Somebody(Deciding)'
      <3>1. t # w
        <4>1. pc'[w] \in {"idlePending", "retirePending"} => Queued = {}
          BY <1>0 DEF WorkerPath
        <4> QED
          BY <1>9, <2>1, <4>1
      <3>2. pc[t] \in {"idlePending", "retirePending"} /\ lock = t
        BY <1>0, <2>1, <3>1 DEF Holding
      <3>3. pending' = pending
        <4>1. pc[w] \notin {"consume", "consumeRetire"}
          BY <1>0, <3>1, <3>2 DEF Holding
        <4> QED
          BY <1>0, <4>1 DEF WorkerPath
      <3>4. Somebody({"idlePending", "retirePending"}) /\ Queued # {}
        BY <1>9, <3>2, <2>1 DEF Somebody
      <3> QED
        BY <1>3, <3>3, <3>4 DEF WakeInv, JobWoken
    <2>2. ASSUME Resting'
          PROVE  /\ pending' > 0 => Somebody({"wakeNotify"})'
                 /\ Queued' # {} => Somebody(Deciding \cup {"wakeNotify"})'
      <3>1. CASE Resting
        BY <1>0, <1>3, <1>9, <3>1 DEF WakeInv, JobWoken
      <3>2. CASE pc[w] \in {"idlePending", "retirePending"} /\ pending = 0 /\ UNCHANGED <<job, pending>>
        <4>1. Somebody({"idlePending", "retirePending"})
          BY <1>0, <3>2 DEF Somebody
        <4>2. Queued' # {} => Somebody(Deciding)'
          BY <1>3, <1>9, <3>2, <4>1 DEF WakeInv, JobWoken
        <4> QED
          BY <3>2, <4>2 DEF Somebody
      <3>3. CASE ~Resting
        <4>1. CASE w \in waiting' /\ lifecycle = "Running"
          <5>1. pc[w] # "sdPark"
            BY <4>1 DEF WakeInv, WaitFit, ShutdownPath
          <5> QED
            BY <1>0, <1>4, <3>2, <4>1, <5>1
        <4>2. CASE pc'[w] = "retireInflight"
          <5>1. pc[w] = "retirePending" /\ pending = 0 /\ UNCHANGED <<job, pending>>
            BY <1>0, <4>2 DEF WorkerPath
          <5> QED
            BY <3>2, <5>1
        <4>3. CASE pc'[w] # "retireInflight" /\ ~(w \in waiting' /\ lifecycle = "Running")
          <5>1. Somebody({"retireInflight"})' => Somebody({"retireInflight"})
            BY <1>0, <4>3 DEF Somebody
          <5>2. Asleep("parked")' /\ lifecycle = "Running" => Asleep("parked")
            BY <1>7, <4>3
          <5> QED
            BY <1>0, <2>2, <3>3, <5>1, <5>2 DEF Resting
        <4> QED
          BY <4>1, <4>2, <4>3
      <3> QED
        BY <3>1, <3>3
    <2>3. Somebody({"idlePending", "retirePending"})' /\ Queued' # {} => pending' > 0 \/ Somebody(Deciding)'
      BY <2>1 DEF Somebody
    <2> QED
      BY <2>2, <2>3 DEF JobWoken
  <1>17. LastLeaves'
    <2> SUFFICES ASSUME NEW v \in Workers, pc'[v] \in {"unmarkRetire", "consumeRetire"}, live' = 1
                 PROVE  Owed' = {}
      BY DEF LastLeaves
    <2>1. CASE v # w
      <3>1. pc[v] = pc'[v] /\ lock = v
        BY <1>0, <2>1 DEF Holding
      <3>2. live' = live
        <4>1. pc[w] \notin {"consumeRetire", "sdInflight"} /\ lock # Free
          BY <1>0, <2>1, <3>1 DEF Holding
        <4> QED
          BY <1>0, <4>1 DEF WorkerPath
      <3> QED
        BY <1>9, <3>1, <3>2 DEF WakeInv, LastLeaves
    <2>2. CASE v = w /\ pc[w] = "unmarkRetire"
      <3>1. live' = live
        BY <1>0, <2>2 DEF WorkerPath
      <3> QED
        BY <1>9, <2>2, <3>1 DEF WakeInv, LastLeaves
    <2>3. CASE v = w /\ pc[w] = "retireInflight"
      <3>1. live' = live /\ Inside = {} /\ job' = job
        BY <1>0, <2>3 DEF WorkerPath
      <3>2. Resting
        BY <1>0, <2>3 DEF Resting, Somebody
      <3>3. Queued = {}
        BY <3>1, <3>2, InsideOwes DEF WakeInv, JobWoken
      <3> QED
        BY <1>9, <3>1, <3>3, InsideOwes
    <2> QED
      <3>1. v = w => pc[w] \in {"unmarkRetire", "retireInflight"}
        BY <1>0 DEF WorkerPath
      <3> QED
        BY <2>1, <2>2, <2>3, <3>1
  <1>18. WorkerLeft'
    <2> SUFFICES ASSUME lifecycle = "Running", Owed' # {}
                 PROVE  live' > 0
      BY <1>0 DEF WorkerLeft
    <2>1. Owed # {} /\ live > 0
      BY <1>9 DEF WakeInv, WorkerLeft
    <2>2. pc[w] = "consumeRetire" => live # 1
      BY <2>1 DEF WakeInv, LastLeaves
    <2>3. pc[w] # "sdInflight"
      BY DEF WakeInv, WaitFit, ShutdownPath
    <2> QED
      BY <1>0, <2>1, <2>2, <2>3 DEF WorkerPath
  <1> QED
    BY <1>10, <1>11, <1>12, <1>13, <1>14, <1>15, <1>16, <1>17, <1>18 DEF WakeInv

\* The way of a ticket's caller.
CancellerPath(c) ==
  \/ /\ pc[c] \in {"start", "await", "withdraw"} /\ pc'[c] \in {"await", "withdraw", "true", "false"}
     /\ UNCHANGED <<job, waiting>>
  \/ pc[c] = "withdraw" /\ pc'[c] = "cancel" /\ ~IsIdle' /\ UNCHANGED waiting
  \/ pc[c] = "cancel" /\ pc'[c] = "settle" /\ UNCHANGED waiting
  \/ /\ pc[c] = "settle" /\ UNCHANGED <<job, waiting>>
     /\ pc'[c] = IF IsIdle THEN "settleNotify" ELSE "true"
  \/ /\ pc[c] = "settleNotify" /\ pc'[c] = "true" /\ waiting' = {} /\ (IsTerminated => terminationTx')
     /\ UNCHANGED job

\* Every step of it is on it.
LEMMA CancellerOnPath ==
  ASSUME Inv, NEW c \in Cancellers, CancellerStep(c)
  PROVE  /\ CancellerPath(c) /\ Queued' \subseteq Queued /\ Owed' \subseteq Owed
         /\ UNCHANGED <<monitor, lock, flags, wakes, seen>> /\ (terminationTx => terminationTx')
         /\ c \in Threads /\ \A u \in Threads \ {c} : pc'[u] = pc[u]
  <1> USE Roles
  <1>0. /\ c \in Threads /\ c \notin Submitters /\ c \notin Workers /\ DOMAIN pc = Threads /\ pc[c] \in CancellerPcs
        /\ UNCHANGED <<monitor, lock, flags, wakes, seen>> /\ (terminationTx => terminationTx')
        /\ \A u \in Threads \ {c} : pc'[u] = pc[u]
        /\ \A j \in Submitters : Stays(j) \/ Taken(j, "cancelling") \/ Ends(j, "cancelling", "cancelled") \/ job'[j] = job[j]
    BY CancellerFrame, CallerPublishes DEF Inv, TypeOK, PcOK, Publishes
  <1>1. Queued' \subseteq Queued /\ Owed' \subseteq Owed
    <2>1. \A j \in Submitters : job'[j] = job[j] \/ job'[j] \in {"cancelling", "cancelled"}
      BY <1>0 DEF Stays, Taken, Ends
    <2> QED
      BY <2>1 DEF Queued, Owed, Under
  <1>2. CASE AskTicket(c)
    BY <1>0, <1>1, <1>2 DEF AskTicket, Calls, CancellerPath
  <1>3. CASE AwaitDecision(c)
    BY <1>0, <1>1, <1>3 DEF AwaitDecision, CancellerPath
  <1>4. CASE Withdraw(c)
    <2>1. pc[c] = "withdraw" /\ waiting' = waiting /\ (pc'[c] = "cancel" \/ (pc'[c] = "false" /\ UNCHANGED job))
      BY <1>0, <1>4 DEF Withdraw
    <2>2. pc'[c] = "cancel" => Taken(target[c], "cancelling") /\ target[c] \in Submitters
      <3>1. TicketFit(c)
        BY DEF Inv, TicketsFit
      <3>2. target[c] \in Submitters
        BY <2>1, <3>1, PoolAssumption DEF TicketFit
      <3> QED
        BY <2>1, <3>2, CancellerFrame DEF Inv
    <2>3. pc'[c] = "cancel" => ~IsIdle'
      BY <2>2 DEF Taken, IsIdle, Under
    <2> QED
      BY <1>0, <1>1, <2>1, <2>3 DEF CancellerPath
  <1>5. CASE CancelCallback(c)
    BY <1>0, <1>1, <1>5 DEF CancelCallback, CancellerPath
  <1>6. CASE Settle(c)
    BY <1>0, <1>1, <1>6 DEF Settle, AfterSettle, CancellerPath
  <1>7. CASE NotifyUnderLock(c)
    BY <1>0, <1>1, <1>7 DEF NotifyUnderLock, AfterSettle, PublishTermination, IsTerminated, CancellerPath, CancellerPcs
  <1> QED
    BY <1>0, <1>1, <1>2, <1>3, <1>4, <1>5, <1>6, <1>7 DEF CancellerStep

\* A ticket's caller leaves no sleeper behind.
LEMMA CancellerWakes ==
  ASSUME Inv, Inv', WakeInv, NEW c \in Cancellers, CancellerStep(c)
  PROVE  WakeInv'
  <1> USE Roles
  <1>0. /\ CancellerPath(c) /\ Queued' \subseteq Queued /\ Owed' \subseteq Owed
        /\ UNCHANGED <<monitor, lock, flags, wakes, seen>> /\ (terminationTx => terminationTx')
        /\ c \in Threads /\ c \notin Submitters /\ c \notin Workers /\ c \notin Controllers /\ c \notin Builders
        /\ waiting \subseteq Threads /\ \A u \in Threads \ {c} : pc'[u] = pc[u]
    BY CancellerOnPath DEF Inv, TypeOK, DataOK
  <1>1. waiting' \subseteq waiting /\ c \notin waiting
    <2>1. c \notin Joiners /\ c \notin Stops /\ c \notin Waiters
      BY <1>0 DEF Stops
    <2> QED
      BY <1>0, <2>1 DEF CancellerPath, WakeInv, WaitFit
  <1>2. \A t \in waiting' : t \in waiting /\ pc'[t] = pc[t]
    BY <1>0, <1>1
  <1>3. \A p : Asleep(p)' => Asleep(p) /\ waiting' # {}
    BY <1>2 DEF Asleep
  <1>4. Inside' = Inside /\ \A w \in Workers : pc'[w] = pc[w]
    BY <1>0 DEF Inside
  <1>5. ASSUME NEW p, "off" \notin p, Somebody(p), pc[c] \notin p
        PROVE  Somebody(p)'
    BY <1>0, <1>5, SomebodyStays
  <1>6. pc[c] \notin Deciding \cup {"departOpen", "departNotify", "departWaiters", "wakeNotify",
                                    "stopInflight", "stopWait", "drain"}
    BY <1>0 DEF CancellerPath, Deciding
  <1>7. /\ Departs => Departs'
        /\ Somebody(Deciding) => Somebody(Deciding)'
        /\ Somebody(Deciding \cup {"wakeNotify"}) => Somebody(Deciding \cup {"wakeNotify"})'
        /\ Somebody({"wakeNotify"}) => Somebody({"wakeNotify"})'
        /\ Somebody({"stopInflight", "stopWait", "drain"}) => Somebody({"stopInflight", "stopWait", "drain"})'
    <2>1. "off" \notin Deciding
      BY DEF Deciding
    <2> QED
      BY <1>5, <1>6, <2>1 DEF Departs
  <1>8. WaitFit' /\ TokenFit'
    BY <1>0, <1>2, <1>4 DEF WakeInv, WaitFit, TokenFit
  <1>9. StopWoken'
    BY <1>3, <1>4, <1>7 DEF WakeInv, StopWoken
  \* Unless it has the last job to settle, nothing has changed for the sleepers.
  <1>10. ASSUME IsIdle', pc'[c] \notin {"settle", "settleNotify"}
         PROVE  /\ IsIdle /\ (IsTerminated' => IsTerminated)
                /\ pc[c] \notin {"settle", "settleNotify"} \/ (waiting' = {} /\ (IsTerminated => terminationTx'))
    <2>1. job' = job
      BY <1>0, <1>10 DEF CancellerPath
    <2>2. IsIdle
      BY <1>4, <1>10, <2>1 DEF IsIdle, Under
    <2>3. IsTerminated' => IsTerminated
      BY <1>0, <2>2 DEF IsTerminated, Terminated
    <2> QED
      BY <1>0, <1>10, <2>2, <2>3 DEF CancellerPath
  <1>11. EndWoken'
    <2> SUFFICES ASSUME IsTerminated', Asleep("start")' \/ Asleep("awaitEnd")' \/ ~terminationTx', pc'[c] \notin Ending
                 PROVE  Departs' \/ Somebody(Ending)'
      BY <1>0 DEF EndWoken, Somebody
    <2>1. IsIdle' /\ pc'[c] \notin {"settle", "settleNotify"} /\ "off" \notin Ending
      BY DEF IsTerminated, Terminated, Ending
    <2>2. IsTerminated /\ pc[c] \notin {"settle", "settleNotify"}
      BY <1>3, <1>10, <2>1
    <2>3. pc[c] \notin Ending
      BY <1>6, <2>2 DEF Ending
    <2> QED
      BY <1>0, <1>3, <1>5, <1>7, <2>1, <2>2, <2>3 DEF WakeInv, EndWoken
  <1>12. JoinWoken'
    <2> DEFINE enders == {"departWaiters", "settle", "settleNotify"}
    <2> SUFFICES ASSUME Asleep("join")', IsIdle', pc'[c] \notin enders
                 PROVE  Departs' \/ Somebody(enders)'
      BY <1>0 DEF JoinWoken, Somebody
    <2>1. IsIdle /\ pc[c] \notin enders
      BY <1>3, <1>6, <1>10
    <2> QED
      BY <1>3, <1>5, <1>7, <2>1 DEF WakeInv, JoinWoken
  <1>13. WorkerWoken'
    BY <1>0, <1>3, <1>4, <1>7 DEF WakeInv, WorkerWoken
  <1>14. JobWoken'
    <2>1. Somebody({"idlePending", "retirePending"})' => Somebody({"idlePending", "retirePending"})
      <3>1. pc'[c] \notin {"idlePending", "retirePending"}
        BY <1>0 DEF CancellerPath
      <3> QED
        BY <1>0, <3>1 DEF Somebody
    <2>2. Resting' => Resting
      <3>1. pc'[c] # "retireInflight"
        BY <1>0 DEF CancellerPath
      <3> QED
        BY <1>0, <1>3, <3>1 DEF Resting, Somebody
    <2> QED
      BY <1>0, <1>7, <2>1, <2>2 DEF WakeInv, JobWoken
  <1>15. LastLeaves' /\ WorkerLeft'
    BY <1>0, <1>4 DEF WakeInv, LastLeaves, WorkerLeft
  <1> QED
    BY <1>8, <1>9, <1>11, <1>12, <1>13, <1>14, <1>15 DEF WakeInv

\* The ways of shutdown, stop, join, the waits for termination, the configuration calls and the construction.
ControllerPath(t) ==
  \/ /\ pc[t] \in {"start", "announce", "stopNow", "buildFailed"} /\ t \notin Waiters
     /\ pc'[t] \in {"announce", "shutdown", "stopNow", "stop", "join"}
     /\ UNCHANGED <<lifecycle, job, lock, waiting, live>>
  \/ /\ pc[t] = "shutdown" /\ pc'[t] = "done" /\ lock = Free /\ waiting' = {}
     /\ lifecycle' = IF lifecycle = "Running" THEN "ShuttingDown" ELSE lifecycle
     /\ (IsTerminated' => terminationTx') /\ UNCHANGED <<job, lock, live>>
  \/ /\ t \in Stops /\ pc[t] = "stop" /\ pc'[t] = "stopInflight" /\ lock = Free /\ lock' = t
     /\ lifecycle' = "Stopping" /\ UNCHANGED <<job, waiting, live>>
  \/ /\ t \in Stops /\ pc[t] = "stopInflight" /\ UNCHANGED <<lifecycle, job, live>>
     /\ \/ Inside = {} /\ pc'[t] = "drain" /\ UNCHANGED <<lock, waiting>>
        \/ Inside # {} /\ pc'[t] = "stopWait" /\ waiting' = waiting \cup {t} /\ lock' = Free
  \/ /\ t \in Stops /\ pc[t] = "stopWait" /\ pc'[t] = "stopInflight" /\ t \notin waiting
     /\ lock = Free /\ lock' = t /\ UNCHANGED <<lifecycle, job, waiting, live>>
  \/ /\ t \in Stops /\ pc[t] = "drain" /\ pc'[t] \in {"stopNotify", "cancel"} /\ waiting' = {} /\ lock' = Free
     /\ (IsTerminated' => terminationTx') /\ UNCHANGED <<lifecycle, live>>
  \/ pc[t] = "cancel" /\ pc'[t] = "settle" /\ UNCHANGED <<lifecycle, lock, waiting, live>>
  \/ /\ pc[t] = "settle" /\ UNCHANGED <<lifecycle, job, lock, waiting, live>>
     /\ IF IsIdle THEN pc'[t] = "settleNotify" ELSE pc'[t] \in {"stopNotify", "cancel"}
  \/ /\ pc[t] \in {"settleNotify", "stopNotify"} /\ pc'[t] \in {"stopNotify", "cancel", "done", "awaitEnd"}
     /\ waiting' = {} /\ (pc[t] = "settleNotify" /\ IsTerminated => terminationTx')
     /\ UNCHANGED <<lifecycle, job, lock, live>>
  \/ /\ pc[t] \in {"join", "awaitEnd"} /\ pc'[t] \in {"done", "failed"} /\ t \notin waiting
     /\ UNCHANGED <<lifecycle, job, lock, waiting, live>>
  \/ /\ \/ t \in Joiners /\ pc[t] = "join" /\ ~IsIdle
        \/ t \in Waiters /\ pc[t] = "start" /\ ~IsTerminated
        \/ t \in Builders /\ pc[t] = "awaitEnd" /\ ~IsTerminated
     /\ pc'[t] = pc[t] /\ waiting' = waiting \cup {t} /\ lock = Free
     /\ UNCHANGED <<lifecycle, job, lock, live>>
  \/ /\ t \in Waiters /\ pc[t] = "start" /\ pc'[t] \in {"start", "done"} /\ waiting' = waiting \ {t}
     /\ UNCHANGED <<lifecycle, job, lock, live>>
  \/ /\ pc[t] \in {"start", "prestart", "tuned"} /\ pc'[t] \in {"tuned", "done", "prestart", "ready", "buildFailed"}
     /\ t \notin Waiters /\ waiting' \subseteq waiting /\ UNCHANGED <<lifecycle, job, lock>>
     /\ live' = live \/ (lock = Free /\ live' = live + 1)

\* Every step of theirs is on one of them.
LEMMA ControllerOnPath ==
  ASSUME Inv, NEW t \in Controllers \cup Builders, ControllerStep(t)
  PROVE  ControllerPath(t)
  <1> USE Roles
  <1>0. /\ t \in Threads /\ t \notin Submitters /\ t \notin Workers /\ t \notin Cancellers
        /\ DOMAIN pc = Threads /\ DOMAIN job = Submitters /\ lifecycle \in Lifecycles
        /\ (t \in Controllers => pc[t] \in ControllerPcs) /\ (t \in Builders => pc[t] \in BuilderPcs)
        /\ (t \in Stops \cup Shutdowners \cup Joiners \cup Tuners \cup Builders => t \notin Waiters)
        /\ \A s \in Submitters : pc'[s] = pc[s]
    BY ControllerFrame DEF Inv, TypeOK, PcOK, DataOK, Stops, ControllerMoves
  <1>1. CASE t \in Shutdowners /\ ShutdownStep(t)
    <2>1. CASE CloseAdmission(t, "announce") \/ AnnounceShutdown(t)
      BY <1>0, <1>1, <2>1 DEF CloseAdmission, Calls, AnnounceShutdown, ControllerPath
    <2>2. CASE BeginShutdown(t)
      <3>1. /\ pc[t] = "shutdown" /\ pc'[t] = "done" /\ lock = Free /\ waiting' = {}
            /\ lifecycle' = IF lifecycle = "Running" THEN "ShuttingDown" ELSE lifecycle
            /\ UNCHANGED <<job, lock, live, exiting>> /\ PublishTermination(lifecycle', live, exiting)
        BY <1>0, <2>2 DEF BeginShutdown
      <3>2. IsTerminated' => terminationTx'
        BY <1>0, <3>1, IdleSame DEF IsTerminated, Terminated, PublishTermination
      <3> QED
        BY <3>1, <3>2 DEF ControllerPath
    <2> QED
      BY <1>1, <2>1, <2>2 DEF ShutdownStep
  <1>2. CASE t \in Joiners /\ JoinStep(t)
    <2>1. CASE BeginJoin(t)
      BY <1>0, <1>2, <2>1 DEF BeginJoin, Calls, ControllerPath
    <2>2. CASE Join(t) /\ UNCHANGED <<monitor, open, stopNow, wakes, jobs, qlock, work, locals, terminationTx>>
      BY <1>0, <1>2, <2>2 DEF Join, Wait, Notified, ControllerPath
    <2> QED
      BY <1>2, <2>1, <2>2 DEF JoinStep
  <1>3. CASE t \in Waiters /\ (WaiterStep(t) \/ TimeoutElapses(t))
    <2>1. CASE AwaitTermination(t) /\ IsTerminated
      <3>1. waiting = waiting \ {t}
        BY <2>1 DEF AwaitTermination, Notified
      <3> QED
        BY <1>0, <1>3, <2>1, <3>1 DEF AwaitTermination, Calls, Notified, ControllerPath
    <2>2. CASE AwaitTermination(t) /\ ~IsTerminated
      BY <1>0, <1>3, <2>2 DEF AwaitTermination, Calls, Wait, Notified, ControllerPath
    <2>3. CASE SubscribeTermination(t) \/ WatchTermination(t)
      <3>1. waiting = waiting \ {t}
        BY <2>3 DEF SubscribeTermination, WatchTermination, Notified
      <3> QED
        BY <1>0, <1>3, <2>3, <3>1 DEF SubscribeTermination, WatchTermination, Calls, ControllerPath
    <2>4. CASE TimeoutElapses(t)
      BY <1>0, <1>3, <2>4 DEF TimeoutElapses, ControllerPath
    <2> QED
      BY <1>3, <2>1, <2>2, <2>3, <2>4 DEF WaiterStep
  <1>4. CASE t \in Tuners /\ TuneStep(t)
    <2>1. CASE Tune(t)
      <3>1. /\ pc[t] = "start" /\ pc'[t] \in {"tuned", "done"} /\ waiting' \subseteq waiting /\ lock = Free
            /\ UNCHANGED <<lifecycle, job, lock>> /\ (live' = live \/ live' = live + 1)
        BY <1>4, <2>1, TuneMoves DEF Starts, Inv
      <3> QED
        BY <1>0, <1>4, <3>1 DEF ControllerPath
    <2>2. CASE NotifyTuned(t)
      BY <1>0, <1>4, <2>2 DEF NotifyTuned, ControllerPath
    <2> QED
      BY <1>4, <2>1, <2>2 DEF TuneStep
  <1>5. CASE t \in Builders /\ PrestartAll(t)
    <2>1. /\ pc[t] = "prestart" /\ pc'[t] \in {"prestart", "ready", "buildFailed"} /\ waiting' \subseteq waiting
          /\ UNCHANGED <<lifecycle, job, lock>> /\ (live' = live \/ live' = live + 1)
      BY <1>5, PrestartMoves DEF Starts, Inv
    <2>2. lock = Free
      BY <1>5 DEF PrestartAll
    <2> QED
      BY <1>0, <1>5, <2>1, <2>2 DEF ControllerPath
  <1>6. CASE t \in Builders /\ AwaitEnd(t)
    BY <1>0, <1>6 DEF AwaitEnd, Wait, Notified, ControllerPath
  <1>7. CASE t \in Stops /\ StopStep(t)
    <2>1. CASE CloseAdmission(t, "stopNow") \/ SetStopNow(t)
      BY <1>0, <1>7, <2>1 DEF CloseAdmission, Calls, SetStopNow, ControllerPath
    <2>2. CASE BeginStop(t)
      BY <1>0, <1>7, <2>2 DEF BeginStop, Lifecycles, ControllerPath
    <2>3. CASE AwaitSubmitters(t)
      BY <1>0, <1>7, <2>3 DEF AwaitSubmitters, Wait, ControllerPath
    <2>4. CASE ResumeStop(t)
      BY <1>0, <1>7, <2>4 DEF ResumeStop, Notified, ControllerPath
    <2>5. CASE Drain(t)
      <3>1. /\ pc[t] = "drain" /\ pc'[t] \in {"stopNotify", "cancel"} /\ waiting' = {} /\ lock' = Free
            /\ UNCHANGED <<lifecycle, live, exiting>> /\ PublishTermination(lifecycle, live, exiting)
        BY <1>0, <2>5 DEF Drain
      <3>2. IsIdle' => IsIdle
        <4>1. \A j \in Submitters : job'[j] = job[j] \/ job'[j] = "cancelling"
          BY <1>0, <2>5 DEF Drain
        <4> QED
          BY <1>0, <4>1 DEF IsIdle, Inside, Under
      <3>3. IsTerminated' => terminationTx'
        BY <3>1, <3>2 DEF IsTerminated, Terminated, PublishTermination
      <3> QED
        BY <1>7, <3>1, <3>3 DEF ControllerPath
    <2>6. CASE CancelCallback(t)
      BY <1>0, <2>6 DEF CancelCallback, ControllerPath
    <2>7. CASE Settle(t)
      BY <1>0, <2>7 DEF Settle, AfterSettle, ControllerPath
    <2>8. CASE NotifyUnderLock(t)
      <3>1. /\ pc[t] \in {"settleNotify", "stopNotify"} /\ pc'[t] \in {"stopNotify", "cancel", "done", "awaitEnd"}
            /\ waiting' = {} /\ UNCHANGED <<lifecycle, job, lock, live>>
            /\ (pc[t] = "settleNotify" => PublishTermination(lifecycle, live, exiting))
        BY <1>0, <1>7, <2>8 DEF NotifyUnderLock, AfterSettle, ControllerPcs, BuilderPcs, StopPcs
      <3> QED
        BY <3>1 DEF PublishTermination, IsTerminated, ControllerPath
    <2> QED
      BY <1>7, <2>1, <2>2, <2>3, <2>4, <2>5, <2>6, <2>7, <2>8 DEF StopStep
  <1> QED
    BY <1>1, <1>2, <1>3, <1>4, <1>5, <1>6, <1>7 DEF ControllerStep

\* None of them leaves a sleeper behind, or sleeps on a reason to wake.
LEMMA ControllerWakes ==
  ASSUME Inv, Inv', WakeInv, NEW t \in Controllers \cup Builders, ControllerStep(t)
  PROVE  WakeInv'
  <1> USE Roles
  <1>0. /\ ControllerPath(t) /\ UNCHANGED <<pending, seen, exiting>> /\ (terminationTx => terminationTx')
        /\ t \in Threads /\ t \notin Submitters /\ t \notin Workers
        /\ \A u \in Threads \ {t} : pc'[u] = pc[u] \/ (u \in Workers /\ pc[u] = "off" /\ pc'[u] = "take")
        /\ waiting \subseteq Threads /\ Free \notin Threads /\ live \in Nat /\ lifecycle \in Lifecycles
        /\ \A j \in Submitters : Stays(j) \/ Taken(j, "cancelling") \/ Ends(j, "cancelling", "cancelled")
    BY ControllerOnPath, ControllerFrame, ControllerPublishes, PoolAssumption
       DEF Inv, TypeOK, DataOK, ControllerMoves, Publishes
  <1>1. Queued' \subseteq Queued /\ Owed' \subseteq Owed
    <2>1. \A j \in Submitters : job'[j] = job[j] \/ job'[j] \in {"cancelling", "cancelled"}
      BY <1>0 DEF Stays, Taken, Ends
    <2> QED
      BY <2>1 DEF Queued, Owed, Under
  <1>2. pc[t] \notin Deciding \cup {"departOpen", "departNotify", "departWaiters", "wakeNotify"}
    BY <1>0 DEF ControllerPath, Deciding
  <1>3. ASSUME NEW p, "off" \notin p, Somebody(p), pc[t] \notin p
        PROVE  Somebody(p)'
    BY <1>0, <1>3, SomebodyStays
  <1>4. /\ Departs => Departs'
        /\ Somebody(Deciding) => Somebody(Deciding)'
        /\ Somebody(Deciding \cup {"wakeNotify"}) => Somebody(Deciding \cup {"wakeNotify"})'
        /\ Somebody({"wakeNotify"}) => Somebody({"wakeNotify"})'
    <2>1. "off" \notin Deciding
      BY DEF Deciding
    <2> QED
      BY <1>2, <1>3, <2>1 DEF Departs
  \* Only t itself falls asleep.
  <1>5. \/ waiting' \subseteq waiting /\ t \notin waiting'
        \/ /\ waiting' = waiting \cup {t} /\ UNCHANGED <<lifecycle, job, live>>
           /\ \/ t \in Stops /\ pc'[t] = "stopWait" /\ Inside # {}
              \/ t \in Joiners /\ pc'[t] = "join" /\ ~IsIdle
              \/ t \in Waiters /\ pc'[t] = "start" /\ ~IsTerminated
              \/ t \in Builders /\ pc'[t] = "awaitEnd" /\ ~IsTerminated
    <2>1. t \in waiting => \/ t \in Joiners /\ pc[t] = "join"
                           \/ t \in Stops /\ pc[t] = "stopWait"
                           \/ t \in Waiters /\ pc[t] = "start"
                           \/ t \in Builders /\ pc[t] = "awaitEnd"
      BY <1>0 DEF WakeInv, WaitFit
    <2> QED
      BY <1>0, <2>1 DEF ControllerPath
  <1>6. \A u \in waiting' : u # t => u \in waiting /\ pc'[u] = pc[u]
    <2>1. \A u \in waiting : pc[u] # "off"
      BY DEF WakeInv, WaitFit
    <2> QED
      BY <1>0, <1>5, <2>1
  <1>7. Inside' = Inside
    BY <1>0 DEF Inside
  <1>8. ASSUME UNCHANGED <<lifecycle, job, live>>
        PROVE  (IsIdle' <=> IsIdle) /\ (IsTerminated' <=> IsTerminated)
    <2>1. IsIdle' <=> IsIdle
      BY <1>7, <1>8 DEF IsIdle, Under
    <2> QED
      BY <1>0, <1>8, <2>1 DEF IsTerminated, Terminated
  <1>9. ASSUME NEW p, Asleep(p)'
        PROVE  (Asleep(p) \/ (t \in waiting' /\ pc'[t] = p)) /\ waiting' # {}
    BY <1>6, <1>9 DEF Asleep
  <1>10. WaitFit'
    <2>1. \A u \in waiting' : \/ u \in Workers /\ pc'[u] = "parked"
                              \/ u \in Joiners /\ pc'[u] = "join"
                              \/ u \in Stops /\ pc'[u] = "stopWait"
                              \/ u \in Waiters /\ pc'[u] = "start"
                              \/ u \in Builders /\ pc'[u] = "awaitEnd"
      BY <1>5, <1>6 DEF WakeInv, WaitFit
    <2>2. lifecycle' = lifecycle \/ lock = Free
      BY <1>0 DEF ControllerPath
    <2>3. \A w \in Workers : w # Free /\ (pc'[w] = pc[w] \/ pc'[w] = "take") /\ (pc[w] \in Holding => lock = w)
      BY <1>0 DEF Inv, ParkedFit
    <2>4. \A w \in Workers : /\ pc'[w] \in {"idleQueued", "idlePending"} => lifecycle' = "Running"
                             /\ pc'[w] \in ShutdownPath => lifecycle' = "ShuttingDown"
      BY <2>2, <2>3 DEF WakeInv, WaitFit, ShutdownPath, Holding
    <2> QED
      BY <2>1, <2>4 DEF WaitFit
  <1>11. StopWoken'
    <2>1. t \in waiting' /\ pc'[t] = "stopWait" => Inside # {} \/ Asleep("stopWait")
      BY <1>5
    <2> QED
      BY <1>4, <1>7, <1>9, <2>1 DEF WakeInv, StopWoken
  <1>12. EndWoken'
    <2> SUFFICES ASSUME IsTerminated', Asleep("start")' \/ Asleep("awaitEnd")' \/ ~terminationTx', pc'[t] \notin Ending
                 PROVE  Departs' \/ Somebody(Ending)'
      BY <1>0 DEF EndWoken, Somebody
    <2>0. /\ live' = 0 /\ pc'[t] \notin {"settle", "settleNotify", "stopInflight", "drain"} /\ "off" \notin Ending
          /\ ~(waiting' = {} /\ terminationTx')
      BY <1>9 DEF IsTerminated, Terminated, Ending
    <2>1. UNCHANGED <<lifecycle, job, live>>
      BY <1>0, <2>0 DEF ControllerPath
    <2>2. IsTerminated /\ Inside = {} /\ IsIdle
      BY <1>8, <2>1 DEF IsTerminated, Terminated, IsIdle
    <2>3. Asleep("start")' => Asleep("start")
      BY <1>5, <1>9, <2>2
    <2>4. Asleep("awaitEnd")' => Asleep("awaitEnd")
      BY <1>5, <1>9, <2>2
    <2>5. pc[t] \notin {"settle", "settleNotify", "stopInflight", "drain"}
      BY <1>0, <2>0, <2>2 DEF ControllerPath
    <2>6. pc[t] \notin Ending
      BY <2>5 DEF Ending
    <2> QED
      BY <1>0, <1>3, <1>4, <2>0, <2>2, <2>3, <2>4, <2>6 DEF WakeInv, EndWoken
  <1>13. JoinWoken'
    <2> DEFINE enders == {"departWaiters", "settle", "settleNotify"}
    <2> SUFFICES ASSUME Asleep("join")', IsIdle', pc'[t] \notin enders
                 PROVE  Departs' \/ Somebody(enders)'
      BY <1>0 DEF JoinWoken, Somebody
    <2>1. job' = job /\ IsIdle
      <3>1. job' = job
        BY <1>0, <1>9 DEF ControllerPath
      <3> QED
        BY <1>7, <3>1 DEF IsIdle, Under
    <2>2. Asleep("join")
      BY <1>5, <1>9, <2>1
    <2>3. pc[t] \notin enders
      BY <1>0, <1>9, <2>1 DEF ControllerPath
    <2> QED
      BY <1>3, <1>4, <2>1, <2>2, <2>3 DEF WakeInv, JoinWoken
  <1>14. Asleep("parked")' => Asleep("parked")
    BY <1>5, <1>9
  <1>15. WorkerWoken'
    <2> DEFINE stops == {"stopInflight", "stopWait", "drain"}
    <2>1. ASSUME Asleep("parked")', lifecycle' = "Stopping", pc'[t] \notin stops
          PROVE  Somebody(stops)'
      <3>1. lifecycle = "Stopping" /\ pc[t] \notin stops
        BY <1>0, <1>9, <2>1 DEF ControllerPath
      <3> QED
        BY <1>3, <1>14, <2>1, <3>1 DEF WakeInv, WorkerWoken
    <2>2. ASSUME Asleep("parked")', lifecycle' = "ShuttingDown"
          PROVE  lifecycle = "ShuttingDown"
      BY <1>0, <1>9, <2>2 DEF ControllerPath
    <2>3. pc'[t] \in stops => Somebody(stops)'
      BY <1>0 DEF Somebody
    <2> QED
      BY <1>4, <1>7, <1>14, <2>1, <2>2, <2>3 DEF WakeInv, WorkerWoken
  <1>16. TokenFit'
    BY <1>0 DEF WakeInv, TokenFit
  <1>17. lifecycle' = "Running" => lifecycle = "Running"
    BY <1>0 DEF ControllerPath
  <1>18. JobWoken'
    <2>1. pc'[t] \notin {"idlePending", "retirePending", "retireInflight"}
      BY <1>0 DEF ControllerPath
    <2>2. Somebody({"idlePending", "retirePending"})' => Somebody({"idlePending", "retirePending"})
      BY <1>0, <2>1 DEF Somebody
    <2>3. Resting' => Resting
      BY <1>0, <1>14, <1>17, <2>1 DEF Resting, Somebody
    <2> QED
      BY <1>0, <1>1, <1>4, <2>2, <2>3 DEF WakeInv, JobWoken
  <1>19. LastLeaves'
    <2> SUFFICES ASSUME NEW w \in Workers, pc'[w] \in {"unmarkRetire", "consumeRetire"}, live' = 1
                 PROVE  Owed' = {}
      BY DEF LastLeaves
    <2>1. pc[w] = pc'[w] /\ lock = w /\ w # Free
      BY <1>0 DEF Inv, ParkedFit, Holding
    <2>2. live' = live
      BY <1>0, <2>1 DEF ControllerPath
    <2> QED
      BY <1>1, <2>1, <2>2 DEF WakeInv, LastLeaves
  <1>20. WorkerLeft'
    <2>1. live' = live \/ live' = live + 1
      BY <1>0 DEF ControllerPath
    <2> QED
      BY <1>0, <1>1, <1>17, <2>1 DEF WakeInv, WorkerLeft
  <1> QED
    BY <1>10, <1>11, <1>12, <1>13, <1>15, <1>16, <1>18, <1>19, <1>20 DEF WakeInv

\* Whatever happens, whoever has a reason to wake will be told.
LEMMA WakeStep == Inv /\ Inv' /\ WakeInv /\ [Next]_vars => WakeInv'
  <1> SUFFICES ASSUME Inv, Inv', WakeInv, [Next]_vars
               PROVE  WakeInv'
    OBVIOUS
  <1>1. CASE UNCHANGED vars
    <2>1. UNCHANGED <<pc, waiting, lifecycle, live, exiting, pending, seen, job, terminationTx>>
      BY <1>1 DEF vars
    <2>2. WaitFit' /\ TokenFit'
      BY <2>1 DEF WakeInv, WaitFit, TokenFit
    <2>3. \A p : (Somebody(p)' <=> Somebody(p)) /\ (Asleep(p)' <=> Asleep(p))
      BY <2>1 DEF Somebody, Asleep
    <2>4. /\ Inside' = Inside /\ Queued' = Queued /\ Owed' = Owed
          /\ (IsIdle' <=> IsIdle) /\ (IsTerminated' <=> IsTerminated)
      BY <2>1 DEF Inside, Queued, Owed, Under, IsIdle, IsTerminated, Terminated
    <2>5. (Departs' <=> Departs) /\ (Resting' <=> Resting)
      BY <2>1, <2>3 DEF Departs, Resting
    <2>6. StopWoken' /\ EndWoken' /\ JoinWoken'
      BY <2>1, <2>3, <2>4, <2>5 DEF WakeInv, StopWoken, EndWoken, JoinWoken
    <2>7. WorkerWoken' /\ JobWoken'
      BY <2>1, <2>3, <2>4, <2>5 DEF WakeInv, WorkerWoken, JobWoken
    <2>8. LastLeaves' /\ WorkerLeft'
      BY <2>1, <2>4 DEF WakeInv, LastLeaves, WorkerLeft
    <2> QED
      BY <2>2, <2>6, <2>7, <2>8 DEF WakeInv
  <1>2. CASE ~UNCHANGED vars
    BY <1>2, Steps, SubmitterWakes, WorkerWakes, CancellerWakes, ControllerWakes
  <1> QED
    BY <1>1, <1>2

\* Nobody sleeps at first.
LEMMA InitWakes == Init => WakeInv
  <1> SUFFICES ASSUME Init
               PROVE  WakeInv
    OBVIOUS
  <1>1. \A t \in Threads : pc[t] \in {"off", "prestart", "ready", "start"}
    BY DEF Init
  <1>2. waiting = {} /\ Queued = {} /\ Owed = {} /\ lifecycle = "Running" /\ terminationTx = FALSE
    BY DEF Init, Queued, Owed, Under
  <1>3. WaitFit /\ TokenFit /\ LastLeaves /\ WorkerLeft
    <2>1. \A t \in Workers \cup Submitters : pc[t] \in {"off", "prestart", "ready", "start"}
      BY <1>1, Roles
    <2> QED
      BY <1>2, <2>1 DEF WaitFit, ShutdownPath, TokenFit, LastLeaves, WorkerLeft
  <1>4. ~IsTerminated /\ \A p : ~Asleep(p)
    BY <1>2 DEF IsTerminated, Terminated, Asleep
  <1>5. ~Resting
    BY <1>1, <1>4 DEF Resting, Somebody
  <1> QED
    BY <1>2, <1>3, <1>4, <1>5 DEF WakeInv, StopWoken, EndWoken, JoinWoken, WorkerWoken, JobWoken

\* When all are asleep, nobody is left to notify.
LEMMA AsleepIsQuiet ==
  ASSUME WakeInv, AllAsleep
  PROVE  /\ Inside = {} /\ ~Departs /\ ~Somebody(Deciding \cup {"wakeNotify"}) /\ ~Somebody(Ending)
         /\ ~Somebody({"departWaiters", "settle", "settleNotify"})
         /\ \A t \in Threads : pc[t] = "stopWait" => t \in waiting
  <1> DEFINE rest == {"start", "off", "done", "refused", "true", "false", "ready", "failed", "awaitCapacity",
                      "parked", "join", "stopWait", "awaitEnd"}
  <1>1. \A t \in Threads : pc[t] \in rest
    BY DEF WakeInv, WaitFit, AllAsleep
  <1>2. ASSUME NEW p, p \cap rest = {}
        PROVE  ~Somebody(p)
    BY <1>1, <1>2 DEF Somebody
  <1>3. Inside = {}
    BY <1>1, Roles DEF Inside
  <1>4. ~Departs /\ ~Somebody(Deciding \cup {"wakeNotify"}) /\ ~Somebody(Ending)
    BY <1>2 DEF Departs, Deciding, Ending
  <1>5. ~Somebody({"departWaiters", "settle", "settleNotify"})
    BY <1>2
  <1>6. \A t \in Threads : pc[t] = "stopWait" => t \in waiting
    BY DEF AllAsleep
  <1> QED
    BY <1>3, <1>4, <1>5, <1>6

\* A pool in which all are asleep is one in which nobody has a reason to wake.
LEMMA WakeInvIsNoLostWakeup == Inv /\ WakeInv => NoLostWakeup
  <1> SUFFICES ASSUME Inv, WakeInv, AllAsleep
               PROVE  /\ \A t \in waiting : /\ pc[t] = "parked" => Queued = {} /\ lifecycle = "Running"
                                            /\ pc[t] = "join" => ~IsIdle
                                            /\ pc[t] = "stopWait" => Inside # {}
                                            /\ pc[t] \in {"start", "awaitEnd"} => ~IsTerminated
                      /\ IsTerminated => terminationTx
    BY DEF NoLostWakeup
  <1>0. IsTerminated => terminationTx
    BY AsleepIsQuiet DEF WakeInv, EndWoken
  <1> SUFFICES ASSUME NEW t \in waiting
               PROVE  /\ pc[t] = "parked" => Queued = {} /\ lifecycle = "Running"
                      /\ pc[t] = "join" => ~IsIdle
                      /\ pc[t] = "stopWait" => Inside # {}
                      /\ pc[t] \in {"start", "awaitEnd"} => ~IsTerminated
    BY <1>0
  <1>1. Asleep(pc[t])
    BY DEF Asleep
  <1>2. pc[t] # "stopWait"
    BY <1>1, AsleepIsQuiet DEF WakeInv, StopWoken
  <1>3. ~Somebody({"stopInflight", "stopWait", "drain"})
    <2> SUFFICES ASSUME NEW u \in Threads, pc[u] \in {"stopInflight", "stopWait", "drain"}
                 PROVE  FALSE
      BY DEF Somebody
    <2>1. pc[u] = "stopWait"
      BY AsleepIsQuiet DEF Somebody, Ending
    <2>2. Asleep("stopWait")
      BY <2>1, AsleepIsQuiet DEF Asleep
    <2> QED
      BY <2>2, AsleepIsQuiet DEF WakeInv, StopWoken
  <1>4. pc[t] = "parked" => lifecycle = "Running"
    BY <1>1, <1>3, AsleepIsQuiet DEF WakeInv, WorkerWoken, Inv, TypeOK, DataOK, Lifecycles
  <1>5. pc[t] = "parked" => Queued = {}
    BY <1>1, <1>4, AsleepIsQuiet DEF WakeInv, JobWoken, Resting
  <1>6. pc[t] = "join" => ~IsIdle
    BY <1>1, AsleepIsQuiet DEF WakeInv, JoinWoken
  <1>7. pc[t] \in {"start", "awaitEnd"} => ~IsTerminated
    BY <1>1, AsleepIsQuiet DEF WakeInv, EndWoken
  <1> QED
    BY <1>2, <1>4, <1>5, <1>6, <1>7

\* A live worker is one in its loop.
LEMMA LiveIsLooping ==
  ASSUME Inv, live > 0
  PROVE  \E w \in Workers : pc[w] \notin {"off", "exit"}
  <1>1. Looping # {}
    BY FS_EmptySet DEF Inv, TypeOK, CountersExact
  <1> QED
    BY <1>1 DEF Looping

\* The handshake, seen from a job in the queue of a running pool.
LEMMA WakeInvIsWaker == Inv /\ WakeInv => (lifecycle = "Running" => QueuedJobHasWaker)
  <1> SUFFICES ASSUME Inv, WakeInv, lifecycle = "Running", Queued # {}, live > 0,
                      \A w \in Workers : w \in waiting \/ pc[w] \in {"off", "exit"}
               PROVE  \E s \in Submitters : pc[s] \in {"wake", "token", "wakeNotify", "leave",
                                                       "departOpen", "departWaiters", "departNotify"}
    BY DEF QueuedJobHasWaker
  <1>1. PICK w \in Workers : pc[w] \notin {"off", "exit"}
    BY LiveIsLooping
  <1>2. w \in waiting /\ pc[w] = "parked"
    BY <1>1 DEF Inv, ParkedFit
  <1>3. Resting
    BY <1>2 DEF Asleep, Resting
  <1>4. PICK t \in Threads : pc[t] \in Deciding \cup {"wakeNotify"}
    BY <1>3 DEF WakeInv, JobWoken, Somebody
  <1>5. t \in Submitters
    BY <1>4 DEF Deciding, Inv, TypeOK, PcOK, Threads, WorkerPcs, CancellerPcs, ControllerPcs, BuilderPcs, StopPcs
  <1> QED
    BY <1>4, <1>5 DEF Deciding

\* A job in a running pool, or the promise of one, keeps a worker.
LEMMA WakeInvIsNotStranded == Inv /\ WakeInv => (lifecycle = "Running" => NoStrandedWork)
  <1> SUFFICES ASSUME Inv, WakeInv, lifecycle = "Running", Under({"reserved", "queued"}) # {}
               PROVE  \E w \in Workers : pc[w] \notin {"off", "exit"}
    BY DEF NoStrandedWork
  <1>1. live > 0
    BY DEF WakeInv, WorkerLeft, Owed
  <1> QED
    BY <1>1, LiveIsLooping

-----------------------------------------------------------------------------
\* The theorems.

\* A pool begins with no job, no worker and, at most, a builder at work.
LEMMA InitInv == Init => Inv
  <1> SUFFICES ASSUME Init
               PROVE  Inv
    OBVIOUS
  <1> USE Roles
  <1>1. \E built \in {"prestart", "ready"} :
           /\ pc = [t \in Threads |-> IF t \in Workers THEN "off" ELSE IF t \in Builders THEN built ELSE "start"]
    BY DEF Init
  <1>2. /\ DOMAIN pc = Threads /\ (\A w \in Workers : pc[w] = "off")
        /\ (\A b \in Builders : pc[b] \in {"prestart", "ready"})
        /\ \A t \in Threads \ (Workers \cup Builders) : pc[t] = "start"
    BY <1>1
  <1>3. /\ \A t \in Submitters : pc[t] = "start"
        /\ \A t \in Cancellers : pc[t] = "start"
        /\ \A t \in Controllers : pc[t] = "start"
    BY <1>2
  <1>4. DataOK
    BY NoJob, PoolAssumption DEF Init, DataOK, Lifecycles, JobStages, EntryStates, ValidConfig, ValidSizes
  <1>5. PcOK
    <2>1. \A t \in Threads : pc[t] \in {"off", "prestart", "ready", "start"}
      BY <1>2
    <2>2. pc \in [Threads -> {"off", "prestart", "ready", "start"}]
      BY <1>1, <2>1
    <2> QED
      BY <1>2, <1>3, <2>2 DEF PcOK, SubmitterPcs, WorkerPcs, CancellerPcs, ControllerPcs, BuilderPcs
  <1>6. CountersExact
    <2>1. Looping = {} /\ Exiting = {} /\ MarkedIdle = {} /\ Joining = {}
      BY <1>2, <1>3 DEF Looping, Exiting, MarkedIdle, Joining
    <2> QED
      BY <2>1, FS_EmptySet DEF CountersExact, Init
  <1>7. TypeOK
    BY <1>4, <1>5, <1>6 DEF TypeOK, Init
  <1>8. Own
    <2>1. queue = <<>> /\ (\A t \in Threads : work[t] = <<>>) /\ \A j \in Submitters : job[j] = "none" /\ entry[j] = "prepared"
      BY DEF Init
    <2>2. \A t \in Threads : pc[t] \in {"off", "prestart", "ready", "start"}
      BY <1>2
    <2>3. \A t \in Threads : HandFit(t)
      BY <2>1, <2>2 DEF HandFit
    <2>4. OneHolder
      BY <2>1, NoJob DEF OneHolder
    <2>5. QueueHeld
      BY <1>2 DEF QueueHeld
    <2>6. \A s \in Submitters : EntryFit(s)
      BY <1>3, <2>1 DEF EntryFit
    <2> QED
      BY <2>3, <2>4, <2>5, <2>6 DEF Own, HandsFit, EntryFits
  <1>9. TicketsFit
    BY <1>3 DEF TicketsFit, TicketFit, Promised
  <1>10. GateFirst /\ StopKnows
    <2>1. \A t \in Stops : pc[t] \in {"start", "prestart", "ready"}
      BY <1>2, <1>3 DEF Stops
    <2>2. \A t \in Controllers \cup Builders : pc[t] \in {"start", "prestart", "ready"}
      BY <1>2, <1>3
    <2>3. GateFirst
      BY <1>2, <2>1, <2>2 DEF GateFirst, Init
    <2>4. StopKnows
      BY <1>3, <2>1 DEF StopKnows
    <2> QED
      BY <2>3, <2>4
  <1>11. JoinerKnows /\ JoinSound
    BY <1>3 DEF JoinerKnows, JoinSound, Init
  <1>12. Told /\ GaveUp
    BY <1>2, <1>3 DEF Told, GaveUp, Init
  <1>13. RetrierKnows
    <2>1. \A s \in Retriers : pc[s] = "start" /\ job[s] = "none"
      BY <1>3, PoolAssumption DEF Init
    <2> QED
      BY <2>1 DEF RetrierKnows, Saturated
  <1>14. ParkedFit
    <2>1. \A t \in Threads : pc[t] \notin Holding
      <3>1. \A t \in Threads : pc[t] \in {"off", "prestart", "ready", "start"}
        BY <1>2
      <3> QED
        BY <3>1 DEF Holding
    <2>2. Untimed = {} /\ core \in Nat
      BY <1>4 DEF Untimed, Init, DataOK
    <2>3. Cardinality(Untimed) = 0
      BY <2>2, FS_EmptySet
    <2>4. waiting = {}
      BY DEF Init
    <2> QED
      BY <1>2, <2>1, <2>2, <2>3, <2>4 DEF ParkedFit
  <1> QED
    BY <1>7, <1>8, <1>9, <1>10, <1>11, <1>12, <1>13, <1>14 DEF Inv

\* Every step of every actor keeps it.
LEMMA NextInv == Inv /\ [Next]_vars => Inv'
  <1> SUFFICES ASSUME Inv, [Next]_vars
               PROVE  Inv'
    OBVIOUS
  <1>1. /\ TypeOK /\ Own /\ TicketsFit /\ GateFirst /\ StopKnows /\ JoinerKnows /\ JoinSound
        /\ Told /\ GaveUp /\ RetrierKnows /\ ParkedFit
    BY DEF Inv
  <1>2. TypeOK' /\ Own' /\ TicketsFit' /\ GateFirst'
    BY <1>1, TypeStep, OwnStep, TicketsStep, GateStep
  <1>3. StopKnows' /\ JoinerKnows' /\ JoinSound' /\ RetrierKnows'
    BY <1>1, StopStays, JoinStays, RetryStays
  <1>4. Told' /\ GaveUp' /\ ParkedFit'
    BY <1>1, <1>2, ToldStays, GaveUpStays, ParkedStays
  <1> QED
    BY <1>2, <1>3, <1>4 DEF Inv

(***************************************************************************)
(* The inductive invariant holds of every dynamic pool.                    *)
(***************************************************************************)
THEOREM InvHolds == Spec => []Inv
  BY InitInv, NextInv, PTL DEF Spec

(***************************************************************************)
(* live_workers, exiting_workers, the idle count and the count of join's   *)
(* callers equal the threads they stand for at every step, however         *)
(* retirement, refused spawns, shutdown and stop interleave: no            *)
(* checked_sub of the dynamic pool can fail.                               *)
(***************************************************************************)
THEOREM TypeCorrect == Spec => []TypeOK
  <1>1. Inv => TypeOK
    BY DEF Inv
  <1> QED
    BY <1>1, InvHolds, PTL

(***************************************************************************)
(* An accepted job has one owner at every step: the queue, the worker that *)
(* took it in try_take_queued_job, or the submission, the ticket or the    *)
(* stop that cancels it.                                                   *)
(***************************************************************************)
THEOREM JobsHaveOneOwner == Spec => []SoleOwner
  <1>1. Inv => SoleOwner
    BY OwnIsSole DEF Inv
  <1> QED
    BY <1>1, InvHolds, PTL

(***************************************************************************)
(* cancel_queued answers true only for a cancelled job, to one caller, and *)
(* a cancellation reserved during acceptance keeps the job from a worker.  *)
(***************************************************************************)
THEOREM TicketsTellTheTruth == Spec => []TicketTruth
  <1>1. Inv => TicketTruth
    <2> SUFFICES ASSUME Inv, NEW c \in Cancellers
                 PROVE  /\ pc[c] = "true" => /\ job[target[c]] = "cancelled"
                                             /\ \A d \in Cancellers \ {c} : ~(pc[d] = "true" /\ target[d] = target[c])
                        /\ At(c, "await") => job[target[c]] \notin {"queued", "running", "completed"}
      BY DEF TicketTruth
    <2>1. TicketFit(c) /\ \A e, d \in Promised : target[e] = target[d] => e = d
      BY DEF Inv, TicketsFit
    <2>2. pc[c] = "true" => \A d \in Cancellers \ {c} : ~(pc[d] = "true" /\ target[d] = target[c])
      BY <2>1 DEF Promised
    <2>3. CASE pc[c] = "await"
      <3>1. target[c] \in Submitters /\ entry[target[c]] \in {"requested", "cancelling", "cancelled", "rejected"}
        BY <2>1, <2>3, PoolAssumption DEF TicketFit
      <3>2. EntryFit(target[c])
        BY <3>1 DEF Inv, Own, EntryFits
      <3>3. job[target[c]] \notin {"queued", "running", "completed"}
        BY <3>1, <3>2 DEF EntryFit
      <3> QED
        BY <2>3, <3>3
    <2> QED
      BY <2>1, <2>2, <2>3 DEF TicketFit, At
  <1> QED
    BY <1>1, InvHolds, PTL

(***************************************************************************)
(* While a ticket's caller waits on an undecided entry, the submitter that *)
(* decides and notifies is still on its way, also after a panic in the     *)
(* acceptance callback.                                                    *)
(***************************************************************************)
THEOREM DecisionsCome == Spec => []AwaitedDecisionComes
  <1>1. Inv => AwaitedDecisionComes
    <2> SUFFICES ASSUME Inv, NEW c \in Cancellers, At(c, "await"),
                        entry[target[c]] \in {"accepting", "requested", "cancelling"}
                 PROVE  pc[target[c]] \in {"accepting", "released", "rejectEntry", "cancel", "settle",
                                           "settleNotify", "cancelEntry"}
      BY DEF AwaitedDecisionComes
    <2>1. target[c] \in Submitters
      BY PoolAssumption DEF At, Inv, TicketsFit, TicketFit
    <2>2. EntryFit(target[c])
      BY <2>1 DEF Inv, Own, EntryFits
    <2> QED
      BY <2>2 DEF EntryFit
  <1> QED
    BY <1>1, InvHolds, PTL

(***************************************************************************)
(* What is_terminated_locked, wait_for_termination and the termination     *)
(* channel say of the end of the pool is true and stays true.              *)
(***************************************************************************)
THEOREM TerminationIsTrue == Spec => []TerminationTrue
  <1>1. Inv => TerminationTrue
    BY TerminatedIsOver DEF Inv, TerminationTrue, Told
  <1> QED
    BY <1>1, InvHolds, PTL

(***************************************************************************)
(* When join returns, every submission under way when it was called is     *)
(* over, for good, unless its caller submits again.                        *)
(***************************************************************************)
THEOREM JoinIsSound == Spec => []JoinSound
  <1>1. Inv => JoinSound
    BY DEF Inv
  <1> QED
    BY <1>1, InvHolds, PTL

(***************************************************************************)
(* A build that returns its spawn error leaves a pool that is over and has *)
(* said so: stop and wait_for_termination in the error path suffice.       *)
(***************************************************************************)
THEOREM FailedBuildsAreClean == Spec => []FailedBuildIsClean
  <1>1. Inv => FailedBuildIsClean
    BY DEF Inv, Told, GaveUp, FailedBuildIsClean
  <1> QED
    BY <1>1, InvHolds, PTL

(***************************************************************************)
(* No capacity change is missed: whoever awaits the channel beside a free  *)
(* slot or a closed pool has a change to see, or notify_capacity_changed   *)
(* is the next thing some thread does.                                     *)
(***************************************************************************)
THEOREM RetriesAreTold == Spec => []RetryIsTold
  <1>1. Inv => RetryIsTold
    <2> SUFFICES ASSUME Inv, NEW s \in Retriers, At(s, "awaitCapacity"), s \notin unseen, HasRoom \/ ~open
                 PROVE  \E t \in Threads : pc[t] \in {"claimed", "settle", "released", "announce", "stopNow"}
      BY DEF RetryIsTold
    <2>1. s \in Submitters
      BY PoolAssumption
    <2>2. EntryFit(s)
      BY <2>1 DEF Inv, Own, EntryFits
    <2>3. Saturated(s)
      BY <2>2 DEF EntryFit, At, Saturated
    <2>4. Freed \/ Closing
      BY <2>3 DEF Inv, RetrierKnows
    <2> QED
      BY <2>4 DEF Freed, Closing
  <1> QED
    BY <1>1, InvHolds, PTL

(***************************************************************************)
(* The retirement policy is never applied stale: once configuration calls  *)
(* have returned, at most core_pool_size workers wait without a timeout.   *)
(***************************************************************************)
THEOREM SleepersFollowThePolicy == Spec => []UntimedWithinCore
  <1>1. Inv => UntimedWithinCore
    BY DEF Inv, ParkedFit, Untimed, UntimedWithinCore
  <1> QED
    BY <1>1, InvHolds, PTL

(***************************************************************************)
(* When stop has returned, nothing is published any more and no worker     *)
(* starts a job: the gate was closed, the submitters inside were awaited,  *)
(* and the drain emptied the queue.  "done" must mean that stop returned,  *)
(* so a stopping thread makes no other call.                               *)
(***************************************************************************)
THEOREM StopIsFinal ==
  ASSUME Stoppers \cap (Shutdowners \cup Joiners) = {}
  PROVE  Spec => StopFinal
  <1> DEFINE Final == (\E t \in Stoppers : pc[t] = "done")
                         => queue' = <<>> /\ \A j \in Submitters : job'[j] = "running" => job[j] = "running"
  <1>1. Inv /\ [Next]_vars => [Final]_vars
    <2> SUFFICES ASSUME Inv, [Next]_vars, NEW t \in Stoppers, pc[t] = "done"
                 PROVE  queue' = <<>> /\ \A j \in Submitters : job'[j] = "running" => job[j] = "running"
      OBVIOUS
    <2>1. TypeOK /\ Own /\ Emptied
      BY DEF Inv, StopKnows
    <2>2. queue' = <<>> /\ queue = <<>>
      BY <2>1, EmptiedStays DEF Emptied
    <2>3. \A j \in Submitters : job[j] # "queued"
      BY <2>1, <2>2, NoJob DEF Own, OneHolder
    <2> SUFFICES ASSUME NEW j \in Submitters, job'[j] = "running"
                 PROVE  job[j] = "running"
      BY <2>2
    <2>4. ASSUME NEW w \in Workers, WorkerStep(w) \/ KeepAliveElapses(w)
          PROVE  job[j] = "running"
      BY <2>1, <2>3, <2>4, WorkerFrame DEF Stays, Taken, Ends
    <2>5. ASSUME NEW s \in Submitters, SubmitterStep(s)
          PROVE  job[j] = "running"
      BY <2>1, <2>5, SubmitterFrame DEF Stays, Ends
    <2>6. ASSUME NEW c \in Cancellers, CancellerStep(c)
          PROVE  job[j] = "running"
      BY <2>1, <2>6, CancellerFrame DEF Stays, Taken, Ends
    <2>7. ASSUME NEW u \in Controllers \cup Builders, ControllerStep(u)
          PROVE  job[j] = "running"
      BY <2>1, <2>7, ControllerFrame DEF ControllerMoves, Stays, Taken, Ends
    <2>8. CASE UNCHANGED vars
      BY <2>8 DEF vars, jobs
    <2> QED
      BY <2>4, <2>5, <2>6, <2>7, <2>8, Steps
  <1> QED
    BY <1>1, InvHolds, PTL DEF Spec, StopFinal

\* The threads that have yet to notify, and the worker that stays, are there at every step.
THEOREM WakeInvHolds == Spec => []WakeInv
  BY InvHolds, InitWakes, WakeStep, PTL DEF Spec

(***************************************************************************)
(* No wake-up is lost, however many threads there are: submitters that     *)
(* leave without the monitor, workers that park, retire or give up their   *)
(* wait, tickets, stop, join and the waits for termination never all sleep *)
(* while one of them has a reason to wake, and the end of the pool is on   *)
(* its channel by then.                                                    *)
(***************************************************************************)
THEOREM NoWakeupIsLost == Spec => []NoLostWakeup
  BY WakeInvIsNoLostWakeup, InvHolds, WakeInvHolds, PTL

(***************************************************************************)
(* wake_one_idle_worker's unlocked reads of the idle count and of the      *)
(* pending tokens never leave a job in the queue of a running pool to      *)
(* sleeping workers.  In shutdown they do (the run token).                 *)
(***************************************************************************)
THEOREM QueuedJobsHaveAWaker == Spec => [](lifecycle = "Running" => QueuedJobHasWaker)
  BY WakeInvIsWaker, InvHolds, WakeInvHolds, PTL

(***************************************************************************)
(* A running pool that owes a job, reserved or queued, keeps a worker: the *)
(* reads of should_retire see the submission that the last worker would    *)
(* leave alone.  In shutdown it need not (the run strand).                 *)
(***************************************************************************)
THEOREM WorkIsNotStranded == Spec => [](lifecycle = "Running" => NoStrandedWork)
  BY WakeInvIsNotStranded, InvHolds, WakeInvHolds, PTL
-----------------------------------------------------------------------------
(***************************************************************************)
(* Cancellations.  A cancelled job is either a ticket's, whose caller is   *)
(* told of it, or stop's.  Stop's jobs are those of one drain: the first   *)
(* that finds jobs leaves the queue empty for good, and its count is in    *)
(* the report of the call that drained.                                    *)
(***************************************************************************)
Ticketed == {target[c] : c \in Promised}
StopsJobs == Under({"cancelling", "cancelled"}) \ Ticketed

\* A reserved cancellation has its ticket's caller.
RequestsFit == \A j \in Submitters : entry[j] \in {"requested", "cancelling", "cancelled"} => j \in Ticketed

\* Only stop and a failed build go through the steps of stop; before its drain a stop has no report.
BeforeDrain == {"start", "stopNow", "stop", "stopInflight", "stopWait", "drain"}
StopsFit == /\ \A t \in Controllers \ Stoppers : pc[t] \notin StopPcs
            /\ \A t \in Stoppers : pc[t] \in BeforeDrain => report[t] = 0

\* One report accounts for the jobs of stop.
ReportsFit ==
  /\ \A t \in Stoppers : report[t] # 0 => Emptied /\ report[t] = Cardinality(StopsJobs)
  /\ \A t, u \in Stoppers : report[t] # 0 /\ report[u] # 0 => t = u
  /\ (\A t \in Stoppers : report[t] = 0) => StopsJobs = {}

ReportInv == RequestsFit /\ StopsFit /\ ReportsFit

\* A thread that takes no step of a ticket's call stays where it is, with its ticket.
LEMMA TicketHolder ==
  ASSUME TypeOK, Own, [Next]_vars, NEW c \in Cancellers, ~CancellerStep(c)
  PROVE  pc'[c] = pc[c] /\ target'[c] = target[c]
  <1>1. CASE \A d \in Cancellers : ~CancellerStep(d)
    BY <1>1, TicketHolders
  <1>2. ASSUME NEW d \in Cancellers, CancellerStep(d)
        PROVE  pc'[c] = pc[c] /\ target'[c] = target[c]
    <2>1. c \in Threads \ {d} /\ c \in Cancellers \ {d}
      BY <1>2, Roles
    <2> QED
      BY <1>2, <2>1, CancellerFrame
  <1> QED
    BY <1>1, <1>2

\* A promise is withdrawn only when the acceptance failed ...
LEMMA PromiseStays ==
  ASSUME TypeOK, Own, TicketsFit, [Next]_vars, NEW j \in Ticketed
  PROVE  j \in Ticketed' \/ entry[j] = "rejected"
  <1> PICK c \in Promised : target[c] = j
    BY DEF Ticketed
  <1>0. c \in Cancellers /\ pc[c] \in {"await", "cancel", "settle", "settleNotify", "true"} /\ TicketFit(c)
    BY DEF Promised, TicketsFit
  <1>1. ASSUME pc'[c] \in {"await", "cancel", "settle", "settleNotify", "true"}, target'[c] = target[c]
        PROVE  j \in Ticketed'
    BY <1>0, <1>1 DEF Ticketed, Promised
  <1>2. CASE ~CancellerStep(c)
    BY <1>0, <1>1, <1>2, TicketHolder
  <1>3. CASE CancellerStep(c) /\ pc[c] = "await"
    <2>1. AwaitDecision(c)
      BY <1>3 DEF CancellerStep, AskTicket, Calls, Withdraw, CancelCallback, Settle, NotifyUnderLock
    <2>2. c \in DOMAIN pc
      BY <1>0, Roles DEF TypeOK, PcOK
    <2>3. /\ target' = target /\ entry[j] \notin {"accepting", "requested", "cancelling"}
          /\ entry[j] = "cancelled" => pc'[c] = "true"
      BY <2>1, <2>2 DEF AwaitDecision
    <2>4. entry[j] \in {"requested", "cancelling", "cancelled", "rejected"}
      BY <1>0, <1>3 DEF TicketFit
    <2> QED
      BY <1>1, <2>3, <2>4
  <1>4. CASE CancellerStep(c) /\ pc[c] # "await"
    <2>1. target' = target /\ pc'[c] \in {"settle", "settleNotify", "true"}
      BY <1>0, <1>4, CancellerFrame
    <2> QED
      BY <1>1, <2>1
  <1> QED
    BY <1>2, <1>3, <1>4

\* ... and given while the job is being accepted or is in the queue.
LEMMA PromiseGiven ==
  ASSUME TypeOK, Own, TicketsFit, [Next]_vars, NEW j \in Ticketed', j \notin Ticketed
  PROVE  entry[j] \in {"accepting", "queued"}
  <1> PICK c \in Promised' : target'[c] = j
    BY DEF Ticketed
  <1>0. c \in Cancellers /\ pc'[c] \in {"await", "cancel", "settle", "settleNotify", "true"}
    BY DEF Promised
  <1>1. ~(pc[c] \in {"await", "cancel", "settle", "settleNotify", "true"} /\ target[c] = j)
    BY <1>0 DEF Ticketed, Promised
  <1>2. CancellerStep(c)
    BY <1>0, <1>1, TicketHolder
  <1> QED
    BY <1>0, <1>1, <1>2, CancellerFrame

\* A cancellation is reserved by a ticket's caller that then waits for it.
LEMMA RequestsStay ==
  ASSUME TypeOK, Own, TicketsFit, RequestsFit, [Next]_vars
  PROVE  RequestsFit'
  <1> USE Roles
  <1> SUFFICES ASSUME NEW j \in Submitters, entry'[j] \in {"requested", "cancelling", "cancelled"}
               PROVE  j \in Ticketed'
    BY DEF RequestsFit
  <1>0. EntryFit(j)
    BY DEF Own, EntryFits
  <1>1. CASE entry[j] \in {"requested", "cancelling", "cancelled"}
    BY <1>1, PromiseStays DEF RequestsFit
  <1>2. CASE entry[j] \notin {"requested", "cancelling", "cancelled"}
    <2>1. entry'[j] # entry[j]
      BY <1>2
    <2>2. ~SubmitterStep(j)
      BY <1>0, <1>2, <2>1, SubmitterFrame DEF EntryFit, Ends
    <2>3. ASSUME NEW s \in Submitters, SubmitterStep(s)
          PROVE  FALSE
      BY <2>1, <2>2, <2>3, SubmitterFrame DEF Stays
    <2>4. ASSUME NEW w \in Workers, WorkerStep(w) \/ KeepAliveElapses(w)
          PROVE  FALSE
      BY <2>1, <2>4, WorkerFrame DEF Stays, Taken, Ends
    <2>5. ASSUME NEW t \in Controllers \cup Builders, ControllerStep(t)
          PROVE  FALSE
      BY <2>1, <2>5, ControllerFrame DEF ControllerMoves, Stays, Taken, Ends
    <2>6. ASSUME NEW c \in Cancellers, CancellerStep(c)
          PROVE  j \in Ticketed'
      <3>0. entry[j] = "accepting" /\ entry'[j] = "requested"
        BY <2>1, <2>6, CancellerFrame DEF Stays, Taken, Ends
      <3>1. DOMAIN entry = Submitters /\ DOMAIN target = Cancellers /\ c \in DOMAIN pc
        BY DEF TypeOK, DataOK, PcOK
      <3>2. AskTicket(c)
        <4>1. ~Withdraw(c)
          BY <3>0, <3>1 DEF Withdraw
        <4>2. ~(AwaitDecision(c) \/ CancelCallback(c) \/ Settle(c) \/ NotifyUnderLock(c))
          BY <2>1 DEF AwaitDecision, CancelCallback, Settle, NotifyUnderLock
        <4> QED
          BY <2>6, <4>1, <4>2 DEF CancellerStep
      <3>3. target'[c] = j /\ pc'[c] = "await"
        BY <2>1, <3>0, <3>1, <3>2 DEF AskTicket
      <3> QED
        BY <3>3 DEF Ticketed, Promised
    <2>7. CASE UNCHANGED vars
      BY <2>1, <2>7 DEF vars
    <2> QED
      BY <2>3, <2>4, <2>5, <2>6, <2>7, Steps
  <1> QED
    BY <1>1, <1>2

\* Of the steps of stop and the other calls, only a drain takes jobs and writes a report.
LEMMA OnlyDrains ==
  ASSUME TypeOK, Own, NEW t \in Controllers \cup Builders, ControllerStep(t), ~(t \in Stops /\ Drain(t))
  PROVE  report' = report /\ \A j \in Submitters : Stays(j) \/ Ends(j, "cancelling", "cancelled")
  <1> USE Roles
  <1>0. t \in Threads \ Workers
    OBVIOUS
  <1>1. CASE t \in Stops /\ CancelCallback(t)
    BY <1>0, <1>1, CancelMoves
  <1>2. CASE t \in Stops /\ StopStep(t) /\ ~CancelCallback(t)
    BY <1>2 DEF StopStep, CloseAdmission, SetStopNow, BeginStop, AwaitSubmitters, ResumeStop, Settle, NotifyUnderLock, Stays
  <1>3. CASE ShutdownStep(t) \/ JoinStep(t)
    BY <1>3 DEF ShutdownStep, CloseAdmission, AnnounceShutdown, BeginShutdown, JoinStep, BeginJoin, Stays
  <1>4. CASE WaiterStep(t) \/ TimeoutElapses(t) \/ AwaitEnd(t)
    BY <1>4 DEF WaiterStep, AwaitTermination, SubscribeTermination, WatchTermination, TimeoutElapses, AwaitEnd, Stays
  <1>5. CASE TuneStep(t) \/ PrestartAll(t)
    BY <1>5 DEF TuneStep, Tune, NotifyTuned, PrestartAll, Stays
  <1> QED
    BY <1>1, <1>2, <1>3, <1>4, <1>5 DEF ControllerStep

\* A drain of an empty queue changes no job.
LEMMA EmptyDrain ==
  ASSUME TypeOK, NEW t \in Stops, Drain(t), queue = <<>>
  PROVE  \A j \in Submitters : Stays(j)
  <1>1. ToSet(queue) = {}
    BY NoJob
  <1> QED
    BY <1>1 DEF Drain, Stays

\* Only a drain that finds jobs adds to the jobs of stop.
LEMMA StopsJobsStay ==
  ASSUME TypeOK, Own, TicketsFit, RequestsFit, [Next]_vars, \A t \in Stops : Drain(t) => queue = <<>>
  PROVE  StopsJobs' = StopsJobs
  <1> USE Roles
  <1> SUFFICES ASSUME NEW j \in Submitters
               PROVE  j \in StopsJobs' <=> j \in StopsJobs
    BY DEF StopsJobs, Under
  <1>0. EntryFit(j)
    BY DEF Own, EntryFits
  <1>1. ASSUME NEW t \in Controllers \cup Builders, ControllerStep(t)
        PROVE  Stays(j) \/ Ends(j, "cancelling", "cancelled")
    BY <1>1, OnlyDrains, EmptyDrain
  <1>2. ASSUME NEW c \in Cancellers, CancellerStep(c), Taken(j, "cancelling")
        PROVE  j \in Ticketed'
    <2>1. DOMAIN job = Submitters /\ c \in DOMAIN pc
      BY DEF TypeOK, DataOK, PcOK
    <2>2. Withdraw(c)
      <3>1. ~CancelCallback(c)
        BY <1>2, CancelMoves DEF Taken, Ends, Stays
      <3> QED
        BY <1>2, <3>1 DEF CancellerStep, AskTicket, AwaitDecision, Settle, NotifyUnderLock, Taken
    <2>3. target' = target /\ target[c] = j /\ pc'[c] = "cancel"
      BY <1>2, <2>1, <2>2 DEF Withdraw, Taken
    <2> QED
      BY <2>3 DEF Ticketed, Promised
  <1>3. CASE job[j] \in {"cancelling", "cancelled"}
    <2>1. entry[j] \notin {"accepting", "queued", "rejected"} /\ pc[j] \notin {"start", "retry", "reserve", "accepting"}
      BY <1>0, <1>3 DEF EntryFit
    <2>2. j \in Ticketed' <=> j \in Ticketed
      BY <2>1, PromiseStays, PromiseGiven
    <2>3. job'[j] \in {"cancelling", "cancelled"}
      <3>1. CASE SubmitterStep(j)
        BY <1>3, <2>1, <3>1, SubmitterFrame DEF Ends
      <3>2. CASE ~SubmitterStep(j)
        <4>1. ASSUME NEW s \in Submitters, SubmitterStep(s)
              PROVE  job'[j] = job[j]
          BY <3>2, <4>1, SubmitterFrame DEF Stays
        <4>2. ASSUME NEW w \in Workers, WorkerStep(w) \/ KeepAliveElapses(w)
              PROVE  job'[j] = job[j]
          BY <1>3, <4>2, WorkerFrame DEF Stays, Taken, Ends
        <4>3. ASSUME NEW c \in Cancellers, CancellerStep(c)
              PROVE  job'[j] \in {job[j], "cancelled"}
          BY <1>3, <4>3, CancellerFrame DEF Stays, Taken, Ends
        <4>4. ASSUME NEW t \in Controllers \cup Builders, ControllerStep(t)
              PROVE  job'[j] \in {job[j], "cancelled"}
          BY <1>1, <4>4 DEF Stays, Ends
        <4>5. CASE UNCHANGED vars
          BY <1>3, <4>5 DEF vars
        <4> QED
          BY <1>3, <4>1, <4>2, <4>3, <4>4, <4>5, Steps
      <3> QED
        BY <3>1, <3>2
    <2> QED
      BY <1>3, <2>2, <2>3 DEF StopsJobs, Under
  <1>4. CASE job[j] \notin {"cancelling", "cancelled"}
    <2> SUFFICES ASSUME job'[j] \in {"cancelling", "cancelled"}
                 PROVE  j \in Ticketed'
      BY <1>4 DEF StopsJobs, Under
    <2>1. CASE SubmitterStep(j)
      <3>1. entry'[j] = "cancelling"
        BY <1>4, <2>1, SubmitterFrame DEF Ends
      <3> QED
        BY <3>1, RequestsStay DEF RequestsFit
    <2>2. CASE ~SubmitterStep(j)
      <3>1. ASSUME NEW s \in Submitters, SubmitterStep(s)
            PROVE  FALSE
        BY <1>4, <2>2, <3>1, SubmitterFrame DEF Stays
      <3>2. ASSUME NEW w \in Workers, WorkerStep(w) \/ KeepAliveElapses(w)
            PROVE  FALSE
        BY <1>4, <3>2, WorkerFrame DEF Stays, Taken, Ends
      <3>3. ASSUME NEW c \in Cancellers, CancellerStep(c)
            PROVE  j \in Ticketed'
        BY <1>2, <1>4, <3>3, CancellerFrame DEF Stays, Ends
      <3>4. ASSUME NEW t \in Controllers \cup Builders, ControllerStep(t)
            PROVE  FALSE
        BY <1>1, <1>4, <3>4 DEF Stays, Ends
      <3>5. CASE UNCHANGED vars
        BY <1>4, <3>5 DEF vars
      <3> QED
        BY <3>1, <3>2, <3>3, <3>4, <3>5, Steps
    <2> QED
      BY <2>1, <2>2
  <1> QED
    BY <1>3, <1>4

\* Who may stop, and what a stop has reported before it drained.
LEMMA StopsStay ==
  ASSUME TypeOK, Own, StopsFit, [Next]_vars
  PROVE  StopsFit'
  <1> USE Roles DEF BeforeDrain
  <1>0. Stoppers \subseteq Stops /\ Controllers \cap Stops = Stoppers
    BY DEF Stops
  <1>1. ASSUME NEW t \in Controllers \ Stoppers, ControllerStep(t)
        PROVE  pc'[t] \notin StopPcs
    <2>1. t \in DOMAIN pc /\ t \notin Stops /\ pc[t] \notin StopPcs
      BY <1>0 DEF TypeOK, PcOK, StopsFit
    <2>2. CASE ShutdownStep(t) \/ JoinStep(t)
      BY <2>1, <2>2 DEF ShutdownStep, CloseAdmission, AnnounceShutdown, BeginShutdown, JoinStep, BeginJoin, Join, Wait, StopPcs
    <2>3. CASE WaiterStep(t) \/ TimeoutElapses(t)
      BY <2>1, <2>3 DEF WaiterStep, AwaitTermination, SubscribeTermination, WatchTermination, TimeoutElapses, Wait, StopPcs
    <2>4. CASE t \in Tuners /\ Tune(t)
      <3>1. pc'[t] \in {"tuned", "done"}
        BY <2>4, TuneMoves
      <3> QED
        BY <3>1 DEF StopPcs
    <2>5. CASE NotifyTuned(t)
      BY <2>1, <2>5 DEF NotifyTuned, StopPcs
    <2> QED
      BY <1>1, <2>1, <2>2, <2>3, <2>4, <2>5 DEF ControllerStep, TuneStep
  <1>2. ASSUME NEW t \in Stoppers, ControllerStep(t), pc'[t] \in BeforeDrain
        PROVE  pc[t] \in BeforeDrain /\ report' = report
    <2>1. t \in DOMAIN pc /\ t \notin Submitters /\ t \notin Workers /\ t \notin Cancellers /\ t \notin Waiters \cup Tuners
          /\ t \notin Builders /\ pc[t] # "buildFailed"
      BY DEF TypeOK, PcOK, ControllerPcs, StopPcs
    <2>2. ~Drain(t)
      BY <1>2, <2>1 DEF Drain
    <2>3. report' = report
      BY <1>2, <2>2, OnlyDrains
    <2>4. CASE ShutdownStep(t) \/ JoinStep(t)
      BY <1>2, <2>1, <2>4 DEF ShutdownStep, CloseAdmission, AnnounceShutdown, BeginShutdown, JoinStep, BeginJoin, Join, Wait
    <2>5. CASE StopStep(t)
      <3>1. CASE CloseAdmission(t, "stopNow") \/ SetStopNow(t) \/ BeginStop(t) \/ AwaitSubmitters(t) \/ ResumeStop(t)
        BY <2>1, <3>1 DEF CloseAdmission, Calls, SetStopNow, BeginStop, AwaitSubmitters, ResumeStop
      <3>2. CASE CancelCallback(t) \/ Settle(t) \/ NotifyUnderLock(t)
        BY <1>2, <2>1, <3>2 DEF CancelCallback, Settle, NotifyUnderLock, AfterSettle, AfterSubmit
      <3> QED
        BY <2>2, <2>5, <3>1, <3>2 DEF StopStep
    <2> QED
      BY <1>2, <2>1, <2>3, <2>4, <2>5 DEF ControllerStep
  <1>3. ASSUME NEW u \in Controllers \cup Builders, ControllerStep(u)
        PROVE  /\ \A t \in Controllers \ {u} : pc'[t] = pc[t]
               /\ \A t \in Stoppers \ {u} : report'[t] = report[t]
    <2>1. \A t \in Controllers \ {u} : pc'[t] = pc[t]
      BY <1>3, ControllerFrame DEF ControllerMoves
    <2>2. \A t \in Stoppers \ {u} : report'[t] = report[t]
      <3>1. DOMAIN report = Stoppers \cup Builders
        BY DEF TypeOK, DataOK
      <3>2. CASE Drain(u)
        BY <3>1, <3>2 DEF Drain
      <3> QED
        BY <1>3, <3>2, OnlyDrains
    <2> QED
      BY <2>1, <2>2
  <1>4. ASSUME \A u \in Controllers \cup Builders : ~ControllerStep(u)
        PROVE  (\A t \in Controllers : pc'[t] = pc[t]) /\ report' = report
    <2>1. CASE UNCHANGED vars
      BY <2>1 DEF vars
    <2> QED
      BY <1>4, <2>1, Steps, SubmitterFrame, WorkerFrame, CancellerFrame
  <1>5. ASSUME NEW t \in Controllers
        PROVE  ControllerStep(t) \/ (pc'[t] = pc[t] /\ (t \in Stoppers => report'[t] = report[t]))
    BY <1>3, <1>4
  <1> QED
    BY <1>1, <1>2, <1>5 DEF StopsFit

\* Nothing was submitted to a pool whose build failed.
LEMMA BuilderDrainsNothing ==
  ASSUME TypeOK, Own, GateFirst, NEW b \in Builders, pc[b] # "ready"
  PROVE  queue = <<>> /\ \A j \in Submitters : job[j] = "none"
  <1>1. \A j \in Submitters : pc[j] = "start"
    BY Roles DEF GateFirst
  <1>2. \A j \in Submitters : job[j] = "none"
    BY <1>1 DEF Own, EntryFits, EntryFit
  <1>3. queue \in Seq(Submitters) /\ ToSet(queue) \subseteq Submitters
    BY ToSetType DEF TypeOK, DataOK
  <1>4. ToSet(queue) = {}
    BY <1>2, <1>3 DEF Own, OneHolder
  <1> QED
    BY <1>2, <1>3, <1>4, NoJob

\* The one drain that finds jobs reports them all, and stop has no others.
LEMMA DrainReports ==
  ASSUME TypeOK, Own, TicketsFit, ReportsFit, StopKnows', NEW t \in Stoppers, Drain(t), queue # <<>>
  PROVE  ReportsFit'
  <1> USE Roles
  <1>0. /\ t \in DOMAIN pc /\ DOMAIN report = Stoppers \cup Builders /\ queue \in Seq(Submitters)
        /\ IsInjective(queue) /\ t \in Stops
    BY DEF TypeOK, PcOK, DataOK, Own, OneHolder, Stops
  <1>1. \A u \in Stoppers : report[u] = 0
    BY DEF ReportsFit, Emptied
  <1>2. StopsJobs = {}
    BY <1>1 DEF ReportsFit
  <1>3. Promised' = Promised /\ target' = target
    <2>1. \A c \in Cancellers : pc'[c] = pc[c]
      BY <1>0 DEF Drain
    <2> QED
      BY <2>1 DEF Promised, Drain
  <1>4. Ticketed' = Ticketed
    BY <1>3 DEF Ticketed
  <1>5. ASSUME NEW j \in Submitters, j \in ToSet(queue)
        PROVE  j \notin Ticketed /\ job'[j] = "cancelling"
    <2>1. job[j] = "queued" /\ EntryFit(j)
      BY <1>5 DEF Own, OneHolder, EntryFits
    <2>2. entry[j] = "queued"
      BY <2>1 DEF EntryFit
    <2>3. j \notin Ticketed
      BY <2>2 DEF Ticketed, Promised, TicketsFit, TicketFit
    <2> QED
      BY <1>5, <2>3 DEF Drain
  <1>6. \A j \in Submitters : j \notin ToSet(queue) => job'[j] = job[j]
    BY DEF Drain
  <1>7. StopsJobs' = ToSet(queue)
    <2>1. ToSet(queue) \subseteq Submitters
      BY <1>0, ToSetType
    <2> QED
      BY <1>2, <1>4, <1>5, <1>6, <2>1 DEF StopsJobs, Under
  <1>8. report'[t] = Len(queue) /\ \A u \in Stoppers \ {t} : report'[u] = 0
    BY <1>0, <1>1 DEF Drain, Drained
  <1>9. Cardinality(StopsJobs') = Len(queue) /\ Len(queue) # 0
    BY <1>0, <1>7, DistinctLength
  <1>10. Emptied'
    <2>1. pc'[t] = "cancel"
      BY <1>0 DEF Drain
    <2> QED
      BY <1>0, <2>1 DEF StopKnows
  <1> QED
    BY <1>8, <1>9, <1>10 DEF ReportsFit

\* Every step keeps the reports right.
LEMMA ReportStep ==
  ASSUME Inv, ReportInv, [Next]_vars
  PROVE  ReportInv'
  <1> USE Roles
  <1>0. /\ TypeOK /\ Own /\ TicketsFit /\ GateFirst /\ StopKnows
        /\ RequestsFit /\ StopsFit /\ ReportsFit
    BY DEF Inv, ReportInv
  <1>1. RequestsFit' /\ StopsFit' /\ StopKnows'
    BY <1>0, RequestsStay, StopsStay, StopStays
  <1>2. ASSUME NEW t \in Builders, Drain(t)
        PROVE  queue = <<>>
    BY <1>0, <1>2, BuilderDrainsNothing DEF Drain
  <1>3. CASE \E t \in Stoppers : Drain(t) /\ queue # <<>>
    BY <1>0, <1>1, <1>3, DrainReports DEF ReportInv
  <1>4. CASE \A t \in Stoppers : Drain(t) => queue = <<>>
    <2>1. StopsJobs' = StopsJobs
      BY <1>0, <1>2, <1>4, StopsJobsStay DEF Stops
    <2>2. \A u \in Stoppers : report'[u] = report[u]
      <3>0. DOMAIN report = Stoppers \cup Builders
        BY <1>0 DEF TypeOK, DataOK
      <3>1. ASSUME NEW t \in Stops, Drain(t)
            PROVE  \A u \in Stoppers : report'[u] = report[u]
        <4>1. queue = <<>> /\ t \in Stoppers \cup Builders
          BY <1>2, <1>4, <3>1 DEF Stops
        <4>2. t \in Stoppers => report[t] = 0
          BY <1>0, <3>1 DEF StopsFit, BeforeDrain, Drain
        <4>3. report' = [report EXCEPT ![t] = 0]
          BY <3>1, <4>1 DEF Drain, Drained
        <4> QED
          BY <3>0, <4>1, <4>2, <4>3
      <3>2. ASSUME NEW t \in Controllers \cup Builders, ControllerStep(t), ~(t \in Stops /\ Drain(t))
            PROVE  report' = report
        BY <1>0, <3>2, OnlyDrains
      <3>3. CASE UNCHANGED vars
        BY <3>3 DEF vars
      <3> QED
        BY <1>0, <3>1, <3>2, <3>3, Steps, SubmitterFrame, WorkerFrame, CancellerFrame
    <2>3. Emptied => Emptied'
      BY <1>0, EmptiedStays
    <2>4. ReportsFit'
      BY <1>0, <2>1, <2>2, <2>3 DEF ReportsFit
    <2> QED
      BY <1>1, <2>4 DEF ReportInv
  <1> QED
    BY <1>1, <1>3, <1>4 DEF ReportInv

\* Nothing is cancelled at first.
LEMMA InitReports == Init => ReportInv
  <1> USE Roles
  <1> SUFFICES ASSUME Init
               PROVE  ReportInv
    OBVIOUS
  <1>1. \A t \in Threads \ (Workers \cup Builders) : pc[t] = "start"
    BY DEF Init
  <1>2. \A j \in Submitters : job[j] = "none" /\ entry[j] = "prepared"
    BY DEF Init
  <1>3. \A t \in Stoppers : report[t] = 0
    BY DEF Init
  <1>4. RequestsFit
    BY <1>2 DEF RequestsFit
  <1>5. StopsFit
    BY <1>1, <1>3 DEF StopsFit, StopPcs
  <1>6. StopsJobs = {}
    BY <1>2 DEF StopsJobs, Under
  <1> QED
    BY <1>3, <1>4, <1>5, <1>6 DEF ReportInv, ReportsFit

\* When the tickets and stop have answered, no cancellation is under way ...
LEMMA NoneCancelling ==
  ASSUME Inv, ReportInv, \A t \in Cancellers \cup Stoppers : pc[t] \in {"start", "true", "false", "done"},
         NEW j \in Submitters
  PROVE  job[j] # "cancelling"
  <1> USE Roles
  <1> SUFFICES ASSUME job[j] = "cancelling"
               PROVE  FALSE
    OBVIOUS
  <1>0. TypeOK /\ Own /\ TicketsFit /\ GateFirst /\ RequestsFit /\ StopsFit /\ EntryFit(j)
    BY DEF Inv, ReportInv, Own, EntryFits
  <1> PICK t \in Threads : j \in ToSet(work[t])
    BY <1>0 DEF Own, OneHolder
  <1>1. work[t] # <<>> /\ HandFit(t) /\ t \notin Workers
    BY <1>0, NoJob DEF Own, OneHolder, HandsFit
  <1>2. CASE t \in Submitters
    <2>1. pc[t] = "cancel" /\ work[t] = <<t>>
      BY <1>1, <1>2 DEF HandFit
    <2>2. t = j
      BY <1>2, <2>1, OneJob
    <2>3. entry[j] = "cancelling"
      BY <1>0, <2>1, <2>2 DEF EntryFit
    <2>4. PICK c \in Promised : target[c] = j
      BY <1>0, <2>3 DEF RequestsFit, Ticketed
    <2>5. c \in Cancellers /\ pc[c] = "true"
      BY DEF Promised
    <2> QED
      BY <1>0, <2>4, <2>5 DEF TicketsFit, TicketFit
  <1>3. CASE t \in Cancellers \cup Stoppers
    BY <1>1, <1>3 DEF HandFit
  <1>4. CASE t \in Controllers \ Stoppers
    BY <1>0, <1>1, <1>4 DEF StopsFit, StopPcs, HandFit
  <1>5. CASE t \in Builders
    <2>1. pc[t] # "ready"
      BY <1>1, <1>5 DEF HandFit
    <2> QED
      BY <1>0, <1>5, <2>1, BuilderDrainsNothing
  <1> QED
    BY <1>1, <1>2, <1>3, <1>4, <1>5 DEF Threads

\* ... and the reports count the jobs of stop.
LEMMA ReportedJobs ==
  ASSUME TypeOK, ReportsFit
  PROVE  Cardinality(Reported) = Cardinality(StopsJobs)
  <1>0. \A t \in Stoppers : report[t] \in Nat
    BY DEF TypeOK, DataOK
  <1>1. CASE \A t \in Stoppers : report[t] = 0
    <2>1. \A t \in Stoppers : {t} \X (1 .. report[t]) = {}
      BY <1>1
    <2>2. Reported = {} /\ StopsJobs = {}
      BY <1>1, <2>1 DEF Reported, ReportsFit
    <2> QED
      BY <2>2
  <1>2. ASSUME NEW t \in Stoppers, report[t] # 0
        PROVE  Cardinality(Reported) = Cardinality(StopsJobs)
    <2>1. \A u \in Stoppers \ {t} : report[u] = 0
      BY <1>2 DEF ReportsFit
    <2>2. \A u \in Stoppers \ {t} : {u} \X (1 .. report[u]) = {}
      BY <2>1
    <2>3. Reported = {t} \X (1 .. report[t])
      BY <2>2 DEF Reported
    <2>4. Cardinality(Reported) = report[t]
      BY <1>0, <2>3, CountCardinality
    <2> QED
      BY <1>2, <2>4 DEF ReportsFit
  <1> QED
    BY <1>1, <1>2

\* A cancelled job is the one of a ticket that was told true, or one of stop's.
LEMMA ReportsAddUp ==
  ASSUME Inv, ReportInv
  PROVE  CancellationsReportedOnce
  <1> USE Roles
  <1> SUFFICES ASSUME \A t \in Cancellers \cup Stoppers : pc[t] \in {"start", "true", "false", "done"}
               PROVE  Cardinality(Under({"cancelled"}))
                        = Cardinality({c \in Cancellers : pc[c] = "true"}) + Cardinality(Reported)
    BY DEF CancellationsReportedOnce
  <1> DEFINE Winners == {c \in Cancellers : pc[c] = "true"}
  <1>0. TypeOK /\ TicketsFit /\ ReportsFit /\ IsFiniteSet(Threads)
    BY RolesAssumption DEF Inv, ReportInv
  <1>1. Promised = Winners
    BY DEF Promised
  <1>2. Ticketed = {target[c] : c \in Winners}
    BY <1>1 DEF Ticketed
  <1>3. IsFiniteSet(Winners)
    <2>1. Winners \in SUBSET Threads
      OBVIOUS
    <2> QED
      BY <1>0, <2>1, FS_Subset
  <1>4. \A a, b \in Winners : target[a] = target[b] => a = b
    BY <1>0, <1>1 DEF TicketsFit
  <1>5. IsFiniteSet(Ticketed) /\ Cardinality(Ticketed) = Cardinality(Winners)
    <2> HIDE DEF Winners
    <2> QED
      BY <1>2, <1>3, <1>4, ImageCardinality
  <1>6. Ticketed \subseteq Under({"cancelled"})
    BY <1>0, <1>2, PoolAssumption DEF TicketsFit, TicketFit, Under
  <1>7. Under({"cancelled"}) = Ticketed \cup StopsJobs /\ Ticketed \cap StopsJobs = {}
    BY <1>6, NoneCancelling DEF StopsJobs, Under
  <1>8. IsFiniteSet(StopsJobs)
    <2>1. StopsJobs \in SUBSET Threads
      BY DEF StopsJobs, Under
    <2> QED
      BY <1>0, <2>1, FS_Subset
  <1>9. Cardinality(Under({"cancelled"})) = Cardinality(Ticketed) + Cardinality(StopsJobs)
    <2>1. Cardinality(Ticketed) \in Nat /\ Cardinality(StopsJobs) \in Nat /\ Cardinality(Ticketed \cap StopsJobs) = 0
      BY <1>5, <1>7, <1>8, FS_CardinalityType, FS_EmptySet
    <2>2. Cardinality(Under({"cancelled"})) = Cardinality(Ticketed) + Cardinality(StopsJobs) - Cardinality(Ticketed \cap StopsJobs)
      BY <1>5, <1>7, <1>8, FS_Union
    <2> QED
      BY <2>1, <2>2
  <1> QED
    BY <1>0, <1>5, <1>9, ReportedJobs

\* One report accounts for the jobs of stop at every step.
THEOREM ReportInvHolds == Spec => []ReportInv
  BY InvHolds, InitReports, ReportStep, PTL DEF Spec

(***************************************************************************)
(* No cancellation is reported twice and none is missed: for any number of *)
(* tickets and of stops that race for the queue, the callers that          *)
(* cancel_queued told true and the counts of drain_visible_queued_jobs add *)
(* up to the jobs that were cancelled.                                     *)
(***************************************************************************)
THEOREM CancellationsAreReportedOnce == Spec => []CancellationsReportedOnce
  BY ReportsAddUp, InvHolds, ReportInvHolds, PTL
=============================================================================
