--------------------------- MODULE PoolJobs_proofs ---------------------------
(***************************************************************************)
(* What user code can do to the pools, proved for any number of jobs,      *)
(* workers and tickets: the invariants of PoolJobs.                        *)
(*                                                                         *)
(* A thread's code is one of a few sequences, named here after their first *)
(* instruction.  The inductive invariant ties each of them to the stage,   *)
(* the callbacks and the handle of the job it is executed for.             *)
(***************************************************************************)
EXTENDS PoolJobs, SequenceTheorems, FiniteSetTheorems, TLAPS

-----------------------------------------------------------------------------
\* Where the code of a thread can stop.

\* Submitters
AtRefuse     == <<"drop", "caught">>
AtReserve    == <<"reserve">>
AtDiscard    == <<"drop", "caught", "leave">>
AtAccept     == <<"accept", "caught", "enqueue", "leave">>
AtSlotAccept == <<"slotAccept", "enqueue", "leave">>
AtEnqueue    == <<"enqueue", "leave">>
AtOwnCancel  == <<"cancel", "caught", "drop", "caught", "finish", "leave">>
AtOwnDrop    == <<"drop", "caught", "finish", "leave">>
AtOwnFinish  == <<"finish", "leave">>
AtLeave      == <<"leave">>

\* Workers outside jobs
AtStartHook  == <<"before_worker_start", "caught">>
AtStopHook   == <<"after_worker_stop", "caught", "exit">>
AtExit       == <<"exit">>
AtInflight   == <<"inflight">>

\* Workers that run a job, a callable or another
AtHookOfCallable == <<"before_task", "caught", "try", "slotStart", "try", "run", "caught", "slotFinish", "drop",
                      "caught", "try", "after_task", "caught", "finish">>
AtSlotStart   == <<"slotStart", "try", "run", "caught", "slotFinish", "drop", "caught", "try", "after_task",
                   "caught", "finish">>
AtRunCallable == <<"run", "caught", "slotFinish", "drop", "caught", "try", "after_task", "caught", "finish">>
AtSlotFinish  == <<"slotFinish", "drop", "caught", "try", "after_task", "caught", "finish">>
AtHook        == <<"before_task", "caught", "try", "try", "run", "caught", "drop", "caught", "try", "after_task",
                   "caught", "finish">>
AtRun         == <<"run", "caught", "drop", "caught", "try", "after_task", "caught", "finish">>
AtDrop        == <<"drop", "caught", "try", "after_task", "caught", "finish">>
AtAfterHook   == <<"after_task", "caught", "finish">>
AtFinish      == <<"finish">>

\* Whoever cancels a queued job
AtSlotCancel  == <<"slotCancel", "drop", "caught", "finish">>
AtCancel      == <<"cancel", "caught", "drop", "caught", "finish">>
AtCancelDrop  == <<"drop", "caught", "finish">>

OwnCodes     == {AtOwnCancel, AtOwnDrop, AtOwnFinish}
CancelCodes  == {AtSlotCancel, AtCancel, AtCancelDrop, AtFinish}
RunCodes     == {AtHookOfCallable, AtSlotStart, AtRunCallable, AtSlotFinish, AtHook, AtRun, AtDrop, AtAfterHook,
                 AtFinish}
HolderCodes  == OwnCodes \cup CancelCodes \cup RunCodes

-----------------------------------------------------------------------------
\* The inductive invariant.

Stages == {"new", "entered", "refused", "reserved", "rejected", "queued", "running", "cancelling", "completed", "cancelled"}
Types == /\ kind \in [Jobs -> Kinds] /\ stage \in [Jobs -> Stages] /\ inside \subseteq Jobs
         /\ DOMAIN parts = Jobs /\ DOMAIN called = Jobs /\ DOMAIN slot = Jobs
         /\ DOMAIN worker = Workers /\ DOMAIN code = Threads /\ DOMAIN what = Threads
         /\ unwound \in [Threads -> BOOLEAN]

Callable(j) == kind[j] = "callable"
Custom(j) == kind[j] \notin {"detached", "callable"}

\* The callbacks and the handle of a job that was run, and of one that was cancelled.
WasRun(j) == /\ called[j] = IF slot[j] = "cancelled" THEN <<>> ELSE Accepted(j) \o <<"run">>
             /\ Callable(j) => slot[j] = IF called[j] = <<"run">> THEN "done" ELSE "cancelled"
WasCancelled(j) == /\ called[j] = IF Custom(j) THEN <<"accept", "cancel">> ELSE <<>>
                   /\ Callable(j) => slot[j] = "cancelled"

\* Untouched(j): accepted, and neither run nor cancelled so far.
Untouched(j) == called[j] = Accepted(j) /\ (Callable(j) => slot[j] \in {"accepted", "cancelled"})

\* A submitter: what it has yet to do, and how far its job has come.
SubmitterFits(j) ==
    /\ what[j] = j
    /\ \/ code[j] = <<>> /\ j \notin inside /\ stage[j] \notin {"entered", "reserved"} /\ (stage[j] = "new" => ~unwound[j])
       \/ code[j] = AtRefuse /\ j \notin inside /\ stage[j] = "refused"
       \/ code[j] = AtReserve /\ j \in inside /\ stage[j] = "entered" /\ ~unwound[j]
       \/ code[j] = AtDiscard /\ j \in inside /\ stage[j] \in {"refused", "rejected"}
       \/ code[j] = AtAccept /\ j \in inside /\ stage[j] = "reserved" /\ ~unwound[j] /\ Custom(j) /\ called[j] = <<>>
       \/ code[j] = AtSlotAccept /\ j \in inside /\ stage[j] = "reserved" /\ ~unwound[j] /\ Callable(j) /\ called[j] = <<>>
       \/ code[j] = AtEnqueue /\ j \in inside /\ stage[j] = "reserved" /\ Untouched(j) /\ (unwound[j] => Custom(j))
       \/ code[j] \in OwnCodes /\ j \in inside /\ stage[j] = "cancelling" /\ Custom(j)
       \/ code[j] = AtLeave /\ j \in inside /\ stage[j] \notin {"new", "entered", "reserved"}

WorkerFits(w) == \/ code[w] = <<>> /\ worker[w] \in {"off", "live", "exiting", "gone"}
                 \/ code[w] \in CancelCodes \cup RunCodes \cup {AtStartHook, AtInflight} /\ worker[w] = "live"
                 \/ code[w] \in {AtStopHook, AtExit} /\ worker[w] = "exiting"

CancellerFits(t) == code[t] \in CancelCodes \cup {<<>>}

\* A thread that has yet to settle a job is the only one, and the job fits what is left to do.
Holds(t) == code[t] \in HolderCodes
SoleHolder == \A t, u \in Threads : Holds(t) /\ Holds(u) /\ what[t] = what[u] => t = u

RunFits(j, c) ==
    \/ c \in {AtHookOfCallable, AtSlotStart} /\ Callable(j) /\ Untouched(j)
    \/ c = AtRunCallable /\ Callable(j) /\ called[j] = <<>> /\ slot[j] = "started"
    \/ c = AtSlotFinish /\ Callable(j) /\ called[j] = <<"run">> /\ slot[j] = "started"
    \/ c \in {AtHook, AtRun} /\ ~Callable(j) /\ Untouched(j)
    \/ c = AtDrop /\ WasRun(j)
    \/ c \in {AtAfterHook, AtFinish} /\ WasRun(j) /\ parts[j] = {}

CancelFits(j, c) ==
    \/ c = AtSlotCancel /\ Callable(j) /\ Untouched(j)
    \/ c \in {AtCancel, AtOwnCancel} /\ Custom(j) /\ Untouched(j)
    \/ c \in {AtCancelDrop, AtOwnDrop} /\ WasCancelled(j)
    \/ c \in {AtFinish, AtOwnFinish} /\ WasCancelled(j) /\ parts[j] = {}

HolderFits(t) == Holds(t) => /\ what[t] \in Jobs
                             /\ \/ stage[what[t]] = "running" /\ RunFits(what[t], code[t])
                                \/ stage[what[t]] = "cancelling" /\ CancelFits(what[t], code[t])

JobFits(j) ==
    /\ ~Callable(j) => slot[j] = "absent"
    /\ stage[j] \in {"new", "entered", "refused"} => called[j] = <<>>
    /\ stage[j] = "queued" => Untouched(j)
    /\ stage[j] = "completed" => WasRun(j) /\ parts[j] = {}
    /\ stage[j] = "cancelled" => WasCancelled(j) /\ parts[j] = {}
    /\ stage[j] = "rejected" => called[j] = <<"accept">> /\ (code[j] = AtDiscard \/ parts[j] = {})

\* Only tickets ask for a cancellation.
RequestsFit == \A j \in requested : j \in Jobs /\ Custom(j)

Inv == /\ Types /\ RequestsFit
       /\ \A j \in Jobs : SubmitterFits(j) /\ JobFits(j)
       /\ \A w \in Workers : WorkerFits(w)
       /\ \A t \in Tickets \cup {Stopper} : CancellerFits(t)
       /\ \A t \in Threads : HolderFits(t)
       /\ SoleHolder

-----------------------------------------------------------------------------
\* The sequences above, computed: what is first, what follows, and where a panic leads.

LEMMA Heads ==
  /\ AtRefuse # <<>> /\ Head(AtRefuse) = "drop"
  /\ AtReserve # <<>> /\ Head(AtReserve) = "reserve"
  /\ AtDiscard # <<>> /\ Head(AtDiscard) = "drop"
  /\ AtAccept # <<>> /\ Head(AtAccept) = "accept"
  /\ AtSlotAccept # <<>> /\ Head(AtSlotAccept) = "slotAccept"
  /\ AtEnqueue # <<>> /\ Head(AtEnqueue) = "enqueue"
  /\ AtOwnCancel # <<>> /\ Head(AtOwnCancel) = "cancel"
  /\ AtOwnDrop # <<>> /\ Head(AtOwnDrop) = "drop"
  /\ AtOwnFinish # <<>> /\ Head(AtOwnFinish) = "finish"
  /\ AtLeave # <<>> /\ Head(AtLeave) = "leave"
  /\ AtStartHook # <<>> /\ Head(AtStartHook) = "before_worker_start"
  /\ AtStopHook # <<>> /\ Head(AtStopHook) = "after_worker_stop"
  /\ AtExit # <<>> /\ Head(AtExit) = "exit"
  /\ AtInflight # <<>> /\ Head(AtInflight) = "inflight"
  /\ AtHookOfCallable # <<>> /\ Head(AtHookOfCallable) = "before_task"
  /\ AtSlotStart # <<>> /\ Head(AtSlotStart) = "slotStart"
  /\ AtRunCallable # <<>> /\ Head(AtRunCallable) = "run"
  /\ AtSlotFinish # <<>> /\ Head(AtSlotFinish) = "slotFinish"
  /\ AtHook # <<>> /\ Head(AtHook) = "before_task"
  /\ AtRun # <<>> /\ Head(AtRun) = "run"
  /\ AtDrop # <<>> /\ Head(AtDrop) = "drop"
  /\ AtAfterHook # <<>> /\ Head(AtAfterHook) = "after_task"
  /\ AtFinish # <<>> /\ Head(AtFinish) = "finish"
  /\ AtSlotCancel # <<>> /\ Head(AtSlotCancel) = "slotCancel"
  /\ AtCancel # <<>> /\ Head(AtCancel) = "cancel"
  /\ AtCancelDrop # <<>> /\ Head(AtCancelDrop) = "drop"
  BY DEF AtRefuse, AtReserve, AtDiscard, AtAccept, AtSlotAccept, AtEnqueue, AtOwnCancel, AtOwnDrop, AtOwnFinish,
       AtLeave, AtStartHook, AtStopHook, AtExit, AtInflight, AtHookOfCallable, AtSlotStart, AtRunCallable,
       AtSlotFinish, AtHook, AtRun, AtDrop, AtAfterHook, AtFinish, AtSlotCancel, AtCancel, AtCancelDrop

\* What is left after the first instruction.
LEMMA Follows ==
  /\ Skip(Tail(AtRefuse)) = <<>>
  /\ Skip(Tail(AtReserve)) = <<>>
  /\ Skip(Tail(AtDiscard)) = AtLeave
  /\ Skip(Tail(AtAccept)) = AtEnqueue
  /\ Skip(Tail(AtSlotAccept)) = AtEnqueue
  /\ Skip(Tail(AtEnqueue)) = AtLeave
  /\ Skip(Tail(AtOwnCancel)) = AtOwnDrop
  /\ Skip(Tail(AtOwnDrop)) = AtOwnFinish
  /\ Skip(Tail(AtOwnFinish)) = AtLeave
  /\ Skip(Tail(AtLeave)) = <<>>
  /\ Skip(Tail(AtStartHook)) = <<>>
  /\ Skip(Tail(AtStopHook)) = AtExit
  /\ Skip(Tail(AtExit)) = <<>>
  /\ Skip(Tail(AtInflight)) = <<>>
  /\ Skip(Tail(AtHookOfCallable)) = AtSlotStart
  /\ Skip(Tail(AtSlotStart)) = AtRunCallable
  /\ Skip(Tail(AtRunCallable)) = AtSlotFinish
  /\ Skip(Tail(AtSlotFinish)) = AtDrop
  /\ Skip(Tail(AtHook)) = AtRun
  /\ Skip(Tail(AtRun)) = AtDrop
  /\ Skip(Tail(AtDrop)) = AtAfterHook
  /\ Skip(Tail(AtAfterHook)) = AtFinish
  /\ Skip(Tail(AtFinish)) = <<>>
  /\ Skip(Tail(AtSlotCancel)) = AtCancelDrop
  /\ Skip(Tail(AtCancel)) = AtCancelDrop
  /\ Skip(Tail(AtCancelDrop)) = AtFinish
  <1>1. <<>> = Skip(Tail(AtRefuse))
    BY DEF AtRefuse, Skip, Suffix, Min, Marks
  <1>2. <<>> = Skip(Tail(AtReserve))
    BY DEF AtReserve, Skip, Suffix, Min, Marks
  <1>3. AtLeave = Skip(Tail(AtDiscard))
    BY DEF AtDiscard, AtLeave, Skip, Suffix, Min, Marks
  <1>4. AtEnqueue = Skip(Tail(AtAccept))
    BY DEF AtAccept, AtEnqueue, Skip, Suffix, Min, Marks
  <1>5. AtEnqueue = Skip(Tail(AtSlotAccept))
    BY DEF AtSlotAccept, AtEnqueue, Skip, Suffix, Min, Marks
  <1>6. AtLeave = Skip(Tail(AtEnqueue))
    BY DEF AtEnqueue, AtLeave, Skip, Suffix, Min, Marks
  <1>7. AtOwnDrop = Skip(Tail(AtOwnCancel))
    BY DEF AtOwnCancel, AtOwnDrop, Skip, Suffix, Min, Marks
  <1>8. AtOwnFinish = Skip(Tail(AtOwnDrop))
    BY DEF AtOwnDrop, AtOwnFinish, Skip, Suffix, Min, Marks
  <1>9. AtLeave = Skip(Tail(AtOwnFinish))
    BY DEF AtOwnFinish, AtLeave, Skip, Suffix, Min, Marks
  <1>10. <<>> = Skip(Tail(AtLeave))
    BY DEF AtLeave, Skip, Suffix, Min, Marks
  <1>11. <<>> = Skip(Tail(AtStartHook))
    BY DEF AtStartHook, Skip, Suffix, Min, Marks
  <1>12. AtExit = Skip(Tail(AtStopHook))
    BY DEF AtStopHook, AtExit, Skip, Suffix, Min, Marks
  <1>13. <<>> = Skip(Tail(AtExit))
    BY DEF AtExit, Skip, Suffix, Min, Marks
  <1>14. AtSlotStart = Skip(Tail(AtHookOfCallable))
    BY DEF AtHookOfCallable, AtSlotStart, Skip, Suffix, Min, Marks
  <1>15. AtRunCallable = Skip(Tail(AtSlotStart))
    BY DEF AtSlotStart, AtRunCallable, Skip, Suffix, Min, Marks
  <1>16. AtSlotFinish = Skip(Tail(AtRunCallable))
    BY DEF AtRunCallable, AtSlotFinish, Skip, Suffix, Min, Marks
  <1>17. AtDrop = Skip(Tail(AtSlotFinish))
    BY DEF AtSlotFinish, AtDrop, Skip, Suffix, Min, Marks
  <1>18. AtRun = Skip(Tail(AtHook))
    BY DEF AtHook, AtRun, Skip, Suffix, Min, Marks
  <1>19. AtDrop = Skip(Tail(AtRun))
    BY DEF AtRun, AtDrop, Skip, Suffix, Min, Marks
  <1>20. AtAfterHook = Skip(Tail(AtDrop))
    BY DEF AtDrop, AtAfterHook, Skip, Suffix, Min, Marks
  <1>21. AtFinish = Skip(Tail(AtAfterHook))
    BY DEF AtAfterHook, AtFinish, Skip, Suffix, Min, Marks
  <1>22. <<>> = Skip(Tail(AtFinish))
    BY DEF AtFinish, Skip, Suffix, Min, Marks
  <1>23. AtCancelDrop = Skip(Tail(AtSlotCancel))
    BY DEF AtSlotCancel, AtCancelDrop, Skip, Suffix, Min, Marks
  <1>24. AtCancelDrop = Skip(Tail(AtCancel))
    BY DEF AtCancel, AtCancelDrop, Skip, Suffix, Min, Marks
  <1>25. AtFinish = Skip(Tail(AtCancelDrop))
    BY DEF AtCancelDrop, AtFinish, Skip, Suffix, Min, Marks
  <1>26. <<>> = Skip(Tail(AtInflight))
    BY DEF AtInflight, Skip, Suffix, Min, Marks
  <1> QED
    BY <1>1, <1>2, <1>3, <1>4, <1>5, <1>6, <1>7, <1>8, <1>9, <1>10, <1>11, <1>12, <1>13, <1>14, <1>15, <1>16, <1>17,
         <1>18, <1>19, <1>20, <1>21, <1>22, <1>23, <1>24, <1>25, <1>26

\* A panic of user code that is directly followed by the end of a catch_unwind.
LEMMA CaughtAtOnce ==
  ASSUME NEW c, 2 \in DOMAIN c, DOMAIN c \subseteq Nat \ {0}, c[1] \notin Marks, c[2] = "caught"
  PROVE  2 \in Enclosing(c) /\ Min(Enclosing(c)) = 2
  <1>1. {k \in 1 .. 2 : c[k] = "caught"} = {2} /\ {k \in 1 .. 2 : c[k] = "try"} = {}
    BY DEF Marks
  <1>2. Cardinality({k \in 1 .. 2 : c[k] = "caught"}) = 1 /\ Cardinality({k \in 1 .. 2 : c[k] = "try"}) = 0
    BY <1>1, FS_EmptySet, FS_Singleton
  <1>3. 2 \in Enclosing(c)
    BY <1>2 DEF Enclosing
  <1>4. Enclosing(c) \subseteq Nat /\ \A i \in Enclosing(c) : 2 <= i
    BY DEF Enclosing, Marks
  <1> QED
    BY <1>3, <1>4 DEF Min

\* Every panic is caught, and what is left is the same as after a return.
UserPlaces == {AtRefuse, AtDiscard, AtAccept, AtOwnCancel, AtOwnDrop, AtStartHook, AtStopHook, AtHookOfCallable,
     AtRunCallable, AtHook, AtRun, AtDrop, AtAfterHook, AtCancel, AtCancelDrop}
LEMMA PanicsAreCaught ==
  \A c \in UserPlaces : Enclosing(c) # {} /\ Skip(Suffix(c, 1 + Min(Enclosing(c)))) = Skip(Tail(c))
  <1>1. Enclosing(AtRefuse) # {} /\ Skip(Suffix(AtRefuse, 1 + Min(Enclosing(AtRefuse)))) = Skip(Tail(AtRefuse))
    <2>1. 2 \in Enclosing(AtRefuse) /\ Min(Enclosing(AtRefuse)) = 2
      <3>1. 2 \in DOMAIN AtRefuse /\ DOMAIN AtRefuse \subseteq Nat \ {0} /\ AtRefuse[1] \notin Marks /\ AtRefuse[2] =
           "caught"
        BY DEF AtRefuse, Marks
      <3> QED
        BY <3>1, CaughtAtOnce
    <2>2. <<>> = Suffix(AtRefuse, 3)
      BY DEF AtRefuse, Suffix
    <2>3. <<>> = Skip(<<>>)
      BY DEF Skip, Suffix, Min, Marks
    <2> QED
      BY <2>1, <2>2, <2>3, Follows
  <1>2. Enclosing(AtDiscard) # {} /\ Skip(Suffix(AtDiscard, 1 + Min(Enclosing(AtDiscard)))) = Skip(Tail(AtDiscard))
    <2>1. 2 \in Enclosing(AtDiscard) /\ Min(Enclosing(AtDiscard)) = 2
      <3>1. 2 \in DOMAIN AtDiscard /\ DOMAIN AtDiscard \subseteq Nat \ {0} /\ AtDiscard[1] \notin Marks /\
           AtDiscard[2] = "caught"
        BY DEF AtDiscard, Marks
      <3> QED
        BY <3>1, CaughtAtOnce
    <2>2. <<"leave">> = Suffix(AtDiscard, 3)
      BY DEF AtDiscard, Suffix
    <2>3. AtLeave = Skip(<<"leave">>)
      BY DEF AtLeave, Skip, Suffix, Min, Marks
    <2> QED
      BY <2>1, <2>2, <2>3, Follows
  <1>3. Enclosing(AtAccept) # {} /\ Skip(Suffix(AtAccept, 1 + Min(Enclosing(AtAccept)))) = Skip(Tail(AtAccept))
    <2>1. 2 \in Enclosing(AtAccept) /\ Min(Enclosing(AtAccept)) = 2
      <3>1. 2 \in DOMAIN AtAccept /\ DOMAIN AtAccept \subseteq Nat \ {0} /\ AtAccept[1] \notin Marks /\ AtAccept[2] =
           "caught"
        BY DEF AtAccept, Marks
      <3> QED
        BY <3>1, CaughtAtOnce
    <2>2. <<"enqueue", "leave">> = Suffix(AtAccept, 3)
      BY DEF AtAccept, Suffix
    <2>3. AtEnqueue = Skip(<<"enqueue", "leave">>)
      BY DEF AtEnqueue, Skip, Suffix, Min, Marks
    <2> QED
      BY <2>1, <2>2, <2>3, Follows
  <1>4. Enclosing(AtOwnCancel) # {} /\ Skip(Suffix(AtOwnCancel, 1 + Min(Enclosing(AtOwnCancel)))) =
       Skip(Tail(AtOwnCancel))
    <2>1. 2 \in Enclosing(AtOwnCancel) /\ Min(Enclosing(AtOwnCancel)) = 2
      <3>1. 2 \in DOMAIN AtOwnCancel /\ DOMAIN AtOwnCancel \subseteq Nat \ {0} /\ AtOwnCancel[1] \notin Marks /\
           AtOwnCancel[2] = "caught"
        BY DEF AtOwnCancel, Marks
      <3> QED
        BY <3>1, CaughtAtOnce
    <2>2. <<"drop", "caught", "finish", "leave">> = Suffix(AtOwnCancel, 3)
      BY DEF AtOwnCancel, Suffix
    <2>3. AtOwnDrop = Skip(<<"drop", "caught", "finish", "leave">>)
      BY DEF AtOwnDrop, Skip, Suffix, Min, Marks
    <2> QED
      BY <2>1, <2>2, <2>3, Follows
  <1>5. Enclosing(AtOwnDrop) # {} /\ Skip(Suffix(AtOwnDrop, 1 + Min(Enclosing(AtOwnDrop)))) = Skip(Tail(AtOwnDrop))
    <2>1. 2 \in Enclosing(AtOwnDrop) /\ Min(Enclosing(AtOwnDrop)) = 2
      <3>1. 2 \in DOMAIN AtOwnDrop /\ DOMAIN AtOwnDrop \subseteq Nat \ {0} /\ AtOwnDrop[1] \notin Marks /\
           AtOwnDrop[2] = "caught"
        BY DEF AtOwnDrop, Marks
      <3> QED
        BY <3>1, CaughtAtOnce
    <2>2. <<"finish", "leave">> = Suffix(AtOwnDrop, 3)
      BY DEF AtOwnDrop, Suffix
    <2>3. AtOwnFinish = Skip(<<"finish", "leave">>)
      BY DEF AtOwnFinish, Skip, Suffix, Min, Marks
    <2> QED
      BY <2>1, <2>2, <2>3, Follows
  <1>6. Enclosing(AtStartHook) # {} /\ Skip(Suffix(AtStartHook, 1 + Min(Enclosing(AtStartHook)))) =
       Skip(Tail(AtStartHook))
    <2>1. 2 \in Enclosing(AtStartHook) /\ Min(Enclosing(AtStartHook)) = 2
      <3>1. 2 \in DOMAIN AtStartHook /\ DOMAIN AtStartHook \subseteq Nat \ {0} /\ AtStartHook[1] \notin Marks /\
           AtStartHook[2] = "caught"
        BY DEF AtStartHook, Marks
      <3> QED
        BY <3>1, CaughtAtOnce
    <2>2. <<>> = Suffix(AtStartHook, 3)
      BY DEF AtStartHook, Suffix
    <2>3. <<>> = Skip(<<>>)
      BY DEF Skip, Suffix, Min, Marks
    <2> QED
      BY <2>1, <2>2, <2>3, Follows
  <1>7. Enclosing(AtStopHook) # {} /\ Skip(Suffix(AtStopHook, 1 + Min(Enclosing(AtStopHook)))) =
       Skip(Tail(AtStopHook))
    <2>1. 2 \in Enclosing(AtStopHook) /\ Min(Enclosing(AtStopHook)) = 2
      <3>1. 2 \in DOMAIN AtStopHook /\ DOMAIN AtStopHook \subseteq Nat \ {0} /\ AtStopHook[1] \notin Marks /\
           AtStopHook[2] = "caught"
        BY DEF AtStopHook, Marks
      <3> QED
        BY <3>1, CaughtAtOnce
    <2>2. <<"exit">> = Suffix(AtStopHook, 3)
      BY DEF AtStopHook, Suffix
    <2>3. AtExit = Skip(<<"exit">>)
      BY DEF AtExit, Skip, Suffix, Min, Marks
    <2> QED
      BY <2>1, <2>2, <2>3, Follows
  <1>8. Enclosing(AtHookOfCallable) # {} /\ Skip(Suffix(AtHookOfCallable, 1 + Min(Enclosing(AtHookOfCallable)))) =
       Skip(Tail(AtHookOfCallable))
    <2>1. 2 \in Enclosing(AtHookOfCallable) /\ Min(Enclosing(AtHookOfCallable)) = 2
      <3>1. 2 \in DOMAIN AtHookOfCallable /\ DOMAIN AtHookOfCallable \subseteq Nat \ {0} /\ AtHookOfCallable[1] \notin
           Marks /\ AtHookOfCallable[2] = "caught"
        BY DEF AtHookOfCallable, Marks
      <3> QED
        BY <3>1, CaughtAtOnce
    <2>2. <<"try", "slotStart", "try", "run", "caught", "slotFinish", "drop", "caught", "try", "after_task", "caught",
         "finish">> = Suffix(AtHookOfCallable, 3)
      BY DEF AtHookOfCallable, Suffix
    <2>3. AtSlotStart = Skip(<<"try", "slotStart", "try", "run", "caught", "slotFinish", "drop", "caught", "try",
         "after_task", "caught", "finish">>)
      BY DEF AtSlotStart, Skip, Suffix, Min, Marks
    <2> QED
      BY <2>1, <2>2, <2>3, Follows
  <1>9. Enclosing(AtRunCallable) # {} /\ Skip(Suffix(AtRunCallable, 1 + Min(Enclosing(AtRunCallable)))) =
       Skip(Tail(AtRunCallable))
    <2>1. 2 \in Enclosing(AtRunCallable) /\ Min(Enclosing(AtRunCallable)) = 2
      <3>1. 2 \in DOMAIN AtRunCallable /\ DOMAIN AtRunCallable \subseteq Nat \ {0} /\ AtRunCallable[1] \notin Marks /\
           AtRunCallable[2] = "caught"
        BY DEF AtRunCallable, Marks
      <3> QED
        BY <3>1, CaughtAtOnce
    <2>2. <<"slotFinish", "drop", "caught", "try", "after_task", "caught", "finish">> = Suffix(AtRunCallable, 3)
      BY DEF AtRunCallable, Suffix
    <2>3. AtSlotFinish = Skip(<<"slotFinish", "drop", "caught", "try", "after_task", "caught", "finish">>)
      BY DEF AtSlotFinish, Skip, Suffix, Min, Marks
    <2> QED
      BY <2>1, <2>2, <2>3, Follows
  <1>10. Enclosing(AtHook) # {} /\ Skip(Suffix(AtHook, 1 + Min(Enclosing(AtHook)))) = Skip(Tail(AtHook))
    <2>1. 2 \in Enclosing(AtHook) /\ Min(Enclosing(AtHook)) = 2
      <3>1. 2 \in DOMAIN AtHook /\ DOMAIN AtHook \subseteq Nat \ {0} /\ AtHook[1] \notin Marks /\ AtHook[2] = "caught"
        BY DEF AtHook, Marks
      <3> QED
        BY <3>1, CaughtAtOnce
    <2>2. <<"try", "try", "run", "caught", "drop", "caught", "try", "after_task", "caught", "finish">> =
         Suffix(AtHook, 3)
      BY DEF AtHook, Suffix
    <2>3. AtRun = Skip(<<"try", "try", "run", "caught", "drop", "caught", "try", "after_task", "caught", "finish">>)
      BY DEF AtRun, Skip, Suffix, Min, Marks
    <2> QED
      BY <2>1, <2>2, <2>3, Follows
  <1>11. Enclosing(AtRun) # {} /\ Skip(Suffix(AtRun, 1 + Min(Enclosing(AtRun)))) = Skip(Tail(AtRun))
    <2>1. 2 \in Enclosing(AtRun) /\ Min(Enclosing(AtRun)) = 2
      <3>1. 2 \in DOMAIN AtRun /\ DOMAIN AtRun \subseteq Nat \ {0} /\ AtRun[1] \notin Marks /\ AtRun[2] = "caught"
        BY DEF AtRun, Marks
      <3> QED
        BY <3>1, CaughtAtOnce
    <2>2. <<"drop", "caught", "try", "after_task", "caught", "finish">> = Suffix(AtRun, 3)
      BY DEF AtRun, Suffix
    <2>3. AtDrop = Skip(<<"drop", "caught", "try", "after_task", "caught", "finish">>)
      BY DEF AtDrop, Skip, Suffix, Min, Marks
    <2> QED
      BY <2>1, <2>2, <2>3, Follows
  <1>12. Enclosing(AtDrop) # {} /\ Skip(Suffix(AtDrop, 1 + Min(Enclosing(AtDrop)))) = Skip(Tail(AtDrop))
    <2>1. 2 \in Enclosing(AtDrop) /\ Min(Enclosing(AtDrop)) = 2
      <3>1. 2 \in DOMAIN AtDrop /\ DOMAIN AtDrop \subseteq Nat \ {0} /\ AtDrop[1] \notin Marks /\ AtDrop[2] = "caught"
        BY DEF AtDrop, Marks
      <3> QED
        BY <3>1, CaughtAtOnce
    <2>2. <<"try", "after_task", "caught", "finish">> = Suffix(AtDrop, 3)
      BY DEF AtDrop, Suffix
    <2>3. AtAfterHook = Skip(<<"try", "after_task", "caught", "finish">>)
      BY DEF AtAfterHook, Skip, Suffix, Min, Marks
    <2> QED
      BY <2>1, <2>2, <2>3, Follows
  <1>13. Enclosing(AtAfterHook) # {} /\ Skip(Suffix(AtAfterHook, 1 + Min(Enclosing(AtAfterHook)))) =
       Skip(Tail(AtAfterHook))
    <2>1. 2 \in Enclosing(AtAfterHook) /\ Min(Enclosing(AtAfterHook)) = 2
      <3>1. 2 \in DOMAIN AtAfterHook /\ DOMAIN AtAfterHook \subseteq Nat \ {0} /\ AtAfterHook[1] \notin Marks /\
           AtAfterHook[2] = "caught"
        BY DEF AtAfterHook, Marks
      <3> QED
        BY <3>1, CaughtAtOnce
    <2>2. <<"finish">> = Suffix(AtAfterHook, 3)
      BY DEF AtAfterHook, Suffix
    <2>3. AtFinish = Skip(<<"finish">>)
      BY DEF AtFinish, Skip, Suffix, Min, Marks
    <2> QED
      BY <2>1, <2>2, <2>3, Follows
  <1>14. Enclosing(AtCancel) # {} /\ Skip(Suffix(AtCancel, 1 + Min(Enclosing(AtCancel)))) = Skip(Tail(AtCancel))
    <2>1. 2 \in Enclosing(AtCancel) /\ Min(Enclosing(AtCancel)) = 2
      <3>1. 2 \in DOMAIN AtCancel /\ DOMAIN AtCancel \subseteq Nat \ {0} /\ AtCancel[1] \notin Marks /\ AtCancel[2] =
           "caught"
        BY DEF AtCancel, Marks
      <3> QED
        BY <3>1, CaughtAtOnce
    <2>2. <<"drop", "caught", "finish">> = Suffix(AtCancel, 3)
      BY DEF AtCancel, Suffix
    <2>3. AtCancelDrop = Skip(<<"drop", "caught", "finish">>)
      BY DEF AtCancelDrop, Skip, Suffix, Min, Marks
    <2> QED
      BY <2>1, <2>2, <2>3, Follows
  <1>15. Enclosing(AtCancelDrop) # {} /\ Skip(Suffix(AtCancelDrop, 1 + Min(Enclosing(AtCancelDrop)))) =
       Skip(Tail(AtCancelDrop))
    <2>1. 2 \in Enclosing(AtCancelDrop) /\ Min(Enclosing(AtCancelDrop)) = 2
      <3>1. 2 \in DOMAIN AtCancelDrop /\ DOMAIN AtCancelDrop \subseteq Nat \ {0} /\ AtCancelDrop[1] \notin Marks /\
           AtCancelDrop[2] = "caught"
        BY DEF AtCancelDrop, Marks
      <3> QED
        BY <3>1, CaughtAtOnce
    <2>2. <<"finish">> = Suffix(AtCancelDrop, 3)
      BY DEF AtCancelDrop, Suffix
    <2>3. AtFinish = Skip(<<"finish">>)
      BY DEF AtFinish, Skip, Suffix, Min, Marks
    <2> QED
      BY <2>1, <2>2, <2>3, Follows
  <1> QED
    BY <1>1, <1>2, <1>3, <1>4, <1>5, <1>6, <1>7, <1>8, <1>9, <1>10, <1>11, <1>12, <1>13, <1>14, <1>15 DEF UserPlaces

\* A callable whose handle was cancelled is not run.
LEMMA Unrun == Skip(Suffix(AtSlotStart, Min({i \in DOMAIN AtSlotStart : AtSlotStart[i] = "drop"}))) = AtDrop
  <1>1. Min({i \in DOMAIN AtSlotStart : AtSlotStart[i] = "drop"}) = 6
    BY DEF AtSlotStart, Min
  <1>2. AtDrop = Skip(Suffix(AtSlotStart, 6))
    BY DEF AtDrop, AtSlotStart, Skip, Suffix, Min, Marks
  <1> QED
    BY <1>1, <1>2

\* Where the operations begin.
LEMMA Beginnings ==
  /\ Skip(Discard) = AtRefuse
  /\ Skip(<<"reserve">>) = AtReserve
  /\ Skip(DiscardThenLeave) = AtDiscard
  /\ Skip(RunHook("before_worker_start")) = AtStartHook
  /\ Skip(HookThenExit) = AtStopHook
  /\ Skip(<<"inflight">>) = AtInflight
  <1>1. AtRefuse = Skip(Discard)
    BY DEF AtRefuse, Discard, Skip, Suffix, Min, Marks
  <1>2. AtReserve = Skip(<<"reserve">>)
    BY DEF AtReserve, Skip, Suffix, Min, Marks
  <1>3. AtDiscard = Skip(DiscardThenLeave)
    <2>1. <<"try", "drop", "caught", "leave">> = DiscardThenLeave
      BY DEF DiscardThenLeave, Discard
    <2>2. AtDiscard = Skip(<<"try", "drop", "caught", "leave">>)
      BY DEF AtDiscard, Skip, Suffix, Min, Marks
    <2> QED
      BY <2>1, <2>2
  <1>4. AtStartHook = Skip(RunHook("before_worker_start"))
    BY DEF AtStartHook, RunHook, Skip, Suffix, Min, Marks
  <1>5. AtStopHook = Skip(HookThenExit)
    <2>1. <<"try", "after_worker_stop", "caught", "exit">> = HookThenExit
      BY DEF HookThenExit, RunHook
    <2>2. AtStopHook = Skip(<<"try", "after_worker_stop", "caught", "exit">>)
      BY DEF AtStopHook, Skip, Suffix, Min, Marks
    <2> QED
      BY <2>1, <2>2
  <1>6. AtInflight = Skip(<<"inflight">>)
    BY DEF AtInflight, Skip, Suffix, Min, Marks
  <1> QED
    BY <1>1, <1>2, <1>3, <1>4, <1>5, <1>6

LEMMA JobBeginnings ==
  ASSUME NEW j \in Jobs
  PROVE  /\ Custom(j) => Skip(Accept(j) \o <<"enqueue", "leave">>) = AtAccept
         /\ Callable(j) => Skip(Accept(j) \o <<"enqueue", "leave">>) = AtSlotAccept
         /\ kind[j] = "detached" => Skip(Accept(j) \o <<"enqueue", "leave">>) = AtEnqueue
         /\ Callable(j) => Skip(RunThenFinish(j)) = AtHookOfCallable
         /\ ~Callable(j) => Skip(RunThenFinish(j)) = AtHook
         /\ Custom(j) => Skip(CancelThenFinish(j)) = AtCancel
         /\ Custom(j) => Skip(CancelThenFinish(j) \o <<"leave">>) = AtOwnCancel
         /\ Callable(j) => Skip(CancelThenFinish(j)) = AtSlotCancel
         /\ kind[j] = "detached" => Skip(CancelThenFinish(j)) = AtCancelDrop
  <1>1. Custom(j) => Skip(Accept(j) \o <<"enqueue", "leave">>) = AtAccept
    <2> HAVE Custom(j)
    <2>1. <<"try", "accept", "caught", "enqueue", "leave">> = Accept(j) \o <<"enqueue", "leave">>
      BY DEF Accept, Custom
    <2>2. AtAccept = Skip(<<"try", "accept", "caught", "enqueue", "leave">>)
      BY DEF AtAccept, Skip, Suffix, Min, Marks
    <2> QED
      BY <2>1, <2>2
  <1>2. Callable(j) => Skip(Accept(j) \o <<"enqueue", "leave">>) = AtSlotAccept
    <2> HAVE Callable(j)
    <2>1. <<"slotAccept", "enqueue", "leave">> = Accept(j) \o <<"enqueue", "leave">>
      BY DEF Accept, Callable
    <2>2. AtSlotAccept = Skip(<<"slotAccept", "enqueue", "leave">>)
      BY DEF AtSlotAccept, Skip, Suffix, Min, Marks
    <2> QED
      BY <2>1, <2>2
  <1>3. kind[j] = "detached" => Skip(Accept(j) \o <<"enqueue", "leave">>) = AtEnqueue
    <2> HAVE kind[j] = "detached"
    <2>1. <<"enqueue", "leave">> = Accept(j) \o <<"enqueue", "leave">>
      BY DEF Accept
    <2>2. AtEnqueue = Skip(<<"enqueue", "leave">>)
      BY DEF AtEnqueue, Skip, Suffix, Min, Marks
    <2> QED
      BY <2>1, <2>2
  <1>4. Callable(j) => Skip(RunThenFinish(j)) = AtHookOfCallable
    <2> HAVE Callable(j)
    <2>1. <<"try", "before_task", "caught", "try", "slotStart", "try", "run", "caught", "slotFinish", "drop",
         "caught", "try", "after_task", "caught", "finish">> = RunThenFinish(j)
      BY DEF RunThenFinish, RunHook, Run, Callable
    <2>2. AtHookOfCallable = Skip(<<"try", "before_task", "caught", "try", "slotStart", "try", "run", "caught",
         "slotFinish", "drop", "caught", "try", "after_task", "caught", "finish">>)
      BY DEF AtHookOfCallable, Skip, Suffix, Min, Marks
    <2> QED
      BY <2>1, <2>2
  <1>5. ~Callable(j) => Skip(RunThenFinish(j)) = AtHook
    <2> HAVE ~Callable(j)
    <2>1. <<"try", "before_task", "caught", "try", "try", "run", "caught", "drop", "caught", "try", "after_task",
         "caught", "finish">> = RunThenFinish(j)
      BY DEF RunThenFinish, RunHook, Run, Callable
    <2>2. AtHook = Skip(<<"try", "before_task", "caught", "try", "try", "run", "caught", "drop", "caught", "try",
         "after_task", "caught", "finish">>)
      BY DEF AtHook, Skip, Suffix, Min, Marks
    <2> QED
      BY <2>1, <2>2
  <1>6. Custom(j) => Skip(CancelThenFinish(j)) = AtCancel
    <2> HAVE Custom(j)
    <2>1. <<"try", "try", "cancel", "caught", "drop", "caught", "finish">> = CancelThenFinish(j)
      BY DEF CancelThenFinish, Cancel, Custom
    <2>2. AtCancel = Skip(<<"try", "try", "cancel", "caught", "drop", "caught", "finish">>)
      BY DEF AtCancel, Skip, Suffix, Min, Marks
    <2> QED
      BY <2>1, <2>2
  <1>7. Custom(j) => Skip(CancelThenFinish(j) \o <<"leave">>) = AtOwnCancel
    <2> HAVE Custom(j)
    <2>1. <<"try", "try", "cancel", "caught", "drop", "caught", "finish", "leave">> = CancelThenFinish(j) \o
         <<"leave">>
      BY DEF CancelThenFinish, Cancel, Custom
    <2>2. AtOwnCancel = Skip(<<"try", "try", "cancel", "caught", "drop", "caught", "finish", "leave">>)
      BY DEF AtOwnCancel, Skip, Suffix, Min, Marks
    <2> QED
      BY <2>1, <2>2
  <1>8. Callable(j) => Skip(CancelThenFinish(j)) = AtSlotCancel
    <2> HAVE Callable(j)
    <2>1. <<"try", "slotCancel", "drop", "caught", "finish">> = CancelThenFinish(j)
      BY DEF CancelThenFinish, Cancel, Callable
    <2>2. AtSlotCancel = Skip(<<"try", "slotCancel", "drop", "caught", "finish">>)
      BY DEF AtSlotCancel, Skip, Suffix, Min, Marks
    <2> QED
      BY <2>1, <2>2
  <1>9. kind[j] = "detached" => Skip(CancelThenFinish(j)) = AtCancelDrop
    <2> HAVE kind[j] = "detached"
    <2>1. <<"try", "drop", "caught", "finish">> = CancelThenFinish(j)
      BY DEF CancelThenFinish, Cancel
    <2>2. AtCancelDrop = Skip(<<"try", "drop", "caught", "finish">>)
      BY DEF AtCancelDrop, Skip, Suffix, Min, Marks
    <2> QED
      BY <2>1, <2>2
  <1> QED
    BY <1>1, <1>2, <1>3, <1>4, <1>5, <1>6, <1>7, <1>8, <1>9

\* The callbacks, in order.
LEMMA Calls ==
  /\ Append(<<>>, "accept") = <<"accept">> /\ Append(<<>>, "run") = <<"run">>
  /\ Append(<<"accept">>, "run") = <<"accept", "run">> /\ Append(<<"accept">>, "cancel") = <<"accept", "cancel">>
  /\ <<>> \o <<"run">> = <<"run">> /\ <<"accept">> \o <<"run">> = <<"accept", "run">>
  /\ <<"run">> # <<>> /\ <<"accept", "run">> # <<>> /\ <<"accept">> # <<>> /\ <<"accept", "run">> # <<"run">>
  <1>1. <<"accept">> = Append(<<>>, "accept") /\ <<"run">> = Append(<<>>, "run") /\ <<"run">> = <<>> \o <<"run">>
    OBVIOUS
  <1>2. <<"accept", "run">> = Append(<<"accept">>, "run")
    OBVIOUS
  <1>3. <<"accept", "cancel">> = Append(<<"accept">>, "cancel")
    OBVIOUS
  <1>4. <<"accept", "run">> = <<"accept">> \o <<"run">>
    OBVIOUS
  <1>5. <<"run">> # <<>> /\ <<"accept", "run">> # <<>> /\ <<"accept">> # <<>> /\ <<"accept", "run">> # <<"run">>
    OBVIOUS
  <1> QED
    BY <1>1, <1>2, <1>3, <1>4, <1>5

LEMMA Acceptance ==
  ASSUME NEW j \in Jobs
  PROVE  Accepted(j) = IF Custom(j) THEN <<"accept">> ELSE <<>>
  BY DEF Accepted, Custom

-----------------------------------------------------------------------------
\* A step of one thread on one job.

\* Only the threads T move, and only job j.
Alone(T, j) ==
    /\ kind' = kind /\ requested' = requested /\ Types'
    /\ \A u \in Threads \ T : code'[u] = code[u] /\ what'[u] = what[u] /\ unwound'[u] = unwound[u]
    /\ \A i \in Jobs \ T : i \in inside' <=> i \in inside
    /\ \A i \in Jobs \ {j} : /\ stage'[i] = stage[i] /\ parts'[i] = parts[i]
                             /\ called'[i] = called[i] /\ slot'[i] = slot[i]
    /\ \A w \in Workers \ T : worker'[w] = worker[w]

\* They leave the others as they were.
LEMMA OthersFit ==
  ASSUME Inv, NEW T, NEW j, Alone(T, j),
         \A u \in Threads \ T : Holds(u) => what[u] # j,
         \A u \in T : Holds(u)' => what'[u] = j,
         \A u, v \in T : Holds(u)' /\ Holds(v)' => u = v
  PROVE  /\ \A i \in Jobs \ (T \cup {j}) : (SubmitterFits(i) /\ JobFits(i))'
         /\ \A w \in Workers \ T : WorkerFits(w)'
         /\ \A u \in (Tickets \cup {Stopper}) \ T : CancellerFits(u)'
         /\ \A u \in Threads \ T : HolderFits(u)'
         /\ SoleHolder' /\ RequestsFit'
  <1>1. ASSUME NEW i \in Jobs \ (T \cup {j})
        PROVE  (SubmitterFits(i) /\ JobFits(i))'
    <2>1. i \in Threads /\ SubmitterFits(i) /\ JobFits(i)
      BY DEF Inv, Threads
    <2>2. SubmitterFits(i)'
      BY <2>1 DEF SubmitterFits, Alone, Untouched, Accepted, Callable, Custom
    <2>3. JobFits(i)'
      BY <2>1 DEF JobFits, Alone, Untouched, WasRun, WasCancelled, Accepted, Callable, Custom
    <2> QED
      BY <2>2, <2>3
  <1>2. \A w \in Workers \ T : WorkerFits(w)'
    BY DEF Inv, WorkerFits, Alone, Threads
  <1>3. \A u \in (Tickets \cup {Stopper}) \ T : CancellerFits(u)'
    BY DEF Inv, CancellerFits, Alone, Threads
  <1>4. ASSUME NEW u \in Threads \ T
        PROVE  HolderFits(u)'
    <2> SUFFICES ASSUME Holds(u)'
                 PROVE  HolderFits(u)'
      BY DEF HolderFits
    <2>1. Holds(u) /\ HolderFits(u) /\ what'[u] = what[u] /\ code'[u] = code[u]
      BY DEF Holds, Alone, Inv
    <2>2. what[u] \in Jobs \ {j}
      BY <2>1 DEF HolderFits
    <2> QED
      BY <2>1, <2>2 DEF HolderFits, Alone, RunFits, CancelFits, Untouched, WasRun, WasCancelled, Accepted, Callable, Custom
  <1>5. SoleHolder'
    <2> SUFFICES ASSUME NEW u \in Threads, NEW v \in Threads, Holds(u)', Holds(v)', what'[u] = what'[v], u # v
                 PROVE  FALSE
      BY DEF SoleHolder
    <2>1. \A x \in Threads \ T : Holds(x)' => Holds(x) /\ what'[x] = what[x] /\ what[x] # j
      BY DEF Holds, Alone
    <2>2. u \notin T /\ v \notin T
      BY <2>1
    <2> QED
      BY <2>1, <2>2 DEF Inv, SoleHolder
  <1>6. RequestsFit'
    BY DEF Inv, RequestsFit, Alone, Custom
  <1> QED
    BY <1>1, <1>2, <1>3, <1>4, <1>5, <1>6

\* A submitter whose job is in other hands does not care how far it comes.
LEMMA SubmitterUnmoved ==
  ASSUME Inv, NEW j \in Jobs, stage[j] \in {"queued", "running", "cancelling"}, code[j] \notin OwnCodes,
         stage'[j] \in {"running", "cancelling", "completed", "cancelled"}, code'[j] = code[j], what'[j] = what[j],
         j \in inside' <=> j \in inside
  PROVE  SubmitterFits(j)'
  BY DEF Inv, SubmitterFits

\* A step of a thread that is not the job's submitter.
LEMMA OutsideStep ==
  ASSUME Inv, NEW t \in Threads \ Jobs, NEW j \in Jobs, Alone({t}, j),
         \A u \in Threads \ {t} : Holds(u) => what[u] # j,
         Holds(t)' => what'[t] = j,
         stage[j] \in {"queued", "running", "cancelling"},
         stage'[j] \in {"running", "cancelling", "completed", "cancelled"},
         t \in Workers => WorkerFits(t)',
         t \notin Workers => CancellerFits(t)',
         HolderFits(t)', JobFits(j)'
  PROVE  Inv'
  <1>1. j \in Threads /\ j # t
    BY DEF Threads
  <1>2. code[j] \notin OwnCodes
    <2>1. what[j] = j
      BY DEF Inv, SubmitterFits
    <2> QED
      BY <1>1, <2>1 DEF Holds, HolderCodes
  <1>3. SubmitterFits(j)'
    BY <1>1, <1>2, SubmitterUnmoved DEF Alone
  <1>4. /\ \A i \in Jobs \ {t, j} : (SubmitterFits(i) /\ JobFits(i))'
        /\ \A w \in Workers \ {t} : WorkerFits(w)'
        /\ \A u \in (Tickets \cup {Stopper}) \ {t} : CancellerFits(u)'
        /\ \A u \in Threads \ {t} : HolderFits(u)'
        /\ SoleHolder' /\ RequestsFit'
    BY OthersFit
  <1>5. t \in Tickets \cup {Stopper} => t \notin Workers
    BY PartsAssumption
  <1> QED
    BY <1>3, <1>4, <1>5 DEF Inv, Alone

\* A step of the job's submitter.
LEMMA InsideStep ==
  ASSUME Inv, NEW j \in Jobs, Alone({j}, j),
         \A u \in Threads \ {j} : Holds(u) => what[u] # j,
         SubmitterFits(j)', JobFits(j)', HolderFits(j)'
  PROVE  Inv'
  <1> USE PartsAssumption
  <1>1. j \in Threads /\ j \notin Workers /\ j \notin Tickets \cup {Stopper} /\ what'[j] = j
    BY DEF Threads, SubmitterFits
  <1>2. /\ \A i \in Jobs \ {j} : (SubmitterFits(i) /\ JobFits(i))'
        /\ \A w \in Workers \ {j} : WorkerFits(w)'
        /\ \A u \in (Tickets \cup {Stopper}) \ {j} : CancellerFits(u)'
        /\ \A u \in Threads \ {j} : HolderFits(u)'
        /\ SoleHolder' /\ RequestsFit'
    BY <1>1, OthersFit
  <1> QED
    BY <1>1, <1>2 DEF Inv, Alone

\* A job that nobody has taken.
LEMMA Unheld ==
  ASSUME Inv, NEW j \in Jobs, stage[j] \notin {"running", "cancelling"}
  PROVE  \A u \in Threads : Holds(u) => what[u] # j
  BY DEF Inv, HolderFits

-----------------------------------------------------------------------------
\* The steps of a thread's code.

\* Which user code a thread can be in.
LEMMA InUserPlace ==
  ASSUME Inv, NEW t \in Threads, code[t] # <<>>, Head(code[t]) \in UserCode
  PROVE  code[t] \in UserPlaces
  <1>1. CASE t \in Jobs
    BY <1>1, Heads DEF Inv, SubmitterFits, OwnCodes, UserPlaces, UserCode
  <1>2. CASE t \in Workers
    BY <1>2, Heads DEF Inv, WorkerFits, CancelCodes, RunCodes, UserPlaces, UserCode
  <1>3. CASE t \in Tickets \cup {Stopper}
    BY <1>3, Heads DEF Inv, CancellerFits, CancelCodes, UserPlaces, UserCode
  <1> QED
    BY <1>1, <1>2, <1>3 DEF Threads

\* User code, whether it returns or panics, leads to the same place, and no thread dies.
LEMMA UserStep ==
  ASSUME Inv, NEW t \in Threads, Returns(t) \/ Panics(t)
  PROVE  /\ code[t] \in UserPlaces /\ EndsUserCode(t)
         /\ code' = [code EXCEPT ![t] = Skip(Tail(code[t]))]
         /\ UNCHANGED <<inside, worker>>
         /\ unwound' \in [Threads -> BOOLEAN] /\ \A u \in Threads \ {t} : unwound'[u] = unwound[u]
  <1>1. code[t] \in UserPlaces /\ EndsUserCode(t)
    BY InUserPlace DEF Returns, Panics
  <1>2. unwound' \in [Threads -> BOOLEAN] /\ \A u \in Threads \ {t} : unwound'[u] = unwound[u]
    BY DEF Inv, Types, Returns, Panics
  <1>3. CASE Returns(t)
    BY <1>1, <1>2, <1>3 DEF Returns, Continue, Does
  <1>4. CASE Panics(t)
    <2>1. Enclosing(code[t]) # {} /\ Skip(Suffix(code[t], 1 + Min(Enclosing(code[t])))) = Skip(Tail(code[t]))
      BY <1>1, PanicsAreCaught
    <2> QED
      BY <1>1, <1>2, <1>4, <2>1 DEF Panics, Does
  <1> QED
    BY <1>3, <1>4

\* What a step of its code does to the job of the thread.
LEMMA CodeAlone ==
  ASSUME Inv, NEW t \in Threads, NEW j \in Jobs, what[t] = j, CodeStep(t)
  PROVE  Alone({t}, j) /\ what' = what /\ worker' = worker /\ inside' = inside
  <1>1. CASE Returns(t) \/ Panics(t)
    BY <1>1, UserStep DEF EndsUserCode, Alone, Inv, Types, pool
  <1>2. CASE SlotStep(t)
    BY <1>2 DEF SlotStep, Alone, Inv, Types, pool, Continue, Does
  <1>3. CASE Finish(t)
    BY <1>3 DEF Finish, Alone, Inv, Types, pool, Continue, Does, Stages
  <1> QED
    BY <1>1, <1>2, <1>3 DEF CodeStep

\* The user code of a holder.
LEMMA HolderUserCode ==
  ASSUME Inv, NEW t \in Threads, Holds(t), Returns(t) \/ Panics(t), NEW j, j = what[t]
  PROVE  /\ j \in Jobs /\ stage' = stage /\ slot' = slot /\ kind' = kind /\ what' = what
         /\ \/ /\ code[t] = AtHookOfCallable /\ code'[t] = AtSlotStart /\ called' = called /\ parts' = parts
            \/ /\ code[t] = AtRunCallable /\ code'[t] = AtSlotFinish
               /\ called' = [called EXCEPT ![j] = Append(@, "run")]
            \/ /\ code[t] = AtHook /\ code'[t] = AtRun /\ called' = called /\ parts' = parts
            \/ /\ code[t] = AtRun /\ code'[t] = AtDrop
               /\ called' = [called EXCEPT ![j] = Append(@, "run")]
            \/ /\ code[t] = AtDrop /\ code'[t] = AtAfterHook /\ called' = called /\ parts'[j] = {}
            \/ /\ code[t] = AtAfterHook /\ code'[t] = AtFinish /\ called' = called /\ parts' = parts
            \/ /\ code[t] = AtCancel /\ code'[t] = AtCancelDrop
               /\ called' = [called EXCEPT ![j] = Append(@, "cancel")]
            \/ /\ code[t] = AtCancelDrop /\ code'[t] = AtFinish /\ called' = called /\ parts'[j] = {}
            \/ /\ code[t] = AtOwnCancel /\ code'[t] = AtOwnDrop
               /\ called' = [called EXCEPT ![j] = Append(@, "cancel")]
            \/ /\ code[t] = AtOwnDrop /\ code'[t] = AtOwnFinish /\ called' = called /\ parts'[j] = {}
  <1>1. j \in Jobs /\ DOMAIN code = Threads /\ DOMAIN parts = Jobs
    BY DEF Inv, HolderFits, Types
  <1>2. EndsUserCode(t) /\ code'[t] = Skip(Tail(code[t])) /\ code[t] \in HolderCodes /\ Head(code[t]) \in UserCode
    BY <1>1, UserStep DEF Holds, Returns, Panics
  <1>3. stage' = stage /\ slot' = slot /\ kind' = kind /\ what' = what
    BY <1>2 DEF EndsUserCode, pool
  <1>4. /\ parts' = CASE Head(code[t]) = "drop" -> [parts EXCEPT ![j] = {}]
                      [] Head(code[t]) \in {"accept", "run", "cancel"} -> [parts EXCEPT ![j] = @ \ {Head(code[t])}]
                      [] OTHER -> parts
        /\ called' = IF Head(code[t]) \in {"accept", "run", "cancel"}
                     THEN [called EXCEPT ![j] = Append(@, Head(code[t]))] ELSE called
    BY <1>2 DEF EndsUserCode
  <1>5. code[t] \in {AtHookOfCallable, AtRunCallable, AtHook, AtRun, AtDrop, AtAfterHook, AtCancel, AtCancelDrop,
                     AtOwnCancel, AtOwnDrop}
    BY <1>2, Heads DEF HolderCodes, OwnCodes, CancelCodes, RunCodes, UserCode
  <1>6. CASE code[t] \in {AtHookOfCallable, AtHook, AtAfterHook}
    BY <1>1, <1>2, <1>3, <1>4, <1>6, Heads, Follows
  <1>7. CASE code[t] \in {AtDrop, AtCancelDrop, AtOwnDrop}
    BY <1>1, <1>2, <1>3, <1>4, <1>7, Heads, Follows
  <1>8. CASE code[t] \in {AtRunCallable, AtRun}
    <2>1. called' = [called EXCEPT ![j] = Append(@, "run")]
      BY <1>4, <1>8, Heads
    <2> QED
      BY <1>1, <1>2, <1>3, <1>8, <2>1, Follows
  <1>9. CASE code[t] \in {AtCancel, AtOwnCancel}
    <2>1. called' = [called EXCEPT ![j] = Append(@, "cancel")]
      BY <1>4, <1>9, Heads
    <2> QED
      BY <1>1, <1>2, <1>3, <1>9, <2>1, Follows
  <1> QED
    BY <1>5, <1>6, <1>7, <1>8, <1>9

\* The end of a job's code, and of its handle's.
LEMMA HolderOtherCode ==
  ASSUME Inv, NEW t \in Threads, Holds(t), SlotStep(t) \/ Finish(t), NEW j, j = what[t]
  PROVE  /\ j \in Jobs /\ called' = called /\ parts' = parts /\ kind' = kind /\ what' = what
         /\ \/ /\ code[t] = AtSlotStart /\ slot[j] = "accepted" /\ code'[t] = AtRunCallable
               /\ slot' = [slot EXCEPT ![j] = "started"] /\ stage' = stage
            \/ /\ code[t] = AtSlotStart /\ slot[j] = "cancelled" /\ code'[t] = AtDrop /\ slot' = slot /\ stage' = stage
            \/ /\ code[t] = AtSlotFinish /\ code'[t] = AtDrop
               /\ slot' = [slot EXCEPT ![j] = "done"] /\ stage' = stage
            \/ /\ code[t] = AtSlotCancel /\ code'[t] = AtCancelDrop
               /\ slot' = [slot EXCEPT ![j] = IF @ = "accepted" THEN "cancelled" ELSE @] /\ stage' = stage
            \/ /\ code[t] = AtFinish /\ code'[t] = <<>> /\ slot' = slot
               /\ stage' = [stage EXCEPT ![j] = IF @ = "running" THEN "completed" ELSE "cancelled"]
            \/ /\ code[t] = AtOwnFinish /\ code'[t] = AtLeave /\ slot' = slot
               /\ stage' = [stage EXCEPT ![j] = IF @ = "running" THEN "completed" ELSE "cancelled"]
  <1>1. j \in Jobs /\ DOMAIN code = Threads /\ code[t] \in HolderCodes
    BY DEF Inv, HolderFits, Types, Holds
  <1>2. CASE SlotStep(t)
    <2>1. code[t] \in {AtSlotStart, AtSlotFinish, AtSlotCancel}
      BY <1>1, <1>2, Heads DEF SlotStep, At, HolderCodes, OwnCodes, CancelCodes, RunCodes
    <2>2. called' = called /\ parts' = parts /\ kind' = kind /\ what' = what /\ stage' = stage
      BY <1>2 DEF SlotStep, pool
    <2>3. CASE code[t] = AtSlotStart
      <3>1. \/ slot[j] = "accepted" /\ slot' = [slot EXCEPT ![j] = "started"] /\ Continue(t)
            \/ /\ slot[j] = "cancelled" /\ slot' = slot
               /\ Does(t, Suffix(code[t], Min({i \in DOMAIN code[t] : code[t][i] = "drop"})))
        BY <1>2, <2>3, Heads DEF SlotStep, At
      <3> QED
        BY <1>1, <2>2, <2>3, <3>1, Follows, Unrun DEF Continue, Does
    <2>4. CASE code[t] = AtSlotFinish
      <3>1. slot' = [slot EXCEPT ![j] = "done"] /\ Continue(t)
        BY <1>2, <2>4, Heads DEF SlotStep, At
      <3> QED
        BY <1>1, <2>2, <2>4, <3>1, Follows DEF Continue, Does
    <2>5. CASE code[t] = AtSlotCancel
      <3>1. slot' = [slot EXCEPT ![j] = IF @ = "accepted" THEN "cancelled" ELSE @] /\ Continue(t)
        BY <1>2, <2>5, Heads DEF SlotStep, At
      <3> QED
        BY <1>1, <2>2, <2>5, <3>1, Follows DEF Continue, Does
    <2> QED
      BY <2>1, <2>3, <2>4, <2>5
  <1>3. CASE Finish(t)
    <2>1. code[t] \in {AtFinish, AtOwnFinish}
      BY <1>1, <1>3, Heads DEF Finish, At, HolderCodes, OwnCodes, CancelCodes, RunCodes
    <2>2. called' = called /\ parts' = parts /\ kind' = kind /\ what' = what /\ slot' = slot
      BY <1>3 DEF Finish, pool
    <2>3. /\ stage' = [stage EXCEPT ![j] = IF @ = "running" THEN "completed" ELSE "cancelled"]
          /\ code'[t] = Skip(Tail(code[t]))
      BY <1>1, <1>3 DEF Finish, Continue, Does
    <2> QED
      BY <1>1, <2>1, <2>2, <2>3, Follows
  <1> QED
    BY <1>2, <1>3

\* The places of a holder are told apart by their first instruction and the rest.
LEMMA PlacesDiffer ==
  /\ <<>> \notin HolderCodes /\ AtLeave \notin HolderCodes /\ AtEnqueue \notin HolderCodes
  /\ AtStartHook \notin HolderCodes /\ AtStopHook \notin HolderCodes /\ AtExit \notin HolderCodes
  /\ AtInflight \notin HolderCodes
  /\ AtReserve \notin HolderCodes /\ AtAccept \notin HolderCodes /\ AtSlotAccept \notin HolderCodes
  /\ AtRefuse \notin HolderCodes /\ AtDiscard \notin HolderCodes /\ AtDiscard # AtLeave /\ AtDiscard # <<>>
  /\ AtRunCallable # AtRun /\ AtHookOfCallable # AtHook /\ AtDrop # AtCancelDrop /\ AtDrop # AtOwnDrop
  <1> USE DEF HolderCodes, OwnCodes, CancelCodes, RunCodes
  <1>1. /\ <<>> \notin HolderCodes /\ AtLeave \notin HolderCodes /\ AtEnqueue \notin HolderCodes
        /\ AtStartHook \notin HolderCodes /\ AtStopHook \notin HolderCodes /\ AtExit \notin HolderCodes
        /\ AtInflight \notin HolderCodes
        /\ AtReserve \notin HolderCodes /\ AtAccept \notin HolderCodes /\ AtSlotAccept \notin HolderCodes
        /\ AtDiscard # AtLeave /\ AtDiscard # <<>>
    BY Heads
  <1>2. AtRefuse \notin {AtDrop, AtCancelDrop, AtOwnDrop} /\ AtDiscard \notin {AtDrop, AtCancelDrop, AtOwnDrop}
    BY DEF AtRefuse, AtDiscard, AtDrop, AtCancelDrop, AtOwnDrop
  <1>3. AtRefuse \notin HolderCodes /\ AtDiscard \notin HolderCodes
    BY <1>2, Heads
  <1>4. AtRunCallable # AtRun /\ AtDrop # AtCancelDrop /\ AtDrop # AtOwnDrop
    BY DEF AtRunCallable, AtRun, AtDrop, AtCancelDrop, AtOwnDrop
  <1>5. AtHookOfCallable # AtHook
    BY DEF AtHookOfCallable, AtHook
  <1> QED
    BY <1>1, <1>3, <1>4, <1>5

LEMMA AtFinishDiffers == AtFinish # AtOwnFinish
  BY DEF AtFinish, AtOwnFinish

LEMMA DropsDiffer == AtCancelDrop # AtOwnDrop /\ AtCancel # AtOwnCancel
  BY DEF AtCancelDrop, AtOwnDrop, AtCancel, AtOwnCancel

LEMMA RefusalsDiffer == AtRefuse # AtDiscard
  BY DEF AtRefuse, AtDiscard

\* A holder's step fits its job again, or has settled it.
LEMMA HolderProgress ==
  ASSUME Inv, NEW t \in Threads, Holds(t), CodeStep(t), NEW j, j = what[t]
  PROVE  /\ j \in Jobs /\ HolderFits(t)' /\ JobFits(j)'
         /\ \/ stage'[j] = stage[j] /\ code[t] \notin {AtFinish, AtOwnFinish}
            \/ stage'[j] \in {"completed", "cancelled"} /\ code'[t] = <<>> /\ code[t] = AtFinish
            \/ stage'[j] = "cancelled" /\ code'[t] = AtLeave /\ code[t] = AtOwnFinish
  <1> DEFINE runs == stage[j] = "running" /\ RunFits(j, code[t])
             cancels == stage[j] = "cancelling" /\ CancelFits(j, code[t])
  <1>0. /\ j \in Jobs /\ HolderFits(t) /\ JobFits(j) /\ (runs \/ cancels) /\ code[t] \in HolderCodes
        /\ DOMAIN called = Jobs /\ DOMAIN slot = Jobs /\ DOMAIN parts = Jobs /\ stage \in [Jobs -> Stages]
        /\ what[t] = j
    BY DEF Inv, HolderFits, Types, Holds
  <1>1. CASE Returns(t) \/ Panics(t)
    <2>1. /\ stage' = stage /\ slot' = slot /\ kind' = kind /\ what'[t] = j
      BY <1>1, HolderUserCode
    <2>2. JobFits(j)'
      BY <1>0, <2>1 DEF JobFits, Callable
    <2>3. Holds(t)' => what'[t] = j /\ what'[t] \in Jobs
      BY <1>0, <2>1
    <2>4. CASE code[t] \in {AtHookOfCallable, AtHook, AtAfterHook}
      <3>1. /\ called' = called /\ parts' = parts
            /\ \/ code[t] = AtHookOfCallable /\ code'[t] = AtSlotStart
               \/ code[t] = AtHook /\ code'[t] = AtRun
               \/ code[t] = AtAfterHook /\ code'[t] = AtFinish
        BY <1>1, <2>4, HolderUserCode, Heads, PlacesDiffer
      <3>2. runs
        BY <1>0, <2>4, Heads DEF CancelFits
      <3>3. RunFits(j, code[t])' /\ stage'[j] = "running"
        BY <2>1, <3>1, <3>2, Heads, PlacesDiffer DEF RunFits, Callable, Untouched, WasRun, Accepted
      <3> QED
        BY <1>0, <2>1, <2>2, <2>4, <3>3, Heads DEF HolderFits
    <2>5. CASE code[t] \in {AtRunCallable, AtRun}
      <3>1. /\ called'[j] = Append(called[j], "run")
            /\ \/ code[t] = AtRunCallable /\ code'[t] = AtSlotFinish
               \/ code[t] = AtRun /\ code'[t] = AtDrop
        BY <1>0, <1>1, <2>5, HolderUserCode, Heads, PlacesDiffer
      <3>2. runs
        BY <1>0, <2>5, Heads DEF CancelFits
      <3>3. CASE code[t] = AtRunCallable
        <4>1. Callable(j) /\ called[j] = <<>> /\ slot[j] = "started"
          BY <3>2, <3>3, Heads, PlacesDiffer DEF RunFits
        <4> QED
          BY <1>0, <2>1, <2>2, <3>1, <3>2, <3>3, <4>1, Heads, PlacesDiffer, Calls DEF RunFits, Callable, HolderFits
      <3>4. CASE code[t] = AtRun
        <4>1. ~Callable(j) /\ called[j] = Accepted(j) /\ slot[j] = "absent"
          BY <1>0, <3>2, <3>4, Heads, PlacesDiffer DEF RunFits, JobFits, Untouched
        <4>2. called'[j] = Accepted(j) \o <<"run">> /\ Accepted(j)' = Accepted(j)
          BY <2>1, <3>1, <4>1, Calls, Acceptance DEF Accepted
        <4>3. WasRun(j)'
          BY <2>1, <4>1, <4>2 DEF WasRun, Callable
        <4> QED
          BY <1>0, <2>1, <2>2, <3>1, <3>2, <3>4, <4>3, Heads, PlacesDiffer DEF RunFits, HolderFits
      <3> QED
        BY <2>5, <3>3, <3>4
    <2>6. CASE code[t] \in {AtDrop, AtCancelDrop, AtOwnDrop}
      <3>1. /\ called' = called /\ parts'[j] = {}
            /\ \/ code[t] = AtDrop /\ code'[t] = AtAfterHook
               \/ code[t] = AtCancelDrop /\ code'[t] = AtFinish
               \/ code[t] = AtOwnDrop /\ code'[t] = AtOwnFinish
        <4>1. \/ code[t] = AtDrop /\ code'[t] = AtAfterHook /\ called' = called /\ parts'[j] = {}
              \/ code[t] = AtCancelDrop /\ code'[t] = AtFinish /\ called' = called /\ parts'[j] = {}
              \/ code[t] = AtOwnDrop /\ code'[t] = AtOwnFinish /\ called' = called /\ parts'[j] = {}
              \/ code[t] \in {AtHookOfCallable, AtRunCallable, AtHook, AtRun, AtAfterHook, AtCancel, AtOwnCancel}
          BY <1>1, HolderUserCode
        <4>2. code[t] \notin {AtHookOfCallable, AtRunCallable, AtHook, AtRun, AtAfterHook, AtCancel, AtOwnCancel}
          BY <2>6, Heads
        <4> QED
          BY <4>1, <4>2
      <3>2. CASE code[t] = AtDrop
        <4>1. runs /\ WasRun(j)
          BY <1>0, <3>2, Heads, PlacesDiffer DEF RunFits, CancelFits
        <4>2. RunFits(j, code[t])' /\ stage'[j] = "running"
          BY <2>1, <3>1, <3>2, <4>1, PlacesDiffer DEF RunFits, Callable, WasRun, Accepted
        <4> QED
          BY <1>0, <2>1, <2>2, <3>2, <4>2, Heads DEF HolderFits
      <3>3. CASE code[t] \in {AtCancelDrop, AtOwnDrop}
        <4>1. cancels /\ WasCancelled(j)
          BY <1>0, <3>3, Heads, PlacesDiffer DEF RunFits, CancelFits
        <4>2. CancelFits(j, code[t])' /\ stage'[j] = "cancelling"
          BY <2>1, <3>1, <3>3, <4>1, PlacesDiffer DEF CancelFits, Callable, Custom, WasCancelled
        <4> QED
          BY <1>0, <2>1, <2>2, <3>3, <4>2, Heads DEF HolderFits
      <3> QED
        BY <2>6, <3>2, <3>3
    <2>7. CASE code[t] \in {AtCancel, AtOwnCancel}
      <3>1. /\ called'[j] = Append(called[j], "cancel")
            /\ \/ code[t] = AtCancel /\ code'[t] = AtCancelDrop
               \/ code[t] = AtOwnCancel /\ code'[t] = AtOwnDrop
        BY <1>0, <1>1, <2>7, HolderUserCode, Heads, PlacesDiffer
      <3>2. cancels /\ Custom(j) /\ called[j] = Accepted(j) /\ ~Callable(j)
        BY <1>0, <2>7, Heads DEF RunFits, CancelFits, Custom, Callable, Untouched
      <3>3. called'[j] = <<"accept", "cancel">>
        BY <1>0, <3>1, <3>2, Calls, Acceptance
      <3>4. CancelFits(j, code[t])' /\ stage'[j] = "cancelling"
        BY <2>1, <3>1, <3>2, <3>3 DEF CancelFits, Callable, Custom, WasCancelled
      <3> QED
        BY <1>0, <2>1, <2>2, <2>7, <3>4, Heads DEF HolderFits
    <2>8. code[t] \in {AtHookOfCallable, AtRunCallable, AtHook, AtRun, AtDrop, AtAfterHook, AtCancel, AtCancelDrop,
                       AtOwnCancel, AtOwnDrop}
      BY <1>1, HolderUserCode
    <2> QED
      BY <2>4, <2>5, <2>6, <2>7, <2>8
  <1>2. CASE SlotStep(t) \/ Finish(t)
    <2>1. called' = called /\ parts' = parts /\ kind' = kind /\ what'[t] = j
      BY <1>2, HolderOtherCode
    <2>2. CASE code[t] \in {AtSlotStart, AtSlotFinish}
      <3>1. /\ stage' = stage
            /\ \/ /\ code[t] = AtSlotStart /\ slot[j] = "accepted" /\ code'[t] = AtRunCallable /\ slot'[j] = "started"
               \/ /\ code[t] = AtSlotStart /\ slot[j] = "cancelled" /\ code'[t] = AtDrop /\ slot'[j] = slot[j]
               \/ /\ code[t] = AtSlotFinish /\ code'[t] = AtDrop /\ slot'[j] = "done"
        BY <1>0, <1>2, <2>2, HolderOtherCode, Heads
      <3>2. runs /\ Callable(j) /\ ~Custom(j) /\ Accepted(j) = <<>>
        BY <1>0, <2>2, Heads, Acceptance DEF RunFits, CancelFits, Callable, Custom
      <3>3. /\ code[t] = AtSlotStart => called[j] = <<>>
            /\ code[t] = AtSlotFinish => called[j] = <<"run">>
        BY <3>2, Heads DEF RunFits, Untouched
      <3>4. RunFits(j, code[t])' /\ stage'[j] = "running"
        BY <2>1, <3>1, <3>2, <3>3, Calls DEF RunFits, Callable, WasRun, Accepted
      <3>5. JobFits(j)'
        BY <2>1, <3>2, <3>4 DEF JobFits, Callable
      <3> QED
        BY <1>0, <2>1, <2>2, <3>1, <3>4, <3>5, Heads DEF HolderFits
    <2>3. CASE code[t] = AtSlotCancel
      <3>1. /\ stage' = stage /\ code'[t] = AtCancelDrop
            /\ slot'[j] = IF slot[j] = "accepted" THEN "cancelled" ELSE slot[j]
        BY <1>0, <1>2, <2>3, HolderOtherCode, Heads
      <3>2. cancels /\ Callable(j) /\ ~Custom(j) /\ called[j] = <<>> /\ slot[j] \in {"accepted", "cancelled"}
        BY <1>0, <2>3, Heads, Acceptance DEF RunFits, CancelFits, Callable, Custom, Untouched
      <3>3. CancelFits(j, code[t])' /\ stage'[j] = "cancelling"
        BY <2>1, <3>1, <3>2 DEF CancelFits, Callable, Custom, WasCancelled
      <3>4. JobFits(j)'
        BY <2>1, <3>2, <3>3 DEF JobFits, Callable
      <3> QED
        BY <1>0, <2>1, <2>3, <3>1, <3>3, <3>4, Heads DEF HolderFits
    <2>4. CASE code[t] \in {AtFinish, AtOwnFinish}
      <3>1. /\ slot' = slot /\ stage'[j] = IF stage[j] = "running" THEN "completed" ELSE "cancelled"
            /\ \/ code[t] = AtFinish /\ code'[t] = <<>>
               \/ code[t] = AtOwnFinish /\ code'[t] = AtLeave
        BY <1>0, <1>2, <2>4, HolderOtherCode, Heads
      <3>2. /\ parts[j] = {}
            /\ \/ stage[j] = "running" /\ WasRun(j) /\ code[t] = AtFinish
               \/ stage[j] = "cancelling" /\ WasCancelled(j)
        BY <1>0, <2>4, Heads, PlacesDiffer, AtFinishDiffers DEF RunFits, CancelFits
      <3>3. (WasRun(j) => WasRun(j)') /\ (WasCancelled(j) => WasCancelled(j)')
        BY <2>1, <3>1 DEF WasRun, WasCancelled, Callable, Custom, Accepted
      <3>4. JobFits(j)'
        BY <1>0, <2>1, <3>1, <3>2, <3>3 DEF JobFits, Callable
      <3>5. ~Holds(t)'
        BY <3>1, PlacesDiffer DEF Holds
      <3> QED
        BY <1>0, <3>1, <3>2, <3>4, <3>5, AtFinishDiffers DEF HolderFits
    <2>5. code[t] \in {AtSlotStart, AtSlotFinish, AtSlotCancel, AtFinish, AtOwnFinish}
      BY <1>2, HolderOtherCode
    <2> QED
      BY <2>2, <2>3, <2>4, <2>5
  <1> QED
    BY <1>1, <1>2 DEF CodeStep

-----------------------------------------------------------------------------
\* The steps of every thread keep the invariant.

LEMMA HolderStep ==
  ASSUME Inv, NEW t \in Threads, Holds(t), CodeStep(t)
  PROVE  Inv'
  <1> PICK j : j = what[t]
    OBVIOUS
  <1>1. /\ j \in Jobs /\ HolderFits(t)' /\ JobFits(j)'
        /\ \/ stage'[j] = stage[j] /\ code[t] \notin {AtFinish, AtOwnFinish}
           \/ stage'[j] \in {"completed", "cancelled"} /\ code'[t] = <<>> /\ code[t] = AtFinish
           \/ stage'[j] = "cancelled" /\ code'[t] = AtLeave /\ code[t] = AtOwnFinish
    BY HolderProgress
  <1>2. Alone({t}, j) /\ what'[t] = j /\ worker' = worker /\ inside' = inside
    BY <1>1, CodeAlone
  <1>3. \A u \in Threads \ {t} : Holds(u) => what[u] # j
    BY DEF Inv, SoleHolder
  <1>4. stage[j] \in {"running", "cancelling"} /\ code[t] \in HolderCodes
    BY DEF Inv, HolderFits, Holds
  <1>5. CASE t \in Jobs
    <2>1. t = j /\ code[t] \in OwnCodes /\ j \in inside /\ stage[j] = "cancelling" /\ Custom(j)
      BY <1>4, <1>5, Heads, PlacesDiffer DEF Inv, SubmitterFits
    <2>2. \/ stage'[j] = "cancelling" /\ code'[t] \in OwnCodes
          \/ stage'[j] = "cancelled" /\ code'[t] = AtLeave
      <3>1. CASE Returns(t) \/ Panics(t)
        <4>1. \/ code[t] = AtOwnCancel /\ code'[t] = AtOwnDrop
              \/ code[t] = AtOwnDrop /\ code'[t] = AtOwnFinish
              \/ code[t] \notin OwnCodes
          BY <3>1, HolderUserCode, Heads, PlacesDiffer, DropsDiffer DEF OwnCodes
        <4> QED
          BY <1>1, <2>1, <4>1, Heads DEF OwnCodes
      <3>2. CASE SlotStep(t) \/ Finish(t)
        BY <1>1, <2>1, <3>2, HolderOtherCode, Heads, AtFinishDiffers DEF OwnCodes
      <3> QED
        BY <3>1, <3>2 DEF CodeStep
    <2>3. SubmitterFits(j)'
      BY <1>2, <2>1, <2>2 DEF SubmitterFits, Custom, Alone
    <2> QED
      BY <1>1, <1>2, <1>3, <1>5, <2>1, <2>3, InsideStep
  <1>6. CASE t \notin Jobs
    <2>1. /\ t \in Workers => code[t] \in CancelCodes \cup RunCodes /\ worker[t] = "live"
          /\ t \notin Workers => code[t] \in CancelCodes
      BY <1>4, <1>6, PlacesDiffer DEF Inv, WorkerFits, CancellerFits, Threads
    <2>2. /\ code[t] \in CancelCodes => code'[t] \in CancelCodes \cup {<<>>}
          /\ code[t] \in RunCodes => code'[t] \in RunCodes \cup {<<>>}
      <3>1. CASE Returns(t) \/ Panics(t)
        <4>1. \/ code[t] \in RunCodes /\ code'[t] \in RunCodes /\ code[t] \notin CancelCodes
              \/ code[t] \in CancelCodes /\ code'[t] \in CancelCodes /\ code[t] \notin RunCodes
              \/ code[t] \in OwnCodes /\ code[t] \notin CancelCodes \cup RunCodes
          <5>1. \/ code[t] \in {AtHookOfCallable, AtRunCallable, AtHook, AtRun, AtAfterHook}
                   /\ code'[t] \in {AtSlotStart, AtSlotFinish, AtRun, AtDrop, AtFinish}
                \/ code[t] = AtDrop /\ code'[t] = AtAfterHook
                \/ code[t] = AtCancel /\ code'[t] = AtCancelDrop
                \/ code[t] = AtCancelDrop /\ code'[t] = AtFinish
                \/ code[t] = AtOwnCancel
                \/ code[t] = AtOwnDrop
            BY <3>1, HolderUserCode
          <5> QED
            BY <5>1, Heads, PlacesDiffer, DropsDiffer DEF CancelCodes, RunCodes, OwnCodes
        <4> QED
          BY <4>1
      <3>2. CASE SlotStep(t) \/ Finish(t)
        BY <3>2, HolderOtherCode, Heads, AtFinishDiffers DEF CancelCodes, RunCodes
      <3> QED
        BY <3>1, <3>2 DEF CodeStep
    <2>3. t \in Workers => WorkerFits(t)'
      BY <1>2, <2>1, <2>2 DEF WorkerFits
    <2>4. t \notin Workers => CancellerFits(t)'
      BY <2>1, <2>2 DEF CancellerFits
    <2>5. stage'[j] \in {"running", "cancelling", "completed", "cancelled"}
      BY <1>1, <1>4
    <2> QED
      BY <1>1, <1>2, <1>3, <1>4, <1>6, <2>3, <2>4, <2>5, OutsideStep
  <1> QED
    BY <1>5, <1>6

\* The code of a submitter before its job is published, or after it was refused.
LEMMA SubmitterCode ==
  ASSUME Inv, NEW j \in Jobs, ~Holds(j), CodeStep(j)
  PROVE  Inv'
  <1>0. j \in Threads /\ what[j] = j /\ SubmitterFits(j) /\ JobFits(j) /\ DOMAIN code = Threads /\ DOMAIN parts = Jobs
        /\ DOMAIN called = Jobs /\ DOMAIN slot = Jobs
    BY DEF Inv, SubmitterFits, Types, Threads
  <1>1. Alone({j}, j) /\ what' = what /\ inside' = inside /\ kind' = kind
    BY <1>0, CodeAlone DEF Alone
  <1>2. CASE Returns(j) \/ Panics(j)
    <2>1. /\ code[j] \in UserPlaces /\ EndsUserCode(j) /\ code'[j] = Skip(Tail(code[j]))
          /\ unwound' \in [Threads -> BOOLEAN]
      BY <1>0, <1>2, UserStep
    <2>2. stage' = stage /\ slot' = slot
      BY <2>1 DEF EndsUserCode
    <2>3. CASE code[j] \in {AtRefuse, AtDiscard}
      <3>1. called' = called /\ parts'[j] = {}
        BY <1>0, <2>1, <2>3, Heads DEF EndsUserCode
      <3>2. \/ code[j] = AtRefuse /\ code'[j] = <<>> /\ j \notin inside /\ stage[j] = "refused"
            \/ code[j] = AtDiscard /\ code'[j] = AtLeave /\ j \in inside /\ stage[j] \in {"refused", "rejected"}
        <4>1. AtRefuse # AtDiscard /\ AtRefuse \notin OwnCodes /\ AtDiscard \notin OwnCodes
          BY PlacesDiffer DEF HolderCodes, AtRefuse, AtDiscard
        <4> QED
          BY <1>0, <2>1, <2>3, <4>1, Heads, Follows DEF SubmitterFits
      <3>3. SubmitterFits(j)'
        BY <1>0, <1>1, <2>2, <3>2 DEF SubmitterFits
      <3>4. JobFits(j)'
        BY <1>0, <1>1, <2>2, <3>1, <3>2 DEF JobFits, Callable
      <3>5. HolderFits(j)'
        BY <3>2, PlacesDiffer DEF HolderFits, Holds
      <3> QED
        BY <1>1, <3>2, <3>3, <3>4, <3>5, InsideStep, Unheld
    <2>4. CASE code[j] = AtAccept
      <3>1. called'[j] = Append(called[j], "accept") /\ code'[j] = AtEnqueue
        BY <1>0, <2>1, <2>4, Heads, Follows DEF EndsUserCode
      <3>2. j \in inside /\ stage[j] = "reserved" /\ Custom(j) /\ called[j] = <<>>
        BY <1>0, <2>4, Heads DEF SubmitterFits, OwnCodes
      <3>3. called'[j] = Accepted(j) /\ Accepted(j)' = Accepted(j) /\ ~Callable(j)
        BY <1>1, <3>1, <3>2, Calls, Acceptance DEF Accepted, Custom, Callable
      <3>4. SubmitterFits(j)'
        BY <1>0, <1>1, <2>2, <3>1, <3>2, <3>3 DEF SubmitterFits, Untouched, Callable, Custom
      <3>5. JobFits(j)'
        BY <1>0, <1>1, <2>2, <3>2 DEF JobFits, Callable
      <3>6. HolderFits(j)'
        BY <3>1, PlacesDiffer DEF HolderFits, Holds
      <3> QED
        BY <1>1, <3>2, <3>4, <3>5, <3>6, InsideStep, Unheld
    <2>5. code[j] \in {AtRefuse, AtDiscard, AtAccept}
      <3>1. code[j] # <<>> /\ Head(code[j]) \in UserCode
        BY <1>2 DEF Returns, Panics
      <3> QED
        BY <1>0, <3>1, Heads DEF SubmitterFits, UserCode, Holds, HolderCodes
    <2> QED
      BY <2>3, <2>4, <2>5
  <1>3. CASE SlotStep(j)
    <2>1. code[j] = AtSlotAccept
      BY <1>0, <1>3, Heads DEF SlotStep, At, SubmitterFits, Holds, HolderCodes
    <2>2. /\ slot'[j] = "accepted" /\ code'[j] = AtEnqueue
          /\ stage' = stage /\ parts' = parts /\ called' = called /\ unwound' = unwound
      BY <1>0, <1>3, <2>1, Heads, Follows DEF SlotStep, At, Continue, Does
    <2>3. j \in inside /\ stage[j] = "reserved" /\ Callable(j) /\ called[j] = <<>> /\ ~unwound[j]
      BY <1>0, <2>1, Heads DEF SubmitterFits, OwnCodes
    <2>4. called'[j] = Accepted(j)'
      BY <1>1, <2>2, <2>3 DEF Accepted, Callable
    <2>5. SubmitterFits(j)'
      BY <1>0, <1>1, <2>2, <2>3, <2>4 DEF SubmitterFits, Untouched, Callable, Custom
    <2>6. JobFits(j)'
      BY <1>0, <1>1, <2>2, <2>3 DEF JobFits, Callable
    <2>7. HolderFits(j)'
      BY <2>2, PlacesDiffer DEF HolderFits, Holds
    <2> QED
      BY <1>1, <2>3, <2>5, <2>6, <2>7, InsideStep, Unheld
  <1>4. CASE Finish(j)
    BY <1>0, <1>4, Heads DEF Finish, At, SubmitterFits, Holds, HolderCodes
  <1> QED
    BY <1>2, <1>3, <1>4 DEF CodeStep

\* A worker's step that moves no job.
LEMMA JoblessStep ==
  ASSUME Inv, NEW w \in Workers, Alone({w}, w), WorkerFits(w)', ~Holds(w)'
  PROVE  Inv'
  <1> USE PartsAssumption
  <1>1. w \in Threads /\ w \notin Jobs /\ w \notin Tickets \cup {Stopper} /\ HolderFits(w)'
    BY DEF Threads, HolderFits
  <1>2. \A u \in Threads : Holds(u) => what[u] # w
    BY <1>1 DEF Inv, HolderFits
  <1>3. /\ \A i \in Jobs : (SubmitterFits(i) /\ JobFits(i))'
        /\ \A x \in Workers \ {w} : WorkerFits(x)'
        /\ \A u \in Tickets \cup {Stopper} : CancellerFits(u)'
        /\ \A u \in Threads \ {w} : HolderFits(u)'
        /\ SoleHolder' /\ RequestsFit'
    BY <1>1, <1>2, OthersFit
  <1> QED
    BY <1>1, <1>3 DEF Inv, Alone

\* The hooks of a worker outside jobs.
LEMMA HookStep ==
  ASSUME Inv, NEW w \in Workers, ~Holds(w), CodeStep(w)
  PROVE  Inv'
  <1>0. w \in Threads /\ WorkerFits(w) /\ DOMAIN code = Threads /\ Types
    BY DEF Inv, Types, Threads
  <1>1. code[w] # <<>> /\ code[w] \in {AtStartHook, AtStopHook, AtExit, AtInflight}
    BY <1>0 DEF WorkerFits, CodeStep, Returns, Panics, SlotStep, Finish, At, Holds, HolderCodes
  <1>2. Returns(w) \/ Panics(w)
    BY <1>1, Heads DEF CodeStep, SlotStep, Finish, At
  <1>3. /\ code[w] \in {AtStartHook, AtStopHook} /\ EndsUserCode(w)
        /\ code' = [code EXCEPT ![w] = Skip(Tail(code[w]))]
        /\ UNCHANGED <<inside, worker>>
        /\ unwound' \in [Threads -> BOOLEAN] /\ \A u \in Threads \ {w} : unwound'[u] = unwound[u]
    BY <1>0, <1>1, <1>2, UserStep, Heads DEF Returns, Panics, UserCode
  <1>4. UNCHANGED <<kind, requested, stage, parts, called, slot, what>>
    BY <1>3, Heads DEF EndsUserCode, pool
  <1>5. Alone({w}, w)
    BY <1>0, <1>3, <1>4 DEF Alone, Types
  <1>6. code'[w] = IF code[w] = AtStartHook THEN <<>> ELSE AtExit
    BY <1>0, <1>3, Follows
  <1>7. WorkerFits(w)' /\ ~Holds(w)'
    BY <1>0, <1>3, <1>6, Heads, PlacesDiffer DEF WorkerFits, Holds, CancelCodes, RunCodes
  <1> QED
    BY <1>5, <1>7, JoblessStep

\* Every step of a thread's code.
LEMMA CodeStepInv ==
  ASSUME Inv, NEW t \in Threads, CodeStep(t)
  PROVE  Inv'
  <1>1. code[t] # <<>>
    BY DEF CodeStep, Returns, Panics, SlotStep, Finish, At
  <1>2. t \in Tickets \cup {Stopper} => Holds(t)
    BY <1>1 DEF Inv, CancellerFits, Holds, HolderCodes
  <1> QED
    BY <1>2, HolderStep, SubmitterCode, HookStep DEF Threads

\* The worker's thread starts, looks for a reason to exit, and ends.
LEMMA WorkerLife ==
  ASSUME Inv, NEW w \in Workers, SpawnWorker(w) \/ LoadQueued(w) \/ LoadInflight(w) \/ ExitOnStop(w) \/ Exit(w)
  PROVE  Inv'
  <1>0. w \in Threads /\ WorkerFits(w) /\ DOMAIN code = Threads /\ DOMAIN worker = Workers /\ Types
    BY DEF Inv, Types, Threads
  <1>1. Alone({w}, w)
    BY <1>0 DEF SpawnWorker, Spawn, LoadQueued, LoadInflight, ExitOnStop, Exits, Exit, Does, Continue, Alone, Types, pool
  <1>2. CASE SpawnWorker(w)
    <2>1. code'[w] = AtStartHook /\ worker'[w] = "live"
      BY <1>0, <1>2, Beginnings DEF SpawnWorker, Spawn, Does
    <2> QED
      BY <1>1, <2>1, PlacesDiffer, JoblessStep DEF WorkerFits, Holds
  <1>3. CASE Exits(w)
    <2>1. code'[w] = AtStopHook /\ worker'[w] = "exiting"
      BY <1>0, <1>3, Beginnings DEF Exits, Does
    <2> QED
      BY <1>1, <2>1, PlacesDiffer, JoblessStep DEF WorkerFits, Holds
  <1>4. CASE Exit(w)
    <2>1. code[w] = AtExit
      BY <1>0, <1>4, Heads DEF Exit, At, WorkerFits, CancelCodes, RunCodes
    <2>2. code'[w] = <<>> /\ worker'[w] = "gone"
      BY <1>0, <1>4, <2>1, Follows DEF Exit, Continue, Does
    <2> QED
      BY <1>1, <2>2, PlacesDiffer, JoblessStep DEF WorkerFits, Holds
  <1>5. CASE LoadQueued(w)
    <2>1. code'[w] = AtInflight /\ worker'[w] = "live"
      BY <1>0, <1>5, Beginnings DEF LoadQueued, Ready, Does
    <2> QED
      BY <1>1, <2>1, PlacesDiffer, JoblessStep DEF WorkerFits, Holds
  <1>6. CASE At(w, "inflight") /\ Continue(w) /\ UNCHANGED worker
    <2>1. code[w] = AtInflight /\ worker[w] = "live"
      BY <1>0, <1>6, Heads DEF At, WorkerFits, CancelCodes, RunCodes
    <2>2. code'[w] = <<>> /\ worker'[w] = "live"
      BY <1>0, <1>6, <2>1, Follows DEF Continue, Does
    <2> QED
      BY <1>1, <2>2, PlacesDiffer, JoblessStep DEF WorkerFits, Holds
  <1> QED
    BY <1>2, <1>3, <1>4, <1>5, <1>6 DEF LoadInflight, ExitOnStop

\* Whoever takes a queued job: a worker to run it, or a worker, a ticket or stop to cancel it.
LEMMA TakeStep ==
  ASSUME Inv, NEW t \in Threads \ Jobs, NEW j \in Jobs, stage[j] = "queued",
         what' = [what EXCEPT ![t] = j],
         UNCHANGED <<pool, inside, parts, called, requested, slot, worker, unwound>>,
         \/ /\ t \in Workers /\ worker[t] = "live"
            /\ stage' = [stage EXCEPT ![j] = "running"] /\ Does(t, RunThenFinish(j))
         \/ /\ t \in Workers => worker[t] = "live"
            /\ stage' = [stage EXCEPT ![j] = "cancelling"] /\ Does(t, CancelThenFinish(j))
  PROVE  Inv'
  <1>0. /\ DOMAIN code = Threads /\ DOMAIN what = Threads /\ Types /\ Untouched(j) /\ JobFits(j) /\ kind[j] \in Kinds
        /\ kind' = kind
    BY DEF Inv, Types, JobFits, pool
  <1>1. Alone({t}, j) /\ what'[t] = j
    BY <1>0 DEF Alone, Does, Types, Stages
  <1>2. \A u \in Threads \ {t} : Holds(u) => what[u] # j
    BY Unheld
  <1>3. Untouched(j)'
    BY <1>0 DEF Untouched, Accepted, Callable
  <1>4. JobFits(j)' /\ stage'[j] \in {"running", "cancelling"}
    BY <1>0 DEF JobFits, Callable, Types
  <1>5. CASE stage' = [stage EXCEPT ![j] = "running"] /\ Does(t, RunThenFinish(j)) /\ t \in Workers /\ worker[t] = "live"
    <2>1. stage'[j] = "running" /\ code'[t] = IF Callable(j) THEN AtHookOfCallable ELSE AtHook
      BY <1>0, <1>5, JobBeginnings DEF Does, Types
    <2>2. RunFits(j, code[t])' /\ code'[t] \in RunCodes
      BY <1>0, <1>3, <2>1 DEF RunFits, RunCodes, Callable
    <2>3. HolderFits(t)' /\ WorkerFits(t)'
      BY <1>1, <1>5, <2>1, <2>2 DEF HolderFits, WorkerFits
    <2> QED
      BY <1>1, <1>2, <1>4, <1>5, <2>3, OutsideStep
  <1>6. CASE /\ stage' = [stage EXCEPT ![j] = "cancelling"] /\ Does(t, CancelThenFinish(j))
             /\ t \in Workers => worker[t] = "live"
    <2>1. stage'[j] = "cancelling" /\ code'[t] = CASE Custom(j) -> AtCancel
                                                   [] Callable(j) -> AtSlotCancel
                                                   [] OTHER -> AtCancelDrop
      BY <1>0, <1>6, JobBeginnings DEF Does, Types, Kinds, Custom, Callable
    <2>2. CancelFits(j, code[t])' /\ code'[t] \in CancelCodes
      <3>1. CASE Custom(j)
        <4>1. code'[t] = AtCancel /\ Custom(j)'
          BY <1>0, <2>1, <3>1 DEF Custom, Callable
        <4> QED
          BY <1>3, <4>1 DEF CancelFits, CancelCodes
      <3>2. CASE Callable(j)
        BY <1>0, <1>3, <2>1, <3>2 DEF CancelFits, CancelCodes, Callable, Custom
      <3>3. CASE ~Custom(j) /\ ~Callable(j)
        <4>1. WasCancelled(j)'
          BY <1>0, <1>3, <3>3 DEF WasCancelled, Untouched, Accepted, Callable, Custom
        <4> QED
          BY <1>0, <2>1, <3>3, <4>1 DEF CancelFits, CancelCodes
      <3> QED
        BY <3>1, <3>2, <3>3
    <2>3. HolderFits(t)'
      BY <1>1, <2>1, <2>2 DEF HolderFits
    <2>4. (t \in Workers => WorkerFits(t)') /\ CancellerFits(t)'
      BY <1>6, <2>2 DEF WorkerFits, CancellerFits
    <2> QED
      BY <1>1, <1>2, <1>4, <2>3, <2>4, OutsideStep
  <1> QED
    BY <1>5, <1>6

\* Submission, up to the publication of the job.
LEMMA SubmitStep ==
  ASSUME Inv, NEW j \in Jobs, Submit(j)
  PROVE  Inv'
  <1>0. /\ j \in Threads /\ what[j] = j /\ SubmitterFits(j) /\ JobFits(j) /\ Types /\ stage[j] = "new" /\ kind' = kind
        /\ DOMAIN code = Threads /\ DOMAIN parts = Jobs /\ stage \in [Jobs -> Stages] /\ slot' = slot /\ called' = called
        /\ what' = what /\ unwound' = unwound /\ worker' = worker
    BY DEF Inv, SubmitterFits, Types, Threads, Submit, pool
  <1>1. code[j] = <<>> /\ j \notin inside /\ ~unwound[j] /\ called[j] = <<>>
    BY <1>0 DEF SubmitterFits, JobFits, OwnCodes
  <1>2. Alone({j}, j)
    BY <1>0 DEF Submit, Alone, Does, Types, Stages
  <1>3. \/ code'[j] = <<>> /\ inside' = inside /\ stage'[j] = "refused"
        \/ code'[j] = AtRefuse /\ inside' = inside /\ stage'[j] = "refused"
        \/ code'[j] = AtReserve /\ inside' = inside \cup {j} /\ stage'[j] = "entered"
    BY <1>0, <1>1, Beginnings DEF Submit, Does
  <1>4. SubmitterFits(j)'
    BY <1>0, <1>1, <1>3 DEF SubmitterFits
  <1>5. JobFits(j)'
    BY <1>0, <1>1, <1>3 DEF JobFits, Callable
  <1>6. HolderFits(j)'
    BY <1>3, PlacesDiffer DEF HolderFits, Holds
  <1> QED
    BY <1>0, <1>2, <1>4, <1>5, <1>6, InsideStep, Unheld

\* A reservation, which may start a worker.
LEMMA ReserveStep ==
  ASSUME Inv, NEW j \in Jobs, Reserve(j)
  PROVE  Inv'
  <1> USE PartsAssumption
  <1>0. /\ j \in Threads /\ what[j] = j /\ SubmitterFits(j) /\ JobFits(j) /\ Types /\ kind[j] \in Kinds /\ kind' = kind
        /\ DOMAIN code = Threads /\ stage \in [Jobs -> Stages] /\ inside' = inside /\ parts' = parts /\ called' = called
        /\ slot' = slot /\ what' = what /\ unwound' = unwound /\ requested' = requested
    BY DEF Inv, SubmitterFits, Types, Threads, Reserve, pool
  <1>1. j \in inside /\ stage[j] = "entered" /\ ~unwound[j] /\ called[j] = <<>>
    BY <1>0, Heads DEF SubmitterFits, JobFits, OwnCodes, Reserve, At
  <1>2. ASSUME \/ stage'[j] = "refused" /\ code'[j] = AtDiscard
               \/ /\ stage'[j] = "reserved"
                  /\ code'[j] = Skip(Accept(j) \o <<"enqueue", "leave">>)
        PROVE  SubmitterFits(j)' /\ JobFits(j)' /\ ~Holds(j)'
    <2>1. JobFits(j)'
      BY <1>0, <1>1, <1>2 DEF JobFits, Callable
    <2>2. CASE stage'[j] = "refused" /\ code'[j] = AtDiscard
      BY <1>0, <1>1, <2>1, <2>2, PlacesDiffer DEF SubmitterFits, Holds
    <2>3. CASE stage'[j] = "reserved" /\ Custom(j)
      <3>1. code'[j] = AtAccept
        BY <1>2, <2>3, JobBeginnings
      <3> QED
        BY <1>0, <1>1, <2>1, <2>3, <3>1, PlacesDiffer DEF SubmitterFits, Holds, Custom
    <2>4. CASE stage'[j] = "reserved" /\ Callable(j)
      <3>1. code'[j] = AtSlotAccept
        BY <1>2, <2>4, JobBeginnings
      <3> QED
        BY <1>0, <1>1, <2>1, <2>4, <3>1, PlacesDiffer DEF SubmitterFits, Holds, Callable
    <2>5. CASE stage'[j] = "reserved" /\ kind[j] = "detached"
      <3>1. code'[j] = AtEnqueue
        BY <1>2, <2>5, JobBeginnings
      <3> QED
        BY <1>0, <1>1, <2>1, <2>5, <3>1, PlacesDiffer DEF SubmitterFits, Holds, Callable, Untouched, Accepted
    <2> QED
      BY <1>0, <1>2, <2>2, <2>3, <2>4, <2>5 DEF Kinds, Custom, Callable
  <1>3. CASE UNCHANGED worker /\ \E c : Does(j, c)
    <2>1. Alone({j}, j)
      BY <1>0, <1>3 DEF Reserve, Alone, Does, Types, Stages
    <2>2. \/ stage'[j] = "refused" /\ code'[j] = AtDiscard
          \/ /\ stage'[j] = "reserved"
             /\ code'[j] = Skip(Accept(j) \o <<"enqueue", "leave">>)
      BY <1>0, Beginnings DEF Reserve, Does
    <2> QED
      BY <1>1, <1>2, <2>1, <2>2, InsideStep, Unheld DEF HolderFits
  <1>4. CASE \E w \in Workers : /\ stage' = [stage EXCEPT ![j] = "reserved"]
                                /\ Spawn(w)
                                /\ code' = [code EXCEPT ![j] = Skip(Accept(j) \o <<"enqueue", "leave">>),
                                                        ![w] = Skip(RunHook("before_worker_start"))]
    <2> PICK w \in Workers : /\ stage' = [stage EXCEPT ![j] = "reserved"]
                             /\ Spawn(w)
                             /\ code' = [code EXCEPT ![j] = Skip(Accept(j) \o <<"enqueue", "leave">>),
                                                     ![w] = Skip(RunHook("before_worker_start"))]
      BY <1>4
    <2>1. w \in Threads /\ w # j /\ w \notin Jobs /\ DOMAIN worker = Workers
      BY <1>0 DEF Threads, Types
    <2>2. /\ stage'[j] = "reserved" /\ code'[j] = Skip(Accept(j) \o <<"enqueue", "leave">>)
          /\ code'[w] = AtStartHook /\ worker'[w] = "live"
      BY <1>0, <2>1, Beginnings DEF Spawn
    <2>3. Alone({j, w}, j)
      BY <1>0, <2>1 DEF Alone, Types, Stages, Spawn
    <2>4. SubmitterFits(j)' /\ JobFits(j)' /\ ~Holds(j)' /\ ~Holds(w)' /\ WorkerFits(w)'
      BY <1>2, <2>2, PlacesDiffer DEF Holds, WorkerFits
    <2>5. \A u \in Threads : Holds(u) => what[u] # j
      BY <1>1, Unheld
    <2>6. /\ \A i \in Jobs \ {j} : (SubmitterFits(i) /\ JobFits(i))'
          /\ \A x \in Workers \ {w} : WorkerFits(x)'
          /\ \A u \in Tickets \cup {Stopper} : CancellerFits(u)'
          /\ \A u \in Threads \ {j, w} : HolderFits(u)'
          /\ SoleHolder' /\ RequestsFit'
      <3>1. /\ \A i \in Jobs \ ({j, w} \cup {j}) : (SubmitterFits(i) /\ JobFits(i))'
            /\ \A x \in Workers \ {j, w} : WorkerFits(x)'
            /\ \A u \in (Tickets \cup {Stopper}) \ {j, w} : CancellerFits(u)'
            /\ \A u \in Threads \ {j, w} : HolderFits(u)'
            /\ SoleHolder' /\ RequestsFit'
        BY <2>3, <2>4, <2>5, OthersFit
      <3> QED
        BY <2>1, <3>1
    <2> QED
      BY <2>3, <2>4, <2>6 DEF Inv, Alone, HolderFits
  <1> QED
    BY <1>3, <1>4 DEF Reserve

\* A submitter moves, and no job.
LEMMA DepartureStep ==
  ASSUME Inv, NEW j \in Jobs, Alone({j}, Stopper), SubmitterFits(j)', JobFits(j)', ~Holds(j)'
  PROVE  Inv'
  <1> USE PartsAssumption
  <1>1. j \in Threads /\ j \notin Workers /\ j \notin Tickets \cup {Stopper} /\ Stopper \notin Jobs /\ HolderFits(j)'
    BY DEF Threads, HolderFits
  <1>2. \A u \in Threads : Holds(u) => what[u] # Stopper
    BY <1>1 DEF Inv, HolderFits
  <1>3. /\ \A i \in Jobs \ ({j} \cup {Stopper}) : (SubmitterFits(i) /\ JobFits(i))'
        /\ \A w \in Workers \ {j} : WorkerFits(w)'
        /\ \A u \in (Tickets \cup {Stopper}) \ {j} : CancellerFits(u)'
        /\ \A u \in Threads \ {j} : HolderFits(u)'
        /\ SoleHolder' /\ RequestsFit'
    BY <1>2, OthersFit
  <1> QED
    BY <1>1, <1>3 DEF Inv, Alone

\* Publication or rejection, and the end of the submission.
LEMMA PublishStep ==
  ASSUME Inv, NEW j \in Jobs, RejectJob(j) \/ Enqueue(j) \/ Leave(j)
  PROVE  Inv'
  <1>0. /\ j \in Threads /\ what[j] = j /\ SubmitterFits(j) /\ JobFits(j) /\ Types /\ kind[j] \in Kinds /\ kind' = kind
        /\ DOMAIN code = Threads /\ stage \in [Jobs -> Stages] /\ parts' = parts /\ called' = called
        /\ slot' = slot /\ what' = what /\ unwound' = unwound /\ worker' = worker
    BY DEF Inv, SubmitterFits, Types, Threads, RejectJob, Enqueue, Leave, pool
  <1>1. Alone({j}, j)
    BY <1>0 DEF RejectJob, Enqueue, Leave, Alone, Does, Continue, Types, Stages
  <1>2. CASE Leave(j)
    <2>1. code[j] = AtLeave /\ stage' = stage /\ inside' = inside \ {j}
      BY <1>0, <1>2, Heads DEF Leave, At, SubmitterFits, OwnCodes
    <2>2. stage[j] \notin {"new", "entered", "reserved"}
      BY <1>0, <2>1, Heads, PlacesDiffer DEF SubmitterFits, HolderCodes
    <2>3. code'[j] = <<>>
      BY <1>0, <1>2, <2>1, Follows DEF Leave, Continue, Does
    <2>4. SubmitterFits(j)'
      BY <1>0, <2>1, <2>2, <2>3 DEF SubmitterFits
    <2>5. JobFits(j)'
      BY <1>0, <2>1, PlacesDiffer DEF JobFits, Callable, Untouched, WasRun, WasCancelled, Accepted, Custom
    <2>6. ~Holds(j) /\ ~Holds(j)'
      BY <2>1, <2>3, PlacesDiffer DEF Holds
    <2>7. Alone({j}, Stopper)
      BY <1>0, <1>1, <2>1 DEF Alone
    <2> QED
      BY <2>4, <2>5, <2>6, <2>7, DepartureStep
  <1>3. CASE RejectJob(j) \/ Enqueue(j)
    <2>1. code[j] = AtEnqueue /\ inside' = inside
      BY <1>0, <1>3, Heads DEF RejectJob, Enqueue, At, SubmitterFits, OwnCodes
    <2>2. j \in inside /\ stage[j] = "reserved" /\ Untouched(j) /\ (unwound[j] => Custom(j))
      BY <1>0, <2>1, Heads, PlacesDiffer DEF SubmitterFits, HolderCodes
    <2>3. \A u \in Threads \ {j} : Holds(u) => what[u] # j
      BY <2>2, Unheld
    <2>4. Untouched(j)'
      BY <1>0, <2>2 DEF Untouched, Accepted, Callable
    <2>5. CASE RejectJob(j)
      <3>1. stage'[j] = "rejected" /\ code'[j] = AtDiscard /\ Custom(j)
        BY <1>0, <2>2, <2>5, Beginnings DEF RejectJob, Does
      <3>2. called'[j] = <<"accept">>
        BY <1>0, <2>2, <3>1, Acceptance DEF Untouched
      <3>3. SubmitterFits(j)' /\ JobFits(j)'
        BY <1>0, <2>1, <2>2, <3>1, <3>2 DEF SubmitterFits, JobFits, Callable
      <3> QED
        BY <1>1, <2>3, <3>1, <3>3, PlacesDiffer, InsideStep DEF HolderFits, Holds
    <2>6. CASE Enqueue(j) /\ j \in requested
      <3>1. CASE Custom(j)
        <4>1. stage'[j] = "cancelling" /\ code'[j] = AtOwnCancel
          BY <1>0, <2>6, <3>1, JobBeginnings DEF Enqueue, Does
        <4>2. SubmitterFits(j)' /\ JobFits(j)'
          BY <1>0, <2>1, <2>2, <3>1, <4>1 DEF SubmitterFits, JobFits, Callable, Custom, OwnCodes
        <4>3. HolderFits(j)'
          BY <1>0, <2>4, <3>1, <4>1 DEF HolderFits, CancelFits, Custom
        <4> QED
          BY <1>1, <2>3, <4>2, <4>3, InsideStep
      <3>2. CASE ~Custom(j)
        BY <2>6, <3>2 DEF Inv, RequestsFit
      <3> QED
        BY <3>1, <3>2
    <2>7. CASE Enqueue(j) /\ j \notin requested
      <3>1. stage'[j] = "queued" /\ code'[j] = AtLeave
        BY <1>0, <2>1, <2>7, Follows DEF Enqueue, Continue, Does
      <3>2. SubmitterFits(j)' /\ JobFits(j)'
        BY <1>0, <2>1, <2>2, <2>4, <3>1 DEF SubmitterFits, JobFits, Callable
      <3> QED
        BY <1>1, <2>3, <3>1, <3>2, PlacesDiffer, InsideStep DEF HolderFits, Holds
    <2> QED
      BY <1>3, <2>5, <2>6, <2>7
  <1> QED
    BY <1>2, <1>3

\* The owner of a handle cancels it, whoever has the job.
LEMMA CancelHandleStep ==
  ASSUME Inv, NEW h \in Jobs, CancelHandle(h)
  PROVE  Inv'
  <1>0. /\ slot[h] = "accepted" /\ slot' = [slot EXCEPT ![h] = "cancelled"] /\ DOMAIN slot = Jobs /\ JobFits(h)
        /\ UNCHANGED <<kind, inside, stage, parts, called, requested, worker, code, what, unwound>>
    BY DEF CancelHandle, pool, Inv, Types
  <1>1. Callable(h)
    BY <1>0 DEF JobFits
  <1>2. \A i \in Jobs : /\ Callable(i)' = Callable(i) /\ Custom(i)' = Custom(i) /\ Accepted(i)' = Accepted(i)
                        /\ (Untouched(i) => Untouched(i)') /\ (WasRun(i) => WasRun(i)')
                        /\ (WasCancelled(i) => WasCancelled(i)')
                        /\ slot'[i] = slot[i] \/ i = h
    BY <1>0, <1>1, Calls DEF Callable, Custom, Accepted, Untouched, WasRun, WasCancelled
  <1>3. Types' /\ RequestsFit' /\ SoleHolder'
    BY <1>0 DEF Inv, Types, RequestsFit, SoleHolder, Holds, Custom
  <1>4. ASSUME NEW i \in Jobs
        PROVE  (SubmitterFits(i) /\ JobFits(i))'
    <2>1. SubmitterFits(i) /\ JobFits(i)
      BY DEF Inv
    <2>2. SubmitterFits(i)'
      BY <1>0, <1>2, <2>1 DEF SubmitterFits
    <2>3. JobFits(i)'
      BY <1>0, <1>1, <1>2, <2>1 DEF JobFits
    <2> QED
      BY <2>2, <2>3
  <1>5. ASSUME NEW t \in Threads
        PROVE  HolderFits(t)'
    <2> SUFFICES ASSUME Holds(t)
                 PROVE  HolderFits(t)'
      BY <1>0 DEF HolderFits, Holds
    <2>1. what[t] \in Jobs /\ HolderFits(t)
      BY DEF Inv, HolderFits
    <2>2. ASSUME RunFits(what[t], code[t])
          PROVE  RunFits(what[t], code[t])'
      BY <1>0, <1>2, <2>1, <2>2 DEF RunFits
    <2>3. ASSUME CancelFits(what[t], code[t])
          PROVE  CancelFits(what[t], code[t])'
      BY <1>0, <1>2, <2>1, <2>3 DEF CancelFits
    <2> QED
      BY <1>0, <2>1, <2>2, <2>3 DEF HolderFits
  <1> QED
    BY <1>0, <1>3, <1>4, <1>5 DEF Inv, WorkerFits, CancellerFits

\* Steps that touch neither jobs nor threads.
LEMMA CallerStep ==
  ASSUME Inv, UNCHANGED <<kind, inside, stage, parts, called, slot, worker, code, what, unwound>>,
         \/ requested' = requested
         \/ \E j \in Jobs : ReserveCancellation(j)
  PROVE  Inv'
  <1>1. RequestsFit'
    BY DEF Inv, RequestsFit, ReserveCancellation, Custom
  <1>2. Types' /\ SoleHolder'
    BY DEF Inv, Types, SoleHolder, Holds
  <1>3. \A i \in Jobs : (SubmitterFits(i) /\ JobFits(i))'
    BY DEF Inv, SubmitterFits, JobFits, Untouched, WasRun, WasCancelled, Accepted, Callable, Custom
  <1>4. \A t \in Threads : HolderFits(t)'
    BY DEF Inv, HolderFits, Holds, RunFits, CancelFits, Untouched, WasRun, WasCancelled, Accepted, Callable, Custom
  <1> QED
    BY <1>1, <1>2, <1>3, <1>4 DEF Inv, WorkerFits, CancellerFits

-----------------------------------------------------------------------------
\* The invariant holds initially and is kept by every step.

LEMMA InitInv == Init => Inv
  <1> SUFFICES ASSUME Init
               PROVE  Inv
    OBVIOUS
  <1> USE PartsAssumption
  <1>1. Types
    BY MixesAssumption DEF Init, Types, Stages, Threads
  <1>2. \A t \in Threads : code[t] = (IF fixed /\ t \in Workers THEN AtStartHook ELSE <<>>) /\ ~Holds(t)
    BY Beginnings, PlacesDiffer DEF Init, Holds
  <1>3. \A i \in Jobs : SubmitterFits(i) /\ JobFits(i)
    BY <1>2 DEF Init, SubmitterFits, JobFits, Callable, Threads
  <1>4. \A w \in Workers : WorkerFits(w)
    BY <1>2 DEF Init, WorkerFits, Threads
  <1>5. \A t \in Tickets \cup {Stopper} : CancellerFits(t)
    BY <1>2 DEF CancellerFits, Threads
  <1>6. (\A t \in Threads : HolderFits(t)) /\ SoleHolder /\ RequestsFit
    BY <1>2 DEF HolderFits, SoleHolder, RequestsFit, Init
  <1> QED
    BY <1>1, <1>3, <1>4, <1>5, <1>6 DEF Inv

LEMMA ThreadStepInv ==
  ASSUME Inv, NEW t \in Threads, ThreadStep(t)
  PROVE  Inv'
  <1> USE PartsAssumption
  <1>1. CASE CodeStep(t)
    BY <1>1, CodeStepInv
  <1>2. CASE t \in Jobs /\ SubmitterStep(t) /\ ~CodeStep(t)
    BY <1>2, SubmitStep, ReserveStep, PublishStep DEF SubmitterStep
  <1>3. CASE t \in Workers /\ WorkerStep(t) /\ ~CodeStep(t)
    <2>1. CASE Claim(t)
      <3> PICK j \in Jobs : /\ stage[j] = "queued"
                            /\ what' = [what EXCEPT ![t] = j]
                            /\ \/ stage' = [stage EXCEPT ![j] = "running"] /\ Does(t, RunThenFinish(j))
                               \/ stage' = [stage EXCEPT ![j] = "cancelling"] /\ Does(t, CancelThenFinish(j))
        BY <2>1 DEF Claim
      <3>1. worker[t] = "live" /\ t \in Threads \ Jobs
        BY <1>3, <2>1 DEF Claim, Ready
      <3>2. UNCHANGED <<pool, inside, parts, called, requested, slot, worker, unwound>>
        BY <2>1 DEF Claim
      <3> QED
        BY <1>3, <3>1, <3>2, TakeStep
    <2> QED
      BY <1>3, <2>1, WorkerLife DEF WorkerStep
  <1>4. CASE (t \in Tickets /\ Withdraw(t)) \/ (t = Stopper /\ DrainOne)
    <2> PICK j \in Jobs : /\ stage[j] = "queued" /\ what' = [what EXCEPT ![t] = j]
                          /\ stage' = [stage EXCEPT ![j] = "cancelling"] /\ Does(t, CancelThenFinish(j))
      BY <1>4 DEF Withdraw, DrainOne
    <2>1. t \in Threads \ Jobs /\ t \notin Workers
      BY <1>4
    <2>2. UNCHANGED <<pool, inside, parts, called, requested, slot, worker, unwound>>
      BY <1>4 DEF Withdraw, DrainOne
    <2> QED
      BY <2>1, <2>2, TakeStep
  <1> QED
    BY <1>1, <1>2, <1>3, <1>4 DEF ThreadStep, TicketStep, StopStep

LEMMA NextInv == Inv /\ [Next]_vars => Inv'
  <1> SUFFICES ASSUME Inv, [Next]_vars
               PROVE  Inv'
    OBVIOUS
  <1>1. CASE \E t \in Threads : ThreadStep(t)
    BY <1>1, ThreadStepInv
  <1>2. CASE \E w \in Workers : SpawnWorker(w)
    BY <1>2, WorkerLife
  <1>3. CASE \E j \in Jobs : CancelHandle(j)
    BY <1>3, CancelHandleStep
  <1>4. CASE \E j \in Jobs : ReserveCancellation(j)
    BY <1>4, CallerStep DEF ReserveCancellation, pool
  <1>5. CASE Shutdown \/ BeginStop \/ UNCHANGED vars
    BY <1>5, CallerStep DEF Shutdown, BeginStop, vars, pool
  <1> QED
    BY <1>1, <1>2, <1>3, <1>4, <1>5 DEF Next

LEMMA InvHolds == Spec => []Inv
  BY InitInv, NextInv, PTL DEF Spec

-----------------------------------------------------------------------------
\* What follows.

(***************************************************************************)
(* The callback protocol holds whatever panics and whoever wins a job:     *)
(* accept, then exactly one of run and cancel (pool_job.rs).               *)
(***************************************************************************)
THEOREM CallbacksFollowTheProtocol == Spec => []CallbackProtocol
  <1>1. Inv => CallbackProtocol
    <2> SUFFICES ASSUME Inv, NEW j \in Jobs
                 PROVE  called[j] = CASE stage[j] = "completed" ->
                                            IF slot[j] = "cancelled" THEN <<>> ELSE Accepted(j) \o <<"run">>
                                      [] stage[j] = "cancelled" ->
                                            IF kind[j] \in {"detached", "callable"} THEN <<>> ELSE <<"accept", "cancel">>
                                      [] stage[j] = "rejected"  -> <<"accept">>
                                      [] stage[j] = "queued"    -> Accepted(j)
                                      [] stage[j] = "refused"   -> <<>>
                                      [] OTHER                  -> called[j]
      BY DEF CallbackProtocol
    <2> QED
      BY DEF Inv, JobFits, WasRun, WasCancelled, Untouched, Custom
  <1> QED
    BY <1>1, InvHolds, PTL

(***************************************************************************)
(* The handle of a settled callable is resolved, with a result if and only *)
(* if the callable was called.                                             *)
(***************************************************************************)
THEOREM HandlesAreResolved == Spec => []HandleResolved
  <1>1. Inv => HandleResolved
    BY Acceptance, Calls DEF Inv, HandleResolved, JobFits, WasRun, WasCancelled, Callable, Custom
  <1> QED
    BY <1>1, InvHolds, PTL

(***************************************************************************)
(* Nothing of a job is left when join may return, and no user code runs in *)
(* a pool that reports its termination.                                    *)
(***************************************************************************)
THEOREM NothingIsLeftBehind == Spec => []NothingOutlivesThePool
  <1>1. Inv => NothingOutlivesThePool
    <2> SUFFICES ASSUME Inv
                 PROVE  NothingOutlivesThePool
      OBVIOUS
    <2>1. ASSUME IsIdle, NEW j \in Jobs, stage[j] \notin {"new", "refused"}
          PROVE  parts[j] = {}
      <3>1. j \notin inside /\ stage[j] \in {"entered", "rejected", "completed", "cancelled"}
        BY <2>1 DEF Inv, Types, Stages, IsIdle
      <3>2. stage[j] # "entered" /\ code[j] # AtDiscard
        BY <3>1, Heads, RefusalsDiffer DEF Inv, SubmitterFits
      <3> QED
        BY <3>1, <3>2 DEF Inv, JobFits
    <2>2. ASSUME IsTerminated, NEW t \in Threads, InUserCode(t)
          PROVE  t \in Jobs /\ stage[t] = "refused"
      <3>1. code[t] # <<>> /\ inside = {} /\ ~Holds(t)
        BY <2>2 DEF InUserCode, IsTerminated, IsIdle, Inv, HolderFits
      <3>2. t \notin Workers
        BY <2>2, <3>1 DEF IsTerminated, Inv, WorkerFits
      <3>3. t \notin Tickets \cup {Stopper}
        BY <3>1 DEF Inv, CancellerFits, Holds, HolderCodes
      <3> QED
        BY <3>1, <3>2, <3>3 DEF Inv, SubmitterFits, Threads
    <2> QED
      BY <2>1, <2>2 DEF NothingOutlivesThePool
  <1> QED
    BY <1>1, InvHolds, PTL

(***************************************************************************)
(* A panic of user code never ends a worker: whatever a callback, a hook   *)
(* or a destructor does, the worker's loop goes on and unregisters in the  *)
(* end, so the live count cannot stay too high.                            *)
(***************************************************************************)
THEOREM WorkersSurvivePanics == Spec => [](\A w \in Workers : worker[w] # "dead")
  <1>1. Inv => \A w \in Workers : worker[w] # "dead"
    BY DEF Inv, WorkerFits
  <1> QED
    BY <1>1, InvHolds, PTL

=============================================================================
