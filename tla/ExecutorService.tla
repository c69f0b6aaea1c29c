--------------------------- MODULE ExecutorService ---------------------------
(***************************************************************************)
(* What both pools promise their clients, without workers, queues, locks   *)
(* or counters: the contract of the ExecutorService trait they implement.  *)
(*                                                                         *)
(* A job is admitted while the service is open, accepted once, and then    *)
(* either runs to its end or is withdrawn and cancelled, never both.  The  *)
(* observable lifecycle only advances, and a service that says it is       *)
(* terminated has nothing left to do and never will have again.            *)
(***************************************************************************)
EXTENDS Naturals

CONSTANT Jobs

VARIABLES open,    \* whether new submissions are admitted
          phase,   \* what lifecycle() returns
          stage    \* per job: how far it has come

vars == <<open, phase, stage>>

Stages == {"none", "submitting", "accepted", "running", "completed", "withdrawn", "cancelled"}

Rank == [Running |-> 0, ShuttingDown |-> 1, Stopping |-> 2, Terminated |-> 3]

Init == /\ open = TRUE
        /\ phase = "Running"
        /\ stage = [j \in Jobs |-> "none"]

\* Nothing is admitted, under way or accepted and unfinished.
Quiet == ~open /\ \A j \in Jobs : stage[j] \in {"none", "completed", "cancelled"}

\* The last unfinished job ends the service in the step in which it settles.
MayTerminate == phase' = phase \/ (phase # "Running" /\ Quiet' /\ phase' = "Terminated")

Moves(j, from, to) == /\ stage[j] \in from
                      /\ stage' = [stage EXCEPT ![j] = to]
                      /\ UNCHANGED open
                      /\ MayTerminate

Submit(j) == open /\ Moves(j, {"none"}, "submitting")
Reject(j) == Moves(j, {"submitting"}, "none")
Accept(j) == Moves(j, {"submitting"}, "accepted")
Start(j) == Moves(j, {"accepted"}, "running")
Complete(j) == Moves(j, {"running"}, "completed")
Cancel(j) == Moves(j, {"withdrawn"}, "cancelled")

\* A ticket withdraws its job, perhaps before it was queued.
Withdraw(j) == Moves(j, {"submitting", "accepted"}, "withdrawn")

\* stop withdraws queued jobs.
WithdrawAll == /\ UNCHANGED <<open, phase>>
               /\ stage' # stage
               /\ \A j \in Jobs : stage'[j] = stage[j] \/ (stage[j] = "accepted" /\ stage'[j] = "withdrawn")

Close == open' = FALSE /\ UNCHANGED <<phase, stage>>

\* shutdown and stop, and the end of the service.
Advance == /\ ~open
           /\ phase' \in DOMAIN Rank /\ Rank[phase'] > Rank[phase]
           /\ phase' = "Terminated" => Quiet
           /\ UNCHANGED <<open, stage>>

Step(j) == \/ Submit(j) \/ Reject(j) \/ Accept(j) \/ Start(j)
           \/ Complete(j) \/ Withdraw(j) \/ Cancel(j)

Next == \/ \E j \in Jobs : stage'[j] # stage[j] /\ Step(j)
        \/ WithdrawAll
        \/ open /\ Close
        \/ Advance

Spec == Init /\ [][Next]_vars
=============================================================================
