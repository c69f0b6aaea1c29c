--------------------------- MODULE AdmissionGate ---------------------------
(***************************************************************************)
(* The admission gate of src/internal/admission_gate.rs: one atomic word   *)
(* whose top bit closes admission and whose other bits count the           *)
(* submitters inside.  try_enter is a load followed by a loop of weak      *)
(* compare-and-exchange; close, leave and the reads are single atomic      *)
(* operations.                                                             *)
(***************************************************************************)
EXTENDS Integers, FiniteSets

CONSTANTS Submitters,   \* threads that call submit
          CLOSED        \* value of the top bit: 2^(w-1) for a w-bit word

ASSUME GateAssumption == /\ IsFiniteSet(Submitters)
                         /\ CLOSED \in Nat
                         /\ CLOSED > 1

VARIABLES state,        \* the packed word
          pc,           \* per submitter: outcome of its call, "pending" inside try_enter
          current       \* per submitter: the word it last observed (0 when unused)

vars == <<state, pc, current>>

-----------------------------------------------------------------------------
\* The word, read as a w-bit unsigned integer.

COUNT_MASK == CLOSED - 1
Words == 0 .. (2 * CLOSED - 1)

\* w & CLOSED = 0
IsOpen(w) == w < CLOSED

\* w & COUNT_MASK
InflightCount(w) == IF w < CLOSED THEN w ELSE w - CLOSED

\* fetch_sub(1) wraps below zero.
FetchSub(w) == IF w = 0 THEN 2 * CLOSED - 1 ELSE w - 1

-----------------------------------------------------------------------------

Init == /\ state = 0
        /\ pc = [s \in Submitters |-> "none"]
        /\ current = [s \in Submitters |-> 0]

\* What try_enter does with a word it has just read.
Decision(w) == IF ~IsOpen(w) THEN "refused"
               ELSE IF InflightCount(w) = COUNT_MASK THEN "overflow"
               ELSE "pending"

\* Seeded fault: a failed exchange retries with the word it already had.
BlindRetry(s, w) == /\ pc' = [pc EXCEPT ![s] = IF pc[s] = "pending" THEN "pending" ELSE Decision(w)]
                    /\ current' = [current EXCEPT ![s] = IF pc[s] = "pending" THEN current[s]
                                                         ELSE IF Decision(w) = "pending" THEN w ELSE 0]
                    /\ UNCHANGED state

Observe(s, w) == /\ pc' = [pc EXCEPT ![s] = Decision(w)]
                 /\ current' = [current EXCEPT ![s] = IF Decision(w) = "pending" THEN w ELSE 0]
                 /\ UNCHANGED state

\* try_enter: the first load.
Load(s) == /\ pc[s] \notin {"pending", "entered"}
           /\ Observe(s, state)

\* Seeded fault: load and store instead of an exchange.
StoreUnchecked(s) == /\ pc[s] = "pending"
                     /\ state' = current[s] + 1
                     /\ pc' = [pc EXCEPT ![s] = "entered"]
                     /\ current' = [current EXCEPT ![s] = 0]

\* try_enter: a successful exchange ...
Exchange(s) == /\ pc[s] = "pending"
               /\ state = current[s]
               /\ state' = state + 1
               /\ pc' = [pc EXCEPT ![s] = "entered"]
               /\ current' = [current EXCEPT ![s] = 0]

\* ... or a failed one, which may be spurious; the word it saw is examined next.
ExchangeFails(s) == pc[s] = "pending" /\ Observe(s, state)

\* Seeded fault: the departure tests the whole word, closed bit included.
LeaveIgnoringMask(s) == /\ pc[s] = "entered"
                        /\ state' = FetchSub(state)
                        /\ pc' = [pc EXCEPT ![s] = IF state = 1 THEN "last" ELSE "left"]
                        /\ UNCHANGED current

\* leave: whoever moves the count from one to zero is told so.
Leave(s) == /\ pc[s] = "entered"
            /\ state' = FetchSub(state)
            /\ pc' = [pc EXCEPT ![s] = IF InflightCount(state) = 0 THEN "underflow"
                                       ELSE IF InflightCount(state) = 1 THEN "last" ELSE "left"]
            /\ UNCHANGED current

\* close: fetch_or(CLOSED).
Close == /\ state' = IF IsOpen(state) THEN state + CLOSED ELSE state
         /\ UNCHANGED <<pc, current>>

Next == \/ Close
        \/ \E s \in Submitters :
              Load(s) \/ Exchange(s) \/ ExchangeFails(s) \/ Leave(s)

(***************************************************************************)
(* A thread inside try_enter keeps running: each round of its loop is one  *)
(* exchange, successful or not.                                            *)
(***************************************************************************)
Spec == /\ Init
        /\ [][Next]_vars
        /\ \A s \in Submitters : WF_vars(Exchange(s) \/ ExchangeFails(s))

-----------------------------------------------------------------------------

Inside == {s \in Submitters : pc[s] = "entered"}

(***************************************************************************)
(* Every variable has its type; in particular no departure finds the count *)
(* at zero (the assertion in leave) and the word never leaves its width.   *)
(***************************************************************************)
TypeOK == /\ state \in Words
          /\ pc \in [Submitters -> {"none", "pending", "entered", "refused",
                                    "overflow", "left", "last"}]
          /\ current \in [Submitters -> 0 .. COUNT_MASK - 1]

(***************************************************************************)
(* The count in the low bits is the number of submitters inside, whatever  *)
(* interleaving of loads, exchanges, departures and closures produced it.  *)
(***************************************************************************)
CountIsEntrants == InflightCount(state) = Cardinality(Inside)

Gate == INSTANCE AdmissionGateSpec WITH open <- IsOpen(state),
                                        result <- pc,
                                        MaxInside <- COUNT_MASK

(***************************************************************************)
(* The word implements the gate: closing is permanent, nobody enters after *)
(* it, entry and refusal are decided at one instant, and exactly the       *)
(* departure that empties the gate reports itself as the last.             *)
(***************************************************************************)
ImplementsGate == Gate!Spec

(***************************************************************************)
(* Once the gate is closed nobody spins in try_enter for ever: the next    *)
(* failed exchange observes the closed bit and returns false.              *)
(***************************************************************************)
ClosedReleasesContenders ==
    \A s \in Submitters : ~IsOpen(state) ~> pc[s] # "pending"
=============================================================================
