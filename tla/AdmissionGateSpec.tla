------------------------- MODULE AdmissionGateSpec -------------------------
(***************************************************************************)
(* What the admission gate promises its callers, without its atomic word:  *)
(* a flag that only ever closes and a set of submitters that are inside.   *)
(* Every call has one instant at which it takes effect.                    *)
(***************************************************************************)
EXTENDS Integers, FiniteSets

CONSTANTS Submitters,   \* threads that call submit
          MaxInside     \* how many submitters the count can represent

VARIABLES open,         \* whether a new submission may still enter
          result        \* per submitter, the outcome of its latest call

vars == <<open, result>>

Results == {"none", "pending", "entered", "refused", "overflow", "left", "last"}

inside == {s \in Submitters : result[s] = "entered"}

Init == /\ open = TRUE
        /\ result = [s \in Submitters |-> "none"]

Settle(s, r) == /\ result' = [result EXCEPT ![s] = r]
                /\ UNCHANGED open

Outside(s) == result[s] # "entered"

\* try_enter has begun and has not been decided.
Begin(s) == Outside(s) /\ Settle(s, "pending")

Enter(s) == /\ result[s] = "pending"
            /\ open
            /\ Cardinality(inside) < MaxInside
            /\ Settle(s, "entered")

Refuse(s) == Outside(s) /\ ~open /\ Settle(s, "refused")

\* The count is full: the caller panics and is not inside.
Overflow(s) == Outside(s) /\ open /\ Cardinality(inside) = MaxInside /\ Settle(s, "overflow")

\* Exactly the departure that empties the gate is told that it is the last.
Leave(s) == /\ result[s] = "entered"
            /\ Settle(s, IF inside = {s} THEN "last" ELSE "left")

Close == open' = FALSE /\ UNCHANGED result

Next == \/ Close
        \/ \E s \in Submitters :
              Begin(s) \/ Enter(s) \/ Refuse(s) \/ Overflow(s) \/ Leave(s)

Spec == Init /\ [][Next]_vars
=============================================================================
