------------------------ MODULE AdmissionGate_proofs ------------------------
(***************************************************************************)
(* The admission gate for any number of submitters and any word width.     *)
(***************************************************************************)
EXTENDS AdmissionGate, FiniteSetTheorems, TLAPS

\* The set of entrants is finite, so its cardinality is a natural number.
LEMMA InsideFinite == /\ IsFiniteSet(Inside)
                      /\ Cardinality(Inside) \in Nat
                      /\ Cardinality(Inside) = 0 <=> Inside = {}
  <1>1. Inside \subseteq Submitters
    BY DEF Inside
  <1>2. IsFiniteSet(Inside)
    BY <1>1, FS_Subset, GateAssumption
  <1> QED
    BY <1>2, FS_CardinalityType, FS_EmptySet

(***************************************************************************)
(* The inductive invariant: types and the meaning of the count.  Types     *)
(* alone are not inductive, because leave keeps its type only when the     *)
(* count is positive.                                                      *)
(***************************************************************************)
GateInv == TypeOK /\ CountIsEntrants

\* The initial word counts nobody.
LEMMA GateInit == Init => GateInv
  <1> SUFFICES ASSUME Init PROVE GateInv
    OBVIOUS
  <1>1. Inside = {}
    BY DEF Init, Inside
  <1>2. CountIsEntrants
    BY <1>1, FS_EmptySet, GateAssumption DEF Init, CountIsEntrants, InflightCount
  <1>3. TypeOK
    BY GateAssumption DEF Init, TypeOK, Words, COUNT_MASK
  <1> QED
    BY <1>2, <1>3 DEF GateInv

\* A step that reads the word moves no submitter in or out.
LEMMA ObserveKeeps ==
  ASSUME GateInv, NEW s \in Submitters, pc[s] # "entered", Observe(s, state)
  PROVE  GateInv'
  <1> USE GateAssumption DEF GateInv
  <1>1. TypeOK'
    BY DEF TypeOK, Observe, Decision, Words, COUNT_MASK, IsOpen, InflightCount
  <1>2. Inside' = Inside
    BY DEF Inside, Observe, Decision, TypeOK
  <1> QED
    BY <1>1, <1>2 DEF CountIsEntrants, Observe

\* One successful exchange adds one entrant and one to the count.
LEMMA ExchangeKeeps ==
  ASSUME GateInv, NEW s \in Submitters, Exchange(s)
  PROVE  GateInv'
  <1> USE GateAssumption DEF GateInv, Exchange
  <1>1. /\ IsOpen(state) /\ state \in 0 .. COUNT_MASK - 1
        /\ state' = state + 1
    BY DEF TypeOK, IsOpen, COUNT_MASK
  <1>2. TypeOK'
    BY <1>1 DEF TypeOK, Words, COUNT_MASK
  <1>3. Inside' = Inside \cup {s} /\ s \notin Inside
    BY DEF Inside, TypeOK
  <1>4. Cardinality(Inside') = Cardinality(Inside) + 1
    BY <1>3, InsideFinite, FS_AddElement
  <1>5. InflightCount(state') = InflightCount(state) + 1
    BY <1>1 DEF InflightCount, COUNT_MASK
  <1> QED
    BY <1>2, <1>4, <1>5 DEF CountIsEntrants

\* What a departure finds: a positive count, one exactly when it is alone.
LEMMA LeaveFinds ==
  ASSUME GateInv, NEW s \in Submitters, Leave(s)
  PROVE  /\ Inside' = Inside \ {s}
         /\ s \in Inside
         /\ Cardinality(Inside') = Cardinality(Inside) - 1
         /\ InflightCount(state) > 0
         /\ InflightCount(state) = 1 <=> Inside = {s}
  <1> USE GateAssumption DEF GateInv
  <1>1. Inside' = Inside \ {s} /\ s \in Inside
    BY DEF Inside, TypeOK, Leave
  <1>2. Cardinality(Inside \ {s}) = Cardinality(Inside) - 1 /\ IsFiniteSet(Inside \ {s})
    BY <1>1, InsideFinite, FS_RemoveElement
  <1>3. InflightCount(state) > 0
    BY <1>1, InsideFinite DEF CountIsEntrants
  <1>4. Cardinality(Inside \ {s}) = 0 <=> Inside \ {s} = {}
    BY <1>2, FS_EmptySet
  <1>5. Inside \ {s} = {} <=> Inside = {s}
    BY <1>1
  <1>6. InflightCount(state) = 1 <=> Inside = {s}
    BY <1>2, <1>4, <1>5, InsideFinite DEF CountIsEntrants
  <1> QED
    BY <1>1, <1>2, <1>3, <1>6

\* A departure removes one entrant and one from the count.
LEMMA LeaveKeeps ==
  ASSUME GateInv, NEW s \in Submitters, Leave(s)
  PROVE  GateInv'
  <1> USE GateAssumption DEF GateInv
  <1>1. InflightCount(state) > 0
    BY LeaveFinds
  <1>2. TypeOK'
    BY <1>1 DEF TypeOK, Leave, FetchSub, InflightCount, Words, COUNT_MASK
  <1>3. InflightCount(state') = InflightCount(state) - 1
    BY <1>1 DEF TypeOK, Leave, FetchSub, InflightCount, Words
  <1>4. Cardinality(Inside') = Cardinality(Inside) - 1
    BY LeaveFinds
  <1> QED
    BY <1>2, <1>3, <1>4 DEF CountIsEntrants

\* Closing changes the top bit only.
LEMMA CloseKeeps == GateInv /\ Close => GateInv'
  <1> SUFFICES ASSUME GateInv, Close PROVE GateInv'
    OBVIOUS
  <1> USE GateAssumption DEF GateInv, Close
  <1>1. TypeOK'
    BY DEF TypeOK, Words, IsOpen
  <1>2. InflightCount(state') = InflightCount(state)
    BY DEF TypeOK, Words, IsOpen, InflightCount
  <1>3. Inside' = Inside
    BY DEF Inside
  <1> QED
    BY <1>1, <1>2, <1>3 DEF CountIsEntrants

\* Every step of the gate preserves the invariant.
LEMMA GateNext == GateInv /\ [Next]_vars => GateInv'
  <1> SUFFICES ASSUME GateInv, [Next]_vars PROVE GateInv'
    OBVIOUS
  <1>1. CASE Close
    BY <1>1, CloseKeeps
  <1>2. ASSUME NEW s \in Submitters, Load(s) PROVE GateInv'
    BY <1>2, ObserveKeeps DEF Load
  <1>3. ASSUME NEW s \in Submitters, Exchange(s) PROVE GateInv'
    BY <1>3, ExchangeKeeps
  <1>4. ASSUME NEW s \in Submitters, ExchangeFails(s) PROVE GateInv'
    BY <1>4, ObserveKeeps DEF ExchangeFails
  <1>5. ASSUME NEW s \in Submitters, Leave(s) PROVE GateInv'
    BY <1>5, LeaveKeeps
  <1>6. CASE UNCHANGED vars
    BY <1>6 DEF vars, GateInv, TypeOK, CountIsEntrants, Inside
  <1> QED
    BY <1>1, <1>2, <1>3, <1>4, <1>5, <1>6 DEF Next

(***************************************************************************)
(* The word keeps its type for ever: leave never meets a zero count, so    *)
(* the "admission count underflow" assertion cannot fire.                  *)
(***************************************************************************)
THEOREM GateTypeCorrect == Spec => []TypeOK
  <1>1. GateInv => TypeOK
    BY DEF GateInv
  <1> QED
    BY <1>1, GateInit, GateNext, PTL DEF Spec

(***************************************************************************)
(* The count is the number of submitters inside, for every width of the    *)
(* word and every number of submitters (src/internal/admission_gate.rs).   *)
(***************************************************************************)
THEOREM GateCountCorrect == Spec => []CountIsEntrants
  <1>1. GateInv => CountIsEntrants
    BY DEF GateInv
  <1> QED
    BY <1>1, GateInit, GateNext, PTL DEF Spec

-----------------------------------------------------------------------------
\* The entrants of the abstract gate, and their number, are those of the word.
LEMMA SameEntrants == /\ Gate!inside = Inside
                      /\ Gate!Cardinality(Inside) = Cardinality(Inside)
  <1>1. Gate!inside = Inside
    BY DEF Gate!inside, Inside
  <1>2. Gate!Cardinality(Inside) = Cardinality(Inside)
    BY DEF Gate!Cardinality, Cardinality
  <1> QED
    BY <1>1, <1>2

\* Reading the word is a step of the abstract gate, or invisible to it.
LEMMA ObserveImplements ==
  ASSUME GateInv, NEW s \in Submitters, pc[s] # "entered", Observe(s, state)
  PROVE  [Gate!Next]_Gate!vars
  <1> USE GateAssumption, SameEntrants DEF GateInv
  <1>1. IsOpen(state)' = IsOpen(state)
    BY DEF Observe, IsOpen
  <1>2. CASE Decision(state) = "refused"
    <2>1. Gate!Refuse(s)
      BY <1>1, <1>2 DEF Observe, Gate!Refuse, Gate!Outside, Gate!Settle, Decision
    <2> QED
      BY <2>1 DEF Gate!Next
  <1>3. CASE Decision(state) = "overflow"
    <2>1. IsOpen(state) /\ InflightCount(state) = COUNT_MASK
      BY <1>3 DEF Decision
    <2>2. Gate!Overflow(s)
      BY <1>1, <1>3, <2>1 DEF Observe, Gate!Overflow, Gate!Outside, Gate!Settle, CountIsEntrants
    <2> QED
      BY <2>2 DEF Gate!Next
  <1>4. CASE Decision(state) = "pending"
    <2>1. Gate!Begin(s)
      BY <1>1, <1>4 DEF Observe, Gate!Begin, Gate!Outside, Gate!Settle
    <2> QED
      BY <2>1 DEF Gate!Next
  <1> QED
    BY <1>2, <1>3, <1>4 DEF Decision

\* Every step of the word is a step of the abstract gate or a stutter.
LEMMA GateStep == GateInv /\ [Next]_vars => [Gate!Next]_Gate!vars
  <1> SUFFICES ASSUME GateInv, [Next]_vars PROVE [Gate!Next]_Gate!vars
    OBVIOUS
  <1> USE GateAssumption DEF GateInv
  <1>1. CASE Close
    <2>1. ~IsOpen(state')
      BY <1>1 DEF Close, IsOpen, TypeOK, Words
    <2> QED
      BY <1>1, <2>1 DEF Close, Gate!Next, Gate!Close, IsOpen
  <1>2. ASSUME NEW s \in Submitters, Load(s) PROVE [Gate!Next]_Gate!vars
    BY <1>2, ObserveImplements DEF Load
  <1>3. ASSUME NEW s \in Submitters, Exchange(s) PROVE [Gate!Next]_Gate!vars
    <2>1. IsOpen(state) /\ IsOpen(state') /\ InflightCount(state) < COUNT_MASK
      BY <1>3 DEF Exchange, TypeOK, IsOpen, InflightCount, COUNT_MASK
    <2>2. Gate!Enter(s)
      BY <1>3, <2>1, SameEntrants
      DEF Exchange, Gate!Enter, Gate!Settle, CountIsEntrants, IsOpen
    <2> QED
      BY <2>2 DEF Gate!Next
  <1>4. ASSUME NEW s \in Submitters, ExchangeFails(s) PROVE [Gate!Next]_Gate!vars
    BY <1>4, ObserveImplements DEF ExchangeFails
  <1>5. ASSUME NEW s \in Submitters, Leave(s) PROVE [Gate!Next]_Gate!vars
    <2>1. InflightCount(state) > 0 /\ (InflightCount(state) = 1 <=> Inside = {s})
      BY <1>5, LeaveFinds
    <2>2. IsOpen(state') = IsOpen(state)
      BY <1>5, <2>1 DEF Leave, FetchSub, IsOpen, InflightCount, TypeOK, Words
    <2>3. /\ InflightCount(state) # 0
          /\ InflightCount(state) = 1 <=> Gate!inside = {s}
      BY <2>1, SameEntrants DEF InflightCount, TypeOK, Words
    <2>4. pc' = [pc EXCEPT ![s] = IF Gate!inside = {s} THEN "last" ELSE "left"]
      BY <1>5, <2>3 DEF Leave
    <2>5. Gate!Leave(s)
      BY <1>5, <2>2, <2>4 DEF Leave, Gate!Leave, Gate!Settle, IsOpen
    <2> QED
      BY <2>5 DEF Gate!Next
  <1>6. CASE UNCHANGED vars
    BY <1>6 DEF vars, Gate!vars, IsOpen
  <1> QED
    BY <1>1, <1>2, <1>3, <1>4, <1>5, <1>6 DEF Next

(***************************************************************************)
(* The packed word implements the abstract gate, so closing is permanent,  *)
(* nobody enters a closed gate, and exactly one departure reports that the *)
(* gate became empty, on which every drain notification relies.            *)
(***************************************************************************)
THEOREM GateImplementsSpec == Spec => ImplementsGate
  <1>1. Init => Gate!Init
    BY GateAssumption DEF Init, Gate!Init, IsOpen
  <1> QED
    BY <1>1, GateInit, GateNext, GateStep, PTL DEF Spec, ImplementsGate, Gate!Spec
=============================================================================
