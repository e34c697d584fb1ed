--------------------------- MODULE TokenRingProofs ---------------------------
(***************************************************************************)
(* The token ring excludes for any number of workers.  The invariant is    *)
(* about the tokens as they will be when the decrement in progress ends    *)
(* (Settled): the loop of change_token_* does not change it, locking       *)
(* rotates it, and it is 0 for a worker inside.                            *)
(***************************************************************************)
EXTENDS TokenRing, TLAPS

(* Decrement and Increment are inverse bijections of the tokens.           *)
LEMMA DecrementFacts ==
  ASSUME RingAssumption
  PROVE
  /\ \A t \in Workers : Decrement(t) \in Workers
  /\ \A t, u \in Workers : Decrement(t) = Decrement(u) => t = u
  /\ \A t \in Workers : Decrement(Increment(t)) = Increment(Decrement(t))
  /\ \A t \in Workers : Increment(t) \in Workers /\ Successor(t) \in Workers
  BY DEF RingAssumption, Workers, Decrement, Increment, Successor

LEMMA SettledType ==
  ASSUME RingAssumption
  PROVE  TypeOK => \A w \in Workers : Settled(w) \in Workers
  BY DecrementFacts DEF TypeOK, Settled

(* One iteration of the decrement loop leaves every settled token as it is.*)
LEMMA PassKeepsSettled ==
  ASSUME RingAssumption, TypeOK, NEW w \in Workers, Pass(w)
  PROVE  TypeOK' /\ \A u \in Workers : Settled(u)' = Settled(u)
<1>1. /\ token \in [Workers -> Workers] /\ next \in Workers
      /\ holder = w /\ holder # Free /\ inside' = inside
      /\ token' = [token EXCEPT ![next] = Decrement(@)]
  BY DEF RingAssumption, Pass, TypeOK
<1>2. token' \in [Workers -> Workers]
  BY <1>1, DecrementFacts
<1>3. \/ next = NumWorkers - 1 /\ holder' = Free /\ next' = 0
      \/ next # NumWorkers - 1 /\ holder' = w /\ next' = next + 1
  BY <1>1 DEF Pass
<1>4. next \in 0..(NumWorkers - 1) /\ NumWorkers \in Nat
  BY <1>1 DEF RingAssumption, Workers
<1>5. TypeOK'
  <2>1. next' \in 0..(NumWorkers - 1)
    BY <1>3, <1>4
  <2>2. next' \in Workers
    BY <2>1 DEF Workers
  <2>3. holder' \in Workers \cup {Free}
    BY <1>3
  <2>4. inside' \subseteq Workers
    BY <1>1 DEF TypeOK
  <2> QED
    BY <1>2, <2>2, <2>3, <2>4 DEF TypeOK
<1>6. ASSUME NEW u \in Workers
      PROVE  (IF holder' # Free /\ next' <= u THEN Decrement(token'[u]) ELSE token'[u])
             = (IF holder # Free /\ next <= u THEN Decrement(token[u]) ELSE token[u])
  <2>1. CASE u = next
    BY <1>1, <1>3, <2>1 DEF RingAssumption, Workers
  <2>2. CASE u # next
    <3>1. token'[u] = token[u]
      BY <1>1, <2>2
    <3>2. u \in 0..(NumWorkers - 1)
      BY DEF Workers
    <3>3. (holder' # Free /\ next' <= u) <=> next <= u
      BY <1>1, <1>3, <1>4, <2>2, <3>2 DEF RingAssumption
    <3> QED
      BY <1>1, <3>1, <3>3
  <2> QED
    BY <2>1, <2>2
<1>7. \A u \in Workers : Settled(u)' = Settled(u)
  BY <1>6 DEF Settled
<1> QED
  BY <1>5, <1>7

(* The inductive invariant.                                                *)
THEOREM Invariance ==
  ASSUME RingAssumption
  PROVE  Spec => []Inv
<1>1. Init => Inv
  <2> SUFFICES ASSUME Init PROVE Inv
    OBVIOUS
  <2>1. TypeOK
    BY DEF RingAssumption, Init, TypeOK, Workers
  <2>2. \A w \in Workers : Settled(w) = w /\ Successor(w) \in Workers
    BY DecrementFacts DEF Init, Settled
  <2>3. Distinct /\ TurnHeld /\ TurnPassed
    BY <2>2 DEF Init, Distinct, TurnHeld, TurnPassed
  <2>4. Rotation
    BY <2>2 DEF Rotation, Increment, Successor
  <2> QED
    BY <2>1, <2>3, <2>4 DEF Inv
<1>2. Inv /\ [Next]_vars => Inv'
  <2> SUFFICES ASSUME Inv, [Next]_vars PROVE Inv'
    OBVIOUS
  <2> USE DEF Inv
  <2>1. ASSUME NEW w \in Workers, Enter(w) PROVE Inv'
    <3>1. TypeOK' /\ Distinct' /\ Rotation'
      BY <2>1 DEF Enter, TypeOK, Distinct, Rotation, Settled
    <3>2. Settled(w) = 0
      <4>1. CASE holder # Free /\ next <= w
        <5>1. Settled(w) = NumWorkers - 1
          BY <2>1, <4>1 DEF Enter, Settled, Decrement
        <5>2. w = holder
          BY <4>1, <5>1 DEF TurnPassed, TypeOK, Distinct
        <5> QED
          BY <2>1, <5>2 DEF Enter
      <4> QED
        BY <2>1, <4>1 DEF Enter, Settled
    <3>3. TurnHeld' /\ TurnPassed'
      BY <2>1, <3>2 DEF Enter, TurnHeld, TurnPassed, Settled
    <3> QED
      BY <3>1, <3>3
  <2>2. ASSUME NEW w \in Workers, Leave(w) PROVE Inv'
    BY <2>2 DEF Leave, TypeOK, Distinct, Rotation, TurnHeld, TurnPassed, Settled
  <2>3. ASSUME NEW w \in Workers, Lock(w) PROVE Inv'
    <3>1. TypeOK'
      BY <2>3 DEF RingAssumption, Lock, TypeOK, Workers
    <3>2. /\ token \in [Workers -> Workers] /\ token' = token
          /\ holder = Free /\ holder' # Free /\ next' = 0
          /\ \A u \in Workers : 0 <= u
      BY <2>3 DEF RingAssumption, Lock, TypeOK, Workers
    <3>3. Distinct'
      BY <3>2, DecrementFacts DEF Distinct, Settled
    <3>4. Rotation'
      <4> SUFFICES ASSUME NEW u \in Workers
                   PROVE  Decrement(token[Successor(u)]) = Increment(Decrement(token[u]))
        BY <3>2, DecrementFacts DEF Rotation, Settled
      <4>1. token[Successor(u)] = Increment(token[u])
        BY <3>2, DecrementFacts DEF Rotation, Settled
      <4> QED
        BY <3>2, <4>1, DecrementFacts
    <3>5. token[w] = 0 /\ \A u \in inside : u = w
      BY <2>3, <3>2 DEF Lock, TurnHeld, Distinct, TypeOK, Settled
    <3>6. TurnHeld'
      BY <2>3, <3>5 DEF Lock, TurnHeld
    <3>7. TurnPassed'
      BY <2>3, <3>2, <3>5 DEF Lock, TurnPassed, Decrement, Settled
    <3> QED
      BY <3>1, <3>3, <3>4, <3>6, <3>7
  <2>4. ASSUME NEW w \in Workers, Pass(w) PROVE Inv'
    <3>1. TypeOK' /\ \A u \in Workers : Settled(u)' = Settled(u)
      BY <2>4, PassKeepsSettled
    <3>2. holder = w /\ inside' = inside /\ (holder' = Free \/ holder' = w)
      BY <2>4 DEF Pass
    <3>3. Distinct'
      BY <3>1 DEF Distinct
    <3>4. Rotation'
      BY <3>1, DecrementFacts DEF Rotation
    <3>5. TurnHeld' /\ TurnPassed'
      BY <3>1, <3>2 DEF RingAssumption, TurnHeld, TurnPassed, TypeOK
    <3> QED
      BY <3>1, <3>3, <3>4, <3>5
  <2>5. CASE UNCHANGED vars
    BY <2>5 DEF vars, TypeOK, Distinct, Rotation, TurnHeld, TurnPassed, Settled
  <2> QED
    BY <2>1, <2>2, <2>3, <2>4, <2>5 DEF Next
<1> QED
  BY <1>1, <1>2, PTL DEF Spec

(* At most one worker is inside its turn.                                  *)
THEOREM MutualExclusion ==
  ASSUME RingAssumption
  PROVE  Spec => []Exclusion
<1>1. Inv => Exclusion
  BY DEF Inv, TurnHeld, Distinct, TypeOK, Exclusion
<1> QED
  BY <1>1, Invariance, PTL
=============================================================================
