------------------------- MODULE QueueClientsProofs -------------------------
(***************************************************************************)
(* Theorems about QueueClients for any finite set of threads, any items    *)
(* and any length: its types, the absence of lost wake-ups, and that it    *)
(* implements BlockingQueue, the promises of progress left out.            *)
(***************************************************************************)
EXTENDS QueueClients, FiniteSetTheorems, TLAPS

(* get and pop remove one item and disturb nothing else.                   *)
LEMMA TakenFacts ==
  ASSUME NEW x \in QueueType(Clients, Items), x.items # <<>>
  PROVE  /\ Taken(x) \in QueueType(Clients, Items)
         /\ Head(x.items) \in Items
         /\ Taken(x).asleep = x.asleep
         /\ Taken(x).stopped = x.stopped
         /\ Len(Taken(x).items) = Len(x.items) - 1
<1>1. /\ x.items \in Seq(Items) /\ Tail(x.items) \in Seq(Items)
      /\ Head(x.items) \in Items /\ Len(Tail(x.items)) = Len(x.items) - 1
  BY DEF QueueType
<1> QED
  BY <1>1 DEF QueueType, Taken

(* push appends its item and wakes one sleeper if there is any.            *)
LEMMA PushedFacts ==
  ASSUME NEW x \in QueueType(Clients, Items), NEW v \in Items, NEW y \in Pushed(x, v)
  PROVE  /\ y \in QueueType(Clients, Items)
         /\ y.items = Append(x.items, v)
         /\ Len(y.items) = Len(x.items) + 1
         /\ y.stopped = x.stopped
         /\ \/ x.asleep = {} /\ y.asleep = {}
            \/ \E t \in x.asleep : y.asleep = x.asleep \ {t}
<1> DEFINE z == [x EXCEPT !.items = Append(@, v)]
<1>1. /\ x.items \in Seq(Items) /\ Append(x.items, v) \in Seq(Items)
      /\ Len(Append(x.items, v)) = Len(x.items) + 1
  BY DEF QueueType
<1>2. /\ z \in QueueType(Clients, Items) /\ z.items = Append(x.items, v)
      /\ z.stopped = x.stopped /\ z.asleep = x.asleep
  BY <1>1 DEF QueueType
<1>3. y \in NotifyOne(z)
  BY DEF Pushed
<1>4. CASE x.asleep = {}
  BY <1>1, <1>2, <1>3, <1>4 DEF NotifyOne
<1>5. CASE x.asleep # {}
  <2>1. PICK t \in z.asleep : y = [z EXCEPT !.asleep = @ \ {t}]
    BY <1>2, <1>3, <1>5 DEF NotifyOne
  <2> HIDE DEF z
  <2>2. /\ y.items = z.items /\ y.stopped = z.stopped /\ y.asleep = z.asleep \ {t}
        /\ y \in QueueType(Clients, Items)
    BY <2>1, <1>2 DEF QueueType
  <2> QED
    BY <1>1, <1>2, <2>2
<1> QED
  BY <1>4, <1>5

(* The queue holds what its callers put there, the calls and outcomes are  *)
(* those of the class.                                                     *)
THEOREM TypeCorrect == SafeSpec => []TypeOK
<1>1. Init => TypeOK
  BY DEF Init, TypeOK, NewQueue, QueueType
<1>2. TypeOK /\ [Next]_vars => TypeOK'
  <2> SUFFICES ASSUME TypeOK, [Next]_vars PROVE TypeOK'
    OBVIOUS
  <2> USE DEF TypeOK
  <2>1. ASSUME NEW t \in Clients, NEW c \in Calls, Invoke(t, c) PROVE TypeOK'
    BY <2>1 DEF Invoke
  <2>2. ASSUME NEW t \in Clients, Get(t) PROVE TypeOK'
    BY <2>2, TakenFacts DEF Get, Running, Return, Ready
  <2>3. ASSUME NEW t \in Clients, Front(t) PROVE TypeOK'
    BY <2>3, TakenFacts DEF Front, Running, Return, Ready
  <2>4. ASSUME NEW t \in Clients, Pop(t) PROVE TypeOK'
    BY <2>4, TakenFacts DEF Pop, Running, Return, Ready
  <2>5. ASSUME NEW t \in Clients, Wait(t) PROVE TypeOK'
    BY <2>5 DEF Wait, Slept, QueueType
  <2>6. ASSUME NEW t \in Clients, SpuriousWakeup(t) PROVE TypeOK'
    BY <2>6 DEF SpuriousWakeup, Roused, QueueType
  <2>7. ASSUME NEW v \in Items, Push(v) PROVE TypeOK'
    BY <2>7, PushedFacts DEF Push
  <2>8. ASSUME NotifyAll PROVE TypeOK'
    BY <2>8 DEF NotifyAll, Stopped, QueueType
  <2>9. CASE UNCHANGED vars
    BY <2>9 DEF vars
  <2> QED
    BY <2>1, <2>2, <2>3, <2>4, <2>5, <2>6, <2>7, <2>8, <2>9 DEF Next, Step
<1> QED
  BY <1>1, <1>2, PTL DEF SafeSpec

-----------------------------------------------------------------------------
(* Only a thread inside a call sleeps.                                     *)
SleepersCalling == \A t \in q.asleep : call[t] # Idle

LEMMA SleepersAreInCalls == SafeSpec => []SleepersCalling
<1>1. Init => SleepersCalling
  BY DEF Init, SleepersCalling, NewQueue
<1>2. TypeOK /\ SleepersCalling /\ [Next]_vars => SleepersCalling'
  <2> SUFFICES ASSUME TypeOK, SleepersCalling, [Next]_vars PROVE SleepersCalling'
    OBVIOUS
  <2> USE DEF SleepersCalling
  <2>1. ASSUME NEW t \in Clients, NEW c \in Calls, Invoke(t, c) PROVE SleepersCalling'
    BY <2>1, CallsAssumption DEF Invoke, TypeOK, QueueType
  <2>2. ASSUME NEW t \in Clients, Get(t) \/ Front(t) \/ Pop(t) PROVE SleepersCalling'
    <3>1. t \notin q.asleep /\ call' = [call EXCEPT ![t] = Idle]
      BY <2>2 DEF Get, Front, Pop, Running, Return
    <3>2. q' = q \/ (q.items # <<>> /\ q' = Taken(q))
      BY <2>2 DEF Get, Front, Pop, Ready
    <3>3. q'.asleep = q.asleep
      BY <3>2, TakenFacts DEF TypeOK
    <3> QED
      BY <3>1, <3>3 DEF TypeOK, QueueType
  <2>3. ASSUME NEW t \in Clients, Wait(t) PROVE SleepersCalling'
    BY <2>3 DEF Wait, Slept, TypeOK, QueueType
  <2>4. ASSUME NEW t \in Clients, SpuriousWakeup(t) PROVE SleepersCalling'
    BY <2>4 DEF SpuriousWakeup, Roused, TypeOK, QueueType
  <2>5. ASSUME NEW v \in Items, Push(v) PROVE SleepersCalling'
    BY <2>5, PushedFacts DEF Push, TypeOK
  <2>6. ASSUME NotifyAll PROVE SleepersCalling'
    BY <2>6 DEF NotifyAll, Stopped, TypeOK, QueueType
  <2>7. CASE UNCHANGED vars
    BY <2>7 DEF vars
  <2> QED
    BY <2>1, <2>2, <2>3, <2>4, <2>5, <2>6, <2>7 DEF Next, Step
<1> QED
  BY <1>1, <1>2, TypeCorrect, PTL DEF SafeSpec

(* The threads awake inside a call are finitely many.                      *)
LEMMA TakersFinite == IsFiniteSet(Takers) /\ Cardinality(Takers) \in Nat
<1>1. Takers \in SUBSET Clients
  BY DEF Takers
<1> QED
  BY <1>1, ClientsAssumption, FS_Subset, FS_CardinalityType

LEMMA TakersFiniteNext == IsFiniteSet(Takers') /\ Cardinality(Takers') \in Nat
<1>1. Takers' \in SUBSET Clients
  BY DEF Takers
<1> QED
  BY <1>1, ClientsAssumption, FS_Subset, FS_CardinalityType

(* With get and pop only, each waiting item has an awake taker of its own  *)
(* while anyone sleeps: push wakes one sleeper per item, and a thread      *)
(* leaves the takers only with an item, or to sleep on an empty queue.     *)
THEOREM WakeupsAreNotLost ==
  ASSUME "front" \notin Calls
  PROVE  SafeSpec => []NoLostWakeup
<1>1. Init => NoLostWakeup
  BY DEF Init, NoLostWakeup, NewQueue
<1>2. TypeOK /\ TypeOK' /\ SleepersCalling /\ NoLostWakeup /\ [Next]_vars => NoLostWakeup'
  <2> SUFFICES ASSUME TypeOK, TypeOK', SleepersCalling, NoLostWakeup, [Next]_vars,
                      q'.asleep # {}
               PROVE  ~q'.stopped /\ Len(q'.items) <= Cardinality(Takers')
    BY DEF NoLostWakeup
  <2> DEFINE Goal == ~q'.stopped /\ Len(q'.items) <= Cardinality(Takers')
  <2>0. /\ Len(q.items) \in Nat /\ Len(q'.items) \in Nat
        /\ IsFiniteSet(Takers) /\ Cardinality(Takers) \in Nat
        /\ IsFiniteSet(Takers') /\ Cardinality(Takers') \in Nat
    BY TakersFinite, TakersFiniteNext DEF TypeOK, QueueType
  <2>1. ASSUME NEW t \in Clients, NEW c \in Calls, Invoke(t, c) PROVE Goal
    <3>1. Takers \subseteq Takers' /\ q' = q
      BY <2>1, CallsAssumption DEF Invoke, Takers, TypeOK
    <3>2. Cardinality(Takers) <= Cardinality(Takers')
      BY <3>1, <2>0, FS_Subset
    <3> QED
      BY <3>1, <3>2, <2>0 DEF NoLostWakeup
  <2>2. ASSUME NEW t \in Clients, Get(t) \/ Pop(t) PROVE Goal
    <3>1. q' = q \/ (q.items # <<>> /\ q' = Taken(q))
      BY <2>2 DEF Get, Pop, Ready
    <3>2. q'.asleep = q.asleep
      BY <3>1, TakenFacts DEF TypeOK
    <3>3. ~q.stopped /\ Len(q.items) <= Cardinality(Takers)
      BY <3>2 DEF NoLostWakeup
    <3>4. q' = Taken(q) /\ q.items # <<>> /\ call' = [call EXCEPT ![t] = Idle]
      BY <2>2, <3>3 DEF Get, Pop, Ready, Return
    <3>5. t \in Takers
      BY <2>2, CallsAssumption DEF Get, Pop, Running, Takers
    <3>6. Takers' = Takers \ {t}
      BY <3>2, <3>4 DEF Takers, TypeOK
    <3>7. Cardinality(Takers') = Cardinality(Takers) - 1
      BY <3>5, <3>6, <2>0, FS_RemoveElement
    <3>8. Len(q'.items) = Len(q.items) - 1 /\ ~q'.stopped
      BY <3>3, <3>4, TakenFacts DEF TypeOK
    <3> QED
      BY <3>3, <3>7, <3>8, <2>0
  <2>3. ASSUME NEW t \in Clients, Front(t) PROVE Goal
    BY <2>3, CallsAssumption DEF Front, Running, TypeOK
  <2>4. ASSUME NEW t \in Clients, Wait(t) PROVE Goal
    BY <2>4, <2>0 DEF Wait, Slept, Ready, TypeOK, QueueType
  <2>5. ASSUME NEW t \in Clients, SpuriousWakeup(t) PROVE Goal
    <3>1. Takers \subseteq Takers' /\ q.asleep # {}
      BY <2>5 DEF SpuriousWakeup, Roused, Takers, TypeOK, QueueType
    <3>2. Cardinality(Takers) <= Cardinality(Takers')
      BY <3>1, <2>0, FS_Subset
    <3>3. q'.items = q.items /\ q'.stopped = q.stopped
      BY <2>5 DEF SpuriousWakeup, Roused, TypeOK, QueueType
    <3> QED
      BY <3>1, <3>2, <3>3, <2>0 DEF NoLostWakeup
  <2>6. ASSUME NEW v \in Items, Push(v) PROVE Goal
    <3>1. /\ Len(q'.items) = Len(q.items) + 1 /\ q'.stopped = q.stopped
          /\ \E t \in q.asleep : q'.asleep = q.asleep \ {t}
      BY <2>6, PushedFacts DEF Push, TypeOK
    <3>2. PICK t \in q.asleep : q'.asleep = q.asleep \ {t}
      BY <3>1
    <3>3. t \in Clients /\ call[t] # Idle
      BY <3>2 DEF SleepersCalling, TypeOK, QueueType
    <3>4. Takers' = Takers \cup {t} /\ t \notin Takers
      BY <2>6, <3>2, <3>3 DEF Push, Takers
    <3>5. Cardinality(Takers') = Cardinality(Takers) + 1
      BY <3>4, <2>0, FS_AddElement
    <3> QED
      BY <3>1, <3>2, <3>5, <2>0 DEF NoLostWakeup
  <2>7. ASSUME NotifyAll PROVE Goal
    BY <2>7 DEF NotifyAll, Stopped, TypeOK, QueueType
  <2>8. CASE UNCHANGED vars
    BY <2>8 DEF vars, NoLostWakeup, Takers
  <2> QED
    BY <2>1, <2>2, <2>3, <2>4, <2>5, <2>6, <2>7, <2>8 DEF Next, Step
<1> QED
  BY <1>1, <1>2, TypeCorrect, SleepersAreInCalls, PTL DEF SafeSpec
-----------------------------------------------------------------------------
(* The class implements the blocking queue it promises: each critical      *)
(* section that ends a call is a delivery or a failure, each that sleeps   *)
(* or wakes is a stutter, and a stopped queue delivers nothing.            *)
THEOREM ImplementsQueue == SafeSpec => ImplementsQueueSafely
<1>1. Init => Abstract!Init
  BY DEF Init, Abstract!Init, NewQueue
<1>2. TypeOK /\ [Next]_vars => [Abstract!Next]_(Abstract!vars)
  <2> SUFFICES ASSUME TypeOK, [Next]_vars
               PROVE  Abstract!Next \/ UNCHANGED Abstract!vars
    OBVIOUS
  <2> DEFINE Goal == Abstract!Next \/ UNCHANGED Abstract!vars
  <2>1. ASSUME NEW t \in Clients, NEW c \in Calls, Invoke(t, c) PROVE Goal
    <3>1. Abstract!Invoke(t, c)
      BY <2>1 DEF Invoke, Abstract!Invoke
    <3> QED
      BY <3>1 DEF Abstract!Next
  <2>2. ASSUME NEW t \in Clients, Get(t) PROVE Goal
    <3>1. CASE q.stopped
      <4>1. Abstract!Fail(t)
        BY <2>2, <3>1, CallsAssumption
        DEF Get, Running, Return, Abstract!Fail, Abstract!Return
      <4> QED
        BY <4>1 DEF Abstract!Next
    <3>2. CASE ~q.stopped
      <4>1. q.items # <<>> /\ q' = Taken(q) /\ Return(t, Head(q.items)) /\ call[t] = "get"
        BY <2>2, <3>2 DEF Get, Running, Ready
      <4>2. q'.items = Tail(q.items) /\ q'.stopped = q.stopped
        BY <4>1 DEF Taken, TypeOK, QueueType
      <4>3. Abstract!Deliver(t)
        BY <3>2, <4>1, <4>2 DEF Return, Abstract!Deliver, Abstract!Return
      <4> QED
        BY <4>3 DEF Abstract!Next
    <3> QED
      BY <3>1, <3>2
  <2>3. ASSUME NEW t \in Clients, Front(t) PROVE Goal
    <3>1. CASE q.stopped
      <4>1. Abstract!Fail(t)
        BY <2>3, <3>1, CallsAssumption
        DEF Front, Running, Return, Abstract!Fail, Abstract!Return
      <4> QED
        BY <4>1 DEF Abstract!Next
    <3>2. CASE ~q.stopped
      <4>1. Abstract!Deliver(t)
        BY <2>3, <3>2 DEF Front, Running, Ready, Return, Abstract!Deliver, Abstract!Return
      <4> QED
        BY <4>1 DEF Abstract!Next
    <3> QED
      BY <3>1, <3>2
  <2>4. ASSUME NEW t \in Clients, Pop(t) PROVE Goal
    <3>1. CASE q.stopped
      <4>1. Abstract!Fail(t)
        BY <2>4, <3>1, CallsAssumption
        DEF Pop, Running, Return, Abstract!Fail, Abstract!Return
      <4> QED
        BY <4>1 DEF Abstract!Next
    <3>2. CASE ~q.stopped
      <4>1. q.items # <<>> /\ q' = Taken(q) /\ Return(t, Nothing) /\ call[t] = "pop"
        BY <2>4, <3>2 DEF Pop, Running, Ready
      <4>2. q'.items = Tail(q.items) /\ q'.stopped = q.stopped
        BY <4>1 DEF Taken, TypeOK, QueueType
      <4>3. Abstract!Deliver(t)
        BY <3>2, <4>1, <4>2 DEF Return, Abstract!Deliver, Abstract!Return
      <4> QED
        BY <4>3 DEF Abstract!Next
    <3> QED
      BY <3>1, <3>2
  <2>5. ASSUME NEW t \in Clients, Wait(t) \/ SpuriousWakeup(t) PROVE Goal
    BY <2>5 DEF Wait, Slept, SpuriousWakeup, Roused, TypeOK, QueueType, Abstract!vars
  <2>6. ASSUME NEW v \in Items, Push(v) PROVE Goal
    <3>1. Abstract!Put(v)
      BY <2>6, PushedFacts DEF Push, TypeOK, Abstract!Put
    <3> QED
      BY <3>1 DEF Abstract!Next
  <2>7. ASSUME NotifyAll PROVE Goal
    <3>1. Abstract!Close
      BY <2>7 DEF NotifyAll, Stopped, TypeOK, QueueType, Abstract!Close
    <3> QED
      BY <3>1 DEF Abstract!Next
  <2>8. CASE UNCHANGED vars
    BY <2>8 DEF vars, Abstract!vars
  <2> QED
    BY <2>1, <2>2, <2>3, <2>4, <2>5, <2>6, <2>7, <2>8 DEF Next, Step
<1> QED
  BY <1>1, <1>2, TypeCorrect, PTL DEF SafeSpec, ImplementsQueueSafely, Abstract!SafeSpec
=============================================================================
