----------------------------- MODULE QueueClients -----------------------------
(***************************************************************************)
(* One ThreadSafeQueue and the threads that use it, at the granularity of  *)
(* its critical sections.  A thread is in at most one call; a call of      *)
(* get, front or pop may fall asleep in condvar.wait any number of times   *)
(* before it returns.  push and notify_all never wait, so they are single  *)
(* steps of whichever thread makes them.                                   *)
(***************************************************************************)
EXTENDS ThreadSafeQueue, FiniteSets, Integers

CONSTANTS
    Clients,    \* the threads
    Items,      \* the values of type T
    Calls,      \* the waiting calls the threads make: some of "get", "front", "pop"
    MaxLen,     \* bound: no push is made beyond this length
    Idle,       \* the thread is in no call
    Nothing,    \* the outcome of a call that returns no item
    Thrown      \* the outcome of a call that ends with std::runtime_error

ASSUME ClientsAssumption == IsFiniteSet(Clients)
ASSUME CallsAssumption == /\ Calls \subseteq {"get", "front", "pop"}
                          /\ Idle \notin {"get", "front", "pop"}
ASSUME BoundAssumption == MaxLen \in Nat

VARIABLES
    q,          \* the queue object
    call,       \* call[t]: the call thread t is in, or Idle
    outcome     \* outcome[t]: what the last finished call of t gave it
vars == <<q, call, outcome>>

TypeOK == /\ q \in QueueType(Clients, Items)
          /\ call \in [Clients -> Calls \cup {Idle}]
          /\ outcome \in [Clients -> Items \cup {Nothing, Thrown}]

Init == /\ q = NewQueue
        /\ call = [t \in Clients |-> Idle]
        /\ outcome = [t \in Clients |-> Nothing]

(* Thread t enters get, front or pop and competes for mtx.                 *)
Invoke(t, c) ==
    /\ call[t] = Idle
    /\ call' = [call EXCEPT ![t] = c]
    /\ outcome' = [outcome EXCEPT ![t] = Nothing]
    /\ UNCHANGED q

Push(v) ==
    /\ Len(q.items) < MaxLen
    /\ q' \in Pushed(q, v)
    /\ UNCHANGED <<call, outcome>>

(* Thread t holds mtx inside call c: it is in the call and not asleep.     *)
Running(t, c) == call[t] = c /\ t \notin q.asleep

(* Mutant of Return: the two assignments are swapped.                      *)
ReturnSwapped(t, r) == /\ call' = [call EXCEPT ![t] = r]
                       /\ outcome' = [outcome EXCEPT ![t] = Idle]

Return(t, r) == /\ call' = [call EXCEPT ![t] = Idle]
                /\ outcome' = [outcome EXCEPT ![t] = r]

(* Mutant of Get: the test that the source keeps as a comment,             *)
(* if (_stop && queue.empty()), which still delivers after notify_all.     *)
GetDraining(t) ==
    /\ Running(t, "get")
    /\ Ready(q)
    /\ \/ Empty(q) /\ Return(t, Thrown) /\ UNCHANGED q
       \/ ~Empty(q) /\ Return(t, Head(q.items)) /\ q' = Taken(q)

(* Mutant of Get: front and pop in two critical sections, the item is read *)
(* before the one that removes it.                                         *)
GetWithoutPop(t) ==
    /\ Running(t, "get")
    /\ Ready(q)
    /\ Return(t, IF q.stopped THEN Thrown ELSE Head(q.items))
    /\ UNCHANGED q

Get(t) ==
    /\ Running(t, "get")
    /\ Ready(q)
    /\ \/ q.stopped /\ Return(t, Thrown) /\ UNCHANGED q
       \/ ~q.stopped /\ Return(t, Head(q.items)) /\ q' = Taken(q)

Front(t) ==
    /\ Running(t, "front")
    /\ Ready(q)
    /\ Return(t, IF q.stopped THEN Thrown ELSE Head(q.items))
    /\ UNCHANGED q

Pop(t) ==
    /\ Running(t, "pop")
    /\ Ready(q)
    /\ Return(t, Nothing)
    /\ q' = IF q.stopped THEN q ELSE Taken(q)

(* The predicate is false: condvar.wait releases mtx and sleeps.           *)
Wait(t) ==
    /\ call[t] # Idle
    /\ t \notin q.asleep
    /\ ~Ready(q)
    /\ q' = Slept(q, t)
    /\ UNCHANGED <<call, outcome>>

SpuriousWakeup(t) ==
    /\ t \in q.asleep
    /\ q' = Roused(q, t)
    /\ UNCHANGED <<call, outcome>>

NotifyAll == q' = Stopped(q) /\ UNCHANGED <<call, outcome>>

(* What thread t does while it is inside a call and not asleep.            *)
Step(t) == Get(t) \/ Front(t) \/ Pop(t) \/ Wait(t)

Next == \/ \E t \in Clients : \/ \E c \in Calls : Invoke(t, c)
                              \/ Step(t)
                              \/ SpuriousWakeup(t)
        \/ \E v \in Items : Push(v)
        \/ NotifyAll

SafeSpec == Init /\ [][Next]_vars

(* A thread that is awake inside a call gets mtx again: the critical       *)
(* sections are short and no thread keeps the mutex.  Nobody has to push,  *)
(* to call, or to wake up without a notification.                          *)
Fairness == \A t \in Clients : WF_vars(Step(t))

Spec == SafeSpec /\ Fairness

-----------------------------------------------------------------------------
(* The threads on their way to consume an item.                            *)
Takers == {t \in Clients : call[t] # Idle /\ t \notin q.asleep}

(* No notification is lost: while some thread sleeps, every item in the    *)
(* queue has a thread of its own that is awake and about to take it, and   *)
(* nobody sleeps on a stopped queue.  (push notifies one thread per item,  *)
(* ThreadSafeQueue.h:25, and relies on that thread to take it.)            *)
NoLostWakeup ==
    q.asleep # {} => ~q.stopped /\ Len(q.items) <= Cardinality(Takers)

(* The comment over front's wait promises the absence of lost              *)
(* notifications: no thread sleeps while an item waits and nobody is left  *)
(* to take it.                                                             *)
NobodySleepsOnAnItem == q.asleep # {} /\ q.items # <<>> => Takers # {}

(* notify_all ends every call, the ones asleep and the ones made later.    *)
StopReleasesEveryone ==
    \A t \in Clients : (q.stopped /\ call[t] # Idle) ~> (call[t] = Idle)

(* A waiting get or pop and a waiting item meet: the call returns, or      *)
(* others empty the queue, or the queue is stopped.                        *)
NoStranding ==
    \A t \in Clients :
        (q.items # <<>> /\ call[t] # Idle) ~> (call[t] = Idle \/ q.items = <<>> \/ q.stopped)

Abstract == INSTANCE BlockingQueue WITH items <- q.items, closed <- q.stopped

(* The class implements the blocking queue it promises: every item is      *)
(* handed out once and in order, nothing is delivered after notify_all,    *)
(* items and takers do not ignore each other, and notify_all ends every    *)
(* call.  (The header's "thread-safe and concurrent-access safe".)         *)
ImplementsBlockingQueue == Abstract!Spec

(* The same without the promises of progress, which hold only while no     *)
(* thread uses front.                                                      *)
ImplementsQueueSafely == Abstract!SafeSpec
=============================================================================
