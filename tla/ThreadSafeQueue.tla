--------------------------- MODULE ThreadSafeQueue ---------------------------
(***************************************************************************)
(* The class template ThreadSafeQueue<T> of c++/include/rtadp, as a value  *)
(* and the effect of each of its critical sections on that value.          *)
(*                                                                         *)
(* Every member function locks mtx for its whole body, so a call is one    *)
(* step, except that condvar.wait releases the lock: a call that waits is  *)
(* a step that puts the caller to sleep and, after a notification or a     *)
(* spurious wake-up, another step that evaluates the predicate again.      *)
(* asleep is the wait set of condvar: the threads that have released mtx   *)
(* inside condvar.wait and that nothing has woken yet.                     *)
(***************************************************************************)
EXTENDS Sequences

QueueType(Threads, Items) ==
    [items : Seq(Items), stopped : BOOLEAN, asleep : SUBSET Threads]

NewQueue == [items |-> <<>>, stopped |-> FALSE, asleep |-> {}]

(* The predicate given to condvar.wait by front, get and pop.              *)
Ready(q) == q.stopped \/ q.items # <<>>

(* condvar.notify_one: wakes one of the sleepers, the choice is not ours.  *)
NotifyOne(q) ==
    IF q.asleep = {} THEN {q}
    ELSE {[q EXCEPT !.asleep = @ \ {t}] : t \in q.asleep}

(* Mutant of Pushed: the notification is forgotten.                        *)
PushedSilently(q, v) == {[q EXCEPT !.items = Append(@, v)]}

(* push: it appends whether or not the queue was stopped.                  *)
Pushed(q, v) == NotifyOne([q EXCEPT !.items = Append(@, v)])

(* The end of get and of pop, after the wait and the test of _stop.        *)
Taken(q) == [q EXCEPT !.items = Tail(@)]

(* condvar.wait with a false predicate: release mtx and sleep.             *)
Slept(q, t) == [q EXCEPT !.asleep = @ \cup {t}]

(* A wake-up that no notification caused, which condvar.wait allows.       *)
Roused(q, t) == [q EXCEPT !.asleep = @ \ {t}]

(* Mutant of Stopped: the sleepers are not notified.                       *)
StoppedSilently(q) == [q EXCEPT !.stopped = TRUE]

(* notify_all: stops the queue for ever and wakes every sleeper.           *)
Stopped(q) == [q EXCEPT !.stopped = TRUE, !.asleep = {}]

(* empty.                                                                  *)
Empty(q) == q.items = <<>>
=============================================================================
