---------------------------- MODULE BlockingQueue ----------------------------
(***************************************************************************)
(* What ThreadSafeQueue promises its callers: a first-in first-out queue   *)
(* that hands every item to at most one taker, makes takers wait for an    *)
(* item, and can be closed, after which nothing is delivered any more and  *)
(* every call that waits ends.  No lock, no condition variable, no sleep:  *)
(* a call is pending until it returns.                                     *)
(***************************************************************************)
EXTENDS Sequences, Naturals

CONSTANTS Clients, Items, Calls, MaxLen, Idle, Nothing, Thrown

VARIABLES items, closed, call, outcome
vars == <<items, closed, call, outcome>>

Init == /\ items = <<>>
        /\ closed = FALSE
        /\ call = [t \in Clients |-> Idle]
        /\ outcome = [t \in Clients |-> Nothing]

Invoke(t, c) == /\ call[t] = Idle
                /\ call' = [call EXCEPT ![t] = c]
                /\ outcome' = [outcome EXCEPT ![t] = Nothing]
                /\ UNCHANGED <<items, closed>>

Put(v) == /\ Len(items) < MaxLen
          /\ items' = Append(items, v)
          /\ UNCHANGED <<closed, call, outcome>>

Return(t, r) == /\ call' = [call EXCEPT ![t] = Idle]
                /\ outcome' = [outcome EXCEPT ![t] = r]

(* get and pop consume the head; only get and front return it.             *)
Deliver(t) == /\ ~closed
              /\ items # <<>>
              /\ \/ call[t] = "get"   /\ Return(t, Head(items)) /\ items' = Tail(items)
                 \/ call[t] = "front" /\ Return(t, Head(items)) /\ items' = items
                 \/ call[t] = "pop"   /\ Return(t, Nothing) /\ items' = Tail(items)
              /\ UNCHANGED closed

(* A call on a closed queue delivers nothing, whatever the queue holds.    *)
Fail(t) == /\ closed
           /\ call[t] # Idle
           /\ Return(t, IF call[t] = "pop" THEN Nothing ELSE Thrown)
           /\ UNCHANGED <<items, closed>>

Close == /\ closed' = TRUE
         /\ UNCHANGED <<items, call, outcome>>

Next == \/ \E t \in Clients : \/ \E c \in Calls : Invoke(t, c)
                              \/ Deliver(t)
                              \/ Fail(t)
        \/ \E v \in Items : Put(v)
        \/ Close

SafeSpec == Init /\ [][Next]_vars

(* An item and a taker do not ignore each other for ever, and a closed     *)
(* queue ends every call.                                                  *)
Spec == /\ SafeSpec
        /\ WF_vars(\E t \in Clients : Deliver(t))
        /\ \A t \in Clients : WF_vars(Fail(t))
=============================================================================
