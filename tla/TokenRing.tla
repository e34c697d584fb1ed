------------------------------ MODULE TokenRing ------------------------------
(***************************************************************************)
(* The turn-taking that WorkerManager::change_token_reading and            *)
(* change_token_results are meant to provide, with everything else left    *)
(* out.  Each worker has a token, 0..NumWorkers-1; the worker whose token  *)
(* is 0 may enter the section; it ends its turn by locking the mutex and   *)
(* decrementing the token of every worker, one at a time, modulo the       *)
(* number of workers.  Tokens are read without the lock.                   *)
(***************************************************************************)
EXTENDS Integers

CONSTANTS NumWorkers, Free

Workers == 0..(NumWorkers - 1)

(* What the theorems of TokenRingProofs need of the constants: a hypothesis *)
(* of each of them, which a module with a ring discharges.                 *)
RingAssumption == NumWorkers \in Nat \ {0} /\ Free \notin Workers

VARIABLES
    token,      \* token[w]: how many turns before w's own
    holder,     \* the worker that holds the mutex, or Free
    next,       \* the worker whose token the holder decrements next
    inside      \* the workers that saw a 0 and have not ended their turn
vars == <<token, holder, next, inside>>

Decrement(t) == IF t = 0 THEN NumWorkers - 1 ELSE t - 1

Init == /\ token = [w \in Workers |-> w]
        /\ holder = Free
        /\ next = 0
        /\ inside = {}

Enter(w) == /\ token[w] = 0
            /\ w \notin inside
            /\ holder # w
            /\ inside' = inside \cup {w}
            /\ UNCHANGED <<token, holder, next>>

(* The worker found nothing to do and keeps its turn for later.            *)
Leave(w) == /\ w \in inside
            /\ inside' = inside \ {w}
            /\ UNCHANGED <<token, holder, next>>

Lock(w) == /\ w \in inside
           /\ holder = Free
           /\ holder' = w
           /\ next' = 0
           /\ inside' = inside \ {w}
           /\ UNCHANGED token

Pass(w) == /\ holder = w
           /\ token' = [token EXCEPT ![next] = Decrement(@)]
           /\ IF next = NumWorkers - 1
              THEN holder' = Free /\ next' = 0
              ELSE holder' = holder /\ next' = next + 1
           /\ UNCHANGED inside

Next == \E w \in Workers : Enter(w) \/ Leave(w) \/ Lock(w) \/ Pass(w)

Spec == Init /\ [][Next]_vars

-----------------------------------------------------------------------------
TypeOK == /\ token \in [Workers -> Workers]
          /\ holder \in Workers \cup {Free}
          /\ next \in Workers
          /\ inside \subseteq Workers

(* What the token of w will be when the decrement in progress is over.     *)
Settled(w) == IF holder # Free /\ next <= w THEN Decrement(token[w]) ELSE token[w]

Successor(w) == IF w = NumWorkers - 1 THEN 0 ELSE w + 1
Increment(t) == IF t = NumWorkers - 1 THEN 0 ELSE t + 1

(* The tokens are a rotation of 0..NumWorkers-1: all different, and each   *)
(* worker's turn comes right after its predecessor's.                      *)
Distinct == \A u, w \in Workers : Settled(u) = Settled(w) => u = w
Rotation == \A w \in Workers : Settled(Successor(w)) = Increment(Settled(w))

(* Whoever is inside sees its turn, whoever ends it goes last.             *)
TurnHeld == \A w \in inside : Settled(w) = 0
TurnPassed == holder # Free => /\ holder \notin inside
                               /\ Settled(holder) = NumWorkers - 1

Inv == TypeOK /\ Distinct /\ Rotation /\ TurnHeld /\ TurnPassed

(* At most one worker is inside, although the tokens are decremented one   *)
(* at a time and read without the lock that protects the decrement.        *)
Exclusion == \A u, w \in inside : u = w
=============================================================================
