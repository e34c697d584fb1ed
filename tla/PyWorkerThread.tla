---------------------------- MODULE PyWorkerThread ----------------------------
(***************************************************************************)
(* The worker threads of the Python framework (workers/WorkerThread.py,    *)
(* workers/WorkerManager.py), the twin of WorkerThread: the same turns and *)
(* the same places, but a read does not look first, it tries the           *)
(* high-priority queue and then waits up to a second at the low-priority   *)
(* one; a token is decremented and wrapped round in two writes; results of *)
(* both priorities are written; an exception of process_data ends the      *)
(* thread; the shared event stops all workers.                             *)
(*                                                                         *)
(* Variables and steps that are the same are WorkerThread's; "hpEmpty" is  *)
(* the get_nowait, "lpGet" the get with a timeout.                         *)
(***************************************************************************)
EXTENDS WorkerThread

VARIABLES
    rlp,            \* result_lp_queue
    stopping        \* _workers_stop_event

pyvars == <<vars, rlp, stopping>>

PyInit == Init /\ rlp = <<>> /\ stopping = FALSE

(* A step of WorkerThread that is the same in Python.                      *)
Same(step) == step /\ UNCHANGED <<rlp, stopping>>

-----------------------------------------------------------------------------
(* run().                                                                  *)

PyPoll(w) == ~stopping /\ Same(Poll(w))

(* The loop ends; the timer is cancelled.                                  *)
PyEnd(w) ==
    /\ stopping
    /\ pc[w] = "poll"
    /\ Same(Goto(w, "ended"))
    /\ UNCHANGED <<queues, pushed, held, control, readRing, resultRing, history>>

(* Mutant of PyCheckToken: processdata alone, the condition that is left   *)
(* in a comment above it.                                                  *)
PyCheckNoToken(w) ==
    /\ pc[w] = "token"
    /\ Same(Goto(w, "hpEmpty"))
    /\ UNCHANGED <<queues, pushed, held, control, readRing, resultRing, history>>

PyCheckToken(w) == Same(CheckToken(w))

(* get_nowait: the head, or queue.Empty, whose handler goes on.            *)
PyGetHp(w) ==
    /\ pc[w] = "hpEmpty"
    /\ \/ /\ hp # <<>>
          /\ hp' = Tail(hp)
          /\ Took(w, hp, 1)
          /\ overtakes' = 0
       \/ /\ hp = <<>>
          /\ Goto(w, "lpGet")
          /\ UNCHANGED <<hp, held, history>>
    /\ UNCHANGED <<lp, rhp, pushed, control, readRing, resultRing, rlp, stopping>>

(* get(timeout=1), when there is something in time,                        *)
PyGetLp(w) == Same(GetLp(w))

(* Mutant of PyGetLpTimeout: the get() waits as long as it takes.          *)
PyGetLpForever(w) == lp # <<>> /\ PyGetLp(w)

(* and when the second passes.                                             *)
PyGetLpTimeout(w) ==
    /\ pc[w] = "lpGet"
    /\ lp = <<>>
    /\ Same(Goto(w, "poll"))
    /\ UNCHANGED <<queues, pushed, held, control, readRing, resultRing, history>>

-----------------------------------------------------------------------------
(* change_token_reading and change_token_results: under the lock, one write*)
(* to decrement a token and one more to wrap it round.                     *)

Wrapped(t) == IF t < 0 THEN NumWorkers - 1 ELSE t - 1

(* After a write of a token: wrap it, go on to the next, or leave the loop.*)
PassOn(w, lock, written, place) ==
    \/ written < 0 /\ UNCHANGED <<lock, pc>>
    \/ /\ written >= 0
       /\ lock.next < NumWorkers - 1
       /\ lock' = [lock EXCEPT !.next = @ + 1]
       /\ UNCHANGED pc
    \/ /\ written >= 0
       /\ lock.next = NumWorkers - 1
       /\ lock' = Unlocked
       /\ Goto(w, place)

(* Mutant of PyPassReading: the token is not wrapped round.                *)
PyPassReadingUnwrapped(w) ==
    /\ pc[w] = "passing"
    /\ tokenreading' = [tokenreading EXCEPT ![readLock.next] = @ - 1]
    /\ IF readLock.next = NumWorkers - 1
       THEN readLock' = Unlocked /\ Goto(w, "process")
       ELSE readLock' = [readLock EXCEPT !.next = @ + 1] /\ UNCHANGED pc
    /\ UNCHANGED <<queues, pushed, held, control, resultRing, history, rlp, stopping>>

PyPassReading(w) ==
    /\ pc[w] = "passing"
    /\ tokenreading' = [tokenreading EXCEPT ![readLock.next] = Wrapped(@)]
    /\ PassOn(w, readLock, Wrapped(tokenreading[readLock.next]), "process")
    /\ UNCHANGED <<queues, pushed, held, control, resultRing, history, rlp, stopping>>

PyPassResult(w) ==
    /\ pc[w] = "resultPassing"
    /\ tokenresult' = [tokenresult EXCEPT ![resultLock.next] = Wrapped(@)]
    /\ PassOn(w, resultLock, Wrapped(tokenresult[resultLock.next]), "poll")
    /\ held' = IF pc' = pc THEN held ELSE [held EXCEPT ![w] = Free]
    /\ UNCHANGED <<queues, pushed, control, readRing, history, rlp, stopping>>

-----------------------------------------------------------------------------
(* process_data.                                                           *)

(* The worker's own process_data gives a result or none, or raises and the *)
(* thread ends.  Around high-priority data run() catches queue.Empty alone,*)
(* which it means for its get_nowait; that process_data, external, does not*)
(* raise that one is assumed.                                              *)
PyProcess(w) ==
    /\ \/ Process(w)
       \/ /\ pc[w] = "process"
          /\ Goto(w, "dead")
          /\ held' = [held EXCEPT ![w] = Free]
          /\ UNCHANGED <<queues, pushed, control, readRing, resultRing, history>>
    /\ UNCHANGED <<rlp, stopping>>

(* Mutant of PyCheckResult: every result is written, the condition that is *)
(* left in a comment above it.                                             *)
PyCheckNoResultToken(w) ==
    /\ pc[w] = "result"
    /\ Same(Goto(w, "push"))
    /\ UNCHANGED <<queues, pushed, held, control, readRing, resultRing, history>>

PyCheckResult(w) ==
    /\ pc[w] = "result"
    /\ \/ tokenresult[w] # 0 /\ Release(w)
       \/ tokenresult[w] = 0 /\ Goto(w, "push") /\ UNCHANGED held
    /\ UNCHANGED <<queues, pushed, control, readRing, resultRing, history, rlp, stopping>>

PyPushResult(w) ==
    /\ pc[w] = "push"
    /\ IF held[w].priority = 0
       THEN rlp' = Append(rlp, held[w].item) /\ UNCHANGED rhp
       ELSE rhp' = Append(rhp, held[w].item) /\ UNCHANGED rlp
    /\ Goto(w, "resultTurn")
    /\ UNCHANGED <<lp, hp, pushed, held, control, readRing, resultRing, history, stopping>>

-----------------------------------------------------------------------------
(* WorkerManager.stop sets the event that all its workers share.           *)
PyStop ==
    /\ stopping' = TRUE
    /\ UNCHANGED <<vars, rlp>>

(* clean_queue, called by a reset as in C++, empties the three queues of   *)
(* Clean and this one, a get_nowait at a time.                             *)
PyCleanResultLp ==
    /\ setting = Idle /\ \A w \in Workers : processdata[w] = 0
    /\ rlp # <<>>
    /\ rlp' = Tail(rlp)
    /\ UNCHANGED <<vars, stopping>>

PyRead(w) == \/ PyPoll(w) \/ PyEnd(w) \/ PyCheckToken(w)
             \/ PyGetHp(w) \/ PyGetLp(w) \/ PyGetLpTimeout(w)
             \/ Same(LockReading(w)) \/ PyPassReading(w)
PyProcessData(w) == \/ PyProcess(w) \/ PyCheckResult(w) \/ PyPushResult(w)
                    \/ Same(LockResult(w)) \/ PyPassResult(w)
PyRun(w) == PyRead(w) \/ PyProcessData(w)

PyNext == \/ \E w \in Workers : PyRun(w)
          \/ Same(Environment)
          \/ PyCleanResultLp
          \/ PyStop

PySafeSpec == PyInit /\ [][PyNext]_pyvars

(* Every thread runs, and process_data returns or raises.                  *)
PySpec == PySafeSpec /\ \A w \in Workers : WF_pyvars(PyRun(w))
-----------------------------------------------------------------------------
PyTypeOK ==
    /\ QueuesOK /\ ControlOK
    /\ rlp \in Seq(Items)
    /\ stopping \in BOOLEAN
    /\ pc \in [Workers -> Places \cup {"ended", "dead"}]
    /\ held \in [Workers -> DataType \cup {Free}]
    /\ tokenreading \in [Workers -> Workers \cup {-1}] /\ readLock \in LockType
    /\ tokenresult \in [Workers -> Workers \cup {-1}] /\ resultLock \in LockType

(* The moment between the two writes, when a token is -1, is harmless: the *)
(* threads take turns at the data queues, one at a time, as the ring says, *)
(* also when one of them has died.                                         *)
Unwrapped(token) == [w \in Workers |-> IF token[w] < 0 THEN 0 ELSE token[w]]
PyReadRing == INSTANCE TokenRing
    WITH token <- Unwrapped(tokenreading), holder <- readLock.holder, next <- readLock.next,
         inside <- Readers
PyReadersTakeTurns == PyReadRing!Spec

(* The same for writing the results of both priorities.                    *)
PyResultRing == INSTANCE TokenRing
    WITH token <- Unwrapped(tokenresult), holder <- resultLock.holder, next <- resultLock.next,
         inside <- Writers
PyWritersTakeTurns == PyResultRing!Spec

(* The locks are there to write results in order: they keep each result    *)
(* queue within less than a full turn of the order of reading.             *)
WithinOneTurn(results) ==
    \A i, j \in 1..Len(results) : i < j => ReadAt(results[i]) < ReadAt(results[j]) + NumWorkers
PyDisorderBelowOneTurn == WithinOneTurn(rlp) /\ WithinOneTurn(rhp)

(* A thread that dies has passed its turn on, so the others read once more *)
(* each, at most, before the turn comes back to it and stays there.        *)
DeathStopsWithinOneTurn ==
    \A w \in Workers :
        pc[w] = "dead" => \E i \in 1..Len(reads) : reads[i].by = w /\ i > Len(reads) - NumWorkers

(* While processing stays on and no thread dies, everything pushed is read.*)
Healthy == ~stopping /\ \A w \in Workers : pc[w] # "dead"
PyEverythingIsRead ==
    (<>[]ProcessingOn /\ []Healthy) => <>[](lp = <<>> /\ hp = <<>>)

(* The event stops every worker, also one whose turn does not come.        *)
WorkersStop == stopping ~> \A w \in Workers : pc[w] \in {"ended", "dead"}
=============================================================================
