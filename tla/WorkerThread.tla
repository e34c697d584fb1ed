----------------------------- MODULE WorkerThread -----------------------------
(***************************************************************************)
(* The worker threads of one WorkerManager (c++/src/WorkerThread.cpp) with *)
(* the queues they share and the two token rings the manager turns for     *)
(* them: tokenreading says whose turn it is to read a data queue,          *)
(* tokenresult whose turn it is to write a result.                         *)
(*                                                                         *)
(* A step is one access to shared state: a call of a queue, a read of a    *)
(* token, the write of one token under the ring's mutex.  A queue is the   *)
(* sequence that BlockingQueue makes of a ThreadSafeQueue (QueueClients    *)
(* shows the class implements it): a get() that waits is a step that is    *)
(* not enabled.  The listeners push data at any time; the main thread runs *)
(* set_processdata, one worker per step, and the cleaning of the queues, one*)
(* item per step.  A worker that finds nothing to do is at "poll" again;   *)
(* the status it shows then, the counters and the timer are the subject of *)
(* Monitoring.                                                             *)
(***************************************************************************)
EXTENDS Sequences, Integers

CONSTANTS
    NumWorkers,     \* num_workers, the size of worker_threads
    MaxItems,       \* bound: the data items pushed to the manager's queues
    Free            \* nobody holds the mutex; the worker holds no data

Workers == 0..(NumWorkers - 1)
Items == 1..MaxItems

ASSUME WorkersAssumption == NumWorkers \in Nat \ {0} /\ Free \notin Workers
ASSUME ItemsAssumption == MaxItems \in Nat

VARIABLES
    lp, hp,         \* low_priority_queue, high_priority_queue
    rhp,            \* result_hp_queue
    pushed,         \* how many items were pushed; an item is its number
    pc,             \* pc[w]: where worker w is in run()
    held,           \* held[w]: the data in w's hands, [item, priority], or Free
    processdata,    \* processdata[w]
    setting,        \* set_processdata in progress: [value, next], next = NumWorkers if none
    tokenreading, readLock,     \* the ring of readers and its mutex, [holder, next]
    tokenresult, resultLock,    \* the ring of writers and its mutex, [holder, next]
    reads,          \* history: who got which item, in order
    overtakes       \* history: low-priority reads in a row that left high-priority data waiting

queues == <<lp, hp, rhp>>
control == <<processdata, setting>>
readRing == <<tokenreading, readLock>>
resultRing == <<tokenresult, resultLock>>
history == <<reads, overtakes>>
vars == <<queues, pushed, pc, held, control, readRing, resultRing, history>>

(* The places of run() and process_data() between two accesses; the first  *)
(* two sets are the sections that the rings are there to protect.          *)
Reading == {"hpEmpty", "hpGet", "lpEmpty", "lpGet", "turn"}
Writing == {"push", "resultTurn"}
Places == Reading \cup Writing \cup
          {"poll", "token", "passing", "process", "result", "resultPassing"}

Unlocked == [holder |-> Free, next |-> 0]
Idle == [value |-> 0, next |-> NumWorkers]

Init ==
    /\ lp = <<>> /\ hp = <<>> /\ rhp = <<>>
    /\ pushed = 0
    /\ pc = [w \in Workers |-> "poll"]
    /\ held = [w \in Workers |-> Free]
    /\ processdata = [w \in Workers |-> 0]
    /\ setting = Idle
    /\ tokenreading = [w \in Workers |-> w]
    /\ tokenresult = [w \in Workers |-> w]
    /\ readLock = Unlocked /\ resultLock = Unlocked
    /\ reads = <<>>
    /\ overtakes = 0

Goto(w, place) == pc' = [pc EXCEPT ![w] = place]

(* Mutant of Decrement: the source before its "fix", without the wrap.     *)
DecrementUnwrapped(t) == t - 1

(* The circular decrement of change_token_reading and change_token_results *)
(* as the source computes it.                                              *)
Decrement(t) == (t - 1 + NumWorkers) % NumWorkers

-----------------------------------------------------------------------------
(* run(): whose turn it is.                                                *)

(* Mutant of Poll: the condition without its first half.                   *)
PollAlways(w) ==
    /\ pc[w] = "poll"
    /\ Goto(w, "token")
    /\ UNCHANGED <<queues, pushed, held, control, readRing, resultRing, history>>

(* processdata == 1, the first half of the condition of run().             *)
Poll(w) ==
    /\ pc[w] = "poll"
    /\ processdata[w] = 1
    /\ Goto(w, "token")
    /\ UNCHANGED <<queues, pushed, held, control, readRing, resultRing, history>>

(* Mutant of CheckToken: the condition of the Python source before tokens, *)
(* processdata alone.                                                      *)
CheckNoToken(w) ==
    /\ pc[w] = "token"
    /\ Goto(w, "hpEmpty")
    /\ UNCHANGED <<queues, pushed, held, control, readRing, resultRing, history>>

(* tokenreading == 0, the second half, read without the lock.              *)
CheckToken(w) ==
    /\ pc[w] = "token"
    /\ Goto(w, IF tokenreading[w] = 0 THEN "hpEmpty" ELSE "poll")
    /\ UNCHANGED <<queues, pushed, held, control, readRing, resultRing, history>>

-----------------------------------------------------------------------------
(* run(): reading a queue.  Each empty() and each get() locks its queue    *)
(* for itself, so anything may happen between them.                        *)

(* Mutant of CheckHp: the low-priority queue is looked at first.           *)
CheckLpFirst(w) ==
    /\ pc[w] = "hpEmpty"
    /\ Goto(w, IF lp = <<>> /\ hp # <<>> THEN "hpGet" ELSE "lpEmpty")
    /\ UNCHANGED <<queues, pushed, held, control, readRing, resultRing, history>>

CheckHp(w) ==
    /\ pc[w] = "hpEmpty"
    /\ Goto(w, IF hp = <<>> THEN "lpEmpty" ELSE "hpGet")
    /\ UNCHANGED <<queues, pushed, held, control, readRing, resultRing, history>>

CheckLp(w) ==
    /\ pc[w] = "lpEmpty"
    /\ Goto(w, IF lp = <<>> THEN "poll" ELSE "lpGet")
    /\ UNCHANGED <<queues, pushed, held, control, readRing, resultRing, history>>

(* Worker w takes the head of a queue with the given priority.             *)
Took(w, queue, priority) ==
    /\ held' = [held EXCEPT ![w] = [item |-> Head(queue), priority |-> priority]]
    /\ reads' = Append(reads, [by |-> w, item |-> Head(queue)])
    /\ Goto(w, "turn")

(* get(): not enabled on an empty queue, where it waits.                   *)
GetHp(w) ==
    /\ pc[w] = "hpGet"
    /\ hp # <<>>
    /\ hp' = Tail(hp)
    /\ Took(w, hp, 1)
    /\ overtakes' = 0
    /\ UNCHANGED <<lp, rhp, pushed, control, readRing, resultRing>>

GetLp(w) ==
    /\ pc[w] = "lpGet"
    /\ lp # <<>>
    /\ lp' = Tail(lp)
    /\ Took(w, lp, 0)
    /\ overtakes' = IF hp = <<>> THEN 0 ELSE overtakes + 1
    /\ UNCHANGED <<hp, rhp, pushed, control, readRing, resultRing>>

-----------------------------------------------------------------------------
(* change_token_reading: the turn passes before the data is processed.     *)

(* Mutant of LockReading: the loop runs without the mutex.                 *)
DoNotLockReading(w) ==
    /\ pc[w] = "turn"
    /\ readLock' = [holder |-> w, next |-> 0]
    /\ Goto(w, "passing")
    /\ UNCHANGED <<queues, pushed, held, control, tokenreading, resultRing, history>>

LockReading(w) ==
    /\ pc[w] = "turn"
    /\ readLock = Unlocked
    /\ readLock' = [holder |-> w, next |-> 0]
    /\ Goto(w, "passing")
    /\ UNCHANGED <<queues, pushed, held, control, tokenreading, resultRing, history>>

(* Mutant of PassReading: the worker decrements its own token alone.       *)
PassOwnReading(w) ==
    /\ pc[w] = "passing"
    /\ tokenreading' = [tokenreading EXCEPT ![w] = Decrement(@)]
    /\ readLock' = Unlocked
    /\ Goto(w, "process")
    /\ UNCHANGED <<queues, pushed, held, control, resultRing, history>>

(* One iteration of its loop; the last one unlocks the mutex.              *)
PassReading(w) ==
    /\ pc[w] = "passing"
    /\ tokenreading' = [tokenreading EXCEPT ![readLock.next] = Decrement(@)]
    /\ IF readLock.next = NumWorkers - 1
       THEN readLock' = Unlocked /\ Goto(w, "process")
       ELSE readLock' = [readLock EXCEPT !.next = @ + 1] /\ UNCHANGED pc
    /\ UNCHANGED <<queues, pushed, held, control, resultRing, history>>

-----------------------------------------------------------------------------
(* process_data.                                                           *)

(* Worker w is done with its data and goes round the loop of run().        *)
Release(w) == Goto(w, "poll") /\ held' = [held EXCEPT ![w] = Free]

(* The worker's own processData, external, gives a result or none.         *)
Process(w) ==
    /\ pc[w] = "process"
    /\ \/ Goto(w, "result") /\ UNCHANGED held
       \/ Release(w)
    /\ UNCHANGED <<queues, pushed, control, readRing, resultRing, history>>

(* Mutant of CheckResult: every result is written, whoever's turn it is.   *)
CheckNoResultToken(w) ==
    /\ pc[w] = "result"
    /\ Goto(w, IF held[w].priority = 0 THEN "resultTurn" ELSE "push")
    /\ UNCHANGED <<queues, pushed, held, control, readRing, resultRing, history>>

(* tokenresult == 0, read without the lock: a worker whose turn it is not  *)
(* drops its result.  A low-priority result is not pushed (the code is     *)
(* commented out) but takes its turn.                                      *)
CheckResult(w) ==
    /\ pc[w] = "result"
    /\ \/ tokenresult[w] # 0 /\ Release(w)
       \/ /\ tokenresult[w] = 0
          /\ Goto(w, IF held[w].priority = 0 THEN "resultTurn" ELSE "push")
          /\ UNCHANGED held
    /\ UNCHANGED <<queues, pushed, control, readRing, resultRing, history>>

PushResult(w) ==
    /\ pc[w] = "push"
    /\ rhp' = Append(rhp, held[w].item)
    /\ Goto(w, "resultTurn")
    /\ UNCHANGED <<lp, hp, pushed, held, control, readRing, resultRing, history>>

(* change_token_results.                                                   *)
LockResult(w) ==
    /\ pc[w] = "resultTurn"
    /\ resultLock = Unlocked
    /\ resultLock' = [holder |-> w, next |-> 0]
    /\ Goto(w, "resultPassing")
    /\ UNCHANGED <<queues, pushed, held, control, readRing, tokenresult, history>>

PassResult(w) ==
    /\ pc[w] = "resultPassing"
    /\ tokenresult' = [tokenresult EXCEPT ![resultLock.next] = Decrement(@)]
    /\ IF resultLock.next = NumWorkers - 1
       THEN resultLock' = Unlocked /\ Release(w)
       ELSE resultLock' = [resultLock EXCEPT !.next = @ + 1] /\ UNCHANGED <<pc, held>>
    /\ UNCHANGED <<queues, pushed, control, readRing, history>>

-----------------------------------------------------------------------------
(* The threads around the workers.                                         *)

(* A listener of the Supervisor pushes to the queue of its priority.       *)
PushLp ==
    /\ pushed < MaxItems
    /\ pushed' = pushed + 1
    /\ lp' = Append(lp, pushed')
    /\ UNCHANGED <<hp, rhp, pc, held, control, readRing, resultRing, history>>

PushHp ==
    /\ pushed < MaxItems
    /\ pushed' = pushed + 1
    /\ hp' = Append(hp, pushed')
    /\ UNCHANGED <<lp, rhp, pc, held, control, readRing, resultRing, history>>

(* The main thread runs the manager's set_processdata, worker by worker.   *)
BeginSetProcessdata(value) ==
    /\ setting = Idle
    /\ setting' = [value |-> value, next |-> 0]
    /\ UNCHANGED <<queues, pushed, pc, held, processdata, readRing, resultRing, history>>

SetProcessdata ==
    /\ setting.next < NumWorkers
    /\ processdata' = [processdata EXCEPT ![setting.next] = setting.value]
    /\ setting' = IF setting.next = NumWorkers - 1 THEN Idle
                  ELSE [setting EXCEPT !.next = @ + 1]
    /\ UNCHANGED <<queues, pushed, pc, held, readRing, resultRing, history>>

(* The main thread runs clean_single_queue for each queue: one pop().  Only*)
(* a reset does, once it has stopped the processing; a worker may still be *)
(* anywhere, also between an empty() and its get().                        *)
Clean ==
    /\ setting = Idle /\ \A w \in Workers : processdata[w] = 0
    /\ \/ lp # <<>> /\ lp' = Tail(lp) /\ UNCHANGED <<hp, rhp, overtakes>>
       \/ /\ hp # <<>>
          /\ hp' = Tail(hp)
          /\ overtakes' = IF hp' = <<>> THEN 0 ELSE overtakes
          /\ UNCHANGED <<lp, rhp>>
       \/ rhp # <<>> /\ rhp' = Tail(rhp) /\ UNCHANGED <<lp, hp, overtakes>>
    /\ UNCHANGED <<pushed, pc, held, control, readRing, resultRing, reads>>

-----------------------------------------------------------------------------
(* One pass of the loop of run(), step by step.                            *)
Read(w) == \/ Poll(w) \/ CheckToken(w)
           \/ CheckHp(w) \/ CheckLp(w) \/ GetHp(w) \/ GetLp(w)
           \/ LockReading(w) \/ PassReading(w)
ProcessData(w) == \/ Process(w) \/ CheckResult(w) \/ PushResult(w)
                  \/ LockResult(w) \/ PassResult(w)
Run(w) == Read(w) \/ ProcessData(w)

Environment == \/ PushLp \/ PushHp
               \/ \E value \in {0, 1} : BeginSetProcessdata(value)
               \/ SetProcessdata
               \/ Clean

Next == (\E w \in Workers : Run(w)) \/ Environment

SafeSpec == Init /\ [][Next]_vars

(* Every worker is a thread of its own that the operating system runs, and *)
(* processData of the worker returns.  The listeners need not push, nor    *)
(* the main thread start or finish set_processdata.                        *)
Fairness == \A w \in Workers : WF_vars(Run(w))

Spec == SafeSpec /\ Fairness
-----------------------------------------------------------------------------
LockType == [holder : Workers \cup {Free}, next : Workers]

DataType == [item : Items, priority : {0, 1}]

QueuesOK == /\ lp \in Seq(Items) /\ hp \in Seq(Items) /\ rhp \in Seq(Items)
            /\ pushed \in 0..MaxItems
            /\ reads \in Seq([by : Workers, item : Items])
            /\ overtakes \in Nat
ThreadsOK == /\ pc \in [Workers -> Places]
             /\ held \in [Workers -> DataType \cup {Free}]
RingsOK == /\ tokenreading \in [Workers -> Workers] /\ readLock \in LockType
           /\ tokenresult \in [Workers -> Workers] /\ resultLock \in LockType
ControlOK == /\ processdata \in [Workers -> {0, 1}]
             /\ setting \in [value : {0, 1}, next : 0..NumWorkers]

TypeOK == QueuesOK /\ ThreadsOK /\ RingsOK /\ ControlOK

(* The token that run() reads and change_token_reading turns makes the     *)
(* workers take turns at the data queues, one at a time, although          *)
(* empty(), get() and the decrements are all separate steps.               *)
Readers == {w \in Workers : pc[w] \in Reading}
ReadRing == INSTANCE TokenRing
    WITH token <- tokenreading, holder <- readLock.holder, next <- readLock.next,
         inside <- Readers
ReadersTakeTurns == ReadRing!Spec

(* The same for the token of the results: at most one worker is between    *)
(* its test of tokenresult and change_token_results.                       *)
Writers == {w \in Workers : pc[w] \in Writing}
ResultRing == INSTANCE TokenRing
    WITH token <- tokenresult, holder <- resultLock.holder, next <- resultLock.next,
         inside <- Writers
WritersTakeTurns == ResultRing!Spec

(* The one thing that can take an item from a worker that found a queue    *)
(* non-empty, and so leave it asleep in get() with the turn in its hands,  *)
(* is the cleaning of a reset: no other worker reads between its empty()   *)
(* and its get().                                                          *)
Starving(w) == (pc[w] = "hpGet" /\ hp = <<>>) \/ (pc[w] = "lpGet" /\ lp = <<>>)
OnlyCleaningStarves == [][\A w \in Workers : ~Starving(w) /\ Starving(w)' => Clean]_vars

(* The items are dealt to the workers strictly in turn, from worker 0, in  *)
(* whatever order they arrive, are processed and processing is switched.   *)
RoundRobin ==
    /\ reads # <<>> => reads[1].by = 0
    /\ \A i \in 1..(Len(reads) - 1) : reads[i + 1].by = ReadRing!Successor(reads[i].by)

(* High-priority data waits for at most one low-priority read: the one of  *)
(* a worker that had already found the high-priority queue empty.          *)
AtMostOneOvertake == overtakes <= 1

(* Results may be written out of the order their data was read in, but by  *)
(* less than a full turn of the ring: a worker still busy keeps the others *)
(* from reading past its next turn.                                        *)
ReadAt(item) == CHOOSE i \in 1..Len(reads) : reads[i].item = item
DisorderBelowOneTurn ==
    \A i, j \in 1..Len(rhp) : i < j => ReadAt(rhp[i]) < ReadAt(rhp[j]) + NumWorkers

(* While processing stays on, everything pushed is read: no worker waits   *)
(* for a turn that does not come.  Left out is what a reset can do, whose  *)
(* cleaning may leave one worker in get() for good with the turn; the other*)
(* queue is then never read again.                                         *)
ProcessingOn == \A w \in Workers : processdata[w] = 1
EverythingIsRead ==
    <>[]ProcessingOn =>
        <>[](lp = <<>> /\ hp = <<>>) \/ \E w \in Workers : <>[]Starving(w)
=============================================================================
