-------------------------- MODULE WorkerThreadProofs --------------------------
(***************************************************************************)
(* Theorems about WorkerThread for any number of workers and of items.     *)
(* Both rings implement TokenRing, so its mutual exclusion holds of the    *)
(* readers and of the writers; what the readers do to the queues follows.  *)
(***************************************************************************)
EXTENDS WorkerThread, TLAPS

(* The places where a worker has data in its hands.                        *)
Busy == {"turn", "passing", "process", "result", "push", "resultTurn", "resultPassing"}
HeldOK == \A w \in Workers : pc[w] \in Busy => held[w] \in DataType

(* A worker holds a mutex exactly while it is in the loop that needs it.   *)
ReadLockHeld == \A w \in Workers : pc[w] = "passing" <=> readLock.holder = w
ResultLockHeld == \A w \in Workers : pc[w] = "resultPassing" <=> resultLock.holder = w

TypeInv == TypeOK /\ HeldOK
LockInv == ReadLockHeld /\ ResultLockHeld

(* The decrement of the source is the decrement of the ring.               *)
LEMMA DecrementIsCircular ==
  \A t \in Workers : /\ Decrement(t) = (IF t = 0 THEN NumWorkers - 1 ELSE t - 1)
                     /\ Decrement(t) \in Workers
<1> SUFFICES ASSUME NEW t \in Workers
             PROVE  /\ Decrement(t) = (IF t = 0 THEN NumWorkers - 1 ELSE t - 1)
                    /\ Decrement(t) \in Workers
  OBVIOUS
<1>1. NumWorkers \in Nat \ {0} /\ t \in 0..(NumWorkers - 1)
  BY WorkersAssumption DEF Workers
<1>2. CASE t = 0
  BY <1>1, <1>2 DEF Decrement, Workers
<1>3. CASE t # 0
  BY <1>1, <1>3 DEF Decrement, Workers
<1> QED
  BY <1>2, <1>3

LEMMA NextWorker ==
  ASSUME NEW i \in Workers, i # NumWorkers - 1
  PROVE  i + 1 \in Workers
  BY WorkersAssumption DEF Workers

(* What going to another place of run() does to the program counters.      *)
LEMMA GotoFacts ==
  ASSUME NEW w \in Workers, NEW p \in Places, ThreadsOK, Goto(w, p)
  PROVE  /\ pc' \in [Workers -> Places]
         /\ pc'[w] = p
         /\ \A v \in Workers \ {w} : pc'[v] = pc[v]
  BY DEF ThreadsOK, Goto

(* A step that moves one worker and keeps its data keeps the types of both,*)
(* if the worker needs no data it lacks.                                   *)
LEMMA MoveKeepsTypes ==
  ASSUME TypeInv, NEW w \in Workers, NEW p \in Places, Goto(w, p), held' = held,
         p \in Busy => pc[w] \in Busy
  PROVE  HeldOK' /\ pc' \in [Workers -> Places] /\ held' \in [Workers -> DataType \cup {Free}]
<1>1. /\ pc' \in [Workers -> Places]
      /\ pc'[w] = p
      /\ \A v \in Workers \ {w} : pc'[v] = pc[v]
  BY GotoFacts DEF TypeInv, TypeOK
<1>2. HeldOK'
  BY <1>1 DEF TypeInv, HeldOK
<1> QED
  BY <1>1, <1>2 DEF TypeInv, TypeOK, ThreadsOK

LEMMA ReleaseKeepsTypes ==
  ASSUME TypeInv, NEW w \in Workers, Release(w)
  PROVE  HeldOK' /\ pc' \in [Workers -> Places] /\ held' \in [Workers -> DataType \cup {Free}]
<1>1. "poll" \in Places /\ "poll" \notin Busy
  BY DEF Places, Busy
<1>2. /\ pc' \in [Workers -> Places]
      /\ pc'[w] = "poll"
      /\ \A v \in Workers \ {w} : pc'[v] = pc[v]
  BY <1>1, GotoFacts DEF TypeInv, TypeOK, Release
<1>3. /\ held' \in [Workers -> DataType \cup {Free}]
      /\ \A v \in Workers \ {w} : held'[v] = held[v]
  BY DEF Release, TypeInv, TypeOK, ThreadsOK
<1>4. HeldOK'
  BY <1>1, <1>2, <1>3 DEF TypeInv, HeldOK
<1> QED
  BY <1>2, <1>3, <1>4

LEMMA TookKeepsTypes ==
  ASSUME TypeInv, NEW w \in Workers, NEW queue \in Seq(Items), queue # <<>>,
         NEW priority \in {0, 1}, Took(w, queue, priority)
  PROVE  /\ HeldOK' /\ pc' \in [Workers -> Places]
         /\ held' \in [Workers -> DataType \cup {Free}]
         /\ reads' \in Seq([by : Workers, item : Items])
         /\ Tail(queue) \in Seq(Items)
<1> DEFINE data == [item |-> Head(queue), priority |-> priority]
<1>1. data \in DataType /\ Head(queue) \in Items /\ Tail(queue) \in Seq(Items)
  BY DEF DataType
<1> HIDE DEF data
<1>2. "turn" \in Places
  BY DEF Places, Reading
<1>3. /\ pc' \in [Workers -> Places]
      /\ \A v \in Workers \ {w} : pc'[v] = pc[v]
  BY <1>2, GotoFacts DEF TypeInv, TypeOK, Took
<1>4. held' = [held EXCEPT ![w] = data]
  BY DEF Took, data
<1>5. /\ held' \in [Workers -> DataType \cup {Free}]
      /\ held'[w] \in DataType
      /\ \A v \in Workers \ {w} : held'[v] = held[v]
  BY <1>1, <1>4 DEF TypeInv, TypeOK, ThreadsOK
<1>6. HeldOK'
  BY <1>3, <1>5 DEF TypeInv, HeldOK
<1>7. reads' \in Seq([by : Workers, item : Items])
  BY <1>1 DEF Took, TypeInv, TypeOK, QueuesOK
<1> QED
  BY <1>1, <1>3, <1>5, <1>6, <1>7

LEMMA SetProcessdataTypes ==
  ASSUME ControlOK, SetProcessdata
  PROVE  ControlOK'
<1>1. setting' \in [value : {0, 1}, next : 0..NumWorkers]
  <2>1. setting.value \in {0, 1} /\ setting.next \in 0..NumWorkers
    BY DEF ControlOK
  <2>2. Idle \in [value : {0, 1}, next : 0..NumWorkers]
    BY WorkersAssumption DEF Idle
  <2>3. CASE setting.next = NumWorkers - 1
    BY <2>2, <2>3 DEF SetProcessdata
  <2>4. CASE setting.next # NumWorkers - 1
    <3>1. setting.next + 1 \in 0..NumWorkers
      BY <2>1, WorkersAssumption DEF SetProcessdata
    <3>2. setting' = [setting EXCEPT !.next = @ + 1]
      BY <2>4 DEF SetProcessdata
    <3> QED
      BY <2>1, <3>1, <3>2 DEF ControlOK
  <2> QED
    BY <2>3, <2>4
<1>2. processdata' \in [Workers -> {0, 1}]
  BY DEF SetProcessdata, ControlOK
<1> QED
  BY <1>1, <1>2 DEF ControlOK

LEMMA TailsAreTyped ==
  ASSUME NEW q \in Seq(Items), q # <<>>
  PROVE  Tail(q) \in Seq(Items)
  OBVIOUS

LEMMA CleanTypes ==
  ASSUME QueuesOK, Clean
  PROVE  QueuesOK'
<1>1. /\ lp' \in Seq(Items) /\ hp' \in Seq(Items) /\ rhp' \in Seq(Items)
      /\ overtakes' \in Nat
  <2>1. lp \in Seq(Items) /\ hp \in Seq(Items) /\ rhp \in Seq(Items) /\ overtakes \in Nat
    BY DEF QueuesOK
  <2>2. CASE lp # <<>> /\ lp' = Tail(lp) /\ UNCHANGED <<hp, rhp, overtakes>>
    BY <2>1, <2>2, TailsAreTyped
  <2>3. CASE hp # <<>> /\ hp' = Tail(hp) /\ UNCHANGED <<lp, rhp>> /\ overtakes' \in {0, overtakes}
    BY <2>1, <2>3, TailsAreTyped
  <2>4. CASE rhp # <<>> /\ rhp' = Tail(rhp) /\ UNCHANGED <<lp, hp, overtakes>>
    BY <2>1, <2>4, TailsAreTyped
  <2> QED
    BY <2>2, <2>3, <2>4 DEF Clean
<1>2. UNCHANGED <<pushed, reads>>
  BY DEF Clean
<1> QED
  BY <1>1, <1>2 DEF QueuesOK

(* A step keeps the types.                                                 *)
LEMMA TypeStep ==
  TypeInv /\ [Next]_vars => TypeInv'
<1> SUFFICES ASSUME TypeInv, [Next]_vars PROVE TypeInv'
  OBVIOUS
<1> USE DEF TypeInv, TypeOK, queues, control, readRing, resultRing, history
<1>1. ASSUME NEW w \in Workers, Poll(w) \/ CheckToken(w) \/ CheckHp(w) \/ CheckLp(w)
      PROVE  TypeInv'
  <2>1. PICK p \in {"token", "poll", "hpEmpty", "lpEmpty", "hpGet", "lpGet"} : Goto(w, p)
    BY <1>1 DEF Poll, CheckToken, CheckHp, CheckLp
  <2>2. p \in Places /\ p \notin Busy
    BY DEF Places, Reading, Busy
  <2>3. /\ UNCHANGED <<queues, pushed, control, readRing, resultRing, history>>
        /\ held' = held
    BY <1>1 DEF Poll, CheckToken, CheckHp, CheckLp
  <2> QED
    BY <2>1, <2>2, <2>3, MoveKeepsTypes DEF QueuesOK, ThreadsOK, RingsOK, ControlOK
<1>3. ASSUME NEW w \in Workers, GetHp(w) PROVE TypeInv'
  <2>1. /\ HeldOK' /\ pc' \in [Workers -> Places]
        /\ held' \in [Workers -> DataType \cup {Free}]
        /\ reads' \in Seq([by : Workers, item : Items])
        /\ hp' \in Seq(Items)
    BY <1>3, TookKeepsTypes DEF GetHp, QueuesOK
  <2> QED
    BY <1>3, <2>1 DEF GetHp, QueuesOK, ThreadsOK, RingsOK, ControlOK
<1>4. ASSUME NEW w \in Workers, GetLp(w) PROVE TypeInv'
  <2>1. /\ HeldOK' /\ pc' \in [Workers -> Places]
        /\ held' \in [Workers -> DataType \cup {Free}]
        /\ reads' \in Seq([by : Workers, item : Items])
        /\ lp' \in Seq(Items)
    BY <1>4, TookKeepsTypes DEF GetLp, QueuesOK
  <2> QED
    BY <1>4, <2>1 DEF GetLp, QueuesOK, ThreadsOK, RingsOK, ControlOK
<1>5. ASSUME NEW w \in Workers, LockReading(w) PROVE TypeInv'
  <2>1. 0 \in Workers /\ "passing" \in Places /\ pc[w] \in Busy
    BY <1>5, WorkersAssumption DEF LockReading, Workers, Places, Busy
  <2>2. readLock' \in LockType
    BY <1>5, <2>1 DEF LockReading, LockType
  <2> QED
    BY <1>5, <2>1, <2>2, MoveKeepsTypes
    DEF LockReading, QueuesOK, ThreadsOK, RingsOK, ControlOK
<1>6. ASSUME NEW w \in Workers, PassReading(w) PROVE TypeInv'
  <2>1. readLock.next \in Workers /\ 0 \in Workers
    BY WorkersAssumption DEF RingsOK, LockType, Workers
  <2>2. tokenreading' \in [Workers -> Workers]
    BY <1>6, <2>1, DecrementIsCircular DEF PassReading, RingsOK
  <2>3. readLock' \in LockType
    BY <1>6, <2>1, NextWorker DEF PassReading, RingsOK, LockType, Unlocked
  <2>4. HeldOK' /\ pc' \in [Workers -> Places] /\ held' \in [Workers -> DataType \cup {Free}]
    <3>1. CASE Goto(w, "process")
      <4>1. "process" \in Places /\ pc[w] \in Busy /\ held' = held
        BY <1>6 DEF PassReading, Places, Busy
      <4> QED
        BY <3>1, <4>1, MoveKeepsTypes
    <3>2. CASE UNCHANGED pc
      BY <1>6, <3>2 DEF PassReading, HeldOK, ThreadsOK
    <3> QED
      BY <1>6, <3>1, <3>2 DEF PassReading
  <2> QED
    BY <1>6, <2>2, <2>3, <2>4 DEF PassReading, QueuesOK, ThreadsOK, RingsOK, ControlOK
<1>7. ASSUME NEW w \in Workers, Process(w) PROVE TypeInv'
  <2>1. HeldOK' /\ pc' \in [Workers -> Places] /\ held' \in [Workers -> DataType \cup {Free}]
    <3>1. "result" \in Places /\ pc[w] \in Busy
      BY <1>7 DEF Process, Places, Busy
    <3> QED
      BY <1>7, <3>1, MoveKeepsTypes, ReleaseKeepsTypes DEF Process
  <2> QED
    BY <1>7, <2>1 DEF Process, QueuesOK, ThreadsOK, RingsOK, ControlOK
<1>8. ASSUME NEW w \in Workers, CheckResult(w) PROVE TypeInv'
  <2>1. HeldOK' /\ pc' \in [Workers -> Places] /\ held' \in [Workers -> DataType \cup {Free}]
    <3>1. "resultTurn" \in Places /\ "push" \in Places /\ pc[w] \in Busy
      BY <1>8 DEF CheckResult, Places, Writing, Busy
    <3> QED
      BY <1>8, <3>1, MoveKeepsTypes, ReleaseKeepsTypes DEF CheckResult
  <2> QED
    BY <1>8, <2>1 DEF CheckResult, QueuesOK, ThreadsOK, RingsOK, ControlOK
<1>9. ASSUME NEW w \in Workers, PushResult(w) PROVE TypeInv'
  <2>1. "resultTurn" \in Places /\ pc[w] \in Busy
    BY <1>9 DEF PushResult, Places, Writing, Busy
  <2>2. held[w].item \in Items
    BY <2>1 DEF HeldOK, DataType
  <2>3. rhp' \in Seq(Items)
    BY <1>9, <2>2 DEF PushResult, QueuesOK
  <2> QED
    BY <1>9, <2>1, <2>3, MoveKeepsTypes
    DEF PushResult, QueuesOK, ThreadsOK, RingsOK, ControlOK
<1>10. ASSUME NEW w \in Workers, LockResult(w) PROVE TypeInv'
  <2>1. 0 \in Workers /\ "resultPassing" \in Places /\ pc[w] \in Busy
    BY <1>10, WorkersAssumption DEF LockResult, Workers, Places, Busy
  <2>2. resultLock' \in LockType
    BY <1>10, <2>1 DEF LockResult, LockType
  <2> QED
    BY <1>10, <2>1, <2>2, MoveKeepsTypes
    DEF LockResult, QueuesOK, ThreadsOK, RingsOK, ControlOK
<1>11. ASSUME NEW w \in Workers, PassResult(w) PROVE TypeInv'
  <2>1. resultLock.next \in Workers /\ 0 \in Workers
    BY WorkersAssumption DEF RingsOK, LockType, Workers
  <2>2. tokenresult' \in [Workers -> Workers]
    BY <1>11, <2>1, DecrementIsCircular DEF PassResult, RingsOK
  <2>3. resultLock' \in LockType
    BY <1>11, <2>1, NextWorker DEF PassResult, RingsOK, LockType, Unlocked
  <2>4. HeldOK' /\ pc' \in [Workers -> Places] /\ held' \in [Workers -> DataType \cup {Free}]
    <3>1. CASE UNCHANGED <<pc, held>>
      BY <3>1 DEF HeldOK, ThreadsOK
    <3> QED
      BY <1>11, <3>1, ReleaseKeepsTypes DEF PassResult
  <2> QED
    BY <1>11, <2>2, <2>3, <2>4 DEF PassResult, QueuesOK, ThreadsOK, RingsOK, ControlOK
<1>12. ASSUME PushLp \/ PushHp PROVE TypeInv'
  <2>1. pushed' \in 0..MaxItems /\ pushed' \in Items
    BY <1>12, ItemsAssumption DEF PushLp, PushHp, Items, QueuesOK
  <2>2. Append(lp, pushed') \in Seq(Items) /\ Append(hp, pushed') \in Seq(Items)
    BY <2>1 DEF QueuesOK
  <2>3. QueuesOK'
    BY <1>12, <2>1, <2>2 DEF PushLp, PushHp, QueuesOK
  <2> QED
    BY <1>12, <2>3 DEF PushLp, PushHp, HeldOK, ThreadsOK, RingsOK, ControlOK
<1>13. ASSUME NEW value \in {0, 1}, BeginSetProcessdata(value) PROVE TypeInv'
  <2>1. 0 \in 0..NumWorkers
    BY WorkersAssumption
  <2> QED
    BY <1>13, <2>1 DEF BeginSetProcessdata, HeldOK, QueuesOK, ThreadsOK, RingsOK, ControlOK
<1>14. ASSUME SetProcessdata PROVE TypeInv'
  <2>1. ControlOK'
    BY <1>14, SetProcessdataTypes
  <2> QED
    BY <1>14, <2>1 DEF SetProcessdata, HeldOK, QueuesOK, ThreadsOK, RingsOK
<1>15. CASE UNCHANGED vars
  BY <1>15 DEF vars, HeldOK, QueuesOK, ThreadsOK, RingsOK, ControlOK
<1>16. ASSUME Clean PROVE TypeInv'
  <2>1. QueuesOK'
    BY <1>16, CleanTypes
  <2> QED
    BY <1>16, <2>1 DEF Clean, HeldOK, ThreadsOK, RingsOK, ControlOK
<1> QED
  BY <1>1, <1>3, <1>4, <1>5, <1>6, <1>7, <1>8, <1>9, <1>10, <1>11, <1>12, <1>13,
     <1>14, <1>15, <1>16
  DEF Next, Run, Read, ProcessData, Environment

LEMMA TypeAtStart == Init => TypeInv
<1> SUFFICES ASSUME Init PROVE TypeInv
  OBVIOUS
<1>1. 0 \in Workers /\ NumWorkers \in 0..NumWorkers
  BY WorkersAssumption DEF Workers
<1>2. QueuesOK /\ RingsOK /\ ControlOK
  BY <1>1, ItemsAssumption DEF Init, QueuesOK, RingsOK, ControlOK, LockType, Unlocked, Idle
<1>3. ThreadsOK /\ HeldOK
  BY DEF Init, ThreadsOK, HeldOK, Places, Busy
<1> QED
  BY <1>2, <1>3 DEF TypeInv, TypeOK

(* Types, and what a busy worker holds.                                    *)
THEOREM TypeCorrect == SafeSpec => []TypeInv
  BY TypeAtStart, TypeStep, PTL DEF SafeSpec

(* Every variable keeps its type, for any number of workers and items.     *)
THEOREM TypesHold == SafeSpec => []TypeOK
<1>1. TypeInv => TypeOK
  BY DEF TypeInv
<1> QED
  BY <1>1, TypeCorrect, PTL


-----------------------------------------------------------------------------
LEMMA ReadersMove ==
  ASSUME ThreadsOK, NEW w \in Workers, NEW p \in Places, Goto(w, p)
  PROVE  /\ p \in Reading => Readers' = Readers \cup {w}
         /\ p \notin Reading => Readers' = Readers \ {w}
  BY GotoFacts DEF Readers

LEMMA WritersMove ==
  ASSUME ThreadsOK, NEW w \in Workers, NEW p \in Places, Goto(w, p)
  PROVE  /\ p \in Writing => Writers' = Writers \cup {w}
         /\ p \notin Writing => Writers' = Writers \ {w}
  BY GotoFacts DEF Writers

(* A step keeps the mutexes in order.                                      *)
LEMMA LockStep ==
  TypeInv /\ LockInv /\ [Next]_vars => LockInv'
<1> SUFFICES ASSUME ThreadsOK, RingsOK, LockInv, [Next]_vars PROVE LockInv'
  BY DEF TypeInv, TypeOK
<1> USE DEF LockInv, ReadLockHeld, ResultLockHeld, readRing, resultRing
<1>1. ASSUME NEW w \in Workers, pc[w] # "passing", pc[w] # "resultPassing",
             UNCHANGED <<readRing, resultRing>>,
             NEW p \in Places \ {"passing", "resultPassing"}, Goto(w, p)
      PROVE  LockInv'
  BY <1>1, GotoFacts
<1>2. ASSUME NEW w \in Workers, Read(w), ~LockReading(w), ~PassReading(w) PROVE LockInv'
  <2>1. PICK p \in {"token", "poll", "hpEmpty", "lpEmpty", "hpGet", "lpGet", "turn"} :
            Goto(w, p)
    BY <1>2 DEF Read, Poll, CheckToken, CheckHp, CheckLp, GetHp, GetLp, Took
  <2>2. p \in Places \ {"passing", "resultPassing"}
    BY DEF Places, Reading
  <2>3. pc[w] # "passing" /\ pc[w] # "resultPassing" /\ UNCHANGED <<readRing, resultRing>>
    BY <1>2 DEF Read, Poll, CheckToken, CheckHp, CheckLp, GetHp, GetLp
  <2> QED
    BY <1>1, <2>1, <2>2, <2>3
<1>3. ASSUME NEW w \in Workers, Process(w) \/ CheckResult(w) \/ PushResult(w) PROVE LockInv'
  <2>1. PICK p \in {"poll", "result", "push", "resultTurn"} : Goto(w, p)
    BY <1>3 DEF Process, CheckResult, PushResult, Release
  <2>2. p \in Places \ {"passing", "resultPassing"}
    BY DEF Places, Writing
  <2>3. pc[w] # "passing" /\ pc[w] # "resultPassing" /\ UNCHANGED <<readRing, resultRing>>
    BY <1>3 DEF Process, CheckResult, PushResult
  <2> QED
    BY <1>1, <2>1, <2>2, <2>3
<1>4. ASSUME NEW w \in Workers, LockReading(w) PROVE LockInv'
  <2>1. "passing" \in Places
    BY DEF Places
  <2> QED
    BY <1>4, <2>1, GotoFacts, WorkersAssumption DEF LockReading, Unlocked
<1>5. ASSUME NEW w \in Workers, PassReading(w) PROVE LockInv'
  <2>1. "process" \in Places
    BY DEF Places
  <2> QED
    BY <1>5, <2>1, GotoFacts, WorkersAssumption DEF RingsOK, LockType, PassReading, Unlocked
<1>6. ASSUME NEW w \in Workers, LockResult(w) PROVE LockInv'
  <2>1. "resultPassing" \in Places
    BY DEF Places
  <2> QED
    BY <1>6, <2>1, GotoFacts, WorkersAssumption DEF LockResult, Unlocked
<1>7. ASSUME NEW w \in Workers, PassResult(w) PROVE LockInv'
  <2>1. "poll" \in Places
    BY DEF Places
  <2> QED
    BY <1>7, <2>1, GotoFacts, WorkersAssumption DEF RingsOK, LockType, PassResult, Release, Unlocked
<1>8. ASSUME Environment PROVE LockInv'
  BY <1>8 DEF Environment, PushLp, PushHp, BeginSetProcessdata, SetProcessdata,
     Clean
<1>9. CASE UNCHANGED vars
  BY <1>9 DEF vars
<1> QED
  BY <1>2, <1>3, <1>4, <1>5, <1>6, <1>7, <1>8, <1>9 DEF Next, Run, ProcessData

LEMMA LocksAtStart == Init => LockInv
  BY WorkersAssumption DEF Init, LockInv, ReadLockHeld, ResultLockHeld, Unlocked

(* A mutex of a ring is held by the worker inside its loop, by no other.   *)
LEMMA LocksHeld == SafeSpec => []LockInv
  BY LocksAtStart, LockStep, TypeCorrect, PTL DEF SafeSpec

-----------------------------------------------------------------------------
(* One iteration of the loop of change_token_reading is one of the ring.   *)
LEMMA PassReadingPasses ==
  ASSUME ThreadsOK, RingsOK, ReadLockHeld, NEW w \in Workers, PassReading(w)
  PROVE  ReadRing!Pass(w)
<1>1. Readers' = Readers
  <2>1. "process" \in Places /\ "process" \notin Reading /\ w \notin Readers
    BY DEF PassReading, Places, Reading, Readers
  <2> QED
    BY <2>1, ReadersMove DEF PassReading, Readers
<1>2. readLock.holder = w /\ readLock.next \in Workers
  BY DEF PassReading, ReadLockHeld, RingsOK, LockType
<1>3. ReadRing!Decrement(tokenreading[readLock.next]) = Decrement(tokenreading[readLock.next])
  BY <1>2, DecrementIsCircular DEF RingsOK, ReadRing!Decrement
<1>4. tokenreading' = [tokenreading EXCEPT ![readLock.next] = ReadRing!Decrement(@)]
  BY <1>3 DEF PassReading, RingsOK
<1>5. IF readLock.next = NumWorkers - 1
      THEN readLock'.holder = Free /\ readLock'.next = 0
      ELSE readLock'.holder = readLock.holder /\ readLock'.next = readLock.next + 1
  BY DEF PassReading, Unlocked, RingsOK, LockType
<1> QED
  BY <1>1, <1>2, <1>4, <1>5 DEF ReadRing!Pass

(* A step is one of the ring of readers, or none.                          *)
LEMMA ReadersStep ==
  TypeOK /\ LockInv /\ [Next]_vars => [ReadRing!Next]_(ReadRing!vars)
<1> SUFFICES ASSUME ThreadsOK, RingsOK, ReadLockHeld, [Next]_vars
             PROVE  ReadRing!Next \/ UNCHANGED ReadRing!vars
  BY DEF TypeOK, LockInv
<1> DEFINE Goal == ReadRing!Next \/ UNCHANGED ReadRing!vars
<1> USE DEF readRing
<1>0. /\ ReadRing!Workers = Workers
      /\ \A t \in Workers : ReadRing!Decrement(t) = Decrement(t)
  BY DecrementIsCircular DEF ReadRing!Workers, Workers, ReadRing!Decrement
<1>1. ASSUME NEW w \in Workers, NEW p \in Places, Goto(w, p),
             pc[w] \in Reading <=> p \in Reading, UNCHANGED readRing
      PROVE  Goal
  <2>1. Readers' = Readers
    BY <1>1, ReadersMove DEF Readers
  <2> QED
    BY <1>1, <2>1 DEF ReadRing!vars
<1>2. ASSUME NEW w \in Workers, Poll(w) \/ CheckHp(w) \/ (CheckLp(w) /\ lp # <<>>)
      PROVE  Goal
  <2>1. \E p \in Places : Goto(w, p) /\ (pc[w] \in Reading <=> p \in Reading)
    BY <1>2 DEF Poll, CheckHp, CheckLp, Places, Reading
  <2>2. UNCHANGED readRing
    BY <1>2 DEF Poll, CheckHp, CheckLp
  <2> QED
    BY <1>1, <2>1, <2>2
<1>3. ASSUME NEW w \in Workers, CheckToken(w) PROVE Goal
  <2>1. CASE tokenreading[w] = 0
    <3>1. "hpEmpty" \in Places /\ "hpEmpty" \in Reading /\ Goto(w, "hpEmpty")
      BY <1>3, <2>1 DEF CheckToken, Places, Reading
    <3>2. Readers' = Readers \cup {w}
      BY <3>1, ReadersMove
    <3>3. w \notin Readers /\ readLock.holder # w
      BY <1>3 DEF CheckToken, Readers, Reading, ReadLockHeld
    <3>4. ReadRing!Enter(w)
      BY <1>3, <2>1, <3>2, <3>3 DEF CheckToken, ReadRing!Enter
    <3> QED
      BY <1>0, <3>4 DEF ReadRing!Next
  <2>2. CASE tokenreading[w] # 0
    <3>1. "poll" \in Places /\ Goto(w, "poll") /\ UNCHANGED readRing
          /\ (pc[w] \in Reading <=> "poll" \in Reading)
      BY <1>3, <2>2 DEF CheckToken, Places, Reading
    <3> QED
      BY <1>1, <3>1
  <2> QED
    BY <2>1, <2>2
<1>4. ASSUME NEW w \in Workers, CheckLp(w), lp = <<>> PROVE Goal
  <2>1. "poll" \in Places /\ "poll" \notin Reading /\ Goto(w, "poll") /\ w \in Readers
    BY <1>4 DEF CheckLp, Places, Reading, Readers
  <2>2. ReadRing!Leave(w)
    BY <1>4, <2>1, ReadersMove DEF CheckLp, ReadRing!Leave
  <2> QED
    BY <1>0, <2>2 DEF ReadRing!Next
<1>5. ASSUME NEW w \in Workers, GetHp(w) \/ GetLp(w) PROVE Goal
  <2>1. "turn" \in Places /\ Goto(w, "turn") /\ UNCHANGED readRing
        /\ (pc[w] \in Reading <=> "turn" \in Reading)
    BY <1>5 DEF GetHp, GetLp, Took, Places, Reading
  <2> QED
    BY <1>1, <2>1
<1>6. ASSUME NEW w \in Workers, LockReading(w) PROVE Goal
  <2>1. "passing" \in Places /\ "passing" \notin Reading /\ Goto(w, "passing") /\ w \in Readers
    BY <1>6 DEF LockReading, Places, Reading, Readers
  <2>2. ReadRing!Lock(w)
    BY <1>6, <2>1, ReadersMove DEF LockReading, Unlocked, ReadRing!Lock
  <2> QED
    BY <1>0, <2>2 DEF ReadRing!Next
<1>7. ASSUME NEW w \in Workers, PassReading(w) PROVE Goal
  <2>1. ReadRing!Pass(w)
    BY <1>7, PassReadingPasses
  <2> QED
    BY <1>0, <2>1 DEF ReadRing!Next
<1>8. ASSUME NEW w \in Workers, ProcessData(w) PROVE Goal
  <2>1. UNCHANGED pc \/ \E p \in Places : Goto(w, p) /\ (pc[w] \in Reading <=> p \in Reading)
    BY <1>8 DEF ProcessData, Process, CheckResult, PushResult, LockResult, PassResult,
       Release, Places, Reading, Writing
  <2>2. UNCHANGED readRing
    BY <1>8 DEF ProcessData, Process, CheckResult, PushResult, LockResult, PassResult
  <2>3. CASE UNCHANGED pc
    BY <2>2, <2>3 DEF ReadRing!vars, Readers
  <2> QED
    BY <1>1, <2>1, <2>2, <2>3
<1>9. ASSUME Environment PROVE Goal
  BY <1>9 DEF Environment, PushLp, PushHp, BeginSetProcessdata, SetProcessdata, Clean,
     ReadRing!vars, Readers
<1>10. CASE UNCHANGED vars
  BY <1>10 DEF vars, ReadRing!vars, Readers
<1>11. ASSUME NEW w \in Workers, Read(w) PROVE Goal
  <2>1. CASE CheckLp(w)
    BY <1>2, <1>4, <2>1
  <2> QED
    BY <1>2, <1>3, <1>5, <1>6, <1>7, <1>11, <2>1 DEF Read
<1> QED
  BY <1>8, <1>9, <1>10, <1>11 DEF Next, Run

LEMMA ReadersAtStart == Init => ReadRing!Init
  BY DEF Init, ReadRing!Init, ReadRing!Workers, Workers, Unlocked, Readers, Reading

(* The readers implement the ring: testing the token enters it, finding    *)
(* both queues empty leaves it, change_token_reading locks and passes.     *)
THEOREM ReadersImplementRing == SafeSpec => ReadersTakeTurns
  BY ReadersAtStart, ReadersStep, TypeCorrect, LocksHeld, PTL DEF SafeSpec, ReadersTakeTurns, ReadRing!Spec, TypeInv

(* A step is one of the ring of writers, or none.                          *)
LEMMA WritersStep ==
  TypeOK /\ LockInv /\ [Next]_vars => [ResultRing!Next]_(ResultRing!vars)
<1> SUFFICES ASSUME ThreadsOK, RingsOK, ResultLockHeld, [Next]_vars
             PROVE  ResultRing!Next \/ UNCHANGED ResultRing!vars
  BY DEF TypeOK, LockInv
<1> DEFINE Goal == ResultRing!Next \/ UNCHANGED ResultRing!vars
<1> USE DEF resultRing
<1>0. /\ ResultRing!Workers = Workers
      /\ \A t \in Workers : ResultRing!Decrement(t) = Decrement(t)
  BY DecrementIsCircular DEF ResultRing!Workers, Workers, ResultRing!Decrement
<1>1. ASSUME NEW w \in Workers, NEW p \in Places, Goto(w, p),
             pc[w] \in Writing <=> p \in Writing, UNCHANGED resultRing
      PROVE  Goal
  <2>1. Writers' = Writers
    BY <1>1, WritersMove DEF Writers
  <2> QED
    BY <1>1, <2>1 DEF ResultRing!vars
<1>2. ASSUME NEW w \in Workers, Read(w) PROVE Goal
  <2>1. UNCHANGED pc \/ \E p \in Places : Goto(w, p) /\ (pc[w] \in Writing <=> p \in Writing)
    BY <1>2 DEF Read, Poll, CheckToken, CheckHp, CheckLp, GetHp, GetLp,
       Took, LockReading, PassReading, Places, Reading, Writing
  <2>2. UNCHANGED resultRing
    BY <1>2 DEF Read, Poll, CheckToken, CheckHp, CheckLp, GetHp, GetLp,
       LockReading, PassReading
  <2>3. CASE UNCHANGED pc
    BY <2>2, <2>3 DEF ResultRing!vars, Writers
  <2> QED
    BY <1>1, <2>1, <2>2, <2>3
<1>3. ASSUME NEW w \in Workers, Process(w) \/ PushResult(w) PROVE Goal
  <2>1. \E p \in Places : Goto(w, p) /\ (pc[w] \in Writing <=> p \in Writing)
    BY <1>3 DEF Process, PushResult, Release, Places, Writing
  <2>2. UNCHANGED resultRing
    BY <1>3 DEF Process, PushResult
  <2> QED
    BY <1>1, <2>1, <2>2
<1>4. ASSUME NEW w \in Workers, CheckResult(w) PROVE Goal
  <2>1. CASE tokenresult[w] = 0
    <3>1. \E p \in Places : p \in Writing /\ Goto(w, p)
      BY <1>4, <2>1 DEF CheckResult, Places, Writing
    <3>2. Writers' = Writers \cup {w}
      BY <3>1, WritersMove
    <3>3. w \notin Writers /\ resultLock.holder # w
      BY <1>4 DEF CheckResult, Writers, Writing, ResultLockHeld
    <3>4. ResultRing!Enter(w)
      BY <1>4, <2>1, <3>2, <3>3 DEF CheckResult, ResultRing!Enter
    <3> QED
      BY <1>0, <3>4 DEF ResultRing!Next
  <2>2. CASE tokenresult[w] # 0
    <3>1. "poll" \in Places /\ Goto(w, "poll") /\ UNCHANGED resultRing
          /\ (pc[w] \in Writing <=> "poll" \in Writing)
      BY <1>4, <2>2 DEF CheckResult, Release, Places, Writing
    <3> QED
      BY <1>1, <3>1
  <2> QED
    BY <2>1, <2>2
<1>5. ASSUME NEW w \in Workers, LockResult(w) PROVE Goal
  <2>1. /\ "resultPassing" \in Places /\ "resultPassing" \notin Writing
        /\ Goto(w, "resultPassing") /\ w \in Writers
    BY <1>5 DEF LockResult, Places, Writing, Writers
  <2>2. ResultRing!Lock(w)
    BY <1>5, <2>1, WritersMove DEF LockResult, Unlocked, ResultRing!Lock
  <2> QED
    BY <1>0, <2>2 DEF ResultRing!Next
<1>6. ASSUME NEW w \in Workers, PassResult(w) PROVE Goal
  <2>1. Writers' = Writers
    <3>1. "poll" \in Places /\ "poll" \notin Writing /\ w \notin Writers
      BY <1>6 DEF PassResult, Places, Writing, Writers
    <3> QED
      BY <1>6, <3>1, WritersMove DEF PassResult, Release, Writers
  <2>2. resultLock.holder = w /\ resultLock.next \in Workers
    BY <1>6 DEF PassResult, ResultLockHeld, RingsOK, LockType
  <2>3. tokenresult' = [tokenresult EXCEPT ![resultLock.next] = ResultRing!Decrement(@)]
    BY <1>0, <1>6, <2>2 DEF PassResult, RingsOK
  <2>4. IF resultLock.next = NumWorkers - 1
        THEN resultLock'.holder = Free /\ resultLock'.next = 0
        ELSE resultLock'.holder = resultLock.holder /\ resultLock'.next = resultLock.next + 1
    BY <1>6 DEF PassResult, Unlocked, RingsOK, LockType
  <2>5. ResultRing!Pass(w)
    BY <2>1, <2>2, <2>3, <2>4 DEF ResultRing!Pass
  <2> QED
    BY <1>0, <2>5 DEF ResultRing!Next
<1>7. ASSUME Environment PROVE Goal
  BY <1>7 DEF Environment, PushLp, PushHp, BeginSetProcessdata, SetProcessdata, Clean,
     ResultRing!vars, Writers
<1>8. CASE UNCHANGED vars
  BY <1>8 DEF vars, ResultRing!vars, Writers
<1> QED
  BY <1>2, <1>3, <1>4, <1>5, <1>6, <1>7, <1>8 DEF Next, Run, ProcessData

LEMMA WritersAtStart == Init => ResultRing!Init
  BY DEF Init, ResultRing!Init, ResultRing!Workers, Workers, Unlocked, Writers, Writing

(* The writers implement the ring: testing the token of the results with   *)
(* a result in hand enters it, change_token_results locks and passes.      *)
THEOREM WritersImplementRing == SafeSpec => WritersTakeTurns
  BY WritersAtStart, WritersStep, TypeCorrect, LocksHeld, PTL DEF SafeSpec, WritersTakeTurns, ResultRing!Spec, TypeInv

-----------------------------------------------------------------------------
(* The theorems of the ring, about the readers.                            *)
ReadProofs == INSTANCE TokenRingProofs
    WITH token <- tokenreading, holder <- readLock.holder, next <- readLock.next,
         inside <- Readers

LEMMA ReadRingInvariant == SafeSpec => []ReadProofs!Inv
<1>1. ReadRing!Init => ReadProofs!Init
  BY DEF ReadRing!Init, ReadProofs!Init, ReadRing!Workers, ReadProofs!Workers
<1>2. [ReadRing!Next]_(ReadRing!vars) => [ReadProofs!Next]_(ReadProofs!vars)
  BY DEF ReadRing!Next, ReadRing!vars, ReadRing!Enter, ReadRing!Leave, ReadRing!Lock,
     ReadRing!Pass, ReadRing!Workers, ReadRing!Decrement,
     ReadProofs!Next, ReadProofs!vars, ReadProofs!Enter, ReadProofs!Leave, ReadProofs!Lock,
     ReadProofs!Pass, ReadProofs!Workers, ReadProofs!Decrement
<1>3. ReadProofs!Spec => []ReadProofs!Inv
  BY WorkersAssumption, ReadProofs!Invariance
     DEF Workers, ReadProofs!RingAssumption, ReadProofs!Workers
<1> QED
  BY <1>1, <1>2, <1>3, ReadersImplementRing, PTL DEF ReadersTakeTurns, ReadRing!Spec, ReadProofs!Spec

(* Only one worker at a time is between its test of tokenreading and       *)
(* change_token_reading.                                                   *)
LEMMA OneReader == ReadProofs!Inv => \A u, w \in Readers : u = w
  BY DEF ReadProofs!Inv, ReadProofs!TypeOK, ReadProofs!TurnHeld, ReadProofs!Distinct,
     ReadProofs!Workers, Workers

(* Whoever reads sees its turn.                                            *)
LEMMA ReaderSeesTurn == ReadProofs!Inv => \A w \in Readers : ReadProofs!Settled(w) = 0
  BY DEF ReadProofs!Inv, ReadProofs!TurnHeld

(* A step of worker w that leaves it at place p leaves the others.         *)
LEMMA OthersStay ==
  ASSUME ThreadsOK, NEW w \in Workers, NEW p \in Places, Goto(w, p)
  PROVE  pc'[w] = p /\ \A v \in Workers : v # w => pc'[v] = pc[v]
  BY GotoFacts

(* A worker that found a queue non-empty loses the item it saw only to the *)
(* cleaning of a reset, never to another worker.                           *)
THEOREM OnlyAResetStarves == SafeSpec => OnlyCleaningStarves
<1> DEFINE NobodyStarves == \A w \in Workers : Starving(w)' => Starving(w)
<1>1. TypeOK /\ ReadProofs!Inv /\ [Next]_vars
          => [\A w \in Workers : ~Starving(w) /\ Starving(w)' => Clean]_vars
  <2> SUFFICES ASSUME ThreadsOK, QueuesOK, \A u, w \in Readers : u = w, [Next]_vars, ~Clean
               PROVE  NobodyStarves
    BY OneReader DEF TypeOK
  <2> USE DEF Starving, queues
  <2>1. ASSUME NEW w \in Workers, NEW p \in Places \ {"hpGet", "lpGet"}, Goto(w, p),
               UNCHANGED <<lp, hp>>
        PROVE  NobodyStarves
    BY <2>1, OthersStay
  <2>2. ASSUME NEW w \in Workers, CheckHp(w) \/ CheckLp(w) PROVE NobodyStarves
    <3>1. {"hpGet", "lpGet", "lpEmpty", "poll"} \subseteq Places
      BY DEF Places, Reading
    <3> QED
      BY <2>2, <3>1, OthersStay DEF CheckHp, CheckLp
  <2>3. ASSUME NEW w \in Workers, GetHp(w) \/ GetLp(w) PROVE NobodyStarves
    <3>1. "turn" \in Places /\ Goto(w, "turn") /\ w \in Readers
      BY <2>3 DEF GetHp, GetLp, Took, Places, Reading, Readers
    <3>2. \A v \in Workers : pc[v] \in {"hpGet", "lpGet"} => v = w
      BY <3>1 DEF Readers, Reading
    <3> QED
      BY <3>1, <3>2, OthersStay
  <2>4. ASSUME NEW w \in Workers, Poll(w) \/ CheckToken(w) \/ LockReading(w)
        PROVE  NobodyStarves
    <3>1. \E p \in Places \ {"hpGet", "lpGet"} : Goto(w, p)
      BY <2>4 DEF Poll, CheckToken, LockReading, Places, Reading
    <3> QED
      BY <2>1, <2>4, <3>1 DEF Poll, CheckToken, LockReading
  <2>5. ASSUME NEW w \in Workers, PassReading(w) \/ ProcessData(w) PROVE NobodyStarves
    <3>1. UNCHANGED pc \/ \E p \in Places \ {"hpGet", "lpGet"} : Goto(w, p)
      BY <2>5 DEF PassReading, ProcessData, Process, CheckResult, PushResult, LockResult,
         PassResult, Release, Places, Writing
    <3>2. UNCHANGED <<lp, hp>>
      BY <2>5 DEF PassReading, ProcessData, Process, CheckResult, PushResult, LockResult, PassResult
    <3> QED
      BY <2>1, <3>1, <3>2
  <2>6. ASSUME PushLp \/ PushHp PROVE NobodyStarves
    BY <2>6 DEF PushLp, PushHp, QueuesOK
  <2>7. ASSUME NEW value \in {0, 1}, BeginSetProcessdata(value) \/ SetProcessdata
        PROVE  NobodyStarves
    BY <2>7 DEF BeginSetProcessdata, SetProcessdata
  <2>8. CASE UNCHANGED vars
    BY <2>8 DEF vars
  <2> QED
    BY <2>2, <2>3, <2>4, <2>5, <2>6, <2>7, <2>8 DEF Next, Run, Read, Environment
<1> QED
  BY <1>1, TypeCorrect, ReadRingInvariant, PTL DEF SafeSpec, TypeInv, OnlyCleaningStarves
=============================================================================
