------------------------- MODULE PyWorkerThreadProofs -------------------------
(***************************************************************************)
(* Theorems about PyWorkerThread for any number of workers and of items:   *)
(* the turns survive the two writes of a decrement and the death of a      *)
(* thread.  The rings map to TokenRing with a token that is -1 for the     *)
(* moment read as 0; the order of reading and writing follows as it does   *)
(* for WorkerThread, whose lemmas about queues and histories serve here.   *)
(***************************************************************************)
EXTENDS PyWorkerThread, WorkerOrderProofs

PyPlaces == Places \cup {"ended", "dead"}
Tokens == Workers \cup {-1}

PyTypeInv == PyTypeOK /\ HeldOK

LEMMA PyGotoFacts ==
  ASSUME NEW w \in Workers, NEW p \in PyPlaces, pc \in [Workers -> PyPlaces], Goto(w, p)
  PROVE  /\ pc' \in [Workers -> PyPlaces]
         /\ pc'[w] = p
         /\ \A v \in Workers \ {w} : pc'[v] = pc[v]
  BY DEF Goto

(* What a write of a token makes of it.                                    *)
LEMMA WrappedFacts ==
  ASSUME NEW t \in Tokens
  PROVE  /\ Wrapped(t) \in Tokens
         /\ t < 0 => Wrapped(t) = NumWorkers - 1 /\ Wrapped(t) >= 0
         /\ t = 0 => Wrapped(t) = -1
         /\ t > 0 => Wrapped(t) = t - 1 /\ Wrapped(t) >= 0
         /\ t = -1 <=> t < 0
  BY WorkersAssumption DEF Tokens, Workers, Wrapped

(* A step that moves one worker, and gives its data up or keeps it, keeps  *)
(* the types of both, if the worker needs no data it lacks.                *)
LEMMA PyMoveKeepsTypes ==
  ASSUME PyTypeInv, NEW w \in Workers, NEW p \in PyPlaces, Goto(w, p),
         \/ held' = held /\ (p \in Busy => pc[w] \in Busy)
         \/ held' = [held EXCEPT ![w] = Free] /\ p \notin Busy
  PROVE  /\ HeldOK' /\ pc' \in [Workers -> PyPlaces]
         /\ held' \in [Workers -> DataType \cup {Free}]
<1>0. pc \in [Workers -> PyPlaces] /\ held \in [Workers -> DataType \cup {Free}]
  BY DEF PyTypeInv, PyTypeOK, PyPlaces
<1>1. /\ pc' \in [Workers -> PyPlaces]
      /\ pc'[w] = p
      /\ \A v \in Workers \ {w} : pc'[v] = pc[v]
  BY <1>0, PyGotoFacts
<1>2. /\ held' \in [Workers -> DataType \cup {Free}]
      /\ \A v \in Workers \ {w} : held'[v] = held[v]
  BY <1>0
<1>3. HeldOK'
  BY <1>1, <1>2 DEF PyTypeInv, HeldOK
<1> QED
  BY <1>1, <1>2, <1>3

LEMMA PyTookKeepsTypes ==
  ASSUME PyTypeInv, NEW w \in Workers, NEW queue \in Seq(Items), queue # <<>>,
         NEW priority \in {0, 1}, Took(w, queue, priority)
  PROVE  /\ HeldOK' /\ pc' \in [Workers -> PyPlaces]
         /\ held' \in [Workers -> DataType \cup {Free}]
         /\ reads' \in Seq([by : Workers, item : Items])
         /\ Tail(queue) \in Seq(Items)
<1> DEFINE data == [item |-> Head(queue), priority |-> priority]
<1>0. pc \in [Workers -> PyPlaces] /\ held \in [Workers -> DataType \cup {Free}]
  BY DEF PyTypeInv, PyTypeOK, PyPlaces
<1>1. data \in DataType /\ Head(queue) \in Items /\ Tail(queue) \in Seq(Items)
  BY DEF DataType
<1> HIDE DEF data
<1>2. "turn" \in PyPlaces /\ Goto(w, "turn")
  BY DEF PyPlaces, Places, Reading, Took
<1>3. /\ pc' \in [Workers -> PyPlaces]
      /\ \A v \in Workers \ {w} : pc'[v] = pc[v]
  BY <1>0, <1>2, PyGotoFacts
<1>4. held' = [held EXCEPT ![w] = data]
  BY DEF Took, data
<1>5. /\ held' \in [Workers -> DataType \cup {Free}]
      /\ held'[w] \in DataType
      /\ \A v \in Workers \ {w} : held'[v] = held[v]
  BY <1>0, <1>1, <1>4
<1>6. HeldOK'
  BY <1>3, <1>5 DEF PyTypeInv, HeldOK
<1>7. reads' \in Seq([by : Workers, item : Items])
  BY <1>1 DEF Took, PyTypeInv, PyTypeOK, QueuesOK
<1> QED
  BY <1>1, <1>3, <1>5, <1>6, <1>7

(* A write under a lock: where it leaves the lock and the worker.          *)
LEMMA PassOnFacts ==
  ASSUME NEW lock \in LockType, NEW lockNext, NEW w \in Workers, NEW written \in Tokens,
         \/ written < 0 /\ lockNext = lock
         \/ written >= 0 /\ lock.next < NumWorkers - 1 /\ lockNext = [lock EXCEPT !.next = @ + 1]
         \/ written >= 0 /\ lock.next = NumWorkers - 1 /\ lockNext = Unlocked
  PROVE  lockNext \in LockType
<1>1. lock.next \in Workers /\ 0 \in Workers
  BY WorkersAssumption DEF LockType, Workers
<1>2. lock.next < NumWorkers - 1 => lock.next + 1 \in Workers
  BY <1>1, WorkersAssumption DEF Workers
<1> QED
  BY <1>1, <1>2 DEF LockType, Unlocked

(* A step keeps the types.                                                 *)
LEMMA PyTypeStep ==
  PyTypeInv /\ [PyNext]_pyvars => PyTypeInv'
<1> SUFFICES ASSUME PyTypeInv, [PyNext]_pyvars PROVE PyTypeInv'
  OBVIOUS
<1> USE DEF queues, control, readRing, resultRing, history
<1> DEFINE HandsOK == /\ HeldOK' /\ pc' \in [Workers -> PyPlaces]
                      /\ held' \in [Workers -> DataType \cup {Free}]
<1>0. /\ QueuesOK /\ ControlOK /\ rlp \in Seq(Items) /\ stopping \in BOOLEAN
      /\ pc \in [Workers -> PyPlaces] /\ held \in [Workers -> DataType \cup {Free}]
      /\ tokenreading \in [Workers -> Tokens] /\ readLock \in LockType
      /\ tokenresult \in [Workers -> Tokens] /\ resultLock \in LockType
  BY DEF PyTypeInv, PyTypeOK, PyPlaces, Tokens
<1>1. ASSUME HandsOK,
             UNCHANGED <<queues, pushed, control, readRing, resultRing, history, rlp, stopping>>
      PROVE  PyTypeInv'
  BY <1>0, <1>1 DEF PyTypeInv, PyTypeOK, PyPlaces, Tokens, QueuesOK, ControlOK
<1>2. ASSUME NEW w \in Workers, PyPoll(w) \/ PyEnd(w) \/ PyCheckToken(w) \/ PyGetLpTimeout(w)
      PROVE  PyTypeInv'
  <2>1. PICK p \in {"token", "ended", "hpEmpty", "poll"} : Goto(w, p)
    BY <1>2 DEF PyPoll, PyEnd, PyCheckToken, PyGetLpTimeout, Same, Poll, CheckToken
  <2>2. p \in PyPlaces /\ p \notin Busy
    BY DEF PyPlaces, Places, Reading, Busy
  <2>3. /\ UNCHANGED <<queues, pushed, control, readRing, resultRing, history, rlp, stopping>>
        /\ held' = held
    BY <1>2 DEF PyPoll, PyEnd, PyCheckToken, PyGetLpTimeout, Same, Poll, CheckToken
  <2> QED
    BY <1>1, <2>1, <2>2, <2>3, PyMoveKeepsTypes
<1>3. ASSUME NEW w \in Workers, PyGetHp(w) PROVE PyTypeInv'
  <2>1. CASE hp # <<>>
    <3>1. HandsOK /\ reads' \in Seq([by : Workers, item : Items]) /\ hp' \in Seq(Items)
      BY <1>0, <1>3, <2>1, PyTookKeepsTypes DEF PyGetHp, QueuesOK
    <3> QED
      BY <1>0, <1>3, <2>1, <3>1
         DEF PyGetHp, PyTypeInv, PyTypeOK, PyPlaces, Tokens, QueuesOK, ControlOK
  <2>2. CASE hp = <<>>
    <3>1. "lpGet" \in PyPlaces /\ "lpGet" \notin Busy
      BY DEF PyPlaces, Places, Reading, Busy
    <3> QED
      BY <1>1, <1>3, <2>2, <3>1, PyMoveKeepsTypes DEF PyGetHp
  <2> QED
    BY <2>1, <2>2
<1>4. ASSUME NEW w \in Workers, PyGetLp(w) PROVE PyTypeInv'
  <2>1. HandsOK /\ reads' \in Seq([by : Workers, item : Items]) /\ lp' \in Seq(Items)
    BY <1>0, <1>4, PyTookKeepsTypes DEF PyGetLp, Same, GetLp, QueuesOK
  <2> QED
    BY <1>0, <1>4, <2>1
       DEF PyGetLp, Same, GetLp, PyTypeInv, PyTypeOK, PyPlaces, Tokens, QueuesOK, ControlOK
<1>5. ASSUME NEW w \in Workers, Same(LockReading(w)) PROVE PyTypeInv'
  <2>1. /\ 0 \in Workers /\ "passing" \in PyPlaces /\ pc[w] \in Busy
    BY <1>5, WorkersAssumption DEF Same, LockReading, Workers, PyPlaces, Places, Busy
  <2>2. readLock' \in LockType /\ HandsOK
    BY <1>5, <2>1, PyMoveKeepsTypes DEF Same, LockReading, LockType
  <2> QED
    BY <1>0, <1>5, <2>2
       DEF Same, LockReading, PyTypeInv, PyTypeOK, PyPlaces, Tokens, QueuesOK, ControlOK
<1>6. ASSUME NEW w \in Workers, PyPassReading(w) PROVE PyTypeInv'
  <2> DEFINE written == Wrapped(tokenreading[readLock.next])
  <2>1. readLock.next \in Workers
    BY <1>0 DEF LockType
  <2>2. written \in Tokens
    BY <1>0, <2>1, WrappedFacts
  <2>3. tokenreading' \in [Workers -> Tokens]
    BY <1>0, <1>6, <2>2 DEF PyPassReading
  <2>4. readLock' \in LockType
    BY <1>0, <1>6, <2>2, PassOnFacts DEF PyPassReading, PassOn
  <2>5. HandsOK
    <3>1. "process" \in PyPlaces /\ pc[w] \in Busy /\ held' = held
      BY <1>6 DEF PyPassReading, PyPlaces, Places, Busy
    <3>2. CASE UNCHANGED pc
      BY <1>0, <3>1, <3>2 DEF PyTypeInv, HeldOK
    <3> QED
      BY <1>6, <3>1, <3>2, PyMoveKeepsTypes DEF PyPassReading, PassOn
  <2> QED
    BY <1>0, <1>6, <2>3, <2>4, <2>5
       DEF PyPassReading, PyTypeInv, PyTypeOK, PyPlaces, Tokens, QueuesOK, ControlOK
<1>7. ASSUME NEW w \in Workers, PyProcess(w) PROVE PyTypeInv'
  <2>1. /\ {"result", "poll", "dead"} \subseteq PyPlaces /\ pc[w] \in Busy
        /\ "poll" \notin Busy /\ "dead" \notin Busy
    BY <1>7 DEF PyProcess, Process, PyPlaces, Places, Busy
  <2>2. HandsOK
    BY <1>7, <2>1, PyMoveKeepsTypes DEF PyProcess, Process, Release
  <2> QED
    BY <1>1, <1>7, <2>2 DEF PyProcess, Process
<1>8. ASSUME NEW w \in Workers, PyCheckResult(w) PROVE PyTypeInv'
  <2>1. /\ {"push", "poll"} \subseteq PyPlaces /\ pc[w] \in Busy /\ "poll" \notin Busy
    BY <1>8 DEF PyCheckResult, PyPlaces, Places, Writing, Busy
  <2>2. HandsOK
    BY <1>8, <2>1, PyMoveKeepsTypes DEF PyCheckResult, Release
  <2> QED
    BY <1>1, <1>8, <2>2 DEF PyCheckResult
<1>9. ASSUME NEW w \in Workers, PyPushResult(w) PROVE PyTypeInv'
  <2>1. "resultTurn" \in PyPlaces /\ pc[w] \in Busy
    BY <1>9 DEF PyPushResult, PyPlaces, Places, Writing, Busy
  <2>2. held[w].item \in Items
    BY <2>1 DEF PyTypeInv, HeldOK, DataType
  <2>3. rhp' \in Seq(Items) /\ rlp' \in Seq(Items)
    <3>1. Append(rhp, held[w].item) \in Seq(Items) /\ Append(rlp, held[w].item) \in Seq(Items)
      BY <1>0, <2>2 DEF QueuesOK
    <3> QED
      BY <1>0, <1>9, <3>1 DEF PyPushResult, QueuesOK
  <2>4. HandsOK
    BY <1>9, <2>1, PyMoveKeepsTypes DEF PyPushResult
  <2> QED
    BY <1>0, <1>9, <2>3, <2>4
       DEF PyPushResult, PyTypeInv, PyTypeOK, PyPlaces, Tokens, QueuesOK, ControlOK
<1>10. ASSUME NEW w \in Workers, Same(LockResult(w)) PROVE PyTypeInv'
  <2>1. /\ 0 \in Workers /\ "resultPassing" \in PyPlaces /\ pc[w] \in Busy
    BY <1>10, WorkersAssumption DEF Same, LockResult, Workers, PyPlaces, Places, Busy
  <2>2. resultLock' \in LockType /\ HandsOK
    BY <1>10, <2>1, PyMoveKeepsTypes DEF Same, LockResult, LockType
  <2> QED
    BY <1>0, <1>10, <2>2
       DEF Same, LockResult, PyTypeInv, PyTypeOK, PyPlaces, Tokens, QueuesOK, ControlOK
<1>11. ASSUME NEW w \in Workers, PyPassResult(w) PROVE PyTypeInv'
  <2> DEFINE written == Wrapped(tokenresult[resultLock.next])
  <2>1. resultLock.next \in Workers
    BY <1>0 DEF LockType
  <2>2. written \in Tokens
    BY <1>0, <2>1, WrappedFacts
  <2>3. tokenresult' \in [Workers -> Tokens]
    BY <1>0, <1>11, <2>2 DEF PyPassResult
  <2>4. resultLock' \in LockType
    BY <1>0, <1>11, <2>2, PassOnFacts DEF PyPassResult, PassOn
  <2>5. HandsOK
    <3>1. "poll" \in PyPlaces /\ pc[w] \in Busy /\ "poll" \notin Busy
      BY <1>11 DEF PyPassResult, PyPlaces, Places, Busy
    <3>2. CASE UNCHANGED pc
      BY <1>0, <1>11, <3>2 DEF PyPassResult, PyTypeInv, HeldOK
    <3>3. CASE Goto(w, "poll") /\ pc' # pc
      BY <1>11, <3>1, <3>3, PyMoveKeepsTypes DEF PyPassResult
    <3> QED
      BY <1>11, <3>2, <3>3 DEF PyPassResult, PassOn
  <2> QED
    BY <1>0, <1>11, <2>3, <2>4, <2>5
       DEF PyPassResult, PyTypeInv, PyTypeOK, PyPlaces, Tokens, QueuesOK, ControlOK
<1>12. ASSUME Same(PushLp) \/ Same(PushHp) PROVE PyTypeInv'
  <2>1. pushed' \in 0..MaxItems /\ pushed' \in Items
    BY <1>0, <1>12, ItemsAssumption DEF Same, PushLp, PushHp, Items, QueuesOK
  <2>2. Append(lp, pushed') \in Seq(Items) /\ Append(hp, pushed') \in Seq(Items)
    BY <1>0, <2>1 DEF QueuesOK
  <2>3. QueuesOK'
    BY <1>0, <1>12, <2>1, <2>2 DEF Same, PushLp, PushHp, QueuesOK
  <2> QED
    BY <1>0, <1>12, <2>3
       DEF Same, PushLp, PushHp, PyTypeInv, PyTypeOK, PyPlaces, Tokens, HeldOK, ControlOK
<1>13. ASSUME ControlOK',
              UNCHANGED <<queues, pushed, pc, held, readRing, resultRing, history, rlp>>,
              stopping' \in BOOLEAN
       PROVE  PyTypeInv'
  BY <1>0, <1>13 DEF PyTypeInv, PyTypeOK, PyPlaces, Tokens, HeldOK, QueuesOK
<1>14. ASSUME NEW value \in {0, 1}, Same(BeginSetProcessdata(value)) PROVE PyTypeInv'
  <2>1. 0 \in 0..NumWorkers
    BY WorkersAssumption
  <2> QED
    BY <1>0, <1>13, <1>14, <2>1 DEF Same, BeginSetProcessdata, ControlOK
<1>15. ASSUME Same(SetProcessdata) PROVE PyTypeInv'
  <2>1. ControlOK'
    BY <1>0, <1>15, SetProcessdataTypes DEF Same
  <2> QED
    BY <1>0, <1>13, <1>15, <2>1 DEF Same, SetProcessdata
<1>16. ASSUME PyStop PROVE PyTypeInv'
  BY <1>0, <1>13, <1>16 DEF PyStop, vars, ControlOK
<1>17. CASE UNCHANGED pyvars
  BY <1>0, <1>13, <1>17 DEF pyvars, vars, ControlOK
<1>18. ASSUME Same(Clean) PROVE PyTypeInv'
  <2>1. QueuesOK'
    BY <1>0, <1>18, CleanTypes DEF Same
  <2> QED
    BY <1>0, <1>18, <2>1
       DEF Same, Clean, PyTypeInv, PyTypeOK, PyPlaces, Tokens, HeldOK, ControlOK
<1>19. ASSUME PyCleanResultLp PROVE PyTypeInv'
  <2>1. rlp' \in Seq(Items)
    BY <1>0, <1>19, TailsAreTyped DEF PyCleanResultLp
  <2>2. UNCHANGED <<queues, pushed, pc, held, control, readRing, resultRing, history, stopping>>
    BY <1>19 DEF PyCleanResultLp, vars
  <2> QED
    BY <1>0, <2>1, <2>2 DEF PyTypeInv, PyTypeOK, PyPlaces, Tokens, HeldOK, QueuesOK, ControlOK
<1> QED
  BY <1>2, <1>3, <1>4, <1>5, <1>6, <1>7, <1>8, <1>9, <1>10, <1>11, <1>12, <1>14, <1>15,
     <1>16, <1>17, <1>18, <1>19
  DEF PyNext, PyRun, PyRead, PyProcessData, Environment, Same

LEMMA PyTypeAtStart == PyInit => PyTypeInv
<1>1. Init => TypeInv
  BY TypeAtStart
<1>2. ASSUME TypeInv, rlp = <<>>, stopping = FALSE PROVE PyTypeInv
  <2>1. /\ pc \in [Workers -> Places \cup {"ended", "dead"}]
        /\ tokenreading \in [Workers -> Workers \cup {-1}]
        /\ tokenresult \in [Workers -> Workers \cup {-1}]
    BY <1>2 DEF TypeInv, TypeOK, ThreadsOK, RingsOK
  <2>2. rlp \in Seq(Items)
    BY <1>2
  <2>3. stopping \in BOOLEAN
    BY <1>2
  <2> QED
    BY <1>2, <2>1, <2>2, <2>3 DEF TypeInv, TypeOK, ThreadsOK, RingsOK, PyTypeInv, PyTypeOK
<1> QED
  BY <1>1, <1>2 DEF PyInit

(* Types, and what a busy worker holds.                                    *)
LEMMA PyTypeCorrect == PySafeSpec => []PyTypeInv
  BY PyTypeAtStart, PyTypeStep, PTL DEF PySafeSpec

(* Every variable keeps its type; a token is -1 at most for a moment.      *)
THEOREM PyTypesHold == PySafeSpec => []PyTypeOK
<1>1. PyTypeInv => PyTypeOK
  BY DEF PyTypeInv
<1> QED
  BY <1>1, PyTypeCorrect, PTL

-----------------------------------------------------------------------------
(* A worker holds a mutex exactly while it is in the loop that needs it:   *)
(* the invariant of WorkerThread, with the writes of this loop.            *)
LEMMA PyLockStep ==
  PyTypeInv /\ LockInv /\ [PyNext]_pyvars => LockInv'
<1> SUFFICES ASSUME PyTypeInv, LockInv, [PyNext]_pyvars PROVE LockInv'
  OBVIOUS
<1> USE DEF LockInv, ReadLockHeld, ResultLockHeld, readRing, resultRing
<1>0. /\ pc \in [Workers -> PyPlaces] /\ readLock \in LockType /\ resultLock \in LockType
      /\ Free \notin Workers
  BY WorkersAssumption DEF PyTypeInv, PyTypeOK, PyPlaces
<1>1. ASSUME NEW w \in Workers, pc[w] # "passing", pc[w] # "resultPassing",
             UNCHANGED <<readRing, resultRing>>,
             NEW p \in PyPlaces \ {"passing", "resultPassing"}, Goto(w, p)
      PROVE  LockInv'
  BY <1>0, <1>1, PyGotoFacts
<1>2. ASSUME NEW w \in Workers, PyRead(w), ~Same(LockReading(w)), ~PyPassReading(w)
      PROVE  LockInv'
  <2>1. PICK p \in {"token", "ended", "poll", "hpEmpty", "lpGet", "turn"} : Goto(w, p)
    BY <1>2 DEF PyRead, Same, PyPoll, PyEnd, PyCheckToken, PyGetHp, PyGetLp, PyGetLpTimeout,
       Poll, CheckToken, GetLp, Took
  <2>2. p \in PyPlaces \ {"passing", "resultPassing"}
    BY DEF PyPlaces, Places, Reading
  <2>3. pc[w] # "passing" /\ pc[w] # "resultPassing" /\ UNCHANGED <<readRing, resultRing>>
    BY <1>2 DEF PyRead, Same, PyPoll, PyEnd, PyCheckToken, PyGetHp, PyGetLp, PyGetLpTimeout,
       Poll, CheckToken, GetLp
  <2> QED
    BY <1>1, <2>1, <2>2, <2>3
<1>3. ASSUME NEW w \in Workers, PyProcess(w) \/ PyCheckResult(w) \/ PyPushResult(w)
      PROVE  LockInv'
  <2>1. PICK p \in {"poll", "result", "dead", "push", "resultTurn"} : Goto(w, p)
    BY <1>3 DEF PyProcess, Process, PyCheckResult, PyPushResult, Release
  <2>2. p \in PyPlaces \ {"passing", "resultPassing"}
    BY DEF PyPlaces, Places, Writing
  <2>3. pc[w] # "passing" /\ pc[w] # "resultPassing" /\ UNCHANGED <<readRing, resultRing>>
    BY <1>3 DEF PyProcess, Process, PyCheckResult, PyPushResult
  <2> QED
    BY <1>1, <2>1, <2>2, <2>3
<1>4. ASSUME NEW w \in Workers, Same(LockReading(w)) PROVE LockInv'
  <2>1. "passing" \in PyPlaces
    BY DEF PyPlaces, Places
  <2> QED
    BY <1>0, <1>4, <2>1, PyGotoFacts DEF Same, LockReading, Unlocked
<1>5. ASSUME NEW w \in Workers, PyPassReading(w) PROVE LockInv'
  <2>1. "process" \in PyPlaces
    BY DEF PyPlaces, Places
  <2>2. CASE UNCHANGED pc /\ readLock'.holder = readLock.holder
    BY <1>5, <2>2 DEF PyPassReading
  <2>3. CASE Goto(w, "process") /\ readLock' = Unlocked
    BY <1>0, <1>5, <2>1, <2>3, PyGotoFacts DEF PyPassReading, Unlocked
  <2> QED
    BY <1>0, <1>5, <2>2, <2>3 DEF PyPassReading, PassOn, LockType
<1>6. ASSUME NEW w \in Workers, Same(LockResult(w)) PROVE LockInv'
  <2>1. "resultPassing" \in PyPlaces
    BY DEF PyPlaces, Places
  <2> QED
    BY <1>0, <1>6, <2>1, PyGotoFacts DEF Same, LockResult, Unlocked
<1>7. ASSUME NEW w \in Workers, PyPassResult(w) PROVE LockInv'
  <2>1. "poll" \in PyPlaces
    BY DEF PyPlaces, Places
  <2>2. CASE UNCHANGED pc /\ resultLock'.holder = resultLock.holder
    BY <1>7, <2>2 DEF PyPassResult
  <2>3. CASE Goto(w, "poll") /\ resultLock' = Unlocked
    BY <1>0, <1>7, <2>1, <2>3, PyGotoFacts DEF PyPassResult, Unlocked
  <2> QED
    BY <1>0, <1>7, <2>2, <2>3 DEF PyPassResult, PassOn, LockType
<1>8. ASSUME Same(Environment) PROVE LockInv'
  BY <1>8 DEF Same, Environment, PushLp, PushHp, BeginSetProcessdata, SetProcessdata,
     Clean
<1>9. CASE PyCleanResultLp \/ PyStop \/ UNCHANGED pyvars
  BY <1>9 DEF PyCleanResultLp, PyStop, pyvars, vars
<1> QED
  BY <1>2, <1>3, <1>4, <1>5, <1>6, <1>7, <1>8, <1>9 DEF PyNext, PyRun, PyProcessData

LEMMA PyLocksHeld == PySafeSpec => []LockInv
<1>1. PyInit => LockInv
  BY LocksAtStart DEF PyInit
<1> QED
  BY <1>1, PyLockStep, PyTypeCorrect, PTL DEF PySafeSpec

-----------------------------------------------------------------------------
(* The two writes of a decrement are one decrement of the ring: the first, *)
(* to -1, changes nothing the ring shows, the second goes from 0 to the    *)
(* last turn.                                                              *)
LEMMA TwoWritesOneDecrement ==
  ASSUME NEW tokens \in [Workers -> Tokens], NEW n \in Workers,
         NEW written, written = [tokens EXCEPT ![n] = Wrapped(@)]
  PROVE  /\ Wrapped(tokens[n]) < 0 => Unwrapped(written) = Unwrapped(tokens)
         /\ Wrapped(tokens[n]) >= 0 =>
                Unwrapped(written) = [Unwrapped(tokens) EXCEPT ![n] = PyReadRing!Decrement(@)]
<1>1. tokens[n] \in Tokens /\ written[n] = Wrapped(tokens[n])
  OBVIOUS
<1>2. \A v \in Workers : v # n => written[v] = tokens[v]
  OBVIOUS
<1>3. ASSUME Wrapped(tokens[n]) < 0 PROVE Unwrapped(written) = Unwrapped(tokens)
  <2>1. tokens[n] = 0
    BY <1>1, <1>3, WrappedFacts DEF Tokens, Workers
  <2> QED
    BY <1>1, <1>2, <1>3, <2>1 DEF Unwrapped
<1>4. ASSUME Wrapped(tokens[n]) >= 0
      PROVE  Unwrapped(written) = [Unwrapped(tokens) EXCEPT ![n] = PyReadRing!Decrement(@)]
  <2> DEFINE before == Unwrapped(tokens)
             after == Unwrapped(written)
  <2>1. /\ before = [v \in Workers |-> before[v]] /\ after = [v \in Workers |-> after[v]]
        /\ \A v \in Workers : v # n => after[v] = before[v]
        /\ before[n] = (IF tokens[n] < 0 THEN 0 ELSE tokens[n])
        /\ after[n] = (IF written[n] < 0 THEN 0 ELSE written[n])
    BY <1>2 DEF Unwrapped
  <2>2. after[n] = PyReadRing!Decrement(before[n])
    <3>1. CASE tokens[n] < 0
      BY <1>1, <1>4, <2>1, <3>1, WrappedFacts, WorkersAssumption DEF PyReadRing!Decrement
    <3>2. CASE tokens[n] > 0
      BY <1>1, <1>4, <2>1, <3>2, WrappedFacts, WorkersAssumption
         DEF PyReadRing!Decrement, Tokens, Workers
    <3>3. tokens[n] # 0
      BY <1>1, <1>4, WrappedFacts
    <3> QED
      BY <1>1, <3>1, <3>2, <3>3 DEF Tokens, Workers
  <2> HIDE DEF before, after
  <2>3. after = [before EXCEPT ![n] = PyReadRing!Decrement(@)]
    BY <2>1, <2>2
  <2> QED
    BY <2>3 DEF before, after
<1> QED
  BY <1>3, <1>4

LEMMA UnwrappedTokens ==
  ASSUME NEW tokens \in [Workers -> Tokens]
  PROVE  /\ Unwrapped(tokens) \in [Workers -> Workers]
         /\ \A w \in Workers : tokens[w] = 0 => Unwrapped(tokens)[w] = 0
<1>1. 0 \in Workers /\ \A t \in Tokens : t >= 0 => t \in Workers
  BY WorkersAssumption DEF Tokens, Workers
<1>2. \A t \in Tokens : ~(t < 0) => t >= 0
  BY WorkersAssumption DEF Tokens, Workers
<1> QED
  BY <1>1, <1>2 DEF Unwrapped

LEMMA PyReadersMove ==
  ASSUME pc \in [Workers -> PyPlaces], NEW w \in Workers, NEW p \in PyPlaces, Goto(w, p)
  PROVE  /\ p \in Reading => Readers' = Readers \cup {w}
         /\ p \notin Reading => Readers' = Readers \ {w}
         /\ (p \in Reading <=> pc[w] \in Reading) => Readers' = Readers
  BY PyGotoFacts DEF Readers

LEMMA PyWritersMove ==
  ASSUME pc \in [Workers -> PyPlaces], NEW w \in Workers, NEW p \in PyPlaces, Goto(w, p)
  PROVE  /\ p \in Writing => Writers' = Writers \cup {w}
         /\ p \notin Writing => Writers' = Writers \ {w}
         /\ (p \in Writing <=> pc[w] \in Writing) => Writers' = Writers
  BY PyGotoFacts DEF Writers

(* A write of change_token_reading is one iteration of the ring's loop, or *)
(* the first half of one, that the ring does not see.                      *)
LEMMA PyPassReadingPasses ==
  ASSUME PyTypeInv, ReadLockHeld, NEW w \in Workers, PyPassReading(w)
  PROVE  PyReadRing!Pass(w) \/ UNCHANGED PyReadRing!vars
<1>0. /\ pc \in [Workers -> PyPlaces] /\ readLock \in LockType
      /\ tokenreading \in [Workers -> Tokens]
  BY DEF PyTypeInv, PyTypeOK, PyPlaces, Tokens
<1>1. Readers' = Readers
  <2>1. "process" \in PyPlaces /\ "process" \notin Reading /\ pc[w] \notin Reading
    BY DEF PyPassReading, PyPlaces, Places, Reading
  <2> QED
    BY <1>0, <2>1, PyReadersMove DEF PyPassReading, PassOn, Readers
<1>2. readLock.holder = w /\ readLock.next \in Workers
  BY <1>0 DEF PyPassReading, ReadLockHeld, LockType
<1> DEFINE written == Wrapped(tokenreading[readLock.next])
<1>3. /\ written < 0 => Unwrapped(tokenreading') = Unwrapped(tokenreading)
      /\ written >= 0 => Unwrapped(tokenreading') =
             [Unwrapped(tokenreading) EXCEPT ![readLock.next] = PyReadRing!Decrement(@)]
  BY <1>0, <1>2, TwoWritesOneDecrement DEF PyPassReading
<1>4. CASE written < 0 /\ readLock' = readLock
  BY <1>1, <1>3, <1>4 DEF PyReadRing!vars
<1>5. CASE written >= 0 /\ ~(written < 0)
  <2>1. IF readLock.next = NumWorkers - 1
        THEN readLock'.holder = Free /\ readLock'.next = 0
        ELSE readLock'.holder = readLock.holder /\ readLock'.next = readLock.next + 1
    <3>1. \/ readLock.next < NumWorkers - 1 /\ readLock' = [readLock EXCEPT !.next = @ + 1]
          \/ readLock.next = NumWorkers - 1 /\ readLock' = Unlocked
      BY <1>5 DEF PyPassReading, PassOn
    <3>2. readLock.next < NumWorkers - 1 => readLock.next # NumWorkers - 1
      BY <1>2, WorkersAssumption DEF Workers
    <3> QED
      BY <1>0, <3>1, <3>2 DEF Unlocked, LockType
  <2> QED
    BY <1>1, <1>2, <1>3, <1>5, <2>1 DEF PyReadRing!Pass
<1>6. written < 0 \/ written >= 0
  BY DEF PyPassReading, PassOn
<1>7. written \in Tokens
  BY <1>0, <1>2, WrappedFacts
<1>8. written \in Int
  BY <1>7, WorkersAssumption DEF Tokens, Workers
<1> QED
  BY <1>4, <1>5, <1>6, <1>8 DEF PyPassReading, PassOn

LEMMA PyPassResultPasses ==
  ASSUME PyTypeInv, ResultLockHeld, NEW w \in Workers, PyPassResult(w)
  PROVE  PyResultRing!Pass(w) \/ UNCHANGED PyResultRing!vars
<1>0. /\ pc \in [Workers -> PyPlaces] /\ resultLock \in LockType
      /\ tokenresult \in [Workers -> Tokens]
  BY DEF PyTypeInv, PyTypeOK, PyPlaces, Tokens
<1>1. Writers' = Writers
  <2>1. "poll" \in PyPlaces /\ "poll" \notin Writing /\ pc[w] \notin Writing
    BY DEF PyPassResult, PyPlaces, Places, Writing
  <2> QED
    BY <1>0, <2>1, PyWritersMove DEF PyPassResult, PassOn, Writers
<1>2. resultLock.holder = w /\ resultLock.next \in Workers
  BY <1>0 DEF PyPassResult, ResultLockHeld, LockType
<1> DEFINE written == Wrapped(tokenresult[resultLock.next])
<1>3. /\ written < 0 => Unwrapped(tokenresult') = Unwrapped(tokenresult)
      /\ written >= 0 => Unwrapped(tokenresult') =
             [Unwrapped(tokenresult) EXCEPT ![resultLock.next] = PyReadRing!Decrement(@)]
  BY <1>0, <1>2, TwoWritesOneDecrement DEF PyPassResult
<1>4. CASE written < 0 /\ resultLock' = resultLock
  BY <1>1, <1>3, <1>4 DEF PyResultRing!vars
<1>5. CASE written >= 0 /\ ~(written < 0)
  <2>1. IF resultLock.next = NumWorkers - 1
        THEN resultLock'.holder = Free /\ resultLock'.next = 0
        ELSE resultLock'.holder = resultLock.holder /\ resultLock'.next = resultLock.next + 1
    <3>1. \/ resultLock.next < NumWorkers - 1 /\ resultLock' = [resultLock EXCEPT !.next = @ + 1]
          \/ resultLock.next = NumWorkers - 1 /\ resultLock' = Unlocked
      BY <1>5 DEF PyPassResult, PassOn
    <3>2. resultLock.next < NumWorkers - 1 => resultLock.next # NumWorkers - 1
      BY <1>2, WorkersAssumption DEF Workers
    <3> QED
      BY <1>0, <3>1, <3>2 DEF Unlocked, LockType
  <2> QED
    BY <1>1, <1>2, <1>3, <1>5, <2>1
       DEF PyResultRing!Pass, PyResultRing!Decrement, PyReadRing!Decrement
<1>6. written < 0 \/ written >= 0
  BY DEF PyPassResult, PassOn
<1>7. written \in Tokens
  BY <1>0, <1>2, WrappedFacts
<1>8. written \in Int
  BY <1>7, WorkersAssumption DEF Tokens, Workers
<1> QED
  BY <1>4, <1>5, <1>6, <1>8 DEF PyPassResult, PassOn

(* A step is one of the ring of readers, or none.                          *)
LEMMA PyReadersStep ==
  PyTypeInv /\ LockInv /\ [PyNext]_pyvars => [PyReadRing!Next]_(PyReadRing!vars)
<1> SUFFICES ASSUME PyTypeInv, ReadLockHeld, [PyNext]_pyvars
             PROVE  PyReadRing!Next \/ UNCHANGED PyReadRing!vars
  BY DEF LockInv
<1> DEFINE Goal == PyReadRing!Next \/ UNCHANGED PyReadRing!vars
<1> USE DEF readRing, resultRing
<1>0. /\ PyReadRing!Workers = Workers
      /\ pc \in [Workers -> PyPlaces] /\ tokenreading \in [Workers -> Tokens]
  BY DEF PyReadRing!Workers, Workers, PyTypeInv, PyTypeOK, PyPlaces, Tokens
<1>1. ASSUME NEW w \in Workers, NEW p \in PyPlaces, Goto(w, p),
             pc[w] \in Reading <=> p \in Reading, UNCHANGED readRing
      PROVE  Goal
  <2>1. Readers' = Readers
    BY <1>0, <1>1, PyReadersMove
  <2> QED
    BY <1>1, <2>1 DEF PyReadRing!vars
<1>2. ASSUME NEW w \in Workers, NEW p \in PyPlaces \ Reading, Goto(w, p), w \in Readers,
             UNCHANGED readRing
      PROVE  Goal
  <2>1. Readers' = Readers \ {w}
    BY <1>0, <1>2, PyReadersMove
  <2>2. PyReadRing!Leave(w)
    BY <1>2, <2>1 DEF PyReadRing!Leave
  <2> QED
    BY <1>0, <2>2 DEF PyReadRing!Next
<1>3. ASSUME NEW w \in Workers, PyPoll(w) \/ PyEnd(w) \/ PyGetHp(w) \/ PyGetLp(w) PROVE Goal
  <2>1. PICK p \in {"token", "ended", "turn", "lpGet"} :
            Goto(w, p) /\ (pc[w] \in Reading <=> p \in Reading)
    BY <1>3 DEF PyPoll, PyEnd, PyGetHp, PyGetLp, Same, Poll, GetLp, Took, Reading
  <2>2. p \in PyPlaces
    BY DEF PyPlaces, Places, Reading
  <2>3. UNCHANGED readRing
    BY <1>3 DEF PyPoll, PyEnd, PyGetHp, PyGetLp, Same, Poll, GetLp
  <2> QED
    BY <1>1, <2>1, <2>2, <2>3
<1>4. ASSUME NEW w \in Workers, PyCheckToken(w) PROVE Goal
  <2>1. CASE tokenreading[w] = 0
    <3>1. "hpEmpty" \in PyPlaces /\ "hpEmpty" \in Reading /\ Goto(w, "hpEmpty")
      BY <1>4, <2>1 DEF PyCheckToken, Same, CheckToken, PyPlaces, Places, Reading
    <3>2. Readers' = Readers \cup {w}
      BY <1>0, <3>1, PyReadersMove
    <3>3. w \notin Readers /\ readLock.holder # w /\ Unwrapped(tokenreading)[w] = 0
      BY <1>0, <1>4, <2>1, UnwrappedTokens
         DEF PyCheckToken, Same, CheckToken, Readers, Reading, ReadLockHeld
    <3>4. PyReadRing!Enter(w)
      BY <1>4, <3>2, <3>3 DEF PyCheckToken, Same, CheckToken, PyReadRing!Enter
    <3> QED
      BY <1>0, <3>4 DEF PyReadRing!Next
  <2>2. CASE tokenreading[w] # 0
    <3>1. "poll" \in PyPlaces /\ Goto(w, "poll") /\ UNCHANGED readRing
          /\ (pc[w] \in Reading <=> "poll" \in Reading)
      BY <1>4, <2>2 DEF PyCheckToken, Same, CheckToken, PyPlaces, Places, Reading
    <3> QED
      BY <1>1, <3>1
  <2> QED
    BY <2>1, <2>2
<1>5. ASSUME NEW w \in Workers, PyGetLpTimeout(w) PROVE Goal
  <2>1. /\ "poll" \in PyPlaces \ Reading /\ Goto(w, "poll") /\ w \in Readers
        /\ UNCHANGED readRing
    BY <1>5 DEF PyGetLpTimeout, Same, PyPlaces, Places, Reading, Readers
  <2> QED
    BY <1>2, <2>1
<1>6. ASSUME NEW w \in Workers, Same(LockReading(w)) PROVE Goal
  <2>1. "passing" \in PyPlaces /\ "passing" \notin Reading /\ Goto(w, "passing") /\ w \in Readers
    BY <1>6 DEF Same, LockReading, PyPlaces, Places, Reading, Readers
  <2>2. PyReadRing!Lock(w)
    BY <1>0, <1>6, <2>1, PyReadersMove DEF Same, LockReading, Unlocked, PyReadRing!Lock
  <2> QED
    BY <1>0, <2>2 DEF PyReadRing!Next
<1>7. ASSUME NEW w \in Workers, PyPassReading(w) PROVE Goal
  BY <1>0, <1>7, PyPassReadingPasses DEF PyReadRing!Next
<1>8. ASSUME NEW w \in Workers, PyProcessData(w) PROVE Goal
  <2>1. \/ UNCHANGED pc
        \/ \E p \in PyPlaces : Goto(w, p) /\ (pc[w] \in Reading <=> p \in Reading)
    BY <1>8 DEF PyProcessData, Same, PyProcess, Process, PyCheckResult, PyPushResult,
       LockResult, PyPassResult, PassOn, Release, PyPlaces, Places, Reading, Writing
  <2>2. UNCHANGED readRing
    BY <1>8 DEF PyProcessData, Same, PyProcess, Process, PyCheckResult, PyPushResult,
       LockResult, PyPassResult
  <2>3. CASE UNCHANGED pc
    BY <2>2, <2>3 DEF PyReadRing!vars, Readers
  <2> QED
    BY <1>1, <2>1, <2>2, <2>3
<1>9. ASSUME Same(Environment) \/ PyCleanResultLp \/ PyStop \/ UNCHANGED pyvars PROVE Goal
  <2>1. UNCHANGED <<pc, readRing>>
    BY <1>9 DEF Same, Environment, PushLp, PushHp, BeginSetProcessdata, SetProcessdata,
       Clean, PyCleanResultLp, PyStop, pyvars, vars
  <2> QED
    BY <2>1 DEF PyReadRing!vars, Readers
<1> QED
  BY <1>3, <1>4, <1>5, <1>6, <1>7, <1>8, <1>9 DEF PyNext, PyRun, PyRead

LEMMA PyRingsAtStart == PyInit => PyReadRing!Init /\ PyResultRing!Init
<1> SUFFICES ASSUME PyInit PROVE PyReadRing!Init /\ PyResultRing!Init
  OBVIOUS
<1>1. \A w \in Workers : ~(w < 0)
  BY WorkersAssumption DEF Workers
<1>2. Unwrapped(tokenreading) = [w \in Workers |-> w]
      /\ Unwrapped(tokenresult) = [w \in Workers |-> w]
  BY <1>1 DEF PyInit, Init, Unwrapped
<1>3. Readers = {} /\ Writers = {}
  BY DEF PyInit, Init, Readers, Reading, Writers, Writing
<1> QED
  BY <1>2, <1>3 DEF PyInit, Init, PyReadRing!Init, PyReadRing!Workers, PyResultRing!Init,
     PyResultRing!Workers, Workers, Unlocked

(* The readers implement the ring although a token is written twice and a  *)
(* thread may die or end: when it does it is not between its test of the   *)
(* token and the lock, and does not hold the lock.                         *)
THEOREM PyReadersImplementRing == PySafeSpec => PyReadersTakeTurns
  BY PyRingsAtStart, PyReadersStep, PyTypeCorrect, PyLocksHeld, PTL
     DEF PySafeSpec, PyReadersTakeTurns, PyReadRing!Spec

(* A step is one of the ring of writers, or none.                          *)
LEMMA PyWritersStep ==
  PyTypeInv /\ LockInv /\ [PyNext]_pyvars => [PyResultRing!Next]_(PyResultRing!vars)
<1> SUFFICES ASSUME PyTypeInv, ResultLockHeld, [PyNext]_pyvars
             PROVE  PyResultRing!Next \/ UNCHANGED PyResultRing!vars
  BY DEF LockInv
<1> DEFINE Goal == PyResultRing!Next \/ UNCHANGED PyResultRing!vars
<1> USE DEF readRing, resultRing
<1>0. /\ PyResultRing!Workers = Workers
      /\ pc \in [Workers -> PyPlaces] /\ tokenresult \in [Workers -> Tokens]
  BY DEF PyResultRing!Workers, Workers, PyTypeInv, PyTypeOK, PyPlaces, Tokens
<1>1. ASSUME NEW w \in Workers, NEW p \in PyPlaces, Goto(w, p),
             pc[w] \in Writing <=> p \in Writing, UNCHANGED resultRing
      PROVE  Goal
  <2>1. Writers' = Writers
    BY <1>0, <1>1, PyWritersMove
  <2> QED
    BY <1>1, <2>1 DEF PyResultRing!vars
<1>2. ASSUME NEW w \in Workers, PyRead(w) PROVE Goal
  <2>1. \/ UNCHANGED pc
        \/ \E p \in PyPlaces : Goto(w, p) /\ (pc[w] \in Writing <=> p \in Writing)
    BY <1>2 DEF PyRead, Same, PyPoll, PyEnd, PyCheckToken, PyGetHp, PyGetLp, PyGetLpTimeout,
       Poll, CheckToken, GetLp, Took, LockReading, PyPassReading, PassOn, PyPlaces, Places,
       Reading, Writing
  <2>2. UNCHANGED resultRing
    BY <1>2 DEF PyRead, Same, PyPoll, PyEnd, PyCheckToken, PyGetHp, PyGetLp, PyGetLpTimeout,
       Poll, CheckToken, GetLp, LockReading, PyPassReading
  <2>3. CASE UNCHANGED pc
    BY <2>2, <2>3 DEF PyResultRing!vars, Writers
  <2> QED
    BY <1>1, <2>1, <2>2, <2>3
<1>3. ASSUME NEW w \in Workers, PyProcess(w) \/ PyPushResult(w) PROVE Goal
  <2>1. \E p \in PyPlaces : Goto(w, p) /\ (pc[w] \in Writing <=> p \in Writing)
    BY <1>3 DEF PyProcess, Process, PyPushResult, Release, PyPlaces, Places, Writing
  <2>2. UNCHANGED resultRing
    BY <1>3 DEF PyProcess, Process, PyPushResult
  <2> QED
    BY <1>1, <2>1, <2>2
<1>4. ASSUME NEW w \in Workers, PyCheckResult(w) PROVE Goal
  <2>1. CASE tokenresult[w] = 0
    <3>1. "push" \in PyPlaces /\ "push" \in Writing /\ Goto(w, "push")
      BY <1>4, <2>1 DEF PyCheckResult, PyPlaces, Places, Writing
    <3>2. Writers' = Writers \cup {w}
      BY <1>0, <3>1, PyWritersMove
    <3>3. w \notin Writers /\ resultLock.holder # w /\ Unwrapped(tokenresult)[w] = 0
      BY <1>0, <1>4, <2>1, UnwrappedTokens DEF PyCheckResult, Writers, Writing, ResultLockHeld
    <3>4. PyResultRing!Enter(w)
      BY <1>4, <3>2, <3>3 DEF PyCheckResult, PyResultRing!Enter
    <3> QED
      BY <1>0, <3>4 DEF PyResultRing!Next
  <2>2. CASE tokenresult[w] # 0
    <3>1. "poll" \in PyPlaces /\ Goto(w, "poll") /\ UNCHANGED resultRing
          /\ (pc[w] \in Writing <=> "poll" \in Writing)
      BY <1>4, <2>2 DEF PyCheckResult, Release, PyPlaces, Places, Writing
    <3> QED
      BY <1>1, <3>1
  <2> QED
    BY <2>1, <2>2
<1>5. ASSUME NEW w \in Workers, Same(LockResult(w)) PROVE Goal
  <2>1. /\ "resultPassing" \in PyPlaces /\ "resultPassing" \notin Writing
        /\ Goto(w, "resultPassing") /\ w \in Writers
    BY <1>5 DEF Same, LockResult, PyPlaces, Places, Writing, Writers
  <2>2. PyResultRing!Lock(w)
    BY <1>0, <1>5, <2>1, PyWritersMove DEF Same, LockResult, Unlocked, PyResultRing!Lock
  <2> QED
    BY <1>0, <2>2 DEF PyResultRing!Next
<1>6. ASSUME NEW w \in Workers, PyPassResult(w) PROVE Goal
  BY <1>0, <1>6, PyPassResultPasses DEF PyResultRing!Next
<1>7. ASSUME Same(Environment) \/ PyCleanResultLp \/ PyStop \/ UNCHANGED pyvars PROVE Goal
  <2>1. UNCHANGED <<pc, resultRing>>
    BY <1>7 DEF Same, Environment, PushLp, PushHp, BeginSetProcessdata, SetProcessdata,
       Clean, PyCleanResultLp, PyStop, pyvars, vars
  <2> QED
    BY <2>1 DEF PyResultRing!vars, Writers
<1> QED
  BY <1>2, <1>3, <1>4, <1>5, <1>6, <1>7 DEF PyNext, PyRun, PyProcessData

(* The writers of both result queues implement the ring.                   *)
THEOREM PyWritersImplementRing == PySafeSpec => PyWritersTakeTurns
  BY PyRingsAtStart, PyWritersStep, PyTypeCorrect, PyLocksHeld, PTL
     DEF PySafeSpec, PyWritersTakeTurns, PyResultRing!Spec

-----------------------------------------------------------------------------
(* The theorems of the ring, about the readers.                            *)
PyReadProofs == INSTANCE TokenRingProofs
    WITH token <- Unwrapped(tokenreading), holder <- readLock.holder, next <- readLock.next,
         inside <- Readers

LEMMA PyReadRingInvariant == PySafeSpec => []PyReadProofs!Inv
<1>1. PyReadRing!Init => PyReadProofs!Init
  BY DEF PyReadRing!Init, PyReadProofs!Init, PyReadRing!Workers, PyReadProofs!Workers
<1>2. [PyReadRing!Next]_(PyReadRing!vars) => [PyReadProofs!Next]_(PyReadProofs!vars)
  BY DEF PyReadRing!Next, PyReadRing!vars, PyReadRing!Enter, PyReadRing!Leave,
     PyReadRing!Lock, PyReadRing!Pass, PyReadRing!Workers, PyReadRing!Decrement,
     PyReadProofs!Next, PyReadProofs!vars, PyReadProofs!Enter, PyReadProofs!Leave,
     PyReadProofs!Lock, PyReadProofs!Pass, PyReadProofs!Workers, PyReadProofs!Decrement
<1>3. PyReadProofs!Spec => []PyReadProofs!Inv
  BY WorkersAssumption, PyReadProofs!Invariance
     DEF Workers, PyReadProofs!RingAssumption, PyReadProofs!Workers
<1> QED
  BY <1>1, <1>2, <1>3, PyReadersImplementRing, PTL
     DEF PyReadersTakeTurns, PyReadRing!Spec, PyReadProofs!Spec

(* What every theorem below assumes of a state.                            *)
PyBase == PyTypeInv /\ LockInv /\ PyReadProofs!Inv

LEMMA PyBaseHolds == PySafeSpec => []PyBase
  BY PyTypeCorrect, PyLocksHeld, PyReadRingInvariant, PTL DEF PyBase

PyTurn(w) == PyReadProofs!Settled(w)

LEMMA PyRingBase ==
  ASSUME PyBase
  PROVE  /\ PyReadProofs!RingAssumption /\ PyReadProofs!TypeOK /\ PyReadProofs!Workers = Workers
         /\ \A w \in Readers : PyTurn(w) = 0
         /\ \A u, w \in Workers : PyTurn(u) = 0 /\ PyTurn(w) = 0 => u = w
         /\ \A w \in Workers : PyTurn(Successor(w)) = PyReadProofs!Increment(PyTurn(w))
<1>1. /\ PyReadProofs!RingAssumption /\ PyReadProofs!TypeOK /\ PyReadProofs!Workers = Workers
      /\ \A w \in Readers : PyTurn(w) = 0
      /\ \A u, w \in Workers : PyTurn(u) = 0 /\ PyTurn(w) = 0 => u = w
  BY WorkersAssumption DEF PyBase, PyTurn, Workers, PyReadProofs!RingAssumption,
     PyReadProofs!Inv, PyReadProofs!TypeOK, PyReadProofs!TurnHeld, PyReadProofs!Distinct,
     PyReadProofs!Workers
<1>2. \A w \in Workers : Successor(w) = PyReadProofs!Successor(w)
  BY DEF Successor, ReadRing!Successor, PyReadProofs!Successor
<1> QED
  BY <1>1, <1>2 DEF PyBase, PyTurn, PyReadProofs!Inv, PyReadProofs!Rotation

(* Locking makes the turns of all one less; after the reader that locks    *)
(* comes its successor.                                                    *)
LEMMA PyLockHandsOver ==
  ASSUME PyBase, NEW w \in Workers, LockReading(w)
  PROVE  PyTurn(Successor(w))' = 0
<1>1. /\ tokenreading' = tokenreading /\ readLock.holder = Free
      /\ readLock'.holder = w /\ readLock'.next = 0 /\ w \in Readers
  BY DEF LockReading, Unlocked, Readers, Reading
<1>2. PyReadProofs!Settled(Successor(w)) = PyReadProofs!Increment(0)
  BY <1>1, PyRingBase DEF PyTurn
<1>3. Unwrapped(tokenreading)[Successor(w)] = PyReadProofs!Increment(0)
  BY <1>1, <1>2 DEF PyReadProofs!Settled
<1>4. PyReadProofs!Decrement(PyReadProofs!Increment(0)) = 0
  BY WorkersAssumption DEF PyReadProofs!Decrement, PyReadProofs!Increment
<1>5. w # Free /\ 0 <= Successor(w)
  BY SuccessorFacts, WorkersAssumption DEF Workers
<1> QED
  BY <1>1, <1>3, <1>4, <1>5 DEF PyTurn, PyReadProofs!Settled

(* The loop itself changes nobody's turn.                                  *)
LEMMA PyPassKeepsTurns ==
  ASSUME PyBase, NEW w \in Workers, PyPassReading(w)
  PROVE  \A u \in Workers : PyTurn(u)' = PyTurn(u)
<1>1. PyReadProofs!Pass(w) \/ UNCHANGED PyReadProofs!vars
  BY PyPassReadingPasses DEF PyBase, LockInv, PyReadRing!Pass, PyReadProofs!Pass,
     PyReadRing!Decrement, PyReadProofs!Decrement, PyReadRing!vars, PyReadProofs!vars
<1>2. CASE PyReadProofs!Pass(w)
  BY <1>2, PyRingBase, PyReadProofs!PassKeepsSettled DEF PyTurn
<1>3. CASE UNCHANGED PyReadProofs!vars
  BY <1>3 DEF PyTurn, PyReadProofs!Settled, PyReadProofs!vars
<1> QED
  BY <1>1, <1>2, <1>3

(* Worker w takes an item from one of the data queues.                     *)
Takes(w) == (PyGetHp(w) /\ hp # <<>>) \/ PyGetLp(w)

LEMMA TakesFacts ==
  ASSUME PyBase, NEW w \in Workers, Takes(w)
  PROVE  /\ w \in Readers /\ pc[w] # "turn" /\ Goto(w, "turn")
         /\ UNCHANGED <<rhp, rlp, pushed>>
         /\ \/ /\ hp # <<>> /\ hp' = Tail(hp) /\ lp' = lp
               /\ reads' = Append(reads, [by |-> w, item |-> Head(hp)])
            \/ /\ lp # <<>> /\ lp' = Tail(lp) /\ hp' = hp
               /\ reads' = Append(reads, [by |-> w, item |-> Head(lp)])
         /\ \E item \in Items, priority \in {0, 1} :
                /\ reads' = Append(reads, [by |-> w, item |-> item])
                /\ held' = [held EXCEPT ![w] = [item |-> item, priority |-> priority]]
                /\ \/ \E i \in 1..Len(hp) : hp[i] = item
                   \/ \E i \in 1..Len(lp) : lp[i] = item
<1>0. hp \in Seq(Items) /\ lp \in Seq(Items)
  BY DEF PyBase, PyTypeInv, PyTypeOK, QueuesOK
<1>1. CASE PyGetHp(w) /\ hp # <<>>
  <2>1. Head(hp) = hp[1] /\ 1 \in 1..Len(hp) /\ Head(hp) \in Items
    BY <1>0, <1>1
  <2>2. hp' = Tail(hp) /\ lp' = lp /\ Took(w, hp, 1) /\ UNCHANGED <<rhp, rlp, pushed>>
    BY <1>1 DEF PyGetHp
  <2>3. w \in Readers /\ pc[w] # "turn"
    BY <1>1 DEF PyGetHp, Readers, Reading
  <2> QED
    BY <1>1, <2>1, <2>2, <2>3 DEF Took
<1>2. CASE PyGetLp(w)
  <2>1. lp # <<>> /\ lp' = Tail(lp) /\ hp' = hp /\ Took(w, lp, 0) /\ UNCHANGED <<rhp, rlp, pushed>>
    BY <1>2 DEF PyGetLp, Same, GetLp
  <2>2. Head(lp) = lp[1] /\ 1 \in 1..Len(lp) /\ Head(lp) \in Items
    BY <1>0, <2>1
  <2>3. w \in Readers /\ pc[w] # "turn"
    BY <1>2 DEF PyGetLp, Same, GetLp, Readers, Reading
  <2> QED
    BY <2>1, <2>2, <2>3 DEF Took
<1> QED
  BY <1>1, <1>2 DEF Takes

(* Every other step leaves what was read, what is to be read and the turns *)
(* alone, but for a push.                                                  *)
PyOtherStep == /\ UNCHANGED <<tokenreading, readLock, reads>>
               /\ \A w \in Workers : pc'[w] = "turn" <=> pc[w] = "turn"

LEMMA PyStepKinds ==
  ASSUME PyBase, [PyNext]_pyvars
  PROVE  \/ \E w \in Workers : Takes(w) \/ Same(LockReading(w)) \/ PyPassReading(w)
         \/ PyOtherStep
<1> USE DEF readRing, history
<1>0. pc \in [Workers -> PyPlaces]
  BY DEF PyBase, PyTypeInv, PyTypeOK, PyPlaces
<1>1. ASSUME NEW w \in Workers, NEW p \in PyPlaces \ {"turn"}, pc[w] # "turn", Goto(w, p),
             UNCHANGED <<tokenreading, readLock, reads>>
      PROVE  PyOtherStep
  BY <1>0, <1>1, PyGotoFacts DEF PyOtherStep
<1>2. ASSUME NEW w \in Workers,
             \/ PyPoll(w) \/ PyEnd(w) \/ PyCheckToken(w) \/ PyGetLpTimeout(w)
             \/ PyGetHp(w) /\ hp = <<>>
      PROVE  PyOtherStep
  <2>1. PICK p \in {"token", "ended", "poll", "hpEmpty", "lpGet"} : Goto(w, p)
    BY <1>2 DEF PyPoll, PyEnd, PyCheckToken, PyGetLpTimeout, PyGetHp, Same, Poll, CheckToken
  <2>2. p \in PyPlaces \ {"turn"}
    BY DEF PyPlaces, Places, Reading
  <2>3. pc[w] # "turn" /\ UNCHANGED <<tokenreading, readLock, reads>>
    BY <1>2 DEF PyPoll, PyEnd, PyCheckToken, PyGetLpTimeout, PyGetHp, Same, Poll, CheckToken
  <2> QED
    BY <1>1, <2>1, <2>2, <2>3
<1>3. ASSUME NEW w \in Workers, PyProcessData(w) PROVE PyOtherStep
  <2>1. UNCHANGED pc \/ \E p \in PyPlaces \ {"turn"} : Goto(w, p)
    BY <1>3 DEF PyProcessData, Same, PyProcess, Process, PyCheckResult, PyPushResult,
       LockResult, PyPassResult, PassOn, Release, PyPlaces, Places, Writing
  <2>2. pc[w] # "turn" /\ UNCHANGED <<tokenreading, readLock, reads>>
    BY <1>3 DEF PyProcessData, Same, PyProcess, Process, PyCheckResult, PyPushResult,
       LockResult, PyPassResult
  <2> QED
    BY <1>1, <2>1, <2>2 DEF PyOtherStep
<1>4. ASSUME Same(Environment) \/ PyCleanResultLp \/ PyStop \/ UNCHANGED pyvars PROVE PyOtherStep
  BY <1>4 DEF Same, Environment, PushLp, PushHp, BeginSetProcessdata, SetProcessdata,
     Clean, PyCleanResultLp, PyStop, pyvars, vars, PyOtherStep
<1> QED
  BY <1>2, <1>3, <1>4 DEF PyNext, PyRun, PyRead, Takes

(* Whose turn it is, told from what was read.                              *)
PyDealtInv ==
    /\ RoundRobin
    /\ reads = <<>> => PyTurn(0) = 0 /\ \A w \in Workers : pc[w] # "turn"
    /\ reads # <<>> => \/ pc[LastReader] = "turn"
                       \/ PyTurn(Successor(LastReader)) = 0 /\ \A w \in Workers : pc[w] # "turn"

LEMMA PyDealing == PySafeSpec => []PyDealtInv
<1>1. PyInit => PyDealtInv
  <2> SUFFICES ASSUME PyInit PROVE PyDealtInv
    OBVIOUS
  <2>1. 0 \in Workers
    BY WorkersAssumption DEF Workers
  <2>2. Unwrapped(tokenreading)[0] = 0
    BY <2>1 DEF PyInit, Init, Unwrapped
  <2> QED
    BY <2>2 DEF PyInit, Init, PyDealtInv, RoundRobin, PyTurn, Unlocked, PyReadProofs!Settled
<1>2. PyBase /\ PyDealtInv /\ [PyNext]_pyvars => PyDealtInv'
  <2> SUFFICES ASSUME PyBase, PyDealtInv, [PyNext]_pyvars PROVE PyDealtInv'
    OBVIOUS
  <2>0. /\ reads \in Seq(ReadType)
        /\ pc \in [Workers -> PyPlaces]
        /\ reads # <<>> => LastReader \in Workers
    <3>1. pc \in [Workers -> PyPlaces] /\ reads \in Seq(ReadType)
      BY DEF PyBase, PyTypeInv, PyTypeOK, PyPlaces, QueuesOK, ReadType
    <3>2. ASSUME reads # <<>> PROVE LastReader \in Workers
      <4>1. reads[Len(reads)] \in ReadType
        BY <3>1, <3>2, LastOfSequence
      <4> QED
        BY <4>1 DEF LastReader, ReadType
    <3> QED
      BY <3>1, <3>2
  <2>1. ASSUME NEW w \in Workers, Takes(w) PROVE PyDealtInv'
    <3>1. PICK item \in Items : reads' = Append(reads, [by |-> w, item |-> item])
      BY <2>1, TakesFacts
    <3>2. w \in Readers /\ PyTurn(w) = 0 /\ pc[w] # "turn" /\ Goto(w, "turn")
      BY <2>1, TakesFacts, PyRingBase
    <3>3. \A v \in Workers : pc[v] # "turn"
      BY <3>2, PyRingBase DEF Readers, Reading
    <3>4. pc'[w] = "turn"
      BY <2>0, <3>2 DEF Goto
    <3>5. /\ Len(reads') = Len(reads) + 1 /\ reads' # <<>>
          /\ reads'[Len(reads) + 1].by = w
          /\ \A i \in 1..Len(reads) : reads'[i] = reads[i]
      BY <2>0, <3>1
    <3>6. CASE reads = <<>>
      <4>1. w = 0
        BY <3>2, <3>6, PyRingBase, SuccessorFacts DEF PyDealtInv
      <4> QED
        BY <3>4, <3>5, <3>6, <4>1 DEF PyDealtInv, RoundRobin, LastReader
    <3>7. CASE reads # <<>>
      <4>1. w = Successor(LastReader)
        BY <2>0, <3>2, <3>3, <3>7, PyRingBase, SuccessorFacts DEF PyDealtInv
      <4>2. RoundRobin'
        BY <2>0, <3>5, <3>7, <4>1 DEF PyDealtInv, RoundRobin, LastReader, Successor
      <4> QED
        BY <3>4, <3>5, <4>2 DEF PyDealtInv, LastReader
    <3> QED
      BY <3>6, <3>7
  <2>2. ASSUME NEW w \in Workers, LockReading(w) PROVE PyDealtInv'
    <3>1. reads' = reads /\ pc[w] = "turn" /\ w \in Readers
      BY <2>2 DEF LockReading, history, Readers, Reading
    <3>2. reads # <<>> /\ LastReader = w
      BY <2>0, <3>1, PyRingBase DEF PyDealtInv, Readers, Reading
    <3>3. \A v \in Workers : pc'[v] # "turn"
      <4>1. "passing" \in PyPlaces /\ Goto(w, "passing")
        BY <2>2 DEF LockReading, PyPlaces, Places
      <4>2. pc'[w] = "passing" /\ \A v \in Workers \ {w} : pc'[v] = pc[v]
        BY <2>0, <4>1, PyGotoFacts
      <4> QED
        BY <3>1, <4>2, PyRingBase DEF Readers, Reading
    <3>4. PyTurn(Successor(w))' = 0
      BY <2>2, PyLockHandsOver
    <3>5. RoundRobin' /\ LastReader' = LastReader
      BY <3>1 DEF PyDealtInv, RoundRobin, LastReader
    <3> QED
      BY <3>1, <3>2, <3>3, <3>4, <3>5 DEF PyDealtInv, Successor
  <2>3. ASSUME NEW w \in Workers, PyPassReading(w) PROVE PyDealtInv'
    <3>1. reads' = reads /\ \A u \in Workers : PyTurn(u)' = PyTurn(u)
      BY <2>3, PyPassKeepsTurns DEF PyPassReading, history
    <3>2. \A v \in Workers : pc'[v] = "turn" <=> pc[v] = "turn"
      BY <2>0, <2>3 DEF PyPassReading, PassOn, Goto
    <3>3. RoundRobin' /\ LastReader' = LastReader
      BY <3>1 DEF PyDealtInv, RoundRobin, LastReader
    <3> QED
      BY <2>0, <3>1, <3>2, <3>3, SuccessorFacts DEF PyDealtInv, Successor
  <2>4. ASSUME PyOtherStep PROVE PyDealtInv'
    BY <2>0, <2>4 DEF PyOtherStep, PyDealtInv, RoundRobin, LastReader, PyTurn,
       PyReadProofs!Settled, Unwrapped
  <2> QED
    BY <2>1, <2>2, <2>3, <2>4, PyStepKinds DEF Same
<1> QED
  BY <1>1, <1>2, PyBaseHolds, PTL DEF PySafeSpec

LEMMA PyCycle == PySafeSpec => []CycleInv
<1>1. PyInit => CycleInv
  BY DEF PyInit, Init, CycleInv
<1>2. PyBase /\ PyDealtInv' /\ CycleInv /\ [PyNext]_pyvars => CycleInv'
  <2> SUFFICES ASSUME PyBase, RoundRobin', CycleInv, [PyNext]_pyvars PROVE CycleInv'
    BY DEF PyDealtInv
  <2>1. ASSUME NEW w \in Workers, Takes(w) PROVE CycleInv'
    <3>1. reads \in Seq(ReadType)
      BY DEF PyBase, PyTypeInv, PyTypeOK, QueuesOK, ReadType
    <3> QED
      BY <2>1, <3>1, TakesFacts, ReadKeepsCycle
  <2>2. ASSUME reads' = reads PROVE CycleInv'
    BY <2>2 DEF CycleInv
  <2>3. ASSUME NEW w \in Workers, Same(LockReading(w)) \/ PyPassReading(w) PROVE CycleInv'
    BY <2>2, <2>3 DEF Same, LockReading, PyPassReading, history
  <2> QED
    BY <2>1, <2>2, <2>3, PyStepKinds DEF PyOtherStep
<1> QED
  BY <1>1, <1>2, PyBaseHolds, PyDealing, PTL DEF PySafeSpec

(* The data is dealt to the threads strictly in turn, from the first, also *)
(* when one of them dies: nobody takes a turn in its place.                *)
THEOREM PyDealtInTurn == PySafeSpec => []RoundRobin
<1>1. PyDealtInv => RoundRobin
  BY DEF PyDealtInv
<1> QED
  BY <1>1, PyDealing, PTL

-----------------------------------------------------------------------------
(* No item is in two places.                                               *)
LEMMA PyItemsAreUnique == PySafeSpec => []OnlyOnceInv
<1>1. PyInit => OnlyOnceInv
  BY DEF PyInit, Init, OnlyOnceInv, OnlyOnce
<1>2. PyBase /\ OnlyOnceInv /\ [PyNext]_pyvars => OnlyOnceInv'
  <2> SUFFICES ASSUME PyBase, OnlyOnceInv, [PyNext]_pyvars PROVE OnlyOnceInv'
    OBVIOUS
  <2> USE DEF queues, history
  <2>0. /\ lp \in Seq(Items) /\ hp \in Seq(Items) /\ reads \in Seq(ReadType)
        /\ pushed \in Nat
    BY ItemsAssumption DEF PyBase, PyTypeInv, PyTypeOK, QueuesOK, ReadType
  <2>1. OnlyOnce(hp, lp, reads, pushed)
    BY OnlyOnceSymmetric DEF OnlyOnceInv
  <2>2. ASSUME NEW w \in Workers, Takes(w) PROVE OnlyOnceInv'
    <3>1. CASE /\ lp # <<>> /\ lp' = Tail(lp) /\ hp' = hp
               /\ reads' = Append(reads, [by |-> w, item |-> Head(lp)])
      <4>1. OnlyOnce(lp', hp, reads', pushed)
        BY <2>0, <3>1, TakeKeepsOnlyOnce DEF OnlyOnceInv
      <4> QED
        BY <2>2, <3>1, <4>1, TakesFacts DEF OnlyOnceInv
    <3>2. CASE /\ hp # <<>> /\ hp' = Tail(hp) /\ lp' = lp
               /\ reads' = Append(reads, [by |-> w, item |-> Head(hp)])
      <4>1. OnlyOnce(hp', lp, reads', pushed)
        BY <2>0, <2>1, <3>2, TakeKeepsOnlyOnce
      <4> QED
        BY <2>2, <3>2, <4>1, TakesFacts, OnlyOnceSymmetric DEF OnlyOnceInv
    <3> QED
      BY <2>2, <3>1, <3>2, TakesFacts
  <2>3. ASSUME Same(PushLp) PROVE OnlyOnceInv'
    <3>1. lp' = Append(lp, pushed + 1) /\ hp' = hp /\ reads' = reads /\ pushed' = pushed + 1
      BY <2>3 DEF Same, PushLp
    <3> QED
      BY <2>0, <3>1, PushKeepsOnlyOnce DEF OnlyOnceInv
  <2>4. ASSUME Same(PushHp) PROVE OnlyOnceInv'
    <3>1. hp' = Append(hp, pushed + 1) /\ lp' = lp /\ reads' = reads /\ pushed' = pushed + 1
      BY <2>4 DEF Same, PushHp
    <3>2. OnlyOnce(hp', lp, reads, pushed + 1)
      BY <2>0, <2>1, <3>1, PushKeepsOnlyOnce
    <3> QED
      BY <3>1, <3>2, OnlyOnceSymmetric DEF OnlyOnceInv
  <2>5. ASSUME UNCHANGED <<lp, hp, reads, pushed>> PROVE OnlyOnceInv'
    BY <2>5 DEF OnlyOnceInv
  <2>6. ASSUME NEW w \in Workers, PyRun(w), ~Takes(w) PROVE UNCHANGED <<lp, hp, reads, pushed>>
    BY <2>6 DEF PyRun, PyRead, PyProcessData, Same, PyPoll, PyEnd, PyCheckToken, PyGetHp,
       PyGetLpTimeout, Poll, CheckToken, LockReading, PyPassReading, PyProcess, Process,
       PyCheckResult, PyPushResult, LockResult, PyPassResult, Takes
  <2>7. ASSUME \/ \E value \in {0, 1} : Same(BeginSetProcessdata(value))
               \/ Same(SetProcessdata) \/ PyCleanResultLp \/ PyStop \/ UNCHANGED pyvars
        PROVE  UNCHANGED <<lp, hp, reads, pushed>>
    BY <2>7 DEF Same, BeginSetProcessdata, SetProcessdata, PyCleanResultLp, PyStop, pyvars, vars
  <2>8. ASSUME Same(Clean) PROVE OnlyOnceInv'
    BY <2>8, CleanKeepsOnlyOnce DEF Same, PyBase, PyTypeInv, PyTypeOK
  <2> QED
    BY <2>2, <2>3, <2>4, <2>5, <2>6, <2>7, <2>8 DEF PyNext, Environment, Same
<1> QED
  BY <1>1, <1>2, PyBaseHolds, PTL DEF PySafeSpec

(* The data in the hands of a worker is what it read last, and a dead      *)
(* worker has read.                                                        *)
LastRead(w, i) == /\ reads[i].by = w
                  /\ \A k \in 1..Len(reads) : reads[k].by = w => k <= i
DeadInv == \A w \in Workers : pc[w] = "dead" => \E i \in 1..Len(reads) : LastRead(w, i)
PyHeldInv == HeldInv /\ DeadInv

LEMMA PyHeldWasRead == PySafeSpec => []PyHeldInv
<1>1. PyInit => PyHeldInv
  BY DEF PyInit, Init, PyHeldInv, HeldInv, DeadInv, Holding
<1>2. PyBase /\ PyHeldInv /\ [PyNext]_pyvars => PyHeldInv'
  <2> SUFFICES ASSUME PyBase, HeldInv, DeadInv, [PyNext]_pyvars PROVE PyHeldInv'
    BY DEF PyHeldInv
  <2>0. /\ reads \in Seq(ReadType) /\ pc \in [Workers -> PyPlaces]
        /\ held \in [Workers -> DataType \cup {Free}]
    BY DEF PyBase, PyTypeInv, PyTypeOK, PyPlaces, QueuesOK, ReadType
  <2>1. ASSUME reads' = reads,
               \A v \in Workers :
                   /\ pc'[v] \in Holding => pc[v] \in Holding /\ held'[v] = held[v]
                   /\ pc'[v] = "dead" => pc[v] \in Holding \cup {"dead"}
        PROVE  PyHeldInv'
    <3>1. HeldInv'
      BY <2>1 DEF HeldInv, HeldAt
    <3>2. \A v \in Workers : pc[v] \in Holding => \E i \in 1..Len(reads) : LastRead(v, i)
      BY DEF HeldInv, HeldAt, LastRead
    <3>3. DeadInv'
      BY <2>1, <3>2 DEF DeadInv, LastRead
    <3> QED
      BY <3>1, <3>3 DEF PyHeldInv
  <2>2. ASSUME NEW w \in Workers, NEW p \in PyPlaces, Goto(w, p), reads' = reads,
               p \in Holding => pc[w] \in Holding /\ held' = held,
               p = "dead" => pc[w] \in Holding \cup {"dead"},
               \A v \in Workers \ {w} : held'[v] = held[v]
        PROVE  PyHeldInv'
    <3>1. pc'[w] = p /\ \A v \in Workers \ {w} : pc'[v] = pc[v]
      BY <2>0, <2>2, PyGotoFacts
    <3> QED
      BY <2>1, <2>2, <3>1
  <2>3. ASSUME NEW w \in Workers, Takes(w) PROVE PyHeldInv'
    <3>1. PICK item \in Items, priority \in {0, 1} :
              /\ reads' = Append(reads, [by |-> w, item |-> item])
              /\ held' = [held EXCEPT ![w] = [item |-> item, priority |-> priority]]
      BY <2>3, TakesFacts
    <3>2. "turn" \in PyPlaces /\ Goto(w, "turn")
      BY <2>3, TakesFacts DEF PyPlaces, Places, Reading
    <3>3. pc'[w] = "turn" /\ \A v \in Workers \ {w} : pc'[v] = pc[v]
      BY <2>0, <3>2, PyGotoFacts
    <3>4. HeldInv'
      BY <2>0, <3>1, <3>3, ReadKeepsHeld
    <3>5. /\ Len(reads') = Len(reads) + 1 /\ Len(reads) \in Nat
          /\ reads'[Len(reads) + 1].by = w
          /\ \A i \in 1..Len(reads) : i \in 1..Len(reads') /\ reads'[i] = reads[i]
          /\ \A i \in 1..Len(reads') : i \in 1..Len(reads) \/ i = Len(reads) + 1
      BY <2>0, <3>1
    <3>6. ASSUME NEW v \in Workers, pc'[v] = "dead"
          PROVE  \E i \in 1..Len(reads') : LastRead(v, i)'
      <4>1. v # w
        BY <3>3, <3>6
      <4>2. PICK i \in 1..Len(reads) : LastRead(v, i)
        BY <3>3, <3>6, <4>1 DEF DeadInv
      <4>3. \A k \in 1..Len(reads') : reads'[k].by = v => k <= i
        BY <3>5, <4>1, <4>2 DEF LastRead
      <4> QED
        BY <3>5, <4>2, <4>3 DEF LastRead
    <3>7. DeadInv'
      BY <3>6 DEF DeadInv
    <3> QED
      BY <3>4, <3>7 DEF PyHeldInv
  <2>4. ASSUME NEW w \in Workers, PyRead(w), ~Takes(w) PROVE PyHeldInv'
    <3>1. held' = held /\ reads' = reads
      BY <2>4 DEF PyRead, Same, PyPoll, PyEnd, PyCheckToken, PyGetHp, PyGetLpTimeout, Poll,
         CheckToken, LockReading, PyPassReading, Takes, history
    <3>2. \/ UNCHANGED pc
          \/ \E p \in PyPlaces : Goto(w, p) /\ (p \in Holding => pc[w] \in Holding) /\ p # "dead"
      BY <2>4 DEF PyRead, Same, PyPoll, PyEnd, PyCheckToken, PyGetHp, PyGetLpTimeout, Poll,
         CheckToken, LockReading, PyPassReading, PassOn, Takes, PyPlaces, Places, Reading, Holding
    <3>3. CASE UNCHANGED pc
      BY <2>1, <3>1, <3>3
    <3> QED
      BY <2>2, <3>1, <3>2, <3>3
  <2>5. ASSUME NEW w \in Workers, PyProcessData(w) PROVE PyHeldInv'
    <3>1. reads' = reads
      BY <2>5 DEF PyProcessData, Same, PyProcess, Process, PyCheckResult, PyPushResult,
         LockResult, PyPassResult, history
    <3>2. \/ held' = held /\ UNCHANGED pc
          \/ /\ held' = held
             /\ \E p \in PyPlaces : Goto(w, p) /\ (p \in Holding => pc[w] \in Holding) /\ p # "dead"
          \/ /\ held' = [held EXCEPT ![w] = Free]
             /\ \E p \in PyPlaces : /\ Goto(w, p) /\ p \notin Holding
                                    /\ p = "dead" => pc[w] \in Holding
      <4>1. CASE PyProcess(w)
        <5>1. pc[w] \in Holding /\ {"result", "poll", "dead"} \subseteq PyPlaces
              /\ "poll" \notin Holding /\ "dead" \notin Holding
          BY <4>1 DEF PyProcess, Process, Holding, PyPlaces, Places
        <5> QED
          BY <4>1, <5>1 DEF PyProcess, Process, Release
      <4>2. CASE PyCheckResult(w) \/ PyPushResult(w) \/ Same(LockResult(w))
        BY <4>2 DEF PyCheckResult, PyPushResult, Same, LockResult, Release, PyPlaces, Places,
           Writing, Holding
      <4>3. CASE PyPassResult(w)
        BY <4>3 DEF PyPassResult, PassOn, PyPlaces, Places, Holding
      <4> QED
        BY <2>5, <4>1, <4>2, <4>3 DEF PyProcessData
    <3>3. held' = [held EXCEPT ![w] = Free] => \A v \in Workers \ {w} : held'[v] = held[v]
      BY <2>0
    <3> QED
      BY <2>1, <2>2, <3>1, <3>2, <3>3
  <2>6. ASSUME Same(Environment) \/ PyCleanResultLp \/ PyStop \/ UNCHANGED pyvars PROVE PyHeldInv'
    <3>1. UNCHANGED <<reads, pc, held>>
      BY <2>6 DEF Same, Environment, PushLp, PushHp, BeginSetProcessdata, SetProcessdata,
         Clean, PyCleanResultLp, PyStop, pyvars, vars, history
    <3> QED
      BY <2>1, <3>1
  <2> QED
    BY <2>3, <2>4, <2>5, <2>6 DEF PyNext, PyRun
<1> QED
  BY <1>1, <1>2, PyBaseHolds, PTL DEF PySafeSpec

(* A thread that dies leaves the others one read each, at most.            *)
THEOREM DeathBoundsReads == PySafeSpec => []DeathStopsWithinOneTurn
<1>1. PyBase /\ PyHeldInv /\ CycleInv => DeathStopsWithinOneTurn
  <2> SUFFICES ASSUME PyBase, DeadInv, CycleInv, NEW w \in Workers, pc[w] = "dead"
               PROVE  \E i \in 1..Len(reads) : reads[i].by = w /\ i > Len(reads) - NumWorkers
    BY DEF PyHeldInv, DeathStopsWithinOneTurn
  <2>1. PICK i \in 1..Len(reads) : LastRead(w, i)
    BY DEF DeadInv
  <2>2. QueuesOK /\ Len(reads) \in Nat
    BY DEF PyBase, PyTypeInv, PyTypeOK, QueuesOK
  <2>3. Len(reads) < i + NumWorkers
    BY <2>1, <2>2, LessThanATurn DEF LastRead
  <2>4. i > Len(reads) - NumWorkers
    BY <2>2, <2>3, WorkersAssumption
  <2> QED
    BY <2>1, <2>4 DEF LastRead
<1> QED
  BY <1>1, PyBaseHolds, PyHeldWasRead, PyCycle, PTL

-----------------------------------------------------------------------------
(* What is written to either result queue was read, less than a turn ago.  *)
PyOrderInv == /\ Written(reads, rhp) /\ Ordered(reads, rhp)
              /\ Written(reads, rlp) /\ Ordered(reads, rlp)

LEMMA PyWritesAreOrdered == PySafeSpec => []PyOrderInv
<1> DEFINE Hypotheses == PyBase /\ OnlyOnceInv /\ PyHeldInv /\ CycleInv
<1>1. PyInit => PyOrderInv
  BY DEF PyInit, Init, PyOrderInv, Written, Ordered
<1>2. Hypotheses /\ PyOrderInv /\ [PyNext]_pyvars => PyOrderInv'
  <2> SUFFICES ASSUME Hypotheses, PyOrderInv, [PyNext]_pyvars PROVE PyOrderInv'
    OBVIOUS
  <2>0. /\ reads \in Seq(ReadType) /\ QueuesOK /\ rhp \in Seq(Items) /\ rlp \in Seq(Items)
    BY DEF PyBase, PyTypeInv, PyTypeOK, QueuesOK, ReadType
  <2>1. ASSUME UNCHANGED <<reads, rhp, rlp>> PROVE PyOrderInv'
    BY <2>1 DEF PyOrderInv
  <2>2. ASSUME NEW w \in Workers, Takes(w) PROVE PyOrderInv'
    <3>1. PICK item \in Items : /\ reads' = Append(reads, [by |-> w, item |-> item])
                                /\ \/ \E i \in 1..Len(hp) : hp[i] = item
                                   \/ \E i \in 1..Len(lp) : lp[i] = item
      BY <2>2, TakesFacts
    <3>2. \A i \in 1..Len(reads) : reads[i].item # item
      BY <3>1 DEF OnlyOnceInv, OnlyOnce
    <3>3. rhp' = rhp /\ rlp' = rlp
      BY <2>2, TakesFacts
    <3> QED
      BY <2>0, <3>1, <3>2, <3>3, ReadKeepsOrder DEF PyOrderInv
  <2>3. ASSUME NEW w \in Workers, PyPushResult(w) PROVE PyOrderInv'
    <3>1. /\ reads' = reads /\ pc[w] \in Holding
          /\ \/ rhp' = Append(rhp, held[w].item) /\ rlp' = rlp
             \/ rlp' = Append(rlp, held[w].item) /\ rhp' = rhp
      BY <2>3 DEF PyPushResult, history, Holding
    <3>2. PICK b \in 1..Len(reads) : HeldAt(w, b)
      BY <3>1 DEF PyHeldInv, HeldInv
    <3>3. reads[b].item = held[w].item /\ Len(reads) < b + NumWorkers
      BY <2>0, <3>2, LessThanATurn DEF HeldAt
    <3>4. \A j \in 1..Len(reads) : reads[j].item = held[w].item => j = b
      BY <3>3 DEF OnlyOnceInv, OnlyOnce
    <3>5. CASE rhp' = Append(rhp, held[w].item) /\ rlp' = rlp
      BY <2>0, <3>1, <3>3, <3>4, <3>5, WriteKeepsOrder DEF PyOrderInv
    <3>6. CASE rlp' = Append(rlp, held[w].item) /\ rhp' = rhp
      BY <2>0, <3>1, <3>3, <3>4, <3>6, WriteKeepsOrder DEF PyOrderInv
    <3> QED
      BY <3>1, <3>5, <3>6
  <2>4. ASSUME NEW w \in Workers, PyRun(w), ~Takes(w), ~PyPushResult(w) PROVE PyOrderInv'
    <3>1. UNCHANGED <<reads, rhp, rlp>>
      BY <2>4 DEF PyRun, PyRead, PyProcessData, Same, PyPoll, PyEnd, PyCheckToken, PyGetHp,
         PyGetLpTimeout, Poll, CheckToken, LockReading, PyPassReading, PyProcess, Process,
         PyCheckResult, LockResult, PyPassResult, Takes, queues, history
    <3> QED
      BY <2>1, <3>1
  <2>5. ASSUME Same(Environment) \/ PyCleanResultLp \/ PyStop \/ UNCHANGED pyvars
        PROVE  PyOrderInv'
    <3>1. /\ reads' = reads
          /\ rhp' = rhp \/ (rhp # <<>> /\ rhp' = Tail(rhp))
          /\ rlp' = rlp \/ (rlp # <<>> /\ rlp' = Tail(rlp))
      BY <2>5 DEF Same, Environment, PushLp, PushHp, BeginSetProcessdata, SetProcessdata, Clean,
         PyCleanResultLp, PyStop, pyvars, vars, queues, history
    <3>2. Written(reads, rhp') /\ Ordered(reads, rhp')
      BY <2>0, <3>1, DropKeepsOrder DEF PyOrderInv
    <3>3. Written(reads, rlp') /\ Ordered(reads, rlp')
      BY <2>0, <3>1, DropKeepsOrder DEF PyOrderInv
    <3> QED
      BY <3>1, <3>2, <3>3 DEF PyOrderInv
  <2> QED
    BY <2>2, <2>3, <2>4, <2>5 DEF PyNext
<1> QED
  BY <1>1, <1>2, PyBaseHolds, PyItemsAreUnique, PyHeldWasRead, PyCycle, PTL DEF PySafeSpec

(* Results of either priority may be written out of order, but by less     *)
(* than a turn.                                                            *)
THEOREM PyDisorderIsBounded == PySafeSpec => []PyDisorderBelowOneTurn
<1>1. PyOrderInv => PyDisorderBelowOneTurn
  BY OrderBoundsDisorder DEF PyOrderInv, PyDisorderBelowOneTurn, WithinOneTurn
<1> QED
  BY <1>1, PyWritesAreOrdered, PTL
=============================================================================
