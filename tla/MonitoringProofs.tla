--------------------------- MODULE MonitoringProofs ---------------------------
(***************************************************************************)
(* Theorems about Monitoring, for any number of workers and any bounds:    *)
(* the totals are exact but for overlaps, a terminated worker shows 16 for *)
(* good, a stopped manager is quiet, and everything keeps its type.        *)
(***************************************************************************)
EXTENDS Monitoring, TLAPS

(* The types that the arithmetic and the updates of the counters need.     *)
CountersOK ==
    /\ count \in [Workers -> Nat] /\ total \in [Workers -> Nat]
    /\ register \in [Workers -> Nat]
    /\ events \in [Workers -> Nat] /\ torn \in [Workers -> BOOLEAN]
PlacesOK ==
    /\ place \in [Workers -> {"start", "test", "look", "count", "counted", "process", "ended"}]
    /\ timer \in [Workers -> {"none", "test", "add", "reset", "ended"}]

(* What worker w has counted is exact: the totals, and the value that      *)
(* processed_data_count++ has read is still the count when it writes.      *)
Exact(w) ==
    torn[w] \/ /\ total[w] + Uncounted(w) = events[w]
               /\ place[w] = "counted" => register[w] = count[w]
NotStarted(w) == place[w] = "start" => timer[w] = "none"
CountInv == /\ CountersOK /\ PlacesOK
            /\ \A w \in Workers : Exact(w) /\ NotStarted(w)

(* A step that leaves the counters of a worker alone leaves them exact.    *)
LEMMA ExactStays ==
  ASSUME NEW v \in Workers, Exact(v),
         torn'[v] = torn[v], total'[v] = total[v], events'[v] = events[v],
         count'[v] = count[v], register'[v] = register[v],
         place'[v] = "counted" => place[v] = "counted",
         (timer'[v] = "reset") <=> (timer[v] = "reset")
  PROVE  Exact(v)'
  BY DEF Exact, Uncounted

THEOREM CountInvariance == SafeSpec => []CountInv
<1>1. Init => CountInv
  BY DEF Init, CountInv, CountersOK, PlacesOK, Exact, NotStarted, Uncounted
<1>2. CountInv /\ [Next]_vars => CountInv'
  <2> SUFFICES ASSUME CountInv, [Next]_vars PROVE CountInv'
    OBVIOUS
  <2> USE DEF counting, workers
  <2>1. ASSUME NEW w \in Workers, Worker(w) \/ Timer(w)
        PROVE  CountersOK' /\ PlacesOK' /\ \A v \in Workers : NotStarted(v)'
    <3>1. CASE Worker(w)
      <4>1. CountersOK'
        <5>1. ASSUME CountRead(w) PROVE CountersOK'
          BY <5>1 DEF CountInv, CountersOK, CountRead
        <5>2. ASSUME CountWrite(w) PROVE CountersOK'
          BY <5>2 DEF CountInv, CountersOK, CountWrite
        <5>3. CASE UNCHANGED counting
          BY <5>3 DEF CountInv, CountersOK
        <5>4. UNCHANGED counting \/ CountRead(w) \/ CountWrite(w)
          BY <3>1 DEF Worker, StartTimer, TestStop, FindNothing, FindData, Process
        <5> QED
          BY <5>1, <5>2, <5>3, <5>4
      <4>2. PlacesOK'
        BY <3>1 DEF CountInv, PlacesOK, Worker, StartTimer, TestStop,
           FindNothing, FindData, CountRead, CountWrite, Process, Goto
      <4>3. /\ place[w] = "start" \/ timer' = timer
            /\ timer' = [timer EXCEPT ![w] = timer'[w]]
            /\ place' = [place EXCEPT ![w] = place'[w]] /\ place'[w] # "start"
        BY <3>1 DEF CountInv, PlacesOK, Worker, StartTimer, TestStop,
           FindNothing, FindData, CountRead, CountWrite, Process, Goto
      <4>4. \A v \in Workers : NotStarted(v)'
        BY <4>3 DEF CountInv, PlacesOK, NotStarted
      <4> QED
        BY <4>1, <4>2, <4>4
    <3>2. CASE Timer(w)
      <4>1. UNCHANGED <<place, register, events>> /\ timer[w] # "none"
        BY <3>2 DEF Timer, TimerTest, TimerAdd, TimerReset
      <4>2. /\ timer' \in [Workers -> {"none", "test", "add", "reset", "ended"}]
            /\ \A v \in Workers : timer[v] = "none" => timer'[v] = "none"
        BY <3>2, <4>1 DEF CountInv, PlacesOK, Timer, TimerTest, TimerAdd, TimerReset, Tick
      <4>3. ASSUME TimerTest(w) PROVE CountersOK'
        BY <4>1, <4>3 DEF CountInv, CountersOK, TimerTest
      <4>4. ASSUME TimerAdd(w) PROVE CountersOK'
        BY <4>1, <4>4 DEF CountInv, CountersOK, TimerAdd
      <4>5. ASSUME TimerReset(w) PROVE CountersOK'
        BY <4>1, <4>5 DEF CountInv, CountersOK, TimerReset
      <4>6. CountersOK'
        BY <3>2, <4>3, <4>4, <4>5 DEF Timer, CountInv
      <4>7. PlacesOK'
        BY <4>1, <4>2 DEF CountInv, PlacesOK
      <4>8. \A v \in Workers : NotStarted(v)'
        BY <4>1, <4>2 DEF CountInv, NotStarted
      <4> QED
        BY <4>6, <4>7, <4>8
    <3> QED
      BY <2>1, <3>1, <3>2
  <2>2. ASSUME NEW w \in Workers, Worker(w) \/ Timer(w), NEW v \in Workers \ {w}
        PROVE  Exact(v)'
    <3>1. CASE Worker(w)
      BY <3>1, ExactStays DEF CountInv, CountersOK, PlacesOK, Worker, StartTimer, TestStop,
         FindNothing, FindData, CountRead, CountWrite, Process, Goto
    <3>2. CASE Timer(w)
      BY <3>2, ExactStays DEF CountInv, CountersOK, PlacesOK, Timer, TimerTest, TimerAdd,
         TimerReset, Tick
    <3> QED
      BY <2>2, <3>1, <3>2
  <2>3. ASSUME NEW w \in Workers, Worker(w) PROVE Exact(w)'
    <3>1. CASE StartTimer(w) \/ TestStop(w) \/ FindNothing(w) \/ FindData(w) \/ Process(w)
      BY <3>1, ExactStays DEF CountInv, PlacesOK, NotStarted, StartTimer, TestStop,
         FindNothing, FindData, Process, Goto
    <3>2. CASE CountRead(w)
      BY <3>2 DEF CountInv, CountersOK, PlacesOK, CountRead, Goto, Exact, Uncounted
    <3>3. CASE CountWrite(w)
      <4>1. /\ count'[w] = register[w] + 1 /\ events'[w] = events[w] + 1
            /\ total' = total /\ timer' = timer
            /\ torn'[w] = (torn[w] \/ timer[w] = "reset") /\ place'[w] = "process"
        BY <3>3 DEF CountInv, CountersOK, PlacesOK, CountWrite, Goto
      <4>2. place[w] = "counted"
        BY <3>3 DEF CountWrite
      <4>3. /\ count[w] \in Nat /\ total[w] \in Nat /\ register[w] \in Nat /\ events[w] \in Nat
            /\ Exact(w)
        BY DEF CountInv, CountersOK
      <4>4. CASE torn[w] \/ timer[w] = "reset"
        BY <4>1, <4>4 DEF Exact
      <4>5. CASE ~torn[w] /\ timer[w] # "reset"
        BY <4>1, <4>2, <4>3, <4>5 DEF Exact, Uncounted
      <4> QED
        BY <4>4, <4>5
    <3> QED
      BY <2>3, <3>1, <3>2, <3>3 DEF Worker
  <2>4. ASSUME NEW w \in Workers, Timer(w) PROVE Exact(w)'
    <3>1. CASE TimerTest(w)
      BY <3>1, ExactStays DEF CountInv, PlacesOK, TimerTest, Tick
    <3>2. CASE TimerAdd(w)
      BY <3>2 DEF CountInv, CountersOK, PlacesOK, TimerAdd, Tick, Exact, Uncounted
    <3>3. CASE TimerReset(w)
      <4>1. /\ count'[w] = 0 /\ total' = total /\ events' = events /\ register' = register
            /\ place' = place /\ timer[w] = "reset" /\ timer'[w] = "test"
            /\ torn'[w] = (torn[w] \/ place[w] = "counted")
        BY <3>3 DEF CountInv, CountersOK, PlacesOK, TimerReset, Tick
      <4>2. Exact(w) /\ total[w] \in Nat
        BY DEF CountInv, CountersOK
      <4>3. CASE torn[w] \/ place[w] = "counted"
        BY <4>1, <4>3 DEF Exact
      <4>4. CASE ~torn[w] /\ place[w] # "counted"
        BY <4>1, <4>2, <4>4 DEF Exact, Uncounted
      <4> QED
        BY <4>3, <4>4
    <3> QED
      BY <2>4, <3>1, <3>2, <3>3 DEF Timer
  <2>5. ASSUME UNCHANGED <<place, timer, counting>> PROVE CountInv'
    BY <2>5 DEF CountInv, CountersOK, PlacesOK, Exact, NotStarted, Uncounted
  <2>6. ASSUME Monitor \/ Main \/ SetFlag \/ Stop \/ Peer PROVE UNCHANGED <<place, timer, counting>>
    BY <2>6 DEF Monitor, MonitorTest, CopyStatus, CopyStopdata, CopyTotal, MonitorSend,
       Main, ChangeStatus, SendInfo, StopWorker, JoinWorker, JoinTimer, Terminated,
       StopMonitor, JoinMonitor, SetFlag, Stop, Peer
  <2>7. CASE UNCHANGED vars
    BY <2>5, <2>7 DEF vars
  <2>8. ASSUME NEW w \in Workers, Worker(w) \/ Timer(w) PROVE CountInv'
    <3>1. ASSUME NEW v \in Workers PROVE Exact(v)'
      BY <2>2, <2>3, <2>4, <2>8
    <3> QED
      BY <2>1, <2>8, <3>1 DEF CountInv
  <2> QED
    BY <2>5, <2>6, <2>7, <2>8 DEF Next
<1> QED
  BY <1>1, <1>2, PTL DEF SafeSpec

(* The counter that two threads write without a lock is exact but for the  *)
(* overlaps that the history torn records.                                 *)
THEOREM CountsAreExact == SafeSpec => []TotalsAreExact
<1>1. CountInv => TotalsAreExact
  BY DEF CountInv, Exact, TotalsAreExact
<1> QED
  BY <1>1, CountInvariance, PTL

-----------------------------------------------------------------------------
(* How far the stop has come: the workers before main.worker are stopped,  *)
(* the one it is at as far as main.at says, the rest not at all.           *)
MainOK == /\ main \in [at : {"command", "status", "info", "stopWorker", "joinWorker", "joinTimer",
                             "terminated", "stopMonitor", "joinMonitor", "stopped"},
                       worker : Workers]
          /\ status \in [Workers -> {0, 2, 4, 8, 16}]
          /\ stopEvent \in [Workers -> BOOLEAN]

StopInv ==
    /\ PlacesOK /\ MainOK
    /\ \A w \in Workers :
          /\ Joined(w) => place[w] = "ended" /\ timer[w] = "ended" /\ status[w] = 16
          /\ ~Joined(w) => status[w] # 16
          /\ (w = main.worker /\ main.at \in {"joinTimer", "terminated"}) => place[w] = "ended"
          /\ (w = main.worker /\ main.at = "terminated") => timer[w] = "ended"
    /\ main.at = "stopped" => monitor.at = "ended"

(* Nothing but its own thread moves a worker or a timer, and nothing moves *)
(* one that has ended.                                                     *)
THEOREM StopInvariance == SafeSpec => []StopInv
<1>1. Init => StopInv
  BY WorkersAssumption DEF Init, StopInv, PlacesOK, MainOK, Joined, Notified, Workers
<1>2. StopInv /\ [Next]_vars => StopInv'
  <2> SUFFICES ASSUME StopInv, [Next]_vars PROVE StopInv'
    OBVIOUS
  <2> USE DEF counting, workers, monitoring
  <2>1. ASSUME NEW w \in Workers, Worker(w) PROVE StopInv'
    <3>1. UNCHANGED <<stopEvent, main, monitor>>
      BY <2>1 DEF Worker, StartTimer, TestStop, FindNothing, FindData, CountRead, CountWrite, Process
    <3>2. PlacesOK' /\ MainOK'
      BY <2>1, <3>1 DEF StopInv, PlacesOK, MainOK, Worker, StartTimer, TestStop, FindNothing,
         FindData, CountRead, CountWrite, Process, Goto
    <3>3. place[w] # "ended" /\ ~Joined(w)
      BY <2>1 DEF StopInv, Worker, StartTimer, TestStop, FindNothing, FindData, CountRead,
         CountWrite, Process
    <3>4. /\ \A v \in Workers \ {w} : place'[v] = place[v] /\ timer'[v] = timer[v]
                                      /\ status'[v] = status[v]
          /\ timer'[w] = timer[w] \/ timer'[w] = "test"
          /\ status'[w] # 16
      BY <2>1, <3>3 DEF StopInv, PlacesOK, MainOK, Worker, StartTimer, TestStop, FindNothing,
         FindData, CountRead, CountWrite, Process, Goto
    <3> QED
      BY <3>1, <3>2, <3>3, <3>4 DEF StopInv, Joined, Notified
  <2>2. ASSUME NEW w \in Workers, Timer(w) PROVE StopInv'
    <3>1. UNCHANGED <<place, stopEvent, status, main, monitor>>
      BY <2>2 DEF Timer, TimerTest, TimerAdd, TimerReset
    <3>2. PlacesOK' /\ MainOK'
      BY <2>2, <3>1 DEF StopInv, PlacesOK, MainOK, Timer, TimerTest, TimerAdd, TimerReset, Tick
    <3>3. /\ timer[w] # "ended"
          /\ \A v \in Workers \ {w} : timer'[v] = timer[v]
      BY <2>2 DEF StopInv, PlacesOK, Timer, TimerTest, TimerAdd, TimerReset, Tick
    <3> QED
      BY <3>1, <3>2, <3>3 DEF StopInv, Joined, Notified
  <2>3. ASSUME Monitor PROVE StopInv'
    <3>1. UNCHANGED <<place, timer, stopEvent, status, main>> /\ monitor.at # "ended"
      BY <2>3 DEF Monitor, MonitorTest, CopyStatus, CopyStopdata, CopyTotal, MonitorSend
    <3> QED
      BY <3>1 DEF StopInv, PlacesOK, MainOK, Joined, Notified
  <2>4. ASSUME UNCHANGED <<place, timer, stopEvent, status, monitor>>,
               main' \in [at : {"command", "status", "info"}, worker : Workers]
                   \/ main' = [at |-> "stopWorker", worker |-> 0],
               main.at \in {"command", "status", "info"}
        PROVE  StopInv'
    BY <2>4, WorkersAssumption DEF StopInv, PlacesOK, MainOK, Joined, Notified, Workers
  <2>5. ASSUME ChangeStatus \/ SendInfo \/ SetFlag \/ Stop PROVE StopInv'
    <3>1. main.at \in {"command", "status", "info"}
      BY <2>5 DEF ChangeStatus, SendInfo, SetFlag, Stop
    <3>2. UNCHANGED <<place, timer, stopEvent, status, monitor>>
      BY <2>5 DEF ChangeStatus, SendInfo, SetFlag, Stop
    <3>3. main' \in [at : {"command", "status", "info"}, worker : Workers]
              \/ main' = [at |-> "stopWorker", worker |-> 0]
      BY <2>5 DEF ChangeStatus, SendInfo, SetFlag, Stop, MainAt, StopInv, MainOK
    <3> QED
      BY <2>4, <3>1, <3>2, <3>3
  <2>6. ASSUME StopWorker \/ JoinWorker \/ JoinTimer PROVE StopInv'
    <3>1. /\ UNCHANGED <<place, timer, status, monitor>>
          /\ main'.worker = main.worker
          /\ \A w \in Workers : Joined(w)' <=> Joined(w)
      BY <2>6 DEF StopWorker, JoinWorker, JoinTimer, MainAt, StopInv, MainOK, Joined, Notified
    <3>2. PlacesOK' /\ MainOK'
      BY <2>6, <3>1 DEF StopInv, PlacesOK, MainOK, StopWorker, JoinWorker, JoinTimer, MainAt
    <3>3. /\ main'.at \in {"joinTimer", "terminated"} => place[main.worker] = "ended"
          /\ main'.at = "terminated" => timer[main.worker] = "ended"
          /\ main'.at # "stopped"
      BY <2>6 DEF StopWorker, JoinWorker, JoinTimer, MainAt, StopInv, MainOK
    <3> QED
      BY <3>1, <3>2, <3>3 DEF StopInv
  <2>7. ASSUME Terminated PROVE StopInv'
    <3>1. PlacesOK' /\ MainOK'
      BY <2>7, WorkersAssumption DEF StopInv, PlacesOK, MainOK, Terminated, Workers
    <3>2. /\ UNCHANGED <<place, timer, monitor>>
          /\ status' = [status EXCEPT ![main.worker] = 16]
          /\ main'.at \in {"stopMonitor", "stopWorker"}
          /\ place[main.worker] = "ended" /\ timer[main.worker] = "ended"
      BY <2>7 DEF Terminated, StopInv, MainOK
    <3>3. \A w \in Workers : Joined(w)' <=> Joined(w) \/ w = main.worker
      BY <2>7, WorkersAssumption DEF Terminated, StopInv, MainOK, Joined, Notified, Workers
    <3> QED
      BY <3>1, <3>2, <3>3 DEF StopInv, MainOK
  <2>8. ASSUME StopMonitor \/ JoinMonitor PROVE StopInv'
    <3>1. UNCHANGED <<place, timer, stopEvent, status, monitor>> /\ main'.worker = main.worker
      BY <2>8 DEF StopMonitor, JoinMonitor, MainAt, StopInv, MainOK
    <3>2. /\ main.at \in {"stopMonitor", "joinMonitor"} /\ main'.at \in {"joinMonitor", "stopped"}
          /\ main'.at = "stopped" => monitor.at = "ended"
      BY <2>8 DEF StopMonitor, JoinMonitor, MainAt, StopInv, MainOK
    <3>3. PlacesOK' /\ MainOK'
      BY <2>8, <3>1 DEF StopInv, PlacesOK, MainOK, StopMonitor, JoinMonitor, MainAt
    <3> QED
      BY <3>1, <3>2, <3>3 DEF StopInv, Joined, Notified
  <2>9. ASSUME UNCHANGED <<place, timer, stopEvent, status, main, monitor>> PROVE StopInv'
    BY <2>9 DEF StopInv, PlacesOK, MainOK, Joined, Notified
  <2>10. CASE Peer \/ UNCHANGED vars
    BY <2>9, <2>10 DEF Peer, vars
  <2>11. CASE Main
    BY <2>5, <2>6, <2>7, <2>8, <2>11 DEF Main
  <2> QED
    BY <2>1, <2>2, <2>3, <2>5, <2>10, <2>11 DEF Next
<1> QED
  BY <1>1, <1>2, PTL DEF SafeSpec

(* The status 16 is written after the join of the worker and of its timer, *)
(* so nothing overwrites it.                                               *)
THEOREM TerminatedStays == SafeSpec => []TerminatedIsFinal
<1>1. StopInv => TerminatedIsFinal
  BY DEF StopInv, TerminatedIsFinal, Joined, Notified
<1> QED
  BY <1>1, StopInvariance, PTL

(* WorkerManager::stop leaves no thread of the manager behind.             *)
THEOREM StopIsQuiet == SafeSpec => []StoppedIsQuiet
<1>1. StopInv => StoppedIsQuiet
  BY DEF StopInv, StoppedIsQuiet, Joined, Notified
<1> QED
  BY <1>1, StopInvariance, PTL

-----------------------------------------------------------------------------
(* The types of what the two theorems above do not need.  A worker that is *)
(* about to count has found data that the bound still allowed.             *)
ReportsOK ==
    /\ manager \in [status : ManagerStatuses, stopdata : BOOLEAN, processdata : {0, 1}]
    /\ monitor \in [at : {"test", "status", "stopdata", "total", "send", "ended"},
                    worker : Workers]
    /\ monitorStop \in BOOLEAN
    /\ data \in DataType
    /\ outbox \in 0..HighWater
    /\ changes \in 0..MaxChanges
EventsOK ==
    /\ events \in [Workers -> 0..MaxEvents]
    /\ \A w \in Workers : place[w] \in {"count", "counted"} => events[w] < MaxEvents

LEMMA StatusOfType ==
  \A flag \in BOOLEAN, value \in {0, 1} : StatusOf(flag, value) \in ManagerStatuses
  BY DEF StatusOf, ManagerStatuses

LEMMA EventsBounded == SafeSpec => []EventsOK
<1>1. Init => EventsOK
  BY BoundsAssumption DEF Init, EventsOK
<1>2. PlacesOK /\ EventsOK /\ [Next]_vars => EventsOK'
  <2> SUFFICES ASSUME PlacesOK, EventsOK, [Next]_vars PROVE EventsOK'
    OBVIOUS
  <2> USE DEF counting, workers
  <2>1. ASSUME UNCHANGED <<place, events>> PROVE EventsOK'
    BY <2>1 DEF EventsOK
  <2>2. ASSUME NEW w \in Workers, UNCHANGED events, NEW p, Goto(w, p),
               p \in {"count", "counted"} => events[w] < MaxEvents
        PROVE  EventsOK'
    BY <2>2 DEF EventsOK, PlacesOK, Goto
  <2>3. ASSUME NEW w \in Workers, CountWrite(w) PROVE EventsOK'
    <3>1. events[w] \in 0..MaxEvents /\ events[w] < MaxEvents /\ MaxEvents \in Nat
      BY <2>3, BoundsAssumption DEF EventsOK, CountWrite
    <3>2. events[w] + 1 \in 0..MaxEvents
      BY <3>1
    <3> QED
      BY <2>3, <3>2 DEF EventsOK, PlacesOK, CountWrite, Goto
  <2>4. ASSUME NEW w \in Workers, Worker(w), ~CountWrite(w) PROVE EventsOK'
    <3>1. /\ UNCHANGED events
          /\ \E p : Goto(w, p) /\ (p \in {"count", "counted"} => events[w] < MaxEvents)
      BY <2>4 DEF Worker, StartTimer, TestStop, FindNothing, FindData, CountRead, Process, EventsOK
    <3> QED
      BY <2>2, <3>1
  <2>5. ASSUME NEW w \in Workers, Timer(w) PROVE UNCHANGED <<place, events>>
    BY <2>5 DEF Timer, TimerTest, TimerAdd, TimerReset
  <2>6. ASSUME Monitor \/ Main \/ SetFlag \/ Stop \/ Peer PROVE UNCHANGED <<place, events>>
    BY <2>6 DEF Monitor, MonitorTest, CopyStatus, CopyStopdata, CopyTotal, MonitorSend,
       Main, ChangeStatus, SendInfo, StopWorker, JoinWorker, JoinTimer, Terminated,
       StopMonitor, JoinMonitor, SetFlag, Stop, Peer
  <2>7. CASE UNCHANGED vars
    BY <2>1, <2>7 DEF vars
  <2> QED
    BY <2>1, <2>3, <2>4, <2>5, <2>6, <2>7 DEF Next
<1>3. CountInv => PlacesOK
  BY DEF CountInv
<1> QED
  BY <1>1, <1>2, <1>3, CountInvariance, PTL DEF SafeSpec

LEMMA ReportsTyped == SafeSpec => []ReportsOK
<1>1. Init => ReportsOK
  <2> SUFFICES ASSUME Init PROVE ReportsOK
    OBVIOUS
  <2>1. 0 \in Workers
    BY WorkersAssumption DEF Workers
  <2>2. NoData \in DataType
    BY DEF NoData, DataType, ManagerStatuses
  <2>3. 0 \in 0..HighWater /\ 0 \in 0..MaxChanges
    BY SocketAssumption, BoundsAssumption
  <2>4. "Initialised" \in ManagerStatuses
    BY DEF ManagerStatuses
  <2>5. monitor \in [at : {"test", "status", "stopdata", "total", "send", "ended"},
                    worker : Workers]
    BY <2>1 DEF Init
  <2>6. manager \in [status : ManagerStatuses, stopdata : BOOLEAN, processdata : {0, 1}]
    BY <2>4 DEF Init
  <2> QED
    BY <2>2, <2>3, <2>5, <2>6 DEF Init, ReportsOK
<1>2. CountersOK /\ ReportsOK /\ [Next]_vars => ReportsOK'
  <2> SUFFICES ASSUME CountersOK, ReportsOK, [Next]_vars PROVE ReportsOK'
    OBVIOUS
  <2> USE DEF monitoring
  <2>1. ASSUME UNCHANGED <<manager, monitoring, outbox, changes>> PROVE ReportsOK'
    BY <2>1 DEF ReportsOK
  <2>2. ASSUME NEW w \in Workers, Worker(w) \/ Timer(w)
        PROVE  UNCHANGED <<manager, monitoring, outbox, changes>>
    BY <2>2 DEF Worker, StartTimer, TestStop, FindNothing, FindData, CountRead, CountWrite,
       Process, Timer, TimerTest, TimerAdd, TimerReset
  <2>3. ASSUME Stop \/ StopWorker \/ JoinWorker \/ JoinTimer \/ Terminated
        PROVE  UNCHANGED <<manager, monitoring, outbox, changes>>
    BY <2>3 DEF Stop, StopWorker, JoinWorker, JoinTimer, Terminated
  <2>4. ASSUME MonitorTest PROVE ReportsOK'
    BY <2>4 DEF MonitorTest, MonitorAt, ReportsOK
  <2>5. ASSUME CopyStatus \/ CopyStopdata PROVE ReportsOK'
    <3>1. 0 \in Workers
      BY WorkersAssumption DEF Workers
    <3>2. data' \in DataType
      BY <2>5 DEF CopyStatus, CopyStopdata, ReportsOK, DataType
    <3>3. monitor' \in [at : {"test", "status", "stopdata", "total", "send", "ended"},
                       worker : Workers]
      BY <2>5, <3>1 DEF CopyStatus, CopyStopdata, MonitorAt, ReportsOK
    <3> QED
      BY <2>5, <3>2, <3>3 DEF CopyStatus, CopyStopdata, ReportsOK
  <2>6. ASSUME CopyTotal PROVE ReportsOK'
    <3>1. monitor.worker \in Workers /\ total[monitor.worker] \in Nat
      BY DEF ReportsOK, CountersOK
    <3>2. data' \in DataType
      BY <2>6, <3>1 DEF CopyTotal, ReportsOK, DataType
    <3>3. 0 \in Workers /\ (monitor.worker # NumWorkers - 1 => monitor.worker + 1 \in Workers)
      BY <3>1, WorkersAssumption DEF Workers
    <3>4. monitor' \in [at : {"test", "status", "stopdata", "total", "send", "ended"},
                       worker : Workers]
      BY <2>6, <3>3 DEF CopyTotal, ReportsOK
    <3> QED
      BY <2>6, <3>2, <3>4 DEF CopyTotal, ReportsOK
  <2>7. ASSUME Send PROVE outbox' \in 0..HighWater
    BY <2>7, SocketAssumption DEF Send, ReportsOK
  <2>8. ASSUME MonitorSend PROVE ReportsOK'
    BY <2>7, <2>8 DEF MonitorSend, MonitorAt, ReportsOK
  <2>9. ASSUME SendInfo PROVE ReportsOK'
    BY <2>7, <2>9 DEF SendInfo, ReportsOK
  <2>10. ASSUME Peer PROVE ReportsOK'
    <3>1. outbox' \in 0..HighWater
      BY <2>10, SocketAssumption DEF Peer, ReportsOK
    <3> QED
      BY <2>10, <3>1 DEF Peer, ReportsOK
  <2>11. ASSUME SetFlag PROVE ReportsOK'
    <3>1. changes' \in 0..MaxChanges
      BY <2>11, BoundsAssumption DEF SetFlag, ReportsOK
    <3> QED
      BY <2>11, <3>1 DEF SetFlag, ReportsOK
  <2>12. ASSUME ChangeStatus PROVE ReportsOK'
    <3>1. StatusOf(manager.stopdata, manager.processdata) \in ManagerStatuses
      BY StatusOfType DEF ReportsOK
    <3> QED
      BY <2>12, <3>1 DEF ChangeStatus, ReportsOK
  <2>13. ASSUME StopMonitor PROVE ReportsOK'
    BY <2>13 DEF StopMonitor, ReportsOK
  <2>14. ASSUME JoinMonitor PROVE ReportsOK'
    BY <2>14 DEF JoinMonitor, ReportsOK, ManagerStatuses
  <2>15. CASE UNCHANGED vars
    BY <2>1, <2>15 DEF vars
  <2> QED
    BY <2>1, <2>2, <2>3, <2>4, <2>5, <2>6, <2>8, <2>9, <2>10, <2>11, <2>12, <2>13, <2>14, <2>15
       DEF Next, Monitor, Main
<1>3. CountInv => CountersOK
  BY DEF CountInv
<1> QED
  BY <1>1, <1>2, <1>3, CountInvariance, PTL DEF SafeSpec

(* Every variable keeps its type: what the monitoring copies and sends, the*)
(* messages in the socket, the flags of the manager and the counters.      *)
THEOREM TypesHold == SafeSpec => []TypeOK
<1>1. CountInv /\ StopInv /\ EventsOK /\ ReportsOK => TypeOK
  BY DEF CountInv, CountersOK, PlacesOK, StopInv, MainOK, EventsOK, ReportsOK, TypeOK
<1> QED
  BY <1>1, CountInvariance, StopInvariance, EventsBounded, ReportsTyped, PTL
=============================================================================
