------------------------------ MODULE Monitoring ------------------------------
(***************************************************************************)
(* What one WorkerManager reports of itself and how its threads are        *)
(* stopped (c++/src/MonitoringThread.cpp, MonitorintPoint.cpp,             *)
(* WorkerManager.cpp, WorkerThread.cpp): the workers that count the data   *)
(* they process, a timer thread for each that adds the count up, the       *)
(* monitoring thread that copies everything and sends it, and the main     *)
(* thread, which sends on the same socket and stops the others.            *)
(*                                                                         *)
(* A step is one access to what another thread can see.  Whether a worker  *)
(* finds data is a free choice: WorkerThread and DataProcessor say when it *)
(* does.                                                                   *)
(***************************************************************************)
EXTENDS Integers, ManagerStatus

CONSTANTS
    NumWorkers,     \* num_workers, the size of worker_threads
    HighWater,      \* the high-water mark of the monitoring socket
    MaxEvents,      \* bound: the data each worker processes
    MaxChanges      \* bound: how often the flags are set

Workers == 0..(NumWorkers - 1)

ASSUME WorkersAssumption == NumWorkers \in Nat \ {0}
ASSUME SocketAssumption == HighWater \in Nat \ {0}
ASSUME BoundsAssumption == MaxEvents \in Nat /\ MaxChanges \in Nat

VARIABLES
    place,          \* place[w]: where worker w is in run() and process_data()
    timer,          \* timer[w]: where its timer is in workerop, "none" before start_timer
    stopEvent,      \* stopEvent[w]: _stop_event
    status,         \* status[w]
    count, total,   \* processed_data_count, total_processed_data_count
    register,       \* register[w]: the count that processed_data_count++ has read
    manager,        \* [status, stopdata, processdata]
    main,           \* [at, worker]: the main thread, and the worker it is stopping
    monitor,        \* [at, worker]: the monitoring thread, and the worker it is reading
    monitorStop,    \* stop_event of the MonitoringThread
    data,           \* the data of the MonitoringPoint, [status, stopdata, totals]
    outbox,         \* the messages in socket_monitoring
    changes,        \* how often the flags were set
    events,         \* history: events[w] is how many data worker w processed
    torn            \* history: torn[w] once a ++ overlapped the adding up

counting == <<count, total, register, events, torn>>
workers == <<place, timer, stopEvent, status, counting>>
monitoring == <<monitor, monitorStop, data>>
vars == <<workers, manager, main, monitoring, outbox, changes>>

NoData == [status |-> "Initialised", stopdata |-> TRUE,
           totals |-> [w \in Workers |-> 0]]

Init ==
    /\ place = [w \in Workers |-> "start"]
    /\ timer = [w \in Workers |-> "none"]
    /\ stopEvent = [w \in Workers |-> FALSE]
    /\ status = [w \in Workers |-> 0]
    /\ count = [w \in Workers |-> 0] /\ total = [w \in Workers |-> 0]
    /\ register = [w \in Workers |-> 0]
    /\ manager = [status |-> "Initialised", stopdata |-> TRUE, processdata |-> 0]
    /\ main = [at |-> "command", worker |-> 0]
    /\ monitor = [at |-> "test", worker |-> 0]
    /\ monitorStop = FALSE
    /\ data = NoData
    /\ outbox = 0
    /\ changes = 0
    /\ events = [w \in Workers |-> 0] /\ torn = [w \in Workers |-> FALSE]

(* WorkerManager::stop begins with notify_all: no queue delivers any more. *)
Notified == main.at \notin {"command", "status", "info"}

-----------------------------------------------------------------------------
(* A worker.                                                               *)

Goto(w, p) == place' = [place EXCEPT ![w] = p]

(* run() starts the timer first.                                           *)
StartTimer(w) ==
    /\ place[w] = "start"
    /\ timer' = [timer EXCEPT ![w] = "test"]
    /\ Goto(w, "test")
    /\ UNCHANGED <<stopEvent, status, counting, manager, main, monitoring, outbox, changes>>

TestStop(w) ==
    /\ place[w] = "test"
    /\ Goto(w, IF stopEvent[w] THEN "ended" ELSE "look")
    /\ UNCHANGED <<timer, stopEvent, status, counting, manager, main, monitoring, outbox, changes>>

(* Nothing to read: the queues are empty, or it is another worker's turn,  *)
(* or processing is off.                                                   *)
FindNothing(w) ==
    /\ place[w] = "look"
    /\ \E shown \in {2, 4, status[w]} : status' = [status EXCEPT ![w] = shown]
    /\ Goto(w, "test")
    /\ UNCHANGED <<timer, stopEvent, counting, manager, main, monitoring, outbox, changes>>

(* process_data begins with data from a queue.                             *)
FindData(w) ==
    /\ place[w] = "look"
    /\ ~Notified
    /\ events[w] < MaxEvents
    /\ status' = [status EXCEPT ![w] = 8]
    /\ Goto(w, "count")
    /\ UNCHANGED <<timer, stopEvent, counting, manager, main, monitoring, outbox, changes>>

(* processed_data_count++ on a plain int: a read,                          *)
CountRead(w) ==
    /\ place[w] = "count"
    /\ register' = [register EXCEPT ![w] = count[w]]
    /\ Goto(w, "counted")
    /\ UNCHANGED <<timer, stopEvent, status, count, total, events, torn,
                   manager, main, monitoring, outbox, changes>>

(* and a write.                                                            *)
CountWrite(w) ==
    /\ place[w] = "counted"
    /\ count' = [count EXCEPT ![w] = register[w] + 1]
    /\ register' = [register EXCEPT ![w] = 0]
    /\ events' = [events EXCEPT ![w] = @ + 1]
    /\ torn' = [torn EXCEPT ![w] = @ \/ timer[w] = "reset"]
    /\ Goto(w, "process")
    /\ UNCHANGED <<timer, stopEvent, status, total, manager, main, monitoring, outbox, changes>>

(* processData and the result.                                             *)
Process(w) ==
    /\ place[w] = "process"
    /\ Goto(w, "test")
    /\ UNCHANGED <<timer, stopEvent, status, counting, manager, main, monitoring, outbox, changes>>

Worker(w) == \/ StartTimer(w) \/ TestStop(w) \/ FindNothing(w) \/ FindData(w)
             \/ CountRead(w) \/ CountWrite(w) \/ Process(w)

-----------------------------------------------------------------------------
(* Its timer, workerop.  The rate is a figure made of the same count.      *)

Tick(w, p) == timer' = [timer EXCEPT ![w] = p]

TimerTest(w) ==
    /\ timer[w] = "test"
    /\ Tick(w, IF stopEvent[w] THEN "ended" ELSE "add")
    /\ UNCHANGED <<place, stopEvent, status, counting, manager, main, monitoring, outbox, changes>>

(* Mutant of TimerAdd: = for +=.                                           *)
TimerAssign(w) ==
    /\ timer[w] = "add"
    /\ total' = [total EXCEPT ![w] = count[w]]
    /\ Tick(w, "reset")
    /\ UNCHANGED <<place, stopEvent, status, count, register, events, torn,
                   manager, main, monitoring, outbox, changes>>

TimerAdd(w) ==
    /\ timer[w] = "add"
    /\ total' = [total EXCEPT ![w] = @ + count[w]]
    /\ Tick(w, "reset")
    /\ UNCHANGED <<place, stopEvent, status, count, register, events, torn,
                   manager, main, monitoring, outbox, changes>>

(* Mutant of TimerReset: the count goes on.                                *)
TimerKeeps(w) ==
    /\ timer[w] = "reset"
    /\ Tick(w, "test")
    /\ UNCHANGED <<place, stopEvent, status, counting, manager, main, monitoring, outbox, changes>>

TimerReset(w) ==
    /\ timer[w] = "reset"
    /\ count' = [count EXCEPT ![w] = 0]
    /\ torn' = [torn EXCEPT ![w] = @ \/ place[w] = "counted"]
    /\ Tick(w, "test")
    /\ UNCHANGED <<place, stopEvent, status, total, register, events,
                   manager, main, monitoring, outbox, changes>>

Timer(w) == TimerTest(w) \/ TimerAdd(w) \/ TimerReset(w)

-----------------------------------------------------------------------------
(* The monitoring thread.  get_data copies one thing after the other.      *)

MonitorAt(p) == monitor' = [monitor EXCEPT !.at = p]

MonitorTest ==
    /\ monitor.at = "test"
    /\ MonitorAt(IF monitorStop THEN "ended" ELSE "status")
    /\ UNCHANGED <<workers, manager, main, monitorStop, data, outbox, changes>>

CopyStatus ==
    /\ monitor.at = "status"
    /\ data' = [data EXCEPT !.status = manager.status]
    /\ MonitorAt("stopdata")
    /\ UNCHANGED <<workers, manager, main, monitorStop, outbox, changes>>

CopyStopdata ==
    /\ monitor.at = "stopdata"
    /\ data' = [data EXCEPT !.stopdata = manager.stopdata]
    /\ monitor' = [at |-> "total", worker |-> 0]
    /\ UNCHANGED <<workers, manager, main, monitorStop, outbox, changes>>

(* The rate and the status of a worker are copied likewise.                *)
CopyTotal ==
    /\ monitor.at = "total"
    /\ data' = [data EXCEPT !.totals[monitor.worker] = total[monitor.worker]]
    /\ monitor' = IF monitor.worker = NumWorkers - 1 THEN [at |-> "send", worker |-> 0]
                  ELSE [monitor EXCEPT !.worker = @ + 1]
    /\ UNCHANGED <<workers, manager, main, monitorStop, outbox, changes>>

(* A push socket at its high-water mark blocks the sender.                 *)
Send ==
    /\ outbox < HighWater
    /\ outbox' = outbox + 1

MonitorSend ==
    /\ monitor.at = "send"
    /\ Send
    /\ MonitorAt("test")
    /\ UNCHANGED <<workers, manager, main, monitorStop, data, changes>>

Monitor == \/ MonitorTest \/ CopyStatus \/ CopyStopdata \/ CopyTotal \/ MonitorSend

-----------------------------------------------------------------------------
(* The main thread.                                                        *)

MainAt(p) == main' = [main EXCEPT !.at = p]

(* set_stopdata, set_processdata: a flag, then change_status and its info. *)
SetFlag ==
    /\ main.at = "command"
    /\ changes < MaxChanges
    /\ changes' = changes + 1
    /\ \/ \E flag \in BOOLEAN : manager' = [manager EXCEPT !.stopdata = flag]
       \/ \E value \in {0, 1} : manager' = [manager EXCEPT !.processdata = value]
    /\ MainAt("status")
    /\ UNCHANGED <<workers, monitoring, outbox>>

ChangeStatus ==
    /\ main.at = "status"
    /\ manager' = [manager EXCEPT !.status = StatusOf(manager.stopdata, manager.processdata)]
    /\ MainAt("info")
    /\ UNCHANGED <<workers, monitoring, outbox, changes>>

SendInfo ==
    /\ main.at = "info"
    /\ Send
    /\ MainAt("command")
    /\ UNCHANGED <<workers, manager, monitoring, changes>>

(* WorkerManager::stop.                                                    *)
Stop ==
    /\ main.at = "command"
    /\ main' = [at |-> "stopWorker", worker |-> 0]
    /\ UNCHANGED <<workers, manager, monitoring, outbox, changes>>

(* WorkerThread::stop: the worker is joined, then the timer it started,    *)
StopWorker ==
    /\ main.at = "stopWorker"
    /\ stopEvent' = [stopEvent EXCEPT ![main.worker] = TRUE]
    /\ MainAt("joinWorker")
    /\ UNCHANGED <<place, timer, status, counting, manager, monitoring, outbox, changes>>

(* Mutant of JoinWorker: it does not wait.                                 *)
JoinNobody ==
    /\ main.at = "joinWorker"
    /\ MainAt("joinTimer")
    /\ UNCHANGED <<workers, manager, monitoring, outbox, changes>>

JoinWorker ==
    /\ main.at = "joinWorker"
    /\ place[main.worker] = "ended"
    /\ MainAt("joinTimer")
    /\ UNCHANGED <<workers, manager, monitoring, outbox, changes>>

JoinTimer ==
    /\ main.at = "joinTimer"
    /\ timer[main.worker] = "ended"
    /\ MainAt("terminated")
    /\ UNCHANGED <<workers, manager, monitoring, outbox, changes>>

(* Mutant of Terminated: the loop goes one worker too far.                 *)
TerminatedPastLast ==
    /\ main.at = "terminated"
    /\ status' = [status EXCEPT ![main.worker] = 16]
    /\ main' = IF main.worker = NumWorkers THEN [at |-> "stopMonitor", worker |-> 0]
               ELSE [at |-> "stopWorker", worker |-> main.worker + 1]
    /\ UNCHANGED <<place, timer, stopEvent, counting, manager, monitoring, outbox, changes>>

(* and the status is the last thing written.                               *)
Terminated ==
    /\ main.at = "terminated"
    /\ status' = [status EXCEPT ![main.worker] = 16]
    /\ main' = IF main.worker = NumWorkers - 1 THEN [at |-> "stopMonitor", worker |-> 0]
               ELSE [at |-> "stopWorker", worker |-> main.worker + 1]
    /\ UNCHANGED <<place, timer, stopEvent, counting, manager, monitoring, outbox, changes>>

(* Mutant of StopMonitor: the monitoring thread is not told to stop.       *)
ForgetMonitor ==
    /\ main.at = "stopMonitor"
    /\ MainAt("joinMonitor")
    /\ UNCHANGED <<workers, manager, monitoring, outbox, changes>>

(* stop_internalthreads deletes the MonitoringThread: stop(), then join(). *)
StopMonitor ==
    /\ main.at = "stopMonitor"
    /\ monitorStop' = TRUE
    /\ MainAt("joinMonitor")
    /\ UNCHANGED <<workers, manager, monitor, data, outbox, changes>>

(* Mutant of JoinMonitor: detach instead of join.                          *)
DetachMonitor ==
    /\ main.at = "joinMonitor"
    /\ manager' = [manager EXCEPT !.status = "End"]
    /\ MainAt("stopped")
    /\ UNCHANGED <<workers, monitoring, outbox, changes>>

JoinMonitor ==
    /\ main.at = "joinMonitor"
    /\ monitor.at = "ended"
    /\ manager' = [manager EXCEPT !.status = "End"]
    /\ MainAt("stopped")
    /\ UNCHANGED <<workers, monitoring, outbox, changes>>

(* What the main thread does by itself once it has begun.                  *)
Main == \/ ChangeStatus \/ SendInfo
        \/ StopWorker \/ JoinWorker \/ JoinTimer \/ Terminated
        \/ StopMonitor \/ JoinMonitor

(* Whoever reads the monitoring socket takes a message, or does not.       *)
Peer ==
    /\ outbox > 0
    /\ outbox' = outbox - 1
    /\ UNCHANGED <<workers, manager, main, monitoring, changes>>

-----------------------------------------------------------------------------
Next == \/ \E w \in Workers : Worker(w) \/ Timer(w)
        \/ Monitor \/ Main \/ SetFlag \/ Stop \/ Peer

SafeSpec == Init /\ [][Next]_vars

(* Every thread runs and the sleeps of the timers end; nobody has to send  *)
(* data or a command, and nobody has to read the monitoring socket.        *)
Fairness == /\ \A w \in Workers : WF_vars(Worker(w)) /\ WF_vars(Timer(w))
            /\ WF_vars(Monitor)
            /\ WF_vars(Main)

Spec == SafeSpec /\ Fairness
-----------------------------------------------------------------------------
DataType == [status : ManagerStatuses, stopdata : BOOLEAN,
             totals : [Workers -> Nat]]

TypeOK ==
    /\ place \in [Workers -> {"start", "test", "look", "count", "counted", "process", "ended"}]
    /\ timer \in [Workers -> {"none", "test", "add", "reset", "ended"}]
    /\ stopEvent \in [Workers -> BOOLEAN]
    /\ status \in [Workers -> {0, 2, 4, 8, 16}]
    /\ count \in [Workers -> Nat] /\ total \in [Workers -> Nat]
    /\ register \in [Workers -> Nat]
    /\ manager \in [status : ManagerStatuses, stopdata : BOOLEAN, processdata : {0, 1}]
    /\ main \in [at : {"command", "status", "info", "stopWorker", "joinWorker", "joinTimer",
                       "terminated", "stopMonitor", "joinMonitor", "stopped"},
                 worker : Workers]
    /\ monitor \in [at : {"test", "status", "stopdata", "total", "send", "ended"},
                    worker : Workers]
    /\ monitorStop \in BOOLEAN
    /\ data \in DataType
    /\ outbox \in 0..HighWater
    /\ changes \in 0..MaxChanges
    /\ events \in [Workers -> 0..MaxEvents] /\ torn \in [Workers -> BOOLEAN]

(* Everything a worker processes is counted once, although its count is a  *)
(* plain int that two threads write: only an increment that overlaps the   *)
(* moment between adding the count to the total and resetting it can be    *)
(* lost or counted twice.                                                  *)
Uncounted(w) == IF timer[w] = "reset" THEN 0 ELSE count[w]
TotalsAreExact == \A w \in Workers : torn[w] \/ total[w] + Uncounted(w) = events[w]

(* When WorkerManager::stop is through, nothing of the manager runs any    *)
(* more: no worker, no timer, no monitoring thread that would read it.     *)
StoppedIsQuiet ==
    main.at = "stopped" =>
        /\ \A w \in Workers : place[w] = "ended" /\ timer[w] = "ended"
        /\ monitor.at = "ended"

(* A worker that was stopped shows 16 and shows it for good: neither its   *)
(* thread nor anybody else overwrites it.                                  *)
Joined(w) == Notified /\ (main.at \in {"stopMonitor", "joinMonitor", "stopped"} \/ w < main.worker)
TerminatedIsFinal == \A w \in Workers : (status[w] = 16) = Joined(w)

(* Whatever the workers and the monitoring thread are doing, the stop comes*)
(* to its end, provided the monitoring socket does not stay full.          *)
PeerReads == []<>(outbox < HighWater)
StopEnds == PeerReads => (Notified ~> main.at = "stopped")

(* When the workers run out of data and the flags stay, the reports come to*)
(* tell the true totals and the true state of the manager.                 *)
ReportIsTrue ==
    /\ \A w \in Workers : torn[w] \/ data.totals[w] = events[w]
    /\ data.status = manager.status /\ data.stopdata = manager.stopdata
ReportsCatchUp == PeerReads => <>(Notified \/ []ReportIsTrue)
=============================================================================
