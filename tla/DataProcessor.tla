---------------------------- MODULE DataProcessor ----------------------------
(***************************************************************************)
(* A whole data processor (c++/src/Supervisor.cpp, WorkerManager.cpp): the *)
(* main thread that runs the commands, the signal handlers and, in the     *)
(* end, the destructor; the two listeners, the result thread, and one      *)
(* manager with its workers, which are the threads of WorkerThread.        *)
(*                                                                         *)
(* The main thread is a list of steps still to do: a command puts its      *)
(* steps there, a signal handler puts its own in front of whatever the     *)
(* main thread was doing.  A step is one access to what other threads can  *)
(* see.  The state starts when Supervisor::start has started everything.   *)
(***************************************************************************)
EXTENDS Sequences, Integers, ManagerStatus

CONSTANTS
    NumWorkers, MaxItems, Free,     \* as in WorkerThread
    Commands,       \* the subtypes of the commands that arrive
    MaxCommands,    \* bound: how many commands arrive
    Signals,        \* the signals that arrive, each at most once
    Dataflow,       \* dataflow_type of the configuration
    MaxLines,       \* bound: the items in one file
    DataSocket      \* datasocket_type of the configuration

ASSUME SizesAssumption ==
    /\ NumWorkers \in Nat \ {0} /\ Free \notin 0..(NumWorkers - 1)
    /\ MaxItems \in Nat /\ MaxCommands \in Nat
ASSUME CommandsAssumption ==
    Commands \subseteq {"shutdown", "cleanedshutdown", "reset", "start", "stop",
                        "startprocessing", "stopprocessing", "startdata", "stopdata",
                        "getstatus"}
ASSUME SignalsAssumption == Signals \subseteq {"SIGTERM", "SIGINT"}
ASSUME DataAssumption ==
    /\ Dataflow \in {"binary", "string", "filename"}
    /\ MaxLines \in Nat
    /\ DataSocket \in {"pubsub", "pushpull"}

VARIABLES
    lp, hp, rhp, pushed, pc, held, processdata,     \* as in WorkerThread
    tokenreading, readLock, tokenresult, resultLock, reads, overtakes,
    supervisor,     \* [status, stopdata, continueall]
    manager,        \* [status, stopdata, processdata]
    todo,           \* the steps the main thread still has to do, in order
    listening,      \* listening[l]: where the listener of queue l is
    unpacking,      \* unpacking[l]: the items it still has to push, [message, left]
    sending,        \* where the result thread is
    stopped,        \* the queues that were notify_all'ed
    stopEvent,      \* the workers whose _stop_event is set
    running,        \* the workers whose run() has not returned
    crashed,        \* the process died: an exception left a thread, a null pointer
    arrived,        \* how many commands, which signals, one of them in a command
    late,           \* history: [by, message, item] pushed since stopdata closed the input
    after           \* history: reads made since every worker was told to stop

worker == <<lp, hp, rhp, pushed, pc, held, processdata,
            tokenreading, readLock, tokenresult, resultLock, reads, overtakes>>
service == <<listening, unpacking, sending>>
shutdown == <<stopped, stopEvent, running>>
vars == <<worker, supervisor, manager, todo, service, shutdown, crashed, arrived, late, after>>

(* The workers; set_processdata is a loop of the main thread here.         *)
W == INSTANCE WorkerThread WITH setting <- [value |-> 0, next |-> NumWorkers]
Workers == W!Workers
Listeners == {"lp", "hp"}
Queues == {"lp", "hp", "rlp", "rhp"}

(* The constructor leaves stopdata uninitialised (its assignment is a      *)
(* comment): either value.  start() ends with status Waiting.              *)
SupervisorInit ==
    \E uninitialised \in BOOLEAN :
        supervisor = [status |-> "Waiting", stopdata |-> uninitialised, continueall |-> TRUE]

ManagerInit ==
    /\ manager = [status |-> "Initialised", stopdata |-> TRUE, processdata |-> 0]
    /\ stopped = {}

Nothing == [message |-> 0, left |-> 0]

ServiceInit ==
    /\ listening = [l \in Listeners |-> "check"]
    /\ unpacking = [l \in Listeners |-> Nothing]
    /\ sending = "check"

Init ==
    /\ W!Init /\ SupervisorInit /\ ManagerInit /\ ServiceInit
    /\ todo = <<>>
    /\ stopEvent = {} /\ running = Workers
    /\ crashed = FALSE
    /\ arrived = [commands |-> 0, signals |-> {}, nested |-> FALSE]
    /\ late = {} /\ after = 0

-----------------------------------------------------------------------------
(* The commands as lists of steps.                                         *)

ForEachWorker(Step(_)) == [i \in 1..NumWorkers |-> Step(i - 1)]

SetStopdata(flag) == << <<"stopdata", flag>>, <<"managerStopdata", flag>> >>
SetProcessing(value) ==
    << <<"status", IF value = 1 THEN "Processing" ELSE "Waiting">>,
       <<"managerProcessdata", value>> >>
    \o ForEachWorker(LAMBDA w : <<"processdata", w, value>>)

CommandStart == SetProcessing(1) \o SetStopdata(FALSE)
CommandStop == SetStopdata(TRUE) \o SetProcessing(0)

(* WorkerManager::clean_queue; result_lp_queue is empty, nothing is pushed  *)
(* to it.                                                                  *)
CleanQueue == << <<"clean", "lp">>, <<"clean", "hp">>, <<"clean", "rhp">> >>

(* Mutant of CommandReset: the queues are cleaned while the workers and the *)
(* listeners go on.                                                        *)
ResetWithoutStop ==
    IF supervisor.status \in {"Processing", "Waiting"}
    THEN CleanQueue \o << <<"status", "Waiting">> >>
    ELSE <<>>

CommandReset ==
    IF supervisor.status \in {"Processing", "Waiting"}
    THEN CommandStop \o CleanQueue \o << <<"status", "Waiting">> >>
    ELSE <<>>

(* Mutant of ManagerStop: notify_all on the data queues alone, which is    *)
(* what WorkerThread::stop repeats.                                        *)
StopDataQueues ==
    << <<"notify", "lp">>, <<"notify", "hp">> >>
    \o ForEachWorker(LAMBDA w : <<"stopWorker", w>>)
    \o << <<"joinMonitoring">>, <<"managerEnd">> >>

(* WorkerManager::stop, with stop_internalthreads.                         *)
ManagerStop ==
    << <<"notify", "lp">>, <<"notify", "hp">>, <<"notify", "rlp">>, <<"notify", "rhp">> >>
    \o ForEachWorker(LAMBDA w : <<"stopWorker", w>>)
    \o << <<"joinMonitoring">>, <<"managerEnd">> >>

(* Supervisor::stop_all.                                                   *)
StopAll == << <<"continueall">> >> \o CommandStop \o ManagerStop

CommandShutdown == << <<"status", "Shutdown">> >> \o StopAll

(* Mutant of CommandCleanedShutdown: command_stop for command_stopdata.    *)
CleanedShutdownStopping ==
    (IF supervisor.status = "Processing"
     THEN CommandStop \o << <<"status", "EndingProcessing">>, <<"drainLp">>, <<"drainResults">> >>
     ELSE <<>>)
    \o CommandShutdown

(* Mutant of CommandCleanedShutdown: the data may still come in.           *)
CleanedShutdownListening ==
    (IF supervisor.status = "Processing"
     THEN << <<"status", "EndingProcessing">>, <<"drainLp">>, <<"drainResults">> >>
     ELSE <<>>)
    \o CommandShutdown

CommandCleanedShutdown ==
    (IF supervisor.status = "Processing"
     THEN << <<"status", "EndingProcessing">> >> \o SetStopdata(TRUE)
          \o << <<"drainLp">>, <<"drainResults">> >>
     ELSE <<>>)
    \o CommandShutdown

(* process_command, the commands with an effect that return.              *)
StepsOf(command) ==
    CASE command = "shutdown"        -> CommandShutdown
      [] command = "cleanedshutdown" -> CommandCleanedShutdown
      [] command = "reset"           -> CommandReset
      [] command = "start"           -> CommandStart
      [] command = "stop"            -> CommandStop
      [] command = "startprocessing" -> SetProcessing(1)
      [] command = "stopprocessing"  -> SetProcessing(0)
      [] command = "startdata"       -> SetStopdata(FALSE)
      [] command = "stopdata"        -> SetStopdata(TRUE)

(* ~Supervisor: the threads of start_service_threads in this order; then   *)
(* the sockets and the logger are closed and the process ends.             *)
Destructor == << <<"joinService", "lp">>, <<"joinService", "hp">>,
                 <<"joinService", "result">>, <<"gone">> >>

At(step) == todo # <<>> /\ Head(todo)[1] = step
Argument == Head(todo)[2]
Done == todo' = Tail(todo)

(* The step is done but for the send_info that follows it in the same      *)
(* function.                                                               *)
Announce == todo' = << <<"info">> >> \o Tail(todo)

(* listen_for_commands: one command at a time, while continueall.          *)
Receive(command) ==
    /\ todo = <<>>
    /\ supervisor.continueall
    /\ arrived.commands < MaxCommands
    /\ arrived' = [arrived EXCEPT !.commands = @ + 1]
    /\ todo' = << <<"command", command>> >>
    /\ UNCHANGED <<worker, supervisor, manager, service, shutdown, late, after>>

(* handle_signals interrupts the main thread, wherever it is.              *)
Interrupt(signal) ==
    /\ ~At("gone")
    /\ signal \notin arrived.signals
    /\ arrived' = [arrived EXCEPT !.signals = @ \cup {signal},
                                  !.nested = @ \/ (todo # <<>> /\ ~At("joinService"))]
    /\ todo' = << <<"command", IF signal = "SIGTERM" THEN "cleanedshutdown" ELSE "shutdown">> >>
               \o todo
    /\ UNCHANGED <<worker, supervisor, manager, service, shutdown, late, after>>

-----------------------------------------------------------------------------
(* The steps of the main thread.                                           *)

(* The command begins; the conditions on status are tested now.            *)
Dispatch ==
    /\ At("command")
    /\ Argument # "getstatus"
    /\ todo' = StepsOf(Argument) \o Tail(todo)
    /\ UNCHANGED <<worker, supervisor, manager, service, shutdown, arrived, late, after>>

(* getstatus calls a member function of the monitoring thread through      *)
(* monitoringthread, which is null for ever.                               *)
GetStatus ==
    /\ At("command")
    /\ Argument = "getstatus"
    /\ UNCHANGED <<worker, supervisor, manager, todo, service, shutdown, arrived, late, after>>

(* listen_for_commands returns to start(), start() to its caller.          *)
Destroy ==
    /\ todo = <<>>
    /\ ~supervisor.continueall
    /\ todo' = Destructor
    /\ UNCHANGED <<worker, supervisor, manager, service, shutdown, arrived, late, after>>

JoinService ==
    /\ At("joinService")
    /\ IF Argument = "result" THEN sending = "ended" ELSE listening[Argument] = "ended"
    /\ Done
    /\ UNCHANGED <<worker, supervisor, manager, service, shutdown, arrived, late, after>>

(* status, which startprocessing, stopprocessing and reset announce and the*)
(* two shutdowns do not.                                                   *)
WriteStatus ==
    /\ At("status")
    /\ supervisor' = [supervisor EXCEPT !.status = Argument]
    /\ IF Argument \in {"Processing", "Waiting"} THEN Announce ELSE Done
    /\ UNCHANGED <<worker, manager, service, shutdown, arrived, late, after>>

WriteStopdata ==
    /\ At("stopdata")
    /\ supervisor' = [supervisor EXCEPT !.stopdata = Argument]
    /\ late' = IF Argument = supervisor.stopdata THEN late ELSE {}
    /\ Done
    /\ UNCHANGED <<worker, manager, service, shutdown, arrived, after>>

WriteContinueall ==
    /\ At("continueall")
    /\ supervisor' = [supervisor EXCEPT !.continueall = FALSE]
    /\ Done
    /\ UNCHANGED <<worker, manager, service, shutdown, arrived, late, after>>

(* WorkerManager::change_status.                                           *)
ChangedStatus(m) == [m EXCEPT !.status = StatusOf(m.stopdata, m.processdata)]

WriteManager ==
    /\ \/ /\ At("managerStopdata")
          /\ manager' = ChangedStatus([manager EXCEPT !.stopdata = Argument])
          /\ Announce
       \/ /\ At("managerProcessdata")
          /\ manager' = ChangedStatus([manager EXCEPT !.processdata = Argument])
          /\ Announce
       \/ /\ At("managerEnd")
          /\ manager' = [manager EXCEPT !.status = "End"]
          /\ Done
    /\ UNCHANGED <<worker, supervisor, service, shutdown, arrived, late, after>>

(* send_info: the send on the monitoring socket returns.  It waits for its *)
(* peer while the socket is full.                                          *)
SendInfo ==
    /\ At("info")
    /\ Done
    /\ UNCHANGED <<worker, supervisor, manager, service, shutdown, arrived, late, after>>

WriteProcessdata ==
    /\ At("processdata")
    /\ processdata' = [processdata EXCEPT ![Argument] = Head(todo)[3]]
    /\ after' = IF Head(todo)[3] = 1 THEN 0 ELSE after
    /\ Done
    /\ UNCHANGED <<lp, hp, rhp, pushed, pc, held, tokenreading, readLock,
                   tokenresult, resultLock, reads, overtakes>>
    /\ UNCHANGED <<supervisor, manager, service, shutdown, arrived, late>>

Contents(queue) == CASE queue = "lp" -> lp [] queue = "hp" -> hp [] queue = "rhp" -> rhp

(* clean_single_queue, its empty(): another pop() or the end of the loop.  *)
Clean ==
    /\ At("clean")
    /\ todo' = IF Contents(Argument) = <<>> THEN Tail(todo)
               ELSE << <<"pop", Argument>> >> \o todo
    /\ UNCHANGED <<worker, supervisor, manager, service, shutdown, arrived, late, after>>

(* clean_single_queue, its pop(): waits on an empty queue, takes nothing   *)
(* from a stopped one.                                                     *)
CleanPop ==
    /\ At("pop")
    /\ Argument \in stopped \/ Contents(Argument) # <<>>
    /\ LET Rest(queue) == IF queue = Argument /\ queue \notin stopped
                          THEN Tail(Contents(queue)) ELSE Contents(queue)
       IN /\ lp' = Rest("lp")
          /\ hp' = Rest("hp")
          /\ rhp' = Rest("rhp")
    /\ Done
    /\ UNCHANGED <<pushed, pc, held, processdata, tokenreading, readLock,
                   tokenresult, resultLock, reads, overtakes>>
    /\ UNCHANGED <<supervisor, manager, service, shutdown, arrived, late, after>>

(* command_cleanedshutdown: its two loops read one size at a time and      *)
(* start again when it is not 0.                                           *)
Drain ==
    /\ \/ At("drainLp") /\ lp = <<>> /\ todo' = << <<"drainHp">> >> \o Tail(todo)
       \/ At("drainHp") /\ hp = <<>> /\ Done
       \/ At("drainHp") /\ hp # <<>> /\ todo' = << <<"drainLp">> >> \o Tail(todo)
       \/ At("drainResults") /\ rhp = <<>> /\ Done
    /\ UNCHANGED <<worker, supervisor, manager, service, shutdown, arrived, late, after>>

NotifyAll ==
    /\ At("notify")
    /\ stopped' = stopped \cup {Argument}
    /\ Done
    /\ UNCHANGED <<worker, supervisor, manager, service, stopEvent, running, arrived, late, after>>

(* Mutant of StopWorker: the worker is not joined.                         *)
StopWorkerOnly ==
    /\ At("stopWorker")
    /\ stopEvent' = stopEvent \cup {Argument}
    /\ stopped' = stopped \cup {"lp", "hp"}
    /\ Done
    /\ UNCHANGED <<worker, supervisor, manager, service, running, arrived, late, after>>

(* WorkerThread::stop: returns at once when it was called before.          *)
StopWorker ==
    /\ At("stopWorker")
    /\ \/ Argument \in stopEvent /\ Done /\ UNCHANGED <<stopEvent, stopped>>
       \/ /\ Argument \notin stopEvent
          /\ stopEvent' = stopEvent \cup {Argument}
          /\ stopped' = stopped \cup {"lp", "hp"}
          /\ todo' = << <<"join", Argument>> >> \o Tail(todo)
    /\ UNCHANGED <<worker, supervisor, manager, service, running, arrived, late, after>>

Join ==
    /\ At("join")
    /\ Argument \notin running
    /\ Done
    /\ UNCHANGED <<worker, supervisor, manager, service, shutdown, arrived, late, after>>

(* stop_internalthreads: the monitoring thread has ended, which waits for  *)
(* the peer of its socket too; Monitoring says how.                        *)
JoinMonitoring ==
    /\ At("joinMonitoring")
    /\ Done
    /\ UNCHANGED <<worker, supervisor, manager, service, shutdown, arrived, late, after>>

Main == \/ Dispatch \/ Destroy \/ JoinService
        \/ WriteStatus \/ WriteStopdata \/ WriteContinueall
        \/ WriteManager \/ WriteProcessdata \/ SendInfo
        \/ Clean \/ CleanPop \/ Drain
        \/ NotifyAll \/ StopWorker \/ Join \/ JoinMonitoring

-----------------------------------------------------------------------------
(* The other threads.                                                      *)

(* Worker w moves on as WorkerThread says.  It looks at _stop_event when   *)
(* it polls, and get() does not deliver from a stopped queue.              *)
WorkerRun(w) ==
    /\ w \in running
    /\ pc[w] = "poll" => w \notin stopEvent
    /\ pc[w] = "hpGet" => "hp" \notin stopped
    /\ pc[w] = "lpGet" => "lp" \notin stopped
    /\ W!Run(w)
    /\ after' = IF reads' # reads /\ \A v \in Workers : processdata[v] = 0
                THEN after + 1 ELSE after
    /\ UNCHANGED <<supervisor, manager, todo, service, shutdown, arrived, late>>

(* run() returns.                                                          *)
WorkerEnd(w) ==
    /\ w \in running \cap stopEvent
    /\ pc[w] = "poll"
    /\ running' = running \ {w}
    /\ UNCHANGED <<worker, supervisor, manager, todo, service, stopped, stopEvent,
                   arrived, late, after>>

(* get() throws on a stopped queue and nothing in run() catches it.        *)
WorkerThrow(w) ==
    /\ \/ pc[w] = "hpGet" /\ "hp" \in stopped
       \/ pc[w] = "lpGet" /\ "lp" \in stopped
    /\ UNCHANGED <<worker, supervisor, manager, todo, service, shutdown, arrived, late, after>>

(* Mutant of ListenerCheck: it does not look at stopdata.                  *)
ListenerAlways(l) ==
    /\ listening[l] = "check"
    /\ listening' = [listening EXCEPT ![l] = IF supervisor.continueall THEN "recv" ELSE "ended"]
    /\ UNCHANGED <<worker, supervisor, manager, todo, unpacking, sending, shutdown,
                   arrived, late, after>>

(* listen_for_lp_data and its siblings: they receive unless stopdata.      *)
ListenerCheck(l) ==
    /\ listening[l] = "check"
    /\ \/ ~supervisor.continueall /\ listening' = [listening EXCEPT ![l] = "ended"]
       \/ /\ supervisor.continueall /\ ~supervisor.stopdata
          /\ listening' = [listening EXCEPT ![l] = "recv"]
    /\ UNCHANGED <<worker, supervisor, manager, todo, unpacking, sending, shutdown,
                   arrived, late, after>>

(* The timeout of recv passes; the high-priority socket of pushpull has    *)
(* none.                                                                   *)
ListenerTimeout(l) ==
    /\ listening[l] = "recv"
    /\ l = "lp" \/ DataSocket = "pubsub"
    /\ listening' = [listening EXCEPT ![l] = "check"]
    /\ UNCHANGED <<worker, supervisor, manager, todo, unpacking, sending, shutdown,
                   arrived, late, after>>

(* What one message brings: itself, or the lines of the file it names,     *)
(* none if open_file cannot open it, those before the first that is no JSON.*)
ItemCounts == IF Dataflow = "filename" THEN 0..MaxLines ELSE {1}
Unpushed == unpacking["lp"].left + unpacking["hp"].left

(* Push the next item of a message, with left more to come.                *)
Push(l, message, left) ==
    /\ IF l = "lp" THEN W!PushLp ELSE W!PushHp
    /\ late' = IF supervisor.stopdata
               THEN late \cup {[by |-> l, message |-> message, item |-> pushed']} ELSE late
    /\ unpacking' = [unpacking EXCEPT ![l] =
                         IF left = 0 THEN Nothing ELSE [message |-> message, left |-> left]]
    /\ listening' = [listening EXCEPT ![l] = IF left = 0 THEN "check" ELSE "push"]

(* receive_and_process_binary, _string and _file: a message comes and its  *)
(* first item is pushed.                                                   *)
ListenerReceive(l) ==
    /\ listening[l] = "recv"
    /\ \E n \in ItemCounts :
          /\ pushed + Unpushed + n <= MaxItems
          /\ IF n = 0 THEN /\ listening' = [listening EXCEPT ![l] = "check"]
                           /\ UNCHANGED <<worker, late, unpacking>>
                      ELSE Push(l, pushed + 1, n - 1)
    /\ UNCHANGED <<supervisor, manager, todo, sending, shutdown, arrived, after>>

(* receive_and_process_file: the loop over the rest of the file.           *)
ListenerPush(l) ==
    /\ listening[l] = "push"
    /\ Push(l, unpacking[l].message, unpacking[l].left - 1)
    /\ UNCHANGED <<supervisor, manager, todo, sending, shutdown, arrived, after>>

(* push(data[i]) converts the JSON value to bytes, which throws unless it  *)
(* is an array; nothing in the listener catches it.                        *)
ListenerThrow(l) ==
    /\ Dataflow = "filename" /\ MaxLines > 0
    /\ listening[l] \in {"recv", "push"}
    /\ UNCHANGED <<worker, supervisor, manager, todo, service, shutdown, arrived, late, after>>

(* listen_for_result and the empty() calls of send_result; result_lp_queue *)
(* is never pushed to.                                                     *)
SenderCheck ==
    /\ sending = "check"
    /\ \/ ~supervisor.continueall /\ sending' = "ended"
       \/ supervisor.continueall /\ rhp # <<>> /\ sending' = "get"
    /\ UNCHANGED <<worker, supervisor, manager, todo, listening, unpacking, shutdown,
                   arrived, late, after>>

(* The get() of send_result; its exception is caught and logged.           *)
SenderGet ==
    /\ sending = "get"
    /\ \/ "rhp" \in stopped /\ sending' = "check" /\ UNCHANGED rhp
       \/ "rhp" \notin stopped /\ rhp # <<>> /\ rhp' = Tail(rhp) /\ sending' = "send"
    /\ UNCHANGED <<lp, hp, pushed, pc, held, processdata, tokenreading, readLock,
                   tokenresult, resultLock, reads, overtakes>>
    /\ UNCHANGED <<supervisor, manager, todo, listening, unpacking, shutdown,
                   arrived, late, after>>

(* The send on the result socket returns, or its exception is caught.  A   *)
(* PUSH socket waits for its peer while it is full.                        *)
SenderSend ==
    /\ sending = "send"
    /\ sending' = "check"
    /\ UNCHANGED <<worker, supervisor, manager, todo, listening, unpacking, shutdown,
                   arrived, late, after>>

Sender == SenderCheck \/ SenderGet \/ SenderSend
Listener(l) == ListenerCheck(l) \/ ListenerTimeout(l) \/ ListenerPush(l)
Worker(w) == WorkerRun(w) \/ WorkerEnd(w)

(* The threads that keep running by themselves.                            *)
MainMoves == /\ ~crashed
             /\ \/ Main /\ UNCHANGED crashed
                \/ GetStatus /\ crashed' = TRUE
SenderMoves == ~crashed /\ Sender /\ UNCHANGED crashed
ListenerMoves(l) == ~crashed /\ Listener(l) /\ UNCHANGED crashed
WorkerMoves(w) == /\ ~crashed
                  /\ \/ Worker(w) /\ UNCHANGED crashed
                     \/ WorkerThrow(w) /\ crashed' = TRUE

Next == \/ MainMoves \/ SenderMoves
        \/ \E l \in Listeners : ListenerMoves(l)
        \/ \E w \in Workers : WorkerMoves(w)
        \/ /\ ~crashed
           /\ \/ \E command \in Commands : Receive(command)
              \/ \E signal \in Signals : Interrupt(signal)
              \/ \E l \in Listeners : ListenerReceive(l)
           /\ UNCHANGED crashed
        \/ \E l \in Listeners : ~crashed /\ ListenerThrow(l) /\ crashed' = TRUE

SafeSpec == Init /\ [][Next]_vars

(* Where a thread waits for the peer of a socket to read.                  *)
MainWaits == At("info") \/ At("joinMonitoring")
SenderWaits == sending = "send"

(* The operating system runs every thread that does not wait for a peer and*)
(* processData returns; nobody has to send a command, a signal or data, or *)
(* to read what is sent.                                                   *)
Fairness == /\ WF_vars(MainMoves /\ ~MainWaits)
            /\ WF_vars(SenderMoves /\ ~SenderWaits)
            /\ \A l \in Listeners : WF_vars(ListenerMoves(l))
            /\ \A w \in Workers : WF_vars(WorkerMoves(w))

Spec == SafeSpec /\ Fairness

(* What a behaviour depends on.  The other variables are histories, which  *)
(* no guard reads and no liveness property below, so two states with the   *)
(* same view have the same future.                                         *)
WithoutHistory ==
    <<lp, hp, rhp, pushed, pc, held, processdata, tokenreading, readLock, tokenresult,
      resultLock, supervisor, manager, todo, service, shutdown, crashed, arrived>>

-----------------------------------------------------------------------------
Idle == todo = <<>>
Gone == At("gone")

TypeOK ==
    /\ W!TypeOK
    /\ supervisor \in [status : {"Waiting", "Processing", "EndingProcessing", "Shutdown"},
                       stopdata : BOOLEAN, continueall : BOOLEAN]
    /\ manager \in [status : ManagerStatuses, stopdata : BOOLEAN, processdata : {0, 1}]
    /\ listening \in [Listeners -> {"check", "recv", "push", "ended"}]
    /\ unpacking \in [Listeners -> [message : 0..MaxItems, left : 0..MaxLines]]
    /\ sending \in {"check", "get", "send", "ended"}
    /\ stopped \subseteq Queues /\ stopEvent \subseteq Workers /\ running \subseteq Workers
    /\ crashed \in BOOLEAN
    /\ arrived \in [commands : 0..MaxCommands, signals : SUBSET Signals,
                   nested : BOOLEAN]
    /\ after \in Nat
    /\ late \subseteq [by : Listeners, message : 1..MaxItems, item : 1..MaxItems]

(* Between two commands, what the supervisor says, what the manager says   *)
(* and what the workers do agree, whatever commands came.                  *)
StatusIsTrue ==
    Idle /\ supervisor.continueall =>
        /\ (supervisor.status = "Processing") = (manager.processdata = 1)
        /\ \A w \in Workers : processdata[w] = manager.processdata
        /\ manager = ChangedStatus(manager)

(* Once stopdata is written, each listener brings at most the items of the *)
(* one message it was already waiting for.                                 *)
OneLateMessageEach ==
    \A d, e \in late : d.by = e.by => d.message = e.message

(* Once every worker is told to stop, each reads at most one item more.    *)
OneReadAfterStop == after <= NumWorkers

(* A cleaned shutdown and a reset leave nothing in the data queues but     *)
(* what arrived after they closed the input.                               *)
Remaining == UNION {{Contents(queue)[i] : i \in 1..Len(Contents(queue))} :
                    queue \in {"lp", "hp"}}
LateItems == {d.item : d \in late}
EndsDraining == At("drainResults") /\ Done
EndsReset == At("status") /\ Len(todo) = 1 /\ Announce
OnlyLateDataSurvives == [][EndsDraining \/ EndsReset => Remaining \subseteq LateItems]_vars

(* The destructor runs, which closes the sockets and deletes the logger,   *)
(* only when no worker runs, whatever interrupted what before.             *)
ShutdownJoinsWorkers ==
    (Idle /\ ~supervisor.continueall) \/ At("joinService") \/ Gone => running = {}

(* No exception leaves a worker thread.                                    *)
NoThreadDies == ~crashed

(* The peers of the monitoring socket and of the result socket read, so    *)
(* that no send waits for ever.                                            *)
PeersRead == []<>~MainWaits /\ []<>~SenderWaits

(* A shutdown that has begun ends the process: the main thread is through, *)
(* the service threads have ended (or the process has died), provided the  *)
(* peers read.  Left out are a signal in the middle of a command, and a    *)
(* high-priority listener that waits without a timeout.                    *)
WaitsForHighPriority ==
    DataSocket = "pushpull" /\ At("joinService") /\ Argument = "hp" /\ listening["hp"] = "recv"
ShutdownEnds ==
    PeersRead =>
        (~supervisor.continueall ~> (crashed \/ Gone \/ WaitsForHighPriority \/ arrived.nested))

(* A cleaned shutdown ends its wait for the queues to drain, provided the  *)
(* peers read.  Left out are a signal in the middle of a command, and what *)
(* a reset can do: its cleaning took the item that a worker had seen, and  *)
(* the worker waits in get() for another one with the turn in its hands.   *)
DrainingEnds ==
    PeersRead =>
        [](supervisor.status = "EndingProcessing" =>
               <>(\/ supervisor.status # "EndingProcessing" \/ crashed \/ arrived.nested
                  \/ \E w \in Workers : []W!Starving(w)))

(* A reset comes to its end, provided the peers read.                      *)
CleaningEnds == PeersRead => (At("clean") ~> Idle \/ crashed)

(* A signal ends the process, provided the peers read.                     *)
SignalTerminates == PeersRead => ((arrived.signals # {}) ~> (Gone \/ crashed))
=============================================================================
