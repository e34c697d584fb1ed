# Verification of rta-dataprocessor

TLA+ models of the RTA data processor, model-checked with TLC and in large part proved
with TLAPS. The models are translated from the C++ framework in `c++/` and, for the worker
threads, from its Python twin in `workers/`. Line numbers below are those of the repository.

## The system

A *data processor* is one process. Messages arrive on two ZeroMQ sockets, of low and
of high priority, are processed by a pool of worker threads, and results go out on
result sockets. Commands arrive on a third socket; monitoring goes out on a fourth.

| component | state | operations |
|---|---|---|
| `ThreadSafeQueue` | items, `_stop`, the wait set of a condition variable | `push`, `front`, `get`, `pop`, `empty`, `size`, `notify_all` |
| `WorkerThread` | `processdata`, `status`, `tokenreading`, `tokenresult`, `_stop_event`, counters, a timer | `run`, `process_data`, `set_processdata`, `stop`, `workerop` |
| `WorkerManager` | four queues (data and results, low and high priority), the workers, two mutexes for the token rings, `stopdata`, `processdata`, `status` | `change_token_reading`, `change_token_results`, `set_stopdata`, `set_processdata`, `clean_queue`, `stop` |
| `Supervisor` | `status`, `stopdata`, `continueall`, the managers, the sockets | commands, signal handlers, listeners, result thread |
| `MonitoringThread`, `MonitoringPoint` | a copy of the manager's status and of the workers' counters, a socket | `get_data` and a send every second, `stop`; `sendto` |
| Python worker threads | the same as `WorkerThread`, one stop event for all | the same |
| worker processes (Python) | multiprocessing queues, shared flags | as the threads, without tokens |
| configuration, logging, messages, GUI, ACS glue, prototypes | files and displays | reading, formatting, showing |

Threads and what they share:

    listener lp, listener hp --push--> data queues --get--> worker threads
    worker threads --push--> result queue --get--> result thread --> socket
    main thread: commands and signals --> flags of supervisor, manager, workers;
                 cleans and stops the queues, joins the workers;
                 its destructor joins the listeners and the result thread
    worker thread --count--> timer of the worker --total--> monitoring thread --> socket
    main thread --info on every change of flags--> the same monitoring socket
    tokenreading / tokenresult: one integer per worker, read without a lock,
                 decremented for all workers under a mutex of the manager

What makes each part correct, and what is hard about it:

* **Queue.** First in first out, each item taken once, no lost wake-up, everybody
  released by `notify_all`. Hard: `notify_one` per push, sleepers of several kinds.
* **Workers.** `empty()` and `get()` are separate critical sections, so only the token
  ring keeps one worker from taking the item another has seen (and nothing keeps the cleaning of a
  reset from it); the ring itself is turned token by token
  while everyone reads it without the mutex. Right means: one reader, one writer, each
  worker in its turn, no turn lost, high priority first as far as the code achieves it.
* **Supervisor and manager.** One state in three copies (supervisor, manager, workers),
  written one after the other; listeners and workers that read a flag and act on it
  later; queues cleaned and stopped while others use them; signal handlers that run a
  whole command in the middle of another, or in the middle of the destructor.
* **Monitoring.** Counts that two threads write without a lock, flags copied one by one while they
  change, a socket that blocks its two senders when nobody reads it, and a stop that has to
  join three kinds of threads in the right order.
* **Python workers.** The same ring with a token that is -1 for a moment, a `get` that waits while
  it holds the turn, and exceptions that end a thread.

`PROJECT.json` lists the hazards line by line with the properties that watch them.

## Modules

| module | what it is | code |
|---|---|---|
| `ThreadSafeQueue` | the queue object and the effect of each critical section, as operators on a record | `include/rtadp/ThreadSafeQueue.h` |
| `QueueClients` | a queue and the threads in its calls, one step per critical section, with sleeps, wake-ups and spurious wake-ups | the same |
| `BlockingQueue` | abstract: a queue whose calls are pending until they return | what the class promises |
| `QueueClientsProofs` | theorems about the queue | |
| `WorkerThread` | the workers of one manager, both rings, the pushes, `set_processdata` and the cleaning around them | `WorkerThread.cpp`, `WorkerManager.cpp` |
| `TokenRing` | abstract: processes around a token ring that is turned one token at a time | `change_token_*` and their users |
| `TokenRingProofs`, `WorkerThreadProofs`, `WorkerOrderProofs` | theorems about the rings, the workers and the order of their reads and results | |
| `DataProcessor` | the whole process: main thread, signals, listeners, result thread, with the worker actions of `WorkerThread` | `Supervisor.cpp`, `WorkerManager.cpp` |
| `DataProcessorProofs`, `DataProcessorCommandProofs` | theorems about the whole process | |
| `ManagerStatus` | the status a manager derives from its flags, used by the two modules that have a manager | `WorkerManager.cpp` |
| `Monitoring` | the counters of the workers, their timers, the monitoring thread, the stop of a manager | `MonitoringThread.cpp`, `MonitorintPoint.cpp`, `WorkerThread.cpp`, `WorkerManager.cpp` |
| `MonitoringProofs` | theorems about monitoring | |
| `PyWorkerThread` | the Python workers: extends `WorkerThread` where they differ | `workers/WorkerThread.py`, `workers/WorkerManager.py` |
| `PyWorkerThreadProofs` | theorems about the Python workers | |

### ThreadSafeQueue and QueueClients

All member functions lock `mtx` for their whole body, so a call is one step unless it
waits. `condvar.wait` is: a step that finds the predicate false and goes to sleep (`Wait`);
a wake-up by `push` (any one sleeper), by `notify_all` (all of them) or by nobody
(`SpuriousWakeup`); and another step that evaluates the predicate again (`Get`, `Front`,
`Pop`). `call[t]` is the call thread `t` is in and `outcome[t]` what its last call gave.
The code throws after `notify_all` even when items remain, and so does the model.

### WorkerThread and TokenRing

A worker's `pc` names the place in `run()` or `process_data()` between two accesses to shared
state. Reading `processdata` and reading `tokenreading` are two steps, as are each `empty()` and
`get()`, and each token that `change_token_reading` and `change_token_results` write. The data
queues are plain sequences here: `QueueClients` shows that the class implements such a queue
(`ImplementsBlockingQueue`), with a waiting `get()` as a step that is not enabled. Data is
its arrival number; `processData` of the concrete worker is external and returns a result
or none. `tokenreading` and `tokenresult` are plain `int`s that one thread writes under a
mutex and others read without it; an aligned `int` is read as its old or its new value in every
build the CMake file produces, and the loop that reads it calls opaque functions between two
reads, so the model reads the current value. `reads` and `overtakes` are history variables.
`Clean` is one `pop()` of the main thread in `clean_single_queue`, which only `command_reset` reaches, after it has
switched processing off; a worker may by then be anywhere, also between an `empty()` and its `get()`, where it
is left waiting with the turn in its hands (`Starving`). That the main thread itself may wait in that `pop()` is
modelled in `DataProcessor`. The worker's own `processData` is taken to return: what happens when it throws is
not modelled in C++.
The status a worker shows and its counters do not influence its way through `run()`; they are the
subject of `Monitoring`.

The reading section is everything from `tokenreading == 0` to the moment the worker's turn
is given away, and the writing section everything from `tokenresult == 0` to the same moment
of the other ring. `TokenRing` is what both have in common, and `WorkerThread` implements
it twice (`ReadRing`, `ResultRing`), with `inside` mapped to the workers whose `pc` is in the section.

### DataProcessor

The main thread is a sequence `todo` of elementary steps. A message on the command socket puts
`<<"command", c>>` on an empty `todo`; `Dispatch` replaces it by the steps of the command, and that is
where `command_reset` and `command_cleanedshutdown` test `status`. A signal handler puts its command in
front of whatever is there, which is what running a handler on top of the interrupted code does: it
may interrupt a command, another handler, or the destructor. When `todo` is empty and `continueall`
false, `listen_for_commands` and `start()` return and the destructor begins: it joins the two
listeners and the result thread in the order they were started (`JoinService`); `"gone"` is the moment
it frees sockets and logger. `arrived.nested` remembers that a signal came in the middle of a command.

The listeners follow the three data flows. With `binary` and `string` a message is an item. With
`filename` it names a file whose lines become items one by one (`ListenerReceive`, `ListenerPush`), none
if the file cannot be opened, and the conversion of a line may throw (`ListenerThrow`). `DataSocket`
tells the two socket set-ups apart: with `pushpull` the high-priority socket has no receive timeout.
`getstatus` dereferences a null pointer and ends the process, so the command is a step to `crashed`.

The workers take the steps of `WorkerThread` (`W!Run`), with three things added that need the rest of
the process: they look at `_stop_event` when they poll, they end, and `get()` on a stopped queue throws. As
nothing in `run()` catches that, `crashed` becomes true and the process stops. `SetProcessdata` and `Clean` of
`WorkerThread` are replaced by steps of the main thread, so `Environment` is not used here.

Three things wait for the peer of a socket: the `send` of the result thread (`SenderSend`; the result socket of
`pushpull` is a PUSH socket), the `send_info` of the main thread that follows each change of status (`SendInfo`,
put on `todo` by `Announce`), and the join of the monitoring thread in `stop_internalthreads` (`JoinMonitoring`), which
may itself be in a `send`. All three are steps of their own that no fairness drives. What the monitoring thread
does is in `Monitoring`, whose `StopEnds` says that its join ends when the peer reads; here the join is
one step. The state starts when `Supervisor::start` has
started the threads; `stopdata` of the supervisor is uninitialised there (`Supervisor.cpp:95`), so both
values are initial. One simplification of interleavings: the test of `_stop_event` and the read of
`processdata` that follows it are one step. `_stop_event` is set only after `processdata` was set to 0, so a
thread that separates the two does at most one more round that reads nothing. A signal interrupts between two
steps of the main thread and not within one; a `send` or `recv` that a signal interrupts with `EINTR` is not
modelled, nor is a second `delete monitoring_thread` by a handler that stops the manager while the first is under way
(the pointer is set to null only afterwards).

### Monitoring

One step is one access to what another thread sees. `processed_data_count++` is a read and a write
(`CountRead`, `CountWrite`); the timer, `workerop`, adds the count to the total and resets it in two more
(`TimerAdd`, `TimerReset`). `events` counts what was really processed, and `torn` is set when an increment
overlaps the moment between adding and resetting, the only case in which the code may miscount. The
timer keeps running while its worker does and looks at `_stop_event` before each round. The monitoring
thread copies status, `stopdata` and the totals one by one (`CopyStatus`, `CopyStopdata`, `CopyTotal`)
and sends; `send_info` of the main thread sends on the same socket. A PUSH socket blocks its sender at
the high-water mark: `outbox` is bounded by `HighWater`, and `Peer`, who reads it, is free not to. `Stop`
and what follows is `WorkerManager::stop`: each worker is told, joined, its timer joined, and shown as
16; then the monitoring thread is told and joined. Whether a worker finds data is a free choice here.
`status[w]` may show 2, 4 or what it was when nothing is found: which of these depends on queues and
turns, which are in the other modules.

### PyWorkerThread

Steps that Python shares with C++ are taken from `WorkerThread` with `Same`. The differences: no `empty()`
before a read but `get_nowait()` on the high-priority queue and then `get(timeout=1)` on the low-priority
one, during which the worker keeps its turn; a token is decremented and, when negative, wrapped round by
a second write (`PyPassReading`, `PyPassResult`), both under the lock and both visible to others;
results of both priorities are written; an exception of the worker's own `process_data` leaves
`run()` and ends the thread (`"dead"`); one event stops all workers (`PyStop`); the cleaning of a reset
includes the low-priority results (`PyCleanResultLp`). The `try` around `get_nowait` covers the processing of
the high-priority item as well: the model assumes that `process_data` raises no `queue.Empty` of its own, which
that `except` would take for an empty queue. `clean_queue` uses `get_nowait` too, whose `queue.Empty` in the main
thread, when a worker was faster, is not modelled.

## Runs

| run | instance | shows |
|---|---|---|
| `queue_take` | 3 threads, `get`/`pop`, 2 values, length 3 | `NoLostWakeup`, `NoStranding`, `ImplementsBlockingQueue` with progress |
| `queue_all` | the same with `front`, length 2 | types, `StopReleasesEveryone`, safety of the abstract queue |
| `queue_front` | 2 threads in `get` and `front` | **violation**: `front` loses a notification |
| `worker` | 2 workers, 4 items, resets | types, one reader, one writer, no item taken from under a worker but by a reset, round robin, priority, order; everything pushed is read while processing is on, unless a reset left a worker asleep |
| `monitoring` | 1 worker with 2 items, its timer, monitoring and main thread, a socket for 1 message, 1 change of flags | totals exact but for overlaps, 16 is final, the stop is quiet and ends, the reports catch up |
| `py_worker` | 2 Python workers, 3 items, resets, exceptions and a stop at any time | the rings, order of both result queues, a death stalls the others within one turn, everybody stops |
| `processor` | 1 worker, 2 items, files of up to 2, any 3 of all commands | agreement of the three copies, one late message per listener, one late read, what survives a drain |
| `processor_live` | 1 worker, 2 items, 4 commands among start, reset, cleaned shutdown | the shutdown ends (to the end of the destructor) when the peers read; the wait of the cleaned shutdown ends, unless a reset left the worker asleep |
| `processor_signals` | 2 workers, `pushpull`, start/reset twice, SIGTERM anywhere | no worker outlives the shutdown, interrupted resets and drains leave only late data |
| `processor_crash` | start, reset, shutdown | **violation**: a worker dies of an exception |
| `processor_clean` | start, reset | **violation**: reset waits for ever |
| `processor_terminate` | start, SIGINT, SIGTERM | **violation**: a signal that never terminates the process |

Bounds and why they are enough. `queue_*`: a lost wake-up needs two sleepers and one who
takes the notification, hence three threads; two values make order visible; the length
bounds pushes ahead of takers and three items exceed the takers left when one sleeps.
`worker`: two workers are enough for two to compete and for both rings to be out of step with each other;
four items are the least that give two results out of order (a worker without a result
between them) and two low-priority reads in a row past waiting data. `monitoring`: the workers do not
share counters, so one worker with its timer has every overlap, two items are what an increment lost and an
increment added twice need, and a socket for one message is full as soon as the peer is
late. `py_worker`: two workers wrap a token in every turn; three items let the survivor of a
death read once more and find the turn gone. The number of workers is arbitrary in the proofs.
`processor*`: the competition among workers is the subject of `worker`; here a single worker competes with
the main thread, the listeners and the result thread, two items are what a worker must be
able to read for "one more after stop" to fail, and files of two items are the least whose
second can come late. Three commands are a pair of commands and one after it. `processor_live` needs a fourth and a second
item: start, a high-priority item that the worker sees and a reset takes, start again, a low-priority item, and a cleaned shutdown
are the shortest way to a drain that waits for ever for a worker asleep in `get()`, and with less the exception that
`DrainingEnds` makes would never be met. The plain shutdown is the second half of the cleaned one there. That run
leaves out of the view (`WithoutHistory`) the variables that only record the past: no guard
and neither of its two properties reads them. Two workers in
`processor_signals` let a signal come between the joins. `MaxCommands`, `MaxItems`, `MaxLines`, `MaxEvents` and
`MaxChanges` bound what the environment sends and nothing else. Signals arrive at most once each.

`processor*`, `monitoring` and `py_worker` do not check for deadlock: there the threads may really all
stop. The others do.

Fairness. `QueueClients`: a thread that is inside a call and awake gets the mutex
(`WF` on its step); nobody has to call or to push. `WorkerThread` and `PyWorkerThread`: each worker thread
is run by the operating system and `processData` returns or raises; listeners and main thread are free
to do nothing. `DataProcessor`: the same for the main thread, the listeners, the result thread and the
workers, except where the main thread (`MainWaits`) or the result thread (`SenderWaits`) waits for the peer of a socket;
commands, signals and data may never come, and a peer may never read. Its four liveness properties carry the hypothesis that
the peers do (`PeersRead`). `Monitoring`: all threads run and the sleeps of
the timers end; nobody has to read the socket, so `StopEnds` and `ReportsCatchUp` carry the hypothesis
that it does not stay full (`PeerReads`). No strong fairness anywhere: a worker's only wait on another
thread is for a mutex whose holder leaves it after a bounded loop. With
`PeersRead`, `ShutdownEnds` leaves out two more ways in which a shutdown may not end: a signal in the middle of a
command (`arrived.nested`; finding 4), and the high-priority listener of `pushpull`, which waits without a timeout
(`WaitsForHighPriority`). `DrainingEnds` leaves out the nested signal and a worker that a reset left in `get()`
for good; `EverythingIsRead` leaves out the latter. `OnlyCleaningStarves` says that nothing but a
cleaning does that to a worker.

## What was found

Four runs show a disagreement between the code and what it says of itself, each with a trace:

1. `front()` can lose a notification that its comment says cannot be lost
   (`queue_front`). Nothing in the framework calls `front()` today.
2. `notify_all`, meant for "a clean shutdown", ends the process in `std::terminate` when a worker is
   about to call, or waits in, `get()` (`processor_crash`).
3. A reset can wait for ever in `pop()` for an item that a worker took (`processor_clean`).
4. A signal can leave the process running, waiting for workers that are stopped or not yet
   switched on (`processor_terminate`).

Further observations, in the hazards: results dropped when a worker is not in turn to write,
a null pointer behind `getstatus`, the status after a shutdown, a listener without a timeout, a
monitoring socket that can block the main thread, a Python worker that dies and takes the turn
with it one round later, and others. One of them is worth naming: a reset may take the item that a worker has
already seen (`WorkerThread.cpp:63`, `WorkerManager.cpp:363`). The worker then sleeps in `get()` and keeps the turn;
after the next start nobody reads the other queue until that queue gets an item, and a cleaned shutdown waits
for ever at `Supervisor.cpp:792`. The runs `worker` and `processor_live` contain these behaviours, and their
liveness properties name them as the exception. `StatusIsTrue` compares the three copies of the
processing flag; it does not compare the two copies of `stopdata`, which differ from the start when the uninitialised
one is false.

## Proofs

Every theorem holds for all values of the constants. Assumptions, each evaluated by TLC in the runs:
finitely many clients, a known set of calls, a natural bound (`QueueClients`); at least one worker, `Free`
none of them, natural bounds (`WorkerThread`, `Monitoring`, `DataProcessor`); known commands, signals, data
flow and socket type (`DataProcessor`). What `TokenRingProofs` assumes of the constants of `TokenRing` is a
hypothesis of its theorems, discharged where they are used.

* `QueueClientsProofs`. `TypeCorrect`; `WakeupsAreNotLost`: without `front`, `NoLostWakeup` is inductive
  together with the types. Its core is a count: a push adds an item and, while somebody
  sleeps, an awake taker; a take removes one of each; going to sleep needs an empty queue.
  `ImplementsQueue`: every step maps to a step of `BlockingQueue` or leaves its variables alone.
* `TokenRingProofs`. `Settled(p)` is the token of `p` after the decrement in progress, if any.
  The invariant says that the settled tokens are a rotation (`Settled(p)` is determined by any other and
  the distance), that whoever is inside or passing has settled accordingly, and that the mutex
  and the loop agree. Exclusion follows since a rotation has a single 0. The plain
  "at most one token is 0" is not inductive: it forgets the half-turned ring.
* `WorkerThreadProofs`. The workers implement the ring twice (`ReadersImplementRing`,
  `WritersImplementRing`), by cases on the actions of `Next` with lemmas for a worker that moves within its
  section; the ring's invariant is then carried over, and `OnlyAResetStarves` follows, an action property: between
  `empty()` and `get()` the only worker that reads is the worker itself and listeners only add, so whatever step empties the queue
  it is about to read is a `Clean`. What each step of a
  worker does is stated in lemmas (`TypeStep`, `LockStep`, `ReadersStep`, `WritersStep`), so that the
  theorems about the whole process can use them.
* `WorkerOrderProofs`. `DealtInTurn`: the last to read is the one whose turn has just
  passed, so the next read is by its successor (`LockHandsOver`). `OneOvertake`: a reader that found the
  high-priority queue empty overtakes only what arrives while it reads, and the next reader looks
  again. `DisorderIsBounded`: a worker holds one item at a time and reads every `NumWorkers`-th, so
  between its read and its result each of the others can have written at most what it read less than one
  turn later; the invariant relates every item written or held to the place of its read, and says
  that an item is read and written once. What a read and a write do to that invariant are lemmas of their
  own (`ReadKeepsOrder`, `WriteKeepsOrder`), stated for any queue of results, so that the Python workers can use them.
* `MonitoringProofs`. `TypesHold`: types of every variable; the bound on `events` needs that a worker about to
  count is below it (`EventsBounded`), and the reports are typed because what they copy is (`ReportsTyped`). `CountsAreExact`: unless torn, total plus what is not yet added equals the events, and
  the value an increment has read is still the count; the second half is what makes it inductive. `StopInv`
  says for each place of the main thread which threads have ended; `StopIsQuiet` and `TerminatedStays` follow.
* `DataProcessorProofs`.
  `TypesHold`: the worker part is `WorkerThreadProofs` instantiated (`WP`), since a step of a worker here is a step of
  `WorkerThread` with a stronger guard and the main thread's writes of `processdata` keep its invariant.
  `OneLateMessage`: a listener that has been late is not in `recv`, and what it unpacks is that message.
  `WorkersAreJoined`: an invariant over the list of steps. Wherever `continueall` is cleared or
  about to be, the rest of the list stops and joins every worker that is not stopped and joined
  already; lists of commands have that shape, and putting a command in front of any such list keeps it. That is
  why a signal may interrupt anything, another signal included.
  `FewReadsAfterStop`: with processing off everywhere, the reads made since plus the workers that may still
  read (those past the test of `processdata`, counted as a set) are at most `NumWorkers`: a read takes its
  worker out of that set and nobody joins it. The bound on the reads alone is not inductive.
  `WorkersTakeTurns`: inside the whole process the workers still implement both rings.
* `DataProcessorCommandProofs`. `StatusesAgree`: as long as `continueall` is set, the list of steps either is going
  to shut down (`Doomed`), or writes one value everywhere it writes and, once done, leaves the three
  copies saying that value (`Plain`, `Settles`). Both cases are needed because a signal may interrupt a command
  half-way: the copies then disagree, but in a process that does not wait for commands again.
  `OnlyLateDataIsLeft`: an action property, from an invariant (`Empties`) that reads the list of steps together with two facts
  about the data queues, namely whether each holds only items pushed since the input closed. A queue that was seen empty
  holds only such items from then on, as long as nobody opens the input. So the invariant says: nothing that
  looks at the queues comes after a step that opens the input; whatever empties a queue or waits for it to be
  empty comes after a step that closed it; `drainHp` is reached with the low-priority queue seen empty, `drainResults` with
  both; and a list that ends like a reset still has the cleaning of a queue to come or has done it. The list of
  every command has that shape, and it survives a shutdown put in front of any rest of it (`EmptiesPrefix`), which is the
  case of the signal. TLC checked the invariant for one worker and three of any commands that return before it was proved. The property without it is not
  inductive: it speaks of the last step only and forgets who closed the input.
* `PyWorkerThreadProofs`. `PyTypesHold`, `PyReadersImplementRing`, `PyWritersImplementRing`: the Python decrement is two
  writes, so the mapping to `TokenRing` shows a token of -1 as the 0 it was (`Unwrapped`); the first write is then a
  stutter, and the second the one decrement of the ring, from 0 to the last turn (`TwoWritesOneDecrement`). The steps shared
  with C++ reuse the lemmas of `WorkerThreadProofs`. `PyDealtInTurn` follows as in C++: the last to read is the one whose
  turn has just passed. `DeathBoundsReads`: a worker dies with data in its hands, so it has read, and as every
  `NumWorkers` reads in a row have one of each worker, its last read is less than a turn ago; once dead it never
  reads again, so the others stop there.
  `PyDisorderIsBounded`: the two result queues each satisfy the invariant of `WorkerOrderProofs`, whose lemmas do not ask
  which worker skips a result.

Every safety invariant and every action property of the passing runs is a theorem, and so is the safety part of each refinement.
Only model-checked: what needs fairness (`NoStranding`, the progress of `ImplementsBlockingQueue`, `StopReleasesEveryone`,
`EverythingIsRead`, `StopEnds`, `ReportsCatchUp`, `PyEverythingIsRead`, `WorkersStop`, `ShutdownEnds`, `DrainingEnds`), since the prover handles neither
`ENABLED` nor fairness; and the violations.

## Not modelled

* Start-up (`Supervisor::start` and what it calls): the models begin when all threads run. The hazards of a signal
  during start-up are listed without a property.
* `config` and `configworkers`: they hand a document to worker classes that are not in the repository.
* The errno logic and the malformed commands of `listen_for_commands`, the rates and queue sizes of the monitoring document,
  the bodies of messages, and the overridable custom data socket: data that no property tells apart.
* `sendto` and the status loop of `WorkerManager::run`: the pointer behind the first is never assigned and the
  condition of the second is never true. `getstatus` is modelled up to the null pointer.
* Several managers served in turn by the result thread: `start_managers` of the repository creates one.
* The Python `Supervisor` and monitoring, which repeat the C++ ones, and worker processes (`WorkerProcess`), which share
  two queues and a flag and take no turns.
* ZeroMQ, beyond timeouts and high-water marks.
* Configuration files, logging, message formats, GUI, prototypes and the ACS component: input, output
  and display without a protocol of their own.
* `json.hpp`: a vendored library, and by far the longest file of the repository (24765 lines). The share of the mapped lines
  among all lines says little for that reason; without it the map covers more than a quarter of the framework.

## Plan

1. `PyWorkerThread` inside a process: the Python `Supervisor`, whose waits differ from the C++ ones; the lemmas of
   `PyWorkerThreadProofs` about single steps are meant for it.
2. `WorkerProcess`: queues between processes and the shared stop event.
3. Start-up as steps of the main thread, with signals in the middle of it.
4. Several managers and the result thread that serves them in turn.
5. Proofs: safety lemmas behind the temporal properties, such as that a process whose main thread waits in a cleaning
   or a join has a thread that can let it go on, short of the cases the four findings name.
