-------------------------- MODULE DataProcessorProofs --------------------------
(***************************************************************************)
(* Theorems about DataProcessor, for any number of workers, any commands   *)
(* and any signals, which may interrupt each other anywhere.               *)
(***************************************************************************)
EXTENDS DataProcessor, SequenceTheorems, FiniteSetTheorems, TLAPS

-----------------------------------------------------------------------------
(* A listener that has been late is not waiting for another message; while *)
(* it unpacks one, that is the late one.                                   *)
ListenersOK ==
    /\ supervisor = [status |-> supervisor.status, stopdata |-> supervisor.stopdata,
                     continueall |-> supervisor.continueall]
    /\ listening \in [Listeners -> {"check", "recv", "push", "ended"}]
    /\ unpacking = [l \in Listeners |-> unpacking[l]]
LateInv ==
    /\ ListenersOK
    /\ late # {} => supervisor.stopdata
    /\ \A d \in late : /\ d.by \in Listeners
                       /\ listening[d.by] # "recv"
                       /\ listening[d.by] = "push" => unpacking[d.by].message = d.message
    /\ OneLateMessageEach

LEMMA LateInvariance == SafeSpec => []LateInv
<1>1. Init => LateInv
  BY DEF Init, SupervisorInit, ServiceInit, LateInv, ListenersOK, OneLateMessageEach, Nothing
<1>2. LateInv /\ [Next]_vars => LateInv'
  <2> SUFFICES ASSUME LateInv, [Next]_vars PROVE LateInv'
    OBVIOUS
  <2> USE DEF service
  <2>1. ASSUME UNCHANGED <<supervisor, listening, unpacking, late>> PROVE LateInv'
    BY <2>1 DEF LateInv, ListenersOK, OneLateMessageEach
  <2>2. ASSUME UNCHANGED <<listening, unpacking, late>>,
               supervisor' = [status |-> supervisor'.status, stopdata |-> supervisor.stopdata,
                              continueall |-> supervisor'.continueall]
        PROVE  LateInv'
    BY <2>2 DEF LateInv, ListenersOK, OneLateMessageEach
  <2>3. ASSUME WriteStopdata PROVE LateInv'
    <3>1. supervisor' = [status |-> supervisor.status, stopdata |-> Argument,
                         continueall |-> supervisor.continueall]
      BY <2>3 DEF WriteStopdata, LateInv, ListenersOK
    <3>2. CASE Argument = supervisor.stopdata
      BY <2>2, <2>3, <3>1, <3>2 DEF WriteStopdata
    <3>3. CASE Argument # supervisor.stopdata
      BY <2>3, <3>1, <3>3 DEF WriteStopdata, LateInv, ListenersOK, OneLateMessageEach
    <3> QED
      BY <3>2, <3>3
  <2>4. ASSUME WriteStatus \/ WriteContinueall PROVE LateInv'
    <3>1. supervisor' = [status |-> supervisor'.status, stopdata |-> supervisor.stopdata,
                         continueall |-> supervisor'.continueall]
      BY <2>4 DEF WriteStatus, WriteContinueall, LateInv, ListenersOK
    <3> QED
      BY <2>2, <2>4, <3>1 DEF WriteStatus, WriteContinueall
  <2>5. ASSUME MainMoves PROVE LateInv'
    <3>1. ASSUME Main, ~WriteStopdata, ~WriteStatus, ~WriteContinueall
          PROVE  UNCHANGED <<supervisor, listening, unpacking, late>>
      BY <3>1 DEF Main, Dispatch, Destroy, JoinService, WriteManager, WriteProcessdata, Clean,
         CleanPop, Drain, NotifyAll, StopWorker, Join, SendInfo, JoinMonitoring
    <3> QED
      BY <2>1, <2>3, <2>4, <2>5, <3>1 DEF MainMoves, GetStatus
  <2>6. ASSUME SenderMoves PROVE LateInv'
    BY <2>1, <2>6 DEF SenderMoves, Sender, SenderCheck, SenderGet, SenderSend
  <2>7. ASSUME NEW w \in Workers, WorkerMoves(w) PROVE LateInv'
    BY <2>1, <2>7 DEF WorkerMoves, Worker, WorkerRun, WorkerEnd, WorkerThrow
  <2>8. ASSUME NEW l \in Listeners, ListenerCheck(l) \/ ListenerTimeout(l) PROVE LateInv'
    <3>1. UNCHANGED <<supervisor, unpacking, late>>
      BY <2>8 DEF ListenerCheck, ListenerTimeout
    <3>2. PICK p \in {"check", "recv", "ended"} : listening' = [listening EXCEPT ![l] = p]
      BY <2>8 DEF ListenerCheck, ListenerTimeout
    <3>3. p = "recv" => late = {}
      BY <2>8, <3>2 DEF ListenerCheck, ListenerTimeout, LateInv, ListenersOK
    <3> QED
      BY <3>1, <3>2, <3>3 DEF LateInv, ListenersOK, OneLateMessageEach
  <2>9. ASSUME NEW l \in Listeners, NEW message, NEW left, Push(l, message, left),
               supervisor' = supervisor, \A d \in late : d.by = l => d.message = message
        PROVE  LateInv'
    <3> DEFINE new == [by |-> l, message |-> message, item |-> pushed']
    <3>1. ListenersOK'
      BY <2>9 DEF Push, LateInv, ListenersOK
    <3>2. /\ listening'[l] \in {"check", "push"}
          /\ listening'[l] = "push" => unpacking'[l].message = message
          /\ \A k \in Listeners \ {l} : listening'[k] = listening[k] /\ unpacking'[k] = unpacking[k]
      BY <2>9 DEF Push, LateInv, ListenersOK
    <3>3. late' = late \/ (supervisor.stopdata /\ late' = late \cup {new})
      BY <2>9 DEF Push
    <3>4. \A d \in late' : d = new \/ d \in late
      BY <3>3
    <3>5. new.by = l /\ new.message = message
      OBVIOUS
    <3> HIDE DEF new
    <3>6. \A d \in late' : /\ d.by \in Listeners
                           /\ listening'[d.by] # "recv"
                           /\ listening'[d.by] = "push" => unpacking'[d.by].message = d.message
                           /\ d.by = l => d.message = message
      BY <2>9, <3>2, <3>4, <3>5 DEF LateInv
    <3>7. OneLateMessageEach'
      BY <3>4, <3>5, <3>6 DEF LateInv, OneLateMessageEach
    <3>8. late' # {} => supervisor'.stopdata
      BY <2>9, <3>3 DEF LateInv
    <3> QED
      BY <3>1, <3>6, <3>7, <3>8 DEF LateInv
  <2>10. ASSUME NEW l \in Listeners, ListenerPush(l) PROVE LateInv'
    BY <2>9, <2>10 DEF ListenerPush, LateInv
  <2>11. ASSUME NEW l \in Listeners, ListenerReceive(l) PROVE LateInv'
    <3>1. listening[l] = "recv" /\ supervisor' = supervisor
      BY <2>11 DEF ListenerReceive
    <3>2. CASE \E n \in ItemCounts : Push(l, pushed + 1, n - 1)
      BY <2>9, <3>1, <3>2 DEF LateInv
    <3>3. CASE listening' = [listening EXCEPT ![l] = "check"] /\ UNCHANGED <<late, unpacking>>
      BY <3>1, <3>3 DEF LateInv, ListenersOK, OneLateMessageEach
    <3> QED
      BY <2>11, <3>2, <3>3 DEF ListenerReceive
  <2>12. ASSUME \/ \E command \in Commands : Receive(command)
                \/ \E signal \in Signals : Interrupt(signal)
         PROVE  LateInv'
    BY <2>1, <2>12 DEF Receive, Interrupt
  <2>13. ASSUME NEW l \in Listeners, ListenerThrow(l) PROVE LateInv'
    BY <2>1, <2>13 DEF ListenerThrow
  <2>14. CASE UNCHANGED vars
    BY <2>1, <2>14 DEF vars
  <2>15. ASSUME NEW l \in Listeners, ListenerMoves(l) PROVE LateInv'
    BY <2>8, <2>10, <2>15 DEF ListenerMoves, Listener
  <2> QED
    BY <2>5, <2>6, <2>7, <2>11, <2>12, <2>13, <2>14, <2>15 DEF Next
<1> QED
  BY <1>1, <1>2, PTL DEF SafeSpec

(* Once stopdata is written, a listener brings no second message.          *)
THEOREM OneLateMessage == SafeSpec => []OneLateMessageEach
<1>1. LateInv => OneLateMessageEach
  BY DEF LateInv
<1> QED
  BY <1>1, LateInvariance, PTL

-----------------------------------------------------------------------------
(* The steps of the main thread and what they carry.                       *)
Statuses == {"Waiting", "Processing", "EndingProcessing", "Shutdown"}
PlainSteps == {"continueall", "info", "joinMonitoring", "managerEnd",
               "drainLp", "drainHp", "drainResults", "gone"}
Steps == ({"command"} \X (Commands \cup {"shutdown", "cleanedshutdown"}))
         \cup ({"status"} \X Statuses)
         \cup ({"stopdata", "managerStopdata"} \X BOOLEAN)
         \cup ({"managerProcessdata"} \X {0, 1})
         \cup ({"processdata"} \X Workers \X {0, 1})
         \cup ({"clean", "pop"} \X {"lp", "hp", "rhp"})
         \cup ({"notify"} \X Queues)
         \cup ({"stopWorker", "join"} \X Workers)
         \cup ({"joinService"} \X (Listeners \cup {"result"}))
         \cup {<<p>> : p \in PlainSteps}

LEMMA StepFacts ==
  ASSUME NEW s \in Steps
  PROVE  /\ s[1] = "command" => s[2] \in Commands \cup {"shutdown", "cleanedshutdown"}
         /\ s[1] = "status" => s[2] \in Statuses
         /\ s[1] \in {"stopdata", "managerStopdata"} => s[2] \in BOOLEAN
         /\ s[1] = "managerProcessdata" => s[2] \in {0, 1}
         /\ s[1] = "processdata" => s[2] \in Workers /\ s[3] \in {0, 1}
         /\ s[1] \in {"clean", "pop"} => s[2] \in {"lp", "hp", "rhp"}
         /\ s[1] = "notify" => s[2] \in Queues
         /\ s[1] \in {"stopWorker", "join"} => s[2] \in Workers
         /\ s[1] = "joinService" => s[2] \in Listeners \cup {"result"}
  BY DEF Steps, PlainSteps

LEMMA StepLiterals ==
  /\ \A c \in Commands \cup {"shutdown", "cleanedshutdown"} : <<"command", c>> \in Steps
  /\ \A s \in Statuses : <<"status", s>> \in Steps
  /\ \A f \in BOOLEAN : <<"stopdata", f>> \in Steps /\ <<"managerStopdata", f>> \in Steps
  /\ \A v \in {0, 1} : <<"managerProcessdata", v>> \in Steps
  /\ \A w \in Workers, v \in {0, 1} : <<"processdata", w, v>> \in Steps
  /\ \A q \in {"lp", "hp", "rhp"} : <<"clean", q>> \in Steps /\ <<"pop", q>> \in Steps
  /\ \A q \in Queues : <<"notify", q>> \in Steps
  /\ \A w \in Workers : <<"stopWorker", w>> \in Steps /\ <<"join", w>> \in Steps
  /\ \A t \in Listeners \cup {"result"} : <<"joinService", t>> \in Steps
  /\ \A p \in PlainSteps : <<p>> \in Steps
  BY DEF Steps

LEMMA WorkersAreNumbered ==
  /\ Workers = 0..(NumWorkers - 1)
  /\ \A w \in Workers : w + 1 \in 1..NumWorkers /\ (w + 1) - 1 = w
  /\ \A i \in 1..NumWorkers : i - 1 \in Workers
  BY SizesAssumption DEF Workers, W!Workers

(* Lists of steps.  Will(s, i, w): after position i, s stops worker w.     *)
Will(s, i, w) == \E j \in 1..Len(s) : j > i /\ s[j][1] = "stopWorker" /\ s[j][2] = w
Stopping(s) == \A i \in 1..Len(s) : s[i][1] = "continueall" => \A w \in Workers : Will(s, i, w)
Endless(s) == \A i \in 1..Len(s) : s[i][1] \notin {"joinService", "gone"}
CommandList(s) == s \in Seq(Steps) /\ Stopping(s) /\ Endless(s)
Quiet(s) == /\ s \in Seq(Steps)
            /\ \A i \in 1..Len(s) : s[i][1] \notin {"continueall", "joinService", "gone"}

LEMMA ConcatFacts ==
  ASSUME NEW s \in Seq(Steps), NEW t \in Seq(Steps)
  PROVE  /\ s \o t \in Seq(Steps) /\ Len(s \o t) = Len(s) + Len(t)
         /\ Len(s) \in Nat /\ Len(t) \in Nat
         /\ \A i \in 1..Len(s) : i \in 1..Len(s \o t) /\ (s \o t)[i] = s[i]
         /\ \A i \in 1..Len(t) : Len(s) + i \in 1..Len(s \o t) /\ (s \o t)[Len(s) + i] = t[i]
         /\ \A i \in 1..Len(s \o t) :
               \/ i \in 1..Len(s) /\ (s \o t)[i] = s[i]
               \/ i > Len(s) /\ i - Len(s) \in 1..Len(t) /\ (s \o t)[i] = t[i - Len(s)]
                  /\ i = Len(s) + (i - Len(s))
  BY ConcatProperties, LenProperties

LEMMA WillConcat ==
  ASSUME NEW s \in Seq(Steps), NEW t \in Seq(Steps), NEW w
  PROVE  /\ \A i \in 1..Len(s) : Will(s, i, w) => Will(s \o t, i, w)
         /\ \A i \in 0..Len(t) : Will(t, i, w) => Will(s \o t, Len(s) + i, w)
         /\ Will(t, 0, w) => \A i \in 0..Len(s) : Will(s \o t, i, w)
<1>1. ASSUME NEW i \in 1..Len(s), Will(s, i, w) PROVE Will(s \o t, i, w)
  BY <1>1, ConcatFacts DEF Will
<1>2. ASSUME NEW i \in 0..Len(t), Will(t, i, w) PROVE Will(s \o t, Len(s) + i, w)
  <2>1. PICK j \in 1..Len(t) : j > i /\ t[j][1] = "stopWorker" /\ t[j][2] = w
    BY <1>2 DEF Will
  <2>2. Len(s) + j \in 1..Len(s \o t) /\ (s \o t)[Len(s) + j] = t[j] /\ Len(s) + j > Len(s) + i
    BY <2>1, ConcatFacts
  <2> QED
    BY <2>1, <2>2 DEF Will
<1>3. ASSUME NEW i \in 0..Len(s), Will(t, 0, w) PROVE Will(s \o t, i, w)
  <2>1. PICK j \in 1..Len(t) : t[j][1] = "stopWorker" /\ t[j][2] = w
    BY <1>3 DEF Will
  <2>2. Len(s) + j \in 1..Len(s \o t) /\ (s \o t)[Len(s) + j] = t[j] /\ Len(s) + j > i
    BY <2>1, ConcatFacts
  <2> QED
    BY <2>1, <2>2 DEF Will
<1> QED
  BY <1>1, <1>2, <1>3

LEMMA StoppingConcat ==
  ASSUME NEW s \in Seq(Steps), NEW t \in Seq(Steps), Stopping(s), Stopping(t)
  PROVE  Stopping(s \o t)
<1> SUFFICES ASSUME NEW i \in 1..Len(s \o t), (s \o t)[i][1] = "continueall", NEW w \in Workers
             PROVE  Will(s \o t, i, w)
  BY DEF Stopping
<1>1. CASE i \in 1..Len(s) /\ (s \o t)[i] = s[i]
  BY <1>1, WillConcat DEF Stopping
<1>2. CASE i - Len(s) \in 1..Len(t) /\ (s \o t)[i] = t[i - Len(s)] /\ i = Len(s) + (i - Len(s))
  <2> DEFINE k == i - Len(s)
  <2>1. k \in 1..Len(t) /\ (s \o t)[i] = t[k] /\ i = Len(s) + k
    BY <1>2
  <2> HIDE DEF k
  <2>2. Will(t, k, w) /\ k \in 0..Len(t)
    BY <2>1 DEF Stopping
  <2> QED
    BY <2>1, <2>2, WillConcat
<1> QED
  BY <1>1, <1>2, ConcatFacts

LEMMA QuietConcat ==
  ASSUME NEW s, NEW t, Quiet(s), Quiet(t)
  PROVE  Quiet(s \o t)
  BY ConcatFacts DEF Quiet

LEMMA CommandConcat ==
  ASSUME NEW s, NEW t, CommandList(s), CommandList(t)
  PROVE  CommandList(s \o t)
<1>1. s \o t \in Seq(Steps) /\ Stopping(s \o t)
  BY StoppingConcat, ConcatFacts DEF CommandList
<1>2. Endless(s \o t)
  BY ConcatFacts DEF CommandList, Endless
<1> QED
  BY <1>1, <1>2 DEF CommandList

LEMMA QuietIsCommand ==
  ASSUME NEW s, Quiet(s)
  PROVE  CommandList(s)
  BY DEF Quiet, CommandList, Stopping, Endless

LEMMA QuietLiterals ==
  ASSUME NEW a \in Steps, a[1] \notin {"continueall", "joinService", "gone"}
  PROVE  /\ Quiet(<<a>>)
         /\ \A b \in Steps : b[1] \notin {"continueall", "joinService", "gone"} =>
               /\ Quiet(<<a, b>>)
               /\ \A c \in Steps : c[1] \notin {"continueall", "joinService", "gone"} =>
                     /\ Quiet(<<a, b, c>>)
                     /\ \A d \in Steps : d[1] \notin {"continueall", "joinService", "gone"} =>
                           Quiet(<<a, b, c, d>>)
  BY DEF Quiet

(* The lists of the commands.                                              *)
LEMMA Literals ==
  /\ \A f \in BOOLEAN : Quiet(SetStopdata(f))
  /\ Quiet(CleanQueue)
  /\ \A s \in Statuses : Quiet(<< <<"status", s>> >>)
  /\ Quiet(<< <<"drainLp">>, <<"drainResults">> >>)
  /\ Quiet(<<>>) /\ Quiet(<< <<"info">> >>)
  /\ \A q \in {"lp", "hp", "rhp"} : Quiet(<< <<"pop", q>> >>)
  /\ Quiet(<< <<"drainHp">> >>) /\ Quiet(<< <<"drainLp">> >>)
  /\ \A w \in Workers : Quiet(<< <<"join", w>> >>)
  /\ \A c \in Commands \cup {"shutdown", "cleanedshutdown"} : Quiet(<< <<"command", c>> >>)
<1>1. \A f \in BOOLEAN : Quiet(SetStopdata(f))
  BY StepLiterals, QuietLiterals DEF SetStopdata
<1>2. Quiet(CleanQueue)
  BY StepLiterals, QuietLiterals DEF CleanQueue
<1>3. <<"drainLp">> \in Steps /\ <<"drainHp">> \in Steps /\ <<"drainResults">> \in Steps
  BY StepLiterals DEF PlainSteps
<1>4. Quiet(<< <<"drainLp">>, <<"drainResults">> >>)
      /\ Quiet(<< <<"drainHp">> >>) /\ Quiet(<< <<"drainLp">> >>)
  BY <1>3, QuietLiterals
<1>5. Quiet(<<>>)
  BY DEF Quiet
<1>6. Quiet(<< <<"info">> >>)
  BY StepLiterals, QuietLiterals DEF PlainSteps
<1> QED
  BY <1>1, <1>2, <1>4, <1>5, <1>6, StepLiterals, QuietLiterals

LEMMA WorkerLists ==
  /\ \A v \in {0, 1} : Quiet(ForEachWorker(LAMBDA w : <<"processdata", w, v>>))
  /\ Quiet(ForEachWorker(LAMBDA w : <<"stopWorker", w>>))
  /\ \A u \in Workers : Will(ForEachWorker(LAMBDA w : <<"stopWorker", w>>), 0, u)
<1>0. ASSUME NEW f, f = [i \in 1..NumWorkers |-> f[i]], \A i \in 1..NumWorkers : f[i] \in Steps
      PROVE  f \in Seq(Steps) /\ Len(f) = NumWorkers
  BY <1>0, SizesAssumption, SeqDef, LenProperties
<1>1. ASSUME NEW v \in {0, 1}
      PROVE  Quiet(ForEachWorker(LAMBDA w : <<"processdata", w, v>>))
  <2> DEFINE f == [i \in 1..NumWorkers |-> <<"processdata", i - 1, v>>]
  <2>1. \A i \in 1..NumWorkers : f[i] \in Steps /\ f[i][1] = "processdata"
    BY StepLiterals, WorkersAreNumbered
  <2>2. f = [i \in 1..NumWorkers |-> f[i]]
    OBVIOUS
  <2> HIDE DEF f
  <2>3. Quiet(f)
    BY <1>0, <2>1, <2>2 DEF Quiet
  <2> QED
    BY <2>3 DEF f, ForEachWorker
<1> DEFINE g == [i \in 1..NumWorkers |-> <<"stopWorker", i - 1>>]
<1>2. \A i \in 1..NumWorkers : g[i] \in Steps /\ g[i][1] = "stopWorker" /\ g[i][2] = i - 1
  BY StepLiterals, WorkersAreNumbered
<1>3. g = [i \in 1..NumWorkers |-> g[i]]
  OBVIOUS
<1> HIDE DEF g
<1>4. g \in Seq(Steps) /\ Len(g) = NumWorkers
  BY <1>0, <1>2, <1>3
<1>5. Quiet(g)
  BY <1>2, <1>4 DEF Quiet
<1>6. ASSUME NEW u \in Workers PROVE Will(g, 0, u)
  <2>1. u + 1 \in 1..NumWorkers /\ (u + 1) - 1 = u /\ u + 1 > 0
    BY WorkersAreNumbered
  <2> QED
    BY <1>2, <1>4, <2>1 DEF Will
<1>7. g = ForEachWorker(LAMBDA w : <<"stopWorker", w>>)
  BY DEF g, ForEachWorker
<1> QED
  BY <1>1, <1>5, <1>6, <1>7

LEMMA ProcessingLists ==
  /\ \A v \in {0, 1} : Quiet(SetProcessing(v))
  /\ Quiet(CommandStart) /\ Quiet(CommandStop)
<1>1. ASSUME NEW v \in {0, 1} PROVE Quiet(SetProcessing(v))
  <2> DEFINE l == << <<"status", IF v = 1 THEN "Processing" ELSE "Waiting">>,
                     <<"managerProcessdata", v>> >>
             f == ForEachWorker(LAMBDA w : <<"processdata", w, v>>)
  <2>1. <<"status", IF v = 1 THEN "Processing" ELSE "Waiting">> \in Steps
        /\ <<"managerProcessdata", v>> \in Steps
    BY StepLiterals DEF Statuses
  <2>2. Quiet(l)
    BY <2>1, QuietLiterals
  <2>3. Quiet(f)
    BY WorkerLists
  <2>4. SetProcessing(v) = l \o f
    BY DEF SetProcessing
  <2> HIDE DEF l, f
  <2> QED
    BY <2>2, <2>3, <2>4, QuietConcat
<1>2. Quiet(SetProcessing(0)) /\ Quiet(SetProcessing(1))
      /\ Quiet(SetStopdata(TRUE)) /\ Quiet(SetStopdata(FALSE))
  BY <1>1, Literals
<1>3. Quiet(CommandStart) /\ Quiet(CommandStop)
  BY <1>2, QuietConcat DEF CommandStart, CommandStop
<1> QED
  BY <1>1, <1>3

(* WorkerManager::stop stops every worker.                                 *)
LEMMA ManagerStopStopsAll == Quiet(ManagerStop) /\ \A w \in Workers : Will(ManagerStop, 0, w)
<1> DEFINE a == << <<"notify", "lp">>, <<"notify", "hp">>, <<"notify", "rlp">>, <<"notify", "rhp">> >>
           g == ForEachWorker(LAMBDA w : <<"stopWorker", w>>)
           z == << <<"joinMonitoring">>, <<"managerEnd">> >>
<1>1. Quiet(a)
  BY StepLiterals, QuietLiterals DEF Queues
<1>2. Quiet(g) /\ \A w \in Workers : Will(g, 0, w)
  BY WorkerLists
<1>3. Quiet(z)
  BY StepLiterals, QuietLiterals DEF PlainSteps
<1>4. ManagerStop = (a \o g) \o z
  BY DEF ManagerStop
<1> HIDE DEF a, g, z
<1>5. Quiet(a \o g)
  BY <1>1, <1>2, QuietConcat
<1>6. ASSUME NEW w \in Workers PROVE Will((a \o g) \o z, 0, w)
  <2>1. Will(a \o g, 0, w)
    <3>1. a \in Seq(Steps) /\ g \in Seq(Steps) /\ 0 \in 0..Len(a)
      BY <1>1, <1>2, LenProperties DEF Quiet
    <3> QED
      BY <1>2, <3>1, WillConcat
  <2>2. PICK j \in 1..Len(a \o g) : (a \o g)[j][1] = "stopWorker" /\ (a \o g)[j][2] = w
    BY <2>1 DEF Will
  <2>3. j \in 1..Len((a \o g) \o z) /\ ((a \o g) \o z)[j] = (a \o g)[j] /\ j > 0
    BY <1>3, <1>5, ConcatFacts DEF Quiet
  <2> QED
    BY <2>2, <2>3 DEF Will
<1> QED
  BY <1>3, <1>4, <1>5, <1>6, QuietConcat

LEMMA StoppingPrefix ==
  ASSUME NEW s \in Seq(Steps), NEW t \in Seq(Steps), Quiet(t), Endless(s),
         \A w \in Workers : Will(t, 0, w)
  PROVE  CommandList(s \o t)
<1>1. s \o t \in Seq(Steps)
  BY ConcatFacts
<1>2. Endless(s \o t)
  BY ConcatFacts DEF Endless, Quiet
<1>3. ASSUME NEW i \in 1..Len(s \o t), (s \o t)[i][1] = "continueall", NEW w \in Workers
      PROVE  Will(s \o t, i, w)
  <2>1. i \in 1..Len(s)
    BY <1>3, ConcatFacts DEF Quiet
  <2>2. i \in 0..Len(s)
    BY <2>1, ConcatFacts
  <2> QED
    BY <2>2, WillConcat
<1> QED
  BY <1>1, <1>2, <1>3 DEF CommandList, Stopping

LEMMA ShutdownList == CommandList(CommandShutdown)
<1> DEFINE c == << <<"continueall">> >>
<1>1. <<"continueall">> \in Steps
  BY StepLiterals DEF PlainSteps
<1>2. c \in Seq(Steps) /\ Endless(c)
  BY <1>1 DEF Endless
<1>3. StopAll = (c \o CommandStop) \o ManagerStop
  BY DEF StopAll
<1> HIDE DEF c
<1>4. CommandStop \in Seq(Steps) /\ Endless(CommandStop) /\ ManagerStop \in Seq(Steps)
  BY ProcessingLists, ManagerStopStopsAll DEF Quiet, Endless
<1>5. c \o CommandStop \in Seq(Steps)
  BY <1>2, <1>4, ConcatFacts
<1>6. Endless(c \o CommandStop)
  <2> SUFFICES ASSUME NEW i \in 1..Len(c \o CommandStop)
               PROVE  (c \o CommandStop)[i][1] \notin {"joinService", "gone"}
    BY DEF Endless
  <2>1. CASE i \in 1..Len(c) /\ (c \o CommandStop)[i] = c[i]
    BY <1>2, <2>1 DEF Endless
  <2>2. CASE i - Len(c) \in 1..Len(CommandStop)
             /\ (c \o CommandStop)[i] = CommandStop[i - Len(c)]
    BY <1>4, <2>2 DEF Endless
  <2> QED
    BY <1>2, <1>4, <2>1, <2>2, ConcatFacts
<1>7. CommandList(StopAll)
  BY <1>3, <1>4, <1>5, <1>6, ManagerStopStopsAll, StoppingPrefix
<1>8. CommandList(<< <<"status", "Shutdown">> >>)
  BY Literals, QuietIsCommand DEF Statuses
<1> QED
  BY <1>7, <1>8, CommandConcat DEF CommandShutdown

LEMMA CommandsAreLists ==
  ASSUME NEW c \in Commands \cup {"shutdown", "cleanedshutdown"}, c # "getstatus"
  PROVE  CommandList(StepsOf(c))
<1> USE DEF Statuses
<1>1. CommandList(CommandReset)
  <2>1. Quiet(CommandStop \o CleanQueue \o << <<"status", "Waiting">> >>)
    BY Literals, ProcessingLists, QuietConcat
  <2> QED
    BY <2>1, Literals, QuietIsCommand DEF CommandReset
<1>2. CommandList(CommandCleanedShutdown)
  <2>1. Quiet(<< <<"status", "EndingProcessing">> >> \o SetStopdata(TRUE)
              \o << <<"drainLp">>, <<"drainResults">> >>)
    BY Literals, QuietConcat
  <2> QED
    BY <2>1, Literals, QuietIsCommand, ShutdownList, CommandConcat DEF CommandCleanedShutdown
<1>3. CommandList(CommandStart) /\ CommandList(CommandStop)
      /\ CommandList(SetProcessing(1)) /\ CommandList(SetProcessing(0))
      /\ CommandList(SetStopdata(FALSE)) /\ CommandList(SetStopdata(TRUE))
  BY Literals, ProcessingLists, QuietIsCommand
<1> QED
  BY <1>1, <1>2, <1>3, ShutdownList, CommandsAssumption DEF StepsOf

-----------------------------------------------------------------------------
(* Shutting down.  Whoever reaches the end of the list has passed the      *)
(* steps that stop and join every worker: a worker that still runs is      *)
(* either told to stop, and then a join of it is still to come, or, once   *)
(* continueall is false, a stop of it is.  A signal handler may put its    *)
(* list before any rest of any other and find the worker already told to   *)
(* stop: the join is then in the rest.                                     *)
Joined(s, w) == \E j \in 1..Len(s) : s[j][1] = "join" /\ s[j][2] = w
Ending(s) == \E j \in 1..Len(s) : s[j][1] \in {"joinService", "gone"}
Todo(s, stoppedWorkers, runningWorkers, goesOn) ==
    /\ s \in Seq(Steps)
    /\ Stopping(s)
    /\ Ending(s) => runningWorkers = {}
    /\ \A w \in runningWorkers : w \in Workers
    /\ \A w \in runningWorkers : w \in stoppedWorkers => Joined(s, w)
    /\ \A w \in runningWorkers : ~goesOn /\ w \notin stoppedWorkers => Will(s, 0, w)
JoinInv == /\ supervisor.continueall \in BOOLEAN
           /\ Todo(todo, stopEvent, running, supervisor.continueall)

LEMMA EmptyTodo ==
  ASSUME NEW e, NEW r, Todo(<<>>, e, r, FALSE)
  PROVE  r = {}
  BY DEF Todo, Joined, Will

LEMMA EmptyList == Todo(<<>>, {}, Workers, TRUE)
<1>1. <<>> \in Seq(Steps) /\ Stopping(<<>>) /\ ~Ending(<<>>)
  BY DEF Stopping, Ending
<1> QED
  BY <1>1 DEF Todo

LEMMA TailFacts ==
  ASSUME NEW s \in Seq(Steps), s # <<>>
  PROVE  /\ Head(s) = s[1] /\ s[1] \in Steps /\ 1 \in 1..Len(s)
         /\ Tail(s) \in Seq(Steps) /\ Len(s) \in Nat /\ Len(Tail(s)) = Len(s) - 1
         /\ \A i \in 1..Len(Tail(s)) : i + 1 \in 1..Len(s) /\ Tail(s)[i] = s[i + 1]
         /\ \A i \in 1..Len(s) : i = 1 \/ (i - 1 \in 1..Len(Tail(s)) /\ Tail(s)[i - 1] = s[i])
  BY HeadTailProperties, EmptySeq, LenProperties

(* One step is done.                                                       *)
LEMMA TodoTail ==
  ASSUME NEW s, NEW e, NEW r, NEW c \in BOOLEAN, Todo(s, e, r, c), s # <<>>,
         s[1][1] = "join" => s[1][2] \notin r,
         s[1][1] = "stopWorker" => s[1][2] \in e
  PROVE  Todo(Tail(s), e, r, c /\ s[1][1] # "continueall")
<1> DEFINE t == Tail(s)
<1>0. s \in Seq(Steps)
  BY DEF Todo
<1>1. /\ t \in Seq(Steps) /\ Len(t) \in Nat /\ 1 \in 1..Len(s)
      /\ \A i \in 1..Len(t) : i + 1 \in 1..Len(s) /\ t[i] = s[i + 1]
      /\ \A i \in 1..Len(s) : i = 1 \/ (i - 1 \in 1..Len(t) /\ t[i - 1] = s[i])
  BY <1>0, TailFacts, LenProperties
<1> HIDE DEF t
<1>2. ASSUME NEW i \in 0..Len(t), NEW w, Will(s, i + 1, w) PROVE Will(t, i, w)
  <2>1. PICK j \in 1..Len(s) : j > i + 1 /\ s[j][1] = "stopWorker" /\ s[j][2] = w
    BY <1>2 DEF Will
  <2>2. j - 1 \in 1..Len(t) /\ t[j - 1] = s[j] /\ j - 1 > i
    BY <1>1, <2>1
  <2> QED
    BY <2>1, <2>2 DEF Will
<1>3. Stopping(t)
  <2> SUFFICES ASSUME NEW i \in 1..Len(t), t[i][1] = "continueall", NEW w \in Workers
               PROVE  Will(t, i, w)
    BY DEF Stopping
  <2>1. Will(s, i + 1, w)
    BY <1>1 DEF Todo, Stopping
  <2> QED
    BY <1>1, <1>2, <2>1
<1>4. Ending(t) => r = {}
  <2>1. Ending(t) => Ending(s)
    BY <1>1 DEF Ending
  <2> QED
    BY <2>1 DEF Todo
<1>5. ASSUME NEW w \in r, w \in e PROVE Joined(t, w)
  <2>1. PICK j \in 1..Len(s) : s[j][1] = "join" /\ s[j][2] = w
    BY <1>5 DEF Todo, Joined
  <2>2. j - 1 \in 1..Len(t) /\ t[j - 1] = s[j]
    BY <1>1, <2>1
  <2> QED
    BY <2>1, <2>2 DEF Joined
<1>6. ASSUME NEW w \in r, ~(c /\ s[1][1] # "continueall"), w \notin e PROVE Will(t, 0, w)
  <2>1. CASE s[1][1] = "continueall"
    <3>1. w \in Workers /\ Will(s, 1, w)
      BY <1>1, <2>1 DEF Todo, Stopping
    <3> QED
      BY <1>1, <1>2, <3>1
  <2>2. CASE ~c
    <3>1. PICK j \in 1..Len(s) : s[j][1] = "stopWorker" /\ s[j][2] = w
      BY <1>6, <2>2 DEF Todo, Will
    <3>2. j - 1 \in 1..Len(t) /\ t[j - 1] = s[j] /\ j - 1 > 0
      BY <1>1, <1>6, <3>1
    <3> QED
      BY <3>1, <3>2 DEF Will
  <2> QED
    BY <1>6, <2>1, <2>2
<1>7. \A w \in r : w \in Workers
  BY DEF Todo
<1> QED
  BY <1>1, <1>3, <1>4, <1>5, <1>6, <1>7 DEF Todo, t

(* A list is put in front: of a command, of a signal handler.              *)
LEMMA TodoPrefix ==
  ASSUME NEW p, CommandList(p), NEW s, NEW e, NEW r, NEW c \in BOOLEAN, Todo(s, e, r, c)
  PROVE  Todo(p \o s, e, r, c)
<1>1. p \in Seq(Steps) /\ s \in Seq(Steps) /\ Stopping(p) /\ Stopping(s) /\ Endless(p)
  BY DEF Todo, CommandList
<1>2. p \o s \in Seq(Steps) /\ Stopping(p \o s)
  BY <1>1, ConcatFacts, StoppingConcat
<1>3. Ending(p \o s) => r = {}
  <2> SUFFICES ASSUME NEW j \in 1..Len(p \o s), (p \o s)[j][1] \in {"joinService", "gone"}
               PROVE  r = {}
    BY DEF Ending
  <2>1. j - Len(p) \in 1..Len(s) /\ (p \o s)[j] = s[j - Len(p)]
    BY <1>1, ConcatFacts DEF Endless
  <2>2. Ending(s)
    BY <2>1 DEF Ending
  <2> QED
    BY <2>2 DEF Todo
<1>4. ASSUME NEW w \in r, w \in e PROVE Joined(p \o s, w)
  <2>1. PICK j \in 1..Len(s) : s[j][1] = "join" /\ s[j][2] = w
    BY <1>4 DEF Todo, Joined
  <2> QED
    BY <1>1, <2>1, ConcatFacts DEF Joined
<1>5. ASSUME NEW w \in r, ~c, w \notin e PROVE Will(p \o s, 0, w)
  <2>1. Will(s, 0, w) /\ 0 \in 0..Len(p)
    BY <1>1, <1>5, LenProperties DEF Todo
  <2> QED
    BY <1>1, <2>1, WillConcat
<1>6. \A w \in r : w \in Workers
  BY DEF Todo
<1> QED
  BY <1>2, <1>3, <1>4, <1>5, <1>6 DEF Todo


LEMMA DestructorList ==
  ASSUME NEW e, NEW r, NEW c, r = {}
  PROVE  Todo(Destructor, e, r, c)
<1>1. /\ <<"joinService", "lp">> \in Steps /\ <<"joinService", "hp">> \in Steps
      /\ <<"joinService", "result">> \in Steps /\ <<"gone">> \in Steps
  BY StepLiterals DEF Listeners, PlainSteps
<1>2. Destructor \in Seq(Steps)
  BY <1>1 DEF Destructor
<1>3. Stopping(Destructor)
  BY DEF Destructor, Stopping
<1> QED
  BY <1>2, <1>3 DEF Todo

(* What one step of the main thread does to the list.                      *)
LEMMA TodoReplace ==
  ASSUME NEW p, Quiet(p), NEW s, NEW e, NEW r, NEW c \in BOOLEAN, Todo(s, e, r, c), s # <<>>,
         s[1][1] \notin {"join", "stopWorker", "continueall"}
  PROVE  Todo(p \o Tail(s), e, r, c) /\ Todo(Tail(s), e, r, c)
<1>1. Todo(Tail(s), e, r, c)
  BY TodoTail
<1> QED
  BY <1>1, TodoPrefix, QuietIsCommand

(* WorkerThread::stop, called for the first time: the join is to come.     *)
LEMMA TodoStop ==
  ASSUME NEW s, NEW e, NEW r, NEW c \in BOOLEAN, Todo(s, e, r, c), s # <<>>,
         NEW w \in Workers, s[1][1] = "stopWorker", s[1][2] = w
  PROVE  Todo(<< <<"join", w>> >> \o Tail(s), e \cup {w}, r, c)
<1> DEFINE p == << <<"join", w>> >>
           f == e \cup {w}
<1>1. Todo(s, f, r \ {w}, c)
  BY DEF Todo
<1>2. Todo(Tail(s), f, r \ {w}, c)
  BY <1>1, TodoTail
<1>3. CommandList(p)
  BY Literals, QuietIsCommand
<1>4. Todo(p \o Tail(s), f, r \ {w}, c)
  BY <1>2, <1>3, TodoPrefix
<1>5. Joined(p \o Tail(s), w)
  <2>1. p \in Seq(Steps) /\ Tail(s) \in Seq(Steps)
    BY <1>2, <1>3 DEF Todo, CommandList
  <2>2. 1 \in 1..Len(p) /\ p[1][1] = "join" /\ p[1][2] = w
    OBVIOUS
  <2> HIDE DEF p
  <2>3. 1 \in 1..Len(p \o Tail(s)) /\ (p \o Tail(s))[1] = p[1]
    BY <2>1, <2>2, ConcatFacts
  <2> QED
    BY <2>2, <2>3 DEF Joined
<1>6. Ending(p \o Tail(s)) => r = {}
  <2>1. p \in Seq(Steps) /\ Endless(p)
    BY <1>3 DEF CommandList
  <2>2. /\ s \in Seq(Steps) /\ Tail(s) \in Seq(Steps)
        /\ \A i \in 1..Len(Tail(s)) : i + 1 \in 1..Len(s) /\ Tail(s)[i] = s[i + 1]
    BY TailFacts DEF Todo
  <2> HIDE DEF p
  <2>3. Ending(p \o Tail(s)) => Ending(Tail(s))
    <3> SUFFICES ASSUME NEW j \in 1..Len(p \o Tail(s)),
                        (p \o Tail(s))[j][1] \in {"joinService", "gone"}
                 PROVE  Ending(Tail(s))
      BY DEF Ending
    <3>1. j - Len(p) \in 1..Len(Tail(s)) /\ (p \o Tail(s))[j] = Tail(s)[j - Len(p)]
      BY <2>1, <2>2, ConcatFacts DEF Endless
    <3> QED
      BY <3>1 DEF Ending
  <2>4. Ending(Tail(s)) => Ending(s)
    BY <2>2 DEF Ending
  <2> QED
    BY <2>3, <2>4 DEF Todo
<1> HIDE DEF p
<1> QED
  BY <1>4, <1>5, <1>6 DEF Todo, p

LEMMA TodoInvariance == SafeSpec => []JoinInv
<1>1. Init => JoinInv
  <2> SUFFICES ASSUME Init PROVE JoinInv
    OBVIOUS
  <2>1. todo = <<>> /\ stopEvent = {} /\ running = Workers /\ supervisor.continueall = TRUE
    BY DEF Init, SupervisorInit
  <2> QED
    BY <2>1, EmptyList DEF JoinInv
<1>2. LateInv /\ JoinInv /\ [Next]_vars => JoinInv'
  <2> SUFFICES ASSUME LateInv, JoinInv, [Next]_vars PROVE JoinInv'
    OBVIOUS
  <2> USE DEF shutdown
  <2>0. /\ todo \in Seq(Steps) /\ supervisor.continueall \in BOOLEAN
        /\ Todo(todo, stopEvent, running, supervisor.continueall)
    BY DEF JoinInv, Todo
  <2>1. todo # <<>> => Head(todo) = todo[1] /\ todo[1] \in Steps
    BY <2>0, TailFacts
  <2>2. ASSUME UNCHANGED <<todo, stopEvent, supervisor>>, running' \subseteq running PROVE JoinInv'
    BY <2>2 DEF JoinInv, Todo
  <2>3. ASSUME Done, todo # <<>>, UNCHANGED <<stopEvent, running>>,
               supervisor'.continueall = (supervisor.continueall /\ todo[1][1] # "continueall"),
               todo[1][1] = "join" => todo[1][2] \notin running,
               todo[1][1] = "stopWorker" => todo[1][2] \in stopEvent
        PROVE  JoinInv'
    <3>1. Todo(Tail(todo), stopEvent, running, supervisor.continueall /\ todo[1][1] # "continueall")
      BY <2>0, <2>3, TodoTail
    <3> QED
      BY <2>3, <3>1 DEF JoinInv, Done
  <2>4. ASSUME Done, todo # <<>>, UNCHANGED <<stopEvent, running>>,
               supervisor'.continueall = supervisor.continueall,
               todo[1][1] \notin {"join", "stopWorker", "continueall"}
        PROVE  JoinInv'
    BY <2>0, <2>3, <2>4
  <2>5. ASSUME NEW p, CommandList(p), todo' = p \o todo \/ (todo' = p \o Tail(todo) /\ todo # <<>>),
               UNCHANGED <<stopEvent, running>>,
               supervisor'.continueall = supervisor.continueall,
               todo' = p \o todo \/ todo[1][1] \notin {"join", "stopWorker", "continueall"}
        PROVE  JoinInv'
    <3>1. CASE todo' = p \o todo
      BY <2>0, <2>5, <3>1, TodoPrefix DEF JoinInv
    <3>2. CASE todo' = p \o Tail(todo) /\ todo # <<>>
               /\ todo[1][1] \notin {"join", "stopWorker", "continueall"}
      <4>1. Todo(Tail(todo), stopEvent, running, supervisor.continueall)
        BY <2>0, <3>2, TodoTail
      <4> QED
        BY <2>0, <2>5, <3>2, <4>1, TodoPrefix DEF JoinInv
    <3> QED
      BY <2>5, <3>1, <3>2
  <2>6. CASE WriteStopdata \/ WriteContinueall
    <3>1. /\ Done /\ todo # <<>> /\ UNCHANGED <<stopEvent, running>>
          /\ todo[1][1] \in {"stopdata", "continueall"}
      BY <2>1, <2>6 DEF WriteStopdata, WriteContinueall, At
    <3>2. supervisor'.continueall = (supervisor.continueall /\ todo[1][1] # "continueall")
      BY <2>0, <2>1, <2>6 DEF WriteStopdata, WriteContinueall, At, LateInv, ListenersOK
    <3> QED
      BY <2>3, <3>1, <3>2
  <2>6a. CASE WriteStatus \/ WriteManager
    <3>1. /\ todo # <<>> /\ UNCHANGED <<stopEvent, running>>
          /\ todo[1][1] \in {"status", "managerStopdata", "managerProcessdata", "managerEnd"}
          /\ Done \/ todo' = << <<"info">> >> \o Tail(todo)
      BY <2>1, <2>6a DEF WriteStatus, WriteManager, At, Announce
    <3>2. supervisor'.continueall = supervisor.continueall
      BY <2>6a DEF WriteStatus, WriteManager, LateInv, ListenersOK
    <3>3. CommandList(<< <<"info">> >>)
      BY Literals, QuietIsCommand
    <3> QED
      BY <2>4, <2>5, <3>1, <3>2, <3>3
  <2>7. CASE WriteProcessdata \/ SendInfo \/ CleanPop \/ JoinService \/ JoinMonitoring
    <3>1. /\ Done /\ todo # <<>> /\ UNCHANGED <<stopEvent, running, supervisor>>
          /\ todo[1][1] \notin {"join", "stopWorker", "continueall"}
      BY <2>1, <2>7 DEF WriteProcessdata, SendInfo, CleanPop, JoinService, JoinMonitoring, At
    <3> QED
      BY <2>4, <3>1
  <2>8. CASE NotifyAll \/ Join
    <3>1. /\ Done /\ todo # <<>> /\ UNCHANGED <<stopEvent, running, supervisor>>
          /\ todo[1][1] \in {"notify", "join"}
          /\ todo[1][1] = "join" => todo[1][2] \notin running
      BY <2>1, <2>8 DEF NotifyAll, Join, At, Argument
    <3> QED
      BY <2>0, <2>3, <3>1
  <2>9. CASE Dispatch
    <3>1. /\ todo # <<>> /\ UNCHANGED <<stopEvent, running, supervisor>>
          /\ todo[1][1] = "command" /\ todo[1][2] # "getstatus"
          /\ todo' = StepsOf(todo[1][2]) \o Tail(todo)
      BY <2>1, <2>9 DEF Dispatch, At, Argument
    <3>2. CommandList(StepsOf(todo[1][2]))
      BY <2>1, <3>1, StepFacts, CommandsAreLists
    <3> QED
      BY <2>5, <3>1, <3>2
  <2>10. CASE Destroy
    <3>1. /\ todo = <<>> /\ todo' = Destructor /\ UNCHANGED <<stopEvent, running, supervisor>>
          /\ supervisor.continueall = FALSE
      BY <2>0, <2>10 DEF Destroy
    <3>2. running = {}
      BY <2>0, <3>1, EmptyTodo
    <3>3. Todo(Destructor, stopEvent, running, FALSE)
      BY <3>2, DestructorList
    <3> QED
      BY <3>1, <3>3 DEF JoinInv
  <2>11. CASE Clean
    <3>1. /\ todo # <<>> /\ UNCHANGED <<stopEvent, running, supervisor>>
          /\ todo[1][1] = "clean"
          /\ Done \/ todo' = << <<"pop", todo[1][2]>> >> \o todo
      BY <2>1, <2>11 DEF Clean, At, Argument, Done
    <3>2. CommandList(<< <<"pop", todo[1][2]>> >>)
      BY <2>1, <3>1, StepFacts, Literals, QuietIsCommand
    <3> QED
      BY <2>4, <2>5, <3>1, <3>2
  <2>12. CASE Drain
    <3>1. /\ todo # <<>> /\ UNCHANGED <<stopEvent, running, supervisor>>
          /\ todo[1][1] \in {"drainLp", "drainHp", "drainResults"}
          /\ \/ Done
             \/ todo' = << <<"drainHp">> >> \o Tail(todo)
             \/ todo' = << <<"drainLp">> >> \o Tail(todo)
      BY <2>1, <2>12 DEF Drain, At
    <3>2. CommandList(<< <<"drainHp">> >>) /\ CommandList(<< <<"drainLp">> >>)
      BY Literals, QuietIsCommand
    <3> QED
      BY <2>4, <2>5, <3>1, <3>2
  <2>13. CASE StopWorker
    <3>1. /\ todo # <<>> /\ UNCHANGED <<running, supervisor>>
          /\ todo[1][1] = "stopWorker" /\ todo[1][2] \in Workers
      BY <2>1, <2>13, StepFacts DEF StopWorker, At
    <3>2. CASE todo[1][2] \in stopEvent /\ Done /\ UNCHANGED stopEvent
      BY <2>0, <2>3, <3>1, <3>2
    <3>3. CASE /\ stopEvent' = stopEvent \cup {todo[1][2]}
               /\ todo' = << <<"join", todo[1][2]>> >> \o Tail(todo)
      BY <2>0, <3>1, <3>3, TodoStop DEF JoinInv
    <3> QED
      BY <2>1, <2>13, <3>1, <3>2, <3>3 DEF StopWorker, Argument
  <2>14. CASE \E command \in Commands : Receive(command)
    <3>1. PICK command \in Commands : todo = <<>> /\ todo' = << <<"command", command>> >>
                                      /\ UNCHANGED <<stopEvent, running, supervisor>>
      BY <2>14 DEF Receive
    <3>2. CommandList(<< <<"command", command>> >>)
      BY Literals, QuietIsCommand
    <3>3. todo' = << <<"command", command>> >> \o todo
      BY <3>1, <3>2, ConcatProperties DEF CommandList
    <3> DEFINE p == << <<"command", command>> >>
    <3>4. CommandList(p) /\ todo' = p \o todo
      BY <3>2, <3>3
    <3> HIDE DEF p
    <3>5. Todo(p \o todo, stopEvent, running, supervisor.continueall)
      BY <2>0, <3>4, TodoPrefix
    <3> QED
      BY <2>0, <3>1, <3>4, <3>5 DEF JoinInv
  <2>15. CASE \E signal \in Signals : Interrupt(signal)
    <3>1. PICK c \in {"cleanedshutdown", "shutdown"} :
             todo' = << <<"command", c>> >> \o todo /\ UNCHANGED <<stopEvent, running, supervisor>>
      BY <2>15 DEF Interrupt
    <3> DEFINE p == << <<"command", c>> >>
    <3>2. CommandList(p) /\ todo' = p \o todo
      BY <3>1, Literals, QuietIsCommand
    <3> HIDE DEF p
    <3>3. Todo(p \o todo, stopEvent, running, supervisor.continueall)
      BY <2>0, <3>2, TodoPrefix
    <3> QED
      BY <2>0, <3>1, <3>2, <3>3 DEF JoinInv
  <2>16. CASE MainMoves
    BY <2>2, <2>6, <2>7, <2>8, <2>9, <2>10, <2>11, <2>12, <2>13, <2>16, <2>6a
    DEF MainMoves, Main, GetStatus
  <2>17. CASE SenderMoves
    BY <2>2, <2>17 DEF SenderMoves, Sender, SenderCheck, SenderGet, SenderSend
  <2>18. ASSUME NEW w \in Workers, WorkerMoves(w) PROVE JoinInv'
    BY <2>2, <2>18 DEF WorkerMoves, Worker, WorkerRun, WorkerEnd, WorkerThrow
  <2>19. ASSUME NEW l \in Listeners, ListenerMoves(l) \/ ListenerReceive(l) \/ ListenerThrow(l)
         PROVE  JoinInv'
    BY <2>2, <2>19 DEF ListenerMoves, Listener, ListenerCheck, ListenerTimeout, ListenerPush,
       ListenerReceive, ListenerThrow
  <2>20. CASE UNCHANGED vars
    BY <2>2, <2>20 DEF vars
  <2> QED
    BY <2>14, <2>15, <2>16, <2>17, <2>18, <2>19, <2>20 DEF Next
<1> QED
  BY <1>1, <1>2, LateInvariance, PTL DEF SafeSpec

(* The destructor runs only when every worker has ended, whatever          *)
(* interrupted what before.                                                *)
THEOREM WorkersAreJoined == SafeSpec => []ShutdownJoinsWorkers
<1>1. JoinInv => ShutdownJoinsWorkers
  <2> SUFFICES ASSUME JoinInv PROVE ShutdownJoinsWorkers
    OBVIOUS
  <2>1. Todo(todo, stopEvent, running, supervisor.continueall) /\ supervisor.continueall \in BOOLEAN
    BY DEF JoinInv
  <2>2. CASE Idle /\ ~supervisor.continueall
    BY <2>1, <2>2, EmptyTodo DEF Idle, ShutdownJoinsWorkers
  <2>3. CASE At("joinService") \/ Gone
    <3>1. todo # <<>> /\ todo[1][1] \in {"joinService", "gone"} /\ 1 \in 1..Len(todo)
      BY <2>1, <2>3, TailFacts DEF At, Gone, Todo
    <3> QED
      BY <2>1, <3>1 DEF Todo, Ending, ShutdownJoinsWorkers
  <2> QED
    BY <2>2, <2>3 DEF ShutdownJoinsWorkers
<1> QED
  BY <1>1, TodoInvariance, PTL


-----------------------------------------------------------------------------
(* Reading after the stop.  A worker that has found processdata set and    *)
(* has not read yet may still read once; with processdata cleared          *)
(* everywhere nobody joins them.                                           *)
AllOff == \A w \in Workers : processdata[w] = 0
MayRead == {w \in Workers : pc[w] \in {"token", "hpEmpty", "hpGet", "lpEmpty", "lpGet"}}
AfterInv ==
    /\ pc = [w \in Workers |-> pc[w]] /\ processdata = [w \in Workers |-> processdata[w]]
    /\ after \in Nat
    /\ AllOff => after + Cardinality(MayRead) <= NumWorkers
    /\ ~AllOff => after = 0

LEMMA WorkersAreFinite ==
  ASSUME NEW S \in SUBSET Workers
  PROVE  /\ IsFiniteSet(S) /\ Cardinality(S) \in Nat /\ Cardinality(S) <= NumWorkers
         /\ \A R \in SUBSET S : Cardinality(R) \in Nat /\ Cardinality(R) <= Cardinality(S)
         /\ \A w \in S : \A R \in SUBSET (S \ {w}) :
               Cardinality(R) \in Nat /\ Cardinality(R) + 1 <= Cardinality(S)
<1>1. IsFiniteSet(Workers) /\ Cardinality(Workers) = NumWorkers
  <2>1. /\ IsFiniteSet(0..(NumWorkers - 1))
        /\ Cardinality(0..(NumWorkers - 1)) = IF 0 > NumWorkers - 1 THEN 0 ELSE (NumWorkers - 1) - 0 + 1
    BY SizesAssumption, FS_Interval
  <2> QED
    BY <2>1, SizesAssumption, WorkersAreNumbered
<1>2. IsFiniteSet(S) /\ Cardinality(S) \in Nat /\ Cardinality(S) <= NumWorkers
  BY <1>1, FS_Subset, FS_CardinalityType
<1>3. ASSUME NEW R \in SUBSET S PROVE Cardinality(R) \in Nat /\ Cardinality(R) <= Cardinality(S)
  BY <1>2, FS_Subset, FS_CardinalityType
<1>4. ASSUME NEW w \in S, NEW R \in SUBSET (S \ {w})
      PROVE  Cardinality(R) \in Nat /\ Cardinality(R) + 1 <= Cardinality(S)
  <2>1. IsFiniteSet(S \ {w}) /\ Cardinality(S \ {w}) = Cardinality(S) - 1
    BY <1>2, FS_RemoveElement
  <2>2. Cardinality(R) \in Nat /\ Cardinality(R) <= Cardinality(S \ {w})
    BY <2>1, FS_Subset, FS_CardinalityType
  <2> QED
    BY <1>2, <2>1, <2>2
<1> QED
  BY <1>2, <1>3, <1>4

(* What one step of a worker does to those who may read.                   *)
LEMMA WorkerStep ==
  ASSUME NEW w \in Workers, W!Run(w), pc = [v \in Workers |-> pc[v]]
  PROVE  /\ pc' = [v \in Workers |-> pc'[v]] /\ processdata' = processdata
         /\ \/ processdata[w] = 1
            \/ reads' = reads /\ MayRead' \subseteq MayRead
            \/ w \in MayRead /\ MayRead' \subseteq MayRead \ {w}
<1> USE DEF W!Goto, MayRead
<1>0. Workers = W!Workers
  BY DEF Workers
<1>1. CASE W!Poll(w)
  BY <1>1 DEF W!Poll, W!control
<1>2. CASE W!CheckToken(w) \/ W!CheckHp(w) \/ W!CheckLp(w)
  BY <1>2 DEF W!CheckToken, W!CheckHp, W!CheckLp, W!control, W!history
<1>3. CASE W!GetHp(w) \/ W!GetLp(w)
  BY <1>3 DEF W!GetHp, W!GetLp, W!Took, W!control
<1>4. CASE W!LockReading(w) \/ W!PassReading(w)
  BY <1>4 DEF W!LockReading, W!PassReading, W!control, W!history
<1>5. CASE W!ProcessData(w)
  BY <1>5 DEF W!ProcessData, W!Process, W!CheckResult, W!PushResult, W!LockResult, W!PassResult,
     W!Release, W!control, W!history
<1> QED
  BY <1>1, <1>2, <1>3, <1>4, <1>5 DEF W!Run, W!Read

LEMMA AfterInvariance == SafeSpec => []AfterInv
<1>1. Init => AfterInv
  <2> SUFFICES ASSUME Init PROVE AfterInv
    OBVIOUS
  <2>1. /\ pc = [w \in Workers |-> "poll"] /\ processdata = [w \in Workers |-> 0] /\ after = 0
    BY DEF Init, W!Init, Workers
  <2>2. Cardinality(MayRead) \in Nat /\ Cardinality(MayRead) <= NumWorkers
    BY WorkersAreFinite DEF MayRead
  <2> QED
    BY <2>1, <2>2, SizesAssumption DEF AfterInv, AllOff
<1>2. JoinInv /\ AfterInv /\ [Next]_vars => AfterInv'
  <2> SUFFICES ASSUME JoinInv, AfterInv, [Next]_vars PROVE AfterInv'
    OBVIOUS
  <2> USE DEF worker, shutdown
  <2>1. ASSUME UNCHANGED <<pc, processdata, after>> PROVE AfterInv'
    BY <2>1 DEF AfterInv, AllOff, MayRead
  <2>2. CASE WriteProcessdata
    <3>1. Argument \in Workers /\ Head(todo)[3] \in {0, 1}
      BY <2>2, TailFacts, StepFacts DEF WriteProcessdata, At, Argument, JoinInv, Todo
    <3>2. UNCHANGED pc /\ processdata' = [processdata EXCEPT ![Argument] = Head(todo)[3]]
          /\ after' = IF Head(todo)[3] = 1 THEN 0 ELSE after
      BY <2>2 DEF WriteProcessdata
    <3>3. processdata' = [v \in Workers |-> processdata'[v]] /\ MayRead' = MayRead
      BY <3>1, <3>2 DEF AfterInv, MayRead
    <3>4. CASE Head(todo)[3] = 1
      BY <3>1, <3>2, <3>3, <3>4 DEF AfterInv, AllOff
    <3>5. CASE Head(todo)[3] = 0
      <4>1. Cardinality(MayRead) \in Nat /\ Cardinality(MayRead) <= NumWorkers
        BY WorkersAreFinite DEF MayRead
      <4>2. AllOff => AllOff'
        BY <3>1, <3>2, <3>5 DEF AllOff, AfterInv
      <4> QED
        BY <3>2, <3>3, <3>5, <4>1, <4>2, SizesAssumption DEF AfterInv
    <3> QED
      BY <3>1, <3>4, <3>5
  <2>3. ASSUME NEW w \in Workers, WorkerRun(w) PROVE AfterInv'
    <3>1. /\ pc' = [v \in Workers |-> pc'[v]] /\ processdata' = processdata
          /\ \/ processdata[w] = 1
             \/ reads' = reads /\ MayRead' \subseteq MayRead
             \/ w \in MayRead /\ MayRead' \subseteq MayRead \ {w}
      BY <2>3, WorkerStep DEF WorkerRun, AfterInv
    <3>2. after' = IF reads' # reads /\ AllOff THEN after + 1 ELSE after
      BY <2>3 DEF WorkerRun, AllOff
    <3>3. AllOff' <=> AllOff
      BY <3>1 DEF AllOff
    <3>4. MayRead \in SUBSET Workers /\ Cardinality(MayRead) \in Nat
      BY WorkersAreFinite DEF MayRead
    <3>5. CASE ~AllOff
      BY <3>1, <3>2, <3>3, <3>5 DEF AfterInv
    <3>6. CASE AllOff /\ reads' = reads /\ MayRead' \subseteq MayRead
      <4>1. Cardinality(MayRead') \in Nat /\ Cardinality(MayRead') <= Cardinality(MayRead)
        BY <3>4, <3>6, WorkersAreFinite
      <4> QED
        BY <3>1, <3>2, <3>3, <3>4, <3>6, <4>1, SizesAssumption DEF AfterInv
    <3>7. CASE AllOff /\ w \in MayRead /\ MayRead' \subseteq MayRead \ {w}
      <4>1. Cardinality(MayRead') \in Nat /\ Cardinality(MayRead') + 1 <= Cardinality(MayRead)
        BY <3>4, <3>7, WorkersAreFinite
      <4> QED
        BY <3>1, <3>2, <3>3, <3>4, <3>7, <4>1, SizesAssumption DEF AfterInv
    <3>8. AllOff => processdata[w] # 1
      BY DEF AllOff
    <3> QED
      BY <3>1, <3>5, <3>6, <3>7, <3>8
  <2>4. ASSUME Main, ~WriteProcessdata PROVE AfterInv'
    BY <2>1, <2>4 DEF Main, Dispatch, Destroy, JoinService, WriteStatus, WriteStopdata,
       WriteContinueall, WriteManager, SendInfo, Clean, CleanPop, Drain, NotifyAll, StopWorker,
       Join, JoinMonitoring
  <2>5. CASE MainMoves
    BY <2>1, <2>2, <2>4, <2>5 DEF MainMoves, GetStatus
  <2>6. CASE SenderMoves
    BY <2>1, <2>6 DEF SenderMoves, Sender, SenderCheck, SenderGet, SenderSend
  <2>7. ASSUME NEW w \in Workers, WorkerMoves(w) PROVE AfterInv'
    BY <2>1, <2>3, <2>7 DEF WorkerMoves, Worker, WorkerEnd, WorkerThrow
  <2>8. ASSUME NEW l \in Listeners, ListenerMoves(l) \/ ListenerReceive(l) \/ ListenerThrow(l)
        PROVE  AfterInv'
    BY <2>1, <2>8 DEF ListenerMoves, Listener, ListenerCheck, ListenerTimeout, ListenerPush, Push,
       W!PushLp, W!PushHp, W!control, ListenerReceive, ListenerThrow
  <2>9. CASE \/ \E command \in Commands : Receive(command)
             \/ \E signal \in Signals : Interrupt(signal)
    BY <2>1, <2>9 DEF Receive, Interrupt
  <2>10. CASE UNCHANGED vars
    BY <2>1, <2>10 DEF vars
  <2> QED
    BY <2>5, <2>6, <2>7, <2>8, <2>9, <2>10 DEF Next
<1> QED
  BY <1>1, <1>2, TodoInvariance, PTL DEF SafeSpec

(* Once processdata is cleared everywhere, each worker reads at most once  *)
(* more.                                                                   *)
THEOREM FewReadsAfterStop == SafeSpec => []OneReadAfterStop
<1>1. AfterInv => OneReadAfterStop
  <2> SUFFICES ASSUME AfterInv PROVE OneReadAfterStop
    OBVIOUS
  <2>1. Cardinality(MayRead) \in Nat
    BY WorkersAreFinite DEF MayRead
  <2> QED
    BY <2>1, SizesAssumption DEF AfterInv, OneReadAfterStop
<1> QED
  BY <1>1, AfterInvariance, PTL


-----------------------------------------------------------------------------
(* The workers, whose theorems hold here too: what is not a step of theirs *)
(* only takes from the queues or sets processdata.                         *)
WP == INSTANCE WorkerThreadProofs WITH setting <- [value |-> 0, next |-> NumWorkers]
WorkersInv == WP!TypeInv /\ WP!LockInv

LEMMA SameWorkers ==
  /\ WP!TypeOK <=> W!TypeOK
  /\ \A w \in Workers : W!Run(w) => WP!Run(w)
  /\ W!PushLp => WP!PushLp
  /\ W!PushHp => WP!PushHp
  /\ WP!Workers = Workers
<1> USE DEF Workers, W!Workers, WP!Workers, W!Items, WP!Items, W!queues, WP!queues,
       W!control, WP!control, W!readRing, WP!readRing, W!resultRing, WP!resultRing,
       W!history, WP!history, W!Unlocked, WP!Unlocked, W!Goto, WP!Goto, W!Release, WP!Release,
       W!Took, WP!Took, W!Decrement, WP!Decrement
<1>1. WP!TypeOK <=> W!TypeOK
  BY DEF W!TypeOK, WP!TypeOK, W!QueuesOK, WP!QueuesOK, W!ThreadsOK, WP!ThreadsOK,
         W!RingsOK, WP!RingsOK, W!ControlOK, WP!ControlOK, W!LockType, WP!LockType,
         W!DataType, WP!DataType, W!Places, WP!Places, W!Reading, WP!Reading,
         W!Writing, WP!Writing
<1>2. ASSUME NEW w \in Workers, W!Run(w) PROVE WP!Run(w)
  <2>1. /\ W!Poll(w) => WP!Poll(w)
        /\ W!CheckToken(w) => WP!CheckToken(w)
        /\ W!CheckHp(w) => WP!CheckHp(w)
        /\ W!CheckLp(w) => WP!CheckLp(w)
    BY DEF W!Poll, WP!Poll, W!CheckToken, WP!CheckToken, W!CheckHp, WP!CheckHp,
           W!CheckLp, WP!CheckLp
  <2>2. (W!GetHp(w) => WP!GetHp(w)) /\ (W!GetLp(w) => WP!GetLp(w))
    BY DEF W!GetHp, WP!GetHp, W!GetLp, WP!GetLp
  <2>3. (W!LockReading(w) => WP!LockReading(w)) /\ (W!PassReading(w) => WP!PassReading(w))
    BY DEF W!LockReading, WP!LockReading, W!PassReading, WP!PassReading
  <2>4. /\ W!Process(w) => WP!Process(w)
        /\ W!CheckResult(w) => WP!CheckResult(w)
        /\ W!PushResult(w) => WP!PushResult(w)
    BY DEF W!Process, WP!Process, W!CheckResult, WP!CheckResult, W!PushResult, WP!PushResult
  <2>5. (W!LockResult(w) => WP!LockResult(w)) /\ (W!PassResult(w) => WP!PassResult(w))
    BY DEF W!LockResult, WP!LockResult, W!PassResult, WP!PassResult
  <2> QED
    BY <1>2, <2>1, <2>2, <2>3, <2>4, <2>5
    DEF W!Run, WP!Run, W!Read, WP!Read, W!ProcessData, WP!ProcessData
<1>3. (W!PushLp => WP!PushLp) /\ (W!PushHp => WP!PushHp)
  BY DEF W!PushLp, WP!PushLp, W!PushHp, WP!PushHp
<1> QED
  BY <1>1, <1>2, <1>3


LEMMA AssumptionsHold == WP!WorkersAssumption /\ WP!ItemsAssumption
  BY SizesAssumption DEF WP!WorkersAssumption, WP!ItemsAssumption, WP!Workers

LEMMA WorkersStep ==
  ASSUME WorkersInv, (\E w \in Workers : W!Run(w)) \/ W!PushLp \/ W!PushHp
  PROVE  WorkersInv' /\ WP!Next
<1>1. WP!TypeInv /\ WP!LockInv
  BY DEF WorkersInv
<1>2. WP!Next
  BY SameWorkers DEF WP!Next, WP!Environment
<1>3. WP!TypeInv'
  BY <1>1, <1>2, AssumptionsHold, WP!TypeStep
<1>4. WP!LockInv'
  BY <1>1, <1>2, AssumptionsHold, WP!LockStep
<1> QED
  BY <1>2, <1>3, <1>4 DEF WorkersInv


LEMMA ContentsFacts == Contents("lp") = lp /\ Contents("hp") = hp /\ Contents("rhp") = rhp
  BY DEF Contents

(* What the rest of the program does to the queues and to processdata.     *)
LEMMA OthersKeepWorkers ==
  ASSUME WorkersInv, UNCHANGED <<pushed, pc, held, tokenreading, readLock, tokenresult,
                                 resultLock, reads, overtakes>>,
         lp' = lp \/ (lp # <<>> /\ lp' = Tail(lp)),
         hp' = hp \/ (hp # <<>> /\ hp' = Tail(hp)),
         rhp' = rhp \/ (rhp # <<>> /\ rhp' = Tail(rhp)),
         processdata' = processdata
           \/ \E w \in Workers, v \in {0, 1} : processdata' = [processdata EXCEPT ![w] = v]
  PROVE  WorkersInv'
<1> USE DEF WorkersInv, WP!TypeInv, WP!TypeOK
<1>0. ASSUME NEW q \in Seq(WP!Items), q # <<>> PROVE Tail(q) \in Seq(WP!Items)
  BY <1>0
<1>1. lp' \in Seq(WP!Items) /\ hp' \in Seq(WP!Items) /\ rhp' \in Seq(WP!Items)
  <2>1. lp \in Seq(WP!Items) /\ hp \in Seq(WP!Items) /\ rhp \in Seq(WP!Items)
    BY DEF WP!QueuesOK
  <2> QED
    BY <1>0, <2>1
<1>2. processdata' \in [WP!Workers -> {0, 1}]
  BY SameWorkers DEF WP!ControlOK
<1>3. WP!QueuesOK' /\ WP!ControlOK'
  BY <1>1, <1>2 DEF WP!QueuesOK, WP!ControlOK
<1>4. WP!ThreadsOK' /\ WP!RingsOK' /\ WP!HeldOK' /\ WP!LockInv'
  BY DEF WP!ThreadsOK, WP!RingsOK, WP!HeldOK, WP!LockInv, WP!ReadLockHeld, WP!ResultLockHeld
<1> QED
  BY <1>3, <1>4

LEMMA WorkersInvariance == SafeSpec => []WorkersInv
<1>1. Init => WorkersInv
  <2>1. Init => WP!Init
    BY DEF Init, W!Init, WP!Init, W!Unlocked, WP!Unlocked, WP!Idle, W!Workers, WP!Workers
  <2> QED
    BY <2>1, AssumptionsHold, WP!TypeAtStart, WP!LocksAtStart DEF WorkersInv
<1>2. JoinInv /\ WorkersInv /\ [Next]_vars => WorkersInv'
  <2> SUFFICES ASSUME JoinInv, WorkersInv, [Next]_vars PROVE WorkersInv'
    OBVIOUS
  <2>1. ASSUME UNCHANGED worker PROVE WorkersInv'
    BY <2>1, OthersKeepWorkers DEF worker
  <2>2. CASE WriteProcessdata
    <3>1. Argument \in Workers /\ Head(todo)[3] \in {0, 1}
      BY <2>2, TailFacts, StepFacts DEF WriteProcessdata, At, Argument, JoinInv, Todo
    <3> QED
      BY <2>2, <3>1, OthersKeepWorkers DEF WriteProcessdata
  <2>3. CASE CleanPop
    <3>1. /\ lp' = lp \/ (lp # <<>> /\ lp' = Tail(lp))
          /\ hp' = hp \/ (hp # <<>> /\ hp' = Tail(hp))
          /\ rhp' = rhp \/ (rhp # <<>> /\ rhp' = Tail(rhp))
      BY <2>3, ContentsFacts DEF CleanPop
    <3> QED
      BY <2>3, <3>1, OthersKeepWorkers DEF CleanPop
  <2>4. CASE SenderGet
    BY <2>4, OthersKeepWorkers DEF SenderGet
  <2>5. ASSUME NEW w \in Workers, WorkerRun(w) PROVE WorkersInv'
    BY <2>5, WorkersStep DEF WorkerRun
  <2>6. ASSUME NEW l, NEW m, NEW n, Push(l, m, n) PROVE WorkersInv'
    BY <2>6, WorkersStep DEF Push
  <2>7. ASSUME Main, ~WriteProcessdata, ~CleanPop PROVE WorkersInv'
    BY <2>1, <2>7 DEF Main, Dispatch, Destroy, JoinService, WriteStatus, WriteStopdata,
       WriteContinueall, WriteManager, SendInfo, Clean, Drain, NotifyAll, StopWorker, Join,
       JoinMonitoring
  <2>8. CASE MainMoves
    BY <2>1, <2>2, <2>3, <2>7, <2>8 DEF MainMoves, GetStatus
  <2>9. CASE SenderMoves
    BY <2>1, <2>4, <2>9 DEF SenderMoves, Sender, SenderCheck, SenderSend
  <2>10. ASSUME NEW w \in Workers, WorkerMoves(w) PROVE WorkersInv'
    BY <2>1, <2>5, <2>10 DEF WorkerMoves, Worker, WorkerEnd, WorkerThrow
  <2>11. ASSUME NEW l \in Listeners, ListenerMoves(l) \/ ListenerThrow(l) PROVE WorkersInv'
    BY <2>1, <2>6, <2>11 DEF ListenerMoves, Listener, ListenerCheck, ListenerTimeout, ListenerPush,
       ListenerThrow
  <2>12. ASSUME NEW l \in Listeners, ListenerReceive(l) PROVE WorkersInv'
    BY <2>1, <2>6, <2>12 DEF ListenerReceive
  <2>13. CASE \/ \E command \in Commands : Receive(command)
              \/ \E signal \in Signals : Interrupt(signal)
    BY <2>1, <2>13 DEF Receive, Interrupt
  <2>14. CASE UNCHANGED vars
    BY <2>1, <2>14 DEF vars
  <2> QED
    BY <2>8, <2>9, <2>10, <2>11, <2>12, <2>13, <2>14 DEF Next
<1> QED
  BY <1>1, <1>2, TodoInvariance, PTL DEF SafeSpec


(* The commands and the manager; the threads of the service; the shutdown. *)
SupervisorOK ==
    /\ supervisor \in [status : Statuses, stopdata : BOOLEAN, continueall : BOOLEAN]
    /\ manager \in [status : ManagerStatuses, stopdata : BOOLEAN, processdata : {0, 1}]
ServiceOK ==
    /\ listening \in [Listeners -> {"check", "recv", "push", "ended"}]
    /\ unpacking \in [Listeners -> [message : 0..MaxItems, left : 0..MaxLines]]
    /\ \A l \in Listeners : listening[l] = "push" =>
                               /\ unpacking[l].message \in 1..MaxItems
                               /\ unpacking[l].left \in 1..MaxLines
    /\ sending \in {"check", "get", "send", "ended"}
    /\ late \subseteq [by : Listeners, message : 1..MaxItems, item : 1..MaxItems]
ShutdownOK ==
    /\ stopped \subseteq Queues /\ stopEvent \subseteq Workers /\ running \subseteq Workers
    /\ crashed \in BOOLEAN
    /\ arrived \in [commands : 0..MaxCommands, signals : SUBSET Signals, nested : BOOLEAN]
RestOK == SupervisorOK /\ ServiceOK /\ ShutdownOK

LEMMA StatusFacts ==
  ASSUME NEW s \in BOOLEAN, NEW p \in {0, 1}
  PROVE  StatusOf(s, p) \in ManagerStatuses
  BY DEF StatusOf, ManagerStatuses

LEMMA ManagerTypes ==
  ASSUME SupervisorOK, WriteManager,
         Head(todo)[1] = "managerStopdata" => Argument \in BOOLEAN,
         Head(todo)[1] = "managerProcessdata" => Argument \in {0, 1}
  PROVE  manager' \in [status : ManagerStatuses, stopdata : BOOLEAN, processdata : {0, 1}]
<1> DEFINE M == [status : ManagerStatuses, stopdata : BOOLEAN, processdata : {0, 1}]
<1>1. ASSUME NEW m \in M PROVE ChangedStatus(m) \in M
  BY StatusFacts DEF ChangedStatus
<1>2. ASSUME NEW f \in BOOLEAN PROVE [manager EXCEPT !.stopdata = f] \in M
  BY DEF SupervisorOK
<1>3. ASSUME NEW v \in {0, 1} PROVE [manager EXCEPT !.processdata = v] \in M
  BY DEF SupervisorOK
<1>4. [manager EXCEPT !.status = "End"] \in M
  BY DEF SupervisorOK, ManagerStatuses
<1> HIDE DEF M
<1>5. manager' \in M
  BY <1>1, <1>2, <1>3, <1>4 DEF WriteManager, At
<1> QED
  BY <1>5 DEF M

(* A push puts an item of its message in its queue.                        *)
LEMMA PushTypes ==
  ASSUME WorkersInv, ServiceOK, NEW l \in Listeners, NEW m \in 1..MaxItems,
         NEW n \in 0..MaxLines, Push(l, m, n), sending' = sending
  PROVE  ServiceOK'
<1>1. pushed' \in 1..MaxItems
  <2>1. pushed \in 0..MaxItems /\ pushed < MaxItems /\ pushed' = pushed + 1
    BY DEF Push, W!PushLp, W!PushHp, WorkersInv, WP!TypeInv, WP!TypeOK, WP!QueuesOK
  <2> QED
    BY <2>1, SizesAssumption
<1>2. late' \subseteq [by : Listeners, message : 1..MaxItems, item : 1..MaxItems]
  BY <1>1 DEF Push, ServiceOK
<1>3. listening' \in [Listeners -> {"check", "recv", "push", "ended"}]
  BY DEF Push, ServiceOK
<1>4. listening'[l] = "push" => n # 0
  BY DEF Push, ServiceOK
<1>5. n # 0 => unpacking'[l] = [message |-> m, left |-> n]
  BY DEF Push, ServiceOK
<1>6. \A k \in Listeners \ {l} : listening'[k] = listening[k] /\ unpacking'[k] = unpacking[k]
  BY DEF Push, ServiceOK
<1>7. unpacking' \in [Listeners -> [message : 0..MaxItems, left : 0..MaxLines]]
  <2>1. Nothing \in [message : 0..MaxItems, left : 0..MaxLines]
    BY SizesAssumption, DataAssumption DEF Nothing
  <2>2. m \in 0..MaxItems
    BY SizesAssumption
  <2> QED
    BY <2>1, <2>2 DEF Push, ServiceOK
<1>8. ASSUME NEW k \in Listeners, listening'[k] = "push"
      PROVE  unpacking'[k].message \in 1..MaxItems /\ unpacking'[k].left \in 1..MaxLines
  <2>1. CASE k = l
    <3>1. n # 0
      BY <1>4, <1>8, <2>1
    <3>2. unpacking'[k].message = m /\ unpacking'[k].left = n
      BY <1>5, <2>1, <3>1
    <3>3. n \in 1..MaxLines
      BY <3>1, DataAssumption
    <3> QED
      BY <3>2, <3>3
  <2>2. CASE k # l
    <3>1. listening[k] = "push" /\ unpacking'[k] = unpacking[k]
      BY <1>6, <1>8, <2>2
    <3> QED
      BY <3>1 DEF ServiceOK
  <2> QED
    BY <2>1, <2>2
<1>9. sending' \in {"check", "get", "send", "ended"}
  BY DEF ServiceOK
<1> QED
  BY <1>2, <1>3, <1>7, <1>8, <1>9 DEF ServiceOK

LEMMA RestInvariance == SafeSpec => []RestOK
<1>1. Init => RestOK
  <2> SUFFICES ASSUME Init PROVE RestOK
    OBVIOUS
  <2> USE SizesAssumption, DataAssumption
  <2>1. SupervisorOK
    BY DEF Init, SupervisorInit, ManagerInit, SupervisorOK, Statuses, ManagerStatuses
  <2>2. ServiceOK
    BY DEF Init, ServiceInit, ServiceOK, Nothing
  <2>3. ShutdownOK
    <3>1. stopped = {} /\ stopEvent = {} /\ running = Workers /\ crashed = FALSE
      BY DEF Init, ManagerInit
    <3>2. arrived = [commands |-> 0, signals |-> {}, nested |-> FALSE]
      BY DEF Init
    <3>3. arrived \in [commands : 0..MaxCommands, signals : SUBSET Signals, nested : BOOLEAN]
      BY <3>2
    <3> QED
      BY <3>1, <3>3 DEF ShutdownOK
  <2> QED
    BY <2>1, <2>2, <2>3 DEF RestOK
<1>2. JoinInv /\ WorkersInv /\ RestOK /\ [Next]_vars => RestOK'
  <2> SUFFICES ASSUME JoinInv, WorkersInv, RestOK, [Next]_vars PROVE RestOK'
    OBVIOUS
  <2> USE DEF RestOK, service, shutdown
  <2>0. todo # <<>> => /\ Head(todo) \in Steps /\ Argument = Head(todo)[2]
    BY TailFacts DEF JoinInv, Todo, Argument
  <2>1. ASSUME UNCHANGED <<supervisor, manager>> PROVE SupervisorOK'
    BY <2>1 DEF SupervisorOK
  <2>2. ASSUME UNCHANGED <<service, late>> PROVE ServiceOK'
    BY <2>2 DEF ServiceOK
  <2>3. ASSUME UNCHANGED <<shutdown, arrived>>, crashed' \in BOOLEAN PROVE ShutdownOK'
    BY <2>3 DEF ShutdownOK
  <2>4. ASSUME Main, UNCHANGED crashed PROVE RestOK'
    <3>1. CASE WriteStatus \/ WriteStopdata \/ WriteContinueall
      <4>1. WriteStatus => Argument \in Statuses
        BY <2>0, StepFacts DEF WriteStatus, At
      <4>2. WriteStopdata => Argument \in BOOLEAN
        BY <2>0, StepFacts DEF WriteStopdata, At
      <4>3. SupervisorOK'
        BY <3>1, <4>1, <4>2 DEF WriteStatus, WriteStopdata, WriteContinueall, SupervisorOK
      <4>4. ServiceOK'
        <5>1. UNCHANGED service /\ (late' = late \/ late' = {})
          BY <3>1 DEF WriteStatus, WriteStopdata, WriteContinueall
        <5> QED
          BY <5>1 DEF ServiceOK
      <4>5. UNCHANGED <<shutdown, arrived>>
        BY <3>1 DEF WriteStatus, WriteStopdata, WriteContinueall
      <4> QED
        BY <2>3, <2>4, <4>3, <4>4, <4>5 DEF ShutdownOK
    <3>2. CASE WriteManager
      <4>1. /\ Head(todo)[1] = "managerStopdata" => Argument \in BOOLEAN
            /\ Head(todo)[1] = "managerProcessdata" => Argument \in {0, 1}
        BY <2>0, <3>2, StepFacts DEF WriteManager, At
      <4>2. manager' \in [status : ManagerStatuses, stopdata : BOOLEAN, processdata : {0, 1}]
        BY <3>2, <4>1, ManagerTypes
      <4>3. SupervisorOK'
        BY <3>2, <4>2 DEF WriteManager, SupervisorOK
      <4>4. UNCHANGED <<service, late, shutdown, arrived>>
        BY <3>2 DEF WriteManager
      <4> QED
        BY <2>2, <2>3, <2>4, <4>3, <4>4 DEF ShutdownOK
    <3>3. CASE NotifyAll \/ StopWorker
      <4>1. (NotifyAll => Argument \in Queues) /\ (StopWorker => Argument \in Workers)
        BY <2>0, StepFacts DEF NotifyAll, StopWorker, At
      <4>2. stopped' \subseteq Queues /\ stopEvent' \subseteq Workers /\ running' = running
        BY <3>3, <4>1 DEF NotifyAll, StopWorker, ShutdownOK, Queues
      <4>3. UNCHANGED <<supervisor, manager, service, late, arrived>>
        BY <3>3 DEF NotifyAll, StopWorker
      <4> QED
        BY <2>1, <2>2, <2>4, <4>2, <4>3 DEF ShutdownOK
    <3>4. ASSUME ~WriteStatus, ~WriteStopdata, ~WriteContinueall, ~WriteManager, ~NotifyAll,
                 ~StopWorker
          PROVE  UNCHANGED <<supervisor, manager, service, late, shutdown, arrived>>
      BY <2>4, <3>4 DEF Main, Dispatch, Destroy, JoinService, WriteProcessdata, Clean, CleanPop,
         Drain, Join, SendInfo, JoinMonitoring
    <3> QED
      BY <2>1, <2>2, <2>3, <2>4, <3>1, <3>2, <3>3, <3>4 DEF ShutdownOK
  <2>5. CASE MainMoves
    <3>1. CASE GetStatus /\ crashed' = TRUE
      BY <2>1, <2>2, <2>3, <3>1 DEF GetStatus
    <3> QED
      BY <2>4, <2>5, <3>1 DEF MainMoves
  <2>6. CASE SenderMoves
    <3>1. sending' \in {"check", "get", "send", "ended"}
      BY <2>6 DEF SenderMoves, Sender, SenderCheck, SenderGet, SenderSend
    <3>2. UNCHANGED <<supervisor, manager, listening, unpacking, late, shutdown, arrived, crashed>>
      BY <2>6 DEF SenderMoves, Sender, SenderCheck, SenderGet, SenderSend
    <3> QED
      BY <2>1, <2>3, <3>1, <3>2 DEF ServiceOK, ShutdownOK
  <2>7. ASSUME NEW w \in Workers, WorkerMoves(w) PROVE RestOK'
    <3>1. UNCHANGED <<supervisor, manager, service, late, arrived, stopped, stopEvent>>
          /\ running' \subseteq running /\ crashed' \in BOOLEAN
      BY <2>7 DEF WorkerMoves, Worker, WorkerRun, WorkerEnd, WorkerThrow, ShutdownOK
    <3> QED
      BY <2>1, <2>2, <3>1 DEF ShutdownOK
  <2>8. ASSUME NEW l \in Listeners, ListenerCheck(l) \/ ListenerTimeout(l), UNCHANGED crashed
        PROVE  RestOK'
    <3>1. /\ UNCHANGED <<supervisor, manager, unpacking, sending, late, shutdown, arrived>>
          /\ \E p \in {"check", "recv", "ended"} : listening' = [listening EXCEPT ![l] = p]
      BY <2>8 DEF ListenerCheck, ListenerTimeout
    <3>2. ServiceOK'
      BY <3>1 DEF ServiceOK
    <3> QED
      BY <2>1, <2>3, <2>8, <3>1, <3>2 DEF ShutdownOK
  <2>9. ASSUME NEW l \in Listeners, ListenerPush(l), UNCHANGED crashed PROVE RestOK'
    <3>1. /\ UNCHANGED <<supervisor, manager, sending, shutdown, arrived>>
          /\ Push(l, unpacking[l].message, unpacking[l].left - 1)
      BY <2>9 DEF ListenerPush
    <3>2. unpacking[l].message \in 1..MaxItems /\ unpacking[l].left - 1 \in 0..MaxLines
      BY <2>9, DataAssumption DEF ListenerPush, ServiceOK
    <3>3. ServiceOK'
      BY <3>1, <3>2, PushTypes
    <3> QED
      BY <2>1, <2>3, <2>9, <3>1, <3>3 DEF ShutdownOK
  <2>10. ASSUME NEW l \in Listeners, ListenerReceive(l), UNCHANGED crashed PROVE RestOK'
    <3>1. /\ UNCHANGED <<supervisor, manager, sending, shutdown, arrived>>
      BY <2>10 DEF ListenerReceive
    <3>2. PICK n \in ItemCounts :
            /\ pushed + Unpushed + n <= MaxItems
            /\ IF n = 0 THEN /\ listening' = [listening EXCEPT ![l] = "check"]
                             /\ UNCHANGED <<worker, late, unpacking>>
                        ELSE Push(l, pushed + 1, n - 1)
      BY <2>10 DEF ListenerReceive
    <3>3. ASSUME n = 0 PROVE ServiceOK'
      <4>1. listening' \in [Listeners -> {"check", "recv", "push", "ended"}]
            /\ \A k \in Listeners : listening'[k] = "push" => listening[k] = "push"
        BY <3>2, <3>3 DEF ServiceOK
      <4>2. UNCHANGED <<unpacking, sending, late>>
        BY <3>1, <3>2, <3>3
      <4>3. ASSUME NEW k \in Listeners, listening'[k] = "push"
            PROVE  /\ unpacking'[k].message \in 1..MaxItems
                   /\ unpacking'[k].left \in 1..MaxLines
        BY <4>1, <4>2, <4>3 DEF ServiceOK
      <4>4. /\ unpacking' \in [Listeners -> [message : 0..MaxItems, left : 0..MaxLines]]
            /\ sending' \in {"check", "get", "send", "ended"}
            /\ late' \subseteq [by : Listeners, message : 1..MaxItems, item : 1..MaxItems]
        BY <4>2 DEF ServiceOK
      <4> QED
        BY <4>1, <4>3, <4>4 DEF ServiceOK
    <3>4. ASSUME n # 0 PROVE ServiceOK'
      <4>1. n - 1 \in 0..MaxLines
        BY <3>4, DataAssumption DEF ItemCounts
      <4>2. pushed + 1 \in 1..MaxItems
        <5>1. pushed \in 0..MaxItems /\ pushed < MaxItems
          BY <3>2, <3>4 DEF Push, W!PushLp, W!PushHp, WorkersInv, WP!TypeInv, WP!TypeOK, WP!QueuesOK
        <5> QED
          BY <5>1, SizesAssumption
      <4>3. PICK m \in 1..MaxItems, left \in 0..MaxLines : m = pushed + 1 /\ left = n - 1
        BY <4>1, <4>2
      <4>4. Push(l, m, left) /\ sending' = sending
        BY <3>1, <3>2, <3>4, <4>3
      <4> QED
        BY <4>4, PushTypes
    <3>5. ServiceOK'
      BY <3>3, <3>4
    <3> QED
      BY <2>1, <2>3, <2>10, <3>1, <3>5 DEF ShutdownOK
  <2>11. ASSUME NEW l \in Listeners, ListenerMoves(l) PROVE RestOK'
    BY <2>8, <2>9, <2>11 DEF ListenerMoves, Listener
  <2>12. ASSUME NEW l \in Listeners, ListenerThrow(l), crashed' = TRUE PROVE RestOK'
    BY <2>1, <2>2, <2>3, <2>12 DEF ListenerThrow
  <2>13. ASSUME NEW command \in Commands, Receive(command), UNCHANGED crashed PROVE RestOK'
    <3>1. arrived.commands + 1 \in 0..MaxCommands
      BY <2>13, SizesAssumption DEF Receive, ShutdownOK
    <3>2. ShutdownOK'
      BY <2>13, <3>1 DEF Receive, ShutdownOK
    <3> QED
      BY <2>1, <2>2, <2>13, <3>2 DEF Receive
  <2>14. ASSUME NEW signal \in Signals, Interrupt(signal), UNCHANGED crashed PROVE RestOK'
    <3>1. PICK n \in BOOLEAN : arrived' = [arrived EXCEPT !.signals = @ \cup {signal}, !.nested = n]
      BY <2>14 DEF Interrupt, ShutdownOK
    <3>2. arrived' \in [commands : 0..MaxCommands, signals : SUBSET Signals, nested : BOOLEAN]
      BY <3>1 DEF ShutdownOK
    <3>3. UNCHANGED <<stopped, stopEvent, running, crashed>>
      BY <2>14 DEF Interrupt
    <3>4. ShutdownOK'
      BY <3>2, <3>3 DEF ShutdownOK
    <3> QED
      BY <2>1, <2>2, <2>14, <3>4 DEF Interrupt
  <2>15. CASE UNCHANGED vars
    BY <2>1, <2>2, <2>15 DEF vars, ShutdownOK
  <2> QED
    BY <2>5, <2>6, <2>7, <2>10, <2>11, <2>12, <2>13, <2>14, <2>15 DEF Next
<1> QED
  BY <1>1, <1>2, TodoInvariance, WorkersInvariance, PTL DEF SafeSpec


(* Every variable of the data processor keeps its type.                    *)
THEOREM TypesHold == SafeSpec => []TypeOK
<1>1. WorkersInv /\ RestOK /\ AfterInv => TypeOK
  BY SameWorkers DEF WorkersInv, WP!TypeInv, RestOK, SupervisorOK, ServiceOK, ShutdownOK, AfterInv,
     Statuses, TypeOK
<1> QED
  BY <1>1, WorkersInvariance, RestInvariance, AfterInvariance, PTL

-----------------------------------------------------------------------------
(* Only a worker that runs moves in its rings.                             *)
LEMMA RingsDoNotChange ==
  ASSUME UNCHANGED <<pc, tokenreading, readLock, tokenresult, resultLock>>
  PROVE  UNCHANGED WP!ReadRing!vars /\ UNCHANGED WP!ResultRing!vars
  BY DEF WP!ReadRing!vars, WP!ResultRing!vars, WP!Readers, WP!Writers, WP!Workers

LEMMA RingStep ==
  WorkersInv /\ [Next]_vars => /\ [WP!ReadRing!Next]_(WP!ReadRing!vars)
                               /\ [WP!ResultRing!Next]_(WP!ResultRing!vars)
<1> SUFFICES ASSUME WorkersInv, [Next]_vars
             PROVE  /\ [WP!ReadRing!Next]_(WP!ReadRing!vars)
                    /\ [WP!ResultRing!Next]_(WP!ResultRing!vars)
  OBVIOUS
<1>1. CASE UNCHANGED <<pc, tokenreading, readLock, tokenresult, resultLock>>
  BY <1>1, RingsDoNotChange
<1>2. CASE \E w \in Workers : W!Run(w)
  <2>1. WP!Next /\ WP!TypeOK /\ WP!LockInv
    BY <1>2, WorkersStep DEF WorkersInv, WP!TypeInv
  <2> QED
    BY <2>1, AssumptionsHold, WP!ReadersStep, WP!WritersStep
<1>3. CASE ~\E w \in Workers : WorkerRun(w)
  <2>1. UNCHANGED <<pc, tokenreading, readLock, tokenresult, resultLock>>
    <3> USE DEF worker
    <3>1. CASE MainMoves
      BY <3>1 DEF MainMoves, GetStatus, Main, Dispatch, Destroy, JoinService, WriteStatus,
         WriteStopdata, WriteContinueall, WriteManager, WriteProcessdata, Clean, CleanPop, Drain,
         NotifyAll, StopWorker, Join, SendInfo, JoinMonitoring
    <3>2. CASE SenderMoves
      BY <3>2 DEF SenderMoves, Sender, SenderCheck, SenderGet, SenderSend
    <3>3. ASSUME NEW w \in Workers, WorkerMoves(w)
          PROVE  UNCHANGED <<pc, tokenreading, readLock, tokenresult, resultLock>>
      BY <1>3, <3>3 DEF WorkerMoves, Worker, WorkerEnd, WorkerThrow
    <3>4. ASSUME NEW l \in Listeners, ListenerMoves(l) \/ ListenerReceive(l) \/ ListenerThrow(l)
          PROVE  UNCHANGED <<pc, tokenreading, readLock, tokenresult, resultLock>>
      BY <3>4 DEF ListenerMoves, Listener, ListenerCheck, ListenerTimeout, ListenerPush, Push,
         W!PushLp, W!PushHp, W!readRing, W!resultRing, ListenerReceive, ListenerThrow
    <3>5. CASE \/ \E command \in Commands : Receive(command)
               \/ \E signal \in Signals : Interrupt(signal)
      BY <3>5 DEF Receive, Interrupt
    <3>6. CASE UNCHANGED vars
      BY <3>6 DEF vars
    <3> QED
      BY <3>1, <3>2, <3>3, <3>4, <3>5, <3>6 DEF Next
  <2> QED
    BY <1>1, <2>1
<1> QED
  BY <1>2, <1>3 DEF WorkerRun

(* Whatever the main thread, the signals and the listeners do, the workers *)
(* of a data processor take turns: its two rings implement TokenRing.      *)
THEOREM WorkersTakeTurns == SafeSpec => WP!ReadersTakeTurns /\ WP!WritersTakeTurns
<1>1. Init => WP!ReadRing!Init /\ WP!ResultRing!Init
  <2>1. Init => WP!Init
    BY DEF Init, W!Init, WP!Init, W!Unlocked, WP!Unlocked, WP!Idle, W!Workers, WP!Workers
  <2> QED
    BY <2>1, AssumptionsHold, WP!ReadersAtStart, WP!WritersAtStart
<1> QED
  BY <1>1, RingStep, WorkersInvariance, PTL
  DEF SafeSpec, WP!ReadersTakeTurns, WP!WritersTakeTurns, WP!ReadRing!Spec, WP!ResultRing!Spec

=============================================================================
