---------------------- MODULE DataProcessorCommandProofs ----------------------
(***************************************************************************)
(* What the commands leave behind, for any number of workers and any       *)
(* sequence of commands and signals.                                       *)
(*                                                                         *)
(* What the supervisor says of itself, what the manager says and what the  *)
(* workers do agree between two commands: a command that does not shut     *)
(* down writes one value everywhere, and a shutdown that has begun clears  *)
(* continueall before the program waits for a command again.               *)
(*                                                                         *)
(* A cleaned shutdown and a reset leave only late data in the data queues. *)
(***************************************************************************)
EXTENDS DataProcessorProofs

(* A step of s that begins with p.                                         *)
Has(s, p) == \E i \in 1..Len(s) : s[i][1] = p
Setters == {"status", "managerProcessdata", "processdata"}

(* Every write of s agrees with the value v; what is left to write.        *)
Agrees(step, v) ==
    /\ step[1] = "status" => (step[2] = "Processing") = (v = 1)
    /\ step[1] = "managerProcessdata" => step[2] = v
    /\ step[1] = "processdata" => step[3] = v
    /\ step[1] \notin {"command", "continueall", "managerEnd", "joinService", "gone"}
Writes(s, v) == s \in Seq(Steps) /\ \A i \in 1..Len(s) : Agrees(s[i], v)
SetsWorker(s, w) == \E i \in 1..Len(s) : s[i][1] = "processdata" /\ s[i][2] = w
WritesAll(s) == Has(s, "status") /\ Has(s, "managerProcessdata")
                /\ \A w \in Workers : SetsWorker(s, w)

LEMMA HasConcat ==
  ASSUME NEW s \in Seq(Steps), NEW t \in Seq(Steps), NEW p, Has(s, p) \/ Has(t, p)
  PROVE  Has(s \o t, p)
<1>1. CASE Has(s, p)
  BY <1>1, ConcatFacts DEF Has
<1>2. CASE Has(t, p)
  <2>1. PICK i \in 1..Len(t) : t[i][1] = p
    BY <1>2 DEF Has
  <2>2. Len(s) + i \in 1..Len(s \o t) /\ (s \o t)[Len(s) + i] = t[i]
    BY ConcatFacts
  <2> QED
    BY <2>1, <2>2 DEF Has
<1> QED
  BY <1>1, <1>2

LEMMA SetsWorkerConcat ==
  ASSUME NEW s \in Seq(Steps), NEW t \in Seq(Steps), NEW w, SetsWorker(s, w) \/ SetsWorker(t, w)
  PROVE  SetsWorker(s \o t, w)
<1>1. CASE SetsWorker(s, w)
  BY <1>1, ConcatFacts DEF SetsWorker
<1>2. CASE SetsWorker(t, w)
  <2>1. PICK i \in 1..Len(t) : t[i][1] = "processdata" /\ t[i][2] = w
    BY <1>2 DEF SetsWorker
  <2>2. Len(s) + i \in 1..Len(s \o t) /\ (s \o t)[Len(s) + i] = t[i]
    BY ConcatFacts
  <2> QED
    BY <2>1, <2>2 DEF SetsWorker
<1> QED
  BY <1>1, <1>2

LEMMA WritesConcat ==
  ASSUME NEW s, NEW t, NEW v, Writes(s, v), Writes(t, v)
  PROVE  /\ Writes(s \o t, v)
         /\ WritesAll(s) \/ WritesAll(t) => WritesAll(s \o t)
<1> USE DEF Writes
<1>1. Writes(s \o t, v)
  BY ConcatFacts
<1>2. ASSUME NEW p, Has(s, p) \/ Has(t, p) PROVE Has(s \o t, p)
  BY <1>2, HasConcat
<1>3. ASSUME NEW w, SetsWorker(s, w) \/ SetsWorker(t, w) PROVE SetsWorker(s \o t, w)
  BY <1>3, SetsWorkerConcat
<1> QED
  BY <1>1, <1>2, <1>3 DEF WritesAll

LEMMA WritesLiterals ==
  ASSUME NEW v
  PROVE  /\ Writes(<<>>, v)
         /\ \A f \in BOOLEAN : Writes(SetStopdata(f), v)
         /\ Writes(CleanQueue, v)
         /\ \A q \in {"lp", "hp", "rhp"} : Writes(<< <<"pop", q>> >>, v)
         /\ Writes(<< <<"info">> >>, v)
<1> USE DEF Writes, Agrees
<1>1. Writes(<<>>, v)
  OBVIOUS
<1>2. ASSUME NEW f \in BOOLEAN PROVE Writes(SetStopdata(f), v)
  BY StepLiterals DEF SetStopdata
<1>3. Writes(CleanQueue, v)
  BY StepLiterals DEF CleanQueue
<1>4. ASSUME NEW q \in {"lp", "hp", "rhp"} PROVE Writes(<< <<"pop", q>> >>, v)
  BY StepLiterals
<1>5. Writes(<< <<"info">> >>, v)
  BY StepLiterals DEF PlainSteps
<1> QED
  BY <1>1, <1>2, <1>3, <1>4, <1>5

LEMMA SetProcessingWrites ==
  ASSUME NEW v \in {0, 1}
  PROVE  Writes(SetProcessing(v), v) /\ WritesAll(SetProcessing(v))
<1> DEFINE l == << <<"status", IF v = 1 THEN "Processing" ELSE "Waiting">>,
                   <<"managerProcessdata", v>> >>
           f == [i \in 1..NumWorkers |-> <<"processdata", i - 1, v>>]
<1>1. <<"status", IF v = 1 THEN "Processing" ELSE "Waiting">> \in Steps
      /\ <<"managerProcessdata", v>> \in Steps
  BY StepLiterals DEF Statuses
<1>2. Writes(l, v)
  BY <1>1 DEF Writes, Agrees
<1>3. Has(l, "status") /\ Has(l, "managerProcessdata") /\ Len(l) = 2
  <2>1. l[1][1] = "status" /\ l[2][1] = "managerProcessdata" /\ 1 \in 1..Len(l) /\ 2 \in 1..Len(l)
    OBVIOUS
  <2> QED
    BY <2>1 DEF Has
<1>4. SetProcessing(v) = l \o f
  BY DEF SetProcessing, ForEachWorker
<1>5. \A i \in 1..NumWorkers : f[i] \in Steps /\ f[i][1] = "processdata" /\ f[i][2] = i - 1 /\ f[i][3] = v
  BY StepLiterals, WorkersAreNumbered
<1>6. f = [i \in 1..NumWorkers |-> f[i]]
  OBVIOUS
<1> HIDE DEF l, f
<1>7. f \in Seq(Steps) /\ Len(f) = NumWorkers
  BY <1>5, <1>6, SizesAssumption, SeqDef, LenProperties
<1>8. Writes(f, v)
  BY <1>5, <1>7 DEF Writes, Agrees
<1>9. ASSUME NEW w \in Workers PROVE SetsWorker(f, w)
  <2>1. w + 1 \in 1..NumWorkers /\ (w + 1) - 1 = w
    BY WorkersAreNumbered
  <2> QED
    BY <1>5, <1>7, <2>1 DEF SetsWorker
<1>10. l \in Seq(Steps) /\ f \in Seq(Steps)
  BY <1>2, <1>7 DEF Writes
<1>11. Has(l \o f, "status") /\ Has(l \o f, "managerProcessdata")
  BY <1>3, <1>10, ConcatFacts DEF Has
<1>12. ASSUME NEW w \in Workers PROVE SetsWorker(l \o f, w)
  <2>1. SetsWorker(f, w)
    BY <1>9
  <2> QED
    BY <1>10, <2>1, ConcatFacts DEF SetsWorker
<1> QED
  BY <1>2, <1>4, <1>8, <1>11, <1>12, WritesConcat DEF WritesAll

(* A command that does not shut down writes the same value everywhere, or  *)
(* none at all.                                                            *)
OneValue(s) == \/ \A v \in {0, 1} : Writes(s, v)
               \/ \E v \in {0, 1} : Writes(s, v) /\ WritesAll(s)

LEMMA StartAndStopWrite ==
  /\ Writes(CommandStart, 1) /\ WritesAll(CommandStart)
  /\ Writes(CommandStop, 0) /\ WritesAll(CommandStop)
<1>1. Writes(SetProcessing(1), 1) /\ WritesAll(SetProcessing(1))
      /\ Writes(SetProcessing(0), 0) /\ WritesAll(SetProcessing(0))
  BY SetProcessingWrites
<1>2. Writes(SetStopdata(FALSE), 1) /\ Writes(SetStopdata(TRUE), 0)
  BY WritesLiterals
<1> QED
  BY <1>1, <1>2, WritesConcat DEF CommandStart, CommandStop

LEMMA ResetWrites == OneValue(CommandReset)
<1> DEFINE z == << <<"status", "Waiting">> >>
<1>1. Writes(z, 0)
  BY StepLiterals DEF Writes, Agrees, Statuses
<1> HIDE DEF z
<1>2. Writes(CleanQueue, 0)
  BY WritesLiterals
<1>3. Writes(CommandStop \o CleanQueue, 0) /\ WritesAll(CommandStop \o CleanQueue)
  BY <1>2, StartAndStopWrite, WritesConcat
<1>4. Writes((CommandStop \o CleanQueue) \o z, 0) /\ WritesAll((CommandStop \o CleanQueue) \o z)
  BY <1>1, <1>3, WritesConcat
<1>5. CASE CommandReset = <<>>
  BY <1>5, WritesLiterals DEF OneValue
<1>6. CASE CommandReset = (CommandStop \o CleanQueue) \o z
  BY <1>4, <1>6 DEF OneValue
<1> QED
  BY <1>5, <1>6 DEF CommandReset, z

LEMMA PlainCommands ==
  ASSUME NEW c \in Commands \ {"shutdown", "cleanedshutdown", "getstatus"}
  PROVE  OneValue(StepsOf(c))
<1>1. \A f \in BOOLEAN : OneValue(SetStopdata(f))
  BY WritesLiterals DEF OneValue
<1>2. OneValue(SetProcessing(0)) /\ OneValue(SetProcessing(1))
  BY SetProcessingWrites DEF OneValue
<1>3. OneValue(CommandStart) /\ OneValue(CommandStop)
  BY StartAndStopWrite DEF OneValue
<1> QED
  BY <1>1, <1>2, <1>3, ResetWrites, CommandsAssumption DEF StepsOf

(* A list that shuts down clears continueall, and before the manager ends. *)
Doomed(s) == \/ Has(s, "continueall")
             \/ \E i \in 1..Len(s) : s[i][1] = "command" /\ s[i][2] \in {"shutdown", "cleanedshutdown"}
Guarded(s) == \A j \in 1..Len(s) : s[j][1] = "managerEnd" =>
                  \E i \in 1..Len(s) : i < j /\ s[i][1] = "continueall"

LEMMA GuardedConcat ==
  ASSUME NEW s \in Seq(Steps), NEW t \in Seq(Steps), Guarded(s),
         Guarded(t) \/ Has(s, "continueall")
  PROVE  Guarded(s \o t)
<1> SUFFICES ASSUME NEW j \in 1..Len(s \o t), (s \o t)[j][1] = "managerEnd"
             PROVE  \E i \in 1..Len(s \o t) : i < j /\ (s \o t)[i][1] = "continueall"
  BY DEF Guarded
<1>1. CASE j \in 1..Len(s) /\ (s \o t)[j] = s[j]
  <2>1. PICK i \in 1..Len(s) : i < j /\ s[i][1] = "continueall"
    BY <1>1 DEF Guarded
  <2> QED
    BY <2>1, ConcatFacts
<1>2. ASSUME j > Len(s), Has(s, "continueall")
      PROVE  \E i \in 1..Len(s \o t) : i < j /\ (s \o t)[i][1] = "continueall"
  <2>1. PICK i \in 1..Len(s) : s[i][1] = "continueall"
    BY <1>2 DEF Has
  <2>2. i < j /\ i \in 1..Len(s \o t) /\ (s \o t)[i] = s[i]
    BY <1>2, ConcatFacts
  <2> QED
    BY <2>1, <2>2
<1>3. ASSUME j > Len(s), j - Len(s) \in 1..Len(t), (s \o t)[j] = t[j - Len(s)], Guarded(t)
      PROVE  \E i \in 1..Len(s \o t) : i < j /\ (s \o t)[i][1] = "continueall"
  <2>1. PICK i \in 1..Len(t) : i < j - Len(s) /\ t[i][1] = "continueall"
    BY <1>3 DEF Guarded
  <2>2. Len(s) + i < j /\ Len(s) + i \in 1..Len(s \o t) /\ (s \o t)[Len(s) + i] = t[i]
    BY <2>1, ConcatFacts
  <2> QED
    BY <2>1, <2>2
<1> QED
  BY <1>1, <1>2, <1>3, ConcatFacts

LEMMA DoomedConcat ==
  ASSUME NEW s \in Seq(Steps), NEW t \in Seq(Steps)
  PROVE  /\ Has(s, "continueall") => Doomed(s \o t) /\ Has(s \o t, "continueall")
         /\ Has(t, "continueall") => Has(s \o t, "continueall")
         /\ Doomed(t) => Doomed(s \o t)
<1>1. ASSUME NEW p, Has(s, p) \/ Has(t, p) PROVE Has(s \o t, p)
  BY <1>1, HasConcat
<1>2. ASSUME NEW i \in 1..Len(t), t[i][1] = "command", t[i][2] \in {"shutdown", "cleanedshutdown"}
      PROVE  Doomed(s \o t)
  <2>1. Len(s) + i \in 1..Len(s \o t) /\ (s \o t)[Len(s) + i] = t[i]
    BY ConcatFacts
  <2> QED
    BY <1>2, <2>1 DEF Doomed
<1> QED
  BY <1>1, <1>2 DEF Doomed

LEMMA WritesIsGuarded ==
  ASSUME NEW s, NEW v, Writes(s, v)
  PROVE  s \in Seq(Steps) /\ Guarded(s)
  BY DEF Writes, Agrees, Guarded

LEMMA ShutdownIsGuarded == Guarded(CommandShutdown) /\ Has(CommandShutdown, "continueall")
                           /\ CommandShutdown \in Seq(Steps)
<1> DEFINE z == << <<"status", "Shutdown">> >>
           c == << <<"continueall">> >>
<1>1. Writes(z, 0)
  BY StepLiterals DEF Writes, Agrees, Statuses
<1>2. c \in Seq(Steps) /\ c[1][1] = "continueall" /\ Len(c) = 1
  BY StepLiterals DEF PlainSteps
<1>3. CommandShutdown = z \o ((c \o CommandStop) \o ManagerStop)
  BY DEF CommandShutdown, StopAll
<1> HIDE DEF z, c
<1>4. Guarded(c) /\ Has(c, "continueall")
  BY <1>2 DEF Guarded, Has
<1>5. CommandStop \in Seq(Steps) /\ Guarded(CommandStop)
  BY StartAndStopWrite, WritesIsGuarded
<1>6. z \in Seq(Steps) /\ Guarded(z)
  BY <1>1, WritesIsGuarded
<1> DEFINE d == c \o CommandStop
<1>7. d \in Seq(Steps) /\ Guarded(d) /\ Has(d, "continueall")
  BY <1>2, <1>4, <1>5, ConcatFacts, GuardedConcat, DoomedConcat
<1>8. ManagerStop \in Seq(Steps)
  BY ManagerStopStopsAll DEF Quiet
<1> HIDE DEF d
<1> DEFINE e == d \o ManagerStop
<1>9. e \in Seq(Steps) /\ Guarded(e) /\ Has(e, "continueall")
  BY <1>7, <1>8, ConcatFacts, GuardedConcat, DoomedConcat
<1>10. CommandShutdown = z \o e
  BY <1>3 DEF d, e
<1> HIDE DEF e
<1> QED
  BY <1>6, <1>9, <1>10, ConcatFacts, GuardedConcat, DoomedConcat

LEMMA ShutdownCommands ==
  ASSUME NEW c \in {"shutdown", "cleanedshutdown"}
  PROVE  StepsOf(c) \in Seq(Steps) /\ Guarded(StepsOf(c)) /\ Has(StepsOf(c), "continueall")
<1>1. CASE c = "shutdown"
  BY <1>1, ShutdownIsGuarded DEF StepsOf
<1>2. CASE c = "cleanedshutdown"
  <2> DEFINE a == << <<"status", "EndingProcessing">> >>
             b == << <<"drainLp">>, <<"drainResults">> >>
             p == (a \o SetStopdata(TRUE)) \o b
  <2>1. Writes(a, 0) /\ Writes(b, 0)
    BY StepLiterals DEF Writes, Agrees, Statuses, PlainSteps
  <2>2. Writes(SetStopdata(TRUE), 0) /\ Writes(<<>>, 0)
    BY WritesLiterals
  <2>3. CommandCleanedShutdown = p \o CommandShutdown \/ CommandCleanedShutdown = <<>> \o CommandShutdown
    BY DEF CommandCleanedShutdown
  <2> HIDE DEF a, b
  <2>4. Writes(p, 0)
    BY <2>1, <2>2, WritesConcat
  <2> HIDE DEF p
  <2>5. ASSUME NEW q, Writes(q, 0)
        PROVE  /\ q \o CommandShutdown \in Seq(Steps) /\ Guarded(q \o CommandShutdown)
               /\ Has(q \o CommandShutdown, "continueall")
    BY <2>5, WritesIsGuarded, ShutdownIsGuarded, ConcatFacts, GuardedConcat, DoomedConcat
  <2> QED
    BY <1>2, <2>2, <2>3, <2>4, <2>5 DEF StepsOf
<1> QED
  BY <1>1, <1>2

-----------------------------------------------------------------------------
(* Once s is done, everything says v.                                      *)
Settles(s, v) ==
    /\ Writes(s, v)
    /\ Has(s, "status") \/ (supervisor.status = "Processing") = (v = 1)
    /\ Has(s, "managerProcessdata") \/ manager.processdata = v
    /\ \A w \in Workers : SetsWorker(s, w) \/ processdata[w] = v
Waits(s) == \E c \in Commands : s = << <<"command", c>> >>
Plain(s) == \E v \in {0, 1} : Settles(s, v) \/ (Waits(s) /\ Settles(<<>>, v))
StatusInv == supervisor.continueall =>
                 /\ manager = ChangedStatus(manager)
                 /\ Guarded(todo)
                 /\ Doomed(todo) \/ Plain(todo)

LEMMA TailLists ==
  ASSUME NEW s \in Seq(Steps), s # <<>>, Guarded(s), s[1][1] # "continueall"
  PROVE  /\ s[1][1] # "managerEnd"
         /\ Guarded(Tail(s))
         /\ Doomed(s) /\ ~(s[1][1] = "command" /\ s[1][2] \in {"shutdown", "cleanedshutdown"})
               => Doomed(Tail(s))
         /\ \A p : Has(s, p) /\ s[1][1] # p => Has(Tail(s), p)
         /\ \A w : SetsWorker(s, w) /\ ~(s[1][1] = "processdata" /\ s[1][2] = w)
               => SetsWorker(Tail(s), w)
         /\ \A v : Writes(s, v) => Agrees(s[1], v) /\ Writes(Tail(s), v)
<1> DEFINE t == Tail(s)
<1>1. /\ t \in Seq(Steps) /\ Len(t) \in Nat /\ 1 \in 1..Len(s)
      /\ \A i \in 1..Len(t) : i + 1 \in 1..Len(s) /\ t[i] = s[i + 1]
      /\ \A i \in 1..Len(s) : i = 1 \/ (i - 1 \in 1..Len(t) /\ t[i - 1] = s[i])
  BY TailFacts, LenProperties
<1> HIDE DEF t
<1>2. s[1][1] # "managerEnd"
  BY <1>1 DEF Guarded
<1>3. Guarded(t)
  <2> SUFFICES ASSUME NEW j \in 1..Len(t), t[j][1] = "managerEnd"
               PROVE  \E i \in 1..Len(t) : i < j /\ t[i][1] = "continueall"
    BY DEF Guarded
  <2>1. PICK i \in 1..Len(s) : i < j + 1 /\ s[i][1] = "continueall"
    BY <1>1 DEF Guarded
  <2>2. i - 1 \in 1..Len(t) /\ t[i - 1] = s[i] /\ i - 1 < j
    BY <1>1, <2>1
  <2> QED
    BY <2>1, <2>2
<1>4. ASSUME NEW p, Has(s, p), s[1][1] # p PROVE Has(t, p)
  <2>1. PICK i \in 1..Len(s) : s[i][1] = p
    BY <1>4 DEF Has
  <2>2. i - 1 \in 1..Len(t) /\ t[i - 1] = s[i]
    BY <1>1, <1>4, <2>1
  <2> QED
    BY <2>1, <2>2 DEF Has
<1>5. ASSUME NEW w, SetsWorker(s, w), ~(s[1][1] = "processdata" /\ s[1][2] = w)
      PROVE  SetsWorker(t, w)
  <2>1. PICK i \in 1..Len(s) : s[i][1] = "processdata" /\ s[i][2] = w
    BY <1>5 DEF SetsWorker
  <2>2. i - 1 \in 1..Len(t) /\ t[i - 1] = s[i]
    BY <1>1, <1>5, <2>1
  <2> QED
    BY <2>1, <2>2 DEF SetsWorker
<1>6. ASSUME Doomed(s), ~(s[1][1] = "command" /\ s[1][2] \in {"shutdown", "cleanedshutdown"})
      PROVE  Doomed(t)
  <2>1. CASE Has(s, "continueall")
    BY <1>4, <2>1 DEF Doomed
  <2>2. CASE ~Has(s, "continueall")
    <3>1. PICK i \in 1..Len(s) : s[i][1] = "command" /\ s[i][2] \in {"shutdown", "cleanedshutdown"}
      BY <1>6, <2>2 DEF Doomed
    <3>2. i - 1 \in 1..Len(t) /\ t[i - 1] = s[i]
      BY <1>1, <1>6, <3>1
    <3> QED
      BY <3>1, <3>2 DEF Doomed
  <2> QED
    BY <2>1, <2>2
<1>7. ASSUME NEW v, Writes(s, v) PROVE Agrees(s[1], v) /\ Writes(t, v)
  <2>1. \A i \in 1..Len(t) : Agrees(t[i], v)
    BY <1>1, <1>7 DEF Writes
  <2> QED
    BY <1>1, <1>7, <2>1 DEF Writes
<1> QED
  BY <1>2, <1>3, <1>4, <1>5, <1>6, <1>7 DEF t

LEMMA WaitsFacts ==
  ASSUME NEW s, Waits(s)
  PROVE  /\ s[1][1] = "command" /\ Tail(s) = <<>> /\ s # <<>>
         /\ s[1][2] \in Commands
  BY DEF Waits

LEMMA EmptyHasNothing ==
  /\ \A p : ~Has(<<>>, p)
  /\ \A w : ~SetsWorker(<<>>, w)
  /\ ~Doomed(<<>>) /\ ~Waits(<<>>)
  BY DEF Has, SetsWorker, Doomed, Waits

LEMMA StatusesChange ==
  ASSUME NEW m \in [status : ManagerStatuses, stopdata : BOOLEAN, processdata : {0, 1}],
         NEW f \in BOOLEAN, NEW v \in {0, 1}
  PROVE  /\ ChangedStatus([m EXCEPT !.stopdata = f]) =
               ChangedStatus(ChangedStatus([m EXCEPT !.stopdata = f]))
         /\ ChangedStatus([m EXCEPT !.stopdata = f]).processdata = m.processdata
         /\ ChangedStatus([m EXCEPT !.processdata = v]) =
               ChangedStatus(ChangedStatus([m EXCEPT !.processdata = v]))
         /\ ChangedStatus([m EXCEPT !.processdata = v]).processdata = v
  BY DEF ChangedStatus

(* A list that writes nothing may be put in front.                         *)
LEMMA PrefixSettles ==
  ASSUME NEW p, \A v \in {0, 1} : Writes(p, v), NEW s \in Seq(Steps), Guarded(s),
         Doomed(s) \/ \E v \in {0, 1} : Settles(s, v)
  PROVE  Guarded(p \o s) /\ (Doomed(p \o s) \/ \E v \in {0, 1} : Settles(p \o s, v))
<1>1. p \in Seq(Steps) /\ Guarded(p)
  BY WritesIsGuarded
<1>2. Guarded(p \o s)
  BY <1>1, GuardedConcat
<1>3. CASE Doomed(s)
  BY <1>1, <1>2, <1>3, DoomedConcat
<1>4. ASSUME NEW v \in {0, 1}, Settles(s, v) PROVE Settles(p \o s, v)
  <2>1. Writes(p, v) /\ Writes(s, v)
    BY <1>4 DEF Settles
  <2>2. Writes(p \o s, v)
    BY <2>1, WritesConcat
  <2>3. \A q : Has(s, q) => Has(p \o s, q)
    BY <1>1, HasConcat
  <2>4. \A w : SetsWorker(s, w) => SetsWorker(p \o s, w)
    BY <1>1, SetsWorkerConcat
  <2> QED
    BY <1>4, <2>2, <2>3, <2>4 DEF Settles
<1> QED
  BY <1>2, <1>3, <1>4

(* What a list will do, the list with a send_info in front of it will do.  *)
LEMMA InfoInFront ==
  ASSUME NEW t \in Seq(Steps), NEW l, l = t \/ l = << <<"info">> >> \o t
  PROVE  /\ \A p : Has(t, p) => Has(l, p)
         /\ \A w : SetsWorker(t, w) => SetsWorker(l, w)
         /\ \A v : Writes(t, v) => Writes(l, v)
         /\ Guarded(t) => Guarded(l)
         /\ Doomed(t) => Doomed(l)
<1> DEFINE p == << <<"info">> >>
<1>1. p \in Seq(Steps) /\ Guarded(p) /\ \A v : Writes(p, v)
  BY WritesLiterals, WritesIsGuarded
<1>2. l = t \/ l = p \o t
  OBVIOUS
<1> HIDE DEF p
<1> QED
  BY <1>1, <1>2, HasConcat, SetsWorkerConcat, WritesConcat, GuardedConcat, DoomedConcat

(* The command begins.                                                     *)
LEMMA DispatchSettles ==
  ASSUME NEW s \in Seq(Steps), s # <<>>, Guarded(s), Doomed(s) \/ Plain(s),
         s[1][1] = "command", s[1][2] # "getstatus"
  PROVE  /\ Guarded(StepsOf(s[1][2]) \o Tail(s))
         /\ Doomed(StepsOf(s[1][2]) \o Tail(s)) \/ Plain(StepsOf(s[1][2]) \o Tail(s))
<1> DEFINE c == s[1][2]
           t == Tail(s)
<1>1. t \in Seq(Steps) /\ Guarded(t) /\ c \in Commands \cup {"shutdown", "cleanedshutdown"}
  BY TailLists, TailFacts, StepFacts
<1>2. CASE c \in {"shutdown", "cleanedshutdown"}
  <2>1. StepsOf(c) \in Seq(Steps) /\ Guarded(StepsOf(c)) /\ Has(StepsOf(c), "continueall")
    BY <1>2, ShutdownCommands
  <2> HIDE DEF c, t
  <2>2. Guarded(StepsOf(c) \o t) /\ Doomed(StepsOf(c) \o t)
    BY <1>1, <2>1, GuardedConcat, DoomedConcat
  <2> QED
    BY <2>2 DEF c, t
<1>3. CASE c \notin {"shutdown", "cleanedshutdown"}
  <2>1. OneValue(StepsOf(c))
    BY <1>1, <1>3, PlainCommands
  <2>2. StepsOf(c) \in Seq(Steps) /\ Guarded(StepsOf(c))
    BY <2>1, WritesIsGuarded DEF OneValue
  <2>3. Guarded(StepsOf(c) \o t)
    BY <1>1, <2>2, GuardedConcat
  <2>4. CASE Doomed(s)
    <3>1. Doomed(t)
      BY <1>3, <2>4, TailLists
    <3> QED
      BY <1>1, <2>2, <2>3, <3>1, DoomedConcat
  <2>5. CASE Plain(s)
    <3>1. ~\E v : Writes(s, v)
      BY TailFacts DEF Writes, Agrees
    <3>2. PICK v \in {0, 1} : Waits(s) /\ Settles(<<>>, v)
      BY <2>5, <3>1 DEF Plain, Settles
    <3>3. t = <<>> /\ StepsOf(c) \o t = StepsOf(c)
      BY <2>2, <3>2, WaitsFacts, ConcatEmptySeq
    <3>4. CASE \A u \in {0, 1} : Writes(StepsOf(c), u)
      <4>1. Settles(StepsOf(c), v)
        BY <3>2, <3>4, EmptyHasNothing DEF Settles
      <4> QED
        BY <2>3, <3>3, <4>1 DEF Plain
    <3>5. CASE \E u \in {0, 1} : Writes(StepsOf(c), u) /\ WritesAll(StepsOf(c))
      <4>1. \E u \in {0, 1} : Settles(StepsOf(c), u)
        BY <3>5 DEF Settles, WritesAll
      <4> QED
        BY <2>3, <3>3, <4>1 DEF Plain
    <3> QED
      BY <2>1, <3>4, <3>5 DEF OneValue
  <2> QED
    BY <2>4, <2>5
<1> QED
  BY <1>2, <1>3

LEMMA StatusInvariance == SafeSpec => []StatusInv
<1>1. Init => StatusInv
  <2> SUFFICES ASSUME Init PROVE StatusInv
    OBVIOUS
  <2>1. /\ todo = <<>> /\ supervisor.status = "Waiting" /\ \A w \in Workers : processdata[w] = 0
        /\ manager = [status |-> "Initialised", stopdata |-> TRUE, processdata |-> 0]
    BY DEF Init, SupervisorInit, ManagerInit, W!Init, Workers
  <2>2. manager = ChangedStatus(manager)
    BY <2>1 DEF ChangedStatus, StatusOf
  <2>3. Settles(<<>>, 0)
    BY <2>1, WritesLiterals DEF Settles
  <2>4. Guarded(<<>>)
    BY DEF Guarded
  <2> QED
    BY <2>1, <2>2, <2>3, <2>4 DEF StatusInv, Plain
<1>2. JoinInv /\ AfterInv /\ RestOK /\ StatusInv /\ [Next]_vars => StatusInv'
  <2> SUFFICES ASSUME JoinInv, AfterInv, RestOK, StatusInv, [Next]_vars, supervisor'.continueall
               PROVE  StatusInv'
    BY DEF StatusInv
  <2> USE DEF worker, shutdown
  <2>0. /\ todo \in Seq(Steps)
        /\ todo # <<>> => Head(todo) = todo[1] /\ todo[1] \in Steps
        /\ Argument = Head(todo)[2]
    BY TailFacts DEF JoinInv, Todo, Argument
  <2>1. ASSUME UNCHANGED <<supervisor, manager, todo, processdata>> PROVE StatusInv'
    BY <2>1 DEF StatusInv, Plain, Settles
  <2>2. ASSUME Done \/ Announce, todo # <<>>, supervisor.continueall,
               todo[1][1] \notin {"continueall", "command"},
               manager = ChangedStatus(manager) => manager' = ChangedStatus(manager'),
               \/ todo[1][1] # "status" /\ supervisor'.status = supervisor.status
               \/ todo[1][1] = "status" /\ supervisor'.status = todo[1][2],
               \/ todo[1][1] # "managerProcessdata" /\ manager'.processdata = manager.processdata
               \/ todo[1][1] = "managerProcessdata" /\ manager'.processdata = todo[1][2],
               \/ todo[1][1] # "processdata" /\ processdata' = processdata
               \/ /\ todo[1][1] = "processdata"
                  /\ \A w \in Workers : processdata'[w] = IF w = todo[1][2] THEN todo[1][3] ELSE processdata[w]
        PROVE  StatusInv'
    <3>1. Guarded(todo) /\ (Doomed(todo) \/ Plain(todo)) /\ manager' = ChangedStatus(manager')
      BY <2>2 DEF StatusInv
    <3>2. /\ \A p : Has(Tail(todo), p) => Has(todo', p)
          /\ \A w : SetsWorker(Tail(todo), w) => SetsWorker(todo', w)
          /\ \A v : Writes(Tail(todo), v) => Writes(todo', v)
          /\ Guarded(Tail(todo)) => Guarded(todo')
          /\ Doomed(Tail(todo)) => Doomed(todo')
      <4>1. Tail(todo) \in Seq(Steps)
        BY <2>0, <2>2, TailFacts
      <4> QED
        BY <2>2, <4>1, InfoInFront DEF Done, Announce
    <3>3. Guarded(Tail(todo)) /\ (Doomed(todo) => Doomed(Tail(todo)))
      BY <2>0, <2>2, <3>1, TailLists
    <3>4. ASSUME NEW v \in {0, 1}, Settles(todo, v) PROVE Settles(todo, v)'
      <4>1. Agrees(todo[1], v) /\ Writes(Tail(todo), v)
        BY <2>0, <2>2, <3>1, <3>4, TailLists DEF Settles
      <4>2. Has(Tail(todo), "status") \/ (supervisor'.status = "Processing") = (v = 1)
        BY <2>0, <2>2, <3>1, <3>4, <4>1, TailLists DEF Settles, Agrees
      <4>3. Has(Tail(todo), "managerProcessdata") \/ manager'.processdata = v
        BY <2>0, <2>2, <3>1, <3>4, <4>1, TailLists DEF Settles, Agrees
      <4>4. ASSUME NEW w \in Workers PROVE SetsWorker(Tail(todo), w) \/ processdata'[w] = v
        BY <2>0, <2>2, <3>1, <3>4, <4>1, TailLists DEF Settles, Agrees
      <4>5. /\ Writes(todo', v)
            /\ Has(todo', "status") \/ (supervisor'.status = "Processing") = (v = 1)
            /\ Has(todo', "managerProcessdata") \/ manager'.processdata = v
            /\ \A w \in Workers : SetsWorker(todo', w) \/ processdata'[w] = v
        BY <3>2, <4>1, <4>2, <4>3, <4>4
      <4>6. Writes(todo, v)'
        BY <4>5 DEF Writes
      <4>7. Has(todo, "status")' \/ (supervisor'.status = "Processing") = (v = 1)
        BY <4>5 DEF Has
      <4>8. Has(todo, "managerProcessdata")' \/ manager'.processdata = v
        BY <4>5 DEF Has
      <4>9. \A w \in Workers : SetsWorker(todo, w)' \/ processdata'[w] = v
        BY <4>5 DEF SetsWorker
      <4> QED
        BY <4>6, <4>7, <4>8, <4>9 DEF Settles
    <3>5. ~Waits(todo)
      BY <2>2, WaitsFacts
    <3>6. Doomed(todo)' \/ \E v \in {0, 1} : Settles(todo, v)'
      <4>1. Doomed(Tail(todo)) => Doomed(todo)'
        BY <3>2 DEF Doomed, Has
      <4> QED
        BY <3>1, <3>3, <3>4, <3>5, <4>1 DEF Plain
    <3>7. Guarded(todo)'
      BY <3>3, <3>2 DEF Guarded
    <3> QED
      BY <3>1, <3>6, <3>7 DEF StatusInv, Plain
  <2>a. ASSUME NEW l, todo' = l, Guarded(l), Doomed(l) \/ Plain(l),
               UNCHANGED <<supervisor, manager, processdata>>
        PROVE  StatusInv'
    <3>1. Guarded(todo)'
      BY <2>a DEF Guarded
    <3>2. Doomed(l) => Doomed(todo)'
      BY <2>a DEF Doomed, Has
    <3>3. ASSUME NEW v \in {0, 1}, Settles(l, v) PROVE Settles(todo, v)'
      BY <2>a, <3>3 DEF Settles, Writes, Has, SetsWorker
    <3>4. ASSUME NEW v \in {0, 1}, Waits(l), Settles(<<>>, v)
          PROVE  Waits(todo)' /\ Settles(<<>>, v)'
      BY <2>a, <3>4 DEF Waits, Settles, Writes, Has, SetsWorker
    <3>5. manager' = ChangedStatus(manager')
      BY <2>a DEF StatusInv
    <3> QED
      BY <2>a, <3>1, <3>2, <3>3, <3>4, <3>5 DEF StatusInv, Plain
  <2>3. ASSUME NEW p, \A v \in {0, 1} : Writes(p, v), NEW s, todo' = p \o s, s \in Seq(Steps),
               Guarded(s), Doomed(s) \/ \E v \in {0, 1} : Settles(s, v),
               UNCHANGED <<supervisor, manager, processdata>>
        PROVE  StatusInv'
    <3>1. Guarded(p \o s) /\ (Doomed(p \o s) \/ \E v \in {0, 1} : Settles(p \o s, v))
      BY <2>3, PrefixSettles
    <3> QED
      BY <2>a, <2>3, <3>1 DEF Plain
  <2>4. ASSUME todo # <<>>, supervisor.continueall,
               todo[1][1] \notin {"continueall", "command"} \cup Setters
        PROVE  /\ Tail(todo) \in Seq(Steps) /\ Guarded(Tail(todo))
               /\ Doomed(Tail(todo)) \/ \E v \in {0, 1} : Settles(Tail(todo), v)
               /\ todo \in Seq(Steps) /\ Guarded(todo)
               /\ Doomed(todo) \/ \E v \in {0, 1} : Settles(todo, v)
    <3>1. Guarded(todo) /\ (Doomed(todo) \/ Plain(todo)) /\ ~Waits(todo)
      BY <2>4, WaitsFacts DEF StatusInv
    <3>2. Guarded(Tail(todo)) /\ (Doomed(todo) => Doomed(Tail(todo)))
      BY <2>0, <2>4, <3>1, TailLists
    <3>3. ASSUME NEW v \in {0, 1}, Settles(todo, v) PROVE Settles(Tail(todo), v)
      BY <2>0, <2>4, <3>1, <3>3, TailLists DEF Settles, Setters
    <3> QED
      BY <2>0, <2>4, <3>1, <3>2, <3>3, TailFacts DEF Plain
  <2>5. CASE WriteStatus \/ WriteStopdata
    <3>1. /\ Done \/ Announce
          /\ todo # <<>> /\ UNCHANGED <<manager, processdata>> /\ supervisor.continueall
          /\ \/ todo[1][1] = "stopdata" /\ supervisor'.status = supervisor.status
             \/ todo[1][1] = "status" /\ supervisor'.status = todo[1][2]
      BY <2>0, <2>5 DEF WriteStatus, WriteStopdata, At, RestOK, SupervisorOK
    <3> QED
      BY <2>2, <3>1
  <2>6. CASE WriteContinueall
    BY <2>6 DEF WriteContinueall, RestOK, SupervisorOK
  <2>7. CASE WriteManager
    <3>1. /\ Done \/ Announce
          /\ todo # <<>> /\ UNCHANGED <<supervisor, processdata>> /\ supervisor.continueall
      BY <2>7 DEF WriteManager, At
    <3>2. todo[1][1] # "managerEnd"
      <4>1. Guarded(todo) /\ 1 \in 1..Len(todo)
        BY <2>0, <3>1, TailFacts DEF StatusInv
      <4> QED
        BY <4>1 DEF Guarded
    <3>3. CASE todo[1][1] = "managerStopdata"
      <4>1. manager' = ChangedStatus([manager EXCEPT !.stopdata = todo[1][2]]) /\ todo[1][2] \in BOOLEAN
        BY <2>0, <2>7, <3>3, StepFacts DEF WriteManager, At
      <4>2. manager' = ChangedStatus(manager') /\ manager'.processdata = manager.processdata
        BY <4>1, StatusesChange DEF RestOK, SupervisorOK
      <4> QED
        BY <2>2, <3>1, <3>3, <4>2
    <3>4. CASE todo[1][1] = "managerProcessdata"
      <4>1. manager' = ChangedStatus([manager EXCEPT !.processdata = todo[1][2]]) /\ todo[1][2] \in {0, 1}
        BY <2>0, <2>7, <3>4, StepFacts DEF WriteManager, At
      <4>2. manager' = ChangedStatus(manager') /\ manager'.processdata = todo[1][2]
        BY <4>1, StatusesChange DEF RestOK, SupervisorOK
      <4> QED
        BY <2>2, <3>1, <3>4, <4>2
    <3> QED
      BY <2>0, <2>7, <3>1, <3>2, <3>3, <3>4 DEF WriteManager, At
  <2>8. CASE WriteProcessdata
    <3>1. /\ Done /\ todo # <<>> /\ UNCHANGED <<supervisor, manager>> /\ supervisor.continueall
          /\ todo[1][1] = "processdata" /\ todo[1][2] \in Workers
          /\ processdata' = [processdata EXCEPT ![todo[1][2]] = todo[1][3]]
      BY <2>0, <2>8, StepFacts DEF WriteProcessdata, At
    <3>2. \A w \in Workers : processdata'[w] = IF w = todo[1][2] THEN todo[1][3] ELSE processdata[w]
      BY <3>1 DEF AfterInv
    <3> QED
      BY <2>2, <3>1, <3>2
  <2>9. ASSUME Done, todo # <<>>, UNCHANGED <<supervisor, manager, processdata>>,
               todo[1][1] \notin {"continueall", "command"} \cup Setters
        PROVE  StatusInv'
    BY <2>2, <2>9 DEF Setters
  <2>10. ASSUME NEW p, \A v \in {0, 1} : Writes(p, v), todo # <<>>,
                todo' = p \o todo \/ todo' = p \o Tail(todo),
                UNCHANGED <<supervisor, manager, processdata>>,
                todo[1][1] \notin {"continueall", "command"} \cup Setters
         PROVE  StatusInv'
    BY <2>3, <2>4, <2>10
  <2>11. \A a \in {"drainHp", "drainLp"} : \A v : Writes(<< <<a>> >>, v)
    BY StepLiterals DEF Writes, Agrees, PlainSteps
  <2>12. CASE SendInfo \/ CleanPop \/ JoinService \/ NotifyAll \/ Join \/ JoinMonitoring
    <3>1. /\ Done /\ todo # <<>> /\ UNCHANGED <<supervisor, manager, processdata>>
          /\ todo[1][1] \in {"info", "pop", "joinService", "notify", "join", "joinMonitoring"}
      BY <2>0, <2>12 DEF SendInfo, CleanPop, JoinService, NotifyAll, Join, JoinMonitoring, At
    <3> QED
      BY <2>9, <3>1 DEF Setters
  <2>13. CASE Drain
    <3>1. /\ todo # <<>> /\ UNCHANGED <<supervisor, manager, processdata>>
          /\ todo[1][1] \in {"drainLp", "drainHp", "drainResults"}
          /\ \/ Done
             \/ \E a \in {"drainHp", "drainLp"} : todo' = << <<a>> >> \o Tail(todo)
      BY <2>0, <2>13 DEF Drain, At
    <3> QED
      BY <2>9, <2>10, <2>11, <3>1 DEF Setters
  <2>14. CASE Clean
    <3>1. /\ todo # <<>> /\ UNCHANGED <<supervisor, manager, processdata>>
          /\ todo[1][1] = "clean" /\ todo[1][2] \in {"lp", "hp", "rhp"}
          /\ Done \/ todo' = << <<"pop", todo[1][2]>> >> \o todo
      BY <2>0, <2>14, StepFacts DEF Clean, At, Done
    <3>2. \A v \in {0, 1} : Writes(<< <<"pop", todo[1][2]>> >>, v)
      BY <3>1, WritesLiterals
    <3> QED
      BY <2>9, <2>10, <3>1, <3>2 DEF Setters
  <2>15. CASE StopWorker
    <3>1. /\ todo # <<>> /\ UNCHANGED <<supervisor, manager, processdata>>
          /\ todo[1][1] = "stopWorker" /\ todo[1][2] \in Workers
          /\ Done \/ todo' = << <<"join", todo[1][2]>> >> \o Tail(todo)
      BY <2>0, <2>15, StepFacts DEF StopWorker, At
    <3>2. \A v \in {0, 1} : Writes(<< <<"join", todo[1][2]>> >>, v)
      <4>1. <<"join", todo[1][2]>> \in Steps
        BY <3>1, StepLiterals
      <4> QED
        BY <4>1 DEF Writes, Agrees
    <3> QED
      BY <2>9, <2>10, <3>1, <3>2 DEF Setters
  <2>16. CASE Dispatch
    <3>1. /\ todo # <<>> /\ UNCHANGED <<supervisor, manager, processdata>>
          /\ todo[1][1] = "command" /\ todo[1][2] # "getstatus"
          /\ todo' = StepsOf(todo[1][2]) \o Tail(todo)
      BY <2>0, <2>16 DEF Dispatch, At
    <3>2. Guarded(todo) /\ (Doomed(todo) \/ Plain(todo))
      BY <3>1 DEF StatusInv
    <3>3. /\ Guarded(StepsOf(todo[1][2]) \o Tail(todo))
          /\ Doomed(StepsOf(todo[1][2]) \o Tail(todo)) \/ Plain(StepsOf(todo[1][2]) \o Tail(todo))
      BY <2>0, <3>1, <3>2, DispatchSettles
    <3> QED
      BY <2>a, <3>1, <3>3
  <2>17. CASE Destroy
    BY <2>17 DEF Destroy
  <2>18. CASE MainMoves
    <3>1. CASE GetStatus
      BY <2>1, <3>1 DEF GetStatus
    <3> QED
      BY <2>5, <2>6, <2>7, <2>8, <2>12, <2>13, <2>14, <2>15, <2>16, <2>17, <2>18, <3>1
      DEF MainMoves, Main
  <2>19. ASSUME NEW command \in Commands, Receive(command) PROVE StatusInv'
    <3>1. /\ todo = <<>> /\ UNCHANGED <<supervisor, manager, processdata>>
          /\ todo' = << <<"command", command>> >>
      BY <2>19 DEF Receive
    <3> DEFINE l == << <<"command", command>> >>
    <3>2. Guarded(l) /\ Waits(l)
      BY DEF Guarded, Waits
    <3>3. PICK v \in {0, 1} : Settles(<<>>, v)
      BY <3>1, EmptyHasNothing DEF StatusInv, Plain
    <3> HIDE DEF l
    <3>4. Plain(l)
      BY <3>2, <3>3 DEF Plain
    <3> QED
      BY <2>a, <3>1, <3>2, <3>4 DEF l
  <2>20. ASSUME NEW signal \in Signals, Interrupt(signal) PROVE StatusInv'
    <3>1. PICK c \in {"cleanedshutdown", "shutdown"} :
             todo' = << <<"command", c>> >> \o todo /\ UNCHANGED <<supervisor, manager, processdata>>
      BY <2>20 DEF Interrupt
    <3> DEFINE p == << <<"command", c>> >>
               l == p \o todo
    <3>2. p \in Seq(Steps) /\ Guarded(p) /\ 1 \in 1..Len(p) /\ p[1][1] = "command" /\ p[1][2] = c
      BY StepLiterals DEF Guarded
    <3>3. todo' = l /\ Guarded(todo)
      BY <3>1 DEF StatusInv
    <3> HIDE DEF p
    <3>4. Guarded(l)
      BY <2>0, <3>2, <3>3, GuardedConcat
    <3>5. 1 \in 1..Len(l) /\ l[1] = p[1]
      BY <2>0, <3>2, ConcatFacts
    <3> HIDE DEF l
    <3>6. Doomed(l)
      BY <3>2, <3>5 DEF Doomed
    <3> QED
      BY <2>a, <3>1, <3>3, <3>4, <3>6
  <2>21. CASE SenderMoves
    BY <2>1, <2>21 DEF SenderMoves, Sender, SenderCheck, SenderGet, SenderSend
  <2>22. ASSUME NEW w \in Workers, WorkerMoves(w) PROVE StatusInv'
    <3>1. ASSUME WorkerRun(w) PROVE UNCHANGED processdata
      BY <3>1, WorkerStep DEF WorkerRun, AfterInv
    <3>2. UNCHANGED <<supervisor, manager, todo, processdata>>
      BY <2>22, <3>1 DEF WorkerMoves, Worker, WorkerRun, WorkerEnd, WorkerThrow
    <3> QED
      BY <2>1, <3>2
  <2>23. ASSUME NEW l \in Listeners, ListenerMoves(l) \/ ListenerReceive(l) \/ ListenerThrow(l)
         PROVE  StatusInv'
    <3>1. UNCHANGED <<supervisor, manager, todo, processdata>>
      BY <2>23 DEF ListenerMoves, Listener, ListenerCheck, ListenerTimeout, ListenerPush, Push,
         W!PushLp, W!PushHp, W!control, ListenerReceive, ListenerThrow
    <3> QED
      BY <2>1, <3>1
  <2>24. CASE UNCHANGED vars
    BY <2>1, <2>24 DEF vars
  <2> QED
    BY <2>18, <2>19, <2>20, <2>21, <2>22, <2>23, <2>24 DEF Next
<1> QED
  BY <1>1, <1>2, TodoInvariance, AfterInvariance, RestInvariance, PTL DEF SafeSpec

(* Between two commands the three of them agree.                           *)
THEOREM StatusesAgree == SafeSpec => []StatusIsTrue
<1>1. StatusInv => StatusIsTrue
  <2> SUFFICES ASSUME StatusInv, todo = <<>>, supervisor.continueall
               PROVE  /\ (supervisor.status = "Processing") = (manager.processdata = 1)
                      /\ \A w \in Workers : processdata[w] = manager.processdata
                      /\ manager = ChangedStatus(manager)
    BY DEF StatusIsTrue, Idle
  <2>1. PICK v \in {0, 1} : Settles(<<>>, v)
    BY EmptyHasNothing DEF StatusInv, Plain
  <2> QED
    BY <2>1, EmptyHasNothing DEF StatusInv, Settles
<1> QED
  BY <1>1, StatusInvariance, PTL

-----------------------------------------------------------------------------
(* What a cleaned shutdown and a reset leave in the queues.  Seen from any *)
(* point of any list: nothing after a step that opens the input looks at   *)
(* the queues, and whoever waits for a queue to be empty, or empties it,   *)
(* has closed the input before.  From then on only late items come in, so  *)
(* what was seen empty has only late items ever after.                     *)
Emptying == {"drainLp", "drainHp", "drainResults", "clean"}
Opens(step) == step[1] = "stopdata" /\ step[2] = FALSE
Closes(step) == step[1] = "stopdata" /\ step[2] = TRUE
Cleans(s, queue) == \E i \in 1..Len(s) : s[i][1] = "clean" /\ s[i][2] = queue

OpensLast(s) == \A i, j \in 1..Len(s) :
    Opens(s[i]) /\ i < j => s[j][1] \notin Emptying \cup {"status"}
CommandsLast(s) == \A i \in 1..Len(s) :
    s[i][1] = "command" => i = Len(s) \/ s[i][2] \in {"shutdown", "cleanedshutdown"}
ClosesFirst(s, closed) == \A i \in 1..Len(s) :
    s[i][1] \in Emptying => closed \/ \E j \in 1..Len(s) : j < i /\ Closes(s[j])
DrainsLpFirst(s, closed, lpLate) == \A i \in 1..Len(s) : s[i][1] = "drainHp" => closed /\ lpLate
DrainsInputFirst(s, closed, lpLate, hpLate) == \A i \in 1..Len(s) :
    s[i][1] = "drainResults" => \/ closed /\ lpLate /\ hpLate
                                \/ i - 1 \in 1..Len(s) /\ s[i - 1][1] \in {"drainLp", "drainHp"}
CleansFirst(s, closed, lpLate, hpLate) ==
    s # <<>> /\ s[Len(s)][1] = "status" => /\ Cleans(s, "lp") \/ (closed /\ lpLate)
                                           /\ Cleans(s, "hp") \/ (closed /\ hpLate)

(* The list s, when stopdata is closed, and lpLate (hpLate) says that the  *)
(* low- (high-) priority queue has only late items.                        *)
Empties(s, closed, lpLate, hpLate) ==
    /\ OpensLast(s) /\ CommandsLast(s) /\ ClosesFirst(s, closed)
    /\ DrainsLpFirst(s, closed, lpLate) /\ DrainsInputFirst(s, closed, lpLate, hpLate)
    /\ CleansFirst(s, closed, lpLate, hpLate)

LEMMA EmptiesStays ==
  ASSUME NEW s, NEW c \in BOOLEAN, NEW l \in BOOLEAN, NEW h \in BOOLEAN, Empties(s, c, l, h),
         NEW c2 \in BOOLEAN, NEW l2 \in BOOLEAN, NEW h2 \in BOOLEAN,
         c => c2, c /\ l => l2, c /\ h => h2
  PROVE  Empties(s, c2, l2, h2)
<1>1. ClosesFirst(s, c2)
  BY DEF Empties, ClosesFirst
<1>2. DrainsLpFirst(s, c2, l2)
  BY DEF Empties, DrainsLpFirst
<1>3. DrainsInputFirst(s, c2, l2, h2)
  BY DEF Empties, DrainsInputFirst
<1>4. CleansFirst(s, c2, l2, h2)
  BY DEF Empties, CleansFirst
<1> QED
  BY <1>1, <1>2, <1>3, <1>4 DEF Empties

(* The first step is done.                                                 *)
LEMMA EmptiesTail ==
  ASSUME NEW s \in Seq(Steps), s # <<>>,
         NEW c \in BOOLEAN, NEW l \in BOOLEAN, NEW h \in BOOLEAN, Empties(s, c, l, h),
         NEW c2 \in BOOLEAN, NEW l2 \in BOOLEAN, NEW h2 \in BOOLEAN,
         s[1][1] = "stopdata" => c2 = s[1][2],
         ~Opens(s[1]) => (c => c2) /\ (c /\ l => l2) /\ (c /\ h => h2),
         s[1][1] # "drainLp", s[1][1] = "drainHp" => h2,
         s[1][1] = "clean" /\ s[1][2] = "lp" => l2,
         s[1][1] = "clean" /\ s[1][2] = "hp" => h2
  PROVE  Empties(Tail(s), c2, l2, h2)
<1> DEFINE t == Tail(s)
<1>0. /\ s[1] \in Steps /\ t \in Seq(Steps) /\ Len(s) \in Nat /\ Len(t) = Len(s) - 1
      /\ \A i \in 1..Len(t) : i + 1 \in 1..Len(s) /\ t[i] = s[i + 1]
      /\ \A i \in 1..Len(s) : i = 1 \/ (i - 1 \in 1..Len(t) /\ t[i - 1] = s[i])
      /\ 1 \in 1..Len(s) /\ Len(t) \in Nat
  BY TailFacts
<1>1. t = Tail(s)
  OBVIOUS
<1> HIDE DEF t
<1>2. OpensLast(t)
  <2> SUFFICES ASSUME NEW i \in 1..Len(t), NEW j \in 1..Len(t), Opens(t[i]), i < j
               PROVE  t[j][1] \notin Emptying \cup {"status"}
    BY DEF OpensLast
  <2>1. i + 1 \in 1..Len(s) /\ j + 1 \in 1..Len(s) /\ i + 1 < j + 1
        /\ t[i] = s[i + 1] /\ t[j] = s[j + 1]
    BY <1>0
  <2> QED
    BY <2>1 DEF Empties, OpensLast
<1>3. CommandsLast(t)
  <2> SUFFICES ASSUME NEW i \in 1..Len(t), t[i][1] = "command"
               PROVE  i = Len(t) \/ t[i][2] \in {"shutdown", "cleanedshutdown"}
    BY DEF CommandsLast
  <2>1. i + 1 = Len(s) \/ t[i][2] \in {"shutdown", "cleanedshutdown"}
    BY <1>0 DEF Empties, CommandsLast
  <2> QED
    BY <1>0, <2>1
<1>4. CASE Opens(s[1])
  <2>1. \A i \in 1..Len(t) : t[i][1] \notin Emptying \cup {"status"}
    <3> SUFFICES ASSUME NEW i \in 1..Len(t) PROVE t[i][1] \notin Emptying \cup {"status"}
      OBVIOUS
    <3>1. i + 1 \in 1..Len(s) /\ 1 < i + 1 /\ t[i] = s[i + 1]
      BY <1>0
    <3> QED
      BY <1>0, <1>4, <3>1 DEF Empties, OpensLast
  <2>2. ClosesFirst(t, c2) /\ DrainsLpFirst(t, c2, l2) /\ DrainsInputFirst(t, c2, l2, h2)
    BY <2>1 DEF Emptying, ClosesFirst, DrainsLpFirst, DrainsInputFirst
  <2>3. t # <<>> => Len(t) \in 1..Len(t)
    BY <1>0, EmptySeq
  <2>4. CleansFirst(t, c2, l2, h2)
    BY <2>1, <2>3 DEF CleansFirst
  <2> QED
    BY <1>1, <1>2, <1>3, <2>2, <2>4 DEF Empties
<1>5. CASE ~Opens(s[1])
  <2>1. ClosesFirst(t, c2)
    <3> SUFFICES ASSUME NEW i \in 1..Len(t), t[i][1] \in Emptying, ~c2
                 PROVE  \E j \in 1..Len(t) : j < i /\ Closes(t[j])
      BY DEF ClosesFirst
    <3>1. PICK j \in 1..Len(s) : j < i + 1 /\ Closes(s[j])
      BY <1>0, <1>5 DEF Empties, ClosesFirst
    <3>2. j # 1
      BY <3>1 DEF Closes
    <3>3. j - 1 \in 1..Len(t) /\ t[j - 1] = s[j] /\ j - 1 < i
      BY <1>0, <3>1, <3>2
    <3> QED
      BY <3>1, <3>3
  <2>2. DrainsLpFirst(t, c2, l2)
    BY <1>0, <1>5 DEF Empties, DrainsLpFirst
  <2>3. DrainsInputFirst(t, c2, l2, h2)
    <3> SUFFICES ASSUME NEW i \in 1..Len(t), t[i][1] = "drainResults", ~(c2 /\ l2 /\ h2)
                 PROVE  i - 1 \in 1..Len(t) /\ t[i - 1][1] \in {"drainLp", "drainHp"}
      BY DEF DrainsInputFirst
    <3>1. ~(c /\ l /\ h)
      BY <1>5
    <3>2. (i + 1) - 1 = i /\ s[i][1] \in {"drainLp", "drainHp"} /\ i \in 1..Len(s)
      BY <1>0, <3>1 DEF Empties, DrainsInputFirst
    <3>3. CASE i = 1
      <4>1. s[1][1] = "drainHp"
        BY <3>2, <3>3
      <4> QED
        BY <1>0, <1>5, <4>1 DEF Empties, DrainsLpFirst
    <3> QED
      BY <1>0, <3>2, <3>3
  <2>4. CleansFirst(t, c2, l2, h2)
    <3> SUFFICES ASSUME t # <<>>, t[Len(t)][1] = "status"
                 PROVE  /\ Cleans(t, "lp") \/ (c2 /\ l2)
                        /\ Cleans(t, "hp") \/ (c2 /\ h2)
      BY DEF CleansFirst
    <3>1. Len(t) \in 1..Len(t)
      BY <1>0, EmptySeq
    <3>2. s[Len(s)][1] = "status"
      BY <1>0, <3>1
    <3>3. s[1][1] = "clean" => c
      <4> SUFFICES ASSUME s[1][1] = "clean", ~c PROVE FALSE
        OBVIOUS
      <4>1. PICK j \in 1..Len(s) : j < 1 /\ Closes(s[j])
        BY <1>0 DEF Empties, ClosesFirst, Emptying
      <4> QED
        BY <4>1
    <3>4. ASSUME NEW q, Cleans(s, q) PROVE Cleans(t, q) \/ (s[1][1] = "clean" /\ s[1][2] = q)
      <4>1. PICK i \in 1..Len(s) : s[i][1] = "clean" /\ s[i][2] = q
        BY <3>4 DEF Cleans
      <4>2. i = 1 \/ (i - 1 \in 1..Len(t) /\ t[i - 1] = s[i])
        BY <1>0
      <4> QED
        BY <4>1, <4>2 DEF Cleans
    <3>5. Cleans(s, "lp") \/ (c /\ l)
      BY <3>2 DEF Empties, CleansFirst
    <3>6. Cleans(s, "hp") \/ (c /\ h)
      BY <3>2 DEF Empties, CleansFirst
    <3> QED
      BY <1>5, <3>3, <3>4, <3>5, <3>6
  <2> QED
    BY <1>1, <1>2, <1>3, <2>1, <2>2, <2>3, <2>4 DEF Empties
<1> QED
  BY <1>4, <1>5

(* A list that may be put in front of any other.                           *)
ClosesItself(p) ==
    /\ p \in Seq(Steps)
    /\ \A i \in 1..Len(p) : /\ ~Opens(p[i]) /\ p[i][1] # "drainHp"
                            /\ p[i][1] = "command" => p[i][2] \in {"shutdown", "cleanedshutdown"}
    /\ ClosesFirst(p, FALSE)
    /\ DrainsInputFirst(p, FALSE, FALSE, FALSE)
    /\ p # <<>> => p[Len(p)][1] # "status"

LEMMA EmptiesPrefix ==
  ASSUME NEW p, ClosesItself(p), NEW s \in Seq(Steps),
         NEW c \in BOOLEAN, NEW l \in BOOLEAN, NEW h \in BOOLEAN, Empties(s, c, l, h)
  PROVE  Empties(p \o s, c, l, h)
<1> DEFINE t == p \o s
<1>1. t = p \o s
  OBVIOUS
<1>2. p \in Seq(Steps)
  BY DEF ClosesItself
<1>3. /\ t \in Seq(Steps) /\ Len(t) = Len(p) + Len(s) /\ Len(p) \in Nat /\ Len(s) \in Nat
      /\ \A i \in 1..Len(p) : i \in 1..Len(t) /\ t[i] = p[i]
      /\ \A i \in 1..Len(s) : Len(p) + i \in 1..Len(t) /\ t[Len(p) + i] = s[i]
  BY <1>2, ConcatFacts
<1> HIDE DEF t
<1>4. \A i \in 1..Len(t) : \/ i \in 1..Len(p) /\ t[i] = p[i]
                           \/ \E k \in 1..Len(s) : i = Len(p) + k /\ t[i] = s[k]
  BY <1>1, <1>2, ConcatFacts
<1>5. OpensLast(t)
  <2> SUFFICES ASSUME NEW i \in 1..Len(t), NEW j \in 1..Len(t), Opens(t[i]), i < j
               PROVE  t[j][1] \notin Emptying \cup {"status"}
    BY DEF OpensLast
  <2>1. PICK k \in 1..Len(s) : i = Len(p) + k /\ t[i] = s[k]
    BY <1>4 DEF ClosesItself
  <2>2. PICK m \in 1..Len(s) : j = Len(p) + m /\ t[j] = s[m]
    BY <1>3, <1>4, <2>1
  <2> QED
    BY <1>3, <2>1, <2>2 DEF Empties, OpensLast
<1>6. CommandsLast(t)
  <2> SUFFICES ASSUME NEW i \in 1..Len(t), t[i][1] = "command"
               PROVE  i = Len(t) \/ t[i][2] \in {"shutdown", "cleanedshutdown"}
    BY DEF CommandsLast
  <2>1. CASE i \in 1..Len(p) /\ t[i] = p[i]
    BY <2>1 DEF ClosesItself
  <2>2. ASSUME NEW k \in 1..Len(s), i = Len(p) + k, t[i] = s[k]
        PROVE  i = Len(t) \/ t[i][2] \in {"shutdown", "cleanedshutdown"}
    BY <1>3, <2>2 DEF Empties, CommandsLast
  <2> QED
    BY <1>4, <2>1, <2>2
<1>7. ClosesFirst(t, c)
  <2> SUFFICES ASSUME NEW i \in 1..Len(t), t[i][1] \in Emptying, ~c
               PROVE  \E j \in 1..Len(t) : j < i /\ Closes(t[j])
    BY DEF ClosesFirst
  <2>1. CASE i \in 1..Len(p) /\ t[i] = p[i]
    <3>1. PICK j \in 1..Len(p) : j < i /\ Closes(p[j])
      BY <2>1 DEF ClosesItself, ClosesFirst
    <3> QED
      BY <1>3, <3>1
  <2>2. ASSUME NEW k \in 1..Len(s), i = Len(p) + k, t[i] = s[k]
        PROVE  \E j \in 1..Len(t) : j < i /\ Closes(t[j])
    <3>1. PICK j \in 1..Len(s) : j < k /\ Closes(s[j])
      BY <2>2 DEF Empties, ClosesFirst
    <3>2. Len(p) + j \in 1..Len(t) /\ t[Len(p) + j] = s[j] /\ Len(p) + j < i
      BY <1>3, <2>2, <3>1
    <3> QED
      BY <3>1, <3>2
  <2> QED
    BY <1>4, <2>1, <2>2
<1>8. DrainsLpFirst(t, c, l)
  <2> SUFFICES ASSUME NEW i \in 1..Len(t), t[i][1] = "drainHp" PROVE c /\ l
    BY DEF DrainsLpFirst
  <2>1. PICK k \in 1..Len(s) : t[i] = s[k]
    BY <1>4 DEF ClosesItself
  <2> QED
    BY <2>1 DEF Empties, DrainsLpFirst
<1>9. DrainsInputFirst(t, c, l, h)
  <2> SUFFICES ASSUME NEW i \in 1..Len(t), t[i][1] = "drainResults", ~(c /\ l /\ h)
               PROVE  i - 1 \in 1..Len(t) /\ t[i - 1][1] \in {"drainLp", "drainHp"}
    BY DEF DrainsInputFirst
  <2>1. CASE i \in 1..Len(p) /\ t[i] = p[i]
    <3>1. i - 1 \in 1..Len(p) /\ p[i - 1][1] \in {"drainLp", "drainHp"}
      BY <2>1 DEF ClosesItself, DrainsInputFirst
    <3> QED
      BY <1>3, <3>1
  <2>2. ASSUME NEW k \in 1..Len(s), i = Len(p) + k, t[i] = s[k]
        PROVE  i - 1 \in 1..Len(t) /\ t[i - 1][1] \in {"drainLp", "drainHp"}
    <3>1. k - 1 \in 1..Len(s) /\ s[k - 1][1] \in {"drainLp", "drainHp"}
      BY <2>2 DEF Empties, DrainsInputFirst
    <3>2. Len(p) + (k - 1) = i - 1
      BY <1>3, <2>2
    <3> QED
      BY <1>3, <3>1, <3>2
  <2> QED
    BY <1>4, <2>1, <2>2
<1>10. CleansFirst(t, c, l, h)
  <2> SUFFICES ASSUME t # <<>>, t[Len(t)][1] = "status"
               PROVE  /\ Cleans(t, "lp") \/ (c /\ l)
                      /\ Cleans(t, "hp") \/ (c /\ h)
    BY DEF CleansFirst
  <2>1. Len(s) # 0
    <3> SUFFICES ASSUME Len(s) = 0 PROVE FALSE
      OBVIOUS
    <3>1. Len(p) \in 1..Len(p)
      BY <1>3, EmptySeq
    <3>2. p # <<>> /\ t[Len(t)] = p[Len(p)]
      BY <1>3, <3>1
    <3> QED
      BY <3>2 DEF ClosesItself
  <2>2. s # <<>> /\ Len(s) \in 1..Len(s) /\ s[Len(s)][1] = "status"
    BY <1>3, <2>1
  <2>3. \A q : Cleans(s, q) => Cleans(t, q)
    BY <1>3 DEF Cleans
  <2> QED
    BY <2>2, <2>3 DEF Empties, CleansFirst
<1> QED
  BY <1>1, <1>5, <1>6, <1>7, <1>8, <1>9, <1>10 DEF Empties

(* The other of the two loops of a cleaned shutdown looks next.            *)
LEMMA EmptiesDrain ==
  ASSUME NEW s \in Seq(Steps), s # <<>>, s[1][1] \in {"drainLp", "drainHp"},
         NEW c \in BOOLEAN, NEW l \in BOOLEAN, NEW h \in BOOLEAN, Empties(s, c, l, h),
         NEW a \in {"drainLp", "drainHp"}, a = "drainHp" => l
  PROVE  Empties(<< <<a>> >> \o Tail(s), c, l, h)
<1> DEFINE p == << <<a>> >>
           t == p \o Tail(s)
<1>0. p \in Seq(Steps) /\ Len(p) = 1 /\ p[1] = <<a>>
  BY StepLiterals DEF PlainSteps
<1>1. /\ s[1] \in Steps /\ Tail(s) \in Seq(Steps) /\ Len(s) \in Nat /\ Len(Tail(s)) = Len(s) - 1
      /\ \A i \in 1..Len(Tail(s)) : i + 1 \in 1..Len(s) /\ Tail(s)[i] = s[i + 1]
      /\ 1 \in 1..Len(s)
  BY TailFacts
<1> HIDE DEF p
<1>2. /\ Len(t) = 1 + Len(Tail(s))
      /\ 1 \in 1..Len(t) /\ t[1] = <<a>>
      /\ \A i \in 1..Len(t) : i = 1 \/ (i - 1 \in 1..Len(Tail(s)) /\ t[i] = Tail(s)[i - 1])
  <2>1. /\ Len(t) = Len(p) + Len(Tail(s)) /\ Len(Tail(s)) \in Nat
        /\ \A i \in 1..Len(p) : i \in 1..Len(t) /\ t[i] = p[i]
        /\ \A i \in 1..Len(t) :
              \/ i \in 1..Len(p) /\ t[i] = p[i]
              \/ i > Len(p) /\ i - Len(p) \in 1..Len(Tail(s)) /\ t[i] = Tail(s)[i - Len(p)]
    BY <1>0, <1>1, ConcatFacts
  <2> HIDE DEF t
  <2> QED
    BY <1>0, <2>1
<1> HIDE DEF t
<1>3. /\ Len(t) = Len(s) /\ t[1] = <<a>>
      /\ \A i \in 1..Len(s) : i = 1 \/ t[i] = s[i]
  BY <1>1, <1>2
<1>4. c /\ Len(s) \in Nat /\ 1 \in 1..Len(s)
  <2> SUFFICES ASSUME ~c PROVE FALSE
    BY <1>1
  <2>1. PICK j \in 1..Len(s) : j < 1 /\ Closes(s[j])
    BY <1>1 DEF Empties, ClosesFirst, Emptying
  <2> QED
    BY <2>1
<1>5. OpensLast(t)
  <2> SUFFICES ASSUME NEW i \in 1..Len(t), NEW j \in 1..Len(t), Opens(t[i]), i < j
               PROVE  t[j][1] \notin Emptying \cup {"status"}
    BY DEF OpensLast
  <2>1. i # 1 /\ j # 1
    BY <1>3, <1>4 DEF Opens
  <2> QED
    BY <1>3, <2>1 DEF Empties, OpensLast
<1>6. CommandsLast(t)
  BY <1>3 DEF Empties, CommandsLast
<1>7. ClosesFirst(t, c)
  BY <1>4 DEF ClosesFirst
<1>8. DrainsLpFirst(t, c, l)
  BY <1>3, <1>4 DEF Empties, DrainsLpFirst
<1>9. DrainsInputFirst(t, c, l, h)
  <2> SUFFICES ASSUME NEW i \in 1..Len(t), t[i][1] = "drainResults", ~(c /\ l /\ h)
               PROVE  i - 1 \in 1..Len(t) /\ t[i - 1][1] \in {"drainLp", "drainHp"}
    BY DEF DrainsInputFirst
  <2>1. i # 1 /\ t[i] = s[i]
    BY <1>3
  <2>2. i - 1 \in 1..Len(s) /\ s[i - 1][1] \in {"drainLp", "drainHp"}
    BY <1>3, <2>1 DEF Empties, DrainsInputFirst
  <2>3. t[i - 1] = <<a>> \/ t[i - 1] = s[i - 1]
    BY <1>3, <2>2
  <2> QED
    BY <1>3, <2>2, <2>3
<1>10. CleansFirst(t, c, l, h)
  <2> SUFFICES ASSUME t # <<>>, t[Len(t)][1] = "status"
               PROVE  /\ Cleans(t, "lp") \/ (c /\ l)
                      /\ Cleans(t, "hp") \/ (c /\ h)
    BY DEF CleansFirst
  <2>1. s[Len(s)][1] = "status"
    <3>1. Len(s) # 1
      BY <1>3
    <3> QED
      BY <1>3, <1>4, <3>1
  <2>2. \A q : Cleans(s, q) => Cleans(t, q)
    BY <1>3 DEF Cleans
  <2> QED
    BY <2>1, <2>2 DEF Empties, CleansFirst
<1> QED
  BY <1>5, <1>6, <1>7, <1>8, <1>9, <1>10 DEF Empties, t, p

-----------------------------------------------------------------------------
(* The lists of the commands again.                                        *)
Harmless(p) == /\ p \in Seq(Steps)
               /\ \A i \in 1..Len(p) : p[i][1] \notin Emptying \cup {"command"} /\ ~Opens(p[i])
EndsWith(p, names) == p # <<>> /\ p[Len(p)][1] \in names

LEMMA HarmlessConcat ==
  ASSUME NEW p, Harmless(p), NEW q, Harmless(q)
  PROVE  Harmless(p \o q)
<1>1. p \in Seq(Steps) /\ q \in Seq(Steps)
  BY DEF Harmless
<1>2. p \o q \in Seq(Steps)
  BY <1>1, ConcatFacts
<1>3. ASSUME NEW i \in 1..Len(p \o q)
      PROVE  (p \o q)[i][1] \notin Emptying \cup {"command"} /\ ~Opens((p \o q)[i])
  <2>1. CASE i \in 1..Len(p) /\ (p \o q)[i] = p[i]
    BY <2>1 DEF Harmless
  <2>2. CASE i - Len(p) \in 1..Len(q) /\ (p \o q)[i] = q[i - Len(p)]
    BY <2>2 DEF Harmless
  <2> QED
    BY <1>1, <2>1, <2>2, ConcatFacts
<1> QED
  BY <1>2, <1>3 DEF Harmless

LEMMA EndsConcat ==
  ASSUME NEW p \in Seq(Steps), NEW q \in Seq(Steps), NEW names, EndsWith(q, names)
  PROVE  EndsWith(p \o q, names)
<1>1. Len(q) \in 1..Len(q)
  BY EmptySeq, LenProperties DEF EndsWith
<1>2. (p \o q)[Len(p \o q)] = q[Len(q)] /\ Len(p \o q) # 0
  BY <1>1, ConcatFacts
<1> QED
  BY <1>2 DEF EndsWith

LEMMA HarmlessCloses ==
  ASSUME NEW p, Harmless(p), NEW names, EndsWith(p, names), "status" \notin names
  PROVE  ClosesItself(p)
<1>1. ClosesFirst(p, FALSE) /\ DrainsInputFirst(p, FALSE, FALSE, FALSE)
  BY DEF Harmless, ClosesFirst, DrainsInputFirst, Emptying
<1> QED
  BY <1>1 DEF Harmless, ClosesItself, EndsWith, Emptying

LEMMA EmptyListEmpties ==
  ASSUME NEW c, NEW l, NEW h
  PROVE  Empties(<<>>, c, l, h)
  BY DEF Empties, OpensLast, CommandsLast, ClosesFirst, DrainsLpFirst, DrainsInputFirst,
     CleansFirst

LEMMA ClosedListEmpties ==
  ASSUME NEW p, ClosesItself(p), NEW c \in BOOLEAN, NEW l \in BOOLEAN, NEW h \in BOOLEAN
  PROVE  Empties(p, c, l, h)
<1>1. p \in Seq(Steps) /\ p \o <<>> = p
  BY ConcatEmptySeq DEF ClosesItself
<1>2. <<>> \in Seq(Steps)
  OBVIOUS
<1> QED
  BY <1>1, <1>2, EmptyListEmpties, EmptiesPrefix

LEMMA ProcessingIsHarmless ==
  ASSUME NEW v \in {0, 1}
  PROVE  Harmless(SetProcessing(v)) /\ EndsWith(SetProcessing(v), {"processdata"})
<1> DEFINE f == [i \in 1..NumWorkers |-> <<"processdata", i - 1, v>>]
           a == << <<"status", IF v = 1 THEN "Processing" ELSE "Waiting">>,
                   <<"managerProcessdata", v>> >>
<1>1. \A i \in 1..NumWorkers : f[i] \in Steps /\ f[i][1] = "processdata"
  BY StepLiterals, WorkersAreNumbered
<1>2. SetProcessing(v) = a \o f
  BY DEF SetProcessing, ForEachWorker
<1>3. Harmless(a)
  BY StepLiterals DEF Harmless, Statuses, Emptying, Opens
<1>4. f \in Seq(Steps)
  BY WorkerLists DEF Quiet, ForEachWorker
<1>5. Len(f) = NumWorkers
  BY SizesAssumption, <1>4
<1> HIDE DEF f, a
<1>6. Harmless(f)
  BY <1>1, <1>4, <1>5 DEF Harmless, Emptying, Opens
<1>7. EndsWith(f, {"processdata"})
  BY <1>1, <1>5, SizesAssumption DEF EndsWith
<1> QED
  BY <1>2, <1>3, <1>4, <1>6, <1>7, HarmlessConcat, EndsConcat DEF Harmless

LEMMA ClosingIsHarmless ==
  /\ Harmless(SetStopdata(TRUE)) /\ EndsWith(SetStopdata(TRUE), {"managerStopdata"})
  /\ Harmless(CommandStop) /\ EndsWith(CommandStop, {"processdata"})
<1>1. Harmless(SetStopdata(TRUE)) /\ EndsWith(SetStopdata(TRUE), {"managerStopdata"})
  <2> DEFINE a == <<"stopdata", TRUE>>
             b == <<"managerStopdata", TRUE>>
  <2>1. a \in Steps /\ b \in Steps
    BY StepLiterals
  <2>2. a[1] = "stopdata" /\ a[2] = TRUE /\ b[1] = "managerStopdata"
    OBVIOUS
  <2>3. SetStopdata(TRUE) = <<a, b>>
    BY DEF SetStopdata
  <2> HIDE DEF a, b
  <2>4. /\ <<a, b>> \in Seq(Steps) /\ Len(<<a, b>>) = 2
        /\ <<a, b>>[1] = a /\ <<a, b>>[2] = b
    BY <2>1
  <2> DEFINE s == <<a, b>>
  <2>5. s \in Seq(Steps) /\ Len(s) = 2 /\ s[1] = a /\ s[2] = b /\ s # <<>>
    BY <2>4
  <2> HIDE DEF s
  <2>6. ~Opens(a) /\ ~Opens(b)
    BY <2>2 DEF Opens
  <2>7. \A i \in 1..Len(s) : s[i] = a \/ s[i] = b
    BY <2>5
  <2>8. Harmless(s)
    BY <2>2, <2>5, <2>6, <2>7 DEF Harmless, Emptying
  <2>9. EndsWith(s, {"managerStopdata"})
    BY <2>2, <2>5 DEF EndsWith
  <2> QED
    BY <2>3, <2>8, <2>9 DEF s
<1>2. Harmless(SetProcessing(0)) /\ EndsWith(SetProcessing(0), {"processdata"})
  BY ProcessingIsHarmless
<1> QED
  BY <1>1, <1>2, HarmlessConcat, EndsConcat DEF CommandStop, Harmless

LEMMA ManagerStopIsHarmless == Harmless(ManagerStop) /\ EndsWith(ManagerStop, {"managerEnd"})
<1> DEFINE a == << <<"notify", "lp">>, <<"notify", "hp">>, <<"notify", "rlp">>, <<"notify", "rhp">> >>
           g == [i \in 1..NumWorkers |-> <<"stopWorker", i - 1>>]
           z == << <<"joinMonitoring">>, <<"managerEnd">> >>
<1>1. Harmless(a)
  BY StepLiterals DEF Harmless, Queues, Emptying, Opens
<1>2. \A i \in 1..NumWorkers : g[i] \in Steps /\ g[i][1] = "stopWorker"
  BY StepLiterals, WorkersAreNumbered
<1>3. g \in Seq(Steps)
  BY WorkerLists DEF Quiet, ForEachWorker
<1>4. Len(g) = NumWorkers
  BY SizesAssumption, <1>3
<1>5. <<"joinMonitoring">> \in Steps /\ <<"managerEnd">> \in Steps
  BY StepLiterals DEF PlainSteps
<1>6. Harmless(z) /\ EndsWith(z, {"managerEnd"})
  BY <1>5 DEF Harmless, EndsWith, Emptying, Opens
<1>7. ManagerStop = (a \o g) \o z
  BY DEF ManagerStop, ForEachWorker
<1> HIDE DEF a, g, z
<1>8. Harmless(g)
  BY <1>2, <1>3, <1>4 DEF Harmless, Emptying, Opens
<1>9. Harmless(a \o g)
  BY <1>1, <1>8, HarmlessConcat
<1> QED
  BY <1>6, <1>7, <1>9, HarmlessConcat, EndsConcat DEF Harmless

LEMMA ShutdownCloses == ClosesItself(CommandShutdown)
<1> DEFINE s == << <<"status", "Shutdown">> >>
           a == << <<"continueall">> >>
<1>1. <<"status", "Shutdown">> \in Steps /\ <<"continueall">> \in Steps
  BY StepLiterals DEF PlainSteps, Statuses
<1>2. Harmless(s) /\ Harmless(a)
  BY <1>1 DEF Harmless, Emptying, Opens
<1>3. CommandShutdown = s \o ((a \o CommandStop) \o ManagerStop)
  BY DEF CommandShutdown, StopAll
<1> HIDE DEF s, a
<1>4. Harmless(a \o CommandStop)
  BY <1>2, ClosingIsHarmless, HarmlessConcat
<1>5. Harmless((a \o CommandStop) \o ManagerStop)
      /\ EndsWith((a \o CommandStop) \o ManagerStop, {"managerEnd"})
  BY <1>4, ManagerStopIsHarmless, HarmlessConcat, EndsConcat DEF Harmless
<1>6. Harmless(CommandShutdown) /\ EndsWith(CommandShutdown, {"managerEnd"})
  BY <1>2, <1>3, <1>5, HarmlessConcat, EndsConcat DEF Harmless
<1> QED
  BY <1>6, HarmlessCloses

(* A cleaned shutdown closes the input before it waits for the queues.     *)
LEMMA DrainingCloses ==
  ClosesItself(<< <<"status", "EndingProcessing">> >> \o SetStopdata(TRUE)
               \o << <<"drainLp">>, <<"drainResults">> >>)
<1> DEFINE a == <<"status", "EndingProcessing">>
           b == <<"stopdata", TRUE>>
           c == <<"managerStopdata", TRUE>>
           d == <<"drainLp">>
           e == <<"drainResults">>
<1>1. a \in Steps /\ b \in Steps /\ c \in Steps /\ d \in Steps /\ e \in Steps
  BY StepLiterals DEF PlainSteps, Statuses
<1>2. /\ a[1] = "status" /\ b[1] = "stopdata" /\ b[2] = TRUE
      /\ c[1] = "managerStopdata" /\ d[1] = "drainLp" /\ e[1] = "drainResults"
  OBVIOUS
<1>3. SetStopdata(TRUE) = <<b, c>>
  BY DEF SetStopdata
<1> HIDE DEF a, b, c, d, e
<1> DEFINE x == <<a>>
           y == <<b, c>>
           z == <<d, e>>
           m == x \o y
           p == m \o z
<1>4. /\ x \in Seq(Steps) /\ Len(x) = 1 /\ x[1] = a
      /\ y \in Seq(Steps) /\ Len(y) = 2 /\ y[1] = b /\ y[2] = c
      /\ z \in Seq(Steps) /\ Len(z) = 2 /\ z[1] = d /\ z[2] = e
  BY <1>1
<1>5. p = <<a>> \o SetStopdata(TRUE) \o <<d, e>>
  BY <1>3
<1> HIDE DEF x, y, z
<1>6. /\ m \in Seq(Steps) /\ Len(m) = Len(x) + Len(y)
      /\ \A i \in 1..Len(x) : m[i] = x[i]
      /\ \A i \in 1..Len(y) : m[Len(x) + i] = y[i]
  BY <1>4, ConcatFacts
<1> HIDE DEF m
<1>7. Len(m) = 3 /\ m[1] = a /\ m[2] = b /\ m[3] = c
  <2>1. 1 \in 1..Len(x) /\ 1 \in 1..Len(y) /\ 2 \in 1..Len(y)
    BY <1>4
  <2>2. m[1] = x[1] /\ m[1 + 1] = y[1] /\ m[1 + 2] = y[2]
    BY <1>4, <1>6, <2>1
  <2> QED
    BY <1>4, <1>6, <2>2
<1>8. /\ p \in Seq(Steps) /\ Len(p) = Len(m) + Len(z)
      /\ \A i \in 1..Len(m) : p[i] = m[i]
      /\ \A i \in 1..Len(z) : p[Len(m) + i] = z[i]
  <2>1. m \in Seq(Steps) /\ z \in Seq(Steps)
    BY <1>4, <1>6
  <2> QED
    BY <2>1, ConcatFacts
<1> HIDE DEF p
<1>9. Len(p) = 5 /\ p # <<>> /\ p[1] = a /\ p[2] = b /\ p[3] = c /\ p[4] = d /\ p[5] = e
  <2>1. 1 \in 1..Len(m) /\ 2 \in 1..Len(m) /\ 3 \in 1..Len(m) /\ 1 \in 1..Len(z) /\ 2 \in 1..Len(z)
    BY <1>4, <1>7
  <2>2. p[1] = m[1] /\ p[2] = m[2] /\ p[3] = m[3] /\ p[3 + 1] = z[1] /\ p[3 + 2] = z[2]
    BY <1>7, <1>8, <2>1
  <2>3. Len(p) = 5
    BY <1>4, <1>7, <1>8
  <2> QED
    BY <1>4, <1>7, <2>2, <2>3
<1>10. /\ p[1][1] = "status" /\ p[2][1] = "stopdata" /\ p[2][2] = TRUE
       /\ p[3][1] = "managerStopdata" /\ p[4][1] = "drainLp" /\ p[5][1] = "drainResults"
  BY <1>2, <1>9
<1>11. \A i \in 1..Len(p) : i \in {1, 2, 3, 4, 5}
  BY <1>9
<1>12. \A i \in 1..Len(p) : p[i][1] \notin {"drainHp", "command"} /\ ~Opens(p[i])
  BY <1>10, <1>11 DEF Opens
<1>13. ClosesFirst(p, FALSE)
  <2>1. Closes(p[2]) /\ 2 \in 1..Len(p)
    BY <1>9, <1>10 DEF Closes
  <2>2. \A i \in 1..Len(p) : p[i][1] \in Emptying => 2 < i
    BY <1>10, <1>11 DEF Emptying
  <2> QED
    BY <2>1, <2>2 DEF ClosesFirst
<1>14. DrainsInputFirst(p, FALSE, FALSE, FALSE)
  <2>1. \A i \in 1..Len(p) : p[i][1] = "drainResults" => i = 5
    BY <1>10, <1>11
  <2> QED
    BY <1>9, <1>10, <2>1 DEF DrainsInputFirst
<1>15. ClosesItself(p)
  BY <1>8, <1>9, <1>10, <1>12, <1>13, <1>14 DEF ClosesItself
<1> QED
  BY <1>5, <1>15 DEF a, d, e

(* A reset closes the input before it cleans the queues.                   *)
LEMMA CleaningEmpties ==
  ASSUME NEW c \in BOOLEAN, NEW l \in BOOLEAN, NEW h \in BOOLEAN
  PROVE  Empties(CommandStop \o CleanQueue \o << <<"status", "Waiting">> >>, c, l, h)
<1> DEFINE k == SetStopdata(TRUE)
           a == CommandStop
           q == CleanQueue
           w == << <<"status", "Waiting">> >>
           b == a \o q
           s == b \o w
<1>1. a \in Seq(Steps) /\ \A i \in 1..Len(a) : a[i][1] \notin Emptying \cup {"command"} /\ ~Opens(a[i])
  BY ClosingIsHarmless DEF Harmless
<1>2. 1 \in 1..Len(a) /\ Closes(a[1])
  <2>1. k \in Seq(Steps) /\ SetProcessing(0) \in Seq(Steps)
    BY ClosingIsHarmless, ProcessingIsHarmless DEF Harmless
  <2>2. 1 \in 1..Len(k) /\ Closes(k[1])
    BY DEF SetStopdata, Closes
  <2>3. a = k \o SetProcessing(0)
    BY DEF CommandStop
  <2> HIDE DEF k, a
  <2>4. 1 \in 1..Len(k \o SetProcessing(0)) /\ (k \o SetProcessing(0))[1] = k[1]
    BY <2>1, <2>2, ConcatFacts
  <2> QED
    BY <2>2, <2>3, <2>4
<1>3. /\ q \in Seq(Steps) /\ \A i \in 1..Len(q) : q[i][1] = "clean"
      /\ 1 \in 1..Len(q) /\ q[1][2] = "lp" /\ 2 \in 1..Len(q) /\ q[2][2] = "hp"
  BY StepLiterals DEF CleanQueue
<1>4. w \in Seq(Steps) /\ \A i \in 1..Len(w) : w[i][1] = "status"
  BY StepLiterals DEF Statuses
<1> HIDE DEF k, a, q, w
<1>5. /\ b \in Seq(Steps)
      /\ \A i \in 1..Len(a) : i \in 1..Len(b) /\ b[i] = a[i]
      /\ \A i \in 1..Len(q) : Len(a) + i \in 1..Len(b) /\ b[Len(a) + i] = q[i]
      /\ \A i \in 1..Len(b) :
            \/ i \in 1..Len(a) /\ b[i] = a[i]
            \/ i > Len(a) /\ i - Len(a) \in 1..Len(q) /\ b[i] = q[i - Len(a)]
  BY <1>1, <1>3, ConcatFacts
<1> HIDE DEF b
<1>6. b \in Seq(Steps)
  BY <1>5
<1>7. /\ s \in Seq(Steps)
      /\ \A i \in 1..Len(b) : i \in 1..Len(s) /\ s[i] = b[i]
      /\ \A i \in 1..Len(s) :
            \/ i \in 1..Len(b) /\ s[i] = b[i]
            \/ i > Len(b) /\ i - Len(b) \in 1..Len(w) /\ s[i] = w[i - Len(b)]
  BY <1>4, <1>6, ConcatFacts
<1> HIDE DEF s
<1>8. ASSUME NEW i \in 1..Len(b)
      PROVE  b[i][1] \notin {"drainLp", "drainHp", "drainResults", "command"} /\ ~Opens(b[i])
  <2>1. CASE i \in 1..Len(a) /\ b[i] = a[i]
    BY <1>1, <2>1 DEF Emptying
  <2>2. CASE i - Len(a) \in 1..Len(q) /\ b[i] = q[i - Len(a)]
    BY <1>3, <2>2 DEF Opens
  <2> QED
    BY <1>5, <2>1, <2>2
<1>9. ASSUME NEW i \in 1..Len(s)
      PROVE  s[i][1] \notin {"drainLp", "drainHp", "drainResults", "command"} /\ ~Opens(s[i])
  <2>1. CASE i \in 1..Len(b) /\ s[i] = b[i]
    BY <1>8, <2>1
  <2>2. CASE i - Len(b) \in 1..Len(w) /\ s[i] = w[i - Len(b)]
    BY <1>4, <2>2 DEF Opens
  <2> QED
    BY <1>7, <2>1, <2>2
<1>10. 1 \in 1..Len(s) /\ Closes(s[1])
  BY <1>2, <1>5, <1>7
<1>11. ClosesFirst(s, c)
  <2> SUFFICES ASSUME NEW i \in 1..Len(s), s[i][1] \in Emptying
               PROVE  1 < i
    BY <1>10 DEF ClosesFirst
  <2>1. i # 1
    BY <1>10 DEF Closes, Emptying
  <2> QED
    BY <2>1
<1>12. Cleans(s, "lp") /\ Cleans(s, "hp")
  <2>1. ASSUME NEW i \in 1..Len(q) PROVE Len(a) + i \in 1..Len(s) /\ s[Len(a) + i] = q[i]
    BY <1>5, <1>7
  <2> QED
    BY <1>3, <2>1 DEF Cleans
<1>13. OpensLast(s) /\ CommandsLast(s) /\ DrainsLpFirst(s, c, l) /\ DrainsInputFirst(s, c, l, h)
  BY <1>9 DEF OpensLast, CommandsLast, DrainsLpFirst, DrainsInputFirst
<1>14. CleansFirst(s, c, l, h)
  BY <1>12 DEF CleansFirst
<1>15. Empties(s, c, l, h)
  BY <1>11, <1>13, <1>14 DEF Empties
<1> QED
  BY <1>15 DEF s, b, a, q, w

LEMMA OpeningEmpties ==
  ASSUME NEW c \in BOOLEAN, NEW l \in BOOLEAN, NEW h \in BOOLEAN
  PROVE  Empties(SetStopdata(FALSE), c, l, h)
<1> DEFINE a == <<"stopdata", FALSE>>
           b == <<"managerStopdata", FALSE>>
           s == <<a, b>>
<1>1. a[1] = "stopdata" /\ b[1] = "managerStopdata"
  OBVIOUS
<1>2. SetStopdata(FALSE) = s
  BY DEF SetStopdata
<1> HIDE DEF a, b
<1>3. Len(s) = 2 /\ s[1] = a /\ s[2] = b
  OBVIOUS
<1> HIDE DEF s
<1>4. \A i \in 1..Len(s) : s[i] = a \/ s[i] = b
  BY <1>3
<1>5. \A i \in 1..Len(s) : s[i][1] \notin Emptying \cup {"status", "command"}
  BY <1>1, <1>4 DEF Emptying
<1>6. OpensLast(s) /\ CommandsLast(s) /\ ClosesFirst(s, c)
  BY <1>5 DEF OpensLast, CommandsLast, ClosesFirst
<1>7. DrainsLpFirst(s, c, l) /\ DrainsInputFirst(s, c, l, h)
  BY <1>5 DEF DrainsLpFirst, DrainsInputFirst, Emptying
<1>8. CleansFirst(s, c, l, h)
  BY <1>3, <1>5 DEF CleansFirst
<1> QED
  BY <1>2, <1>6, <1>7, <1>8 DEF Empties

LEMMA StartingEmpties ==
  ASSUME NEW c \in BOOLEAN, NEW l \in BOOLEAN, NEW h \in BOOLEAN
  PROVE  Empties(CommandStart, c, l, h)
<1>1. ClosesItself(SetProcessing(1))
  BY ProcessingIsHarmless, HarmlessCloses
<1>2. SetStopdata(FALSE) \in Seq(Steps)
  BY Literals DEF Quiet
<1> QED
  BY <1>1, <1>2, OpeningEmpties, EmptiesPrefix DEF CommandStart

(* A command that comes when the main thread has nothing else to do.       *)
LEMMA CommandEmpties ==
  ASSUME NEW command \in Commands, command \notin {"shutdown", "cleanedshutdown", "getstatus"},
         NEW c \in BOOLEAN, NEW l \in BOOLEAN, NEW h \in BOOLEAN
  PROVE  Empties(StepsOf(command), c, l, h) /\ StepsOf(command) \in Seq(Steps)
<1>1. ClosesItself(CommandStop) /\ ClosesItself(SetProcessing(0)) /\ ClosesItself(SetProcessing(1))
      /\ ClosesItself(SetStopdata(TRUE))
  BY ClosingIsHarmless, ProcessingIsHarmless, HarmlessCloses
<1>2. /\ Empties(CommandStop, c, l, h) /\ Empties(SetProcessing(0), c, l, h)
      /\ Empties(SetProcessing(1), c, l, h) /\ Empties(SetStopdata(TRUE), c, l, h)
  BY <1>1, ClosedListEmpties
<1>3. Empties(CommandReset, c, l, h)
  BY CleaningEmpties, EmptyListEmpties DEF CommandReset
<1>4. Empties(CommandStart, c, l, h) /\ Empties(SetStopdata(FALSE), c, l, h)
  BY StartingEmpties, OpeningEmpties
<1>5. StepsOf(command) \in Seq(Steps)
  BY CommandsAreLists DEF CommandList
<1> QED
  BY <1>2, <1>3, <1>4, <1>5, CommandsAssumption DEF StepsOf

(* A shutdown, wherever it comes.                                          *)
LEMMA ShutdownEmpties ==
  ASSUME NEW s \in Seq(Steps), NEW command \in {"shutdown", "cleanedshutdown"},
         NEW c \in BOOLEAN, NEW l \in BOOLEAN, NEW h \in BOOLEAN, Empties(s, c, l, h)
  PROVE  Empties(StepsOf(command) \o s, c, l, h)
<1> DEFINE d == << <<"status", "EndingProcessing">> >> \o SetStopdata(TRUE)
                \o << <<"drainLp">>, <<"drainResults">> >>
           t == CommandShutdown \o s
<1>1. ClosesItself(CommandShutdown) /\ ClosesItself(d)
  BY ShutdownCloses, DrainingCloses
<1>2. CommandShutdown \in Seq(Steps) /\ d \in Seq(Steps)
  BY <1>1 DEF ClosesItself
<1>3. Empties(t, c, l, h)
  BY <1>1, EmptiesPrefix
<1>4. t \in Seq(Steps)
  BY <1>2, ConcatFacts
<1>5. StepsOf("shutdown") = CommandShutdown /\ StepsOf("cleanedshutdown") = CommandCleanedShutdown
  BY DEF StepsOf
<1>6. CommandCleanedShutdown = d \o CommandShutdown \/ CommandCleanedShutdown = <<>> \o CommandShutdown
  BY DEF CommandCleanedShutdown
<1> HIDE DEF d
<1>7. <<>> \o CommandShutdown = CommandShutdown
  BY <1>2, ConcatEmptySeq
<1>8. (d \o CommandShutdown) \o s = d \o t
  BY <1>2, ConcatAssociative
<1> HIDE DEF t
<1>9. Empties(d \o t, c, l, h)
  BY <1>1, <1>3, <1>4, EmptiesPrefix
<1> QED
  BY <1>3, <1>5, <1>6, <1>7, <1>8, <1>9 DEF t

LEMMA StepCloses ==
  ASSUME NEW a \in Steps,
         \/ a[1] \in {"info", "pop", "join", "joinService"}
         \/ a[1] = "command" /\ a[2] \in {"shutdown", "cleanedshutdown"}
  PROVE  ClosesItself(<<a>>)
<1> DEFINE p == <<a>>
<1>1. p \in Seq(Steps) /\ Len(p) = 1 /\ p[1] = a
  OBVIOUS
<1> HIDE DEF p
<1>2. \A i \in 1..Len(p) : p[i] = a
  BY <1>1
<1>3. ClosesFirst(p, FALSE) /\ DrainsInputFirst(p, FALSE, FALSE, FALSE)
  BY <1>2 DEF ClosesFirst, DrainsInputFirst, Emptying
<1>4. ClosesItself(p)
  BY <1>1, <1>2, <1>3 DEF ClosesItself, Opens
<1> QED
  BY <1>4 DEF p

LEMMA DestructorEmpties ==
  ASSUME NEW c \in BOOLEAN, NEW l \in BOOLEAN, NEW h \in BOOLEAN
  PROVE  Empties(Destructor, c, l, h)
<1>1. /\ Destructor \in Seq(Steps) /\ Destructor # <<>>
      /\ \A i \in 1..Len(Destructor) : Destructor[i][1] \in {"joinService", "gone"}
  BY StepLiterals DEF Destructor, Listeners, PlainSteps
<1>2. Len(Destructor) \in 1..Len(Destructor)
  BY <1>1, EmptySeq, LenProperties
<1>3. \A i \in 1..Len(Destructor) : ~Opens(Destructor[i])
                  /\ Destructor[i][1] \notin Emptying \cup {"status", "command"}
  BY <1>1 DEF Opens, Emptying
<1>4. ClosesFirst(Destructor, FALSE) /\ DrainsInputFirst(Destructor, FALSE, FALSE, FALSE)
  BY <1>3 DEF ClosesFirst, DrainsInputFirst, Emptying
<1>5. ClosesItself(Destructor)
  BY <1>1, <1>2, <1>3, <1>4 DEF ClosesItself, Emptying
<1> QED
  BY <1>5, ClosedListEmpties

-----------------------------------------------------------------------------
(* The queues.                                                             *)
Within(queue, items) == \A i \in 1..Len(queue) : queue[i] \in items
OnlyLate(queue) == Within(queue, LateItems)
EmptyInv == Empties(todo, supervisor.stopdata, OnlyLate(lp), OnlyLate(hp))

LEMMA WithinTail ==
  ASSUME NEW S, NEW q \in Seq(S), NEW r, r = q \/ (q # <<>> /\ r = Tail(q)), NEW L, Within(q, L)
  PROVE  Within(r, L)
<1>1. CASE q # <<>> /\ r = Tail(q)
  <2>1. \A i \in 1..Len(r) : i + 1 \in 1..Len(q) /\ r[i] = q[i + 1]
    BY <1>1, HeadTailProperties, EmptySeq, LenProperties
  <2> QED
    BY <2>1 DEF Within
<1> QED
  BY <1>1

LEMMA WithinAppend ==
  ASSUME NEW S, NEW q \in Seq(S), NEW e \in S, NEW L, Within(q, L), NEW M, L \subseteq M, e \in M
  PROVE  Within(Append(q, e), M)
<1>1. \A i \in 1..Len(Append(q, e)) : \/ i \in 1..Len(q) /\ Append(q, e)[i] = q[i]
                                      \/ Append(q, e)[i] = e
  BY AppendProperties, LenProperties
<1> QED
  BY <1>1 DEF Within

LEMMA WorkersTake ==
  ASSUME NEW w \in Workers, W!Run(w)
  PROVE  /\ lp' = lp \/ (lp # <<>> /\ lp' = Tail(lp))
         /\ hp' = hp \/ (hp # <<>> /\ hp' = Tail(hp))
<1> USE DEF W!queues
<1>1. CASE W!GetHp(w) \/ W!GetLp(w)
  BY <1>1 DEF W!GetHp, W!GetLp
<1>2. CASE W!Poll(w) \/ W!CheckToken(w) \/ W!CheckHp(w) \/ W!CheckLp(w)
  BY <1>2 DEF W!Poll, W!CheckToken, W!CheckHp, W!CheckLp
<1>3. CASE W!LockReading(w) \/ W!PassReading(w)
  BY <1>3 DEF W!LockReading, W!PassReading
<1>4. CASE W!ProcessData(w)
  BY <1>4 DEF W!ProcessData, W!Process, W!CheckResult, W!PushResult, W!LockResult, W!PassResult
<1> QED
  BY <1>1, <1>2, <1>3, <1>4 DEF W!Run, W!Read

(* What takes from the queues leaves only late items only late items; so   *)
(* does a push once the input is closed.                                   *)
LEMMA TakingKeepsLate ==
  ASSUME WorkersInv, late' = late,
         lp' = lp \/ (lp # <<>> /\ lp' = Tail(lp)),
         hp' = hp \/ (hp # <<>> /\ hp' = Tail(hp))
  PROVE  (OnlyLate(lp) => OnlyLate(lp)') /\ (OnlyLate(hp) => OnlyLate(hp)')
<1>1. lp \in Seq(WP!Items) /\ hp \in Seq(WP!Items)
  BY DEF WorkersInv, WP!TypeInv, WP!TypeOK, WP!QueuesOK
<1>2. LateItems' = LateItems
  BY DEF LateItems
<1>3. Within(lp, LateItems) => Within(lp', LateItems)
  BY <1>1, WithinTail
<1>4. Within(hp, LateItems) => Within(hp', LateItems)
  BY <1>1, WithinTail
<1> QED
  BY <1>2, <1>3, <1>4 DEF OnlyLate

LEMMA PushingKeepsLate ==
  ASSUME WorkersInv, NEW l \in Listeners, NEW message, NEW left, Push(l, message, left),
         supervisor.stopdata
  PROVE  (OnlyLate(lp) => OnlyLate(lp)') /\ (OnlyLate(hp) => OnlyLate(hp)')
<1> DEFINE d == [by |-> l, message |-> message, item |-> pushed']
<1>1. /\ lp \in Seq(WP!Items) /\ hp \in Seq(WP!Items) /\ pushed' \in WP!Items
      /\ \/ lp' = Append(lp, pushed') /\ hp' = hp
         \/ hp' = Append(hp, pushed') /\ lp' = lp
  BY AssumptionsHold DEF Push, W!PushLp, W!PushHp, WorkersInv, WP!TypeInv, WP!TypeOK, WP!QueuesOK,
     WP!Items
<1>2. late' = late \cup {d} /\ d.item = pushed'
  BY DEF Push
<1> HIDE DEF d
<1>3. LateItems \subseteq LateItems' /\ pushed' \in LateItems'
  BY <1>2 DEF LateItems
<1>4. \A q \in {lp, hp} : Within(q, LateItems) => Within(q, LateItems') /\ Within(Append(q, pushed'), LateItems')
  BY <1>1, <1>3, WithinAppend DEF Within
<1> QED
  BY <1>1, <1>4 DEF OnlyLate

LEMMA EmptyInvariance == SafeSpec => []EmptyInv
<1>1. Init => EmptyInv
  BY EmptyListEmpties DEF Init, EmptyInv
<1>2. JoinInv /\ WorkersInv /\ RestOK /\ RestOK' /\ EmptyInv /\ [Next]_vars => EmptyInv'
  <2> SUFFICES ASSUME JoinInv, WorkersInv, RestOK, RestOK', EmptyInv, [Next]_vars PROVE EmptyInv'
    OBVIOUS
  <2> DEFINE c == supervisor.stopdata
             l == OnlyLate(lp)
             h == OnlyLate(hp)
  <2> USE DEF worker
  <2>0. /\ todo \in Seq(Steps) /\ Argument = Head(todo)[2]
        /\ todo # <<>> => /\ Head(todo) = todo[1] /\ todo[1] \in Steps
                          /\ Tail(todo) \in Seq(Steps) /\ 1 \in 1..Len(todo)
                          /\ Len(Tail(todo)) = Len(todo) - 1
    BY TailFacts DEF JoinInv, Todo, Argument
  <2>1. Empties(todo, c, l, h) /\ c \in BOOLEAN /\ l \in BOOLEAN /\ h \in BOOLEAN
    BY DEF EmptyInv, RestOK, SupervisorOK, OnlyLate, Within
  <2>2. c' \in BOOLEAN /\ l' \in BOOLEAN /\ h' \in BOOLEAN
    BY DEF RestOK, SupervisorOK, OnlyLate, Within
  <2>3. ASSUME UNCHANGED <<supervisor.stopdata, lp, hp, late>> PROVE c' = c /\ l' = l /\ h' = h
    BY <2>3 DEF OnlyLate, LateItems
  <2>4. lp = <<>> => l
    BY DEF OnlyLate, Within
  <2>5. hp = <<>> => h
    BY DEF OnlyLate, Within
  <2>6. ASSUME todo' = todo, c => c', c /\ l => l', c /\ h => h' PROVE EmptyInv'
    <3>1. Empties(todo, c', l', h')
      BY <2>1, <2>2, <2>6, EmptiesStays
    <3> QED
      BY <2>6, <3>1 DEF EmptyInv
  <2>7. ASSUME NEW s, todo' = s, Empties(s, c', l', h') PROVE EmptyInv'
    BY <2>7 DEF EmptyInv
  <2>8. ASSUME todo # <<>>, todo[1][1] # "drainLp",
               todo[1][1] = "stopdata" => c' = todo[1][2],
               ~Opens(todo[1]) => (c => c') /\ (c /\ l => l') /\ (c /\ h => h'),
               todo[1][1] = "drainHp" => h',
               todo[1][1] = "clean" /\ todo[1][2] = "lp" => l',
               todo[1][1] = "clean" /\ todo[1][2] = "hp" => h'
        PROVE  Empties(Tail(todo), c', l', h')
    BY <2>0, <2>1, <2>2, <2>8, EmptiesTail
  <2>9. ASSUME todo # <<>>, UNCHANGED <<supervisor.stopdata, lp, hp, late>>,
               todo[1][1] \notin {"stopdata", "clean", "drainLp", "drainHp"}
        PROVE  Empties(Tail(todo), c', l', h')
    BY <2>3, <2>8, <2>9
  <2>10. CASE WriteStopdata
    <3>1. /\ todo # <<>> /\ todo[1][1] = "stopdata" /\ c' = todo[1][2] /\ todo[1][2] \in BOOLEAN
          /\ todo' = Tail(todo)
      BY <2>0, <2>10, StepFacts DEF WriteStopdata, At, Done, RestOK, SupervisorOK
    <3>2. c => (c' => l' = l /\ h' = h)
      <4> SUFFICES ASSUME c, c' PROVE l' = l /\ h' = h
        OBVIOUS
      <4>1. UNCHANGED <<lp, hp, late>>
        BY <2>0, <2>1, <2>10, <3>1 DEF WriteStopdata
      <4> QED
        BY <4>1 DEF OnlyLate, LateItems
    <3>3. ~Opens(todo[1]) => c'
      BY <3>1 DEF Opens
    <3>4. Empties(Tail(todo), c', l', h')
      BY <2>8, <3>1, <3>2, <3>3
    <3> QED
      BY <2>7, <3>1, <3>4
  <2>11. CASE \/ WriteStatus \/ WriteContinueall \/ WriteManager \/ WriteProcessdata \/ SendInfo
              \/ NotifyAll \/ Join \/ JoinService \/ JoinMonitoring
    <3>1. /\ todo # <<>>
          /\ todo' = Tail(todo) \/ todo' = << <<"info">> >> \o Tail(todo)
          /\ UNCHANGED <<supervisor.stopdata, lp, hp, late>>
          /\ todo[1][1] \notin {"stopdata", "clean", "drainLp", "drainHp"}
      BY <2>0, <2>11 DEF WriteStatus, WriteContinueall, WriteManager, WriteProcessdata, SendInfo,
         NotifyAll, Join, JoinService, JoinMonitoring, At, Done, Announce, RestOK, SupervisorOK
    <3>2. Empties(Tail(todo), c', l', h')
      BY <2>9, <3>1
    <3>3. ClosesItself(<< <<"info">> >>)
      <4>1. <<"info">> \in Steps
        BY StepLiterals DEF PlainSteps
      <4> QED
        BY <4>1, StepCloses
    <3>4. Empties(<< <<"info">> >> \o Tail(todo), c', l', h')
      BY <2>0, <2>2, <3>1, <3>2, <3>3, EmptiesPrefix
    <3> QED
      BY <2>7, <3>1, <3>2, <3>4
  <2>12. CASE Clean
    <3>1. /\ todo # <<>> /\ todo[1][1] = "clean" /\ UNCHANGED <<supervisor, lp, hp, late>>
          /\ c' = c /\ l' = l /\ h' = h
      BY <2>0, <2>3, <2>12 DEF Clean, At
    <3>2. CASE Contents(todo[1][2]) = <<>>
      <4>1. todo[1][2] = "lp" => l
        BY <2>4, <3>2, ContentsFacts
      <4>2. todo[1][2] = "hp" => h
        BY <2>5, <3>2, ContentsFacts
      <4>3. todo' = Tail(todo)
        BY <2>0, <2>12, <3>1, <3>2 DEF Clean
      <4>4. Empties(Tail(todo), c', l', h')
        BY <2>8, <3>1, <4>1, <4>2
      <4> QED
        BY <2>7, <4>3, <4>4
    <3>3. CASE Contents(todo[1][2]) # <<>>
      <4>1. todo' = << <<"pop", todo[1][2]>> >> \o todo
        BY <2>0, <2>12, <3>1, <3>3 DEF Clean
      <4>2. <<"pop", todo[1][2]>> \in Steps
        BY <2>0, <3>1, StepFacts, StepLiterals
      <4>3. ClosesItself(<< <<"pop", todo[1][2]>> >>)
        BY <4>2, StepCloses
      <4>4. Empties(<< <<"pop", todo[1][2]>> >> \o todo, c', l', h')
        BY <2>0, <2>1, <3>1, <4>3, EmptiesPrefix
      <4> QED
        BY <2>7, <4>1, <4>4
    <3> QED
      BY <3>2, <3>3
  <2>13. CASE CleanPop
    <3>1. /\ todo # <<>> /\ todo[1][1] = "pop" /\ todo' = Tail(todo) /\ UNCHANGED <<supervisor, late>>
          /\ lp' = lp \/ (lp # <<>> /\ lp' = Tail(lp))
          /\ hp' = hp \/ (hp # <<>> /\ hp' = Tail(hp))
      BY <2>0, <2>13, ContentsFacts DEF CleanPop, At, Done
    <3>2. (l => l') /\ (h => h') /\ c' = c
      BY <3>1, TakingKeepsLate
    <3>3. Empties(Tail(todo), c', l', h')
      BY <2>8, <3>1, <3>2
    <3> QED
      BY <2>7, <3>1, <3>3
  <2>14. CASE Drain
    <3>1. /\ todo # <<>> /\ UNCHANGED <<supervisor, lp, hp, late>>
          /\ c' = c /\ l' = l /\ h' = h
      BY <2>3, <2>14 DEF Drain, At
    <3>2. ASSUME NEW a \in {"drainLp", "drainHp"}, todo[1][1] \in {"drainLp", "drainHp"},
                 a = "drainHp" => l, todo' = << <<a>> >> \o Tail(todo)
          PROVE  EmptyInv'
      <4>1. Empties(<< <<a>> >> \o Tail(todo), c', l', h')
        BY <2>0, <2>1, <3>1, <3>2, EmptiesDrain
      <4> QED
        BY <2>7, <3>2, <4>1
    <3>3. ASSUME todo' = Tail(todo), todo[1][1] = "drainResults" \/ (todo[1][1] = "drainHp" /\ h)
          PROVE  EmptyInv'
      <4>1. Empties(Tail(todo), c', l', h')
        BY <2>8, <3>1, <3>3
      <4> QED
        BY <2>7, <3>3, <4>1
    <3> QED
      BY <2>0, <2>4, <2>5, <2>14, <3>1, <3>2, <3>3 DEF Drain, At, Done
  <2>15. CASE StopWorker
    <3>1. /\ todo # <<>> /\ todo[1][1] = "stopWorker" /\ UNCHANGED <<supervisor, lp, hp, late>>
          /\ todo' = Tail(todo) \/ todo' = << <<"join", todo[1][2]>> >> \o Tail(todo)
      BY <2>0, <2>15 DEF StopWorker, At, Done
    <3>2. Empties(Tail(todo), c', l', h')
      BY <2>9, <3>1
    <3>3. <<"join", todo[1][2]>> \in Steps
      BY <2>0, <3>1, StepFacts, StepLiterals
    <3>4. ClosesItself(<< <<"join", todo[1][2]>> >>)
      BY <3>3, StepCloses
    <3>5. Empties(<< <<"join", todo[1][2]>> >> \o Tail(todo), c', l', h')
      BY <2>0, <2>2, <3>1, <3>2, <3>4, EmptiesPrefix
    <3> QED
      BY <2>7, <3>1, <3>2, <3>5
  <2>16. CASE Dispatch
    <3>1. /\ todo # <<>> /\ todo[1][1] = "command" /\ todo[1][2] # "getstatus"
          /\ UNCHANGED <<supervisor, lp, hp, late>>
          /\ todo' = StepsOf(todo[1][2]) \o Tail(todo)
      BY <2>0, <2>16 DEF Dispatch, At
    <3>2. todo[1][2] \in Commands \cup {"shutdown", "cleanedshutdown"}
      BY <2>0, <3>1, StepFacts
    <3>3. CASE todo[1][2] \in {"shutdown", "cleanedshutdown"}
      <4>1. Empties(Tail(todo), c', l', h')
        BY <2>9, <3>1
      <4>2. Empties(StepsOf(todo[1][2]) \o Tail(todo), c', l', h')
        BY <2>0, <2>2, <3>1, <3>3, <4>1, ShutdownEmpties
      <4> QED
        BY <2>7, <3>1, <4>2
    <3>4. CASE todo[1][2] \notin {"shutdown", "cleanedshutdown"}
      <4>1. Len(todo) = 1
        BY <2>0, <2>1, <3>1, <3>4 DEF Empties, CommandsLast
      <4>2. Tail(todo) = <<>>
        <5>1. Tail(todo) \in Seq(Steps) /\ Len(Tail(todo)) = 0
          BY <2>0, <3>1, <4>1
        <5> QED
          BY <5>1, EmptySeq
      <4>3. Empties(StepsOf(todo[1][2]), c', l', h') /\ StepsOf(todo[1][2]) \in Seq(Steps)
        BY <2>2, <3>1, <3>2, <3>4, CommandEmpties
      <4>4. todo' = StepsOf(todo[1][2])
        BY <3>1, <4>2, <4>3, ConcatEmptySeq
      <4> QED
        BY <2>7, <4>3, <4>4
    <3> QED
      BY <3>3, <3>4
  <2>17. CASE Destroy
    <3>1. Empties(Destructor, c', l', h')
      BY <2>2, DestructorEmpties
    <3> QED
      BY <2>7, <2>17, <3>1 DEF Destroy
  <2>18. CASE MainMoves
    <3>1. CASE GetStatus
      BY <2>3, <2>6, <3>1 DEF GetStatus
    <3> QED
      BY <2>10, <2>11, <2>12, <2>13, <2>14, <2>15, <2>16, <2>17, <2>18, <3>1 DEF MainMoves, Main
  <2>19. ASSUME NEW command \in Commands, Receive(command) PROVE EmptyInv'
    <3> DEFINE s == << <<"command", command>> >>
    <3>1. Len(s) = 1 /\ s[1][1] = "command"
      OBVIOUS
    <3>2. todo' = s
      BY <2>19 DEF Receive
    <3> HIDE DEF s
    <3>3. \A i \in 1..Len(s) : i = Len(s) /\ s[i][1] = "command"
      BY <3>1
    <3>4. OpensLast(s) /\ CommandsLast(s) /\ ClosesFirst(s, c') /\ DrainsLpFirst(s, c', l')
          /\ DrainsInputFirst(s, c', l', h')
      BY <3>3 DEF OpensLast, CommandsLast, ClosesFirst, DrainsLpFirst, DrainsInputFirst, Emptying,
         Opens
    <3>5. CleansFirst(s, c', l', h')
      BY <3>1 DEF CleansFirst
    <3>6. Empties(s, c', l', h')
      BY <3>4, <3>5 DEF Empties
    <3> QED
      BY <2>7, <3>2, <3>6
  <2>20. ASSUME NEW signal \in Signals, Interrupt(signal) PROVE EmptyInv'
    <3>1. PICK x \in {"cleanedshutdown", "shutdown"} :
             todo' = << <<"command", x>> >> \o todo /\ UNCHANGED <<supervisor, lp, hp, late>>
      BY <2>20 DEF Interrupt
    <3>2. <<"command", x>> \in Steps
      BY StepLiterals
    <3>3. ClosesItself(<< <<"command", x>> >>)
      BY <3>2, StepCloses
    <3>4. c' = c /\ l' = l /\ h' = h
      BY <2>3, <3>1
    <3>5. Empties(<< <<"command", x>> >> \o todo, c', l', h')
      BY <2>0, <2>1, <3>3, <3>4, EmptiesPrefix
    <3> QED
      BY <2>7, <3>1, <3>5
  <2>21. CASE SenderMoves
    <3>1. UNCHANGED <<supervisor, lp, hp, late, todo>>
      BY <2>21 DEF SenderMoves, Sender, SenderCheck, SenderGet, SenderSend
    <3> QED
      BY <2>3, <2>6, <3>1
  <2>22. ASSUME NEW w \in Workers, WorkerMoves(w) PROVE EmptyInv'
    <3>1. UNCHANGED <<supervisor, late, todo>>
      BY <2>22 DEF WorkerMoves, Worker, WorkerRun, WorkerEnd, WorkerThrow
    <3>2. CASE WorkerRun(w)
      BY <2>6, <3>1, <3>2, WorkersTake, TakingKeepsLate DEF WorkerRun
    <3>3. CASE UNCHANGED <<lp, hp>>
      BY <2>3, <2>6, <3>1, <3>3
    <3> QED
      BY <2>22, <3>2, <3>3 DEF WorkerMoves, Worker, WorkerEnd, WorkerThrow
  <2>23. ASSUME NEW k \in Listeners, NEW message, NEW left, Push(k, message, left),
                UNCHANGED <<supervisor, todo>>
         PROVE  EmptyInv'
    <3>1. c => (l => l') /\ (h => h')
      BY <2>23, PushingKeepsLate
    <3> QED
      BY <2>6, <2>23, <3>1
  <2>24. ASSUME NEW k \in Listeners, ListenerMoves(k) \/ ListenerReceive(k) \/ ListenerThrow(k)
         PROVE  EmptyInv'
    <3>1. UNCHANGED <<supervisor, todo>>
      BY <2>24 DEF ListenerMoves, Listener, ListenerCheck, ListenerTimeout, ListenerPush,
         ListenerReceive, ListenerThrow
    <3>2. UNCHANGED <<lp, hp, late>> \/ \E message, left : Push(k, message, left)
      BY <2>24 DEF ListenerMoves, Listener, ListenerCheck, ListenerTimeout, ListenerPush,
         ListenerReceive, ListenerThrow
    <3> QED
      BY <2>3, <2>6, <2>23, <3>1, <3>2
  <2>25. CASE UNCHANGED vars
    BY <2>3, <2>6, <2>25 DEF vars
  <2> QED
    BY <2>18, <2>19, <2>20, <2>21, <2>22, <2>24, <2>25 DEF Next
<1> QED
  BY <1>1, <1>2, TodoInvariance, WorkersInvariance, RestInvariance, PTL DEF SafeSpec

(* A cleaned shutdown and a reset leave nothing but late data.             *)
THEOREM OnlyLateDataIsLeft == SafeSpec => OnlyLateDataSurvives
<1>1. JoinInv /\ RestOK /\ EmptyInv => (EndsDraining \/ EndsReset => Remaining \subseteq LateItems)
  <2> SUFFICES ASSUME JoinInv, RestOK, EmptyInv, EndsDraining \/ EndsReset
               PROVE  Remaining \subseteq LateItems
    OBVIOUS
  <2>0. /\ todo \in Seq(Steps) /\ todo # <<>> /\ Head(todo) = todo[1] /\ 1 \in 1..Len(todo)
    BY TailFacts DEF JoinInv, Todo, EndsDraining, EndsReset, At
  <2>1. OnlyLate(lp) /\ OnlyLate(hp)
    <3>1. CASE EndsDraining
      <4>1. todo[1][1] = "drainResults"
        BY <2>0, <3>1 DEF EndsDraining, At
      <4> QED
        BY <2>0, <4>1 DEF EmptyInv, Empties, DrainsInputFirst
    <3>2. CASE EndsReset
      <4>1. Len(todo) = 1 /\ todo[1][1] = "status"
        BY <2>0, <3>2 DEF EndsReset, At
      <4>2. \A q : ~Cleans(todo, q)
        BY <2>0, <4>1 DEF Cleans
      <4> QED
        BY <2>0, <4>1, <4>2 DEF EmptyInv, Empties, CleansFirst
    <3> QED
      BY <3>1, <3>2
  <2>2. Remaining = {lp[i] : i \in 1..Len(lp)} \cup {hp[i] : i \in 1..Len(hp)}
    BY DEF Remaining, Contents
  <2> QED
    BY <2>1, <2>2 DEF OnlyLate, Within
<1> QED
  BY <1>1, TodoInvariance, RestInvariance, EmptyInvariance, PTL DEF OnlyLateDataSurvives
=============================================================================
