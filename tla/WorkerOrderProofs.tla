--------------------------- MODULE WorkerOrderProofs ---------------------------
(***************************************************************************)
(* Theorems about the order in which the workers of WorkerThread read and  *)
(* write, for any number of workers and of items.  They rest on the        *)
(* invariant of the readers' ring: who reads sees its turn, and locking    *)
(* hands the turn to the successor.                                        *)
(***************************************************************************)
EXTENDS WorkerThreadProofs

(* What every theorem below assumes of a state.                            *)
Base == TypeInv /\ LockInv /\ ReadProofs!Inv

LEMMA BaseHolds == SafeSpec => []Base
  BY TypeCorrect, LocksHeld, ReadRingInvariant, PTL DEF Base

(* How many turns before w's own, once the loop in progress is over.       *)
Turn(w) == ReadProofs!Settled(w)
Successor(w) == ReadRing!Successor(w)

LEMMA LastOfSequence ==
  ASSUME NEW S, NEW s \in Seq(S), s # <<>>
  PROVE  Len(s) \in Nat \ {0} /\ s[Len(s)] \in S
  OBVIOUS

LEMMA SuccessorFacts ==
  /\ 0 \in Workers
  /\ \A w \in Workers : /\ Successor(w) \in Workers
                        /\ Successor(w) = IF w = NumWorkers - 1 THEN 0 ELSE w + 1
                        /\ Successor(w) = ReadProofs!Successor(w)
  BY WorkersAssumption DEF Workers, Successor, ReadRing!Successor, ReadProofs!Successor

LEMMA RingBase ==
  ASSUME Base
  PROVE  /\ ReadProofs!RingAssumption /\ ReadProofs!TypeOK /\ ReadProofs!Workers = Workers
         /\ \A w \in Readers : Turn(w) = 0
         /\ \A u, w \in Workers : Turn(u) = 0 /\ Turn(w) = 0 => u = w
  BY WorkersAssumption DEF Base, Turn, Workers, ReadProofs!RingAssumption, ReadProofs!Inv,
     ReadProofs!TypeOK, ReadProofs!TurnHeld, ReadProofs!Distinct, ReadProofs!Workers

(* Locking makes the turns of all one less; after the reader that locks    *)
(* comes its successor.                                                    *)
LEMMA LockHandsOver ==
  ASSUME Base, NEW w \in Workers, LockReading(w)
  PROVE  Turn(Successor(w))' = 0
<1>1. /\ tokenreading' = tokenreading /\ readLock.holder = Free
      /\ readLock'.holder = w /\ readLock'.next = 0 /\ w \in Readers
  BY DEF LockReading, Unlocked, Readers, Reading
<1>2. /\ ReadProofs!Settled(w) = 0
      /\ ReadProofs!Settled(Successor(w)) = ReadProofs!Increment(0)
  BY <1>1, RingBase, SuccessorFacts DEF Turn, Base, ReadProofs!Inv, ReadProofs!Rotation
<1>3. tokenreading[Successor(w)] = ReadProofs!Increment(0)
  BY <1>1, <1>2 DEF ReadProofs!Settled
<1>4. ReadProofs!Decrement(ReadProofs!Increment(0)) = 0
  BY WorkersAssumption DEF ReadProofs!Decrement, ReadProofs!Increment
<1>5. w # Free /\ 0 <= Successor(w)
  BY SuccessorFacts, WorkersAssumption DEF Workers
<1> QED
  BY <1>1, <1>3, <1>4, <1>5 DEF Turn, ReadProofs!Settled

(* The loop itself changes nobody's turn.                                  *)
LEMMA PassKeepsTurns ==
  ASSUME Base, NEW w \in Workers, PassReading(w)
  PROVE  \A u \in Workers : Turn(u)' = Turn(u)
<1>1. ReadProofs!Pass(w)
  BY PassReadingPasses DEF Base, TypeInv, TypeOK, LockInv, ReadRing!Pass, ReadProofs!Pass,
     ReadRing!Decrement, ReadProofs!Decrement
<1> QED
  BY <1>1, RingBase, ReadProofs!PassKeepsSettled DEF Turn

(* Every other step leaves the readers' ring and what was read, and moves  *)
(* nobody to or from the end of its turn.                                  *)
OtherStep == /\ UNCHANGED <<tokenreading, readLock, reads>>
             /\ \A w \in Workers : pc'[w] = "turn" <=> pc[w] = "turn"

LEMMA StepKinds ==
  ASSUME Base, [Next]_vars
  PROVE  \/ \E w \in Workers : GetHp(w) \/ GetLp(w) \/ LockReading(w) \/ PassReading(w)
         \/ OtherStep
<1> USE DEF readRing, history
<1>0. ThreadsOK
  BY DEF Base, TypeInv, TypeOK
<1>1. ASSUME NEW w \in Workers, NEW p \in Places \ {"turn"}, pc[w] # "turn", Goto(w, p),
             UNCHANGED <<tokenreading, readLock, reads>>
      PROVE  OtherStep
  BY <1>0, <1>1, GotoFacts DEF OtherStep
<1>2. ASSUME NEW w \in Workers, Poll(w) \/ CheckToken(w) \/ CheckHp(w) \/ CheckLp(w)
      PROVE  OtherStep
  <2>1. \E p \in Places \ {"turn"} : Goto(w, p)
    BY <1>2 DEF Poll, CheckToken, CheckHp, CheckLp, Places, Reading
  <2>2. pc[w] # "turn" /\ UNCHANGED <<tokenreading, readLock, reads>>
    BY <1>2 DEF Poll, CheckToken, CheckHp, CheckLp
  <2> QED
    BY <1>1, <2>1, <2>2
<1>3. ASSUME NEW w \in Workers, ProcessData(w) PROVE OtherStep
  <2>1. UNCHANGED pc \/ \E p \in Places \ {"turn"} : Goto(w, p)
    BY <1>3 DEF ProcessData, Process, CheckResult, PushResult, LockResult, PassResult,
       Release, Places, Writing
  <2>2. pc[w] # "turn" /\ UNCHANGED <<tokenreading, readLock, reads>>
    BY <1>3 DEF ProcessData, Process, CheckResult, PushResult, LockResult, PassResult
  <2> QED
    BY <1>1, <2>1, <2>2 DEF OtherStep
<1>4. ASSUME Environment PROVE OtherStep
  BY <1>4 DEF Environment, PushLp, PushHp, BeginSetProcessdata, SetProcessdata, Clean, OtherStep
<1>5. CASE UNCHANGED vars
  BY <1>5 DEF vars, OtherStep
<1> QED
  BY <1>2, <1>3, <1>4, <1>5 DEF Next, Run, Read

-----------------------------------------------------------------------------
(* Whose turn it is to read, told from what was read: the last reader's    *)
(* until it locks, then its successor's.                                   *)
LastReader == reads[Len(reads)].by
DealtInv ==
    /\ RoundRobin
    /\ reads = <<>> => Turn(0) = 0 /\ \A w \in Workers : pc[w] # "turn"
    /\ reads # <<>> => \/ pc[LastReader] = "turn"
                       \/ Turn(Successor(LastReader)) = 0 /\ \A w \in Workers : pc[w] # "turn"

LEMMA Dealing == SafeSpec => []DealtInv
<1>1. Init => DealtInv
  BY WorkersAssumption DEF Init, DealtInv, RoundRobin, Turn, Workers, Unlocked, ReadProofs!Settled
<1>2. Base /\ DealtInv /\ [Next]_vars => DealtInv'
  <2> SUFFICES ASSUME Base, DealtInv, [Next]_vars PROVE DealtInv'
    OBVIOUS
  <2>0. /\ reads \in Seq([by : Workers, item : Items])
        /\ ThreadsOK /\ QueuesOK
        /\ reads # <<>> => LastReader \in Workers
    <3>1. ThreadsOK /\ QueuesOK
      BY DEF Base, TypeInv, TypeOK
    <3>2. reads \in Seq([by : Workers, item : Items])
      BY <3>1 DEF QueuesOK
    <3>3. ASSUME reads # <<>> PROVE LastReader \in Workers
      <4>1. reads[Len(reads)] \in [by : Workers, item : Items]
        BY <3>2, <3>3, LastOfSequence
      <4> QED
        BY <4>1 DEF LastReader
    <3> QED
      BY <3>1, <3>2, <3>3
  <2>1. ASSUME NEW w \in Workers, GetHp(w) \/ GetLp(w) PROVE DealtInv'
    <3>1. PICK item \in Items : reads' = Append(reads, [by |-> w, item |-> item])
      BY <2>0, <2>1 DEF GetHp, GetLp, Took, QueuesOK
    <3>2. w \in Readers /\ Turn(w) = 0
      BY <2>1, RingBase DEF GetHp, GetLp, Readers, Reading
    <3>3. \A v \in Workers : pc[v] # "turn"
      BY <2>1, <3>2, RingBase DEF GetHp, GetLp, Readers, Reading
    <3>4. "turn" \in Places /\ Goto(w, "turn")
      BY <2>1 DEF GetHp, GetLp, Took, Places, Reading
    <3>5. pc'[w] = "turn"
      BY <2>0, <3>4, GotoFacts
    <3>6. /\ Len(reads') = Len(reads) + 1 /\ reads' # <<>>
          /\ reads'[Len(reads) + 1].by = w
          /\ \A i \in 1..Len(reads) : reads'[i] = reads[i]
      BY <2>0, <3>1
    <3>7. CASE reads = <<>>
      <4>1. w = 0
        BY <3>2, <3>7, RingBase, SuccessorFacts DEF DealtInv
      <4> QED
        BY <3>5, <3>6, <3>7, <4>1 DEF DealtInv, RoundRobin, LastReader
    <3>8. CASE reads # <<>>
      <4>1. w = Successor(LastReader)
        BY <2>0, <3>2, <3>3, <3>8, RingBase, SuccessorFacts DEF DealtInv
      <4>2. RoundRobin'
        BY <2>0, <3>6, <3>8, <4>1 DEF DealtInv, RoundRobin, LastReader, Successor
      <4> QED
        BY <3>5, <3>6, <4>2 DEF DealtInv, LastReader
    <3> QED
      BY <3>7, <3>8
  <2>2. ASSUME NEW w \in Workers, LockReading(w) PROVE DealtInv'
    <3>1. reads' = reads /\ pc[w] = "turn" /\ w \in Readers
      BY <2>2 DEF LockReading, history, Readers, Reading
    <3>2. reads # <<>> /\ LastReader = w
      BY <2>0, <3>1, RingBase DEF DealtInv, Readers, Reading
    <3>3. \A v \in Workers : pc'[v] # "turn"
      <4>1. "passing" \in Places /\ Goto(w, "passing")
        BY <2>2 DEF LockReading, Places
      <4>2. pc'[w] = "passing" /\ \A v \in Workers \ {w} : pc'[v] = pc[v]
        BY <2>0, <4>1, GotoFacts
      <4> QED
        BY <3>1, <4>2, RingBase DEF Readers, Reading
    <3>4. Turn(Successor(w))' = 0
      BY <2>2, LockHandsOver
    <3>5. RoundRobin' /\ LastReader' = LastReader
      BY <3>1 DEF DealtInv, RoundRobin, LastReader
    <3> QED
      BY <3>1, <3>2, <3>3, <3>4, <3>5 DEF DealtInv, Successor
  <2>3. ASSUME NEW w \in Workers, PassReading(w) PROVE DealtInv'
    <3>1. reads' = reads /\ \A u \in Workers : Turn(u)' = Turn(u)
      BY <2>3, PassKeepsTurns DEF PassReading, history
    <3>2. \A v \in Workers : pc'[v] = "turn" <=> pc[v] = "turn"
      BY <2>0, <2>3 DEF PassReading, Goto, ThreadsOK
    <3>3. RoundRobin' /\ LastReader' = LastReader
      BY <3>1 DEF DealtInv, RoundRobin, LastReader
    <3> QED
      BY <2>0, <3>1, <3>2, <3>3, SuccessorFacts DEF DealtInv, Successor
  <2>4. ASSUME OtherStep PROVE DealtInv'
    BY <2>0, <2>4 DEF OtherStep, DealtInv, RoundRobin, LastReader, Turn, ReadProofs!Settled
  <2> QED
    BY <2>1, <2>2, <2>3, <2>4, StepKinds
<1> QED
  BY <1>1, <1>2, BaseHolds, PTL DEF SafeSpec

(* The items are dealt to the workers strictly in turn.                    *)
THEOREM DealtInTurn == SafeSpec => []RoundRobin
<1>1. DealtInv => RoundRobin
  BY DEF DealtInv
<1> QED
  BY <1>1, Dealing, PTL

-----------------------------------------------------------------------------
(* After a low-priority read that left high-priority data waiting, the data*)
(* is still there and no reader has yet found the queue empty.             *)
OvertakeInv ==
    /\ overtakes \in {0, 1}
    /\ overtakes = 1 => /\ hp # <<>>
                        /\ \A w \in Workers : pc[w] \notin {"lpEmpty", "lpGet"}

LEMMA Overtaking == SafeSpec => []OvertakeInv
<1>1. Init => OvertakeInv
  BY DEF Init, OvertakeInv
<1>2. Base /\ OvertakeInv /\ [Next]_vars => OvertakeInv'
  <2> SUFFICES ASSUME Base, OvertakeInv, [Next]_vars PROVE OvertakeInv'
    OBVIOUS
  <2>0. ThreadsOK /\ QueuesOK
    BY DEF Base, TypeInv, TypeOK
  <2>1. ASSUME UNCHANGED <<hp, overtakes>>, NEW w \in Workers,
               UNCHANGED pc \/ \E p \in Places \ {"lpEmpty", "lpGet"} : Goto(w, p)
        PROVE  OvertakeInv'
    BY <2>0, <2>1, GotoFacts DEF OvertakeInv
  <2>2. ASSUME NEW w \in Workers, Poll(w) \/ CheckToken(w) \/ LockReading(w) \/ PassReading(w)
        PROVE  OvertakeInv'
    <3>1. UNCHANGED pc \/ \E p \in Places \ {"lpEmpty", "lpGet"} : Goto(w, p)
      BY <2>2 DEF Poll, CheckToken, LockReading, PassReading, Places, Reading
    <3> QED
      BY <2>1, <2>2, <3>1 DEF Poll, CheckToken, LockReading, PassReading, queues, history
  <2>3. ASSUME NEW w \in Workers, CheckHp(w) PROVE OvertakeInv'
    <3>1. CASE hp = <<>>
      <4>1. overtakes' = 0
        BY <2>3, <3>1 DEF CheckHp, OvertakeInv, history
      <4> QED
        BY <4>1 DEF OvertakeInv
    <3>2. CASE hp # <<>>
      <4>1. "hpGet" \in Places \ {"lpEmpty", "lpGet"} /\ Goto(w, "hpGet")
        BY <2>3, <3>2 DEF CheckHp, Places, Reading
      <4> QED
        BY <2>1, <2>3, <4>1 DEF CheckHp, queues, history
    <3> QED
      BY <3>1, <3>2
  <2>4. ASSUME NEW w \in Workers, CheckLp(w) PROVE OvertakeInv'
    BY <2>4 DEF CheckLp, OvertakeInv, history
  <2>5. ASSUME NEW w \in Workers, GetHp(w) PROVE OvertakeInv'
    BY <2>5 DEF GetHp, OvertakeInv
  <2>6. ASSUME NEW w \in Workers, GetLp(w) PROVE OvertakeInv'
    <3>1. overtakes = 0 /\ w \in Readers /\ hp' = hp
          /\ overtakes' = IF hp = <<>> THEN 0 ELSE overtakes + 1
      BY <2>6 DEF GetLp, OvertakeInv, Readers, Reading
    <3>2. \A v \in Workers : pc[v] \in {"lpEmpty", "lpGet"} => v = w
      BY <3>1, RingBase DEF Readers, Reading
    <3>3. "turn" \in Places /\ Goto(w, "turn")
      BY <2>6 DEF GetLp, Took, Places, Reading
    <3>4. \A v \in Workers : pc'[v] \notin {"lpEmpty", "lpGet"}
      BY <2>0, <3>2, <3>3, GotoFacts
    <3> QED
      BY <3>1, <3>4 DEF OvertakeInv
  <2>7. ASSUME NEW w \in Workers, ProcessData(w) PROVE OvertakeInv'
    <3>1. UNCHANGED pc \/ \E p \in Places \ {"lpEmpty", "lpGet"} : Goto(w, p)
      BY <2>7 DEF ProcessData, Process, CheckResult, PushResult, LockResult, PassResult,
         Release, Places, Writing
    <3>2. UNCHANGED <<hp, overtakes>>
      BY <2>7 DEF ProcessData, Process, CheckResult, PushResult, LockResult, PassResult,
         queues, history
    <3> QED
      BY <2>1, <3>1, <3>2
  <2>8. ASSUME Environment, ~Clean PROVE OvertakeInv'
    <3>1. pc' = pc /\ overtakes' = overtakes /\ (hp # <<>> => hp' # <<>>)
      BY <2>0, <2>8 DEF Environment, PushLp, PushHp, BeginSetProcessdata, SetProcessdata,
         queues, history, QueuesOK
    <3> QED
      BY <3>1 DEF OvertakeInv
  <2>9. CASE UNCHANGED vars
    BY <2>9 DEF vars, queues, history, OvertakeInv
  <2>10. ASSUME Clean PROVE OvertakeInv'
    <3>1. pc' = pc /\ (overtakes' = 0 \/ (overtakes' = overtakes /\ (hp # <<>> => hp' # <<>>)))
      BY <2>10 DEF Clean
    <3> QED
      BY <3>1 DEF OvertakeInv
  <2> QED
    BY <2>2, <2>3, <2>4, <2>5, <2>6, <2>7, <2>8, <2>9, <2>10 DEF Next, Run, Read
<1> QED
  BY <1>1, <1>2, BaseHolds, PTL DEF SafeSpec

(* High-priority data waits for at most one low-priority read.             *)
THEOREM OneOvertake == SafeSpec => []AtMostOneOvertake
<1>1. OvertakeInv => AtMostOneOvertake
  BY DEF OvertakeInv, AtMostOneOvertake
<1> QED
  BY <1>1, Overtaking, PTL

-----------------------------------------------------------------------------
(* No item is in two places: in two queues, or read twice.                 *)
OnlyOnce(q, r, rd, last) ==
    /\ \A i, j \in 1..Len(q) : q[i] = q[j] => i = j
    /\ \A i, j \in 1..Len(r) : r[i] = r[j] => i = j
    /\ \A i, j \in 1..Len(rd) : rd[i].item = rd[j].item => i = j
    /\ \A i \in 1..Len(q) : \A j \in 1..Len(r) : q[i] # r[j]
    /\ \A i \in 1..Len(rd) : \A j \in 1..Len(q) : rd[i].item # q[j]
    /\ \A i \in 1..Len(rd) : \A j \in 1..Len(r) : rd[i].item # r[j]
    /\ \A i \in 1..Len(q) : q[i] <= last
    /\ \A i \in 1..Len(r) : r[i] <= last
    /\ \A i \in 1..Len(rd) : rd[i].item <= last

ReadType == [by : Workers, item : Items]

LEMMA OnlyOnceSymmetric ==
  ASSUME NEW q, NEW r, NEW rd, NEW last, OnlyOnce(q, r, rd, last)
  PROVE  OnlyOnce(r, q, rd, last)
  BY DEF OnlyOnce

LEMMA ElementsAreNumbers ==
  ASSUME NEW q \in Seq(Items), NEW i \in 1..Len(q)
  PROVE  q[i] \in Int
<1>1. q[i] \in Items
  OBVIOUS
<1> QED
  BY <1>1, ItemsAssumption DEF Items

LEMMA ReadsAreNumbers ==
  ASSUME NEW rd \in Seq(ReadType), NEW i \in 1..Len(rd)
  PROVE  rd[i].item \in Int
<1>1. rd[i] \in ReadType
  OBVIOUS
<1> QED
  BY <1>1, ItemsAssumption DEF Items, ReadType

LEMMA PushKeepsOnlyOnce ==
  ASSUME NEW q \in Seq(Items), NEW r \in Seq(Items), NEW rd \in Seq(ReadType),
         NEW last \in Nat, OnlyOnce(q, r, rd, last)
  PROVE  OnlyOnce(Append(q, last + 1), r, rd, last + 1)
<1> DEFINE p == Append(q, last + 1)
<1>1. /\ Len(p) = Len(q) + 1 /\ p[Len(q) + 1] = last + 1 /\ Len(q) \in Nat
      /\ \A i \in 1..Len(q) : p[i] = q[i]
  OBVIOUS
<1> HIDE DEF p
<1>2. \A i \in 1..Len(p) : \/ i \in 1..Len(q) /\ p[i] = q[i]
                           \/ i = Len(q) + 1 /\ p[i] = last + 1
  BY <1>1
<1>3. /\ \A i \in 1..Len(q) : q[i] \in Int /\ q[i] <= last /\ q[i] # last + 1
      /\ \A i \in 1..Len(r) : r[i] \in Int /\ r[i] <= last /\ r[i] # last + 1
      /\ \A i \in 1..Len(rd) : rd[i].item \in Int /\ rd[i].item <= last /\ rd[i].item # last + 1
  BY ElementsAreNumbers, ReadsAreNumbers DEF OnlyOnce
<1>4. \A i, j \in 1..Len(p) : p[i] = p[j] => i = j
  <2> SUFFICES ASSUME NEW i \in 1..Len(p), NEW j \in 1..Len(p), p[i] = p[j] PROVE i = j
    OBVIOUS
  <2>1. CASE i \in 1..Len(q) /\ j \in 1..Len(q)
    BY <1>1, <2>1 DEF OnlyOnce
  <2>2. CASE i = Len(q) + 1 \/ j = Len(q) + 1
    BY <1>2, <1>3, <2>2
  <2> QED
    BY <1>2, <2>1, <2>2
<1>5. \A i \in 1..Len(p) : \A j \in 1..Len(r) : p[i] # r[j]
  BY <1>2, <1>3 DEF OnlyOnce
<1>6. \A i \in 1..Len(rd) : \A j \in 1..Len(p) : rd[i].item # p[j]
  BY <1>2, <1>3 DEF OnlyOnce
<1>7. ASSUME NEW i \in 1..Len(p) PROVE p[i] <= last + 1
  <2>1. CASE i \in 1..Len(q)
    BY <1>1, <1>3, <2>1
  <2>2. CASE i = Len(q) + 1
    BY <1>1, <2>2
  <2> QED
    BY <1>2, <2>1, <2>2
<1>8. /\ \A i \in 1..Len(r) : r[i] <= last + 1
      /\ \A i \in 1..Len(rd) : rd[i].item <= last + 1
  BY <1>3
<1>9. OnlyOnce(p, r, rd, last + 1)
  BY <1>4, <1>5, <1>6, <1>7, <1>8 DEF OnlyOnce
<1> QED
  BY <1>9 DEF p

LEMMA TakeKeepsOnlyOnce ==
  ASSUME NEW q \in Seq(Items), NEW r \in Seq(Items), NEW rd \in Seq(ReadType),
         NEW last \in Nat, OnlyOnce(q, r, rd, last), q # <<>>, NEW w \in Workers
  PROVE  OnlyOnce(Tail(q), r, Append(rd, [by |-> w, item |-> Head(q)]), last)
<1> DEFINE t == Tail(q)
           e == [by |-> w, item |-> Head(q)]
           a == Append(rd, e)
<1>1. /\ Len(q) \in Nat \ {0} /\ Len(t) = Len(q) - 1
      /\ \A i \in 1..Len(t) : i + 1 \in 1..Len(q) /\ t[i] = q[i + 1] /\ i + 1 # 1
  OBVIOUS
<1>2. e.item = q[1] /\ 1 \in 1..Len(q)
  BY <1>1
<1> HIDE DEF t, e
<1>3. /\ Len(rd) \in Nat /\ Len(a) = Len(rd) + 1 /\ a[Len(rd) + 1] = e
      /\ \A i \in 1..Len(rd) : a[i] = rd[i]
  OBVIOUS
<1> HIDE DEF a
<1>4. \A i \in 1..Len(a) : \/ i \in 1..Len(rd) /\ a[i].item = rd[i].item
                           \/ i = Len(rd) + 1 /\ a[i].item = q[1]
  BY <1>2, <1>3
<1>5. \A i, j \in 1..Len(t) : t[i] = t[j] => i = j
  <2> SUFFICES ASSUME NEW i \in 1..Len(t), NEW j \in 1..Len(t), t[i] = t[j] PROVE i = j
    OBVIOUS
  <2>1. i + 1 = j + 1
    BY <1>1 DEF OnlyOnce
  <2> QED
    BY <1>1, <2>1
<1>6. \A i, j \in 1..Len(a) : a[i].item = a[j].item => i = j
  <2> SUFFICES ASSUME NEW i \in 1..Len(a), NEW j \in 1..Len(a), a[i].item = a[j].item
               PROVE  i = j
    OBVIOUS
  <2>1. CASE i \in 1..Len(rd) /\ j \in 1..Len(rd)
    BY <1>3, <2>1 DEF OnlyOnce
  <2>2. \A k \in 1..Len(rd) : rd[k].item # q[1]
    BY <1>2 DEF OnlyOnce
  <2> QED
    BY <1>4, <2>1, <2>2
<1>7. \A i \in 1..Len(t) : \A j \in 1..Len(r) : t[i] # r[j]
  BY <1>1 DEF OnlyOnce
<1>8. \A i \in 1..Len(a) : \A j \in 1..Len(t) : a[i].item # t[j]
  <2>1. ASSUME NEW j \in 1..Len(t) PROVE t[j] # q[1]
    BY <1>1, <1>2 DEF OnlyOnce
  <2>2. ASSUME NEW i \in 1..Len(rd), NEW j \in 1..Len(t) PROVE rd[i].item # t[j]
    BY <1>1 DEF OnlyOnce
  <2> QED
    BY <1>4, <2>1, <2>2
<1>9. \A i \in 1..Len(a) : \A j \in 1..Len(r) : a[i].item # r[j]
  BY <1>2, <1>4 DEF OnlyOnce
<1>10. \A i \in 1..Len(t) : t[i] <= last
  BY <1>1 DEF OnlyOnce
<1>11. ASSUME NEW i \in 1..Len(a) PROVE a[i].item <= last
  BY <1>2, <1>4 DEF OnlyOnce
<1>12. OnlyOnce(t, r, a, last)
  BY <1>5, <1>6, <1>7, <1>8, <1>9, <1>10, <1>11 DEF OnlyOnce
<1> QED
  BY <1>12 DEF t, a, e

LEMMA DropKeepsOnlyOnce ==
  ASSUME NEW q \in Seq(Items), NEW r, NEW rd, NEW last, OnlyOnce(q, r, rd, last), q # <<>>
  PROVE  OnlyOnce(Tail(q), r, rd, last)
<1> DEFINE t == Tail(q)
<1>1. \A i \in 1..Len(t) : i \in Int /\ i + 1 \in 1..Len(q) /\ t[i] = q[i + 1]
  OBVIOUS
<1> HIDE DEF t
<1>2. /\ \A i, j \in 1..Len(q) : q[i] = q[j] => i = j
      /\ \A i \in 1..Len(q) : \A j \in 1..Len(r) : q[i] # r[j]
      /\ \A i \in 1..Len(rd) : \A j \in 1..Len(q) : rd[i].item # q[j]
      /\ \A i \in 1..Len(q) : q[i] <= last
  BY DEF OnlyOnce
<1>3. \A i, j \in 1..Len(t) : t[i] = t[j] => i = j
  <2> SUFFICES ASSUME NEW i \in 1..Len(t), NEW j \in 1..Len(t), t[i] = t[j] PROVE i = j
    OBVIOUS
  <2>1. i + 1 = j + 1
    BY <1>1, <1>2
  <2> QED
    BY <1>1, <2>1
<1>4. ASSUME NEW i \in 1..Len(t) PROVE /\ \A j \in 1..Len(r) : t[i] # r[j]
                                       /\ t[i] <= last
  BY <1>1, <1>2
<1>5. ASSUME NEW i \in 1..Len(rd), NEW j \in 1..Len(t) PROVE rd[i].item # t[j]
  BY <1>1, <1>2
<1>6. OnlyOnce(t, r, rd, last)
  BY <1>3, <1>4, <1>5 DEF OnlyOnce
<1> QED
  BY <1>6 DEF t

OnlyOnceInv == OnlyOnce(lp, hp, reads, pushed)

LEMMA CleanKeepsOnlyOnce ==
  ASSUME QueuesOK, OnlyOnceInv, Clean
  PROVE  OnlyOnceInv'
<1>1. UNCHANGED <<reads, pushed>>
  BY DEF Clean
<1>2. lp \in Seq(Items) /\ hp \in Seq(Items)
  BY DEF QueuesOK
<1>3. CASE lp # <<>> /\ lp' = Tail(lp) /\ hp' = hp
  <2>1. OnlyOnce(Tail(lp), hp, reads, pushed)
    BY <1>2, <1>3, DropKeepsOnlyOnce DEF OnlyOnceInv
  <2> QED
    BY <1>1, <1>3, <2>1 DEF OnlyOnceInv
<1>4. CASE hp # <<>> /\ hp' = Tail(hp) /\ lp' = lp
  <2>1. OnlyOnce(hp, lp, reads, pushed)
    BY OnlyOnceSymmetric DEF OnlyOnceInv
  <2>2. OnlyOnce(Tail(hp), lp, reads, pushed)
    BY <1>2, <1>4, <2>1, DropKeepsOnlyOnce
  <2>3. OnlyOnce(lp, Tail(hp), reads, pushed)
    BY <2>2, OnlyOnceSymmetric
  <2> QED
    BY <1>1, <1>4, <2>3 DEF OnlyOnceInv
<1>5. CASE UNCHANGED <<lp, hp>>
  BY <1>1, <1>5 DEF OnlyOnceInv
<1> QED
  BY <1>3, <1>4, <1>5 DEF Clean

LEMMA ItemsAreUnique == SafeSpec => []OnlyOnceInv
<1>1. Init => OnlyOnceInv
  BY DEF Init, OnlyOnceInv, OnlyOnce
<1>2. TypeOK /\ OnlyOnceInv /\ [Next]_vars => OnlyOnceInv'
  <2> SUFFICES ASSUME QueuesOK, OnlyOnceInv, [Next]_vars PROVE OnlyOnceInv'
    BY DEF TypeOK
  <2>0. /\ lp \in Seq(Items) /\ hp \in Seq(Items) /\ reads \in Seq(ReadType)
        /\ pushed \in Nat
    BY ItemsAssumption DEF QueuesOK, ReadType
  <2>1. ASSUME NEW w \in Workers, GetLp(w) PROVE OnlyOnceInv'
    <3>1. /\ lp # <<>> /\ lp' = Tail(lp) /\ hp' = hp /\ pushed' = pushed
          /\ reads' = Append(reads, [by |-> w, item |-> Head(lp)])
      BY <2>1 DEF GetLp, Took
    <3>2. OnlyOnce(lp', hp, reads', pushed)
      BY <2>0, <3>1, TakeKeepsOnlyOnce DEF OnlyOnceInv
    <3> QED
      BY <3>1, <3>2 DEF OnlyOnceInv
  <2>2. ASSUME NEW w \in Workers, GetHp(w) PROVE OnlyOnceInv'
    <3>1. /\ hp # <<>> /\ hp' = Tail(hp) /\ lp' = lp /\ pushed' = pushed
          /\ reads' = Append(reads, [by |-> w, item |-> Head(hp)])
      BY <2>2 DEF GetHp, Took
    <3>2. OnlyOnce(hp, lp, reads, pushed)
      BY OnlyOnceSymmetric DEF OnlyOnceInv
    <3>3. OnlyOnce(hp', lp, reads', pushed)
      BY <2>0, <3>1, <3>2, TakeKeepsOnlyOnce
    <3> QED
      BY <3>1, <3>3, OnlyOnceSymmetric DEF OnlyOnceInv
  <2>3. ASSUME PushLp PROVE OnlyOnceInv'
    <3>1. lp' = Append(lp, pushed + 1) /\ hp' = hp /\ reads' = reads /\ pushed' = pushed + 1
      BY <2>3 DEF PushLp, history
    <3> QED
      BY <2>0, <3>1, PushKeepsOnlyOnce DEF OnlyOnceInv
  <2>4. ASSUME PushHp PROVE OnlyOnceInv'
    <3>1. hp' = Append(hp, pushed + 1) /\ lp' = lp /\ reads' = reads /\ pushed' = pushed + 1
      BY <2>4 DEF PushHp, history
    <3>2. OnlyOnce(hp, lp, reads, pushed)
      BY OnlyOnceSymmetric DEF OnlyOnceInv
    <3>3. OnlyOnce(hp', lp, reads, pushed + 1)
      BY <2>0, <3>1, <3>2, PushKeepsOnlyOnce
    <3> QED
      BY <3>1, <3>3, OnlyOnceSymmetric DEF OnlyOnceInv
  <2>5. ASSUME UNCHANGED <<lp, hp, reads, pushed>> PROVE OnlyOnceInv'
    BY <2>5 DEF OnlyOnceInv
  <2>6. ASSUME NEW w \in Workers, Run(w), ~GetLp(w), ~GetHp(w) PROVE OnlyOnceInv'
    <3>1. UNCHANGED <<lp, hp, reads, pushed>>
      BY <2>6 DEF Run, Read, ProcessData, Poll, CheckToken, CheckHp, CheckLp, LockReading,
         PassReading, Process, CheckResult, PushResult, LockResult, PassResult, queues, history
    <3> QED
      BY <2>5, <3>1
  <2>7. ASSUME NEW value \in {0, 1}, BeginSetProcessdata(value) \/ SetProcessdata
        PROVE  OnlyOnceInv'
    <3>1. UNCHANGED <<lp, hp, reads, pushed>>
      BY <2>7 DEF BeginSetProcessdata, SetProcessdata, queues, history
    <3> QED
      BY <2>5, <3>1
  <2>8. CASE UNCHANGED vars
    <3>1. UNCHANGED <<lp, hp, reads, pushed>>
      BY <2>8 DEF vars, queues, history
    <3> QED
      BY <2>5, <3>1
  <2>9. ASSUME Clean PROVE OnlyOnceInv'
    BY <2>9, CleanKeepsOnlyOnce
  <2> QED
    BY <2>1, <2>2, <2>3, <2>4, <2>6, <2>7, <2>8, <2>9 DEF Next, Environment
<1> QED
  BY <1>1, <1>2, TypesHold, PTL DEF SafeSpec

-----------------------------------------------------------------------------
(* Dealing in turn, a worker reads again after NumWorkers reads and no     *)
(* sooner.                                                                 *)
CycleInv ==
    \A i \in 1..Len(reads) :
        reads[i].by = IF i <= NumWorkers THEN i - 1 ELSE reads[i - NumWorkers].by

(* Where in reads the data is that a worker still has to write.            *)
Holding == {"turn", "passing", "process", "result", "push"}
HeldAt(w, i) == /\ reads[i].item = held[w].item /\ reads[i].by = w
                /\ \A k \in 1..Len(reads) : reads[k].by = w => k <= i
HeldInv == \A w \in Workers : pc[w] \in Holding => \E i \in 1..Len(reads) : HeldAt(w, i)

(* What was written was read, and not a turn or more after what was        *)
(* written later.                                                          *)
Written(rd, results) ==
    \A k \in 1..Len(results) : \E i \in 1..Len(rd) : rd[i].item = results[k]
Ordered(rd, results) ==
    \A k, l \in 1..Len(results) : k < l =>
        \A i, j \in 1..Len(rd) :
            rd[i].item = results[k] /\ rd[j].item = results[l] => i < j + NumWorkers
OrderInv == Written(reads, rhp) /\ Ordered(reads, rhp)

(* One more read, dealt in turn, keeps the period of the turns.            *)
LEMMA ReadKeepsCycle ==
  ASSUME reads \in Seq(ReadType), CycleInv, RoundRobin', NEW w \in Workers,
         NEW item \in Items, reads' = Append(reads, [by |-> w, item |-> item])
  PROVE  CycleInv'
<1> DEFINE n == Len(reads) + 1
<1>1. /\ Len(reads') = n /\ n \in Nat \ {0}
      /\ \A i \in 1..(n - 1) : reads'[i] = reads[i]
  OBVIOUS
<1> HIDE DEF n
<1>2. NumWorkers \in Nat \ {0}
  BY WorkersAssumption
<1>3. /\ reads'[1].by = 0
      /\ \A i \in 1..(n - 1) : reads'[i + 1].by = Successor(reads'[i].by)
  <2>1. reads' # <<>>
    OBVIOUS
  <2> QED
    BY <1>1, <2>1 DEF RoundRobin, Successor
<1>4. \A i \in 1..(n - 1) :
          reads'[i].by = IF i <= NumWorkers THEN i - 1 ELSE reads'[i - NumWorkers].by
  <2> SUFFICES ASSUME NEW i \in 1..(n - 1)
               PROVE  reads'[i].by = IF i <= NumWorkers THEN i - 1
                                     ELSE reads'[i - NumWorkers].by
    OBVIOUS
  <2>1. i \in 1..Len(reads)
    BY <1>1 DEF n
  <2>2. reads[i].by = IF i <= NumWorkers THEN i - 1 ELSE reads[i - NumWorkers].by
    BY <2>1 DEF CycleInv
  <2>3. i > NumWorkers => i - NumWorkers \in 1..(n - 1)
    BY <1>1, <1>2
  <2> QED
    BY <1>1, <1>2, <2>2, <2>3
<1>5. reads'[n].by = IF n <= NumWorkers THEN n - 1 ELSE reads'[n - NumWorkers].by
  <2>1. CASE n = 1
    BY <1>2, <1>3, <2>1
  <2>2. CASE n # 1 /\ n <= NumWorkers
    <3>1. n - 1 \in 1..(n - 1) /\ (n - 1) + 1 = n /\ n - 1 <= NumWorkers
      BY <1>1, <1>2, <2>2
    <3>2. reads'[n - 1].by = n - 2 /\ reads'[n].by = Successor(reads'[n - 1].by)
      BY <1>1, <1>3, <1>4, <3>1
    <3>3. n - 2 \in Workers /\ n - 2 # NumWorkers - 1 /\ (n - 2) + 1 = n - 1
      BY <1>1, <1>2, <2>2 DEF Workers
    <3> QED
      BY <2>2, <3>2, <3>3, SuccessorFacts
  <2>3. CASE n = NumWorkers + 1
    <3>1. n - 1 \in 1..(n - 1) /\ (n - 1) + 1 = n /\ n - 1 = NumWorkers
          /\ n - NumWorkers = 1 /\ ~(n <= NumWorkers)
      BY <1>1, <1>2, <2>3
    <3>2. n - 1 <= NumWorkers /\ (n - 1) - 1 = NumWorkers - 1
      BY <1>1, <1>2, <2>3
    <3>3. reads'[n - 1].by = NumWorkers - 1
      BY <1>4, <3>1, <3>2
    <3>4. reads'[n].by = Successor(reads'[n - 1].by)
      BY <1>3, <3>1
    <3>5. NumWorkers - 1 \in Workers
      BY <1>2 DEF Workers
    <3> QED
      BY <1>3, <3>1, <3>3, <3>4, <3>5, SuccessorFacts
  <2>4. CASE n > NumWorkers + 1
    <3>1. /\ n - 1 \in 1..(n - 1) /\ (n - 1) + 1 = n /\ ~(n - 1 <= NumWorkers)
          /\ (n - 1) - NumWorkers \in 1..(n - 1)
          /\ ((n - 1) - NumWorkers) + 1 = n - NumWorkers /\ ~(n <= NumWorkers)
      BY <1>1, <1>2, <2>4
    <3>2. /\ reads'[n - 1].by = reads'[(n - 1) - NumWorkers].by
          /\ reads'[n].by = Successor(reads'[n - 1].by)
          /\ reads'[n - NumWorkers].by = Successor(reads'[(n - 1) - NumWorkers].by)
      BY <1>3, <1>4, <3>1
    <3> QED
      BY <3>1, <3>2
  <2> QED
    BY <1>1, <1>2, <2>1, <2>2, <2>3, <2>4
<1>6. \A i \in 1..n : i = n \/ i \in 1..(n - 1)
  BY <1>1
<1> QED
  BY <1>1, <1>4, <1>5, <1>6 DEF CycleInv

LEMMA Cycle == SafeSpec => []CycleInv
<1>1. Init => CycleInv
  BY DEF Init, CycleInv
<1>2. Base /\ RoundRobin' /\ CycleInv /\ [Next]_vars => CycleInv'
  <2> SUFFICES ASSUME Base, RoundRobin', CycleInv, [Next]_vars PROVE CycleInv'
    OBVIOUS
  <2>0. reads \in Seq(ReadType) /\ QueuesOK
    BY DEF Base, TypeInv, TypeOK, QueuesOK, ReadType
  <2>1. ASSUME NEW w \in Workers, GetHp(w) \/ GetLp(w) PROVE CycleInv'
    <3>1. PICK item \in Items : reads' = Append(reads, [by |-> w, item |-> item])
      BY <2>0, <2>1 DEF GetHp, GetLp, Took, QueuesOK
    <3> QED
      BY <2>0, <3>1, ReadKeepsCycle
  <2>2. ASSUME reads' = reads PROVE CycleInv'
    BY <2>2 DEF CycleInv
  <2>3. ASSUME NEW w \in Workers, LockReading(w) \/ PassReading(w) PROVE CycleInv'
    BY <2>2, <2>3 DEF LockReading, PassReading, history
  <2> QED
    BY <2>1, <2>2, <2>3, StepKinds DEF OtherStep
<1> QED
  BY <1>1, <1>2, BaseHolds, DealtInTurn, PTL DEF SafeSpec

(* Between two reads of a worker there are fewer than a turn.              *)
LEMMA LessThanATurn ==
  ASSUME CycleInv, QueuesOK, NEW w \in Workers, NEW i \in 1..Len(reads), reads[i].by = w,
         \A k \in 1..Len(reads) : reads[k].by = w => k <= i
  PROVE  Len(reads) < i + NumWorkers
<1>1. SUFFICES ASSUME ~(Len(reads) < i + NumWorkers) PROVE FALSE
  OBVIOUS
<1>2. NumWorkers \in Nat \ {0} /\ Len(reads) \in Nat
  BY WorkersAssumption DEF QueuesOK
<1>3. /\ i + NumWorkers \in 1..Len(reads) /\ ~(i + NumWorkers <= NumWorkers)
      /\ (i + NumWorkers) - NumWorkers = i /\ ~(i + NumWorkers <= i)
  BY <1>1, <1>2
<1>4. reads[i + NumWorkers].by = reads[i].by
  BY <1>3 DEF CycleInv
<1> QED
  BY <1>3, <1>4

LEMMA ReadKeepsHeld ==
  ASSUME reads \in Seq(ReadType), held \in [Workers -> DataType \cup {Free}], HeldInv,
         NEW w \in Workers, NEW item \in Items, NEW priority \in {0, 1},
         reads' = Append(reads, [by |-> w, item |-> item]),
         held' = [held EXCEPT ![w] = [item |-> item, priority |-> priority]],
         \A v \in Workers \ {w} : pc'[v] = pc[v]
  PROVE  HeldInv'
<1>1. /\ Len(reads') = Len(reads) + 1 /\ Len(reads) \in Nat
      /\ reads'[Len(reads) + 1] = [by |-> w, item |-> item]
      /\ \A i \in 1..Len(reads) : reads'[i] = reads[i]
  OBVIOUS
<1>2. held'[w].item = item /\ \A v \in Workers \ {w} : held'[v] = held[v]
  OBVIOUS
<1>3. \E n \in 1..Len(reads') : HeldAt(w, n)'
  <2>1. PICK n \in 1..Len(reads') : n = Len(reads) + 1 /\ n = Len(reads')
    BY <1>1
  <2>2. reads'[n].item = held'[w].item /\ reads'[n].by = w
    BY <1>1, <1>2, <2>1
  <2>3. \A k \in 1..Len(reads') : k <= n
    BY <2>1
  <2> QED
    BY <2>2, <2>3 DEF HeldAt
<1>4. ASSUME NEW v \in Workers \ {w}, pc'[v] \in Holding
      PROVE  \E i \in 1..Len(reads') : HeldAt(v, i)'
  <2>1. PICK i \in 1..Len(reads) : HeldAt(v, i)
    BY <1>4 DEF HeldInv
  <2>2. \A k \in 1..Len(reads') : k \in 1..Len(reads) \/ reads'[k].by = w
    <3>1. reads'[Len(reads) + 1].by = w
      BY <1>1
    <3>2. \A k \in 1..Len(reads') : k \in 1..Len(reads) \/ k = Len(reads) + 1
      BY <1>1
    <3> QED
      BY <3>1, <3>2
  <2>3. i \in 1..Len(reads') /\ reads'[i].item = held'[v].item /\ reads'[i].by = v
    BY <1>1, <1>2, <2>1 DEF HeldAt
  <2>4. \A k \in 1..Len(reads') : reads'[k].by = v => k <= i
    BY <1>1, <2>1, <2>2 DEF HeldAt
  <2> QED
    BY <2>3, <2>4 DEF HeldAt
<1> QED
  BY <1>3, <1>4 DEF HeldInv

(* The data in the hands of a worker is what it read last.                 *)
LEMMA HeldWasRead == SafeSpec => []HeldInv
<1>1. Init => HeldInv
  BY DEF Init, HeldInv, Holding
<1>2. Base /\ HeldInv /\ [Next]_vars => HeldInv'
  <2> SUFFICES ASSUME Base, HeldInv, [Next]_vars PROVE HeldInv'
    OBVIOUS
  <2>0. reads \in Seq(ReadType) /\ QueuesOK /\ ThreadsOK
    BY DEF Base, TypeInv, TypeOK, QueuesOK, ReadType
  <2>1. ASSUME reads' = reads,
               \A v \in Workers : pc'[v] \in Holding => pc[v] \in Holding /\ held'[v] = held[v]
        PROVE  HeldInv'
    BY <2>1 DEF HeldInv, HeldAt
  <2>2. ASSUME NEW w \in Workers, NEW p \in Places, Goto(w, p), held' = held, reads' = reads,
               p \in Holding => pc[w] \in Holding
        PROVE  HeldInv'
    <3>1. pc'[w] = p /\ \A v \in Workers \ {w} : pc'[v] = pc[v]
      BY <2>0, <2>2, GotoFacts
    <3> QED
      BY <2>1, <2>2, <3>1
  <2>3. ASSUME NEW w \in Workers, Release(w), reads' = reads PROVE HeldInv'
    <3>1. "poll" \in Places /\ "poll" \notin Holding /\ Goto(w, "poll")
      BY <2>3 DEF Places, Holding, Release
    <3>2. pc'[w] = "poll" /\ \A v \in Workers \ {w} : pc'[v] = pc[v]
      BY <2>0, <3>1, GotoFacts
    <3>3. \A v \in Workers \ {w} : held'[v] = held[v]
      BY <2>0, <2>3 DEF Release, ThreadsOK
    <3> QED
      BY <2>1, <2>3, <3>1, <3>2, <3>3
  <2>4. ASSUME NEW w \in Workers, GetHp(w) \/ GetLp(w) PROVE HeldInv'
    <3>1. PICK item \in Items, priority \in {0, 1} :
              /\ reads' = Append(reads, [by |-> w, item |-> item])
              /\ held' = [held EXCEPT ![w] = [item |-> item, priority |-> priority]]
      <4>1. CASE GetHp(w)
        <5>1. Head(hp) \in Items
          BY <2>0, <4>1 DEF GetHp, QueuesOK
        <5> QED
          BY <4>1, <5>1 DEF GetHp, Took
      <4>2. CASE GetLp(w)
        <5>1. Head(lp) \in Items
          BY <2>0, <4>2 DEF GetLp, QueuesOK
        <5> QED
          BY <4>2, <5>1 DEF GetLp, Took
      <4> QED
        BY <2>4, <4>1, <4>2
    <3>2. "turn" \in Places /\ Goto(w, "turn")
      BY <2>4 DEF GetHp, GetLp, Took, Places, Reading
    <3>3. \A v \in Workers \ {w} : pc'[v] = pc[v]
      BY <2>0, <3>2, GotoFacts
    <3> QED
      BY <2>0, <3>1, <3>3, ReadKeepsHeld DEF ThreadsOK
  <2>5. ASSUME NEW w \in Workers, Read(w), ~GetHp(w), ~GetLp(w) PROVE HeldInv'
    <3>1. held' = held /\ reads' = reads
      BY <2>5 DEF Read, Poll, CheckToken, CheckHp, CheckLp, LockReading, PassReading, history
    <3>2. UNCHANGED pc \/ \E p \in Places : Goto(w, p) /\ (p \in Holding => pc[w] \in Holding)
      BY <2>5 DEF Read, Poll, CheckToken, CheckHp, CheckLp, LockReading, PassReading,
         Places, Reading, Holding
    <3> QED
      BY <2>1, <2>2, <3>1, <3>2
  <2>6. ASSUME NEW w \in Workers, ProcessData(w) PROVE HeldInv'
    <3>1. reads' = reads
      BY <2>6 DEF ProcessData, Process, CheckResult, PushResult, LockResult, PassResult, history
    <3>2. \/ Release(w)
          \/ held' = held /\ UNCHANGED pc
          \/ held' = held /\ \E p \in Places : Goto(w, p) /\ (p \in Holding => pc[w] \in Holding)
      BY <2>6 DEF ProcessData, Process, CheckResult, PushResult, LockResult, PassResult,
         Places, Writing, Holding
    <3> QED
      BY <2>1, <2>2, <2>3, <3>1, <3>2
  <2>7. ASSUME Environment PROVE HeldInv'
    <3>1. UNCHANGED <<reads, pc, held>>
      BY <2>7 DEF Environment, PushLp, PushHp, BeginSetProcessdata, SetProcessdata, Clean,
         history
    <3> QED
      BY <2>1, <3>1
  <2>8. CASE UNCHANGED vars
    <3>1. UNCHANGED <<reads, pc, held>>
      BY <2>8 DEF vars, history
    <3> QED
      BY <2>1, <3>1
  <2> QED
    BY <2>4, <2>5, <2>6, <2>7, <2>8 DEF Next, Run
<1> QED
  BY <1>1, <1>2, BaseHolds, PTL DEF SafeSpec

LEMMA ReadKeepsOrder ==
  ASSUME NEW rd \in Seq(ReadType), NEW results \in Seq(Items), NEW w \in Workers,
         NEW item \in Items, \A i \in 1..Len(rd) : rd[i].item # item,
         Written(rd, results), Ordered(rd, results)
  PROVE  /\ Written(Append(rd, [by |-> w, item |-> item]), results)
         /\ Ordered(Append(rd, [by |-> w, item |-> item]), results)
<1> DEFINE a == Append(rd, [by |-> w, item |-> item])
<1>1. /\ Len(a) = Len(rd) + 1 /\ Len(rd) \in Nat /\ a[Len(rd) + 1].item = item
      /\ \A i \in 1..Len(rd) : i \in 1..Len(a) /\ a[i] = rd[i]
  OBVIOUS
<1> HIDE DEF a
<1>2. Written(a, results)
  BY <1>1 DEF Written
<1>3. \A k \in 1..Len(results) : results[k] # item
  BY DEF Written
<1>4. \A k \in 1..Len(results) : \A i \in 1..Len(a) :
          a[i].item = results[k] => i \in 1..Len(rd) /\ rd[i].item = results[k]
  BY <1>1, <1>3
<1>5. Ordered(a, results)
  <2> SUFFICES ASSUME NEW k \in 1..Len(results), NEW l \in 1..Len(results), k < l,
                      NEW i \in 1..Len(a), NEW j \in 1..Len(a),
                      a[i].item = results[k], a[j].item = results[l]
               PROVE  i < j + NumWorkers
    BY DEF Ordered
  <2>1. /\ i \in 1..Len(rd) /\ rd[i].item = results[k]
        /\ j \in 1..Len(rd) /\ rd[j].item = results[l]
    BY <1>4
  <2> QED
    BY <2>1 DEF Ordered
<1> QED
  BY <1>2, <1>5 DEF a

(* Writing what was read less than a turn ago.                             *)
LEMMA WriteKeepsOrder ==
  ASSUME NEW rd \in Seq(ReadType), NEW results \in Seq(Items), NEW item,
         NEW b \in 1..Len(rd), rd[b].item = item, Len(rd) < b + NumWorkers,
         \A j \in 1..Len(rd) : rd[j].item = item => j = b,
         Written(rd, results), Ordered(rd, results)
  PROVE  /\ Written(rd, Append(results, item))
         /\ Ordered(rd, Append(results, item))
<1> DEFINE a == Append(results, item)
<1>1. /\ Len(a) = Len(results) + 1 /\ Len(results) \in Nat /\ Len(rd) \in Nat
      /\ a[Len(results) + 1] = item
      /\ \A k \in 1..Len(results) : a[k] = results[k]
  OBVIOUS
<1> HIDE DEF a
<1>2. \A k \in 1..Len(a) : \/ k \in 1..Len(results) /\ a[k] = results[k]
                           \/ k = Len(results) + 1 /\ a[k] = item
  BY <1>1
<1>3. Written(rd, a)
  BY <1>2 DEF Written
<1>4. Ordered(rd, a)
  <2> SUFFICES ASSUME NEW k \in 1..Len(a), NEW l \in 1..Len(a), k < l,
                      NEW i \in 1..Len(rd), NEW j \in 1..Len(rd),
                      rd[i].item = a[k], rd[j].item = a[l]
               PROVE  i < j + NumWorkers
    BY DEF Ordered
  <2>1. k \in 1..Len(results)
    BY <1>1
  <2>2. CASE l \in 1..Len(results)
    BY <1>1, <2>1, <2>2 DEF Ordered
  <2>3. CASE l = Len(results) + 1
    <3>1. j = b
      BY <1>1, <2>3
    <3> QED
      BY <1>1, <3>1, WorkersAssumption
  <2> QED
    BY <1>2, <2>2, <2>3
<1> QED
  BY <1>3, <1>4 DEF a

LEMMA DropKeepsOrder ==
  ASSUME NEW rd, NEW results \in Seq(Items), results # <<>>,
         Written(rd, results), Ordered(rd, results)
  PROVE  Written(rd, Tail(results)) /\ Ordered(rd, Tail(results))
<1> DEFINE t == Tail(results)
<1>1. \A k \in 1..Len(t) : k \in Int /\ k + 1 \in 1..Len(results) /\ t[k] = results[k + 1]
  OBVIOUS
<1> HIDE DEF t
<1>2. Written(rd, t)
  BY <1>1 DEF Written
<1>3. Ordered(rd, t)
  <2> SUFFICES ASSUME NEW k \in 1..Len(t), NEW l \in 1..Len(t), k < l,
                      NEW i \in 1..Len(rd), NEW j \in 1..Len(rd),
                      rd[i].item = t[k], rd[j].item = t[l]
               PROVE  i < j + NumWorkers
    BY DEF Ordered
  <2>1. k + 1 < l + 1
    BY <1>1
  <2> QED
    BY <1>1, <2>1 DEF Ordered
<1> QED
  BY <1>2, <1>3 DEF t

LEMMA OrderBoundsDisorder ==
  ASSUME NEW results, Written(reads, results), Ordered(reads, results),
         NEW k \in 1..Len(results), NEW l \in 1..Len(results), k < l
  PROVE  ReadAt(results[k]) < ReadAt(results[l]) + NumWorkers
<1>1. ASSUME NEW n \in 1..Len(results)
      PROVE  ReadAt(results[n]) \in 1..Len(reads) /\ reads[ReadAt(results[n])].item = results[n]
  BY DEF ReadAt, Written
<1> QED
  BY <1>1 DEF Ordered

(* Only what was read is written; when it is written, fewer than a turn of *)
(* reads have come after it.                                               *)
LEMMA WritesAreOrdered == SafeSpec => []OrderInv
<1> DEFINE Hypotheses == Base /\ OnlyOnceInv /\ HeldInv /\ CycleInv
<1>1. Init => OrderInv
  BY DEF Init, OrderInv, Written, Ordered
<1>2. Hypotheses /\ OrderInv /\ [Next]_vars => OrderInv'
  <2> SUFFICES ASSUME Hypotheses, OrderInv, [Next]_vars PROVE OrderInv'
    OBVIOUS
  <2>0. /\ reads \in Seq(ReadType) /\ lp \in Seq(Items) /\ hp \in Seq(Items)
        /\ rhp \in Seq(Items) /\ QueuesOK /\ ThreadsOK
    BY DEF Base, TypeInv, TypeOK, QueuesOK, ReadType
  <2>1. ASSUME UNCHANGED <<reads, rhp>> PROVE OrderInv'
    BY <2>1 DEF OrderInv
  <2>2. ASSUME NEW w \in Workers, GetHp(w) \/ GetLp(w) PROVE OrderInv'
    <3>1. PICK item \in Items : /\ reads' = Append(reads, [by |-> w, item |-> item])
                                /\ \A i \in 1..Len(reads) : reads[i].item # item
                                /\ rhp' = rhp
      <4>1. CASE GetHp(w)
        <5>1. Head(hp) = hp[1] /\ 1 \in 1..Len(hp) /\ Head(hp) \in Items
          BY <2>0, <4>1 DEF GetHp
        <5> QED
          BY <4>1, <5>1 DEF GetHp, Took, OnlyOnceInv, OnlyOnce
      <4>2. CASE GetLp(w)
        <5>1. Head(lp) = lp[1] /\ 1 \in 1..Len(lp) /\ Head(lp) \in Items
          BY <2>0, <4>2 DEF GetLp
        <5> QED
          BY <4>2, <5>1 DEF GetLp, Took, OnlyOnceInv, OnlyOnce
      <4> QED
        BY <2>2, <4>1, <4>2
    <3> QED
      BY <2>0, <3>1, ReadKeepsOrder DEF OrderInv
  <2>3. ASSUME NEW w \in Workers, PushResult(w) PROVE OrderInv'
    <3>1. /\ reads' = reads /\ rhp' = Append(rhp, held[w].item) /\ pc[w] \in Holding
      BY <2>3 DEF PushResult, history, Holding
    <3>2. PICK b \in 1..Len(reads) : HeldAt(w, b)
      BY <3>1 DEF HeldInv
    <3>3. reads[b].item = held[w].item /\ Len(reads) < b + NumWorkers
      BY <2>0, <3>2, LessThanATurn DEF HeldAt
    <3>4. \A j \in 1..Len(reads) : reads[j].item = held[w].item => j = b
      BY <3>3 DEF OnlyOnceInv, OnlyOnce
    <3> QED
      BY <2>0, <3>1, <3>3, <3>4, WriteKeepsOrder DEF OrderInv
  <2>4. ASSUME NEW w \in Workers, Run(w), ~GetHp(w), ~GetLp(w), ~PushResult(w)
        PROVE  OrderInv'
    <3>1. UNCHANGED <<reads, rhp>>
      BY <2>4 DEF Run, Read, ProcessData, Poll, CheckToken, CheckHp, CheckLp, LockReading,
         PassReading, Process, CheckResult, LockResult, PassResult, queues, history
    <3> QED
      BY <2>1, <3>1
  <2>5. ASSUME Environment, ~Clean PROVE OrderInv'
    <3>1. UNCHANGED <<reads, rhp>>
      BY <2>5 DEF Environment, PushLp, PushHp, BeginSetProcessdata, SetProcessdata, queues, history
    <3> QED
      BY <2>1, <3>1
  <2>6. CASE UNCHANGED vars
    <3>1. UNCHANGED <<reads, rhp>>
      BY <2>6 DEF vars, queues, history
    <3> QED
      BY <2>1, <3>1
  <2>7. ASSUME Clean PROVE OrderInv'
    <3>1. reads' = reads /\ (rhp' = rhp \/ (rhp # <<>> /\ rhp' = Tail(rhp)))
      BY <2>7 DEF Clean
    <3> QED
      BY <2>0, <2>1, <3>1, DropKeepsOrder DEF OrderInv
  <2> QED
    BY <2>2, <2>3, <2>4, <2>5, <2>6, <2>7 DEF Next
<1> QED
  BY <1>1, <1>2, BaseHolds, ItemsAreUnique, HeldWasRead, Cycle, PTL DEF SafeSpec

(* Results may be written out of order, but by less than a turn.           *)
THEOREM DisorderIsBounded == SafeSpec => []DisorderBelowOneTurn
<1>1. OrderInv => DisorderBelowOneTurn
  BY OrderBoundsDisorder DEF OrderInv, DisorderBelowOneTurn
<1> QED
  BY <1>1, WritesAreOrdered, PTL
=============================================================================
