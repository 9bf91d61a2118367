-------------------------- MODULE ThreadPoolProofs --------------------------
(***************************************************************************)
(* Proofs about ThreadPool for every number of workers and callers.        *)
(***************************************************************************)
EXTENDS ThreadPool, SequenceTheorems, FiniteSetTheorems, TLAPS

\* Taking the head of the queue moves one task over, nothing else.
LEMMA HeadMoves ==
    ASSUME NEW S, NEW s \in Seq(S), NEW q \in Seq(S), q # <<>>
    PROVE  s \o q = Append(s, Head(q)) \o Tail(q)
<1> DEFINE left == s \o q
           right == Append(s, Head(q)) \o Tail(q)
<1>1. Head(q) \in S /\ Tail(q) \in Seq(S) /\ Len(q) \in Nat /\ Len(q) >= 1
      /\ Len(Tail(q)) = Len(q) - 1 /\ Head(q) = q[1]
      /\ \A i \in 1..Len(Tail(q)) : Tail(q)[i] = q[i + 1]
  BY HeadTailProperties, EmptySeq, LenProperties
<1>2. /\ Append(s, Head(q)) \in Seq(S) /\ Len(Append(s, Head(q))) = Len(s) + 1
      /\ Append(s, Head(q))[Len(s) + 1] = Head(q)
      /\ \A i \in 1..Len(s) : Append(s, Head(q))[i] = s[i]
  BY <1>1, AppendProperties
<1>3. left \in Seq(S) /\ Len(left) = Len(s) + Len(q)
      /\ \A i \in 1..Len(s) + Len(q) : left[i] = IF i <= Len(s) THEN s[i] ELSE q[i - Len(s)]
  BY ConcatProperties
<1>4. right \in Seq(S) /\ Len(right) = Len(s) + Len(q)
      /\ \A i \in 1..Len(s) + Len(q) : right[i] =
            IF i <= Len(s) + 1 THEN Append(s, Head(q))[i] ELSE Tail(q)[i - (Len(s) + 1)]
  <2>1. Len(s) \in Nat
    BY LenProperties
  <2> QED
    BY <1>1, <1>2, <2>1, ConcatProperties
<1>5. \A i \in 1..Len(left) : left[i] = right[i]
  <2> SUFFICES ASSUME NEW i \in 1..Len(s) + Len(q) PROVE left[i] = right[i]
    BY <1>3
  <2>0. Len(s) \in Nat
    BY LenProperties
  <2>1. CASE i <= Len(s)
    <3>1. i \in 1..Len(s) /\ left[i] = s[i] /\ right[i] = Append(s, Head(q))[i]
      BY <2>0, <2>1, <1>1, <1>3, <1>4
    <3> QED
      BY <3>1, <1>2
  <2>2. CASE i = Len(s) + 1
    <3>1. left[i] = q[i - Len(s)] /\ i - Len(s) = 1 /\ right[i] = Append(s, Head(q))[i]
      BY <2>0, <2>2, <1>1, <1>3, <1>4
    <3> QED
      BY <3>1, <1>1, <1>2, <2>2
  <2>3. CASE i > Len(s) + 1
    <3>1. left[i] = q[i - Len(s)] /\ right[i] = Tail(q)[i - (Len(s) + 1)]
      BY <2>0, <2>3, <1>1, <1>3, <1>4
    <3>2. i - (Len(s) + 1) \in 1..Len(Tail(q)) /\ i - (Len(s) + 1) + 1 = i - Len(s)
      BY <2>0, <2>3, <1>1
    <3> QED
      BY <3>1, <3>2, <1>1
  <2> QED
    BY <2>0, <2>1, <2>2, <2>3, <1>1
<1> HIDE DEF left, right
<1>6. left = right
  BY <1>3, <1>4, <1>5, SeqEqual
<1> QED
  BY <1>6 DEF left, right

\* Appending to the queue appends to the whole.
LEMMA AppendMoves ==
    ASSUME NEW S, NEW s \in Seq(S), NEW q \in Seq(S), NEW t \in S
    PROVE  s \o Append(q, t) = Append(s \o q, t)
<1>1. <<t>> \in Seq(S) /\ s \o q \in Seq(S)
  BY ConcatProperties
<1>2. Append(q, t) = q \o <<t>> /\ Append(s \o q, t) = (s \o q) \o <<t>>
  BY <1>1, AppendIsConcat
<1> QED
  BY <1>1, <1>2, ConcatAssociative

-----------------------------------------------------------------------------
LEMMA PoolInit == Init => PoolInv
<1> SUFFICES ASSUME Init PROVE PoolInv
  OBVIOUS
<1> USE DEF Init
<1>1. TypeOK
  BY EmptySeq DEF TypeOK, WPC, TPC, OPC
<1>2. MutexInv
  BY PoolAssumption DEF MutexInv
<1>3. ControlInv /\ JobInv
  BY DEF ControlInv, JobInv, Inside
<1>4. Fifo
  <2>1. <<>> \o <<>> = <<>>
    BY EmptySeq, ConcatEmptySeq
  <2> QED
    BY <2>1, EmptySeq DEF Fifo
<1>5. NoLostWakeup
  BY DEF NoLostWakeup, Asleep
<1> QED
  BY <1>1, <1>2, <1>3, <1>4, <1>5 DEF PoolInv

\* The tests a step makes on the queue, in terms of the queue.
LEMMA Tests ==
    /\ MayProceed <=> stopped \/ queue # <<>>
    /\ MustExit <=> stopped /\ queue = <<>>
BY DEF MayProceed, MustExit

LEMMA TypeStep == TypeOK /\ JobInv /\ [Next]_vars => TypeOK'
<1> SUFFICES ASSUME TypeOK, JobInv, [Next]_vars PROVE TypeOK'
  OBVIOUS
<1> USE DEF TypeOK, WPC, TPC, OPC
<1>1. ASSUME NEW w \in Worker, WorkerLock(w) \/ Sleepy(w) \/ WorkerExit(w) \/ Park(w)
                               \/ SpuriousWakeup(w) \/ Spawn(w)
      PROVE TypeOK'
  BY <1>1 DEF WorkerLock, Sleepy, WorkerExit, Park, SpuriousWakeup, Spawn
<1>2. ASSUME NEW w \in Worker, Take(w) PROVE TypeOK'
  <2>1. queue # <<>>
    BY <1>2, Tests DEF Take
  <2>2. Head(queue) \in Task /\ Tail(queue) \in Seq(Task)
    BY <2>1, HeadTailProperties
  <2>3. Append(begun, Head(queue)) \in Seq(Task)
    BY <2>2, AppendProperties
  <2> QED
    BY <1>2, <2>2, <2>3 DEF Take, Rest
<1>3. ASSUME NEW w \in Worker, Run(w) PROVE TypeOK'
  BY <1>3 DEF Run, JobInv
<1>4. ASSUME NEW t \in Task, TaskLock(t) \/ NotifyOne(t) PROVE TypeOK'
  BY <1>4 DEF TaskLock, NotifyOne, Asleep
<1>5. ASSUME NEW t \in Task, Push(t) PROVE TypeOK'
  <2>1. Append(queue, t) \in Seq(Task) /\ Append(order, t) \in Seq(Task)
    BY AppendProperties
  <2> QED
    BY <1>5, <2>1 DEF Push
<1>6. CASE OwnerStep
  BY <1>6 DEF OwnerStep, OwnerLock, Stop, NotifyAll, Join
<1>7. CASE UNCHANGED vars
  BY <1>7 DEF vars
<1> QED
  BY <1>1, <1>2, <1>3, <1>4, <1>5, <1>6, <1>7 DEF Next, WorkerStep, TaskStep, Terminated

\* The mutex keeps a second thread out of every critical section.
LEMMA MutexStep == TypeOK /\ MutexInv /\ [Next]_vars => MutexInv'
<1> SUFFICES ASSUME TypeOK, MutexInv, [Next]_vars PROVE MutexInv'
  OBVIOUS
<1> USE PoolAssumption DEF TypeOK, MutexInv, WPC, TPC, OPC
<1>1. ASSUME NEW w \in Worker, WorkerStep(w) \/ SpuriousWakeup(w) \/ Spawn(w) PROVE MutexInv'
  <2>1. CASE WorkerLock(w)
    BY <2>1 DEF WorkerLock
  <2>2. CASE Sleepy(w)
    BY <2>2 DEF Sleepy
  <2>3. CASE WorkerExit(w)
    BY <2>3 DEF WorkerExit
  <2>4. CASE Take(w)
    BY <2>4 DEF Take
  <2>5. CASE Park(w)
    BY <2>5 DEF Park
  <2>6. CASE Run(w) \/ SpuriousWakeup(w) \/ Spawn(w)
    BY <2>6 DEF Run, SpuriousWakeup, Spawn
  <2> QED
    BY <1>1, <2>1, <2>2, <2>3, <2>4, <2>5, <2>6 DEF WorkerStep
<1>2. ASSUME NEW t \in Task, TaskStep(t) PROVE MutexInv'
  <2>1. CASE TaskLock(t)
    BY <2>1 DEF TaskLock
  <2>2. CASE Push(t)
    BY <2>2 DEF Push
  <2>3. CASE NotifyOne(t)
    BY <2>3 DEF NotifyOne, Asleep
  <2> QED
    BY <1>2, <2>1, <2>2, <2>3 DEF TaskStep
<1>3. CASE OwnerStep
  BY <1>3 DEF OwnerStep, OwnerLock, MayStop, Stop, NotifyAll, Woken, Asleep, Join
<1>4. CASE UNCHANGED vars
  BY <1>4 DEF vars
<1> QED
  BY <1>1, <1>2, <1>3, <1>4 DEF Next, Terminated

\* Nobody sleeps, leaves or stops the pool on an outdated test of the queue.
LEMMA ControlStep == TypeOK /\ MutexInv /\ ControlInv /\ [Next]_vars => ControlInv'
<1> SUFFICES ASSUME TypeOK, MutexInv, ControlInv, [Next]_vars PROVE ControlInv'
  OBVIOUS
<1> USE PoolAssumption DEF TypeOK, ControlInv, Inside, WPC, TPC, OPC
<1>1. ASSUME NEW w \in Worker, WorkerStep(w) PROVE ControlInv'
  <2>1. CASE WorkerLock(w)
    BY <2>1 DEF WorkerLock
  <2>2. CASE Sleepy(w) \/ WorkerExit(w)
    BY <2>2, Tests DEF Sleepy, WorkerExit
  <2>3. CASE Take(w)
    <3>1. queue # <<>> /\ \A v \in Worker : wpc[v] \notin {"parking", "exited"}
      BY <2>3, Tests DEF Take, MutexInv
    <3> QED
      BY <2>3, <3>1 DEF Take
  <2>4. CASE Park(w) \/ Run(w)
    BY <2>4 DEF Park, Run
  <2> QED
    BY <1>1, <2>1, <2>2, <2>3, <2>4 DEF WorkerStep
<1>2. ASSUME NEW w \in Worker, SpuriousWakeup(w) \/ Spawn(w) PROVE ControlInv'
  BY <1>2 DEF SpuriousWakeup, Spawn
<1>3. ASSUME NEW t \in Task, TaskStep(t) PROVE ControlInv'
  <2>1. CASE TaskLock(t) \/ NotifyOne(t)
    BY <2>1 DEF TaskLock, NotifyOne, Asleep
  <2>2. CASE Push(t)
    <3>1. \A w \in Worker : wpc[w] # "parking"
      BY <2>2 DEF Push, MutexInv
    <3>2. wpc' = wpc /\ opc' = opc /\ stopped' = stopped /\ (stopped => queue' = queue)
          /\ opc # "destroyed"
      BY <2>2 DEF Push, Refuses
    <3> QED
      BY <3>1, <3>2
  <2> QED
    BY <1>3, <2>1, <2>2 DEF TaskStep
<1>4. CASE OwnerStep
  <2>1. CASE Stop
    <3>1. \A w \in Worker : wpc[w] # "parking"
      BY <2>1 DEF Stop, MutexInv
    <3> QED
      BY <2>1, <3>1 DEF Stop
  <2>2. CASE OwnerLock \/ NotifyAll \/ Join
    BY <2>2 DEF OwnerLock, NotifyAll, Woken, Asleep, Join
  <2> QED
    BY <1>4, <2>1, <2>2 DEF OwnerStep
<1>5. CASE UNCHANGED vars
  BY <1>5 DEF vars
<1> QED
  BY <1>1, <1>2, <1>3, <1>4, <1>5 DEF Next, Terminated

\* A worker goes to sleep only when there is nothing to do, and whoever makes
\* something to do is about to notify.
LEMMA WakeupStep == TypeOK /\ ControlInv /\ NoLostWakeup /\ [Next]_vars => NoLostWakeup'
<1> SUFFICES ASSUME TypeOK, ControlInv, NoLostWakeup, [Next]_vars PROVE NoLostWakeup'
  OBVIOUS
<1> USE PoolAssumption DEF TypeOK, NoLostWakeup, Asleep, WPC, TPC, OPC
<1>1. ASSUME NEW w \in Worker, WorkerStep(w) PROVE NoLostWakeup'
  <2>1. CASE Park(w)
    <3>1. ~stopped /\ queue = <<>>
      BY <2>1 DEF Park, ControlInv
    <3> QED
      BY <2>1, <3>1 DEF Park
  <2>2. CASE WorkerLock(w) \/ Sleepy(w) \/ WorkerExit(w) \/ Take(w) \/ Run(w)
    <3>1. wpc'[w] # "asleep" /\ (\A v \in Worker : wpc'[v] = "asleep" => wpc[v] = "asleep")
          /\ stopped' = stopped /\ opc' = opc
      BY <2>2 DEF WorkerLock, Sleepy, WorkerExit, Take, Run
    <3> QED
      BY <3>1
  <2> QED
    BY <1>1, <2>1, <2>2 DEF WorkerStep
<1>2. ASSUME NEW w \in Worker, SpuriousWakeup(w) \/ Spawn(w) PROVE NoLostWakeup'
  <2>1. wpc'[w] # "asleep" /\ (\A v \in Worker : wpc'[v] = "asleep" => wpc[v] = "asleep")
        /\ stopped' = stopped /\ (opc' # opc => opc = "spawning")
    BY <1>2 DEF SpuriousWakeup, Spawn
  <2> QED
    BY <2>1
<1>3. ASSUME NEW t \in Task, TaskStep(t) PROVE NoLostWakeup'
  <2>1. CASE TaskLock(t)
    BY <2>1 DEF TaskLock
  <2>2. CASE Push(t)
    <3>1. wpc' = wpc /\ opc' = opc /\ stopped' = stopped
          /\ (queue' = queue \/ tpc'[t] = "notify")
          /\ \A u \in Task : tpc[u] = "notify" => tpc'[u] = "notify"
      BY <2>2 DEF Push
    <3> QED
      BY <3>1
  <2>3. CASE NotifyOne(t)
    <3>1. \E w \in Worker : wpc'[w] # "asleep"
      BY <2>3 DEF NotifyOne, Notifies
    <3>2. (\A v \in Worker : wpc'[v] = "asleep" => wpc[v] = "asleep")
          /\ stopped' = stopped /\ opc' = opc
      BY <2>3 DEF NotifyOne
    <3> QED
      BY <3>1, <3>2
  <2> QED
    BY <1>3, <2>1, <2>2, <2>3 DEF TaskStep
<1>4. CASE OwnerStep
  BY <1>4 DEF OwnerStep, OwnerLock, Stop, NotifyAll, Woken, Join, ControlInv
<1>5. CASE UNCHANGED vars
  BY <1>5 DEF vars
<1> QED
  BY <1>1, <1>2, <1>3, <1>4, <1>5 DEF Next, Terminated

\* The facts about the head of the queue that a taker uses.
LEMMA TakeFacts ==
    ASSUME TypeOK, NEW w \in Worker, Take(w)
    PROVE  /\ queue # <<>> /\ Head(queue) \in Task
           /\ begun' \in Seq(Task) /\ Len(begun') = Len(begun) + 1 /\ Len(begun) \in Nat
           /\ begun'[Len(begun) + 1] = Head(queue)
           /\ \A i \in 1..Len(begun) : begun'[i] = begun[i]
<1>1. queue # <<>>
  BY Tests DEF Take
<1>2. Head(queue) \in Task
  BY <1>1, HeadTailProperties DEF TypeOK
<1>3. begun' = Append(begun, Head(queue))
  BY DEF Take
<1> QED
  BY <1>1, <1>2, <1>3, AppendProperties, LenProperties DEF TypeOK

\* Each task taken is in the hands of one worker or finished.
LEMMA JobStep == TypeOK /\ MutexInv /\ JobInv /\ [Next]_vars => JobInv'
<1> SUFFICES ASSUME TypeOK, MutexInv, JobInv, [Next]_vars PROVE JobInv'
  OBVIOUS
<1> USE PoolAssumption DEF JobInv
<1>1. ASSUME NEW w \in Worker,
             WorkerLock(w) \/ Sleepy(w) \/ WorkerExit(w) \/ Park(w) \/ SpuriousWakeup(w) \/ Spawn(w)
      PROVE JobInv'
  <2>1. UNCHANGED <<job, begun, ready, order, tpc>>
    BY <1>1 DEF WorkerLock, Sleepy, WorkerExit, Park, SpuriousWakeup, Spawn
  <2>2. \A v \in Worker : wpc'[v] = "run" <=> wpc[v] = "run"
    BY <1>1 DEF WorkerLock, Sleepy, WorkerExit, Park, SpuriousWakeup, Spawn, TypeOK
  <2> QED
    BY <2>1, <2>2
<1>2. ASSUME NEW w \in Worker, Take(w) PROVE JobInv'
  <2>1. /\ job' = [job EXCEPT ![w] = Head(queue)] /\ wpc' = [wpc EXCEPT ![w] = "run"]
        /\ UNCHANGED <<ready, order, tpc>> /\ wpc[w] = "test" /\ job[w] = None
    BY <1>2 DEF Take
  <2>2. Head(queue) # None
    BY <1>2, TakeFacts
  <2>3. \A v \in Worker : (wpc'[v] = "run") <=> (job'[v] # None)
    BY <2>1, <2>2 DEF TypeOK
  <2>4. \A i \in 1..Len(begun') : begun'[i] \in ready' \/ \E v \in Worker : job'[v] = begun'[i]
    <3> SUFFICES ASSUME NEW i \in 1..Len(begun')
                 PROVE  begun'[i] \in ready' \/ \E v \in Worker : job'[v] = begun'[i]
      OBVIOUS
    <3>1. CASE i = Len(begun) + 1
      <4>1. begun'[i] = Head(queue) /\ job'[w] = Head(queue)
        BY <3>1, <1>2, <2>1, TakeFacts DEF TypeOK
      <4> QED
        BY <4>1
    <3>2. CASE i # Len(begun) + 1
      <4>1. i \in 1..Len(begun) /\ begun'[i] = begun[i]
        BY <3>2, <1>2, TakeFacts
      <4>2. CASE begun[i] \in ready
        BY <4>1, <4>2, <2>1
      <4>3. ASSUME NEW v \in Worker, job[v] = begun[i] PROVE \E u \in Worker : job'[u] = begun'[i]
        <5>1. begun[i] \in Task
          BY <4>1, ElementOfSeq DEF TypeOK
        <5>2. v # w
          BY <4>3, <5>1, <2>1
        <5> QED
          BY <4>1, <4>3, <5>2, <2>1 DEF TypeOK
      <4> QED
        BY <4>1, <4>2, <4>3
    <3> QED
      BY <3>1, <3>2
  <2>5. \A v \in Worker : wpc'[v] = "run" => \E i \in 1..Len(begun') : begun'[i] = job'[v]
    <3> SUFFICES ASSUME NEW v \in Worker, wpc'[v] = "run"
                 PROVE  \E i \in 1..Len(begun') : begun'[i] = job'[v]
      OBVIOUS
    <3>1. CASE v = w
      <4>1. begun'[Len(begun) + 1] = job'[v] /\ Len(begun) + 1 \in 1..Len(begun')
        BY <3>1, <1>2, <2>1, TakeFacts DEF TypeOK
      <4> QED
        BY <4>1
    <3>2. CASE v # w
      <4>1. wpc[v] = "run" /\ job'[v] = job[v]
        BY <3>2, <2>1 DEF TypeOK
      <4> QED
        BY <4>1, <1>2, TakeFacts
    <3> QED
      BY <3>1, <3>2
  <2>6. \A t \in ready' : \E i \in 1..Len(begun') : begun'[i] = t
    BY <1>2, <2>1, TakeFacts
  <2> QED
    BY <2>1, <2>3, <2>4, <2>5, <2>6
<1>3. ASSUME NEW w \in Worker, Run(w) PROVE JobInv'
  <2>1. /\ wpc[w] = "run" /\ wpc' = [wpc EXCEPT ![w] = "lock"] /\ job' = [job EXCEPT ![w] = None]
        /\ ready' = ready \cup {job[w]} /\ UNCHANGED <<begun, order, tpc>>
    BY <1>3 DEF Run
  <2>2. \A v \in Worker : v # w => job'[v] = job[v] /\ wpc'[v] = wpc[v]
    BY <2>1 DEF TypeOK
  <2>3. job'[w] = None /\ wpc'[w] = "lock"
    BY <2>1 DEF TypeOK
  <2>4. \A i \in 1..Len(begun') : begun'[i] \in ready' \/ \E v \in Worker : job'[v] = begun'[i]
    <3> SUFFICES ASSUME NEW i \in 1..Len(begun), begun[i] \notin ready'
                 PROVE  \E v \in Worker : job'[v] = begun[i]
      BY <2>1
    <3>1. PICK v \in Worker : job[v] = begun[i]
      BY <2>1
    <3>2. v # w
      BY <3>1, <2>1
    <3> QED
      BY <3>1, <3>2, <2>2
  <2> QED
    BY <2>1, <2>2, <2>3, <2>4
<1>4. ASSUME NEW t \in Task, TaskLock(t) \/ NotifyOne(t) PROVE JobInv'
  <2>1. UNCHANGED <<job, begun, ready, order>> /\ (\A v \in Worker : wpc'[v] = "run" <=> wpc[v] = "run")
    BY <1>4 DEF TaskLock, NotifyOne, Asleep, TypeOK
  <2>2. \A u \in Task : tpc[u] \in {"notify", "submitted"} => tpc'[u] \in {"notify", "submitted"}
    BY <1>4 DEF TaskLock, NotifyOne, TypeOK
  <2>3. \A i \in 1..Len(order) : order[i] \in Task
    BY ElementOfSeq DEF TypeOK
  <2> QED
    BY <2>1, <2>2, <2>3
<1>5. ASSUME NEW t \in Task, Push(t) PROVE JobInv'
  <2>1. UNCHANGED <<wpc, job, begun, ready>>
    BY <1>5 DEF Push
  <2>2. \A u \in Task : tpc[u] \in {"notify", "submitted"} => tpc'[u] \in {"notify", "submitted"}
    BY <1>5 DEF Push, TypeOK
  <2>3. \A i \in 1..Len(order) : order[i] \in Task
    BY ElementOfSeq DEF TypeOK
  <2>4. \A i \in 1..Len(order') : tpc'[order'[i]] \in {"notify", "submitted"}
    <3>1. CASE order' = order
      BY <3>1, <2>2, <2>3
    <3>2. CASE order' = Append(order, t) /\ tpc' = [tpc EXCEPT ![t] = "notify"]
      <4>1. tpc'[t] = "notify"
        BY <3>2 DEF TypeOK
      <4>2. Len(order') = Len(order) + 1 /\ Len(order) \in Nat /\ order'[Len(order) + 1] = t
            /\ \A i \in 1..Len(order) : order'[i] = order[i]
        BY <3>2, AppendProperties, LenProperties DEF TypeOK
      <4>3. ASSUME NEW i \in 1..Len(order') PROVE tpc'[order'[i]] \in {"notify", "submitted"}
        <5>1. CASE i = Len(order) + 1
          BY <5>1, <4>1, <4>2
        <5>2. CASE i # Len(order) + 1
          <6>1. i \in 1..Len(order)
            BY <5>2, <4>2
          <6> QED
            BY <6>1, <4>2, <2>2, <2>3
        <5> QED
          BY <5>1, <5>2
      <4> QED
        BY <4>3
    <3> QED
      BY <1>5, <3>1, <3>2 DEF Push
  <2> QED
    BY <2>1, <2>4
<1>6. CASE OwnerStep
  <2>1. UNCHANGED <<job, begun, ready, order, tpc>> /\ (\A v \in Worker : wpc'[v] = "run" <=> wpc[v] = "run")
    BY <1>6 DEF OwnerStep, OwnerLock, Stop, NotifyAll, Woken, Asleep, Join, TypeOK
  <2> QED
    BY <2>1
<1>7. CASE UNCHANGED vars
  BY <1>7 DEF vars
<1> QED
  BY <1>1, <1>2, <1>3, <1>4, <1>5, <1>6, <1>7 DEF Next, WorkerStep, TaskStep, Terminated

\* The tasks accepted are the tasks taken, in order, and then the queue.
LEMMA FifoStep == TypeOK /\ JobInv /\ Fifo /\ [Next]_vars => Fifo'
<1> SUFFICES ASSUME TypeOK, JobInv, Fifo, [Next]_vars PROVE Fifo'
  OBVIOUS
<1>1. ASSUME UNCHANGED <<order, begun, queue>> PROVE Fifo'
  BY <1>1 DEF Fifo
<1>2. ASSUME NEW w \in Worker, Take(w) PROVE Fifo'
  <2>1. queue # <<>> /\ begun' = Append(begun, Head(queue)) /\ queue' = Tail(queue) /\ order' = order
    BY <1>2, TakeFacts DEF Take, Rest
  <2>2. begun \o queue = begun' \o queue'
    BY <2>1, HeadMoves DEF TypeOK
  <2> QED
    BY <2>1, <2>2 DEF Fifo
<1>3. ASSUME NEW t \in Task, Push(t) PROVE Fifo'
  <2>1. CASE UNCHANGED <<order, queue>>
    BY <1>1, <1>3, <2>1 DEF Push
  <2>2. CASE queue' = Append(queue, t) /\ order' = Append(order, t)
    <3>1. order' = begun' \o queue'
      <4>1. order = begun \o queue /\ begun' = begun
        BY <1>3 DEF Push, Fifo
      <4>2. begun \o Append(queue, t) = Append(begun \o queue, t)
        BY AppendMoves DEF TypeOK
      <4> QED
        BY <4>1, <4>2, <2>2
    <3>2. Len(order') = Len(order) + 1 /\ Len(order) \in Nat /\ order'[Len(order) + 1] = t
          /\ \A i \in 1..Len(order) : order'[i] = order[i]
      BY <2>2, AppendProperties, LenProperties DEF TypeOK
    <3>3. \A i \in 1..Len(order) : order[i] # t
      BY <1>3 DEF Push, JobInv
    <3>4. ASSUME NEW i \in 1..Len(order'), NEW j \in 1..Len(order'), order'[i] = order'[j]
          PROVE  i = j
      <4>1. CASE i \in 1..Len(order) /\ j \in 1..Len(order)
        BY <4>1, <3>2, <3>4 DEF Fifo
      <4>2. CASE ~(i \in 1..Len(order) /\ j \in 1..Len(order))
        BY <4>2, <3>2, <3>3, <3>4
      <4> QED
        BY <4>1, <4>2
    <3> QED
      BY <3>1, <3>4 DEF Fifo
  <2> QED
    BY <1>3, <2>1, <2>2 DEF Push
<1>4. ASSUME NEW w \in Worker,
             WorkerLock(w) \/ Sleepy(w) \/ WorkerExit(w) \/ Park(w) \/ Run(w) \/ SpuriousWakeup(w) \/ Spawn(w)
      PROVE Fifo'
  BY <1>1, <1>4 DEF WorkerLock, Sleepy, WorkerExit, Park, Run, SpuriousWakeup, Spawn
<1>5. ASSUME NEW t \in Task, TaskLock(t) \/ NotifyOne(t) PROVE Fifo'
  BY <1>1, <1>5 DEF TaskLock, NotifyOne
<1>6. CASE OwnerStep
  BY <1>1, <1>6 DEF OwnerStep, OwnerLock, Stop, NotifyAll, Join
<1>7. CASE UNCHANGED vars
  BY <1>1, <1>7 DEF vars
<1> QED
  BY <1>2, <1>3, <1>4, <1>5, <1>6, <1>7 DEF Next, WorkerStep, TaskStep, Terminated

-----------------------------------------------------------------------------
\* The invariant of the pool, for every number of workers and callers.
THEOREM PoolCorrect == Spec => []PoolInv
<1>1. PoolInv /\ [Next]_vars => PoolInv'
  BY TypeStep, MutexStep, ControlStep, JobStep, FifoStep, WakeupStep DEF PoolInv
<1> QED
  BY PoolInit, <1>1, PTL DEF Spec

\* No task is lost, doubled or overtaken in the queue.
THEOREM FifoCorrect == Spec => []Fifo
<1>1. PoolInv => Fifo
  BY DEF PoolInv
<1> QED
  BY PoolCorrect, <1>1, PTL

\* Neither a task nor the order to stop waits for workers that all sleep.
THEOREM WakeupCorrect == Spec => []NoLostWakeup
<1>1. PoolInv => NoLostWakeup
  BY DEF PoolInv
<1> QED
  BY PoolCorrect, <1>1, PTL

\* When every worker has left, every accepted task has its result.
LEMMA AllExitedIsDrained ==
    ASSUME PoolInv, \A w \in Worker : wpc[w] = "exited"
    PROVE  queue = <<>> /\ order = begun /\ \A i \in 1..Len(order) : order[i] \in ready
<1> USE DEF PoolInv
<1>1. queue = <<>>
  BY PoolAssumption DEF ControlInv
<1>2. order = begun
  BY <1>1, ConcatEmptySeq DEF Fifo, TypeOK
<1>3. \A w \in Worker : job[w] = None
  BY DEF JobInv
<1>4. \A i \in 1..Len(begun) : begun[i] \in Task
  BY ElementOfSeq DEF TypeOK
<1> QED
  BY <1>1, <1>2, <1>3, <1>4, PoolAssumption DEF JobInv

\* The destructor returns only after every accepted task has been run.
THEOREM DrainCorrect == Spec => []DrainedAtDestruction
<1>1. PoolInv => DrainedAtDestruction
  BY AllExitedIsDrained DEF PoolInv, ControlInv, DrainedAtDestruction
<1> QED
  BY PoolCorrect, <1>1, PTL

-----------------------------------------------------------------------------
(* Nobody sleeps through work *)

Notifying == {t \in Task : tpc[t] = "notify"}
Coming == {w \in Worker : wpc[w] \in {"lock", "test"}}

\* The strengthening: of all the calls of enqueue, only finitely many are about
\* to notify at a time.
WorkInv == IsFiniteSet(Notifying) /\ WorkConserving

\* One member more or less.
LEMMA OneMore ==
    ASSUME NEW S, IsFiniteSet(S), NEW x
    PROVE  /\ Cardinality(S) \in Nat
           /\ IsFiniteSet(S \cup {x}) /\ Cardinality(S \cup {x}) \in Nat
           /\ Cardinality(S \cup {x}) >= Cardinality(S)
           /\ x \notin S => Cardinality(S \cup {x}) = Cardinality(S) + 1
           /\ IsFiniteSet(S \ {x}) /\ Cardinality(S \ {x}) \in Nat
           /\ Cardinality(S \ {x}) + 1 >= Cardinality(S)
<1>1. Cardinality(S) \in Nat
  BY FS_CardinalityType
<1>2. IsFiniteSet(S \cup {x}) /\ IsFiniteSet(S \ {x})
  BY FS_AddElement, FS_RemoveElement
<1>3. Cardinality(S \cup {x}) = IF x \in S THEN Cardinality(S) ELSE Cardinality(S) + 1
  BY FS_AddElement
<1>4. Cardinality(S \ {x}) = IF x \in S THEN Cardinality(S) - 1 ELSE Cardinality(S)
  BY FS_RemoveElement
<1>5. Cardinality(S \cup {x}) \in Nat /\ Cardinality(S \ {x}) \in Nat
  BY <1>2, FS_CardinalityType
<1> QED
  BY <1>1, <1>2, <1>3, <1>4, <1>5

LEMMA WorkInit == Init => WorkInv
<1> SUFFICES ASSUME Init PROVE WorkInv
  OBVIOUS
<1>1. Notifying = {} /\ Asleep = {}
  BY DEF Init, Notifying, Asleep
<1> QED
  BY <1>1, FS_EmptySet DEF WorkInv, WorkConserving

LEMMA WorkStep == TypeOK /\ ControlInv /\ WorkInv /\ [Next]_vars => WorkInv'
<1> SUFFICES ASSUME TypeOK, ControlInv, WorkInv, [Next]_vars PROVE WorkInv'
  OBVIOUS
<1> DEFINE n == Cardinality(Notifying)
           c == Cardinality(Coming)
<1>1. /\ queue \in Seq(Task) /\ Len(queue) \in Nat
      /\ wpc \in [Worker -> WPC] /\ tpc \in [Task -> TPC]
  BY DEF TypeOK
<1>2. IsFiniteSet(Notifying) /\ IsFiniteSet(Coming) /\ n \in Nat /\ c \in Nat
  <2>1. Coming \in SUBSET Worker
    BY DEF Coming
  <2>2. IsFiniteSet(Coming)
    BY <2>1, FS_Subset, PoolAssumption
  <2> QED
    BY <2>2, FS_CardinalityType DEF WorkInv
<1>3. Asleep # {} => Len(queue) <= n + c
  BY DEF WorkInv, WorkConserving, Notifying, Coming
\* A step that neither queues nor goes to sleep, and takes nobody off the way.
<1>4. ASSUME Len(queue') <= Len(queue), Len(queue') \in Nat, Notifying' = Notifying,
             Asleep' \subseteq Asleep,
             Coming' = Coming \/ \E w : Coming' = Coming \cup {w}
      PROVE  WorkInv'
  <2>1. Cardinality(Coming') >= c /\ Cardinality(Coming') \in Nat
    <3>1. CASE Coming' = Coming
      BY <1>2, <3>1
    <3>2. CASE \E w : Coming' = Coming \cup {w}
      <4>1. PICK w : Coming' = Coming \cup {w}
        BY <3>2
      <4>2. Cardinality(Coming') = Cardinality(Coming \cup {w})
        BY <4>1, Zenon
      <4>3. Cardinality(Coming \cup {w}) \in Nat /\ Cardinality(Coming \cup {w}) >= c
        BY <1>2, OneMore
      <4> QED
        BY <4>2, <4>3
    <3> QED
      BY <1>4, <3>1, <3>2
  <2>2. Asleep' # {} => Len(queue') <= Cardinality(Notifying') + Cardinality(Coming')
    <3>1. Cardinality(Notifying') = n
      BY <1>4
    <3> QED
      BY <1>2, <1>3, <1>4, <2>1, <3>1
  <2> QED
    BY <1>2, <1>4, <2>2 DEF WorkInv, WorkConserving, Notifying, Coming
\* A step that leaves an empty queue.
<1>5. ASSUME queue' = <<>>, Notifying' = Notifying PROVE WorkInv'
  <2>1. Coming' \in SUBSET Worker
    BY DEF Coming
  <2>2. Cardinality(Coming') \in Nat /\ Cardinality(Notifying') \in Nat
    BY <1>2, <1>5, <2>1, FS_Subset, FS_CardinalityType, PoolAssumption
  <2>3. Len(queue') <= Cardinality(Notifying') + Cardinality(Coming')
    BY <1>5, <2>2
  <2> QED
    BY <1>2, <1>5, <2>3 DEF WorkInv, WorkConserving, Notifying, Coming
<1> HIDE DEF n, c
<1>6. ASSUME NEW w \in Worker, WorkerStep(w) PROVE WorkInv'
  <2>1. CASE WorkerLock(w)
    <3>1. Notifying' = Notifying /\ queue' = queue /\ Asleep' \subseteq Asleep /\ Coming' = Coming
      BY <1>1, <2>1 DEF WorkerLock, Notifying, Coming, Asleep
    <3> QED
      BY <1>1, <1>4, <3>1
  <2>2. CASE Sleepy(w) \/ WorkerExit(w) \/ Park(w)
    <3>1. queue' = <<>> /\ Notifying' = Notifying
      BY <2>2 DEF Sleepy, WorkerExit, Park, MayProceed, MustExit, ControlInv, Notifying
    <3> QED
      BY <1>5, <3>1
  <2>3. CASE Take(w)
    <3>1. /\ Notifying' = Notifying /\ Asleep' = Asleep /\ Coming' = Coming \ {w} /\ w \in Coming
          /\ queue # <<>> /\ queue' = Tail(queue)
      BY <1>1, <2>3 DEF Take, Notifying, Coming, Asleep, MayProceed, MustExit, Rest
    <3>2. Len(queue') = Len(queue) - 1
      BY <1>1, <3>1
    <3>3. Cardinality(Coming') + 1 >= c /\ Cardinality(Coming') \in Nat
      BY <1>2, <3>1, OneMore DEF c
    <3>4. Cardinality(Notifying') = n
      BY <3>1 DEF n
    <3>5. Asleep' # {} => Len(queue') <= Cardinality(Notifying') + Cardinality(Coming')
      BY <1>1, <1>2, <1>3, <3>1, <3>2, <3>3, <3>4
    <3> QED
      BY <1>2, <3>1, <3>5 DEF WorkInv, WorkConserving, Notifying, Coming
  <2>4. CASE Run(w)
    <3>1. Notifying' = Notifying /\ queue' = queue /\ Asleep' \subseteq Asleep
          /\ Coming' = Coming \cup {w}
      BY <1>1, <2>4 DEF Run, Notifying, Coming, Asleep
    <3>2. Len(queue') <= Len(queue) /\ Len(queue') \in Nat
      BY <1>1, <3>1
    <3> QED
      BY <1>4, <3>1, <3>2, Zenon
  <2> QED
    BY <1>6, <2>1, <2>2, <2>3, <2>4 DEF WorkerStep
<1>7. ASSUME NEW w \in Worker, SpuriousWakeup(w) \/ Spawn(w) PROVE WorkInv'
  <2>1. Notifying' = Notifying /\ queue' = queue /\ Asleep' \subseteq Asleep
        /\ Coming' = Coming \cup {w}
    BY <1>1, <1>7 DEF SpuriousWakeup, Spawn, Notifying, Coming, Asleep
  <2>2. Len(queue') <= Len(queue) /\ Len(queue') \in Nat
    BY <1>1, <2>1
  <2> QED
    BY <1>4, <2>1, <2>2, Zenon
<1>8. ASSUME NEW t \in Task, TaskStep(t) PROVE WorkInv'
  <2>1. CASE TaskLock(t) \/ (Push(t) /\ Refuses)
    <3>1. Notifying' = Notifying /\ queue' = queue /\ Asleep' \subseteq Asleep /\ Coming' = Coming
      BY <1>1, <2>1 DEF TaskLock, Push, Notifying, Coming, Asleep
    <3>2. Len(queue') <= Len(queue) /\ Len(queue') \in Nat
      BY <1>1, <3>1
    <3> QED
      BY <1>4, <3>1, <3>2, Zenon
  <2>2. CASE Push(t) /\ ~Refuses
    <3>1. /\ Notifying' = Notifying \cup {t} /\ t \notin Notifying
          /\ Asleep' = Asleep /\ Coming' = Coming /\ queue' = Append(queue, t)
      BY <1>1, <2>2 DEF Push, Notifying, Coming, Asleep
    <3>2. Len(queue') = Len(queue) + 1
      BY <1>1, <3>1
    <3>3. Cardinality(Notifying') = n + 1 /\ IsFiniteSet(Notifying')
      BY <1>2, <3>1, OneMore DEF n
    <3>4. Cardinality(Coming') = c
      BY <3>1 DEF c
    <3>5. Asleep' # {} => Len(queue') <= Cardinality(Notifying') + Cardinality(Coming')
      BY <1>1, <1>2, <1>3, <3>1, <3>2, <3>3, <3>4
    <3> QED
      BY <3>3, <3>5 DEF WorkInv, WorkConserving, Notifying, Coming
  <2>3. CASE NotifyOne(t)
    <3>1. Notifying' = Notifying \ {t} /\ queue' = queue
      BY <1>1, <2>3 DEF NotifyOne, Notifying
    <3>2. Cardinality(Notifying') + 1 >= n /\ Cardinality(Notifying') \in Nat /\ IsFiniteSet(Notifying')
      BY <1>2, <3>1, OneMore DEF n
    <3>3. CASE Asleep = {}
      <4>1. Asleep' = {}
        BY <2>3, <3>3 DEF NotifyOne, Asleep
      <4> QED
        BY <3>2, <4>1 DEF WorkInv, WorkConserving, Notifying
    <3>4. CASE Asleep # {}
      <4>1. PICK w \in Asleep : wpc' = [wpc EXCEPT ![w] = "lock"]
        BY <2>3, <3>4 DEF NotifyOne, Notifies
      <4>2. Coming' = Coming \cup {w} /\ w \notin Coming
        BY <1>1, <4>1 DEF Coming, Asleep
      <4>3. Cardinality(Coming') = c + 1
        BY <1>2, <4>2, OneMore DEF c
      <4>4. Len(queue') <= Cardinality(Notifying') + Cardinality(Coming')
        BY <1>1, <1>2, <1>3, <3>1, <3>2, <3>4, <4>3
      <4> QED
        BY <3>2, <4>4 DEF WorkInv, WorkConserving, Notifying, Coming
    <3> QED
      BY <3>3, <3>4
  <2> QED
    BY <1>8, <2>1, <2>2, <2>3 DEF TaskStep
<1>9. ASSUME NotifyAll PROVE WorkInv'
  <2>1. Asleep' = {} /\ Notifying' = Notifying
    BY <1>9 DEF NotifyAll, Woken, Asleep, Notifying
  <2> QED
    BY <1>2, <2>1 DEF WorkInv, WorkConserving, Notifying
<1>10. ASSUME OwnerLock \/ Stop \/ Join \/ UNCHANGED vars PROVE WorkInv'
  <2>1. Notifying' = Notifying /\ queue' = queue /\ Asleep' \subseteq Asleep /\ Coming' = Coming
    BY <1>10 DEF OwnerLock, Stop, Join, vars, Notifying, Coming, Asleep
  <2>2. Len(queue') <= Len(queue) /\ Len(queue') \in Nat
    BY <1>1, <2>1
  <2> QED
    BY <1>4, <2>1, <2>2, Zenon
<1> QED
  BY <1>6, <1>7, <1>8, <1>9, <1>10 DEF Next, OwnerStep, Terminated

\* ThreadPool::enqueue: notify_one after each submission is enough, also when
\* several tasks are queued before the first worker wakes up: while a worker
\* sleeps, each queued task has a notification under way or a worker coming.
THEOREM WorkCorrect == Spec => []WorkConserving
<1>1. PoolInv => TypeOK /\ ControlInv
  BY DEF PoolInv
<1>2. WorkInv => WorkConserving
  BY DEF WorkInv
<1> QED
  BY PoolCorrect, WorkInit, WorkStep, <1>1, <1>2, PTL DEF Spec

-----------------------------------------------------------------------------
(* The pool implements Executor. *)

LEMMA AppendElements ==
    ASSUME NEW S, NEW s \in Seq(S), NEW t \in S
    PROVE  Elements(Append(s, t)) = Elements(s) \cup {t}
<1>1. /\ Len(s) \in Nat /\ Len(Append(s, t)) = Len(s) + 1 /\ Append(s, t)[Len(s) + 1] = t
      /\ \A i \in 1..Len(s) : Append(s, t)[i] = s[i]
  BY AppendProperties, LenProperties
<1>2. ASSUME NEW x \in Elements(Append(s, t)) PROVE x \in Elements(s) \cup {t}
  <2>1. PICK i \in 1..Len(s) + 1 : x = Append(s, t)[i]
    BY <1>1, <1>2 DEF Elements
  <2> QED
    BY <1>1, <2>1 DEF Elements
<1>3. ASSUME NEW x \in Elements(s) \cup {t} PROVE x \in Elements(Append(s, t))
  <2>1. CASE x = t
    BY <1>1, <2>1 DEF Elements
  <2>2. CASE x \in Elements(s)
    <3>1. PICK i \in 1..Len(s) : x = s[i]
      BY <2>2 DEF Elements
    <3>2. i \in 1..Len(s) + 1 /\ x = Append(s, t)[i]
      BY <1>1, <3>1
    <3> QED
      BY <1>1, <3>2 DEF Elements
  <2> QED
    BY <1>3, <2>1, <2>2
<1> QED
  BY <1>2, <1>3

\* What the abstract state of a task rests on.
LEMMA Accounts ==
    ASSUME PoolInv
    PROVE  /\ ready \subseteq Elements(begun)
           /\ Elements(begun) \subseteq Elements(order)
           /\ \A t \in Elements(order) : t \in Task /\ tpc[t] \in {"notify", "submitted"}
<1> USE DEF PoolInv, Elements
<1>1. ready \subseteq Elements(begun)
  BY DEF JobInv
<1>2. Len(begun) \in Nat /\ Len(queue) \in Nat /\ Len(order) = Len(begun) + Len(queue)
      /\ \A i \in 1..Len(begun) : order[i] = begun[i]
  BY ConcatProperties, LenProperties DEF Fifo, TypeOK
<1>3. \A i \in 1..Len(begun) : i \in 1..Len(order)
  BY <1>2
<1>4. \A i \in 1..Len(order) : order[i] \in Task
  BY ElementOfSeq DEF TypeOK
<1> QED
  BY <1>1, <1>2, <1>3, <1>4 DEF JobInv

\* A step that changes none of what Status reads.
LEMMA StatusKept ==
    ASSUME UNCHANGED <<ready, begun, order>>,
           \A t \in Task : tpc'[t] = "refused" <=> tpc[t] = "refused"
    PROVE  Status' = Status
BY DEF Status, Elements

\* Taking: the head of the queue passes from accepted to running.
LEMMA TakeMaps ==
    ASSUME PoolInv, NEW w \in Worker, Take(w)
    PROVE  Abstract!Next
<1> DEFINE t == Head(queue)
<1>1. /\ t \in Task /\ begun' = Append(begun, t) /\ queue # <<>>
      /\ UNCHANGED <<ready, order, tpc, opc>> /\ opc # "destroyed"
  BY TakeFacts DEF Take, PoolInv, ControlInv
<1>2. Len(begun) + 1 \in 1..Len(order) /\ order[Len(begun) + 1] = t /\ Len(begun) \in Nat
      /\ \A i \in 1..Len(begun) : i \in 1..Len(order) /\ order[i] = begun[i]
  <2>1. Len(queue) \in Nat \ {0} /\ Len(begun) \in Nat /\ t = queue[1]
    BY <1>1, EmptySeq, LenProperties DEF PoolInv, TypeOK
  <2>2. Len(order) = Len(begun) + Len(queue)
        /\ \A i \in 1..Len(begun) + Len(queue) : order[i] =
              IF i <= Len(begun) THEN begun[i] ELSE queue[i - Len(begun)]
    BY ConcatProperties DEF PoolInv, TypeOK, Fifo
  <2> HIDE DEF t
  <2> QED
    BY <2>1, <2>2
<1> HIDE DEF t
<1>3. t \in Elements(order) /\ t \notin Elements(begun)
  <2>1. ASSUME NEW i \in 1..Len(begun), begun[i] = t PROVE FALSE
    <3>1. order[i] = order[Len(begun) + 1] /\ i # Len(begun) + 1
      BY <1>2, <2>1
    <3> QED
      BY <1>2, <3>1 DEF PoolInv, Fifo
  <2> QED
    BY <1>2, <2>1 DEF Elements
<1>4. t \notin ready
  BY <1>3, Accounts
<1>5. Elements(begun') = Elements(begun) \cup {t} /\ Elements(order)' = Elements(order)
  BY <1>1, AppendElements DEF PoolInv, TypeOK, Elements
<1>6. Status[t] = "accepted" /\ Status' = [Status EXCEPT ![t] = "running"]
  BY <1>1, <1>3, <1>4, <1>5 DEF Status
<1> QED
  BY <1>1, <1>6 DEF Abstract!Next, Abstract!Change

\* Running: the task passes from running to done.
LEMMA RunMaps ==
    ASSUME PoolInv, NEW w \in Worker, Run(w)
    PROVE  Abstract!Next \/ (Status' = Status /\ UNCHANGED opc)
<1>1. /\ wpc[w] = "run" /\ ready' = ready \cup {job[w]} /\ UNCHANGED <<begun, order, tpc, opc>>
      /\ opc # "destroyed"
  BY DEF Run, PoolInv, ControlInv
<1>2. job[w] \in Elements(begun) /\ job[w] \in Task
  <2>1. job[w] \in Elements(begun)
    BY <1>1 DEF PoolInv, JobInv, Elements
  <2> QED
    BY <2>1, Accounts
<1>3. Elements(begun') = Elements(begun) /\ Elements(order') = Elements(order)
  BY <1>1
<1>4. CASE job[w] \in ready
  BY <1>1, <1>3, <1>4 DEF Status
<1>5. CASE job[w] \notin ready
  <2>1. Status[job[w]] = "running" /\ Status' = [Status EXCEPT ![job[w]] = "done"]
    BY <1>1, <1>2, <1>3, <1>5 DEF Status
  <2> QED
    BY <1>1, <1>2, <2>1 DEF Abstract!Next, Abstract!Change
<1> QED
  BY <1>4, <1>5

\* Submitting: the task is accepted or refused.
LEMMA PushMaps ==
    ASSUME PoolInv, NEW t \in Task, Push(t)
    PROVE  Abstract!Next
<1>1. UNCHANGED <<begun, ready, opc>> /\ tpc[t] = "holding" /\ opc # "destroyed"
  BY DEF Push, PoolInv, ControlInv, Inside
<1>2. t \notin ready /\ t \notin Elements(begun) /\ t \notin Elements(order)
  BY <1>1, Accounts
<1>3. Status[t] = "new" /\ Elements(begun') = Elements(begun)
  BY <1>1, <1>2 DEF Status
<1>4. CASE tpc' = [tpc EXCEPT ![t] = "refused"] /\ order' = order
  <2>1. Status' = [Status EXCEPT ![t] = "refused"]
    BY <1>1, <1>2, <1>3, <1>4 DEF Status, PoolInv, TypeOK
  <2> QED
    BY <1>1, <1>3, <2>1 DEF Abstract!Next, Abstract!Change
<1>5. CASE tpc' = [tpc EXCEPT ![t] = "notify"] /\ order' = Append(order, t)
  <2>1. Elements(order') = Elements(order) \cup {t}
    BY <1>5, AppendElements DEF PoolInv, TypeOK
  <2>2. Status' = [Status EXCEPT ![t] = "accepted"]
    BY <1>1, <1>2, <1>3, <1>5, <2>1 DEF Status, PoolInv, TypeOK
  <2> QED
    BY <1>1, <1>3, <2>2 DEF Abstract!Next, Abstract!Change
<1> QED
  BY <1>4, <1>5 DEF Push

\* Joining: every accepted task is done when the pool closes.
LEMMA JoinMaps ==
    ASSUME PoolInv, Join
    PROVE  Abstract!Next
<1>1. /\ UNCHANGED <<begun, ready, order, tpc>> /\ opc # "destroyed" /\ opc' = "destroyed"
      /\ \A w \in Worker : wpc[w] = "exited"
  BY DEF Join
<1>2. \A t \in Elements(order) : t \in ready
  BY <1>1, AllExitedIsDrained DEF Elements
<1>3. \A t \in Task : Status[t] \in {"new", "done", "refused"}
  BY <1>2, Accounts DEF Status
<1>4. Status' = Status
  BY <1>1, StatusKept
<1> QED
  BY <1>1, <1>3, <1>4 DEF Abstract!Next, Abstract!Close

LEMMA StepMaps ==
    ASSUME PoolInv, [Next]_vars
    PROVE  [Abstract!Next]_(Abstract!vars)
<1> USE DEF Abstract!vars
<1>1. ASSUME NEW w \in Worker,
             WorkerLock(w) \/ Sleepy(w) \/ WorkerExit(w) \/ Park(w) \/ SpuriousWakeup(w)
      PROVE  Status' = Status /\ UNCHANGED opc
  BY <1>1, StatusKept DEF WorkerLock, Sleepy, WorkerExit, Park, SpuriousWakeup
<1>2. ASSUME NEW w \in Worker, Spawn(w)
      PROVE  Status' = Status /\ opc # "destroyed" /\ opc' # "destroyed"
  BY <1>2, StatusKept DEF Spawn
<1>3. ASSUME NEW t \in Task, TaskLock(t) \/ NotifyOne(t)
      PROVE  Status' = Status /\ UNCHANGED opc
  <2>1. UNCHANGED <<ready, begun, order, opc>>
    BY <1>3 DEF TaskLock, NotifyOne
  <2>2. \A u \in Task : tpc'[u] = "refused" <=> tpc[u] = "refused"
    BY <1>3 DEF TaskLock, NotifyOne, PoolInv, TypeOK
  <2> QED
    BY <2>1, <2>2, StatusKept
<1>4. ASSUME OwnerLock \/ Stop \/ NotifyAll
      PROVE  Status' = Status /\ opc # "destroyed" /\ opc' # "destroyed"
  BY <1>4, StatusKept DEF OwnerLock, Stop, NotifyAll
<1>5. ASSUME UNCHANGED vars PROVE Status' = Status /\ UNCHANGED opc
  BY <1>5, StatusKept DEF vars
<1> QED
  BY <1>1, <1>2, <1>3, <1>4, <1>5, TakeMaps, RunMaps, PushMaps, JoinMaps
  DEF Next, WorkerStep, TaskStep, OwnerStep, Terminated

LEMMA InitMaps == Init => Abstract!Init
BY DEF Init, Abstract!Init, Status, Elements

\* The pool runs what it accepts, once, and closes when all of it has run.
THEOREM PoolRefinesExecutor == Spec => ImplementsExecutor
BY InitMaps, StepMaps, PoolCorrect, PTL DEF Spec, ImplementsExecutor, Abstract!Spec
=============================================================================
