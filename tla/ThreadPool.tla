----------------------------- MODULE ThreadPool -----------------------------
(***************************************************************************)
(* utils/ThreadPool: workers that wait on a condition variable for tasks,  *)
(* enqueue from any thread, and a destructor that stops and joins.  The    *)
(* mutex is explicit: testing the predicate and going to sleep are two     *)
(* steps, between which only the mutex keeps a wake-up from being lost.    *)
(***************************************************************************)
EXTENDS Naturals, Sequences, FiniteSets

CONSTANTS
    Worker,  \* the threads of the pool
    Task,    \* the calls of enqueue, each with its task
    Owner,   \* the thread that constructs and destroys the pool
    None     \* no thread, no task

\* The constructor replaces a count of 0 by the hardware's, or else by 4: a
\* pool has at least one worker, and a number of them.
ASSUME PoolAssumption ==
    /\ Worker # {} /\ IsFiniteSet(Worker)
    /\ Worker \cap Task = {}
    /\ Owner \notin Worker \cup Task
    /\ None \notin Worker \cup Task \cup {Owner}

VARIABLES
    mutex,   \* queueMutex: the thread that holds it
    queue,   \* tasks
    stopped,
    wpc,     \* wpc[w]: where worker w is
    job,     \* job[w]: the task worker w has taken
    tpc,     \* tpc[t]: where the call enqueue(t) is
    opc,     \* where the owner is
    ready,   \* the tasks whose future has its value or exception
    order,   \* history: the tasks in the order they were accepted
    begun    \* history: the tasks in the order they were taken

vars == <<mutex, queue, stopped, wpc, job, tpc, opc, ready, order, begun>>

WPC == {"unborn", "lock", "test", "parking", "asleep", "run", "exited"}
TPC == {"new", "holding", "notify", "submitted", "refused"}
OPC == {"spawning", "open", "holding", "notifyAll", "joining", "destroyed"}

TypeOK ==
    /\ mutex \in Worker \cup Task \cup {Owner, None}
    /\ queue \in Seq(Task)
    /\ stopped \in BOOLEAN
    /\ wpc \in [Worker -> WPC]
    /\ job \in [Worker -> Task \cup {None}]
    /\ tpc \in [Task -> TPC]
    /\ opc \in OPC
    /\ ready \subseteq Task
    /\ order \in Seq(Task)
    /\ begun \in Seq(Task)

Init ==
    /\ mutex = None /\ queue = <<>> /\ stopped = FALSE
    /\ wpc = [w \in Worker |-> "unborn"] /\ job = [w \in Worker |-> None]
    /\ tpc = [t \in Task |-> "new"]
    /\ opc = "spawning"
    /\ ready = {} /\ order = <<>> /\ begun = <<>>

-----------------------------------------------------------------------------
(* worker() *)

WorkerLock(w) ==
    /\ wpc[w] = "lock" /\ mutex = None
    /\ mutex' = w
    /\ wpc' = [wpc EXCEPT ![w] = "test"]
    /\ UNCHANGED <<queue, stopped, job, tpc, opc, ready, order, begun>>

\* The predicate of condition.wait, and the test that ends the thread.
MutMayProceed == queue # <<>>
MayProceed == stopped \/ queue # <<>>
MutMustExit == stopped
MustExit == stopped /\ queue = <<>>

Sleepy(w) ==
    /\ wpc[w] = "test" /\ ~MayProceed
    /\ wpc' = [wpc EXCEPT ![w] = "parking"]
    /\ UNCHANGED <<mutex, queue, stopped, job, tpc, opc, ready, order, begun>>

WorkerExit(w) ==
    /\ wpc[w] = "test" /\ MayProceed /\ MustExit
    /\ wpc' = [wpc EXCEPT ![w] = "exited"]
    /\ mutex' = None
    /\ UNCHANGED <<queue, stopped, job, tpc, opc, ready, order, begun>>

MutRest == queue
Rest == Tail(queue)

Take(w) ==
    /\ wpc[w] = "test" /\ MayProceed /\ ~MustExit
    /\ job' = [job EXCEPT ![w] = Head(queue)]
    /\ begun' = Append(begun, Head(queue))
    /\ queue' = Rest
    /\ wpc' = [wpc EXCEPT ![w] = "run"]
    /\ mutex' = None
    /\ UNCHANGED <<stopped, tpc, opc, ready, order>>

\* wait() gives up the mutex and sleeps in one step.
Park(w) ==
    /\ wpc[w] = "parking"
    /\ wpc' = [wpc EXCEPT ![w] = "asleep"]
    /\ mutex' = None
    /\ UNCHANGED <<queue, stopped, job, tpc, opc, ready, order, begun>>

\* A condition variable may wake up for no reason.
SpuriousWakeup(w) ==
    /\ wpc[w] = "asleep"
    /\ wpc' = [wpc EXCEPT ![w] = "lock"]
    /\ UNCHANGED <<mutex, queue, stopped, job, tpc, opc, ready, order, begun>>

\* The packaged_task catches what the task throws: the worker goes on.
Run(w) ==
    /\ wpc[w] = "run"
    /\ ready' = ready \cup {job[w]}
    /\ job' = [job EXCEPT ![w] = None]
    /\ wpc' = [wpc EXCEPT ![w] = "lock"]
    /\ UNCHANGED <<mutex, queue, stopped, tpc, opc, order, begun>>

-----------------------------------------------------------------------------
(* enqueue(): the callers have the pool once it is constructed and keep it   *)
(* alive while they are inside.                                              *)

TaskLock(t) ==
    /\ tpc[t] = "new" /\ mutex = None
    /\ opc \notin {"spawning", "destroyed"}
    /\ mutex' = t
    /\ tpc' = [tpc EXCEPT ![t] = "holding"]
    /\ UNCHANGED <<queue, stopped, wpc, job, opc, ready, order, begun>>

MutRefuses == FALSE
Refuses == stopped

Push(t) ==
    /\ tpc[t] = "holding"
    /\ mutex' = None
    /\ IF Refuses
       THEN /\ tpc' = [tpc EXCEPT ![t] = "refused"]
            /\ UNCHANGED <<queue, order>>
       ELSE /\ tpc' = [tpc EXCEPT ![t] = "notify"]
            /\ queue' = Append(queue, t)
            /\ order' = Append(order, t)
    /\ UNCHANGED <<stopped, wpc, job, opc, ready, begun>>

Asleep == {w \in Worker : wpc[w] = "asleep"}

\* Every submission notifies, however long the queue is.
MutNotifies == Len(queue) <= 1
Notifies == TRUE

\* notify_one() is called after the mutex has been released.
NotifyOne(t) ==
    /\ tpc[t] = "notify"
    /\ tpc' = [tpc EXCEPT ![t] = "submitted"]
    /\ IF Asleep # {} /\ Notifies
       THEN \E w \in Asleep : wpc' = [wpc EXCEPT ![w] = "lock"]
       ELSE UNCHANGED wpc
    /\ UNCHANGED <<mutex, queue, stopped, job, opc, ready, order, begun>>

-----------------------------------------------------------------------------
(* Constructor and destructor *)

Spawn(w) ==
    /\ opc = "spawning" /\ wpc[w] = "unborn"
    /\ wpc' = [wpc EXCEPT ![w] = "lock"]
    /\ opc' = IF \A v \in Worker \ {w} : wpc[v] # "unborn" THEN "open" ELSE opc
    /\ UNCHANGED <<mutex, queue, stopped, job, tpc, ready, order, begun>>

\* ~ThreadPool takes the mutex before it sets the flag.
MutMayStop == TRUE
MayStop == mutex = None

OwnerLock ==
    /\ opc = "open" /\ MayStop
    /\ mutex' = Owner
    /\ opc' = "holding"
    /\ UNCHANGED <<queue, stopped, wpc, job, tpc, ready, order, begun>>

Stop ==
    /\ opc = "holding"
    /\ stopped' = TRUE
    /\ mutex' = None
    /\ opc' = "notifyAll"
    /\ UNCHANGED <<queue, wpc, job, tpc, ready, order, begun>>

MutWoken == IF Asleep = {} THEN {} ELSE {CHOOSE w \in Asleep : TRUE}
Woken == Asleep

NotifyAll ==
    /\ opc = "notifyAll"
    /\ wpc' = [w \in Worker |-> IF w \in Woken THEN "lock" ELSE wpc[w]]
    /\ opc' = "joining"
    /\ UNCHANGED <<mutex, queue, stopped, job, tpc, ready, order, begun>>

Inside == {t \in Task : tpc[t] \in {"holding", "notify"}}

Join ==
    /\ opc = "joining"
    /\ \A w \in Worker : wpc[w] = "exited"
    /\ Inside = {}
    /\ opc' = "destroyed"
    /\ UNCHANGED <<mutex, queue, stopped, wpc, job, tpc, ready, order, begun>>

Terminated == opc = "destroyed" /\ UNCHANGED vars

WorkerStep(w) == \/ WorkerLock(w) \/ Sleepy(w) \/ WorkerExit(w)
                 \/ Take(w) \/ Park(w) \/ Run(w)
TaskStep(t) == TaskLock(t) \/ Push(t) \/ NotifyOne(t)
OwnerStep == OwnerLock \/ Stop \/ NotifyAll \/ Join

Next ==
    \/ \E w \in Worker : WorkerStep(w) \/ SpuriousWakeup(w) \/ Spawn(w)
    \/ \E t \in Task : TaskStep(t)
    \/ OwnerStep
    \/ Terminated

Spec == Init /\ [][Next]_vars

\* Threads that can run do run, also past a mutex others keep taking; nothing
\* forces a caller to submit or the owner to destroy the pool.
FairSpec ==
    /\ Spec
    /\ \A w \in Worker : WF_vars(WorkerStep(w)) /\ SF_vars(WorkerLock(w)) /\ WF_vars(Spawn(w))
    /\ \A t \in Task : WF_vars(Push(t) \/ NotifyOne(t))
    /\ WF_vars(Stop \/ NotifyAll \/ Join)

-----------------------------------------------------------------------------
(* Properties *)

\* No task is lost, duplicated or overtaken: the tasks accepted are those
\* taken so far, in that order, followed by the queue; none occurs twice.
Fifo ==
    /\ order = begun \o queue
    /\ \A i, j \in 1..Len(order) : order[i] = order[j] => i = j

\* Work and the order to stop never wait for nobody: when every worker sleeps
\* the queue is empty, or a caller is about to notify; when one sleeps after
\* the stop, the destructor is about to notify all.
NoLostWakeup ==
    /\ queue # <<>> /\ (\A w \in Worker : wpc[w] = "asleep") => \E t \in Task : tpc[t] = "notify"
    /\ stopped /\ Asleep # {} => opc = "notifyAll"

\* No worker sleeps through work that others are too busy for: while one
\* sleeps, each queued task has a caller about to notify or a worker of its
\* own on the way to the queue.
WorkConserving ==
    Asleep # {} =>
        Len(queue) <= Cardinality({t \in Task : tpc[t] = "notify"})
                      + Cardinality({w \in Worker : wpc[w] \in {"lock", "test"}})

\* The destructor returns only after every accepted task has run: no future is
\* left without a result.
DrainedAtDestruction ==
    opc = "destroyed" => \A i \in 1..Len(order) : order[i] \in ready

\* Mutual exclusion: each thread in a critical section is the one the mutex
\* names.
MutexInv ==
    /\ \A w \in Worker : (mutex = w) <=> wpc[w] \in {"test", "parking"}
    /\ \A t \in Task : (mutex = t) <=> tpc[t] = "holding"
    /\ (mutex = Owner) <=> opc = "holding"

\* What the control states of the threads say of the shared state.
ControlInv ==
    /\ stopped <=> opc \in {"notifyAll", "joining", "destroyed"}
    /\ \A w \in Worker : wpc[w] = "parking" => ~stopped /\ queue = <<>>
    /\ \A w \in Worker : wpc[w] = "exited" => stopped /\ queue = <<>>
    /\ opc = "destroyed" => Inside = {} /\ \A w \in Worker : wpc[w] = "exited"

\* A task that has been taken is being run or has a result.
JobInv ==
    /\ \A w \in Worker : (wpc[w] = "run") <=> (job[w] # None)
    /\ \A i \in 1..Len(begun) : begun[i] \in ready \/ \E w \in Worker : job[w] = begun[i]
    /\ \A w \in Worker : wpc[w] = "run" => \E i \in 1..Len(begun) : begun[i] = job[w]
    /\ \A t \in ready : \E i \in 1..Len(begun) : begun[i] = t
    /\ \A i \in 1..Len(order) : tpc[order[i]] \in {"notify", "submitted"}

\* The inductive invariant.
PoolInv == TypeOK /\ MutexInv /\ ControlInv /\ JobInv /\ Fifo /\ NoLostWakeup

\* What an accepted task gets: it is run, whether or not the pool is stopped.
AcceptedIsRun == \A t \in Task : (tpc[t] = "notify") ~> (t \in ready)

\* The destructor returns.
DestructorReturns == (opc = "holding") ~> (opc = "destroyed")

Elements(s) == {s[i] : i \in 1..Len(s)}
Status == [t \in Task |->
    IF t \in ready THEN "done"
    ELSE IF t \in Elements(begun) THEN "running"
    ELSE IF t \in Elements(order) THEN "accepted"
    ELSE IF tpc[t] = "refused" THEN "refused" ELSE "new"]

\* The pool keeps the promise of module Executor.
Abstract == INSTANCE Executor WITH status <- Status, closed <- (opc = "destroyed")
ImplementsExecutor == Abstract!Spec
=============================================================================
