-------------------------- MODULE ThreadPoolProofs --------------------------
(***************************************************************************)
(* ThreadPool for every number of workers and tasks and every capacity:    *)
(* no lost wakeup while it is open, the implementation of TaskQueue, each  *)
(* task run once, nothing accepted left behind by the shutdown, and one    *)
(* worker at most that misses it.                                          *)
(***************************************************************************)
EXTENDS ThreadPool, SequenceTheorems, TLAPS

USE PoolAssumption

-----------------------------------------------------------------------------
(* A worker between the pop and the end of the task has one.                *)
RunHasTask == \A w \in Workers : pc[w] = "run" => task[w] \in Tasks

TypeInv == TypeOK /\ RunHasTask

LEMMA TypeInit == Init => TypeInv
<1> SUFFICES ASSUME Init PROVE TypeInv
  OBVIOUS
<1>1. tasks \in Seq(Tasks) /\ Len(tasks) <= MaxQueue
  <2>1. << >> \in Seq(Tasks) /\ Len(<< >>) = 0
    OBVIOUS
  <2>2. 0 <= MaxQueue
    BY PoolAssumption
  <2>3. QED
    BY <2>1, <2>2 DEF Init
<1>2. pc \in [Workers -> Steps] /\ task \in [Workers -> Tasks \cup {NoTask}]
  BY DEF Init, Steps
<1>3. RunHasTask
  BY DEF Init, RunHasTask
<1>4. TypeOK
  BY <1>1, <1>2 DEF Init, TypeOK
<1>5. QED
  BY <1>3, <1>4 DEF TypeInv

LEMMA TypeStep == TypeInv /\ [Next]_vars => TypeInv'
<1> SUFFICES ASSUME TypeInv, [Next]_vars PROVE TypeInv'
  OBVIOUS
<1> USE DEF TypeInv, TypeOK, RunHasTask, Steps, poolVars, userVars, Goto
<1>1. ASSUME NEW w \in Workers, Lock(w) \/ GoToSleep(w) \/ Block(w)
      PROVE  TypeInv'
  BY <1>1 DEF Lock, GoToSleep, Block
<1>2. ASSUME NEW w \in Workers, WakeSpuriously(w) \/ Exit(w) \/ Run(w)
      PROVE  TypeInv'
  BY <1>2 DEF WakeSpuriously, Exit, Run
<1>3. ASSUME NEW w \in Workers, Pop(w) PROVE TypeInv'
  <2>1. /\ Head(tasks) \in Tasks /\ Tail(tasks) \in Seq(Tasks)
        /\ Len(Tail(tasks)) = Len(tasks) - 1
    BY <1>3, HeadTailProperties DEF Pop
  <2>2. QED
    BY <1>3, <2>1 DEF Pop, Popped
<1>4. ASSUME NEW t \in Tasks, Enqueue(t) PROVE TypeInv'
  <2>1. tasks' \in Seq(Tasks) /\ Len(tasks') = Len(tasks) + 1
    BY <1>4, AppendProperties DEF Enqueue
  <2>2. waiting' \subseteq Workers
    BY <1>4 DEF Enqueue, NotifyOne
  <2>3. QED
    BY <1>4, <2>1, <2>2 DEF Enqueue, Full
<1>5. ASSUME NEW t \in Tasks, Reject(t) PROVE TypeInv'
  BY <1>5 DEF Reject
<1>6. CASE StoreStop \/ NotifyAll \/ Join
  BY <1>6 DEF StoreStop, NotifyAll, Join
<1>7. CASE UNCHANGED vars
  BY <1>7 DEF vars
<1>8. QED
  BY <1>1, <1>2, <1>3, <1>4, <1>5, <1>6, <1>7 DEF Next, Work, Shutdown

(* Every variable of the pool keeps its type, and the queue its bound.      *)
THEOREM TypeCorrect == Spec => []TypeOK
<1>1. TypeInv => TypeOK
  BY DEF TypeInv
<1>2. QED
  BY TypeInit, TypeStep, <1>1, PTL DEF Spec

-----------------------------------------------------------------------------
(* Why a worker cannot sleep through an enqueue: from its test to its block *)
(* it holds the mutex, and it goes to sleep on an empty queue only.         *)
Holds(w) == pc[w] \in {"test", "sleep"} => mtx = w

SleepsOnEmpty(w) == pc[w] = "sleep" => tasks = << >>

WaitsBlocked(w) == w \in waiting => pc[w] = "blocked"

ExitsStopped(w) == pc[w] = "exited" => stop

WakeInv ==
  \A w \in Workers :
    Holds(w) /\ SleepsOnEmpty(w) /\ WaitsBlocked(w) /\ ExitsStopped(w)

LEMMA WakeInit == Init => WakeInv
BY DEF Init, WakeInv, Holds, SleepsOnEmpty, WaitsBlocked, ExitsStopped

LEMMA WakeStep == TypeOK /\ WakeInv /\ [Next]_vars => WakeInv'
<1> SUFFICES ASSUME TypeOK, WakeInv, [Next]_vars PROVE WakeInv'
  OBVIOUS
<1> USE DEF TypeOK, WakeInv, Holds, SleepsOnEmpty, WaitsBlocked, ExitsStopped,
            Steps, poolVars, userVars, Goto
<1>1. ASSUME NEW w \in Workers, Lock(w) \/ GoToSleep(w) \/ Block(w)
      PROVE  WakeInv'
  BY <1>1 DEF Lock, GoToSleep, Block
<1>2. ASSUME NEW w \in Workers, WakeSpuriously(w) \/ Exit(w) \/ Run(w)
      PROVE  WakeInv'
  BY <1>2 DEF WakeSpuriously, Exit, MayExit, Run
<1>3. ASSUME NEW w \in Workers, Pop(w) PROVE WakeInv'
  BY <1>3 DEF Pop
<1>4. ASSUME NEW t \in Tasks, Enqueue(t) PROVE WakeInv'
  <2>1. \A w \in Workers : pc[w] \notin {"test", "sleep"}
    BY <1>4 DEF Enqueue
  <2>2. waiting' \subseteq waiting
    BY <1>4 DEF Enqueue, NotifyOne
  <2>3. QED
    BY <1>4, <2>1, <2>2 DEF Enqueue
<1>5. ASSUME NEW t \in Tasks, Reject(t) PROVE WakeInv'
  BY <1>5 DEF Reject
<1>6. CASE StoreStop \/ NotifyAll \/ Join
  BY <1>6 DEF StoreStop, NotifyAll, Join
<1>7. CASE UNCHANGED vars
  BY <1>7 DEF vars
<1>8. QED
  BY <1>1, <1>2, <1>3, <1>4, <1>5, <1>6, <1>7 DEF Next, Work, Shutdown

LEMMA AwakeInit == Init => NoLostWakeup
BY DEF Init, NoLostWakeup

LEMMA AwakeStep ==
  TypeOK /\ WakeInv /\ NoLostWakeup /\ [Next]_vars => NoLostWakeup'
<1> SUFFICES ASSUME TypeOK, WakeInv, NoLostWakeup, [Next]_vars,
                    ~ stop', tasks' # << >>
             PROVE  \E v \in Workers : Awake(v)'
  BY DEF NoLostWakeup
<1> USE DEF TypeOK, Awake, Steps, poolVars, userVars, Goto
<1>1. ASSUME NEW t \in Tasks, Enqueue(t)
      PROVE  \E v \in Workers : Awake(v)'
  <2>1. CASE waiting = {}
    <3>1. PICK v \in Workers : TRUE
      OBVIOUS
    <3>2. pc[v] \notin {"sleep", "exited"}
      BY <1>1 DEF Enqueue, WakeInv, Holds, ExitsStopped
    <3>3. Awake(v)'
      BY <1>1, <2>1, <3>2 DEF Enqueue, NotifyOne
    <3>4. QED
      BY <3>3
  <2>2. CASE waiting # {}
    <3>1. PICK v \in waiting : waiting' = waiting \ {v}
      BY <1>1, <2>2 DEF Enqueue, NotifyOne
    <3>2. v \in Workers /\ pc[v] = "blocked"
      BY <3>1 DEF WakeInv, WaitsBlocked
    <3>3. Awake(v)'
      BY <1>1, <3>1, <3>2 DEF Enqueue
    <3>4. QED
      BY <3>2, <3>3
  <2>3. QED
    BY <2>1, <2>2
<1>2. ASSUME NEW w \in Workers, Pop(w)
      PROVE  \E v \in Workers : Awake(v)'
  BY <1>2 DEF Pop
<1>3. ASSUME NEW w \in Workers, GoToSleep(w) \/ Block(w) \/ Exit(w)
      PROVE  FALSE
  BY <1>3 DEF GoToSleep, Block, Exit, MayExit, WakeInv, SleepsOnEmpty
<1>4. ASSUME NEW w \in Workers, Lock(w) \/ Run(w) \/ WakeSpuriously(w)
      PROVE  \E v \in Workers : Awake(v)'
  <2>1. PICK v \in Workers : Awake(v)
    BY <1>4 DEF NoLostWakeup, Lock, Run, WakeSpuriously
  <2>2. Awake(v)'
    BY <1>4, <2>1 DEF Lock, Run, WakeSpuriously
  <2>3. QED
    BY <2>2
<1>5. ASSUME \/ \E t \in Tasks : Reject(t)
             \/ StoreStop \/ NotifyAll \/ Join \/ UNCHANGED vars
      PROVE  \E v \in Workers : Awake(v)'
  <2>1. PICK v \in Workers : Awake(v)
    BY <1>5 DEF NoLostWakeup, Reject, StoreStop, NotifyAll, Join, vars
  <2>2. Awake(v)'
    BY <1>5, <2>1 DEF Reject, StoreStop, NotifyAll, Join, vars
  <2>3. QED
    BY <2>2
<1>6. QED
  BY <1>1, <1>2, <1>3, <1>4, <1>5 DEF Next, Work, Shutdown

(* While the pool is open, a queued task always finds a worker running or   *)
(* on its way to the queue (enqueue's notify_one against the worker's wait).*)
THEOREM NoLostWakeupAlways == Spec => []NoLostWakeup
<1>1. TypeInv => TypeOK
  BY DEF TypeInv
<1>2. QED
  BY TypeInit, TypeStep, WakeInit, WakeStep, AwakeInit, AwakeStep, <1>1, PTL
     DEF Spec

-----------------------------------------------------------------------------
(* A queued task is queued once and was neither started nor refused.        *)
QueueInv ==
  /\ started \cup refused \subseteq submitted
  /\ \A i \in 1 .. Len(tasks) :
       tasks[i] \in submitted /\ tasks[i] \notin started \cup refused
  /\ \A i, j \in 1 .. Len(tasks) : tasks[i] = tasks[j] => i = j

LEMMA QueueInit == Init => QueueInv /\ Queue!Init
BY DEF Init, QueueInv, Queue!Init

(* One step preserves QueueInv and is a step of TaskQueue or none at all.   *)
LEMMA QueueStep ==
  TypeOK /\ QueueInv /\ [Next]_vars
    => QueueInv' /\ [Queue!Next]_(Queue!queueVars)
<1> SUFFICES ASSUME TypeOK, QueueInv, [Next]_vars
             PROVE  QueueInv' /\ [Queue!Next]_(Queue!queueVars)
  OBVIOUS
<1> USE DEF QueueInv, poolVars, userVars, Queue!queueVars
<1>1. ASSUME NEW t \in Tasks, Enqueue(t)
      PROVE  QueueInv' /\ [Queue!Next]_(Queue!queueVars)
  <2>1. /\ Len(tasks') = Len(tasks) + 1
        /\ \A i \in 1 .. Len(tasks) : tasks'[i] = tasks[i]
        /\ tasks'[Len(tasks) + 1] = t
    BY <1>1, AppendProperties DEF Enqueue, TypeOK
  <2>2. Len(tasks) \in Nat /\ t \notin submitted
    BY <1>1 DEF Enqueue, TypeOK
  <2>3. \A i \in 1 .. Len(tasks') : i \in 1 .. Len(tasks) \/ i = Len(tasks) + 1
    BY <2>1, <2>2
  <2>4. QueueInv'
    BY <1>1, <2>1, <2>2, <2>3 DEF Enqueue
  <2>5. DOMAIN tasks = 1 .. Len(tasks) /\ Len(tasks) < MaxQueue
    BY <1>1, <2>2 DEF Enqueue, Full, TypeOK
  <2>6. Queue!Accept(t)
    BY <1>1, <2>2, <2>5 DEF Enqueue, Queue!Accept, Queue!New
  <2>7. QED
    BY <2>4, <2>6 DEF Queue!Next
<1>2. ASSUME NEW t \in Tasks, Reject(t)
      PROVE  QueueInv' /\ [Queue!Next]_(Queue!queueVars)
  <2>1. t \notin submitted /\ DOMAIN tasks = 1 .. Len(tasks)
    BY <1>2 DEF Reject, TypeOK
  <2>2. Len(tasks) = MaxQueue
    BY <1>2 DEF Reject, Full, TypeOK
  <2>3. Queue!Refuse(t)
    BY <1>2, <2>1, <2>2 DEF Reject, Queue!Refuse, Queue!New
  <2>4. QueueInv'
    BY <1>2, <2>1 DEF Reject
  <2>5. QED
    BY <2>3, <2>4 DEF Queue!Next
<1>3. ASSUME NEW w \in Workers, Pop(w)
      PROVE  QueueInv' /\ [Queue!Next]_(Queue!queueVars)
  <2>1. /\ Len(tasks') = Len(tasks) - 1
        /\ \A i \in 1 .. Len(tasks') : tasks'[i] = tasks[i + 1]
    BY <1>3, HeadTailProperties DEF Pop, Popped, TypeOK
  <2>2. /\ Len(tasks) \in Nat \ {0}
        /\ Head(tasks) = tasks[1]
    BY <1>3 DEF Pop, TypeOK
  <2>3. \A i \in 1 .. Len(tasks') :
          i + 1 \in 1 .. Len(tasks) /\ i + 1 # 1
    BY <2>1, <2>2
  <2>4. 1 \in 1 .. Len(tasks)
    BY <2>2
  <2>5. QueueInv'
    BY <1>3, <2>1, <2>2, <2>3, <2>4 DEF Pop
  <2>6. Queue!Start
    BY <1>3, <2>2, <2>4 DEF Pop, Popped, Queue!Start
  <2>7. QED
    BY <2>5, <2>6 DEF Queue!Next
<1>4. ASSUME NEW w \in Workers, Lock(w) \/ GoToSleep(w) \/ Block(w)
      PROVE  UNCHANGED <<tasks, started, refused, submitted>>
  BY <1>4 DEF Lock, GoToSleep, Block
<1>5. ASSUME NEW w \in Workers, WakeSpuriously(w) \/ Exit(w) \/ Run(w)
      PROVE  UNCHANGED <<tasks, started, refused, submitted>>
  BY <1>5 DEF WakeSpuriously, Exit, Run
<1>6. CASE StoreStop \/ NotifyAll \/ Join \/ UNCHANGED vars
  <2>1. UNCHANGED <<tasks, started, refused, submitted>>
    BY <1>6 DEF StoreStop, NotifyAll, Join, vars
  <2>2. QED
    BY <2>1
<1>7. QED
  BY <1>1, <1>2, <1>3, <1>4, <1>5, <1>6 DEF Next, Work, Shutdown

(* The pool implements the bounded FIFO its users rely on.                  *)
THEOREM ImplementsQueueAlways == Spec => ImplementsQueue
<1>1. TypeInv => TypeOK
  BY DEF TypeInv
<1>2. QED
  BY TypeInit, TypeStep, QueueInit, QueueStep, <1>1, PTL
     DEF Spec, ImplementsQueue, Queue!Spec

-----------------------------------------------------------------------------
(* A task accepted before the shutdown is queued, with a worker, or done.   *)
Queued(t) == \E i \in 1 .. Len(tasks) : tasks[i] = t

Running(t) == \E w \in Workers : pc[w] = "run" /\ task[w] = t

EarlyInv == early \subseteq submitted /\ \A t \in early : t \in done \/ Running(t) \/ Queued(t)

(* A worker that leaves has seen the last of them gone from the queue, and  *)
(* none can join it any more, as stop_ is set.                              *)
ExitInv ==
  \A w \in Workers : pc[w] = "exited" =>
    stop /\ \A i \in 1 .. Len(tasks) : tasks[i] \notin early

ClosedInv == closer = "closed" => \A w \in Workers : pc[w] = "exited"

DrainInv == EarlyInv /\ ExitInv /\ ClosedInv

LEMMA DrainInit == Init => DrainInv
BY DEF Init, DrainInv, EarlyInv, ExitInv, ClosedInv

LEMMA PopDrains ==
  ASSUME TypeOK, DrainInv, NEW w \in Workers, Pop(w)
  PROVE  DrainInv'
<1>1. /\ Len(tasks') = Len(tasks) - 1 /\ Len(tasks) \in Nat \ {0}
      /\ \A i \in 1 .. Len(tasks') : tasks'[i] = tasks[i + 1]
      /\ Head(tasks) = tasks[1]
  BY HeadTailProperties DEF Pop, Popped, TypeOK
<1>2. /\ pc[w] = "test" /\ pc' = [pc EXCEPT ![w] = "run"]
      /\ task' = [task EXCEPT ![w] = Head(tasks)]
      /\ UNCHANGED <<early, submitted, done, stop, closer>>
  BY DEF Pop, Goto, userVars
<1>3. /\ pc'[w] = "run" /\ task'[w] = Head(tasks)
      /\ \A v \in Workers : v # w => pc'[v] = pc[v] /\ task'[v] = task[v]
  BY <1>2 DEF TypeOK
<1>4. ASSUME NEW t, Queued(t) PROVE Running(t)' \/ Queued(t)'
  <2>1. PICK i \in 1 .. Len(tasks) : tasks[i] = t
    BY <1>4 DEF Queued
  <2>2. CASE i = 1
    BY <1>1, <1>3, <2>1, <2>2 DEF Running
  <2>3. CASE i # 1
    <3>1. i - 1 \in 1 .. Len(tasks') /\ (i - 1) + 1 = i
      BY <1>1, <2>3
    <3>2. tasks'[i - 1] = t
      BY <1>1, <2>1, <3>1
    <3>3. QED
      BY <3>1, <3>2 DEF Queued
  <2>4. QED
    BY <2>2, <2>3
<1>5. \A t : Running(t) => Running(t)'
  BY <1>2, <1>3 DEF Running
<1>6. EarlyInv'
  BY <1>2, <1>4, <1>5 DEF DrainInv, EarlyInv
<1>7. \A i \in 1 .. Len(tasks') : i + 1 \in 1 .. Len(tasks)
  BY <1>1
<1>8. ExitInv'
  BY <1>1, <1>2, <1>3, <1>7 DEF DrainInv, ExitInv
<1>9. ClosedInv'
  BY <1>2, <1>3 DEF DrainInv, ClosedInv
<1>10. QED
  BY <1>6, <1>8, <1>9 DEF DrainInv

LEMMA EnqueueDrains ==
  ASSUME TypeOK, DrainInv, NEW t \in Tasks, Enqueue(t)
  PROVE  DrainInv'
<1>1. /\ Len(tasks') = Len(tasks) + 1 /\ Len(tasks) \in Nat
      /\ \A i \in 1 .. Len(tasks) : tasks'[i] = tasks[i]
      /\ tasks'[Len(tasks) + 1] = t
  BY AppendProperties DEF Enqueue, TypeOK
<1>2. /\ submitted' = submitted \cup {t} /\ t \notin submitted
      /\ early' = IF stop THEN early ELSE early \cup {t}
      /\ closer # "closed"
      /\ UNCHANGED <<pc, task, done, stop, closer>>
  BY DEF Enqueue
<1>3. Queued(t)' /\ \A u : Queued(u) => Queued(u)'
  BY <1>1 DEF Queued
<1>4. \A u : Running(u)' <=> Running(u)
  BY <1>2 DEF Running
<1>5. EarlyInv'
  BY <1>2, <1>3, <1>4 DEF DrainInv, EarlyInv
<1>6. \A i \in 1 .. Len(tasks') : i \in 1 .. Len(tasks) \/ i = Len(tasks) + 1
  BY <1>1
<1>7. ExitInv'
  BY <1>1, <1>2, <1>6 DEF DrainInv, ExitInv, EarlyInv
<1>8. ClosedInv'
  BY <1>2 DEF ClosedInv
<1>9. QED
  BY <1>5, <1>7, <1>8 DEF DrainInv

LEMMA DrainStep == TypeOK /\ DrainInv /\ [Next]_vars => DrainInv'
<1> SUFFICES ASSUME TypeOK, DrainInv, [Next]_vars PROVE DrainInv'
  OBVIOUS
<1>1. ASSUME NEW w \in Workers, Lock(w) \/ GoToSleep(w) \/ Block(w) PROVE DrainInv'
  <2>1. /\ pc[w] \notin {"run", "exited"} /\ pc' \in [Workers -> Steps]
        /\ pc'[w] \notin {"run", "exited"}
        /\ \A v \in Workers : v # w => pc'[v] = pc[v]
        /\ UNCHANGED <<tasks, task, stop, closer, submitted, early, done>>
    BY <1>1 DEF TypeOK, Steps, Lock, GoToSleep, Block, Goto, userVars, poolVars
  <2>2. \A u : (Running(u)' <=> Running(u)) /\ (Queued(u)' <=> Queued(u))
    BY <2>1 DEF Running, Queued
  <2>3. QED
    BY <2>1, <2>2 DEF DrainInv, EarlyInv, ExitInv, ClosedInv
<1>2. ASSUME NEW w \in Workers, Run(w) PROVE DrainInv'
  <2>1. /\ pc[w] = "run" /\ pc'[w] = "lock" /\ done' = done \cup {task[w]}
        /\ \A v \in Workers : v # w => pc'[v] = pc[v] /\ task'[v] = task[v]
        /\ UNCHANGED <<tasks, stop, closer, submitted, early>>
    BY <1>2 DEF TypeOK, Run, Goto, userVars, poolVars
  <2>2. \A u : (Running(u) => Running(u)' \/ u \in done') /\ (Queued(u)' <=> Queued(u))
    BY <2>1 DEF Running, Queued
  <2>3. QED
    BY <2>1, <2>2 DEF DrainInv, EarlyInv, ExitInv, ClosedInv
<1>3. ASSUME NEW w \in Workers, Exit(w) PROVE DrainInv'
  <2>1. /\ pc[w] = "test" /\ pc'[w] = "exited" /\ stop /\ Len(tasks) = 0
        /\ \A v \in Workers : v # w => pc'[v] = pc[v]
        /\ UNCHANGED <<tasks, task, stop, closer, submitted, early, done>>
    BY <1>3 DEF TypeOK, Exit, MayExit, Goto, userVars
  <2>2. \A u : (Running(u) => Running(u)') /\ (Queued(u)' <=> Queued(u))
    BY <2>1 DEF Running, Queued
  <2>3. QED
    BY <2>1, <2>2 DEF DrainInv, EarlyInv, ExitInv, ClosedInv
<1>4. ASSUME \/ \E w \in Workers : WakeSpuriously(w)
             \/ \E t \in Tasks : Reject(t)
             \/ StoreStop \/ NotifyAll \/ Join \/ UNCHANGED vars
      PROVE  DrainInv'
  <2>1. /\ UNCHANGED <<tasks, pc, task, early, done>>
        /\ submitted \subseteq submitted' /\ (stop => stop')
        /\ closer' = "closed" => closer = "closed" \/ \A w \in Workers : pc[w] = "exited"
    BY <1>4 DEF WakeSpuriously, Reject, StoreStop, NotifyAll, Join, vars, poolVars, userVars
  <2>2. \A u : (Running(u)' <=> Running(u)) /\ (Queued(u)' <=> Queued(u))
    BY <2>1 DEF Running, Queued
  <2>3. QED
    BY <2>1, <2>2 DEF DrainInv, EarlyInv, ExitInv, ClosedInv
<1>5. QED
  BY <1>1, <1>2, <1>3, <1>4, PopDrains, EnqueueDrains DEF Next, Work, Shutdown

(* A pool that is closed has run every task accepted before its shutdown.   *)
THEOREM ClosedIsDrainedAlways == Spec => []ClosedIsDrained
<1>1. TypeInv => TypeOK
  BY DEF TypeInv
<1>2. DrainInv => ClosedIsDrained
  <2>1. SUFFICES ASSUME DrainInv, closer = "closed", NEW t \in early PROVE t \in done
    BY DEF ClosedIsDrained
  <2>2. PICK w \in Workers : TRUE
    OBVIOUS
  <2>3. ~ Running(t) /\ ~ Queued(t)
    BY <2>1, <2>2 DEF DrainInv, ExitInv, ClosedInv, Running, Queued
  <2>4. QED
    BY <2>1, <2>3 DEF DrainInv, EarlyInv
<1>3. QED
  BY TypeInit, TypeStep, DrainInit, DrainStep, <1>1, <1>2, PTL DEF Spec

-----------------------------------------------------------------------------
(* A task with a worker was popped and has not finished, no other worker    *)
(* has it, and a refused task reaches no worker (thread_pool.cpp:14-26,     *)
(* 36-39), however the workers, enqueue and shutdown interleave.            *)
RunsOnce ==
  /\ \A w \in Workers : pc[w] = "run" => task[w] \in started \ done
  /\ \A v, w \in Workers :
       pc[v] = "run" /\ pc[w] = "run" /\ task[v] = task[w] => v = w
  /\ done \subseteq started /\ started \cap refused = {}

LEMMA OnceInit == Init => RunsOnce
BY DEF Init, RunsOnce

LEMMA OnceStep == TypeOK /\ QueueInv /\ RunsOnce /\ [Next]_vars => RunsOnce'
<1> SUFFICES ASSUME TypeOK, QueueInv, RunsOnce, [Next]_vars PROVE RunsOnce'
  OBVIOUS
<1>1. ASSUME NEW w \in Workers, Pop(w) PROVE RunsOnce'
  <2>1. Len(tasks) \in Nat \ {0} /\ Head(tasks) = tasks[1]
    BY <1>1 DEF Pop, TypeOK
  <2>2. Head(tasks) \notin started \cup refused
    BY <2>1 DEF QueueInv
  <2>3. /\ pc'[w] = "run" /\ task'[w] = Head(tasks)
        /\ \A v \in Workers : v # w => pc'[v] = pc[v] /\ task'[v] = task[v]
        /\ started' = started \cup {Head(tasks)}
        /\ UNCHANGED <<done, refused>>
    BY <1>1 DEF Pop, Goto, TypeOK, userVars
  <2>4. Head(tasks) \notin done
    BY <2>2 DEF RunsOnce
  <2>5. \A v \in Workers : v # w /\ pc'[v] = "run" => task'[v] # task'[w]
    BY <2>2, <2>3 DEF RunsOnce
  <2>6. \A v \in Workers : pc'[v] = "run" => task'[v] \in started' \ done'
    BY <2>2, <2>3, <2>4 DEF RunsOnce
  <2>7. \A u, v \in Workers :
          pc'[u] = "run" /\ pc'[v] = "run" /\ task'[u] = task'[v] => u = v
    BY <2>3, <2>5 DEF RunsOnce
  <2>8. done' \subseteq started' /\ started' \cap refused' = {}
    BY <2>2, <2>3 DEF RunsOnce
  <2>9. QED
    BY <2>6, <2>7, <2>8 DEF RunsOnce
<1>2. ASSUME NEW w \in Workers, Run(w) PROVE RunsOnce'
  <2>1. /\ pc[w] = "run" /\ pc'[w] = "lock" /\ done' = done \cup {task[w]}
        /\ \A v \in Workers : v # w => pc'[v] = pc[v] /\ task'[v] = task[v]
        /\ UNCHANGED <<started, refused>>
    BY <1>2 DEF Run, Goto, TypeOK, userVars
  <2>2. \A v \in Workers : pc'[v] = "run" => v # w /\ pc[v] = "run" /\ task[v] # task[w]
    BY <2>1 DEF RunsOnce
  <2>3. \A v \in Workers : pc'[v] = "run" => task'[v] \in started' \ done'
    BY <2>1, <2>2 DEF RunsOnce
  <2>4. QED
    BY <2>1, <2>2, <2>3 DEF RunsOnce
<1>3. ASSUME NEW t \in Tasks, Reject(t) PROVE RunsOnce'
  <2>1. t \notin started
    BY <1>3 DEF Reject, QueueInv
  <2>2. UNCHANGED <<pc, task, started, done>> /\ refused' = refused \cup {t}
    BY <1>3 DEF Reject
  <2>3. QED
    BY <2>1, <2>2 DEF RunsOnce
<1>4. ASSUME NEW w \in Workers, Lock(w) \/ GoToSleep(w) \/ Block(w) \/ Exit(w)
      PROVE  RunsOnce'
  <2>1. /\ pc'[w] # "run" /\ \A v \in Workers : v # w => pc'[v] = pc[v]
        /\ UNCHANGED <<task, started, done, refused>>
    BY <1>4 DEF Lock, GoToSleep, Block, Exit, Goto, TypeOK, userVars
  <2>2. QED
    BY <2>1 DEF RunsOnce
<1>5. ASSUME \/ \E w \in Workers : WakeSpuriously(w)
             \/ \E t \in Tasks : Enqueue(t)
             \/ StoreStop \/ NotifyAll \/ Join \/ UNCHANGED vars
      PROVE  RunsOnce'
  <2>1. UNCHANGED <<pc, task, started, done, refused>>
    BY <1>5 DEF WakeSpuriously, Enqueue, StoreStop, NotifyAll, Join, vars, userVars
  <2>2. QED
    BY <2>1 DEF RunsOnce
<1>6. QED
  BY <1>1, <1>2, <1>3, <1>4, <1>5 DEF Next, Work, Shutdown

(* Every task that reaches a worker reaches one worker, once.               *)
THEOREM RunsOnceAlways == Spec => []RunsOnce
<1>1. TypeInv => TypeOK
  BY DEF TypeInv
<1>2. TypeOK /\ QueueInv /\ [Next]_vars => QueueInv'
  BY QueueStep
<1>3. Init => QueueInv
  BY QueueInit
<1>4. QED
  BY TypeInit, TypeStep, OnceInit, OnceStep, <1>1, <1>2, <1>3, PTL DEF Spec

(* What the contract of the queue comes to holds of the pool.               *)
THEOREM EachOnceAlways == Spec => []Queue!EachOnce
<1>1. TypeOK /\ QueueInv /\ RunsOnce => Queue!EachOnce
  <2>1. TypeOK => DOMAIN tasks = 1 .. Len(tasks)
    BY DEF TypeOK
  <2>2. QED
    BY <2>1 DEF QueueInv, RunsOnce, Queue!EachOnce
<1>2. TypeInv => TypeOK
  BY DEF TypeInv
<1>3. TypeOK /\ QueueInv /\ [Next]_vars => QueueInv'
  BY QueueStep
<1>4. Init => QueueInv
  BY QueueInit
<1>5. QED
  BY TypeInit, TypeStep, OnceInit, OnceStep, <1>1, <1>2, <1>3, <1>4, PTL DEF Spec

-----------------------------------------------------------------------------
(* The shutdown.  That it ends is what TLC refutes (ThreadPoolClaims): a    *)
(* worker between its test and its wait misses the notification, which is   *)
(* sent without the mutex.  It is the only one: that worker holds the mutex *)
(* at the time, and no worker that sees stop_ goes to sleep.  So whatever   *)
(* the size of the pool, at most one worker is still asleep while they are  *)
(* joined (thread_pool.cpp:14-19, 57-63).                                   *)
Asleep(w) == pc[w] = "sleep" \/ w \in waiting

OneMissesShutdown ==
  closer \in {"join", "closed"} =>
    \A v, w \in Workers : Asleep(v) /\ Asleep(w) => v = w

MissInv == OneMissesShutdown /\ (closer # "open" => stop)

LEMMA MissInit == Init => MissInv
BY DEF Init, MissInv, OneMissesShutdown

LEMMA MissStep == TypeOK /\ WakeInv /\ MissInv /\ [Next]_vars => MissInv'
<1> SUFFICES ASSUME TypeOK, WakeInv, MissInv, [Next]_vars PROVE MissInv'
  OBVIOUS
<1>1. ASSUME NEW w \in Workers, GoToSleep(w) PROVE MissInv'
  <2>1. ~ stop /\ UNCHANGED <<closer, stop>>
    BY <1>1 DEF GoToSleep, poolVars
  <2>2. closer = "open"
    BY <2>1 DEF MissInv
  <2>3. QED
    BY <2>1, <2>2 DEF MissInv, OneMissesShutdown
<1>2. CASE NotifyAll
  <2>1. stop /\ waiting' = {} /\ UNCHANGED <<pc, stop>>
    BY <1>2 DEF NotifyAll, MissInv
  <2>2. \A v, w \in Workers : pc[v] = "sleep" /\ pc[w] = "sleep" => v = w
    BY DEF WakeInv, Holds
  <2>3. QED
    BY <2>1, <2>2 DEF MissInv, OneMissesShutdown, Asleep
<1>3. ASSUME /\ \A w \in Workers : Asleep(w)' => Asleep(w)
             /\ closer' \in {"join", "closed"} => closer \in {"join", "closed"}
             /\ closer' # "open" => stop'
      PROVE  MissInv'
  BY <1>3 DEF MissInv, OneMissesShutdown
<1>4. ASSUME NEW w \in Workers,
             Lock(w) \/ Block(w) \/ Exit(w) \/ Pop(w) \/ Run(w) \/ WakeSpuriously(w)
      PROVE  MissInv'
  <2>1. \A v \in Workers : Asleep(v)' => Asleep(v)
    BY <1>4 DEF Lock, Block, Exit, Pop, Run, WakeSpuriously, Asleep, Goto, TypeOK, poolVars
  <2>2. UNCHANGED <<closer, stop>>
    BY <1>4 DEF Lock, Block, Exit, Pop, Run, WakeSpuriously, poolVars
  <2>3. QED
    BY <1>3, <2>1, <2>2 DEF MissInv
<1>5. ASSUME NEW t \in Tasks, Enqueue(t) \/ Reject(t) PROVE MissInv'
  <2>1. waiting' \subseteq waiting /\ UNCHANGED <<pc, closer, stop>>
    BY <1>5 DEF Enqueue, NotifyOne, Reject, poolVars
  <2>2. QED
    BY <1>3, <2>1 DEF MissInv, Asleep
<1>6. CASE StoreStop \/ Join \/ UNCHANGED vars
  <2>1. UNCHANGED <<pc, waiting>> /\ (closer' # "open" => stop')
    BY <1>6 DEF StoreStop, Join, vars, poolVars, MissInv
  <2>2. closer' \in {"join", "closed"} => closer \in {"join", "closed"}
    BY <1>6 DEF StoreStop, Join, vars
  <2>3. QED
    BY <1>3, <2>1, <2>2 DEF Asleep
<1>7. QED
  BY <1>1, <1>2, <1>4, <1>5, <1>6 DEF Next, Work, Shutdown

(* At most one worker of a pool of any size can hang its shutdown.          *)
THEOREM OneMissesShutdownAlways == Spec => []OneMissesShutdown
<1>1. TypeInv => TypeOK
  BY DEF TypeInv
<1>2. MissInv => OneMissesShutdown
  BY DEF MissInv
<1>3. QED
  BY TypeInit, TypeStep, WakeInit, WakeStep, MissInit, MissStep, <1>1, <1>2, PTL
     DEF Spec
=============================================================================
