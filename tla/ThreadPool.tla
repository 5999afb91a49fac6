----------------------------- MODULE ThreadPool -----------------------------
(***************************************************************************)
(* class ThreadPool (thread_pool.cpp): workers that wait for tasks on a    *)
(* condition variable, an enqueue that refuses when the queue is full, and *)
(* a shutdown that sets stop_ and notifies without taking the mutex.  The  *)
(* brain's inference pool has one worker, the server's pool four.          *)
(***************************************************************************)
EXTENDS Naturals, Sequences

CONSTANTS
  Workers,  \* the threads of the pool
  Tasks,    \* the tasks submitted to it, each once
  MaxQueue, \* max_queue_
  NoTask,   \* a worker between two tasks
  Free      \* mtx_ held by nobody

ASSUME PoolAssumption ==
  /\ Workers # {}
  /\ MaxQueue \in Nat \ {0}
  /\ NoTask \notin Tasks
  /\ Free \notin Workers

VARIABLES
  mtx,       \* the worker that holds mtx_, or Free
  tasks,     \* tasks_
  stop,      \* stop_
  waiting,   \* the workers blocked in cv_not_empty_
  pc, task,  \* of each worker
  closer,    \* the thread that destroys the pool
  submitted, refused, \* tasks passed to enqueue, and those it refused
  early,     \* history: tasks accepted before stop_ was set
  started, done \* history: tasks started and finished

poolVars == <<tasks, stop, waiting, mtx>>
userVars == <<submitted, refused, early>>
vars == <<poolVars, pc, task, closer, userVars, started, done>>

Steps == {"lock", "test", "sleep", "blocked", "run", "exited"}

Init ==
  /\ mtx = Free /\ tasks = << >> /\ stop = FALSE /\ waiting = {}
  /\ pc = [w \in Workers |-> "lock"] /\ task = [w \in Workers |-> NoTask]
  /\ closer = "open"
  /\ submitted = {} /\ refused = {} /\ early = {}
  /\ started = {} /\ done = {}

Goto(w, step) == pc' = [pc EXCEPT ![w] = step]

(***************************************************************************)
(* A worker.  The predicate of the wait is tested with the mutex held, and *)
(* the mutex is released and the worker blocked in one step.               *)
(***************************************************************************)
Lock(w) ==
  /\ mtx = Free
  /\ \/ pc[w] = "lock"
     \/ pc[w] = "blocked" /\ w \notin waiting
  /\ mtx' = w
  /\ Goto(w, "test")
  /\ UNCHANGED <<tasks, stop, waiting, task, closer, userVars, started, done>>

GoToSleep(w) ==
  /\ pc[w] = "test" /\ ~ stop /\ tasks = << >>
  /\ Goto(w, "sleep")
  /\ UNCHANGED <<poolVars, task, closer, userVars, started, done>>

Block(w) ==
  /\ pc[w] = "sleep"
  /\ waiting' = waiting \cup {w}
  /\ mtx' = Free
  /\ Goto(w, "blocked")
  /\ UNCHANGED <<tasks, stop, task, closer, userVars, started, done>>

(* A condition variable may wake a thread that was not notified.            *)
WakeSpuriously(w) ==
  /\ w \in waiting
  /\ waiting' = waiting \ {w}
  /\ UNCHANGED <<mtx, tasks, stop, pc, task, closer, userVars, started, done>>

MayExit_Always == stop    \* mutant: the queue is not drained at shutdown

MayExit == stop /\ tasks = << >>

Exit(w) ==
  /\ pc[w] = "test" /\ MayExit
  /\ mtx' = Free
  /\ Goto(w, "exited")
  /\ UNCHANGED <<tasks, stop, waiting, task, closer, userVars, started, done>>

Popped_Kept == tasks    \* mutant: front without pop

Popped == Tail(tasks)

Pop(w) ==
  /\ pc[w] = "test" /\ tasks # << >> /\ ~ MayExit
  /\ task' = [task EXCEPT ![w] = Head(tasks)]
  /\ started' = started \cup {Head(tasks)}
  /\ tasks' = Popped
  /\ mtx' = Free
  /\ Goto(w, "run")
  /\ UNCHANGED <<stop, waiting, closer, userVars, done>>

Run(w) ==
  /\ pc[w] = "run"
  /\ done' = done \cup {task[w]}
  /\ task' = [task EXCEPT ![w] = NoTask]
  /\ Goto(w, "lock")
  /\ UNCHANGED <<poolVars, closer, userVars, started>>

(***************************************************************************)
(* enqueue, one section of the mutex with the notification in it.          *)
(***************************************************************************)
NotifyOne_Lost == UNCHANGED waiting    \* mutant: notify_one is not called

NotifyOne ==
  IF waiting = {} THEN UNCHANGED waiting
                  ELSE \E w \in waiting : waiting' = waiting \ {w}

Full_OneTooMany == Len(tasks) > MaxQueue    \* mutant: > for >=

Full == Len(tasks) >= MaxQueue

Enqueue(t) ==
  /\ closer # "closed" /\ mtx = Free /\ t \notin submitted
  /\ ~ Full
  /\ tasks' = Append(tasks, t)
  /\ submitted' = submitted \cup {t}
  /\ early' = IF stop THEN early ELSE early \cup {t}
  /\ NotifyOne
  /\ UNCHANGED <<mtx, stop, pc, task, closer, refused, started, done>>

Reject(t) ==
  /\ closer # "closed" /\ mtx = Free /\ t \notin submitted
  /\ Full
  /\ submitted' = submitted \cup {t}
  /\ refused' = refused \cup {t}
  /\ UNCHANGED <<poolVars, pc, task, closer, early, started, done>>

(***************************************************************************)
(* shutdown, called by the destructor: no step of it takes the mutex.      *)
(***************************************************************************)
StoreStop ==
  /\ closer = "open"
  /\ stop' = TRUE
  /\ closer' = "notify"
  /\ UNCHANGED <<mtx, tasks, waiting, pc, task, userVars, started, done>>

NotifyAll ==
  /\ closer = "notify"
  /\ waiting' = {}
  /\ closer' = "join"
  /\ UNCHANGED <<mtx, tasks, stop, pc, task, userVars, started, done>>

Join ==
  /\ closer = "join" /\ \A w \in Workers : pc[w] = "exited"
  /\ closer' = "closed"
  /\ UNCHANGED <<poolVars, pc, task, userVars, started, done>>

-----------------------------------------------------------------------------
Work(w) == Lock(w) \/ GoToSleep(w) \/ Block(w) \/ Exit(w) \/ Pop(w) \/ Run(w)

Shutdown == NotifyAll \/ Join

Next ==
  \/ \E w \in Workers : Work(w) \/ WakeSpuriously(w)
  \/ \E t \in Tasks : Enqueue(t) \/ Reject(t)
  \/ StoreStop
  \/ Shutdown

Spec == Init /\ [][Next]_vars

(* The threads are scheduled and a task returns: the two pools run lambdas  *)
(* of bounded length.  Nobody has to enqueue or to destroy the pool, and no *)
(* spurious wakeup has to come.                                             *)
FairSpec ==
  Spec /\ WF_vars(Shutdown) /\ \A w \in Workers : WF_vars(Work(w))

-----------------------------------------------------------------------------
TypeOK ==
  /\ mtx \in Workers \cup {Free}
  /\ tasks \in Seq(Tasks) /\ Len(tasks) <= MaxQueue
  /\ stop \in BOOLEAN
  /\ waiting \subseteq Workers
  /\ pc \in [Workers -> Steps]
  /\ task \in [Workers -> Tasks \cup {NoTask}]
  /\ closer \in {"open", "notify", "join", "closed"}
  /\ submitted \subseteq Tasks /\ refused \subseteq Tasks /\ early \subseteq Tasks
  /\ started \subseteq Tasks /\ done \subseteq Tasks

(* No wakeup is lost while the pool is open: whenever a task is queued some *)
(* worker is running or on its way to the queue.  enqueue notifies one      *)
(* worker only, and a worker that finds nothing blocks after its test.      *)
Awake(w) == pc[w] \in {"lock", "test", "run"} \/ (pc[w] = "blocked" /\ w \notin waiting)

NoLostWakeup == ~ stop /\ tasks # << >> => \E w \in Workers : Awake(w)

(* A task accepted before the shutdown began is run, even if it is still    *)
(* queued when stop_ is set: the workers drain the queue before they exit.  *)
AcceptedIsRun == \A t \in Tasks : (t \in early) ~> (t \in done)

(* The destructor returns only after every task that was accepted before    *)
(* the shutdown has run to its end, whichever worker had it, although any   *)
(* worker may leave as soon as it sees stop_ and an empty queue, and        *)
(* enqueue goes on accepting tasks beside the joins.                        *)
ClosedIsDrained == closer = "closed" => early \subseteq done

(* The pool implements TaskQueue: at most one worker starts each accepted   *)
(* task, in the order of acceptance, whatever the two condition variables,  *)
(* the shutdown and the other workers do.                                   *)
Queue == INSTANCE TaskQueue WITH pending <- tasks

ImplementsQueue == Queue!Spec
=============================================================================
