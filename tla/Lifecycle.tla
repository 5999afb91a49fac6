------------------------------ MODULE Lifecycle ------------------------------
(***************************************************************************)
(* The life of the process (main.cpp): the main thread builds the node,    *)
(* the server and the brain, serves, and takes everything down again while *)
(* the threads it has started still run,                                   *)
(*                                                                         *)
(*   spin   - ros_spin_thread, the executor of RosNode;                    *)
(*   tick   - the control loop, on the thread of RegisterRealtimeTick or   *)
(*            on a timer of the executor (RegisterBrainTick);              *)
(*   worker - the only worker of the brain's inference_pool_;              *)
(*   server_pool - the workers of the server's pool_, in which nothing is  *)
(*            ever enqueued, as one: at most one of them misses a shutdown *)
(*            (OneMissesShutdown of ThreadPoolProofs).                     *)
(*                                                                         *)
(* main is the stage the main thread has reached.  Serving ends only when  *)
(* a handler throws: g_shutdown_requested is read by nobody.  The runtime  *)
(* of gRPC, the ROS context and the clients are external.                  *)
(***************************************************************************)
EXTENDS BufferPool

CONSTANT MaxCalls   \* bound on the calls that are open at once, for TLC

ASSUME CallsAssumption == MaxCalls \in Nat

(* What a tick or an inference uses of the brain: policy_model_,            *)
(* inference_pool_, tensor_pool_, and the vectors and metrics.              *)
Members == {"model", "pool", "buffers", "state"}

VARIABLES
  main, server, open,  \* open: calls whose clients have not left
  server_pool,
  node, context, spin, \* the RosNode, rclcpp's context, the spin thread
  mode, tick, rt_running, submitted,  \* submitted: frames in the pool's queue
  brain, worker, stop, \* brain: the members that are alive
  g_shutdown_requested,
  threw                \* history: a handler threw

callVars   == <<server, open, server_pool>>
rosVars    == <<node, context, spin>>
tickVars   == <<mode, tick, rt_running>>
workerVars == <<worker, stop, submitted, bufferVars>>
flagVars   == <<g_shutdown_requested, threw>>
vars == <<main, callVars, rosVars, tickVars, brain, workerVars, flagVars>>

Stages == {"config", "node", "spin", "listen", "server_pool", "model", "pool", "buffers",
           "state", "register", "serve", "close", "unwind", "join_worker",
           "join_pool", "context", "join_spin", "return", "join_tick", "exit", "crashed"}

(* rclcpp::init has run; config.yaml, read first, chooses the mode.         *)
Init ==
  /\ main = "config" /\ server = "none" /\ open = 0 /\ server_pool = "none"
  /\ node = "none" /\ context = TRUE /\ spin = "none"
  /\ mode \in {"rt", "timer"} /\ tick = "none" /\ rt_running = FALSE
  /\ brain = {} /\ worker = "none" /\ stop = FALSE /\ submitted = 0
  /\ NoBuffers
  /\ g_shutdown_requested = FALSE /\ threw = FALSE

Step(from, to) == main = from /\ main' = to

(***************************************************************************)
(* main, up to GrpcServer::Run.                                            *)
(***************************************************************************)
LoadConfig ==
  /\ Step("config", "node")
  /\ UNCHANGED <<callVars, rosVars, tickVars, brain, workerVars, flagVars>>

(* LoadConfig or the constructor of the node throws: nothing has started.   *)
StartupThrows ==
  /\ main \in {"config", "node"} /\ main' = "context"
  /\ UNCHANGED <<callVars, rosVars, tickVars, brain, workerVars, flagVars>>

MakeNode ==
  /\ Step("node", "spin")
  /\ node' = "alive"
  /\ UNCHANGED <<callVars, context, spin, tickVars, brain, workerVars, flagVars>>

StartSpin ==
  /\ Step("spin", "listen")
  /\ spin' = "running"
  /\ UNCHANGED <<callVars, node, context, tickVars, brain, workerVars, flagVars>>

Listen ==
  /\ Step("listen", "server_pool")
  /\ server' = "listening"
  /\ UNCHANGED <<open, server_pool, rosVars, tickVars, brain, workerVars, flagVars>>

(* BuildAndStart returns null and Run returns.                              *)
ListenFails ==
  /\ Step("listen", "close")
  /\ UNCHANGED <<callVars, rosVars, tickVars, brain, workerVars, flagVars>>

MakePool ==
  /\ Step("server_pool", "model")
  /\ server_pool' = "idle"
  /\ UNCHANGED <<server, open, rosVars, tickVars, brain, workerVars, flagVars>>

(* A worker cannot be started: the first is an exception, a later one ends  *)
(* the process, as the vector destroys threads that nobody has joined.      *)
PoolThrows ==
  /\ \/ Step("server_pool", "close") /\ UNCHANGED spin
     \/ Step("server_pool", "crashed") /\ spin' = "done"
  /\ UNCHANGED <<callVars, node, context, tickVars, brain, workerVars, flagVars>>

(***************************************************************************)
(* The constructor of AIBrain.                                             *)
(***************************************************************************)
BuildModel ==
  /\ Step("model", "pool")
  /\ brain' = brain \cup {"model"}
  /\ UNCHANGED <<callVars, rosVars, tickVars, workerVars, flagVars>>

BuildPool ==
  /\ Step("pool", "buffers")
  /\ brain' = brain \cup {"pool"}
  /\ worker' = "idle"
  /\ UNCHANGED <<callVars, rosVars, tickVars, stop, submitted, bufferVars, flagVars>>

BuildBuffers_RegistersNext ==    \* mutant: the tick is registered too early
  /\ Step("buffers", "register")
  /\ brain' = brain \cup {"buffers"}
  /\ Allocate
  /\ UNCHANGED <<callVars, rosVars, tickVars, worker, stop, submitted, flagVars>>

BuildBuffers ==
  /\ Step("buffers", "state")
  /\ brain' = brain \cup {"buffers"}
  /\ Allocate
  /\ UNCHANGED <<callVars, rosVars, tickVars, worker, stop, submitted, flagVars>>

BuildState ==
  /\ Step("state", "register")
  /\ brain' = brain \cup {"state"}
  /\ UNCHANGED <<callVars, rosVars, tickVars, workerVars, flagVars>>

(* The last statement of the constructor starts the control loop.           *)
Register ==
  /\ Step("register", "serve")
  /\ tick' = "armed"
  /\ rt_running' = (mode = "rt")
  /\ UNCHANGED <<callVars, rosVars, mode, brain, workerVars, flagVars>>

(* The model cannot be loaded, or a thread cannot be started: the members   *)
(* built so far are destroyed, and then the server.                         *)
BuildThrows ==
  /\ main \in {"model", "pool", "register"} /\ main' = "unwind"
  /\ UNCHANGED <<callVars, rosVars, tickVars, brain, workerVars, flagVars>>

(***************************************************************************)
(* HandleRpcs.  Its loop ends only by an exception of a handler, such as   *)
(* the publisher's in an emergency stop; the call stays unanswered.        *)
(***************************************************************************)
Call ==
  /\ main = "serve" /\ open < MaxCalls
  /\ open' = open + 1
  /\ UNCHANGED <<main, server, server_pool, rosVars, tickVars, brain, workerVars, flagVars>>

(* A call is answered, or its client leaves, also while the server closes.  *)
Leave ==
  /\ open > 0
  /\ open' = open - 1
  /\ UNCHANGED <<main, server, server_pool, rosVars, tickVars, brain, workerVars, flagVars>>

HandlerThrows ==
  /\ Step("serve", "close") /\ open > 0
  /\ threw' = TRUE
  /\ UNCHANGED <<callVars, rosVars, tickVars, brain, workerVars,
                 g_shutdown_requested>>

(***************************************************************************)
(* The way down.  ~GrpcServer first waits, with no deadline, for the calls *)
(* that are open, then the members of the brain go in the reverse order of *)
(* their declaration, the worker joined last of all, and then the pool_.   *)
(***************************************************************************)
Close ==
  /\ Step("close", "unwind") /\ open = 0
  /\ server' = "closed"
  /\ UNCHANGED <<open, server_pool, rosVars, tickVars, brain, workerVars, flagVars>>

DestroyState ==
  /\ main = "unwind" /\ "state" \in brain
  /\ brain' = brain \ {"state"}
  /\ UNCHANGED <<main, callVars, rosVars, tickVars, workerVars, flagVars>>

DestroyBuffers ==
  /\ main = "unwind" /\ "buffers" \in brain /\ "state" \notin brain
  /\ brain' = brain \ {"buffers"}
  /\ free' = 0
  /\ UNCHANGED <<main, callVars, rosVars, tickVars, worker, stop, submitted,
                 loan, flagVars>>

DestroyModel ==
  /\ main = "unwind" /\ "model" \in brain /\ brain \subseteq {"model", "pool"}
  /\ brain' = brain \ {"model"}
  /\ UNCHANGED <<main, callVars, rosVars, tickVars, workerVars, flagVars>>

(* A worker between its test of stop_ and its wait misses the notification. *)
StopWorker ==
  /\ Step("unwind", "join_worker") /\ brain = {"pool"}
  /\ stop' = TRUE
  /\ worker' \in IF worker = "idle" THEN {"idle", "lost"} ELSE {worker}
  /\ UNCHANGED <<callVars, rosVars, tickVars, brain, submitted, bufferVars,
                 flagVars>>

JoinWorker ==
  /\ Step("join_worker", "unwind") /\ worker = "done"
  /\ brain' = {}
  /\ UNCHANGED <<callVars, rosVars, tickVars, workerVars, flagVars>>

(* ThreadPool::shutdown again, for the workers of pool_: one of them may    *)
(* miss the notification.                                                   *)
StopPool ==
  /\ Step("unwind", "join_pool") /\ brain = {}
  /\ server = "closed" /\ server_pool = "idle"
  /\ server_pool' \in {"stopping", "lost"}
  /\ UNCHANGED <<server, open, rosVars, tickVars, brain, workerVars, flagVars>>

JoinPool ==
  /\ Step("join_pool", "unwind") /\ server_pool = "done"
  /\ UNCHANGED <<callVars, rosVars, tickVars, brain, workerVars, flagVars>>

(* The brain is gone: ~GrpcServer comes next, if it was its constructor     *)
(* that threw, else the server is gone too.                                 *)
Unwound ==
  /\ main = "unwind" /\ brain = {}
  /\ IF server = "closed"
     THEN main' = "context" /\ server_pool \in {"none", "done"}
     ELSE main' = "close"
  /\ UNCHANGED <<callVars, rosVars, tickVars, brain, workerVars, flagVars>>

(* rclcpp::shutdown, then ros_spin_thread.join().                           *)
ShutdownContext_Missing ==    \* mutant: rclcpp::shutdown is not called
  /\ Step("context", "join_spin")
  /\ UNCHANGED <<callVars, node, context, spin, tickVars, brain, workerVars,
                 flagVars>>

ShutdownContext ==
  /\ Step("context", "join_spin")
  /\ context' = FALSE
  /\ UNCHANGED <<callVars, node, spin, tickVars, brain, workerVars, flagVars>>

JoinSpin ==
  /\ Step("join_spin", "return") /\ spin # "running"
  /\ UNCHANGED <<callVars, rosVars, tickVars, brain, workerVars, flagVars>>

(* main returns and ~RosNode stops the realtime thread, if there is one.    *)
ReturnWithoutNode ==
  /\ Step("return", "exit") /\ node = "none"
  /\ UNCHANGED <<callVars, rosVars, tickVars, brain, workerVars, flagVars>>

StopTick ==
  /\ Step("return", "join_tick") /\ node = "alive"
  /\ rt_running' = FALSE
  /\ UNCHANGED <<callVars, rosVars, mode, tick, brain, workerVars, flagVars>>

JoinTick_Detached ==    \* mutant: rt_thread_ is not joined
  /\ Step("join_tick", "exit")
  /\ node' = "gone"
  /\ UNCHANGED <<callVars, context, spin, tickVars, brain, workerVars, flagVars>>

JoinTick ==
  /\ Step("join_tick", "exit")
  /\ mode = "rt" => tick \in {"none", "done"}
  /\ node' = "gone"
  /\ UNCHANGED <<callVars, context, spin, tickVars, brain, workerVars, flagVars>>

(***************************************************************************)
(* The other threads.  A tick submits a frame if none is under way; it is  *)
(* AIBrain that says what else it does.                                    *)
(***************************************************************************)
StartTick ==
  /\ tick = "armed" /\ (mode = "timer" => spin = "running" /\ context)
  /\ tick' = "ticking"
  /\ UNCHANGED <<main, callVars, rosVars, mode, rt_running, brain, workerVars,
                 flagVars>>

SubmitFrame ==
  /\ tick = "ticking" /\ "pool" \in brain
  /\ submitted = 0 /\ worker # "infer"
  /\ submitted' = 1
  /\ worker' = IF worker = "lost" THEN "idle" ELSE worker
  /\ UNCHANGED <<main, callVars, rosVars, tickVars, brain, stop, bufferVars,
                 flagVars>>

EndTick ==
  /\ tick = "ticking"
  /\ tick' = IF mode = "rt" /\ ~ rt_running THEN "done" ELSE "armed"
  /\ UNCHANGED <<main, callVars, rosVars, mode, rt_running, brain, workerVars,
                 flagVars>>

(* The executor returns when the context is down, and its timers with it.   *)
SpinEnds ==
  /\ spin = "running" /\ ~ context
  /\ mode = "timer" => tick # "ticking"
  /\ spin' = "done"
  /\ tick' = IF mode = "timer" /\ tick = "armed" THEN "done" ELSE tick
  /\ UNCHANGED <<main, callVars, node, context, mode, rt_running, brain,
                 workerVars, flagVars>>

(* The lambda holds a buffer for as long as it runs.                        *)
StartInference ==
  /\ worker = "idle" /\ submitted = 1
  /\ worker' = "infer" /\ submitted' = 0
  /\ IF "buffers" \in brain THEN Acquire ELSE UNCHANGED bufferVars
  /\ UNCHANGED <<main, callVars, rosVars, tickVars, brain, stop, flagVars>>

EndInference ==
  /\ worker = "infer"
  /\ worker' = "idle"
  /\ IF "buffers" \in brain THEN GiveBack ELSE loan' = "none" /\ UNCHANGED free
  /\ UNCHANGED <<main, callVars, rosVars, tickVars, brain, stop, submitted,
                 flagVars>>

WorkerExits ==
  /\ worker = "idle" /\ stop /\ submitted = 0
  /\ worker' = "done"
  /\ UNCHANGED <<main, callVars, rosVars, tickVars, brain, stop, submitted,
                 bufferVars, flagVars>>

PoolExits ==
  /\ server_pool = "stopping"
  /\ server_pool' = "done"
  /\ UNCHANGED <<main, server, open, rosVars, tickVars, brain, workerVars, flagVars>>

(* A thread that uses a member which is gone may get away with it, as in    *)
(* the actions above, or take the process down.                             *)
Dangling ==
  \/ tick = "ticking" /\ brain # Members
  \/ worker = "infer" /\ ~ {"model", "buffers", "state"} \subseteq brain

Crash ==
  /\ Dangling
  /\ main' = "crashed" /\ spin' = "done" /\ tick' = "done" /\ worker' = "done"
  /\ server_pool' = "done" /\ brain' = {}
  /\ UNCHANGED <<server, open, node, context, mode, rt_running, stop,
                 submitted, bufferVars, flagVars>>

(* SignalHandler; the handler that rclcpp::init installs may also take its  *)
(* context down.                                                            *)
SignalHandler ==
  /\ ~ g_shutdown_requested
  /\ g_shutdown_requested' = TRUE
  /\ UNCHANGED <<main, callVars, rosVars, tickVars, brain, workerVars, threw>>

SignalShutsContext ==
  /\ g_shutdown_requested /\ context
  /\ context' = FALSE
  /\ UNCHANGED <<main, callVars, node, spin, tickVars, brain, workerVars, flagVars>>

-----------------------------------------------------------------------------
Start == LoadConfig \/ StartupThrows \/ MakeNode \/ StartSpin \/ Listen
         \/ ListenFails \/ MakePool \/ PoolThrows \/ BuildModel \/ BuildPool \/ BuildBuffers
         \/ BuildState \/ Register \/ BuildThrows

TakeDown == Close \/ DestroyState \/ DestroyBuffers \/ DestroyModel
            \/ StopWorker \/ JoinWorker \/ StopPool \/ JoinPool
            \/ Unwound \/ ShutdownContext
            \/ JoinSpin \/ ReturnWithoutNode \/ StopTick \/ JoinTick

ControlLoop == StartTick \/ EndTick

Worker == StartInference \/ WorkerExits

Next ==
  \/ Start \/ TakeDown \/ Call \/ Leave \/ HandlerThrows
  \/ ControlLoop \/ SubmitFrame \/ SpinEnds
  \/ Worker \/ EndInference \/ PoolExits \/ Crash
  \/ SignalHandler \/ SignalShutsContext

Spec == Init /\ [][Next]_vars

(* The threads are scheduled.  Nothing makes a handler throw, a client      *)
(* leave, a signal arrive or an inference come back.  enqueue does not      *)
(* refuse frames after stop_, but they come every 20 ms, so the worker      *)
(* finds its queue empty in the end (strong fairness).                      *)
FairSpec ==
  /\ Spec
  /\ WF_vars(Start \/ TakeDown) /\ WF_vars(ControlLoop) /\ WF_vars(SpinEnds)
  /\ WF_vars(StartInference) /\ SF_vars(WorkerExits)
  /\ WF_vars(PoolExits)

-----------------------------------------------------------------------------
TypeOK ==
  /\ main \in Stages /\ server \in {"none", "listening", "closed"}
  /\ open \in 0 .. MaxCalls
  /\ server_pool \in {"none", "idle", "stopping", "lost", "done"}
  /\ node \in {"none", "alive", "gone"} /\ context \in BOOLEAN
  /\ spin \in {"none", "running", "done"}
  /\ mode \in {"rt", "timer"} /\ rt_running \in BOOLEAN
  /\ tick \in {"none", "armed", "ticking", "done"}
  /\ brain \subseteq Members /\ submitted \in 0 .. 1
  /\ worker \in {"none", "idle", "infer", "lost", "done"} /\ stop \in BOOLEAN
  /\ BufferTypeOK
  /\ g_shutdown_requested \in BOOLEAN /\ threw \in BOOLEAN

(* The control loop exists only beside a whole brain, as long as no handler *)
(* throws: no failure of the start, no signal and no timing lets a tick, or *)
(* the inference it submits, see a member that is not built yet or gone.    *)
(* (After a throw the members go while both still run: ai_brain.cpp:104.)   *)
TicksWholeBrain ==
  ~ threw /\ (tick # "none" \/ worker = "infer") => brain = Members

(* Whoever calls the RosNode through a raw pointer or reference has stopped *)
(* before it is destroyed, on every way down, also after a throw.           *)
NodeOutlivesItsUsers ==
  node # "alive" => /\ tick # "ticking" /\ (mode = "rt" => tick # "armed")
                    /\ worker \in {"none", "done"}
                    /\ spin # "running" /\ server # "listening"

(* Every buffer comes home while the pool lives, and with one worker the    *)
(* pool is never exhausted (buffer_pool.hpp:38 is dead).                    *)
BuffersReturned ==
  "buffers" \in brain =>
    /\ worker # "infer" => free = Buffers /\ loan = "none"
    /\ Buffers > 0 => loan # "temporary"

(* Once the process is on its way down it ends, unless a client never       *)
(* leaves, an inference never returns, or a worker of one of the two pools  *)
(* misses its wake-up (ShutdownTerminates): no two threads wait for each    *)
(* other.                                                                   *)
TakingDown ==
  main \in {"close", "unwind", "join_worker", "join_pool", "context", "join_spin",
            "return", "join_tick"}

FailureEnds ==
  (/\ <>[](open = 0) /\ []<>(worker # "infer")
   /\ [](worker # "lost") /\ [](server_pool # "lost"))
    => (TakingDown ~> main \in {"exit", "crashed"})
=============================================================================
