------------------------------ MODULE Sessions ------------------------------
(***************************************************************************)
(* The completion queue thread of GrpcServer and the sessions it drives    *)
(* (grpc_server.cpp, task_session.cpp).  A TaskSession serves one          *)
(* AssignTask call, a StatusSession one StreamStatus stream.  A session    *)
(* lives by the operation it has in flight: the tag of the operation holds *)
(* a raw pointer to it, and it frees itself when one fails or the last one *)
(* is done.  The gRPC runtime and the clients are external.                *)
(***************************************************************************)
EXTENDS Naturals, FiniteSets, Sequences

CONSTANTS
  TaskCalls,   \* AssignTask calls that clients make
  StatusCalls, \* StreamStatus calls that clients make
  NoCall       \* the completion queue thread waits in Next

Calls == TaskCalls \cup StatusCalls

ASSUME SessionsAssumption ==
  /\ TaskCalls \cap StatusCalls = {}
  /\ NoCall \notin Calls

VARIABLES
  rpc,       \* client: idle, waiting (for a listener), open, done, gone
  session,   \* of each call: none, alive, freed
  listeners, \* of each kind: Request... operations with no call matched
  inFlight,  \* operations handed to the runtime, as <<call, event type>>
  completed, \* the completion queue: <<call, event type, ok>>
  handling,  \* the call whose event the thread handles, or NoCall
  todo,      \* what is left of that HandleEvent
  generation,\* AIBrain::task_generation_
  taskGen    \* the generation each task call was given, 0 before

runtimeVars == <<inFlight, completed>>
threadVars == <<handling, todo>>
brainVars == <<generation, taskGen>>
vars == <<rpc, session, listeners, runtimeVars, threadVars, brainVars>>

Kind(c) == IF c \in TaskCalls THEN "task" ELSE "status"

Init ==
  /\ rpc = [c \in Calls |-> "idle"]
  /\ session = [c \in Calls |-> "none"]
  /\ listeners = [k \in {"task", "status"} |-> 1]
  /\ inFlight = {} /\ completed = {}
  /\ handling = NoCall /\ todo = << >>
  /\ generation = 0 /\ taskGen = [c \in TaskCalls |-> 0]

-----------------------------------------------------------------------------
(* Clients.                                                                 *)
Call(c) ==
  /\ rpc[c] = "idle"
  /\ rpc' = [rpc EXCEPT ![c] = "waiting"]
  /\ UNCHANGED <<session, listeners, runtimeVars, threadVars, brainVars>>

Leave(c) ==
  /\ rpc[c] \in {"waiting", "open"}
  /\ rpc' = [rpc EXCEPT ![c] = "gone"]
  /\ UNCHANGED <<session, listeners, runtimeVars, threadVars, brainVars>>

(***************************************************************************)
(* The runtime: it gives a waiting call to an armed listener, and completes*)
(* each operation once.  "gone" is what the runtime knows: until then the  *)
(* call is open, from then on a Finish or Write on it fails.  An alarm     *)
(* fires with ok in either case.                                           *)
(***************************************************************************)
Match(c) ==
  /\ rpc[c] = "waiting" /\ listeners[Kind(c)] > 0
  /\ rpc' = [rpc EXCEPT ![c] = "open"]
  /\ session' = [session EXCEPT ![c] = "alive"]
  /\ listeners' = [listeners EXCEPT ![Kind(c)] = @ - 1]
  /\ completed' = completed \cup {<<c, "connect", TRUE>>}
  /\ UNCHANGED <<inFlight, threadVars, brainVars>>

Succeeds(c, type) == type = "alarm" \/ rpc[c] # "gone"

Complete(c, type) ==
  /\ <<c, type>> \in inFlight
  /\ inFlight' = inFlight \ {<<c, type>>}
  /\ completed' = completed \cup {<<c, type, Succeeds(c, type)>>}
  /\ rpc' = [rpc EXCEPT ![c] = IF type = "finish" /\ @ = "open" THEN "done" ELSE @]
  /\ UNCHANGED <<session, listeners, threadVars, brainVars>>

-----------------------------------------------------------------------------
(***************************************************************************)
(* HandleEvent, as the calls it makes for each event, in order.            *)
(***************************************************************************)
OnConnect_AnsweredFirst == <<"create", "respond", "process">>  \* mutant

OnConnect_NoListener == <<"process", "respond">>    \* mutant: no Create

OnConnect == <<"create", "process", "respond">>

OnStatusRead == <<"create", "write">>

OnStatusWrite_AlsoWrites == <<"alarm", "write">>    \* mutant: no wait

OnStatusWrite == <<"alarm">>

OnFailure_Rearms == <<"create", "free">>    \* mutant: listens once more

OnFailure_Ignored == << >>    \* mutant: return without self_.reset()

OnFailure == <<"free">>

Steps(c, type, ok) ==
  IF ~ ok THEN OnFailure
  ELSE CASE type = "connect" -> IF c \in TaskCalls THEN OnConnect ELSE OnStatusRead
         [] type = "finish"  -> <<"free">>
         [] type = "write"   -> OnStatusWrite
         [] type = "alarm"   -> <<"write">>

(* HandleRpcs: Next returns a tag and its callback runs on this thread.     *)
Dequeue(c) ==
  /\ handling = NoCall
  /\ \E e \in completed :
       /\ e[1] = c
       /\ completed' = completed \ {e}
       /\ todo' = Steps(c, e[2], e[3])
  /\ handling' = c
  /\ UNCHANGED <<rpc, session, listeners, inFlight, brainVars>>

Do(step) == todo # << >> /\ Head(todo) = step /\ todo' = Tail(todo)

(* Create: a new session of the same kind waits for the next call.          *)
Create ==
  /\ Do("create")
  /\ listeners' = [listeners EXCEPT ![Kind(handling)] = @ + 1]
  /\ UNCHANGED <<rpc, session, runtimeVars, handling, brainVars>>

ProcessRobotTask ==
  /\ Do("process")
  /\ generation' = generation + 1
  /\ taskGen' = [taskGen EXCEPT ![handling] = generation + 1]
  /\ UNCHANGED <<rpc, session, listeners, runtimeVars, handling>>

Start(type) ==
  /\ inFlight' = inFlight \cup {<<handling, type>>}
  /\ UNCHANGED <<rpc, session, listeners, completed, handling, brainVars>>

Respond == Do("respond") /\ Start("finish")

Write == Do("write") /\ Start("write")

ScheduleNextWrite == Do("alarm") /\ Start("alarm")

Free ==
  /\ Do("free")
  /\ session' = [session EXCEPT ![handling] = "freed"]
  /\ UNCHANGED <<rpc, listeners, runtimeVars, handling, brainVars>>

Return ==
  /\ handling # NoCall /\ todo = << >>
  /\ handling' = NoCall
  /\ UNCHANGED <<rpc, session, listeners, runtimeVars, todo, brainVars>>

-----------------------------------------------------------------------------
HandleEvent ==
  Create \/ ProcessRobotTask \/ Respond \/ Write \/ ScheduleNextWrite \/ Free \/ Return

OpTypes == {"finish", "write", "alarm"}

Next ==
  \/ \E c \in Calls : Call(c) \/ Leave(c) \/ Match(c) \/ Dequeue(c)
  \/ \E c \in Calls, type \in OpTypes : Complete(c, type)
  \/ HandleEvent

Spec == Init /\ [][Next]_vars

(* The runtime hands over waiting calls, fires alarms, and completes what   *)
(* is in flight on a call whose client has gone; a client that stays may    *)
(* stop reading and hold a Write up for ever.  The queue passes no event    *)
(* over for ever, and the thread is scheduled.                              *)
FairSpec ==
  /\ Spec
  /\ WF_vars(HandleEvent)
  /\ \A c \in Calls :
       /\ WF_vars(Match(c)) /\ SF_vars(Dequeue(c))
       /\ WF_vars(Complete(c, "alarm"))
       /\ WF_vars(rpc[c] = "gone" /\ \E type \in OpTypes : Complete(c, type))

-----------------------------------------------------------------------------
TypeOK ==
  /\ rpc \in [Calls -> {"idle", "waiting", "open", "done", "gone"}]
  /\ session \in [Calls -> {"none", "alive", "freed"}]
  /\ listeners \in [{"task", "status"} -> 0 .. 1]
  /\ inFlight \subseteq Calls \X OpTypes
  /\ completed \subseteq Calls \X (OpTypes \cup {"connect"}) \X BOOLEAN
  /\ handling \in Calls \cup {NoCall}
  /\ generation \in Nat /\ taskGen \in [TaskCalls -> Nat]

(* A session has one operation in flight or one event in hand for as long   *)
(* as it lives and none afterwards: no tag on the queue points to a freed   *)
(* session, no stream has two writes or a write and an alarm at once (gRPC  *)
(* allows one write), and no session is left with nothing to free it.       *)
Holding(c) ==
  Cardinality({o \in inFlight : o[1] = c}) + Cardinality({e \in completed : e[1] = c})

OneOperationPerSession ==
  \A c \in Calls :
    Holding(c) + (IF handling = c /\ todo # << >> THEN 1 ELSE 0)
      = IF session[c] = "alive" THEN 1 ELSE 0

(* The server is never deaf and never listens twice: of each kind one call  *)
(* is waited for, or its connection is still to be answered with Create.    *)
Unanswered(k) ==
  {e \in completed : Kind(e[1]) = k /\ e[2] = "connect"}

AlwaysListening ==
  \A k \in {"task", "status"} :
    listeners[k] + Cardinality(Unanswered(k))
      + (IF handling # NoCall /\ Kind(handling) = k /\ todo # << >> /\ Head(todo) = "create"
         THEN 1 ELSE 0)
      = 1

(* The sessions implement TaskService: every task that is connected is      *)
(* processed once, with a generation of its own, and its client is told     *)
(* that it is accepted only after that, once.                               *)
Service == INSTANCE TaskService
  WITH answered <- {c \in TaskCalls : rpc[c] = "done"}

ImplementsService == Service!Spec

(* Every call is answered or given up by its client, however many others    *)
(* connect, stream and leave.                                               *)
CallsAreServed == \A c \in Calls : rpc[c] = "waiting" ~> rpc[c] # "waiting"

(* No session outlives its client for ever: when the client has gone, the   *)
(* next operation on the call fails and the session frees itself.           *)
GoneIsFreed == \A c \in Calls : rpc[c] = "gone" ~> session[c] # "alive"
=============================================================================
