------------------------------ MODULE TaskQueue ------------------------------
(***************************************************************************)
(* What a user of ThreadPool relies on, with no mutex, no condition        *)
(* variable and no shutdown: a bounded FIFO of accepted tasks, each        *)
(* started once, in the order of acceptance, and refused only when the     *)
(* queue is full.                                                          *)
(***************************************************************************)
EXTENDS Sequences, Naturals

CONSTANTS
  Tasks,    \* the tasks submitted
  MaxQueue  \* capacity of the queue

VARIABLES
  pending,  \* accepted, not started
  started,  \* started, finished or not
  refused   \* the tasks that were refused

queueVars == <<pending, started, refused>>

Init == pending = << >> /\ started = {} /\ refused = {}

New(t) == t \notin started \cup refused /\ \A i \in DOMAIN pending : pending[i] # t

Accept(t) ==
  /\ New(t) /\ Len(pending) < MaxQueue
  /\ pending' = Append(pending, t)
  /\ UNCHANGED <<started, refused>>

Refuse(t) ==
  /\ New(t) /\ Len(pending) = MaxQueue
  /\ refused' = refused \cup {t}
  /\ UNCHANGED <<pending, started>>

Start ==
  /\ pending # << >> /\ Head(pending) \notin started
  /\ started' = started \cup {Head(pending)}
  /\ pending' = Tail(pending)
  /\ UNCHANGED refused

Next == Start \/ \E t \in Tasks : Accept(t) \/ Refuse(t)

Spec == Init /\ [][Next]_queueVars

-----------------------------------------------------------------------------
(* What the promise comes to: a task that is queued is queued once and was  *)
(* neither started nor refused, and one that was refused is never started   *)
(* (thread_pool.cpp:14-23, 35-50).                                          *)
EachOnce ==
  /\ \A i, j \in DOMAIN pending : pending[i] = pending[j] => i = j
  /\ \A i \in DOMAIN pending : pending[i] \notin started \cup refused
  /\ started \cap refused = {}
=============================================================================
