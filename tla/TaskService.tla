---------------------------- MODULE TaskService ----------------------------
(***************************************************************************)
(* What AssignTask promises to its clients: every accepted task has a      *)
(* generation of its own, later than that of every task accepted before,   *)
(* and a client is told of it only afterwards, once.                       *)
(***************************************************************************)
EXTENDS Naturals

CONSTANT TaskCalls

VARIABLES
  generation, \* of the latest task
  taskGen,    \* the generation each call was given, 0 before
  answered    \* the calls whose clients were told

serviceVars == <<generation, taskGen, answered>>

Init ==
  /\ generation = 0
  /\ taskGen = [c \in TaskCalls |-> 0]
  /\ answered = {}

Accept(c) ==
  /\ taskGen[c] = 0
  /\ generation' = generation + 1
  /\ taskGen' = [taskGen EXCEPT ![c] = generation']
  /\ UNCHANGED answered

Answer(c) ==
  /\ taskGen[c] # 0 /\ c \notin answered
  /\ answered' = answered \cup {c}
  /\ UNCHANGED <<generation, taskGen>>

Next == \E c \in TaskCalls : Accept(c) \/ Answer(c)

Spec == Init /\ [][Next]_serviceVars

-----------------------------------------------------------------------------
(* What the promise comes to.  No two calls share a generation, so a result *)
(* that is compared with it belongs to one task, and a client is told only  *)
(* of a task that has one (task_session.cpp:29-37) ...                      *)
OwnGeneration ==
  /\ \A c, d \in TaskCalls : taskGen[c] # 0 /\ taskGen[c] = taskGen[d] => c = d
  /\ \A c \in answered : taskGen[c] # 0

(* ... and a call that is accepted supersedes every call accepted before,   *)
(* for good: its generation is the greatest and never changes.              *)
NewestSupersedes ==
  [][\A c \in TaskCalls :
       taskGen'[c] # taskGen[c]
         => taskGen[c] = 0 /\ \A d \in TaskCalls : taskGen[d] < taskGen'[c]]_serviceVars
=============================================================================
