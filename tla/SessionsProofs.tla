--------------------------- MODULE SessionsProofs ---------------------------
(***************************************************************************)
(* The safety of the sessions for any number of calls: one operation each, *)
(* one listener of each kind, and the promise of TaskService.              *)
(***************************************************************************)
EXTENDS Sessions, FiniteSetTheorems, TLAPS

USE SessionsAssumption

-----------------------------------------------------------------------------
(* What can be left of an event: the suffixes of the sequences in Steps.    *)
AllOfConnect == <<"create", "process", "respond">>
AfterCreate  == <<"process", "respond">>
AfterProcess == <<"respond">>
AllOfRead    == <<"create", "write">>
ToWrite      == <<"write">>
ToWait       == <<"alarm">>
ToFree       == <<"free">>
Nothing      == << >>

Left == {AllOfConnect, AfterCreate, AfterProcess, AllOfRead, ToWrite, ToWait,
         ToFree, Nothing}

LEMMA LeftDistinct ==
  /\ AllOfConnect \notin {AfterCreate, AfterProcess, AllOfRead, ToWrite, ToWait, ToFree, Nothing}
  /\ AfterCreate \notin {AfterProcess, AllOfRead, ToWrite, ToWait, ToFree, Nothing}
  /\ AfterProcess \notin {AllOfRead, ToWrite, ToWait, ToFree, Nothing}
  /\ AllOfRead \notin {ToWrite, ToWait, ToFree, Nothing}
  /\ ToWrite \notin {ToWait, ToFree, Nothing}
  /\ ToWait \notin {ToFree, Nothing}
  /\ ToFree # Nothing
BY DEF AllOfConnect, AfterCreate, AfterProcess, AllOfRead, ToWrite, ToWait, ToFree, Nothing

LEMMA DoStep ==
  ASSUME todo \in Left
  PROVE  /\ Do("create") => \/ todo = AllOfConnect /\ todo' = AfterCreate
                            \/ todo = AllOfRead /\ todo' = ToWrite
         /\ Do("process") => todo = AfterCreate /\ todo' = AfterProcess
         /\ Do("respond") => todo = AfterProcess /\ todo' = Nothing
         /\ Do("write") => todo = ToWrite /\ todo' = Nothing
         /\ Do("alarm") => todo = ToWait /\ todo' = Nothing
         /\ Do("free") => todo = ToFree /\ todo' = Nothing
<1>1. Head(AllOfConnect) = "create" /\ Tail(AllOfConnect) = AfterCreate
  BY DEF AllOfConnect, AfterCreate
<1>2. Head(AfterCreate) = "process" /\ Tail(AfterCreate) = AfterProcess
  BY DEF AfterCreate, AfterProcess
<1>3. Head(AfterProcess) = "respond" /\ Tail(AfterProcess) = Nothing
  BY DEF AfterProcess, Nothing
<1>4. Head(AllOfRead) = "create" /\ Tail(AllOfRead) = ToWrite
  BY DEF AllOfRead, ToWrite
<1>5. Head(ToWrite) = "write" /\ Tail(ToWrite) = Nothing
  BY DEF ToWrite, Nothing
<1>6. Head(ToWait) = "alarm" /\ Tail(ToWait) = Nothing
  BY DEF ToWait, Nothing
<1>7. Head(ToFree) = "free" /\ Tail(ToFree) = Nothing
  BY DEF ToFree, Nothing
<1>8. Nothing = << >>
  BY DEF Nothing
<1>9. QED
  BY <1>1, <1>2, <1>3, <1>4, <1>5, <1>6, <1>7, <1>8 DEF Left, Do

LEMMA LeftHead ==
  ASSUME todo \in Left
  PROVE  todo # << >> /\ Head(todo) = "create" <=> todo \in {AllOfConnect, AllOfRead}
BY DEF Left, AllOfConnect, AfterCreate, AfterProcess, AllOfRead, ToWrite, ToWait, ToFree, Nothing

EventTypes == OpTypes \cup {"connect"}

LEMMA StepsOf ==
  ASSUME NEW c \in Calls, NEW t \in EventTypes, NEW ok \in BOOLEAN
  PROVE  /\ ok /\ t = "connect" /\ c \in TaskCalls => Steps(c, t, ok) = AllOfConnect
         /\ ok /\ t = "connect" /\ c \notin TaskCalls => Steps(c, t, ok) = AllOfRead
         /\ ~ ok \/ t = "finish" => Steps(c, t, ok) = ToFree
         /\ ok /\ t = "write" => Steps(c, t, ok) = ToWait
         /\ ok /\ t = "alarm" => Steps(c, t, ok) = ToWrite
BY DEF EventTypes, OpTypes, Steps, OnConnect, OnStatusRead, OnStatusWrite, OnFailure,
       AllOfConnect, AllOfRead, ToFree, ToWait, ToWrite

-----------------------------------------------------------------------------
HasOp(c) == \E t \in OpTypes : <<c, t>> \in inFlight
HasEvent(c) == \E t \in EventTypes, ok \in BOOLEAN : <<c, t, ok>> \in completed
Busy(c) == handling = c /\ todo # Nothing
Connecting(c) == <<c, "connect", TRUE>> \in completed
Creating(c) == handling = c /\ todo \in {AllOfConnect, AllOfRead}

ScriptInv ==
  /\ todo \in Left
  /\ handling = NoCall => todo = Nothing
  /\ todo \in {AllOfConnect, AfterCreate, AfterProcess} => handling \in TaskCalls

(* A live session holds one thing, and a call that waits has no session.    *)
OneThing(c) ==
  /\ rpc[c] \in {"idle", "waiting"} => session[c] = "none"
  /\ session[c] = "alive" <=> HasOp(c) \/ HasEvent(c) \/ Busy(c)
  /\ ~ (HasOp(c) /\ HasEvent(c)) /\ ~ (HasOp(c) /\ Busy(c)) /\ ~ (HasEvent(c) /\ Busy(c))

OneOp(c) == \A t, u \in OpTypes : <<c, t>> \in inFlight /\ <<c, u>> \in inFlight => t = u

OneEvent(c) ==
  /\ \A t, u \in EventTypes, p, q \in BOOLEAN :
       <<c, t, p>> \in completed /\ <<c, u, q>> \in completed => t = u /\ p = q
  /\ <<c, "connect", FALSE>> \notin completed

HoldInv == \A c \in Calls : OneThing(c) /\ OneOp(c) /\ OneEvent(c)

(* Either a listener of a kind is armed, or one call is on the way to it.   *)
ListenInv ==
  /\ \A c \in Calls :
       Connecting(c) \/ Creating(c) => listeners[Kind(c)] = 0
  /\ \A c, d \in Calls :
       (Connecting(c) \/ Creating(c)) /\ (Connecting(d) \/ Creating(d)) /\ Kind(c) = Kind(d)
         => c = d
  /\ \A k \in {"task", "status"} :
       listeners[k] = 0 => \E c \in Calls : Kind(c) = k /\ (Connecting(c) \/ Creating(c))

(* A task has a generation once it is processed, and is answered after that.*)
TaskInv ==
  \A c \in TaskCalls :
    /\ taskGen[c] # 0 =>
         /\ session[c] # "none" /\ ~ Connecting(c)
         /\ ~ (handling = c /\ todo \in {AllOfConnect, AfterCreate})
    /\ <<c, "finish">> \in inFlight => taskGen[c] # 0
    /\ handling = c /\ todo = AfterProcess => taskGen[c] # 0

SInv == TypeOK /\ ScriptInv /\ HoldInv /\ ListenInv /\ TaskInv

LEMMA TypeInit == Init => TypeOK
BY DEF Init, TypeOK, Calls

LEMMA InitInv == Init => SInv
<1> SUFFICES ASSUME Init PROVE SInv
  OBVIOUS
<1>1. TypeOK
  BY TypeInit
<1>2. ScriptInv
  BY LeftDistinct DEF Init, ScriptInv, Left, Nothing
<1>3. HoldInv
  BY DEF Init, HoldInv, OneThing, OneOp, OneEvent, HasOp, HasEvent, Busy, Calls
<1>4. ListenInv
  BY DEF Init, ListenInv, Connecting, Creating, Calls
<1>5. TaskInv
  BY DEF Init, TaskInv, Connecting, Calls
<1>6. QED
  BY <1>1, <1>2, <1>3, <1>4, <1>5 DEF SInv

(* What a call holds depends on its session, its operation, its event and   *)
(* the script; a client may only go from idle to waiting beside that.       *)
LEMMA HoldFrame ==
  ASSUME HoldInv, UNCHANGED <<session, inFlight, completed>>,
         \A d \in Calls : Busy(d)' <=> Busy(d),
         \A d \in Calls : rpc'[d] \in {"idle", "waiting"} => rpc[d] \in {"idle", "waiting"}
  PROVE  HoldInv'
<1>1. ASSUME NEW d \in Calls PROVE OneThing(d)' /\ OneOp(d)' /\ OneEvent(d)'
  <2>1. (HasOp(d)' <=> HasOp(d)) /\ (HasEvent(d)' <=> HasEvent(d))
    BY DEF HasOp, HasEvent
  <2>2. OneThing(d) /\ OneOp(d) /\ OneEvent(d)
    BY DEF HoldInv
  <2>3. OneThing(d)'
    BY <2>1, <2>2 DEF OneThing
  <2>4. OneOp(d)' /\ OneEvent(d)'
    BY <2>2 DEF OneOp, OneEvent
  <2>5. QED
    BY <2>3, <2>4
<1>2. QED
  BY <1>1 DEF HoldInv

-----------------------------------------------------------------------------
(* Clients change nothing but where the call stands.                        *)
LEMMA ClientStep ==
  ASSUME SInv, NEW c \in Calls, Call(c) \/ Leave(c)
  PROVE  SInv'
<1>1. /\ UNCHANGED <<session, listeners, inFlight, completed, handling, todo, generation, taskGen>>
      /\ rpc' \in [Calls -> {"idle", "waiting", "open", "done", "gone"}]
      /\ \A d \in Calls : rpc'[d] = rpc[d] \/ rpc[d] = "idle" \/ rpc'[d] = "gone"
  BY DEF Call, Leave, runtimeVars, threadVars, brainVars, SInv, TypeOK
<1>2. TypeOK'
  BY <1>1 DEF SInv, TypeOK
<1>3. HoldInv'
  <2>1. \A d \in Calls : Busy(d)' <=> Busy(d)
    BY <1>1 DEF Busy
  <2>2. \A d \in Calls : rpc'[d] \in {"idle", "waiting"} => rpc[d] \in {"idle", "waiting"}
    BY <1>1
  <2>3. QED
    BY <1>1, <2>1, <2>2, HoldFrame DEF SInv
<1>4. ScriptInv' /\ ListenInv' /\ TaskInv'
  BY <1>1 DEF SInv, ScriptInv, ListenInv, TaskInv, Connecting, Creating
<1>5. QED
  BY <1>2, <1>3, <1>4 DEF SInv

(* A call that is matched gets its session, whose event is the connection.  *)
LEMMA MatchStep ==
  ASSUME SInv, NEW c \in Calls, Match(c)
  PROVE  SInv'
<1> USE DEF SInv
<1>1. /\ rpc' = [rpc EXCEPT ![c] = "open"] /\ session' = [session EXCEPT ![c] = "alive"]
      /\ listeners' = [listeners EXCEPT ![Kind(c)] = @ - 1]
      /\ completed' = completed \cup {<<c, "connect", TRUE>>}
      /\ UNCHANGED <<inFlight, handling, todo, generation, taskGen>>
      /\ rpc[c] = "waiting" /\ listeners[Kind(c)] > 0
  BY DEF Match, runtimeVars, threadVars, brainVars
<1>2. session[c] = "none" /\ ~ HasOp(c) /\ ~ HasEvent(c) /\ ~ Busy(c)
  BY <1>1 DEF HoldInv, OneThing, TypeOK
<1>3. Kind(c) \in {"task", "status"} /\ listeners[Kind(c)] = 1
  BY <1>1 DEF Kind, TypeOK
<1>4. TypeOK'
  <2>1. listeners' \in [{"task", "status"} -> 0 .. 1]
    BY <1>1, <1>3 DEF TypeOK
  <2>2. completed' \subseteq Calls \X (OpTypes \cup {"connect"}) \X BOOLEAN
    <3>1. <<c, "connect", TRUE>> \in Calls \X (OpTypes \cup {"connect"}) \X BOOLEAN
      OBVIOUS
    <3>2. QED
      BY <1>1, <3>1 DEF TypeOK
  <2>3. QED
    BY <1>1, <2>1, <2>2 DEF TypeOK
<1>5. ScriptInv'
  BY <1>1 DEF ScriptInv
<1>6. HoldInv'
  <2>1. ASSUME NEW d \in Calls, d # c
        PROVE  (HasEvent(d)' <=> HasEvent(d)) /\ session'[d] = session[d] /\ rpc'[d] = rpc[d]
    BY <1>1, <2>1 DEF HasEvent, TypeOK
  <2>2. /\ HasEvent(c)' /\ session'[c] = "alive" /\ rpc'[c] = "open"
        /\ \A t \in EventTypes, p \in BOOLEAN :
             <<c, t, p>> \in completed' => t = "connect" /\ p = TRUE
    BY <1>1, <1>2 DEF HasEvent, TypeOK, EventTypes
  <2>3. \A d \in Calls : (HasOp(d)' <=> HasOp(d)) /\ (Busy(d)' <=> Busy(d))
    BY <1>1 DEF HasOp, Busy
  <2>4. \A d \in Calls, t \in EventTypes, p \in BOOLEAN :
          d # c => (<<d, t, p>> \in completed' <=> <<d, t, p>> \in completed)
    BY <1>1
  <2>5. ASSUME NEW d \in Calls
        PROVE  OneThing(d)'
    BY <1>2, <2>1, <2>2, <2>3 DEF HoldInv, OneThing
  <2>6. \A d \in Calls, t, u \in EventTypes, p, q \in BOOLEAN :
          <<d, t, p>> \in completed' /\ <<d, u, q>> \in completed' => t = u /\ p = q
    <3> SUFFICES ASSUME NEW d \in Calls, NEW t \in EventTypes, NEW u \in EventTypes,
                        NEW p \in BOOLEAN, NEW q \in BOOLEAN,
                        <<d, t, p>> \in completed', <<d, u, q>> \in completed'
                 PROVE  t = u /\ p = q
      OBVIOUS
    <3>1. CASE d = c
      BY <2>2, <3>1
    <3>2. CASE d # c
      <4>1. <<d, t, p>> \in completed /\ <<d, u, q>> \in completed
        BY <2>4, <3>2
      <4>2. OneEvent(d)
        BY DEF HoldInv
      <4>3. QED
        BY <4>1, <4>2 DEF OneEvent
    <3>3. QED
      BY <3>1, <3>2
  <2>7. \A d \in Calls : <<d, "connect", FALSE>> \notin completed'
    <3>1. <<c, "connect", FALSE>> # <<c, "connect", TRUE>>
      OBVIOUS
    <3>2. \A d \in Calls : <<d, "connect", FALSE>> \notin completed
      BY DEF HoldInv, OneEvent
    <3>3. QED
      BY <1>1, <3>1, <3>2
  <2>8. \A d \in Calls : OneOp(d)'
    BY <1>1 DEF HoldInv, OneOp
  <2>9. \A d \in Calls : OneEvent(d)'
    BY <2>6, <2>7 DEF OneEvent
  <2>10. QED
    BY <2>5, <2>8, <2>9 DEF HoldInv
<1>7. ListenInv'
  <2>1. \A d \in Calls : Connecting(d)' <=> Connecting(d) \/ d = c
    BY <1>1 DEF Connecting
  <2>2. \A d \in Calls : Creating(d)' <=> Creating(d)
    BY <1>1 DEF Creating
  <2>3. \A d \in Calls : Kind(d) \in {"task", "status"}
    BY DEF Kind
  <2>4. listeners'[Kind(c)] = 0 /\ \A k \in {"task", "status"} :
          k # Kind(c) => listeners'[k] = listeners[k]
    BY <1>1, <1>3 DEF TypeOK
  <2>5. \A d \in Calls : Kind(d) = Kind(c) => ~ Connecting(d) /\ ~ Creating(d)
    BY <1>3 DEF ListenInv
  <2>6. QED
    BY <1>3, <2>1, <2>2, <2>3, <2>4, <2>5 DEF ListenInv
<1>8. TaskInv'
  <2>1. \A d \in Calls : d # c => (Connecting(d)' <=> Connecting(d)) /\ session'[d] = session[d]
    BY <1>1 DEF Connecting, TypeOK
  <2>2. c \in TaskCalls => taskGen[c] = 0
    BY <1>2 DEF TaskInv
  <2>3. TaskCalls \subseteq Calls
    BY DEF Calls
  <2>4. QED
    BY <1>1, <2>1, <2>2, <2>3 DEF TaskInv
<1>9. QED
  BY <1>4, <1>5, <1>6, <1>7, <1>8

(* An operation that completes becomes an event of the same session.        *)
LEMMA CompleteStep ==
  ASSUME SInv, NEW c \in Calls, NEW type \in OpTypes, Complete(c, type)
  PROVE  SInv'
<1> USE DEF SInv
<1>1. PICK ok \in BOOLEAN : completed' = completed \cup {<<c, type, ok>>}
  BY DEF Complete, Succeeds
<1>2. /\ <<c, type>> \in inFlight /\ inFlight' = inFlight \ {<<c, type>>}
      /\ UNCHANGED <<session, listeners, handling, todo, generation, taskGen>>
  BY DEF Complete, threadVars, brainVars
<1>3. type \in EventTypes /\ type # "connect"
  BY DEF EventTypes, OpTypes
<1>4. HasOp(c) /\ ~ HasEvent(c) /\ ~ Busy(c) /\ session[c] = "alive"
  BY <1>2 DEF HoldInv, OneThing, HasOp
<1>5. /\ rpc' \in [Calls -> {"idle", "waiting", "open", "done", "gone"}]
      /\ \A d \in Calls : rpc'[d] \in {"idle", "waiting"} => rpc[d] = rpc'[d]
  BY DEF Complete, TypeOK
<1>6. TypeOK'
  BY <1>1, <1>2, <1>5 DEF TypeOK
<1>7. ScriptInv'
  BY <1>2 DEF ScriptInv
<1>8. HoldInv'
  <2>1. \A d \in Calls : Busy(d)' <=> Busy(d)
    BY <1>2 DEF Busy
  <2>2. \A d \in Calls, t \in OpTypes :
          <<d, t>> \in inFlight' <=> <<d, t>> \in inFlight /\ ~ (d = c /\ t = type)
    BY <1>2
  <2>3. \A d \in Calls, t \in EventTypes, p \in BOOLEAN :
          <<d, t, p>> \in completed'
            <=> <<d, t, p>> \in completed \/ (d = c /\ t = type /\ p = ok)
    BY <1>1
  <2>4. ~ HasOp(c)' /\ HasEvent(c)'
    BY <1>2, <1>3, <2>2, <2>3 DEF HoldInv, OneOp, HasOp, HasEvent
  <2>5. \A d \in Calls : d # c => (HasOp(d)' <=> HasOp(d)) /\ (HasEvent(d)' <=> HasEvent(d))
    BY <2>2, <2>3 DEF HasOp, HasEvent
  <2>6. \A t \in EventTypes, p \in BOOLEAN : <<c, t, p>> \notin completed
    BY <1>4 DEF HasEvent
  <2>7. "connect" \in EventTypes /\ FALSE \in BOOLEAN
    BY DEF EventTypes
  <2>8. ASSUME NEW d \in Calls
        PROVE  OneThing(d)'
    BY <1>2, <1>4, <1>5, <2>1, <2>4, <2>5 DEF HoldInv, OneThing
  <2>9. \A d \in Calls, t, u \in OpTypes :
          <<d, t>> \in inFlight' /\ <<d, u>> \in inFlight' => t = u
    BY <2>2 DEF HoldInv, OneOp
  <2>10. \A d \in Calls, t, u \in EventTypes, p, q \in BOOLEAN :
          <<d, t, p>> \in completed' /\ <<d, u, q>> \in completed' => t = u /\ p = q
    <3> SUFFICES ASSUME NEW d \in Calls, NEW t \in EventTypes, NEW u \in EventTypes,
                        NEW p \in BOOLEAN, NEW q \in BOOLEAN,
                        <<d, t, p>> \in completed', <<d, u, q>> \in completed'
                 PROVE  t = u /\ p = q
      OBVIOUS
    <3>1. CASE d = c
      BY <2>3, <2>6, <3>1
    <3>2. CASE d # c
      <4>1. <<d, t, p>> \in completed /\ <<d, u, q>> \in completed
        BY <2>3, <3>2
      <4>2. QED
        BY <4>1 DEF HoldInv, OneEvent
    <3>3. QED
      BY <3>1, <3>2
  <2>11. \A d \in Calls : <<d, "connect", FALSE>> \notin completed'
    <3>1. \A d \in Calls : <<d, "connect", FALSE>> \notin completed
      BY DEF HoldInv, OneEvent
    <3>2. QED
      BY <1>3, <2>3, <2>7, <3>1
  <2>12. QED
    <3>1. \A d \in Calls : OneOp(d)'
      BY <2>9 DEF OneOp
    <3>2. \A d \in Calls : OneEvent(d)'
      BY <2>10, <2>11 DEF OneEvent
    <3>3. QED
      BY <2>8, <3>1, <3>2 DEF HoldInv
<1>9. \A d \in Calls : (Connecting(d)' <=> Connecting(d)) /\ (Creating(d)' <=> Creating(d))
  BY <1>1, <1>2, <1>3 DEF Connecting, Creating
<1>10. ListenInv'
  BY <1>2, <1>9 DEF ListenInv
<1>11. TaskInv'
  <2>1. TaskCalls \subseteq Calls
    BY DEF Calls
  <2>2. QED
    BY <1>2, <1>9, <2>1 DEF TaskInv
<1>12. QED
  BY <1>6, <1>7, <1>8, <1>10, <1>11

(* The event that is taken up is now what the session holds.                *)
LEMMA DequeueStep ==
  ASSUME SInv, NEW c \in Calls, Dequeue(c)
  PROVE  SInv'
<1> USE DEF SInv
<1>1. PICK type \in EventTypes, ok \in BOOLEAN :
        /\ <<c, type, ok>> \in completed
        /\ completed' = completed \ {<<c, type, ok>>}
        /\ todo' = Steps(c, type, ok)
  <2>1. PICK e \in completed : /\ e[1] = c /\ completed' = completed \ {e}
                               /\ todo' = Steps(c, e[2], e[3])
    BY DEF Dequeue
  <2>2. e[2] \in EventTypes /\ e[3] \in BOOLEAN /\ e = <<c, e[2], e[3]>>
    BY <2>1 DEF TypeOK, EventTypes
  <2>3. QED
    BY <2>1, <2>2
<1>2. /\ handling = NoCall /\ handling' = c
      /\ UNCHANGED <<rpc, session, listeners, inFlight, generation, taskGen>>
  BY DEF Dequeue, brainVars
<1>3. "connect" \in EventTypes /\ TRUE \in BOOLEAN /\ FALSE \in BOOLEAN
  BY DEF EventTypes
<1>4. /\ \A t \in EventTypes, p \in BOOLEAN :
           <<c, t, p>> \in completed <=> t = type /\ p = ok
      /\ \A d \in Calls, t \in EventTypes, p \in BOOLEAN :
           d # c => (<<d, t, p>> \in completed' <=> <<d, t, p>> \in completed)
  BY <1>1 DEF HoldInv, OneEvent
<1>5. HasEvent(c) /\ ~ HasOp(c) /\ session[c] = "alive"
  BY <1>1 DEF HoldInv, OneThing, HasEvent
<1>6. type = "connect" => ok
  <2>1. <<c, "connect", FALSE>> \notin completed
    BY DEF HoldInv, OneEvent
  <2>2. QED
    BY <1>1, <2>1
<1>7. /\ todo' \in {AllOfConnect, AllOfRead, ToFree, ToWait, ToWrite}
      /\ todo' = AllOfConnect => c \in TaskCalls
      /\ todo' \in {AllOfConnect, AllOfRead} <=> type = "connect"
  BY <1>1, <1>6, StepsOf, LeftDistinct DEF EventTypes, OpTypes
<1>8. c # NoCall
  OBVIOUS
<1>9. TypeOK'
  BY <1>1, <1>2 DEF TypeOK
<1>10. ScriptInv'
  BY <1>2, <1>7, <1>8, LeftDistinct DEF ScriptInv, Left
<1>12. \A t \in EventTypes, p \in BOOLEAN : <<c, t, p>> \notin completed'
  BY <1>1, <1>4
<1>13. HoldInv'
  <2>1. \A d \in Calls : HasOp(d)' <=> HasOp(d)
    BY <1>2 DEF HasOp
  <2>2. \A d \in Calls : d # c => (HasEvent(d)' <=> HasEvent(d))
    BY <1>4 DEF HasEvent
  <2>3. ~ HasEvent(c)' /\ Busy(c)'
    BY <1>2, <1>7, <1>12, LeftDistinct DEF HasEvent, Busy
  <2>4. \A d \in Calls : d # c => ~ Busy(d) /\ ~ Busy(d)'
    BY <1>2 DEF Busy
  <2>5. ASSUME NEW d \in Calls
        PROVE  OneThing(d)'
    BY <1>2, <1>5, <2>1, <2>2, <2>3, <2>4 DEF HoldInv, OneThing
  <2>6. \A d \in Calls : OneOp(d)'
    BY <1>2 DEF HoldInv, OneOp
  <2>7. completed' \subseteq completed
    BY <1>1
  <2>8. ASSUME NEW d \in Calls PROVE OneEvent(d)'
    <3>1. OneEvent(d)
      BY DEF HoldInv
    <3>2. QED
      BY <2>7, <3>1 DEF OneEvent
  <2>9. QED
    BY <2>5, <2>6, <2>8 DEF HoldInv
<1>14. \A d \in Calls : d # c => /\ Connecting(d)' <=> Connecting(d)
                                /\ ~ Creating(d) /\ ~ Creating(d)'
  BY <1>2, <1>3, <1>4 DEF Connecting, Creating
<1>15. ~ Connecting(c)' /\ ~ Creating(c)
  BY <1>2, <1>3, <1>8, <1>12 DEF Connecting, Creating
<1>16. Creating(c)' <=> Connecting(c)
  <2>1. Creating(c)' <=> type = "connect"
    BY <1>2, <1>7 DEF Creating
  <2>2. Connecting(c) <=> type = "connect"
    BY <1>3, <1>4, <1>6 DEF Connecting
  <2>3. QED
    BY <2>1, <2>2
<1>17. ListenInv'
  BY <1>2, <1>14, <1>15, <1>16 DEF ListenInv
<1>18. TaskInv'
  <2>1. TaskCalls \subseteq Calls
    BY DEF Calls
  <2>2. todo' \notin {AfterCreate, AfterProcess}
    BY <1>7, LeftDistinct
  <2>3. c \in TaskCalls /\ todo' = AllOfConnect => Connecting(c)
    BY <1>2, <1>16 DEF Creating
  <2>4. QED
    BY <1>2, <1>14, <1>15, <2>1, <2>2, <2>3 DEF TaskInv
<1>19. QED
  BY <1>9, <1>10, <1>13, <1>17, <1>18

-----------------------------------------------------------------------------
(* The calls a handler makes, with what they need of the script.            *)
LEMMA HandlingCall ==
  ASSUME SInv, todo # Nothing
  PROVE  handling \in Calls /\ Busy(handling) /\ ~ HasOp(handling)
         /\ ~ HasEvent(handling) /\ session[handling] = "alive"
<1>1. handling \in Calls
  BY DEF SInv, TypeOK, ScriptInv
<1>2. Busy(handling)
  BY DEF Busy
<1>3. QED
  BY <1>1, <1>2 DEF SInv, HoldInv, OneThing

LEMMA CreateStep ==
  ASSUME SInv, Create
  PROVE  SInv'
<1> USE DEF SInv
<1>1. /\ listeners' = [listeners EXCEPT ![Kind(handling)] = @ + 1]
      /\ UNCHANGED <<rpc, session, inFlight, completed, handling, generation, taskGen>>
      /\ \/ todo = AllOfConnect /\ todo' = AfterCreate
         \/ todo = AllOfRead /\ todo' = ToWrite
  BY DoStep DEF Create, ScriptInv, runtimeVars, brainVars
<1>2. /\ todo # Nothing /\ todo' # Nothing /\ todo' \in Left
      /\ todo' \notin {AllOfConnect, AllOfRead, AfterProcess}
      /\ todo' = AfterCreate => todo = AllOfConnect
  BY <1>1, LeftDistinct DEF Left
<1>3. handling \in Calls
  BY <1>2, HandlingCall
<1>4. Kind(handling) \in {"task", "status"} /\ listeners[Kind(handling)] = 0
  <2>1. Creating(handling)
    BY <1>1 DEF Creating
  <2>2. QED
    BY <1>3, <2>1 DEF ListenInv, Kind
<1>5. /\ listeners' \in [{"task", "status"} -> 0 .. 1] /\ listeners'[Kind(handling)] = 1
      /\ \A k \in {"task", "status"} : k # Kind(handling) => listeners'[k] = listeners[k]
  BY <1>1, <1>4 DEF TypeOK
<1>6. TypeOK'
  BY <1>1, <1>5 DEF TypeOK
<1>7. ScriptInv'
  BY <1>1, <1>2 DEF ScriptInv
<1>8. HoldInv'
  <2>1. \A d \in Calls : Busy(d)' <=> Busy(d)
    BY <1>1, <1>2 DEF Busy
  <2>2. QED
    BY <1>1, <2>1, HoldFrame
<1>9. /\ \A d \in Calls : (Connecting(d)' <=> Connecting(d)) /\ ~ Creating(d)'
      /\ \A d \in Calls : Creating(d) => d = handling
      /\ Creating(handling)
  BY <1>1, <1>2 DEF Connecting, Creating
<1>10. ListenInv'
  <2>1. \A d \in Calls : Kind(d) \in {"task", "status"}
    BY DEF Kind
  <2>2. \A d \in Calls : Connecting(d) /\ Kind(d) = Kind(handling) => d = handling
    BY <1>3, <1>9 DEF ListenInv
  <2>3. ~ Connecting(handling)
    <3>1. Connecting(handling) => HasEvent(handling)
      <4>1. "connect" \in EventTypes /\ TRUE \in BOOLEAN
        BY DEF EventTypes
      <4>2. QED
        BY <4>1 DEF Connecting, HasEvent
    <3>2. QED
      BY <1>2, <3>1, HandlingCall
  <2>4. ASSUME NEW d \in Calls, Connecting(d)' \/ Creating(d)'
        PROVE  Connecting(d) /\ Kind(d) # Kind(handling)
    BY <1>9, <2>2, <2>3, <2>4
  <2>5. \A k \in {"task", "status"} :
          listeners'[k] = 0 => \E c \in Calls : Kind(c) = k /\ (Connecting(c)' \/ Creating(c)')
    <3> SUFFICES ASSUME NEW k \in {"task", "status"}, listeners'[k] = 0
                 PROVE  \E c \in Calls : Kind(c) = k /\ (Connecting(c)' \/ Creating(c)')
      OBVIOUS
    <3>1. k # Kind(handling) /\ listeners[k] = 0
      BY <1>5
    <3>2. PICK c \in Calls : Kind(c) = k /\ (Connecting(c) \/ Creating(c))
      BY <3>1 DEF ListenInv
    <3>3. QED
      BY <1>9, <3>1, <3>2
  <2>6. \A d \in Calls : Connecting(d)' \/ Creating(d)' => listeners'[Kind(d)] = 0
    BY <1>5, <2>1, <2>4 DEF ListenInv
  <2>7. \A c, d \in Calls :
          (Connecting(c)' \/ Creating(c)') /\ (Connecting(d)' \/ Creating(d)') /\ Kind(c) = Kind(d)
            => c = d
    BY <2>4 DEF ListenInv
  <2>8. QED
    BY <2>5, <2>6, <2>7 DEF ListenInv
<1>11. TaskInv'
  BY <1>1, <1>2, <1>9 DEF TaskInv, Calls
<1>12. QED
  BY <1>6, <1>7, <1>8, <1>10, <1>11

LEMMA ProcessStep ==
  ASSUME SInv, ProcessRobotTask
  PROVE  /\ SInv'
         /\ handling \in TaskCalls /\ taskGen[handling] = 0
         /\ generation' = generation + 1
         /\ taskGen' = [taskGen EXCEPT ![handling] = generation']
         /\ UNCHANGED rpc
<1> USE DEF SInv
<1>1. /\ generation' = generation + 1
      /\ taskGen' = [taskGen EXCEPT ![handling] = generation + 1]
      /\ UNCHANGED <<rpc, session, listeners, inFlight, completed, handling>>
      /\ todo = AfterCreate /\ todo' = AfterProcess
  BY DoStep DEF ProcessRobotTask, ScriptInv, runtimeVars
<1>2. todo # Nothing /\ todo' # Nothing /\ todo' \in Left
      /\ todo \notin {AllOfConnect, AllOfRead}
      /\ todo' \notin {AllOfConnect, AllOfRead, AfterCreate}
  BY <1>1, LeftDistinct DEF Left
<1>3. handling \in TaskCalls /\ handling \in Calls
  BY <1>1 DEF ScriptInv, Calls
<1>4. session[handling] = "alive" /\ ~ HasEvent(handling)
  BY <1>2, HandlingCall
<1>5. taskGen[handling] = 0
  BY <1>1, <1>3 DEF TaskInv
<1>6. TypeOK'
  BY <1>1, <1>3 DEF TypeOK
<1>7. ScriptInv'
  BY <1>1, <1>2, <1>3 DEF ScriptInv
<1>8. HoldInv'
  <2>1. \A d \in Calls : Busy(d)' <=> Busy(d)
    BY <1>1, <1>2 DEF Busy
  <2>2. QED
    BY <1>1, <2>1, HoldFrame
<1>9. \A d \in Calls : (Connecting(d)' <=> Connecting(d)) /\ (Creating(d)' <=> Creating(d))
  BY <1>1, <1>2 DEF Connecting, Creating
<1>10. ListenInv'
  BY <1>1, <1>9 DEF ListenInv
<1>11. TaskInv'
  <2>1. /\ taskGen'[handling] = generation + 1 /\ generation + 1 # 0
        /\ \A d \in TaskCalls : d # handling => taskGen'[d] = taskGen[d]
    BY <1>1, <1>3 DEF TypeOK
  <2>2. ~ Connecting(handling)
    <3>1. "connect" \in EventTypes /\ TRUE \in BOOLEAN
      BY DEF EventTypes
    <3>2. QED
      BY <1>4, <3>1 DEF Connecting, HasEvent
  <2>3. TaskCalls \subseteq Calls
    BY DEF Calls
  <2>4. QED
    BY <1>1, <1>2, <1>4, <1>9, <2>1, <2>2, <2>3 DEF TaskInv
<1>12. QED
  BY <1>1, <1>3, <1>5, <1>6, <1>7, <1>8, <1>10, <1>11

(* The last call of a handler starts the next operation of its session.     *)
LEMMA OperationStep ==
  ASSUME SInv, Respond \/ Write \/ ScheduleNextWrite
  PROVE  SInv'
<1> USE DEF SInv
<1>1. PICK type \in OpTypes :
        /\ inFlight' = inFlight \cup {<<handling, type>>}
        /\ UNCHANGED <<rpc, session, listeners, completed, handling, generation, taskGen>>
        /\ todo \in {AfterProcess, ToWrite, ToWait} /\ todo' = Nothing
        /\ type = "finish" => todo = AfterProcess
  <2>1. CASE Respond
    <3>1. todo = AfterProcess /\ todo' = Nothing
      BY <2>1, DoStep DEF Respond, ScriptInv
    <3>2. QED
      BY <2>1, <3>1 DEF Respond, Start, brainVars, OpTypes
  <2>2. CASE Write
    <3>1. todo = ToWrite /\ todo' = Nothing
      BY <2>2, DoStep DEF Write, ScriptInv
    <3>2. QED
      BY <2>2, <3>1 DEF Write, Start, brainVars, OpTypes
  <2>3. CASE ScheduleNextWrite
    <3>1. todo = ToWait /\ todo' = Nothing
      BY <2>3, DoStep DEF ScheduleNextWrite, ScriptInv
    <3>2. QED
      BY <2>3, <3>1 DEF ScheduleNextWrite, Start, brainVars, OpTypes
  <2>4. QED
    BY <2>1, <2>2, <2>3
<1>2. /\ todo # Nothing /\ todo \notin {AllOfConnect, AllOfRead} /\ todo' \in Left
      /\ todo' \notin {AllOfConnect, AllOfRead, AfterCreate, AfterProcess}
  BY <1>1, LeftDistinct DEF Left
<1>3. /\ handling \in Calls /\ Busy(handling) /\ ~ HasOp(handling)
      /\ ~ HasEvent(handling) /\ session[handling] = "alive"
  BY <1>2, HandlingCall
<1>4. TypeOK'
  BY <1>1, <1>3 DEF TypeOK
<1>5. ScriptInv'
  BY <1>1, <1>2 DEF ScriptInv
<1>6. HoldInv'
  <2>1. \A d \in Calls, t \in OpTypes :
          <<d, t>> \in inFlight' <=> <<d, t>> \in inFlight \/ (d = handling /\ t = type)
    BY <1>1
  <2>2. HasOp(handling)' /\ \A t \in OpTypes : <<handling, t>> \in inFlight' => t = type
    <3>1. <<handling, type>> \in inFlight'
      BY <1>1
    <3>2. \A t \in OpTypes : <<handling, t>> \notin inFlight
      BY <1>3 DEF HasOp
    <3>3. QED
      BY <1>1, <1>3, <2>1, <3>1, <3>2 DEF HasOp
  <2>3. \A d \in Calls : d # handling => (HasOp(d)' <=> HasOp(d)) /\ ~ Busy(d)
    BY <2>1 DEF HasOp, Busy
  <2>4. \A d \in Calls : (HasEvent(d)' <=> HasEvent(d)) /\ ~ Busy(d)'
    BY <1>1 DEF HasEvent, Busy
  <2>5. ASSUME NEW d \in Calls
        PROVE  OneThing(d)'
    BY <1>1, <1>3, <2>2, <2>3, <2>4 DEF HoldInv, OneThing
  <2>6. \A d \in Calls : OneOp(d)'
    BY <2>1, <2>2 DEF HoldInv, OneOp
  <2>7. \A d \in Calls : OneEvent(d)'
    BY <1>1 DEF HoldInv, OneEvent
  <2>8. QED
    BY <2>5, <2>6, <2>7 DEF HoldInv
<1>7. \A d \in Calls : (Connecting(d)' <=> Connecting(d)) /\ ~ Creating(d)' /\ ~ Creating(d)
  BY <1>1, <1>2 DEF Connecting, Creating
<1>8. ListenInv'
  BY <1>1, <1>7 DEF ListenInv
<1>9. TaskInv'
  <2>1. type = "finish" => handling \in TaskCalls /\ taskGen[handling] # 0
    BY <1>1 DEF ScriptInv, TaskInv
  <2>2. QED
    BY <1>1, <1>2, <1>7, <2>1 DEF TaskInv, Calls
<1>10. QED
  BY <1>4, <1>5, <1>6, <1>8, <1>9

LEMMA FreeStep ==
  ASSUME SInv, Free
  PROVE  SInv'
<1> USE DEF SInv
<1>1. /\ session' = [session EXCEPT ![handling] = "freed"]
      /\ UNCHANGED <<rpc, listeners, inFlight, completed, handling, generation, taskGen>>
      /\ todo = ToFree /\ todo' = Nothing
  BY DoStep DEF Free, ScriptInv, runtimeVars, brainVars
<1>2. /\ todo # Nothing /\ todo \notin {AllOfConnect, AllOfRead} /\ todo' \in Left
      /\ todo' \notin {AllOfConnect, AllOfRead, AfterCreate, AfterProcess}
  BY <1>1, LeftDistinct DEF Left
<1>3. /\ handling \in Calls /\ Busy(handling) /\ ~ HasOp(handling)
      /\ ~ HasEvent(handling) /\ session[handling] = "alive"
  BY <1>2, HandlingCall
<1>4. /\ session'[handling] = "freed"
      /\ \A d \in Calls : d # handling => session'[d] = session[d]
  BY <1>1, <1>3 DEF TypeOK
<1>5. TypeOK'
  BY <1>1 DEF TypeOK
<1>6. ScriptInv'
  BY <1>1, <1>2 DEF ScriptInv
<1>7. HoldInv'
  <2>1. \A d \in Calls : (HasOp(d)' <=> HasOp(d)) /\ (HasEvent(d)' <=> HasEvent(d)) /\ ~ Busy(d)'
    BY <1>1 DEF HasOp, HasEvent, Busy
  <2>2. \A d \in Calls : d # handling => ~ Busy(d)
    BY DEF Busy
  <2>3. rpc[handling] \notin {"idle", "waiting"}
    BY <1>3 DEF HoldInv, OneThing
  <2>4. ASSUME NEW d \in Calls PROVE OneThing(d)'
    BY <1>1, <1>3, <1>4, <2>1, <2>2, <2>3 DEF HoldInv, OneThing
  <2>5. \A d \in Calls : OneOp(d)' /\ OneEvent(d)'
    BY <1>1 DEF HoldInv, OneOp, OneEvent
  <2>6. QED
    BY <2>4, <2>5 DEF HoldInv
<1>8. \A d \in Calls : (Connecting(d)' <=> Connecting(d)) /\ ~ Creating(d)' /\ ~ Creating(d)
  BY <1>1, <1>2 DEF Connecting, Creating
<1>9. ListenInv'
  BY <1>1, <1>8 DEF ListenInv
<1>10. TaskInv'
  BY <1>1, <1>2, <1>4, <1>8 DEF TaskInv, Calls
<1>11. QED
  BY <1>5, <1>6, <1>7, <1>9, <1>10

LEMMA ReturnStep ==
  ASSUME SInv, Return
  PROVE  SInv'
<1> USE DEF SInv
<1>1. /\ handling' = NoCall /\ todo = Nothing /\ todo' = Nothing
      /\ UNCHANGED <<rpc, session, listeners, inFlight, completed, generation, taskGen>>
  BY DEF Return, Nothing, runtimeVars, brainVars
<1>2. \A d \in Calls : /\ (Busy(d)' <=> Busy(d)) /\ (Connecting(d)' <=> Connecting(d))
                      /\ ~ Creating(d) /\ ~ Creating(d)'
  BY <1>1, LeftDistinct DEF Busy, Connecting, Creating
<1>3. TypeOK' /\ ScriptInv'
  BY <1>1, LeftDistinct DEF TypeOK, ScriptInv
<1>4. HoldInv'
  BY <1>1, <1>2, HoldFrame
<1>5. ListenInv'
  BY <1>1, <1>2 DEF ListenInv
<1>6. TaskInv'
  BY <1>1, <1>2, LeftDistinct DEF TaskInv, Calls
<1>7. QED
  BY <1>3, <1>4, <1>5, <1>6

LEMMA StutterStep ==
  ASSUME SInv, UNCHANGED vars
  PROVE  SInv'
<1> USE DEF SInv
<1>1. UNCHANGED <<rpc, session, listeners, inFlight, completed, handling, todo,
                  generation, taskGen>>
  BY DEF vars, runtimeVars, threadVars, brainVars
<1>2. \A d \in Calls : /\ (Busy(d)' <=> Busy(d)) /\ (Connecting(d)' <=> Connecting(d))
                      /\ (Creating(d)' <=> Creating(d))
  BY <1>1 DEF Busy, Connecting, Creating
<1>3. TypeOK' /\ ScriptInv'
  BY <1>1 DEF TypeOK, ScriptInv
<1>4. HoldInv'
  BY <1>1, <1>2, HoldFrame
<1>5. ListenInv'
  BY <1>1, <1>2 DEF ListenInv
<1>6. TaskInv'
  BY <1>1, <1>2 DEF TaskInv, Calls
<1>7. QED
  BY <1>3, <1>4, <1>5, <1>6

LEMMA InvStep == SInv /\ [Next]_vars => SInv'
BY ClientStep, MatchStep, CompleteStep, DequeueStep, CreateStep, ProcessStep,
   OperationStep, FreeStep, ReturnStep, StutterStep DEF Next, HandleEvent

LEMMA Invariant == Spec => []SInv
BY InitInv, InvStep, PTL DEF Spec

-----------------------------------------------------------------------------
(* Every variable has its type, whatever calls, stalls and leaves.          *)
THEOREM TypeCorrect == Spec => []TypeOK
<1>1. SInv => TypeOK
  BY DEF SInv
<1>2. QED
  BY <1>1, Invariant, PTL

(* A set that holds at most one element is counted.                         *)
LEMMA AtMostOne ==
  ASSUME NEW S, NEW x, S \subseteq {x}
  PROVE  Cardinality(S) = IF x \in S THEN 1 ELSE 0
<1>1. CASE x \in S
  <2>1. S = {x}
    BY <1>1
  <2>2. QED
    BY <1>1, <2>1, FS_Singleton
<1>2. CASE x \notin S
  <2>1. S = {}
    BY <1>2
  <2>2. QED
    BY <1>2, <2>1, FS_EmptySet
<1>3. QED
  BY <1>1, <1>2

(* No tag outlives its session, no stream has two operations, and no        *)
(* session is left with nothing to free it.                                 *)
THEOREM OneOperationAlways == Spec => []OneOperationPerSession
<1>1. SInv => OneOperationPerSession
  <2> SUFFICES ASSUME SInv, NEW c \in Calls
               PROVE  Holding(c) + (IF handling = c /\ todo # << >> THEN 1 ELSE 0)
                        = IF session[c] = "alive" THEN 1 ELSE 0
    BY DEF OneOperationPerSession
  <2> DEFINE Ops == {o \in inFlight : o[1] = c}
             Events == {e \in completed : e[1] = c}
  <2>1. Cardinality(Ops) = IF HasOp(c) THEN 1 ELSE 0
    <3>1. CASE HasOp(c)
      <4>1. PICK t \in OpTypes : <<c, t>> \in inFlight
        BY <3>1 DEF HasOp
      <4>2. Ops \subseteq {<<c, t>>} /\ <<c, t>> \in Ops
        <5>1. ASSUME NEW o \in Ops PROVE o = <<c, t>>
          <6>1. o = <<c, o[2]>> /\ o[2] \in OpTypes /\ <<c, o[2]>> \in inFlight
            BY DEF SInv, TypeOK
          <6>2. o[2] = t
            BY <4>1, <6>1 DEF SInv, HoldInv, OneOp
          <6>3. QED
            BY <6>1, <6>2
        <5>2. QED
          BY <4>1, <5>1
      <4>3. QED
        BY <3>1, <4>2, AtMostOne
    <3>2. CASE ~ HasOp(c)
      <4>1. Ops = {}
        BY <3>2 DEF SInv, TypeOK, HasOp
      <4>2. QED
        BY <3>2, <4>1, FS_EmptySet
    <3>3. QED
      BY <3>1, <3>2
  <2>2. Cardinality(Events) = IF HasEvent(c) THEN 1 ELSE 0
    <3>1. \A e \in completed : e[2] \in EventTypes /\ e[3] \in BOOLEAN
                              /\ e = <<e[1], e[2], e[3]>>
      BY DEF SInv, TypeOK, EventTypes
    <3>2. CASE HasEvent(c)
      <4>1. PICK t \in EventTypes, ok \in BOOLEAN : <<c, t, ok>> \in completed
        BY <3>2 DEF HasEvent
      <4>2. ASSUME NEW e \in Events PROVE e = <<c, t, ok>>
        <5>1. e \in completed /\ e = <<c, e[2], e[3]>>
          BY <3>1
        <5>2. e[2] = t /\ e[3] = ok
          <6>1. <<c, e[2], e[3]>> \in completed /\ e[2] \in EventTypes /\ e[3] \in BOOLEAN
            BY <3>1, <5>1
          <6>2. QED
            BY <4>1, <6>1 DEF SInv, HoldInv, OneThing, OneEvent
        <5>3. QED
          BY <5>1, <5>2
      <4>3. Events \subseteq {<<c, t, ok>>} /\ <<c, t, ok>> \in Events
        BY <4>1, <4>2
      <4>4. QED
        BY <3>2, <4>3, AtMostOne
    <3>3. CASE ~ HasEvent(c)
      <4>1. Events = {}
        BY <3>1, <3>3 DEF HasEvent
      <4>2. QED
        BY <3>3, <4>1, FS_EmptySet
    <3>4. QED
      BY <3>2, <3>3
  <2>3. Busy(c) <=> handling = c /\ todo # << >>
    BY DEF Busy, Nothing
  <2>4. Holding(c) = Cardinality(Ops) + Cardinality(Events)
    BY DEF Holding
  <2>5. /\ session[c] = "alive" <=> HasOp(c) \/ HasEvent(c) \/ Busy(c)
        /\ ~ (HasOp(c) /\ HasEvent(c)) /\ ~ (HasOp(c) /\ Busy(c)) /\ ~ (HasEvent(c) /\ Busy(c))
    BY DEF SInv, HoldInv, OneThing
  <2> HIDE DEF Ops, Events
  <2>6. QED
    BY <2>1, <2>2, <2>3, <2>4, <2>5
<1>2. QED
  BY <1>1, Invariant, PTL

(* The server waits for one call of each kind, or is about to.              *)
THEOREM AlwaysListeningAlways == Spec => []AlwaysListening
<1>1. SInv => AlwaysListening
  <2> SUFFICES ASSUME SInv, NEW k \in {"task", "status"}
               PROVE  listeners[k] + Cardinality(Unanswered(k))
                        + (IF handling # NoCall /\ Kind(handling) = k
                              /\ todo # << >> /\ Head(todo) = "create" THEN 1 ELSE 0)
                        = 1
    BY DEF AlwaysListening
  <2> DEFINE InCreate == handling # NoCall /\ Kind(handling) = k
                         /\ todo # << >> /\ Head(todo) = "create"
  <2>1. handling \in Calls \cup {NoCall}
    BY DEF SInv, TypeOK
  <2>2. InCreate <=> \E c \in Calls : Kind(c) = k /\ Creating(c)
    BY <2>1, LeftHead DEF SInv, ScriptInv, Creating
  <2>3. \A e \in Unanswered(k) : \E c \in Calls :
          e = <<c, "connect", TRUE>> /\ Kind(c) = k /\ Connecting(c)
    <3> SUFFICES ASSUME NEW e \in Unanswered(k)
                 PROVE  \E c \in Calls : e = <<c, "connect", TRUE>> /\ Kind(c) = k /\ Connecting(c)
      OBVIOUS
    <3>1. e \in completed /\ Kind(e[1]) = k /\ e[2] = "connect"
      BY DEF Unanswered
    <3>2. e[1] \in Calls /\ e[3] \in BOOLEAN /\ e = <<e[1], "connect", e[3]>>
      BY <3>1 DEF SInv, TypeOK
    <3>3. e[3] = TRUE
      <4>1. <<e[1], "connect", FALSE>> \notin completed
        BY <3>2 DEF SInv, HoldInv, OneEvent
      <4>2. e[3] # FALSE
        BY <3>1, <3>2, <4>1
      <4>3. QED
        BY <3>2, <4>2
    <3>4. QED
      BY <3>1, <3>2, <3>3 DEF Connecting
  <2>4. \A c \in Calls : Kind(c) = k /\ Connecting(c) => <<c, "connect", TRUE>> \in Unanswered(k)
    BY DEF Connecting, Unanswered
  <2>5. listeners[k] \in 0 .. 1
    BY DEF SInv, TypeOK
  <2>6. CASE listeners[k] = 1
    <3>1. \A c \in Calls : Kind(c) = k => ~ Connecting(c) /\ ~ Creating(c)
      BY <2>6 DEF SInv, ListenInv
    <3>2. Unanswered(k) = {} /\ ~ InCreate
      BY <2>2, <2>3, <3>1
    <3>3. QED
      BY <2>6, <3>2, FS_EmptySet
  <2>7. CASE listeners[k] = 0
    <3>1. PICK c \in Calls : Kind(c) = k /\ (Connecting(c) \/ Creating(c))
      BY <2>7 DEF SInv, ListenInv
    <3>2. \A d \in Calls : Kind(d) = k /\ (Connecting(d) \/ Creating(d)) => d = c
      BY <3>1 DEF SInv, ListenInv
    <3>3. ~ (Connecting(c) /\ Creating(c))
      <4>1. Creating(c) => Busy(c)
        BY LeftDistinct DEF Creating, Busy
      <4>2. Connecting(c) => HasEvent(c)
        <5>1. "connect" \in EventTypes /\ TRUE \in BOOLEAN
          BY DEF EventTypes
        <5>2. QED
          BY <5>1 DEF Connecting, HasEvent
      <4>3. QED
        BY <4>1, <4>2 DEF SInv, HoldInv, OneThing
    <3>4. Unanswered(k) \subseteq {<<c, "connect", TRUE>>}
      BY <2>3, <3>2
    <3>5. <<c, "connect", TRUE>> \in Unanswered(k) <=> Connecting(c)
      BY <2>4, <3>1 DEF Connecting, Unanswered
    <3>6. Cardinality(Unanswered(k)) = IF Connecting(c) THEN 1 ELSE 0
      BY <3>4, <3>5, AtMostOne
    <3>7. InCreate <=> Creating(c)
      BY <2>2, <3>1, <3>2
    <3>8. QED
      BY <2>7, <3>1, <3>3, <3>6, <3>7
  <2>8. QED
    BY <2>5, <2>6, <2>7
<1>2. QED
  BY <1>1, Invariant, PTL

-----------------------------------------------------------------------------
(* Processing a task accepts it, completing its answer tells the client,    *)
(* and every other step is one TaskService does not see.                    *)
LEMMA ServiceStep ==
  ASSUME SInv, [Next]_vars
  PROVE  [Service!Next]_(Service!serviceVars)
<1> DEFINE told == {c \in TaskCalls : rpc[c] = "done"}
<1> USE DEF Service!serviceVars
<1>1. CASE ProcessRobotTask
  <2>1. /\ handling \in TaskCalls /\ taskGen[handling] = 0
        /\ generation' = generation + 1
        /\ taskGen' = [taskGen EXCEPT ![handling] = generation']
        /\ UNCHANGED rpc
    BY <1>1, ProcessStep
  <2>2. Service!Accept(handling)
    BY <2>1 DEF Service!Accept
  <2>3. QED
    BY <2>1, <2>2 DEF Service!Next
<1>2. ASSUME NEW c \in Calls, NEW type \in OpTypes, Complete(c, type)
      PROVE  [Service!Next]_(Service!serviceVars)
  <2>1. /\ UNCHANGED <<generation, taskGen>> /\ <<c, type>> \in inFlight
        /\ rpc' = [rpc EXCEPT ![c] = IF type = "finish" /\ @ = "open" THEN "done" ELSE @]
        /\ rpc \in [Calls -> {"idle", "waiting", "open", "done", "gone"}]
        /\ TaskCalls \subseteq Calls
    BY <1>2 DEF Complete, brainVars, SInv, TypeOK, Calls
  <2>2. CASE type = "finish" /\ rpc[c] = "open" /\ c \in TaskCalls
    <3>1. taskGen[c] # 0 /\ c \notin told
      BY <2>1, <2>2 DEF SInv, TaskInv
    <3>2. told' = told \cup {c}
      BY <2>1, <2>2
    <3>3. Service!Answer(c)
      BY <2>1, <3>1, <3>2 DEF Service!Answer
    <3>4. QED
      BY <2>2, <3>3 DEF Service!Next
  <2>3. CASE ~ (type = "finish" /\ rpc[c] = "open" /\ c \in TaskCalls)
    <3>1. told' = told
      BY <2>1, <2>3
    <3>2. QED
      BY <2>1, <3>1
  <2>4. QED
    BY <2>2, <2>3
<1>3. ASSUME NEW c \in Calls, Call(c) \/ Leave(c) \/ Match(c)
      PROVE  [Service!Next]_(Service!serviceVars)
  <2>1. /\ UNCHANGED <<generation, taskGen>> /\ rpc[c] # "done"
        /\ \E s \in {"waiting", "gone", "open"} : rpc' = [rpc EXCEPT ![c] = s]
        /\ rpc \in [Calls -> {"idle", "waiting", "open", "done", "gone"}]
    BY <1>3 DEF Call, Leave, Match, brainVars, SInv, TypeOK
  <2>2. told' = told
    BY <2>1 DEF Calls
  <2>3. QED
    BY <2>1, <2>2
<1>4. ASSUME NEW c \in Calls, Dequeue(c)
      PROVE  UNCHANGED <<rpc, generation, taskGen>>
  BY <1>4 DEF Dequeue, brainVars
<1>5. CASE Create \/ Respond \/ Write \/ ScheduleNextWrite \/ Free \/ Return \/ UNCHANGED vars
  <2>1. UNCHANGED <<rpc, generation, taskGen>>
    BY <1>5 DEF Create, Respond, Write, ScheduleNextWrite, Start, Free, Return, vars, brainVars
  <2>2. QED
    BY <2>1
<1>6. QED
  BY <1>1, <1>2, <1>3, <1>4, <1>5 DEF Next, HandleEvent

(* Each task gets one generation, in order, before its client is answered.  *)
THEOREM ImplementsServiceAlways == Spec => ImplementsService
<1>1. Init => Service!Init
  BY DEF Init, Service!Init, Calls
<1>2. QED
  BY Invariant, ServiceStep, <1>1, PTL DEF Spec, ImplementsService, Service!Spec

-----------------------------------------------------------------------------
(* What the promise comes to, for the sessions: proved of TaskService and   *)
(* carried over by the refinement.                                          *)
ServiceInv ==
  /\ generation \in Nat /\ taskGen \in [TaskCalls -> 0 .. generation]
  /\ Service!OwnGeneration

LEMMA ServiceInvStep == ServiceInv /\ [Service!Next]_(Service!serviceVars) => ServiceInv'
<1> SUFFICES ASSUME ServiceInv, [Service!Next]_(Service!serviceVars) PROVE ServiceInv'
  OBVIOUS
<1> DEFINE told == {c \in TaskCalls : rpc[c] = "done"}
<1> USE DEF ServiceInv, Service!OwnGeneration
<1>1. ASSUME NEW c \in TaskCalls, Service!Accept(c) PROVE ServiceInv'
  <2>1. /\ taskGen[c] = 0 /\ generation' = generation + 1
        /\ taskGen' = [taskGen EXCEPT ![c] = generation + 1] /\ told' = told
    BY <1>1 DEF Service!Accept
  <2>2. taskGen' \in [TaskCalls -> 0 .. generation'] /\ generation' \in Nat
    BY <2>1
  <2>3. \A d \in TaskCalls : taskGen'[d] = (IF d = c THEN generation + 1 ELSE taskGen[d])
    BY <2>1
  <2>4. \A d \in TaskCalls : taskGen[d] \in Nat /\ taskGen[d] # generation + 1
    OBVIOUS
  <2>5. \A d, e \in TaskCalls : taskGen'[d] # 0 /\ taskGen'[d] = taskGen'[e] => d = e
    BY <2>3, <2>4
  <2>6. \A d \in told' : taskGen'[d] # 0
    BY <2>1, <2>3
  <2>7. QED
    BY <2>2, <2>5, <2>6
<1>2. ASSUME NEW c \in TaskCalls, Service!Answer(c) PROVE ServiceInv'
  <2>1. /\ taskGen[c] # 0 /\ told' = told \cup {c}
        /\ UNCHANGED <<generation, taskGen>>
    BY <1>2 DEF Service!Answer
  <2>2. \A d \in told' : taskGen'[d] # 0
    BY <2>1
  <2>3. QED
    BY <2>1, <2>2
<1>3. CASE UNCHANGED Service!serviceVars
  <2>1. UNCHANGED <<generation, taskGen, told>>
    BY <1>3 DEF Service!serviceVars
  <2>2. QED
    BY <2>1
<1>4. QED
  BY <1>1, <1>2, <1>3 DEF Service!Next

LEMMA ServiceAlways == Spec => [](SInv /\ ServiceInv)
<1>1. Init => ServiceInv
  BY DEF Init, ServiceInv, Service!OwnGeneration, Calls
<1>2. SInv /\ ServiceInv /\ [Next]_vars => ServiceInv'
  BY ServiceStep, ServiceInvStep
<1>3. QED
  BY <1>1, <1>2, Invariant, PTL DEF Spec

(* However many clients call at once, no two tasks share a generation, and  *)
(* no client is told of a task that has none (task_session.cpp:29-37,       *)
(* ai_brain.cpp:137).                                                       *)
THEOREM OwnGenerationAlways == Spec => []Service!OwnGeneration
<1>1. ServiceInv => Service!OwnGeneration
  BY DEF ServiceInv
<1>2. QED
  BY <1>1, ServiceAlways, PTL

(* The task accepted last has the greatest generation, so that of every     *)
(* result and every frame in flight is out of date.                         *)
THEOREM NewestSupersedesAlways == Spec => Service!NewestSupersedes
<1>1. SInv /\ ServiceInv /\ [Next]_vars
        => [\A c \in TaskCalls :
              taskGen'[c] # taskGen[c]
                => taskGen[c] = 0
                   /\ \A d \in TaskCalls : taskGen[d] < taskGen'[c]]_(Service!serviceVars)
  <2> SUFFICES ASSUME SInv, ServiceInv, [Next]_vars, NEW c \in TaskCalls,
                      taskGen'[c] # taskGen[c], NEW d \in TaskCalls
               PROVE  taskGen[c] = 0 /\ taskGen[d] < taskGen'[c]
    OBVIOUS
  <2>1. [Service!Next]_(Service!serviceVars)
    BY ServiceStep
  <2>2. PICK e \in TaskCalls : Service!Accept(e)
    BY <2>1 DEF Service!Next, Service!Answer, Service!serviceVars
  <2>3. taskGen[e] = 0 /\ taskGen' = [taskGen EXCEPT ![e] = generation + 1]
    BY <2>2 DEF Service!Accept
  <2>4. e = c /\ taskGen'[c] = generation + 1
    BY <2>3 DEF ServiceInv
  <2>5. QED
    BY <2>3, <2>4 DEF ServiceInv
<1>2. QED
  BY <1>1, ServiceAlways, PTL DEF Spec, Service!NewestSupersedes
=============================================================================
