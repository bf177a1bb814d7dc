------------------------- MODULE ClientLifecycleProofs -------------------------
(* What ClientLifecycle's locks protect, for any number of threads and     *)
(* servers, whichever of them call stop() from a callback.                 *)
EXTENDS ClientLifecycle, TLAPS

(* Who owns what: lifecycle_mtx_ belongs to the stop() that joins or tears *)
(* down, mtx_ to the thread that polls, deregisters or is in a callback.   *)
(* A stop() called from a callback knows where to return, and the event    *)
(* thread never gets past the first check of stop().                       *)
Owns(t) ==
    /\ pc[t] \in InStop \ {"stop"} => lifecycle = t
    /\ lifecycle = t => pc[t] \in InStop \cup InDeregister
    /\ pc[t] \in {"poll", "callback"} \cup InDeregister => mtx = t
    /\ pc[t] \in InStop /\ caller[t] # "idle" => mtx = t
    /\ caller[t] # "idle" => pc[t] \in InStop \cup {"terminated"} \/ lifecycle = t
    /\ pc[t] = "terminated" => \A u \in Threads : pc[u] = "terminated"

OwnersOK ==
    /\ \A t \in Threads : Owns(t)
    /\ pc[Event] = "stop" => caller[Event] = "callback"
    /\ pc[Event] \notin {"idle", "start"} \cup (InStop \ {"stop"}) \cup InDeregister

(* A stop() that waits to join has told the loop to end, and a thread that *)
(* nobody can join is none.                                                *)
HandleOK ==
    /\ \A t \in Threads : pc[t] = "join" => ~running
    /\ ~joinable => pc[Event] \in {"off", "terminated"}

(* A client that has not been started satisfies all of them. *)
LEMMA InitLife == Init => TypeOK /\ OwnersOK /\ HandleOK /\ TeardownUndisturbed
  BY LifecycleAssumption DEF Init, TypeOK, OwnersOK, Owns, HandleOK,
     TeardownUndisturbed, Threads, PCs, InStop, InDeregister

(* No step of start(), stop(), the application or the event loop leaves    *)
(* the types.                                                              *)
LEMMA NextLifeType ==
    ASSUME TypeOK, OwnersOK, [Next]_vars
    PROVE  TypeOK'
<1> USE LifecycleAssumption DEF Threads, locks, data, thread, Go, CanLock, PCs, InStop,
       InDeregister, TypeOK, OwnersOK, Owns
<1>1. ASSUME NEW t \in Apps, CallStart(t) PROVE TypeOK'
  BY <1>1 DEF CallStart
<1>2. ASSUME NEW t \in Apps, CallStop(t) PROVE TypeOK'
  BY <1>2 DEF CallStop
<1>3. ASSUME NEW t \in Apps, Start(t) PROVE TypeOK'
  <2>1. CASE running  BY <1>3, <2>1 DEF Start, Started
  <2>2. CASE ~running /\ joinable  BY <1>3, <2>2 DEF Start, Started
  <2>3. CASE ~running /\ ~joinable  BY <1>3, <2>3 DEF Start, Started
  <2> QED  BY <2>1, <2>2, <2>3
<1>4. ASSUME NEW t \in Apps, NEW s \in Servers, AppRegister(t, s)
      PROVE  TypeOK'
  BY <1>4 DEF AppRegister, Accepted, Refused
<1>5. ASSUME NEW t \in Apps, NEW s \in Servers, AppDeregister(t, s)
      PROVE  TypeOK'
  BY <1>5 DEF AppDeregister, Deregister
<1>6. ASSUME NEW t \in Apps, RegisterReturns(t) PROVE TypeOK'
  BY <1>6 DEF RegisterReturns
<1>7. ASSUME NEW t \in Apps, DeregisterErases(t) PROVE TypeOK'
  BY <1>7 DEF DeregisterErases
<1>8. ASSUME NEW t \in Apps, DeregisterReturns(t) PROVE TypeOK'
  BY <1>8 DEF DeregisterReturns
<1>9. ASSUME NEW t \in Threads, CallbackStop(t) PROVE TypeOK'
  BY <1>9 DEF CallbackStop
<1>10. ASSUME NEW t \in Threads, StopLock(t) PROVE TypeOK'
  <2>1. caller[t] \in PCs /\ t \in Threads  OBVIOUS
  <2>2. /\ pc' \in [Threads -> PCs] /\ lifecycle' \in Apps \cup {Nobody}
        /\ caller' \in [Threads -> {"idle", "callback", "erased"}]
        /\ running' \in BOOLEAN /\ selfStopped' \in BOOLEAN
    <3>1. CASE t = Event
      <4>1. /\ pc' = [pc EXCEPT ![t] = caller[t]]
            /\ caller' = [caller EXCEPT ![t] = "idle"]
            /\ lifecycle' = lifecycle /\ running' = FALSE /\ selfStopped' = TRUE
        BY <1>10, <3>1 DEF StopLock, StopReturn
      <4> QED  BY <2>1, <4>1
    <3>2. CASE t # Event
      <4>1. /\ pc' = [pc EXCEPT ![t] = "join"] /\ caller' = caller
            /\ lifecycle' = t /\ running' = FALSE /\ selfStopped' = selfStopped
        BY <1>10, <3>2 DEF StopLock
      <4> QED  BY <3>2, <4>1
    <3> QED  BY <3>1, <3>2
  <2> QED  BY <1>10, <2>2 DEF StopLock
<1>11. ASSUME NEW t \in Threads, StopJoin(t) PROVE TypeOK'
  BY <1>11 DEF StopJoin
<1>12. ASSUME NEW t \in Threads, StopCollect(t) PROVE TypeOK'
  BY <1>12 DEF StopCollect
<1>13. ASSUME NEW t \in Threads, NEW s \in Servers, StopDeregister(t, s)
       PROVE  TypeOK'
  BY <1>13 DEF StopDeregister, Deregister
<1>14. ASSUME NEW t \in Threads, StopTeardown(t) PROVE TypeOK'
  BY <1>14 DEF StopTeardown
<1>15. ASSUME NEW t \in Threads, StopReport(t) PROVE TypeOK'
  BY <1>15 DEF StopReport, StopReturn
<1>16. ASSUME LoopCheck PROVE TypeOK'
  BY <1>16 DEF LoopCheck
<1>17. ASSUME PollBegin PROVE TypeOK'
  BY <1>17 DEF PollBegin
<1>18. ASSUME NEW s \in Servers, PollLoses(s) PROVE TypeOK'
  BY <1>18 DEF PollLoses
<1>19. ASSUME NEW s \in Servers, PollReconnects(s) PROVE TypeOK'
  BY <1>19 DEF PollReconnects, Accepted, Refused
<1>20. ASSUME PollEnd PROVE TypeOK'
  BY <1>20 DEF PollEnd
<1>21. CASE UNCHANGED vars
  BY <1>21 DEF vars
<1> HIDE DEF TypeOK, OwnersOK, Owns
<1> QED BY <1>1, <1>2, <1>3, <1>4, <1>5, <1>6, <1>7, <1>8, <1>9, <1>10,
        <1>11, <1>12, <1>13, <1>14, <1>15, <1>16, <1>17, <1>18, <1>19,
        <1>20, <1>21
        DEF Next, Call, Stop, Poll

(* The locks change hands only as OwnersOK says: start(), stop() and       *)
(* deregister() (client.cpp:77-132, 267-294) give back what they took.     *)
LEMMA NextOwners ==
    ASSUME TypeOK, OwnersOK, HandleOK, [Next]_vars
    PROVE  OwnersOK'
<1> USE LifecycleAssumption DEF Threads, locks, data, thread, Go, CanLock, PCs, InStop,
       InDeregister, TypeOK, OwnersOK, Owns
<1>1. ASSUME NEW t \in Apps, CallStart(t) PROVE OwnersOK'
  BY <1>1 DEF CallStart
<1>2. ASSUME NEW t \in Apps, CallStop(t) PROVE OwnersOK'
  BY <1>2 DEF CallStop
<1>3. ASSUME NEW t \in Apps, Start(t) PROVE OwnersOK'
  <2>1. CASE running  BY <1>3, <2>1 DEF Start, Started
  <2>2. CASE ~running /\ joinable
    <3>1. /\ pc' = [u \in Threads |-> "terminated"] /\ caller' = caller
          /\ lifecycle = Nobody /\ lifecycle' = Nobody
      BY <1>3, <2>2 DEF Start, Started
    <3> QED  BY <3>1
  <2>3. CASE ~running /\ ~joinable
    <3>1. /\ pc' = [pc EXCEPT ![t] = "idle", ![Event] = "check"]
          /\ caller' = caller /\ lifecycle = Nobody /\ lifecycle' = Nobody
          /\ mtx' = mtx /\ pc[t] = "start" /\ t # Event
      BY <1>3, <2>3 DEF Start, Started
    <3>2. pc[Event] = "off" /\ caller[Event] = "idle"
      BY <2>3, <3>1 DEF HandleOK
    <3> QED  BY <3>1, <3>2
  <2> QED  BY <2>1, <2>2, <2>3
<1>4. ASSUME NEW t \in Apps, NEW s \in Servers, AppRegister(t, s)
      PROVE  OwnersOK'
  BY <1>4 DEF AppRegister, Accepted, Refused
<1>5. ASSUME NEW t \in Apps, NEW s \in Servers, AppDeregister(t, s)
      PROVE  OwnersOK'
  BY <1>5 DEF AppDeregister, Deregister
<1>6. ASSUME NEW t \in Apps, RegisterReturns(t) PROVE OwnersOK'
  BY <1>6 DEF RegisterReturns
<1>7. ASSUME NEW t \in Apps, DeregisterErases(t) PROVE OwnersOK'
  BY <1>7 DEF DeregisterErases
<1>8. ASSUME NEW t \in Apps, DeregisterReturns(t) PROVE OwnersOK'
  BY <1>8 DEF DeregisterReturns
<1>9. ASSUME NEW t \in Threads, CallbackStop(t) PROVE OwnersOK'
  BY <1>9 DEF CallbackStop
<1>10. ASSUME NEW t \in Threads, StopLock(t) PROVE OwnersOK'
  <2>1. CASE t = Event
    <3>1. /\ pc' = [pc EXCEPT ![Event] = "callback"]
          /\ caller' = [caller EXCEPT ![Event] = "idle"]
          /\ lifecycle' = lifecycle /\ mtx' = mtx /\ mtx = Event
      BY <1>10, <2>1 DEF StopLock, StopReturn
    <3>2. \A u \in Threads : u # Event => pc'[u] = pc[u] /\ caller'[u] = caller[u]
      BY <3>1
    <3>3. pc'[Event] = "callback" /\ caller'[Event] = "idle" /\ lifecycle # Event
      BY <3>1
    <3>4. \A u \in Threads : u # Event => Owns(u)'
      BY <3>1, <3>2, <3>3, <1>10, <2>1 DEF StopLock
    <3>5. Owns(Event)'
      BY <3>1, <3>3
    <3> QED  BY <3>3, <3>4, <3>5
  <2>2. CASE t # Event
    <3>1. /\ pc[t] = "stop" /\ lifecycle = Nobody /\ t \in Apps
          /\ pc' = [pc EXCEPT ![t] = "join"] /\ lifecycle' = t
          /\ caller' = caller /\ mtx' = mtx
      BY <1>10, <2>2 DEF StopLock
    <3> QED  BY <2>2, <3>1
  <2> QED  BY <2>1, <2>2
<1>11. ASSUME NEW t \in Threads, StopJoin(t) PROVE OwnersOK'
  <2>1. /\ pc' = [pc EXCEPT ![t] = "collect", ![Event] = "off"]
        /\ pc[t] = "join" /\ t # Event /\ lifecycle = t /\ lifecycle' = t
        /\ caller' = caller /\ mtx' = mtx
    BY <1>11 DEF StopJoin
  <2>2. pc[Event] \in {"off", "done"} /\ caller[Event] = "idle"
    BY <1>11, <2>1 DEF StopJoin, HandleOK
  <2> QED  BY <2>1, <2>2
<1>12. ASSUME NEW t \in Threads, StopCollect(t) PROVE OwnersOK'
  BY <1>12 DEF StopCollect
<1>13. ASSUME NEW t \in Threads, NEW s \in Servers, StopDeregister(t, s)
       PROVE  OwnersOK'
  BY <1>13 DEF StopDeregister, Deregister
<1>14. ASSUME NEW t \in Threads, StopTeardown(t) PROVE OwnersOK'
  BY <1>14 DEF StopTeardown
<1>15. ASSUME NEW t \in Threads, StopReport(t) PROVE OwnersOK'
  BY <1>15 DEF StopReport, StopReturn
<1>16. ASSUME LoopCheck PROVE OwnersOK'
  BY <1>16 DEF LoopCheck
<1>17. ASSUME PollBegin PROVE OwnersOK'
  BY <1>17 DEF PollBegin
<1>18. ASSUME NEW s \in Servers, PollLoses(s) PROVE OwnersOK'
  BY <1>18 DEF PollLoses
<1>19. ASSUME NEW s \in Servers, PollReconnects(s) PROVE OwnersOK'
  BY <1>19 DEF PollReconnects, Accepted, Refused
<1>20. ASSUME PollEnd PROVE OwnersOK'
  BY <1>20 DEF PollEnd
<1>21. CASE UNCHANGED vars
  BY <1>21 DEF vars
<1> HIDE DEF TypeOK, OwnersOK, Owns
<1> QED BY <1>1, <1>2, <1>3, <1>4, <1>5, <1>6, <1>7, <1>8, <1>9, <1>10,
        <1>11, <1>12, <1>13, <1>14, <1>15, <1>16, <1>17, <1>18, <1>19,
        <1>20, <1>21
        DEF Next, Call, Stop, Poll

(* While one stop() tears down, the lock keeps every other stop() and      *)
(* start() out, and the event thread has been joined.                      *)
LEMMA NextTeardown ==
    ASSUME TypeOK, OwnersOK, HandleOK, TeardownUndisturbed, [Next]_vars
    PROVE  HandleOK' /\ TeardownUndisturbed'
<1> USE LifecycleAssumption DEF Threads, locks, data, thread, Go, CanLock, PCs, InStop,
       InDeregister, TypeOK, OwnersOK, Owns,
       HandleOK, TeardownUndisturbed
<1>1. ASSUME NEW t \in Apps, CallStart(t)
      PROVE  HandleOK' /\ TeardownUndisturbed'
  BY <1>1 DEF CallStart
<1>2. ASSUME NEW t \in Apps, CallStop(t)
      PROVE  HandleOK' /\ TeardownUndisturbed'
  BY <1>2 DEF CallStop
<1>3. ASSUME NEW t \in Apps, Start(t)
      PROVE  HandleOK' /\ TeardownUndisturbed'
  BY <1>3 DEF Start, Started
<1>4. ASSUME NEW t \in Apps, NEW s \in Servers, AppRegister(t, s)
      PROVE  HandleOK' /\ TeardownUndisturbed'
  BY <1>4 DEF AppRegister, Accepted, Refused
<1>5. ASSUME NEW t \in Apps, NEW s \in Servers, AppDeregister(t, s)
      PROVE  HandleOK' /\ TeardownUndisturbed'
  BY <1>5 DEF AppDeregister, Deregister
<1>6. ASSUME NEW t \in Apps, RegisterReturns(t)
      PROVE  HandleOK' /\ TeardownUndisturbed'
  BY <1>6 DEF RegisterReturns
<1>7. ASSUME NEW t \in Apps, DeregisterErases(t)
      PROVE  HandleOK' /\ TeardownUndisturbed'
  BY <1>7 DEF DeregisterErases
<1>8. ASSUME NEW t \in Apps, DeregisterReturns(t)
      PROVE  HandleOK' /\ TeardownUndisturbed'
  BY <1>8 DEF DeregisterReturns
<1>9. ASSUME NEW t \in Threads, CallbackStop(t)
      PROVE  HandleOK' /\ TeardownUndisturbed'
  BY <1>9 DEF CallbackStop
<1>10. ASSUME NEW t \in Threads, StopLock(t)
       PROVE  HandleOK' /\ TeardownUndisturbed'
  BY <1>10 DEF StopLock, StopReturn
<1>11. ASSUME NEW t \in Threads, StopJoin(t)
       PROVE  HandleOK' /\ TeardownUndisturbed'
  BY <1>11 DEF StopJoin
<1>12. ASSUME NEW t \in Threads, StopCollect(t)
       PROVE  HandleOK' /\ TeardownUndisturbed'
  BY <1>12 DEF StopCollect
<1>13. ASSUME NEW t \in Threads, NEW s \in Servers, StopDeregister(t, s)
       PROVE  HandleOK' /\ TeardownUndisturbed'
  BY <1>13 DEF StopDeregister, Deregister
<1>14. ASSUME NEW t \in Threads, StopTeardown(t)
       PROVE  HandleOK' /\ TeardownUndisturbed'
  BY <1>14 DEF StopTeardown
<1>15. ASSUME NEW t \in Threads, StopReport(t)
       PROVE  HandleOK' /\ TeardownUndisturbed'
  BY <1>15 DEF StopReport, StopReturn
<1>16. ASSUME LoopCheck PROVE HandleOK' /\ TeardownUndisturbed'
  BY <1>16 DEF LoopCheck
<1>17. ASSUME PollBegin PROVE HandleOK' /\ TeardownUndisturbed'
  BY <1>17 DEF PollBegin
<1>18. ASSUME NEW s \in Servers, PollLoses(s)
       PROVE  HandleOK' /\ TeardownUndisturbed'
  BY <1>18 DEF PollLoses
<1>19. ASSUME NEW s \in Servers, PollReconnects(s)
       PROVE  HandleOK' /\ TeardownUndisturbed'
  BY <1>19 DEF PollReconnects, Accepted, Refused
<1>20. ASSUME PollEnd PROVE HandleOK' /\ TeardownUndisturbed'
  BY <1>20 DEF PollEnd
<1>21. CASE UNCHANGED vars
  BY <1>21 DEF vars
<1> HIDE DEF TypeOK, OwnersOK, Owns
<1> QED BY <1>1, <1>2, <1>3, <1>4, <1>5, <1>6, <1>7, <1>8, <1>9, <1>10,
        <1>11, <1>12, <1>13, <1>14, <1>15, <1>16, <1>17, <1>18, <1>19,
        <1>20, <1>21
        DEF Next, Call, Stop, Poll

(* Every thread is at a place its program has, and the owners of the two   *)
(* locks and the thread handle stay among the threads, however start(),    *)
(* stop(), callbacks and the event loop interleave (client.cpp:79-145).    *)
THEOREM TypesCorrect == Spec => []TypeOK
<1>1. /\ TypeOK /\ OwnersOK /\ HandleOK /\ TeardownUndisturbed /\ [Next]_vars
      => TypeOK' /\ OwnersOK' /\ HandleOK' /\ TeardownUndisturbed'
  BY NextLifeType, NextOwners, NextTeardown
<1> QED BY <1>1, InitLife, PTL DEF Spec

(* From its join on, a stop() is undisturbed by poll() and start()         *)
(* (client.cpp:105-131), whichever threads call what, callbacks included.  *)
THEOREM TeardownCorrect == Spec => []TeardownUndisturbed
<1>1. /\ TypeOK /\ OwnersOK /\ HandleOK /\ TeardownUndisturbed /\ [Next]_vars
      => TypeOK' /\ OwnersOK' /\ HandleOK' /\ TeardownUndisturbed'
  BY NextLifeType, NextOwners, NextTeardown
<1> QED BY <1>1, InitLife, PTL DEF Spec

(* Under mtx_ nobody takes away the registration that is being             *)
(* deregistered from.                                                      *)
AskedOK == \A t \in Threads : pc[t] = "asked" => target \in registered

(* Whoever removes the last registration is leaving until it has set       *)
(* state_ too; a stop() that it calls from the callback keeps it leaving.  *)
LEMMA NextReported ==
    ASSUME TypeOK, OwnersOK, HandleOK, AskedOK, ReportedStateSettles, [Next]_vars
    PROVE  AskedOK' /\ ReportedStateSettles'
<1> USE LifecycleAssumption DEF Threads, locks, data, thread, Go, CanLock, PCs, InStop,
       InDeregister, TypeOK, OwnersOK, Owns, HandleOK,
       AskedOK, ReportedStateSettles, Leaving
<1>1. ASSUME NEW t \in Apps, CallStart(t)
      PROVE  AskedOK' /\ ReportedStateSettles'
  BY <1>1 DEF CallStart
<1>2. ASSUME NEW t \in Apps, CallStop(t)
      PROVE  AskedOK' /\ ReportedStateSettles'
  BY <1>2 DEF CallStop
<1>3. ASSUME NEW t \in Apps, Start(t)
      PROVE  AskedOK' /\ ReportedStateSettles'
  BY <1>3 DEF Start, Started
<1>4. ASSUME NEW t \in Apps, NEW s \in Servers, AppRegister(t, s)
      PROVE  AskedOK' /\ ReportedStateSettles'
  BY <1>4 DEF AppRegister, Accepted, Refused
<1>5. ASSUME NEW t \in Apps, NEW s \in Servers, AppDeregister(t, s)
      PROVE  AskedOK' /\ ReportedStateSettles'
  BY <1>5 DEF AppDeregister, Deregister
<1>6. ASSUME NEW t \in Apps, RegisterReturns(t)
      PROVE  AskedOK' /\ ReportedStateSettles'
  BY <1>6 DEF RegisterReturns
<1>7. ASSUME NEW t \in Apps, DeregisterErases(t)
      PROVE  AskedOK' /\ ReportedStateSettles'
  BY <1>7 DEF DeregisterErases
<1>8. ASSUME NEW t \in Apps, DeregisterReturns(t)
      PROVE  AskedOK' /\ ReportedStateSettles'
  BY <1>8 DEF DeregisterReturns
<1>9. ASSUME NEW t \in Threads, CallbackStop(t)
      PROVE  AskedOK' /\ ReportedStateSettles'
  BY <1>9 DEF CallbackStop
<1>10. ASSUME NEW t \in Threads, StopLock(t)
       PROVE  AskedOK' /\ ReportedStateSettles'
  BY <1>10 DEF StopLock, StopReturn
<1>11. ASSUME NEW t \in Threads, StopJoin(t)
       PROVE  AskedOK' /\ ReportedStateSettles'
  BY <1>11 DEF StopJoin
<1>12. ASSUME NEW t \in Threads, StopCollect(t)
       PROVE  AskedOK' /\ ReportedStateSettles'
  BY <1>12 DEF StopCollect
<1>13. ASSUME NEW t \in Threads, NEW s \in Servers, StopDeregister(t, s)
       PROVE  AskedOK' /\ ReportedStateSettles'
  BY <1>13 DEF StopDeregister, Deregister
<1>14. ASSUME NEW t \in Threads, StopTeardown(t)
       PROVE  AskedOK' /\ ReportedStateSettles'
  BY <1>14 DEF StopTeardown
<1>15. ASSUME NEW t \in Threads, StopReport(t)
       PROVE  AskedOK' /\ ReportedStateSettles'
  BY <1>15 DEF StopReport, StopReturn
<1>16. ASSUME LoopCheck PROVE AskedOK' /\ ReportedStateSettles'
  BY <1>16 DEF LoopCheck
<1>17. ASSUME PollBegin PROVE AskedOK' /\ ReportedStateSettles'
  BY <1>17 DEF PollBegin
<1>18. ASSUME NEW s \in Servers, PollLoses(s)
       PROVE  AskedOK' /\ ReportedStateSettles'
  BY <1>18 DEF PollLoses
<1>19. ASSUME NEW s \in Servers, PollReconnects(s)
       PROVE  AskedOK' /\ ReportedStateSettles'
  BY <1>19 DEF PollReconnects, Accepted, Refused
<1>20. ASSUME PollEnd PROVE AskedOK' /\ ReportedStateSettles'
  BY <1>20 DEF PollEnd
<1>21. CASE UNCHANGED vars
  BY <1>21 DEF vars
<1> HIDE DEF TypeOK, OwnersOK, Owns
<1> QED BY <1>1, <1>2, <1>3, <1>4, <1>5, <1>6, <1>7, <1>8, <1>9, <1>10,
        <1>11, <1>12, <1>13, <1>14, <1>15, <1>16, <1>17, <1>18, <1>19,
        <1>20, <1>21
        DEF Next, Call, Stop, Poll

(* state_ says Registered without a registration, or Deregistering without *)
(* a deregister(), only while deregister() (client.cpp:286-292) or stop()  *)
(* (128-131) is between its change of registrations_ and that of state_.   *)
THEOREM ReportedCorrect == Spec => []ReportedStateSettles
<1>1. Init => AskedOK /\ ReportedStateSettles
  BY LifecycleAssumption DEF Init, AskedOK, ReportedStateSettles, Threads
<1>2. /\ TypeOK /\ OwnersOK /\ HandleOK /\ TeardownUndisturbed
      /\ AskedOK /\ ReportedStateSettles /\ [Next]_vars
      => /\ TypeOK' /\ OwnersOK' /\ HandleOK' /\ TeardownUndisturbed'
         /\ AskedOK' /\ ReportedStateSettles'
  BY NextLifeType, NextOwners, NextTeardown, NextReported
<1> QED BY <1>1, <1>2, InitLife, PTL DEF Spec

(* Whoever clears running_ goes on to join before lifecycle_mtx_ is free   *)
(* again, except for a callback of the event thread.                       *)
JoinPending ==
    /\ joinable => running \/ lifecycle # Nobody \/ selfStopped
    /\ TerminatesOnlyAfterSelfStop

(* A stop() of another thread keeps lifecycle_mtx_ until it has joined, so *)
(* start() finds no unjoined thread but one that stopped itself.           *)
LEMMA NextJoin ==
    ASSUME TypeOK, OwnersOK, TeardownUndisturbed, JoinPending, [Next]_vars
    PROVE  JoinPending'
<1> USE LifecycleAssumption DEF Threads, locks, data, thread, Go, CanLock, PCs, InStop,
       InDeregister, TypeOK, OwnersOK, Owns,
       TeardownUndisturbed, JoinPending, TerminatesOnlyAfterSelfStop, NeverTerminates
<1>1. ASSUME NEW t \in Apps, CallStart(t) PROVE JoinPending'
  BY <1>1 DEF CallStart
<1>2. ASSUME NEW t \in Apps, CallStop(t) PROVE JoinPending'
  BY <1>2 DEF CallStop
<1>3. ASSUME NEW t \in Apps, Start(t) PROVE JoinPending'
  BY <1>3 DEF Start, Started
<1>4. ASSUME NEW t \in Apps, NEW s \in Servers, AppRegister(t, s)
      PROVE  JoinPending'
  BY <1>4 DEF AppRegister, Accepted, Refused
<1>5. ASSUME NEW t \in Apps, NEW s \in Servers, AppDeregister(t, s)
      PROVE  JoinPending'
  BY <1>5 DEF AppDeregister, Deregister
<1>6. ASSUME NEW t \in Apps, RegisterReturns(t) PROVE JoinPending'
  BY <1>6 DEF RegisterReturns
<1>7. ASSUME NEW t \in Apps, DeregisterErases(t) PROVE JoinPending'
  BY <1>7 DEF DeregisterErases
<1>8. ASSUME NEW t \in Apps, DeregisterReturns(t) PROVE JoinPending'
  BY <1>8 DEF DeregisterReturns
<1>9. ASSUME NEW t \in Threads, CallbackStop(t) PROVE JoinPending'
  BY <1>9 DEF CallbackStop
<1>10. ASSUME NEW t \in Threads, StopLock(t) PROVE JoinPending'
  BY <1>10 DEF StopLock, StopReturn
<1>11. ASSUME NEW t \in Threads, StopJoin(t) PROVE JoinPending'
  BY <1>11 DEF StopJoin
<1>12. ASSUME NEW t \in Threads, StopCollect(t) PROVE JoinPending'
  BY <1>12 DEF StopCollect
<1>13. ASSUME NEW t \in Threads, NEW s \in Servers, StopDeregister(t, s)
       PROVE  JoinPending'
  BY <1>13 DEF StopDeregister, Deregister
<1>14. ASSUME NEW t \in Threads, StopTeardown(t) PROVE JoinPending'
  BY <1>14 DEF StopTeardown
<1>15. ASSUME NEW t \in Threads, StopReport(t) PROVE JoinPending'
  BY <1>15 DEF StopReport, StopReturn
<1>16. ASSUME LoopCheck PROVE JoinPending'
  BY <1>16 DEF LoopCheck
<1>17. ASSUME PollBegin PROVE JoinPending'
  BY <1>17 DEF PollBegin
<1>18. ASSUME NEW s \in Servers, PollLoses(s) PROVE JoinPending'
  BY <1>18 DEF PollLoses
<1>19. ASSUME NEW s \in Servers, PollReconnects(s) PROVE JoinPending'
  BY <1>19 DEF PollReconnects, Accepted, Refused
<1>20. ASSUME PollEnd PROVE JoinPending'
  BY <1>20 DEF PollEnd
<1>21. CASE UNCHANGED vars
  BY <1>21 DEF vars
<1> HIDE DEF TypeOK, OwnersOK, Owns
<1> QED BY <1>1, <1>2, <1>3, <1>4, <1>5, <1>6, <1>7, <1>8, <1>9, <1>10,
        <1>11, <1>12, <1>13, <1>14, <1>15, <1>16, <1>17, <1>18, <1>19,
        <1>20, <1>21
        DEF Next, Call, Stop, Poll

(* Whatever the threads and their callbacks call, start() replaces a       *)
(* thread nobody joined (client.cpp:86) only if that thread stopped itself *)
(* (client.cpp:96) and no other stop() came in between.                    *)
THEOREM TerminationOnlyAfterSelfStop == Spec => []TerminatesOnlyAfterSelfStop
<1>1. Init => JoinPending
  BY LifecycleAssumption DEF Init, JoinPending, TerminatesOnlyAfterSelfStop,
     NeverTerminates, Threads
<1>2. /\ TypeOK /\ OwnersOK /\ HandleOK /\ TeardownUndisturbed /\ JoinPending
      /\ [Next]_vars
      => /\ TypeOK' /\ OwnersOK' /\ HandleOK' /\ TeardownUndisturbed'
         /\ JoinPending'
  BY NextLifeType, NextOwners, NextTeardown, NextJoin
<1>3. JoinPending => TerminatesOnlyAfterSelfStop
  BY DEF JoinPending
<1> QED BY <1>1, <1>2, <1>3, InitLife, PTL DEF Spec
=============================================================================
