---------------------------- MODULE ClientLifecycle ----------------------------
(***************************************************************************)
(* The threads of lwm2m::Client (src/src/client.cpp): start() and stop()   *)
(* of several application threads, the event thread they create and join,  *)
(* lifecycle_mtx_ that serializes them, mtx_ that guards the data, and     *)
(* callbacks that call stop() themselves.                                  *)
(*                                                                         *)
(* A section under mtx_ that waits for nothing else is one step, taken     *)
(* when the mutex is free; `mtx' is held across steps while deregister()   *)
(* waits for its answer and while a callback runs.  state_ is read without *)
(* it.  The callbacks are those of poll(), of register_with_server() and   *)
(* of deregister(); on_state_change is left out.  What poll() and          *)
(* register_with_server() do with the servers is the subject of            *)
(* ClientRegistration: here a registration succeeds or fails, is lost by   *)
(* poll(), and comes back by its reconnection.                             *)
(***************************************************************************)
EXTENDS FiniteSets, Naturals

CONSTANTS
    Apps,           \* application threads
    Event,          \* the event thread
    Nobody,         \* no thread
    Servers,        \* short server ids
    AppCalls,       \* what the application calls, see Calls
    CallbackStops   \* threads whose callbacks call stop()

Calls == {"start", "stop", "register", "deregister"}

ASSUME LifecycleAssumption ==
    /\ Event \notin Apps /\ Nobody \notin Apps \cup {Event}
    /\ AppCalls \subseteq Calls /\ CallbackStops \subseteq Apps \cup {Event}

Threads == Apps \cup {Event}

VARIABLES
    running,        \* running_
    joinable,       \* event_thread_ owns a thread nobody has joined
    lifecycle,      \* the owner of lifecycle_mtx_
    mtx,            \* the owner of mtx_, if it is in a callback or in poll()
    pc,             \* where each thread is
    caller,         \* where a callback's stop() returns to
    target,         \* whom the deregister() that holds mtx_ has asked
    todo,           \* the ssids stop() has collected and not deregistered
    state,          \* state_, as far as it is told apart here
    registered,     \* the keys of registrations_
    lost,           \* the server poll() is reconnecting, if any
    selfStopped     \* history: stopped by a callback of its own, not joined since

locks  == <<lifecycle, mtx>>
data   == <<target, todo, state, registered, lost>>
thread == <<running, joinable, selfStopped>>
vars   == <<thread, locks, pc, caller, data>>

(* The stages of stop(); those of deregister(): it has asked the server,   *)
(* and it has erased the registration and is in its callback.              *)
InStop == {"stop", "join", "collect", "deregister", "report"}
InDeregister == {"asked", "erased"}
PCs == {"idle", "start", "callback", "off", "check", "lock", "poll", "done",
        "terminated"} \cup InStop \cup InDeregister

Init ==
    /\ running = FALSE /\ joinable = FALSE /\ lifecycle = Nobody /\ mtx = Nobody
    /\ pc = [t \in Threads |-> IF t = Event THEN "off" ELSE "idle"]
    /\ caller = [t \in Threads |-> "idle"] /\ target \in Servers /\ todo = {}
    /\ state = "Idle" /\ registered = {} /\ lost = {} /\ selfStopped = FALSE

Go(t, l) == pc' = [pc EXCEPT ![t] = l]

(* mtx_ is recursive. *)
CanLock(t) == mtx \in {Nobody, t}

-----------------------------------------------------------------------------
(* start() *)

CallStart(t) ==
    /\ pc[t] = "idle" /\ "start" \in AppCalls /\ Go(t, "start")
    /\ UNCHANGED <<thread, locks, caller, data>>

(* Assigning event_thread_ destroys the thread it held: std::terminate(),  *)
(* the end of all threads, if nobody joined that one.                      *)
Started(t) ==
    /\ IF running THEN Go(t, "idle") /\ UNCHANGED <<running, joinable, state>>
       ELSE /\ running' = TRUE /\ state' = "Idle" /\ joinable' = TRUE
            /\ pc' = IF joinable THEN [u \in Threads |-> "terminated"]
                     ELSE [pc EXCEPT ![t] = "idle", ![Event] = "check"]
    /\ UNCHANGED <<selfStopped, locks, caller, target, todo, registered, lost>>

StartMutant(t) == pc[t] = "start" /\ Started(t)

Start(t) == pc[t] = "start" /\ lifecycle = Nobody /\ Started(t)

-----------------------------------------------------------------------------
(* deregister(s) of a registered server; of any other it does nothing.     *)
(* Without a connection nobody is asked and state_ stays as it is.         *)
Deregister(t, s) ==
    /\ CanLock(t) /\ mtx' = t /\ s \in registered
    /\ \/ /\ state' = "Deregistering" /\ target' = s /\ Go(t, "asked")
          /\ UNCHANGED registered
       \/ /\ registered' = registered \ {s} /\ Go(t, "erased")
          /\ UNCHANGED <<state, target>>

(* The answer has come or will not: an update made inside send() may have  *)
(* set state_ back.                                                        *)
DeregisterErases(t) ==
    /\ pc[t] = "asked" /\ Go(t, "erased")
    /\ registered' = registered \ {target}
    /\ state' \in {state, "Registered"}
    /\ UNCHANGED <<thread, locks, caller, target, todo, lost>>

(* on_deregistered has returned.  mtx_ stays with a callback that called   *)
(* the stop() that called this.                                            *)
DeregisterReturns(t) ==
    /\ pc[t] = "erased"
    /\ state' = IF registered = {} THEN "Idle" ELSE "Registered"
    /\ IF lifecycle = t
       THEN Go(t, "deregister") /\ mtx' = IF caller[t] = "idle" THEN Nobody ELSE t
       ELSE Go(t, "idle") /\ mtx' = Nobody
    /\ UNCHANGED <<thread, lifecycle, caller, target, todo, registered, lost>>

-----------------------------------------------------------------------------
(* stop() *)

CallStop(t) ==
    /\ pc[t] = "idle" /\ "stop" \in AppCalls /\ Go(t, "stop")
    /\ UNCHANGED <<thread, locks, caller, data>>

(* A callback of t calls stop(), with mtx_ held. *)
CallbackStop(t) ==
    /\ t \in CallbackStops /\ pc[t] \in {"callback", "erased"}
    /\ caller' = [caller EXCEPT ![t] = pc[t]] /\ Go(t, "stop")
    /\ UNCHANGED <<thread, locks, data>>

StopReturn(t) == Go(t, caller[t]) /\ caller' = [caller EXCEPT ![t] = "idle"]

StopLockMutant(t) ==
    /\ pc[t] = "stop" /\ lifecycle = Nobody
    /\ running' = FALSE /\ Go(t, "join") /\ lifecycle' = t
    /\ UNCHANGED <<joinable, selfStopped, mtx, caller, data>>

(* lifecycle_mtx_ is taken; the event thread does not join itself. *)
StopLock(t) ==
    /\ pc[t] = "stop" /\ lifecycle = Nobody
    /\ running' = FALSE
    /\ IF t = Event
       THEN StopReturn(t) /\ selfStopped' = TRUE /\ UNCHANGED lifecycle
       ELSE Go(t, "join") /\ lifecycle' = t /\ UNCHANGED <<selfStopped, caller>>
    /\ UNCHANGED <<joinable, mtx, data>>

StopJoinMutant(t) ==
    /\ pc[t] = "join" /\ pc[Event] \in {"off", "done"}
    /\ Go(t, "collect")
    /\ UNCHANGED <<thread, locks, caller, data>>

StopJoin(t) ==
    /\ pc[t] = "join" /\ (joinable => pc[Event] = "done")
    /\ joinable' = FALSE /\ selfStopped' = FALSE
    /\ pc' = [pc EXCEPT ![t] = "collect", ![Event] = "off"]
    /\ UNCHANGED <<running, locks, caller, data>>

StopCollect(t) ==
    /\ pc[t] = "collect" /\ CanLock(t) /\ Go(t, "deregister")
    /\ todo' = registered
    /\ UNCHANGED <<thread, locks, caller, target, state, registered, lost>>

StopDeregister(t, s) ==
    /\ pc[t] = "deregister" /\ s \in todo /\ todo' = todo \ {s}
    /\ \/ Deregister(t, s)
       \/ /\ s \notin registered /\ CanLock(t)
          /\ UNCHANGED <<mtx, pc, target, state, registered>>
    /\ UNCHANGED <<thread, lifecycle, caller, lost>>

(* The connections are closed and the registrations cleared. *)
StopTeardown(t) ==
    /\ pc[t] = "deregister" /\ CanLock(t) /\ todo = {}
    /\ registered' = {} /\ Go(t, "report")
    /\ UNCHANGED <<thread, locks, caller, target, todo, state, lost>>

StopReportMutant(t) ==
    /\ pc[t] = "report" /\ UNCHANGED state
    /\ lifecycle' = Nobody /\ StopReturn(t)
    /\ UNCHANGED <<thread, mtx, target, todo, registered, lost>>

(* The last set_state(Idle) is made without mtx_. *)
StopReport(t) ==
    /\ pc[t] = "report" /\ state' = "Idle"
    /\ lifecycle' = Nobody /\ StopReturn(t)
    /\ UNCHANGED <<thread, mtx, target, todo, registered, lost>>

-----------------------------------------------------------------------------
(* Registrations of the application, with mtx_ held through on_registered. *)

Accepted(s) ==
    /\ registered' = registered \cup {s}
    /\ state' = "Registered"

(* Without an instance or a connection state_ is left alone. *)
Refused == state' \in {state, "Error"} /\ UNCHANGED registered

AppRegister(t, s) ==
    /\ pc[t] = "idle" /\ "register" \in AppCalls /\ CanLock(t)
    /\ \/ Accepted(s) /\ mtx' = t /\ Go(t, "callback")
       \/ Refused /\ UNCHANGED <<mtx, pc>>
    /\ UNCHANGED <<thread, lifecycle, caller, target, todo, lost>>

RegisterReturns(t) ==
    /\ t \in Apps /\ pc[t] = "callback" /\ mtx' = Nobody /\ Go(t, "idle")
    /\ UNCHANGED <<thread, lifecycle, caller, data>>

AppDeregister(t, s) ==
    /\ pc[t] = "idle" /\ "deregister" \in AppCalls /\ Deregister(t, s)
    /\ UNCHANGED <<thread, lifecycle, caller, todo, lost>>

-----------------------------------------------------------------------------
(* run_event_loop() *)

LoopCheckMutant ==
    /\ pc[Event] = "check" /\ Go(Event, "lock")
    /\ UNCHANGED <<thread, locks, caller, data>>

LoopCheck ==
    /\ pc[Event] = "check" /\ Go(Event, IF running THEN "lock" ELSE "done")
    /\ UNCHANGED <<thread, locks, caller, data>>

PollBegin ==
    /\ pc[Event] = "lock" /\ mtx = Nobody /\ mtx' = Event /\ Go(Event, "poll")
    /\ UNCHANGED <<thread, lifecycle, caller, data>>

(* handle_connection_lost(): the registration counts as gone. *)
PollLoses(s) ==
    /\ pc[Event] = "poll" /\ state = "Registered" /\ lost = {} /\ s \in registered
    /\ lost' = {s} /\ registered' = registered \ {s}
    /\ state' = "Error" /\ Go(Event, "callback")
    /\ UNCHANGED <<thread, locks, caller, target, todo>>

(* try_reconnect() *)
PollReconnects(s) ==
    /\ pc[Event] = "poll" /\ s \in lost
    /\ \/ Accepted(s) /\ lost' = {}
       \/ Refused /\ UNCHANGED lost
    /\ Go(Event, "callback")
    /\ UNCHANGED <<thread, locks, caller, target, todo>>

PollEnd ==
    /\ pc[Event] \in {"poll", "callback"} /\ mtx' = Nobody /\ Go(Event, "check")
    /\ UNCHANGED <<thread, lifecycle, caller, data>>

-----------------------------------------------------------------------------
Call(t) ==
    \/ CallStart(t) \/ CallStop(t)
    \/ \E s \in Servers : AppRegister(t, s) \/ AppDeregister(t, s)

Stop(t) ==
    \/ StopLock(t) \/ StopJoin(t) \/ StopCollect(t) \/ StopTeardown(t)
    \/ StopReport(t) \/ \E s \in Servers : StopDeregister(t, s)

Poll == \E s \in Servers : PollLoses(s) \/ PollReconnects(s)

Next ==
    \/ \E t \in Apps : \/ Call(t) \/ Start(t) \/ RegisterReturns(t)
                      \/ DeregisterErases(t) \/ DeregisterReturns(t)
    \/ \E t \in Threads : CallbackStop(t) \/ Stop(t)
    \/ LoopCheck \/ PollBegin \/ Poll \/ PollEnd

Spec == Init /\ [][Next]_vars

(* A mutex that is free again and again is granted in the end (the event   *)
(* thread sleeps between two polls), and a thread that can go on does: a   *)
(* send() times out and a callback returns.  Nothing is assumed of what    *)
(* the application calls.                                                  *)
Fairness ==
    /\ \A t \in Threads : SF_vars(Stop(t))
    /\ \A t \in Apps : /\ SF_vars(Start(t)) /\ WF_vars(RegisterReturns(t))
                      /\ WF_vars(DeregisterErases(t))
                      /\ WF_vars(DeregisterReturns(t))
    /\ WF_vars(LoopCheck) /\ SF_vars(PollBegin)
    /\ SF_vars(PollEnd)

FairSpec == Spec /\ Fairness

-----------------------------------------------------------------------------
(* The fields of the client keep their types, and a thread waits for a     *)
(* lock only where the code takes one.                                     *)
TypeOK ==
    /\ running \in BOOLEAN /\ joinable \in BOOLEAN /\ selfStopped \in BOOLEAN
    /\ lifecycle \in Apps \cup {Nobody} /\ mtx \in Threads \cup {Nobody}
    /\ pc \in [Threads -> PCs]
    /\ caller \in [Threads -> {"idle", "callback", "erased"}]
    /\ state \in {"Idle", "Registered", "Deregistering", "Error"}
    /\ target \in Servers
    /\ todo \subseteq Servers /\ registered \subseteq Servers
    /\ lost \subseteq Servers

(* From its join on, a stop() has the client for itself: there is no event *)
(* thread and no start() can make one, so that no poll() sees the          *)
(* connections go (client.cpp:105-131).                                    *)
TeardownUndisturbed ==
    \A t \in Apps : lifecycle = t /\ pc[t] # "join" =>
        ~running /\ ~joinable /\ pc[Event] = "off"

(* t has removed a registration and has not set state_ yet: it is in the   *)
(* callback of deregister(), a stop() called from there included, or about *)
(* to report the end of its stop().                                        *)
Leaving(t) ==
    \/ pc[t] \in {"erased", "report"}
    \/ pc[t] \in InStop /\ caller[t] = "erased"

(* Whoever reads state_ without mtx_ finds Registered without a            *)
(* registration only while deregister() (client.cpp:286-292) or stop()     *)
(* (128-131) is about to correct it, and Deregistering only while such a   *)
(* call is under way; the operations of several threads never leave either *)
(* behind.                                                                 *)
ReportedStateSettles ==
    \/ \E t \in Threads : Leaving(t) \/ pc[t] = "terminated"
    \/ /\ state = "Registered" => registered # {}
       /\ state = "Deregistering" => \E t \in Apps : pc[t] = "asked"

(* The lock "guards the thread" (client.hpp:179): event_thread_ is never   *)
(* replaced while the thread it owns has not been joined.                  *)
NeverTerminates == \A t \in Threads : pc[t] # "terminated"

(* start() ends the program (client.cpp:86) in one case only: the loop was *)
(* stopped by one of its own callbacks, and no other stop() has joined it  *)
(* since.                                                                  *)
TerminatesOnlyAfterSelfStop == NeverTerminates \/ selfStopped

Stopping(t) == pc[t] \in InStop \/ lifecycle = t

(* Every stop() returns: "A callback on the event thread may call stop()"  *)
(* (client.cpp:95).                                                        *)
StopReturns == \A t \in Threads : Stopping(t) ~> ~Stopping(t)

(* A stop() returns unless a callback makes one that cannot: with mtx_     *)
(* held on an application thread, for which the event thread waits, or     *)
(* inside a stop() of that thread's own (client.cpp:101, 117, 138, 267);   *)
(* or on the event thread, while another stop() has lifecycle_mtx_ (92).   *)
StopReturnsUnlessCallback ==
    \A t \in Threads : Stopping(t) ~>
        \/ ~Stopping(t)
        \/ \E u \in Apps : caller[u] # "idle"
        \/ caller[Event] # "idle" /\ lifecycle # Nobody
=============================================================================
