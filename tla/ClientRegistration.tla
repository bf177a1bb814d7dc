-------------------------- MODULE ClientRegistration --------------------------
(***************************************************************************)
(* The registration life of lwm2m::Client (src/src/client.cpp): register,  *)
(* update and deregister, the poll() of the event loop that refreshes      *)
(* registrations, detects lost servers and reconnects with backoff, and    *)
(* the LwM2M servers it talks to.                                          *)
(*                                                                         *)
(* Every operation runs under Client::mtx_, so operations of different     *)
(* threads do not interleave; `phase' says who holds the mutex and how far *)
(* it got.  What does interleave with an operation is everything that      *)
(* happens while CoapClientImpl::send() waits for the answer: time passes, *)
(* the server handles the request (or not), sessions close, and send()'s   *)
(* own I/O loop dispatches requests of the server, whose handlers run on   *)
(* the same thread inside the operation (the mutex is recursive) and may   *)
(* call send() again.  `calls' is that stack of operations, innermost      *)
(* last.  state_ is read without mtx_, and callbacks of the application    *)
(* run inside the operations, so an operation that changes registrations_  *)
(* before state_ does it in two steps.  There is one application thread;   *)
(* what others do meanwhile is ClientLifecycle's subject.                  *)
(*                                                                         *)
(* Time is counted in ticks.  A deadline of the code (expires_at,          *)
(* next_reconnect_time_) is a countdown to it.                             *)
(***************************************************************************)
EXTENDS Integers, Sequences, FiniteSets

CONSTANTS
    Servers,            \* short server ids
    Lifetimes,          \* lifetimes, in ticks, the /1/x/1 resource starts with
    LifetimeWrites,     \* lifetimes a server may write to /1/x/1
    ThresholdNum,       \* update_trigger_threshold = ThresholdNum / ThresholdDen
    ThresholdDen,
    SendTimeout,        \* ticks send() waits for its answer
    ReconnectEnabled,   \* ReconnectionConfig, all four fields and the switch
    MaxRetries,
    InitialBackoff,
    MaxBackoff,
    Multiplier,
    AttemptMod,         \* reconnect_attempts_ counts modulo this; 2^16 in the code
    Modes,              \* what a server and the path to it may do, see ModeSet
    InstanceDeletes,    \* may a server delete its /1/x instance?
    MaxDepth,           \* bound on nested sends
    MaxOps              \* bound on application calls and server requests

(* "up": requests are answered in time; "down": nothing gets through;      *)
(* "sick": if the server answers, then with an error or no Location-Path.  *)
ModeSet == {"up", "down", "sick"}

ASSUME ConstantsAssumption ==
    /\ Lifetimes \subseteq Nat /\ Lifetimes # {}
    /\ LifetimeWrites \subseteq Nat
    /\ ThresholdNum \in Nat /\ ThresholdDen \in Nat \ {0}
    /\ SendTimeout \in Nat
    /\ ReconnectEnabled \in BOOLEAN /\ InstanceDeletes \in BOOLEAN
    /\ MaxRetries \in Nat
    /\ InitialBackoff \in Nat /\ MaxBackoff \in Nat /\ Multiplier \in Nat
    /\ AttemptMod \in Nat \ {0}
    /\ Modes \subseteq ModeSet /\ "up" \in Modes
    /\ MaxDepth \in Nat /\ MaxOps \in Nat

VARIABLES
    state,          \* state_
    registered,     \* the keys of registrations_
    ttl,            \* ticks until expires_at; -1: past it (or not registered)
    conn,           \* connections_: "none", or connected_ as "up" / "down"
    reconnecting,   \* reconnecting_
    attempts,       \* reconnect_attempts_
    rssid,          \* reconnect_ssid_
    wait,           \* ticks until next_reconnect_time_
    running,        \* running_
    phase,          \* who holds mtx_, and where it is
    due,            \* servers a loop of the holder has still to visit
    lag,            \* ticks since check_registration_updates read the clock
    calls,          \* operations in progress
    inst,           \* servers that have a Server object instance
    lifetime,       \* the lifetime that instance holds
    mode,           \* what each server and the path to it do (external)
    srvTtl,         \* the server's countdown of our registration; -1: none
    srvLt,          \* the lifetime we announced when the server took it
    knows,          \* does our location name the server's registration?
    wanted,         \* history: registrations the application has standing
    raised,         \* history: lifetime written above what we announced
    polled,         \* history: poll() completed since the last tick
    ops             \* application calls and server requests so far

clientVars == <<state, registered, ttl, conn>>
reconVars  == <<reconnecting, attempts, rssid, wait>>
loopVars   == <<running, due, lag>>
objVars    == <<inst, lifetime>>
netVars    == <<mode, srvTtl, srvLt>>
vars == <<clientVars, reconVars, loopVars, phase, calls, objVars, netVars,
          knows, wanted, raised, polled, ops>>

ClientState == {"Idle", "Registering", "Registered", "Updating",
                "Deregistering", "Error"}

Phases == {"free", "app", "pump", "updates", "reconnect", "stop", "report"}

(* An operation waits in send() ("sent") until the server has answered; a  *)
(* deregistration is then "erased" while its callback runs.                *)
Frame == [op : {"register", "update", "deregister"}, ssid : Servers, lt : Nat,
          stage : {"sent", "ok", "rejected", "erased"}, orphan : BOOLEAN,
          elapsed : Nat]

-----------------------------------------------------------------------------
(* check_registration_updates: a registration is due once it has no more   *)
(* than this left (duration_cast truncates lifetime * threshold).          *)
UpdateWindow(l) == l - (l * ThresholdNum) \div ThresholdDen

(* calculate_backoff(), for each value of reconnect_attempts_. *)
Backoff[n \in 0 .. AttemptMod - 1] ==
    IF n <= 1 THEN InitialBackoff
    ELSE LET next == Backoff[n - 1] * Multiplier
         IN  IF next > MaxBackoff THEN MaxBackoff ELSE next

Top == calls[Len(calls)]
Pop == SubSeq(calls, 1, Len(calls) - 1)

NewFrame(op, s) == [op |-> op, ssid |-> s, lt |-> lifetime[s],
                    stage |-> "sent", orphan |-> FALSE, elapsed |-> 0]

(* send() points the connection's current_response_ at its own record and  *)
(* clears it on return: a send it interrupts on the same connection can no *)
(* longer be matched with its answer.                                      *)
Push(op, s) ==
    Append([i \in DOMAIN calls |->
              IF calls[i].ssid = s THEN [calls[i] EXCEPT !.orphan = TRUE]
                                   ELSE calls[i]],
           NewFrame(op, s))

(* deregister() has erased its registration and runs on_deregistered; it   *)
(* sets state_ next.                                                       *)
Leaving == calls # <<>> /\ Top.stage = "erased"

(* The connections whose sockets are being served: all of them in poll(),  *)
(* that of the innermost send() otherwise.                                 *)
Served ==
    IF Leaving THEN {}
    ELSE IF calls # <<>> THEN {Top.ssid}
    ELSE IF phase = "pump" THEN {s \in Servers : conn[s] # "none"}
    ELSE {}

Init ==
    /\ state = "Idle" /\ registered = {} /\ ttl = [s \in Servers |-> -1]
    /\ conn = [s \in Servers |-> "none"]
    /\ reconnecting = FALSE /\ attempts = 0 /\ rssid \in Servers /\ wait = 0
    /\ running = FALSE /\ phase = "free" /\ due = {} /\ lag = 0 /\ calls = <<>>
    /\ inst = Servers /\ lifetime \in [Servers -> Lifetimes]
    /\ mode \in [Servers -> Modes] /\ srvTtl = [s \in Servers |-> -1]
    /\ srvLt = [s \in Servers |-> 0] /\ knows = [s \in Servers |-> FALSE]
    /\ wanted = {} /\ raised = [s \in Servers |-> FALSE]
    /\ polled = FALSE /\ ops = 0

-----------------------------------------------------------------------------
(* The operations up to the point where send() waits, or has failed.       *)
(* coap_send() itself can only fail when the path to the server does.      *)

(* register_with_server(s), with the connections cs, returns an error      *)
(* before a request is on the wire: no instance; connect() fails; the      *)
(* connection is there but closed, or sending on it fails.                 *)
RegisterFails(s, cs) ==
    \/ s \notin inst /\ conn' = cs /\ UNCHANGED state
    \/ s \in inst /\ cs[s] = "none" /\ mode[s] # "up" /\ conn' = cs /\ UNCHANGED state
    \/ /\ s \in inst /\ (cs[s] = "down" \/ mode[s] # "up")
       /\ conn' = [cs EXCEPT ![s] = IF @ = "none" THEN "up" ELSE @]
       /\ state' = "Error"

RegisterSends(s, cs) ==
    /\ s \in inst /\ cs[s] # "down"
    /\ conn' = [cs EXCEPT ![s] = "up"]
    /\ state' = "Registering"
    /\ calls' = Push("register", s)

(* update_registration(s) before it waits: not registered or no connection *)
(* leave the state alone, a failed send puts it back to Registered.        *)
UpdateFails(s) ==
    \/ (s \notin registered \/ conn[s] = "none") /\ UNCHANGED state
    \/ /\ s \in registered /\ conn[s] # "none"
       /\ conn[s] = "down" \/ mode[s] # "up"
       /\ state' = "Registered"

UpdateSends(s) ==
    /\ s \in registered /\ conn[s] = "up"
    /\ state' = "Updating"
    /\ calls' = Push("update", s)

DeregisteredStateMutant(left) == "Registered"

(* The state deregister() leaves, given the registrations that are left. *)
DeregisteredState(left) == IF left = {} THEN "Idle" ELSE "Registered"

(* deregister(s) once its request is answered, given up or not sendable:   *)
(* the registration goes first, state_ is set when the callback is over.   *)
EraseRegistration(s) ==
    /\ registered' = registered \ {s}
    /\ ttl' = [ttl EXCEPT ![s] = -1]
    /\ knows' = [knows EXCEPT ![s] = FALSE]
    /\ wanted' = wanted \ {s}

(* Without a connection state_ stays as it is, without an answer it says   *)
(* Deregistering meanwhile.                                                *)
DeregisterUnsent(s) ==
    /\ s \in registered
    /\ \/ conn[s] = "none" /\ UNCHANGED state
       \/ /\ conn[s] # "none" /\ (conn[s] = "down" \/ mode[s] # "up")
          /\ state' = "Deregistering"
    /\ EraseRegistration(s)
    /\ calls' = Append(calls, [NewFrame("deregister", s) EXCEPT !.stage = "erased"])

DeregisterSends(s) ==
    /\ s \in registered /\ conn[s] = "up"
    /\ state' = "Deregistering"
    /\ calls' = Push("deregister", s)

-----------------------------------------------------------------------------
(* The application thread. *)

AppTurn == phase = "free" /\ ops < MaxOps /\ ops' = ops + 1

AppStart ==
    /\ AppTurn
    /\ ~running /\ running' = TRUE
    /\ state' = "Idle"
    /\ UNCHANGED <<registered, ttl, conn, reconVars, due, lag, phase, calls,
                   objVars, netVars, knows, wanted, raised, polled>>

AppRegister(s) ==
    /\ AppTurn
    /\ \/ RegisterFails(s, conn) /\ UNCHANGED <<phase, calls>>
       \/ RegisterSends(s, conn) /\ phase' = "app"
    /\ UNCHANGED <<registered, ttl, reconVars, loopVars, objVars, netVars,
                   knows, wanted, raised, polled>>

AppUpdate(s) ==
    /\ AppTurn
    /\ \/ UpdateFails(s) /\ UNCHANGED <<phase, calls>>
       \/ UpdateSends(s) /\ phase' = "app"
    /\ UNCHANGED <<registered, ttl, conn, reconVars, loopVars, objVars, netVars,
                   knows, wanted, raised, polled>>

AppDeregister(s) ==
    /\ AppTurn
    /\ \/ /\ s \notin registered
          /\ wanted' = wanted \ {s}
          /\ UNCHANGED <<state, registered, ttl, knows, phase, calls>>
       \/ DeregisterUnsent(s) /\ phase' = "app"
       \/ /\ DeregisterSends(s) /\ phase' = "app"
          /\ UNCHANGED <<registered, ttl, knows, wanted>>
    /\ UNCHANGED <<conn, reconVars, loopVars, objVars, netVars, raised, polled>>

(* stop() by a thread other than the event thread.  It joins that thread,  *)
(* so it goes on only between two poll()s, and there are none after it.    *)
AppStop ==
    /\ AppTurn
    /\ running' = FALSE /\ phase' = "stop" /\ due' = registered
    /\ UNCHANGED <<clientVars, reconVars, lag, calls, objVars, netVars, knows,
                   wanted, raised, polled>>

StopDeregister(s) ==
    /\ phase = "stop" /\ calls = <<>> /\ s \in due
    /\ due' = due \ {s}
    /\ \/ DeregisterUnsent(s)
       \/ DeregisterSends(s) /\ UNCHANGED <<registered, ttl, knows, wanted>>
    /\ UNCHANGED <<conn, reconVars, running, lag, phase, objVars, netVars,
                   raised, polled, ops>>

(* The last block of stop() under mtx_, and what it does without it. *)
StopClears ==
    /\ phase = "stop" /\ calls = <<>> /\ due = {} /\ phase' = "report"
    /\ conn' = [s \in Servers |-> "none"]
    /\ registered' = {} /\ ttl' = [s \in Servers |-> -1]
    /\ knows' = [s \in Servers |-> FALSE]
    /\ wanted' = {}
    /\ UNCHANGED <<state, reconVars, loopVars, calls, objVars, netVars, raised,
                   polled, ops>>

StopReports ==
    /\ phase = "report" /\ phase' = "free"
    /\ state' = "Idle"
    /\ UNCHANGED <<registered, ttl, conn, reconVars, loopVars, calls, objVars,
                   netVars, knows, wanted, raised, polled, ops>>

-----------------------------------------------------------------------------
(* send() returns to the operation that called it. *)

(* Can the answer still arrive, and be matched by its token? *)
Answerable(f) == ~f.orphan /\ conn[f.ssid] = "up" /\ f.elapsed <= SendTimeout

(* The answer has arrived, or the wait has lasted SendTimeout. *)
SendReturns(ok) ==
    /\ calls # <<>> /\ ~Leaving
    /\ \/ /\ Top.stage # "sent" /\ Answerable(Top) /\ mode[Top.ssid] # "down"
          /\ ok = (Top.stage = "ok")
       \/ /\ ~(Answerable(Top) /\ mode[Top.ssid] = "up")
          /\ Top.elapsed >= SendTimeout
          /\ ~ok

(* An operation called by the application releases mtx_; one called from a *)
(* loop or a request handler goes back to it.                              *)
BackToCaller ==
    phase' = IF phase = "app" /\ Len(calls) = 1 THEN "free" ELSE phase

(* Gives up once the backoff has reached its maximum. *)
ReconnectTailMutant(ok, n) ==
    IF ok \/ Backoff[n] >= MaxBackoff
    THEN reconnecting' = FALSE /\ attempts' = 0 /\ UNCHANGED wait
    ELSE attempts' = n /\ wait' = Backoff[n] /\ UNCHANGED reconnecting

UnclampedTailMutant(ok, n) ==
    IF ok THEN reconnecting' = FALSE /\ attempts' = 0 /\ UNCHANGED wait
          ELSE /\ attempts' = n /\ wait' = InitialBackoff * Multiplier^n
               /\ UNCHANGED reconnecting

(* What try_reconnect() does with the result of its n-th attempt. *)
ReconnectTail(ok, n) ==
    IF ok THEN reconnecting' = FALSE /\ attempts' = 0 /\ UNCHANGED wait
          ELSE attempts' = n /\ wait' = Backoff[n] /\ UNCHANGED reconnecting

(* The end of register_with_server(), and of try_reconnect() if it called. *)
EndRegister(ok) ==
    /\ SendReturns(ok) /\ Top.op = "register"
    /\ LET s == Top.ssid IN
       IF ok
       THEN /\ registered' = registered \cup {s}
            /\ ttl' = [ttl EXCEPT ![s] = Top.lt]
            /\ knows' = [knows EXCEPT ![s] = srvTtl[s] >= 0]
            /\ raised' = [raised EXCEPT ![s] = lifetime[s] > Top.lt]
            /\ wanted' = IF phase = "app" THEN wanted \cup {s} ELSE wanted
            /\ state' = "Registered"
       ELSE /\ state' = "Error"
            /\ UNCHANGED <<registered, ttl, knows, raised, wanted>>
    /\ calls' = Pop /\ phase' = "free"
    /\ IF phase = "reconnect"
       THEN ReconnectTail(ok, attempts) /\ polled' = TRUE /\ UNCHANGED rssid
       ELSE UNCHANGED <<polled, reconVars>>
    /\ UNCHANGED <<conn, loopVars, objVars, netVars, ops>>

UpdatedTtlMutant(ok) == [ttl EXCEPT ![Top.ssid] = lifetime[Top.ssid]]

(* A successful update restarts the countdown from the current lifetime. *)
UpdatedTtl(ok) ==
    IF ok /\ Top.ssid \in inst
    THEN [ttl EXCEPT ![Top.ssid] = lifetime[Top.ssid]] ELSE ttl

EndUpdateMutant(ok) ==
    /\ SendReturns(ok) /\ Top.op = "update"
    /\ state' = "Registered"
    /\ ttl' = UpdatedTtl(ok)
    /\ registered' = IF ok THEN registered ELSE registered \ {Top.ssid}
    /\ calls' = Pop /\ BackToCaller
    /\ UNCHANGED <<conn, reconVars, loopVars, objVars, netVars, knows, wanted,
                   raised, polled, ops>>

EndUpdate(ok) ==
    /\ SendReturns(ok) /\ Top.op = "update"
    /\ state' = "Registered"
    /\ ttl' = UpdatedTtl(ok)
    /\ calls' = Pop /\ BackToCaller
    /\ UNCHANGED <<registered, conn, reconVars, loopVars, objVars, netVars,
                   knows, wanted, raised, polled, ops>>

EndDeregister(ok) ==
    /\ SendReturns(ok) /\ Top.op = "deregister"
    /\ EraseRegistration(Top.ssid)
    /\ calls' = [calls EXCEPT ![Len(calls)].stage = "erased"]
    /\ UNCHANGED <<state, conn, phase, reconVars, loopVars, objVars, netVars,
                   raised, polled, ops>>

(* on_deregistered has returned. *)
DeregisterDone ==
    /\ Leaving
    /\ state' = DeregisteredState(registered)
    /\ calls' = Pop /\ BackToCaller
    /\ UNCHANGED <<registered, ttl, conn, reconVars, loopVars, objVars, netVars,
                   knows, wanted, raised, polled, ops>>

-----------------------------------------------------------------------------
(* poll(), on the event thread. *)

PollBegin ==
    /\ running /\ phase = "free" /\ phase' = "pump"
    /\ UNCHANGED <<clientVars, reconVars, loopVars, calls, objVars, netVars,
                   knows, wanted, raised, polled, ops>>

(* conn->poll() has returned for every connection. *)
PumpDone ==
    /\ phase = "pump" /\ calls = <<>>
    /\ phase' = "updates" /\ due' = registered /\ lag' = 0
    /\ UNCHANGED <<clientVars, reconVars, running, calls, objVars, netVars,
                   knows, wanted, raised, polled, ops>>

(* One turn of the loop of check_registration_updates(), in any order. *)
CheckRegistrationUpdates(s) ==
    /\ phase = "updates" /\ calls = <<>> /\ s \in due
    /\ due' = due \ {s}
    /\ IF s \in inst /\ ttl[s] + lag <= UpdateWindow(lifetime[s])
       THEN \/ UpdateFails(s) /\ UNCHANGED calls
            \/ UpdateSends(s)
       ELSE UNCHANGED <<state, calls>>
    /\ UNCHANGED <<registered, ttl, conn, reconVars, running, lag, phase,
                   objVars, netVars, knows, wanted, raised, polled, ops>>

HandleConnectionLostMutant(s) ==
    /\ state' = "Error"
    /\ registered' = registered \ {s}
    /\ ttl' = [ttl EXCEPT ![s] = -1]
    /\ knows' = [knows EXCEPT ![s] = FALSE]
    /\ UNCHANGED reconVars

HandleConnectionLost(s) ==
    /\ reconnecting' = TRUE
    /\ state' = "Error"
    /\ attempts' = 0 /\ rssid' = s /\ wait' = 0
    /\ registered' = registered \ {s}
    /\ ttl' = [ttl EXCEPT ![s] = -1]
    /\ knows' = [knows EXCEPT ![s] = FALSE]

Expired == {s \in registered : ttl[s] < 0}
Closed  == {s \in Servers : conn[s] = "down"}

CheckConnectionHealth ==
    /\ phase = "updates" /\ calls = <<>> /\ due = {}
    /\ phase' = "reconnect" /\ lag' = 0
    /\ IF state # "Registered" \/ reconnecting \/ Expired \cup Closed = {}
       THEN UNCHANGED <<state, registered, ttl, knows, reconVars>>
       ELSE \E s \in IF Expired # {} THEN Expired ELSE Closed :
               HandleConnectionLost(s)
    /\ UNCHANGED <<conn, running, due, calls, objVars, netVars, wanted, raised,
                   polled, ops>>

RetriesLeftMutant == MaxRetries = 0 \/ attempts <= MaxRetries

(* try_reconnect() may make another attempt; 0 retries stands for no limit. *)
RetriesLeft == MaxRetries = 0 \/ attempts < MaxRetries

NextAttempt == (attempts + 1) % AttemptMod

(* poll() ends without a reconnection attempt: none is in progress or it   *)
(* is backing off, reconnection is disabled, or the retries are used up.   *)
NoAttempt ==
    /\ phase = "reconnect" /\ calls = <<>>
    /\ \/ (~reconnecting \/ wait > 0) /\ UNCHANGED reconnecting
       \/ /\ reconnecting /\ wait = 0
          /\ ~ReconnectEnabled \/ ~RetriesLeft
          /\ reconnecting' = FALSE
    /\ phase' = "free" /\ polled' = TRUE
    /\ UNCHANGED <<clientVars, attempts, rssid, wait, loopVars, calls, objVars,
                   netVars, knows, wanted, raised, ops>>

(* try_reconnect(): the old connection goes, and the server is registered  *)
(* with afresh; a failure is scheduled again with backoff.                 *)
TryReconnect ==
    /\ phase = "reconnect" /\ calls = <<>>
    /\ reconnecting /\ wait = 0 /\ ReconnectEnabled
    /\ RetriesLeft
    /\ LET cs == [conn EXCEPT ![rssid] = "none"] IN
       \/ /\ RegisterFails(rssid, cs) /\ ReconnectTail(FALSE, NextAttempt)
          /\ phase' = "free" /\ polled' = TRUE /\ UNCHANGED calls
       \/ /\ RegisterSends(rssid, cs) /\ attempts' = NextAttempt
          /\ UNCHANGED <<reconnecting, wait, phase, polled>>
    /\ UNCHANGED <<registered, ttl, rssid, loopVars, objVars, netVars, knows,
                   wanted, raised, ops>>

-----------------------------------------------------------------------------
(* What a served connection delivers: requests of its server, and session  *)
(* events (CoapClientImpl::event_handler).                                 *)

RequestArrives ==
    /\ \E p \in Served : mode[p] # "down" /\ conn[p] = "up"
    /\ calls # <<>> => Top.elapsed < SendTimeout
    /\ ops < MaxOps /\ ops' = ops + 1

(* Execute /1/x/8: the handler calls update_registration(), inside the     *)
(* operation whose send() dispatched the request if there is one.          *)
ExecuteUpdateTrigger(s) ==
    /\ RequestArrives /\ s \in inst /\ Len(calls) < MaxDepth
    /\ \/ UpdateFails(s) /\ UNCHANGED calls
       \/ UpdateSends(s)
    /\ UNCHANGED <<registered, ttl, conn, reconVars, loopVars, phase, objVars,
                   netVars, knows, wanted, raised, polled>>

WriteLifetime(s, l) ==
    /\ RequestArrives /\ s \in inst
    /\ lifetime' = [lifetime EXCEPT ![s] = l]
    /\ raised' = [raised EXCEPT ![s] = @ \/ l > srvLt[s]]
    /\ UNCHANGED <<clientVars, reconVars, loopVars, phase, calls, inst, netVars,
                   knows, wanted, polled>>

DeleteServerInstance(s) ==
    /\ InstanceDeletes /\ RequestArrives /\ s \in inst
    /\ inst' = inst \ {s}
    /\ UNCHANGED <<clientVars, reconVars, loopVars, phase, calls, lifetime,
                   netVars, knows, wanted, raised, polled>>

SessionEvent(s) ==
    /\ s \in Served
    /\ \/ conn[s] = "up" /\ mode[s] # "up" /\ conn' = [conn EXCEPT ![s] = "down"]
       \/ conn[s] = "down" /\ mode[s] = "up" /\ conn' = [conn EXCEPT ![s] = "up"]
    /\ UNCHANGED <<state, registered, ttl, reconVars, loopVars, phase, calls,
                   objVars, netVars, knows, wanted, raised, polled, ops>>

-----------------------------------------------------------------------------
(* The servers, the network and time: external, known from what the client *)
(* expects of them.                                                        *)

SetMode(s, m) ==
    /\ m # mode[s] /\ mode' = [mode EXCEPT ![s] = m]
    /\ UNCHANGED <<clientVars, reconVars, loopVars, phase, calls, objVars,
                   srvTtl, srvLt, knows, wanted, raised, polled, ops>>

(* The server handles the request of the i-th send.  A registration always *)
(* makes a new location; an update or a delete of an old one is refused.   *)
(* An update without "lt" keeps the lifetime announced before.             *)
ServerHandles(i) ==
    LET f == calls[i]
        s == f.ssid
        good == mode[s] = "up" /\ (f.op # "register" => knows[s])
    IN  /\ f.stage = "sent" /\ mode[s] # "down"
        /\ calls' = [calls EXCEPT ![i].stage = IF good THEN "ok" ELSE "rejected"]
        /\ IF ~good THEN UNCHANGED <<srvTtl, srvLt, knows>>
           ELSE /\ srvTtl' = [srvTtl EXCEPT ![s] =
                    CASE f.op = "register" -> f.lt
                      [] f.op = "update" -> srvLt[s]
                      [] f.op = "deregister" -> -1]
                /\ srvLt' = [srvLt EXCEPT ![s] = IF f.op = "register" THEN f.lt ELSE @]
                /\ knows' = [knows EXCEPT ![s] = f.op = "update"]
        /\ UNCHANGED <<clientVars, reconVars, loopVars, phase, objVars, mode,
                       wanted, raised, polled, ops>>

(* A server restart or an operator drops the registration. *)
ServerForgets(s) ==
    /\ mode[s] # "up" /\ srvTtl[s] >= 0
    /\ srvTtl' = [srvTtl EXCEPT ![s] = -1]
    /\ knows' = [knows EXCEPT ![s] = FALSE]
    /\ UNCHANGED <<clientVars, reconVars, loopVars, phase, calls, objVars, mode,
                   srvLt, wanted, raised, polled, ops>>

(* A countdown stops at low. *)
Down(n, low) == IF n > low THEN n - 1 ELSE low

(* A tick passes while send() waits, or between two turns of the event     *)
(* loop; the loop, if it runs, turns at least once a tick (poll_interval). *)
Tick ==
    /\ IF calls # <<>> THEN ~Leaving /\ Top.elapsed < SendTimeout
       ELSE phase = "free" /\ (running => polled)
    /\ ttl' = [s \in Servers |-> Down(ttl[s], -1)]
    /\ srvTtl' = [s \in Servers |-> Down(srvTtl[s], -1)]
    /\ knows' = [s \in Servers |-> knows[s] /\ srvTtl[s] > 0]
    /\ wait' = Down(wait, 0)
    /\ calls' = [i \in DOMAIN calls |->
          [calls[i] EXCEPT !.elapsed = IF @ <= SendTimeout THEN @ + 1 ELSE @]]
    /\ lag' = IF phase = "updates" THEN lag + 1 ELSE lag
    /\ polled' = FALSE
    /\ UNCHANGED <<state, registered, conn, reconnecting, attempts, rssid,
                   running, due, phase, objVars, mode, srvLt, wanted, raised, ops>>

-----------------------------------------------------------------------------
App ==
    \/ AppStart \/ AppStop
    \/ \E s \in Servers : AppRegister(s) \/ AppUpdate(s) \/ AppDeregister(s)

Return == \E ok \in BOOLEAN : EndRegister(ok) \/ EndUpdate(ok) \/ EndDeregister(ok)

(* The steps of whoever holds mtx_ and is not waiting in send(). *)
Holder ==
    \/ StopClears \/ StopReports \/ DeregisterDone
    \/ PumpDone \/ CheckConnectionHealth \/ NoAttempt \/ TryReconnect
    \/ \E s \in Servers : StopDeregister(s) \/ CheckRegistrationUpdates(s)

Arrivals ==
    \E s \in Servers :
       \/ ExecuteUpdateTrigger(s) \/ DeleteServerInstance(s) \/ SessionEvent(s)
       \/ \E l \in LifetimeWrites : WriteLifetime(s, l)

Handling == \E i \in DOMAIN calls : ServerHandles(i)

Environment ==
    \E s \in Servers : ServerForgets(s) \/ \E m \in Modes : SetMode(s, m)

Next == App \/ PollBegin \/ Holder \/ Return \/ Arrivals \/ Handling
        \/ Environment \/ Tick

Spec == Init /\ [][Next]_vars

(* The event loop turns, a send() returns, time passes and a server that   *)
(* is up handles what reaches it.  Nothing is assumed of the application,  *)
(* of the servers' own requests or of the network.                         *)
Fairness ==
    /\ WF_vars(PollBegin) /\ WF_vars(Holder) /\ SF_vars(Return)
    /\ WF_vars(Handling) /\ SF_vars(Tick)

FairSpec == Spec /\ Fairness

-----------------------------------------------------------------------------
ClientTypeOK ==
    /\ state \in ClientState /\ registered \subseteq Servers
    /\ ttl \in [Servers -> Nat \cup {-1}]
    /\ conn \in [Servers -> {"none", "up", "down"}]
    /\ rssid \in Servers /\ attempts \in 0 .. AttemptMod - 1

LoopTypeOK ==
    /\ phase \in Phases /\ due \subseteq Servers
    /\ lag \in Nat /\ ops \in Nat /\ wanted \subseteq Servers

ServerTypeOK ==
    /\ inst \subseteq Servers /\ lifetime \in [Servers -> Nat]
    /\ mode \in [Servers -> ModeSet]
    /\ srvTtl \in [Servers -> Nat \cup {-1}] /\ srvLt \in [Servers -> Nat]

FlagTypeOK ==
    /\ reconnecting \in BOOLEAN /\ running \in BOOLEAN /\ polled \in BOOLEAN
    /\ knows \in [Servers -> BOOLEAN] /\ raised \in [Servers -> BOOLEAN]

(* Type correctness: the fields of the client (client.hpp:161-191) stay in *)
(* their types, reconnect_attempts_ in its width.                          *)
TypeOK ==
    /\ ClientTypeOK /\ LoopTypeOK /\ ServerTypeOK /\ FlagTypeOK
    /\ calls \in Seq(Frame)

(* The client reports ClientState::Registered without a registration at    *)
(* two moments only: in on_deregistered and until deregister() sets state_ *)
(* (client.cpp:286-292), and between stop()'s last two blocks (128-131).   *)
(* It is never left so: check_connection_health() (client.cpp:752) relies  *)
(* on the single state_ to stand for all the servers.                      *)
RegisteredMeansRegistered ==
    state = "Registered" => registered # {} \/ Leaving \/ phase = "report"

(* The registration that an update or a deregistration looked up before    *)
(* its send() is there when it goes on: the iterator is used after the     *)
(* wait (client.cpp:260, 286), in which other operations run on the same   *)
(* thread.                                                                 *)
IteratorsValid ==
    \A i \in DOMAIN calls :
        calls[i].op # "register" /\ calls[i].stage # "erased"
            => calls[i].ssid \in registered

(* The client's expires_at is never later than the server's own expiry by  *)
(* more than the time send() waits, as long as nobody wrote a lifetime     *)
(* longer than the announced one: refused, unanswered and nested updates   *)
(* must not extend it (client.cpp:254-261).                                *)
BoundedSkew ==
    \A s \in registered :
        knows[s] /\ ~raised[s] => ttl[s] <= srvTtl[s] + SendTimeout

(* What the proofs need besides.  The stack: no operation is in progress   *)
(* while mtx_ is free, what nests are updates, and only a deregistration   *)
(* that nothing is nested in has erased its registration.                  *)
StackOK ==
    /\ phase \in {"free", "report"} => calls = <<>>
    /\ IteratorsValid
    /\ \A i \in DOMAIN calls :
          /\ i > 1 => calls[i].op = "update"
          /\ calls[i].stage = "erased" => calls[i].op = "deregister" /\ Len(calls) = 1

(* The lifetimes: while our location is good the server holds at least the *)
(* lifetime we schedule by, and an answer under way is not older than its  *)
(* send().                                                                 *)
LifetimeOK ==
    \A s \in Servers :
        knows[s] => /\ srvTtl[s] >= 0
                    /\ ~raised[s] => lifetime[s] <= srvLt[s]

ServerTtlOK == \A s \in Servers : srvTtl[s] <= srvLt[s]

AnswerOK(f) ==
    /\ f.op = "update" /\ knows[f.ssid] /\ f.elapsed <= SendTimeout
         => srvLt[f.ssid] <= srvTtl[f.ssid] + f.elapsed
    /\ f.op = "register"
         => /\ srvLt[f.ssid] = f.lt /\ ~knows[f.ssid]
            /\ srvTtl[f.ssid] >= 0 /\ f.elapsed <= SendTimeout
                 => f.lt <= srvTtl[f.ssid] + f.elapsed

AnswersOK == \A i \in DOMAIN calls : calls[i].stage = "ok" => AnswerOK(calls[i])

(* With reconnection on and unlimited, a registration without a connection *)
(* (update_registration's "No connection to server", client.cpp:239) only  *)
(* exists while the client is reconnecting that very server.               *)
ConnectionlessOnlyWhileReconnecting ==
    ReconnectEnabled /\ MaxRetries = 0 =>
        \A s \in registered : conn[s] = "none" => reconnecting /\ rssid = s

(* try_reconnect() never makes more attempts than max_retries allows. *)
RetriesBounded == MaxRetries > 0 => attempts <= MaxRetries

(* A failed attempt is never scheduled later than the longer of the two    *)
(* configured backoffs (calculate_backoff, client.cpp:848-863).            *)
BackoffBounded == wait <= MaxBackoff \/ wait <= InitialBackoff

(* A server the application deregistered from is not registered with again *)
(* unless the application asks (test_leshan_integration.cpp:160-165).      *)
NoUnaskedRegistration ==
    [][phase = "reconnect" => registered' \ registered \subseteq wanted]_vars

(* The application's registration with s stands, the event loop runs and   *)
(* s can be reached.                                                       *)
Calm(s) == running /\ s \in wanted /\ s \in inst /\ mode[s] = "up"

(* If all servers stay reachable, every registration the application made  *)
(* and left alone ends up alive for good at its server: whatever was lost  *)
(* before (answers, sessions, the server's memory) is repaired by updates, *)
(* expiry and reconnection, and updates then keep it alive.                *)
EventuallyKeptAlive ==
    \A s \in Servers :
        <>[](Calm(s) /\ \A t \in Servers : mode[t] = "up")
            => <>[](s \in registered /\ srvTtl[s] >= 0)

(* The same for one server, whatever the others do: README.md:69 promises  *)
(* auto-reconnection on server failure without exception.                  *)
ReachableServerRecovers ==
    \A s \in Servers :
        <>[]Calm(s) => []<>(s \in registered /\ srvTtl[s] >= 0)
=============================================================================
