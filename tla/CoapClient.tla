----------------------------- MODULE CoapClient -----------------------------
(***************************************************************************)
(* The connections of a Client: CoapClientImpl (src/transport/             *)
(* coap_client.cpp), one object per server, with the reference count of    *)
(* libcoap they share, their sessions and credentials, and the requests    *)
(* they wait for.                                                          *)
(*                                                                         *)
(* connect() and disconnect() are taken apart at the accesses to the       *)
(* atomic coap_init_count, because starting and cleaning up libcoap are    *)
(* steps of their own.  send() blocks and handles requests of the server   *)
(* while it waits; their handlers may call send() again, on the same       *)
(* thread and the same connection, so the calls of a connection are a      *)
(* stack whose top is the one that runs.                                   *)
(***************************************************************************)
EXTENDS Integers, Sequences, FiniteSets

CONSTANTS
    Connections,    \* the CoapClientImpl objects
    Accounts,       \* instances of Security: [uri, mode, identity, key]
    MaxConnects,    \* bound on calls of connect
    MaxSends        \* bound on calls of send that take a token, per connection

ASSUME CoapAssumption ==
    /\ IsFiniteSet(Connections)
    /\ MaxConnects \in Nat /\ MaxSends \in Nat

VARIABLES
    \* connect and disconnect
    pc,             \* where a connection is in connect() or disconnect()
    conf,           \* the ConnectionConfig of the connect() under way, or NoConf
    ctx,            \* ctx_ is set
    session,        \* session_: the protocol and the key it was made with
    psk,            \* psk_identity_ and psk_key_
    connected,      \* connected_
    count,          \* coap_init_count
    up,             \* libcoap is started
    leaks,          \* history: contexts that could not be made
    connects,       \* calls of connect so far
    \* send
    next_token,     \* next_token_
    stack,          \* the PendingResponse of each call of send under way
    current,        \* current_response_: an index of stack, or 0 for nullptr
    net,            \* what became of the request with a token
    ended           \* history: what the call with a token returned

linkVars == <<pc, conf, ctx, session, psk, connected, count, up, leaks, connects>>
sendVars == <<next_token, stack, current, net, ended>>
vars     == <<linkVars, sendVars>>

Tokens == 1 .. MaxSends

NoConf    == [uri |-> "none"]
NoPsk     == [identity |-> <<>>, key |-> <<>>]
NoSession == [proto |-> "none", psk |-> NoPsk]

No     == -1        \* a call of send that has not returned
Failed == 0         \* one that returned an error; else the token of the answer

(* PendingResponse: the token waited for, and the token of what arrived. *)
Pending == [token : Tokens, got : {No} \cup Tokens]

Init ==
    /\ pc = [c \in Connections |-> "idle"]
    /\ conf = [c \in Connections |-> NoConf]
    /\ ctx = [c \in Connections |-> FALSE]
    /\ session = [c \in Connections |-> NoSession]
    /\ psk = [c \in Connections |-> NoPsk]
    /\ connected = [c \in Connections |-> FALSE]
    /\ count = 0 /\ up = FALSE /\ leaks = 0 /\ connects = 0
    /\ next_token = [c \in Connections |-> 0]
    /\ stack = [c \in Connections |-> <<>>]
    /\ current = [c \in Connections |-> 0]
    /\ net = [c \in Connections |-> [t \in Tokens |-> "none"]]
    /\ ended = [c \in Connections |-> [t \in Tokens |-> No]]

-----------------------------------------------------------------------------
(* SecurityObject::to_connection_config; a mode the switch does not know   *)
(* leaves the default NoSec.                                               *)
to_connection_config(account) ==
    [uri  |-> account.uri,
     mode |-> CASE account.mode = 0 -> "Psk"
                [] account.mode = 1 -> "Rpk"
                [] account.mode \in {2, 4} -> "Certificate"
                [] OTHER -> "NoSec",
     psk  |-> IF account.mode = 0
              THEN [identity |-> account.identity, key |-> account.key] ELSE NoPsk]

(* setup_dtls_psk and setup_dtls_rpk: whether the credentials will do. *)
setup_dtlsMutant(config) == config.mode = "Psk" /\ config.psk.key # <<>>
setup_dtls(config) ==
    config.mode = "Psk" /\ config.psk.identity # <<>> /\ config.psk.key # <<>>

UseDtls(config) == config.uri = "coaps"

(* Only coaps looks at the credentials; NoSec and Certificate are refused. *)
Acceptable(config) ==
    config.uri # "bad" /\ (UseDtls(config) => setup_dtls(config))

(* The two ways connect() makes a session. *)
NewSession(config, stored) ==
    IF UseDtls(config) /\ stored.identity # <<>>
    THEN [proto |-> "dtls", psk |-> stored]
    ELSE [proto |-> IF UseDtls(config) THEN "dtls" ELSE "udp", psk |-> NoPsk]

(* Client::mtx_ is held by whoever connects or disconnects a connection. *)
AloneMutant == TRUE
Alone == \A d \in Connections : pc[d] = "idle"

(* disconnect() up to coap_init_count.fetch_sub(1); after is where the     *)
(* caller goes on, once coap_cleanup() has run if this was the last user.  *)
ReleaseMutant(c, after) ==
    /\ ctx' = [ctx EXCEPT ![c] = FALSE]
    /\ session' = [session EXCEPT ![c] = NoSession]
    /\ psk' = [psk EXCEPT ![c] = NoPsk]
    /\ count' = IF ctx[c] THEN count - 1 ELSE count
    /\ pc' = [pc EXCEPT ![c] = IF ctx[c] /\ count = 1 THEN "cleanup" ELSE after]
    /\ UNCHANGED connected

ReleaseCountMutant(c, after) ==
    /\ ctx' = [ctx EXCEPT ![c] = FALSE]
    /\ session' = [session EXCEPT ![c] = NoSession]
    /\ psk' = [psk EXCEPT ![c] = NoPsk]
    /\ connected' = [connected EXCEPT ![c] = FALSE]
    /\ count' = count - 1
    /\ pc' = [pc EXCEPT ![c] = IF count = 1 THEN "cleanup" ELSE after]

Release(c, after) ==
    /\ ctx' = [ctx EXCEPT ![c] = FALSE]
    /\ session' = [session EXCEPT ![c] = NoSession]
    /\ psk' = [psk EXCEPT ![c] = NoPsk]
    /\ connected' = [connected EXCEPT ![c] = FALSE]
    /\ count' = IF ctx[c] THEN count - 1 ELSE count
    /\ pc' = [pc EXCEPT ![c] = IF ctx[c] /\ count = 1 THEN "cleanup" ELSE after]

(* Where a connection goes after a disconnect(): on, if connect() called it. *)
After(config) == IF config = NoConf THEN "idle" ELSE "init"

(* No call of send is under way on c: io_mtx_ is free. *)
Quiet(c) == stack[c] = <<>>

BeginConnect(c, account) ==
    /\ Alone /\ Quiet(c) /\ connects < MaxConnects
    /\ connects' = connects + 1
    /\ conf' = [conf EXCEPT ![c] = to_connection_config(account)]
    /\ Release(c, "init")
    /\ UNCHANGED <<up, leaks, sendVars>>

BeginDisconnect(c) ==
    /\ Alone /\ Quiet(c)
    /\ conf' = [conf EXCEPT ![c] = NoConf]
    /\ Release(c, "idle")
    /\ UNCHANGED <<up, leaks, connects, sendVars>>

(* cleanup_libcoap() after the count has reached zero. *)
CoapCleanup(c) ==
    /\ pc[c] = "cleanup"
    /\ up' = FALSE
    /\ pc' = [pc EXCEPT ![c] = After(conf[c])]
    /\ UNCHANGED <<conf, ctx, session, psk, connected, count, leaks, connects, sendVars>>

(* init_libcoap() *)
FetchAdd(c) ==
    /\ pc[c] = "init"
    /\ count' = count + 1
    /\ pc' = [pc EXCEPT ![c] = IF count = 0 THEN "startup" ELSE "setup"]
    /\ UNCHANGED <<conf, ctx, session, psk, connected, up, leaks, connects, sendVars>>

CoapStartup(c) ==
    /\ pc[c] = "startup"
    /\ up' = TRUE
    /\ pc' = [pc EXCEPT ![c] = "setup"]
    /\ UNCHANGED <<conf, ctx, session, psk, connected, count, leaks, connects, sendVars>>

(* coap_new_context() fails: connect() returns without cleanup_libcoap().  *)
NoContext(c) ==
    /\ pc[c] = "setup"
    /\ leaks' = leaks + 1
    /\ conf' = [conf EXCEPT ![c] = NoConf]
    /\ pc' = [pc EXCEPT ![c] = "idle"]
    /\ UNCHANGED <<ctx, session, psk, connected, count, up, connects, sendVars>>

(* The context is made, and the credentials are stored if they are used.   *)
NewContext(c) ==
    /\ pc[c] = "setup"
    /\ ctx' = [ctx EXCEPT ![c] = TRUE]
    /\ psk' = [psk EXCEPT ![c] =
                 IF Acceptable(conf[c]) /\ UseDtls(conf[c]) THEN conf[c].psk ELSE NoPsk]
    /\ pc' = [pc EXCEPT ![c] = IF Acceptable(conf[c]) THEN "resolve" ELSE "undo"]
    /\ UNCHANGED <<conf, session, connected, count, up, leaks, connects, sendVars>>

(* The address is resolved and the session made. *)
Connected(c) ==
    /\ pc[c] = "resolve"
    /\ session' = [session EXCEPT ![c] = NewSession(conf[c], psk[c])]
    /\ connected' = [connected EXCEPT ![c] = TRUE]
    /\ pc' = [pc EXCEPT ![c] = "idle"]
    /\ UNCHANGED <<conf, ctx, psk, count, up, leaks, connects, sendVars>>

(* Every other end of connect() is disconnect() and an error. *)
ConnectFails(c) ==
    /\ pc[c] \in {"resolve", "undo"}
    /\ conf' = [conf EXCEPT ![c] = NoConf]
    /\ Release(c, "idle")
    /\ UNCHANGED <<up, leaks, connects, sendVars>>

(* event_handler: libcoap reports on the session while it is polled. *)
SessionEvent(c, isUp) ==
    /\ pc[c] = "idle" /\ session[c] # NoSession
    /\ connected' = [connected EXCEPT ![c] = isUp]
    /\ UNCHANGED <<pc, conf, ctx, session, psk, count, up, leaks, connects, sendVars>>

-----------------------------------------------------------------------------
(* send *)

Top(c) == Len(stack[c])

(* send() up to the token: a connection that is not connected takes none.  *)
TakeToken(c) ==
    /\ pc[c] = "idle" /\ connected[c] /\ next_token[c] < MaxSends
    /\ next_token' = [next_token EXCEPT ![c] = @ + 1]
    /\ UNCHANGED linkVars

Send(c) ==
    /\ TakeToken(c)
    /\ stack' = [stack EXCEPT ![c] = Append(@, [token |-> next_token'[c], got |-> No])]
    /\ current' = [current EXCEPT ![c] = Len(stack[c]) + 1]
    /\ net' = [net EXCEPT ![c][next_token'[c]] = "sent"]
    /\ UNCHANGED ended

(* The payload does not fit, or coap_send() fails, which also forgets the  *)
(* call that may be waiting further down.                                  *)
SendFails(c, fits) ==
    /\ TakeToken(c)
    /\ current' = [current EXCEPT ![c] = IF fits THEN 0 ELSE @]
    /\ ended' = [ended EXCEPT ![c][next_token'[c]] = Failed]
    /\ UNCHANGED <<stack, net>>

(* The server gets a request, at any time after it was sent, and answers.  *)
ServerAnswers(c, t) ==
    /\ net[c][t] = "sent"
    /\ net' = [net EXCEPT ![c][t] = "answered"]
    /\ UNCHANGED <<linkVars, next_token, stack, current, ended>>

ExpectedMutant(c, t) == current[c] # 0
Expected(c, t) == current[c] # 0 /\ stack[c][current[c]].token = t

(* response_handler: the answer to t arrives while c is polled, late or    *)
(* once more perhaps.                                                      *)
response_handler(c, t) ==
    /\ pc[c] = "idle" /\ session[c] # NoSession
    /\ net[c][t] = "answered"
    /\ Expected(c, t)
    /\ stack' = [stack EXCEPT ![c][current[c]].got = t]
    /\ UNCHANGED <<linkVars, next_token, current, net, ended>>

ForgetMutant(c) == current

(* current_response_ = nullptr, at each return. *)
Forget(c) == [current EXCEPT ![c] = 0]

SendReturnsMutant(c) ==
    LET pending == stack[c][Top(c)] IN
    /\ stack[c] # <<>> /\ pending.got # No
    /\ stack' = [stack EXCEPT ![c] = SubSeq(@, 1, Len(@) - 1)]
    /\ current' = Forget(c)
    /\ ended' = [ended EXCEPT ![c][pending.token] = pending.got]
    /\ UNCHANGED <<linkVars, next_token, net>>

(* The running call returns: its loop sees that the answer is there, or    *)
(* that the time is over.                                                  *)
SendReturns(c) ==
    LET pending == stack[c][Top(c)] IN
    /\ stack[c] # <<>>
    /\ stack' = [stack EXCEPT ![c] = SubSeq(@, 1, Len(@) - 1)]
    /\ current' = Forget(c)
    /\ ended' = [ended EXCEPT ![c][pending.token] =
                   IF pending.got = No THEN Failed ELSE pending.got]
    /\ UNCHANGED <<linkVars, next_token, net>>

-----------------------------------------------------------------------------
Next ==
    \E c \in Connections :
        \/ \E account \in Accounts : BeginConnect(c, account)
        \/ BeginDisconnect(c)
        \/ CoapCleanup(c) \/ FetchAdd(c) \/ CoapStartup(c)
        \/ NoContext(c) \/ NewContext(c) \/ Connected(c) \/ ConnectFails(c)
        \/ \E isUp \in BOOLEAN : SessionEvent(c, isUp)
        \/ Send(c) \/ SendReturns(c)
        \/ \E fits \in BOOLEAN : SendFails(c, fits)
        \/ \E t \in Tokens : ServerAnswers(c, t) \/ response_handler(c, t)

(* The loop of send() ends by the clock, whoever answers. *)
Fairness == \A c \in Connections : WF_vars(SendReturns(c))

Spec == Init /\ [][Next]_vars /\ Fairness

-----------------------------------------------------------------------------
(* Properties. *)

PCs == {"idle", "cleanup", "init", "startup", "setup", "resolve", "undo"}

(* The variables have their types; a stack holds tokens that were taken.   *)
TypeOK ==
    /\ pc \in [Connections -> PCs]
    /\ ctx \in [Connections -> BOOLEAN] /\ connected \in [Connections -> BOOLEAN]
    /\ count \in Nat /\ leaks \in Nat /\ up \in BOOLEAN
    /\ next_token \in [Connections -> 0 .. MaxSends]
    /\ stack \in [Connections -> Seq(Pending)]
    /\ current \in [Connections -> Nat]
    /\ net \in [Connections -> [Tokens -> {"none", "sent", "answered"}]]
    /\ ended \in [Connections -> [Tokens -> {No, Failed} \cup Tokens]]

(* libcoap is started whenever a connection has a context or makes one,    *)
(* and cleaned up again once nobody uses it and nobody failed to make one. *)
LibcoapInUse ==
    /\ \A c \in Connections : ctx[c] \/ pc[c] = "setup" => up
    /\ leaks = 0 /\ (\A c \in Connections : ~ctx[c] /\ pc[c] = "idle") => ~up /\ count = 0

(* A coaps session is made with the credentials of the connect() that made *)
(* it, never with none and never with those of an earlier one, and no      *)
(* credentials are kept without a session.                                 *)
CredentialsMatch ==
    \A c \in Connections :
        /\ session[c].proto = "dtls" =>
             /\ session[c].psk = conf[c].psk /\ session[c].psk = psk[c]
             /\ psk[c].identity # <<>> /\ psk[c].key # <<>>
        /\ session[c] = NoSession /\ pc[c] = "idle" => psk[c] = NoPsk

(* connected_ is only true while there is a session: send() checks the one *)
(* and uses the other.                                                     *)
ConnectedHasSession ==
    \A c \in Connections : connected[c] => session[c] # NoSession /\ ctx[c]

(* current_response_ never points to a PendingResponse whose send() has    *)
(* returned, nor to one under the call that runs.                          *)
NoDangling == \A c \in Connections : current[c] \in {0, Top(c)}

(* The contract of send: the calls on the stack are the open ones. *)
OpenCalls == [c \in Connections |-> {stack[c][i].token : i \in DOMAIN stack[c]}]
HeardCalls == [c \in Connections |-> {t \in Tokens : net[c][t] = "answered"}]
Outcome(t, result) ==
    CASE result = No     -> "no"
      [] result = Failed -> "failed"
      [] result = t      -> "answered"
      [] OTHER           -> "wrong answer"
EndedCalls == [c \in Connections |-> [t \in Tokens |-> Outcome(t, ended[c][t])]]

Contract ==
    INSTANCE SendContract WITH
        Calls <- Tokens, open <- OpenCalls, heard <- HeardCalls, ended <- EndedCalls

(* The connections implement the contract: whatever is late, duplicated or *)
(* nested, a call of send never returns the answer to another request.     *)
ContractKept == Contract!Spec

(* Every call of send returns, also one that nested calls have passed by.  *)
SendsEnd ==
    \A c \in Connections, t \in Tokens :
        (t \in OpenCalls[c]) ~> (t \notin OpenCalls[c])
=============================================================================
