---------------------------- MODULE SendContract ----------------------------
(***************************************************************************)
(* What CoapClient::send promises its caller, whatever the network does    *)
(* and however calls nest: a call ends once, with the server's answer to   *)
(* that very request, or with an error.                                    *)
(***************************************************************************)
CONSTANTS
    Connections,
    Calls           \* the calls of send on a connection

VARIABLES
    open,           \* calls that have not returned, per connection
    heard,          \* calls whose request the server has answered
    ended           \* what each call returned: "no", "failed" or "answered"

vars == <<open, heard, ended>>

Init ==
    /\ open  = [c \in Connections |-> {}]
    /\ heard = [c \in Connections |-> {}]
    /\ ended = [c \in Connections |-> [t \in Calls |-> "no"]]

Fresh(c, t) == t \notin open[c] /\ ended[c][t] = "no"

Ask(c, t) ==
    /\ Fresh(c, t)
    /\ open' = [open EXCEPT ![c] = @ \cup {t}]
    /\ UNCHANGED <<heard, ended>>

(* The call returns an error before it has sent anything. *)
Refuse(c, t) ==
    /\ Fresh(c, t)
    /\ ended' = [ended EXCEPT ![c][t] = "failed"]
    /\ UNCHANGED <<open, heard>>

(* The server may answer late, after the call has given up. *)
Hear(c, t) ==
    /\ ~Fresh(c, t)
    /\ heard' = [heard EXCEPT ![c] = @ \cup {t}]
    /\ UNCHANGED <<open, ended>>

Return(c, t, result) ==
    /\ t \in open[c]
    /\ result = "answered" => t \in heard[c]
    /\ open' = [open EXCEPT ![c] = @ \ {t}]
    /\ ended' = [ended EXCEPT ![c][t] = result]
    /\ UNCHANGED heard

Next ==
    \E c \in Connections, t \in Calls :
        \/ Ask(c, t) \/ Refuse(c, t) \/ Hear(c, t)
        \/ \E result \in {"answered", "failed"} : Return(c, t, result)

Spec == Init /\ [][Next]_vars
=============================================================================
