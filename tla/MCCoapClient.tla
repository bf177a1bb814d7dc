---------------------------- MODULE MCCoapClient ----------------------------
(* A small instance of CoapClient for TLC. *)
EXTENDS CoapClient

Account(uri, mode, identity, key) ==
    [uri |-> uri, mode |-> mode, identity |-> identity, key |-> key]

MCAccounts ==
    {Account("coap", 3, <<>>, <<>>), Account("coaps", 0, <<1>>, <<2>>),
     Account("coaps", 0, <<>>, <<2>>), Account("coaps", 9, <<1>>, <<2>>)}
=============================================================================
