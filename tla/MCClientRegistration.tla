------------------------ MODULE MCClientRegistration ------------------------
(* Small instances of ClientRegistration for TLC. *)
EXTENDS ClientRegistration
=============================================================================
