--------------------------- MODULE MCClientLifecycle ---------------------------
(* Model checking of ClientLifecycle: the constants are in the .cfg files. *)
EXTENDS ClientLifecycle
=============================================================================
