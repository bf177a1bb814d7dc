--------------------------- MODULE MCFirmwareUpdate ----------------------------
(* Model checking of FirmwareUpdate, which has no constants to choose. *)
EXTENDS FirmwareUpdate
=============================================================================
