--------------------------- MODULE MCStreamBridge ---------------------------
(* Small instances of StreamBridge: the constants are set in the cfg files. *)
EXTENDS StreamBridge
============================================================================
