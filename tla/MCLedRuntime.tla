---------------------------- MODULE MCLedRuntime ----------------------------
(* LedRuntime with the default mode, one that is redrawn, and two apps. *)
EXTENDS LedRuntime

MCBuiltin == {"temporal", "off", "wave"}
AnyCall   == {"start", "stop", "draw", "override"}
Registers == {"start", "stop"}

=============================================================================
