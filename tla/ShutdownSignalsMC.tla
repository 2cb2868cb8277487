------------------------- MODULE ShutdownSignalsMC --------------------------
(* The instance of ShutdownSignals for TLC: two calls, in one loop or one after the other. *)
EXTENDS ShutdownSignals

Calls == {"a", "b"}

Everything == {"cancel", "stop", "close", "install"}

=============================================================================
