----------------------------- MODULE DeliveryMC -----------------------------
(***************************************************************************)
(* The instance of Delivery for TLC: all that the environment may do, but  *)
(* for a handler that raises a CancelledError of its own accord.           *)
(***************************************************************************)
EXTENDS Delivery

Ordinary == {"lose", "close", "stop", "leave", "raise", "swallow"}

=============================================================================
