------------------------------ MODULE PushesMC ------------------------------
(***************************************************************************)
(* The instance of Pushes for TLC: one push of one channel, and every      *)
(* event of its environment.  The failures of the other operations of the  *)
(* session are those of OtherSendFails.                                    *)
(***************************************************************************)
EXTENDS Pushes, TLC

CONSTANTS p1, c1

Alone == p1 :> c1

Everything == {"crash", "close", "leave", "drop", "garble", "cancel", "giveup", "shutdown"}

=============================================================================
