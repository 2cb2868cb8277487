---------------------------- MODULE ReconnectMC ----------------------------
(* Instances of Reconnect for TLC. *)
EXTENDS Reconnect, TLC

\* A tick is half a second: the defaults of ReconnectPolicy.
DefaultPolicy ==
  [base_delay |-> 1, factor |-> 2, max_delay |-> 60, stable_reset |-> 120,
   service_restart_min |-> 2, service_restart_max |-> 10,
   try_again_later_min |-> 60, try_again_later_max |-> 120,
   rapid_disconnect_uptime |-> 10, rapid_window |-> 120, rapid_first_min |-> 4,
   rapid_second_min |-> 20, rapid_cooldown_base |-> 120, rapid_cooldown_step |-> 60,
   rapid_cooldown_max |-> 600, rapid_suppress_disconnect_count |-> 10,
   hold_down_low |-> 1, hold_down_high |-> 4,
   reconnect_on_normal_close |-> TRUE, policy_violation_is_terminal |-> TRUE]

\* A policy whose floors are short enough for its suppression to be reached.
ShortPolicy ==
  [DefaultPolicy EXCEPT
     !.max_delay = 1, !.stable_reset = 2, !.service_restart_min = 1,
     !.service_restart_max = 1, !.try_again_later_min = 1, !.try_again_later_max = 2,
     !.rapid_disconnect_uptime = 1, !.rapid_window = 2, !.rapid_first_min = 0,
     !.rapid_second_min = 1, !.rapid_cooldown_base = 1, !.rapid_cooldown_step = 1,
     !.rapid_cooldown_max = 1, !.rapid_suppress_disconnect_count = 4,
     !.reconnect_on_normal_close = FALSE]

AllModes == {m \in Mode : IF m.prompt THEN m.auto /\ m.enforced ELSE m.auto \/ ~m.enforced}

WarnOnly == {[auto |-> TRUE, enforced |-> FALSE, prompt |-> FALSE]}

=============================================================================
