-------------------------- MODULE ReconnectDecider --------------------------
(***************************************************************************)
(* The built-in reconnect policy of default_decider.py: what a close or a  *)
(* failed attempt does to one run's backoff and churn history, and which   *)
(* delay or stop it answers.  Times are whole ticks; a moment of the past  *)
(* is kept as its age.                                                     *)
(***************************************************************************)
EXTENDS Integers, Sequences

CONSTANTS
  Policy,       \* the ReconnectPolicy, its durations in ticks
  MaxExponent,  \* the largest n for which factor ** n is a float
  MaxAttempt    \* bound of the attempt counter: it stays there

PolicyFields ==
  {"base_delay", "factor", "max_delay", "stable_reset",
   "service_restart_min", "service_restart_max",
   "try_again_later_min", "try_again_later_max",
   "rapid_disconnect_uptime", "rapid_window", "rapid_first_min",
   "rapid_second_min", "rapid_cooldown_base", "rapid_cooldown_step",
   "rapid_cooldown_max", "rapid_suppress_disconnect_count",
   "hold_down_low", "hold_down_high"}

ASSUME ReconnectDeciderAssumption ==
  /\ DOMAIN Policy = PolicyFields
             \cup {"reconnect_on_normal_close", "policy_violation_is_terminal"}
  /\ \A f \in PolicyFields : Policy[f] \in Nat
  /\ Policy.reconnect_on_normal_close \in BOOLEAN
  /\ Policy.policy_violation_is_terminal \in BOOLEAN
  /\ Policy.factor > 0 /\ Policy.stable_reset > 0 /\ Policy.rapid_window > 0
  /\ Policy.service_restart_min <= Policy.service_restart_max
  /\ Policy.try_again_later_min <= Policy.try_again_later_max
  /\ Policy.rapid_cooldown_base <= Policy.rapid_cooldown_max
  /\ Policy.hold_down_low <= Policy.hold_down_high
  /\ MaxExponent \in Nat /\ MaxAttempt \in Nat

\* What arithmetic says of the powers of a natural number.
ASSUME PowersAssumption ==
  \A n \in 0..MaxAttempt : n <= MaxExponent => Policy.factor ^ n \in Nat

\* Older than this, a rapid disconnect is the same as one that is forgotten.
Expired == Policy.rapid_window + 1

LargerOf(m, n) == IF m >= n THEN m ELSE n
SmallerOf(m, n) == IF m <= n THEN m ELSE n

\* No decision tells two uptimes from this one on apart.
LongUptime == LargerOf(Policy.stable_reset, Policy.rapid_disconnect_uptime)

Errors == {"forbidden", "policy", "suppressed", "failed"}

Decider == [attempt : 0..MaxAttempt, rapid_disconnects : Seq(0..Expired),
            uptime : 0..LongUptime]

NewDecider == [attempt |-> 0, rapid_disconnects |-> <<>>, uptime |-> 0]

\* A ReconnectDecision; error "none" is a stop without a terminal_error.
Decision == [should_reconnect : BOOLEAN, delay : Nat, error : Errors \cup {"none"}]

Retry(delay) == [should_reconnect |-> TRUE, delay |-> delay, error |-> "none"]
Stop(error) == [should_reconnect |-> FALSE, delay |-> 0, error |-> error]

-----------------------------------------------------------------------------
(* Delays *)

ExponentialDelay(attempt) ==
  SmallerOf(Policy.max_delay, Policy.base_delay * Policy.factor ^ attempt)

CooldownFloor(steps) ==
  SmallerOf(Policy.rapid_cooldown_base + Policy.rapid_cooldown_step * steps,
            Policy.rapid_cooldown_max)

RapidFloor(count) ==
  CASE count = 0 -> 0
    [] count = 1 -> Policy.rapid_first_min
    [] count = 2 -> Policy.rapid_second_min
    [] OTHER     -> CooldownFloor(count - 3)

\* The jitter draws from a range: its two ends stand for it.  The ratios of the
\* hold-down are in quarters.
Backoffs(attempt, count) ==
  LET delay == LargerOf(ExponentialDelay(attempt), RapidFloor(count))
  IN  IF count < 3 THEN {delay \div 2, delay}
      ELSE {(delay * Policy.hold_down_low) \div 4, (delay * Policy.hold_down_high) \div 4}

CloseDelays(code) ==
  CASE code = "restart" -> {Policy.service_restart_min, Policy.service_restart_max}
    [] code = "later"   -> {Policy.try_again_later_min, Policy.try_again_later_max}
    [] OTHER            -> {0}

-----------------------------------------------------------------------------
(* The churn history *)

\* The oldest come first: they are dropped until one is within the window.
Recent(ages) ==
  LET dropped == CHOOSE n \in 0..Len(ages) :
                   /\ \A i \in 1..n : ages[i] > Policy.rapid_window
                   /\ n < Len(ages) => ages[n + 1] <= Policy.rapid_window
  IN  SubSeq(ages, dropped + 1, Len(ages))

\* With a disconnect that ends such an uptime, if it is a rapid one.
WithDisconnect(ages, uptime) ==
  IF uptime < Policy.rapid_disconnect_uptime THEN Append(ages, 0) ELSE ages

\* _suppressed records the disconnect and forgets those out of the window.
Recorded(d, uptime) == Recent(WithDisconnect(d.rapid_disconnects, uptime))

\* Mutant of Suppressed: one more disconnect than the policy allows.
SuppressedLate(rapid) == Len(rapid) > Policy.rapid_suppress_disconnect_count

Suppressed(rapid) ==
  /\ Policy.rapid_suppress_disconnect_count > 0
  /\ Len(rapid) >= Policy.rapid_suppress_disconnect_count

Later(attempt) == SmallerOf(attempt + 1, MaxAttempt)

\* factor ** attempt raises OverflowError before min() can cap it.
Overflows(attempt) == attempt > MaxExponent

-----------------------------------------------------------------------------
(* The answers: the decisions an event may get, with the decider they leave *)

Answers(d, decisions) == {[decider |-> d, decision |-> x] : x \in decisions}

\* A decider that raises stops the client, see _decide.
Retries(d, attempt, floors) ==
  Answers(d, IF Overflows(attempt) THEN {Stop("failed")}
             ELSE {Retry(LargerOf(backoff, floor)) : floor \in floors,
                     backoff \in Backoffs(attempt, Len(d.rapid_disconnects))})

\* The code of a close that is not worth a reconnect.
StopsForClose(code) ==
  \/ code = "normal" /\ ~Policy.reconnect_on_normal_close
  \/ code = "policy" /\ Policy.policy_violation_is_terminal

\* What a close leaves of the churn history and of the attempt, if it is retried.
AfterRetriedClose(d, rapid) ==
  IF d.uptime >= Policy.stable_reset
  THEN [d EXCEPT !.attempt = 0, !.rapid_disconnects = <<>>]
  ELSE [d EXCEPT !.attempt = Later(@), !.rapid_disconnects = rapid]

AfterClose(d, code) ==
  LET rapid == Recorded(d, d.uptime)
      next == AfterRetriedClose(d, rapid)
  IN  CASE StopsForClose(code) ->
             Answers(d, {Stop(IF code = "policy" THEN "policy" ELSE "none")})
        [] ~StopsForClose(code) /\ Suppressed(rapid) ->
             Answers([d EXCEPT !.rapid_disconnects = rapid], {Stop("suppressed")})
        [] OTHER -> Retries(next, next.attempt, CloseDelays(code))

\* The backoff of a failed attempt is computed before the attempt is counted.
AfterConnectFailure(d, forbidden) ==
  LET rapid == Recorded(d, 0)
      recorded == [d EXCEPT !.rapid_disconnects = rapid]
      counted == [recorded EXCEPT !.attempt = Later(@)]
  IN  CASE forbidden -> Answers(d, {Stop("forbidden")})
        [] ~forbidden /\ Suppressed(rapid) -> Answers(recorded, {Stop("suppressed")})
        [] OTHER -> Retries(IF Overflows(d.attempt) THEN recorded ELSE counted,
                            d.attempt, {0})

AfterConnected(d) == [d EXCEPT !.uptime = 0]

\* So many ticks of the loop's clock, as what the decider remembers sees them.
Aged(d, ticks) ==
  [d EXCEPT
     !.rapid_disconnects = [i \in DOMAIN @ |-> SmallerOf(@[i] + ticks, Expired)],
     !.uptime = SmallerOf(@ + ticks, LongUptime)]

=============================================================================
