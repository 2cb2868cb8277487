---------------------------- MODULE ChannelState ----------------------------
(***************************************************************************)
(* One channel handle: the fields of TopicSubscription that decide its     *)
(* lifecycle, the continuation each of its tasks is suspended at, and the  *)
(* synchronous helpers of topic_runtime.py that rewrite them.  Every       *)
(* operator maps a channel record to a channel record, as the helpers      *)
(* mutate one TopicSubscription without awaiting.                          *)
(*                                                                         *)
(* leave_requested is not a field: the code sets it exactly where the      *)
(* state becomes LEFT and never clears it, so c.state = "left" stands for  *)
(* both.  current_join_ready is kept as two fields: out, the future that   *)
(* the current join attempt awaits, and voided, TRUE once                  *)
(* _fail_current_join has replaced that settled future by a failed one.    *)
(***************************************************************************)
EXTENDS Naturals

CONSTANTS MaxRef,       \* bound of ref_counter
          MaxConn       \* bound of conn_generation

ASSUME BoundsAssumption == MaxRef \in Nat /\ MaxConn \in Nat

ChannelStates == {"created", "joining", "joined", "rejoining", "left"}

ChannelCauses == {"none", "accepted", "rejected", "configuration", "crash",
                  "close", "transport", "timeout", "leave", "stop"}

RecoverableCauses == {"crash", "transport", "timeout"}

\* The causes that end a rejoin for good.
PermanentCauses == {"rejected", "configuration"}

\* What a join future holds: its result or the class of its exception.
JoinOutcomes == {"pending", "ok", "channel", "socket", "timeout", "cancelled"}

Refs == 0 .. MaxRef         \* 0 stands for "no ref"
Conns == 0 .. MaxConn       \* 0 stands for "no connection"

Channel ==
  [ \* TopicSubscription
    state       : ChannelStates,
    cause       : ChannelCauses,
    established : BOOLEAN,
    conn        : Conns,        \* connection, and conn_generation with it
    joinRef     : Refs,
    submitted   : BOOLEAN,      \* join_submitted
    terminal    : BOOLEAN,      \* terminal_received
    leaveRef    : Refs,
    out         : JoinOutcomes,
    voided      : BOOLEAN,
    unsub       : {"pending", "ok", "failed"},  \* unsubscribe_completed
    cleaned     : BOOLEAN,      \* cleanup_done
    reported    : BOOLEAN,      \* loss_reported
    \* where its tasks are suspended
    join        : {"idle", "waiting", "failing", "done"},
    leave       : {"none", "start", "sending", "cleanup", "done"},
    rec         : {"none", "delay", "stopping", "waiting"},
    recConn     : Conns,        \* the generation the recovery was started for
    recCancel   : BOOLEAN,
    loseStart   : Nat,          \* _lose_topic tasks not yet started
    loseWait    : Nat,          \* tasks about to report the loss
    calls       : Nat ]         \* calls of on_topic_lost so far

\* A handle that channel() returned and nobody joined yet.
NewChannel ==
  [state |-> "created", cause |-> "none", established |-> FALSE, conn |-> 0,
   joinRef |-> 0, submitted |-> FALSE, terminal |-> FALSE, leaveRef |-> 0,
   out |-> "pending", voided |-> FALSE, unsub |-> "pending",
   cleaned |-> FALSE, reported |-> FALSE,
   join |-> "idle", leave |-> "none", rec |-> "none", recConn |-> 0,
   recCancel |-> FALSE, loseStart |-> 0, loseWait |-> 0, calls |-> 0]

-----------------------------------------------------------------------------
(* The join future *)

\* Settle the current join's future unless it is done.
SettleJoin(c, result) ==
  IF c.out = "pending" THEN [c EXCEPT !.out = result] ELSE c

\* current_join_ready is done and holds no exception.
JoinReady(c) == c.out = "ok" /\ ~c.voided

\* Fail the join future; one that is done is replaced by a failed one, so
\* that a joined channel stops being ready.
FailCurrentJoin(c, error) ==
  IF c.out = "pending" THEN [c EXCEPT !.out = error] ELSE [c EXCEPT !.voided = TRUE]

\* Set an exception on unsubscribe_completed unless it is done.
FailUnsubscribe(c) ==
  IF c.unsub = "pending" THEN [c EXCEPT !.unsub = "failed"] ELSE c

-----------------------------------------------------------------------------
(* _transition_channel, by cause *)

\* Cause ACCEPTED: a channel that was left stays left.
Accepted(c) ==
  IF c.state = "left"
  THEN [c EXCEPT !.cause = "accepted"]
  ELSE SettleJoin([c EXCEPT !.cause = "accepted", !.state = "joined",
                            !.established = TRUE], "ok")

StateAfter(c, cause, stop) ==
  IF c.established /\ cause \in RecoverableCauses /\ c.state # "left" /\ ~stop
  THEN "rejoining" ELSE "left"

\* Any other cause.
Failed(c, cause, error, stop) ==
  FailCurrentJoin([c EXCEPT !.cause = cause, !.state = StateAfter(c, cause, stop)],
                  error)

-----------------------------------------------------------------------------
(* Starting tasks *)

\* _start_leave_task: at most one leave task per handle, ever.
StartLeave(c, stop) ==
  IF c.leave # "none" THEN c
  ELSE IF c.state = "left" THEN [c EXCEPT !.leave = "start"]
  ELSE [Failed(c, "leave", "channel", stop) EXCEPT !.leave = "start"]

\* Mutant of StartTopicLoss: the loss of an established channel starts no task.
ForgetTopicLoss(c, stop) ==
  LET lost == IF c.state = "left" THEN c ELSE Failed(c, "close", "channel", stop)
  IN  IF c.established THEN lost ELSE StartLeave(lost, stop)

\* _start_topic_loss.
StartTopicLoss(c, stop) ==
  LET lost == IF c.state = "left" THEN c ELSE Failed(c, "close", "channel", stop)
  IN  IF c.established THEN [lost EXCEPT !.loseStart = @ + 1]
                       ELSE StartLeave(lost, stop)

-----------------------------------------------------------------------------
(* Joining *)

\* _restart_topic: the record of a new attempt on the current connection.
Restart(c, conn, ref) ==
  [c EXCEPT !.conn = conn, !.state = "rejoining", !.cause = "none",
            !.submitted = FALSE, !.terminal = FALSE, !.joinRef = ref,
            !.out = "pending", !.voided = FALSE]

\* What _join's except clauses do before re-raising the outcome's error.
JoinFailure(c, stop) ==
  CASE c.out = "channel" /\ c.cause \in {"none", "accepted", "timeout"}
         -> Failed(c, "configuration", "channel", stop)
    [] c.out = "timeout" -> Failed(c, "timeout", "channel", stop)
    [] OTHER -> c

\* The provider of the join params, or their encoding, failed.
ParamsFailure(c, stop) == Failed(c, "configuration", "channel", stop)

\* A waiter cancelled in send_and_wait takes its pending outcome with it.
CancelJoin(c) == SettleJoin(c, "cancelled")

\* Mutant of FailPendingJoin: a leave that waits for its answer is not failed.
FailPendingJoinOnly(c, stop) ==
  IF c.state = "left" THEN c
  ELSE LET d == Failed(c, "transport", "socket", stop)
       IN  IF d.state = "left" THEN StartLeave(FailUnsubscribe(d), stop) ELSE d

\* What _fail_pending_joins does to one topic of the lost connection.
FailPendingJoin(c, stop) ==
  IF c.state = "left" THEN FailUnsubscribe(c)
  ELSE LET d == Failed(c, "transport", "socket", stop)
       IN  IF d.state = "left" THEN StartLeave(FailUnsubscribe(d), stop) ELSE d

=============================================================================
