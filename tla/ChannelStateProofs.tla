------------------------- MODULE ChannelStateProofs -------------------------
(***************************************************************************)
(* What the helpers of ChannelState preserve, for every bound: they return *)
(* channel records, a channel that was left stays left, and none of them   *)
(* but the acceptance of a join makes a channel live that was not.         *)
(*                                                                         *)
(* The last part lists, helper by helper, which fields of a channel change *)
(* and where its tasks are suspended: proofs about whole actions cite      *)
(* these lemmas and never expand a helper.                                 *)
(***************************************************************************)
EXTENDS ChannelState, TLAPS

\* The states in which a handle may be, or come to be, joined.
Live == {"joining", "joined", "rejoining"}

\* A channel record whose establishment came after its creation.
SoundChannel == {c \in Channel : c.established => c.state # "created"}

\* A channel that was left stays left.
StaysLeft(c, d) == c.state = "left" => d.state = "left"

\* What a helper that admits nobody does to a channel.
Keeps(c, d) == StaysLeft(c, d) /\ (d.state \in Live => c.state \in Live)

-----------------------------------------------------------------------------

\* One field at a time: updates of a record of this width are composed of these.
LEMMA StateUpdate ==
  ASSUME NEW c \in Channel, NEW value \in ChannelStates
  PROVE  /\ [c EXCEPT !.state = value] \in Channel
         /\ [c EXCEPT !.state = value].state = value
         /\ [c EXCEPT !.state = value].established = c.established
  BY DEF Channel

LEMMA CauseUpdate ==
  ASSUME NEW c \in Channel, NEW value \in ChannelCauses
  PROVE  /\ [c EXCEPT !.cause = value] \in Channel
         /\ [c EXCEPT !.cause = value].state = c.state
         /\ [c EXCEPT !.cause = value].established = c.established
  BY DEF Channel

LEMMA EstablishedUpdate ==
  ASSUME NEW c \in Channel, NEW value \in BOOLEAN
  PROVE  /\ [c EXCEPT !.established = value] \in Channel
         /\ [c EXCEPT !.established = value].state = c.state
  BY DEF Channel

LEMMA ConnUpdate ==
  ASSUME NEW c \in Channel, NEW value \in Conns
  PROVE  /\ [c EXCEPT !.conn = value] \in Channel
         /\ [c EXCEPT !.conn = value].state = c.state
  BY DEF Channel

LEMMA JoinRefUpdate ==
  ASSUME NEW c \in Channel, NEW value \in Refs
  PROVE  /\ [c EXCEPT !.joinRef = value] \in Channel
         /\ [c EXCEPT !.joinRef = value].state = c.state
  BY DEF Channel

LEMMA SubmittedUpdate ==
  ASSUME NEW c \in Channel, NEW value \in BOOLEAN
  PROVE  /\ [c EXCEPT !.submitted = value] \in Channel
         /\ [c EXCEPT !.submitted = value].state = c.state
  BY DEF Channel

LEMMA TerminalUpdate ==
  ASSUME NEW c \in Channel, NEW value \in BOOLEAN
  PROVE  /\ [c EXCEPT !.terminal = value] \in Channel
         /\ [c EXCEPT !.terminal = value].state = c.state
         /\ [c EXCEPT !.terminal = value].established = c.established
  BY DEF Channel

LEMMA OutUpdate ==
  ASSUME NEW c \in Channel, NEW value \in JoinOutcomes
  PROVE  /\ [c EXCEPT !.out = value] \in Channel
         /\ [c EXCEPT !.out = value].state = c.state
         /\ [c EXCEPT !.out = value].established = c.established
  BY DEF Channel

LEMMA VoidedUpdate ==
  ASSUME NEW c \in Channel, NEW value \in BOOLEAN
  PROVE  /\ [c EXCEPT !.voided = value] \in Channel
         /\ [c EXCEPT !.voided = value].state = c.state
         /\ [c EXCEPT !.voided = value].established = c.established
  BY DEF Channel

\* A handle that channel() returns is sound (topic_subscription.py).
LEMMA NewChannelSound == NewChannel \in SoundChannel
  BY BoundsAssumption DEF NewChannel, SoundChannel, Channel, ChannelStates, ChannelCauses,
     JoinOutcomes, Refs, Conns

\* Settling a join future touches nothing else.
LEMMA SettleJoinKeeps ==
  ASSUME NEW c \in SoundChannel, NEW result \in JoinOutcomes
  PROVE  SettleJoin(c, result) \in SoundChannel /\ Keeps(c, SettleJoin(c, result))
<1>1. CASE c.out = "pending"
  <2>1. SettleJoin(c, result) = [c EXCEPT !.out = result]
    BY <1>1 DEF SettleJoin
  <2> QED
    BY <2>1, OutUpdate DEF SoundChannel, Keeps, StaysLeft
<1>2. CASE c.out # "pending"
  BY <1>2 DEF SettleJoin, Keeps, StaysLeft
<1> QED
  BY <1>1, <1>2

\* Nor does failing it.
LEMMA FailCurrentJoinKeeps ==
  ASSUME NEW c \in SoundChannel, NEW error \in JoinOutcomes
  PROVE  FailCurrentJoin(c, error) \in SoundChannel /\ Keeps(c, FailCurrentJoin(c, error))
<1>1. CASE c.out = "pending"
  <2>1. FailCurrentJoin(c, error) = [c EXCEPT !.out = error]
    BY <1>1 DEF FailCurrentJoin
  <2> QED
    BY <2>1, OutUpdate DEF SoundChannel, Keeps, StaysLeft
<1>2. CASE c.out # "pending"
  <2>1. FailCurrentJoin(c, error) = [c EXCEPT !.voided = TRUE]
    BY <1>2 DEF FailCurrentJoin
  <2> QED
    BY <2>1, VoidedUpdate DEF SoundChannel, Keeps, StaysLeft
<1> QED
  BY <1>1, <1>2

\* A refused or lost leave changes unsubscribe_completed only.
LEMMA FailUnsubscribeKeeps ==
  ASSUME NEW c \in SoundChannel
  PROVE  FailUnsubscribe(c) \in SoundChannel /\ Keeps(c, FailUnsubscribe(c))
  BY DEF FailUnsubscribe, SoundChannel, Channel, Keeps, StaysLeft

\* The accepted join of a channel that was left stays without effect.
LEMMA AcceptedSound ==
  ASSUME NEW c \in SoundChannel
  PROVE  Accepted(c) \in SoundChannel /\ StaysLeft(c, Accepted(c))
<1>1. CASE c.state = "left"
  BY <1>1, CauseUpdate DEF Accepted, SoundChannel, ChannelCauses, StaysLeft
<1>2. CASE c.state # "left"
  <2> DEFINE b == [c EXCEPT !.cause = "accepted"]
             e == [b EXCEPT !.state = "joined"]
             d == [e EXCEPT !.established = TRUE]
  <2>1. d \in SoundChannel
    <3>1. b \in Channel
      BY CauseUpdate DEF SoundChannel, ChannelCauses
    <3> HIDE DEF b
    <3>2. e \in Channel /\ e.state = "joined"
      BY <3>1, StateUpdate DEF ChannelStates
    <3> HIDE DEF e
    <3>3. d \in Channel /\ d.state = "joined"
      BY <3>2, EstablishedUpdate
    <3> QED
      BY <3>3 DEF SoundChannel
  <2>2. Accepted(c) = SettleJoin(d, "ok")
    BY <1>2 DEF Accepted
  <2> HIDE DEF b, e, d
  <2> QED
    BY <1>2, <2>1, <2>2, SettleJoinKeeps DEF JoinOutcomes, StaysLeft
<1> QED
  BY <1>1, <1>2

\* A failure makes a channel wait for its recovery only if it was established;
\* any other is left.
LEMMA FailedKeeps ==
  ASSUME NEW c \in SoundChannel, NEW cause \in ChannelCauses,
         NEW error \in JoinOutcomes, NEW stop \in BOOLEAN
  PROVE  Failed(c, cause, error, stop) \in SoundChannel
         /\ Keeps(c, Failed(c, cause, error, stop))
<1> DEFINE b == [c EXCEPT !.cause = cause]
           d == [b EXCEPT !.state = StateAfter(c, cause, stop)]
<1>1. d \in SoundChannel /\ Keeps(c, d)
  <2>1. StateAfter(c, cause, stop) \in {"rejoining", "left"}
    BY DEF StateAfter
  <2>2. c.established => c.state # "created"
    BY DEF SoundChannel
  <2>3. StateAfter(c, cause, stop) = "rejoining" => c.established /\ c.state # "left"
    BY DEF StateAfter
  <2>4. c \in Channel
    BY DEF SoundChannel
  <2>5. d \in Channel /\ d.state = StateAfter(c, cause, stop)
        /\ d.established = c.established
    <3>1. b \in Channel /\ b.established = c.established
      BY <2>4, CauseUpdate
    <3>2. StateAfter(c, cause, stop) \in ChannelStates
      BY <2>1 DEF ChannelStates
    <3>3. \A s \in ChannelStates : [b EXCEPT !.state = s] \in Channel
                                   /\ [b EXCEPT !.state = s].state = s
                                   /\ [b EXCEPT !.state = s].established = b.established
      BY <3>1, StateUpdate
    <3> QED
      BY <3>1, <3>2, <3>3
  <2>6. c.state \in {"left", "created"} \cup Live
    BY <2>4 DEF Channel, ChannelStates, Live
  <2> QED
    BY <2>1, <2>2, <2>3, <2>5, <2>6 DEF SoundChannel, Keeps, StaysLeft, Live
<1>2. Failed(c, cause, error, stop) = FailCurrentJoin(d, error)
  BY DEF Failed
<1> HIDE DEF d
<1>3. FailCurrentJoin(d, error) \in SoundChannel /\ Keeps(d, FailCurrentJoin(d, error))
  BY <1>1, FailCurrentJoinKeeps
<1> QED
  BY <1>1, <1>2, <1>3 DEF Keeps, StaysLeft

\* A leave task is started once, and the channel is left with it.
LEMMA StartLeaveKeeps ==
  ASSUME NEW c \in SoundChannel, NEW stop \in BOOLEAN
  PROVE  StartLeave(c, stop) \in SoundChannel /\ Keeps(c, StartLeave(c, stop))
<1>1. ASSUME NEW d \in SoundChannel, Keeps(c, d)
      PROVE  /\ [d EXCEPT !.leave = "start"] \in SoundChannel
             /\ Keeps(c, [d EXCEPT !.leave = "start"])
  BY <1>1 DEF SoundChannel, Channel, Keeps, StaysLeft
<1>2. Keeps(c, c)
  BY DEF Keeps, StaysLeft
<1>3. Failed(c, "leave", "channel", stop) \in SoundChannel
      /\ Keeps(c, Failed(c, "leave", "channel", stop))
  BY FailedKeeps DEF ChannelCauses, JoinOutcomes
<1> QED
  BY <1>1, <1>2, <1>3 DEF StartLeave

\* The loss of a channel leaves it; only an established one is reported.
LEMMA StartTopicLossKeeps ==
  ASSUME NEW c \in SoundChannel, NEW stop \in BOOLEAN
  PROVE  StartTopicLoss(c, stop) \in SoundChannel /\ Keeps(c, StartTopicLoss(c, stop))
<1> DEFINE lost == IF c.state = "left" THEN c ELSE Failed(c, "close", "channel", stop)
<1>1. lost \in SoundChannel /\ Keeps(c, lost)
  BY FailedKeeps DEF ChannelCauses, JoinOutcomes, Keeps, StaysLeft
<1>2. [lost EXCEPT !.loseStart = @ + 1] \in SoundChannel
      /\ Keeps(c, [lost EXCEPT !.loseStart = @ + 1])
  <2> HIDE DEF lost
  <2> QED BY <1>1 DEF SoundChannel, Channel, Keeps, StaysLeft
<1>3. StartLeave(lost, stop) \in SoundChannel /\ Keeps(c, StartLeave(lost, stop))
  <2> HIDE DEF lost
  <2> QED BY <1>1, StartLeaveKeeps DEF Keeps, StaysLeft
<1>4. StartTopicLoss(c, stop) = IF c.established THEN [lost EXCEPT !.loseStart = @ + 1]
                                                 ELSE StartLeave(lost, stop)
  BY DEF StartTopicLoss
<1> QED
  BY <1>2, <1>3, <1>4

\* A new attempt is made for channels that were established.
LEMMA RestartSound ==
  ASSUME NEW c \in SoundChannel, NEW conn \in Conns, NEW ref \in Refs
  PROVE  Restart(c, conn, ref) \in SoundChannel
<1> DEFINE d1 == [c EXCEPT !.conn = conn]
           d2 == [d1 EXCEPT !.state = "rejoining"]
           d3 == [d2 EXCEPT !.cause = "none"]
           d4 == [d3 EXCEPT !.submitted = FALSE]
           d5 == [d4 EXCEPT !.terminal = FALSE]
           d6 == [d5 EXCEPT !.joinRef = ref]
           d7 == [d6 EXCEPT !.out = "pending"]
           d8 == [d7 EXCEPT !.voided = FALSE]
<1>9. Restart(c, conn, ref) = d8
  BY DEF Restart
<1>1. d1 \in Channel
  BY ConnUpdate DEF SoundChannel
<1> HIDE DEF d1
<1>2. d2 \in Channel /\ d2.state = "rejoining"
  BY <1>1, StateUpdate DEF ChannelStates
<1> HIDE DEF d2
<1>3. d3 \in Channel /\ d3.state = "rejoining"
  BY <1>2, CauseUpdate DEF ChannelCauses
<1> HIDE DEF d3
<1>4. d4 \in Channel /\ d4.state = "rejoining"
  BY <1>3, SubmittedUpdate
<1> HIDE DEF d4
<1>5. d5 \in Channel /\ d5.state = "rejoining"
  BY <1>4, TerminalUpdate
<1> HIDE DEF d5
<1>6. d6 \in Channel /\ d6.state = "rejoining"
  BY <1>5, JoinRefUpdate
<1> HIDE DEF d6
<1>7. d7 \in Channel /\ d7.state = "rejoining"
  BY <1>6, OutUpdate DEF JoinOutcomes
<1> HIDE DEF d7
<1>8. d8 \in Channel /\ d8.state = "rejoining"
  BY <1>7, VoidedUpdate
<1> QED
  BY <1>8, <1>9 DEF SoundChannel

\* The except clauses of _join fail the channel or leave it alone.
LEMMA JoinFailureKeeps ==
  ASSUME NEW c \in SoundChannel, NEW stop \in BOOLEAN
  PROVE  JoinFailure(c, stop) \in SoundChannel /\ Keeps(c, JoinFailure(c, stop))
<1>1. Keeps(c, c)
  BY DEF Keeps, StaysLeft
<1>2. \A cause \in {"configuration", "timeout"}, error \in {"channel", "timeout"} :
        Failed(c, cause, error, stop) \in SoundChannel
        /\ Keeps(c, Failed(c, cause, error, stop))
  BY FailedKeeps DEF ChannelCauses, JoinOutcomes
<1> QED
  BY <1>1, <1>2 DEF JoinFailure

\* So does a params provider that fails.
LEMMA ParamsFailureKeeps ==
  ASSUME NEW c \in SoundChannel, NEW stop \in BOOLEAN
  PROVE  ParamsFailure(c, stop) \in SoundChannel /\ Keeps(c, ParamsFailure(c, stop))
  BY FailedKeeps DEF ParamsFailure, ChannelCauses, JoinOutcomes

\* So does a waiter that is cancelled.
LEMMA CancelJoinKeeps ==
  ASSUME NEW c \in SoundChannel
  PROVE  CancelJoin(c) \in SoundChannel /\ Keeps(c, CancelJoin(c))
  BY SettleJoinKeeps DEF CancelJoin, JoinOutcomes

\* So does the loss of the connection.
LEMMA FailPendingJoinKeeps ==
  ASSUME NEW c \in SoundChannel, NEW stop \in BOOLEAN
  PROVE  FailPendingJoin(c, stop) \in SoundChannel /\ Keeps(c, FailPendingJoin(c, stop))
<1> DEFINE d == Failed(c, "transport", "socket", stop)
<1>1. d \in SoundChannel /\ Keeps(c, d)
  BY FailedKeeps DEF ChannelCauses, JoinOutcomes
<1>2. StartLeave(FailUnsubscribe(d), stop) \in SoundChannel
      /\ Keeps(c, StartLeave(FailUnsubscribe(d), stop))
  <2> HIDE DEF d
  <2> QED BY <1>1, FailUnsubscribeKeeps, StartLeaveKeeps DEF Keeps, StaysLeft
<1>3. FailPendingJoin(c, stop) =
        IF c.state = "left" THEN FailUnsubscribe(c)
        ELSE IF d.state = "left" THEN StartLeave(FailUnsubscribe(d), stop) ELSE d
  BY DEF FailPendingJoin
<1> QED
  BY <1>1, <1>2, <1>3, FailUnsubscribeKeeps

-----------------------------------------------------------------------------
(* Where the tasks of a channel are suspended *)

\* The caller of join goes on.
LEMMA JoinCallerKeeps ==
  ASSUME NEW c \in SoundChannel, NEW pc \in {"waiting", "failing", "done"}
  PROVE  [c EXCEPT !.join = pc] \in SoundChannel /\ Keeps(c, [c EXCEPT !.join = pc])
  BY DEF SoundChannel, Channel, Keeps, StaysLeft

\* The recovery goes on.
LEMMA RecoveryKeeps ==
  ASSUME NEW c \in SoundChannel, NEW pc \in {"none", "delay", "stopping", "waiting"}
  PROVE  [c EXCEPT !.rec = pc] \in SoundChannel /\ Keeps(c, [c EXCEPT !.rec = pc])
  BY DEF SoundChannel, Channel, Keeps, StaysLeft

\* The recovery is cancelled, or not.
LEMMA RecCancelKeeps ==
  ASSUME NEW c \in SoundChannel, NEW cancel \in BOOLEAN
  PROVE  /\ [c EXCEPT !.recCancel = cancel] \in SoundChannel
         /\ Keeps(c, [c EXCEPT !.recCancel = cancel])
  BY DEF SoundChannel, Channel, Keeps, StaysLeft

\* The generation it was started for is noted.
LEMMA RecConnKeeps ==
  ASSUME NEW c \in SoundChannel, NEW conn \in Conns
  PROVE  [c EXCEPT !.recConn = conn] \in SoundChannel /\ Keeps(c, [c EXCEPT !.recConn = conn])
  BY DEF SoundChannel, Channel, Keeps, StaysLeft

\* The leave task comes to its cleanup.
LEMMA LeaveCleanupKeeps ==
  ASSUME NEW c \in SoundChannel, NEW cancel \in BOOLEAN
  PROVE  /\ [c EXCEPT !.leave = "cleanup", !.recCancel = cancel] \in SoundChannel
         /\ Keeps(c, [c EXCEPT !.leave = "cleanup", !.recCancel = cancel])
  BY DEF SoundChannel, Channel, Keeps, StaysLeft

\* The leave task sends its frame.
LEMMA LeaveSendingKeeps ==
  ASSUME NEW c \in SoundChannel, NEW ref \in Refs
  PROVE  /\ [c EXCEPT !.leave = "sending", !.leaveRef = ref] \in SoundChannel
         /\ Keeps(c, [c EXCEPT !.leave = "sending", !.leaveRef = ref])
  BY DEF SoundChannel, Channel, Keeps, StaysLeft

\* The leave task ends.
LEMMA LeaveDoneKeeps ==
  ASSUME NEW c \in SoundChannel
  PROVE  /\ [c EXCEPT !.leave = "done", !.cleaned = TRUE] \in SoundChannel
         /\ Keeps(c, [c EXCEPT !.leave = "done", !.cleaned = TRUE])
  BY DEF SoundChannel, Channel, Keeps, StaysLeft

\* The tasks that start a loss come and go.
LEMMA LoseStartKeeps ==
  ASSUME NEW c \in SoundChannel, NEW n \in Nat
  PROVE  [c EXCEPT !.loseStart = n] \in SoundChannel /\ Keeps(c, [c EXCEPT !.loseStart = n])
  BY DEF SoundChannel, Channel, Keeps, StaysLeft

\* So do those that are about to report it.
LEMMA LoseWaitKeeps ==
  ASSUME NEW c \in SoundChannel, NEW n \in Nat
  PROVE  [c EXCEPT !.loseWait = n] \in SoundChannel /\ Keeps(c, [c EXCEPT !.loseWait = n])
  BY DEF SoundChannel, Channel, Keeps, StaysLeft

\* The loss is reported.
LEMMA LossReportKeeps ==
  ASSUME NEW c \in SoundChannel, NEW m \in Nat, NEW n \in Nat
  PROVE  /\ [c EXCEPT !.loseWait = m, !.reported = TRUE, !.calls = n] \in SoundChannel
         /\ Keeps(c, [c EXCEPT !.loseWait = m, !.reported = TRUE, !.calls = n])
  BY DEF SoundChannel, Channel, Keeps, StaysLeft

\* A shutdown cancels the tasks of the lifecycle.
LEMMA LifecycleCancelKeeps ==
  ASSUME NEW c \in SoundChannel, NEW cancel \in BOOLEAN
  PROVE  /\ [c EXCEPT !.loseStart = 0, !.loseWait = 0, !.recCancel = cancel] \in SoundChannel
         /\ Keeps(c, [c EXCEPT !.loseStart = 0, !.loseWait = 0, !.recCancel = cancel])
  BY DEF SoundChannel, Channel, Keeps, StaysLeft

\* The terminal control of a membership is recorded.
LEMMA TerminalKeeps ==
  ASSUME NEW c \in SoundChannel
  PROVE  [c EXCEPT !.terminal = TRUE] \in SoundChannel
         /\ Keeps(c, [c EXCEPT !.terminal = TRUE])
  BY TerminalUpdate DEF SoundChannel, Keeps, StaysLeft

\* A handle nobody joined is left on the spot.
LEMMA LeftOnTheSpot ==
  ASSUME NEW c \in SoundChannel
  PROVE  /\ [c EXCEPT !.state = "left", !.cause = "leave"] \in SoundChannel
         /\ Keeps(c, [c EXCEPT !.state = "left", !.cause = "leave"])
<1> DEFINE b == [c EXCEPT !.state = "left"]
           d == [b EXCEPT !.cause = "leave"]
<1>1. d \in Channel /\ d.state = "left"
  <2>1. b \in Channel /\ b.state = "left"
    BY StateUpdate DEF SoundChannel, ChannelStates
  <2> HIDE DEF b
  <2> QED
    BY <2>1, CauseUpdate DEF ChannelCauses
<1> QED
  BY <1>1 DEF SoundChannel, Keeps, StaysLeft, Live

\* Keeping is transitive: a handler applies one helper after another.
LEMMA KeepsTransitive ==
  ASSUME NEW c, NEW d, NEW e, Keeps(c, d), Keeps(d, e)
  PROVE  Keeps(c, e)
  BY DEF Keeps, StaysLeft

\* Leaving a channel alone keeps it.
LEMMA KeepsItself ==
  ASSUME NEW c
  PROVE  Keeps(c, c)
  BY DEF Keeps, StaysLeft

-----------------------------------------------------------------------------
(* What each helper does to the fields of a channel *)

\* The attempt and the recovery that a channel has: no failure touches them.
SameAttempt(c, d) ==
  /\ d.established = c.established /\ d.conn = c.conn /\ d.joinRef = c.joinRef
  /\ d.submitted = c.submitted /\ d.terminal = c.terminal /\ d.cleaned = c.cleaned
  /\ d.rec = c.rec /\ d.recConn = c.recConn /\ d.recCancel = c.recCancel

\* What has become of it.
SameFate(c, d) ==
  /\ d.state = c.state /\ d.cause = c.cause
  /\ d.leave = c.leave /\ d.loseStart = c.loseStart

\* The future of the current attempt.
SameOutcome(c, d) == d.out = c.out /\ d.voided = c.voided

\* All of these.
SameChannel(c, d) == SameAttempt(c, d) /\ SameFate(c, d) /\ SameOutcome(c, d)

\* The future is failed: settled if it was pending, voided if it was done.
FailedOutcome(c, d, error) ==
  /\ d.out = IF c.out = "pending" THEN error ELSE c.out
  /\ d.voided <=> c.voided \/ c.out # "pending"

\* The fields that none of these is about.
LEMMA OtherFields ==
  ASSUME NEW c \in SoundChannel, NEW v
  PROVE  /\ SameChannel(c, [c EXCEPT !.unsub = v]) /\ SameChannel(c, [c EXCEPT !.join = v])
         /\ SameChannel(c, [c EXCEPT !.loseWait = v])
         /\ SameChannel(c, [c EXCEPT !.leaveRef = v])
         /\ SameChannel(c, [c EXCEPT !.reported = v])
         /\ SameChannel(c, [c EXCEPT !.calls = v])
<1> USE DEF SoundChannel, Channel, SameChannel, SameAttempt, SameFate, SameOutcome
<1>1. SameChannel(c, [c EXCEPT !.unsub = v])
  OBVIOUS
<1>2. SameChannel(c, [c EXCEPT !.join = v])
  OBVIOUS
<1>3. SameChannel(c, [c EXCEPT !.loseWait = v])
  OBVIOUS
<1>4. SameChannel(c, [c EXCEPT !.leaveRef = v])
  OBVIOUS
<1>5. SameChannel(c, [c EXCEPT !.reported = v])
  OBVIOUS
<1>6. SameChannel(c, [c EXCEPT !.calls = v])
  OBVIOUS
<1> QED
  BY <1>1, <1>2, <1>3, <1>4, <1>5, <1>6

\* An outcome that is settled was pending.
LEMMA SettleJoinFields ==
  ASSUME NEW c \in SoundChannel, NEW result
  PROVE  LET d == SettleJoin(c, result)
         IN  /\ SameAttempt(c, d) /\ SameFate(c, d) /\ d.voided = c.voided
             /\ d.out = IF c.out = "pending" THEN result ELSE c.out
  BY DEF SettleJoin, SoundChannel, Channel, SameAttempt, SameFate

\* An attempt that is failed keeps its fields.
LEMMA FailCurrentJoinFields ==
  ASSUME NEW c \in SoundChannel, NEW error
  PROVE  LET d == FailCurrentJoin(c, error)
         IN  SameAttempt(c, d) /\ SameFate(c, d) /\ FailedOutcome(c, d, error)
<1>1. CASE c.out = "pending"
  BY <1>1 DEF FailCurrentJoin, SoundChannel, Channel, SameAttempt, SameFate, FailedOutcome
<1>2. CASE c.out # "pending"
  BY <1>2 DEF FailCurrentJoin, SoundChannel, Channel, SameAttempt, SameFate, FailedOutcome
<1> QED
  BY <1>1, <1>2

\* A leave that is failed, too.
LEMMA FailUnsubscribeFields ==
  ASSUME NEW c \in SoundChannel
  PROVE  SameChannel(c, FailUnsubscribe(c))
<1>1. SameChannel(c, c)
  BY DEF SameChannel, SameAttempt, SameFate, SameOutcome
<1> QED
  BY <1>1, OtherFields DEF FailUnsubscribe

\* A failure changes what becomes of a channel and the future of its attempt.
LEMMA FailedFields ==
  ASSUME NEW c \in SoundChannel, NEW cause \in ChannelCauses, NEW error,
         NEW halt \in BOOLEAN
  PROVE  LET d == Failed(c, cause, error, halt)
         IN  /\ SameAttempt(c, d) /\ FailedOutcome(c, d, error)
             /\ d.state = StateAfter(c, cause, halt) /\ d.cause = cause
             /\ d.leave = c.leave /\ d.loseStart = c.loseStart
<1> DEFINE a == [c EXCEPT !.cause = cause]
           b == [a EXCEPT !.state = StateAfter(c, cause, halt)]
<1>1. c \in Channel /\ StateAfter(c, cause, halt) \in {"rejoining", "left"}
  BY DEF SoundChannel, StateAfter
<1>2. a \in Channel /\ SameAttempt(c, a) /\ SameOutcome(c, a) /\ a.cause = cause
      /\ a.leave = c.leave /\ a.loseStart = c.loseStart
  <2>1. a \in Channel
    BY <1>1, CauseUpdate
  <2> QED
    BY <1>1, <2>1 DEF Channel, SameAttempt, SameOutcome
<1> HIDE DEF a
<1>3. b \in Channel /\ SameAttempt(a, b) /\ SameOutcome(a, b) /\ b.cause = cause
      /\ b.leave = a.leave /\ b.loseStart = a.loseStart
      /\ b.state = StateAfter(c, cause, halt)
  <2>1. StateAfter(c, cause, halt) \in ChannelStates
    BY <1>1 DEF ChannelStates
  <2>2. b \in Channel /\ b.state = StateAfter(c, cause, halt)
    BY <1>2, <2>1, StateUpdate
  <2> QED
    BY <1>2, <2>2 DEF Channel, SameAttempt, SameOutcome
<1> HIDE DEF b
<1>4. b \in SoundChannel
  BY <1>2, <1>3 DEF SoundChannel, SameAttempt, StateAfter
<1>5. Failed(c, cause, error, halt) = FailCurrentJoin(b, error)
  BY DEF Failed, a, b
<1> QED
  BY <1>2, <1>3, <1>4, <1>5, FailCurrentJoinFields
  DEF SameAttempt, SameFate, SameOutcome, FailedOutcome

\* A leave is started once; the channel is then left, by this cause unless it had
\* another one.
LEMMA StartLeaveFields ==
  ASSUME NEW c \in SoundChannel, NEW halt \in BOOLEAN
  PROVE  LET d == StartLeave(c, halt)
         IN  /\ SameAttempt(c, d) /\ d.loseStart = c.loseStart
             /\ d.leave = IF c.leave = "none" THEN "start" ELSE c.leave
             /\ c.leave # "none" => d = c
             /\ c.leave = "none" => d.state = "left"
             /\ c.leave = "none" /\ c.state # "left" => FailedOutcome(c, d, "channel")
             /\ c.state = "left" => SameOutcome(c, d) /\ d.cause = c.cause /\ d.state = "left"
<1> DEFINE Started(e) == [e EXCEPT !.leave = "start"]
<1>1. ASSUME NEW e \in SoundChannel
      PROVE  /\ SameAttempt(e, Started(e)) /\ SameOutcome(e, Started(e))
             /\ Started(e).state = e.state /\ Started(e).cause = e.cause
             /\ Started(e).leave = "start" /\ Started(e).loseStart = e.loseStart
  BY <1>1 DEF SoundChannel, Channel, SameAttempt, SameOutcome
<1> HIDE DEF Started
<1>2. CASE c.leave # "none"
  BY <1>2 DEF StartLeave, SameAttempt, SameOutcome
<1>3. CASE c.leave = "none" /\ c.state = "left"
  <2>1. StartLeave(c, halt) = Started(c)
    BY <1>3 DEF StartLeave, Started
  <2> QED
    BY <1>1, <1>3, <2>1
<1>4. CASE c.leave = "none" /\ c.state # "left"
  <2> DEFINE f == Failed(c, "leave", "channel", halt)
  <2>1. StartLeave(c, halt) = Started(f)
    BY <1>4 DEF StartLeave, Started
  <2>2. "leave" \in ChannelCauses /\ "channel" \in JoinOutcomes
    BY DEF ChannelCauses, JoinOutcomes
  <2>3. f \in SoundChannel
    BY <2>2, FailedKeeps
  <2>4. SameAttempt(c, f) /\ FailedOutcome(c, f, "channel") /\ f.loseStart = c.loseStart
        /\ f.state = "left"
    BY <2>2, FailedFields DEF StateAfter, RecoverableCauses
  <2> HIDE DEF f
  <2> QED
    BY <1>1, <1>4, <2>1, <2>3, <2>4 DEF SameAttempt, SameOutcome, FailedOutcome
<1> QED
  BY <1>2, <1>3, <1>4

\* A loss leaves the channel and starts a task that will report it, or its leave.
LEMMA StartTopicLossFields ==
  ASSUME NEW c \in SoundChannel, NEW halt \in BOOLEAN
  PROVE  LET d == StartTopicLoss(c, halt)
         IN  /\ SameAttempt(c, d) /\ d.state = "left"
             /\ c.leave # "none" => d.leave = c.leave
             /\ c.established => d.leave = c.leave /\ d.loseStart = c.loseStart + 1
             /\ ~c.established => d.leave # "none"
             /\ c.state = "left" => SameOutcome(c, d) /\ d.cause = c.cause
             /\ c.state # "left" => FailedOutcome(c, d, "channel")
<1> DEFINE lost == IF c.state = "left" THEN c ELSE Failed(c, "close", "channel", halt)
           d == [lost EXCEPT !.loseStart = lost.loseStart + 1]
<1>1. "close" \in ChannelCauses /\ "channel" \in JoinOutcomes
  BY DEF ChannelCauses, JoinOutcomes
<1>2. lost \in SoundChannel
  BY <1>1, FailedKeeps
<1>3. /\ SameAttempt(c, lost) /\ lost.leave = c.leave /\ lost.loseStart = c.loseStart
      /\ lost.state = "left"
      /\ c.state = "left" => SameOutcome(c, lost) /\ lost.cause = c.cause
      /\ c.state # "left" => FailedOutcome(c, lost, "channel")
  BY <1>1, FailedFields DEF StateAfter, RecoverableCauses, SameAttempt, SameOutcome
<1>4. StartTopicLoss(c, halt) = IF c.established THEN d ELSE StartLeave(lost, halt)
  BY DEF StartTopicLoss
<1> HIDE DEF lost
<1>5. CASE c.established
  <2>1. /\ SameAttempt(lost, d) /\ SameOutcome(lost, d) /\ d.state = lost.state
        /\ d.cause = lost.cause /\ d.leave = lost.leave
        /\ d.loseStart = lost.loseStart + 1
    BY <1>2 DEF SoundChannel, Channel, SameAttempt, SameOutcome
  <2> HIDE DEF d
  <2> QED
    BY <1>3, <1>4, <1>5, <2>1 DEF SameAttempt, SameOutcome, FailedOutcome
<1>6. CASE ~c.established
  BY <1>2, <1>3, <1>4, <1>6, StartLeaveFields DEF SameAttempt, SameOutcome, FailedOutcome
<1> QED
  BY <1>5, <1>6

\* _join's except clauses fail the channel, or leave it alone.
LEMMA JoinFailureFields ==
  ASSUME NEW c \in SoundChannel, NEW halt \in BOOLEAN
  PROVE  LET d == JoinFailure(c, halt)
         IN  \/ d = c /\ ~(c.out = "channel" /\ c.cause \in {"none", "accepted", "timeout"})
             \/ /\ SameAttempt(c, d) /\ d.out = c.out /\ d.leave = c.leave
                /\ c.out # "pending" => d.voided
                /\ d.loseStart = c.loseStart
                /\ c.state = "left" => d.state = "left"
                /\ \/ /\ d.cause = "configuration" /\ d.state = "left"
                      /\ c.out = "channel" /\ c.cause \in {"none", "accepted", "timeout"}
                   \/ /\ d.cause = "timeout" /\ d.state \in {"rejoining", "left"}
                      /\ c.out = "timeout"
                      /\ d.state = StateAfter(c, "timeout", halt)
<1>1. {"configuration", "timeout"} \subseteq ChannelCauses
      /\ {"channel", "timeout"} \subseteq JoinOutcomes
  BY DEF ChannelCauses, JoinOutcomes
<1>2. CASE c.out = "channel" /\ c.cause \in {"none", "accepted", "timeout"}
  BY <1>1, <1>2, FailedFields DEF JoinFailure, FailedOutcome, StateAfter, RecoverableCauses
<1>3. CASE c.out = "timeout"
  BY <1>1, <1>3, FailedFields DEF JoinFailure, FailedOutcome, StateAfter
<1>4. CASE ~(c.out = "channel" /\ c.cause \in {"none", "accepted", "timeout"})
           /\ c.out # "timeout"
  BY <1>4 DEF JoinFailure
<1> QED
  BY <1>2, <1>3, <1>4

\* The loss of the connection fails a join, or a leave; a join that is not tried
\* again becomes a leave.
LEMMA FailPendingJoinFields ==
  ASSUME NEW c \in SoundChannel, NEW halt \in BOOLEAN
  PROVE  LET d == FailPendingJoin(c, halt)
         IN  /\ SameAttempt(c, d) /\ d.loseStart = c.loseStart
             /\ c.state = "left" => SameChannel(c, d)
             /\ c.state # "left" =>
                  /\ FailedOutcome(c, d, "socket")
                  /\ d.state = StateAfter(c, "transport", halt)
                  /\ c.leave # "none" => d.leave = c.leave
                  /\ d.state = "left" => d.leave # "none"
                  /\ d.state # "left" => d.leave = c.leave
<1> DEFINE f == Failed(c, "transport", "socket", halt)
<1>1. "transport" \in ChannelCauses /\ "socket" \in JoinOutcomes
  BY DEF ChannelCauses, JoinOutcomes
<1>2. f \in SoundChannel
  BY <1>1, FailedKeeps
<1>3. /\ SameAttempt(c, f) /\ FailedOutcome(c, f, "socket")
      /\ f.state = StateAfter(c, "transport", halt)
      /\ f.leave = c.leave /\ f.loseStart = c.loseStart
  BY <1>1, FailedFields
<1>4. FailPendingJoin(c, halt) =
        IF c.state = "left" THEN FailUnsubscribe(c)
        ELSE IF f.state = "left" THEN StartLeave(FailUnsubscribe(f), halt) ELSE f
  BY DEF FailPendingJoin
<1> HIDE DEF f
<1>5. CASE c.state = "left"
  BY <1>4, <1>5, FailUnsubscribeFields DEF SameChannel, SameAttempt, SameFate
<1>6. CASE c.state # "left" /\ f.state = "left"
  <2>1. FailUnsubscribe(f) \in SoundChannel /\ SameChannel(f, FailUnsubscribe(f))
    BY <1>2, FailUnsubscribeKeeps, FailUnsubscribeFields
  <2> QED
    BY <1>3, <1>4, <1>6, <2>1, StartLeaveFields
    DEF SameChannel, SameAttempt, SameFate, SameOutcome, FailedOutcome
<1>7. CASE c.state # "left" /\ f.state # "left"
  BY <1>3, <1>4, <1>7 DEF FailedOutcome
<1> QED
  BY <1>5, <1>6, <1>7

\* A new attempt keeps what the handle was and the recovery that makes it.
LEMMA RestartFields ==
  ASSUME NEW c \in SoundChannel, NEW current \in Conns, NEW ref \in Refs
  PROVE  LET d == Restart(c, current, ref)
         IN  /\ d.established = c.established /\ d.conn = current /\ d.joinRef = ref
             /\ ~d.submitted /\ ~d.terminal /\ d.cleaned = c.cleaned
             /\ d.rec = c.rec /\ d.recConn = c.recConn /\ d.recCancel = c.recCancel
             /\ d.state = "rejoining" /\ d.cause = "none" /\ d.out = "pending"
             /\ d.leave = c.leave /\ d.loseStart = c.loseStart
<1>1. DOMAIN c = DOMAIN NewChannel
  BY DEF SoundChannel, Channel, NewChannel
<1> QED
  BY <1>1 DEF Restart, NewChannel

\* An accepted join establishes the channel.
LEMMA AcceptedFields ==
  ASSUME NEW c \in SoundChannel, c.state # "left"
  PROVE  LET d == Accepted(c)
         IN  /\ d.established /\ d.conn = c.conn /\ d.joinRef = c.joinRef
             /\ d.submitted = c.submitted /\ d.terminal = c.terminal
             /\ d.cleaned = c.cleaned
             /\ d.rec = c.rec /\ d.recConn = c.recConn /\ d.recCancel = c.recCancel
             /\ d.state = "joined" /\ d.cause = "accepted" /\ d.leave = c.leave
             /\ d.loseStart = c.loseStart /\ d.voided = c.voided
             /\ d.out = IF c.out = "pending" THEN "ok" ELSE c.out
<1> DEFINE b == [c EXCEPT !.cause = "accepted", !.state = "joined", !.established = TRUE]
<1>1. DOMAIN c = DOMAIN NewChannel /\ DOMAIN b = DOMAIN NewChannel
  BY DEF SoundChannel, Channel, NewChannel
<1>2. /\ b.established /\ b.conn = c.conn /\ b.joinRef = c.joinRef
      /\ b.submitted = c.submitted /\ b.terminal = c.terminal /\ b.cleaned = c.cleaned
      /\ b.rec = c.rec /\ b.recConn = c.recConn /\ b.recCancel = c.recCancel
      /\ b.state = "joined" /\ b.cause = "accepted" /\ b.leave = c.leave
      /\ b.loseStart = c.loseStart /\ b.voided = c.voided /\ b.out = c.out
  BY <1>1 DEF NewChannel
<1>3. Accepted(c) = IF b.out = "pending" THEN [b EXCEPT !.out = "ok"] ELSE b
  BY DEF Accepted, SettleJoin
<1> HIDE DEF b
<1> QED
  BY <1>1, <1>2, <1>3 DEF NewChannel

=============================================================================
