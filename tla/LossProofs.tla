------------------------------ MODULE LossProofs ------------------------------
(***************************************************************************)
(* Proofs about lost channels in TopicRuntime, for every set of handles and *)
(* topics and every bound: on_topic_lost is called at most once for a      *)
(* handle, only for an established channel that is gone and cleaned up, and *)
(* never for a leave (LossReportedOnce); while a session is served, every  *)
(* channel that is to be rejoined has somebody who does it (NoOrphan); and *)
(* an established channel that ends for good on the current connection has *)
(* somebody who reports it (LossHasAReporter).                             *)
(*                                                                         *)
(* Tracks says of one channel what every helper and every step keep: what  *)
(* may be reported stays so, and is reported once.  For the other two, a   *)
(* step is Steady for a channel, so that what tends it still does, or it is *)
(* one of the few that Tends to it.                                        *)
(***************************************************************************)
EXTENDS SessionProofs

\* An established channel that was lost and not left.
Reportable(c) == c.established /\ c.state = "left" /\ c.cause # "leave"

\* What makes a report right: a permanent cause belongs to a channel that is
\* gone, whoever is to report is about a reportable channel, and the first report,
\* after the cleanup, is the only one.
LossOK(c) ==
  /\ c.cause \in PermanentCauses => c.state = "left"
  /\ c.loseStart > 0 \/ c.loseWait > 0 \/ c.reported => Reportable(c)
  /\ c.reported => c.leave = "done"
  /\ c.calls = IF c.reported THEN 1 ELSE 0

\* From c to d: an established channel remains established, a lost one lost, a
\* leave that is done stays done, and reports stay right.
Tracks(c, d) ==
  /\ LossOK(c) => LossOK(d)
  /\ c.established => d.established
  /\ c.state = "left" /\ c.cause # "leave" => d.state = "left" /\ d.cause # "leave"
  /\ c.leave = "done" => d.leave = "done"

\* The fields that Tracks is about.
Alike(c, d) ==
  /\ d.state = c.state /\ d.cause = c.cause /\ d.established = c.established
  /\ d.leave = c.leave /\ d.loseStart = c.loseStart /\ d.loseWait = c.loseWait
  /\ d.reported = c.reported /\ d.calls = c.calls

-----------------------------------------------------------------------------
(* The helpers of ChannelState *)

\* A channel that agrees in those fields is tracked.
LEMMA AlikeTracks ==
  ASSUME NEW c, NEW d, Alike(c, d)
  PROVE  Tracks(c, d)
  BY DEF Alike, Tracks, LossOK, Reportable

\* Tracking is reflexive and transitive.
LEMMA TracksItself ==
  ASSUME NEW c
  PROVE  Tracks(c, c)
  BY DEF Tracks

LEMMA TracksTransitive ==
  ASSUME NEW c, NEW d, NEW e, Tracks(c, d), Tracks(d, e)
  PROVE  Tracks(c, e)
  BY DEF Tracks

\* The futures, flags and tasks of a channel that no report depends on.
LEMMA Untouched ==
  ASSUME NEW c \in SoundChannel, NEW v
  PROVE  /\ Alike(c, [c EXCEPT !.submitted = v]) /\ Alike(c, [c EXCEPT !.terminal = v])
         /\ Alike(c, [c EXCEPT !.out = v])       /\ Alike(c, [c EXCEPT !.voided = v])
         /\ Alike(c, [c EXCEPT !.unsub = v])     /\ Alike(c, [c EXCEPT !.join = v])
         /\ Alike(c, [c EXCEPT !.rec = v])       /\ Alike(c, [c EXCEPT !.recConn = v])
         /\ Alike(c, [c EXCEPT !.recCancel = v])
<1> USE DEF SoundChannel, Channel, Alike
<1>1. Alike(c, [c EXCEPT !.submitted = v])
  OBVIOUS
<1>2. Alike(c, [c EXCEPT !.terminal = v])
  OBVIOUS
<1>3. Alike(c, [c EXCEPT !.out = v])
  OBVIOUS
<1>4. Alike(c, [c EXCEPT !.voided = v])
  OBVIOUS
<1>5. Alike(c, [c EXCEPT !.unsub = v])
  OBVIOUS
<1>6. Alike(c, [c EXCEPT !.join = v])
  OBVIOUS
<1>7. Alike(c, [c EXCEPT !.rec = v])
  OBVIOUS
<1>8. Alike(c, [c EXCEPT !.recConn = v])
  OBVIOUS
<1>9. Alike(c, [c EXCEPT !.recCancel = v])
  OBVIOUS
<1> HIDE DEF SoundChannel, Channel, Alike
<1> QED
  BY <1>1, <1>2, <1>3, <1>4, <1>5, <1>6, <1>7, <1>8, <1>9

\* Settling a future reports nothing.
LEMMA SettleJoinTracks ==
  ASSUME NEW c \in SoundChannel, NEW result
  PROVE  Tracks(c, SettleJoin(c, result))
  BY Untouched, AlikeTracks, TracksItself DEF SettleJoin

\* So do the futures of the current join and of the leave.
LEMMA FailCurrentJoinTracks ==
  ASSUME NEW c \in SoundChannel, NEW error
  PROVE  /\ Tracks(c, FailCurrentJoin(c, error))
         /\ FailCurrentJoin(c, error).cause = c.cause
<1>1. Alike(c, FailCurrentJoin(c, error))
  BY Untouched DEF FailCurrentJoin
<1> QED
  BY <1>1, AlikeTracks DEF Alike

LEMMA FailUnsubscribeTracks ==
  ASSUME NEW c \in SoundChannel
  PROVE  Tracks(c, FailUnsubscribe(c))
  BY Untouched, AlikeTracks, TracksItself DEF FailUnsubscribe

\* A failure other than a leave makes no channel unreportable; a leave fails only
\* channels that are not gone yet.
LEMMA FailedTracks ==
  ASSUME NEW c \in SoundChannel, NEW cause \in ChannelCauses, NEW error \in JoinOutcomes,
         NEW halt \in BOOLEAN, cause # "leave" \/ c.state # "left"
  PROVE  /\ Tracks(c, Failed(c, cause, error, halt))
         /\ Failed(c, cause, error, halt).cause = cause
<1> DEFINE b == [c EXCEPT !.cause = cause]
           d == [b EXCEPT !.state = StateAfter(c, cause, halt)]
<1>1. d.cause = cause /\ d.state = StateAfter(c, cause, halt)
      /\ d.established = c.established /\ d.leave = c.leave
      /\ d.loseStart = c.loseStart /\ d.loseWait = c.loseWait
      /\ d.reported = c.reported /\ d.calls = c.calls
  BY DEF SoundChannel, Channel
<1>2. d \in SoundChannel
  <2>1. StateAfter(c, cause, halt) \in {"rejoining", "left"}
    BY DEF StateAfter
  <2>2. b \in Channel
    BY CauseUpdate DEF SoundChannel
  <2>3. \A s \in ChannelStates : [b EXCEPT !.state = s] \in Channel
    BY <2>2, StateUpdate
  <2> HIDE DEF b
  <2> QED
    BY <1>1, <2>1, <2>3 DEF SoundChannel, ChannelStates
<1>3. Failed(c, cause, error, halt) = FailCurrentJoin(d, error)
  BY DEF Failed
<1> HIDE DEF d
<1>4. Tracks(c, d)
  BY <1>1 DEF Tracks, LossOK, Reportable, StateAfter, PermanentCauses, RecoverableCauses
<1> QED
  BY <1>1, <1>2, <1>3, <1>4, FailCurrentJoinTracks, TracksTransitive

\* No failure touches the leave task.
LEMMA FailedLeave ==
  ASSUME NEW c \in SoundChannel, NEW cause, NEW error, NEW halt
  PROVE  Failed(c, cause, error, halt).leave = c.leave
  BY DEF Failed, FailCurrentJoin, SoundChannel, Channel

\* A close ends a channel for good.
LEMMA ClosedIsLeft ==
  ASSUME NEW c \in SoundChannel, NEW error, NEW halt
  PROVE  Failed(c, "close", error, halt).state = "left"
  BY DEF Failed, FailCurrentJoin, StateAfter, RecoverableCauses, SoundChannel, Channel

\* An accepted join is no loss; that of a channel that was left has no effect on one.
LEMMA AcceptedTracks ==
  ASSUME NEW c \in SoundChannel
  PROVE  Tracks(c, Accepted(c))
<1>1. CASE c.state = "left"
  <2> DEFINE d == [c EXCEPT !.cause = "accepted"]
  <2>1. d.cause = "accepted" /\ d.state = c.state
        /\ d.established = c.established /\ d.leave = c.leave
        /\ d.loseStart = c.loseStart /\ d.loseWait = c.loseWait
        /\ d.reported = c.reported /\ d.calls = c.calls
    BY DEF SoundChannel, Channel
  <2>2. Accepted(c) = d
    BY <1>1 DEF Accepted
  <2> HIDE DEF d
  <2> QED
    BY <1>1, <2>1, <2>2 DEF Tracks, LossOK, Reportable, PermanentCauses
<1>2. CASE c.state # "left"
  <2> DEFINE b == [c EXCEPT !.cause = "accepted"]
             e == [b EXCEPT !.state = "joined"]
             d == [e EXCEPT !.established = TRUE]
  <2>1. d.cause = "accepted" /\ d.state = "joined" /\ d.established /\ d.leave = c.leave
        /\ d.loseStart = c.loseStart /\ d.loseWait = c.loseWait
        /\ d.reported = c.reported /\ d.calls = c.calls
    BY DEF SoundChannel, Channel
  <2>2. d \in SoundChannel
    <3>1. b \in Channel
      BY CauseUpdate DEF SoundChannel, ChannelCauses
    <3> HIDE DEF b
    <3>2. e \in Channel
      BY <3>1, StateUpdate DEF ChannelStates
    <3> HIDE DEF e
    <3> QED
      BY <2>1, <3>2, EstablishedUpdate DEF SoundChannel
  <2>3. Accepted(c) = SettleJoin(d, "ok")
    BY <1>2 DEF Accepted
  <2> HIDE DEF d
  <2>4. Tracks(c, d)
    BY <1>2, <2>1 DEF Tracks, LossOK, Reportable, PermanentCauses
  <2> QED
    BY <2>2, <2>3, <2>4, SettleJoinTracks, TracksTransitive
<1> QED
  BY <1>1, <1>2

\* A leave that starts is the first one, so nothing was reported.
LEMMA LeaveBegins ==
  ASSUME NEW c \in SoundChannel, NEW pc, c.leave # "done"
  PROVE  Tracks(c, [c EXCEPT !.leave = pc])
<1> DEFINE d == [c EXCEPT !.leave = pc]
<1>1. d.state = c.state /\ d.cause = c.cause /\ d.established = c.established
      /\ d.loseStart = c.loseStart /\ d.loseWait = c.loseWait
      /\ d.reported = c.reported /\ d.calls = c.calls
  BY DEF SoundChannel, Channel
<1> HIDE DEF d
<1> QED
  BY <1>1 DEF Tracks, LossOK, Reportable, d

\* Starting the leave task of a channel that is gone keeps why it is gone.
LEMMA StartLeaveTracks ==
  ASSUME NEW c \in SoundChannel, NEW halt \in BOOLEAN
  PROVE  /\ Tracks(c, StartLeave(c, halt))
         /\ c.state = "left" => /\ StartLeave(c, halt).state = "left"
                                /\ StartLeave(c, halt).cause = c.cause
                                /\ StartLeave(c, halt).established = c.established
<1>1. CASE c.leave # "none"
  BY <1>1, TracksItself DEF StartLeave
<1>2. CASE c.leave = "none" /\ c.state = "left"
  <2>1. StartLeave(c, halt) = [c EXCEPT !.leave = "start"]
    BY <1>2 DEF StartLeave
  <2>2. Tracks(c, [c EXCEPT !.leave = "start"])
    BY <1>2, LeaveBegins
  <2> QED
    BY <2>1, <2>2 DEF SoundChannel, Channel
<1>3. CASE c.leave = "none" /\ c.state # "left"
  <2> DEFINE d == Failed(c, "leave", "channel", halt)
  <2>1. "leave" \in ChannelCauses /\ "channel" \in JoinOutcomes
    BY DEF ChannelCauses, JoinOutcomes
  <2>2. d \in SoundChannel /\ Tracks(c, d)
    BY <1>3, <2>1, FailedKeeps, FailedTracks
  <2>3. StartLeave(c, halt) = [d EXCEPT !.leave = "start"]
    BY <1>3 DEF StartLeave
  <2>4. d.leave = "none"
    BY <1>3, FailedLeave
  <2> HIDE DEF d
  <2> QED
    BY <1>3, <2>2, <2>3, <2>4, LeaveBegins, TracksTransitive
<1> QED
  BY <1>1, <1>2, <1>3

\* A channel that is lost, and not for a leave, gets somebody to report it.
LEMMA StartTopicLossTracks ==
  ASSUME NEW c \in SoundChannel, NEW halt \in BOOLEAN,
         c.state = "left" => c.cause # "leave"
  PROVE  Tracks(c, StartTopicLoss(c, halt))
<1> DEFINE lost == IF c.state = "left" THEN c ELSE Failed(c, "close", "channel", halt)
           d == [lost EXCEPT !.loseStart = lost.loseStart + 1]
<1>1. "close" \in ChannelCauses /\ "channel" \in JoinOutcomes
  BY DEF ChannelCauses, JoinOutcomes
<1>2. lost \in SoundChannel /\ Tracks(c, lost)
  BY <1>1, FailedKeeps, FailedTracks, TracksItself
<1>3. lost.state = "left" /\ lost.cause # "leave"
  BY <1>1, FailedTracks, ClosedIsLeft
<1>4. StartTopicLoss(c, halt) = IF c.established THEN d ELSE StartLeave(lost, halt)
  BY DEF StartTopicLoss
<1> HIDE DEF lost
<1>5. ASSUME c.established
      PROVE  Tracks(lost, d)
  <2>1. d.state = lost.state /\ d.cause = lost.cause /\ d.established = lost.established
        /\ d.leave = lost.leave /\ d.loseWait = lost.loseWait
        /\ d.reported = lost.reported /\ d.calls = lost.calls
    BY <1>2 DEF SoundChannel, Channel
  <2>2. lost.established
    BY <1>2, <1>5 DEF Tracks
  <2> HIDE DEF d
  <2> QED
    BY <1>3, <2>1, <2>2 DEF Tracks, LossOK, Reportable
<1>6. Tracks(lost, StartLeave(lost, halt))
  BY <1>2, StartLeaveTracks
<1> HIDE DEF d
<1> QED
  BY <1>2, <1>4, <1>5, <1>6, TracksTransitive

\* A new attempt of a channel that is not gone forgets its cause.
LEMMA RestartTracks ==
  ASSUME NEW c \in SoundChannel, NEW current \in Conns, NEW ref \in Refs, c.state # "left"
  PROVE  /\ Tracks(c, Restart(c, current, ref))
         /\ Restart(c, current, ref).established = c.established
<1> DEFINE d == Restart(c, current, ref)
<1>1. d.state = "rejoining" /\ d.cause = "none" /\ d.established = c.established
      /\ d.leave = c.leave /\ d.loseStart = c.loseStart /\ d.loseWait = c.loseWait
      /\ d.reported = c.reported /\ d.calls = c.calls
  BY DEF SoundChannel, Channel, Restart
<1> HIDE DEF d
<1>2. Tracks(c, d)
  BY <1>1 DEF Tracks, LossOK, Reportable, PermanentCauses
<1> QED
  BY <1>1, <1>2 DEF d

\* The except clauses of _join.
LEMMA JoinFailureTracks ==
  ASSUME NEW c \in SoundChannel, NEW halt \in BOOLEAN
  PROVE  Tracks(c, JoinFailure(c, halt))
<1>1. \A cause \in {"configuration", "timeout"}, error \in {"channel", "timeout"} :
        Tracks(c, Failed(c, cause, error, halt))
  BY FailedTracks DEF ChannelCauses, JoinOutcomes
<1> QED
  BY <1>1, TracksItself DEF JoinFailure

\* What _fail_pending_joins does to one topic.
LEMMA FailPendingJoinTracks ==
  ASSUME NEW c \in SoundChannel, NEW halt \in BOOLEAN
  PROVE  Tracks(c, FailPendingJoin(c, halt))
<1> DEFINE d == Failed(c, "transport", "socket", halt)
<1>1. d \in SoundChannel /\ Tracks(c, d)
  BY FailedKeeps, FailedTracks DEF ChannelCauses, JoinOutcomes
<1>2. FailPendingJoin(c, halt) =
        IF c.state = "left" THEN FailUnsubscribe(c)
        ELSE IF d.state = "left" THEN StartLeave(FailUnsubscribe(d), halt) ELSE d
  BY DEF FailPendingJoin
<1> HIDE DEF d
<1>3. FailUnsubscribe(d) \in SoundChannel /\ Tracks(c, FailUnsubscribe(d))
  BY <1>1, FailUnsubscribeKeeps, FailUnsubscribeTracks, TracksTransitive
<1>4. Tracks(c, StartLeave(FailUnsubscribe(d), halt))
  BY <1>3, StartLeaveTracks, TracksTransitive
<1> QED
  BY <1>1, <1>2, <1>4, FailUnsubscribeTracks

-----------------------------------------------------------------------------
(* The helpers of TopicRuntime *)

\* A recovery that starts reports nothing yet.
LEMMA StartRecoveryTracks ==
  ASSUME NEW h, NEW c \in SoundChannel, NEW immediate
  PROVE  Tracks(c, StartRecovery(c, h, immediate))
<1> DEFINE d == [c EXCEPT !.rec = "delay", !.recConn = gen, !.recCancel = FALSE]
<1>1. Alike(c, d)
  BY DEF SoundChannel, Channel, Alike
<1>2. StartRecovery(c, h, immediate) \in {c, d}
  BY DEF StartRecovery
<1> HIDE DEF d
<1> QED
  BY <1>1, <1>2, AlikeTracks, TracksItself

\* A rejoin first loses the transport of a channel that is joined.
LEMMA BeforeRejoinTracks ==
  ASSUME NEW c \in SoundChannel, stop \in BOOLEAN
  PROVE  Tracks(c, BeforeRejoin(c))
<1>1. Tracks(c, Failed(c, "transport", "socket", stop))
  BY FailedTracks DEF ChannelCauses, JoinOutcomes
<1> QED
  BY <1>1, TracksItself DEF BeforeRejoin

\* One more attempt of a recovery, and a send that fails.
LEMMA TryAgainTracks ==
  ASSUME NEW h, NEW c \in SoundChannel
  PROVE  Tracks(c, TryAgain(h, c))
  BY Untouched, AlikeTracks DEF TryAgain

LEMMA FailOutcomeTracks ==
  ASSUME NEW c \in SoundChannel, NEW o, NEW error
  PROVE  Tracks(c, FailOutcome(c, o, error))
  BY SettleJoinTracks, FailUnsubscribeTracks, TracksItself DEF FailOutcome

\* A stop ends a channel without leaving it.
LEMMA RetireChannelTracks ==
  ASSUME NEW c \in SoundChannel, NEW current
  PROVE  Tracks(c, RetireChannel(c, current))
<1> DEFINE d == Failed(c, "stop", "channel", TRUE)
<1>1. "stop" \in ChannelCauses /\ "channel" \in JoinOutcomes
  BY DEF ChannelCauses, JoinOutcomes
<1>2. d \in SoundChannel /\ Tracks(c, d)
  BY <1>1, FailedKeeps, FailedTracks
<1>3. RetireChannel(c, current) = IF d.conn = current THEN d
                                  ELSE [StartLeave(d, TRUE) EXCEPT !.terminal = TRUE]
  BY DEF RetireChannel
<1> HIDE DEF d
<1>4. StartLeave(d, TRUE) \in SoundChannel /\ Tracks(c, StartLeave(d, TRUE))
  BY <1>2, StartLeaveKeeps, StartLeaveTracks, TracksTransitive
<1>5. Tracks(StartLeave(d, TRUE), [StartLeave(d, TRUE) EXCEPT !.terminal = TRUE])
  BY <1>4, Untouched, AlikeTracks
<1> QED
  BY <1>2, <1>3, <1>4, <1>5, TracksTransitive

\* Routed frames: a join reply may end a channel, for good if it was rejected.
LEMMA JoinReplyTracks ==
  ASSUME NEW c \in SoundChannel, NEW status, NEW hookOk, stop \in BOOLEAN
  PROVE  Tracks(c, JoinReply(c, status, hookOk))
<1> DEFINE d == [c EXCEPT !.terminal = TRUE]
<1>1. d \in SoundChannel /\ Tracks(c, d)
  BY TerminalKeeps, Untouched, AlikeTracks
<1>2. \A e \in {c, d}, cause \in {"rejected", "configuration"} :
        Tracks(c, Failed(e, cause, "channel", stop))
  <2>1. {"rejected", "configuration"} \subseteq ChannelCauses \ {"leave"}
        /\ "channel" \in JoinOutcomes
    BY DEF ChannelCauses, JoinOutcomes
  <2> HIDE DEF d
  <2> QED
    BY <1>1, <2>1, FailedTracks, TracksTransitive, TracksItself
<1> QED
  BY <1>1, <1>2, AcceptedTracks, TracksItself DEF JoinReply

\* The reply to a leave settles its future.
LEMMA LeaveReplyTracks ==
  ASSUME NEW c \in SoundChannel, NEW status
  PROVE  Tracks(c, LeaveReply(c, status))
  BY Untouched, AlikeTracks, TracksItself DEF LeaveReply

\* A close of an established channel is a loss.
LEMMA LifecycleEventTracks ==
  ASSUME NEW h, NEW c \in SoundChannel, NEW event, stop \in BOOLEAN
  PROVE  Tracks(c, LifecycleEvent(c, h, event))
<1> DEFINE ended == [c EXCEPT !.terminal = TRUE]
           cause == IF event = "error" THEN "crash" ELSE "close"
           failed == Failed(ended, cause, "channel", stop)
<1>1. ended \in SoundChannel /\ Tracks(c, ended)
  BY TerminalKeeps, Untouched, AlikeTracks
<1>2. cause \in ChannelCauses \ {"leave"} /\ "channel" \in JoinOutcomes
  BY DEF ChannelCauses, JoinOutcomes
<1>3. LifecycleEvent(c, h, event) =
        IF c.state = "left" THEN ended
        ELSE IF ~c.established THEN failed
        ELSE IF event = "error" THEN StartRecovery(failed, h, FALSE)
        ELSE StartTopicLoss(failed, stop)
  BY DEF LifecycleEvent
<1> HIDE DEF ended, cause
<1>4. failed \in SoundChannel /\ Tracks(c, failed) /\ failed.cause # "leave"
  BY <1>1, <1>2, FailedKeeps, FailedTracks, TracksTransitive
<1> HIDE DEF failed
<1>5. Tracks(c, StartRecovery(failed, h, FALSE)) /\ Tracks(c, StartTopicLoss(failed, stop))
  BY <1>4, StartRecoveryTracks, StartTopicLossTracks, TracksTransitive
<1> QED
  BY <1>1, <1>3, <1>4, <1>5

\* Whatever the frame, the channel it is routed to is tracked.
LEMMA ControlTracks ==
  ASSUME NEW h, NEW c \in SoundChannel, NEW m, NEW hookOk, stop \in BOOLEAN
  PROVE  Tracks(c, Control(c, h, m, hookOk))
<1>1. Tracks(c, LifecycleEvent(c, h, m.event))
  BY LifecycleEventTracks
<1>2. Tracks(c, LeaveReply(c, m.status))
  BY LeaveReplyTracks
<1>3. Tracks(c, JoinReply(c, m.status, hookOk))
  BY JoinReplyTracks
<1> QED
  BY <1>1, <1>2, <1>3, TracksItself DEF Control

-----------------------------------------------------------------------------
(* The inductive invariant *)

LossesOK == \A h \in Handles : LossOK(ch[h])

\* The supervisor waits for the rejoin of an established channel, and reports one
\* that it lost, not one that was left.
Supervised ==
  /\ sup.pc = "joining" => ch[sup.cur].established
  /\ sup.pc = "losing"  => Reportable(ch[sup.cur])

LInv == IInv /\ LossesOK /\ Supervised

AllTrack(chs) == \A h \in Handles : Tracks(ch[h], chs[h])

\* A step of one channel.
LEMMA OneTracks ==
  ASSUME LInv, NEW h \in Handles, NEW d, Tracks(ch[h], d)
  PROVE  AllTrack([ch EXCEPT ![h] = d])
  BY TracksItself DEF LInv, IInv, SoundChannels, AllTrack

\* A step that leaves the channels alone.
LEMMA NoneTracks == AllTrack(ch)
  BY TracksItself DEF AllTrack

\* A lost connection fails the pending joins of all.
LEMMA FailPendingJoinsTrack ==
  ASSUME LInv, NEW chs, KeepsAll(chs), AllTrack(chs)
  PROVE  AllTrack(FailPendingJoins(chs))
<1>1. \A h \in Handles : Tracks(chs[h], FailPendingJoin(chs[h], stop))
  BY FailPendingJoinTracks DEF LInv, IInv, OthersOK, KeepsAll
<1>2. \A h \in Handles : Tracks(ch[h], FailPendingJoin(chs[h], stop))
  BY <1>1, TracksTransitive DEF AllTrack
<1> QED
  BY <1>2 DEF FailPendingJoins, AllTrack

\* The facts about one handle that its steps use.
LEMMA OneHandle ==
  ASSUME LInv, NEW h \in Handles
  PROVE  /\ ch[h] \in SoundChannel /\ DOMAIN ch = Handles /\ LossOK(ch[h])
         /\ stop \in BOOLEAN /\ conn \in Conns /\ refs \in Refs
  BY DEF LInv, LossesOK, IInv, SoundChannels, OthersOK

-----------------------------------------------------------------------------
(* The channels, action by action *)

\* The sends and their deadlines.
LEMMA FailureTracks ==
  ASSUME LInv, NEW chs, KeepsAll(chs), AllTrack(chs), NotifyFailure(chs)
  PROVE  AllTrack(ch')
  BY FailPendingJoinsTrack DEF NotifyFailure

\* The writes, their results and their cancellation.
LEMMA SendTracks ==
  ASSUME LInv, NEW o \in ops, SendStep(o) \/ SendReturns(o)
  PROVE  AllTrack(ch')
<1>1. o.h \in Handles /\ IInv /\ {"channel", "socket"} \subseteq JoinOutcomes
  BY DEF LInv, IInv, OthersOK, Op, JoinOutcomes
<1>2. ASSUME NEW c \in SoundChannel, Keeps(ch[o.h], c), Tracks(ch[o.h], c),
             NEW error \in JoinOutcomes
      PROVE  /\ KeepsAll([ch EXCEPT ![o.h] = FailOutcome(c, o, error)])
             /\ AllTrack([ch EXCEPT ![o.h] = FailOutcome(c, o, error)])
  <2>1. FailOutcome(c, o, error) \in SoundChannel
        /\ Keeps(ch[o.h], FailOutcome(c, o, error))
        /\ Tracks(ch[o.h], FailOutcome(c, o, error))
    BY <1>2, FailOutcomeKeeps, FailOutcomeTracks, KeepsTransitive, TracksTransitive
  <2> QED
    BY <1>1, <2>1, OneChannelKept, OneTracks
<1>3. ch[o.h] \in SoundChannel /\ Keeps(ch[o.h], ch[o.h]) /\ Tracks(ch[o.h], ch[o.h])
  BY <1>1, OneHandle, KeepsItself, TracksItself
<1>4. [ch[o.h] EXCEPT !.submitted = TRUE] \in SoundChannel
      /\ Keeps(ch[o.h], [ch[o.h] EXCEPT !.submitted = TRUE])
      /\ Tracks(ch[o.h], [ch[o.h] EXCEPT !.submitted = TRUE])
  <2>1. [ch[o.h] EXCEPT !.submitted = TRUE] \in SoundChannel
        /\ Keeps(ch[o.h], [ch[o.h] EXCEPT !.submitted = TRUE])
    BY <1>3 DEF SoundChannel, Channel, Keeps, StaysLeft
  <2> QED
    BY <1>3, <2>1, Untouched, AlikeTracks
<1>5. ASSUME Submit(o)
      PROVE  AllTrack(ch')
  <2> DEFINE written == IF o.kind = "join" THEN [ch[o.h] EXCEPT !.submitted = TRUE]
                                           ELSE ch[o.h]
  <2>1. CASE ch' = ch
    BY <2>1, NoneTracks
  <2>2. CASE ch' = [ch EXCEPT ![o.h] = FailOutcome(ch[o.h], o, "channel")]
    BY <1>1, <1>2, <1>3, <2>2
  <2>3. CASE NotifyFailure([ch EXCEPT ![o.h] = FailOutcome(written, o, "socket")])
    BY <1>1, <1>2, <1>3, <1>4, <2>3, FailureTracks
  <2>4. CASE ch' = [ch EXCEPT ![o.h] = written]
    BY <1>1, <1>3, <1>4, <2>4, OneTracks
  <2> QED
    BY <1>5, <2>1, <2>2, <2>3, <2>4 DEF Submit
<1>6. ASSUME SendFails(o)
      PROVE  AllTrack(ch')
  BY <1>1, <1>2, <1>3, <1>6, FailureTracks DEF SendFails
<1> QED
  BY <1>5, <1>6, NoneTracks DEF SendStep, SendCancelled, SendReturns

\* A deadline settles a future.
LEMMA ExpireTracks ==
  ASSUME LInv, NEW o \in Timers, Expire(o)
  PROVE  AllTrack(ch')
<1>1. o.h \in Handles /\ IInv /\ "timeout" \in JoinOutcomes
  BY DEF LInv, IInv, OthersOK, Op, Timers, JoinOutcomes
<1> DEFINE late == [ch EXCEPT ![o.h] = FailOutcome(ch[o.h], o, "timeout")]
<1>2. KeepsAll(late) /\ AllTrack(late)
  BY <1>1, OneHandle, FailOutcomeKeeps, FailOutcomeTracks, OneChannelKept, OneTracks
<1>3. ch' = late \/ NotifyFailure(late)
  BY DEF Expire
<1> HIDE DEF late
<1> QED
  BY <1>2, <1>3, FailureTracks

\* A join that starts, of a channel that is not gone, or that fails at its params.
LEMMA StartJoinTracks ==
  ASSUME LInv, NEW h \in Handles, NEW c \in SoundChannel, NEW ok,
         Tracks(ch[h], c), StartJoin(h, c, ok)
  PROVE  AllTrack(ch')
<1>1. "configuration" \in ChannelCauses /\ "channel" \in JoinOutcomes /\ stop \in BOOLEAN
  BY OneHandle DEF ChannelCauses, JoinOutcomes
<1>2. Tracks(ch[h], ParamsFailure(c, stop))
  BY <1>1, FailedTracks, TracksTransitive DEF ParamsFailure
<1> QED
  BY <1>2, OneTracks DEF StartJoin

\* A handle that nobody joined has nothing to report.
LEMMA JoinTracks ==
  ASSUME LInv, NEW h \in Handles, NEW ok \in ParamsResults, Join(h, ok)
  PROVE  AllTrack(ch')
<1> DEFINE c == [ch[h] EXCEPT !.state = "joining", !.conn = conn,
                              !.joinRef = refs + 1, !.join = "waiting"]
<1>1. refs + 1 \in Refs
  BY NextJoinRef DEF LInv, Join
<1>2. ch[h] \in SoundChannel /\ ch[h].state = "created" /\ conn \in Conns
  BY OneHandle DEF Join
<1>3. c \in SoundChannel
  BY <1>1, <1>2 DEF SoundChannel, Channel, ChannelStates
<1>4. c.state = "joining" /\ c.cause = ch[h].cause /\ c.established = ch[h].established
      /\ c.leave = ch[h].leave /\ c.loseStart = ch[h].loseStart
      /\ c.loseWait = ch[h].loseWait /\ c.reported = ch[h].reported
      /\ c.calls = ch[h].calls
  BY <1>2 DEF SoundChannel, Channel
<1>5. StartJoin(h, c, ok)
  BY DEF Join
<1> HIDE DEF c
<1>6. Tracks(ch[h], c)
  BY <1>2, <1>4 DEF Tracks, LossOK, Reportable
<1> QED
  BY <1>3, <1>5, <1>6, StartJoinTracks

\* The caller of join and the application.
LEMMA JoinCallerTracks ==
  ASSUME LInv, NEW h \in Handles,
         JoinResumes(h) \/ JoinCancelled(h) \/ JoinRaises(h) \/ Leave(h)
  PROVE  AllTrack(ch')
<1>1. ch[h] \in SoundChannel /\ stop \in BOOLEAN
  BY OneHandle
<1>2. ASSUME NEW c \in SoundChannel, Tracks(ch[h], c)
      PROVE  Tracks(ch[h], [StartLeave(c, stop) EXCEPT !.join = "failing"])
  <2>1. StartLeave(c, stop) \in SoundChannel /\ Tracks(ch[h], StartLeave(c, stop))
    BY <1>1, <1>2, StartLeaveKeeps, StartLeaveTracks, TracksTransitive
  <2> QED
    BY <2>1, Untouched, AlikeTracks, TracksTransitive
<1>3. Tracks(ch[h], [ch[h] EXCEPT !.join = "done"])
  BY <1>1, Untouched, AlikeTracks
<1>4. CASE JoinResumes(h)
  <2>1. Tracks(ch[h], [StartLeave(JoinFailure(ch[h], stop), stop) EXCEPT !.join = "failing"])
    BY <1>1, <1>2, JoinFailureKeeps, JoinFailureTracks
  <2>2. \/ ch' = [ch EXCEPT ![h] = [ch[h] EXCEPT !.join = "done"]]
        \/ ch' = [ch EXCEPT ![h] =
             [StartLeave(JoinFailure(ch[h], stop), stop) EXCEPT !.join = "failing"]]
    BY <1>4 DEF JoinResumes
  <2> QED
    BY <1>3, <2>1, <2>2, OneTracks
<1>5. CASE JoinCancelled(h)
  <2>1. CancelJoin(ch[h]) \in SoundChannel /\ Tracks(ch[h], CancelJoin(ch[h]))
    BY <1>1, CancelJoinKeeps, SettleJoinTracks DEF CancelJoin
  <2>2. ch' = [ch EXCEPT ![h] =
                 [StartLeave(CancelJoin(ch[h]), stop) EXCEPT !.join = "failing"]]
    BY <1>5 DEF JoinCancelled
  <2> QED
    BY <1>2, <2>1, <2>2, OneTracks
<1>6. CASE JoinRaises(h)
  BY <1>3, <1>6, OneTracks DEF JoinRaises
<1>7. CASE Leave(h)
  <2> DEFINE d == [ch[h] EXCEPT !.state = "left", !.cause = "leave"]
  <2>1. d.state = "left" /\ d.cause = "leave" /\ d.established = ch[h].established
        /\ d.leave = ch[h].leave /\ d.loseStart = ch[h].loseStart
        /\ d.loseWait = ch[h].loseWait /\ d.reported = ch[h].reported
        /\ d.calls = ch[h].calls
    BY <1>1 DEF SoundChannel, Channel
  <2>2. \/ ch[h].state = "created" /\ ch' = [ch EXCEPT ![h] = d]
        \/ ch' = [ch EXCEPT ![h] = StartLeave(ch[h], stop)]
    BY <1>7 DEF Leave
  <2> HIDE DEF d
  <2>3. ch[h].state = "created" => Tracks(ch[h], d)
    BY <2>1 DEF Tracks, LossOK, Reportable, PermanentCauses
  <2> QED
    BY <1>1, <2>2, <2>3, StartLeaveTracks, OneTracks
<1> QED
  BY <1>4, <1>5, <1>6, <1>7

\* The leave task: nothing is reported before it is done.
LEMMA LeaveTaskTracks ==
  ASSUME LInv, NEW h \in Handles,
         LeaveStarts(h) \/ LeaveAnswered(h) \/ LeaveFinishes(h)
  PROVE  AllTrack(ch')
<1>1. ch[h] \in SoundChannel /\ DOMAIN ch = Handles
  BY OneHandle
<1>2. ch' = [ch EXCEPT ![h] = ch'[h]]
  BY <1>1 DEF LeaveStarts, LeaveAnswered, LeaveFinishes
<1>3. /\ ch'[h].state = ch[h].state /\ ch'[h].cause = ch[h].cause
      /\ ch'[h].established = ch[h].established
      /\ ch'[h].loseStart = ch[h].loseStart /\ ch'[h].loseWait = ch[h].loseWait
      /\ ch'[h].reported = ch[h].reported /\ ch'[h].calls = ch[h].calls
  <2> DEFINE cleaning == [ch[h] EXCEPT !.leave = "cleanup",
                                       !.recCancel = (ch[h].rec # "none")]
             sending == [ch[h] EXCEPT !.leave = "sending", !.leaveRef = refs + 1]
             done == [ch[h] EXCEPT !.leave = "done", !.cleaned = TRUE]
             gone == [cleaning EXCEPT !.terminal = TRUE]
  <2>1. ch'[h] \in {cleaning, gone, sending, done}
    BY <1>1 DEF LeaveStarts, LeaveAnswered, LeaveFinishes
  <2>2. ASSUME NEW d \in {cleaning, gone, sending, done}
        PROVE  /\ d.state = ch[h].state /\ d.cause = ch[h].cause
               /\ d.established = ch[h].established
               /\ d.loseStart = ch[h].loseStart /\ d.loseWait = ch[h].loseWait
               /\ d.reported = ch[h].reported /\ d.calls = ch[h].calls
    BY <1>1 DEF SoundChannel, Channel
  <2> HIDE DEF cleaning, sending, done, gone
  <2> QED
    BY <2>1, <2>2
<1>4. ch[h].leave # "done"
  BY DEF LeaveStarts, LeaveAnswered, LeaveFinishes
<1>5. Tracks(ch[h], ch'[h])
  BY <1>3, <1>4 DEF Tracks, LossOK, Reportable
<1> QED
  BY <1>2, <1>5, OneTracks

\* A recovery reports a loss only when it starts one: after a permanent cause.
LEMMA RecoveryTracks ==
  ASSUME LInv, NEW h \in Handles,
         RecoverTries(h) \/ RecoverResumes(h) \/ RecoverCancelled(h)
  PROVE  AllTrack(ch')
<1>1. ch[h] \in SoundChannel /\ stop \in BOOLEAN /\ IInv
  BY OneHandle DEF LInv
<1>2. ASSUME NEW c \in SoundChannel, Tracks(ch[h], c), NEW pc
      PROVE  Tracks(ch[h], [c EXCEPT !.rec = pc])
  BY <1>2, Untouched, AlikeTracks, TracksTransitive
<1>3. Tracks(ch[h], [ch[h] EXCEPT !.rec = "none"])
  BY <1>1, <1>2, TracksItself
<1>4. CASE RecoverTries(h)
  <2>1. BeforeRejoin(ch[h]) \in SoundChannel /\ Tracks(ch[h], BeforeRejoin(ch[h]))
    BY <1>1, BeforeRejoinKeeps, BeforeRejoinTracks
  <2>2. \/ ch' = [ch EXCEPT ![h] = [BeforeRejoin(ch[h]) EXCEPT !.rec = "stopping"]]
        \/ ch' = [ch EXCEPT ![h] = [ch[h] EXCEPT !.rec = "none"]]
    BY <1>4 DEF RecoverTries
  <2> QED
    BY <1>2, <1>3, <2>1, <2>2, OneTracks
<1>5. CASE RecoverResumes(h)
  <2> DEFINE c == JoinFailure(ch[h], stop)
  <2>1. c \in SoundChannel /\ Tracks(ch[h], c)
    BY <1>1, JoinFailureKeeps, JoinFailureTracks
  <2>2. \/ ch' = [ch EXCEPT ![h] = [c EXCEPT !.rec = "none"]]
        \/ ch' = [ch EXCEPT ![h] = TryAgain(h, c)]
        \/ c.cause \in PermanentCauses
           /\ ch' = [ch EXCEPT ![h] = [StartTopicLoss(c, stop) EXCEPT !.rec = "none"]]
    BY <1>5 DEF RecoverResumes
  <2> HIDE DEF c
  <2>3. ASSUME c.cause \in PermanentCauses
        PROVE  StartTopicLoss(c, stop) \in SoundChannel
               /\ Tracks(ch[h], StartTopicLoss(c, stop))
    <3>1. c.cause # "leave"
      BY <2>3 DEF PermanentCauses
    <3> QED
      BY <1>1, <2>1, <3>1, StartTopicLossKeeps, StartTopicLossTracks, TracksTransitive
  <2>4. Tracks(ch[h], TryAgain(h, c))
    BY <2>1, TryAgainTracks, TracksTransitive
  <2> QED
    BY <1>2, <2>1, <2>2, <2>3, <2>4, OneTracks
<1>6. CASE RecoverCancelled(h)
  <2>1. CancelJoin(ch[h]) \in SoundChannel /\ Tracks(ch[h], CancelJoin(ch[h]))
    BY <1>1, CancelJoinKeeps, SettleJoinTracks DEF CancelJoin
  <2>2. \/ ch' = [ch EXCEPT ![h] = [CancelJoin(ch[h]) EXCEPT !.rec = "none"]]
        \/ ch' = [ch EXCEPT ![h] = [ch[h] EXCEPT !.rec = "none"]]
    BY <1>6 DEF RecoverCancelled
  <2> QED
    BY <1>2, <1>3, <2>1, <2>2, OneTracks
<1> QED
  BY <1>4, <1>5, <1>6

\* A recovery's rejoin restarts its channel, or fails at the params.
LEMMA RecoverRejoinsTracks ==
  ASSUME LInv, NEW h \in Handles, NEW ok \in ParamsResults, RecoverRejoins(h, ok)
  PROVE  AllTrack(ch')
<1>1. ch[h] \in SoundChannel /\ conn \in Conns /\ IInv
  BY OneHandle DEF LInv
<1>2. CASE ShouldRejoin(h)
  <2>1. refs + 1 \in Refs /\ ch[h].state # "left"
    BY <1>1, <1>2, NextJoinRef DEF RecoverRejoins, ShouldRejoin
  <2> DEFINE c == Restart(ch[h], conn, refs + 1)
  <2>2. c \in SoundChannel /\ Tracks(ch[h], c)
    BY <1>1, <2>1, RestartSound, RestartTracks
  <2>3. StartJoin(h, [c EXCEPT !.rec = "waiting"], ok)
    BY <1>2 DEF RecoverRejoins
  <2> HIDE DEF c
  <2>4. [c EXCEPT !.rec = "waiting"] \in SoundChannel
        /\ Tracks(ch[h], [c EXCEPT !.rec = "waiting"])
    BY <2>2, RecoveryKeeps, Untouched, AlikeTracks, TracksTransitive
  <2> QED
    BY <2>3, <2>4, StartJoinTracks
<1>3. CASE ~ShouldRejoin(h)
  <2>1. ch' = [ch EXCEPT ![h] = [ch[h] EXCEPT !.rec = "none"]]
    BY <1>3 DEF RecoverRejoins
  <2> QED
    BY <1>1, <2>1, Untouched, AlikeTracks, OneTracks
<1> QED
  BY <1>2, <1>3

\* One more task is about to report a channel that is reportable.
LEMMA LoseWaitTracks ==
  ASSUME NEW c \in SoundChannel, Reportable(c)
  PROVE  Tracks(c, [c EXCEPT !.loseWait = c.loseWait + 1])
<1> DEFINE d == [c EXCEPT !.loseWait = c.loseWait + 1]
<1>1. d.state = c.state /\ d.cause = c.cause /\ d.established = c.established
      /\ d.leave = c.leave /\ d.loseStart = c.loseStart
      /\ d.reported = c.reported /\ d.calls = c.calls
  BY DEF SoundChannel, Channel
<1> HIDE DEF d
<1> QED
  BY <1>1 DEF Tracks, LossOK, Reportable, d

\* The tasks of a loss: the first report sets loss_reported.
LEMMA LossTracks ==
  ASSUME LInv, NEW h \in Handles, LoseStarts(h) \/ LoseReports(h)
  PROVE  AllTrack(ch')
<1>1. ch[h] \in SoundChannel /\ stop \in BOOLEAN /\ LossOK(ch[h])
  BY OneHandle
<1>2. CASE LoseStarts(h)
  <2> DEFINE c == [ch[h] EXCEPT !.loseStart = ch[h].loseStart - 1]
             d == StartLeave(c, stop)
  <2>1. ch[h].loseStart > 0 /\ ch[h].loseStart - 1 \in Nat
    BY <1>1, <1>2 DEF LoseStarts, SoundChannel, Channel
  <2>2. c \in SoundChannel
    BY <1>1, <2>1, LoseStartKeeps
  <2>3. c.state = ch[h].state /\ c.cause = ch[h].cause
        /\ c.established = ch[h].established /\ c.leave = ch[h].leave
        /\ c.loseWait = ch[h].loseWait /\ c.reported = ch[h].reported
        /\ c.calls = ch[h].calls
    BY <1>1 DEF SoundChannel, Channel
  <2>4. \/ ch' = [ch EXCEPT ![h] = c]
        \/ ch' = [ch EXCEPT ![h] = [d EXCEPT !.loseWait = d.loseWait + 1]]
    BY <1>2 DEF LoseStarts
  <2> HIDE DEF c
  <2>5. Reportable(ch[h]) /\ Reportable(c) /\ Tracks(ch[h], c)
    BY <1>1, <2>1, <2>3 DEF LossOK, Reportable, Tracks
  <2>6. d \in SoundChannel /\ Reportable(d) /\ Tracks(c, d)
    BY <1>1, <2>2, <2>5, StartLeaveKeeps, StartLeaveTracks DEF Reportable
  <2> HIDE DEF d
  <2>7. Tracks(ch[h], [d EXCEPT !.loseWait = d.loseWait + 1])
    BY <2>5, <2>6, LoseWaitTracks, TracksTransitive
  <2> QED
    BY <2>4, <2>5, <2>7, OneTracks
<1>3. CASE LoseReports(h)
  <2> DEFINE c == ch[h]
             d == Report(c)
             once == [c EXCEPT !.loseWait = c.loseWait - 1, !.reported = TRUE,
                               !.calls = c.calls + 1]
             again == [c EXCEPT !.loseWait = c.loseWait - 1]
  <2>1. c.loseWait > 0 /\ c.leave = "done" /\ ch' = [ch EXCEPT ![h] = d]
    BY <1>3 DEF LoseReports
  <2>2. Reportable(c)
    BY <1>1, <2>1 DEF LossOK
  <2>3. d = IF c.reported THEN again ELSE once
    BY DEF Report
  <2>4. /\ once.state = c.state /\ once.cause = c.cause
        /\ once.established = c.established /\ once.leave = c.leave
        /\ once.reported = TRUE /\ once.calls = c.calls + 1
    BY <1>1 DEF SoundChannel, Channel
  <2>5. /\ again.state = c.state /\ again.cause = c.cause
        /\ again.established = c.established /\ again.leave = c.leave
        /\ again.reported = c.reported /\ again.calls = c.calls
    BY <1>1 DEF SoundChannel, Channel
  <2>6. c \in SoundChannel /\ LossOK(c)
    BY <1>1
  <2> HIDE DEF once, again, d, c
  <2>7. c.reported => Tracks(c, again)
    BY <2>1, <2>2, <2>5 DEF Tracks, LossOK, Reportable
  <2>8. ~c.reported => Tracks(c, once)
    BY <2>1, <2>2, <2>4, <2>6 DEF Tracks, LossOK, Reportable
  <2>9. Tracks(ch[h], d)
    BY <2>3, <2>7, <2>8 DEF c
  <2> QED
    BY <2>1, <2>9, OneTracks
<1> QED
  BY <1>2, <1>3

\* A routed frame is about the owner of its name.
LEMMA RouteTracks ==
  ASSUME LInv, NEW t \in Topics, NEW ok \in HookResults, Route(t, ok)
  PROVE  AllTrack(ch')
<1> DEFINE m == Head(net[t])
           h == registry[t]
<1>1. ch' = ch \/ (h # NoHandle /\ ch' = [ch EXCEPT ![h] = Control(ch[h], h, m, ok)])
  BY DEF Route
<1>2. h # NoHandle => h \in Handles
  BY DEF LInv, IInv, RegistryOK, RegistryOf
<1> HIDE DEF h, m
<1>3. h # NoHandle => Tracks(ch[h], Control(ch[h], h, m, ok))
  BY <1>2, OneHandle, ControlTracks
<1> QED
  BY <1>1, <1>2, <1>3, NoneTracks, OneTracks

\* The end of routing, and the cleanup that a session's end or shutdown begins.
LEMMA ConnectionLostTracks ==
  ASSUME LInv, RoutingStopped \/ EndSession \/ ShutdownCleansUp
  PROVE  AllTrack(ch')
<1> DEFINE failing == FailPendingJoins(ch)
<1>1. KeepsAll(failing) /\ AllTrack(failing)
  BY NoChannelKept, FailPendingJoinsKept, NoneTracks, FailPendingJoinsTrack DEF LInv
<1>2. ASSUME CleanupBegins
      PROVE  AllTrack(ch')
  <2>1. PICK recoveries :
          ch' = [h \in Handles |-> IF h \in recoveries
                                   THEN [failing[h] EXCEPT !.recCancel = TRUE]
                                   ELSE failing[h]]
    BY <1>2 DEF CleanupBegins
  <2> HIDE DEF failing
  <2>2. \A h \in Handles : Tracks(ch[h], [failing[h] EXCEPT !.recCancel = TRUE])
    BY <1>1, Untouched, AlikeTracks, TracksTransitive DEF KeepsAll, AllTrack
  <2> QED
    BY <1>1, <2>1, <2>2 DEF AllTrack
<1> QED
  BY <1>1, <1>2, NoneTracks DEF RoutingStopped, EndSession, ShutdownCleansUp

\* The rejoins of a new session, except for the restart.
LEMMA RejoinTracks ==
  ASSUME LInv,
         (\E h \in Handles : RejoinNext(h)) \/ RejoinResumes \/ RejoinLost \/ RejoinDone
  PROVE  AllTrack(ch')
<1>1. stop \in BOOLEAN /\ CurrentRejoin /\ \A h \in Handles : ch[h] \in SoundChannel
  BY DEF LInv, IInv, OthersOK, SoundChannels
<1>2. ASSUME NEW h \in Handles, RejoinNext(h)
      PROVE  AllTrack(ch')
  <2>1. ch' = ch \/ ch' = [ch EXCEPT ![h] = BeforeRejoin(ch[h])]
    BY <1>2 DEF RejoinNext
  <2> QED
    BY <1>1, <2>1, BeforeRejoinTracks, NoneTracks, OneTracks
<1>3. CASE RejoinResumes
  <2> DEFINE h == sup.cur
             c == JoinFailure(ch[h], stop)
  <2>1. h \in Handles
    BY <1>1, <1>3 DEF RejoinResumes, CurrentRejoin
  <2>2. c \in SoundChannel /\ Tracks(ch[h], c)
    BY <1>1, <2>1, JoinFailureKeeps, JoinFailureTracks
  <2>3. \/ ch' = ch
        \/ ch' = [ch EXCEPT ![h] = c]
        \/ ch' = [ch EXCEPT ![h] = StartLeave(c, stop)]
        \/ ch' = [ch EXCEPT ![h] = StartRecovery(c, h, FALSE)]
    BY <1>3 DEF RejoinResumes
  <2> HIDE DEF h, c
  <2>4. Tracks(ch[h], StartLeave(c, stop)) /\ Tracks(ch[h], StartRecovery(c, h, FALSE))
    BY <1>1, <2>2, StartLeaveTracks, StartRecoveryTracks, TracksTransitive
  <2> QED
    BY <2>1, <2>2, <2>3, <2>4, NoneTracks, OneTracks
<1>4. CASE RejoinLost
  <2> DEFINE h == sup.cur
             d == [ch[h] EXCEPT !.loseWait = ch[h].loseWait + 1]
  <2>1. h \in Handles /\ Reportable(ch[h])
    BY <1>1, <1>4 DEF RejoinLost, CurrentRejoin, LInv, Supervised
  <2>2. ch' = [ch EXCEPT ![h] = d]
    BY <1>4 DEF RejoinLost
  <2>3. Tracks(ch[h], d)
    BY <1>1, <2>1, LoseWaitTracks
  <2> HIDE DEF h, d
  <2> QED
    BY <2>1, <2>2, <2>3, OneTracks
<1>5. CASE RejoinDone
  <2>1. \A h \in Handles : Tracks(ch[h], StartRecovery(ch[h], h, TRUE))
    BY <1>1, StartRecoveryTracks
  <2>2. ch' = [h \in Handles |-> IF h \in sup.optional THEN StartRecovery(ch[h], h, TRUE)
                                                       ELSE ch[h]]
    BY <1>5 DEF RejoinDone
  <2> QED
    BY <2>1, <2>2, TracksItself DEF AllTrack
<1> QED
  BY <1>2, <1>3, <1>4, <1>5

\* The restart of a rejoin: a rejected channel was not left.
LEMMA RejoinRestartsTracks ==
  ASSUME LInv, NEW ok \in ParamsResults, RejoinRestarts(ok)
  PROVE  AllTrack(ch')
<1> DEFINE h == sup.cur
<1>1. h \in Handles
  BY DEF LInv, IInv, OthersOK, CurrentRejoin, RejoinRestarts
<1>2. ch[h] \in SoundChannel /\ conn \in Conns /\ IInv
  BY <1>1, OneHandle DEF LInv
<1>3. CASE ShouldRejoin(h)
  <2>1. refs + 1 \in Refs /\ ch[h].state # "left"
    BY <1>2, <1>3, NextJoinRef DEF RejoinRestarts, ShouldRejoin
  <2>2. StartJoin(h, Restart(ch[h], conn, refs + 1), ok)
    BY <1>3 DEF RejoinRestarts
  <2> HIDE DEF h
  <2> QED
    BY <1>1, <1>2, <2>1, <2>2, RestartSound, RestartTracks, StartJoinTracks
<1>4. CASE ~ShouldRejoin(h)
  BY <1>4, NoneTracks DEF RejoinRestarts
<1> QED
  BY <1>3, <1>4

\* Retiring the channels is no leave.
LEMMA RetiringTracks ==
  ASSUME LInv, SupervisorStops \/ AdoptsTooLate \/ RequestStop
  PROVE  AllTrack(ch')
<1>1. \A h \in Handles : Tracks(ch[h], RetireChannel(ch[h], conn))
  BY OneHandle, RetireChannelTracks
<1>2. ASSUME RetireChannels
      PROVE  AllTrack(ch')
  <2>1. ch' = [h \in Handles |-> IF IsRegistered(h) THEN RetireChannel(ch[h], conn)
                                                    ELSE ch[h]]
    BY <1>2 DEF RetireChannels
  <2> QED
    BY <1>1, <2>1, TracksItself DEF AllTrack
<1> QED
  BY <1>2, NoneTracks DEF SupervisorStops, AdoptsTooLate, RequestStop, SupervisorExits

\* The end of a cleanup tells that no answer will come.
LEMMA CleanupEndsTracks ==
  ASSUME LInv, CleanupEnds
  PROVE  AllTrack(ch')
<1>1. PICK over :
        ch' = [h \in Handles |-> IF h \in over THEN [ch[h] EXCEPT !.terminal = TRUE]
                                               ELSE ch[h]]
  BY DEF CleanupEnds
<1>2. \A h \in Handles : Tracks(ch[h], [ch[h] EXCEPT !.terminal = TRUE])
  BY OneHandle, Untouched, AlikeTracks
<1> QED
  BY <1>1, <1>2, TracksItself DEF AllTrack

\* The other steps of a shutdown.
LEMMA ShutdownTracks ==
  ASSUME LInv, SupervisorCancelled \/ ShutdownUnsubscribes \/ ShutdownCancelsLifecycle
  PROVE  AllTrack(ch')
<1>1. stop \in BOOLEAN /\ CurrentRejoin /\ \A h \in Handles : ch[h] \in SoundChannel
  BY DEF LInv, IInv, OthersOK, SoundChannels
<1>2. CASE SupervisorCancelled
  <2>1. CASE ch' = ch
    BY <2>1, NoneTracks
  <2>2. CASE sup.pc = "joining" /\ ch' = [ch EXCEPT ![sup.cur] = CancelJoin(ch[sup.cur])]
    <3>1. sup.cur \in Handles
      BY <1>1, <2>2 DEF CurrentRejoin
    <3>2. Tracks(ch[sup.cur], CancelJoin(ch[sup.cur]))
      BY <1>1, <3>1, SettleJoinTracks DEF CancelJoin
    <3> QED
      BY <2>2, <3>1, <3>2, OneTracks
  <2> QED
    BY <1>2, <2>1, <2>2 DEF SupervisorCancelled
<1>3. CASE ShutdownUnsubscribes
  <2>1. ch' = [h \in Handles |-> IF IsRegistered(h) THEN StartLeave(ch[h], stop)
                                                    ELSE ch[h]]
    BY <1>3 DEF ShutdownUnsubscribes
  <2>2. \A h \in Handles : Tracks(ch[h], StartLeave(ch[h], stop))
    BY <1>1, StartLeaveTracks
  <2> QED
    BY <2>1, <2>2, TracksItself DEF AllTrack
<1>4. CASE ShutdownCancelsLifecycle
  <2>1. ASSUME NEW c \in SoundChannel, NEW v
        PROVE  Tracks(c, [c EXCEPT !.loseStart = 0, !.loseWait = 0, !.recCancel = v])
    <3> DEFINE d == [c EXCEPT !.loseStart = 0, !.loseWait = 0, !.recCancel = v]
    <3>1. d.state = c.state /\ d.cause = c.cause /\ d.established = c.established
          /\ d.leave = c.leave /\ d.reported = c.reported /\ d.calls = c.calls
          /\ d.loseStart = 0 /\ d.loseWait = 0
      BY <2>1 DEF SoundChannel, Channel
    <3> HIDE DEF d
    <3> QED
      BY <3>1 DEF Tracks, LossOK, Reportable, d
  <2>2. ch' = [h \in Handles |-> [ch[h] EXCEPT !.loseStart = 0, !.loseWait = 0,
                                               !.recCancel = (ch[h].rec # "none")]]
    BY <1>4 DEF ShutdownCancelsLifecycle
  <2> QED
    BY <1>1, <2>1, <2>2 DEF AllTrack
<1> QED
  BY <1>2, <1>3, <1>4

\* The steps that leave the channels alone.
LEMMA OtherStepsTrack ==
  ASSUME \/ CloseSendSession \/ RoutingEnds \/ RoutingBreaks \/ Drop \/ ConnectFails
         \/ (\E t \in Topics, event \in ServerEnds : EndMembership(t, event))
         \/ Connect \/ Reconnects \/ CleanupCloses \/ CleanupRetires \/ ShutdownEnds
         \/ UNCHANGED vars
  PROVE  AllTrack(ch')
<1>1. ch' = ch
  BY DEF CloseSendSession, RoutingEnds, RoutingBreaks, Drop, ConnectFails, EndMembership,
         Connect, Reconnects, CleanupCloses, CleanupRetires, ShutdownEnds, vars
<1> QED
  BY <1>1, NoneTracks

\* Every step tracks every channel.
LEMMA StepTracks ==
  ASSUME LInv, [Next]_vars
  PROVE  AllTrack(ch')
<1>1. ASSUME NEW h \in Handles, HandleStep(h)
      PROVE  AllTrack(ch')
  BY <1>1, JoinCallerTracks, LeaveTaskTracks, RecoveryTracks, RecoverRejoinsTracks,
     LossTracks DEF HandleStep
<1>2. ASSUME SupervisorStep
      PROVE  AllTrack(ch')
  BY <1>2, RejoinTracks, RejoinRestartsTracks, ConnectionLostTracks, RetiringTracks,
     CleanupEndsTracks, ShutdownTracks, OtherStepsTrack DEF SupervisorStep
<1>3. ASSUME ShutdownStep \/ RoutingStep
      PROVE  AllTrack(ch')
  BY <1>3, ConnectionLostTracks, ShutdownTracks, RouteTracks, OtherStepsTrack
  DEF ShutdownStep, RoutingStep
<1>4. ASSUME UserStep \/ NetworkStep
      PROVE  AllTrack(ch')
  BY <1>4, JoinTracks, JoinCallerTracks, RetiringTracks, OtherStepsTrack
  DEF UserStep, NetworkStep
<1> QED
  BY <1>1, <1>2, <1>3, <1>4, SendTracks, ExpireTracks, OtherStepsTrack DEF Next

-----------------------------------------------------------------------------
(* The supervisor's rejoins *)

\* The supervisor turns to no other rejoin.
SameRejoin ==
  sup'.pc \in {"joining", "losing"} => sup'.pc = sup.pc /\ sup'.cur = sup.cur

LEMMA SameRejoinSupervised ==
  ASSUME LInv, AllTrack(ch'), SameRejoin
  PROVE  Supervised'
<1>1. CurrentRejoin
  BY DEF LInv, IInv, OthersOK
<1>2. ASSUME sup'.pc = "joining"
      PROVE  ch'[sup'.cur].established
  BY <1>1, <1>2 DEF SameRejoin, CurrentRejoin, LInv, Supervised, AllTrack, Tracks
<1>3. ASSUME sup'.pc = "losing"
      PROVE  Reportable(ch'[sup'.cur])
  BY <1>1, <1>3
  DEF SameRejoin, CurrentRejoin, LInv, Supervised, AllTrack, Tracks, Reportable
<1> QED
  BY <1>2, <1>3 DEF Supervised, Reportable

\* Only a restart and its outcome do; a rejected channel is gone, and was not left.
LEMMA SupervisedStep ==
  ASSUME LInv, [Next]_vars
  PROVE  Supervised'
<1>1. AllTrack(ch') /\ CurrentRejoin
  BY StepTracks DEF LInv, IInv, OthersOK
<1>2. ASSUME NEW ok \in ParamsResults, RejoinRestarts(ok)
      PROVE  Supervised'
  <2> DEFINE h == sup.cur
  <2>1. h \in Handles
    BY <1>1, <1>2 DEF RejoinRestarts, CurrentRejoin
  <2>2. CASE ShouldRejoin(h)
    <3>1. ch'[h].established
      BY <1>1, <2>1, <2>2 DEF ShouldRejoin, AllTrack, Tracks
    <3>2. sup' = [sup EXCEPT !.pc = "joining"] /\ sup'.pc = "joining" /\ sup'.cur = h
      BY <1>2, <2>2 DEF RejoinRestarts, LInv, IInv, OthersOK
    <3> QED
      BY <3>1, <3>2 DEF Supervised
  <2>3. CASE ~ShouldRejoin(h)
    <3>1. sup'.pc = "rejoining"
      BY <1>2, <2>3 DEF RejoinRestarts, LInv, IInv, OthersOK
    <3> QED
      BY <3>1 DEF Supervised
  <2> QED
    BY <2>2, <2>3
<1>3. CASE RejoinResumes
  <2> DEFINE h == sup.cur
             c == JoinFailure(ch[h], stop)
  <2>1. h \in Handles /\ ch[h].established
    BY <1>1, <1>3 DEF RejoinResumes, CurrentRejoin, LInv, Supervised
  <2>2. c \in SoundChannel /\ Tracks(ch[h], c) /\ LossOK(ch[h]) /\ stop \in BOOLEAN
        /\ DOMAIN ch = Handles
    BY <2>1, OneHandle, JoinFailureKeeps, JoinFailureTracks
  <2>3. CASE sup'.pc = "rejoining"
    BY <2>3 DEF Supervised
  <2>4. CASE /\ sup'.pc = "losing" /\ sup'.cur = h
             /\ c.cause \in PermanentCauses
             /\ ch' = [ch EXCEPT ![h] = StartLeave(c, stop)]
    <3> HIDE DEF h, c
    <3>1. c.cause # "leave"
      BY <2>4 DEF PermanentCauses
    <3>2. Reportable(c)
      BY <2>1, <2>2, <2>4, <3>1 DEF Tracks, LossOK, Reportable
    <3>3. Reportable(StartLeave(c, stop))
      BY <2>2, <3>2, StartLeaveTracks DEF Reportable
    <3> QED
      BY <2>1, <2>2, <2>4, <3>3 DEF Supervised, Reportable
  <2> QED
    BY <1>3, <2>3, <2>4 DEF RejoinResumes, LInv, IInv, OthersOK
<1>4. ASSUME UNCHANGED sup
      PROVE  SameRejoin
  BY <1>4 DEF SameRejoin
<1>5. ASSUME SupervisorStep,
             ~RejoinResumes, \A ok \in ParamsResults : ~RejoinRestarts(ok)
      PROVE  SameRejoin
  <2>1. CASE Connect \/ Reconnects \/ RejoinDone \/ EndSession \/ RejoinLost
    BY <2>1
    DEF Connect, Reconnects, RejoinDone, EndSession, RejoinLost, SameRejoin, LInv, IInv,
        OthersOK
  <2>2. CASE AdoptsTooLate \/ SupervisorStops
    BY <2>2
    DEF AdoptsTooLate, SupervisorStops, SupervisorExits, SameRejoin, LInv, IInv, OthersOK
  <2>3. ASSUME NEW h \in Handles, RejoinNext(h)
        PROVE  SameRejoin
    BY <2>3 DEF RejoinNext, SameRejoin, LInv, IInv, OthersOK
  <2>4. CASE CleanupCloses \/ CleanupRetires
    BY <2>4 DEF CleanupCloses, CleanupRetires, SameRejoin
  <2>5. CASE CleanupEnds
    BY <2>5 DEF CleanupEnds, SameRejoin, LInv, IInv, OthersOK
  <2>6. CASE SupervisorCancelled
    <3>1. sup'.pc \in {"dying", "exited"}
      BY <2>6 DEF SupervisorCancelled, LInv, IInv, OthersOK
    <3> QED
      BY <3>1 DEF SameRejoin
  <2> QED
    BY <1>5, <2>1, <2>2, <2>3, <2>4, <2>5, <2>6 DEF SupervisorStep
<1>6. ASSUME NEW h \in Handles, HandleStep(h)
      PROVE  UNCHANGED sup
  BY <1>6
  DEF HandleStep, JoinResumes, JoinRaises, LeaveStarts, LeaveAnswered, LeaveFinishes,
      RecoverTries, RecoverRejoins, RecoverResumes, RecoverCancelled, LoseStarts,
      LoseReports, loop
<1>7. ASSUME \/ \E o \in ops : SendStep(o) \/ SendReturns(o)
             \/ \E o \in Timers : Expire(o)
             \/ CloseSendSession \/ UNCHANGED vars
      PROVE  UNCHANGED sup
  BY <1>7 DEF SendStep, SendReturns, Submit, SendFails, SendCancelled, Expire,
              CloseSendSession, vars, loop
<1>8. ASSUME RoutingStep \/ ShutdownStep
      PROVE  UNCHANGED sup
  BY <1>8 DEF RoutingStep, Route, RoutingEnds, RoutingStopped, ShutdownStep,
              ShutdownCleansUp, ShutdownUnsubscribes, ShutdownCancelsLifecycle,
              ShutdownEnds, loop
<1>9. ASSUME UserStep \/ NetworkStep
      PROVE  UNCHANGED sup
  BY <1>9 DEF UserStep, Join, Leave, JoinCancelled, RequestStop, NetworkStep,
              EndMembership, Drop, RoutingBreaks, ConnectFails, loop
<1> QED
  BY <1>1, <1>2, <1>3, <1>4, <1>5, <1>6, <1>7, <1>8, <1>9, SameRejoinSupervised DEF Next

-----------------------------------------------------------------------------
(* The theorem *)

\* No handle has been reported when the client is made.
LEMMA InitLInv == Init => LInv
<1>1. Init => LossesOK
  BY DEF Init, LossesOK, LossOK, NewChannel, PermanentCauses
<1>2. Init => Supervised
  BY DEF Init, Supervised
<1> QED
  BY <1>1, <1>2, InitIInv DEF LInv

\* The invariant is inductive: the channels are tracked, the supervisor supervised.
LEMMA NextLInv == LInv /\ [Next]_vars => LInv'
<1> SUFFICES ASSUME LInv, [Next]_vars PROVE LInv'
  OBVIOUS
<1>1. IInv'
  BY NextIInv DEF LInv
<1>2. LossesOK'
  BY StepTracks DEF LInv, LossesOK, AllTrack, Tracks
<1> QED
  BY <1>1, <1>2, SupervisedStep DEF LInv

\* Whatever rejoins, recoveries, closes and shutdowns race for a channel, and
\* however many tasks report its loss, the application hears of it at most once,
\* after the cleanup, and never for a channel it left (_report_topic_lost).
THEOREM OneReport == Spec => []LossReportedOnce
<1>1. LInv => LossReportedOnce
  BY DEF LInv, LossesOK, LossOK, Reportable, LossReportedOnce
<1> QED
  BY <1>1, InitLInv, NextLInv, PTL DEF Spec

-----------------------------------------------------------------------------
(* Steps that leave the recoveries and the losses alone *)

\* A session whose connection has not failed.
Running == IsConnected /\ routing = "running" /\ ~stop

\* From c to d the attempt and the recovery of a channel stay, or the attempt ends
\* with a failure; it is to be rejoined only if it was, or the session is over; and
\* unless it is left, neither its loss nor a cancellation of its recovery begins.
Steady(c, d) ==
  /\ d.established = c.established /\ d.conn = c.conn
  /\ d.rec = c.rec /\ d.recConn = c.recConn
  /\ d.out = c.out \/ (c.out = "pending" /\ d.out \notin {"ok", "pending"})
  /\ JoinReady(d) => JoinReady(c) /\ (c.state = "joined" => d.state = "joined")
  /\ d.state = "rejoining" => c.state = "rejoining" \/ (c.established /\ ~Running')
  /\ c.leave # "none" => d.leave # "none"
  /\ d.leave = "none" => (d.cleaned => c.cleaned)
  /\ d.leave = "none" /\ ~stop =>
       /\ d.loseStart = c.loseStart
       /\ c.recCancel => d.recCancel
       /\ d.recCancel => c.recCancel \/ conn' = 0
  /\ d.leave = "none" /\ d.cause \in PermanentCauses \cup {"close"} =>
       d.state = c.state /\ d.cause = c.cause

AllSteady(chs) == \A h \in Handles : Steady(ch[h], chs[h])

\* Such steps compose.
LEMMA SteadyItself ==
  ASSUME NEW c
  PROVE  Steady(c, c)
  BY DEF Steady

LEMMA SteadyTransitive ==
  ASSUME NEW c, NEW d, NEW e, Steady(c, d), Steady(d, e)
  PROVE  Steady(c, e)
<1> USE DEF Steady
<1>1. e.established = c.established /\ e.conn = c.conn
  OBVIOUS
<1>2. e.rec = c.rec /\ e.recConn = c.recConn
  OBVIOUS
<1>3. e.out = c.out \/ (c.out = "pending" /\ e.out \notin {"ok", "pending"})
  OBVIOUS
<1>4. JoinReady(e) => JoinReady(c) /\ (c.state = "joined" => e.state = "joined")
  OBVIOUS
<1>5. e.state = "rejoining" => c.state = "rejoining" \/ (c.established /\ ~Running')
  OBVIOUS
<1>6. /\ c.leave # "none" => e.leave # "none"
      /\ e.leave = "none" => (e.cleaned => c.cleaned)
  OBVIOUS
<1>7. e.leave = "none" /\ ~stop =>
        /\ e.loseStart = c.loseStart
        /\ c.recCancel => e.recCancel
        /\ e.recCancel => c.recCancel \/ conn' = 0
  OBVIOUS
<1>8. e.leave = "none" /\ e.cause \in PermanentCauses \cup {"close"} =>
        e.state = c.state /\ e.cause = c.cause
  OBVIOUS
<1> QED
  BY <1>1, <1>2, <1>3, <1>4, <1>5, <1>6, <1>7, <1>8

\* Fields that Steady is not about.
LEMMA SameChannelSteady ==
  ASSUME NEW c, NEW d, SameChannel(c, d)
  PROVE  Steady(c, d)
  BY DEF Steady, SameChannel, SameAttempt, SameFate, SameOutcome, JoinReady

\* One field at a time.
LEMMA FieldsSteady ==
  ASSUME NEW c \in SoundChannel, NEW v
  PROVE  /\ Steady(c, [c EXCEPT !.submitted = v]) /\ Steady(c, [c EXCEPT !.terminal = v])
         /\ c.leave # "none" => Steady(c, [c EXCEPT !.cleaned = v])
         /\ c.leave # "none" \/ stop \/ (conn' = 0 /\ v = TRUE)
              => Steady(c, [c EXCEPT !.recCancel = v])
         /\ stop => Steady(c, [c EXCEPT !.loseStart = v])
         /\ v # "none" => Steady(c, [c EXCEPT !.leave = v])
<1> USE DEF SoundChannel, Channel, Steady, JoinReady
<1>1. Steady(c, [c EXCEPT !.submitted = v]) /\ Steady(c, [c EXCEPT !.terminal = v])
  OBVIOUS
<1>2. c.leave # "none" => Steady(c, [c EXCEPT !.cleaned = v])
  OBVIOUS
<1>3. c.leave # "none" \/ stop \/ (conn' = 0 /\ v = TRUE)
        => Steady(c, [c EXCEPT !.recCancel = v])
  OBVIOUS
<1>4. stop => Steady(c, [c EXCEPT !.loseStart = v])
  OBVIOUS
<1>5. v # "none" => Steady(c, [c EXCEPT !.leave = v])
  OBVIOUS
<1> QED
  BY <1>1, <1>2, <1>3, <1>4, <1>5

LEMMA OtherFieldsSteady ==
  ASSUME NEW c \in SoundChannel, NEW v
  PROVE  /\ Steady(c, [c EXCEPT !.unsub = v]) /\ Steady(c, [c EXCEPT !.join = v])
         /\ Steady(c, [c EXCEPT !.loseWait = v]) /\ Steady(c, [c EXCEPT !.leaveRef = v])
         /\ Steady(c, [c EXCEPT !.reported = v]) /\ Steady(c, [c EXCEPT !.calls = v])
  BY OtherFields, SameChannelSteady

\* A failure that is no loss, of a session that is over or of a client that stops.
LEMMA FailedSteady ==
  ASSUME NEW c \in SoundChannel, NEW cause \in ChannelCauses \ (PermanentCauses \cup {"close"}),
         NEW error \in JoinOutcomes \ {"ok", "pending"}, NEW halt \in BOOLEAN, halt \/ ~Running'
  PROVE  Steady(c, Failed(c, cause, error, halt))
<1> DEFINE d == Failed(c, cause, error, halt)
<1>1. SameAttempt(c, d) /\ FailedOutcome(c, d, error) /\ d.leave = c.leave
      /\ d.loseStart = c.loseStart /\ d.cause = cause
      /\ d.state = StateAfter(c, cause, halt)
  BY FailedFields
<1>2. /\ StateAfter(c, cause, halt) \in {"rejoining", "left"}
      /\ StateAfter(c, cause, halt) = "rejoining" => c.established /\ ~halt
  BY DEF StateAfter
<1> HIDE DEF d
<1>3. Steady(c, d)
  BY <1>1, <1>2 DEF Steady, SameAttempt, FailedOutcome, JoinReady
<1> QED
  BY <1>3 DEF d

\* An outcome that is settled by a failure.
LEMMA SettleJoinSteady ==
  ASSUME NEW c \in SoundChannel, NEW result \in JoinOutcomes \ {"ok", "pending"}
  PROVE  Steady(c, SettleJoin(c, result))
<1> DEFINE d == SettleJoin(c, result)
<1>1. SameAttempt(c, d) /\ SameFate(c, d) /\ d.voided = c.voided
      /\ d.out = IF c.out = "pending" THEN result ELSE c.out
  BY SettleJoinFields
<1> HIDE DEF d
<1>2. Steady(c, d)
  BY <1>1 DEF Steady, SameAttempt, SameFate, JoinReady
<1> QED
  BY <1>2 DEF d

\* A leave that starts.
LEMMA StartLeaveSteady ==
  ASSUME NEW c \in SoundChannel, NEW halt \in BOOLEAN
  PROVE  Steady(c, StartLeave(c, halt)) /\ StartLeave(c, halt).leave # "none"
<1> DEFINE d == StartLeave(c, halt)
<1>1. /\ SameAttempt(c, d)
      /\ d.leave = IF c.leave = "none" THEN "start" ELSE c.leave
      /\ c.leave # "none" => d = c
      /\ c.leave = "none" => d.state = "left"
      /\ c.leave = "none" /\ c.state # "left" => FailedOutcome(c, d, "channel")
      /\ c.state = "left" => SameOutcome(c, d)
  BY StartLeaveFields
<1> HIDE DEF d
<1>2. CASE c.leave # "none"
  BY <1>1, <1>2, SteadyItself DEF d
<1>3. CASE c.leave = "none"
  <2>1. Steady(c, d)
    BY <1>1, <1>3 DEF Steady, SameAttempt, SameOutcome, FailedOutcome, JoinReady
  <2> QED
    BY <1>1, <1>3, <2>1 DEF d
<1> QED
  BY <1>2, <1>3

\* The loss of the connection.
LEMMA FailPendingJoinSteady ==
  ASSUME NEW c \in SoundChannel, NEW halt \in BOOLEAN, halt \/ ~Running'
  PROVE  Steady(c, FailPendingJoin(c, halt))
<1> DEFINE f == Failed(c, "transport", "socket", halt)
<1>1. /\ "transport" \in ChannelCauses \ (PermanentCauses \cup {"close"})
      /\ "socket" \in JoinOutcomes \ {"ok", "pending"}
  BY DEF ChannelCauses, JoinOutcomes, PermanentCauses
<1>2. f \in SoundChannel /\ Steady(c, f)
  BY <1>1, FailedKeeps, FailedSteady
<1>3. FailPendingJoin(c, halt) =
        IF c.state = "left" THEN FailUnsubscribe(c)
        ELSE IF f.state = "left" THEN StartLeave(FailUnsubscribe(f), halt) ELSE f
  BY DEF FailPendingJoin
<1> HIDE DEF f
<1>4. /\ FailUnsubscribe(f) \in SoundChannel
      /\ Steady(c, FailUnsubscribe(c)) /\ Steady(f, FailUnsubscribe(f))
  BY <1>2, FailUnsubscribeKeeps, FailUnsubscribeFields, SameChannelSteady
<1>5. Steady(c, StartLeave(FailUnsubscribe(f), halt))
  BY <1>2, <1>4, StartLeaveSteady, SteadyTransitive
<1> QED
  BY <1>2, <1>3, <1>4, <1>5

\* The outcome of a send.
LEMMA FailOutcomeSteady ==
  ASSUME NEW c \in SoundChannel, NEW o, NEW error \in JoinOutcomes \ {"ok", "pending"}
  PROVE  Steady(c, FailOutcome(c, o, error))
<1>1. Steady(c, FailUnsubscribe(c))
  BY FailUnsubscribeFields, SameChannelSteady
<1> QED
  BY <1>1, SettleJoinSteady, SteadyItself DEF FailOutcome

\* The end of the client.
LEMMA RetireChannelSteady ==
  ASSUME NEW c \in SoundChannel
  PROVE  Steady(c, RetireChannel(c, conn))
<1> DEFINE d == Failed(c, "stop", "channel", TRUE)
           e == StartLeave(d, TRUE)
<1>1. /\ "stop" \in ChannelCauses \ (PermanentCauses \cup {"close"})
      /\ "channel" \in JoinOutcomes \ {"ok", "pending"}
  BY DEF ChannelCauses, JoinOutcomes, PermanentCauses
<1>2. d \in SoundChannel /\ Steady(c, d)
  BY <1>1, FailedKeeps, FailedSteady
<1>3. e \in SoundChannel /\ Steady(d, e)
  BY <1>2, StartLeaveKeeps, StartLeaveSteady
<1>4. RetireChannel(c, conn) = IF d.conn = conn THEN d ELSE [e EXCEPT !.terminal = TRUE]
  BY DEF RetireChannel
<1> HIDE DEF d, e
<1>5. Steady(e, [e EXCEPT !.terminal = TRUE])
  BY <1>3, FieldsSteady
<1> QED
  BY <1>2, <1>3, <1>4, <1>5, SteadyTransitive

-----------------------------------------------------------------------------
(* The steady steps, action by action *)

\* A step of one channel, and of none.
LEMMA OneSteady ==
  ASSUME IInv, NEW h \in Handles, NEW d, Steady(ch[h], d)
  PROVE  AllSteady([ch EXCEPT ![h] = d])
  BY SteadyItself DEF IInv, SoundChannels, AllSteady

LEMMA NoneSteady == AllSteady(ch)
  BY SteadyItself DEF AllSteady

\* A lost connection fails the pending joins of all.
LEMMA FailPendingJoinsSteady ==
  ASSUME IInv, NEW chs, KeepsAll(chs), AllSteady(chs), ~Running'
  PROVE  AllSteady(FailPendingJoins(chs))
<1>1. \A h \in Handles : Steady(chs[h], FailPendingJoin(chs[h], stop))
  BY FailPendingJoinSteady DEF IInv, OthersOK, KeepsAll
<1>2. \A h \in Handles : Steady(ch[h], FailPendingJoin(chs[h], stop))
  BY <1>1, SteadyTransitive DEF AllSteady
<1> QED
  BY <1>2 DEF FailPendingJoins, AllSteady

\* A failed write ends the session of a connected client.
LEMMA FailureSteady ==
  ASSUME IInv, NEW chs, KeepsAll(chs), AllSteady(chs), NotifyFailure(chs)
  PROVE  AllSteady(ch')
<1>1. CASE ch' = chs
  BY <1>1
<1>2. CASE ch' # chs
  <2>1. cstate' # "connected" /\ ch' = FailPendingJoins(chs)
    BY <1>2 DEF NotifyFailure
  <2>2. ~Running'
    BY <2>1 DEF Running, IsConnected
  <2> QED
    BY <2>1, <2>2, FailPendingJoinsSteady
<1> QED
  BY <1>1, <1>2

\* A send whose outcome is failed.
LEMMA OutcomeSteady ==
  ASSUME IInv, NEW h \in Handles, NEW c \in SoundChannel, Steady(ch[h], c), Keeps(ch[h], c),
         NEW o, NEW error \in JoinOutcomes \ {"ok", "pending"}
  PROVE  LET chs == [ch EXCEPT ![h] = FailOutcome(c, o, error)]
         IN  KeepsAll(chs) /\ AllSteady(chs)
<1> DEFINE d == FailOutcome(c, o, error)
<1>1. d \in SoundChannel /\ Keeps(ch[h], d) /\ Steady(ch[h], d)
  BY FailOutcomeKeeps, FailOutcomeSteady, KeepsTransitive, SteadyTransitive
<1> HIDE DEF d
<1>2. KeepsAll([ch EXCEPT ![h] = d]) /\ AllSteady([ch EXCEPT ![h] = d])
  BY <1>1, OneChannelKept, OneSteady
<1> QED
  BY <1>2 DEF d

\* The sends.
LEMMA SendSteady ==
  ASSUME IInv, NEW o \in ops, SendStep(o) \/ SendReturns(o)
  PROVE  AllSteady(ch')
<1>1. /\ o.h \in Handles /\ ch[o.h] \in SoundChannel
      /\ {"channel", "socket"} \subseteq JoinOutcomes \ {"ok", "pending"}
  BY HandleFacts DEF IInv, OthersOK, Op, JoinOutcomes
<1>2. Steady(ch[o.h], ch[o.h]) /\ Keeps(ch[o.h], ch[o.h])
  BY SteadyItself, KeepsItself
<1>3. CASE SendFails(o)
  BY <1>1, <1>2, <1>3, OutcomeSteady, FailureSteady DEF SendFails
<1>4. CASE SendCancelled(o) \/ SendReturns(o)
  BY <1>4, NoneSteady DEF SendCancelled, SendReturns
<1>5. CASE Submit(o)
  <2> DEFINE c == [ch[o.h] EXCEPT !.submitted = TRUE]
             written == IF o.kind = "join" THEN c ELSE ch[o.h]
  <2>1. c \in SoundChannel /\ Steady(ch[o.h], c) /\ Keeps(ch[o.h], c)
    <3>1. Keeps(ch[o.h], c)
      BY <1>1 DEF SoundChannel, Channel, Keeps, StaysLeft
    <3> QED
      BY <1>1, <3>1, SubmittedKeeps, FieldsSteady
  <2>2. written \in SoundChannel /\ Steady(ch[o.h], written) /\ Keeps(ch[o.h], written)
    BY <1>1, <1>2, <2>1
  <2>3. \/ ch' = ch
        \/ ch' = [ch EXCEPT ![o.h] = FailOutcome(ch[o.h], o, "channel")]
        \/ NotifyFailure([ch EXCEPT ![o.h] = FailOutcome(written, o, "socket")])
        \/ ch' = [ch EXCEPT ![o.h] = written]
    BY <1>5 DEF Submit
  <2> HIDE DEF written, c
  <2> QED
    BY <1>1, <1>2, <2>2, <2>3, OutcomeSteady, FailureSteady, OneSteady, NoneSteady
<1> QED
  BY <1>3, <1>4, <1>5 DEF SendStep

\* Their deadlines.
LEMMA ExpireSteady ==
  ASSUME IInv, NEW o \in Timers, Expire(o)
  PROVE  AllSteady(ch')
<1>1. o.h \in Handles /\ "timeout" \in JoinOutcomes \ {"ok", "pending"}
  BY DEF IInv, OthersOK, Op, Timers, JoinOutcomes
<1>2. ch[o.h] \in SoundChannel /\ Steady(ch[o.h], ch[o.h]) /\ Keeps(ch[o.h], ch[o.h])
  BY <1>1, HandleFacts, SteadyItself, KeepsItself
<1> DEFINE late == [ch EXCEPT ![o.h] = FailOutcome(ch[o.h], o, "timeout")]
<1>3. KeepsAll(late) /\ AllSteady(late)
  BY <1>1, <1>2, OutcomeSteady
<1>4. ch' = late \/ NotifyFailure(late)
  BY DEF Expire
<1> HIDE DEF late
<1> QED
  BY <1>3, <1>4, FailureSteady

\* A join that fails is left.
LEMMA FailedJoinSteady ==
  ASSUME NEW c \in SoundChannel, c.leave # "none" => c.state = "left",
         c.out \notin {"ok", "pending"}, NEW halt \in BOOLEAN
  PROVE  Steady(c, StartLeave(JoinFailure(c, halt), halt))
<1> DEFINE b == JoinFailure(c, halt)
           d == StartLeave(b, halt)
<1>1. b \in SoundChannel
  BY JoinFailureKeeps
<1>2. /\ SameAttempt(c, b) /\ b.out = c.out /\ b.leave = c.leave
      /\ c.state = "left" => b.state = "left"
  BY JoinFailureFields DEF SameAttempt
<1> HIDE DEF b
<1>3. /\ SameAttempt(b, d)
      /\ d.leave = IF b.leave = "none" THEN "start" ELSE b.leave
      /\ b.leave # "none" => d = b
      /\ b.leave = "none" => d.state = "left"
      /\ b.leave = "none" /\ b.state # "left" => FailedOutcome(b, d, "channel")
      /\ b.state = "left" => SameOutcome(b, d)
  BY <1>1, StartLeaveFields
<1> HIDE DEF d
<1>4. d.state = "left" /\ d.leave # "none" /\ d.out = c.out
  BY <1>2, <1>3 DEF SameOutcome, FailedOutcome
<1>5. SameAttempt(c, d)
  BY <1>2, <1>3 DEF SameAttempt
<1>6. Steady(c, d)
  BY <1>4, <1>5 DEF Steady, SameAttempt, JoinReady
<1> QED
  BY <1>6 DEF d, b

\* The caller of join and the application.
LEMMA JoinCallerSteady ==
  ASSUME IInv, Tidy, NEW h \in Handles,
         JoinResumes(h) \/ JoinCancelled(h) \/ JoinRaises(h) \/ Leave(h)
  PROVE  AllSteady(ch')
<1>1. ch[h] \in SoundChannel /\ stop \in BOOLEAN
  BY HandleFacts
<1>2. ASSUME NEW c \in SoundChannel, Steady(ch[h], c)
      PROVE  Steady(ch[h], [c EXCEPT !.join = "failing"])
  BY <1>2, OtherFieldsSteady, SteadyTransitive
<1>3. Steady(ch[h], [ch[h] EXCEPT !.join = "done"])
  BY <1>1, OtherFieldsSteady
<1>4. CASE JoinResumes(h)
  <2> DEFINE d == StartLeave(JoinFailure(ch[h], stop), stop)
  <2>1. d \in SoundChannel
    BY <1>1, JoinFailureKeeps, StartLeaveKeeps
  <2>2. ch[h].out # "ok" => Steady(ch[h], d)
    BY <1>1, <1>4, FailedJoinSteady DEF JoinResumes, Tidy
  <2>3. \/ ch' = [ch EXCEPT ![h] = [ch[h] EXCEPT !.join = "done"]]
        \/ ch[h].out # "ok" /\ ch' = [ch EXCEPT ![h] = [d EXCEPT !.join = "failing"]]
    BY <1>4 DEF JoinResumes
  <2> HIDE DEF d
  <2> QED
    BY <1>2, <1>3, <2>1, <2>2, <2>3, OneSteady
<1>5. CASE JoinCancelled(h)
  <2> DEFINE c == CancelJoin(ch[h])
             d == StartLeave(c, stop)
  <2>1. "cancelled" \in JoinOutcomes \ {"ok", "pending"}
    BY DEF JoinOutcomes
  <2>2. c \in SoundChannel /\ Steady(ch[h], c)
    BY <1>1, <2>1, CancelJoinKeeps, SettleJoinSteady DEF CancelJoin
  <2>3. ch' = [ch EXCEPT ![h] = [d EXCEPT !.join = "failing"]]
    BY <1>5 DEF JoinCancelled
  <2> HIDE DEF c
  <2>4. d \in SoundChannel /\ Steady(ch[h], d)
    BY <1>1, <2>2, StartLeaveKeeps, StartLeaveSteady, SteadyTransitive
  <2> HIDE DEF d
  <2> QED
    BY <1>2, <2>3, <2>4, OneSteady
<1>6. CASE JoinRaises(h)
  BY <1>3, <1>6, OneSteady DEF JoinRaises
<1>7. CASE Leave(h)
  <2> DEFINE d == [ch[h] EXCEPT !.state = "left", !.cause = "leave"]
  <2>1. ch[h].state = "created" => Steady(ch[h], d)
    BY <1>1 DEF SoundChannel, Channel, Steady, JoinReady, PermanentCauses
  <2>2. \/ ch[h].state = "created" /\ ch' = [ch EXCEPT ![h] = d]
        \/ ch' = [ch EXCEPT ![h] = StartLeave(ch[h], stop)]
    BY <1>7 DEF Leave
  <2> HIDE DEF d
  <2> QED
    BY <1>1, <2>1, <2>2, StartLeaveSteady, OneSteady
<1> QED
  BY <1>4, <1>5, <1>6, <1>7

\* The leave task.
LEMMA LeaveTaskSteady ==
  ASSUME IInv, NEW h \in Handles,
         LeaveStarts(h) \/ LeaveAnswered(h) \/ LeaveFinishes(h)
  PROVE  AllSteady(ch')
<1>1. ch[h] \in SoundChannel /\ DOMAIN ch = Handles
  BY HandleFacts
<1> DEFINE cleaning == [ch[h] EXCEPT !.leave = "cleanup", !.recCancel = (ch[h].rec # "none")]
           sending == [ch[h] EXCEPT !.leave = "sending", !.leaveRef = refs + 1]
           done == [ch[h] EXCEPT !.leave = "done", !.cleaned = TRUE]
           gone == [cleaning EXCEPT !.terminal = TRUE]
<1>2. /\ ch' = [ch EXCEPT ![h] = ch'[h]] /\ ch[h].leave # "none"
      /\ ch'[h] \in {cleaning, sending, done, gone}
  BY <1>1 DEF LeaveStarts, LeaveAnswered, LeaveFinishes
<1>3. /\ Steady(ch[h], cleaning) /\ Steady(ch[h], sending)
      /\ Steady(ch[h], done) /\ Steady(ch[h], gone)
  BY <1>1, <1>2 DEF SoundChannel, Channel, Steady, JoinReady
<1> HIDE DEF cleaning, sending, done, gone
<1> QED
  BY <1>2, <1>3, OneSteady

\* A report of a loss.
LEMMA LoseReportsSteady ==
  ASSUME IInv, NEW h \in Handles, LoseReports(h)
  PROVE  AllSteady(ch')
<1> DEFINE once == [ch[h] EXCEPT !.loseWait = ch[h].loseWait - 1, !.reported = TRUE,
                                 !.calls = ch[h].calls + 1]
           again == [ch[h] EXCEPT !.loseWait = ch[h].loseWait - 1]
<1>1. ch' = [ch EXCEPT ![h] = IF ch[h].reported THEN again ELSE once]
  BY DEF LoseReports, Report
<1>2. ch[h] \in SoundChannel
  BY HandleFacts
<1>3. Steady(ch[h], again) /\ Steady(ch[h], once)
  BY <1>2 DEF SoundChannel, Channel, Steady, JoinReady
<1> HIDE DEF once, again
<1> QED
  BY <1>1, <1>3, OneSteady

\* The end of routing, and the cleanup that a session's end or a shutdown begins.
LEMMA ConnectionLostSteady ==
  ASSUME IInv, RoutingStopped \/ EndSession \/ ShutdownCleansUp
  PROVE  AllSteady(ch')
<1> DEFINE failing == FailPendingJoins(ch)
<1>1. routing' \notin {"running"}
  BY DEF RoutingStopped, EndSession, ShutdownCleansUp, CleanupBegins
<1>2. ~Running'
  BY <1>1 DEF Running
<1>3. KeepsAll(failing) /\ AllSteady(failing)
  BY <1>2, NoChannelKept, FailPendingJoinsKept, NoneSteady, FailPendingJoinsSteady
<1>4. ASSUME CleanupBegins
      PROVE  AllSteady(ch')
  <2>1. conn' = 0 /\ \E recoveries :
          ch' = [h \in Handles |-> IF h \in recoveries
                                   THEN [failing[h] EXCEPT !.recCancel = TRUE]
                                   ELSE failing[h]]
    BY <1>4 DEF CleanupBegins
  <2> HIDE DEF failing
  <2>2. \A h \in Handles : Steady(failing[h], [failing[h] EXCEPT !.recCancel = TRUE])
    BY <1>3, <2>1, FieldsSteady DEF KeepsAll
  <2>3. \A h \in Handles : Steady(ch[h], [failing[h] EXCEPT !.recCancel = TRUE])
    BY <1>3, <2>2, SteadyTransitive DEF AllSteady
  <2> QED
    BY <1>3, <2>1, <2>3 DEF AllSteady
<1>5. CASE RoutingStopped
  BY <1>3, <1>5, NoneSteady DEF RoutingStopped
<1> QED
  BY <1>4, <1>5 DEF EndSession, ShutdownCleansUp

\* The report that the supervisor starts.
LEMMA RejoinLostSteady ==
  ASSUME IInv, RejoinLost
  PROVE  AllSteady(ch')
<1>1. sup.cur \in Handles
  BY DEF RejoinLost, CurrentRejoin, IInv, OthersOK
<1> QED
  BY <1>1, HandleFacts, OtherFieldsSteady, OneSteady DEF RejoinLost

\* The client ends.
LEMMA RetiringSteady ==
  ASSUME IInv, SupervisorStops \/ AdoptsTooLate \/ RequestStop
  PROVE  AllSteady(ch')
<1>1. \A h \in Handles : Steady(ch[h], RetireChannel(ch[h], conn))
  BY HandleFacts, RetireChannelSteady
<1>2. ASSUME RetireChannels
      PROVE  AllSteady(ch')
  <2>1. ch' = [h \in Handles |-> IF IsRegistered(h) THEN RetireChannel(ch[h], conn)
                                                    ELSE ch[h]]
    BY <1>2 DEF RetireChannels
  <2> QED
    BY <1>1, <2>1, SteadyItself DEF AllSteady
<1> QED
  BY <1>2, NoneSteady DEF SupervisorStops, AdoptsTooLate, RequestStop, SupervisorExits

\* The end of a cleanup.
LEMMA CleanupEndsSteady ==
  ASSUME IInv, CleanupEnds
  PROVE  AllSteady(ch')
<1> DEFINE over == {h \in Handles : IsRegistered(h) /\ ch[h].conn = cleanup.conn}
<1>1. ch' = [h \in Handles |-> IF h \in over THEN [ch[h] EXCEPT !.terminal = TRUE]
                                               ELSE ch[h]]
  BY DEF CleanupEnds
<1>2. \A h \in over : Steady(ch[h], [ch[h] EXCEPT !.terminal = TRUE])
  BY HandleFacts, FieldsSteady
<1> HIDE DEF over
<1> QED
  BY <1>1, <1>2, SteadyItself DEF AllSteady

\* The other steps of a shutdown.
LEMMA ShutdownSteady ==
  ASSUME IInv, PInv, Session,
         SupervisorCancelled \/ ShutdownUnsubscribes \/ ShutdownCancelsLifecycle
  PROVE  AllSteady(ch')
<1>1. stop /\ CurrentRejoin /\ \A h \in Handles : ch[h] \in SoundChannel
  BY DEF IInv, OthersOK, SoundChannels, PInv, Phases, SupervisorCancelled,
         ShutdownUnsubscribes, ShutdownCancelsLifecycle
<1>2. CASE SupervisorCancelled
  <2>1. CASE ch' = ch
    BY <2>1, NoneSteady
  <2>2. CASE sup.pc = "joining" /\ ch' = [ch EXCEPT ![sup.cur] = CancelJoin(ch[sup.cur])]
    <3>1. sup.cur \in Handles /\ "cancelled" \in JoinOutcomes \ {"ok", "pending"}
      BY <1>1, <2>2 DEF CurrentRejoin, JoinOutcomes
    <3>2. Steady(ch[sup.cur], CancelJoin(ch[sup.cur]))
      BY <1>1, <3>1, SettleJoinSteady DEF CancelJoin
    <3> QED
      BY <2>2, <3>1, <3>2, OneSteady
  <2> QED
    BY <1>2, <2>1, <2>2 DEF SupervisorCancelled
<1>3. CASE ShutdownUnsubscribes
  <2>1. ch' = [h \in Handles |-> IF IsRegistered(h) THEN StartLeave(ch[h], stop)
                                                    ELSE ch[h]]
    BY <1>3 DEF ShutdownUnsubscribes
  <2>2. \A h \in Handles : Steady(ch[h], StartLeave(ch[h], stop))
    BY <1>1, StartLeaveSteady
  <2> QED
    BY <2>1, <2>2, SteadyItself DEF AllSteady
<1>4. CASE ShutdownCancelsLifecycle
  <2>1. ASSUME NEW c \in SoundChannel, NEW v
        PROVE  Steady(c, [c EXCEPT !.loseStart = 0, !.loseWait = 0, !.recCancel = v])
    BY <1>1, <2>1 DEF SoundChannel, Channel, Steady, JoinReady
  <2>2. ch' = [h \in Handles |-> [ch[h] EXCEPT !.loseStart = 0, !.loseWait = 0,
                                               !.recCancel = (ch[h].rec # "none")]]
    BY <1>4 DEF ShutdownCancelsLifecycle
  <2> QED
    BY <1>1, <2>1, <2>2 DEF AllSteady
<1> QED
  BY <1>2, <1>3, <1>4

\* The steps that leave the channels alone.
LEMMA OtherStepsSteady ==
  ASSUME \/ CloseSendSession \/ RoutingEnds \/ RoutingBreaks \/ Drop \/ ConnectFails
         \/ (\E t \in Topics, event \in ServerEnds : EndMembership(t, event))
         \/ Connect \/ Reconnects \/ CleanupCloses \/ CleanupRetires \/ ShutdownEnds
         \/ UNCHANGED vars
  PROVE  AllSteady(ch')
<1>1. ch' = ch
  BY DEF CloseSendSession, RoutingEnds, RoutingBreaks, Drop, ConnectFails, EndMembership,
         Connect, Reconnects, CleanupCloses, CleanupRetires, ShutdownEnds, vars
<1> QED
  BY <1>1, NoneSteady

\* The steps that begin, end or report something of this channel: of its recovery,
\* its loss, its join or its rejoin.
RoutedAt(h) ==
  /\ RoutedTo(h)
  /\ \E ok \in BOOLEAN : ch'[h] = Control(ch[h], h, Head(net[TopicOf[h]]), ok)

Tends(h) ==
  \/ RecoverTries(h) \/ RecoverResumes(h) \/ RecoverCancelled(h) \/ LoseStarts(h)
  \/ \E ok \in ParamsResults : Join(h, ok) \/ RecoverRejoins(h, ok)
  \/ RoutedAt(h)
  \/ RejoinNext(h)
  \/ sup.cur = h /\ (RejoinResumes \/ \E ok \in ParamsResults : RejoinRestarts(ok))
  \/ RejoinDone

\* A step that changes one channel only.
LEMMA OnlyOne ==
  ASSUME IInv, NEW g \in Handles, NEW d, ch' = ch \/ ch' = [ch EXCEPT ![g] = d],
         NEW h \in Handles, h # g
  PROVE  Steady(ch[h], ch'[h])
  BY HandleFacts, SteadyItself

\* Any other step is steady.
LEMMA StepSteady ==
  ASSUME PInv, Session, Tidy, [Next]_vars, NEW h \in Handles
  PROVE  Steady(ch[h], ch'[h]) \/ Tends(h)
<1>1. IInv
  BY DEF PInv
<1>2. ASSUME AllSteady(ch')
      PROVE  Steady(ch[h], ch'[h])
  BY <1>2 DEF AllSteady
<1>3. ASSUME NEW g \in Handles,
             RecoverTries(g) \/ RecoverResumes(g) \/ RecoverCancelled(g) \/ LoseStarts(g)
      PROVE  Steady(ch[h], ch'[h]) \/ Tends(h)
  <2>1. \E d : ch' = [ch EXCEPT ![g] = d]
    BY <1>3 DEF RecoverTries, RecoverResumes, RecoverCancelled, LoseStarts
  <2> QED
    BY <1>1, <1>3, <2>1, OnlyOne DEF Tends
<1>4. ASSUME NEW g \in Handles, NEW ok \in ParamsResults,
             Join(g, ok) \/ RecoverRejoins(g, ok) \/ (RejoinRestarts(ok) /\ sup.cur = g)
      PROVE  Steady(ch[h], ch'[h]) \/ Tends(h)
  <2>1. ch' = ch \/ \E d : ch' = [ch EXCEPT ![g] = d]
    BY <1>4 DEF Join, RecoverRejoins, RejoinRestarts, StartJoin
  <2> QED
    BY <1>1, <1>4, <2>1, OnlyOne DEF Tends
<1>5. ASSUME NEW g \in Handles, RejoinNext(g) \/ (RejoinResumes /\ sup.cur = g)
      PROVE  Steady(ch[h], ch'[h]) \/ Tends(h)
  <2>1. ch' = ch \/ \E d : ch' = [ch EXCEPT ![g] = d]
    BY <1>5 DEF RejoinNext, RejoinResumes
  <2> QED
    BY <1>1, <1>5, <2>1, OnlyOne DEF Tends
<1>6. ASSUME NEW t \in Topics, NEW ok \in HookResults, Route(t, ok)
      PROVE  Steady(ch[h], ch'[h]) \/ Tends(h)
  <2>1. CASE ch' = ch
    BY <2>1, SteadyItself
  <2>2. ASSUME NEW g \in Handles, TopicOf[g] = t, IsRegistered(g), IsOnCurrentConnection(g),
               Head(net[t]).joinRef = ch[g].joinRef, ok \in BOOLEAN,
               ch' = [ch EXCEPT ![g] = Control(ch[g], g, Head(net[t]), ok)]
        PROVE  Steady(ch[h], ch'[h]) \/ Tends(h)
    <3>1. CASE h # g
      BY <1>1, <2>2, <3>1, OnlyOne
    <3>2. CASE h = g
      <4>1. ch'[h] = Control(ch[h], h, Head(net[TopicOf[h]]), ok)
        BY <1>1, <2>2, <3>2, HandleFacts
      <4>2. RoutedTo(h)
        BY <1>6, <2>2, <3>2 DEF RoutedTo, Route
      <4> QED
        BY <2>2, <4>1, <4>2 DEF Tends, RoutedAt
    <3> QED
      BY <3>1, <3>2
  <2> QED
    BY <1>1, <1>6, <2>1, <2>2, RouteStep
<1>7. ASSUME RejoinResumes \/ \E ok \in ParamsResults : RejoinRestarts(ok)
      PROVE  sup.cur \in Handles
  BY <1>1, <1>7 DEF IInv, OthersOK, CurrentRejoin, RejoinResumes, RejoinRestarts
<1>8. ASSUME NEW g \in Handles, HandleStep(g)
      PROVE  Steady(ch[h], ch'[h]) \/ Tends(h)
  BY <1>1, <1>2, <1>3, <1>4, <1>8, JoinCallerSteady, LeaveTaskSteady, LoseReportsSteady
  DEF HandleStep
<1>9. ASSUME SupervisorStep
      PROVE  Steady(ch[h], ch'[h]) \/ Tends(h)
  <2>1. CASE RejoinDone
    BY <2>1 DEF Tends
  <2>2. CASE RejoinResumes \/ (\E g \in Handles : RejoinNext(g))
             \/ \E ok \in ParamsResults : RejoinRestarts(ok)
    BY <1>4, <1>5, <1>7, <2>2
  <2> QED
    BY <1>1, <1>2, <1>9, <2>1, <2>2, ConnectionLostSteady, RejoinLostSteady, RetiringSteady,
       CleanupEndsSteady, ShutdownSteady, OtherStepsSteady DEF SupervisorStep
<1>10. ASSUME ShutdownStep \/ RoutingStep
       PROVE  Steady(ch[h], ch'[h]) \/ Tends(h)
  BY <1>1, <1>2, <1>6, <1>10, ConnectionLostSteady, ShutdownSteady, OtherStepsSteady
  DEF ShutdownStep, RoutingStep
<1>11. ASSUME UserStep \/ NetworkStep
       PROVE  Steady(ch[h], ch'[h]) \/ Tends(h)
  BY <1>1, <1>2, <1>4, <1>11, JoinCallerSteady, RetiringSteady, OtherStepsSteady
  DEF UserStep, NetworkStep
<1> QED
  BY <1>1, <1>2, <1>8, <1>9, <1>10, <1>11, SendSteady, ExpireSteady, OtherStepsSteady DEF Next

-----------------------------------------------------------------------------
(* Who tends a channel *)

\* The supervisor waits for the rejoin of this channel.
Joining(h) == sup.pc = "joining" /\ sup.cur = h

\* The supervisor has still to turn to it, or is about to restart it.
InLine(h) ==
  h \in sup.todo \cup sup.optional \/ (sup.pc = "stopping" /\ sup.cur = h)

\* A channel that is to be rejoined or has a recovery was established; one that is
\* not joined is not ready; and only a leave cleans up.
Shaped(h) ==
  /\ ch[h].state = "rejoining" => ch[h].established
  /\ ch[h].state # "joined" => ~JoinReady(ch[h])
  /\ ch[h].rec # "none" => ch[h].established
  /\ ch[h].cleaned => ch[h].leave # "none"

\* An established channel is of some connection, and keeps its name until it is left.
Rooted(h) ==
  ch[h].established => ch[h].conn # 0 /\ (ch[h].leave = "none" => IsRegistered(h))

\* A recovery of a channel that is not left is one of the current session, or is
\* waited for by the cleanup that cancelled it.
RecoveredHere(h) ==
  ch[h].rec # "none" /\ ch[h].leave = "none" /\ ~stop =>
    \/ sup.pc \in Active /\ ch[h].recConn = gen /\ ~ch[h].recCancel
    \/ /\ sup.pc \in {"cleanup", "dying"} /\ cleanup.pc = "cancelling"
       /\ h \in cleanup.tasks /\ ch[h].recCancel

\* A channel that is to be rejoined has a recovery, or the supervisor comes to it or
\* is at it, and its attempt was not accepted.
Covered(h) ==
  Running /\ ch[h].state = "rejoining" =>
    ch[h].rec # "none" \/ InLine(h) \/ (Joining(h) /\ ch[h].out # "ok")

\* Somebody awaits the attempt of an established channel.
Awaited(h) ==
  ch[h].established /\ ch[h].out = "pending" => ch[h].rec = "waiting" \/ Joining(h)

\* An established channel that is gone on this connection, though nobody left it.
GoneHere(h) ==
  /\ ch[h].established /\ ch[h].state = "left" /\ ch[h].leave = "none"
  /\ ch[h].cause \in PermanentCauses \cup {"close"}
  /\ ch[h].conn = conn /\ ~stop

\* Its loss was started, or whoever awaits its failed attempt will start it.
Reported(h) ==
  GoneHere(h) =>
    \/ ch[h].loseStart > 0
    \/ /\ ch[h].cause # "close" /\ ch[h].out \notin {"ok", "pending"}
       /\ ch[h].rec = "waiting" \/ Joining(h)

\* The supervisor awaits an attempt on its connection, and serves a session once it
\* has turned to every channel.
AtWork ==
  /\ sup.pc = "joining" => ch[sup.cur].conn = gen
  /\ sup.pc = "serving" => sup.todo = {} /\ sup.optional = {}

Tended(h) ==
  /\ Shaped(h) /\ Rooted(h) /\ RecoveredHere(h)
  /\ Covered(h) /\ Awaited(h) /\ Reported(h)

TInv == ServerInv /\ AtWork /\ \A h \in Handles : Tended(h)

-----------------------------------------------------------------------------
(* How the supervisor moves *)

\* A stop is final.
LEMMA StopIsFinal ==
  ASSUME [Next]_vars, ~stop'
  PROVE  ~stop
<1>1. ASSUME NEW h \in Handles, HandleStep(h)
      PROVE  stop' = stop
  BY <1>1
  DEF HandleStep, JoinResumes, JoinRaises, LeaveStarts, LeaveAnswered, LeaveFinishes,
      RecoverTries, RecoverRejoins, RecoverResumes, RecoverCancelled, LoseStarts,
      LoseReports, client
<1>2. ASSUME \/ \E o \in ops : SendStep(o) \/ SendReturns(o)
             \/ \E o \in Timers : Expire(o)
             \/ CloseSendSession \/ RoutingStep \/ NetworkStep \/ ShutdownStep
             \/ UNCHANGED vars
      PROVE  stop' = stop
  BY <1>2
  DEF SendStep, SendReturns, Submit, SendFails, SendCancelled, Expire, CloseSendSession,
      RoutingStep, Route, RoutingEnds, RoutingStopped, NetworkStep, EndMembership, Drop,
      RoutingBreaks, ConnectFails, ShutdownStep, ShutdownCleansUp, ShutdownUnsubscribes,
      ShutdownCancelsLifecycle, ShutdownEnds, vars, client
<1>3. ASSUME SupervisorStep
      PROVE  stop' = stop
  BY <1>3
  DEF SupervisorStep, Connect, AdoptsTooLate, RejoinNext, RejoinRestarts, RejoinResumes,
      RejoinLost, RejoinDone, EndSession, Reconnects, SupervisorStops, CleanupCloses,
      CleanupRetires, CleanupEnds, SupervisorCancelled, client
<1>4. ASSUME UserStep
      PROVE  stop' = stop \/ stop'
  BY <1>4 DEF UserStep, Join, Leave, JoinCancelled, RequestStop, client
<1> QED
  BY <1>1, <1>2, <1>3, <1>4 DEF Next

\* Only the supervisor moves itself; it and a shutdown, which has stopped the client,
\* run the cleanup.
LEMMA LoopMoves ==
  ASSUME PInv, [Next]_vars, ~stop'
  PROVE  UNCHANGED <<sup, cleanup>> \/ (SupervisorStep /\ ~SupervisorCancelled)
<1>1. ASSUME NEW h \in Handles, HandleStep(h)
      PROVE  UNCHANGED <<sup, cleanup>>
  BY <1>1
  DEF HandleStep, JoinResumes, JoinRaises, LeaveStarts, LeaveAnswered, LeaveFinishes,
      RecoverTries, RecoverRejoins, RecoverResumes, RecoverCancelled, LoseStarts,
      LoseReports, loop
<1>2. ASSUME \/ \E o \in ops : SendStep(o) \/ SendReturns(o)
             \/ \E o \in Timers : Expire(o)
             \/ CloseSendSession \/ RoutingStep \/ NetworkStep \/ UserStep
             \/ UNCHANGED vars
      PROVE  UNCHANGED <<sup, cleanup>>
  BY <1>2
  DEF SendStep, SendReturns, Submit, SendFails, SendCancelled, Expire, CloseSendSession,
      RoutingStep, Route, RoutingEnds, RoutingStopped, NetworkStep, EndMembership, Drop,
      RoutingBreaks, ConnectFails, UserStep, Join, Leave, JoinCancelled, RequestStop,
      vars, loop
<1>3. ASSUME ShutdownStep \/ SupervisorCancelled
      PROVE  stop
  BY <1>3
  DEF ShutdownStep, ShutdownCleansUp, ShutdownUnsubscribes, ShutdownCancelsLifecycle,
      ShutdownEnds, SupervisorCancelled, PInv, Phases
<1>4. ~stop
  BY StopIsFinal
<1> QED
  BY <1>1, <1>2, <1>3, <1>4 DEF Next

-----------------------------------------------------------------------------
(* What tends to a channel leaves it tended *)

\* A client that is connected and not stopped is in a session.
LEMMA InSession ==
  ASSUME PInv, Session, IsConnected, ~stop
  PROVE  sup.pc \in Active /\ conn = gen /\ gen # 0 /\ cleanup.pc = "idle"
<1>1. conn # 0 /\ sup.pc \in {"connecting", "rejoining", "stopping", "joining", "losing",
                              "serving", "cleanup", "dying", "ended", "exited"}
  BY DEF IsConnected, PInv, IInv, OthersOK
<1> QED
  BY <1>1 DEF Session, Active

\* What is known of a channel.
LEMMA TendedFacts ==
  ASSUME TInv, NEW h \in Handles
  PROVE  /\ IInv /\ PInv /\ Session /\ Tidy
         /\ ch[h] \in SoundChannel /\ ch[h].out \in JoinOutcomes /\ stop \in BOOLEAN
         /\ ch[h].leave # "none" => ch[h].state = "left"
         /\ ch[h].state \in {"joining", "joined", "rejoining"} => IsRegistered(h)
         /\ stop /\ IsRegistered(h) => ch[h].state = "left"
         /\ ch[h].conn \in Nat /\ conn \in Nat /\ gen \in Nat /\ ch[h].conn <= gen
         /\ Tended(h)
<1>1. IInv /\ PInv /\ Session /\ Tidy /\ Stopped /\ ConnsUsed /\ Tended(h)
  BY DEF TInv, ServerInv, PInv
<1>2. ch[h] \in SoundChannel /\ stop \in BOOLEAN
  BY <1>1, HandleFacts
<1>3. ch[h].conn \in Nat /\ conn \in Nat /\ gen \in Nat /\ ch[h].conn <= gen
  BY <1>1, RefFacts DEF ConnsUsed
<1>4. ch[h].out \in JoinOutcomes
  BY <1>2 DEF SoundChannel, Channel
<1> QED
  BY <1>1, <1>2, <1>3, <1>4 DEF Tidy, Stopped, IInv, SingleOwner

\* A recovery in a session was started in it.
LEMMA RecoveringHere ==
  ASSUME TInv, NEW h \in Handles, ch[h].rec # "none", ch[h].leave = "none", ~stop,
         IsConnected
  PROVE  ch[h].recConn = gen /\ ~ch[h].recCancel
<1>1. RecoveredHere(h) /\ cleanup.pc = "idle"
  BY TendedFacts, InSession DEF Tended
<1> QED
  BY <1>1 DEF RecoveredHere

\* From c to d a recovery is started; and the condition for it.
Started(c, d) ==
  /\ c.rec = "none" /\ ~stop /\ IsConnected /\ c.established
  /\ d.rec = "delay" /\ d.recConn = gen /\ ~d.recCancel

Startable(c, h) ==
  /\ c.rec = "none" /\ ~stop /\ IsConnected /\ IsRegistered(h)
  /\ c.established /\ c.state # "left"

\* The start of a recovery, field by field.
LEMMA StartRecoveryFields ==
  ASSUME NEW h, NEW c \in SoundChannel, NEW immediate \in BOOLEAN
  PROVE  LET d == StartRecovery(c, h, immediate)
         IN  /\ SameFate(c, d) /\ SameOutcome(c, d)
             /\ d.established = c.established /\ d.conn = c.conn /\ d.cleaned = c.cleaned
             /\ d = c \/ Started(c, d)
             /\ Startable(c, h) /\ (immediate = TRUE \/ c.conn = gen) => Started(c, d)
<1> DEFINE started == [c EXCEPT !.rec = "delay", !.recConn = gen, !.recCancel = FALSE]
<1>1. /\ SameFate(c, started) /\ SameOutcome(c, started)
      /\ started.established = c.established /\ started.conn = c.conn
      /\ started.cleaned = c.cleaned
      /\ started.rec = "delay" /\ started.recConn = gen /\ ~started.recCancel
  BY DEF SoundChannel, Channel, SameFate, SameOutcome
<1>2. SameFate(c, c) /\ SameOutcome(c, c)
  BY DEF SameFate, SameOutcome
<1>3. StartRecovery(c, h, immediate) =
        IF /\ c.rec = "none"
           /\ ~stop /\ IsConnected
           /\ IsRegistered(h) /\ c.established /\ c.state # "left"
           /\ immediate \/ c.conn = gen
        THEN started ELSE c
  BY DEF StartRecovery
<1> HIDE DEF started
<1> QED
  BY <1>1, <1>2, <1>3 DEF Started, Startable

\* A channel that is failed before its rejoin.
LEMMA BeforeRejoinFields ==
  ASSUME NEW c \in SoundChannel, stop \in BOOLEAN, ~stop, c.established, c.state # "left",
         c.state # "joined" => ~JoinReady(c)
  PROVE  LET d == BeforeRejoin(c)
         IN  /\ SameAttempt(c, d) /\ d.leave = c.leave /\ d.loseStart = c.loseStart
             /\ d.state # "left" /\ d.state # "joined" /\ ~JoinReady(d)
             /\ d.out = "pending" => c.out = "pending"
<1> DEFINE f == Failed(c, "transport", "socket", stop)
<1>1. stop \in BOOLEAN /\ "transport" \in ChannelCauses
  BY DEF ChannelCauses
<1>2. /\ SameAttempt(c, f) /\ FailedOutcome(c, f, "socket")
      /\ f.state = StateAfter(c, "transport", stop)
      /\ f.leave = c.leave /\ f.loseStart = c.loseStart
  BY <1>1, FailedFields
<1>3. StateAfter(c, "transport", stop) = "rejoining"
  BY DEF StateAfter, RecoverableCauses
<1>4. BeforeRejoin(c) = IF c.state = "joined" THEN f ELSE c
  BY DEF BeforeRejoin
<1> HIDE DEF f
<1>5. CASE c.state = "joined"
  BY <1>2, <1>3, <1>4, <1>5 DEF FailedOutcome, JoinReady
<1>6. CASE c.state # "joined"
  BY <1>4, <1>6 DEF SameAttempt
<1> QED
  BY <1>5, <1>6
\* From c to d a recovery of this session is started, or it goes on, or there is none.
Recovers(c, d) ==
  \/ d.rec = "none"
  \/ c.rec # "none" /\ d.recConn = c.recConn /\ d.recCancel = c.recCancel
  \/ d.recConn = gen /\ ~d.recCancel /\ IsConnected /\ ~stop

\* The record of a channel, and the name it keeps.
Lawful(h, c, d) ==
  /\ d.state = "rejoining" => d.established
  /\ d.state # "joined" => ~JoinReady(d)
  /\ d.rec # "none" => d.established
  /\ d.cleaned => c.cleaned \/ d.leave # "none"
  /\ c.leave # "none" => d.leave # "none"
  /\ d.established => d.conn # 0 /\ (d.leave = "none" => IsRegistered(h))
  /\ Recovers(c, d)

\* Nothing is lost from sight by a step that tends a channel.
WellTended(h) ==
  /\ Lawful(h, ch[h], ch'[h])
  /\ Covered(h)' /\ Awaited(h)' /\ Reported(h)'

\* A step that leaves the channel alone, but for the end of a recovery that awaits
\* no attempt.
SameStanding(c, d) ==
  /\ d.established = c.established /\ d.conn = c.conn /\ d.cleaned = c.cleaned
  /\ d.state = c.state /\ d.cause = c.cause /\ d.leave = c.leave
  /\ d.out = c.out /\ d.loseStart = c.loseStart
  /\ JoinReady(d) => JoinReady(c)

LEMMA QuietTends ==
  ASSUME TInv, NEW h \in Handles, SameStanding(ch[h], ch'[h]),
         \/ ch'[h].rec = "none" /\ ch[h].rec # "waiting"
         \/ /\ ch'[h].rec = ch[h].rec /\ ch'[h].recConn = ch[h].recConn
            /\ ch'[h].recCancel = ch[h].recCancel,
         UNCHANGED <<conn, stop>>,
         Joining(h) => Joining(h)' \/ ch[h].out = "ok"
  PROVE  Lawful(h, ch[h], ch'[h]) /\ Awaited(h)' /\ Reported(h)'
<1> DEFINE c == ch[h]
           d == ch'[h]
<1>1. Shaped(h) /\ Rooted(h) /\ Awaited(h) /\ Reported(h)
  BY TendedFacts DEF Tended
<1>2. Lawful(h, c, d)
  BY <1>1 DEF Lawful, Recovers, Shaped, Rooted, SameStanding
<1>3. Awaited(h)'
  BY <1>1 DEF Awaited, SameStanding
<1>4. Reported(h)'
  BY <1>1 DEF Reported, GoneHere, SameStanding
<1> QED
  BY <1>2, <1>3, <1>4

\* The recovery whose delay is over.
LEMMA RecoverTriesTends ==
  ASSUME TInv, NEW h \in Handles, RecoverTries(h), Tidy'
  PROVE  WellTended(h)
<1> DEFINE c == ch[h]
           b == BeforeRejoin(ch[h])
           d == ch'[h]
<1>1. /\ IInv /\ c \in SoundChannel /\ stop \in BOOLEAN /\ Tended(h)
      /\ c.leave # "none" => c.state = "left"
      /\ c.state \in {"joining", "joined", "rejoining"} => IsRegistered(h)
      /\ d.leave # "none" => d.state = "left"
  BY TendedFacts DEF Tidy
<1>2. c.rec = "delay" /\ UNCHANGED <<sup, conn, gen, cstate, stop, routing, registry>>
  BY DEF RecoverTries, loop, client
<1>3. d = IF CanRecover(h, c.recConn) THEN [b EXCEPT !.rec = "stopping"]
          ELSE [c EXCEPT !.rec = "none"]
  BY <1>1, HandleFacts DEF RecoverTries
<1>4. CASE CanRecover(h, c.recConn)
  <2>1. ~stop /\ c.established /\ c.state # "left" /\ c.leave = "none" /\ IsRegistered(h)
    BY <1>1, <1>4 DEF CanRecover, ShouldRejoin
  <2>2. c.state # "joined" => ~JoinReady(c)
    BY <1>1 DEF Tended, Shaped
  <2>3. /\ SameAttempt(c, b) /\ b.leave = c.leave /\ b.loseStart = c.loseStart
        /\ b.state # "left" /\ b.state # "joined" /\ ~JoinReady(b)
        /\ b.out = "pending" => c.out = "pending"
    BY <1>1, <2>1, <2>2, BeforeRejoinFields
  <2>4. b \in SoundChannel
    BY <1>1, BeforeRejoinKeeps
  <2> HIDE DEF b
  <2>5. /\ d.established = b.established /\ d.conn = b.conn /\ d.cleaned = b.cleaned
        /\ d.recConn = b.recConn /\ d.recCancel = b.recCancel /\ d.rec = "stopping"
        /\ d.state = b.state /\ d.leave = b.leave /\ d.out = b.out
        /\ JoinReady(d) => JoinReady(b)
    BY <1>3, <1>4, <2>4 DEF SoundChannel, Channel, JoinReady
  <2> HIDE DEF c, d
  <2>6. c.conn # 0
    BY <1>1, <2>1 DEF Tended, Rooted, c
  <2>7. Lawful(h, c, d)
    BY <1>2, <2>1, <2>3, <2>5, <2>6 DEF Lawful, Recovers, SameAttempt
  <2>8. Covered(h)' /\ Reported(h)'
    BY <2>3, <2>5 DEF Covered, Reported, GoneHere, d
  <2>9. Awaited(h)'
    <3>1. d.out = "pending" => Joining(h)
      BY <1>1, <1>2, <2>1, <2>3, <2>5 DEF Tended, Awaited, c
    <3> QED
      BY <1>2, <3>1 DEF Awaited, Joining, d
  <2> QED
    BY <2>7, <2>8, <2>9 DEF WellTended, c, d
<1>5. CASE ~CanRecover(h, c.recConn)
  <2>1. d.rec = "none" /\ SameStanding(c, d)
    BY <1>1, <1>3, <1>5 DEF SoundChannel, Channel, JoinReady, SameStanding
  <2>2. Lawful(h, c, d) /\ Awaited(h)' /\ Reported(h)'
    BY <1>2, <2>1, QuietTends DEF Joining
  <2>3. Covered(h)'
    <3>1. SUFFICES ASSUME Running', d.state = "rejoining"
                   PROVE  FALSE
      BY DEF Covered
    <3>2. Running
      BY <1>2, <3>1 DEF Running, IsConnected
    <3>3. c.state = "rejoining" /\ c.leave = "none" /\ IsRegistered(h) /\ c.established
      BY <1>1, <2>1, <3>1 DEF Tended, Shaped, SameStanding
    <3>4. c.recConn = gen
      BY <1>2, <3>2, <3>3, RecoveringHere DEF Running
    <3> QED
      BY <1>5, <3>2, <3>3, <3>4 DEF CanRecover, ShouldRejoin, Running
  <2> QED
    BY <2>2, <2>3 DEF WellTended
<1> QED
  BY <1>4, <1>5
\* A rejoin on the current connection: what awaits its attempt is given.
LEMMA RestartTends ==
  ASSUME TInv, NEW h \in Handles, ShouldRejoin(h), refs + 1 \in Refs,
         NEW c \in {Restart(ch[h], conn, refs + 1),
                    [Restart(ch[h], conn, refs + 1) EXCEPT !.rec = "waiting"]},
         NEW ok, StartJoin(h, c, ok), conn # 0,
         c.rec = "waiting" \/ Joining(h)',
         ch[h].rec # "none" \/ c.rec = "none"
  PROVE  WellTended(h)
<1> DEFINE d == ch'[h]
<1>1. /\ IInv /\ ch[h] \in SoundChannel /\ ch[h].leave = "none" /\ IsRegistered(h)
      /\ ch[h].cleaned => ch[h].leave # "none"
  BY TendedFacts DEF ShouldRejoin, Tended, Shaped
<1>2. /\ Begins(ch[h], d) /\ d.established /\ ~JoinReady(d)
      /\ d.rec = c.rec /\ d.recConn = ch[h].recConn /\ d.recCancel = ch[h].recCancel
      /\ d.cleaned = ch[h].cleaned
      /\ \/ d.state = "rejoining" /\ d.out = "pending"
         \/ d.state = "left" /\ d.cause = "configuration" /\ d.out = "channel"
  BY <1>1, RestartBegins
<1>3. d.conn = conn /\ d.leave = "none"
  BY <1>1, <1>2 DEF Begins
<1> HIDE DEF d
<1>4. Lawful(h, ch[h], d)
  BY <1>1, <1>2, <1>3 DEF Lawful, Recovers
<1>5. Covered(h)' /\ Awaited(h)'
  BY <1>2 DEF Covered, Awaited, d
<1>6. Reported(h)'
  BY <1>2 DEF Reported, GoneHere, d
<1> QED
  BY <1>4, <1>5, <1>6 DEF WellTended, d

\* The recovery that restarts its channel.
LEMMA RecoverRejoinsTends ==
  ASSUME TInv, NEW h \in Handles, NEW ok \in ParamsResults, RecoverRejoins(h, ok)
  PROVE  WellTended(h)
<1> DEFINE c == ch[h]
           d == ch'[h]
<1>1. /\ IInv /\ Session /\ c \in SoundChannel /\ DOMAIN ch = Handles /\ Tended(h)
      /\ c.leave # "none" => c.state = "left"
      /\ c.state \in {"joining", "joined", "rejoining"} => IsRegistered(h)
      /\ stop /\ IsRegistered(h) => c.state = "left"
  BY TendedFacts, HandleFacts
<1>2. /\ c.rec = "stopping" /\ ~c.recCancel
      /\ UNCHANGED <<sup, conn, gen, cstate, stop, routing, registry>>
  BY DEF RecoverRejoins, loop, client
<1>3. CASE ShouldRejoin(h)
  <2>1. /\ refs + 1 \in Refs
        /\ StartJoin(h, [Restart(ch[h], conn, refs + 1) EXCEPT !.rec = "waiting"], ok)
    BY <1>1, <1>3, NextJoinRef DEF RecoverRejoins
  <2>2. conn # 0
    <3>1. ~stop /\ c.leave = "none"
      BY <1>1, <1>3 DEF ShouldRejoin
    <3>2. sup.pc \in Active
      BY <1>1, <1>2, <3>1 DEF Tended, RecoveredHere
    <3> QED
      BY <1>1, <3>2 DEF Session
  <2>3. /\ Restart(c, conn, refs + 1) \in SoundChannel /\ conn \in Conns
    BY <1>1, <2>1, RestartSound DEF IInv, OthersOK
  <2>4. [Restart(c, conn, refs + 1) EXCEPT !.rec = "waiting"].rec = "waiting"
    BY <2>3 DEF SoundChannel, Channel
  <2> QED
    BY <1>2, <1>3, <2>1, <2>2, <2>4, RestartTends
<1>4. CASE ~ShouldRejoin(h)
  <2>1. d = [c EXCEPT !.rec = "none"]
    BY <1>1, <1>4 DEF RecoverRejoins
  <2>2. d.rec = "none" /\ SameStanding(c, d)
    BY <1>1, <2>1 DEF SoundChannel, Channel, JoinReady, SameStanding
  <2>3. Lawful(h, c, d) /\ Awaited(h)' /\ Reported(h)'
    BY <1>2, <2>2, QuietTends DEF Joining
  <2>4. Covered(h)'
    BY <1>1, <1>4, <2>2 DEF Covered, SameStanding, ShouldRejoin, Tended, Shaped
  <2> QED
    BY <2>3, <2>4 DEF WellTended
<1> QED
  BY <1>3, <1>4

\* The rejoin that the supervisor restarts.
LEMMA RejoinRestartsTends ==
  ASSUME TInv, NEW h \in Handles, sup.cur = h, NEW ok \in ParamsResults, RejoinRestarts(ok)
  PROVE  WellTended(h)
<1>1. /\ sup.pc = "stopping"
      /\ UNCHANGED <<conn, gen, cstate, stop, routing, registry>>
  BY DEF RejoinRestarts, client
<1>2. /\ IInv /\ Session /\ ch[h] \in SoundChannel /\ Tended(h)
      /\ ch[h].leave # "none" => ch[h].state = "left"
      /\ ch[h].state \in {"joining", "joined", "rejoining"} => IsRegistered(h)
      /\ stop /\ IsRegistered(h) => ch[h].state = "left"
  BY <1>1, TendedFacts
<1>3. CASE ShouldRejoin(h)
  <2>1. /\ refs + 1 \in Refs /\ sup' = [sup EXCEPT !.pc = "joining"]
        /\ StartJoin(h, Restart(ch[h], conn, refs + 1), ok)
    BY <1>2, <1>3, NextJoinRef DEF RejoinRestarts
  <2>2. Joining(h)' /\ conn # 0
    BY <1>1, <1>2, <2>1 DEF Joining, Session, Active, IInv, OthersOK
  <2>3. Restart(ch[h], conn, refs + 1).rec = ch[h].rec
    BY <1>2, <2>1, RestartFields DEF IInv, OthersOK
  <2> QED
    BY <1>1, <1>3, <2>1, <2>2, <2>3, RestartTends
<1>4. CASE ~ShouldRejoin(h)
  <2>1. ch' = ch
    BY <1>4 DEF RejoinRestarts
  <2>2. SameStanding(ch[h], ch'[h]) /\ ~Joining(h)
    BY <1>1, <2>1 DEF SameStanding, Joining
  <2>3. Lawful(h, ch[h], ch'[h]) /\ Awaited(h)' /\ Reported(h)'
    BY <1>1, <2>1, <2>2, QuietTends
  <2>4. Covered(h)'
    BY <1>2, <1>4, <2>1 DEF Covered, ShouldRejoin, Tended, Shaped
  <2> QED
    BY <1>1, <2>3, <2>4 DEF WellTended
<1> QED
  BY <1>3, <1>4
\* The recovery whose attempt is settled.
LEMMA RecoverResumesTends ==
  ASSUME TInv, NEW h \in Handles, RecoverResumes(h)
  PROVE  WellTended(h)
<1> DEFINE c == ch[h]
           b == JoinFailure(ch[h], stop)
           e == StartTopicLoss(b, stop)
           d == ch'[h]
<1>1. /\ IInv /\ c \in SoundChannel /\ stop \in BOOLEAN /\ DOMAIN ch = Handles
      /\ Shaped(h) /\ Rooted(h) /\ Reported(h)
      /\ c.leave # "none" => c.state = "left"
      /\ c.state \in {"joining", "joined", "rejoining"} => IsRegistered(h)
  BY TendedFacts, HandleFacts DEF Tended
<1>2. /\ c.rec = "waiting" /\ c.out # "pending"
      /\ UNCHANGED <<sup, conn, gen, cstate, stop, routing, registry>>
  BY DEF RecoverResumes, loop, client
<1>3. d = IF JoinReady(b) THEN [b EXCEPT !.rec = "none"]
          ELSE IF b.out # "ok" /\ b.cause \in PermanentCauses
          THEN [e EXCEPT !.rec = "none"]
          ELSE TryAgain(h, b)
  BY <1>1 DEF RecoverResumes
<1>4. c.established /\ c.conn # 0 /\ (c.leave = "none" => IsRegistered(h))
  BY <1>1, <1>2 DEF Shaped, Rooted
<1>5. b \in SoundChannel /\ (b.state \in Live => c.state \in Live)
  BY <1>1, JoinFailureKeeps DEF Keeps
<1>6. \/ b = c
      \/ /\ SameAttempt(c, b) /\ b.out = c.out /\ b.leave = c.leave
         /\ b.voided /\ b.loseStart = c.loseStart
         /\ \/ b.cause = "configuration" /\ b.state = "left" /\ c.out = "channel"
            \/ b.cause = "timeout" /\ b.state \in {"rejoining", "left"}
  BY <1>1, <1>2, JoinFailureFields
<1>7. /\ SameAttempt(c, b) /\ b.leave = c.leave /\ b.out = c.out
      /\ b.state # "joined" => ~JoinReady(b)
      /\ JoinReady(b) => b = c
  BY <1>1, <1>6 DEF SameAttempt, JoinReady, Shaped
<1>8. /\ e \in SoundChannel
      /\ SameAttempt(b, e) /\ e.state = "left" /\ e.leave = b.leave
      /\ e.loseStart = b.loseStart + 1 /\ b.loseStart \in Nat
      /\ b.state = "left" => SameOutcome(b, e)
      /\ b.state # "left" => FailedOutcome(b, e, "channel")
  <2>1. b.established /\ b.loseStart \in Nat
    BY <1>4, <1>5, <1>7 DEF SameAttempt, SoundChannel, Channel
  <2> HIDE DEF b
  <2>2. /\ e \in SoundChannel /\ SameAttempt(b, e) /\ e.state = "left"
        /\ b.established => e.leave = b.leave /\ e.loseStart = b.loseStart + 1
        /\ b.state = "left" => SameOutcome(b, e)
        /\ b.state # "left" => FailedOutcome(b, e, "channel")
    BY <1>1, <1>5, StartTopicLossFields, StartTopicLossKeeps
  <2> QED
    BY <2>1, <2>2
<1> HIDE DEF b
<1>9. CASE JoinReady(b)
  <2>1. d.rec = "none" /\ c.out = "ok" /\ SameStanding(c, d)
    BY <1>1, <1>3, <1>7, <1>9 DEF SoundChannel, Channel, JoinReady, SameStanding
  <2>2. c.state = "joined"
    BY <1>1, <1>7, <1>9 DEF Shaped
  <2> HIDE DEF d
  <2>3. Lawful(h, c, d)
    BY <1>1, <2>1 DEF Lawful, Recovers, Shaped, Rooted, SameStanding
  <2>4. Covered(h)' /\ Awaited(h)' /\ Reported(h)'
    BY <2>1, <2>2 DEF Covered, Awaited, Reported, GoneHere, SameStanding, d
  <2> QED
    BY <2>3, <2>4 DEF WellTended, d
<1>10. CASE ~JoinReady(b) /\ b.out # "ok" /\ b.cause \in PermanentCauses
  <2>1. /\ d.established = e.established /\ d.conn = e.conn /\ d.cleaned = e.cleaned
        /\ d.rec = "none" /\ d.state = "left" /\ d.leave = e.leave /\ d.out = e.out
        /\ d.loseStart = e.loseStart
        /\ JoinReady(d) => JoinReady(e)
    BY <1>3, <1>8, <1>10 DEF SoundChannel, Channel, JoinReady
  <2> HIDE DEF d, e
  <2>2. ~JoinReady(e) /\ e.out # "pending"
    BY <1>2, <1>7, <1>8, <1>10 DEF JoinReady, SameOutcome, FailedOutcome
  <2>3. Lawful(h, c, d)
    BY <1>1, <1>4, <1>7, <1>8, <2>1, <2>2 DEF Lawful, Recovers, Shaped, SameAttempt
  <2>4. d.loseStart > 0
    BY <1>8, <2>1
  <2>5. Covered(h)' /\ Awaited(h)' /\ Reported(h)'
    BY <2>1, <2>2, <2>4 DEF Covered, Awaited, Reported, d
  <2> QED
    BY <2>3, <2>5 DEF WellTended, d
<1>11. CASE ~JoinReady(b) /\ ~(b.out # "ok" /\ b.cause \in PermanentCauses)
  <2> DEFINE again == /\ ~stop /\ IsConnected /\ b.recConn = gen
                      /\ IsRegistered(h) /\ b.established /\ b.state # "left"
  <2>1. d = [b EXCEPT !.rec = IF again THEN "delay" ELSE "none"]
    BY <1>3, <1>11 DEF TryAgain
  <2> HIDE DEF again
  <2>2. /\ d.established = b.established /\ d.conn = b.conn /\ d.cleaned = b.cleaned
        /\ d.rec = IF again THEN "delay" ELSE "none"
        /\ d.recConn = b.recConn /\ d.recCancel = b.recCancel
        /\ d.state = b.state /\ d.leave = b.leave /\ d.out = b.out /\ d.cause = b.cause
        /\ d.loseStart = b.loseStart
        /\ JoinReady(d) => JoinReady(b)
    BY <1>5, <2>1 DEF SoundChannel, Channel, JoinReady
  <2> HIDE DEF d
  <2>3. Lawful(h, c, d)
    BY <1>1, <1>2, <1>4, <1>7, <1>11, <2>2 DEF Lawful, Recovers, Shaped, SameAttempt
  <2>4. Covered(h)'
    <3>1. SUFFICES ASSUME Running', d.state = "rejoining"
                   PROVE  again
      BY <2>2 DEF Covered, d
    <3>2. ~stop /\ IsConnected
      BY <1>2, <3>1 DEF Running, IsConnected
    <3>3. b.state # "left" /\ c.leave = "none" /\ b.established
      BY <1>1, <1>4, <1>5, <1>7, <2>2, <3>1 DEF Live, SameAttempt
    <3>4. b.recConn = gen
      BY <1>2, <1>7, <3>2, <3>3, RecoveringHere DEF SameAttempt
    <3> QED
      BY <1>4, <3>2, <3>3, <3>4 DEF again
  <2>5. Awaited(h)'
    BY <1>2, <1>7, <2>2 DEF Awaited, d
  <2>6. Reported(h)'
    <3>1. SUFFICES ASSUME GoneHere(h)'
                   PROVE  d.loseStart > 0
      BY DEF Reported, d
    <3>2. /\ d.state = "left" /\ d.leave = "none" /\ d.conn = conn /\ ~stop
          /\ d.cause \in PermanentCauses \cup {"close"}
      BY <1>2, <3>1 DEF GoneHere, d
    <3>3. b = c
      BY <1>6, <1>7, <1>11, <2>2, <3>2 DEF PermanentCauses
    <3>4. GoneHere(h) /\ (c.cause # "close" => c.out = "ok")
      BY <1>4, <1>11, <2>2, <3>2, <3>3 DEF GoneHere
    <3> QED
      BY <1>1, <2>2, <3>3, <3>4 DEF Reported
  <2> QED
    BY <2>3, <2>4, <2>5, <2>6 DEF WellTended, d
<1> QED
  BY <1>9, <1>10, <1>11

\* The recovery that is cancelled.
LEMMA RecoverCancelledTends ==
  ASSUME TInv, NEW h \in Handles, RecoverCancelled(h)
  PROVE  WellTended(h)
<1> DEFINE c == ch[h]
           d == ch'[h]
           s == CancelJoin(ch[h])
<1>1. /\ IInv /\ c \in SoundChannel /\ Tended(h) /\ DOMAIN ch = Handles
      /\ c.leave # "none" => c.state = "left"
  BY TendedFacts, HandleFacts
<1>2. /\ c.rec # "none" /\ c.recCancel
      /\ UNCHANGED <<sup, conn, gen, cstate, stop, routing, registry>>
  BY DEF RecoverCancelled, loop, client
<1>3. /\ s \in SoundChannel /\ SameAttempt(c, s) /\ SameFate(c, s) /\ s.voided = c.voided
      /\ s.out = IF c.out = "pending" THEN "cancelled" ELSE c.out
  BY <1>1, SettleJoinFields, CancelJoinKeeps DEF CancelJoin
<1>4. d = IF c.rec = "waiting" THEN [s EXCEPT !.rec = "none"] ELSE [c EXCEPT !.rec = "none"]
  BY <1>1 DEF RecoverCancelled
<1> HIDE DEF s
<1>5. /\ d.established = c.established /\ d.conn = c.conn /\ d.cleaned = c.cleaned
      /\ d.state = c.state /\ d.leave = c.leave /\ d.rec = "none"
      /\ JoinReady(d) => JoinReady(c)
      /\ d.out = "pending" => c.out = "pending" /\ c.rec # "waiting"
  <2>1. CASE c.rec = "waiting"
    BY <1>3, <1>4, <2>1 DEF SoundChannel, Channel, SameAttempt, SameFate, JoinReady
  <2>2. CASE c.rec # "waiting"
    BY <1>1, <1>4, <2>2 DEF SoundChannel, Channel, JoinReady
  <2> QED
    BY <2>1, <2>2
<1> HIDE DEF d
<1>6. c.leave = "none" /\ ~stop => conn = 0 /\ ~IsConnected
  BY <1>1, <1>2, TendedFacts DEF Tended, RecoveredHere, Session, Active, IsConnected
<1>7. Lawful(h, c, d)
  BY <1>1, <1>5 DEF Lawful, Recovers, Tended, Shaped, Rooted
<1>8. Covered(h)'
  <2>1. SUFFICES ASSUME Running', d.state = "rejoining"
                 PROVE  FALSE
    BY DEF Covered, d
  <2> QED
    BY <1>1, <1>2, <1>5, <1>6, <2>1 DEF Running, IsConnected
<1>9. Awaited(h)'
  <2>1. d.established /\ d.out = "pending" => Joining(h)
    BY <1>1, <1>5 DEF Tended, Awaited
  <2> QED
    BY <1>2, <2>1 DEF Awaited, Joining, d
<1>10. Reported(h)'
  <2>1. ~GoneHere(h)'
    BY <1>1, <1>2, <1>5, <1>6 DEF GoneHere, Tended, Rooted, d
  <2> QED
    BY <2>1 DEF Reported
<1> QED
  BY <1>7, <1>8, <1>9, <1>10 DEF WellTended, d

\* The task of a loss that starts.
LEMMA LoseStartsTends ==
  ASSUME TInv, NEW h \in Handles, LoseStarts(h), Tidy'
  PROVE  WellTended(h)
<1> DEFINE c == ch[h]
           b == [ch[h] EXCEPT !.loseStart = @ - 1]
           e == StartLeave(b, stop)
           d == ch'[h]
<1>1. /\ IInv /\ c \in SoundChannel /\ stop \in BOOLEAN /\ Tended(h) /\ DOMAIN ch = Handles
      /\ c.leave # "none" => c.state = "left"
      /\ d.leave # "none" => d.state = "left"
  BY TendedFacts, HandleFacts DEF Tidy
<1>2. /\ UNCHANGED <<sup, conn, gen, cstate, stop, routing, registry>>
      /\ c.loseStart > 0 /\ c.loseStart \in Nat
  BY <1>1 DEF LoseStarts, loop, client, SoundChannel, Channel
<1>3. d = IF IsRegistered(h) THEN [e EXCEPT !.loseWait = @ + 1] ELSE b
  BY <1>1 DEF LoseStarts
<1>4. b \in SoundChannel
  <2>1. c.loseStart - 1 \in Nat
    BY <1>2
  <2> QED
    BY <1>1, <2>1, LoseStartKeeps
<1>5. /\ b.established = c.established /\ b.conn = c.conn /\ b.cleaned = c.cleaned
      /\ b.rec = c.rec /\ b.recConn = c.recConn /\ b.recCancel = c.recCancel
      /\ b.state = c.state /\ b.leave = c.leave /\ b.out = c.out
      /\ JoinReady(b) => JoinReady(c)
  BY <1>1 DEF SoundChannel, Channel, JoinReady
<1> HIDE DEF b
<1>6. /\ e \in SoundChannel /\ SameAttempt(b, e) /\ e.leave # "none"
      /\ e.out = "pending" => b.out = "pending"
      /\ JoinReady(e) => JoinReady(b) /\ b.state = "left"
  <2>1. /\ e \in SoundChannel /\ SameAttempt(b, e)
        /\ e.leave = IF b.leave = "none" THEN "start" ELSE b.leave
        /\ b.leave # "none" => e = b
        /\ b.leave = "none" /\ b.state # "left" => FailedOutcome(b, e, "channel")
        /\ b.state = "left" => SameOutcome(b, e) /\ e.state = "left"
    BY <1>1, <1>4, StartLeaveFields, StartLeaveKeeps
  <2> HIDE DEF e
  <2> QED
    BY <1>1, <1>5, <2>1 DEF FailedOutcome, SameOutcome, JoinReady
<1> HIDE DEF e
<1>7. CASE IsRegistered(h)
  <2>1. /\ d.established = e.established /\ d.conn = e.conn /\ d.cleaned = e.cleaned
        /\ d.rec = e.rec /\ d.recConn = e.recConn /\ d.recCancel = e.recCancel
        /\ d.state = e.state /\ d.leave = e.leave /\ d.out = e.out
        /\ JoinReady(d) => JoinReady(e)
    BY <1>3, <1>6, <1>7 DEF SoundChannel, Channel, JoinReady
  <2> HIDE DEF d, c
  <2>2. d.state = "left"
    BY <1>1, <1>6, <2>1
  <2>3. ~JoinReady(d)
    BY <1>1, <1>5, <1>6, <2>1, <2>2 DEF Tended, Shaped, c
  <2>4. c.rec # "none" => c.established
    BY <1>1 DEF Tended, Shaped, c
  <2>5. c.established => c.conn # 0
    BY <1>1 DEF Tended, Rooted, c
  <2>6. Lawful(h, c, d)
    BY <1>5, <1>6, <2>1, <2>2, <2>3, <2>4, <2>5 DEF Lawful, Recovers, SameAttempt
  <2>7. Covered(h)' /\ Reported(h)'
    BY <1>6, <2>1, <2>2 DEF Covered, Reported, GoneHere, d
  <2>8. Awaited(h)'
    <3>1. d.established /\ d.out = "pending" => d.rec = "waiting" \/ Joining(h)
      BY <1>1, <1>5, <1>6, <2>1 DEF Tended, Awaited, SameAttempt, c
    <3> QED
      BY <1>2, <3>1 DEF Awaited, Joining, d
  <2> QED
    BY <2>6, <2>7, <2>8 DEF WellTended, c, d
<1>8. CASE ~IsRegistered(h)
  <2>1. d = b
    BY <1>3, <1>8
  <2>2. c.established => c.leave # "none"
    BY <1>1, <1>8 DEF Tended, Rooted
  <2> HIDE DEF d
  <2>3. Lawful(h, c, d)
    BY <1>1, <1>5, <2>1 DEF Lawful, Recovers, Tended, Shaped, Rooted
  <2>4. Covered(h)' /\ Reported(h)'
    BY <1>1, <1>5, <2>1, <2>2 DEF Covered, Reported, GoneHere, Tended, Shaped, d
  <2>5. Awaited(h)'
    <3>1. d.established /\ d.out = "pending" => d.rec = "waiting" \/ Joining(h)
      BY <1>1, <1>5, <2>1 DEF Tended, Awaited
    <3> QED
      BY <1>2, <3>1 DEF Awaited, Joining, d
  <2> QED
    BY <2>3, <2>4, <2>5 DEF WellTended, d
<1> QED
  BY <1>7, <1>8
\* The first join of a handle.
LEMMA JoinTends ==
  ASSUME TInv, NEW h \in Handles, NEW ok \in ParamsResults, Join(h, ok)
  PROVE  WellTended(h)
<1> DEFINE c == [ch[h] EXCEPT !.state = "joining", !.conn = conn,
                              !.joinRef = refs + 1, !.join = "waiting"]
           d == ch'[h]
<1>1. /\ IInv /\ ch[h] \in SoundChannel /\ Tended(h) /\ ch[h].state = "created"
      /\ ch[h].leave # "none" => ch[h].state = "left"
  BY TendedFacts DEF Join
<1>2. ~ch[h].established /\ ch[h].rec = "none" /\ ~JoinReady(ch[h]) /\ ~ch[h].cleaned
  BY <1>1 DEF SoundChannel, Tended, Shaped
<1>3. c \in SoundChannel
  <2>1. refs + 1 \in Refs /\ conn \in Conns
    BY <1>1, NextJoinRef DEF Join, IInv, OthersOK
  <2> QED
    BY <1>1, <2>1 DEF SoundChannel, Channel, ChannelStates
<1>4. /\ ~c.established /\ c.rec = "none" /\ ~JoinReady(c) /\ ~c.cleaned
      /\ c.leave = "none" /\ c.state = "joining"
  BY <1>1, <1>2 DEF SoundChannel, Channel, JoinReady
<1>5. StartJoin(h, c, ok)
  BY DEF Join
<1> HIDE DEF c
<1>6. /\ SameAttempt(c, d) /\ d.leave = c.leave
      /\ d = c \/ (d.state = "left" /\ FailedOutcome(c, d, "channel"))
  BY <1>1, <1>3, <1>5, StartJoinFields
<1> HIDE DEF d
<1>7. /\ ~d.established /\ d.rec = "none" /\ ~JoinReady(d) /\ ~d.cleaned
      /\ d.state \in {"joining", "left"} /\ d.leave = "none"
  BY <1>4, <1>6 DEF SameAttempt, FailedOutcome, JoinReady
<1>8. Lawful(h, ch[h], d)
  BY <1>1, <1>7 DEF Lawful, Recovers
<1>9. Covered(h)' /\ Awaited(h)' /\ Reported(h)'
  BY <1>7 DEF Covered, Awaited, Reported, GoneHere, d
<1> QED
  BY <1>8, <1>9 DEF WellTended, d

\* The required channel that the supervisor turns to.
LEMMA RejoinNextTends ==
  ASSUME TInv, NEW h \in Handles, RejoinNext(h)
  PROVE  WellTended(h)
<1> DEFINE c == ch[h]
           b == BeforeRejoin(ch[h])
           d == ch'[h]
<1>1. /\ IInv /\ c \in SoundChannel /\ stop \in BOOLEAN /\ Tended(h) /\ DOMAIN ch = Handles
      /\ c.leave # "none" => c.state = "left"
      /\ c.state \in {"joining", "joined", "rejoining"} => IsRegistered(h)
      /\ stop /\ IsRegistered(h) => c.state = "left"
  BY TendedFacts, HandleFacts
<1>2. sup.pc = "rejoining" /\ UNCHANGED <<conn, gen, cstate, stop, routing, registry>>
  BY DEF RejoinNext, client
<1>3. CASE ShouldRejoin(h)
  <2>1. d = b /\ sup' = [sup EXCEPT !.pc = "stopping", !.cur = h, !.todo = @ \ {h}]
    BY <1>1, <1>3 DEF RejoinNext
  <2>2. InLine(h)'
    BY <1>1, <2>1 DEF InLine, IInv, OthersOK
  <2>3. ~stop /\ c.established /\ c.state # "left" /\ c.leave = "none" /\ IsRegistered(h)
    BY <1>1, <1>3 DEF ShouldRejoin
  <2>4. c.state # "joined" => ~JoinReady(c)
    BY <1>1 DEF Tended, Shaped
  <2>5. /\ SameAttempt(c, b) /\ b.leave = c.leave
        /\ b.state # "left" /\ b.state # "joined" /\ ~JoinReady(b)
        /\ b.out = "pending" => c.out = "pending"
    BY <1>1, <2>3, <2>4, BeforeRejoinFields
  <2> HIDE DEF b
  <2>6. Lawful(h, c, d)
    BY <1>1, <2>1, <2>3, <2>5 DEF Lawful, Recovers, SameAttempt, Tended, Rooted
  <2>7. Covered(h)' /\ Reported(h)'
    BY <2>1, <2>2, <2>5 DEF Covered, Reported, GoneHere
  <2>8. Awaited(h)'
    BY <1>1, <1>2, <2>1, <2>5 DEF Awaited, Joining, Tended, SameAttempt
  <2> QED
    BY <2>6, <2>7, <2>8 DEF WellTended
<1>4. CASE ~ShouldRejoin(h)
  <2>1. ch' = ch
    BY <1>4 DEF RejoinNext
  <2>2. SameStanding(ch[h], ch'[h]) /\ ~Joining(h)
    BY <1>2, <2>1 DEF SameStanding, Joining
  <2>3. Lawful(h, ch[h], ch'[h]) /\ Awaited(h)' /\ Reported(h)'
    BY <1>2, <2>1, <2>2, QuietTends
  <2>4. Covered(h)'
    BY <1>1, <1>4, <2>1 DEF Covered, ShouldRejoin, Tended, Shaped
  <2> QED
    BY <2>3, <2>4 DEF WellTended
<1> QED
  BY <1>3, <1>4

\* The optional channels, whose recoveries start.
LEMMA RejoinDoneTends ==
  ASSUME TInv, NEW h \in Handles, RejoinDone
  PROVE  WellTended(h)
<1> DEFINE c == ch[h]
           s == StartRecovery(ch[h], h, TRUE)
           d == ch'[h]
<1>1. /\ IInv /\ c \in SoundChannel /\ stop \in BOOLEAN
      /\ Shaped(h) /\ Rooted(h) /\ Covered(h) /\ Awaited(h) /\ Reported(h)
      /\ c.leave # "none" => c.state = "left"
      /\ c.state \in {"joining", "joined", "rejoining"} => IsRegistered(h)
  BY TendedFacts DEF Tended
<1>2. /\ sup.pc = "rejoining" /\ sup.todo = {} /\ UNCHANGED <<conn, gen, cstate, stop, routing, registry>>
      /\ d = IF h \in sup.optional THEN s ELSE c
  BY DEF RejoinDone, client
<1>3. /\ SameFate(c, s) /\ SameOutcome(c, s)
      /\ s.established = c.established /\ s.conn = c.conn /\ s.cleaned = c.cleaned
      /\ s = c \/ Started(c, s)
      /\ Startable(c, h) => Started(c, s)
  BY <1>1, StartRecoveryFields
<1> HIDE DEF s, d
<1>4. /\ SameFate(c, d) /\ SameOutcome(c, d)
      /\ d.established = c.established /\ d.conn = c.conn /\ d.cleaned = c.cleaned
      /\ d = c \/ Started(c, d)
  BY <1>2, <1>3 DEF SameFate, SameOutcome
<1>5. Covered(h)'
  <2>1. SUFFICES ASSUME Running', d.state = "rejoining"
                 PROVE  d.rec # "none"
    BY DEF Covered, d
  <2>2. Running /\ c.state = "rejoining" /\ c.established /\ IsRegistered(h)
    BY <1>1, <1>2, <1>4, <2>1 DEF Running, IsConnected, SameFate, Shaped
  <2>3. c.rec # "none" \/ h \in sup.optional
    BY <1>1, <1>2, <2>2 DEF Covered, InLine, Joining
  <2> QED
    BY <1>1, <1>2, <1>3, <2>2, <2>3 DEF Running, Started, Startable
<1>6. ~Joining(h)
  BY <1>2 DEF Joining
<1>7. Awaited(h)'
  BY <1>1, <1>4, <1>6 DEF Awaited, SameFate, SameOutcome, Started, d
<1>8. Reported(h)'
  <2>1. SUFFICES ASSUME GoneHere(h)'
                 PROVE  \/ d.loseStart > 0
                        \/ /\ d.cause # "close" /\ d.out \notin {"ok", "pending"}
                           /\ d.rec = "waiting"
    BY DEF Reported, d
  <2>2. GoneHere(h)
    BY <1>2, <1>4, <2>1 DEF GoneHere, SameFate, d
  <2>3. \/ c.loseStart > 0
        \/ c.cause # "close" /\ c.out \notin {"ok", "pending"} /\ c.rec = "waiting"
    BY <1>1, <1>6, <2>2 DEF Reported
  <2>4. CASE c.loseStart > 0
    BY <1>4, <2>4 DEF SameFate
  <2>5. CASE c.cause # "close" /\ c.out \notin {"ok", "pending"} /\ c.rec = "waiting"
    <3>1. d = c
      BY <1>4, <2>5 DEF Started
    <3> QED
      BY <2>5, <3>1
  <2> QED
    BY <2>3, <2>4, <2>5
<1>9. Lawful(h, c, d)
  <2>1. JoinReady(d) => JoinReady(c)
    BY <1>4 DEF SameOutcome, JoinReady
  <2> QED
    BY <1>1, <1>4, <2>1 DEF Lawful, Recovers, SameFate, Shaped, Rooted, Started
<1> QED
  BY <1>5, <1>7, <1>8, <1>9 DEF WellTended, d
\* The rejoin that the supervisor awaits.
LEMMA RejoinResumesTends ==
  ASSUME TInv, NEW h \in Handles, sup.cur = h, RejoinResumes, Tidy'
  PROVE  WellTended(h)
<1> DEFINE c == ch[h]
           b == JoinFailure(ch[h], stop)
           l == StartLeave(b, stop)
           s == StartRecovery(b, h, FALSE)
           d == ch'[h]
<1>1. /\ IInv /\ c \in SoundChannel /\ stop \in BOOLEAN /\ DOMAIN ch = Handles
      /\ Shaped(h) /\ Rooted(h) /\ Covered(h) /\ Reported(h) /\ RecoveredHere(h)
      /\ c.leave # "none" => c.state = "left"
      /\ c.state \in {"joining", "joined", "rejoining"} => IsRegistered(h)
      /\ d.leave # "none" => d.state = "left"
  BY TendedFacts, HandleFacts DEF Tended, Tidy
<1>2. /\ sup.pc = "joining" /\ c.out # "pending" /\ c.conn = gen
      /\ UNCHANGED <<conn, gen, cstate, stop, routing, registry>>
      /\ sup'.todo = sup.todo /\ sup'.optional = sup.optional
      /\ ~Joining(h)'
  BY <1>1 DEF RejoinResumes, client, TInv, AtWork, IInv, OthersOK, Joining
<1>3. \/ d = c /\ c.out = "ok"
      \/ d = b /\ c.out # "ok" /\ stop
      \/ d = l /\ c.out # "ok" /\ IsRegistered(h)
      \/ d = b /\ c.out # "ok" /\ ~IsRegistered(h)
      \/ d = s /\ c.out # "ok" /\ ~stop /\ b.cause \notin PermanentCauses
  BY <1>1 DEF RejoinResumes
<1>4. b \in SoundChannel /\ (b.state \in Live => c.state \in Live)
  BY <1>1, JoinFailureKeeps DEF Keeps
<1>5. \/ b = c
      \/ /\ SameAttempt(c, b) /\ b.out = c.out /\ b.leave = c.leave
         /\ b.voided /\ b.loseStart = c.loseStart
         /\ \/ b.cause = "configuration" /\ b.state = "left" /\ c.out = "channel"
            \/ /\ b.cause = "timeout" /\ b.state \in {"rejoining", "left"}
               /\ b.state = "rejoining" => c.established
  BY <1>1, <1>2, JoinFailureFields DEF StateAfter
<1>6. /\ SameAttempt(c, b) /\ b.leave = c.leave /\ b.out = c.out
      /\ JoinReady(b) => b.out = "ok"
      /\ b.state = "rejoining" => b.established
  BY <1>1, <1>5 DEF SameAttempt, JoinReady, Shaped
<1> HIDE DEF b
<1>7. CASE d = c /\ c.out = "ok"
  <2>1. SameStanding(c, d)
    BY <1>7 DEF SameStanding
  <2>2. Lawful(h, c, d) /\ Awaited(h)' /\ Reported(h)'
    BY <1>2, <1>7, <2>1, QuietTends
  <2>3. Covered(h)'
    <3>1. SUFFICES ASSUME Running', d.state = "rejoining"
                   PROVE  d.rec # "none" \/ h \in sup'.todo \cup sup'.optional
      BY DEF Covered, InLine
    <3>2. Running
      BY <1>2, <3>1 DEF Running, IsConnected
    <3>3. c.rec # "none" \/ h \in sup.todo \cup sup.optional
      BY <1>1, <1>2, <1>7, <3>1, <3>2 DEF Covered, InLine
    <3> QED
      BY <1>2, <1>7, <3>3
  <2> QED
    BY <2>2, <2>3 DEF WellTended
<1>8. CASE d = b /\ c.out # "ok" /\ (stop \/ ~IsRegistered(h))
  <2>1. Lawful(h, c, d)
    BY <1>1, <1>4, <1>6, <1>8 DEF Lawful, Recovers, Shaped, Rooted, SameAttempt, Live
  <2>2. b.state = "rejoining" => stop
    BY <1>1, <1>4, <1>8 DEF Live
  <2>3. Covered(h)' /\ Awaited(h)'
    BY <1>2, <1>6, <1>8, <2>2 DEF Covered, Awaited, Running
  <2>4. ~GoneHere(h)'
    BY <1>1, <1>2, <1>6, <1>8 DEF GoneHere, Rooted, SameAttempt
  <2> QED
    BY <2>1, <2>3, <2>4 DEF WellTended, Reported
<1>9. CASE d = l /\ c.out # "ok" /\ IsRegistered(h)
  <2>1. /\ SameAttempt(b, l) /\ l.leave # "none"
        /\ l.out = b.out /\ (JoinReady(l) => l.out = "ok")
    <3>1. /\ SameAttempt(b, l)
          /\ l.leave = IF b.leave = "none" THEN "start" ELSE b.leave
          /\ b.leave # "none" => l = b
          /\ b.leave = "none" /\ b.state # "left" => FailedOutcome(b, l, "channel")
          /\ b.state = "left" => SameOutcome(b, l)
      BY <1>1, <1>4, StartLeaveFields
    <3> HIDE DEF l
    <3> QED
      BY <1>2, <1>6, <3>1 DEF FailedOutcome, SameOutcome, JoinReady
  <2> HIDE DEF l
  <2>2. Lawful(h, c, d)
    BY <1>1, <1>6, <1>9, <2>1 DEF Lawful, Recovers, Shaped, Rooted, SameAttempt
  <2>3. Covered(h)' /\ Awaited(h)' /\ Reported(h)'
    BY <1>1, <1>2, <1>6, <1>9, <2>1 DEF Covered, Awaited, Reported, GoneHere
  <2> QED
    BY <2>2, <2>3 DEF WellTended
<1>10. CASE d = s /\ c.out # "ok" /\ ~stop /\ b.cause \notin PermanentCauses
  <2>1. /\ SameFate(b, s) /\ SameOutcome(b, s)
        /\ s.established = b.established /\ s.conn = b.conn /\ s.cleaned = b.cleaned
        /\ s = b \/ Started(b, s)
        /\ Startable(b, h) /\ b.conn = gen => Started(b, s)
    BY <1>4, StartRecoveryFields
  <2> HIDE DEF s
  <2>2. JoinReady(s) => JoinReady(b)
    BY <2>1 DEF SameOutcome, JoinReady
  <2>3. Lawful(h, c, d)
    <3>1. /\ s.state = "rejoining" => s.established
      BY <1>6, <2>1 DEF SameFate
    <3>2. s.rec # "none" => s.established
      BY <1>1, <1>6, <2>1 DEF SameAttempt, Shaped, Started
    <3>3. ~JoinReady(s) /\ Recovers(c, s) /\ s.leave = c.leave /\ s.cleaned = c.cleaned
      BY <1>6, <1>10, <2>1, <2>2 DEF SameFate, SameAttempt, Recovers, Started
    <3>4. s.established = c.established /\ s.conn = c.conn
      BY <1>6, <2>1 DEF SameAttempt
    <3> QED
      BY <1>1, <1>10, <3>1, <3>2, <3>3, <3>4 DEF Lawful, Rooted
  <2>4. Covered(h)'
    <3>1. SUFFICES ASSUME Running', s.state = "rejoining"
                   PROVE  s.rec # "none"
      BY <1>10 DEF Covered
    <3>2. IsConnected /\ ~stop /\ b.state = "rejoining" /\ IsRegistered(h)
      BY <1>1, <1>2, <1>4, <2>1, <3>1 DEF Running, IsConnected, SameFate, Live
    <3>3. b.established /\ b.conn = gen
      BY <1>2, <1>6, <1>10, <2>1, <2>3, <3>1 DEF SameAttempt, Lawful
    <3>4. CASE b.rec = "none"
      BY <2>1, <3>2, <3>3, <3>4 DEF Started, Startable
    <3>5. CASE b.rec # "none"
      BY <2>1, <3>5 DEF Started
    <3> QED
      BY <3>4, <3>5
  <2>5. Awaited(h)'
    BY <1>2, <1>6, <1>10, <2>1 DEF Awaited, SameOutcome
  <2>6. Reported(h)'
    <3>1. SUFFICES ASSUME GoneHere(h)'
                   PROVE  s.loseStart > 0
      BY <1>10 DEF Reported
    <3>2. /\ b.state = "left" /\ b.cause = "close" /\ b.leave = "none" /\ b.conn = conn
          /\ b.established
      BY <1>2, <1>10, <2>1, <3>1 DEF GoneHere, SameFate, PermanentCauses
    <3>3. b = c
      BY <1>5, <3>2
    <3>4. GoneHere(h)
      BY <1>10, <3>2, <3>3 DEF GoneHere
    <3> QED
      BY <1>1, <2>1, <3>2, <3>3, <3>4 DEF Reported, SameFate
  <2> QED
    BY <2>3, <2>4, <2>5, <2>6 DEF WellTended
<1> QED
  BY <1>3, <1>7, <1>8, <1>9, <1>10
\* What a routed frame does to its channel.
Ended(c) == [c EXCEPT !.terminal = TRUE]

LEMMA ControlCases ==
  ASSUME NEW h, NEW c \in SoundChannel, NEW m, NEW ok \in BOOLEAN
  PROVE  LET d == Control(c, h, m, ok)
         IN  \/ d = c \/ d = Ended(c) \/ d = LeaveReply(c, m.status)
             \/ /\ c.out = "pending" /\ c.state # "left" /\ ~stop
                /\ \/ d = Accepted(c)
                   \/ \E b \in {c, Ended(c)}, cause \in PermanentCauses :
                        d = Failed(b, cause, "channel", stop)
             \/ /\ c.state # "left"
                /\ \/ /\ ~c.established
                      /\ \E cause \in {"crash", "close"} :
                           d = Failed(Ended(c), cause, "channel", stop)
                   \/ /\ c.established
                      /\ \/ d = StartRecovery(Failed(Ended(c), "crash", "channel", stop), h, FALSE)
                         \/ d = StartTopicLoss(Failed(Ended(c), "close", "channel", stop), stop)
<1> DEFINE d == Control(c, h, m, ok)
<1>1. Ended(c).established = c.established
  BY DEF Ended, SoundChannel, Channel
<1>2. \/ d = c \/ d = LifecycleEvent(c, h, m.event) \/ d = LeaveReply(c, m.status)
      \/ d = JoinReply(c, m.status, ok)
  BY DEF Control
<1>3. CASE d = LifecycleEvent(c, h, m.event)
  <2>1. \/ d = Ended(c)
        \/ /\ c.state # "left"
           /\ \/ /\ ~c.established
                 /\ \/ d = Failed(Ended(c), "crash", "channel", stop)
                    \/ d = Failed(Ended(c), "close", "channel", stop)
              \/ /\ c.established
                 /\ \/ d = StartRecovery(Failed(Ended(c), "crash", "channel", stop), h, FALSE)
                    \/ d = StartTopicLoss(Failed(Ended(c), "close", "channel", stop), stop)
    BY <1>3 DEF LifecycleEvent, Ended
  <2> HIDE DEF d
  <2> QED
    BY <2>1 DEF d
<1>4. CASE d = JoinReply(c, m.status, ok)
  <2>1. \/ d = c \/ d = Ended(c)
        \/ /\ c.out = "pending" /\ c.state # "left" /\ ~stop
           /\ \/ d = Accepted(c)
              \/ d = Failed(c, "rejected", "channel", stop)
              \/ d = Failed(Ended(c), "rejected", "channel", stop)
              \/ d = Failed(c, "configuration", "channel", stop)
    BY <1>4 DEF JoinReply, Ended
  <2>2. "rejected" \in PermanentCauses /\ "configuration" \in PermanentCauses
    BY DEF PermanentCauses
  <2> HIDE DEF d
  <2> QED
    BY <2>1, <2>2 DEF d
<1> HIDE DEF d
<1> QED
  BY <1>2, <1>3, <1>4 DEF d

\* A channel that a frame fails.
LEMMA FailedByFrame ==
  ASSUME NEW c \in SoundChannel, stop \in BOOLEAN, NEW b \in {c, Ended(c)},
         NEW cause \in PermanentCauses \cup {"crash", "close"}
  PROVE  LET f == Failed(b, cause, "channel", stop)
         IN  /\ f \in SoundChannel
             /\ f.established = c.established /\ f.conn = c.conn /\ f.cleaned = c.cleaned
             /\ f.rec = c.rec /\ f.recConn = c.recConn /\ f.recCancel = c.recCancel
             /\ f.leave = c.leave /\ f.loseStart = c.loseStart
             /\ f.cause = cause /\ f.out \notin {"pending"}
             /\ f.out = "ok" => f.voided
             /\ c.out = "pending" => f.out = "channel"
             /\ f.state = IF c.established /\ cause = "crash" /\ c.state # "left" /\ ~stop
                          THEN "rejoining" ELSE "left"
<1> DEFINE f == Failed(b, cause, "channel", stop)
<1>1. b \in SoundChannel
  BY TerminalKeeps DEF Ended
<1>2. /\ b.established = c.established /\ b.conn = c.conn /\ b.cleaned = c.cleaned
      /\ b.rec = c.rec /\ b.recConn = c.recConn /\ b.recCancel = c.recCancel
      /\ b.leave = c.leave /\ b.loseStart = c.loseStart /\ b.out = c.out
      /\ b.state = c.state
  BY DEF SoundChannel, Channel, Ended
<1>3. cause \in ChannelCauses /\ (cause \in RecoverableCauses <=> cause = "crash")
  BY DEF ChannelCauses, PermanentCauses, RecoverableCauses
<1>4. /\ f \in SoundChannel /\ SameAttempt(b, f) /\ FailedOutcome(b, f, "channel")
      /\ f.state = StateAfter(b, cause, stop) /\ f.cause = cause
      /\ f.leave = b.leave /\ f.loseStart = b.loseStart
  <2>1. "channel" \in JoinOutcomes
    BY DEF JoinOutcomes
  <2> QED
    BY <1>1, <1>3, <2>1, FailedFields, FailedKeeps
<1> HIDE DEF f
<1>5. StateAfter(b, cause, stop) =
        IF c.established /\ cause = "crash" /\ c.state # "left" /\ ~stop
        THEN "rejoining" ELSE "left"
  BY <1>2, <1>3 DEF StateAfter
<1>6. f.out # "pending" /\ (f.out = "ok" => f.voided)
      /\ (c.out = "pending" => f.out = "channel")
  BY <1>2, <1>4 DEF FailedOutcome
<1>7. /\ f.established = c.established /\ f.conn = c.conn /\ f.cleaned = c.cleaned
      /\ f.rec = c.rec /\ f.recConn = c.recConn /\ f.recCancel = c.recCancel
      /\ f.leave = c.leave /\ f.loseStart = c.loseStart
  BY <1>2, <1>4 DEF SameAttempt
<1> QED
  BY <1>4, <1>5, <1>6, <1>7 DEF f
\* The frame that is routed to a channel.
LEMMA RoutedTends ==
  ASSUME TInv, NEW h \in Handles, RoutedAt(h)
  PROVE  WellTended(h)
<1> DEFINE c == ch[h]
           d == ch'[h]
<1>1. /\ IInv /\ c \in SoundChannel /\ stop \in BOOLEAN
      /\ Shaped(h) /\ Rooted(h) /\ Covered(h) /\ Awaited(h) /\ Reported(h)
  BY TendedFacts DEF Tended
<1>2. /\ IsRegistered(h) /\ IsConnected /\ c.conn = gen /\ c.conn # 0
      /\ UNCHANGED <<sup, conn, gen, cstate, stop, routing>>
  BY DEF RoutedAt, RoutedTo, IsOnCurrentConnection, IsConnected, Route, client, loop
<1>3. PICK ok \in BOOLEAN : d = Control(c, h, Head(net[TopicOf[h]]), ok)
  BY DEF RoutedAt
<1> HIDE DEF d
<1>4. Joining(h)' <=> Joining(h)
  BY <1>2 DEF Joining
<1>5. CASE d = c \/ d = Ended(c) \/ d = LeaveReply(c, Head(net[TopicOf[h]]).status)
  <2>1. /\ d.rec = c.rec /\ d.recConn = c.recConn /\ d.recCancel = c.recCancel
        /\ SameStanding(c, d)
    <3>1. CASE d = c
      BY <3>1 DEF SameStanding
    <3>2. CASE d = Ended(c)
      BY <1>1, <3>2 DEF Ended, SameStanding, SoundChannel, Channel, JoinReady
    <3>3. CASE d = LeaveReply(c, Head(net[TopicOf[h]]).status)
      <4>1. CASE d = c
        BY <4>1 DEF SameStanding
      <4>2. CASE \E v : d = [c EXCEPT !.unsub = v]
        BY <1>1, <4>2 DEF SameStanding, SoundChannel, Channel, JoinReady
      <4> QED
        BY <3>3, <4>1, <4>2 DEF LeaveReply
    <3> QED
      BY <1>5, <3>1, <3>2, <3>3
  <2>2. Lawful(h, c, d) /\ Awaited(h)' /\ Reported(h)'
    BY <1>2, <1>4, <2>1, QuietTends DEF d
  <2>3. Covered(h)'
    <3>1. SUFFICES ASSUME Running', d.state = "rejoining"
                   PROVE  d.rec # "none" \/ InLine(h)' \/ (Joining(h)' /\ d.out # "ok")
      BY DEF Covered, d
    <3>2. Running /\ c.state = "rejoining"
      BY <1>2, <2>1, <3>1 DEF Running, IsConnected, SameStanding
    <3>3. c.rec # "none" \/ InLine(h) \/ (Joining(h) /\ c.out # "ok")
      BY <1>1, <3>2 DEF Covered
    <3> QED
      BY <1>2, <1>4, <2>1, <3>3 DEF InLine, SameStanding
  <2> QED
    BY <2>2, <2>3 DEF WellTended, d
<1>6. CASE c.out = "pending" /\ c.state # "left" /\ d = Accepted(c)
  <2>1. /\ d.established /\ d.conn = c.conn /\ d.cleaned = c.cleaned
        /\ d.rec = c.rec /\ d.recConn = c.recConn /\ d.recCancel = c.recCancel
        /\ d.state = "joined" /\ d.leave = c.leave /\ d.out = "ok"
    BY <1>1, <1>6, AcceptedFields
  <2>2. Lawful(h, c, d)
    BY <1>2, <2>1 DEF Lawful, Recovers
  <2>3. Covered(h)' /\ Awaited(h)' /\ Reported(h)'
    BY <2>1 DEF Covered, Awaited, Reported, GoneHere, d
  <2> QED
    BY <2>2, <2>3 DEF WellTended, d
<1>7. ASSUME c.out = "pending", NEW b \in {c, Ended(c)}, NEW cause \in PermanentCauses,
             d = Failed(b, cause, "channel", stop)
      PROVE  WellTended(h)
  <2>1. cause \in PermanentCauses \cup {"crash", "close"} /\ cause # "crash" /\ cause # "close"
    BY DEF PermanentCauses
  <2>2. /\ d.established = c.established /\ d.conn = c.conn /\ d.cleaned = c.cleaned
        /\ d.rec = c.rec /\ d.recConn = c.recConn /\ d.recCancel = c.recCancel
        /\ d.leave = c.leave /\ d.cause = cause /\ d.out = "channel" /\ d.state = "left"
    BY <1>1, <1>7, <2>1, FailedByFrame
  <2>3. ~JoinReady(d)
    BY <2>2 DEF JoinReady
  <2>4. Lawful(h, c, d)
    BY <1>1, <1>2, <2>2, <2>3 DEF Lawful, Recovers, Shaped
  <2>5. Covered(h)' /\ Awaited(h)'
    BY <2>2 DEF Covered, Awaited, d
  <2>6. c.established => c.rec = "waiting" \/ Joining(h)
    BY <1>1, <1>7 DEF Awaited
  <2>7. Reported(h)'
    BY <1>4, <2>1, <2>2, <2>6 DEF Reported, GoneHere, d
  <2> QED
    BY <2>4, <2>5, <2>7 DEF WellTended, d
<1>8. ASSUME ~c.established, NEW cause \in {"crash", "close"},
             d = Failed(Ended(c), cause, "channel", stop)
      PROVE  WellTended(h)
  <2>1. cause \in PermanentCauses \cup {"crash", "close"} /\ Ended(c) \in {c, Ended(c)}
    OBVIOUS
  <2>2. /\ d.established = c.established /\ d.conn = c.conn /\ d.cleaned = c.cleaned
        /\ d.rec = c.rec /\ d.leave = c.leave /\ d.state = "left"
        /\ d.out = "ok" => d.voided
    BY <1>1, <1>8, <2>1, FailedByFrame
  <2>3. ~JoinReady(d) /\ c.rec = "none"
    BY <1>1, <1>8, <2>2 DEF JoinReady, Shaped
  <2>4. Lawful(h, c, d)
    BY <1>1, <1>2, <1>8, <2>2, <2>3 DEF Lawful, Recovers, Shaped
  <2>5. Covered(h)' /\ Awaited(h)' /\ Reported(h)'
    BY <1>8, <2>2 DEF Covered, Awaited, Reported, GoneHere, d
  <2> QED
    BY <2>4, <2>5 DEF WellTended, d
<1>9. CASE /\ c.established /\ c.state # "left"
           /\ d = StartRecovery(Failed(Ended(c), "crash", "channel", stop), h, FALSE)
  <2> DEFINE f == Failed(Ended(c), "crash", "channel", stop)
  <2>1. /\ f \in SoundChannel
        /\ f.established = c.established /\ f.conn = c.conn /\ f.cleaned = c.cleaned
        /\ f.rec = c.rec /\ f.recConn = c.recConn /\ f.recCancel = c.recCancel
        /\ f.leave = c.leave /\ f.cause = "crash" /\ f.out # "pending"
        /\ f.out = "ok" => f.voided
        /\ f.state = IF stop THEN "left" ELSE "rejoining"
    <3>1. /\ "crash" \in PermanentCauses \cup {"crash", "close"}
          /\ Ended(c) \in {c, Ended(c)}
      OBVIOUS
    <3>2. /\ f \in SoundChannel
          /\ f.established = c.established /\ f.conn = c.conn /\ f.cleaned = c.cleaned
          /\ f.rec = c.rec /\ f.recConn = c.recConn /\ f.recCancel = c.recCancel
          /\ f.leave = c.leave /\ f.cause = "crash" /\ f.out \notin {"pending"}
          /\ f.out = "ok" => f.voided
          /\ f.state = IF c.established /\ "crash" = "crash" /\ c.state # "left" /\ ~stop
                       THEN "rejoining" ELSE "left"
      BY <1>1, <3>1, FailedByFrame
    <3> HIDE DEF f
    <3> QED
      BY <1>1, <1>9, <3>2
  <2> HIDE DEF f
  <2>2. /\ SameFate(f, d) /\ SameOutcome(f, d)
        /\ d.established = f.established /\ d.conn = f.conn /\ d.cleaned = f.cleaned
        /\ d = f \/ Started(f, d)
        /\ Startable(f, h) /\ f.conn = gen => Started(f, d)
    BY <1>9, <2>1, StartRecoveryFields DEF f
  <2>3. ~JoinReady(d) /\ d.out # "pending"
    BY <2>1, <2>2 DEF JoinReady, SameOutcome
  <2>4. Recovers(c, d)
    BY <2>1, <2>2 DEF Recovers, Started
  <2>5. Lawful(h, c, d)
    BY <1>2, <1>9, <2>1, <2>2, <2>3, <2>4 DEF Lawful, SameFate
  <2>6. Covered(h)'
    <3>1. SUFFICES ASSUME Running', d.state = "rejoining"
                   PROVE  d.rec # "none"
      BY DEF Covered, d
    <3>2. ~stop /\ f.state = "rejoining"
      BY <1>2, <2>2, <3>1 DEF Running, SameFate
    <3>3. CASE f.rec = "none"
      BY <1>2, <1>9, <2>1, <2>2, <3>2, <3>3 DEF Started, Startable
    <3>4. CASE f.rec # "none"
      BY <2>2, <3>4 DEF Started
    <3> QED
      BY <3>3, <3>4
  <2>7. Awaited(h)' /\ Reported(h)'
    BY <2>1, <2>2, <2>3 DEF Awaited, Reported, GoneHere, SameFate, PermanentCauses, d
  <2> QED
    BY <2>5, <2>6, <2>7 DEF WellTended, d
<1>10. CASE /\ c.established /\ c.state # "left"
            /\ d = StartTopicLoss(Failed(Ended(c), "close", "channel", stop), stop)
  <2> DEFINE f == Failed(Ended(c), "close", "channel", stop)
  <2>1. /\ f \in SoundChannel
        /\ f.established = c.established /\ f.conn = c.conn /\ f.cleaned = c.cleaned
        /\ f.rec = c.rec /\ f.recConn = c.recConn /\ f.recCancel = c.recCancel
        /\ f.leave = c.leave /\ f.out # "pending" /\ f.state = "left"
        /\ f.out = "ok" => f.voided
    <3>1. /\ "close" \in PermanentCauses \cup {"crash", "close"}
          /\ Ended(c) \in {c, Ended(c)}
      OBVIOUS
    <3>2. /\ f \in SoundChannel
          /\ f.established = c.established /\ f.conn = c.conn /\ f.cleaned = c.cleaned
          /\ f.rec = c.rec /\ f.recConn = c.recConn /\ f.recCancel = c.recCancel
          /\ f.leave = c.leave /\ f.cause = "close" /\ f.out \notin {"pending"}
          /\ f.out = "ok" => f.voided
          /\ f.state = IF c.established /\ "close" = "crash" /\ c.state # "left" /\ ~stop
                       THEN "rejoining" ELSE "left"
      BY <1>1, <3>1, FailedByFrame
    <3> HIDE DEF f
    <3> QED
      BY <1>1, <1>10, <3>2
  <2> HIDE DEF f
  <2>2. f.loseStart \in Nat
    BY <2>1 DEF SoundChannel, Channel
  <2>3. /\ SameAttempt(f, d) /\ d.state = "left" /\ SameOutcome(f, d)
        /\ d.leave = f.leave /\ d.loseStart = f.loseStart + 1
    BY <1>1, <1>10, <2>1, StartTopicLossFields DEF f
  <2>4. d.loseStart > 0
    BY <2>2, <2>3
  <2>5. Lawful(h, c, d)
    BY <1>2, <1>10, <2>1, <2>3 DEF Lawful, Recovers, SameAttempt, SameOutcome, JoinReady
  <2>6. Covered(h)' /\ Awaited(h)' /\ Reported(h)'
    BY <2>1, <2>3, <2>4 DEF Covered, Awaited, Reported, SameOutcome, d
  <2> QED
    BY <2>5, <2>6 DEF WellTended, d
<1> QED
  BY <1>1, <1>3, <1>5, <1>6, <1>7, <1>8, <1>9, <1>10, ControlCases
\* Every step that tends to a channel leaves it tended.
LEMMA TendsWell ==
  ASSUME TInv, NEW h \in Handles, Tends(h), Tidy'
  PROVE  WellTended(h)
  BY RecoverTriesTends, RecoverRejoinsTends, RejoinRestartsTends, RecoverResumesTends,
     RecoverCancelledTends, LoseStartsTends, JoinTends, RoutedTends, RejoinNextTends,
     RejoinDoneTends, RejoinResumesTends
  DEF Tends

\* Only the supervisor moves itself.
LEMMA SupervisorMoves ==
  ASSUME [Next]_vars
  PROVE  sup' = sup \/ SupervisorStep
<1>1. ASSUME NEW h \in Handles, HandleStep(h)
      PROVE  sup' = sup
  BY <1>1
  DEF HandleStep, JoinResumes, JoinRaises, LeaveStarts, LeaveAnswered, LeaveFinishes,
      RecoverTries, RecoverRejoins, RecoverResumes, RecoverCancelled, LoseStarts,
      LoseReports, loop
<1>2. ASSUME \/ \E o \in ops : SendStep(o) \/ SendReturns(o)
             \/ \E o \in Timers : Expire(o)
             \/ CloseSendSession \/ RoutingStep \/ NetworkStep \/ UserStep \/ ShutdownStep
             \/ UNCHANGED vars
      PROVE  sup' = sup
  BY <1>2
  DEF SendStep, SendReturns, Submit, SendFails, SendCancelled, Expire, CloseSendSession,
      RoutingStep, Route, RoutingEnds, RoutingStopped, NetworkStep, EndMembership, Drop,
      RoutingBreaks, ConnectFails, UserStep, Join, Leave, JoinCancelled, RequestStop,
      ShutdownStep, ShutdownCleansUp, ShutdownUnsubscribes, ShutdownCancelsLifecycle,
      ShutdownEnds, vars, loop
<1> QED
  BY <1>1, <1>2 DEF Next

\* The supervisor awaits an attempt that it started, and serves a session whose
\* rejoining it finished.
LEMMA WorkBegins ==
  ASSUME IInv, Session, [Next]_vars, sup'.pc \in {"joining", "serving"}
  PROVE  sup' = sup \/ RejoinDone \/ \E ok \in ParamsResults : RejoinRestarts(ok)
<1>1. /\ sup \in [pc : {"connecting", "rejoining", "stopping", "joining", "losing",
                        "serving", "cleanup", "dying", "ended", "exited"},
                  cur : Handles \cup {NoHandle},
                  todo : SUBSET Handles, optional : SUBSET Handles]
  BY DEF IInv, OthersOK
<1>2. ASSUME Connect \/ (\E h \in Handles : RejoinNext(h)) \/ RejoinResumes \/ RejoinLost
             \/ EndSession \/ Reconnects \/ SupervisorStops \/ AdoptsTooLate
             \/ SupervisorCancelled
      PROVE  sup' = sup \/ sup'.pc \notin {"joining", "serving"}
  BY <1>1, <1>2
  DEF Connect, RejoinNext, RejoinResumes, RejoinLost, EndSession, Reconnects,
      SupervisorStops, AdoptsTooLate, SupervisorExits, SupervisorCancelled
<1>3. ASSUME CleanupCloses \/ CleanupRetires
      PROVE  sup' = sup
  BY <1>3 DEF CleanupCloses, CleanupRetires
<1>4. CASE CleanupEnds
  <2>1. /\ sup' = [sup EXCEPT !.pc = CASE @ = "cleanup" -> "ended"
                                       [] @ = "dying"   -> "exited"
                                       [] OTHER         -> @]
        /\ cleanup.pc # "idle"
    BY <1>4 DEF CleanupEnds
  <2>2. sup.pc \in {"cleanup", "dying", "exited"}
    BY <1>1, <2>1 DEF Session, Active
  <2> QED
    BY <1>1, <2>1, <2>2
<1> QED
  BY <1>2, <1>3, <1>4, SupervisorMoves DEF SupervisorStep

\* So it is at work after every step.
LEMMA AtWorkStays ==
  ASSUME TInv, [Next]_vars
  PROVE  AtWork'
<1>1. IInv /\ PInv /\ Session /\ Tidy /\ AtWork
  BY DEF TInv, ServerInv, PInv
<1>2. sup.pc \in {"joining", "stopping"} => sup.cur \in Handles
  BY <1>1 DEF IInv, OthersOK, CurrentRejoin
<1>3. gen \in Nat /\ conn \in Nat
  BY <1>1, RefFacts
<1>4. sup.pc \in Active => conn = gen /\ gen # 0 /\ gen' = gen
  BY <1>1, <1>3, ConnectionMoves DEF Session, SameConnection, NewConnection
<1>5. ASSUME sup'.pc = "joining"
      PROVE  ch'[sup'.cur].conn = gen'
  <2>1. sup' = sup \/ \E ok \in ParamsResults : RejoinRestarts(ok)
    <3>1. CASE RejoinDone
      BY <1>1, <1>5, <3>1 DEF RejoinDone, IInv, OthersOK
    <3> QED
      BY <1>1, <1>5, <3>1, WorkBegins
  <2>2. CASE sup' = sup
    BY <1>1, <1>2, <1>4, <1>5, <2>2, AttemptsMove DEF SameAttempts, AtWork, Active
  <2>3. ASSUME NEW ok \in ParamsResults, RejoinRestarts(ok), sup' # sup
        PROVE  ch'[sup'.cur].conn = gen'
    <3> DEFINE h == sup.cur
    <3>1. sup.pc = "stopping" /\ h \in Handles
      BY <1>2, <2>3 DEF RejoinRestarts
    <3>2. /\ ShouldRejoin(h) /\ refs + 1 \in Refs
          /\ StartJoin(h, Restart(ch[h], conn, refs + 1), ok)
          /\ sup'.cur = h
      <4>1. ShouldRejoin(h) /\ sup' = [sup EXCEPT !.pc = "joining"]
        BY <1>1, <1>5, <2>3 DEF RejoinRestarts, IInv, OthersOK
      <4> QED
        BY <1>1, <2>3, <4>1, RejoinBegins DEF IInv, OthersOK
    <3>3. Begins(ch[h], ch'[h])
      BY <1>1, <3>1, <3>2, RestartBegins
    <3> QED
      BY <1>4, <3>1, <3>2, <3>3 DEF Begins, Active
  <2> QED
    BY <2>1, <2>2, <2>3
<1>6. ASSUME sup'.pc = "serving"
      PROVE  sup'.todo = {} /\ sup'.optional = {}
  <2>1. CASE sup' = sup
    BY <1>1, <1>6, <2>1 DEF AtWork
  <2>2. CASE RejoinDone
    BY <1>1, <2>2 DEF RejoinDone, IInv, OthersOK
  <2>3. ASSUME NEW ok \in ParamsResults, RejoinRestarts(ok)
        PROVE  sup'.pc # "serving"
    BY <1>1, <2>3 DEF RejoinRestarts, IInv, OthersOK
  <2> QED
    BY <1>1, <1>6, <2>1, <2>2, <2>3, WorkBegins
<1> QED
  BY <1>5, <1>6 DEF AtWork
\* What tends to a channel leaves the connection and its cleanup alone.
LEMMA TendsFrame ==
  ASSUME NEW h \in Handles, Tends(h)
  PROVE  UNCHANGED <<conn, gen, cstate, stop, cleanup>>
<1>1. ASSUME \/ RecoverTries(h) \/ RecoverResumes(h) \/ RecoverCancelled(h) \/ LoseStarts(h)
             \/ \E ok \in ParamsResults : Join(h, ok) \/ RecoverRejoins(h, ok)
      PROVE  UNCHANGED <<conn, gen, cstate, stop, cleanup>>
  BY <1>1 DEF RecoverTries, RecoverResumes, RecoverCancelled, LoseStarts, Join,
     RecoverRejoins, client, loop
<1>2. ASSUME RoutedAt(h)
      PROVE  UNCHANGED <<conn, gen, cstate, stop, cleanup>>
  BY <1>2 DEF RoutedAt, RoutedTo, Route, client, loop
<1>3. ASSUME \/ RejoinNext(h) \/ RejoinResumes \/ RejoinDone
             \/ \E ok \in ParamsResults : RejoinRestarts(ok)
      PROVE  UNCHANGED <<conn, gen, cstate, stop, cleanup>>
  BY <1>3 DEF RejoinNext, RejoinResumes, RejoinRestarts, RejoinDone, client
<1> QED
  BY <1>1, <1>2, <1>3 DEF Tends

\* Until it ends its session a supervisor stays in it.
LEMMA ActiveStays ==
  ASSUME PInv, Session, [Next]_vars, ~stop', sup.pc \in Active
  PROVE  (sup'.pc \in Active /\ gen' = gen) \/ EndSession
<1>1. /\ IInv /\ ~stop /\ cleanup.pc = "idle" /\ conn = gen /\ gen # 0
      /\ sup.pc \notin {"connecting", "ended", "cleanup", "dying", "exited"}
  BY StopIsFinal DEF PInv, Session, Active
<1>2. /\ sup \in [pc : {"connecting", "rejoining", "stopping", "joining", "losing",
                        "serving", "cleanup", "dying", "ended", "exited"},
                  cur : Handles \cup {NoHandle},
                  todo : SUBSET Handles, optional : SUBSET Handles]
  BY <1>1 DEF IInv, OthersOK
<1>3. gen' = gen
  BY <1>1, RefFacts, ConnectionMoves DEF SameConnection, NewConnection
<1>4. ASSUME \/ (\E h \in Handles : RejoinNext(h)) \/ RejoinResumes \/ RejoinLost \/ RejoinDone
             \/ \E ok \in ParamsResults : RejoinRestarts(ok)
      PROVE  sup'.pc \in Active
  BY <1>2, <1>4 DEF RejoinNext, RejoinResumes, RejoinLost, RejoinDone, RejoinRestarts, Active
<1>5. ~(Connect \/ Reconnects \/ SupervisorStops \/ AdoptsTooLate)
  BY <1>1 DEF Connect, Reconnects, SupervisorStops, AdoptsTooLate
<1>6. ~(CleanupCloses \/ CleanupRetires \/ CleanupEnds)
  BY <1>1 DEF CleanupCloses, CleanupRetires, CleanupEnds
<1> QED
  BY <1>3, <1>4, <1>5, <1>6, LoopMoves DEF SupervisorStep

\* A cleanup that waits for the recoveries goes on waiting for each of them.
LEMMA CancellingStays ==
  ASSUME PInv, Session, [Next]_vars, ~stop', sup.pc \in {"cleanup", "dying"},
         cleanup.pc = "cancelling", NEW h \in cleanup.tasks, ch[h].rec # "none"
  PROVE  UNCHANGED <<sup, cleanup>>
<1>1. ~(\/ Connect \/ Reconnects \/ SupervisorStops \/ AdoptsTooLate \/ EndSession
        \/ RejoinResumes \/ RejoinLost \/ RejoinDone \/ CleanupRetires \/ CleanupEnds)
  BY DEF Connect, Reconnects, SupervisorStops, AdoptsTooLate, EndSession, RejoinResumes,
     RejoinLost, RejoinDone, CleanupRetires, CleanupEnds
<1>2. /\ ~\E g \in Handles : RejoinNext(g)
      /\ ~\E ok \in ParamsResults : RejoinRestarts(ok)
  BY DEF RejoinNext, RejoinRestarts
<1>3. ~CleanupCloses
  BY DEF CleanupCloses
<1> QED
  BY <1>1, <1>2, <1>3, LoopMoves DEF SupervisorStep

\* The attempt that the supervisor awaits is awaited until it resumes from it, or is
\* cancelled.
LEMMA JoiningKept ==
  ASSUME PInv, Session, [Next]_vars, NEW h \in Handles, Joining(h), ~Tends(h)
  PROVE  Joining(h)' \/ (SupervisorCancelled /\ stop' /\ ch'[h].out # "pending")
<1>1. IInv /\ cleanup.pc = "idle" /\ sup.pc = "joining" /\ sup.cur = h
  BY DEF PInv, Session, Active, Joining
<1>2. ~(\/ Connect \/ Reconnects \/ SupervisorStops \/ AdoptsTooLate \/ EndSession
        \/ RejoinLost \/ CleanupCloses \/ CleanupRetires \/ CleanupEnds)
  BY <1>1 DEF Connect, Reconnects, SupervisorStops, AdoptsTooLate, EndSession,
     RejoinLost, CleanupCloses, CleanupRetires, CleanupEnds
<1>3. /\ ~RejoinDone /\ ~RejoinResumes
      /\ ~\E g \in Handles : RejoinNext(g)
      /\ ~\E ok \in ParamsResults : RejoinRestarts(ok)
  BY <1>1 DEF Tends, RejoinNext, RejoinRestarts
<1>4. ASSUME SupervisorCancelled
      PROVE  stop' /\ ch'[h].out # "pending"
  <2>1. stop' /\ ch' = [ch EXCEPT ![h] = CancelJoin(@)]
    BY <1>1, <1>4 DEF SupervisorCancelled, PInv, Phases, client
  <2>2. ch'[h] = CancelJoin(ch[h])
    BY <1>1, <2>1, HandleFacts
  <2> QED
    <3>1. ch[h] \in SoundChannel
      BY <1>1, HandleFacts
    <3>2. CancelJoin(ch[h]).out = IF ch[h].out = "pending" THEN "cancelled" ELSE ch[h].out
      BY <3>1, SettleJoinFields DEF CancelJoin
    <3> QED
      BY <2>1, <2>2, <3>2
<1> QED
  BY <1>1, <1>2, <1>3, <1>4, SupervisorMoves DEF SupervisorStep, Joining

\* A session that runs ran before, unless it is a new one.
LEMMA RunningBefore ==
  ASSUME PInv, Session, [Next]_vars, Running'
  PROVE  Running \/ Connect
<1>1. IInv /\ ~stop' /\ ~stop /\ cstate' = "connected" /\ conn' # 0 /\ routing' = "running"
  BY StopIsFinal DEF PInv, Running, IsConnected
<1>2. ASSUME NEW h \in Handles, HandleStep(h)
      PROVE  UNCHANGED <<conn, cstate, routing>>
  BY <1>2
  DEF HandleStep, JoinResumes, JoinRaises, LeaveStarts, LeaveAnswered, LeaveFinishes,
      RecoverTries, RecoverRejoins, RecoverResumes, RecoverCancelled, LoseStarts,
      LoseReports, client
<1>3. ASSUME \/ \E o \in ops : SendStep(o) \/ SendReturns(o)
             \/ \E o \in Timers : Expire(o)
             \/ CloseSendSession \/ RoutingStep \/ NetworkStep \/ UserStep
             \/ ShutdownStep \/ UNCHANGED vars
      PROVE  /\ routing' = "running" => routing = "running"
             /\ conn' # 0 => conn' = conn
  BY <1>3
  DEF SendStep, SendReturns, Submit, SendFails, SendCancelled, Expire, CloseSendSession,
      RoutingStep, Route, RoutingEnds, RoutingStopped, NetworkStep, EndMembership, Drop,
      RoutingBreaks, ConnectFails, UserStep, Join, Leave, JoinCancelled, RequestStop,
      ShutdownStep, ShutdownCleansUp, ShutdownUnsubscribes, ShutdownCancelsLifecycle,
      ShutdownEnds, CleanupBegins, vars, client
<1>4. ASSUME SupervisorStep, ~Connect
      PROVE  /\ routing' = "running" => routing = "running"
             /\ conn' # 0 => conn' = conn
  BY <1>1, <1>4
  DEF SupervisorStep, AdoptsTooLate, RejoinNext, RejoinRestarts, RejoinResumes,
      RejoinLost, RejoinDone, EndSession, Reconnects, SupervisorStops, CleanupCloses,
      CleanupRetires, CleanupEnds, CleanupBegins, SupervisorCancelled, client
<1>5. ~Connect => routing = "running" /\ conn' = conn
  BY <1>1, <1>2, <1>3, <1>4 DEF Next
<1>6. ~Connect => cstate = "connected"
  BY <1>1, <1>5, RefFacts, ConnectionMoves DEF SameConnection, NewConnection
<1> QED
  BY <1>1, <1>5, <1>6 DEF Running, IsConnected
\* The supervisor comes to every channel that is in line.
LEMMA LineKept ==
  ASSUME PInv, Session, [Next]_vars, Running, Running', NEW h \in Handles, InLine(h),
         ~Tends(h)
  PROVE  InLine(h)'
<1>1. /\ IInv /\ ~stop' /\ conn # 0 /\ conn' # 0
      /\ sup.pc \notin {"connecting", "ended"} /\ cleanup.pc = "idle"
  BY DEF PInv, Session, Running, IsConnected
<1>2. /\ sup \in [pc : {"connecting", "rejoining", "stopping", "joining", "losing",
                        "serving", "cleanup", "dying", "ended", "exited"},
                  cur : Handles \cup {NoHandle},
                  todo : SUBSET Handles, optional : SUBSET Handles]
  BY <1>1 DEF IInv, OthersOK
<1>3. ~(\/ Connect \/ Reconnects \/ SupervisorStops \/ AdoptsTooLate \/ EndSession
        \/ CleanupCloses \/ CleanupRetires \/ CleanupEnds \/ RejoinDone)
  BY <1>1 DEF Connect, Reconnects, SupervisorStops, AdoptsTooLate, EndSession, CleanupBegins,
     CleanupCloses, CleanupRetires, CleanupEnds, Tends
<1>4. ASSUME NEW g \in Handles, RejoinNext(g)
      PROVE  InLine(h)'
  <2>1. g # h
    BY <1>4 DEF Tends
  <2>2. /\ sup.pc = "rejoining" /\ sup'.todo = sup.todo \ {g}
        /\ sup'.optional = sup.optional
    BY <1>2, <1>4 DEF RejoinNext
  <2> QED
    BY <2>1, <2>2 DEF InLine
<1>5. ASSUME NEW ok \in ParamsResults, RejoinRestarts(ok)
      PROVE  InLine(h)'
  BY <1>2, <1>5 DEF RejoinRestarts, InLine, Tends
<1>6. ASSUME RejoinResumes \/ RejoinLost
      PROVE  InLine(h)'
  BY <1>2, <1>6 DEF RejoinResumes, RejoinLost, InLine
<1>7. ASSUME UNCHANGED sup
      PROVE  InLine(h)'
  BY <1>7 DEF InLine
<1> QED
  BY <1>1, <1>3, <1>4, <1>5, <1>6, <1>7, LoopMoves DEF SupervisorStep

\* A name is given up only by a channel that was left or cleaned up.
LEMMA NameKept ==
  ASSUME [Next]_vars, NEW h \in Handles, IsRegistered(h), ch'[h].leave = "none",
         ~ch'[h].cleaned, registry \in [Topics -> Handles \cup {NoHandle}]
  PROVE  IsRegistered(h)'
<1>1. TopicOf[h] \in Topics /\ h # NoHandle
  BY TopicRuntimeAssumption
<1>2. ASSUME NEW who, NEW current, registry' = Release(registry, ch', who, ops, current)
      PROVE  IsRegistered(h)'
  BY <1>1, <1>2 DEF IsRegistered, Release, MayRelease
<1>3. ASSUME NEW g \in Handles, NEW ok \in ParamsResults, Join(g, ok)
      PROVE  IsRegistered(h)'
  BY <1>1, <1>3 DEF IsRegistered, Join, NameIsFree
<1> QED
  BY <1>2, <1>3, NamesReleased DEF OnlyReleases, IsRegistered

\* A step that is steady for a channel, or lawful.
LEMMA ShapeStays ==
  ASSUME TInv, [Next]_vars, NEW h \in Handles,
         Steady(ch[h], ch'[h]) \/ Lawful(h, ch[h], ch'[h])
  PROVE  Shaped(h)' /\ Rooted(h)'
<1> DEFINE c == ch[h]
           d == ch'[h]
<1>1. IInv /\ Shaped(h) /\ Rooted(h)
  BY TendedFacts DEF Tended
<1>2. registry \in [Topics -> Handles \cup {NoHandle}]
  BY <1>1 DEF IInv, RegistryOK, RegistryOf
<1>3. d.leave = "none" => c.leave = "none"
  BY DEF Steady, Lawful
<1>4. Shaped(h)'
  <2>1. CASE Steady(c, d)
    BY <1>1, <1>3, <2>1 DEF Steady, Shaped
  <2>2. CASE Lawful(h, c, d)
    BY <1>1, <1>3, <2>2 DEF Lawful, Shaped
  <2> QED
    BY <2>1, <2>2
<1>5. d.established => d.conn # 0 /\ (d.leave = "none" => IsRegistered(h))
  <2>1. CASE Steady(c, d)
    BY <1>1, <1>3, <2>1 DEF Steady, Rooted
  <2>2. CASE Lawful(h, c, d)
    BY <2>2 DEF Lawful
  <2> QED
    BY <2>1, <2>2
<1>6. d.cleaned => d.leave # "none"
  BY <1>4 DEF Shaped
<1>7. d.leave = "none" /\ IsRegistered(h) => IsRegistered(h)'
  BY <1>2, <1>6, NameKept
<1> QED
  BY <1>4, <1>5, <1>7 DEF Rooted

\* A recovery belongs to the session that runs, or to the cleanup that ends it.
LEMMA RecoveryStays ==
  ASSUME TInv, [Next]_vars, NEW h \in Handles, Session',
         Steady(ch[h], ch'[h]) \/ (Tends(h) /\ Lawful(h, ch[h], ch'[h]))
  PROVE  RecoveredHere(h)'
<1> DEFINE c == ch[h]
           d == ch'[h]
<1>1. SUFFICES ASSUME d.rec # "none", d.leave = "none", ~stop'
               PROVE  \/ sup'.pc \in Active /\ d.recConn = gen' /\ ~d.recCancel
                      \/ /\ sup'.pc \in {"cleanup", "dying"} /\ cleanup'.pc = "cancelling"
                         /\ h \in cleanup'.tasks /\ d.recCancel
  BY DEF RecoveredHere
<1>2. /\ IInv /\ PInv /\ Session /\ Shaped(h) /\ Rooted(h) /\ RecoveredHere(h) /\ ~stop
  BY <1>1, TendedFacts, StopIsFinal DEF Tended
<1>3. c.leave = "none"
  BY <1>1 DEF Steady, Lawful
<1>4. sup'.pc \in Active => conn' # 0 /\ conn' = gen'
  BY DEF Session
<1>5. CASE Steady(c, d)
  <2>1. c.rec # "none" /\ d.recConn = c.recConn
    BY <1>1, <1>5 DEF Steady
  <2>2. c.recCancel => d.recCancel
    BY <1>1, <1>2, <1>5 DEF Steady
  <2>3. d.recCancel => c.recCancel \/ conn' = 0
    BY <1>1, <1>2, <1>5 DEF Steady
  <2>4. CASE sup.pc \in Active /\ c.recConn = gen /\ ~c.recCancel
    <3>1. CASE sup'.pc \in Active /\ gen' = gen
      BY <1>4, <2>1, <2>3, <2>4, <3>1
    <3>2. CASE EndSession
      <4>1. /\ sup'.pc = "cleanup" /\ cleanup'.pc = "cancelling"
        BY <1>2, <3>2 DEF EndSession, CleanupBegins, IInv, OthersOK
      <4>2. IsRegistered(h)
        BY <1>2, <1>3, <2>1 DEF Shaped, Rooted
      <4>3. FailPendingJoins(ch)[h].rec # "none"
        <5>1. KeepsAll(ch) /\ ~Running'
          BY <1>2, <3>2, NoChannelKept DEF EndSession, CleanupBegins, Running, IsConnected
        <5> QED
          BY <1>2, <2>1, <5>1, FailPendingJoinsSteady, NoneSteady DEF AllSteady, Steady
      <4>4. /\ h \in cleanup'.tasks
            /\ d = [FailPendingJoins(ch)[h] EXCEPT !.recCancel = TRUE]
        BY <3>2, <4>2, <4>3 DEF EndSession, CleanupBegins
      <4>5. FailPendingJoins(ch)[h] \in SoundChannel
        BY <1>2, NoChannelKept, FailPendingJoinsKept DEF KeepsAll
      <4>6. d.recCancel
        BY <4>4, <4>5 DEF SoundChannel, Channel
      <4> QED
        BY <4>1, <4>4, <4>6
    <3> QED
      BY <1>1, <1>2, <2>4, <3>1, <3>2, ActiveStays
  <2>5. CASE /\ sup.pc \in {"cleanup", "dying"} /\ cleanup.pc = "cancelling"
             /\ h \in cleanup.tasks /\ c.recCancel
    <3>1. UNCHANGED <<sup, cleanup>>
      BY <1>1, <1>2, <2>1, <2>5, CancellingStays
    <3> QED
      BY <2>2, <2>5, <3>1
  <2> QED
    BY <1>2, <1>3, <2>1, <2>4, <2>5 DEF RecoveredHere
<1>6. CASE Tends(h) /\ Lawful(h, c, d)
  <2>1. UNCHANGED <<conn, gen, cstate, stop, cleanup>>
    BY <1>6, TendsFrame
  <2>2. sup.pc \in Active => sup'.pc \in Active /\ gen' = gen
    <3>1. ASSUME sup.pc \in Active, EndSession
          PROVE  FALSE
      BY <1>2, <2>1, <3>1 DEF EndSession, CleanupBegins, Session
    <3> QED
      BY <1>1, <1>2, <3>1, ActiveStays
  <2>3. CASE d.recConn = gen /\ ~d.recCancel /\ IsConnected
    <3>1. sup.pc \in Active
      BY <1>2, <2>3, InSession
    <3> QED
      BY <2>2, <2>3, <3>1
  <2>4. CASE c.rec # "none" /\ d.recConn = c.recConn /\ d.recCancel = c.recCancel
    <3>1. CASE sup.pc \in Active /\ c.recConn = gen /\ ~c.recCancel
      BY <2>2, <2>4, <3>1
    <3>2. CASE /\ sup.pc \in {"cleanup", "dying"} /\ cleanup.pc = "cancelling"
               /\ h \in cleanup.tasks /\ c.recCancel
      <4>1. UNCHANGED <<sup, cleanup>>
        BY <1>1, <1>2, <2>4, <3>2, CancellingStays
      <4> QED
        BY <2>4, <3>2, <4>1
    <3> QED
      BY <1>2, <1>3, <2>4, <3>1, <3>2 DEF RecoveredHere
  <2> QED
    BY <1>1, <1>6, <2>3, <2>4 DEF Lawful, Recovers
<1> QED
  BY <1>5, <1>6
\* A channel that is to be rejoined stays covered.
LEMMA CoverStays ==
  ASSUME TInv, [Next]_vars, NEW h \in Handles, ~Tends(h), Steady(ch[h], ch'[h])
  PROVE  Covered(h)'
<1> DEFINE c == ch[h]
           d == ch'[h]
<1>1. SUFFICES ASSUME Running', d.state = "rejoining"
               PROVE  d.rec # "none" \/ InLine(h)' \/ (Joining(h)' /\ d.out # "ok")
  BY DEF Covered
<1>2. /\ IInv /\ PInv /\ Session /\ Covered(h) /\ ~stop'
      /\ c.state = "rejoining" => IsRegistered(h)
  BY <1>1, TendedFacts DEF Tended, Running
<1>3. c.state = "rejoining"
  BY <1>1 DEF Steady
<1>4. CASE Connect
  <2>1. h \in {g \in Handles : IsRegistered(g)}
    BY <1>2, <1>3
  <2>2. h \in sup'.todo \cup sup'.optional
    BY <1>2, <1>4, <2>1 DEF Connect, IInv, OthersOK
  <2> QED
    BY <2>2 DEF InLine
<1>5. CASE Running
  <2>1. CASE c.rec # "none"
    BY <2>1 DEF Steady
  <2>2. CASE InLine(h)
    BY <1>1, <1>2, <1>5, <2>2, LineKept
  <2>3. CASE Joining(h) /\ c.out # "ok"
    BY <1>2, <2>3, JoiningKept DEF Steady
  <2> QED
    BY <1>2, <1>3, <1>5, <2>1, <2>2, <2>3 DEF Covered
<1> QED
  BY <1>1, <1>2, <1>4, <1>5, RunningBefore

\* An attempt stays awaited.
LEMMA AwaitStays ==
  ASSUME TInv, [Next]_vars, NEW h \in Handles, ~Tends(h), Steady(ch[h], ch'[h])
  PROVE  Awaited(h)'
<1> DEFINE c == ch[h]
           d == ch'[h]
<1>1. SUFFICES ASSUME d.established, d.out = "pending"
               PROVE  d.rec = "waiting" \/ Joining(h)'
  BY DEF Awaited
<1>2. PInv /\ Session /\ Awaited(h)
  BY TendedFacts DEF Tended
<1>3. c.established /\ c.out = "pending" /\ d.rec = c.rec
  BY <1>1 DEF Steady
<1> QED
  BY <1>1, <1>2, <1>3, JoiningKept DEF Awaited

\* A loss stays reported.
LEMMA ReportStays ==
  ASSUME TInv, [Next]_vars, NEW h \in Handles, ~Tends(h), Steady(ch[h], ch'[h]),
         Rooted(h)'
  PROVE  Reported(h)'
<1> DEFINE c == ch[h]
           d == ch'[h]
<1>1. SUFFICES ASSUME d.established, d.state = "left", d.leave = "none",
                      d.cause \in PermanentCauses \cup {"close"}, d.conn = conn', ~stop'
               PROVE  \/ d.loseStart > 0
                      \/ /\ d.cause # "close" /\ d.out \notin {"ok", "pending"}
                         /\ d.rec = "waiting" \/ Joining(h)'
  BY DEF Reported, GoneHere
<1>2. /\ PInv /\ IInv /\ Session /\ Reported(h) /\ ~stop
      /\ c.conn \in Nat /\ conn \in Nat /\ gen \in Nat /\ c.conn <= gen
  BY <1>1, TendedFacts, StopIsFinal DEF Tended
<1>3. d.conn # 0 /\ d.conn = c.conn
  BY <1>1 DEF Rooted, Steady
<1>4. conn' = conn
  <2>1. conn' # gen + 1
    BY <1>1, <1>2, <1>3
  <2> QED
    BY <1>1, <1>2, <1>3, <2>1, ConnectionMoves DEF SameConnection, NewConnection
<1>5. /\ c.established /\ c.state = d.state /\ c.cause = d.cause /\ c.rec = d.rec
      /\ c.leave = "none"
  BY <1>1 DEF Steady
<1>6. d.loseStart = c.loseStart
  BY <1>1, <1>2 DEF Steady
<1>7. c.out \notin {"ok", "pending"} => d.out \notin {"ok", "pending"}
  BY DEF Steady
<1>8. Joining(h) => Joining(h)'
  BY <1>1, <1>2, JoiningKept
<1>9. GoneHere(h)
  BY <1>1, <1>2, <1>3, <1>4, <1>5 DEF GoneHere
<1> QED
  BY <1>1, <1>2, <1>5, <1>6, <1>7, <1>8, <1>9 DEF Reported

\* At first there is no channel to tend to.
LEMMA InitTended == Init => TInv
<1> SUFFICES ASSUME Init
             PROVE  TInv
  OBVIOUS
<1>1. ServerInv
  BY InitServer
<1>2. AtWork
  BY DEF Init, AtWork
<1>3. ASSUME NEW h \in Handles
      PROVE  Tended(h)
  <2>1. /\ ~ch[h].established /\ ch[h].state = "created" /\ ch[h].rec = "none"
        /\ ~ch[h].cleaned /\ ch[h].out = "pending"
    BY DEF Init, NewChannel
  <2> QED
    BY <2>1 DEF Tended, Shaped, Rooted, RecoveredHere, Covered, Awaited, Reported, GoneHere,
       JoinReady
<1> QED
  BY <1>1, <1>2, <1>3 DEF TInv

\* Every step leaves every channel tended.
LEMMA TendedStays == TInv /\ [Next]_vars => TInv'
<1> SUFFICES ASSUME TInv, [Next]_vars
             PROVE  TInv'
  OBVIOUS
<1>1. PInv /\ Session /\ Tidy
  BY DEF TInv, ServerInv
<1>2. ServerInv' /\ Session' /\ Tidy'
  BY ServerStays DEF TInv, ServerInv
<1>3. AtWork'
  BY AtWorkStays
<1>4. ASSUME NEW h \in Handles
      PROVE  Tended(h)'
  <2>1. CASE Tends(h)
    <3>1. WellTended(h)
      BY <1>2, <2>1, TendsWell
    <3>2. Shaped(h)' /\ Rooted(h)' /\ RecoveredHere(h)'
      BY <1>2, <2>1, <3>1, ShapeStays, RecoveryStays DEF WellTended
    <3> QED
      BY <3>1, <3>2 DEF WellTended, Tended
  <2>2. CASE ~Tends(h)
    <3>1. Steady(ch[h], ch'[h])
      BY <1>1, <2>2, StepSteady
    <3>2. Shaped(h)' /\ Rooted(h)' /\ RecoveredHere(h)'
      BY <1>2, <3>1, ShapeStays, RecoveryStays
    <3>3. Covered(h)' /\ Awaited(h)' /\ Reported(h)'
      BY <2>2, <3>1, <3>2, CoverStays, AwaitStays, ReportStays
    <3> QED
      BY <3>2, <3>3 DEF Tended
  <2> QED
    BY <2>1, <2>2
<1> QED
  BY <1>2, <1>3, <1>4 DEF TInv

LEMMA TendedInvariant == Spec => []TInv
  BY InitTended, TendedStays, PTL DEF Spec

\* No channel is forgotten: while a session is served, each established channel that is
\* not joined has a recovery working on it.  A crash, a timed-out attempt, an attempt
\* that another took over, and the supervisor's rejoining all hand it on (_start_recovery,
\* _handle_rejoin_failure, _run_recovery).
THEOREM NobodyIsOrphaned == Spec => []NoOrphan
<1>1. TInv => NoOrphan
  <2> SUFFICES ASSUME TInv, sup.pc = "serving", IsConnected, routing = "running", ~stop,
                      NEW h \in Handles, ch[h].state = "rejoining"
               PROVE  ch[h].rec # "none"
    BY DEF NoOrphan
  <2>1. Covered(h) /\ Running
    BY TendedFacts DEF Tended, Running
  <2>2. ~InLine(h) /\ ~Joining(h)
    BY DEF TInv, AtWork, InLine, Joining
  <2> QED
    BY <2>1, <2>2 DEF Covered
<1> QED
  BY <1>1, TendedInvariant, PTL

\* Every loss has a reporter: as long as its connection lasts, an established channel
\* that the server closed or rejected for good has a task that reports it, or one that
\* still awaits its failed attempt and will start that task (_start_topic_loss,
\* _lose_topic).
THEOREM EveryLossHasAReporter == Spec => []LossHasAReporter
<1>1. TInv => LossHasAReporter
  <2> SUFFICES ASSUME TInv, NEW h \in Handles, Lost(h), ch[h].conn = conn
               PROVE  ReportPending(h)
    BY DEF LossHasAReporter
  <2>1. Reported(h) /\ ch[h] \in SoundChannel
    BY TendedFacts DEF Tended
  <2>2. GoneHere(h)
    BY DEF GoneHere, Lost
  <2>3. ch[h].loseStart \in Nat /\ ch[h].loseWait \in Nat
    BY <2>1 DEF SoundChannel, Channel
  <2>4. ch[h].loseStart > 0 => ch[h].loseStart + ch[h].loseWait > 0
    BY <2>3
  <2> QED
    BY <2>1, <2>2, <2>4 DEF Reported, ReportPending, Joining
<1> QED
  BY <1>1, TendedInvariant, PTL

=============================================================================
