------------------------- MODULE TopicRuntimeProofs -------------------------
(***************************************************************************)
(* Proofs about TopicRuntime, for every set of handles and topics and      *)
(* every bound: TypeOK, SingleOwner and LeftIsFinal.                       *)
(*                                                                         *)
(* The inductive invariant is IInv.  A step is looked at from two sides:   *)
(* Good says what it does to the channels and the registry, and            *)
(* OthersOK' what it leaves in all the other variables.                    *)
(***************************************************************************)
EXTENDS TopicRuntime, ChannelStateProofs, FiniteSetTheorems, SequenceTheorems, TLAPS

SoundChannels == ch \in [Handles -> SoundChannel]

\* A name is reserved for a handle of that name only.
RegistryOf(reg) ==
  /\ reg \in [Topics -> Handles \cup {NoHandle}]
  /\ \A t \in Topics : reg[t] # NoHandle => TopicOf[reg[t]] = t

RegistryOK == RegistryOf(registry)

\* The supervisor's rejoin is about a handle.
CurrentRejoin ==
  sup.pc \in {"stopping", "joining", "losing"} => sup.cur \in Handles

\* The other conjuncts of TypeOK, and CurrentRejoin.
OthersOK ==
  /\ refs \in Refs
  /\ conn \in Conns /\ gen \in Conns
  /\ cstate \in ClientStates
  /\ stop \in BOOLEAN
  /\ sends \in [failed : BOOLEAN, retired : BOOLEAN]
  /\ ops \subseteq Op
  /\ closer \in BOOLEAN
  /\ routing \in {"none", "running", "ended", "stopped"}
  /\ sup \in [pc : {"connecting", "rejoining", "stopping", "joining", "losing",
                    "serving", "cleanup", "dying", "ended", "exited"},
              cur : Handles \cup {NoHandle},
              todo : SUBSET Handles, optional : SUBSET Handles]
  /\ cleanup \in [pc : {"idle", "cancelling", "closing", "finishing"}, conn : Conns,
                  tasks : SUBSET Handles]
  /\ shut \in {"none", "stopping", "cleanup", "unsubscribe", "leaving",
               "lifecycle", "done"}
  /\ socket \in {"open", "closed"}
  /\ net \in [Topics -> Seq(Frame)]
  /\ member \in [Topics -> Refs]
  /\ CurrentRejoin

\* The inductive invariant.
IInv == SoundChannels /\ RegistryOK /\ SingleOwner /\ OthersOK

\* A step to the channels chs and the registry reg revives no handle and leaves
\* every live one the owner of its name.
Good(chs, reg) ==
  /\ chs \in [Handles -> SoundChannel]
  /\ RegistryOf(reg)
  /\ \A h \in Handles : StaysLeft(ch[h], chs[h])
  /\ \A h \in Handles : chs[h].state \in Live => reg[TopicOf[h]] = h

\* The step admits no channel.
KeepsAll(chs) ==
  /\ chs \in [Handles -> SoundChannel]
  /\ \A h \in Handles : Keeps(ch[h], chs[h])

-----------------------------------------------------------------------------
(* Steps that admit no channel *)

\* Whatever a step does to the channels, as long as it admits none, the owners
\* keep their names.
LEMMA KeptIsGood ==
  ASSUME IInv, NEW chs, KeepsAll(chs)
  PROVE  Good(chs, registry)
  BY DEF IInv, SoundChannels, RegistryOK, SingleOwner, IsRegistered, Live, Good, KeepsAll,
     Keeps

\* A step of one channel.
LEMMA OneChannelKept ==
  ASSUME IInv, NEW h \in Handles, NEW d \in SoundChannel, Keeps(ch[h], d)
  PROVE  KeepsAll([ch EXCEPT ![h] = d])
<1>1. \A g \in Handles : Keeps(ch[g], ch[g])
  BY DEF Keeps, StaysLeft
<1> QED
  BY <1>1 DEF IInv, SoundChannels, KeepsAll

\* A step of no channel.
LEMMA NoChannelKept ==
  ASSUME IInv
  PROVE  KeepsAll(ch)
  BY DEF IInv, SoundChannels, KeepsAll, Keeps, StaysLeft

\* Names are released only for channels that were left.
LEMMA ReleaseIsGood ==
  ASSUME IInv, NEW chs, Good(chs, registry), NEW who, who \subseteq Handles,
         NEW someOps, NEW current
  PROVE  Good(chs, Release(registry, chs, who, someOps, current))
<1> DEFINE reg == Release(registry, chs, who, someOps, current)
<1>1. RegistryOf(reg)
  BY DEF IInv, RegistryOK, RegistryOf, Release
<1>2. ASSUME NEW h \in Handles, chs[h].state \in Live
      PROVE  reg[TopicOf[h]] = h
  <2>1. registry[TopicOf[h]] = h /\ TopicOf[h] \in Topics
    BY <1>2, TopicRuntimeAssumption DEF Good
  <2>2. chs[h].state # "left"
    BY <1>2 DEF Live
  <2> QED
    BY <2>1, <2>2 DEF Release, MayRelease
<1> QED
  BY <1>1, <1>2 DEF Good

\* What becomes of the topics when their connection is lost.
LEMMA FailPendingJoinsKept ==
  ASSUME IInv, NEW chs, KeepsAll(chs)
  PROVE  KeepsAll(FailPendingJoins(chs))
<1>1. \A h \in Handles : FailPendingJoin(chs[h], stop) \in SoundChannel
                         /\ Keeps(ch[h], FailPendingJoin(chs[h], stop))
  BY FailPendingJoinKeeps DEF IInv, OthersOK, KeepsAll, Keeps, StaysLeft
<1> QED
  BY <1>1 DEF FailPendingJoins, KeepsAll

-----------------------------------------------------------------------------
(* The helpers of TopicRuntime *)

\* Starting a recovery changes nothing but its own fields.
LEMMA StartRecoveryKeeps ==
  ASSUME IInv, NEW h \in Handles, NEW c \in SoundChannel, NEW immediate \in BOOLEAN
  PROVE  StartRecovery(c, h, immediate) \in SoundChannel
         /\ Keeps(c, StartRecovery(c, h, immediate))
<1>1. gen \in Conns
  BY DEF IInv, OthersOK
<1> DEFINE d == [c EXCEPT !.rec = "delay", !.recConn = gen, !.recCancel = FALSE]
<1>2. d \in SoundChannel /\ Keeps(c, d)
  <2> DEFINE a == [c EXCEPT !.rec = "delay"]
             b == [a EXCEPT !.recConn = gen]
             e == [b EXCEPT !.recCancel = FALSE]
  <2>1. d = e
    OBVIOUS
  <2>2. a \in SoundChannel /\ Keeps(c, a)
    BY RecoveryKeeps
  <2> HIDE DEF d, a
  <2>3. b \in SoundChannel /\ Keeps(a, b)
    BY <1>1, <2>2, RecConnKeeps
  <2> HIDE DEF b
  <2>4. e \in SoundChannel /\ Keeps(b, e)
    BY <2>3, RecCancelKeeps
  <2> HIDE DEF e
  <2> QED
    BY <2>1, <2>2, <2>3, <2>4 DEF Keeps, StaysLeft
<1>3. StartRecovery(c, h, immediate) \in {c, d}
  BY DEF StartRecovery
<1> QED
  BY <1>2, <1>3 DEF Keeps, StaysLeft

\* A joined channel that is rejoined is failed first.
LEMMA BeforeRejoinKeeps ==
  ASSUME IInv, NEW c \in SoundChannel
  PROVE  BeforeRejoin(c) \in SoundChannel /\ Keeps(c, BeforeRejoin(c))
<1>1. Failed(c, "transport", "socket", stop) \in SoundChannel
      /\ Keeps(c, Failed(c, "transport", "socket", stop))
  BY FailedKeeps DEF IInv, OthersOK, ChannelCauses, JoinOutcomes
<1> QED
  BY <1>1 DEF BeforeRejoin, Keeps, StaysLeft

\* The loop of a recovery touches its own field.
LEMMA TryAgainKeeps ==
  ASSUME NEW h \in Handles, NEW c \in SoundChannel
  PROVE  TryAgain(h, c) \in SoundChannel /\ Keeps(c, TryAgain(h, c))
<1>1. \A pc \in {"delay", "none"} : [c EXCEPT !.rec = pc] \in SoundChannel
                                    /\ Keeps(c, [c EXCEPT !.rec = pc])
  BY DEF SoundChannel, Channel, Keeps, StaysLeft
<1> QED
  BY <1>1 DEF TryAgain

\* An outcome that is failed settles a join or a leave.
LEMMA FailOutcomeKeeps ==
  ASSUME NEW c \in SoundChannel, NEW o, NEW error \in JoinOutcomes
  PROVE  FailOutcome(c, o, error) \in SoundChannel /\ Keeps(c, FailOutcome(c, o, error))
<1>1. Keeps(c, c)
  BY DEF Keeps, StaysLeft
<1> QED
  BY <1>1, SettleJoinKeeps, FailUnsubscribeKeeps DEF FailOutcome

\* Retiring a channel leaves it.
LEMMA RetireChannelKeeps ==
  ASSUME NEW c \in SoundChannel, NEW current
  PROVE  RetireChannel(c, current) \in SoundChannel /\ Keeps(c, RetireChannel(c, current))
<1> DEFINE d == Failed(c, "stop", "channel", TRUE)
<1>1. d \in SoundChannel /\ Keeps(c, d)
  BY FailedKeeps DEF ChannelCauses, JoinOutcomes
<1>2. RetireChannel(c, current) = IF d.conn = current THEN d
                                  ELSE [StartLeave(d, TRUE) EXCEPT !.terminal = TRUE]
  BY DEF RetireChannel
<1> HIDE DEF d
<1>3. StartLeave(d, TRUE) \in SoundChannel /\ Keeps(c, StartLeave(d, TRUE))
  BY <1>1, StartLeaveKeeps DEF Keeps, StaysLeft
<1>4. \A e \in SoundChannel : [e EXCEPT !.terminal = TRUE] \in SoundChannel
                              /\ Keeps(e, [e EXCEPT !.terminal = TRUE])
  BY TerminalKeeps
<1> QED
  BY <1>1, <1>2, <1>3, <1>4 DEF Keeps, StaysLeft

-----------------------------------------------------------------------------
(* Routed frames *)

\* A join reply revives no channel that was left.
LEMMA JoinReplySound ==
  ASSUME IInv, NEW c \in SoundChannel, NEW status, NEW hookOk \in BOOLEAN
  PROVE  JoinReply(c, status, hookOk) \in SoundChannel
         /\ StaysLeft(c, JoinReply(c, status, hookOk))
<1> DEFINE d == [c EXCEPT !.terminal = TRUE]
<1>1. d \in SoundChannel /\ Keeps(c, d)
  BY TerminalKeeps
<1>2. \A e \in {c, d}, cause \in {"rejected", "configuration"} :
        Failed(e, cause, "channel", stop) \in SoundChannel
        /\ Keeps(e, Failed(e, cause, "channel", stop))
  <2> HIDE DEF d
  <2> QED BY <1>1, FailedKeeps DEF IInv, OthersOK, ChannelCauses, JoinOutcomes
<1>3. Accepted(c) \in SoundChannel /\ StaysLeft(c, Accepted(c))
  BY AcceptedSound
<1> QED
  BY <1>1, <1>2, <1>3 DEF JoinReply, Keeps, StaysLeft

\* The answer of a leave settles unsubscribe_completed.
LEMMA LeaveReplySound ==
  ASSUME NEW c \in SoundChannel, NEW status
  PROVE  LeaveReply(c, status) \in SoundChannel /\ StaysLeft(c, LeaveReply(c, status))
<1>1. \A result \in {"ok", "failed"} : [c EXCEPT !.unsub = result] \in SoundChannel
                                       /\ StaysLeft(c, [c EXCEPT !.unsub = result])
  BY DEF SoundChannel, Channel, StaysLeft
<1> QED
  BY <1>1 DEF LeaveReply, StaysLeft

\* A crash or a close ends a channel or starts its recovery.
LEMMA LifecycleEventSound ==
  ASSUME IInv, NEW h \in Handles, NEW c \in SoundChannel, NEW event
  PROVE  LifecycleEvent(c, h, event) \in SoundChannel
         /\ StaysLeft(c, LifecycleEvent(c, h, event))
<1> DEFINE ended == [c EXCEPT !.terminal = TRUE]
           failed == Failed(ended, IF event = "error" THEN "crash" ELSE "close",
                            "channel", stop)
<1>1. ended \in SoundChannel /\ Keeps(c, ended)
  BY TerminalKeeps
<1>2. stop \in BOOLEAN
  BY DEF IInv, OthersOK
<1>3. failed \in SoundChannel /\ Keeps(ended, failed)
  <2> HIDE DEF ended
  <2> QED BY <1>1, <1>2, FailedKeeps DEF ChannelCauses, JoinOutcomes
<1>4. LifecycleEvent(c, h, event) =
        IF c.state = "left" THEN ended
        ELSE IF ~c.established THEN failed
        ELSE IF event = "error" THEN StartRecovery(failed, h, FALSE)
        ELSE StartTopicLoss(failed, stop)
  BY DEF LifecycleEvent
<1> HIDE DEF ended, failed
<1>5. StartRecovery(failed, h, FALSE) \in SoundChannel
  BY <1>3, StartRecoveryKeeps
<1>6. StartTopicLoss(failed, stop) \in SoundChannel
  BY <1>2, <1>3, StartTopicLossKeeps
<1> QED
  BY <1>1, <1>3, <1>4, <1>5, <1>6 DEF Keeps, StaysLeft

\* Nothing that arrives revives a channel that was left.
LEMMA ControlSound ==
  ASSUME IInv, NEW h \in Handles, NEW c \in SoundChannel, NEW m, NEW hookOk \in BOOLEAN
  PROVE  Control(c, h, m, hookOk) \in SoundChannel
         /\ StaysLeft(c, Control(c, h, m, hookOk))
<1>1. LifecycleEvent(c, h, m.event) \in SoundChannel
      /\ StaysLeft(c, LifecycleEvent(c, h, m.event))
  BY LifecycleEventSound
<1>2. LeaveReply(c, m.status) \in SoundChannel /\ StaysLeft(c, LeaveReply(c, m.status))
  BY LeaveReplySound
<1>3. JoinReply(c, m.status, hookOk) \in SoundChannel
      /\ StaysLeft(c, JoinReply(c, m.status, hookOk))
  BY JoinReplySound
<1> QED
  BY <1>1, <1>2, <1>3 DEF Control, StaysLeft

-----------------------------------------------------------------------------
(* The channels and the registry, action by action *)

\* A join below its bound has a ref.
LEMMA NextJoinRef ==
  ASSUME IInv, refs < MaxJoin
  PROVE  refs + 1 \in Refs
<1>1. Cardinality(Handles) \in Nat
  BY TopicRuntimeAssumption, FS_CardinalityType
<1> QED
  BY <1>1, TopicRuntimeAssumption, BoundsAssumption DEF IInv, OthersOK, Refs

\* One channel changes, and none is admitted.
LEMMA OneChannelGood ==
  ASSUME IInv, NEW h \in Handles,
         ch' = [ch EXCEPT ![h] = ch'[h]], ch'[h] \in SoundChannel, Keeps(ch[h], ch'[h]),
         registry' = registry
  PROVE  Good(ch', registry')
  BY OneChannelKept, KeptIsGood

\* Starting a join on a registered handle is no admission of another one.
LEMMA StartJoinGood ==
  ASSUME IInv, NEW h \in Handles, NEW c \in SoundChannel, NEW paramsOk \in BOOLEAN,
         StaysLeft(ch[h], c), registry' = registry \/ registry[TopicOf[h]] = NoHandle,
         registry' = [registry EXCEPT ![TopicOf[h]] = h], StartJoin(h, c, paramsOk)
  PROVE  Good(ch', registry')
<1>1. ParamsFailure(c, stop) \in SoundChannel /\ Keeps(c, ParamsFailure(c, stop))
  BY ParamsFailureKeeps DEF IInv, OthersOK
<1>2. PICK d \in SoundChannel : StaysLeft(ch[h], d) /\ ch' = [ch EXCEPT ![h] = d]
  BY <1>1 DEF StartJoin, Keeps, StaysLeft
<1>3. ch' \in [Handles -> SoundChannel] /\ \A g \in Handles : StaysLeft(ch[g], ch'[g])
  BY <1>2 DEF IInv, SoundChannels, StaysLeft
<1>4. RegistryOf(registry')
  BY TopicRuntimeAssumption DEF IInv, RegistryOK, RegistryOf
<1>5. ASSUME NEW g \in Handles, ch'[g].state \in Live
      PROVE  registry'[TopicOf[g]] = g
  <2>1. TopicOf[g] \in Topics /\ TopicOf[h] \in Topics
    BY TopicRuntimeAssumption
  <2>2. CASE g = h
    BY <2>1, <2>2 DEF IInv, RegistryOK, RegistryOf
  <2>3. CASE g # h
    <3>1. registry[TopicOf[g]] = g
      BY <1>2, <1>5, <2>3 DEF IInv, SoundChannels, SingleOwner, IsRegistered, Live
    <3>2. registry[TopicOf[g]] # NoHandle
      BY <3>1, TopicRuntimeAssumption
    <3> QED
      BY <2>1, <3>1, <3>2 DEF IInv, RegistryOK, RegistryOf
  <2> QED
    BY <2>2, <2>3
<1> QED
  BY <1>3, <1>4, <1>5 DEF Good

\* The steps of a send task.
LEMMA SendGood ==
  ASSUME IInv, NEW o \in ops, SendStep(o) \/ SendReturns(o)
  PROVE  Good(ch', registry')
<1> USE DEF IInv, OthersOK
<1>1. o.h \in Handles /\ registry' = registry
  BY DEF Op, SendStep, Submit, SendFails, SendCancelled, SendReturns
<1>2. ASSUME NEW c \in SoundChannel, Keeps(ch[o.h], c), NEW error \in JoinOutcomes
      PROVE  KeepsAll([ch EXCEPT ![o.h] = FailOutcome(c, o, error)])
  <2>1. FailOutcome(c, o, error) \in SoundChannel /\ Keeps(c, FailOutcome(c, o, error))
    BY FailOutcomeKeeps
  <2> QED
    BY <1>1, <1>2, <2>1, OneChannelKept DEF Keeps, StaysLeft
<1>3. ASSUME NEW chs, KeepsAll(chs), NotifyFailure(chs)
      PROVE  KeepsAll(ch')
  BY <1>3, FailPendingJoinsKept DEF NotifyFailure
<1>4. ch[o.h] \in SoundChannel /\ Keeps(ch[o.h], ch[o.h])
  BY <1>1 DEF SoundChannels, Keeps, StaysLeft
<1>5. [ch[o.h] EXCEPT !.submitted = TRUE] \in SoundChannel
      /\ Keeps(ch[o.h], [ch[o.h] EXCEPT !.submitted = TRUE])
  BY <1>4 DEF SoundChannel, Channel, Keeps, StaysLeft
<1>6. {"channel", "socket"} \subseteq JoinOutcomes
  BY DEF JoinOutcomes
<1>7. ASSUME Submit(o)
      PROVE  KeepsAll(ch')
  <2> DEFINE written == IF o.kind = "join" THEN [ch[o.h] EXCEPT !.submitted = TRUE]
                                           ELSE ch[o.h]
  <2>1. CASE ch' = ch
    BY <2>1, NoChannelKept
  <2>2. CASE ch' = [ch EXCEPT ![o.h] = FailOutcome(ch[o.h], o, "channel")]
    BY <1>2, <1>4, <1>6, <2>2
  <2>3. CASE NotifyFailure([ch EXCEPT ![o.h] = FailOutcome(written, o, "socket")])
    BY <1>2, <1>3, <1>4, <1>5, <1>6, <2>3
  <2>4. CASE ch' = [ch EXCEPT ![o.h] = written]
    BY <1>1, <1>4, <1>5, <2>4, OneChannelKept
  <2> QED
    BY <1>7, <2>1, <2>2, <2>3, <2>4 DEF Submit
<1>8. ASSUME SendFails(o)
      PROVE  KeepsAll(ch')
  BY <1>2, <1>3, <1>4, <1>6, <1>8 DEF SendFails
<1>9. KeepsAll(ch')
  BY <1>7, <1>8, NoChannelKept DEF SendStep, SendCancelled, SendReturns
<1> QED
  BY <1>1, <1>9, KeptIsGood

\* A deadline.
LEMMA ExpireGood ==
  ASSUME IInv, NEW o \in Timers, Expire(o)
  PROVE  Good(ch', registry')
<1>1. o.h \in Handles /\ registry' = registry
  BY DEF IInv, OthersOK, Op, Timers, Expire
<1> DEFINE late == [ch EXCEPT ![o.h] = FailOutcome(ch[o.h], o, "timeout")]
<1>2. FailOutcome(ch[o.h], o, "timeout") \in SoundChannel
      /\ Keeps(ch[o.h], FailOutcome(ch[o.h], o, "timeout"))
  BY <1>1, FailOutcomeKeeps DEF IInv, SoundChannels, JoinOutcomes
<1>3. KeepsAll(late)
  BY <1>1, <1>2, OneChannelKept
<1>4. ch' = late \/ NotifyFailure(late)
  BY DEF Expire
<1> HIDE DEF late
<1>5. KeepsAll(ch')
  BY <1>3, <1>4, FailPendingJoinsKept DEF NotifyFailure
<1> QED
  BY <1>1, <1>5, KeptIsGood

\* Channel.join reserves a free name; a live handle owns its own, so none loses it.
LEMMA JoinGood ==
  ASSUME IInv, NEW h \in Handles, NEW ok \in ParamsResults, Join(h, ok)
  PROVE  Good(ch', registry')
<1> DEFINE c == [ch[h] EXCEPT !.state = "joining", !.conn = conn,
                              !.joinRef = refs + 1, !.join = "waiting"]
<1>1. refs + 1 \in Refs
  BY NextJoinRef DEF Join
<1>2. ch[h] \in SoundChannel /\ ch[h].state = "created"
  BY DEF IInv, SoundChannels, Join
<1>3. c \in SoundChannel /\ StaysLeft(ch[h], c)
  BY <1>1, <1>2 DEF IInv, OthersOK, SoundChannel, Channel, ChannelStates, StaysLeft
<1>4. ok \in BOOLEAN
  BY DEF ParamsResults
<1>5. StartJoin(h, c, ok)
  BY DEF Join
<1> HIDE DEF c
<1> QED
  BY <1>3, <1>4, <1>5, StartJoinGood DEF Join, NameIsFree

\* The caller of join and the application.
LEMMA JoinCallerGood ==
  ASSUME IInv, NEW h \in Handles,
         JoinResumes(h) \/ JoinCancelled(h) \/ JoinRaises(h) \/ Leave(h)
  PROVE  Good(ch', registry')
<1>1. ch[h] \in SoundChannel /\ stop \in BOOLEAN /\ DOMAIN ch = Handles
  BY DEF IInv, SoundChannels, OthersOK
<1>2. ch' = [ch EXCEPT ![h] = ch'[h]] /\ registry' = registry
  BY <1>1 DEF JoinResumes, JoinCancelled, JoinRaises, Leave
<1>3. ASSUME JoinResumes(h)
      PROVE  ch'[h] \in SoundChannel /\ Keeps(ch[h], ch'[h])
  <2> DEFINE c == JoinFailure(ch[h], stop)
  <2>1. c \in SoundChannel /\ Keeps(ch[h], c)
    BY <1>1, JoinFailureKeeps
  <2>2. ch'[h] \in {[ch[h] EXCEPT !.join = "done"],
                    [StartLeave(c, stop) EXCEPT !.join = "failing"]}
    BY <1>1, <1>3 DEF JoinResumes
  <2> HIDE DEF c
  <2>3. StartLeave(c, stop) \in SoundChannel /\ Keeps(ch[h], StartLeave(c, stop))
    BY <1>1, <2>1, StartLeaveKeeps, KeepsTransitive
  <2>4. [StartLeave(c, stop) EXCEPT !.join = "failing"] \in SoundChannel
        /\ Keeps(ch[h], [StartLeave(c, stop) EXCEPT !.join = "failing"])
    BY <2>3, JoinCallerKeeps, KeepsTransitive
  <2>5. [ch[h] EXCEPT !.join = "done"] \in SoundChannel
        /\ Keeps(ch[h], [ch[h] EXCEPT !.join = "done"])
    BY <1>1, JoinCallerKeeps
  <2> QED
    BY <2>2, <2>4, <2>5
<1>4. ASSUME JoinCancelled(h)
      PROVE  ch'[h] \in SoundChannel /\ Keeps(ch[h], ch'[h])
  <2> DEFINE c == CancelJoin(ch[h])
  <2>1. c \in SoundChannel /\ Keeps(ch[h], c)
    BY <1>1, CancelJoinKeeps
  <2>2. ch'[h] = [StartLeave(c, stop) EXCEPT !.join = "failing"]
    BY <1>1, <1>4 DEF JoinCancelled
  <2> HIDE DEF c
  <2>3. StartLeave(c, stop) \in SoundChannel /\ Keeps(ch[h], StartLeave(c, stop))
    BY <1>1, <2>1, StartLeaveKeeps, KeepsTransitive
  <2>4. [StartLeave(c, stop) EXCEPT !.join = "failing"] \in SoundChannel
        /\ Keeps(ch[h], [StartLeave(c, stop) EXCEPT !.join = "failing"])
    BY <2>3, JoinCallerKeeps, KeepsTransitive
  <2> QED
    BY <2>2, <2>4
<1>5. ASSUME JoinRaises(h)
      PROVE  ch'[h] \in SoundChannel /\ Keeps(ch[h], ch'[h])
  <2>1. ch'[h] = [ch[h] EXCEPT !.join = "done"]
    BY <1>1, <1>5 DEF JoinRaises
  <2> QED
    BY <1>1, <2>1, JoinCallerKeeps
<1>6. ASSUME Leave(h)
      PROVE  ch'[h] \in SoundChannel /\ Keeps(ch[h], ch'[h])
  <2>1. ch'[h] \in {[ch[h] EXCEPT !.state = "left", !.cause = "leave"],
                    StartLeave(ch[h], stop)}
    BY <1>1, <1>6 DEF Leave
  <2> QED
    BY <1>1, <2>1, LeftOnTheSpot, StartLeaveKeeps
<1> QED
  BY <1>2, <1>3, <1>4, <1>5, <1>6, OneChannelGood

\* The leave task; its end may release the name.
LEMMA LeaveTaskGood ==
  ASSUME IInv, NEW h \in Handles,
         LeaveStarts(h) \/ LeaveAnswered(h) \/ LeaveFinishes(h)
  PROVE  Good(ch', registry')
<1>1. ch[h] \in SoundChannel /\ DOMAIN ch = Handles /\ refs \in Refs
  BY DEF IInv, SoundChannels, OthersOK
<1> DEFINE cleaning == [ch[h] EXCEPT !.leave = "cleanup",
                                     !.recCancel = (ch[h].rec # "none")]
<1>2. cleaning \in SoundChannel /\ Keeps(ch[h], cleaning)
  BY <1>1, LeaveCleanupKeeps, (ch[h].rec # "none") \in BOOLEAN, Zenon
<1>3. ASSUME LeaveStarts(h)
      PROVE  Good(ch', registry')
  <2>1. ch' = [ch EXCEPT ![h] = ch'[h]] /\ registry' = registry
    BY <1>1, <1>3 DEF LeaveStarts
  <2>2. CASE refs < MaxRef /\ ch'[h] = [ch[h] EXCEPT !.leave = "sending",
                                                     !.leaveRef = refs + 1]
    <3>1. refs + 1 \in Refs
      BY <1>1, <2>2, BoundsAssumption DEF Refs
    <3> DEFINE d == [ch[h] EXCEPT !.leave = "sending", !.leaveRef = refs + 1]
    <3>2. d \in SoundChannel /\ Keeps(ch[h], d)
      BY <1>1, <3>1, LeaveSendingKeeps
    <3>3. ch' = [ch EXCEPT ![h] = d]
      BY <2>1, <2>2
    <3> HIDE DEF d
    <3> QED
      BY <2>1, <3>2, <3>3, OneChannelKept, KeptIsGood
  <2>3. CASE ch'[h] \in {cleaning, [cleaning EXCEPT !.terminal = TRUE]}
    <3> HIDE DEF cleaning
    <3> QED
      BY <1>2, <2>1, <2>3, TerminalKeeps, KeepsTransitive, OneChannelGood
  <2> QED
    BY <1>1, <1>3, <2>2, <2>3 DEF LeaveStarts
<1>4. ASSUME LeaveAnswered(h)
      PROVE  Good(ch', registry')
  <2>1. ch' = [ch EXCEPT ![h] = cleaning] /\ registry' = registry
    BY <1>4 DEF LeaveAnswered
  <2> HIDE DEF cleaning
  <2> QED
    BY <1>2, <2>1, OneChannelKept, KeptIsGood
<1>5. ASSUME LeaveFinishes(h)
      PROVE  Good(ch', registry')
  <2> DEFINE d == [ch[h] EXCEPT !.leave = "done", !.cleaned = TRUE]
  <2>1. ch' = [ch EXCEPT ![h] = d] /\ registry' = Release(registry, ch', {h}, ops, conn)
    BY <1>5 DEF LeaveFinishes
  <2>2. d \in SoundChannel /\ Keeps(ch[h], d)
    BY <1>1, LeaveDoneKeeps
  <2> HIDE DEF d
  <2> QED
    BY <2>1, <2>2, OneChannelKept, KeptIsGood, ReleaseIsGood
<1> QED
  BY <1>3, <1>4, <1>5

\* A recovery's steps, except for its rejoin.
LEMMA RecoveryGood ==
  ASSUME IInv, NEW h \in Handles,
         RecoverTries(h) \/ RecoverResumes(h) \/ RecoverCancelled(h)
  PROVE  Good(ch', registry')
<1>1. ch[h] \in SoundChannel /\ DOMAIN ch = Handles /\ stop \in BOOLEAN
  BY DEF IInv, SoundChannels, OthersOK
<1>2. ch' = [ch EXCEPT ![h] = ch'[h]] /\ registry' = registry
  BY <1>1 DEF RecoverTries, RecoverResumes, RecoverCancelled
<1>3. ASSUME NEW c \in SoundChannel, Keeps(ch[h], c), NEW pc \in {"none", "stopping"}
      PROVE  /\ [c EXCEPT !.rec = pc] \in SoundChannel
             /\ Keeps(ch[h], [c EXCEPT !.rec = pc])
  BY <1>3, RecoveryKeeps, KeepsTransitive
<1>4. [ch[h] EXCEPT !.rec = "none"] \in SoundChannel
      /\ Keeps(ch[h], [ch[h] EXCEPT !.rec = "none"])
  BY <1>1, <1>3, KeepsItself
<1>5. ASSUME RecoverTries(h)
      PROVE  ch'[h] \in SoundChannel /\ Keeps(ch[h], ch'[h])
  <2>1. ch'[h] \in {[BeforeRejoin(ch[h]) EXCEPT !.rec = "stopping"],
                    [ch[h] EXCEPT !.rec = "none"]}
    BY <1>1, <1>5 DEF RecoverTries
  <2>2. [BeforeRejoin(ch[h]) EXCEPT !.rec = "stopping"] \in SoundChannel
        /\ Keeps(ch[h], [BeforeRejoin(ch[h]) EXCEPT !.rec = "stopping"])
    BY <1>1, <1>3, BeforeRejoinKeeps
  <2> QED
    BY <1>4, <2>1, <2>2
<1>6. ASSUME RecoverResumes(h)
      PROVE  ch'[h] \in SoundChannel /\ Keeps(ch[h], ch'[h])
  <2> DEFINE c == JoinFailure(ch[h], stop)
  <2>1. c \in SoundChannel /\ Keeps(ch[h], c)
    BY <1>1, JoinFailureKeeps
  <2>2. ch'[h] \in {[c EXCEPT !.rec = "none"], TryAgain(h, c),
                    [StartTopicLoss(c, stop) EXCEPT !.rec = "none"]}
    BY <1>1, <1>6 DEF RecoverResumes
  <2> HIDE DEF c
  <2>3. StartTopicLoss(c, stop) \in SoundChannel /\ Keeps(ch[h], StartTopicLoss(c, stop))
    BY <1>1, <2>1, StartTopicLossKeeps, KeepsTransitive
  <2>4. [c EXCEPT !.rec = "none"] \in SoundChannel /\ Keeps(ch[h], [c EXCEPT !.rec = "none"])
    BY <1>3, <2>1
  <2>5. [StartTopicLoss(c, stop) EXCEPT !.rec = "none"] \in SoundChannel
        /\ Keeps(ch[h], [StartTopicLoss(c, stop) EXCEPT !.rec = "none"])
    BY <1>3, <2>3
  <2>6. TryAgain(h, c) \in SoundChannel /\ Keeps(ch[h], TryAgain(h, c))
    BY <2>1, TryAgainKeeps, KeepsTransitive
  <2> QED
    BY <2>2, <2>4, <2>5, <2>6
<1>7. ASSUME RecoverCancelled(h)
      PROVE  ch'[h] \in SoundChannel /\ Keeps(ch[h], ch'[h])
  <2>1. ch'[h] \in {[CancelJoin(ch[h]) EXCEPT !.rec = "none"], [ch[h] EXCEPT !.rec = "none"]}
    BY <1>1, <1>7 DEF RecoverCancelled
  <2>2. [CancelJoin(ch[h]) EXCEPT !.rec = "none"] \in SoundChannel
        /\ Keeps(ch[h], [CancelJoin(ch[h]) EXCEPT !.rec = "none"])
    BY <1>1, <1>3, CancelJoinKeeps
  <2> QED
    BY <1>4, <2>1, <2>2
<1> QED
  BY <1>2, <1>5, <1>6, <1>7, OneChannelGood

\* A recovery or the supervisor restarts an attempt of a channel that was not left.
LEMMA RestartGood ==
  ASSUME IInv, NEW h \in Handles, ShouldRejoin(h), NEW c \in SoundChannel,
         NEW paramsOk \in BOOLEAN, StartJoin(h, c, paramsOk), registry' = registry
  PROVE  Good(ch', registry')
<1>1. registry' = [registry EXCEPT ![TopicOf[h]] = h]
  BY TopicRuntimeAssumption DEF IInv, RegistryOK, RegistryOf, ShouldRejoin, IsRegistered
<1>2. StaysLeft(ch[h], c)
  BY DEF ShouldRejoin, StaysLeft
<1> QED
  BY <1>1, <1>2, StartJoinGood

\* The rejoin of a recovery.
LEMMA RecoverRejoinsGood ==
  ASSUME IInv, NEW h \in Handles, NEW ok \in ParamsResults, RecoverRejoins(h, ok)
  PROVE  Good(ch', registry')
<1>1. ch[h] \in SoundChannel /\ conn \in Conns /\ ok \in BOOLEAN /\ registry' = registry
  BY DEF IInv, SoundChannels, OthersOK, ParamsResults, RecoverRejoins
<1>2. CASE ShouldRejoin(h)
  <2>1. refs + 1 \in Refs
    BY <1>2, NextJoinRef DEF RecoverRejoins
  <2>2. [Restart(ch[h], conn, refs + 1) EXCEPT !.rec = "waiting"] \in SoundChannel
    BY <1>1, <2>1, RestartSound, RecoveryKeeps
  <2>3. StartJoin(h, [Restart(ch[h], conn, refs + 1) EXCEPT !.rec = "waiting"], ok)
    BY <1>2 DEF RecoverRejoins
  <2> QED
    BY <1>1, <1>2, <2>2, <2>3, RestartGood
<1>3. CASE ~ShouldRejoin(h)
  <2>1. ch' = [ch EXCEPT ![h] = [ch[h] EXCEPT !.rec = "none"]]
    BY <1>3 DEF RecoverRejoins
  <2> QED
    BY <1>1, <2>1, RecoveryKeeps, OneChannelKept, KeptIsGood
<1> QED
  BY <1>2, <1>3

\* The tasks of a loss.
LEMMA LossGood ==
  ASSUME IInv, NEW h \in Handles, LoseStarts(h) \/ LoseReports(h)
  PROVE  Good(ch', registry')
<1>1. ch[h] \in SoundChannel /\ DOMAIN ch = Handles /\ stop \in BOOLEAN
  BY DEF IInv, SoundChannels, OthersOK
<1>2. ch' = [ch EXCEPT ![h] = ch'[h]] /\ registry' = registry
  BY <1>1 DEF LoseStarts, LoseReports
<1>3. ASSUME LoseStarts(h)
      PROVE  ch'[h] \in SoundChannel /\ Keeps(ch[h], ch'[h])
  <2> DEFINE c == [ch[h] EXCEPT !.loseStart = ch[h].loseStart - 1]
             d == StartLeave(c, stop)
  <2>1. ch[h].loseStart - 1 \in Nat
    BY <1>1, <1>3 DEF LoseStarts, SoundChannel, Channel
  <2>2. c \in SoundChannel /\ Keeps(ch[h], c)
    BY <1>1, <2>1, LoseStartKeeps
  <2>3. ch'[h] \in {c, [d EXCEPT !.loseWait = d.loseWait + 1]}
    BY <1>1, <1>3 DEF LoseStarts
  <2> HIDE DEF c
  <2>4. d \in SoundChannel /\ Keeps(ch[h], d)
    BY <1>1, <2>2, StartLeaveKeeps, KeepsTransitive
  <2> HIDE DEF d
  <2>5. d.loseWait + 1 \in Nat
    BY <2>4 DEF SoundChannel, Channel
  <2>6. [d EXCEPT !.loseWait = d.loseWait + 1] \in SoundChannel
        /\ Keeps(ch[h], [d EXCEPT !.loseWait = d.loseWait + 1])
    BY <2>4, <2>5, LoseWaitKeeps, KeepsTransitive
  <2> QED
    BY <2>2, <2>3, <2>6
<1>4. ASSUME LoseReports(h)
      PROVE  ch'[h] \in SoundChannel /\ Keeps(ch[h], ch'[h])
  <2>1. ch[h].loseWait - 1 \in Nat
    BY <1>1, <1>4 DEF LoseReports, SoundChannel, Channel
  <2>2. ch'[h] = Report(ch[h])
    BY <1>1, <1>4 DEF LoseReports
  <2>3. ch[h].calls + 1 \in Nat
    BY <1>1 DEF SoundChannel, Channel
  <2> DEFINE m == ch[h].loseWait - 1
             n == ch[h].calls + 1
  <2>4. ch'[h] \in {[ch[h] EXCEPT !.loseWait = m],
                    [ch[h] EXCEPT !.loseWait = m, !.reported = TRUE, !.calls = n]}
    BY <2>2 DEF Report
  <2> HIDE DEF m, n
  <2>5. [ch[h] EXCEPT !.loseWait = m] \in SoundChannel
        /\ Keeps(ch[h], [ch[h] EXCEPT !.loseWait = m])
    BY <1>1, <2>1, LoseWaitKeeps DEF m
  <2>6. [ch[h] EXCEPT !.loseWait = m, !.reported = TRUE, !.calls = n] \in SoundChannel
        /\ Keeps(ch[h], [ch[h] EXCEPT !.loseWait = m, !.reported = TRUE, !.calls = n])
    BY <1>1, <2>1, <2>3, LossReportKeeps DEF m, n
  <2> QED
    BY <2>4, <2>5, <2>6
<1> QED
  BY <1>2, <1>3, <1>4, OneChannelGood

\* A routed frame.  It may join a channel, and only the owner of the name it
\* came for; it may release the name of one that was left.
LEMMA RouteGood ==
  ASSUME IInv, NEW t \in Topics, NEW ok \in HookResults, Route(t, ok)
  PROVE  Good(ch', registry')
<1> DEFINE m == Head(net[t])
           h == registry[t]
<1>1. ok \in BOOLEAN
  BY DEF HookResults
<1>2. CASE ch' = ch /\ registry' = registry
  BY <1>2, NoChannelKept, KeptIsGood
<1>3. CASE /\ h # NoHandle /\ IsOnCurrentConnection(h)
           /\ ch' = [ch EXCEPT ![h] = Control(ch[h], h, m, ok)]
           /\ registry' = IF ch[h].state = "left" /\ ch'[h].terminal
                          THEN Release(registry, ch', {h}, ops, conn) ELSE registry
  <2>1. h \in Handles /\ ch[h] \in SoundChannel
    BY <1>3 DEF IInv, RegistryOK, RegistryOf, SoundChannels
  <2>2. Control(ch[h], h, m, ok) \in SoundChannel
        /\ StaysLeft(ch[h], Control(ch[h], h, m, ok))
    BY <1>1, <2>1, ControlSound
  <2>3. registry[TopicOf[h]] = h
    BY <1>3 DEF IInv, RegistryOK, RegistryOf
  <2> HIDE DEF h, m
  <2>4. ch' \in [Handles -> SoundChannel] /\ \A g \in Handles : StaysLeft(ch[g], ch'[g])
    BY <1>3, <2>1, <2>2 DEF IInv, SoundChannels, StaysLeft
  <2>5. \A g \in Handles : ch'[g].state \in Live => registry[TopicOf[g]] = g
    BY <1>3, <2>1, <2>2, <2>3 DEF IInv, SoundChannels, SingleOwner, IsRegistered, Live
  <2>6. Good(ch', registry)
    BY <2>4, <2>5 DEF IInv, RegistryOK, Good
  <2> QED
    BY <1>3, <2>1, <2>6, ReleaseIsGood
<1> QED
  BY <1>2, <1>3 DEF Route

\* The end of routing, and the cleanup that a session's end or shutdown begins.
LEMMA ConnectionLostGood ==
  ASSUME IInv, RoutingStopped \/ EndSession \/ ShutdownCleansUp
  PROVE  Good(ch', registry')
<1>1. registry' = registry
  BY DEF RoutingStopped, EndSession, ShutdownCleansUp
<1> DEFINE failing == FailPendingJoins(ch)
<1>2. KeepsAll(failing)
  BY NoChannelKept, FailPendingJoinsKept
<1>3. ASSUME RoutingStopped
      PROVE  KeepsAll(ch')
  BY <1>2, <1>3, NoChannelKept DEF RoutingStopped
<1>4. ASSUME CleanupBegins
      PROVE  KeepsAll(ch')
  <2>1. PICK recoveries :
          ch' = [h \in Handles |-> IF h \in recoveries
                                   THEN [failing[h] EXCEPT !.recCancel = TRUE]
                                   ELSE failing[h]]
    BY <1>4 DEF CleanupBegins
  <2> HIDE DEF failing
  <2>2. \A h \in Handles : failing[h] \in SoundChannel /\ Keeps(ch[h], failing[h])
    BY <1>2 DEF KeepsAll
  <2>3. \A h \in Handles :
          [failing[h] EXCEPT !.recCancel = TRUE] \in SoundChannel
          /\ Keeps(ch[h], [failing[h] EXCEPT !.recCancel = TRUE])
    BY <2>2, RecCancelKeeps, KeepsTransitive
  <2> QED
    BY <2>1, <2>2, <2>3 DEF KeepsAll
<1> QED
  BY <1>1, <1>3, <1>4, KeptIsGood DEF EndSession, ShutdownCleansUp

\* The rejoins of a new session, except for the restart.
LEMMA RejoinGood ==
  ASSUME IInv,
         (\E h \in Handles : RejoinNext(h)) \/ RejoinResumes \/ RejoinLost \/ RejoinDone
  PROVE  Good(ch', registry')
<1>1. /\ \A h \in Handles : ch[h] \in SoundChannel
      /\ DOMAIN ch = Handles /\ stop \in BOOLEAN
      /\ CurrentRejoin
  BY DEF IInv, SoundChannels, OthersOK
<1>2. registry' = registry
  BY DEF RejoinNext, RejoinResumes, RejoinLost, RejoinDone
<1>3. ASSUME NEW h \in Handles, NEW d \in SoundChannel, Keeps(ch[h], d)
      PROVE  KeepsAll([ch EXCEPT ![h] = d])
  BY <1>3, OneChannelKept
<1>4. ASSUME NEW h \in Handles, RejoinNext(h)
      PROVE  KeepsAll(ch')
  <2>1. ch' = ch \/ ch' = [ch EXCEPT ![h] = BeforeRejoin(ch[h])]
    BY <1>4 DEF RejoinNext
  <2> QED
    BY <1>1, <1>3, <2>1, NoChannelKept, BeforeRejoinKeeps
<1>5. ASSUME RejoinResumes
      PROVE  KeepsAll(ch')
  <2> DEFINE h == sup.cur
             c == JoinFailure(ch[h], stop)
  <2>1. h \in Handles
    BY <1>1, <1>5 DEF RejoinResumes, CurrentRejoin
  <2>2. c \in SoundChannel /\ Keeps(ch[h], c)
    BY <1>1, <2>1, JoinFailureKeeps
  <2>3. \/ ch' = ch
        \/ ch' = [ch EXCEPT ![h] = c]
        \/ ch' = [ch EXCEPT ![h] = StartLeave(c, stop)]
        \/ ch' = [ch EXCEPT ![h] = StartRecovery(c, h, FALSE)]
    BY <1>5 DEF RejoinResumes
  <2> HIDE DEF h, c
  <2>4. StartLeave(c, stop) \in SoundChannel /\ Keeps(ch[h], StartLeave(c, stop))
    BY <1>1, <2>2, StartLeaveKeeps, KeepsTransitive
  <2>5. StartRecovery(c, h, FALSE) \in SoundChannel
        /\ Keeps(ch[h], StartRecovery(c, h, FALSE))
    BY <2>1, <2>2, StartRecoveryKeeps, KeepsTransitive
  <2> QED
    BY <1>3, <2>1, <2>2, <2>3, <2>4, <2>5, NoChannelKept
<1>6. ASSUME RejoinLost
      PROVE  KeepsAll(ch')
  <2> DEFINE h == sup.cur
             n == ch[h].loseWait + 1
  <2>1. h \in Handles
    BY <1>1, <1>6 DEF RejoinLost, CurrentRejoin
  <2>2. n \in Nat
    BY <1>1, <2>1 DEF SoundChannel, Channel
  <2>3. ch' = [ch EXCEPT ![h] = [ch[h] EXCEPT !.loseWait = n]]
    BY <1>6 DEF RejoinLost
  <2> HIDE DEF h, n
  <2> QED
    BY <1>1, <1>3, <2>1, <2>2, <2>3, LoseWaitKeeps
<1>7. ASSUME RejoinDone
      PROVE  KeepsAll(ch')
  <2>1. \A h \in Handles : StartRecovery(ch[h], h, TRUE) \in SoundChannel
                           /\ Keeps(ch[h], StartRecovery(ch[h], h, TRUE))
    BY <1>1, StartRecoveryKeeps
  <2>2. ch' = [h \in Handles |-> IF h \in sup.optional THEN StartRecovery(ch[h], h, TRUE)
                                                       ELSE ch[h]]
    BY <1>7 DEF RejoinDone
  <2> QED
    BY <1>1, <2>1, <2>2, KeepsItself DEF KeepsAll
<1> QED
  BY <1>2, <1>4, <1>5, <1>6, <1>7, KeptIsGood

\* The restart of a required channel.
LEMMA RejoinRestartsGood ==
  ASSUME IInv, NEW ok \in ParamsResults, RejoinRestarts(ok)
  PROVE  Good(ch', registry')
<1> DEFINE h == sup.cur
<1>1. h \in Handles
  BY DEF IInv, OthersOK, CurrentRejoin, RejoinRestarts
<1>2. ch[h] \in SoundChannel /\ conn \in Conns /\ ok \in BOOLEAN /\ registry' = registry
  BY <1>1 DEF IInv, SoundChannels, OthersOK, ParamsResults, RejoinRestarts
<1>3. CASE ShouldRejoin(h)
  <2>1. refs + 1 \in Refs
    BY <1>3, NextJoinRef DEF RejoinRestarts
  <2>2. StartJoin(h, Restart(ch[h], conn, refs + 1), ok)
    BY <1>3 DEF RejoinRestarts
  <2> HIDE DEF h
  <2> QED
    BY <1>1, <1>2, <1>3, <2>1, <2>2, RestartSound, RestartGood
<1>4. CASE ~ShouldRejoin(h)
  BY <1>2, <1>4, NoChannelKept, KeptIsGood DEF RejoinRestarts
<1> QED
  BY <1>3, <1>4

\* Retiring every channel releases the names of those that the connection does
\* not hold any more.
LEMMA RetireChannelsGood ==
  ASSUME IInv, RetireChannels
  PROVE  Good(ch', registry')
<1> DEFINE chs == [h \in Handles |-> IF IsRegistered(h) THEN RetireChannel(ch[h], conn)
                                                        ELSE ch[h]]
           gone == {h \in Handles : chs[h].conn # conn}
<1>1. \A h \in Handles : ch[h] \in SoundChannel
  BY DEF IInv, SoundChannels
<1>2. KeepsAll(chs)
  BY <1>1, RetireChannelKeeps, KeepsItself DEF KeepsAll
<1>3. ch' = chs /\ registry' = Release(registry, chs, gone, ops, conn)
  BY DEF RetireChannels
<1>4. gone \subseteq Handles
  OBVIOUS
<1> HIDE DEF chs, gone
<1> QED
  BY <1>2, <1>3, <1>4, KeptIsGood, ReleaseIsGood

\* The steps that retire the channels.
LEMMA RetiringGood ==
  ASSUME IInv, SupervisorStops \/ AdoptsTooLate \/ RequestStop
  PROVE  Good(ch', registry')
  BY RetireChannelsGood, NoChannelKept, KeptIsGood
  DEF SupervisorStops, AdoptsTooLate, RequestStop, SupervisorExits

\* The end of a cleanup.
LEMMA CleanupEndsGood ==
  ASSUME IInv, CleanupEnds
  PROVE  Good(ch', registry')
<1>1. PICK over \in SUBSET Handles :
        /\ ch' = [h \in Handles |-> IF h \in over THEN [ch[h] EXCEPT !.terminal = TRUE]
                                                  ELSE ch[h]]
        /\ registry' = Release(registry, ch', over, ops, conn)
  BY DEF CleanupEnds
<1>2. \A h \in Handles : ch[h] \in SoundChannel
  BY DEF IInv, SoundChannels
<1>3. KeepsAll(ch')
  BY <1>1, <1>2, TerminalKeeps, KeepsItself DEF KeepsAll
<1> QED
  BY <1>1, <1>3, KeptIsGood, ReleaseIsGood

\* The other steps of a shutdown.
LEMMA ShutdownGood ==
  ASSUME IInv, SupervisorCancelled \/ ShutdownUnsubscribes \/ ShutdownCancelsLifecycle
  PROVE  Good(ch', registry')
<1>1. \A h \in Handles : ch[h] \in SoundChannel
  BY DEF IInv, SoundChannels
<1>2. registry' = registry
  BY DEF SupervisorCancelled, ShutdownUnsubscribes, ShutdownCancelsLifecycle
<1>3. stop \in BOOLEAN /\ CurrentRejoin
  BY DEF IInv, OthersOK
<1>4. ASSUME SupervisorCancelled
      PROVE  KeepsAll(ch')
  <2>1. CASE ch' = ch
    BY <2>1, NoChannelKept
  <2>2. CASE sup.pc = "joining" /\ ch' = [ch EXCEPT ![sup.cur] = CancelJoin(ch[sup.cur])]
    <3>1. sup.cur \in Handles
      BY <1>3, <2>2 DEF CurrentRejoin
    <3> QED
      BY <1>1, <2>2, <3>1, CancelJoinKeeps, OneChannelKept
  <2> QED
    BY <1>4, <2>1, <2>2 DEF SupervisorCancelled
<1>5. ASSUME ShutdownUnsubscribes
      PROVE  KeepsAll(ch')
  <2>1. ch' = [h \in Handles |-> IF IsRegistered(h) THEN StartLeave(ch[h], stop)
                                                    ELSE ch[h]]
    BY <1>5 DEF ShutdownUnsubscribes
  <2> QED
    BY <1>1, <1>3, <2>1, StartLeaveKeeps, KeepsItself DEF KeepsAll
<1>6. ASSUME ShutdownCancelsLifecycle
      PROVE  KeepsAll(ch')
  <2>1. \A h \in Handles : (ch[h].rec # "none") \in BOOLEAN
    OBVIOUS
  <2>2. ch' = [h \in Handles |-> [ch[h] EXCEPT !.loseStart = 0, !.loseWait = 0,
                                               !.recCancel = (ch[h].rec # "none")]]
    BY <1>6 DEF ShutdownCancelsLifecycle
  <2> QED
    BY <1>1, <2>1, <2>2, LifecycleCancelKeeps DEF KeepsAll
<1> QED
  BY <1>2, <1>4, <1>5, <1>6, KeptIsGood

\* The steps that touch neither a channel nor a name.
LEMMA OtherStepsGood ==
  ASSUME IInv,
         \/ CloseSendSession \/ RoutingEnds \/ RoutingBreaks \/ Drop \/ ConnectFails
         \/ (\E t \in Topics, event \in ServerEnds : EndMembership(t, event))
         \/ Connect \/ Reconnects \/ CleanupCloses \/ CleanupRetires \/ ShutdownEnds
         \/ UNCHANGED vars
  PROVE  Good(ch', registry')
<1>1. ch' = ch /\ registry' = registry
  BY DEF CloseSendSession, RoutingEnds, RoutingBreaks, Drop, ConnectFails, EndMembership,
         Connect, Reconnects, CleanupCloses, CleanupRetires, ShutdownEnds, vars
<1> QED
  BY <1>1, NoChannelKept, KeptIsGood

\* Every step of the specification.
LEMMA StepGood ==
  ASSUME IInv, [Next]_vars
  PROVE  Good(ch', registry')
<1>1. ASSUME NEW h \in Handles, HandleStep(h)
      PROVE  Good(ch', registry')
  BY <1>1, JoinCallerGood, LeaveTaskGood, RecoveryGood, RecoverRejoinsGood, LossGood
  DEF HandleStep
<1>2. ASSUME SupervisorStep
      PROVE  Good(ch', registry')
  BY <1>2, RejoinGood, RejoinRestartsGood, ConnectionLostGood, RetiringGood,
     CleanupEndsGood, ShutdownGood, OtherStepsGood DEF SupervisorStep
<1>3. ASSUME ShutdownStep \/ RoutingStep
      PROVE  Good(ch', registry')
  BY <1>3, ConnectionLostGood, ShutdownGood, RouteGood, OtherStepsGood
  DEF ShutdownStep, RoutingStep
<1>4. ASSUME UserStep \/ NetworkStep
      PROVE  Good(ch', registry')
  BY <1>4, JoinGood, JoinCallerGood, RetiringGood, OtherStepsGood DEF UserStep, NetworkStep
<1> QED
  BY <1>1, <1>2, <1>3, <1>4, SendGood, ExpireGood, OtherStepsGood DEF Next

-----------------------------------------------------------------------------
(* The other variables *)

ClientOK ==
  /\ refs \in Refs /\ conn \in Conns /\ gen \in Conns
  /\ cstate \in ClientStates /\ stop \in BOOLEAN

SessionOK ==
  /\ sends \in [failed : BOOLEAN, retired : BOOLEAN]
  /\ ops \subseteq Op
  /\ closer \in BOOLEAN
  /\ routing \in {"none", "running", "ended", "stopped"}

LoopOK ==
  /\ sup \in [pc : {"connecting", "rejoining", "stopping", "joining", "losing",
                    "serving", "cleanup", "dying", "ended", "exited"},
              cur : Handles \cup {NoHandle},
              todo : SUBSET Handles, optional : SUBSET Handles]
  /\ cleanup \in [pc : {"idle", "cancelling", "closing", "finishing"}, conn : Conns,
                  tasks : SUBSET Handles]
  /\ shut \in {"none", "stopping", "cleanup", "unsubscribe", "leaving",
               "lifecycle", "done"}
  /\ CurrentRejoin

TransportOK ==
  /\ socket \in {"open", "closed"}
  /\ net \in [Topics -> Seq(Frame)]
  /\ member \in [Topics -> Refs]

LEMMA OthersInParts ==
  OthersOK <=> ClientOK /\ SessionOK /\ LoopOK /\ TransportOK
  BY DEF OthersOK, ClientOK, SessionOK, LoopOK, TransportOK

\* The refs and connections stay in their bounds, and the client's state in its
\* enumeration.
LEMMA ClientStep ==
  ASSUME IInv, [Next]_vars
  PROVE  ClientOK'
<1>1. ClientOK
  BY DEF IInv, OthersOK, ClientOK
<1>2. ASSUME UNCHANGED <<refs, client>>
      PROVE  ClientOK'
  BY <1>1, <1>2 DEF ClientOK, client
<1>3. ASSUME NEW h \in Handles, HandleStep(h)
      PROVE  ClientOK'
  <2>1. CASE UNCHANGED <<refs, client>>
    BY <1>2, <2>1
  <2>2. CASE LeaveStarts(h)
    BY <1>1, <2>2, BoundsAssumption DEF LeaveStarts, ClientOK, client, Refs
  <2>3. ASSUME NEW ok \in ParamsResults, RecoverRejoins(h, ok)
        PROVE  ClientOK'
    BY <1>1, <2>3, NextJoinRef DEF RecoverRejoins, ClientOK, client
  <2> QED
    BY <1>3, <2>1, <2>2, <2>3
    DEF HandleStep, JoinResumes, JoinRaises, LeaveAnswered, LeaveFinishes, RecoverTries,
        RecoverResumes, RecoverCancelled, LoseStarts, LoseReports
<1>4. ASSUME (\E o \in ops : SendStep(o) \/ SendReturns(o)) \/ (\E o \in Timers : Expire(o))
      PROVE  ClientOK'
  <2>1. ASSUME NEW chs, NotifyFailure(chs)
        PROVE  cstate' \in ClientStates
    BY <1>1, <2>1 DEF NotifyFailure, ClientOK, ClientStates
  <2>2. UNCHANGED <<refs, conn, gen, stop>>
    BY <1>4 DEF SendStep, SendReturns, Submit, SendFails, SendCancelled, Expire, client
  <2>3. cstate' \in ClientStates
    BY <1>1, <1>4, <2>1
    DEF SendStep, SendReturns, Submit, SendFails, SendCancelled, Expire, client, ClientOK
  <2> QED
    BY <1>1, <2>2, <2>3 DEF ClientOK
<1>5. ASSUME SupervisorStep
      PROVE  ClientOK'
  <2>1. CASE UNCHANGED <<refs, client>>
    BY <1>2, <2>1
  <2>2. CASE Connect
    BY <1>1, <2>2, BoundsAssumption DEF Connect, ClientOK, ClientStates, Conns
  <2>3. CASE AdoptsTooLate
    BY <1>1, <2>3, BoundsAssumption
    DEF AdoptsTooLate, SupervisorExits, ClientOK, ClientStates, Conns
  <2>4. ASSUME NEW ok \in ParamsResults, RejoinRestarts(ok)
        PROVE  ClientOK'
    BY <1>1, <2>4, NextJoinRef DEF RejoinRestarts, ClientOK, client
  <2>5. CASE EndSession
    BY <1>1, <2>5, BoundsAssumption DEF EndSession, CleanupBegins, ClientOK, Conns
  <2>6. CASE Reconnects \/ SupervisorStops
    BY <1>1, <2>6
    DEF Reconnects, SupervisorStops, SupervisorExits, ClientOK, ClientStates
  <2> QED
    BY <1>5, <2>1, <2>2, <2>3, <2>4, <2>5, <2>6
    DEF SupervisorStep, RejoinNext, RejoinResumes, RejoinLost, RejoinDone, CleanupCloses,
        CleanupRetires, CleanupEnds, SupervisorCancelled
<1>6. ASSUME ShutdownStep
      PROVE  ClientOK'
  <2>1. CASE ShutdownCleansUp
    BY <1>1, <2>1, BoundsAssumption DEF ShutdownCleansUp, CleanupBegins, ClientOK, Conns
  <2>2. CASE ShutdownEnds
    BY <1>1, <2>2 DEF ShutdownEnds, ClientOK, ClientStates
  <2>3. CASE ShutdownUnsubscribes \/ ShutdownCancelsLifecycle
    BY <1>2, <2>3 DEF ShutdownUnsubscribes, ShutdownCancelsLifecycle
  <2> QED
    BY <1>6, <2>1, <2>2, <2>3 DEF ShutdownStep
<1>7. ASSUME UserStep
      PROVE  ClientOK'
  <2>1. ASSUME NEW h \in Handles, NEW ok \in ParamsResults, Join(h, ok)
        PROVE  ClientOK'
    BY <1>1, <2>1, NextJoinRef DEF Join, ClientOK, client
  <2>2. CASE RequestStop
    BY <1>1, <2>2 DEF RequestStop, ClientOK, ClientStates
  <2>3. CASE \E h \in Handles : Leave(h) \/ JoinCancelled(h)
    BY <1>2, <2>3 DEF Leave, JoinCancelled
  <2> QED
    BY <1>7, <2>1, <2>2, <2>3 DEF UserStep
<1>8. ASSUME NetworkStep
      PROVE  ClientOK'
  BY <1>1, <1>8
  DEF NetworkStep, EndMembership, Drop, RoutingBreaks, ConnectFails, ClientOK, ClientStates,
      client
<1>9. ASSUME CloseSendSession \/ RoutingStep \/ UNCHANGED vars
      PROVE  ClientOK'
  BY <1>2, <1>9
  DEF CloseSendSession, RoutingStep, Route, RoutingEnds, RoutingStopped, vars
<1> QED
  BY <1>3, <1>4, <1>5, <1>6, <1>7, <1>8, <1>9 DEF Next

\* A new operation is queued under a ref of its own.
LEMMA QueueOK ==
  ASSUME SessionOK, NEW h \in Handles, NEW kind \in {"join", "leave"}, NEW ref \in Refs
  PROVE  Queue(h, kind, ref) \subseteq Op
  BY DEF SessionOK, Queue, Op

\* Cancelling sends changes their state only.
LEMMA CancelledOps ==
  ASSUME SessionOK, NEW o \in ops, NEW st \in {"cancelled", "writing"}
  PROVE  [o EXCEPT !.st = st] \in Op
  BY DEF SessionOK, Op

\* So does the cancellation of a waiter.
LEMMA CancelQueuedOK ==
  ASSUME SessionOK, NEW h
  PROVE  CancelQueued(ops, h) \subseteq Op
  BY CancelledOps DEF CancelQueued, SessionOK

\* A join that starts queues its frame, if its params could be evaluated.
LEMMA StartJoinOps ==
  ASSUME SessionOK, NEW h \in Handles, NEW c \in SoundChannel, NEW ok,
         StartJoin(h, c, ok)
  PROVE  ops' \subseteq Op
<1>1. c.joinRef \in Refs
  BY DEF SoundChannel, Channel
<1> QED
  BY <1>1, QueueOK DEF StartJoin, SessionOK

\* The sends and their session.
LEMMA SessionStep ==
  ASSUME IInv, [Next]_vars
  PROVE  SessionOK'
<1>1. SessionOK /\ CurrentRejoin
  BY DEF IInv, OthersOK, SessionOK
<1>2. ASSUME UNCHANGED <<session, routing>>
      PROVE  SessionOK'
  BY <1>1, <1>2 DEF SessionOK, session
<1>3. ASSUME ops' \subseteq Op, UNCHANGED <<sends, closer, routing>>
      PROVE  SessionOK'
  BY <1>1, <1>3 DEF SessionOK
<1>4. \A h \in Handles : ch[h] \in SoundChannel
  BY DEF IInv, SoundChannels
<1>5. refs \in Refs /\ conn \in Conns
  BY DEF IInv, OthersOK
<1>6. ASSUME NEW h \in Handles, HandleStep(h)
      PROVE  SessionOK'
  <2>1. CASE UNCHANGED <<session, routing>>
    BY <1>2, <2>1
  <2>2. CASE LeaveStarts(h)
    <3>1. ops' = ops \/ (refs < MaxRef /\ ops' = Queue(h, "leave", refs + 1))
      BY <2>2 DEF LeaveStarts
    <3>2. refs < MaxRef => refs + 1 \in Refs
      BY <1>5, BoundsAssumption DEF Refs
    <3>3. ops' \subseteq Op
      BY <1>1, <3>1, <3>2, QueueOK DEF SessionOK
    <3> QED
      BY <1>3, <2>2, <3>3 DEF LeaveStarts
  <2>3. ASSUME NEW ok \in ParamsResults, RecoverRejoins(h, ok)
        PROVE  SessionOK'
    <3>1. CASE ShouldRejoin(h)
      <4>1. refs + 1 \in Refs
        BY <2>3, <3>1, NextJoinRef DEF RecoverRejoins
      <4>2. [Restart(ch[h], conn, refs + 1) EXCEPT !.rec = "waiting"] \in SoundChannel
        BY <1>4, <1>5, <4>1, RestartSound, RecoveryKeeps
      <4>3. ops' \subseteq Op
        BY <1>1, <2>3, <3>1, <4>2, StartJoinOps DEF RecoverRejoins
      <4> QED
        BY <1>3, <2>3, <4>3 DEF RecoverRejoins
    <3>2. CASE ~ShouldRejoin(h)
      BY <1>2, <2>3, <3>2 DEF RecoverRejoins, session
    <3> QED
      BY <3>1, <3>2
  <2>4. CASE RecoverCancelled(h)
    <3>1. ops' \subseteq Op
      BY <1>1, <2>4, CancelQueuedOK DEF RecoverCancelled, SessionOK
    <3> QED
      BY <1>3, <2>4, <3>1 DEF RecoverCancelled
  <2> QED
    BY <1>6, <2>1, <2>2, <2>3, <2>4
    DEF HandleStep, JoinResumes, JoinRaises, LeaveAnswered, LeaveFinishes, RecoverTries,
        RecoverResumes, LoseStarts, LoseReports
<1>7. ASSUME NEW chs, NotifyFailure(chs)
      PROVE  sends' \in [failed : BOOLEAN, retired : BOOLEAN] /\ closer' \in BOOLEAN
  BY <1>1, <1>7 DEF NotifyFailure, SessionOK
<1>8. ASSUME NEW o \in ops, SendStep(o) \/ SendReturns(o)
      PROVE  SessionOK'
  <2>1. ops' \subseteq Op
    <3>1. ops' \in {ops, ops \ {o}, (ops \ {o}) \cup {[o EXCEPT !.st = "writing"]}}
      BY <1>8 DEF SendStep, SendReturns, Submit, SendFails, SendCancelled
    <3> QED
      BY <1>1, <3>1, CancelledOps DEF SessionOK
  <2>2. sends' \in [failed : BOOLEAN, retired : BOOLEAN] /\ closer' \in BOOLEAN
    BY <1>1, <1>7, <1>8
    DEF SendStep, SendReturns, Submit, SendFails, SendCancelled, SessionOK
  <2>3. routing' = routing
    BY <1>8 DEF SendStep, SendReturns, Submit, SendFails, SendCancelled
  <2> QED
    BY <1>1, <2>1, <2>2, <2>3 DEF SessionOK
<1>9. ASSUME NEW o \in Timers, Expire(o)
      PROVE  SessionOK'
  <2>1. ops' \subseteq Op
    <3>1. ops' = ops \/ (o.st = "queued"
                         /\ ops' = (ops \ {o}) \cup {[o EXCEPT !.st = "cancelled"]})
      BY <1>9 DEF Expire, session
    <3>2. o.st = "queued" => o \in ops
      BY DEF Timers
    <3> QED
      BY <1>1, <3>1, <3>2, CancelledOps DEF SessionOK
  <2>2. sends' \in [failed : BOOLEAN, retired : BOOLEAN] /\ closer' \in BOOLEAN
    BY <1>1, <1>7, <1>9 DEF Expire, SessionOK, session
  <2>3. routing' = routing
    BY <1>9 DEF Expire
  <2> QED
    BY <1>1, <2>1, <2>2, <2>3 DEF SessionOK
<1>10. ASSUME SupervisorStep
       PROVE  SessionOK'
  <2>1. CASE UNCHANGED <<session, routing>>
    BY <1>2, <2>1
  <2>2. CASE Connect \/ EndSession
    BY <1>1, <2>2 DEF Connect, EndSession, CleanupBegins, SessionOK, session
  <2>3. ASSUME NEW ok \in ParamsResults, RejoinRestarts(ok)
        PROVE  SessionOK'
    <3> DEFINE h == sup.cur
    <3>1. h \in Handles
      BY <1>1, <2>3 DEF RejoinRestarts, CurrentRejoin
    <3>2. CASE ShouldRejoin(h)
      <4>1. refs + 1 \in Refs
        BY <2>3, <3>2, NextJoinRef DEF RejoinRestarts
      <4>2. StartJoin(h, Restart(ch[h], conn, refs + 1), ok)
        BY <2>3, <3>2 DEF RejoinRestarts
      <4> HIDE DEF h
      <4>3. Restart(ch[h], conn, refs + 1) \in SoundChannel
        BY <1>4, <1>5, <3>1, <4>1, RestartSound
      <4>4. ops' \subseteq Op
        BY <1>1, <3>1, <4>2, <4>3, StartJoinOps
      <4> QED
        BY <1>3, <2>3, <4>4 DEF RejoinRestarts
    <3>3. CASE ~ShouldRejoin(h)
      BY <1>2, <2>3, <3>3 DEF RejoinRestarts, session
    <3> QED
      BY <3>2, <3>3
  <2>4. CASE CleanupCloses \/ CleanupRetires
    <3>1. \/ UNCHANGED <<sends, ops>>
          \/ /\ sends' = [sends EXCEPT !.retired = TRUE]
             /\ ops' = {IF o.st = "queued" THEN [o EXCEPT !.st = "cancelled"] ELSE o : o \in ops}
      BY <2>4 DEF CleanupCloses, CleanupRetires, RetireSends
    <3>2. ops' \subseteq Op
      <4>1. ops \subseteq Op /\ \A o \in ops : [o EXCEPT !.st = "cancelled"] \in Op
        BY <1>1, CancelledOps DEF SessionOK
      <4> QED
        BY <3>1, <4>1
    <3>3. sends' \in [failed : BOOLEAN, retired : BOOLEAN]
      BY <1>1, <3>1 DEF SessionOK
    <3> QED
      BY <1>1, <2>4, <3>2, <3>3 DEF CleanupCloses, CleanupRetires, SessionOK
  <2>5. CASE CleanupEnds
    BY <1>1, <2>5 DEF CleanupEnds, SessionOK
  <2>6. CASE SupervisorCancelled
    <3>1. ops' \subseteq Op
      BY <1>1, <2>6, CancelQueuedOK DEF SupervisorCancelled, SessionOK
    <3> QED
      BY <1>1, <2>6, <3>1 DEF SupervisorCancelled, SessionOK
  <2> QED
    BY <1>10, <2>1, <2>2, <2>3, <2>4, <2>5, <2>6
    DEF SupervisorStep, AdoptsTooLate, RejoinNext, RejoinResumes, RejoinLost, RejoinDone,
        Reconnects, SupervisorStops
<1>11. ASSUME ShutdownStep
       PROVE  SessionOK'
  BY <1>1, <1>11
  DEF ShutdownStep, ShutdownCleansUp, CleanupBegins, ShutdownUnsubscribes,
      ShutdownCancelsLifecycle, ShutdownEnds, SessionOK, session
<1>12. ASSUME UserStep
       PROVE  SessionOK'
  <2>1. ASSUME NEW h \in Handles, NEW ok \in ParamsResults, Join(h, ok)
        PROVE  SessionOK'
    <3> DEFINE c == [ch[h] EXCEPT !.state = "joining", !.conn = conn,
                                  !.joinRef = refs + 1, !.join = "waiting"]
    <3>1. refs + 1 \in Refs /\ ch[h] \in SoundChannel
      BY <1>4, <2>1, NextJoinRef DEF Join
    <3>2. c \in SoundChannel
      BY <1>5, <2>1, <3>1 DEF Join, SoundChannel, Channel, ChannelStates
    <3>3. StartJoin(h, c, ok)
      BY <2>1 DEF Join
    <3> HIDE DEF c
    <3>4. ops' \subseteq Op
      BY <1>1, <3>2, <3>3, StartJoinOps
    <3> QED
      BY <1>3, <2>1, <3>4 DEF Join
  <2>2. ASSUME NEW h \in Handles, JoinCancelled(h)
        PROVE  SessionOK'
    BY <1>1, <1>3, <2>2, CancelQueuedOK DEF JoinCancelled
  <2>3. CASE RequestStop \/ \E h \in Handles : Leave(h)
    BY <1>2, <2>3 DEF RequestStop, Leave
  <2> QED
    BY <1>12, <2>1, <2>2, <2>3 DEF UserStep
<1>13. ASSUME CloseSendSession \/ RoutingStep \/ NetworkStep \/ UNCHANGED vars
       PROVE  SessionOK'
  BY <1>1, <1>13
  DEF CloseSendSession, RoutingStep, Route, RoutingEnds, RoutingStopped, NetworkStep,
      EndMembership, Drop, RoutingBreaks, ConnectFails, vars, session, SessionOK
<1> QED
  BY <1>6, <1>8, <1>9, <1>10, <1>11, <1>12, <1>13 DEF Next

\* The supervisor's, the cleanup's and the shutdown's places.
LEMMA LoopStep ==
  ASSUME IInv, [Next]_vars
  PROVE  LoopOK'
<1>1. LoopOK
  BY DEF IInv, OthersOK, LoopOK
<1>2. ASSUME UNCHANGED loop
      PROVE  LoopOK'
  BY <1>1, <1>2 DEF LoopOK, loop, CurrentRejoin
<1>3. ASSUME NEW h \in Handles, HandleStep(h)
      PROVE  LoopOK'
  BY <1>2, <1>3
  DEF HandleStep, JoinResumes, JoinRaises, LeaveStarts, LeaveAnswered, LeaveFinishes,
      RecoverTries, RecoverRejoins, RecoverResumes, RecoverCancelled, LoseStarts,
      LoseReports
<1>4. ASSUME \/ \E o \in ops : SendStep(o) \/ SendReturns(o)
             \/ \E o \in Timers : Expire(o)
             \/ CloseSendSession \/ RoutingStep \/ NetworkStep \/ UNCHANGED vars
      PROVE  LoopOK'
  <2>1. ASSUME NEW o \in ops, SendStep(o) \/ SendReturns(o)
        PROVE  UNCHANGED loop
    BY <2>1 DEF SendStep, SendReturns, Submit, SendFails, SendCancelled, loop
  <2>2. ASSUME NEW o \in Timers, Expire(o)
        PROVE  UNCHANGED loop
    BY <2>2 DEF Expire, loop
  <2>3. ASSUME CloseSendSession \/ RoutingStep
        PROVE  UNCHANGED loop
    BY <2>3 DEF CloseSendSession, RoutingStep, Route, RoutingEnds, RoutingStopped, loop
  <2>4. ASSUME NetworkStep \/ UNCHANGED vars
        PROVE  UNCHANGED loop
    BY <2>4 DEF NetworkStep, EndMembership, Drop, RoutingBreaks, ConnectFails, vars, loop
  <2> QED
    BY <1>2, <1>4, <2>1, <2>2, <2>3, <2>4
<1>5. ASSUME Connect
      PROVE  LoopOK'
  BY <1>1, <1>5, TopicRuntimeAssumption DEF Connect, LoopOK, CurrentRejoin
<1>6. ASSUME NEW h \in Handles, RejoinNext(h)
      PROVE  LoopOK'
  <2>1. sup' \in {[sup EXCEPT !.pc = "stopping", !.cur = h, !.todo = @ \ {h}],
                  [sup EXCEPT !.todo = @ \ {h}]}
    BY <1>6 DEF RejoinNext
  <2>2. UNCHANGED <<cleanup, shut>>
    BY <1>6 DEF RejoinNext
  <2> QED
    BY <1>1, <2>1, <2>2 DEF LoopOK, CurrentRejoin
<1>7. ASSUME NEW ok \in ParamsResults, RejoinRestarts(ok)
      PROVE  LoopOK'
  BY <1>1, <1>7 DEF RejoinRestarts, LoopOK, CurrentRejoin
<1>8. ASSUME RejoinResumes
      PROVE  LoopOK'
  <2>1. sup' \in {[sup EXCEPT !.pc = "rejoining", !.cur = NoHandle],
                  [sup EXCEPT !.pc = "losing", !.cur = sup.cur]}
    BY <1>8 DEF RejoinResumes
  <2>2. UNCHANGED <<cleanup, shut>> /\ sup.pc = "joining"
    BY <1>8 DEF RejoinResumes
  <2> QED
    BY <1>1, <2>1, <2>2 DEF LoopOK, CurrentRejoin
<1>9. ASSUME RejoinLost \/ RejoinDone \/ Reconnects
      PROVE  LoopOK'
  BY <1>1, <1>9 DEF RejoinLost, RejoinDone, Reconnects, LoopOK, CurrentRejoin
<1>10. ASSUME SupervisorStops \/ AdoptsTooLate
       PROVE  LoopOK'
  BY <1>1, <1>10
  DEF SupervisorStops, AdoptsTooLate, SupervisorExits, LoopOK, CurrentRejoin
<1>11. ASSUME EndSession \/ ShutdownCleansUp
       PROVE  LoopOK'
  <2>1. PICK tasks \in SUBSET Handles :
          cleanup' = [pc |-> "cancelling", conn |-> conn, tasks |-> tasks]
    BY <1>11 DEF EndSession, ShutdownCleansUp, CleanupBegins
  <2>2. conn \in Conns
    BY DEF IInv, OthersOK
  <2> QED
    BY <1>1, <1>11, <2>1, <2>2 DEF EndSession, ShutdownCleansUp, LoopOK, CurrentRejoin
<1>12. ASSUME CleanupCloses \/ CleanupRetires
       PROVE  LoopOK'
  BY <1>1, <1>12 DEF CleanupCloses, CleanupRetires, LoopOK, CurrentRejoin
<1>13. ASSUME CleanupEnds
       PROVE  LoopOK'
  <2>1. sup' \in {sup, [sup EXCEPT !.pc = "ended"], [sup EXCEPT !.pc = "exited"]}
    BY <1>1, <1>13 DEF CleanupEnds, LoopOK
  <2>2. cleanup' = [pc |-> "idle", conn |-> 0, tasks |-> {}] /\ 0 \in Conns
    BY <1>13, BoundsAssumption DEF CleanupEnds, Conns
  <2>3. shut' \in {shut, "unsubscribe"}
    BY <1>13 DEF CleanupEnds
  <2> QED
    BY <1>1, <2>1, <2>2, <2>3 DEF LoopOK, CurrentRejoin
<1>14. ASSUME SupervisorCancelled
       PROVE  LoopOK'
  <2>1. sup' \in {[sup EXCEPT !.pc = "dying"], [sup EXCEPT !.pc = "exited"],
                  [sup EXCEPT !.pc = "exited", !.cur = NoHandle,
                              !.todo = {}, !.optional = {}]}
    BY <1>14 DEF SupervisorCancelled
  <2>2. cleanup' \in {cleanup, [cleanup EXCEPT !.pc = "idle", !.conn = 0]} /\ 0 \in Conns
    BY <1>14, BoundsAssumption DEF SupervisorCancelled, Conns
  <2>3. shut' = shut
    BY <1>14 DEF SupervisorCancelled
  <2> QED
    BY <1>1, <2>1, <2>2, <2>3 DEF LoopOK, CurrentRejoin
<1>15. ASSUME ShutdownUnsubscribes \/ ShutdownCancelsLifecycle \/ ShutdownEnds \/ RequestStop
       PROVE  LoopOK'
  BY <1>1, <1>15
  DEF ShutdownUnsubscribes, ShutdownCancelsLifecycle, ShutdownEnds, RequestStop, LoopOK,
      CurrentRejoin
<1>16. ASSUME NEW h \in Handles,
              (\E ok \in ParamsResults : Join(h, ok)) \/ Leave(h) \/ JoinCancelled(h)
       PROVE  LoopOK'
  BY <1>2, <1>16 DEF Join, Leave, JoinCancelled
<1> QED
  BY <1>3, <1>4, <1>5, <1>6, <1>7, <1>8, <1>9, <1>10, <1>11, <1>12, <1>13, <1>14, <1>15,
     <1>16 DEF Next, SupervisorStep, ShutdownStep, UserStep

-----------------------------------------------------------------------------
(* The websocket and the server *)

\* The frames that the server sends.
LEMMA FramesOK ==
  ASSUME NEW c \in SoundChannel, NEW ref \in Refs, NEW joinRef \in Refs,
         NEW status \in {"ok", "error", "malformed"}, NEW event \in {"error", "close"}
  PROVE  Reply(c, ref, status) \in Frame /\ Ending(event, joinRef) \in Frame
  BY DEF SoundChannel, Channel, Reply, Ending, Frame

\* A closing connection delivers prefixes of what was sent.
LEMMA CloseSocketOK ==
  ASSUME TransportOK, CloseSocket
  PROVE  TransportOK'
<1>1. PICK kept \in [Topics -> Refs] :
        /\ \A t \in Topics : kept[t] <= Len(net[t])
        /\ net' = Delivered(kept)
  BY DEF CloseSocket
<1>2. ASSUME NEW t \in Topics
      PROVE  SubSeq(net[t], 1, kept[t]) \in Seq(Frame)
  <2>1. net[t] \in Seq(Frame) /\ kept[t] \in Nat
    BY BoundsAssumption DEF TransportOK, Refs
  <2> QED
    BY <1>1, <2>1, SubSeqProperties
<1>3. net' \in [Topics -> Seq(Frame)]
  BY <1>1, <1>2 DEF Delivered
<1>4. member' \in [Topics -> Refs] /\ socket' = "closed"
  BY BoundsAssumption DEF CloseSocket, Refs
<1> QED
  BY <1>3, <1>4 DEF TransportOK

\* The answers to a frame that is written.
LEMMA ServerAnswersOK ==
  ASSUME TransportOK, NEW t \in Topics, NEW c \in SoundChannel, NEW ref \in Refs,
         ServerJoin(t, c, ref) \/ ServerLeave(t, c, ref)
  PROVE  net' \in [Topics -> Seq(Frame)] /\ member' \in [Topics -> Refs]
<1>1. net[t] \in Seq(Frame) /\ member[t] \in Refs /\ 0 \in Refs
  BY BoundsAssumption DEF TransportOK, Refs
<1>2. member' \in [Topics -> Refs]
  BY <1>1 DEF TransportOK, ServerJoin, ServerLeave
<1>3. ASSUME NEW status \in {"ok", "error", "malformed"}
      PROVE  /\ Append(net[t], Reply(c, ref, status)) \in Seq(Frame)
             /\ net[t] \o <<Reply(c, ref, status), Ending("close", member[t])>>
                  \in Seq(Frame)
  <2>1. Reply(c, ref, status) \in Frame /\ Ending("close", member[t]) \in Frame
    BY <1>1, FramesOK
  <2>2. <<Reply(c, ref, status), Ending("close", member[t])>> \in Seq(Frame)
    BY <2>1
  <2> QED
    BY <1>1, <2>1, <2>2, AppendProperties, ConcatProperties
<1>4. ASSUME NEW s \in Seq(Frame), net' = [net EXCEPT ![t] = s]
      PROVE  net' \in [Topics -> Seq(Frame)]
  BY <1>4 DEF TransportOK
<1>5. CASE ServerJoin(t, c, ref)
  <2>1. PICK status \in JoinReplies :
          net' = [net EXCEPT ![t] = Append(net[t], Reply(c, ref, status))]
    BY <1>5 DEF ServerJoin
  <2>2. status \in {"ok", "error", "malformed"}
    BY TopicRuntimeAssumption
  <2> QED
    BY <1>2, <1>3, <1>4, <2>1, <2>2
<1>6. CASE ServerLeave(t, c, ref)
  <2>1. \/ net' = [net EXCEPT ![t] = Append(net[t], Reply(c, ref, "ok"))]
        \/ net' = [net EXCEPT ![t] =
                     net[t] \o <<Reply(c, ref, "ok"), Ending("close", member[t])>>]
    BY <1>6 DEF ServerLeave
  <2> QED
    BY <1>2, <1>3, <1>4, <2>1
<1> QED
  BY <1>5, <1>6

\* The websocket and the frames of the server.
LEMMA TransportStep ==
  ASSUME IInv, [Next]_vars
  PROVE  TransportOK'
<1>1. TransportOK
  BY DEF IInv, OthersOK, TransportOK
<1>2. ASSUME UNCHANGED transport
      PROVE  TransportOK'
  BY <1>1, <1>2 DEF TransportOK, transport
<1>3. ASSUME NEW h \in Handles, HandleStep(h)
      PROVE  TransportOK'
  BY <1>2, <1>3
  DEF HandleStep, JoinResumes, JoinRaises, LeaveStarts, LeaveAnswered, LeaveFinishes,
      RecoverTries, RecoverRejoins, RecoverResumes, RecoverCancelled, LoseStarts,
      LoseReports
<1>4. ASSUME NEW o \in ops, SendStep(o) \/ SendReturns(o)
      PROVE  TransportOK'
  <2>1. CASE UNCHANGED transport
    BY <1>2, <2>1
  <2>2. CASE Submit(o)
    <3>1. o.h \in Handles /\ o.ref \in Refs
      BY DEF IInv, OthersOK, Op
    <3>2. TopicOf[o.h] \in Topics /\ ch[o.h] \in SoundChannel
      BY <3>1, TopicRuntimeAssumption DEF IInv, SoundChannels
    <3>3. \/ UNCHANGED <<net, member>>
          \/ ServerJoin(TopicOf[o.h], ch[o.h], o.ref)
          \/ ServerLeave(TopicOf[o.h], ch[o.h], o.ref)
      BY <2>2 DEF Submit
    <3>4. net' \in [Topics -> Seq(Frame)] /\ member' \in [Topics -> Refs]
      BY <1>1, <3>1, <3>2, <3>3, ServerAnswersOK DEF TransportOK
    <3> QED
      BY <1>1, <2>2, <3>4 DEF Submit, TransportOK
  <2> QED
    BY <1>4, <2>1, <2>2 DEF SendStep, SendReturns, SendFails, SendCancelled
<1>5. ASSUME \/ \E o \in Timers : Expire(o)
             \/ UserStep \/ ShutdownStep \/ RoutingEnds \/ RoutingStopped
             \/ RoutingBreaks \/ ConnectFails \/ UNCHANGED vars
      PROVE  TransportOK'
  BY <1>2, <1>5
  DEF Expire, UserStep, Join, Leave, JoinCancelled, RequestStop, ShutdownStep,
      ShutdownCleansUp, ShutdownUnsubscribes, ShutdownCancelsLifecycle, ShutdownEnds,
      RoutingEnds, RoutingStopped, RoutingBreaks, ConnectFails, vars, transport
<1>6. ASSUME CloseSendSession \/ Drop
      PROVE  TransportOK'
  BY <1>1, <1>2, <1>6, CloseSocketOK DEF CloseSendSession, Drop
<1>7. ASSUME NEW t \in Topics, NEW ok \in HookResults, Route(t, ok)
      PROVE  TransportOK'
  <2>1. net[t] \in Seq(Frame) /\ net[t] # <<>>
    BY <1>1, <1>7 DEF Route, TransportOK
  <2>2. Tail(net[t]) \in Seq(Frame)
    BY <2>1, HeadTailProperties
  <2>3. net' = [net EXCEPT ![t] = Tail(net[t])] /\ UNCHANGED <<socket, member>>
    BY <1>7 DEF Route
  <2> QED
    BY <1>1, <2>2, <2>3 DEF TransportOK
<1>8. ASSUME NEW t \in Topics, NEW event \in ServerEnds, EndMembership(t, event)
      PROVE  TransportOK'
  <2>1. net[t] \in Seq(Frame) /\ member[t] \in Refs /\ 0 \in Refs
    BY <1>1, BoundsAssumption DEF TransportOK, Refs
  <2>2. Ending(event, member[t]) \in Frame
    BY <2>1, TopicRuntimeAssumption DEF Ending, Frame
  <2>3. Append(net[t], Ending(event, member[t])) \in Seq(Frame)
    BY <2>1, <2>2, AppendProperties
  <2>4. /\ net' = [net EXCEPT ![t] = Append(net[t], Ending(event, member[t]))]
        /\ member' = [member EXCEPT ![t] = 0] /\ socket' = socket
    BY <1>8 DEF EndMembership
  <2> QED
    BY <1>1, <2>1, <2>3, <2>4 DEF TransportOK
<1>9. ASSUME SupervisorStep
      PROVE  TransportOK'
  <2>1. CASE UNCHANGED transport
    BY <1>2, <2>1
  <2>2. CASE Connect \/ AdoptsTooLate \/ CleanupCloses
    <3>1. /\ socket' \in {socket, "open", "closed"}
          /\ net' = net \/ net' = [t \in Topics |-> <<>>]
          /\ member' = member \/ member' = [t \in Topics |-> 0]
      BY <2>2 DEF Connect, AdoptsTooLate, CleanupCloses, transport
    <3>2. <<>> \in Seq(Frame) /\ 0 \in Refs
      BY BoundsAssumption DEF Refs
    <3> QED
      BY <1>1, <3>1, <3>2 DEF TransportOK
  <2> QED
    BY <1>9, <2>1, <2>2
    DEF SupervisorStep, RejoinNext, RejoinRestarts, RejoinResumes, RejoinLost, RejoinDone,
        EndSession, Reconnects, SupervisorStops, CleanupRetires, CleanupEnds,
        SupervisorCancelled
<1> QED
  BY <1>3, <1>4, <1>5, <1>6, <1>7, <1>8, <1>9 DEF Next, RoutingStep, NetworkStep

-----------------------------------------------------------------------------
(* The theorems *)

\* The invariant holds of the client before its first connection.
LEMMA InitIInv == Init => IInv
<1> SUFFICES ASSUME Init PROVE IInv
  OBVIOUS
<1>1. SoundChannels
  BY NewChannelSound DEF Init, SoundChannels
<1>2. RegistryOK
  BY DEF Init, RegistryOK, RegistryOf
<1>3. SingleOwner
  BY DEF Init, SingleOwner, NewChannel
<1>4. ClientOK /\ SessionOK /\ LoopOK
  <2>1. 0 \in Refs /\ 0 \in Conns
    BY BoundsAssumption DEF Refs, Conns
  <2>2. ClientOK
    BY <2>1 DEF Init, ClientOK, ClientStates
  <2>3. SessionOK
    BY DEF Init, SessionOK
  <2>4. LoopOK
    BY <2>1 DEF Init, LoopOK, CurrentRejoin
  <2> QED
    BY <2>2, <2>3, <2>4
<1>5. TransportOK
  <2>1. <<>> \in Seq(Frame) /\ 0 \in Refs
    BY BoundsAssumption DEF Refs
  <2> QED
    BY <2>1 DEF Init, TransportOK
<1> QED
  BY <1>1, <1>2, <1>3, <1>4, <1>5, OthersInParts DEF IInv

\* Every step keeps the invariant.
LEMMA NextIInv == IInv /\ [Next]_vars => IInv'
<1> SUFFICES ASSUME IInv, [Next]_vars PROVE IInv'
  OBVIOUS
<1>1. Good(ch', registry')
  BY StepGood
<1>2. SoundChannels' /\ RegistryOK'
  BY <1>1 DEF Good, SoundChannels, RegistryOK, RegistryOf
<1>3. SingleOwner'
  BY <1>1 DEF Good, SingleOwner, IsRegistered, Live
<1>4. ClientOK' /\ SessionOK' /\ LoopOK' /\ TransportOK'
  BY ClientStep, SessionStep, LoopStep, TransportStep
<1>5. OthersOK'
  BY <1>4 DEF OthersOK, ClientOK, SessionOK, LoopOK, TransportOK
<1> QED
  BY <1>2, <1>3, <1>5 DEF IInv

\* The invariant holds throughout, for any handles, topics and bounds.
THEOREM Invariance == Spec => []IInv
  BY InitIInv, NextIInv, PTL DEF Spec

\* Every variable keeps to its type.
THEOREM TypeCorrect == Spec => []TypeOK
<1>1. IInv => TypeOK
  BY DEF IInv, SoundChannels, SoundChannel, RegistryOK, RegistryOf, OthersOK, TypeOK
<1> QED
  BY <1>1, Invariance, PTL

\* However joins, leaves, recoveries, rejoins and shutdowns of any number of
\* handles interleave, a handle that may be joined is the one its topic's name
\* is reserved for: no two live handles of a topic ever coexist.
THEOREM OneOwnerPerTopic == Spec => []SingleOwner
<1>1. IInv => SingleOwner
  BY DEF IInv
<1> QED
  BY <1>1, Invariance, PTL

\* No step of any task revives a handle that was left.
THEOREM NoRevival == Spec => LeftIsFinal
<1>1. IInv /\ [Next]_vars
        => \A h \in Handles : ch[h].state = "left" => ch'[h].state = "left"
  BY StepGood DEF Good, StaysLeft
<1> QED
  BY <1>1, Invariance, PTL DEF Spec, LeftIsFinal

=============================================================================
