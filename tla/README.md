# A TLA+ model of phoenix_channels_python_client

The client keeps one WebSocket to a Phoenix server, joins channels (topics) on
it, and promises its application a lifecycle per channel: a join that returns or
raises, recovery after crashes and reconnects, one notification when a channel
is lost for good, a leave that frees the topic's name, and a shutdown that ends.
All of it runs as tasks and callbacks of one asyncio loop. What is hard is not
any single handler but what the tasks do to each other between two awaits. That
is what these modules model.

Source paths are relative to `src/phoenix_channels_python_client/`; `PROJECT.json`
maps every definition to its lines.

## 1. Inventory

| Component | State it keeps | Operations | Hard part | Modelled |
|---|---|---|---|---|
| Topic runtime (`topic_runtime.py`, `topic_subscription.py`) | per channel: state, cause, established, join future, `join_submitted`, `terminal_received`, leave and recovery tasks; `topic_subscriptions`; `ref_counter` | join, leave, recover, rejoin, lose, retire, route a control frame, release a name | nearly every operation suspends, and any other may run meanwhile | `ChannelState`, `TopicRuntime` |
| Session sends (`send_session.py`) | operations with their task, timer and outcome; `failed`, `retired` | send, send_and_wait, expire, finish, has_pending | a deadline, an answer, a failed write and a retired session race for one future | joins and leaves in `TopicRuntime`, pushes in `Pushes` |
| Supervisor (`supervisor.py`) | connection, generation, routing and heartbeat tasks, close signals | connect, rejoin, serve, clean up, decide to reconnect, exit | a cleanup runs while recoveries, sends and leaves of the same session are suspended | session loop, in `TopicRuntime` and `Reconnect` |
| Client (`client.py`, `client_state_machine.py`) | `ClientState`, `shutdown_event`, the shutdown task | enter, run_forever, shutdown | shutdown cancels tasks at whatever await they are in, and waits for the rest | one run and its shutdown, in `TopicRuntime`; `shutdown()` from a callback in `Delivery` |
| Protocol handler (`protocol_handler.py`) | none | decode, filter by generation and `join_ref`, dispatch, enqueue | frames of a previous join, generation or owner | control frames in `TopicRuntime`, the queue in `Delivery` |
| Delivery (queue, processor, callbacks in `topic_runtime.py`) | bounded queue, processor task, `current_callback_task`, `restart_requested` | enqueue, take, hand over, drain, stop | a rejoin or leave waits for a callback that hangs, swallows its cancellation, or itself waits for the leave | `Delivery` |
| Pushes (`channel.py`, `topic_runtime.py`) | `pending_pushes`, one future each | push | reply, timeout, crash, cleanup and cancellation race for one future | `Pushes`, `PushCalls` |
| Heartbeat (`supervisor.py`) | `pending_heartbeat_ref`, `heartbeat_timeout`, `forced_close_pending` | beat, acknowledge, expire, force close | an acknowledgement in the tick of its deadline; a forced close that races the session's end | `Reconnect` |
| Reconnect policy (`reconnect_controller.py`, `default_decider.py`) | attempt, rapid-disconnect window, floors | decide, note connected | boundaries of the window, range of the backoff | `ReconnectDecider`, asked in `Reconnect` |
| Shutdown signals (`shutdown_signals.py`) | `waiters`, `previous`, the handler table of the process | register, install, restore, hand back | a signal between any two steps; closed loops; handlers of the host | `ShutdownSignals` |
| Codec, messages, URL, authentication, diagnostics, exceptions | none | conversions, logging | none that a model checker reaches better than a test | not modelled |

The components meet as follows. The application calls `join`, `leave` and
`shutdown`. A join or leave reserves a future and submits an operation to the
current `SessionSends`, whose task re-checks with the topic runtime that the
frame may still be written. The protocol handler's routing task turns frames
into calls of the topic runtime, which settle futures and start recoveries and
losses. The supervisor owns the connection: at a new generation it rejoins the
channels (those with `blocks_reconnect` before `on_reconnect`, the others in
recoveries of their own); at the end of a session it fails what waits, cancels
what recovers, retires the sends and releases names. A failed write closes the
connection behind the supervisor's back. Shutdown retires every channel, cancels
the supervisor, cleans up again, and waits for the leaves.

What makes it correct:

- a handle that was left stays left; a topic has one live owner;
- a name is not given away while the server, or a write on its way, still holds
  its previous owner;
- `Channel.joined` agrees with the server, up to frames in flight;
- an established channel that is not joined is being recovered, and one that is
  lost is reported, once, after its cleanup;
- `on_reconnect` waits for the first attempt of every required channel;
- join, leave and shutdown end, and a finished shutdown leaves nothing behind;
- a connection that went silent is closed in time, and one that answers never is;
- a push is written at most once, in its own membership, and always returns;
- a message is handed over at most once, in order, in the membership it came in, and no
  callback outlives its channel's leave;
- a signal reaches a client or the host, whose handlers are there again afterwards;
- the client stops by itself for the documented reasons, and for no other.

`PROJECT.json` lists 39 hazards with the line where each bites.

## 2. The modules

**`ChannelState`** is one channel: the record `Channel` (the fields of
`TopicSubscription` that decide its lifecycle, and for each of its tasks the
await it is suspended at) and the synchronous helpers, each a function from
records to records: `_transition_channel` (`Accepted`, `Failed`), `_start_leave_task`
(`StartLeave`), `_start_topic_loss`, `_restart_topic`, the except clauses of
`_join` (`JoinFailure`), `_fail_pending_joins` for one topic, and so on.

**`TopicRuntime`** is the state machine of the whole client around these channels:

| Variable | Code |
|---|---|
| `ch`, `registry`, `refs` | the subscriptions, `topic_subscriptions`, `ref_counter` |
| `conn`, `gen`, `cstate`, `stop` | `connection` (0 is None), `conn_generation`, `ClientState`, `shutdown_event` |
| `sends`, `ops`, `closer` | the current `SessionSends`, its operations with a live task, the pending `_close_send_session` |
| `routing`, `sup`, `cleanup`, `shut` | the routing task, the supervisor, the `_cleanup_connection` in progress, the shutdown: the await each is at |
| `socket`, `net`, `member` | the websocket, the server's frames in flight per topic, the join ref of the server's channel process |

One action is what one task or callback does between two awaits. The
application: `Join`, `JoinCancelled`, `Leave`, `RequestStop`. The caller of join:
`JoinResumes`, `JoinRaises`. The leave task: `LeaveStarts`, `LeaveAnswered`,
`LeaveFinishes`. A recovery: `RecoverTries`, `RecoverRejoins`, `RecoverResumes`,
`RecoverCancelled`. A loss: `LoseStarts`, `LoseReports`. A send: `Submit`,
`SendReturns`, `SendFails`, `SendCancelled`, `Expire`, `CloseSendSession`. Routing:
`Route`, `RoutingEnds`, `RoutingStopped`. The supervisor: `Connect`,
`RejoinNext`, `RejoinRestarts`, `RejoinResumes`, `RejoinLost`, `RejoinDone`,
`EndSession`, `CleanupCloses`, `CleanupRetires`, `CleanupEnds`, `Reconnects`,
`SupervisorStops`, `AdoptsTooLate`, `SupervisorCancelled`. The shutdown:
`ShutdownCleansUp`, `ShutdownUnsubscribes`, `ShutdownCancelsLifecycle`,
`ShutdownEnds`. The network: `EndMembership`, `Drop`, `RoutingBreaks` (a frame that
does not decode), `ConnectFails`.

**`ReconnectDecider`** is `DefaultReconnectDecider` without a loop: a record of
`attempt`, the ages of `rapid_disconnects` and the uptime since the last adoption, and
for each event the set of answers it may get (`AfterClose`, `AfterConnectFailure`), a
new record and a decision each. `Retries` includes what `_decide` makes of a decider that
raises: `Overflows` is the power that is no float any more.

**`Reconnect`** is the life of the connection without channels. It looks at the same
supervisor as `TopicRuntime`, from the side that `TopicRuntime` leaves open:

| Variable | Code |
|---|---|
| `decider`, `mode` | the decider; `auto_reconnect`, whether `heartbeat_dead_threshold_s` is given, and whether this server is prompt |
| `pc`, `wait`, `stop`, `terminal` | the supervisor task, its delay, `shutdown_event`, `terminal_error` |
| `conn`, `socket`, `routing`, `forced`, `close` | `connection`, the websocket and who closed it, the routing task, `forced_close_pending`, the session's `CloseDetails` |
| `hb`, `deadline`, `pending`, `replies` | the heartbeat task, the rest of `heartbeat_timeout`, whether `pending_heartbeat_ref` is set, the replies on their way |
| `quiet`, `lag`, `churn` | history: ticks without an answer, ticks since the pending beat, ages of the rapid disconnects |

The supervisor: `Adopts`, `AdoptsTooLate`, `ConnectFails`, `SessionStarted`,
`RoutingEnds`, `EndSession`, `CleanupDone`, `DecideReconnect`, `WaitEnds`,
`StopSupervisor`. The heartbeat: `Beats`, `BeatSent`, `BeatNotSent`, `Expires`,
`HeartbeatCancelled`, `HandleHeartbeatResponse`. Around them: `ConnectionCloses`,
`ClosingEnds`, `ServerAnswers`, `CloseConnection`, `Shutdown`, and `Tick`.

**`SessionLoop`** is what both promise of the supervisor: its connections come in turn. It
knows whether the supervisor is between sessions, in one, or gone (`phase`), whether a stop was asked
for, who has the connection (a session, a cleanup or nobody), and whether a socket is open. A
connection is opened only when the one before is closed and held by nobody; it becomes a session only
before a stop; one that arrives later is held for the shutdown to close; and whoever gives a
connection up has it closed. `Phase`, `Holder` and the state of the websocket map each machine to
it: in `TopicRuntime` the cleanup has the connection until `_close_websocket` is called, and in
`Reconnect` a socket in its closing handshake is still open.

**`PushCalls`** is the abstract specification of `Channel.push`: a call is admitted in a
membership, written at most once while it lasts and is undecided, decided once, and decided
at the latest by the step that ends its membership. It knows neither tasks nor sockets.

**`Pushes`** is the machinery that keeps this promise. Channels start out joined, may crash,
close, be left and be rejoined, on one connection after another:

| Variable | Code |
|---|---|
| `push` | per call: what the caller waits for, its join ref and connection, the outcome future, the send task and whether it was cancelled, the deadline, membership in `pending_pushes` |
| `chan` | state, join ref and connection of each `TopicSubscription`, and its leave |
| `client`, `session`, `closers` | `connection`, `conn_generation`, `ClientState` and `shutdown_event`; the current `SessionSends`; the pending `_close_send_session` tasks |
| `socket`, `routing`, `cleanup`, `shut` | the websocket, the routing task, `_cleanup_connection`, the shutdown |

The caller: `CallPush`, `CallerReturns`, `CallerCancelled`. Its operation: `SendStarts`,
`SendReturns`, `SendFails`, `SendCancelled`, `Expire`. The network: `RouteReply` (well formed
or not), `Drop`, `RoutingEnds`, `OtherSendFails`, `CloseSendSession`. Memberships: `Crash`,
`Close`, `Rejoin`, `Accept`, `Leave`, `LeaveEnds`. The client: `CleanupStarts`,
`CleanupCloses`, `CleanupEnds`, `Connect`, `GiveUp`, `Shutdown`, `StopSupervisor`.
`View` and `Member` map it to `PushCalls`: a call is pending while its future is, and a
membership is the join ref of a channel for which `_channel_joined` holds.

**`Delivery`** is one channel between its queue and its handlers:

| Variable | Code |
|---|---|
| `chan` | state, join ref, cause and `restart_requested` of the `TopicSubscription` |
| `queue`, `routed`, `started` | `topic.queue`; the messages are numbered as they come in, and the last one handed over is remembered |
| `proc`, `cb`, `current` | `_process_topic_messages` and the callback task of each membership, `current_callback_task` |
| `rejoin`, `leave` | the awaits of `_rejoin_topic` and of `_leave_and_cleanup` |

`Route` enqueues; `Skip`, `Handle`, `Resume` are the processor; `Returns`, `Unwinds`,
`CallbackLeaves` the callback, which may call `leave()` or `shutdown()` and wait for it, by
itself or through a task. `Lose`, `RejoinStarts`, `RejoinTimesOut`, `RejoinStops`, `Restart`,
`Accept`, `RejoinCancelled` take the channel through a rejoin; `Close`, `Stop`, `LeaveStarts`,
`LeaveCleansUp`, `LeaveTimesOut`, `LeaveStops`, `LeaveEnds` end it. The cancellation of a
processor that awaits its callback goes to the callback (`StopTopicTask`), as
`Task.cancel()` does.

**`ShutdownSignals`** is `handle_shutdown_signals` as `run_forever` uses it:

| Variable | Code |
|---|---|
| `handler`, `previous`, `waiters` | the handler table of the process, and the two dicts of the module |
| `host`, `chains` | the handler the host installed last, and whether it calls the one it replaced |
| `call`, `main` | each `run_forever()`, and where the main thread is in `_install` or `_unregister` |
| `scheduled`, `event` | the `event.set` that the signal handler scheduled, and the event |
| `loop`, `loopOf` | the event loop that runs, and the one of each call |
| `arrived`, `took`, `since`, `answered` | history: the signals, who took which, who entered when, which were acted upon |

`Signal` may happen between any two steps: `Enter`, `Install`, `Record`, `SetEvent`,
`Completes`, `Cancelled`, `Pop`, `Sweep`, `Restore`, `HandBack`. `CloseLoop` closes a loop
without unwinding what waits in it, `Finalized` and `FinalizedElsewhere` are the generators
of a closed loop that the garbage collector ends in the main thread or in another one, and
`HostInstalls` is the host's `signal.signal`.

**`TopicRuntimeMC`**, **`ReconnectMC`**, **`PushesMC`**, **`DeliveryMC`** and
**`ShutdownSignalsMC`** instantiate the machines for TLC. **`ChannelStateProofs`**,
**`TopicRuntimeProofs`**, **`SessionProofs`**, **`LossProofs`**, **`ReconnectProofs`**,
**`PushesProofs`**, **`DeliveryProofs`** and **`ShutdownSignalsProofs`** hold the proofs.

The machines share the supervisor and the channel, each from one side: what is a detail of
one is an arbitrary choice, or an event of the environment, in the others. `Pushes` and
`Delivery` reduce a rejoin to the steps that touch their own state, `TopicRuntime` reduces
the drain of a callback to one await, and `Reconnect` has no channels.

Operators introduced by a comment "Mutant of ..." are not part of the model:
each is a plausible bug, used to show that a property can fail.

### What is abstracted

- *Protocol.* V2, where frames carry `join_ref`. Frames of one topic arrive in
  order; topics are independent. The server acts on a frame when the client
  writes it, as `tests/fake_server.py` does; a closing connection delivers any
  prefix of each topic's frames. A protocol V1 frame has no `join_ref` and passes as a
  broadcast does, which `Delivery` has.
- *Callbacks.* In `TopicRuntime` the handlers, the join hook and the params provider are
  the choice of success or failure, and the wait for a running callback and for the end of
  the topic task are one await; `Delivery` takes them apart. Providers that fail
  synchronously and asynchronously are not told apart. A callback that awaits its own
  channel's end never goes on: the teardown it waits for waits for its own end first.
  Which handlers are registered is left out: every message has one.
- *Signals.* A signal handler runs in one piece, as CPython runs it between two bytecodes
  of the main thread. The granularity of the main thread is one operation on the handler
  table or on a dict. The finalizer of a closed loop's generator is not interrupted when
  it runs in another thread. Left out are host handlers that raise in the middle of
  `_install` (`KeyboardInterrupt` between `signal.signal` and the record), and interpreters
  where `signal.signal` raises `ValueError`.
- *Time.* In `TopicRuntime` delays and deadlines have no length: a timer that is armed
  may fire. One ordering is kept: a recovery's delay outlasts wakeups that were
  scheduled before it began (`NobodyAwaits`), as `call_soon` precedes `call_later` on
  the loop. `Reconnect` counts ticks, because its properties are about lengths. A tick
  waits for the timers that are due and for nothing else: a task that is ready may run
  as late as it likes. The delay before a new attempt passes in one step, as nothing
  else has a timer then.
- *Heartbeat refs.* A reply carries the pending ref or another one; a new beat makes
  those on their way stale.
- *Jitter.* The range a delay is drawn from is represented by its two ends.
- *Cancellation.* A cancelled task ends at its await, possibly after another task
  has acted on the same outcome first (`recCancel`, and the comment at
  `topic_runtime.py:466-468`).
- *Policy.* In `TopicRuntime` whether to reconnect is a free choice (`"giveup"`);
  `Reconnect` asks the built-in decider. Deciders of the application, and the broken
  answers `_decide` rejects, are left out. `ReconnectDeciderAssumption` is what
  `ReconnectPolicy` validates.
- *Outside.* A second `async with` on one client, the future of the initial connection,
  and the argument checks of the public methods: see "Not modelled".

## 3. The runs

`MaxJoin` bounds the refs of joins and rejoins and the ends of memberships by the server,
`MaxRef` leaves every handle a ref for its leave beyond that, `MaxConn` bounds the
connections, `MaxMsg` the messages, `MaxSignals`, `MaxHost` and `MaxLoop` the signals, the
handlers of the host and the event loops. They are guards of the model, so that every
behaviour of a run ends; for that reason deadlock is not checked, and the liveness
properties ask of what was started that it ends. `Env` selects the events of the
environment, `JoinReplies` and `ServerEnds` the answers of the server. `Capacity` of
`Delivery` and `Interval`, `Threshold` and `MaxLag` of `Reconnect` are real parameters, not
bounds. In `Reconnect`, `MaxAttempt` stops the attempt counter where `max_delay` makes
further attempts alike, `MaxUptime` bounds the ticks of a session (beyond `LongUptime` in
`reconnect`, so it bounds nothing there), and `MaxExponent` stands for 1023. A stopped
client stops: deadlock is not checked there either.

| Run | Instance | Shows |
|---|---|---|
| `channel` | one required channel, 3 joins, 2 connections, every reply, end and event but shutdown | all causes of failure interleaved: `joined` agrees with the server, no recovery is dropped, a loss has one reporter and is reported once, LEFT is final |
| `reuse` | two handles of one topic, one connection, leave and timeout | one live owner; the name covers the server's membership and the writes under way |
| `channels` | a required and an optional channel, 4 joins, 2 connections | hand-over between rejoin and recovery; the barrier before `on_reconnect` |
| `shutdown` | one channel, fair, shutdown, drop, broken routing, timeouts | shutdown, join, leave and loss reports end; nothing survives a shutdown; connections come in turn (`SessionLoop`); no refused client transition |
| `pushes` | one push of one channel, 2 memberships, 2 connections, fair, every event | the refinement of `PushCalls`; a left channel has no send under way; every push returns and every send ends |
| `delivery` | capacity 2, 4 messages, 3 memberships, fair, every event but a handler's own `CancelledError` | order, count and membership of what is handed over; who may cancel a callback and when; a joined channel is served; rejoin, leave and shutdown end |
| `signals` | two calls, in one loop or in two, 2 signals, 2 handlers of the host per signal, fair | no signal is dropped but in the two documented ways; the handlers of the host survive; a signal ends the wait |
| `reconnect` | interval 1, threshold 3, a lag of 1 for prompt servers, fair; a policy whose window holds 2 ticks and allows 3 rapid disconnects; with and without enforcement and `auto_reconnect`; every event | silence is bounded by the threshold and a prompt server is kept; a policy violation is final exactly when the server closed with it; suppression comes exactly with the fourth rapid disconnect; no verdict after a stop; every loss is handled; connections come in turn (`SessionLoop`) |

Why the bounds are enough:

- *Channels.* Three joins are an initial join, a rejoin and a second rejoin, so every handler
  meets an attempt that replaced another; two connections are a session and its successor,
  and generations are only ever compared for equality with the current one; two handles of a
  topic are an owner and a successor.
- *Pushes.* Calls do not meet but through the session, and the failure of another operation
  of the session is an event of its own (`OtherSendFails`). Two memberships and two
  connections are a call that outlives the one it was made in. What the run leaves to the
  proofs is any number of all of them.
- *Messages.* A queue of two drops, with four messages, more than once; three memberships
  are a processor, its replacement, and one that is replaced while the first still drains.
- *Signals.* Two calls overlap in every way, or follow one another in two loops; the second
  signal may come in the middle of what the first one started, or hit the other number.
- *Connection.* An interval of 1 under a threshold of 3 has a beat that is answered, one that
  is skipped because its predecessor is outstanding, and a deadline between beats. The policy
  of `reconnect` is shorter than the default one so that its window can fill: with the
  defaults it never does, see below.

*Fairness.* `Fairness` is weak fairness of each kind of task step: asyncio runs every ready
callback and fires every armed timer. The application, the network, and `connection.send`
waiting for a stalled peer owe nothing (`SendReturns` is not fair). A write that stalls is
ended by its deadline, so the `shutdown` run includes `"timeout"`, and in `Pushes` `Expire` is
fair. In `Reconnect` attempts to connect and closing handshakes end, since both have timeouts
in `websockets`, and time passes; the server owes no answer, a beat need not get written
(`BeatSent` and `BeatNotSent` are not fair) and nobody has to close. In `Delivery` a callback
that was cancelled unwinds or returns; one that was not owes nothing, and
`MessagesAreHandled` asks for messages only where every callback ends. A leave counts once the
channel is LEFT. In `ShutdownSignals` the main thread goes on with what it has begun and a
loop that runs runs `event.set` and wakes the waiter whose event is set; the host, further
signals and the garbage collector owe nothing.

Each property of a passing run has a mutant in `PROJECT.json` that breaks it.

### Where the documentation and the code differ

| Run | README says | The code |
|---|---|---|
| `lost_silently` | `on_topic_lost` is called once for permanent loss (600-601) | `_cleanup_connection` cancels a recovery whose rejoin was just rejected; the channel is LEFT and nobody reports it |
| `transient_loss` | transient failures go on through recovery (615) | a write of a channel's earlier join fails the session while the channel's recovery prepares the rejoin; `_should_rejoin` looks at the topic only, so the rejoin is submitted on the failed session, refused as ineligible and taken for a configuration error: a permanent loss |
| `abandoned_member` | the topic stays reserved until a terminal control or the connection's end (327-329) | `_restart_topic` forgets that the timed out join was submitted; if the new attempt's params fail, the name is freed under a live membership |
| `overflow` | the client keeps retrying except after a refused handshake (532) | `factor ** attempt` is computed before `min` caps it: after about a thousand failures in a row it raises `OverflowError`, and the client stops with "reconnect_decider failed". In the run the largest exponent is 8 |

`NoSilentLoss`, `TransientFailuresAreRetried`, `FreeNameHasNoMember` and `StopsForAReason` state
the documented behaviour; each run is a counterexample. What does hold is checked instead:
`LossHasAReporter` (as long as the connection lasts) and `ReservationCoversMembership` (for the
current submitted join).

Smaller differences that the models show, or that came up in reading, without a run of their
own:

- A shutdown that cancels the supervisor inside `_close_websocket` skips the loop that frees the
  names; they stay in `topic_subscriptions` (README 327-329, `supervisor.py:479`).
- Ten rapid disconnects within 60 s stop the client (README 533, 554), but the default floors and
  cooldowns space the attempts so that ten never fall into one window: an endpoint that closes
  every connection at once is retried for ever.
- A handler that ends with a `CancelledError` of something it awaited is not "logged, not raised"
  (README 527): `_process_topic_messages` ends with it, and the channel stays joined but deaf
  (`topic_runtime.py:558`). This is `"cancel"` of `Delivery`, under which `JoinedIsServed` fails.
- The docstring of `handle_shutdown_signals` hands back every signal that is taken and not
  consumed; one is lost if its waiter is cancelled while a waiter that entered later owns the
  handlers, and with the generator of a closed loop that is finalized off the main thread.
  `SignalIsKept` names these two cases and so does not cover them.
- "The previous signal handlers are restored before a second signal is handled" (README 126-127): a
  second signal that comes before the first one's waiter has left is still ours.
- `shutdown()` cancels a callback "that itself called `shutdown()`" (README 607-608); the initiator
  is excepted where the lifecycle tasks are cancelled (`client.py:293`).
- `is_fully_closed` ignores `lifecycle_tasks`: after the supervisor stopped by itself, `shutdown()`
  can return while an `on_topic_lost` still runs (`client.py:220`).
- A client entered again in the tick its shutdown ends clears `shutdown_event` and
  `terminal_error` before a waiting `run_forever()` reads them (`client.py:233`).

## 4. What is proved

Of channels and names, for every set of handles and topics, every bound, and every choice of
the environment, from `TopicRuntimeAssumption` and `BoundsAssumption` only:

- `TypeCorrect`: `Spec => []TypeOK`.
- `OneOwnerPerTopic`: `Spec => []SingleOwner`. A handle that is joining, joined or
  rejoining is the one its topic's name is reserved for.
- `NoRevival`: `Spec => LeftIsFinal`. No step of any task revives a handle that was left.
- `OneReport`: `Spec => []LossReportedOnce`. `on_topic_lost` is called at most once for a handle,
  only for an established channel that is gone and cleaned up, and never for one that was left.
- `WritesKeepTheirOwner`: `Spec => []WritesHaveTheOwner`. No name goes to a new handle while a
  send of the old one is being written.
- `StateMachineKept`: `Spec => NoInvalidTransition`. `transition_client_state` never refuses.
- `ShutdownIsComplete`: `Spec => []ShutdownLeavesNothing`. A shutdown that has ended leaves no
  live channel, recovery, send, connection or supervisor.
- `BarrierBeforeReconnect`: `Spec => ReconnectBarrier`. A session is served, and `on_reconnect`
  called, only after every required channel had its attempt on it.
- `ReservationIsKept`: `Spec => []ReservationCoversMembership`. While the server holds the
  membership of a handle's current submitted join on the open connection, the name stays
  reserved for that handle. A membership of an earlier join that a restart forgot is not
  covered: its name can be freed, as `abandoned_member` shows.
- `JoinedIsTrue`: `Spec => []JoinedAgreesWithServer`. `Channel.joined` is true of the server, or
  the news of the end is on its way.
- `NobodyIsOrphaned`: `Spec => []NoOrphan`. While a session is served, a channel that is to be
  rejoined has a recovery.
- `ClientTakesTurns`: `Spec => ConnectionsInTurn`, the refinement of `SessionLoop`.
- `EveryLossHasAReporter`: `Spec => []LossHasAReporter`. As long as its connection lasts, a
  channel that is lost has somebody to report it.

Of pushes, for every set of calls and channels and any number of memberships and connections,
from `PushesAssumption`:

- `PushesKeepTheirCalls`: `Spec => CallsAreKept`, the refinement of `PushCalls`.
- `LeftChannelsAreQuiet`: `Spec => []LeftIsQuiet`; `TypeCorrect`: `Spec => []TypeOK`, which no run
  checks, as the refinement says more of the calls.

Of delivery, for every capacity and number of messages and memberships, from
`DeliveryAssumption`:

- `LeaveSilences`: `Spec => []LeftIsSilent`.
- `JoinedServed`: `Spec => []JoinedIsServed`, if no handler ends with a `CancelledError` of its
  own (`"cancel" \notin Env`).
- `OrderKept`: `Spec => HandedOver`; `GraceKept`: `Spec => GraceIsKept`;
  `TypeCorrect`: `Spec => []TypeOK`, with the bound of the queue.

Of signals, for any number of calls, loops, signals and handlers of the host, from
`SignalsAssumption`:

- `HandlersAreKept`: `Spec => []HandlersAreThose`.
- `NoSignalIsLost`: `Spec => []SignalIsKept`; `TypeCorrect`: `Spec => []TypeOK`, which no run checks.

Of the connection, for every policy, interval, threshold, lag and environment, from
`ReconnectAssumption` and `ReconnectDeciderAssumption`:

- `SilenceBound`: `Spec => []SilenceIsBounded`.
- `PromptServer`: `Spec => []PromptServerIsKept`.
- `VerdictIsTheServers`: `Spec => []VerdictMatchesClose`.
- `StopIsNoError`: `Spec => NoVerdictAfterStop`.
- `ConnectionTakesTurns`: `Spec => ConnectionsInTurn`, the refinement of `SessionLoop`.
- `TypeCorrect`: `Spec => []TypeOK`, with the decider's window and the history of churn.
- `ChurnStops`: `Spec => []ChurnIsStopped`, for policies that are `Calibrated`: they suppress at
  all (`rapid_suppress_disconnect_count > 0`), and a connection that lasted `stable_reset`, after
  which the decider forgets, has outlasted both the window and `rapid_disconnect_uptime`. The
  defaults satisfy this, and so does the policy of the run; `ReconnectPolicy` does not ask for it,
  and without it the decider may forget disconnects that are still within the window.

`PowersAssumption` says of the factors of a policy what arithmetic does, that a natural power of
a natural number is one; the prover has no rule for `^`.

### Channels

The inductive invariant `IInv` strengthens them with three facts. *Soundness of
records*: an established channel was joined, so its failure cannot turn a handle
that was never joined into a live one. *Names match*: a name is reserved for a
handle of that name, so the owner that a frame finds in the registry is the
registered one. *The current rejoin is a handle's*: while the supervisor rejoins,
`sup.cur` is not `NoHandle`.

The argument has two halves. `ChannelStateProofs` proves of each helper that it
`Keeps` a channel: LEFT stays LEFT and nothing becomes live that was not. Only
`Accepted` and `Restart` admit a channel. `TopicRuntimeProofs` then shows of each
action that it is `Good`: either all it does to the channels is kept, so that
owners keep their names (`KeptIsGood`), or it admits the one channel whose name
it holds or just reserved (`StartJoinGood`, `RouteGood`). A reservation of a free
name takes it from no live handle, and `Release` only frees names of handles
that are LEFT (`ReleaseIsGood`). The rest is typing, in four parts.

`LossProofs` adds to `IInv` what makes a report right (*`LossesOK`*): a permanent cause belongs to
a channel that is gone, whoever is about to report is about a channel that was established and lost
(`Reportable`), and the first report, after the cleanup, is the only one. It is kept channel by
channel: `Tracks(c, d)` says that from `c` to `d` a lost channel stays lost, a leave that is done
stays done, and the reports stay right; every helper and every action is shown to track, since only
a leave that starts and a loss that is reported touch those fields. *`Supervised`* is what the
supervisor needs to report by itself: the channel whose rejoin it waits for was established, and
the one it reports was not left.

`SessionProofs` has two small invariants. *`Phases`*: until a stop the client does not shut down,
and it is closed only once its supervisor is gone, so nobody is left to connect it again.
*`WritersOwn`*: a send that is written belongs to the owner of its name; `MayRelease` waits for the
pending sends, which is why no release takes the name from under one.

The rest of `SessionProofs` first finds the *shape of a session* (`Session`): who holds the
connection (a supervisor with a session, or nobody), on whose behalf a cleanup is under way, and
that a connection nobody holds is closed unless that cleanup has yet to close it. Then:

- *Shutdown*. Most steps are `Calm` for a channel: no attempt begins, is written or is accepted.
  So the channels of a stopped client, which the stop has left (`Stopped`), stay left; `Emptied`
  says what each phase of the shutdown has got rid of.
- *Connections in turn*. With `Session` every step is one of `SessionLoop` or a stutter
  (`StepInTurn`): what was open had a holder (`HolderFacts`), so a socket that closes, a drop or a
  cleanup is a step of that name, and everything the supervisor does within a session is unseen.
- *The barrier*. Until the session is served, a required channel that should be rejoined is still
  to come, is next, or had its attempt on this connection (`Barrier`). No frame of an earlier
  connection can add one, since only an attempt on this one is accepted.
- *Reservations*. `ServerInv` relates the refs to the server. Every ref that was seen came from
  the counter and belongs to one handle (`RefsUsed`, `OwnRefs`); of a join still to be sent the
  server has heard nothing (`QueuedUnsent`); a leave is sent for a join that was (`LeavesOwned`);
  the end of a membership, or its refusal, is told after it (`EndsKnown`). Hence
  `MembersCurrent`: while the membership of a join stands, the join is of this connection and no
  terminal control for it has come, so `MayRelease` keeps the name.
- *Joined*. `Told` is about the frames that are still on their way: behind a reply that will accept
  the attempt in force, the membership stands or the frame that ends it is in the same queue. It is
  inductive because one topic's frames arrive in order.

For `NoOrphan` and `LossHasAReporter`, `LossProofs` has `TInv`: `ServerInv`, the work of the
supervisor (`AtWork`), and for each channel that it is `Tended`. The parts of that name the task
which is responsible at every moment. A channel to be rejoined has a recovery, or the supervisor
has still to turn to it, or awaits its attempt, which was not accepted (`Covered`). A recovery is one of
this session and not cancelled, or the cleanup that cancelled it waits for it
(`RecoveredHere`). A pending attempt of an established channel is awaited by its recovery or by
the supervisor (`Awaited`). A loss on this connection was started, or whoever awaits the failed
attempt will start it (`Reported`). Every step is either `Steady` for a channel, so that what
tends it still does, or one of the eleven that `Tends` to it; the first kind is handled in one
lemma per part, the second step by step. As an invariant of the `channel`, `reuse` and `channels`
instances TLC confirmed it before it was proved.

### Pushes

The heart of `IInv` is `Current`: an undecided call belongs to the membership its channel is
joined in now. It is why the end of a membership can decide all of its calls in one step, and
why a timer that is void on a connection that is gone leaves nobody waiting. `SessionHeld` and
`ChannelHeld` tie the session, the connection and the state of the client together, and `Dated`
keeps a call from a membership that its channel has not had. First each action is shown to lose
no membership but by deciding its calls (`...Loses`), then to keep the invariant (`...Held`), and
then to be a step of `PushCalls` (`...IsPromised`): the actions of the caller, the write, the reply
and the deadline are the steps of that name, everything that ends memberships is `End`, a rejoin's
reply is `Gain`, and the rest stutters.

### Delivery

`IInv` has one part per question. *`Processors`*: only the processor of the current membership is
alive, so a message that is taken belongs to it. *`Callbacks`*: a callback runs only while its
processor awaits it, so that a processor that has ended leaves none behind; this is where the
cancellation that goes to the callback matters. *`Teardown`*: a rejoin or a leave that drains waits
for the current callback, and one that is done has seen the processor end. *`Queue`*: what waits is
newer than what was handed over. *`Serving`*: nobody has told the processor of a joined channel to
stop, also after a rejoin that was given up halfway.

### Signals

`IInv` describes the handler table also in the middle of `_install` and `_restore`: a handler that
was replaced and not yet recorded is known to the main thread alone (*`Tables`*), ours is in place
for somebody or about to be taken away (*`Needed`*), and whoever waits has ours or a newer one of
the host (*`Installed`*). Who installs is in the table already, and nobody is when the handlers are
restored (*`Placed`*). `KeptInv` adds what the waiters know: whoever is in the table has taken the
latest signal, entered after it, or the host has it (*`Told`*), whoever leaves takes it along
(*`TakenAlong`*), and as the last one hands it back ours is gone from both signals (*`Away`*). So a
signal that is not handed back because ours is still there has another waiter.

### The connection

`IInv` of `ReconnectProofs` has one part per question. *`Watched`*: on an open connection
that is enforced, `deadline + quiet = Threshold`; the deadline is what is left of the
silence that is allowed, so the bound follows from its being no negative number. It
needs the shape of a session (*`Held`*): whoever holds a connection that is open has a
heartbeat that is not cancelled. *`Paced`*: while a beat is outstanding, what is left of
the deadline and the lag so far add up to `Threshold - Interval` at least, and while none
is, the next one is due before the deadline has lost an interval. With
`Interval + MaxLag < Threshold` an answer comes first. It is the skip of a beat while
one is outstanding that makes this inductive. *`Attributed`*: `forced_close_pending` is
set exactly while the connection is held and the client has begun to close it, and the
`CloseDetails` carry it on, so the code the decider is asked about is the server's. Of the
decider only two lemmas are needed (`FailureNeverAccuses`, `CloseAccusesPolicyOnly`): which
answers are the verdict on a policy violation.

For the refinement of `SessionLoop` one more fact is needed, `Abandoned`: a connection that nobody has
is closed. `StopSupervisor`, which does in one step what the shutdown does in several, is the reason
that `End` and `CleanUp` of `SessionLoop` may give up a connection at once.

`ChurnStops` compares the decider's window with the history of rapid disconnects. The decider
filters its window only when it is asked, so the two lists differ: it may hold entries that are
out of the window by now, and may have forgotten some that only just leave it. *`Mirrored`* says
that they agree when aligned at the latest entry, that what only the decider has is expired, and
what only the history has is at the window's edge. A tick ages both (`MirroredOlder`), a disconnect is
appended to both (`RecordedIsMirrored`), and where the lists are `Mirrored` as many disconnects are
remembered as there are in the window (`RapidAreRemembered`, `RememberedAreRapid`). *`Churned`*
adds that the window is not full while the client runs, and that within a session no disconnect is
younger than its connection: that, with `Calibrated`, is why the window is empty when a
stable connection resets the decider. `Least`, that a number with a property has a least one
below it, follows from the well-foundedness of finite subsets, which the library has without an operator
parameter.

### What is only model-checked

The liveness properties, ten of the passing runs: `JoinCompletes`, `LeaveCompletes`,
`ShutdownCompletes`, `LossIsReported`, `PushReturns`, `SendEnds`, `TeardownEnds`,
`MessagesAreHandled`, `SignalStops` and `LossIsHandled`. They need fairness and ENABLED, which
are out of this prover's reach. Every invariant and every action property of a passing run is proved.

## 5. Not modelled

- *Re-entry* (`__aenter__` after a shutdown) and the future of the initial connection. One run of
  the client is modelled from the moment it is connecting; the two hazards of re-entry are listed
  without a property.
- *Codec, messages, URL, protocol*: pure conversions without state. The text forms are JSON; the
  layout of binary frames is a matter of bytes, which the round-trip tests reach better.
- *Deciders of the application* and the broken answers that `_decide` turns into an error.
- *Authentication, diagnostics, exceptions, exports*: nothing in the client's state depends on them.
- *Registration of handlers* (`on`, `off`), and argument checks of the public methods.
- *Who called `shutdown()`*, where it is a lifecycle callback (`on_reconnect`, `on_topic_lost`):
  the exemption of that task at `client.py:293`. A message callback that calls it is in `Delivery`.
- *The boundary of the rapid-disconnect window*: whether a disconnect exactly as old as the window
  still counts is left open by `ChurnIsStopped`, and the cooldown floors of `RapidFloor` have no
  property of their own.

## 6. Plan

Done: `ChannelState`, `TopicRuntime`, `ReconnectDecider`, `Reconnect`, `PushCalls`, `Pushes`,
`Delivery`, `ShutdownSignals`, `SessionLoop`, their runs, and the proofs above. Next, in order:

1. `ClientLifecycle`: `__aenter__`, `run_forever`, `shutdown` and re-entry, with the lifecycle tasks
   that `is_fully_closed` does not see; its promise is that `run_forever` returns what the README
   says for the reason that ended the run.
2. `SessionLoop` also as the promise of `Pushes`, whose client starts within a session, and
   liveness of the loop: that every connection that was given up is closed.
3. Composition of `Delivery` with two channels whose callbacks leave each other.
