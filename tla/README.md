# Verification of the Emperor swarm C2 system

The repository is a command-and-control prototype: robot processes stream
telemetry to a C++ server, which keeps the state of the swarm and of every
command, and distributes both to operator clients (WPF, and a React client
behind a Node bridge).  This directory holds TLA+ models of it, the TLC
configurations that check them on small instances, and TLAPS proofs of the
properties that matter most for instances of any size.

Paths below are relative to the repository.

## 1. Inventory

| Part | State | Operations | Talks to |
|---|---|---|---|
| Command tracker (`src/core/command_tracker`) | `commands_`: per command its expiry, its targets' states, its completion stamp; one mutex | `onCommandSubmitted`, `onCommandSent`, `onCommandResult`, `sweepExpired`, `snapshot` | called by everyone below, calls nobody |
| Operator feed (`src/c2_server/operator_feed_service`) | locals of its RPC threads | `SendCommand`: validate, fan out, dispatch, confirm. `Subscribe`: a 5 Hz loop that assembles and writes a frame | tracker, gateway, track store, watchdog |
| Callback gateway (`src/core/grpc_robot_callback_gateway`) | `registry_`: robot id to reactor; one mutex | `SendCommand`, `Link`, `Register/UnregisterReactor`, `Deliver...` | reactors; the callbacks of `main.cpp` |
| Robot reactor (`src/core/grpc_robot_reactor`) | queue, write buffer, `writing`, `registered`, read buffer; one mutex for the queue | `enqueue`, `OnReadDone`, `OnWriteDone`, `OnDone` | gateway; driven by the gRPC callback library |
| Track store (`src/core/track_store`) | latest telemetry per robot; a mutex for the map, one per track | `upsert`, `snapshot` | called from reactors and frames |
| Link watchdog (`src/core/link_watchdog`) | last reception per robot; one mutex | `record`, `classify` | called from reactors, frames and `SendCommand` |
| Server wiring (`src/c2_server/main.cpp`) | none | the telemetry and the result callback | store, watchdog, tracker |
| Robot simulator (`src/robot_sim/main.cpp`) | motion, queue of results, `seq` | reader thread: apply, queue a result; writer loop: telemetry, results | its stream |
| Synchronous gateway (`src/core/grpc_robot_gateway`) | links with a queue, a condition variable and a writer thread each | as the callback gateway | superseded, not linked |
| Bridge (`gui/react-spike/bridge`) | `GrpcSource`: the stream, `healthy`, the backoff; `index.ts`: the last frame and status, the sockets | subscribe, data, error, end, re-subscribe; prime a client, broadcast, relay commands | server, web clients |
| Web client, data (`web/src/useSwarm.ts`, `useCommandAudit.ts`) | the last frame, the status, the socket; the audit log | reconnect, take messages, send; record, merge a frame | bridge |
| Web client, console (`App.tsx`, `CommandPanel.tsx`, `ConfirmDialog.tsx`) | selection, the two fields, the pending confirmation, whether the page's request was carried out | select, edit, apply, all-stop, confirm, cancel | the data half |
| Web client, alerts (`alertEngine.ts`, `useAlerts.ts`) | per robot the last link and side of the fence, the failures seen; the list, the acknowledgements | ingest a frame, acknowledge one or all | the data half; the map, whose fence it flashes |
| Web client, map (`MapView.tsx`, `mapStyle.ts`) | markers, ghosts, frozen positions, what the map library was told, the animation of the fence; the trails of `useSwarm` | draw on every change, load, toggle, pulse | the data half, alerts, console |
| Fake source (`bridge/src/fakeSource.ts`) | robots on circles, commands with their ticks | `sendCommand`, `tick`, `stop` | takes the place of `GrpcSource` in a demo |
| WPF client (`gui/operator_gui`) | view models, selection, edited parameters | apply frames, select, send | server |

What is hard here:

* **Interleaving.** Every RPC has its thread and every reactor its callbacks.
  A command is submitted, dispatched and confirmed in three critical sections,
  and the answer of the robot may arrive between any two of them.
* **Stale clock readings.** Threads read the clock before they take a mutex.
  Two feed loops sweep with readings in either order, and `record` may store
  the older of two readings last.
* **Streams that die.** A reactor lives until the library calls `OnDone`; what
  it holds then is lost; a robot may be back before that.
* **Restarts.** A robot process numbers its telemetry from 0.  A server that
  is restarted has forgotten its commands, a bridge its frame; a browser sees
  neither, only sockets that close and frames without its commands.
* **A link of two hops.** The browser's badge and log are fed through a gRPC
  stream and a WebSocket that fail, retry and are primed on their own.
* **Closures and effects.** A React handler reads what its rendering closed
  over; frames, alerts and selections go on meanwhile.  The dialog, the fields,
  ACK ALL and the map's load handler each act on something older than the state.
* **State beside React.** The map keeps markers, ghosts and layers of its own,
  that are told of changes call by call, and of none before it has loaded.
* **Time-outs.** Expiry and retention have no timer: a subscriber's loop does it.

What makes each part correct: the tracker never revises what is settled and
drops nothing in flight; the feed tells SENT, OFFLINE and the answers as they
happened; the gateway never uses a deleted reactor, and reaches a linked robot;
a reactor writes each command once, in order, and never sleeps on a queue; the
picture never goes back and its link health is what was received; the bridge
never gives up and tells its clients the truth about its link; the browser's
log claims nothing that did not happen and keeps an outcome for as long as it
has room; the console sends what was asked for, to whom it was asked for, and nothing wide without the
dialog; the alerts tell every change once; the map shows what the client holds;
the demo feed behaves as the server it stands for.

## 2. Modules

| Module | Models | Checked by |
|---|---|---|
| `CommandLifecycle` | abstract: what a target of a command may go through | as a property of `CommandTracker` and `FakeSource` |
| `CommandTracker` | the tracker, a method per action | `MCCommandTracker`, `CommandTrackerProofs` |
| `CommandPath` | `SendCommand` threads, links, robots, feed loops around an instance of `CommandTracker` | `MCCommandPath`, `CommandPathProofs` |
| `RobotLink` | registry, reactors and the library that drives them | `MCRobotLink`, `RobotLinkProofs` |
| `SwarmPicture` | telemetry callbacks, track store, watchdog, the robots half of a frame | `MCSwarmPicture`, `SwarmPictureProofs` |
| `WebLink` | `GrpcSource`, the bridge's relay, `useSwarm`, `useCommandAudit`, `doSend` | `MCWebLink`, `WebLinkProofs` |
| `Console` | `App`'s selection, `CommandPanel`, `ConfirmDialog`, up to `doSend` | `MCConsole`, `ConsoleProofs` |
| `Alerts` | `AlertEngine` and `useAlerts` | `MCAlerts`, `AlertsProofs` |
| `MapView` | the effects, the load handler and the toggles of the map, the trails | `MCMapView`, `MapAndFeedProofs` |
| `FakeSource` | the demo feed, against `CommandLifecycle` | `MCFakeSource`, `MapAndFeedProofs` |

`CommandPath` composes with `CommandTracker` by an instance.  `RobotLink` is
the detail of its links, and `WebLink` of one of its subscribers; each of them
sees of the others only what the code hands over, so that they are checked on
their own: a link takes a command or not, a server answers a command or not.
The four parts of the web client meet in React's state only: a frame that
`WebLink` has rendered is an input of `Console`, `Alerts` and `MapView`, what
`Console` sends is a `doSend` of `WebLink`, and what `Alerts` makes critical is
an input of `MapView`.  `FakeSource` takes the place of everything behind the
bridge and is shown to keep the life cycle that `CommandTracker` is shown to keep.

### CommandTracker

`commands` is `commands_`, a partial function.  Every public method holds the
mutex for its whole effect, so each is one action with the method's name.
`now` is any element of `Time` in every call: callers read the clock before
the mutex, and a system clock may be set back.  A target list may repeat a
robot, and the verdict of the watchdog may differ between the repetitions:
`targets.emplace` keeps the first verdict, `to_dispatch` gets an entry for each
online one.  Of a payload and of the detail texts no decision depends.

### CommandPath

One action for each stretch of a thread between two critical sections:

| Code | Actions |
|---|---|
| `SendCommand` handler | `Enter` (validation, clocks), `Submit` (fan-out and tracker), `Dispatch` (gateway), `Confirm` (`onCommandSent`), in the loop over the targets |
| link of a robot | `LinkUp`, `Break`, `Unlink`: coarse; `RobotLink` has the detail |
| robot | `Execute`: read, apply or refuse, queue the result |
| result callback | `ReadResult` (reads the clock), `RecordResult` (enters the tracker) |
| `Subscribe` loop | `Connect`, `StartFrame` (reads the clock), `SweepFrame`, `WriteFrame` |

The verdict of the watchdog is an arbitrary answer per target, because it is a
timer on telemetry and tells nothing of the stream.  What the registry takes
for a stream that broke is never written.  The clock only goes forward here.
`handed` and `executed` are history: no action reads them.

### RobotLink

Thirteen variables: the registry, the members of each reactor, and what the
library has in hand for it (`read`, `writes`, `broken`, `wire`).  `SendCommand`
holds the registry's mutex while it enqueues, so it is one action; a read
callback is two (`OnReadDone...`, `StartNextRead`), so that writes happen
beside it; `OnDone` is two (erase, delete).  A failing operation completes
with `ok = FALSE` once the peer is gone or the call is finished.  The first
message gives a reactor its id; it may be a result, whose `telemetry()` has the
empty id.  `registry_.emplace` keeps an entry that is there.

### SwarmPicture

A step per critical section: `Upsert` (find or make, under the map's mutex),
`Update` (compare and store, under the track's), `ReadClock`, `Record`;
`StartFrame`, `CopyCells`, `ReadCell` for each track, `Classify` for each row,
`WriteFrame`.  A stream is a robot and the number of its process.  Telemetry
arrives on a stream in the order it was sent, and that of a former process
may arrive after that of its successor.  A telemetry is its process and its
seq; positions are left out.  `heard`, `noted` and the fields `floor`,
`noted` and `processes` of a frame are history.

### WebLink

JavaScript runs a handler to its end, so that each is one action:

| Code | Actions |
|---|---|
| `call.on("data")`, with `onStatus` and `onFrame` of `index.ts` | `OnData` |
| `call.on("error")`, `call.on("end")`: `onDrop` | `onDrop`, for either event |
| the timer of `onDrop`: `subscribe` | `subscribe` |
| `wss.on("connection")`, the browser's `connect` | `Connect` |
| `ws.on("message")` of the bridge | `OnCommand`, then `Submit` at the server |
| `onopen`, `onmessage`, `onclose` of `useSwarm` | `OnOpen`, `OnMessage`, `OnClose` |
| the effect of `useCommandAudit` on a new frame | `Render` |
| `doSend`: `sendCommand` and `record` | `doSend` |

A frame is reduced to what the log makes of it: the commands that are listed,
open or applied.  A setState is seen by the effects only when it is rendered, so
`OnMessage` and `Render` are two steps, and of two frames in between only the
second is merged.  The call that `GrpcSource` replaces is not cancelled, hence
`call` has several.  The library reports the end of a call once its frames
were taken, with an error, an end, or both (`Endings`); the code handles any of
these and the library is outside of it.  A socket is `opening` until the
browser's `onopen`; the bridge may write to it before that.  `broken` and
`refused` are a socket that is dead to the bridge while the browser has not been
told: what it sends there is lost, what is on its way may still arrive.  A dead
socket that is left in `clients` is skipped by `broadcast`, and is left out.

Left out: how long the waits are, the wording of statuses, the acks, which the
browser ignores, the trails (they are in `MapView`), and the difference between
the targets of a command, which are merged independently.  A command is its number:
the client mints an identity that is new, and the log, newest first, is cut to
`MAX_ENTRIES`.  Commands do not expire here: `APPLIED` stands for any outcome.

### Console

A handler runs to its end and React renders what it set, with the effects, before
the next event: a click and its effects are one step.

| Code | Actions |
|---|---|
| the effect on `swarm.frame` that carries out `?confirm=` and `?fire=` | `NewFrame` |
| `handleSelect`, `clearSelection`, `flyToRobot` | actions of these names, each with the effect of `CommandPanel` on a new first target (`Prefill`) |
| `onChange` of the two inputs | `Edit` |
| APPLY, ALL STOP | `apply`, `onAllStop`, both by `issueCommand` |
| the buttons of `ConfirmDialog` | `onConfirm`, `onCancel` |

Values are in halves of a unit, so that `toFixed(0)` has something to round.  A
frame may lose robots, which stay selected.  The dialog hides the page from the
mouse, not from the keyboard: everything may happen while it is open.
`asked` numbers what the operator asked for, and `origin` is the robot whose
selection last filled a field; both are history.

### Alerts

`RenderFrame` is the effect of `useAlerts` on a frame: the engine's three families
of rules in the code's order, the list that is cut to `MAX_ALERTS`, the pulse for
the map.  A frame that is replaced before it is rendered is never ingested, so the
next frame may be any.  The alerts made by an effect are rendered after it:
`shown` lags behind `alerts`, and `ack` and `ackAll` are clicks on `shown`.  The
distance to the fence is the flag `inside`.  `links` and `sides` are history, made
of the frames and not of the engine's memory: per robot the statuses its link was
seen with, and the sides of the fence it was seen on while not LOST, each with no
two alike in a row.  An alert is owed for every step of either.

### MapView

A property of the component that changes is rendered and its effects run:
`onmessage` (a frame, with the trails that `useSwarm` pushes), `Select`, `Alert`,
`toggleSa`, `ToggleBasemap`, `toggleLayer`.  `Load` is the handler of the map's
load event, which draws with the selection, the alerts and the overlays its
closure has, those of the first render.  `step` is an animation frame of the
fence's pulse.  A row is its last telemetry and its age; the link follows from
the age as in the watchdog, and ages only grow while a robot is silent.  The ghost
of a robot is where dead reckoning takes its row, a function, so the row stands for
the place.  Where a marker is put and which way it points is left out
(`MapView.tsx:147-151`, a conversion of the row): markers and headings are compared
by which robots have one.  `byLoad` and `early` are history: the load handler was the last to
draw, a layer was toggled before the load.

### FakeSource

`tick` is the interval: time, commands, then the frame.  A robot's motion is its
speed, its radius and an offset; an angle is a whole number, and `Omega` stands for
speed over radius.  A command gives a speed, a radius, both, or an angle with them.
`applyParams` takes a radius only if it is above zero (`Sized`), as the code does,
and keeps the angle when speed or radius changes.  The centre is left out: it is
taken like the speed and turns nothing.  The scripted cycle of link loss shows the angle of the tick at
which the link went.  The list of commands is in the order of their numbers, so it
is a partial function of the number; the two loops of `advanceCommands`, over the
commands and over the targets of one, are the recursive functions in `Applied` and
`AppliedTargets`, and what is dropped at its end is in `advanceCommands`.  A target
list may be empty and may repeat a robot, as one of the instance does.  Its names differ from those of the other
modules (`FakeSpec`, `RobotId`) so that one module can be about it and `MapView`.

## 3. Runs

| Run | Instance | Shows |
|---|---|---|
| `tracker` | 2 ids, 2 robots, lists of up to 2 targets, clock readings 0..2, retention 1 | `TypeOK`, `CompletedIffSettled`, `TrackedIsStable`, `ImplementsLifecycle` |
| `path_fan_out` | 1 command for 2 robots, 2 subscribers, clock 0..2, expiry 1 | `ExpiredNotEarly`, `DroppedOnlyAfterRetention` |
| `path_two_commands` | 2 commands for 1 robot, one with refused parameters, 1 subscriber | `VerdictMatchesRobot`, `SentIffHanded`, `EverySubmissionSettles` |
| `robot_link` | 2 streams, a robot id and the empty id, up to 3 commands a reactor | `TypeOK`, `NoDanglingReactor`, `OneWriteFromTheFront`, `HandedOverInOrder`, `PumpNeverStalls`, `QueueDrains`, `TeardownCompletes` |
| `robot_link_reconnect` | 2 streams, 1 command | violation of `LinkedRobotIsFound` |
| `swarm` | a robot started twice, one started once, 1 subscriber, clock 0..2, bands at 1 and 2 | `FreshestKept`, `FrameIsCurrent`, `SilentIsNotLive`, `AgeNotOverstated`, `ShownNeverRegresses` |
| `swarm_restart` | a robot started twice | violation of `LiveShowsLatestProcess` |
| `web_link` | 2 commands and a log with room for one, 1 failure of any kind, calls ended by an error, an end or both, 1 frame in a call, 2 messages in the socket | `TypeOK`, `RetryPending`, `StatusTellsHealthOfOneCall`, `BrowserAgreesWithBridge`, `AuditTruthful`, `AuditKeepsOutcome`, `ConnectionRecovers` |
| `console` | 2 robots, frames with none, one or both of them, 2 commands asked for, more than 1 target is wide | `SentAsAsked`, `ValueOfFirstTarget`, `WideIsConfirmed` |
| `alerts` | 2 robots, 1 command, 4 alerts of which 3 are kept, frames with any link and side of a robot, failures that are listed twice | `FeedTellsRobots`, `FailureAlertedOnce`, `AckIsOfShownAndFinal` |
| `map_view` | 1 robot, 2 telemetries, ages 0..3, 1 layer, trails of 2 | `PictureIsCurrent`, `LayersAgree`, `FrozenForOneOutage` |
| `fake_source` | 2 robots and an unknown name, a list that repeats a robot, 2 commands with a speed, a radius, both, an angle or a radius of zero, 10 ticks: 2 cycles of link loss | `ImplementsLifecycle`, `PhaseIsSteady`, `LatestCommandRules` |

Why the bounds are enough.  The tracker's properties relate one command to its
targets and two calls to each other: two ids, two robots and three clock
readings give every order of readings around one expiry and one retention.
`path_fan_out` has a list of two targets, each with a verdict of its own, and
two loops with readings of their own; `path_two_commands` has two threads that
share one stream.  Expiry 1, retention 1 and clock 2 let a command expire, be
held and be dropped.  In `robot_link` three commands make the queue hold two
behind one that is written; two streams are the old and the new one of a robot
that reconnects.  In `swarm` the robot started twice has the callbacks of two
streams side by side, the other appears in the middle of a snapshot, and three
readings reach all three bands.  In `web_link` entries are merged one by one, and
the second command cuts the first from the log, settled or not, while frames still
list it.  One failure meets every state of the others' work: a call, a socket, the
bridge or the server fails with a command, a frame or a status anywhere on its way.
A second failure during the recovery is in the proofs, which are for any number of
them, for all properties but `ConnectionRecovers`.  In `console` two commands
are one that waits in the dialog and one that takes its place or is sent behind
it; with a limit of 1 the two robots are a wide command.  In `alerts` the fourth
alert cuts the first, so that both a complete list and a cut one are reached.
`map_view` has one robot because each row is drawn on its own; ages up to 3 let a
LOST robot grow older, and a frame may skip the STALE band.  In `fake_source` two
commands may be due in the same tick, before, in and after a loss of the link,
and a command is settled, retained and dropped.  The proofs remove the bounds for
every invariant and action property of these runs; what TLC alone shows is
liveness.

The instances with a bounded clock or a bounded number of commands stop at
their bounds; `CHECK_DEADLOCK FALSE` appears where that can happen.

### Fairness

* `CommandPath!Fairness`: time passes; a `SendCommand` thread, a result
  callback and a loop that has begun a frame take their next step, for which
  they need nothing but the tracker's mutex, held for bounded work.  Nothing
  obliges a client to call, a robot to answer or a `Write` to a client that
  does not read to return; `EverySubmissionSettles` therefore has the premise
  that frames are begun again and again.
* `RobotLink!FairSpec`: the library completes what it was given once it can
  (a write to a peer that lives, anything on a call that is dead), and a read
  callback goes on.  A robot may stay silent for ever.
* `WebLink!Fairness`: timers fire, the library and the network deliver what is
  on its way and report what has ended, and the server's loop writes frames, for
  each call on its own (`WF` of `Browser` and of every `Stream`).  Failures are
  not fair and their number is bounded, so that `ConnectionRecovers` says what
  happens after the last one.
* `Console`, `Alerts`, `MapView` and `FakeSource` have no fairness: what must happen
  in them happens in the step of the event, and nothing obliges an operator.

## 4. Proofs

`CommandTrackerProofs` proves, for every set of commands and robots, every set
of integers as clock, every retention above 0:

* `TypeCorrect`, `StampCorrect`: `TypeOK` and `CompletedIffSettled` are
  inductive together.  The pair is needed: phase 1 of the sweep re-stamps only
  entries without a stamp, which is right only because an entry with a stamp
  is settled.
* `Stability`: the action property, from the same invariant.
* `Refinement`: every step maps to a step of `CommandLifecycle` or a stutter.
  The invariant is what shows that `Retire` never takes a command in flight.

The lemmas follow the code: `RefreshCorrect`, `WithResultCorrect` and
`ExpireCorrect` say what the helpers return, `ReplaceStep` what it means that a
method replaces one entry by a legal successor, and one lemma per method uses
them.  Assumption: the retention is positive (`RetentionAssumption`).  With a
retention of 0 the sweep could settle and drop a command in one call.

`CommandPathProofs` proves of the running system, for any number of requests,
robots and subscribers, any lists of targets and any clock that goes forward:

* `DropIsLate`: a thread that carries an old reading into the sweep drops nothing
  early, because a reading is never ahead of the clock.
* `VerdictCorrect`, `SentCorrect`, `ExpiryCorrect`, in three layers.  `Types` says
  what a thread carries from one mutex to the next.  `Origins` follows the messages:
  what is in a stream, a queue or a callback is of a request that was handed over
  and, on its way back, was applied if it says so; the dispatch loop hands a target
  over at its entry and not before.  `Told` relates the tracker to that: a target
  that is handed over is PENDING only between the two critical sections of its own
  dispatch, which is why a result that overtakes `onCommandSent` does no harm.
* `PathFollowsLifecycle`: what the threads pass to the tracker are calls that
  `CommandTracker` allows, so that `CommandTrackerProofs!Refinement` holds of the
  system as a whole.

The tracker's lemmas are cited through an instance, and its assumptions are
derived from those of `CommandPath`.  The theorems of `Told` assume `UniqueIds`: a
client that reuses an id has one entry for two requests, and the verdict of one is
told of the other.  Assumptions: a target list names a robot once
(`RequestAssumption`), the retention is positive.

`SwarmPictureProofs` proves, for any number of robots, processes, streams and
subscribers, any bands and any clock, `StoreKeepsNewest`, `SnapshotCurrent`,
`SilentNotLive`, `AgeCorrect` and `NeverBack`.  `FreshestKept` is inductive
only with what `Update` rests on: the callback that compares has a message and finds
a track, and every track came on a stream (`Delivered`).  `Current` puts four pictures in order:
what a subscriber was shown, what there was when its frame was begun, what the frame
reads cell by cell, and what there is; `ShownNeverRegresses` follows from the two
ends.  `Heard` and `Noted` bound what `record` stores by the readings of the
callbacks, although the older of two readings may be stored last.  Assumptions: the
bands are in order (`BandsAssumption`), a process sends any number of telemetries
(`BoundsAssumption`).

`RobotLinkProofs` proves, for any number of robots, streams and commands,
`TypeCorrect`, `NoUseAfterDelete`, `SingleWriter`, `InOrderHandover` and
`NoLostWakeup`.  The inductive invariant joins `TypeOK` and the four
properties with the one fact they silently rest on: only the reactor of a call
that runs has a read to complete, so that none registers after its `OnDone`.
`NoDanglingReactor` is inductive although `OnDone` erases by id
and not by reactor: erasing too much makes robots unreachable, never dangling.
The order of the queue is handled by lemmas about runs of consecutive numbers
(`AppendRun`, `TailRun`), so that no step of the main proof does arithmetic on
sequences.

`WebLinkProofs` proves, for any number of commands and failures, any bounds and
any way in which calls are ended, `TypeCorrect`, `NeverGivesUp`,
`StatusCorrect`, `BrowserCorrect`, `LogTruthful` and `LogKeepsOutcome`.  The
invariant of the first, second, third and fifth has two halves that need nothing
of each other:

* `Subscribed`, of the bridge.  `StatusTellsHealthOfOneCall` is not inductive:
  `subscribe` announces FALSE and leaves `healthy` alone.  It is right because a
  timer is set by `onDrop` only, and because there is one call or one timer
  (`OneCallOrTimer`), which fails exactly when a call is ended by both events;
  the history variable `twice` says so.
* `AllHonest`, of the data.  A frame, in a call, in the bridge's cache, in the
  socket or on the screen, says applied only of what was applied.  A command
  that is on its way must not be known to the server yet (`OnItsWay`), or its
  arrival would undo an outcome.

The other two are about the order of what is on the way, each with an invariant of
its own on top:

* `Arrives`, for `BrowserCorrect`.  A property of an empty socket says nothing of a
  full one: the invariant says that the last status in it, or else the one the page
  has, is the bridge's, and the same of frames.
* `InOrder`, for `LogKeepsOutcome`.  A frame may come after another if no command
  that the first says was applied is open in it.  The log, the page, the socket, the
  bridge's cache and the pipe of the one call are such a row, and what the server
  adds at its end is right because every frame on the row is honest; a step moves a
  frame along the row.  What `record` cuts is the oldest entry, by its number.  With two calls (`twice`) there are two rows, which is why
  the property excepts them.

Assumptions: a call ends with at least one event (`EndingsAssumption`), the
bounds are positive (`BoundsAssumption`), the log has room for an entry
(`CommandsAssumption`), no frame is not a frame
(`NoneAssumption`).

`ConsoleProofs` proves, for any number of robots, any frames and any number of
commands, `AskedOnce`, `FilledForTarget` and `Confirmed`.  `SentAsAsked` is inductive
with one more fact: what the dialog waits with was asked for as it stands and is
not among the commands sent (`Pending`); a new command has the number behind all that were asked for,
so that it can neither equal one sent nor the one that waits.  `ValueOfFirstTarget`
rests on the fields being those of the first robot selected at every time, also
when it is none or has left the frame.  Assumption: no robot, dialog or number is
`None`.

`MapAndFeedProofs` proves of `MapView`, for any robots, telemetries, ages and layers,
`Drawn`, `Layered` and `Frozen`.  `PictureIsCurrent` and `LayersAgree` are nearly
inductive (`MapInv`).  `FrozenForOneOutage` needs what `lostFrozen` silently rests on:
whatever is frozen was last drawn with a link that is down, so that the robot's
recovery is noticed, and a ghost that is LOST and frozen is drawn where it was frozen.

Of `FakeSource` the same module proves, for any robots, speeds and radii, any `Omega`,
any lists of targets, any cycle of the link and any number of commands and ticks, `LatestRules`,
`FeedRefines` and `PhaseSteady`:

* What the loops compute.  A tick applies, in two nested loops, whatever is due, and
  of several commands to a robot the last one must win.  A lemma on loops
  (`LoopExists`, by `AllNumbers`, an induction over a set of numbers) says that such a
  function exists.  `TargetsEffect` then says of one command that a robot it is due
  for takes its speed and its radius, where it gives one it can take and also when the
  list repeats the robot, and that others keep theirs; `AppliedCorrect` says of all of
  them, for each of the two, that it is that of the last one due which gives it, and that the angle at the time of the tick stays as it was unless one due gives
  an angle.
* The invariant of `LatestRules` (`FeedInv`).  `LatestCommandRules` is not inductive.
  A command that is ahead of an earlier one would be overruled by it later, and one
  dropped before an earlier one would leave the earlier one as the latest listed.
  `InOrder` excludes both: every target takes the same three ticks, so that commands
  settle in the order in which they came.  That is why a list with a name the
  simulator does not know, which may settle at once, is excepted (`Before`).
* `FeedRefines`: a tick takes a target one step on or leaves it, and a command that
  the tick drops had been settled before the tick (`AdvancedCommandCorrect`).  The
  retention of two ticks or more is needed for that: with a retention of one tick a
  command would be APPLIED and dropped in one tick.
* `PhaseSteady`: between two ticks at which the link is down, the tick and its place
  in the cycle go on together (`CycleStep`, from the division lemma), so that the
  tick of the loss stays the same.

`CommandLifecycle` is so proved to be kept by the server's tracker and by the feed
that takes its place in a demo, each with the invariant of its own.

Assumptions of `MapView` and `FakeSource`: the bands are in order and the first is
above 0; a trail has room for a position; the simulator's robots are among those an
operator may name (`RobotAssumption`), speeds, radii and `Omega` are
integers (`MotionAssumption`, `ParamsAssumption`), each
part of the cycle lasts a tick and a settled command is listed for two
(`TicksAssumption`; in the code 45, 30, 20 and 40).

`AlertsProofs` proves, for any robots, commands, frames and bounds, `TypeCorrect`,
`FeedCorrect`, `FailuresCorrect` and `AcksCorrect`, in three layers:

* What a recursive function returns.  `Created` is two `FlattenSeq`, whose
  definition is a recursive function.  The library's induction theorem takes an
  operator, which no installed prover can instantiate; induction over a set of
  numbers (`AllNumbers`) needs only that a set of numbers has a first member, which
  the library has.  From it follow that the function exists (`FlatExists`) and what
  it lists (`Flattened`).
* What a frame makes (`CreatedCorrect`): an alert of every change that the frame
  tells, once, and of nothing else; of every failure not alerted before one, also
  when the frame lists it twice.
* The invariant.  It counts from the end: an alert that n others of its kind and robot
  follow tells the change that n others follow (`TellsAs`).  That holds of the whole
  list, old and new, because a change adds one alert and one change (`TellsWhole`),
  and so of its last members, which is what is kept (`TellsSuffix`).  Counting from
  the end needs no word on how many alerts were cut.  `Remembers` ties the history to
  the engine's memory: what was seen last is what the engine compares with, or it
  would miss a change.  While nothing was cut the number of alerts is the number of
  changes, so that an engine which is silent about recoveries, about a first change
  or about both halves of an excursion does not satisfy it.  For the acknowledgements
  it takes that what is acknowledged has a number already given (`Acks`), or an
  alert made later could be born acknowledged.

Assumptions: a frame lists a robot once (`FramesAssumption`; the server's frame is
made from a map), the list has room for an alert (`BoundsAssumption`), `None` is no
status, flag or command (`NoneAssumption`).

Only model-checked are the liveness properties, `EverySubmissionSettles`,
`QueueDrains`, `TeardownCompletes` and `ConnectionRecovers`: liveness under fairness
is out of the prover's reach.

## 5. What the code does not keep

Shown by a run:

* **A robot that reconnects can be unreachable while linked**
  (`robot_link_reconnect`).  The old `OnDone` erases the new stream's id, or
  `emplace` never stored it.
* **A restarted robot is frozen and LIVE** (`swarm_restart`), until its seq has
  caught up with that of its former process.

### Observations

Met while modelling, and not claimed by any property.  Those of the server:

* The robot applies expired commands.  `src/core/command_tracker.hpp:53` and
  `docs/TECH_SPEC.md:116` count on the robot to refuse them; `src/robot_sim/main.cpp:157`
  never reads the field.
* A reused command id is dispatched again.  `emplace` (`command_tracker.cpp:59`)
  keeps the first entry; the dispatch list of the second is returned all the
  same (`docs/TECH_SPEC.md:130`).
* An outcome can be dropped unseen.  Retention runs from completion, and a loop
  sweeps (`command_tracker.cpp:113`) before it takes its snapshot, where
  `docs/TECH_SPEC.md:58` has every outcome in the feed.
* Both a failed read and a failed write call `Finish`, and `SendCommand` may start
  a write on a call that is finished: what the library does is outside this code,
  and `RobotLink` completes such a write with failure.
* A robot named twice in a target list is sent a command for each online entry,
  and with a verdict that changes in between it is shown ROBOT_OFFLINE and sent a
  command.
* A command whose dispatch finds no link stays PENDING until it expires.
* The documents disagree on SENT: `docs/TECH_SPEC.md:112-113` has it written to the
  robot's stream, `src/core/command_tracker.hpp:49` handed to a live link's outgoing
  queue.  The code does the latter, and `SentIffHanded` says the latter.
* A row classified after its frame's clock reading can have a negative age, and -1
  then reads like a robot never heard from.

Those of the bridge:

* The badge can say that the link is down while frames arrive: an error and an
  end of one call both run `onDrop` (`grpcSource.ts:89`), set two timers, and the
  second subscription announces FALSE after the first has become healthy.  For the
  same reason `AuditKeepsOutcome`, `StatusTellsHealthOfOneCall` and
  `ConnectionRecovers` are claimed only while no call was ended by both (`twice`):
  frames of two subscriptions arrive in either order.
* In the demo feed the last-known position of a robot moves when a command is
  applied while its link is down (`fakeSource.ts:124`, `:141`): the angle of the
  time of the loss is computed with the new motion.  `PhaseIsSteady` excepts it.
  The comment at `fakeSource.ts:67` counts a frozen robot that the constructor
  no longer makes.
* The demo feed lists a command as APPLIED although it drops its radius: one of zero
  or less, which `CommandPanel.tsx:45` lets through, is skipped (`fakeSource.ts:197`).
  `src/robot_sim/main.cpp:104` rejects such a command as a whole.  The head of
  `fakeSource.ts` (`:7`) has APPLIED go with the change of R and V;
  `LatestCommandRules` is about the radii above zero.

Those of the web client:

* The audit log forgets: it keeps the last 100 commands (`useCommandAudit.ts:26`,
  `:41`), so that the next one takes the oldest entry and its outcome with it, where
  the head of the file speaks of every command issued in the session and of a log
  that must not forget (`:4`, `:7`).  `AuditKeepsOutcome` is claimed until then.
* A command sent while the browser's socket is closed is recorded and never sent;
  its entry stays pending for ever.
* The fields of the console are sent as they stand, typed or prefilled
  (`CommandPanel.tsx:6`): a command to several robots gives all of them the
  rounded values of the first, as they were when it was selected.  A page opened
  with `?sel=` selects a robot before there is a frame and prefills nothing.
* A critical alert that nobody has acknowledged is cut from the list like any
  other (`useAlerts.ts:27`), and with it the flash of its robot, which the comment
  has flash until it is acknowledged (`:37`).  A robot that is first seen LOST raises
  no link alert.
* A ghost freezes only at a change from STALE to LOST that is drawn with the
  ghosts on (`MapView.tsx:207`).  Of a robot that skips STALE, of one that is LOST
  when the page is opened, and when ghosts are off at the change, the ghost goes
  on moving while the robot is LOST.  A robot that goes from LOST back to STALE
  keeps its frozen position unseen: its next LOST replaces it if that change is drawn
  with the ghosts on, and shows the old one, once they are turned on, if it is not.
* STALE robots still push to their trails (`useSwarm.ts:98`), where the comment
  speaks of trails that freeze.
* The load handler draws with the first render's closure, draws no orbits, and
  reapplies the basemap but not the layers that were toggled before it; a pulse of
  the fence before the load is lost.  The properties of `MapView` except these.

## 6. Not modelled, and why

* Motion and geometry (real arithmetic, nothing else depends on it), protobuf
  conversions, probes and scripts.
* The web client's other views: functions of what the other components hold.  Of
  the map the camera, the flash of a robot that has recovered, and the shapes.
* The WPF client (C#): a second client of the same feed; its view model's selection
  and edited parameters have the part of `Console`.
* The synchronous gateway: superseded, and not linked by `c2_server`.
* The robot simulator's own threads: `CommandPath` and `SwarmPicture` have what the
  server can tell of them.

## 7. Plan

In this order:

1. `RobotSim`: reader and writer thread of a robot, the single-writer rule, the
   results lost at teardown; that its outcomes are those `CommandPath` assumes.
2. The WPF view model with its edited parameters, beside `Console`.
3. `SyncGateway`: the writer thread with its condition variable and stop flag.

The new modules need runs of their own, in place of instances that ask the least.
