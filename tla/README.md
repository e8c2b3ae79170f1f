# MOSAIC core: models and proofs

TLA+ models of mosaic-core, the C++ library that connects a robot to a signaling
server over a WebSocket and to one remote peer over WebRTC. The models are
translated from the source; TLC checks them on small instances and TLAPS proves
the theorems named below for every value of the constants.

In this text `PCM` is `src/src/core/peer_connection_manager.cpp`, `MC`, `CSM` and
`FAC` are `mosaic_connector.cpp`, `connector_state_manager.cpp` and
`mosaic_connector_factory.cpp` beside it; `SC` and `WS` are `signaling_client.cpp`
and `websocket_client_impl.cpp` under `src/src/signaling/`; `DC`, `MT`, `REC`, `VR`
are `data_channel_handler.cpp`, `media_track_handler.cpp`, `recordable.cpp` and
`video_recorder.cpp` under `src/src/handlers/`; `AC` and `CAM` are
`auto_configurer.cpp` and `impl/opencv_camera_mt_handler.cpp` under
`src/src/auto_configurer/`; `BDC` and `BAC` are `bind_data_channel.cpp` and
`bind_auto_configurer.cpp` under `src/python/bindings/`.

## The system

| Component | State it keeps | Operations | Correct when |
|---|---|---|---|
| Session life cycle (`PeerConnectionManager`, its observer) | `peer_connection_`, observer, factory and WebRTC's threads | offer, close request, candidate, WebRTC's callbacks, shutdown | one session at a time, nothing of it left when the state says ready, no null or destroyed connection used |
| Connector registry (`MosaicConnector`) | handlers by label and track name | register, `OnDataChannel`, `CreateAllMediaTracks`, `CloseAll*`, `ShuttingDown` | every handler follows the session, and is registered before one needs it |
| Status announcement (`ConnectorStateManager`) | `state_`, its mutex, a thread that broadcasts once a second | `SetState`, `IsState`, broadcast | the server ends up knowing the state and never sees it go back |
| Signaling client | `is_connected_`, `latest_state_`, the connection id | dispatch of messages, `SendState`, answers, candidates | what is sent belongs to the session it is sent for |
| WebSocket client | `m_client`, `m_connected` | connect, disconnect, send, reconnect five seconds after a close | one link at a time; a lost link comes back; a stop returns |
| Startup (`MosaicConnectorFactory`), security | the wiring of the parts above; `authenticated_` | `Create`; the authorization messages | a part is called only when it is in place |
| Data channel sending | `send_queue_`, `is_sending_`, `dc_interface_` | `Send`, `SendAsync`, completion, attach, close | order, one message in flight, none stuck |
| Data channel receiving | `dc_interface_`, `observer_` | attach, `OnMessage` converts and hands over | order, only what cannot be converted is dropped, none waits for ever |
| Connection check | none | sends back what it receives | every message it could send comes back, as text and in order |
| Media track and camera | the track source with `is_running_` and `stop_flag_`, the frame loop's thread | `CreateVideoTrackSource`, `Start`, `Stop`, `Close` | one frame loop, joined by `Close` |
| Recording | `record_state_`, the settings, the video writer | start, pause, resume, stop, settings, `RecordFrame` | frames meet an open file; recordings are kept |
| Auto configurer, config reader, connector resolver | the configuration, `configurable_connectors_`, its maps of handlers | read, create, resolve, validate, configure, register | every configured connector is registered, and sessions use it |
| Logger | level, an exchangeable logger | log | logging never blocks the caller for ever |
| Python bindings | the interpreter lock (GIL) | callbacks into Python, calls from it, conversion of values | no thread waits for ever, values come through |

Who calls whom: the WebSocket's thread runs `SignalingClient::OnMessage`, which
calls `MosaicConnector` and through it `PeerConnectionManager`. WebRTC's
signaling thread runs the description observers and `OnConnectionChange`, which
call the same objects, and the data channel attachment; its network thread runs
the data channel observers. The application's thread creates the connector, directly
or through `AutoConfigurer`, shuts it down and sends over data channels. Frame
loops, the status broadcast and the reconnection have threads of their own. Only the
state manager (a `shared_mutex`) and the send queue (a `mutex`) lock anything, and
the bindings share Python's interpreter lock.

What is hard about it, therefore: handlers of three threads that test
shared state and act on it later; callbacks of a session that arrive when it is
being closed; calls that are marshalled to a thread that may itself be calling;
an exception thrown by a status message or by an application's handler in the middle of a close; a WebSocket
that is lost and dialled again beside the broadcast, a message handler, or a stop;
completion callbacks that do not come; a thread that has to be stopped through a flag
that another thread resets; a file that opens under a name that was used before;
two locks that are taken in opposite orders. `PROJECT.json` lists these hazards with their
lines and the properties that watch them.

## Modules

| Module | Role |
|---|---|
| `SessionLifecycle` | abstract: what the signaling server may rely on, in terms of the announced status and the session |
| `PeerConnectionManager` | the session life cycle, three threads, one shared access per step; implements `SessionLifecycle` |
| `MCPeerConnectionManager` | which threads interleave, for TLC |
| `PeerConnectionManagerProofs` | proofs about it, for overlapping and for serial handlers |
| `StatusBroadcast`, `StatusBroadcastProofs` | how the state reaches the server |
| `Signaling`, `SignalingProofs` | startup, the WebSocket link and its reconnection, the dispatch of messages, connection ids, stop |
| `Outbox` | abstract: the order in which accepted messages leave |
| `DataChannelSender`, `DataChannelSenderProofs` | the send queue of a data channel handler; implements `Outbox` |
| `DataChannelReceiver`, `MCDataChannelReceiver`, `DataChannelReceiverProofs` | the receiving half of a handler: channels, observers, conversion, handling in C++ or Python |
| `JsonConversion` | JSON values to Python objects and back, as recursive operators |
| `CameraTrack`, `CameraTrackProofs` | the camera's frame loop between start and close |
| `Recording`, `RecordingProofs` | recording the frames of a track |
| `AutoConfigurer`, `MCAutoConfigurer`, `AutoConfigurerProofs` | from a configuration file to registered handlers and the sessions that use them |

The modules meet at their interfaces. `Signaling` calls `PeerConnectionManager` with a
session message and `StatusBroadcast` with its resend; each abstracts the others to the effect of
that call. In `PeerConnectionManager` the starts of all track sources are one step and so are their
closes; either may throw, and a close that overlaps a start or another close may hang (`Tangled`).
`CameraTrack` is what the two steps consist of for the camera, for one thread that starts and one that closes, and shows
when the close does return: always, when the two do not interleave. `AutoConfigurer` has the loop over the
tracks, with the tracks that fail. `DataChannelReceiver` gives the
connection check's echo to the queue that `DataChannelSender` models.

### PeerConnectionManager

`state`, `peer`, `signaling` and `factory` are the members `state_`,
`peer_connection_`, `signaling_client_` and `peer_connection_factory_` (with the
WebRTC threads that are stopped with it). WebRTC is external: `open`, `made` and
`phase` say which connections exist and how far their negotiation and ICE
connection are. `media` and `channel` summarise the handlers: the track sources
run, a handler holds the data channel of a connection. `at[t]` is where thread
`t` is, by the name of its next access; `ret[t]` is where `ClosePeerConnection`
returns to, `held[t]` the connection it is inside a call of. `observer` is the connection that
`peer_connection_observer_` was made for. Three variables record what the properties have to except or compare: `serving`
is the connection whose offer is being answered, `replaced` the connections that were overwritten, and
`abandoned` tells that a throwing handler has ended the last close early.

`ClosePeerConnection` (`PCM` 270-294) is run by all three threads: by a message,
by a lost connection, by the shutdown and by an offer that finds a connection.
Its two `IsState` calls are two steps, because each takes the lock for itself;
so are its `SetState` calls, the closing of the tracks, of the channels, the test
of `peer_connection_`, the call of `Close` and the assignment of null. The `try` block (277-290) is
the step from `CloseAllMediaTracks` or `CloseAllDataChannels` to `OnConnectionDisconnected` that a handler's exception takes:
what was not reached stays open, and `READY_TO_CONNECT` is announced. `CreatePeerConnection` (143-165) is three steps: the
observer is replaced, the factory's call runs on the rtc thread, its result is assigned. Between the
last two that thread may run a callback of a connection that was left behind.
A method of a WebRTC connection called from another thread is marshalled: `Enter`
takes the pointer, the `Run` action executes it when the rtc thread is between
callbacks. `Close()` reports `kClosed` to the observer while it runs, which enters
`ClosePeerConnection` again (`CloseFromWithin`). An assignment that
destroys a connection another thread is inside of may go wrong or not (`Assign`).
`SetState` may throw, because the status message may; who catches that depends on
the thread.

Constants choose the environment: `MayOverlap` names the pairs of threads whose
handlers may interleave (`{}`: handlers run one after the other), the others
switch losses, the `kClosed` callback, the shutdown, failing creations, throwing messages and
throwing handlers on and off. `TracksTangle` says that the media tracks do not bear overlapping calls, as
the camera's do not; `PythonApp` that callbacks may need the interpreter lock, which the binding of
`shutting_down` does not release (`bind_core.cpp:20`).

### StatusBroadcast

`SetState` and the broadcast thread hold the mutex through `SendState`; the
`onConnected` callback resends `latest_state_` without it. `SendState` is four
steps, because `latest_state_` is assigned, `is_connected_` tested,
`latest_state_` read again and the message sent. `raced` records that the resend ran beside another thread's `SendState`. States are numbered in the order of
their `SetState`, so that "older" has a meaning.

### Signaling

`app` is where `MosaicConnectorFactory::Create` (`FAC` 10-39) and later `SignalingClient::Stop`
are. Every dial makes a new cpprest client, numbered in order; `client` is `m_client`, and
`socket`, `opening` and `closing` are, per client, the connection, the continuation of
`connect()` (a task of its own) and the close handler, which cpprest starts once it has
joined the client's network thread. `redials` are the detached threads that sleep for five
seconds (`WS` 208-214). `mConnected` and `isConnected` are the flags of the two levels,
set and reset by different tasks. `io` is the message being handled, with the
client it came from; a handler that throws ends in `OnError` (`WS` 170-174, `SC` 118-121).
`currentId` is `current_rtc_connection_id_`, a string that is assigned without a lock: while
`PrepareConnection` assigns it a reader on WebRTC's thread may see anything (`Torn`). `rtc` is
WebRTC's thread between building an answer or a candidate and sending it.

Three flags record what the properties have to except: `early` (a session message that came
before `READY_TO_CONNECT` was announced), `late` (the continuation of `connect()` set the flag of a
client that had closed already), `misread` (handling a message threw).

A "close" message (`WS` 153-157) is not modelled: cpprest delivers none, and its handler would
wait for the very thread it runs on. `authenticated_` is set by the authorization
messages and read by nobody.

### DataChannelSender

The queue, `is_sending_` and the completion callback that WebRTC has not run
(`pending`). `SendAsync` and the callback hold `queue_mutex_` and are one step
each; the test whether the channel is open and the closing of the channel do
not, and are steps of their own. `handed` is what WebRTC got, in order; `closed` records a
local close, `dropped` a callback that was lost.

### DataChannelReceiver and JsonConversion

Per channel with the handler's label: its state, the messages that have arrived (`wire`) and the
observer registered with it (`heardBy`); `dc` and `observer` are the members of the handler.
`OnDataChannel` (`MC` 74-92) drops a channel while the one that is held is open, and
replaces the observer otherwise (`DC` 79-80); an observer that was replaced is freed, and a call of
it by the old channel may go wrong (`Calls`). A local close between `SetDataChannelInterface` and
`RegisterDataChannelObserver` makes the second throw into WebRTC (`DC` 61-68). Messages come on WebRTC's network thread
(`net`), which a Python handler makes wait for the interpreter lock (`gil`); a Python thread (`py`)
that calls a synchronous function waits for the network thread with the lock in its hands, since no
binding releases it. `log` and `back` record what became of each message and what was sent
back: the connection check's sender is a handler with a channel of its own, and what comes while that one is not open is
logged and lost (`unsent`); the rest goes back as text, whatever it came as (`AsText`).

What the JSON binding makes of a value is a constant of this module (`ToPython`, `ToJson`,
`Raises`): the order of messages does not depend on it, and the proofs hold for any conversion.
The run gives these constants the conversions of `JsonConversion`, `Cast`, `Load` and `Exception`.

`JsonConversion` translates `json_to_pyobj`, `pyobj_to_json` and the type caster (`BDC` 21-99)
case by case, with their order of tests: Python's `bool` is a subclass of its `int`. The caster makes a
dict of every value: an object keeps its members, the items of an array all end up under
one empty name, a scalar leaves an empty dict.

### CameraTrack and Recording

`CameraTrack` has one step per access to the track source (`source`, `running`,
`stopFlag`) and to the thread handle, for `CreateVideoTrackSource` on WebRTC's
thread, `Close` on the thread that closes the session, and every frame loop that was
started. Two threads that close the same track at once are left out. `overlapped` records that the two calls ran beside each other. A second read of the source pointer beside `Close`'s assignment of null
may find null (`Follows`).

`Recording` has the application's calls (start, pause, resume, stop, and the settings), the frames of
the track's thread and `Close`. `writer` is the file the video writer has open, `files` what each
file is named after: a directory and a second of the local time (`VR` 62-73). The world around it
is part of the model: the clock, which may be set back, and what each name of a
directory denotes, which `IsValidRecordFilePath` tests and may create (`REC` 81-112) and
somebody else may remove. That test accepts a directory with the write bit of its owner, of its group or of others; the
process may still not be allowed to write there (`denied`), and a recording that starts there fails to open its file. `disturbed` records that the application stopped a
recording while frames were sent, or called beside `Close`; `vanished` that a directory was removed.

### AutoConfigurer

`auto_configure` (`AC` 15-99) step by step: read, create the connector, resolve one configured connector
after the other, `BeforeConfigure`, configure and register one connector after the other. A configuration file is the set of keys it has and its
list of connectors; a connector is its kind, its label, what resolving it gives and what its
`Configure` does (make a handler, make none, throw). A handler is identified by its connector and
the `Configure` call that made it, since a second `auto_configure` configures the connectors of
the first again. `dcs` and `mts` are `MosaicConnector`'s handlers by label, where the first stays;
`dcMap` and `mtMap` the configurer's own, where the last does. The caller is C++, a plain
`AutoConfigurer` used from Python, or a Python subclass of it; the binding releases
the interpreter lock for the last only (`BAC` 276-289), and a logger written in Python needs that
lock on the WebSocket's task. `rtc`, `tracks`, `failed` and `early` are a session that starts
meanwhile: the loop of `CreateAllMediaTracks` (`MC` 94-113) takes one handler after the other, skips one whose source, track
or sender cannot be made, and ends in WebRTC when a handler throws; a later data channel is looked up
in the other registry (`MC` 78). Both read what `RegisterHandler` writes.

## Runs

| Run | Question | Result |
|---|---|---|
| `peer_serial` | handlers one after the other; losses, failed creations, throwing messages and handlers, shutdown | a ready connector has no running track and no channel and no connection is overwritten, unless a throwing handler has abandoned the last close; `RTC_FAILED` is final (19,000 states) |
| `peer_signaling_overlap` | messages beside WebRTC's callbacks, no losses | no crash, the state tells whether there is a connection, `SessionLifecycle` is implemented, fairness included (1,800 states) |
| `peer_full_overlap` | all three threads interleave, with losses, shutdown, throwing handlers, tracks that tangle and a Python application | until the shutdown the answer is asked of the connection whose offer was set, unless that one was overwritten while it lived; as long as none was, no state refuses offers for ever; null is met in messages only; every handler returns but for a join that a start disturbs and the shutdown of a Python application (252,000 states) |
| `peer_offer_race` | expected violation | see findings |
| `status_races` | `SetState`, broadcast, resend and link interleave, messages throw | the server ends up with the state, and what it receives never goes back until a resend has raced with another thread |
| `status_muted` | expected violation | see findings |
| `signaling_link` | startup, links lost in every phase and dialed again, messages, answers and a stop interleave | one link at a time, never given up unless a failed attempt was not reported; answers go to the link that asked and carry their session's id; requests are dropped at the edges of a link only; a stop returns unless a late flag misleads it; a link that stays up becomes known |
| `dc_sessions` | two senders, channels closed by either side, callbacks dropped | one message in flight; order is kept, nothing is skipped; every message leaves unless a callback was lost or a null channel met, and null is met after a local close only |
| `receive` | channels opened again, messages of every kind, Python code that holds the lock | order is kept, only what cannot be converted or made Python raise is lost, JSON objects come back as they were sent, the connection check sends back all that it can, a freed observer is called only when the peer reopened early, and no message waits for ever but in two cases (235,000 states) |
| `camera_sessions` | starts and closes in any order | as long as none interleave: one frame loop, joined when `Close` returns, and `Close` returns; when they do, `Close` waits for ever only for a loop whose stop flag was cleared again |
| `recording_frames` | recordings, frames, the ends of sessions, settings, removed directories and a clock set back, in any order | unless the application stops a recording under the frames or calls beside `Close`: no frame meets a released writer, and the state tells whether a file is open; the directory keeps the form the check accepts; a recording is overwritten only by one of the same second or after the clock was set back (2.2 million states) |
| `auto_configure` | two calls over every file of up to two connectors, from C++ and from Python, beside sessions | the first handler of each label is registered, whatever throws; a session whose offer came after the return has every track that could be made; the registries race with earlier ones only; null is met for two reasons; creation ends for all but one kind of caller (645,000 states) |

Every property of a passing run has a mutant: a plausible slip in the translated
code under which the property fails in that same run. The type invariants are proved instead of
checked, but for those of `AutoConfigurer` and `DataChannelReceiver`, which are both; `AnnouncesCurrentState`
and `SenderOrder` are proved and are in no run.

### Findings

- `peer_offer_race`: `ClosePeerConnection` reads the state twice (`PCM` 271-272). When
  WebRTC's thread announces `RTC_CONNECTED` between the reads, neither matches and nothing is
  closed; the offer that asked for it is then refused, because the state is not ready.
  The comment at `PCM` 170 says "Close existing connection if exists". A close request
  of the server is lost in the same way.
- `status_muted`: an exception in a message handler makes `onError` clear
  `is_connected_` although the link is up (`SC` 118-121). No status is sent any
  more until the link is lost and comes back, against the comment at `PCM` 249
  that the server is automatically notified.

### What does not hold

The runs also bound what the code guarantees. What follows shows up when the constants of a run
are widened or an exception is taken out of a property. Nothing in the repository
promises the contrary unless it is quoted here.

*Session life cycle.*

- A handler that throws when it is closed, a Python `stop` for example, leaves the `try` block at `PCM` 277-290: the tracks and
  channels behind it and the connection stay open, and `READY_TO_CONNECT` is announced (`abandoned`). No two threads
  are needed. The next offer overwrites the live connection and frees its observer
  (`ObserverIsGone`), so `NothingRunsWhenReady`, `PeerMatchesState`, `ReplacesNothing` and `OfferEndsOldSession` except it.
- While such a connection is overwritten, its description callback may run between the factory's answer and
  the assignment (`PCM` 155-158); the answer to its offer is then asked of the new connection. The connections in
  `replaced` are what `AnswersOwnOffer` excepts. With losses and three connections no handler has to throw for it.
  Such a connection may also leave the state at `RTC_CONNECTED` or
  `RTC_DISCONNECTING` of another session, hence the exception in `TakesOffersAgain`.
- A track that is started while it is closed may make the closing thread join a frame loop for ever, with WebRTC's thread if that
  is the one (`join`). `shutting_down` holds Python's interpreter lock while it waits for WebRTC's thread;
  when a callback needs the lock, neither goes on (`gil`). `HandlersReturn` excepts these two.
- A start that throws is thrown into WebRTC, which ends the process.
- With `MayOverlap = WsAndRtc`, media may be started between `CloseAllMediaTracks`
  and `Close` of the same closing, so `NothingRunsWhenReady` fails.
- With losses as well, both threads may be inside `ClosePeerConnection`: one
  destroys the connection under the other's call or leaves it a null pointer
  (`NoFault` fails), and the late `READY_TO_CONNECT` of one overwrites the
  `RTC_CONNECTING` of the next offer: the state is then ready with a live connection, which the
  offer after it overwrites (`PeerMatchesState` fails, and with three connections
  `ReplacesNothing`).
- A status message that throws at `PCM` 276 leaves `RTC_DISCONNECTING` behind, which
  neither offers nor close requests leave.
- A shutdown assigns `DISCONNECTED` first, so that its `ClosePeerConnection` returns at
  once: media and channels are not closed, and a connected callback beside it may
  still announce another state.

*Signaling.*

- A session message before `READY_TO_CONNECT` (`early`) finds a null pointer at
  `SC` 191-216 or `MC` 53-63.
- The close handler starts the detached thread after a local disconnect too (`WS` 207-214): a robot that was
  shut down dials the server again.
- The continuation of `connect()` may set `m_connected` after the close handler has reset it
  (`late`). `Stop` then waits for a client that is still being dialed, for ever if that fails;
  a `send` on a client that is not open throws, on WebRTC's thread past every handler. An authorization request that arrives
  before the continuation has run is dropped.
- A failed dial sets no handler off: `test_websocket_client.cpp:64-76` waits for the `setOnError` callback, which
  `connectInternal` (`WS` 74-80) does not call. Whether the attempt is reported as a close is cpprest's.
- An answer that leaves after the next prepare carries the new id, or a torn one.

*Data channels.*

- A channel closed locally while messages wait: the completion callback finds
  a null channel. A callback that is dropped leaves the
  queue waiting for ever, in later sessions too. A synchronous message goes past the queue.
- A Python thread that closes or sends synchronously holds the interpreter lock while it waits
  for WebRTC's network thread, which waits for that lock if a message has come (`Crossed`).
- The second of two channels with one label that are open together is never heard, also after
  the first has closed; its peer's early reopening may call an observer that was freed.
- JSON: items of an array end up under one empty name of a dict and a scalar leaves an empty dict; numbers
  above `Int64` and bytes that are not UTF-8 raise.

- The connection check loses what comes while its sending channel is not open, and sends back as text what was binary.
- A channel that is closed while it is being attached makes `RegisterDataChannelObserver` throw into WebRTC (`DC` 65-68).

*Media.*

- A camera that is started beside `Close` (`overlapped`): the frame loop follows a null source,
  a joinable thread is replaced, a loop outlives its `Close`, and `Close` waits for
  ever when `SetStopFlag(false)` of a start follows `SetStopFlag(true)` of the close.
- A directory that this process may not write to is accepted when anybody may (`REC` 104-110); the recording then fails to start.
- A recording that the application stops beside a frame (`disturbed`): `SaveFrame` throws on the
  track's thread, or the writer is released under a write.
- `SetRecordFilePath` and `SetVideoParameters` log that they cannot change what they then change while a
  recording goes on (`REC` 28-42), and dereference null on a handler that is not recordable.
- A comment in `VR` announces names with `YYYYDDMM`; the format is `%Y%m%d`.
- `~AMediaTrackHandler` (`MT` 166-168) calls the pure virtual `Stop()`. No model has the life
  times of C++ objects; a registered handler is never destroyed.

*Configuration.*

- A plain `AutoConfigurer` in Python together with a logger written in Python: `auto_configure` waits for the WebSocket with
  the interpreter lock, and the WebSocket's task for the lock (`CreationEnds` excepts it).
- `READY_TO_CONNECT` is announced before the handlers are registered: a session that starts at once
  (`early`) has no tracks, and its iteration over the registry races with the registration.
- The keys of the example in `docs/python/tutorials/auto-configurer.md` are rejected by the reader; the order of levels in
  `docs/python/tutorials/logging.md:22-29` is not that of the enumeration (`DEBUG < WARNING < INFO < ERROR`).

### Bounds

`MaxPeers` is 3 (2 when all threads interleave): one session to be replaced, one that
replaces it, and one after that for what was left behind. Two are enough for a live connection to be overwritten, when a handler
throws; that losses alone do it takes three, which the theorems cover and the run does not. Three changes of the
state and three dials let a status be overtaken, lost and resent. Three clients (`MaxClients`) are a link, the
one dialed after it and one more for what the first left late; two connection ids (`MaxIds`) are
two sessions. Two senders with three messages and up to three channels let a queue outlive two sessions.
Two messages of any kind and two channels of one label let a channel be reopened with a message under way.
Four frame loops are four sessions. Three files, two seconds and one change of the clock let names repeat both ways;
two directories let the path change and the old one vanish. Two connectors in every combination of
kind, label and outcome share or do not share a label; two calls let one meet what the other left. The bounds are guards of the
actions that count (`HandleSdpOffer`, `SetState`, `Dial`, `ConnectInternal`, `Receive`, `CheckSendable`,
`OnDataChannel`, `PeerOpens`, `PeerSends`, `CreateVideoTrackSource`, `StartRecording`, `Tick`, `SetBack`, `AutoConfigure`);
nothing else is bounded, and no run uses a state constraint.

### Fairness

A thread that is inside a handler goes on with it (weak fairness of its
continuation). A call marshalled to WebRTC's thread is queued there and runs once
that thread is between callbacks again and again (strong fairness), as that queue
is served in order; a message handler that waits for such a call inherits it (`Handle` in `Signaling`). The
broadcast's timer fires and gets the mutex again and again (strong
fairness: others may hold it whenever it looks). The interpreter hands its lock over after an interval,
so a thread that waits for it gets it (strong fairness of `AcquireGil`). WebRTC runs a completion callback
that it holds. cpprest's tasks run, a dial succeeds or fails in the end, and a sleeping thread wakes up. Starting a handler is
never fair: no offer, message, frame, connection, loss or shutdown has to come.

## Proofs

| Module | Theorems | Speaks of |
|---|---|---|
| `PeerConnectionManagerProofs` | `TypeCorrect`, `CallbacksKeepTheirPeer`, `AnswersTheOffer` | every environment and overlap; the last two until the shutdown, the last one except for connections that were overwritten, as their properties say |
| | `NeverStuck` | `Faultless`: every overlap, losses, throwing handlers and shutdown at will; connections can be created and status messages sent |
| | `NeverFaults`, `StateTellsPeer`, `NeverReplaces`, `Implements` | `Undisturbed`: messages may interleave with callbacks, but nothing is lost, fails, throws or tangles, and `Close()` reports nothing |
| | `ReadyIsClean`, `SequentialNeverReplaces`, `FailedStaysFailed` | `Sequential`: handlers do not interleave; losses, failures, exceptions and shutdown at will; the first two except after a close that a throwing handler abandoned |
| | `SequentialStateTellsPeer`, `SequentialOffers` | `Sequential`, and status messages do not throw; with the same exception |
| | `SequentialNeverFaults` | `Sequential`, and neither status messages nor handlers throw |
| | `SequentialImplements` | `Sequential`, and creations, status messages and handlers do not fail; losses and closes reported from within at will |
| `SignalingProofs` | `TypeCorrect`, `HandlersFindTheConnector`, `OneLinkForever`, `LinkInUse`, `DropsAtTheEdges`, `TagsBelong` | every behaviour |
| `DataChannelSenderProofs` | `TypeCorrect`, `SingleFlight`, `InOrder`, `KeepsSenderOrder`, `NeverNull` | every behaviour |
| `DataChannelReceiverProofs` | `TypeCorrect`, `TakenInOrder`, `NotFreedEarly`, `NothingDropped` | every behaviour, any JSON conversion |
| | `ComeThrough` | `RoundTrips`: the JSON binding gives an object back as it was, or raises |
| `StatusBroadcastProofs` | `TypeCorrect`, `Announces`, `NeverGoesBack` | every behaviour; the last two until a resend has raced (`raced`) |
| `CameraTrackProofs` | `TypeCorrect`, `SequentialNeverDies`, `SingleLoop` | every behaviour; the last two until a start ran beside a close (`overlapped`) |
| `RecordingProofs` | `TypeCorrect`, `FramesFindTheWriter`, `StateTellsFile`, `DirectoryStaysAccepted`, `RecordingsAreKept` | every behaviour; the second and third until the application disturbs the frames (`disturbed`) |
| `AutoConfigurerProofs` | `TypeCorrect`, `RegistriesInvariant`, `FirstRegistered`, `AllTracks`, `FailuresHaveAReason` | every behaviour, any files and number of calls |

Besides these hypotheses only the named assumptions on the constants are used: the bounds are natural
numbers, the switches Booleans, the default directory a directory. So the
number of sessions, clients, ids, senders, messages, loops, files and seconds is arbitrary.

*Session life cycle, overlapping.* `PeerMatchesState` speaks of quiet states only, so
it says nothing about a step. The invariant `IInv` says for each place in a handler
what state and connection it is compatible with (`SessionAt`), that calls are on the current connection
(`Calls`), that only the current connection is open, and its observer the last one made (`OnlyCurrentOpen`), that callbacks
find the connection whose offer was set (`Callbacks`), and what the shutdown has done
(`Shutdown`). The heart of it: of the two threads only "ws" assigns `peer_connection_`
while nothing is lost, and it does so only when no callback is running, because `Close()`
had to be marshalled. `Implements` maps every step under `IInv` to a step of
`SessionLifecycle` or to a stutter.

*Session life cycle, every overlap.* With losses two threads may be inside one closing, and the connected state
no longer tells anything. What remains is who may assign `peer_connection_` a new connection: only "ws", in
`CreatePeerConnection`, and from the assignment until the destructor of the old connection has run on WebRTC's thread, that
connection is in `replaced`. `OpenConnections` says that besides `peer_connection_` only such a connection, or the one that is about to be assigned, is open;
`RtcKeepsPeer` that a callback under way keeps its connection open, so no callback meets null and
an answer is asked of the connection whose offer was set or of the one that has just taken its place. `Numbered` keeps
connections that were not made yet out of all this; `SignalingPlaces` and `SignalingFactory` say where each thread can be
and that the factory is there. These hold until the shutdown takes the signaling client away, which is where
the two properties end as well. `NeverStuck` adds `ClosesAreFinished`: when the state
is `RTC_DISCONNECTING`, one of the two threads is still at a place of `ClosePeerConnection` from which it
announces `READY_TO_CONNECT`, as long as no connection was overwritten; this is where a status message that throws would break it, and
`OfferSucceeds` where a creation that fails would.

*Session life cycle, serial.* `SInv` adds that one handler runs at a time and what each place of
`ClosePeerConnection` has already closed (`ClosesInOrder`, `NothingLeft`), or that it was `abandoned`. It has no hypothesis on
failures, so it carries the cases that a status message or a handler throws half way. When none throws, `QInv` adds that calls are on the current
connection (`CallsPeer`), that the state tells whether there is one except at the places
between an assignment and its announcement (`Settled`), that the two tests of `ClosePeerConnection` read one state (`TestsAgree`), and
what the shutdown leaves (`ShutdownIsLast`). Without throwing handlers `NInv` excludes every fault, and `NoneFails` that
the state is ever `RTC_FAILED`. `SequentialOffers` is the other side of the
finding `peer_offer_race`: the offer is lost through the interleaving and nothing else.

*Link.* `OneLink` says nothing about what a client's three tasks may still do. `Clientele` makes the clients a
history: each but the newest has failed or is closed with its close handler done, and the close handler of the newest leaves
exactly one thread that dials again. `Assembly` says which parts `Create` has put in place, by where it is; `Flag` that
`m_connected` belongs to the newest client and stays set from its continuation to its close handler; `Message` that a message
under way is the newest client's, whose close handler waits for it; `Naming` that the id is that of the last prepare, except while it is
assigned.

*Send queue.* `IInv`: at most one callback outstanding, `is_sending_` set while it is, and
messages waiting only then. `InOrder` is a refinement: each step of the queue is a step of
`Outbox`, where the accepted messages are `handed \o queue`. `KeepsSenderOrder` follows from
an invariant on that concatenation, in which each sender's numbers increase and stay below what it has sent.

*Receiving.* `Announcements` orders the channels: they are opened and announced one after the other, and what the handler
has taken lies before what is still announced (`Registrations`). `Waiting` says that a closed channel has no
message left, and `Observers` that as long as the peer has closed every channel before it opened the next, only closed channels
keep an observer that was replaced; no message is left to call it, hence `NotFreedEarly`.
`Echoes` keeps what was sent back tied to the message it came from; `SentBack` is inductive with it. `ComeThrough` needs that the conversions undo
each other on objects; `JsonConversion` is recursive, so that the real ones do is checked by `receive` for its
messages and not proved.

*Status.* `BInv`: whoever holds the mutex is the one that sends; until a resend has raced it sends
`state_`, `latest_state_` is no newer than that and the server knows nothing newer than `latest_state_`.

*Camera.* While the calls do not overlap `OpenAt` and `CloseAt` say, for each place in a start or a close, what the flags, the
thread handle and its loop are; `Joined` that every loop but the handle's has ended, and
`Numbering` that loops not yet started are new. Outside of a call one of two states is left: running with a loop that
can be joined, or at rest with none.

*Recording.* The state and the writer are assigned apart. `Alone` says who may run beside whom until the
application disturbs it: nobody stops a recording while frames are sent, since `Close` first ends the loop. `Agree` says at which places
the state and the writer may differ. `Clocks` ties a file's name to the time it was opened at, from
which `RecordingsAreKept` follows by arithmetic.

*Auto configurer.* `RegistersFirst` speaks of the return. `Registries` says the same for every step on the
way: under each label that the loop has passed there is the first of the handlers passed, and under no other any. `Loop` says which
handlers of the current connector are still to register, `OfSession` that the tracks a session has and those that failed are the registry's, once its loop has ended. The
configurer's own maps hold some handler of each label; in the first call no connector is configured twice
(`MadeOnce`), from which it follows that they know no label the connector does not. `Sessions` says that a session under way while `auto_configure` runs was offered before it
has returned; `Creation` that the connector is missing after the factory only for an unknown authentication type.

Every invariant and action property of the passing runs is stated by one of these theorems. Left to TLC are the
liveness properties, which the prover does not do: `HandlersReturn`, `QueueDrains`, `ServerLearnsState`, `CloseReturns`, `StopReturns`,
`LinkBecomesKnown`, `MessagesAreTaken`, `CreationEnds` and the fairness part of `ImplementsLifecycle`, whose safety part
`Implements` and `SequentialImplements` prove; and what the recursive JSON conversions compute. `NeverReplaces` and
`SequentialNeverReplaces` leave out the overlaps with losses, where the property is false (see above).

## Not modelled

WebRTC, cpprest, OpenCV, jsoncpp, yaml-cpp and pybind11 are external and appear as the calls and callbacks the code uses. Contents of
descriptions, candidates and frames are left out, and so are their conversions: numpy arrays and `VideoFrame`
(`bind_media_track.cpp`, `MT` 98-164) are computations on buffers without state. The bindings of plain records
(`bind_configs.cpp`) forward assignments. The logger's output and the log level of WebRTC change nothing another part
reads; who needs which lock to log is in `AutoConfigurer`. The HTTP handshake and the control frames of the WebSocket
are cpprest's. The destructors are left out: the connector, the
peer connection manager and the state manager own each other through `shared_ptr`, so they run in no program that only drops its
references.

## Plan

Done, in this order: `SessionLifecycle`, `PeerConnectionManager`, `StatusBroadcast`, `DataChannelSender`, `Outbox`,
`CameraTrack`, `Recording`, `Signaling` (startup, dispatch, ids and security with it), `AutoConfigurer`
(config reader, resolver and registry with it), `DataChannelReceiver`, `JsonConversion`, and the proofs above.

What would come next:

1. The camera's real steps composed with `PeerConnectionManager`, to show which overlaps of a start and a close the
   description callbacks can cause.
2. After the shutdown has taken the signaling client away, what the two other threads may still meet.
