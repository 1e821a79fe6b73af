# Verification of SimpleRemoteControlSDK in TLA+

This directory models the C++ SDK in `ScreenStreamSDK/` (and the side of the
browser in `web/` that talks to it), model-checks the models with TLC and proves
their main safety properties with TLAPS. The models are translated from the
source; paths below are relative to the repository.

## 1. Inventory of the system

| Component | State it keeps | Operations | Talks to | What makes it hard | What must hold |
|---|---|---|---|---|---|
| **Coordinator** `src/server/remote_desktop_server.cpp` | `running_`, pointers to HTTP server, signalling server, capture, encoder, transport, video source; `capture_thread_`; `current_client_id_`; `mutex_` | `initialize`, `start`, `stop`, `shutdown`; callbacks `onOfferReceived`, `onIceCandidateReceived`, `onClientDisconnected`, `onIceCandidate`, `onWebrtcStateChange`; `captureLoop` | owns all of the parts; called back by signalling server and transport | its callbacks run on threads of the parts it destroys; some take `mutex_`, some do not | services start and stop together, no destroyed part is used, answers match offers, calls return |
| **Signalling server** `src/server/signaling_server.cpp` | `clients_`, `client_count_`, `running_`, two mutexes | `start`, `stop`, `sendAnswer`, `sendIceCandidate`; connection, message and disconnection handlers | libdatachannel WebSocket threads below, coordinator above | accept thread, one thread per socket, calls out with `callback_mutex_` held, stop joins with `clients_mutex_` held | departed and late clients are not registered, handlers return |
| **WebRTC transport** `src/transport/webrtc_transport.cpp` | PeerConnection, `state_`, candidates, video track, data channel, encoder, start-up NAL buffer | offer/answer, candidates, `startVideoTrack`, `stopVideoTrack`, data channel, bitrate, statistics | libdatachannel, coordinator, video source, encoder | callbacks on library threads against API calls; sticky failure state | a usable connection has a track; nothing after close |
| **HTTP server** `src/server/http_server.cpp` | `running_`, thread, httplib's own flags, a recursive mutex held through the join | `start`, `stop`, destructor, `setRootDirectory` | cpp-httplib, coordinator | half-failed start leaves `running_` set; httplib ignores an early stop | a stopped server is silent, stop returns |
| **SDP renegotiation** `src/transport/sdp_renegotiation.cpp` | `state_`, callbacks | initiate, remote offer, remote answer, reset | PeerConnection, the switch callback of the display controller | locks its mutex twice; crossing offers; late answers | a completed negotiation was agreed to, none waits for ever |
| **Data channel** `src/transport/data_channel.cpp` | `state_`, callbacks | open, send, close | libdatachannel; nothing in the SDK constructs one | own close against the channel's callbacks | no open after closed |
| **Video source adapter** `src/capture/screen_capture_video_source.cpp` | `running_`, thread, frame callback | `start`, `stop`, callback | capture, transport | stop from several threads without a mutex | one thread at a time, stop returns, an open track gets frames |
| **DXGI capture** `src/capture/dxgi_capture*.cpp` | duplication objects, capture and recovery threads, failure counter, last frame | init, start, stop, capture, recover | Windows | recovery against capture; retries; shared frame buffer | bounded retries, recovery available, frames intact |
| **Display controller and detector** `src/core/display_controller.cpp`, `src/capture/display_detector.cpp` | display list, current display, session map, counts, three mutexes | refresh, detect, select, switch | callbacks of the application | check then act across locks, callbacks under locks | callbacks see displays that exist, no circular wait |
| **Session** `src/core/session.cpp` | state and history, client, display, desktop server; one mutex | connect, setConnected, disconnect, reconnect, setError, desktop server calls | coordinator | unconditional transitions; desktop calls wait with the mutex held | a connected session has a client, calls return |
| **Thread pool** `src/utils/thread_pool.cpp` | queue, `active_tasks_`, `stop_`, workers | `submit`, `enqueue`, `waitForAll`, `stop`, destructor | any thread | one condition variable for two kinds of waiters, notification outside the mutex | no task lost or run twice, waiters and destructor return |
| **Encoders, factory, GPU detector** `src/encoding`, `src/platform` | encoder context | create, encode, flush | x264, NVENC, Windows | fallback order | a supported encoder is chosen |
| **Metrics** `src/utils/metrics_collector.cpp` | rolling windows, counters | record, read | capture, encoder threads | no mutex | averages of what was recorded |
| **Windows input**, **errors/types**, **C API** | none | wrappers | Windows | - | - |
| **Web client: connection** `web/src/webrtc_connection.js`, `client.js` | socket, client id, PeerConnection, data channels, `connected` | initialize, connect, disconnect, destroy, callbacks | signalling server, data channel, the parts below | awaits against close, several channels, optional metrics display | capture is enabled exactly while there is a channel |
| **Web client: input** `web/src/input_capture.js` | listeners, long-press timer | mouse, key and touch handlers, timers | client | timers outlive fingers and listeners | nothing stays pressed on the host |
| **Web client: displays** `web/src/display_selector.js` | list, display shown | select, reload, update | client, host | three ideas of the current display | what is shown is what is streamed |

Third-party code (cpp-httplib, nlohmann/json, libdatachannel, googletest) and
build files are modelled only through how the code uses them. `PROJECT.json`
lists every component with its status, and under `hazards` what is hard to test
in this code, at its line, with the properties that cover it or why none
does.

## 2. Modules

| Module | Models |
|---|---|
| `SignalingServer` | sockets of the browsers, the accept thread, registry, message and disconnection handlers, and the pieces of `start`/`stop` that touch them |
| `RemoteDesktopServer` | EXTENDS it and `HttpServer`: coordinator, API thread, transport callbacks, capture thread; `Spec`, fairness and all properties of the composition |
| `RemoteDesktopServerProofs` | theorems about `RemoteDesktopServer` |
| `SignalingService`, `SignalingServiceProofs` | abstract: what the two promise the browsers, without threads, mutexes, sockets or API calls; that `RemoteDesktopServer` implements it |
| `MCRemoteDesktopServer` | its instances for TLC |
| `TaskPool` | abstract: what a pool of threads promises, without mutex, condition variable or workers |
| `ThreadPool`, `ThreadPoolProofs`, `MCThreadPool` | the pool, which implements `TaskPool`; its theorems, its instances |
| `DxgiCapture`, `DxgiCaptureProofs`, `MCDxgiCapture` | desktop capture and its recovery, theorems, instances |
| `SdpRenegotiation` | the offer/answer exchange of two peers |
| `DisplayController`, `DisplayControllerProofs`, `MCDisplayController` | EXTENDS it: display controller and detector, whose switch callback starts a renegotiation; theorems about both, instances |
| `Encoder` | the factory's choice of an encoder and what its operations may return |
| `VideoTrack`, `VideoTrackProofs`, `MCVideoTrack` | EXTENDS it: video source adapter and the video track of the transport; theorems, instances |
| `HttpServer` | start, stop and listening thread of the HTTP server, as coordinator and session use it |
| `Session`, `SessionProofs`, `MCSession` | EXTENDS `HttpServer`: a session and the desktop server it owns; theorems about both, instances |
| `WebConnection`, `InputCapture`, `DisplaySelector` | the parts of the page: connection, input, displays |
| `WebClient`, `WebClientProofs`, `MCWebClient` | EXTENDS the three: `client.js`, user, timers and host; theorems, instances |

### RemoteDesktopServer and SignalingServer

Threads are explicit. `apiAt` is where the thread stands that runs an API
operation: all four operations hold `mutex_` from beginning to end, so one thread
stands for any number of callers. `acc` is the accept thread of
`rtc::WebSocketServer`, `at[c]` the callback thread of the socket of browser `c`,
`pcAt` the callback thread of the PeerConnection, `loop` the capture thread, `listener`
the thread of httplib.
A handler is one step as long as it holds what it needs and lets nobody see it
half done, and is cut where it takes or releases a mutex another thread may hold
across steps, or waits for a thread.

A mutex is not a variable: each `lock_guard` covers a fixed stretch of code, so
its holders are the threads standing in that stretch (`ServerHolders` for
`mutex_`, `ClientsHolders` for `clients_mutex_`, `CallbackHolders` for
`callback_mutex_` of the signalling server). `WaitsFor` says which threads a
thread waits for.

| Code | Model |
|---|---|
| `initialize` | `Initialize` (refused, failed after the two servers exist, succeeded with or without video source) |
| `start` | `CallStart` (`HttpServer::start` returns before its thread listens), `StartSignaling`, `StartCapture`, `StartJoin`; a failure continues with `HttpServerStop`, `HttpServerJoin` and, from `StartCapture`, the three of `SignalingServer::stop` |
| `stop` | `CallStop`, `StopJoin`, `SigStop`, `SigStopClear`, `SigStopJoin`, `HttpServerStop`, `HttpServerJoin` |
| `shutdown` | `CallShutdown`, `CloseTransport`, `DestroyParts`, `HttpServerStop`, `HttpServerJoin`, `DestroyHttpServer`, then the same three for `~SignalingServer` |
| `serverThreadFunc` of the HTTP server | `Listener(HttpThread)`, `Listener(HttpTrouble)` |
| `captureLoop` | `LoopTest`, `NextFrame` |
| `WebRTCTransportImpl::initialize` | `InitializeTransport`, in `Initialize` |
| `onOfferReceived` | `ApplyOffer` (by way of `SetRemoteDescription`), `CreateAnswer` |
| `onIceCandidateReceived`, `onClientDisconnected` | `AddIceCandidate`, `ForgetClient` |
| `onLocalCandidate`, `onIceCandidate`, `sendIceCandidate` | `LocalCandidate`, `OnIceCandidate`, `SendIceCandidate` |
| `onStateChange`, `onWebrtcStateChange`, the callbacks of the data channel | `StateChange` (by way of `OnWebrtcStateChange`), `DataChannelChange` (of which the coordinator is not told) |
| `onClientConnected` | `Accept`, `InsertClient`, `HookClient`, `OnOpen` |
| `onClientMessage`, `handleOffer`, `handleIceCandidate`, `sendAnswer` | `OnMessage`, `TakeCallback`, `SendAnswer` |
| `SignalingServer::onClientDisconnected` | `OnClosed`, `EraseClient`, `TakeCallback`, `BroadcastLeave` |
| browser | `Dial`, `ReadJoin`, `BrowserSends`, `Hangup` |

`SignalingService` is what a browser may rely on: it is admitted once, while the service is
open; offers are taken one at a time and answered to their senders; `stop()` cuts all members
off at once; a browser that departed is not served and is not the target of candidates again. `RemoteDesktopServer` implements it (`ImplementsService`): `open` is the listening
socket, a browser's `stage` is read off the registry, its socket's callbacks and its thread
(`Stage`), `serving` is the browser between setRemoteDescription and `sendAnswer`, `target`
is `current_client_id_`. A browser that `stop()` cut off can still make offers: they are applied,
and their answers are dropped.

`home[c]` says what the `this` captured by the callbacks of a socket refers to:
sockets outlive `stop()`, and after `shutdown()` has destroyed the server the
pointer dangles. A step that uses an object that is gone sets `fault` and ends the
behaviour, since nothing can be claimed about a program after that.

What is assumed of libdatachannel, from how the code uses it: callbacks of one
socket and of one PeerConnection come one at a time; a socket's messages wait
until the handlers are installed; `WebSocketServer::stop` closes the listening
socket and joins the accept thread, and leaves accepted sockets open;
closing a PeerConnection waits for a callback in flight and none comes after; a
connection is interrupted or ends (`kDisconnected`, `kClosed`) only once it was made
(`linked`).
The coordinator's own `callback_mutex_` only guards two callback objects, is
taken last, and is left out. Client ids, generated from a counter, are never reused:
each browser session dials once. While `start()` assigns a new capture thread
the new thread already runs beside the old one it joins; the model starts it
when the old one has ended, which no property can tell apart. A second successful
`initialize()` without a `shutdown()` in between, which leaks the parts of the
first, is left out.

### ThreadPool

`at[t]` is where each worker and caller stands. `condition_.wait` is cut into
taking the mutex, testing the predicate, falling asleep (which releases the
mutex) and being woken, by a notification or by nothing. `submit` and `stop` change
the state under the mutex and notify after it, `worker` decrements
`active_tasks_` and notifies without it, all as separate steps. Tasks do not
throw (an exception would end the process). `enqueue` differs from `submit` by the
future it returns, and is the same action.

`TaskPool` is what a user of the pool may rely on: tasks start in the order they were
accepted, each once, a stopped pool accepts nothing but finishes what it has, and is
gone only when nothing is left. `ThreadPool` implements it (`ImplementsTaskPool`):
`pending` is the queue, `running` the tasks the workers hold, `closed` is `stop_`, and
`gone` a destructor that has returned.

### DxgiCapture

`at[c]` is where each caller of `init`, `start`, `stop` and `uninit` stands, `loop[s]`
the capture thread of slot `s`, `recovery` the recovery thread. No mutex protects the
DXGI objects and the flags are separate atomics, so every read and write of them is
a step: `handleError` tests the counter, adds to it and sets the request in three
steps, a rebuild releases, duplicates and creates the texture in three. There are
two slots because `capture_thread_ = std::jthread(...)` creates the new thread before
it stops and joins the old one, and an old loop that gave up but has not left
yet sees `running_` set again. The graphics system may fail any call (`CaptureFrame`,
`RebuildDuplication`, `RebuildTexture`, `Duplicate`, `CreateTexture`). When recovery releases the
objects under a capture loop, which the code permits, the frame ends in any of its ways.

What is assumed of callers is what the code and its tests do: `stop` and
`uninit` may overlap (`capture_mutex_` is there for them), `init` and `start` are alone,
and `init` is called only while `running_` is not set. The frame callback is
set, as `DxgiCaptureImpl` always does, and callbacks return and make no calls.
The pacing of the loop, the pixels, and the kinds of errors, which are
all handled alike, are left out.

### SdpRenegotiation and DisplayController

An operation of `SdpRenegotiation` holds `callback_mutex_` from its first to its last
line and is one step. It locks that mutex again in `updateState`, which for a
`std::mutex` is undefined: `UpdateFails` lets it throw with the new state stored (what the
Microsoft library does) or block for ever (`stuck`), and the other disjuncts let a mutex
without checks go on. Descriptions travel between the two peers in order (`inbox`).
`DisplayController` gives each thread a place `at[t]` and a `call[t]`. Sections that take one
mutex and call nothing are one step; `switchDisplay` is validation, two lookups, the store and the
callback, `detectDisplayChanges` holds `displays_mutex_` through its callback. The three
mutexes are predicates as above. A display id is a position in the list of the last
refresh, so lists are lengths. Callbacks may ask for the list of displays (`AskInCallback`,
`ChangeCallback`), which is what makes their locks interesting. Nothing in the SDK joins controller and
renegotiation; the integration test says that the switch callback does
(`tests/integration/display_controller_sdp_test.cpp:17-18`).

### VideoTrack

Three threads: `cam`, the thread of the video source, which calls the frame callback of the
transport; the owner, who starts and stops tracks and shuts down; and the network thread of
libdatachannel, on which the track opens and closes and on which the coordinator reacts to a lost
connection. Neither class guards these members, so every read and write another
thread can fall between is a step (`at`, with `ret` and `after` for the return from `stop()` and
`stopVideoTrack`). A null pointer, a destroyed object, a thread joined twice or assigned
over is noted in `faults`, and the model goes on as if the statement had done
nothing: the property is about when faults can first occur. `crossed` remembers that owner and network thread
were ever busy at once, `early` that the owner started the source itself.

`Encoder` gives the track its encoder: `CreatedEncoders` is what the factory can return on a machine
with the GPU of `Vendor` in a build with or without NVENC, and the other operators what
`initialize`, `encode` and the rest may answer, with both results where the cause of a
failure lies outside this code.

### HttpServer and Session

`HttpServer` has the flags of the class and of httplib (`decommissioned`, whether the
thread accepts yet): `Listen`, `ListenEnds`, `AcceptFails` and `ListenThrows` are the ways of
`listen`. `start()` returns before its thread listens, so nobody is told when that fails.
`stop()` is cut in two, `HttpStop` and `HttpJoin`, since it joins with `server_mutex_` and the
caller's mutex held; a stop that comes before the thread accepts connections is lost on httplib
(`missed`). `RemoteDesktopServer` and `Session` extend it and make its calls.

`Session` has the calls of the session, all under one mutex but for two counters. Of its
desktop server, modelled above, it keeps what its calls can wait for: the thread that listens
for HTTP, the signalling server (`signaling`) with the connection its accept thread may have to
enter in the registry (`admitting`), and the PeerConnection with its candidate callback (`pc`).
`stop`, a failed start and the destructor join or close each of these with the session's mutex
held (`MutexFree`). `history` is the code's own `state_history_`.

### WebClient and its parts

JavaScript runs one handler at a time, so a handler is a step up to an `await` that waits for the
network (`offering` is where `createOffer` waits). Awaits of functions that do not wait let
no message in between and are no steps. `metrics` says whether there is a metrics display:
without one `_handleInputEvent` and `onConnectionStateChange` end in a TypeError at their first
line, before they send or note anything. `InputCapture` keeps what is pressed by the user and what the
host was told; keys behave as buttons do. The listeners are on the target alone, so the user may press
and release elsewhere (`PressElsewhere`, `ReleaseElsewhere`; `astray` are the buttons the host
still holds because of it), and nothing listens when the browser takes a touch for itself
(`TouchCancel`, `cancelled`). `DisplaySelector` keeps the three ideas of the current
display, of selector, client and host. The PeerConnection, the data channels and the
host are as the code uses them: a channel opens only after the answer, closes at any time,
and may still report its end after `close()`. The host's messages come over any open channel, current or
not, its answers in the order of the requests.

## 3. Runs

| Run | Instance | Shows |
|---|---|---|
| `server_safety` | 2 browsers (symmetric), 1 message each, 3 API calls, a listener that does not fail; 5.4 million states | types; answers match offers; departed browsers are forgotten; exact count; no circular wait but the two named; coordinator and signalling server implement `SignalingService` |
| `server_lifecycle` | 1 browser, 1 message, 5 API calls, a listener that may fail or throw; 0.8 million states | faults need `shutdown()`; services start and stop together; handlers and calls return but for four waits |
| `thread_pool` | 2 workers, 2 callers, 2 tasks, 2 calls of waitForAll/stop, 1 spurious wakeup; 0.1 million states | no task lost or run twice; the pool implements `TaskPool`; promises of `waitForAll` and the destructor; tasks run and the destructor returns |
| `capture_outlives_loop` | as `server_safety` | violation, finding 1 |
| `track_before_offer` | 1 browser, 2 messages, 3 API calls | violation, finding 2 |
| `wait_for_all` | 1 worker, 1 caller, 1 task | violation, finding 3 |
| `dxgi_capture` | 2 callers, 3 calls, the code's retry limit of 3; 0.9 million states | `running_` tells the truth; loops overlap only in `start`; one rebuilder; `uninit` releases alone; recovery lost only by `stop`; tear-down complete; calls return |
| `gives_up_early` | 1 caller, 1 call | violation, finding 4 |
| `display_switch` | 2 threads, 1 session, at most 2 displays, 3 calls, 1 change of displays, 1 reset, 1 offer of the viewer; 0.6 million states | session switches in order; empty displays only after a change; agreed negotiations; calls return; offers settle |
| `video_track` | 2 tracks, 1 further call of the owner, an NVIDIA machine; 0.6 million states | faults need crossing; stored frame belongs to its track; an open track captures |
| `session` | 2 threads, 7 calls, a listener that may fail or throw; 1.1 million states | no anonymous connection but after an error; stopped means silent; calls return but for three waits |
| `web_client` | 2 data channels, 2 buttons, 2 touches, 2 displays, 5 events; 9.4 million states | nothing stays pressed but what was released elsewhere; a long press has a finger; capture follows the channel; what is shown is streamed |

Bounds. `MaxMessages` bounds the offers and candidates a browser sends,
`MaxCalls` the API calls, `Tasks`, `MaxCalls` and `MaxSpurious` the use of the pool. Two
browsers are what it takes for one offer to meet another and for an answer to go
astray; further browsers only queue behind the same mutexes, and the theorems
cover them. Three calls reach initialize, start and each of stop, shutdown or a
second start while browsers are active. Five calls reach initialize, start,
shutdown, initialize, start, the shortest history in which `start()` joins a
capture thread left over from before, and every failed start followed by another.
The second message of `track_before_offer` is the offer after the
interruption; elsewhere each browser makes one offer or sends one candidate. `ListenFails` is an instance's
switch for the listener's own failures: what depends on them is asked in `server_lifecycle` and `session`. Two workers
and two callers are what the races of the pool need: a worker finishing while
another takes a task, a waiter beside a submitter. Three calls of the capture by two callers
reach a start after a fatal error, with its two loops, followed by `init`; a start on objects
that `stop` left; and `stop` beside `uninit` on a running capture. In `display_switch` a third call
is what stands between two switches of a session; one change of displays is what makes an id
stale; an offer of the viewer, one of the host and a reset are what it takes for
offers to cross and for an answer to come late. In `video_track` a second track is what
leftovers of the first can harm; the machine is one on which the factory may make either encoder (an NVIDIA GPU,
whose device may not be had). Seven calls of a session reach start, stop and start again of its server beside
the shortest path to an anonymous connection. In `web_client` a second channel replaces the first, a second finger
the timer of the first, and five events are a press, a touch and what must follow, or a list, a
selection, its failure and another list. `CHECK_DEADLOCK` is off because
the bounds end every behaviour, and because an idle server rests.

Fairness. Each thread that can take a step eventually takes one (weak fairness per
thread): the operating system schedules threads, tasks return, and library
calls return. Nothing obliges a browser, the network, the PeerConnection or the owner of the
server to do anything, so there is no fairness on `Network`, `PcEvent`,
`ApiCall` or the calls of the pool, the capture, the controller and the session, nor on httplib's failures; its thread is scheduled like any other. A description that has reached
a peer is handled (`ReceiveDescription`), since libdatachannel's thread does so. `WebClient` has no fairness: its properties are safety. Mutexes need no strong fairness because messages and
calls are bounded.

### What was found

Four statements of the repository do not hold; each has a run with a shortest
counterexample.

1. **`shutdown()` while running** destroys the screen capture without joining the
   capture thread, which goes on to use it (`CaptureOutlivesItsLoop`). The same
   call leaves the sockets' callbacks with a dangling server, which
   `FaultsNeedTearDown` confines to histories with a `shutdown()`.
2. **A disconnection, even a temporary one**, removes the video track for good: a connected
   browser is interrupted (`kDisconnected`), `onWebrtcStateChange` destroys the source and the track,
   and the offer the browser makes next is applied to the same open PeerConnection and answered
   without video (`TrackBeforeOffer`).
3. **`waitForAll()`** can sleep for ever although all tasks are done: counter and
   notification of a finished task are not under its mutex (`WaitForAllReturns`).
4. **Capture gives up before it recovers**: the retry limit counts failing frames, of which
   four come within a tenth of a second, while a recovery waits a second first; "Max recovery
   attempts exceeded" is reported when none was made (`GivesUpAfterAttempt`).

The passing properties say what holds in spite of these, and name each exception:

- `OnlyKnownDeadlocks`: of all circular waits among API thread, accept thread, candidate callback and
  sockets' threads only two exist (capture thread and listener, which API calls also join, wait for
  nobody). `SignalingServer::stop()` joins the accept thread while it holds the mutex that
  thread may be waiting for, and `shutdown()` closes the PeerConnection while a candidate
  callback waits for `mutex_`.
- `HandlersReturn` and `CallsReturn` (server): handlers and calls return unless an API call meets one of
  four waits, each of which may last for good and has `mutex_` held, so that every handler which needs
  that mutex waits with it: the two above (`StopWaitsForAccept`, `CloseWaitsForCandidate`), a `start()`
  that joins a capture thread which saw `running_` set again (`StartWaitsForLoop`), and
  `http_server_->stop()`, in `stop()`, `shutdown()` or a failed `start()`, joining a thread whose server
  ignored the stop because it did not accept connections yet (`StopWaitsForListener`).
- `ServicesTogether`: between calls, a running coordinator has its signalling server, its capture and that
  thread; its HTTP listener serves, is about to, or has ended by a failure of its own, of which the
  coordinator is not told. One that does not run has no socket open and no listener left.
- `TasksRunUnlessStranded`: the one notification of `submit()` can be taken by a caller of
  `waitForAll()`; that is the only way a task is left, all workers and a waiter asleep.
- `RecoveryLostOnlyByStop`: `stop()` ends the recovery thread, and a `start()` that finds the
  old duplication does not create it again. `LoopsOverlapOnlyInStart` and
  `RunningMeansCapturing`: a restart after a fatal error has two capture loops for a while but
  ends with one, or with `running_` cleared.
- `SessionSwitchesInOrder`: the switches of a session are told in the order they took effect. `EmptyOnlyAfterChange`: the
  callback gets an empty display only if the list was refreshed during the call: its id was validated against
  an older list.
- `CallsReturn` (controller): `detectDisplayChanges` and a switch callback that asks for the list
  can wait for each other (`Embrace`), and a mutex locked twice can hang; nothing else
  blocks a call. `ReadyMeansAgreed`: although answers are not matched with offers, only a `reset()` lets
  one complete the wrong negotiation. `OfferSettles`: an offer is left pending for ever only if the
  other peer refused it without a word, which it does when offers cross and after its first answer.
- `FaultsNeedCrossing`: taken in turns, the video path is free of null pointers and dangling
  objects, also when the connection is lost and the coordinator shuts down. It is not when
  owner and network thread act at once, nor when the owner starts the source before the encoder
  exists, as the comment in `startVideoTrack` (webrtc_transport.cpp:592-594) suggests.
  These calls overlapping is thus confined, not ruled out: nothing is claimed once `crossed` is set.
  `OpenTrackCaptures`: in turns, an open track gets frames; when `stopVideoTrack` falls between
  `start()` and the setting of `video_source_started_`, the next track opens without any.
- `StoppedMeansSilent`: whatever went wrong before, a desktop server that is not running has no
  listening thread and no running signalling server, and a joinable thread is lost, which ends the program, only after `listen` threw.
  `CallsReturn` (session): calls return but for three waits of the desktop server, met with the session's
  mutex held too: `WaitsForListener` (a stop that httplib ignored), `WaitsForAccept` (the accept thread is
  joined with `clients_mutex_` held) and `WaitsForCandidate` (the destructor closes the PeerConnection
  with a mutex held that its callback needs).
- `AnonymousOnlyAfterError`: `setError()` while disconnected, then `reconnect()` and
  `setConnected()`, give a connected session without a client; no other calls do.
- `NothingStaysPressed`: a button or key stays down on the host only after a release that no listener
  heard (outside the page, after a change of window: `astray`), or after events could not be sent or capture
  was disabled. `LongPressHasFinger`: a right click comes without a finger only after a second finger, a
  cancelled touch or a disabled capture, in each of which a timer runs on. `CaptureFollowsChannel`: with one data channel capture
  is enabled exactly while it is there; with two, the end of either disables it.
  `ShownIsStreamed`: the display shown is the one streamed unless a switch failed, which
  "reverts" to the display that failed because the client recorded it before the answer
  (client.js:522), or the list was empty or stale at the moment.

While translating we also met, and modelled, without a property: after `disconnect()` the page has no
PeerConnection, so `connect()` fails until the page is loaded again; without a metrics display no
input is sent and `connected` is never set; an offer sent before the join message is
lost; each reload empties the list of displays until the host's message comes.

## 4. Proofs

For every value of the constants: any set of browsers; any finite set of workers, any
callers and tasks; any callers of the capture and any retry limit; any threads, sessions and
displays; any numbers of tracks, calls, channels, touches and events. The proofs use
the named assumptions of the modules only: bounds are natural numbers; client ids differ from the
empty id and from the names of the three other threads; workers are finite and are not callers;
the client address of a session is not empty (`ClientsAssumption`: `connect` does not look, its
callers pass an address); there are a left and a right button; the machine has one of the known kinds of
GPU. Every safety property that a passing run checks is a theorem. Each proof finds an inductive
invariant, `IInv`, which TLC checked on the instance of the run first; the parts named below are
what the property lacks.

| Theorem | Argument |
|---|---|
| `TypeCorrect` (server) | induction; the registry is also finite, which `Cardinality` needs |
| `AnswersMatchOffersAlways` | `OfferInv`: at `offer_answer`, where `mutex_` is held, the remote description is the offerer's, since every action that changes it needs `mutex_` free; then the local `answer` is too |
| `DepartedAreForgottenAlways`, `CountIsExactAlways`, `StoppedRegistryIsEmptyAlways` | `RegistryInv`: only the accept thread registers, only before it installs callbacks, so a departing client cannot come back; it accepts only while the listening socket is open, and `stop()` joins it after closing |
| `ServicesTogetherAlways` | `PhaseInv`: what is up at each stage of each API operation; for the HTTP server with `ListenerInv`: a thread that has not ended can be joined, and one that was told to stop, or missed it, is being joined, so that a failing start, `stop` and `shutdown` leave none behind, while failures of its own lead from `Up` to `Up` and from `Off` to `Off` |
| `Implements` (service) | `RegistryInv` and `OfferInv` with two more: `callback_mutex_` lets one thread in (`CallbackOne`), and who is registered has been let in by the accept thread (`MembersAdmitted`). A lemma per action names its step: `InsertClient` is `Admit`, `ApplyOffer` is `Offer`, `SendAnswer` is `Answer` or `Drop`, `EraseClient` is `Cut`, `ForgetClient` is `Depart`, `SigStart` and `SigStopClear` are `Open` and `Close`; all else leaves the service alone, which for the replacing of a server object needs its registry to be empty (`ReplaceStutters`) |
| `FaultsNeedTearDownAlways` | `FaultInv`: capture and transport come and go together until `shutdown()`, and without them no socket is open and no capture thread runs |
| `OnlyKnownDeadlocksAlways` | types alone: follow the chain of waits; `callback_mutex_` before `mutex_` before `clients_mutex_`, and every chain ends at the API thread, which waits only in two places |
| `TypeCorrect`, `Invariance` (pool) | inductive invariant `IInv` |
| `TaskInOnePlaceAlways` | part of `IInv` |
| `DestructorDrainsAlways` | a worker that has left saw the pool stopped and its queue empty (`ExitedDrained`), and nothing is queued afterwards |
| `WaitMeansDoneAlways` | `active_tasks_` counts the busy workers (`CountsBusy`), so a true predicate means that no task is queued or running, and then every accepted task is done |
| `Implements` (pool) | from `IInv`: to accept, start and complete a task, to stop, and to return from the destructor are the steps of `TaskPool`, every other step of a worker or caller leaves it alone (`QuietStutters`, `MoveStutters`); a worker that takes the first task of the queue has none, and the destructor returns when every worker has left, with nothing queued or running |
| `Invariance` (capture) | `IInv`: who may run when (`Alone`), what each join established (`JoinsHold`), the slot beside `capture_thread_` (`OtherSlotFree`), and `running_` and the recovery thread against the calls made (`RunningAgrees`, `RecoveryAgrees`) |
| `RunningMeansCapturingAlways`, `OneRebuilderAlways`, `UninitReleasesAloneAlways`, `RecoveryLostOnlyByStopAlways` | follow from `IInv` |
| `LoopsOverlapOnlyInStartAlways` | `CountingBound`: failures counted plus failures the two loops have decided to count |
| `TearDownCompleteAlways` | only `JoinRecovery` of `stop` and `Release` of `uninit` end a locked call, and there `IInv` has every thread joined |
| `SessionSwitchesInOrderAlways` | one thread is inside `session_display_mutex_` (`OneInSection`); a session whose switch the application does not know yet is that thread's (`UntoldIsNotified`), and it has stored what it is going to tell (`StoredBeforeTold`) |
| `EmptyOnlyAfterChangeAlways` | what the validation of an id leaves true until the second lookup (`ValidOrShifted`) |
| `ReadyMeansAgreedAlways` | without a reset a peer has one description on its way, its last offer or the answer to it (`OneExchange`), so an answer that is taken is to the last offer |
| `AnonymousOnlyAfterErrorAlways` | by the history: every state but `kDisconnected` without a client comes after an error that met `kDisconnected` (`MarkedAnonymous`); `kError` has to be among them, since `reconnect()` leads on from there |
| `StoppedMeansSilentAlways` | one thread is inside the session's mutex (`OneInside`); while the listening thread lives it is joinable, `running_` is set or its join is next (`LiveIsJoined`), and the desktop server runs or is being started or stopped (`LiveIsOwned`); the latter goes for the signalling server too (`SignalingIsOwned`) |
| `NothingStaysPressedAlways` | a button is held on the host only if the user holds it, its release went astray or a timer will release it (`HeldIsReleased`), and before capture was first enabled there is neither (`NothingBefore`) |
| `LongPressHasFingerAlways` | a lone finger's timer is the tracked one, and it runs only while that finger is down, unless a touch was cancelled (`TimerHasFinger`) |
| `CaptureFollowsChannelAlways` | a page without a current channel has only channels that are ending (`NoCurrentNoChannel`) |
| `ShownIsStreamedAlways` | the last request on its way asks for what is shown, which is what the client wants (`ShownIsAsked`) |
| `StoredFrameIsOfThisTrackAlways` | in turns: whoever stops a track has joined the source before the track is dropped, so nothing is in the encoder when the stored frame is cleared (`StoppedIsDark`), and a transport that knows no source has no track either (`NoSourceNoTrack`) |
| `FaultsNeedCrossingAlways` | in turns, and with the source started by `onOpen` alone: the source's thread runs only while the track is open or somebody is about to join it (`RunsWhileOpen`), is joinable only while `running_` is set or being joined (`RunsOrIsJoined`), and the source outlives the transport's pointer to it (`SourceLives`). That the capture is never used after its end needs no turns (`FreedIsIdle`) |

Only model-checked: the liveness properties (`HandlersReturn`, `CallsReturn`,
`TasksRunUnlessStranded`, `DestructorReturns`, `OfferSettles`, `OpenTrackCaptures`), because
the prover has no rules for fairness and `ENABLED`; and the violations, which need one
counterexample and no proof. The `TypeOK` of `DisplayController`, `Session`, `VideoTrack` and `WebClient` are
theorems and are in no run. Nor is `StoppedRegistryIsEmpty`: `ImplementsService`, with `ServicesTogether`, says it and more.

## 5. Plan

No safety property is left without a theorem. What may follow: for `DisplayController`, `Session` and
`ThreadPool` the theorem `OnlyKnownDeadlocks` is for the server, that the circular waits are those
which their liveness properties except; that `DxgiCapture` and `VideoTrack` fit together, the frame callback
of the one being the `getNextFrame` of the other.

## 6. Not modelled

The capture, encoding and rendering of images, the content of SDP, the routes and files of
the HTTP server, input injection, and the C facade: pure I/O, calls of
the operating system, or codecs. `DataChannel` wraps a channel of the library and is
constructed by nothing in the SDK. Of the encoders, `Encoder` has which one is made and how its operations may end, and `VideoTrack` their life
inside the video path; frame data and `flush` are left out. The metrics of server and page are output
only. Of the transport, data channel messages, bitrate and statistics are left out; of the page, candidates and manual
signalling. The `components` of `PROJECT.json` say so one by one.
