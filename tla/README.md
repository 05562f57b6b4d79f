# A TLA+ model of miot-camera-bridge

miot-camera-bridge finds Xiaomi cameras on the local network, opens the ones it
knows through the closed library `libmiot_camera_lite`, and republishes their
video and audio over RTSP. The program is small, but nearly every part of it runs
threads of its own and shares fields with the others. This directory models those
threads, model-checks them with TLC and proves most of what is checked with TLAPS.
Paths below are relative to the repository root.

## 1. The system

| Component | Code | State it keeps | Operations | Talks to |
|---|---|---|---|---|
| LAN discovery | `src/miot_lan_device.cpp` | `devices_`, `sockets_`, `callbacks_` (one mutex each), `running_`, the scan interval | `start`, `stop`, `ping`, `get_devices`, `register_callback`, `unregister_callback`, two threads | UDP broadcast on each interface; calls the status listener |
| Camera client | `src/miot_camera_client.cpp` | `cameras_` under `cameras_mutex_`, one library instance per camera | `create_camera`, `register_*_callback`, `start_camera`, `stop_camera`, `destroy_camera`, three static callbacks | the library, in both directions |
| libmiot_camera_lite | closed, loaded with `dlopen` | instances, threads | `miot_camera_new`, `start`, `stop`, `free`, callbacks | calls the client's static callbacks |
| Bridge | `src/bridge_main.cpp` | `BridgeContext`, `cloud_devices` | `main`, `device_status_changed_callback`, keyframe detection | all of them |
| Cloud client | `src/miot_cloud_client.cpp` | token, AES key | `get_device`, encryption, a small JSON scanner | HTTPS |
| OAuth | `src/miot_oauth.cpp` | `token_` (no lock), token file, `should_exit_` | `start_auth_flow`, `stop_auth_flow`, `get_token`, load, exchange, refresh, save, one thread | HTTPS, HTTP server, file |
| Authorization server | `src/http_server.cpp` | socket, `running_`, its thread | `start`, `stop`, destructor, `server_loop`, `handle_request` | calls back into OAuth |
| RTSP server | `src/gst_rtsp_server.cpp` | main loop, two appsrc pointers, first-frame flags, base timestamps (no lock) | `start`, `stop`, `push_video_frame`, `push_audio_frame`, two media callbacks | GStreamer |

How an event travels: a device answers a probe; the discovery thread updates the
table and, with `sockets_mutex_`, `devices_mutex_` and `callbacks_mutex_` all held,
calls the listener; the listener asks the cloud for the model (up to tens of
seconds), creates a camera, registers three listeners and starts it; from then on
the library's threads lock `cameras_mutex_` for every frame and push into the RTSP
server, whose pointers are set and cleared by GStreamer's threads.

What is hard about it, and what makes each part correct:

* **LAN discovery** - two threads, three nested mutexes, a sleep and foreign code
  under them. Correct if the mutexes are held where the data is used and never in a
  cycle, `stop()` ends, the listener is told each change once, in order and about a
  table that does not move, a device that answers stays online and one that does not
  is reported.
* **Camera client** - callbacks from foreign threads walk a map that the listener
  changes; an instance is used after the mutex is released. Correct if instances and
  map entries stay in step and no freed instance is used.
* **Bridge** - an order of set-up steps and of calls per event that nothing enforces.
  Correct if the listener knows every device it hears of, no frame comes before its
  listener, an offline camera has been told to stop, and it always returns.
* **RTSP server** - fields shared by three threads without a lock. Correct if times
  do not wrap, each session starts from zero, nothing is pushed between sessions and
  `stop()` ends.
* **OAuth** - a token assigned field by field by one thread and copied by another, a
  file, a process that may be killed, requests that take time. Correct if what is
  called valid is accepted by the service, there is no gap, and a restart finds the
  token.
* **Pure code** - PKCS7 padding, the JSON scanner, keyframe detection, the query string of
  the redirect. Correct if each gives back what the other side put in: the service that
  writes the reply and the redirect, the camera that writes the frame.

Everything in the code that a test would hardly reach is listed, line by line, under
`hazards` in `PROJECT.json`, with the properties that cover it.

## 2. The modules

```
 StatusFeed  <--- implemented by ---  LanDiscovery  <-- EXTENDS --  LanTiming
     ^                                     ^
     | INSTANCE                            | EXTENDS                 ^
     |                                     |                         | EXTENDS
 CameraBridge -- EXTENDS --> CameraClient  LanDiscoveryProofs <-- LanTimingProofs
   ^ |                            ^
   | | INSTANCE                   | EXTENDS
   | v                       CameraClientProofs          RtspServer    TokenLifecycle
   | CloudClient                  ^                          ^               ^
   | ^                            | EXTENDS                  | EXTENDS       | EXTENDS
 CameraBridgeProofs --------------+            RtspServerProofs  TokenLifecycleProofs
     |
     |           Keyframe    QueryString
     |              ^             ^
     +--------------+-------------+--- EXTENDS -- Codecs  <-- EXTENDS --  CodecProofs
                                                                             | EXTENDS
                                                                             v
                                                                         Induction
```

`MC*` modules only give TLC's symmetry sets and function-valued constants.

### StatusFeed
The abstract specification of discovery: a table of `absent`, `online`, `offline` and
the one event being announced. A change happens only when no event is under way, and
is that event. It is what the bridge may rely on.

### LanDiscovery
One variable per field of the class plus the position of each thread (`pc`), what is
left of its sleep or listener call (`timer`) and its locals.

| Action | Code |
|---|---|
| `Start`, `Stop`, `Joined` | `start`; `stop` up to the joins; the joins and `close_all_sockets` |
| `RegisterCallback`, `UnregisterCallback` | the methods, under `callbacks_mutex_` |
| `DDelayOver` ... `DWake` | `discovery_loop`: initial delay, both loop tests, `send_probe` with `get_next_scan_interval`, lock, one `recvfrom` per socket, the `break` when the interval is over, the 1000 ms sleep *with the mutex held* |
| `DUpdate` | `update_device`: the three `if`s that overwrite `status_changed_type` are `ChangeOf`; `last_seen` is refreshed in every case |
| `NotifyListener`, `NotifyNobody`, `CallbackReturns` | `notify_callbacks`, on either thread |
| `TTest` ... `TWake` | `timeout_checker_loop`, `check_device_timeouts`: one read of the clock, then each expired device in any order (the map is unordered) |
| `Arrive`, `Tick` | a datagram reaches a socket buffer, or is lost because it is full; a second passes |

Time is counted as *ages* (ticks since `last_seen`, since the last probe), so the clock
itself needs no bound. Anything `handle_received_data` rejects is one value, `Noise`.

### LanTiming
The same module on a machine that keeps up: a thread that can run does so before the
next second, and devices answer a broadcast within it, some of them not always. The
numbers of the code meet here.

### CameraClient
`cameras`, the library's instances, and the callback each instance is in. Methods that
hold `cameras_mutex_` to their last line are one action; `start_camera` and
`stop_camera` are two (`LookUp`, `LibCall`), because the library is called after the
lock is gone. A callback takes the mutex, visits each camera, and lets go
(`WalkBegins`, `Visit`, `WalkEnds`). The module assumes one caller of the methods at a
time: in this program they are called only from the status listener, and
`notify_callbacks` serialises it with `callbacks_mutex_`.

### CameraBridge
`CameraClient` composed with `StatusFeed`: `main` registers the listener and starts
discovery; the listener (`Called` ... `Return`) runs between the announcement of an
event and its delivery, one step per statement, while the library's threads go on.
`CloudAnswers` runs `CloudClient!GetDevice` on what the request may return (`Bodies`):
nothing, a list without the device, the device, or the device with a name that confuses the
scanner. The model the bridge reads is what comes out of that.

### RtspServer
Every read and write of a shared field in `push_*_frame` is a step, every statement of
`media_configure_callback` and `media_unprepared_callback` is a step (`Script`), and so
are the stages of the main loop. Subtraction of timestamps is unsigned (`% Wrap`).

### TokenLifecycle
The refresh thread, the HTTP server's thread, the main thread in `get_token`, the file,
the service, and a `Restart` that may happen between any two steps. `MainStops` and
`MainJoined` are `stop_auth_flow`, `MainStartsAgain` is `start_auth_flow` after it: the same
object, whose `token_` is what the first flow left in it. `token_` is assigned
field by field in the order of the code and copied field by field; an answer that lacks a
field leaves the earlier ones assigned, and a write to a full disk goes unnoticed. Each
field is copied whole: that two threads may meet inside one `std::string` is undefined
behaviour with no outcome the model could name, and is not modelled.

### CloudClient
No state survives a request, so the module has operators only. A text is a sequence of
lexemes, the things the scanner searches for: a brace, `"list":[`, the keys, a quote that
closes a value, an escaped quote. `Pad`, `Unpad` are `pkcs7_pad`, `pkcs7_unpad` (with the
block size as a parameter); `Extract` is `extract_string`, `ObjectEnd` the loop that counts
braces, `ParseDeviceListResponse`, `GetDevices`, `GetDevice` the functions of these names.
Base64 and AES undo what the other side did and stand for nothing. The loops are recursive
functions. `WriteReply` is the service.

### Keyframe, QueryString
`IsKeyframe` is `is_h264_keyframe` and `is_h265_keyframe`, which differ in `NalUnitType` and
`KeyType` only. `ParseQueryParam`, `UrlDecode` and `CallbackArguments` are how
`handle_request` gets the two arguments of its callback; where `sscanf` finds no digits the
result is a value that no text contains (the code leaves the previous one, or an
uninitialised one). `WriteQuery` is the account service.

### Codecs
The three modules against what they are for. Its one variable is an input, which the
outside world makes longer piece by piece (`AddByte`, `ListDevice`, `AddUnit`, `AddParam`);
every state is one input and the invariants compare what the code computes from what the
other side wrote with what it meant.

## 3. The runs

All of them are in `PROJECT.json`; with two workers `lan_safety`, `lan_liveness` and `token` take about
two minutes, the others less than one.

| Run | What it asks | States |
|---|---|---|
| `lan_safety` | each mutex is held exactly where it should be (`LockDiscipline`), an unregistered listener is not running (`NoCallbackAfterUnregister`), the table does not move during a call (`TableFrozenDuringCallback`), `LanDiscovery` implements `StatusFeed` (`ImplementsFeed`) | 1.4 M |
| `lan_liveness` | `stop()` returns (`StopReturns`), a silent device is reported (`SilentReported`); a device heard on two interfaces is fed to the listener as promised (`ImplementsFeed`) | 326 k |
| `lan_timing` | a device that answers is never declared offline nor found due to be (`ResponsiveStaysOnline`), an entry shown online is fresh (`OnlineIsFresh`) | 1.1 M |
| `camera_client` | instances and map entries correspond (`InstancesOwned`), the copied instance is alive (`HeldPointerLive`), no entry comes or goes under an iterator (`MapStableDuringWalk`) | 875 k |
| `bridge` | the listener's map has every device it hears of (`NamesKnown`), no stream without its listeners (`ListenersBeforeStream`), an offline camera was told to stop (`OfflineCameraStopped`), the listener returns (`EventDelivered`) | 161 k |
| `rtsp` | times do not wrap (`PtsNeverWraps`), a session no push interfered with starts at zero (`CleanSession`), only a push that overlapped the end of a session can use a freed appsrc (`FrameMeetsLiveMedia`), no appsrc between sessions (`NoAppsrcBetweenSessions`), `stop()` returns once the loop runs (`StopReturnsOnceRunning`) | 460 k |
| `token` | a token called valid is accepted (`ValidMeansAccepted`), no gap while refreshes succeed (`TokenStaysValid`), the file never holds a token that has been replaced (`PausedFileIsCurrent`), `stop_auth_flow` and `get_token` return (`StopAuthReturns`, `GetTokenReturns`) | 792 k |
| `codecs` | unpadding undoes padding (`UnpadInvertsPad`), the scanner finds every listed device with its own model (`ListedDevicesFound`, `OwnModelOrNone`), frames are marked by what is in them (`KeyframesMarked`), the callback gets what the service sent (`CallbackGetsWhatWasSent`) | 176 k |
| `camera_frames`, `rtsp_restart`, `token_client`, `token_page` | four statements of the documents that the code contradicts, see section 4 | |

### Bounds, and why they are enough

* `lan_safety`: two devices with two addresses on one interface, so that a pass of the
  checker has two devices to expire while the other thread has an answer waiting, and a
  device appears, returns, moves and vanishes; `MinScan` below `MaxScan` so that the
  interval grows. A buffer of one datagram is enough, because a lost datagram and a late
  one are both possible with it. `AgeMax` is above `Timeout`; ages beyond it do not differ
  for any guard. Listener calls take any number of steps but no second here (they do in
  `lan_liveness` and `lan_timing`).
* `lan_liveness`: one device heard on two interfaces, so that `INTERFACE_CHANGED` happens
  too; listener calls and pauses take a second. Two devices *and* two interfaces are out of
  TLC's reach; the theorem `Refinement` has no such bound.
* `lan_timing`: two responsive devices and one that may fall silent share a socket that is
  read once a second, with a listener call of up to a second and a checker period of 2.
  A timeout of 8 is the smallest that works with these numbers (7 is refuted), so the run
  is at the edge and not far inside it. The code's 5, 45, 600 and 5 s leave a wide margin
  for listener calls. How late the checker may be, `Slack(d)`, is its period and the calls
  about the other devices: one for each that the thread in the table announces while the
  checker waits, and two for each that may fall silent, which may have expired in the pass
  before, come back, and expire in the pass that finds `d`. `AgeMax` is the largest
  `Timeout + Slack(d)`, so that an older entry would be seen.
* `camera_client`, `bridge`: two devices; three instances for the client, so that one is
  left over for a second creation, two for the bridge, where a camera is created once.
  Both devices of `bridge` are of the supported model; that the cloud does not know one
  covers the other branch.
* `rtsp`: three connections (a session that is interfered with, the next one, and one more
  media to mix up), a clock of two values, and any `Wrap` above the clock. The bound on the
  connections and on the clock is the model's, so the system may come to rest and deadlock
  is not checked; so may the real one, which has nothing to do without clients or frames.
* `token`: an expiry of 6, of which the code takes seven tenths, a margin of 2, a check
  period and a request of 1: with these the thread checks twice before a refresh is
  due, and an answer may come a tick before the expiry. Two tokens: one and its refresh. The clock stops at 7,
  past the expiry of the first token. `token_client` and `token_page` have room for three
  tokens.
* `codecs`: blocks of 3 bytes and plain texts of up to 4, over bytes that include every
  possible padding and one more (`CodecProofs` has any block and length, and replies and
  redirects of any length). Replies of up to
  two devices, with and without a model, the same or another did, names with no, matched,
  unmatched and escaped characters, an inner object, all six orders of the fields. Access
  units of up to four NAL units as H.264 and H.265 order them, with either start code or
  none. Redirects of up to three parameters, one of which has a name that ends in `code`. The
  run stops where the input is full, so deadlock is not checked.

### Fairness

* `LanDiscovery`: weak fairness of each thread, of the joins and of the clock. Strong
  fairness of the two steps that wait for `devices_mutex_` (`DUpdate`, `TCheck`): the other
  thread sleeps a second or more between two acquisitions, so a waiter is not passed over
  for ever. Nothing is assumed about `Stop`, the arrivals, or the order of the devices.
* `CameraBridge`: a walk over the cameras ends (weak fairness; its listeners only push into
  the RTSP server or print), and the listener, which competes for `cameras_mutex_` with
  frames tens of milliseconds apart, gets it in the end (strong fairness).
* `RtspServer`: the thread of the main loop and the one in `stop()` are scheduled.
* `TokenLifecycle`: the threads of the process are scheduled, time goes on, a request is
  over by `CURLOPT_TIMEOUT` (`Job`). Not the thread that sits in `accept`: a browser may
  never come. `GetTokenReturns` speaks of a process that is not killed for ever.

No fairness of devices, the cloud, the service, clients or users is assumed anywhere.

## 4. Where the code and its documents disagree

* `camera_frames` - `register_raw_video_callback(did, ...)` is documented to register for
  one device, but `raw_data_callback` hands every frame to every camera's listener.
* `rtsp_restart` - `AUDIO_RTSP_IMPLEMENTATION.md:156` promises that a new connection starts
  from the beginning. A push that overlaps `media_unprepared_callback` can leave the
  first-frame flag false with base 0; the next session then carries the camera's absolute
  time. `CleanSession` shows that this overlap is the only way.
* `token_client` - the comment at `bridge_main.cpp:196` says the cloud client can update its
  token; nothing ever gives it one, and the token it was made with dies.
* `token_page` - the page at `http_server.cpp:199` congratulates on an authorization that
  has failed.

Behaviour worth knowing that no document speaks about, and so no run states:

* A device that comes back from another address is announced as `IP_CHANGED` or
  `INTERFACE_CHANGED`, not `ONLINE` (`miot_lan_device.cpp:507-517` overwrite the type). The
  bridge restarts a camera only on `ONLINE`. `StatusFeed!Return` makes it visible.
* A cloud request that fails during `NEW` is not repeated; that camera is never opened.
* The scanner counts braces inside strings. A device whose name has a `{` or `}` without its
  partner is not found, or hides the ones after it, and counts as a model the bridge does not
  know (`ListedDevicesFound` leaves it out). In an answer about one device, which is all the
  bridge asks for, that is the worst (`OwnModelOrNone`).
* Only the first NAL unit of a frame is looked at: a frame that starts with an access unit
  delimiter or SEI is not marked as a key frame even if it holds an IDR (`KeyframesMarked`
  leaves these out, `FirstUnitDecides` proves it).
* A parameter whose name ends in `code` or `state` is taken for that one if it comes first,
  since `query.find("code=")` does not look at what precedes.
* `start_auth_flow` after `stop_auth_flow` loads the file over a `token_` that still has the
  newer `expires_at` if the last save had failed: between two assignments `get_token` may
  hand out an old access token as valid. `ValidMeansAccepted` leaves that load out.
* `push_*_frame` tests the appsrc and uses it many lines later; in between it may be
  cleared and its media freed. The model has these states (`push.target` null or not in
  `alive`); `FrameMeetsLiveMedia` says that they come from that overlap alone.
* `GstRtspServer::stop()` called before the main loop runs waits for ever; so does
  `stop_auth_flow` while the server's thread sits in `accept`, until a browser connects.
* `save_token()` writes to its default file name, `init` reads `token_file_`. The bridge
  passes the same name for both, which is what the model covers.
* With a full disk `save_token` truncates the file and reports success; after a restart the
  user has to authorize again. `PausedFileIsCurrent` is as much as holds.
* `miot_lan_device.h:144` gives the device timeout as 100 s, the code sets 600.

## 5. The proofs

What the runs of section 3 check on a small instance, eight modules prove for every value of
the constants: any number of devices, addresses, interfaces, instances and sessions, any
intervals in the order the code keeps them, inputs of any length.

| Module | Theorem | States |
|---|---|---|
| `LanDiscoveryProofs` | `TypeCorrect` | `Spec => []TypeOK` of `LanDiscovery` |
| | `MutexesKept` | `Spec => []LockDiscipline` |
| | `UnregisteredIsNotCalled` | `Spec => []NoCallbackAfterUnregister` |
| | `TableIsFrozen` | `Spec => TableFrozenDuringCallback` |
| | `Refinement` | `Spec => Feed!Spec`: every step is a step of `StatusFeed` or a stutter |
| `LanTimingProofs` | `AnsweringStaysOnline` | `KeepsUp => (TimedSpec => []ResponsiveStaysOnline)`: any number of devices, as long as discovery can keep up with them |
| | `FreshWhenOnline` | `TimedSpec => ([]ResponsiveStaysOnline => []OnlineIsFresh)` |
| | `FreshWithSilentDevices`, `FreshWhereDiscoveryKeepsUp` | `TimedSpec => []OnlineIsFresh`, when no device is known to answer, and under `KeepsUp` |
| `CameraClientProofs` | `ClientTypeCorrect`, `InstancesAreOwned`, `HeldPointerIsLive`, `MapIsStable` | the four properties of the run `camera_client` |
| `CameraBridgeProofs` | `BridgeTypeCorrect`, `NamesAreKnown`, `ListenersComeFirst`, `OfflineIsStopped` | the four invariants of the run `bridge` |
| | `BridgeUsesClient` | `Spec => ClientSpec`: the bridge calls the client only as `CameraClient` allows |
| | `BridgeFollowsFeed` | `Spec => feed!Spec`: the bridge hears only what `LanDiscovery` promises |
| | `BridgeKeepsClientSafe` | what `CameraClientProofs` shows, in the composed system |
| `RtspServerProofs` | `RtspTypeCorrect`, `TimesNeverWrap`, `SessionsAreClean`, `PushMeetsLiveMedia`, `NothingBetweenSessions` | the five invariants of the run `rtsp` |
| `TokenLifecycleProofs` | `TokenInvariant` | the inductive invariant, `Spec => []IInv` |
| | `TokenTypeCorrect`, `ValidIsAccepted`, `TokenStaysUsable`, `PausedFile` | the four invariants of the run `token` |
| `CodecProofs` | `UnpadIsInverse` | `Spec => []UnpadInvertsPad` of `Codecs`: for any text, any block size up to 255 |
| | `FirstUnitDecides` | a frame that begins with a start code is marked if and only if the type of its first NAL unit is one of the listed ones, whatever follows |
| | `KeyframesAreMarked` | `Spec => []KeyframesMarked`: for frames of any number of units |
| | `CallbackIsExact` | `Spec => []CallbackGetsWhatWasSent`: for redirects of any number of parameters with values of any length |
| | `EveryListedDeviceFound` | `Spec => []ListedDevicesFound`: for replies of any number of devices, in any order of the fields |
| | `OwnModelOrNothing` | `Spec => []OwnModelOrNone`: whatever stands in the name of the device |

**Assumptions.** `Did` and `Iface` are not empty; a datagram that is no answer is not one of
a device (`"none"` is no `Did`); in `LanTiming` there are finitely many devices and a listener
call, one request of at most 30 s, is shorter than the device timeout; `1 <= MinScan <= MaxScan`; times are
natural numbers and `Timeout < AgeMax` (the bound of the ages); the buffers have some
capacity; the names `"none"` and `"free"` are not instances; a block has 1 to 255 bytes; the
supported devices are devices; a parameter of a redirect has a name, with no `&` or `=` in
it; the did and the model of a device hold no quote and no brace, only its name may, and the
service writes every field a device has; the camera's clock does not reach `Wrap`, which is 2^64 in
the code. `TimingAssumption` of `TokenLifecycle` puts the times in proportion: a request and
a check together are shorter than the margin and than the seven tenths of `expires_in` that
`expires_at` counts, and a request is shorter than the three tenths that are left. In the
code a request ends after 30 s, a check comes every 60 s and the margin is 10 minutes, so
that this holds for every `expires_in` of three minutes or more. It is needed: with a token that
lives for less, `token_refresh_loop` does sleep past the expiry. TLC evaluates all of them
on every run of a module that extends their module.

**Argument for discovery.** `LockDiscipline` is not inductive alone. `IInv` adds which
positions each thread can stand at (`Places`), that no thread exists outside of `start()`
.. `stop()` (`NoThreadsAtRest`, so that `start()` cannot put a thread next to one that
holds a mutex), that `update_device` has an answer in hand (`AnswerHeld`), that a thread
that notifies is about a device whose entry names a change (`SubjectTold`), and that the
devices still to expire are online (`DueOnline`: nobody could touch them since the checker
looked, because it has the table). Each part is preserved action by action. That the table
is frozen and the refinement follow from `IInv`: `DUpdate` and `TExpire` are the only steps
that write a status, the first needs the table free and the second the table held by the
checker that is not notifying, so the feed is settled then; the lemma `ChangeFits` says
that `ChangeOf` names a change the feed allows for the old status.

**Argument for the times of discovery.** `LanTiming` has fewer behaviours than
`LanDiscovery` (`TimedIsSpec`), so the invariant above holds in it, and `Setting` adds what
its world is like: devices have one home, discovery runs on every interface and is not
stopped. `FreshInv` bounds the age of an entry shown online by what lies before the checker:
what is left of its sleep, of the call of the other thread and, once it holds the table, one
call for each device still due. The hard part is a checker that waits for the table. Each
device that the other thread may announce meanwhile costs a call, but a device cannot be
announced as new twice; so `FreshAwake` counts the devices that may still be announced, and
`FreshInPass` those that are due, and one step moves a device from one count to the other.
It takes for granted that devices that answer are not taken offline, and that is the other
half. `KeepsUp` says when:

* no more devices on an interface than the shortest interval after the first one has
  seconds, since a socket is read once a second (with the numbers of the code, 10 devices);
* sockets that buffer what arrives during the listener's calls;
* `Pace`, which is an interval, a second for each device and two listener calls about each,
  below the timeout: with 45 s, 600 s and calls of 30 s this allows 9 devices;
* either every device answers, or the listener's calls take no time. A device that comes and
  goes causes a call each time, and no number bounds those.

Under it `PaceInv` holds: what is in a socket and still to come fits into the rest of the
interval (`ScanReadsAll`, `ScanHasTime`) except for the calls about devices not yet known,
which happen once; and for each device that answers there is an answer on its way, in a
socket, in hand or after the next broadcast, that will be read before the entry is too old
(`AnswerComes`). TLC checked both invariants on three instances (calls of a second, a flaky
device, two interfaces) before they were proved. The conditions are sufficient, not
necessary: the run `lan_timing` is outside of them, with a flaky device *and* calls that
take time, and beyond what they allow nothing is claimed.

**Argument for the client.** `InstancesOwned` is preserved because `CreateCamera` takes an
instance that is free for a device that has none, and `DestroyCamera` frees the one it
erases. `HeldPointerLive` needs it, and that no method runs between `LookUp` and `LibCall`.
A walk holds the mutex that creation and destruction need.

**Argument for the bridge.** Nothing in `bridge_main.cpp` enforces the order its three
properties are about; it follows from where the listener can be for which event. So
`BridgeInv` says which places of the listener belong to which case of its switch
(`StepFitsEvent`), that the call under way is the listener's own, on the instance its camera
still has (`CallFitsStep`), that the table says what is being announced (`FeedAgrees`), and
then, per device, the three things the properties come from: an entry in `cloud_devices`
unless its `NEW` is still on the way to `operator[]` (`KnownOnceHeard`), listeners
registered in order on an idle camera while `NEW` is being handled, all of them after it
(`SetUpInOrder`), and the last request a stop unless `OFFLINE` is still being handled
(`StoppedOrToBe`). The threads of the library only move callbacks
(`LibraryStep`), which none of these mention. A step of the bridge is one of `CameraClient`
or leaves its variables alone, and the same for `StatusFeed`; `BridgeUsesClient` and
`BridgeFollowsFeed` say so, and the client's invariant need not be proved twice. With
`Refinement` of `LanDiscovery` both sides of the feed are proved against the same
specification.

**Argument for the RTSP server.** The media callbacks are a script, and where it stands
decides what both pointers hold, whoever pushes (`AppsrcFollowsScript`); from this
`NothingBetweenSessions` is immediate. `BaseNotAhead` bounds the bases by the clock and by
the frame being pushed: `push_*_frame` computes its difference from a base that is either
zero or was the time of an earlier frame, so it does not wrap even when a reset comes in
between. For a track whose session end no push overlapped, `PushInSession` places the push
between the two callbacks, and `SessionsKept` relates the flag, the base, the frame under way
and what was sent. Its hard case is the first frame, which is known to the flag before it
is sent: as long as `sent` has no first time although the flag is down, that frame is on its
way and carries the base itself (`FirstOnItsWay`). `CleanSession` alone says nothing about
these states and is not inductive.

**Argument for the tokens.** Everything is about a token whose fields may come from two
assignments. `Covered` says that such a token expires, by its own `expires_at`, before the
service stops accepting its access token; it is true of the file, of the answer being
assigned (`ReplyCovered`) and of `token_` (`TokensCovered`), because tokens die in the order
they were issued (`ServiceInOrder`), so that an old `expires_at` beside a new access token
errs on the safe side. The exception is a second `load_token` that writes an older file over a
newer `expires_at`; `HalfLoaded` marks it, and `ValidMeansAccepted` leaves it out.
`EnoughTime` says how long `token_` still lasts at each place of the thread: a request and a
pause after a refresh, what is left of the pause while it sleeps, what is left of the request
while it waits. `JobHasOwner` and `ServerBelongsToWait` say which thread the job under way
belongs to. One more fact turned out to be needed only when the step of the main thread
would not go through: `start_auth_flow` is not called again before the first refresh thread
has ended (`Joined`), without which two of them would share one job. It is inductive by
itself and proved apart.

**Argument for the codecs.** `PaddingRange` is the arithmetic: a padding is between 1 and
`Block` and fills the last block. `PadLength` says where it stands in the padded text, so the
last byte is the padding itself, `Malformed` is false of it, and what is left after cutting it
off is the text, position by position (`PaddingComesOff`). The invariant is that the input
stays a sequence of bytes. A frame is the concatenation of its units, by the recursive
`FlattenSeq`. It is an input that grows unit by unit, and so the induction is
over the behaviour: the invariant `FramesShaped` says that the function exists for the
units so far and that its value begins with the first of them (`FlattensFrom`), and
`FlattensOneMore` is its step. With `FirstUnitDecides` that is `KeyframesAreMarked`.

A query needs induction over the data, since its values are texts of any length inside one
step. The library states induction for a predicate as a parameter of a theorem, which no
prover here takes; the module `Induction` states it for a set instead (`NumberInduction`,
`SequenceInduction`), from the fact that a set of numbers has a least element. With it
`UrlDecode` and `FlattenSeq` are shown to have a value that follows their recursion
(`UrlDecodeIs`, `FlattenIs`, `FlattenAppend`), and what `UrlDecode` makes of a text not to
depend on what stands before the place where it reads (`DecodeBehind`). So a text written
character by character is read back character by character: `DecodeEncoded`. For
`ParseQueryParam`, `FoundFirst` says that the first `key=` of the query stands at the first
parameter whose name ends in `key`, with its value behind it up to the next `&`; it
holds of every list of parameters by induction over it (`FoundMore` is the step: a new
parameter brings exactly one `=`, since a name has none and a value is encoded).
`NotShadowed` makes the first name that ends in `key` the first that is `key`.

The scanner of the device list is a recursive function of a position (`ScanExists`,
`ScansAt`). Its two results rest on two different facts. For `OwnModelOrNothing` the fact is
that wherever a key stands in the reply, the value of the one device follows it up to the
next quote (`Followed`; `Tells` says it of both keys). Joining texts keeps it
(`TellsConcat`), and so does cutting a piece out, as far as `extract_string` can tell: it takes
the value or nothing out of any piece (`ExtractPiece`). So it does not matter where the braces
of a name make the scanner think that an object ends. For `EveryListedDeviceFound` it does:
`Depth` of a joined text is the sum of the depths (`DepthConcat`), therefore what the service
writes for a device is enclosed by its own braces (`Encloses`), `ObjectEnd` is the last of
them (`ObjectEndIs`), and the scanner takes the object as a whole (`ObjectScan`). `Table` is
what a list of devices adds up to, and `ListScan` is the induction over the list: what the
scanner has, from the first object on, is the table overwritten by what it finds behind the
last.

**Only model-checked:**

* all liveness (`StopReturns`, `SilentReported`, `EventDelivered`, `StopReturnsOnceRunning`,
  `StopAuthReturns`, `GetTokenReturns`), which is out of the prover's reach;
* `ResponsiveStaysOnline` where some devices come and go and listener calls take time, as in
  `lan_timing`;
* the four statements of section 4, which do not hold.

## 6. What is not modelled

* `ping` (only sends), `get_devices` and `get_device` (only read), the setters of the
  intervals (called, if at all, before `start`), a `start` that fails.
* The bytes of a LAN packet: a datagram is an answer or one value for all that is rejected.
* `MIoTCameraClient::init` and `dlopen` run before the first camera; `main` ignores what they
  return, after which the first supported camera calls a null pointer. The destructor never
  runs: nothing ends `main` once the client exists. The library's inside is external; its
  `free` does not wait for a callback.
* `GstRtspServer::init` (builds a pipeline string). A second `start` after `stop` finds
  `server_` null and gives it to GStreamer, which is not specified to do anything with it;
  the program never stops its server.
* Building the requests and their URLs, the state string, random ids, AES, RSA, base64, SHA:
  data. The HTTP server's command line mode and the setters of the clients' tokens, which the
  bridge does not use.
* Build files, packaging, logging.

## 7. Plan

Done: StatusFeed, LanDiscovery, LanTiming, CameraClient, CameraBridge with CloudClient,
RtspServer, TokenLifecycle with a second start, Codecs; proofs about every one of them.

Next, in this order:

1. `ResponsiveStaysOnline` with devices that come and go while listener calls take time: how
   often one may come back within an interval.
2. A second caller of the camera client, to show what `callbacks_mutex_` is needed for.
