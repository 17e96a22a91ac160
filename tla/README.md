# A formal model of Sunshine

Sunshine is a game-stream host for Moonlight clients.  This directory holds TLA+
models of its components: which thread does what to a session, a slot, an image, a
device or a file, and when; and of some computations, where what is sent must be what the
other side expects.
TLC checks the models on small instances; TLAPS proves the most important
invariants for every value of the constants.

To check a run: `tlc -workers 2 -config X.cfg M` with the module and configuration
of the table under "Runs".  To check the proofs: `tlapm XProofs.tla`.
`PROJECT.json` lists the components, the runs, for every property of a passing run
a mutation of the code that breaks it, the source lines every definition stands
for, the disagreements between code and comments that the models show, and the
hazards of the code with the properties that cover them.

Line numbers are those of the files under `src/sunshine/` unless a path is given.


## 1. Inventory

The program is one process.  `main.cpp` starts these threads, which share the
globals of a few files:

| Thread | File | What it runs |
|---|---|---|
| main | main.cpp | start-up, then waits for `rtpThread`; destructors at exit |
| rtpThread | rtsp.cpp | RTSP: DESCRIBE, SETUP, ANNOUNCE, PLAY; starts and reaps sessions |
| HTTP, HTTPS (one each) | nvhttp.cpp | pairing; /launch, /resume, /cancel, /applist |
| configuration server | confighttp.cpp | web pages: applications, settings, pairing PIN, close |
| control, receive, video and audio broadcast | stream.cpp | one each per broadcast context, which all sessions share |
| video, audio (one pair per session) | stream.cpp | wait for the client's ping, then run `capture()` |
| capture and encoding | video.cpp | shared by the sessions (sync) or one per session (async) |
| audio encoding | audio.cpp | one per session |
| task pool worker | thread_pool.h | timers: input repeat, delayed release |

### Components

**RTSP server and launch slots** (rtsp.cpp).  State: `_session_slots` under a lock,
`_slot_count` and `raised_timeout` under none, the event `launch_event`.  Operations:
`session_raise` (HTTPS thread), `cmd_announce`, `accept`, `clear(slot)` (RTSP thread),
`clear(all)` and `session_count` (both).  Hard: `++`/`--` of a plain `int` from two
threads; a timeout read before the event it guards; `peek()` and then a blocking
`pop()`; a failure after the event was consumed.  Correct if: every accepted
session is in exactly one slot, a launch is served at most once, a slot is not
reset under the thread that joins its session, the counter stands for what occupies
a channel, stopped sessions are reaped, and the server ends when told to.

**Streaming sessions and the broadcast context** (stream.cpp, `shared_t` of
thread_safe.h).  State: each session's `state`, threads, events, ping timeout; the map
of sessions the control thread serves; the reference count.  Operations: `alloc`,
`start`, `stop`, `join`; `start_broadcast`, `end_broadcast`; `controlBroadcastThread`.
Hard: five threads may stop one session; plain pointers in the map of the control
thread; the context goes with the last reference while another session may be
starting; `join()` waits for an event of a thread that may have ended.  Correct if:
no session is freed while a thread uses it, the context lives exactly as long as a
session refers to it, a session is stopped once and joined once, what was stopped is
freed, and a silent client is dropped.

**Application process** (process.cpp).  State: `_app_id`, `placebo`, the child and its
group, the iterators of the undo commands.  Operations: `execute` (/launch), `terminate`
(/cancel, "Force close", exit, and the failure of `execute`), `running`, `refresh` (an
application is saved or deleted).  Hard: three threads without a lock; commands that
take any time and may fail at any point; an application that exits by itself; the
object is replaced while it is in use.  Correct if: the prep commands in force are
those of the recorded application, each is undone once and in reverse order, a
launch that fails leaves nothing behind, and calls return.

**Ping registry and connections** (stream.cpp: `recvThread`, `recv_ping`,
`audio_video_connections`).  State: queues by address and type, the peers found.
Operations: register, unregister, ping, time out, the removal in `join()`.  Hard: two
clients of one address; a ping that arrives before or after the wait; an entry that
is removed while another waits for it.  Correct if: each session gets its own ping,
and `join()` finds the two entries of a session that had them.

**Control server messages** (stream.cpp: `control_server_t`).  State: the map from
addresses and peers to sessions, sequence numbers of encrypted messages.  Operations:
`get_session`, `call`, `send`, rumble, IDR and invalidation requests.  Hard: two
unclaimed sessions of one address; replay and order of encrypted packets.  Correct if:
a message acts on the session of the client that sent it.

**Video and audio packetizing and FEC** (stream.cpp).  State: frame and sequence
numbers, the FEC shards of an audio block.  Operations: split, insert, encode, send.
Hard: bit fields, limits of shards per block, rounding, wrap-around.  Correct if: what
the client reassembles is the frame, and numbers do not overflow their fields.

**Video capture and encoding threads** (video.cpp).  State: the queues of capture
contexts, the display and its reinit event, the ring of images, join events.
Operations: `captureThread`, `captureThreadSync`, `capture_async`, `encode_run`,
`encode_run_sync`.  Hard: a thread that ends with its last user while the next one
arrives; everybody waiting for the display; images held by sessions that have gone.
Correct if: every context that was raised is served or its join event raised, the
display is re-created only when no one uses it, and no thread waits for ever.

**Encoder probing** (video.cpp: `init`, `validate_encoder`).  State: what each encoder
can do.  Hard: fallbacks after partial failures.  Correct if: an encoder that is
chosen passed the tests of the features it claims.

**Audio capture** (audio.cpp).  State: the shared context with the sink to restore.
Hard: first and last user, failure of one of several sessions.  Correct if: the sink
of the host is restored when, and only when, the last session ends.

**Task pool** (task_pool.h, thread_pool.h).  State: ready tasks, timers sorted by time.
Operations: `push`, `pushDelayed`, `cancel`, `pop`, `stop`; `delay` has no caller.  Hard:
`cancel` takes one mutex of two; the worker looks at the queue, at the time of the
next timer and then waits, and may be overtaken between these.  Correct if: no task is
lost or run twice, timers run in order and not early, and a pushed task wakes a worker.

**Events, queues and mail** (thread_safe.h).  State: `event_t`, `queue_t`, `signal_t`,
the posts of `mail_raw_t`.  Hard: stop and raise, a full queue, expiry of posts.
Correct if: no waiter misses a value or the stop.

**Input** (input.cpp).  State: pressed buttons and keys, gamepads, tasks for repeat and
release.  Operations: a packet, a timer, `reset()`.  Hard: timers are known by addresses
that are used again, `reset()` cancels them from another thread than the one that runs
them, and what is pressed belongs to the host while the delay belongs to the session.
Correct if: what is held on the host is what is recorded as pressed, one key repeats,
and a button that was let go is released.

**HTTP and HTTPS servers, pairing** (nvhttp.cpp, crypto.cpp).  State: the sessions of
clients that are being paired, the clients that are known, the state file, the
certificates TLS accepts.  Operations: the four requests of a client, the PIN from the
web page, the look at a connection's certificate, unpairing all.  Hard: clients that use
one uniqueid; a PIN that meets another client's request; a restart, and a state file that
was half written.  Correct if: who was told that it is paired is known and accepted,
over restarts too, and who pairs alone finds its own session.

**Configuration web interface, configuration** (confighttp.cpp, config.cpp, httpcommon.cpp).
State: apps.json, sunshine.conf and the state file, and what was read from them.
Operations: save and delete an application by its index, save the options, change the
password, unpair, read at the start.  Hard: pages that show an older list; a file that cannot
be read; two threads that read, change and write one file.  Correct if: what was saved is
in effect, at once or at the next start, and nothing else is lost by it.

**UPnP and service publishing** (upnp.cpp, platform/*/publish.cpp), **start-up and shutdown**
(main.cpp).  State: the shutdown event, the servers, the task pool, the timer that aborts,
mapped ports, Avahi's loop and its entries.  Hard: signals at any time; what is announced by
other threads while the program ends; names that are taken.  Correct if: the servers end
together, and the program has taken back what it announced.

**Linux platform layer** (platform/linux).  State: the display of X11 with its refresh task,
DMA buffers and their descriptors, uinput devices and the rumble thread, the sinks of
PulseAudio.  Hard: a task that pushes itself again while its owner is destroyed; descriptors
with several owners, whose numbers are used again; monitors that come, go and change their
size while they are captured.

**Windows platform layer** (platform/windows).  State: a desktop's duplication and what it
has told of the pointer, the default devices and their formats, the recorded samples, ViGEm
targets.  Hard: what is told once only; a desktop that is switched while it is
captured; reports of controllers that have gone.

**Not protocols of the program's own:** OpenSSL wrappers (crypto.cpp); addresses and the ENet
wrapper (network.cpp); bitstream headers (cbs.cpp); the tools; the vendored code and
assets.  The reason for each is in `PROJECT.json`.

### How they interact

/launch runs `execute()`, then `session_raise()`.  The client then opens RTSP, whose
ANNOUNCE pops the launch event, puts a session into a slot and calls
`session::start()`: it takes a reference to the broadcast context, enters the maps of
the control and receive threads and spawns the session's two threads.  They wait for
a ping, then call `video::capture` and `audio::capture` until `shutdown_event`.  Any of
them, a disconnect, a silent client, the end of the application (`proc.running()`,
polled by the control thread) or `broadcast_shutdown` ends in `session::stop()`; a
`clear()` on the RTSP or the HTTPS thread joins and frees what is stopping, and with
the last session `end_broadcast()` joins the broadcast threads.


## 2. The modules

| Module | Models | Code |
|---|---|---|
| `RtspServer` | launch slots under the RTSP and the HTTPS thread | rtsp.cpp, callers in nvhttp.cpp |
| `RtspMessages` | one RTSP connection: how a request is read, which status it is answered with | rtsp.cpp |
| `StreamSession` | sessions, their threads, the control thread, the broadcast context | stream.cpp, `shared_t` |
| `SessionLifecycle` | the abstract life of a session, which `RtspServer` and `StreamSession` implement | stream.h `state_e` and the calls of rtsp.cpp |
| `PingRegistry` | pings, the threads that wait for them, the table of connections | stream.cpp |
| `ControlServer` | control connections and the messages of clients | stream.cpp |
| `Packetizer` | frames and audio cut into packets and parity | stream.cpp |
| `VideoCapture` | the capture thread, its images and the sessions that encode them | video.cpp, `captureThread`, `encode_run` |
| `VideoCaptureSync` | one thread that captures and encodes for all sessions | video.cpp, `captureThreadSync` |
| `EncoderProbe` | what an encoder can do, and which one is chosen | video.cpp |
| `AudioCapture` | the shared audio context and PulseAudio's sinks | audio.cpp, platform/linux/audio.cpp |
| `WasapiAudio` | sinks of Windows, samples and how channels are mixed | platform/windows/audio.cpp |
| `AppProcess` | the application and its prep commands under three threads | process.cpp, callers in nvhttp.cpp, confighttp.cpp |
| `ThreadPool` | the task pool: its queues, its workers and how they sleep | task_pool.h, thread_pool.h |
| `TaskPromise` | what the pool promises to those who push tasks; `ThreadPool` implements it | |
| `SafeQueue`, `Mail` | `event_t` and `queue_t`; `mail_raw_t` and its posts | thread_safe.h |
| `InputDevice` | mouse buttons, keys and the timers they share | input.cpp |
| `Gamepads` | controllers: ids, the HOME button, uinput devices, the rumble thread | input.cpp, platform/linux/input.cpp |
| `VigemPads` | controllers of ViGEm and the rumble they report | platform/windows/input.cpp |
| `Pairing` | pairing, known clients, restarts | nvhttp.cpp, crypto.cpp |
| `SavedFiles` | apps.json and sunshine.conf as pages save them and the program reads them | confighttp.cpp, process.cpp, config.cpp |
| `StateFile` | sunshine_state.json between two threads that write it | httpcommon.cpp, nvhttp.cpp |
| `Program` | start, end, signals, UPnP, publishing | main.cpp, upnp.cpp, publish.cpp |
| `X11Capture` | capturing a screen of X11 | x11grab.cpp |
| `DmabufCapture` | capturing DMA buffers of a card or a compositor | kmsgrab.cpp, wlgrab.cpp, wayland.cpp |
| `DuplicationCapture` | desktop duplication and the pointer drawn into it | display_base.cpp, display_ram.cpp, display_vram.cpp |
| `MCRtspServer`, `MCStreamSession`, `MCAppProcess`, `MCInputDevice`, `MCPingRegistry`, `MCVideoCapture`, `MCGamepads` | instances TLC runs (`ThreadPool` is run itself) | |
| `Parts` | 19 components side by side, which take their values from its constants | |
| `MCAppCapture`, `MCParts` | several components in one run: two that take turns; an instance of `Parts` | |
| `RtspServerProofs`, `StreamSessionProofs`, `ThreadPoolProofs`, `InputDeviceProofs`, `PingRegistryProofs`, `AppCaptureProofs`, `PartsProofs`, `MediaProofs` | theorems | |

`PROJECT.json` names for every property a mutant: a definition, and another operator of the
same module, defined before it, that changes it as a bug would.  These changed forms are used
by nothing else.  History variables record what has happened and guide no action.  A
variable `undefined` is set by a step whose behaviour C++ does not define; the behaviour
ends there, and the properties say when it cannot happen.

### RtspServer

Two threads, `"rtp"` and `"https"`, each with a label `pc[t]` and what it keeps across
labels: `call[t]` (the argument of `clear()` and where it returns to), `pos[t]` (its
loop variable), `reg[t]` (the `_slot_count` it has loaded).

| Code | Model |
|---|---|
| `_slot_count`, `_session_slots`, its lock, `launch_event`, `raised_timeout` | `slotCount`, `slots`, `lock`, `pending`, `fresh` (not yet passed) |
| `++_slot_count`, `--_slot_count` (302, 317, 330, 344) | `LoadCount`, `StoreCount`: two steps, a label for each of the four places |
| `clear(all)` (308-338) | `CallClear`, `ClearCheck`, `ClearPop`, `ClearLock`, `ScanSkip`, `ScanStop`, `JoinAndReset`, `EndBroadcast`, `ClearReturn` |
| `cmd_announce` (553-678) | `AnnouncePeek`, `AnnouncePop`, `AnnounceRefuse`, `AnnounceAccept`, `AnnounceStart`, `AnnounceStartFails`, `UndoAccept` |
| `rtpThread` (680-722) | `RtpIterate`, `RtpReap`, `RtpEnd`; `RtpAcceptError` for `handle_accept` |
| `session_raise`, and /launch, /resume, /cancel | `Request`, `CountAndAnswer`, `CountAndLaunch`, `RaiseCheck`, `Raise` |

A session is a launch that has gone on; `phase` says how far.  `StreamSession`
justifies the abstraction that a session which is STOPPING ends by itself.
`drift` is a history variable: what overlapping `++` and `--` have added to the counter.

### StreamSession

| Code | Model |
|---|---|
| `session_t::state`, `shutdown_event`, `controlEnd`, `pingTimeout` | `state`, `shut`, `ctlEnd`, `late` (`pingTimeout` has passed; a new session's is zero) |
| progress of `start()` (1362-1395), `join()` and reset | `life` |
| `videoThread`, `audioThread` | `thread[s][k]`: waiting for the ping, capturing, done |
| `_map_addr_session` | `map` |
| `controlBroadcastThread` (725-796) | `ctl`, `CtlCheck`, `CtlScan`, `CtlNoProcess`, `CtlIdle`, `CtlEvent`, `CtlShutdown`, `CtlFinal` |
| `shared_t::ref`, `release` | `refs`; `StartRef`, `StartFails`, `JoinAndResetLast`, `EndBroadcast` |
| `clear()` | `Reap`, `ClearAll`, `ClearAllDone` |

`CtlCheck` and `CtlScan` are two steps, since `pingTimeout` is read without a lock that
`start()` takes, and `stop()` acts on the state at the time it is called.

### SessionLifecycle

A session is accepted, fails or runs, is stopped, and only then closed; several may
be stopped in one step.  `RtspServer` and `StreamSession` each define a refinement
mapping `stage` and check `ImplementsLifecycle`.  This is the contract by which one
may abstract the other: `RtspServer` does not look at what a session's threads do,
`StreamSession` does not count slots.

### AppProcess

Three threads, `"https"`, `"config"`, `"main"`, call one object.  `Requests` are the calls
that users and clients may make.

| Code | Model |
|---|---|
| `_app_id`, `placebo`, `_process`, `_process_handle` | `appId`, `placebo`, `child`, `grouped` |
| `_undo_begin`, `_undo_it` | `undoOf` (whose list), `undoIt` (the distance) |
| the host's settings that prep commands change | `effect[c]`: how often a command was run, less its undo |
| `execute` (48-136) | `Execute`, `Setup`, `PrepRun`, `PrepNext`, `PrepFails`, `PrepDone`, `Start`, `StartFails` |
| `terminate` (146-185) | `CallTerminate`, `Terminate` with `ProcessEnd`, `UndoRun`, `UndoNext`, `Terminated`, `Abort` |
| /launch, /cancel, closeApp, `refresh`, `~proc_t` | `Launch`, `LaunchRefused`, `Cancel`, `CloseApp`, `Refresh`, `Exit` |

To run a command and to move the iterator are two steps, because a command takes as
long as it likes.  Overlapping calls are a data race; the model interleaves their
steps, and lets an iterator that leaves its list end the program (`Abort`).
`disturbed` is a history variable: calls have overlapped, or `refresh()` has
dropped an application.  The properties that hold are about behaviours in which that
has not happened; `app_slate` shows one in which it has.

### ThreadPool

| Code | Model |
|---|---|
| `_tasks`, `_timer_tasks` (the next one last) | `tasks`, `timers`: a sequence of tasks, one of pairs of a time and a task |
| `steady_clock::now()` | `now`, which `Tick` advances up to `MaxTime` |
| `_continue` | `cont` |
| a worker in `_main` (82-119) | `pc[w]`, `current[w]` (its task), `deadline[w]` (the time up to which it waits, or `None`) |
| `_lock` and `_cv` of thread_pool.h | a worker has the lock at the labels `Holding`; `notified` are those that have been woken |
| `push`, `pushDelayed`, `cancel`, `stop` | `Push`, `PushDelayed`, `Cancel`, `Stop` |
| the loop (90-115) | `Loop`, `Pop`, `Ran`, `Lock`, `LookAgain`, `Wait`, `WakeUp` |

`pop()`, `ready()` and `next()` are steps of their own, each under `_task_mutex`, so that a
`cancel()`, which takes no other lock, comes between any two of them.  `notify_one`
wakes any worker that sleeps; a worker may also wake for no reason.  `pop()` prefers
the ready tasks, so that timers may starve while tasks keep being pushed: `IsPrompt` says
that something that can begin does, and not of each timer that it does.

### TaskPromise

Pushed tasks begin in the order of pushes and ahead of timers, timers not before their
time and the earliest first, each with one worker and once for each push; a timer may be
cancelled until it begins; workers leave when they were told to and nothing can begin.  The promise knows neither locks nor sleep.  `ThreadPool` defines the
mapping (the promise's queue is `tasks`; the set of waiting timers is the range of
`timers`; what runs is `current` at the label where it runs) and checks `KeepsPromise`.

### InputDevice

The one worker of the pool handles packets and runs timers; the thread that joins a
session calls `reset()`.

| Code | Model |
|---|---|
| `mouse_press`, `key_press` | `mousePress`; `keyPress` and `keySeen`, the keys with an entry |
| what was passed to `platf::button_mouse`, `platf::keyboard` | `hostButtons`, `hostKeys` |
| the timers of the pool that belong to the input | `timer[i]`: what is pending at address `i` |
| `key_press_repeat_id`, `mouse_left_button_timeout` | `repeatId`, `timeout[s]` |
| a mouse move | `MoveRel`, `MoveAbs` |
| a button packet (297-359) | `Press`, `ClickRight`, `ReleaseNow`, `ReleaseLater` |
| a keyboard packet (420-457) | `KeyPress`, `KeyIgnored`, `KeyRelease` |
| the two timers | `ReleaseTimer`, `RepeatKey` |
| `reset()` (638-656) | `ReadTimer` and `CancelTimer` for each address, then `ResetAll`, the task it pushes |

An address is free again as soon as its timer has run or was cancelled, and the
variables that hold it are not reset with it, so a later `cancel()` may hit another
timer.  `reset()` reads an address and cancels it in two steps, the first without a
lock.  `cut` is a history variable: the last delayed release was cancelled.

Abstractions: `map_keycode` is a function `Binding`; the shortcut flags of a session are
left out, so that a key may be taken for a shortcut at any time; times are left out, so
that a pending timer may run at any time; the repeat delay is positive, as it is by
default.

### RtspMessages

A request is a record of sizes; `Arrives(n)` brings n more bytes of it.

| Code | Model |
|---|---|
| `socket_t::begin`, `crlf`, the handler that waits | `begin`, `crlf`, `pc` |
| `handle_read` (153-193), `handle_payload` (109-151) | `HandleRead`, `HandlePayload`, `MorePayload`, `ReadFails` |
| `handle_msg` (256-266) and the answers of the commands (439-547) | `HandleMsg` with the status in `answer` |

`handle_read` looks for the delimiter only in what has just arrived: `std::max(begin - 4,
begin)` (173) is always `begin`.  A delimiter that comes in two pieces is not found (`split`),
and the client waits, or is answered 400 when the buffer is full.  `RequestsAreHandledWhole` is
about the others.

### PingRegistry

| Code | Model |
|---|---|
| `audio_video_connections` | `connections`: entries by number, in the order in which they were added; `join()` leaves gaps |
| `session_t::video.peer`, `audio.peer` | `peer` |
| `peer_to_video_session`, `peer_to_audio_session` of `recvThread` | `registry[k][a]`: the session whose queue is registered |
| the queues of pings | `messages[s][k]` |
| `start()`, `stop()`, `join()` with the removal (1336-1347) | `Start`, `Stop`, `Join` |
| `recv_ping` (1194-1261) | `Register`, `Claim`, `Drop`, `PingTimeout`, `Unregister` |
| `recvThread` (798-884) | `Ping` |
| the thread after `recv_ping` | `StreamEnds` |

`crowded` is set when a session starts while another of its address has not settled, that is
has a thread in or before `recv_ping`, whose entries and registration it may then take.
The scan of the connections stops at an entry with the sender's port even if the
address differs; a ping that is dropped restarts the wait (`continue` does not compute the
time again); two sessions that share entries make `join()` remove other than two, which
ends all broadcasts.

### ControlServer

`link[c]` is the ENet connection of a client, `port[s]` the client whose port is in the
session.  `Connect`, `Receive`, `Disconnect` are the callbacks of `iterate` with `get_session`
(348-426), `Receive` with the checks of each type (591-696); `Rumble`, `Release`, `SendRumble`
the rumble messages, which `Release` must not outlive; `End` the end of the control thread.  A message of
a client is encrypted with the key of its own session, which `Verifies` stands for.  `crowded`: two
sessions of one address were unclaimed at once; a connection is then given to the
last of them in the map, and if the key does not fit it is closed.

### Packetizer

`Encode` is what the encoders raise, `SendVideo` and `SendAudio` a turn of the broadcast
threads (886-1105), `Join` the end of a session, `EndAll` that of the broadcast.  What a frame becomes is
computed by operators: `Inserted` (bytes with the headers of slices), `Aligned` and `Blocks` (how
it is cut), `Encoded` (data and parity shards, percentage), `Sent` (the packets' numbers).
`Counted` adds up the shards of the first blocks, for the number that the next one starts with.
`FramesAreWhole` reads the blocks as a client does, and expects every byte once; `ParityIsKnown` computes
the number of parity shards from the percentage that it was told.  The code checks no field, so it says for whom
that fails: ten bits do not hold the shards of frames of more than 3 * 1023 packets, and only of those; a client that
demands more than two packets of parity (`Demanding`) may be told a percentage that eight bits do not hold, or, from
101 packets in a block on, one that is rounded so far down that the client expects less parity than there is
(`Raised`; 468).  All three happen in the run.

### VideoCapture

| Code | Model |
|---|---|
| a call of `capture_async`, the encode loop in `encode_run` | `pc[s]`, `told`, `inUse[s]` (the image it converts) |
| `capture_ctx_t::images`, `stop()` on them | `slot[s]`, `stopped` |
| `capture_thread_async`, a `shared_t`; `end_capture_async` under its lock | `refs`, `joiner` |
| `capture_ctx_queue`, `capture_ctxs` | `queue`, `running`, `ctxs` |
| `captureThread` (565-718) | `cap` and the steps of `CaptureStep` |
| `imgs` and the image that is captured next | `given`, `NextImage`, which waits while the image is held |
| `disp`, `display_wp`, the local `display` of a session | `disp`, `wp`, `has[s]`: numbers of displays, 0 for a null pointer |
| `reinit_event` | `reinit` |
| the peek at it (1319), `expired()` (1327) and `lock()` (1331) | `PassReinit`, `LookForDisplay`, `LockDisplay` |
| `reset_display` (552-563), `display_wp = disp` (695) | `CloseDisplay`, `ReopenDisplay` |

A session is a call: it takes a reference (`TakeRef`), raises a context, encodes while images come,
and leaves (`Release`, `Join` for the last, `Guard`).  `LoseDisplay` is the display's answer `reinit`, up to
`MaxReinits` times.  An image that an encoder holds over a reinit becomes `Old`.  (Some images of the Windows
display refer to their display, but the encoders that use them take the synchronous path; those of this path do not.)

A session looks at `reinit_event`, asks whether there is a display, and takes it, in three steps.  Between the first
and the third, `reinit_event` may be raised and the capture thread may see that nobody has the display: `slipped` is
the history of the sessions that were past the first step then, and the run `capture_reinit` shows one of them with
an old display.  It leaves at its next look in `encode_run`, so `WaitsEnd` holds all the same.  Between the second and the third the display may
expire, although both are under the lock of `display_wp`, because the capture thread resets its own pointer
without it; the session then uses a null pointer.  `Locked` keeps `display_wp` from being assigned in
between.  `cap = "undefined"` is this null pointer, or `capture_ctx_queue` was stopped when the thread pops its first
context (603), or between `peek()` and `pop()` of a further one (643).

### VideoCaptureSync

One thread opens the display, makes a session for each context, and for each image visits
all of them (`Visit`), those that are done being erased.  `Queued` clears a full queue, and the contexts in
it are `lost`, as are those of sessions that come after the thread has stopped its queue: they
wait in `view()` for ever (1375).  `WaitersAreLetGo` is about all others.

### EncoderProbe

`step` walks through `validate_encoder` (1453-1561) for the encoder at the head of `left`; `Validate`
is `validate_config`, whose answer is any, but the same for the same settings (`answers`); `Opened` is
what `make_session` derives from the settings and the capabilities found so far, so that the
properties compare what a client will get with what was tried: `OfferedWorks`,
`SlicesWork`, `HeadersAreSeen`, `NothingIsWasted`.  In `FirstSlice` the `int` of
`validate_config` becomes a `bool` (1500), so that -1 counts as supported, and 0, a success without flags, does not.
The software encoder is given `min_threads` slices at least (`SlicesOf`; 906), unless it lost them by that 0: clients then
get one slice, where the tests before had more.  `Resliced` excludes this, for H.264.

### AudioCapture

`pc[s]` is the progress of `capture()` (120-210 of audio.cpp): `Ref`, `TakeFlag`, `SetSink`, `Microphone`,
`CaptureEnds`, `JoinEncoder`, `View`, `Release`; `Construct` and `RestoreSink`, `Unload` are
`start_audio_control` and the destruction of the context under the lock of `shared_t`.  `default` and
`loaded` are PulseAudio's state, which outlives a crash of the program (`Crash`).  `excused` says why the
host may be without its sink: a call failed, or it was not known, or the crash.

### WasapiAudio

`SinkInfo`, `SetSink`, `Restore` move the default device of the roles, of which each may fail;
`Record`, `Ask`, `Fill`, `Close` carry numbered samples from the engine into frames.  Samples follow on
one another, so that a packet that waits in the engine is given by the number of its last
sample, `taken` is the last that was read and `played` the last that a session got; only the buffer
between the two, which may be cut (`Copied`), has all its numbers.  `Names`,
`MonoTo`, `StereoTo`, `ToStereo` and `Mix` say for every pair of layouts which input channels an
output channel is made of, and `ChannelsAreMixed` compares it with its mirror image.  The
exceptions it lists are the code's: 5.1 to 7.1 takes both back channels for the right
side, and 7.1 to 5.1 reads its own output.

### SafeQueue, Mail

`SafeQueue` is `event_t` (limit 1) and `queue_t`: `Raise` adds, or clears a queue that is full
and adds; `Call`, `Give`, `GiveUp`, `Sleep`, `Timeout`, `WakeUp` are the calls that wait.  `Mail` is
`mail_raw_t`: a post is shared by who asks for its name and erased by the last one's
destructor, which runs after the post has expired (`dying`), so that another post of that name may
be created in between, and `cleanup()` erases the first expired entry that it finds, of any name.

### Gamepads, VigemPads

In `Gamepads` a packet is a `task`: `Receive` computes what has changed, `Unplug` and `Plug` free and give
ids one by one (`alloc_gamepad`, which may fail half-way), `Press` passes the state on.  `BackTimeout` is the timer
that makes HOME of BACK; `Destroy` and `FreeTask` the end of a session.  `TakeNote`, `StartPoll`,
`Iterate` are the rumble thread with what it knows of the devices; applications `Upload` effects.
`leaked`: the failure of one of several controllers loses ids; `undefined`: a timer that
`free_gamepad` does not cancel uses `gamepads[-1]`.  `VigemPads`: a report of the bus (`Notify`) waits in the task
pool as an address of a target; when it is worked on (`Rumble`) the address may be another target's.

### Pairing

| Code | Model |
|---|---|
| `map_id_sess`, `map_id_client`, the state file, `cert_chain`, `add_cert` | `sess`, `store`, `file`, `chain`, `added` |
| getservercert, `pin()`, clientchallenge, serverchallengeresp, clientpairingsecret | `GetServerCert`, `Pin`, `Challenge`, `ChallengeResponse`, `PairingSecret` |
| the verification of a connection | `Connect` |
| `erase_all_clients`, the start of the program | `UnpairAll`, `Restart` |

`phase` is how far the client has come; it stops when an answer is wrong, or at any time (`GiveUp`).  Keys, challenges and
hashes are represented by whose PIN, salt and certificate they were made of.  `Restart` may meet a state
file that was half written (`Torn`), and then `unsaved` stays: a torn file is never
replaced, so that later pairings are lost at the next start.

### SavedFiles, StateFile

`SavedFiles`: `Show` is a page that loads the list, `AddApp`, `ReplaceApp`, `DeleteApp` save by index with the
`refresh()` that follows, `SaveConfig` replaces the options, `Start` reads the command line and the file.
Options have one of a few values that the parser tells apart: without a '#', cut by one, a list that does not end, out of range.
`StateFile`: reading, opening (which truncates) and writing are steps of their own.  Two
overlapping saves lose one writer's part (`spoiled`), and a file that is not JSON is never replaced.

### Program

`pc` is `main()`: `Prepare`, `Spawn`, `Peek`, `RtpEnds`, `JoinAll`, `Unmap`, `Unpublish`, `Guard`, `Enter`.  `Signal` raises the
shutdown event and pushes a timer whose task aborts; `Guard` cancels the last of them only.  UPnP: `Discover`,
`MapPort`, `RefusePort`; publishing: `StartLoop`, the states of the host's name and of the group of
entries (`CreateServices`, `EntryCollides`, `EntryEstablished`), `Ask` and `Answer` for Windows.

### X11Capture, DmabufCapture, DuplicationCapture

`X11Capture`: with shared memory `Refresh`, `PushDelayed`, `Assign`, `EndTask` are the steps of the task that pushes
itself; `Destroy` cancels `refresh_task_id` until a call has hit.  Without it `RefreshPlain` and
`GetImage` are apart, and a screen that shrinks between them gives no image.
`DmabufCapture`: descriptors are numbers of which the lowest free one is given out, as by open(2), so that
closing one twice hits another's.  `MonitorsUpTo` and `Names` are the list of the outputs that are monitors, made
one by one; `Before`, `At` and `Found` the count by which a display is opened.  `SnapshotVram`, `SnapshotRam` for a card; `Listen`, `Ready`, `Cancel`, `Timeout`,
`AnsweredVram`, `AnsweredRam` for a compositor, whose answers come when they like.  Two deviations are history: `stale` (an
image was told descriptors that are closed, when the size had changed) and `undefined` (a
plane that is off; no monitor at all).
`DuplicationCapture`: `news` is what DXGI will tell once; `disp` what the display knows;
`shown` the image that was delivered.  `Skip` to `Read` are the part of a pointer that the CPU draws, in
one dimension; `Draw`, `DrawnUpTo` and `CursorImage` the texture that is made of a monochrome one, pixel by
pixel.  They are compared with what they should be in `PointerIsClipped` and `InverseIsOutlined`.
`column` of the code does not number the columns but says whether one is not the first (153), and so does `Column`;
the test for the last column then never stops a pixel of a pointer wider than two.  The outline of one
that inverts goes on at the begin of the next line, where it is undone when that pixel's turn
comes; what the last pixel would set behind the image is not in the model.


## 3. Runs

### Passing

| Run | Bounds | Asks |
|---|---|---|
| `rtsp_safety` | 2 slots, 3 launches | are slots, launch event and counter consistent under both threads |
| `rtsp_liveness` | 1 slot, 2 launches | is what stops reaped, what is asked answered, and does the thread end |
| `session` | 2 sessions, one kind of thread | does anything use a session or the context after it has gone, and is what stops freed |
| `app_capture` | 3 applications, 3 launches; 2 sessions, 2 images, 1 change of the display | are prep commands undone exactly and do calls return; is an image or a display replaced while it is used, and does anyone wait for ever |
| `pool` | 3 tasks, 2 workers | is each task run once, in time and in order, and is no wake-up lost |
| `input` | 2 clients (one leaves), 2 keys, 2 timers | is what the host holds what is recorded as pressed |
| `ping` | 3 clients, two of one address, 2 sessions, 1 ping in each queue | does a ping reach its stream, and does the table hold what `join()` removes |
| `parts` | the values in `MCParts`, `parts.cfg` and `Parts` | does each of the components keep its promise (19 instances) |

`rtsp_safety`: two slots and three launches are the least with which one session can
be reaped, another start and a third be launched at once, the slots can be full and a
slot be used again.
- `SlotsHoldSessions`, `JoinedSlotIsStable`, `LaunchHasOneOwner`: the lock of the slots
  and the event do what they are for, although both threads scan, join and pop.
- `SlotBooks`: `_slot_count` is exactly the channels that are not charged to a pending
  or answered launch, a session, a refused or overwritten launch or a thread that is
  about to give one back, up to the updates that overlapping `++` and `--` lose.
  What may go wrong with the counter is thereby listed completely.
- `ImplementsLifecycle`: launches and sessions move one way.

`rtsp_liveness`: what is stopping is reaped (`StoppedSessionsAreReaped`), requests are answered,
and `rtpThread` ends after the shutdown event (`ThreadsGoOn`), unless `rtpThread` waits for ever in `launch_event.pop()`
(the run `rtsp_reap` shows that it can).  One slot and two launches are enough for that
wait, for a full server, and for a slot that is used twice.

`session`: two sessions that overlap or follow one another are the least with
which one session is the first, the last and neither for the broadcast context.  One
kind of thread is enough, since the two differ in nothing here.
- `ServedSessionsAreAlive`: the control thread never follows a pointer to a session that
  has been freed.
- `BroadcastOutlivesSessions`: sessions have the context, and it goes with the last.
- `ThreadsEndBeforeTheSession`: no thread outlives its session.
- `NotStoppedWhileStarting`: no timeout, packet or thread makes a session STOPPING
  before `start()` stores RUNNING, which would hide it.
- `ImplementsLifecycle`: as above.
- `StoppedSessionsAreFreed`, `ToldSessionsEnd`: whatever stops a session, it is freed, and
  what the control thread told before it ended stops, unless a session was mapped after
  the control thread had left its loop: `join()` then waits for a `controlEnd` that no
  thread will raise (`Orphan`).

`app_capture` holds two components that do not act on each other; a behaviour is one of
the part that its initial state names.  The applications are a placebo without prep
commands (Desktop), one with one, and an application with a process and two commands; three
launches let each follow each.
- `UndoMatchesDo`: the commands in force are the first ones of one application, once
  each, whichever command fails or call is made at whichever label.
- `RunningAppIsPrepared`, `NothingIsLeftBehind`: what runs is recorded and prepared;
  what fails or is terminated leaves nothing.
- `CallsReturn`: `execute()` and `terminate()` return, whatever fails.

Of video capture, two sessions are the least with which one arrives while the thread ends with the
other's leaving; two images let the thread want one that is held; one change of the display is enough for a session
that has the old one while another has the new.
- `CaptureServesItsSessions`: the thread runs as long as somebody refers to it and for no
  longer, and contexts that wait are known to it.
- `DisplayIsUsedAlone`: the image that is captured into is held by no encoder, and no session has
  a display that is being replaced or was, but those that had passed `reinit_event` when it was raised (`slipped`).
- `WaitsEnd`: who is told to stop is done in the end, and the wait for the display's users ends, also for
  the users that slipped past `reinit_event`.

`pool`: three tasks and two workers are the least with which one worker sleeps for a
timer, one runs a task and a third task decides who is woken.  `MaxTime` bounds the
clock and `Delays` the choice of delays, so that two timers may be due in either order
or at once.
- `SleepIsSafe`: whenever there is something to do, some worker is on its way to it or
  will be woken in time, although the queue has changed since it was looked at.
- `KeepsPromise`: the pool implements `TaskPromise`, so that the order which `pushDelayed` and
  erasure keep is the one `pop`, `ready` and `next` rely on.
- `IsPrompt`: while a worker is free and a task or a timer could begin, something begins
  in the end, and after `stop()` a worker for which nothing is left leaves.

`input`: with two clients one may press what the other has let go, and one stays while
the other leaves (`Leaving` bounds the calls of `reset()`); one key is bound to the
other, so that a key and its code differ; with two addresses both kinds of timer are
pending at once, and either may take the address of the other.
- `WhatIsHeldIsKnown`: for the buttons that `passthrough()` records (`Recorded`; 306), the host and `mouse_press` differ only in a left button whose
  release is pending or was cancelled, and no key stays down on the host but a pressed one,
  except where `reset()` releases keys by their own codes rather than by those they are bound to.
- `OneRepeat`: one key repeats, and `key_press_repeat_id` is its timer, whatever stale
  addresses were cancelled before.
- `LeftIsReleased`: what was let go is released, unless it is pressed again or the
  release was cancelled.

`ping`: two clients behind one address and one elsewhere that uses a port of the first, two
of which have sessions (`MaxStarts`), while all three may ping at any time; one ping waits in
a queue (`MaxPings`), since a second is handled like it.
- `ConnectionsAreOfSessions`: two entries for each live session (`EntriesMatch`), with the ports that
  sessions have claimed, none of them by two sessions of one address (`ClaimedOnce`), and
  `join()` finds the two of its session, so that no broadcast ends; all of it unless sessions were `crowded`.
- `PingsReachTheirStream`: the thread that waits is the one that is registered.
- `StoppingSessionsAreJoined`: when clients fall silent, sessions that stop are joined,
  although `recv_ping` does not look at the shutdown event.

`parts` holds the components whose state no other module shares, each with the bounds that
`MCParts` and `parts.cfg` give to the constants of `Parts`,
with the reason: mostly two or three clients, threads or images, so that one
may be first, last and between.  The properties are conjunctions over the parts; what each
conjunct says is in its module.

| Property | Parts and what may go wrong |
|---|---|
| `ClientsControlTheirSessions` | `ControlServer`: three clients, two of one address; a message acts for another's session, a session gets two connections, rumble has no peer.  `RtspMessages`: requests complete, cut short, just fitting and too large; one is handled before all of it is there, or never |
| `SinksGoWithTheirSessions` | `AudioCapture`: three sessions, two sinks, a crash; the host's sink is not restored.  `WasapiAudio`: a frame of three samples, a buffer of four; samples are lost or repeated, sides mixed up |
| `SyncSessionsAreServed` | `VideoCaptureSync`: three sessions, two places in the queue; a context is forgotten, or used after its session went on |
| `GamepadsAreTheirOwn` | `Gamepads`: two controllers of one or of two clients, two ids; ids are shared, the host shows what nobody holds, the rumble thread uses a device that was freed.  `VigemPads`: two places, two targets whose addresses are used again; rumble reaches another client |
| `OffersWereProbed` | `EncoderProbe`: a table of three encoders with different gaps, any answers; an encoder is offered with settings that were not tried |
| `PairedClientsAreKnown` | `Pairing`: two clients of one uniqueid, restarts with a whole and a torn file; a paired client is forgotten |
| `MediaIsWhole` | `Packetizer`: frames just below and above each limit, and beyond ten bits, three percentages, two demands for parity; a client cannot put them together.  `X11Capture`, `DmabufCapture`, `DuplicationCapture`: three displays one after the other, sizes that change; a task, descriptor or frame outlives its display, the pointer is drawn where it is not |
| `WhatIsSavedIsKept` | `SavedFiles`: two pages, three applications of which one cannot be read; `StateFile`: two users, two devices, four saves; what was saved is not in effect, or takes something else with it |
| `ProgramEndsWhole` | `Program`: both systems, two signals, two ports, names that are taken; a server, a mapping or an entry stays |
| `MailIsDelivered` | `SafeQueue`: limits of one and two, two waiters, four values; `Mail`: three users, two names, four posts; a waiter sleeps over a value, a post is found twice or lost |

`MaxEffect` bounds how far repeated runs of one command are counted (once each way is
what the properties tell apart); `Launches`, `Sessions`, `MaxLaunches` and the constants
named `Max...` bound the length of a history.  Launch identities are symmetric in the safety
run.  Deadlock is checked for the RTSP server, which never stops for good in the
model (the HTTPS thread may always be asked).  It is not for the others: there a bound is
used up, `ios` has been stopped, the program has aborted or ended, the workers have ended
after `stop()`, or the sessions have left.

### Violations

Each of these runs checks one sentence of a comment, and TLC shows a
behaviour of the code that contradicts it.

| Run | Sentence | What happens |
|---|---|---|
| `rtsp_reap` | rtsp.cpp:715 all stopped sessions are cleaned up (`AllStoppedSessionsAreReaped`) | `rtpThread` waits in `pop()` for an event that `clear()` removed |
| `app_slate` | process.cpp:62 a clean slate (`StartsFromCleanSlate`) | `refresh()` has forgotten the application that runs |
| `capture_reinit` | video.cpp:677 the other references to the display are destroyed (`OldDisplayIsDestroyed`) | a session that found `reinit_event` lowered takes the old display after they were counted |
| `gamepads_rumble` | platform/linux/input.cpp:790 an upload must be answered (`UploadsAreAnswered`) | the thread looks at `revents` of a copy that poll() has not filled |

The models contain more behaviours that a reader of the code may not expect, to which
no run is devoted.

*Launches and sessions.*  A launch event that is pending but older than ten seconds is
overwritten, and its slot stays charged, as does that of an ANNOUNCE refused after the `pop` (two
categories of `SlotBooks`; rtsp.cpp:381 says that the count is up to date); `clear()` tests
`raised_timeout` and then pops, so that it may discard an event raised in between; the
control thread may read `pingTimeout` of a session that `start()` has put in the map but not timed
yet, and stop it at once; a client that falls silent is not dropped after the control
thread has ended with an earlier application.

*Applications.*  Overlapping calls of `terminate()` undo a command twice, and one during
`execute()` clears `_app_id`, so that `running()` denies the process that is started;
`!running()` is false for -1, so that the group is not reset after an exit (process.cpp:50
says it is); /launch is refused while an application runs (README.md:198 says that it
is terminated); an application that exits by itself is not undone, by a /cancel either, before
the next launch or the end of the program (README.md:192 says that undo is run after it
has terminated).

*Input.*  `reset()` may cancel a delayed release whose button is recorded as released
already, so that the button stays down (the disjunct `cut` of `WhatIsHeldIsKnown`), and a key that is
bound to another is released by `reset()` under the wrong code.  `mouse_press` has five places: a fifth button (X2), or any other
number, is passed to the host without a record (306), is not debounced, and `reset()` never releases it; it is the button `"extra"` of the model, of which
nothing is promised.  When one of several
controllers cannot be allocated, ids are lost or all controllers blocked; a BACK timer that is
not cancelled uses `gamepads[-1]`; on Windows the rumble queue of a place is kept after its
controller has gone.

*Capture.*  "Wait for the display to be ready" (video.cpp:1323) is not enough: the display may expire between `expired()`
and `lock()`, and a null pointer is used (`LockDisplay`).  A full queue of contexts is cleared, and the sessions in it wait for ever, as does
one that raises its context after the synchronous thread has stopped its queue; an encoder
that cannot be started is started again without end; a card's plane that is off, or a
compositor without monitors, ends in a null pointer or an empty vector; XGetImage after the
screen has shrunk gives no image; a captured monitor that moves while the screen keeps its
size is still captured where it was; on Windows a pointer that was hidden stays in the image (memory)
or until it moves (textures), and one that is cut at the left loses columns when it is
monochrome.  Two conversions of channels on Windows are wrong: 5.1 to 7.1 takes the back channels
for the right side, 7.1 to 5.1 reads its own output.

*Packets.*  A packet of a session that has been joined may still be in the shared queue
and is sent by a pointer to what has been freed (stream.cpp:895, `undefined`).  A
minimum of three parity packets or more and one data shard overflow the eight bits of the
percentage, and one with more than a hundred is rounded down, so that the client expects less parity than it is
sent; frames of more than 1023 packets in a block overflow ten bits.  A software encoder whose first packet of H.264 had neither
of the headers that are looked for is opened for clients with one slice, although it was tried with `min_threads`.

*Pairing and files.*  A client that gives up leaves its session, whose certificate and key the next one of
its uniqueid finds; a wrong hash erases the session and then uses it; a state file that
is torn is never replaced; two saves of it that overlap lose one part, and `savePassword` answers
true although nothing was saved; saving an application that cannot be read is
answered with true too, and the list is empty after the next start.

*Start and end.*  Two interrupts during the start abort the program while it waits for a key; the
signal handler takes mutexes (main.cpp:233); mapped ports are not renewed; the Windows
service waits for an answer to a call that failed (publish.cpp:139).

### Fairness

Only what the operating system and the code's own timeouts guarantee.  Threads that
can run do (`WF` of their steps); a mutex that is released again and again is taken
in the end by one that waits (`SF` of the steps that take the lock of the slots or of
the map; these critical sections are short); `raised_timeout` passes;
`recv_ping` times out; `capture()` returns after its shutdown event; commands return.
The last two are the promises of the platform layers.  Clients, users, applications
and the HTTPS thread's clients owe nothing: no fairness on packets, pings, requests,
the end of an application or a failure.  Workers of the pool run, and the
tasks they run return; that they wake for no reason, and what clients push or cancel, is
owed by nobody, and the clock owes its ticks only up to `MaxTime`.  A delayed release
runs when it is due: packets arrive in finite number between two looks at the timers.
The order of `SF` matters in `StreamSession`:
`Reap("rtp", s)` is strongly fair because rtpThread calls `clear()` after each iteration,
while the HTTPS thread's `Reap` has none.

In `PingRegistry` the waiting threads run and their waits time out (ten seconds), and
`clear()` joins what stops; pings are owed by nobody, and the liveness property is about
behaviours in which they stop.  In `VideoCapture` the capture thread and the sessions' threads run
(`WF` of `CaptureStep`, of `SessionStep`); that a session is told, that the display changes or comes back
(`ReopenDisplay` may fail, and the thread tries again) is owed by nobody.  A key frame that cannot be
encoded (`KeyFrameFails`) is a failure like others, and not owed either.


## 4. Proofs

All theorems are of the form `Spec => []Inv` or `Spec => [][A]_v` or a refinement, for
every value of the constants under the assumptions of the modules (finite sets of
identities that do not contain `Nil`, at least one channel, prep commands given by a
function into the naturals).  Each rests on an inductive invariant `IInv` (the theorem `Invariance`); there is a
lemma per group of actions, with a step per action.

**RtspServerProofs.**  `IInv` adds to the invariants: what each label implies about the
lock (`Locking`), the slot that is being started (`Starting`) or joined (`Joining`), and
which labels each thread can be at (`Control`).  `SlotsHoldSessions` alone is not
inductive: that `AnnounceAccept` fills an empty slot and that `JoinAndReset` empties the
one its session is in need the thread's position to be within the slots and the lock
to be its own.  Proved: `TypeCorrect`, `SessionsAreInSlots`, `JoinIsExclusive`,
`LaunchesAreOwned`, `SettledLaunches`, `ImplementsSessionLifecycle`, and `SlotsAreAccounted`.  For the
last, `Books` says of each label which slot the thread owes or has taken for whom, and of a thread
between the load and the store of `_slot_count` what it will store; with the
library's theorems on cardinalities, the number of slots that are not free follows.  It holds
up to the updates that are lost when both threads are between load and store.

**StreamSessionProofs.**  `IInv` adds `OneJoinAtATime` (no session is
joined twice), `Work` (which thread works on the session that is
starting or leaving), `Progress` (what `life` says of `state` and the threads) and
`References` (who holds a reference; the control thread's map holds only sessions
that have been mapped and, while it runs, none whose `controlEnd` it has raised).  The
last is the reason why no pointer is stale: `join()` waits for `controlEnd`.  Proved:
`TypeCorrect`, `NoStaleSession`, `ContextOutlivesSessions`, `ThreadsEndFirst`,
`StartIsNotStopped`, `ImplementsSessionLifecycle`.

**AppCaptureProofs**, about `AppProcess`.  `IInv` adds, as long as nothing is disturbed, `Alone` (one thread
is inside `proc_t`), `Places` (what holds at each label) and `Quiet` (what holds when
no thread is inside).  Proved: `TypeCorrect`, `UndoIsExact`, `RunsPrepared`, `NothingLeft`,
for any applications with any number of prep commands.

**ThreadPoolProofs.**  `IInv` is `TypeOK`, `TimersSorted`, `SleepIsSafe`, `Control` (what a
worker's label implies of its task and its deadline) and `Distinct` (a task is in one
queue or with one worker).  Proved: `TypeCorrect`, `StaysSorted`, `NoLostWakeUp` and the
refinement `ImplementsPromise`, for any number of workers and tasks.  The sequences are
handled by the lemmas at the start of the module: the least of an interval, and what inserting into and
removing from a queue keep.

**InputDeviceProofs.**  The type invariant and the two safety properties are inductive
together; that a timer is cancelled whose address has been used again is harmless to
`OneRepeat` because `repeatId` is overwritten by whoever pushes the next.  Proved:
`TypeCorrect`, `HeldIsKnown`, `RepeatsOnce`, for any clients, keys, bindings and
number of timers; of the buttons, for those that `passthrough()` records.

**PingRegistryProofs.**  That a waiting thread is the one registered rests on two facts:
who is registered is of that address and has not returned from `recv_ping` (`Owners`), and
of the sessions of an address one at most is not settled (`Alone`); a thread that
unregisters is of the session that is not settled, and no other of its address waits.  `Lives`
says that threads run only while their session lives.  The table of connections needs more,
for entries do not say whose they are: there is a `place` for each live session, at which
`start()` has put its two entries (`Placed`).  The places are apart and cover the table, those of a
session that is not settled come after those of its neighbours (`Ordered`), and the
ports in them are the session's, the second entry filled first (`Filled`).  Hence whatever `recv_ping` finds
unclaimed is its own session's (`ClaimTakesOwn`), the scan passes all ports of its neighbours, and
an entry that `join()` takes for its session's is (`JoinFindsItsEntries`): another's would have
a port that both have claimed, or both would be without one and not settled.  `PlacesCount` counts
the entries.  Proved: `PingsFindTheirStream`, `TableIsOfSessions`, for any clients, addresses and ports;
even the ports of one client for video and audio may be the same.

**AppCaptureProofs**, about `VideoCapture` as `MCVideoCapture` instantiates it.  `CaptureServes`: a context is
not forgotten because one thread belongs to all references (`ThreadIsOwned`) and its queue runs only while
somebody reads it (`ContextsAreKept`).  `DisplayAlone`: the first image is given to the display without
a look at who has it, which is right because the images are new then
(`ImagesAreNew`), and a display that is replaced is used by those only that had passed `reinit_event`, because that is raised
before its users are counted (`ReinitIsRaised`); a display that a session has is the one that `display_wp` refers to, and is
opened (`DisplaysAreOpen`).  For any sessions, images and changes of the display.

**PartsProofs.**  A step of `Parts` is one of the part that runs (`StepOfAPart`), so that each part has three
lemmas: its `IInv` holds at the start, is kept by its steps, and therefore always.  `IInv` is in the part's own
module, below its properties, and adds to them what they need:
- `ControlOfSessions`.  `ControlServer`: a connection claims one session once, and while nobody has
  crowded an address, a session that may still be claimed can be by its own client only (`ClaimsAreClear`).
  `RtspMessages`: what has arrived is counted from the begin of the request, and the search may begin before the
  delimiter unless that came in two pieces (`PiecesAreCounted`).
- `SyncServes`.  `VideoCaptureSync`: a context is in the queue or in the list, and the queue runs as long as
  the thread reads it (`ContextsAreKept`).
- `MailDelivers`.  `SafeQueue`: what a waiter has looked at under the lock.  `Mail`: an entry has the last post
  of its name (`EntriesAreNamed`); that there are as many destructors as expired entries is a
  statement on cardinalities, with one case for whose entry `cleanup()` meets first.
- `SavesAreKept`.  `SavedFiles`: what a page has saved last is in the file, with one line for an option.
  `StateFile`: of two threads that replace the file, it is said what it will be (`Coming`), unless they
  have spoiled it.
- `EndsWhole`.  `Program`: what is announced is settled once `main()` has taken it back
  (`AnnouncementsSettle`), the last timer is the one that is remembered, and the entry's name was free.
- `PairedStayKnown`.  `Pairing`: while nobody has disturbed another, a session is for one device
  (`SessionsAreTheirs`); certificates in sessions, store and file are of the devices of that id
  (`CertsAreOfDevices`).
- `SinksGo`.  `AudioCapture`: who destroys the context is the only one that has it (`EndsAlone`), and
  another default sink is on record until it is restored (`ChangeIsOnRecord`).
  `WasapiAudio`: packets follow on what was read (`PacketsFollow`), and the buffer, twice the larger of frame
  and engine, has room for all that waits, unless more comes while it is read (`ThereIsRoom`): that is why
  samples are cut only then, for any sizes of frames, packets and engine.  The ten conversions of
  channels are finite sets, each compared with its mirror image (`Mixed`).
- `OffersAreProbed`.  `EncoderProbe`: at each step of the probe, which capabilities are decided, and what the
  encoder has answered for each of them (`DecidedWorks`, `RangeWorks`, `SlicesTried`); while
  a codec is tested it has all flags (`TestsAreRecorded`), and there is always a rate with which it can be opened
  (`RatesAreThere`); what was tried with `SlicesOf` slices is what clients get, since that flag is only lost as `Resliced` says
  (`SlicesStay`).  For any table of encoders, any answers and any `min_threads`.
- `PadsAreTheirOwn`.  `Gamepads`: an id that is taken has one of three fates, owned, about to be freed or lost, and a
  device one id (`IdsHaveOneFate`).  The notes of the rumble thread are a path from the devices it
  knows to those that exist, one at a time (`NotesLeadThere`), so that a note of a device it knows is always
  of its end: that is why `broadcastRumble` may remove it whatever the note says, as long as no note is
  dropped.  `VigemPads`: a report that waits names the target of its controller, or one
  that is gone, or its address was used again (`ReportsAreOfTheirs`).  One family of lemmas, for any set of
  controllers, serves both instances of `Gamepads`.

**MediaProofs.**  The other four parts of `Parts`, laid out in the same way; `MediaStaysWhole` is about all of them.
- `PacketsStayWhole`.  `Packetizer`: that a frame is whole is shown of every size at once.  A frame is one block
  of at most 90 packets, or three of which the first two are as long as each other and end with a packet; that the third is not
  empty, and that none has more shards than ten bits can count unless the frame has more than 3 * 1023 packets, follows from the rounding in `Aligned` (`PacketsCut`).  The parity is what the told percentage
  gives, also when the minimum was taken instead (`PacketsEncoded`), except where `ParityIsKnown` says; for any minimum.  `FramesWereSent` says
  that a session's last frame is one of these, whose successor's number is `lowseq`; `ShardsAreNew`, that the slots below
  the next packet's are of the block that is being filled.  At 2^16 a block does not straddle, which is where
  `AudioSeqs % 4 = 0` comes in.
- The screen.  `X11Capture`: an open display with shared memory has one refresh task, which waits, or runs and has pushed the
  next one or not (`OneRefreshes`), and `refreshId` is its address unless it is about to say so; nobody
  else's task has that address, since addresses in use differ (`AddressesDiffer`).  That there is always another address is counted
  (`TasksAreCounted`).  So the destructor cancels its own task, and a task never finds its display gone.
- The frames.  `DmabufCapture`: what is open has an owner and what is owned is open and owned once (`OpenAreOwned`, `OwnedAreOpen`),
  by images and the frame that is kept; as these are fewer than the descriptors, there is one for the next frame
  (`DmabufFresh`).  `AnswersAreKept` is why an image takes over a frame that is there.  That
  `kms_display_names()` and `init()` count alike is a statement on the list `Names`, a recursion, and the sets `Before`: the list is the
  function that gives each place its monitor (`NamesAreOfMonitors`), and each place has one (`MonitorsHavePlaces`).
- The desktop.  `DuplicationCapture`: what a display has been told is what there is, unless DXGI will still tell it
  (`KnownIsCurrent`), and clients have seen it, unless it was no reason for an image (`ShownFollows`).
  Clipping is arithmetic (`PointerClipped`).  For the pointer's texture there is a closed form
  of what is drawn after n pixels, in which the pixels to come may still be wrong (`PixelsDrawn`); none is to come after the last one.

A recursion over data cannot be unfolded by the provers, but it need not be: the closed form is shown to satisfy the equation that
defines the recursive function, and any two functions that do are equal, since there would be a least number at
which they differ (`LeastOfSome`).  `Counted`, `MonitorsUpTo` and `DrawnUpTo` are reasoned about like that.

The assumptions on the constants are those that the code or the form of the data gives: buffers and queues have a
place, a value that means "none" is not one of the others, the command line has options that can be
parsed, and of the infinitely many names that a service may get one is free (`ProgramAssumption`).  There is memory for
another task, and a descriptor for every image and two more (`ScreenAssumption`, `DmabufAssumption`).  A pointer is
not left of the desktop by more than its width nor right of it by more than half of that (`DesktopAssumption`), which
is so of one that is shown, since the spot with which it points is on the desktop; further right `Delta` would be
negative, because what is beyond the right edge is subtracted twice.

`PacketsAssumption` says of frames and of the parity that clients demand only that they are naturals, and of the percentage that it is from 1 to 255, as
`config.cpp` (721) reads it.  A demand that is negative becomes very large where it is taken for a `size_t` (989), and then there is no
parity; it is left out.  The size of a packet is fixed (1024, and 16 for the header).  `ProbeAssumption`: `min_threads` is a natural (a negative one is never the larger), and the
software encoder is not one of those with a single slice (535).

These models were changed by their proofs: `PingRegistry` numbers the entries of its table, where a filtered
sequence, which is a recursion, could not be reasoned about; `Deleted` of `SavedFiles` said something only of an index within
the list, although a page may ask for one that another has made too large, and the loop of
`deleteApp` then removes nothing.  `WasapiAudio` numbers packets by their last sample since its proof, instead of adding up their sizes,
which is a recursion.  `Gamepads` gives a packet's remainder (`Onward`) as a record, and `VigemPads` its marked
reports: both say what they said before, as do the records and recursive functions that `Packetizer`, `X11Capture`,
`DmabufCapture` and `DuplicationCapture` have since theirs in the place of folds.

**Only model-checked:**
- All liveness properties: fairness and ENABLED are out of the prover's reach.


## 5. What is not modelled

Left out of the modelled components: what RTSP messages say beyond their sizes and command;
encryption keys and stream parameters that `alloc` copies; the contents of packets and of
parity; the restart of a session by /resume differs from /launch only in `execute()`; `int`
overflow of `_slot_count` (it moves between 0 and `channels`); the output file and the
environment of the commands; prep commands without an undo command (skipped by the
loop); detached commands, except that their error code may make a launch fail.  Of the pool:
`delay`, `pop(id)` and the `pushDelayed` that takes a pair, which nothing calls from
outside, the futures that `push` returns, and moving a pool.  Of the input: coordinates and
scrolling, and what a shortcut does.  Of the encoders: what FFmpeg does; an encoder accepts or
refuses, and images are converted or not.  Of the configuration: options of other kinds
than integers within a range, and what each means.  Of the platforms: conversions on the GPU (VA-API,
CUDA, OpenGL, shaders), NvFBC, `SendInput` and the virtual keyboard and mouse of uinput, which are calls of
drivers without state of the program's own.

Not modelled at all, with the reason in `PROJECT.json`: certificates and ciphers (calls of OpenSSL), addresses and the
ENet wrapper (pure functions; the hosts and peers of ENet are external to `ControlServer`), bitstream
headers (bytes rewritten by FFmpeg), the tools, vendored code and assets.

External, modelled from how the code uses it: a client that gives up, reports of ViGEm, a
crash, what encoders and the desktop produce, and answers of routers, Avahi and compositors.


## 6. Plan

| Next | What | Kind of check |
|---|---|---|
| `Sunshine` | `RtspServer`, `StreamSession` and `AppProcess` composed: a session has an application; `ios` is not stopped by a broadcast that ended normally | TLC |
| an event and a queue as promised to their users | implemented by `SafeQueue`, used by `VideoCapture` and `StreamSession` | refinement |

Bounds as so far: two sessions where they share something, three where one
may be first, last and between; each run within a few minutes.
