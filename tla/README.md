# A TLA+ development of the TiRTC example device

The repository holds three programs that drive the TiRTC SDK: a WeChat VoIP device for the
ESP32-C3, a larger one for the ESP32-S3, and a desktop device that streams media files. They are
small programs that live between an RTC library with its own threads, a network service and a
user. What is hard about them is the order of events: callbacks of one call arriving in the next,
a hangup racing an answer, an acknowledgement lost, a stop waiting for a callback.

This directory models them in TLA+, checks the models with TLC and proves safety properties of them
with TLAPS. Of the C3 it holds the control task and the platform connection, both with proofs; of the
S3 the call session and the signalling; of the desktop device the sessions, the streamer and its
H.264 reader. Twelve runs check 40 properties; four of the runs are counterexamples to what comments or
documents say. What is left out, and why, is at the end.

Paths are relative to the repository; `C3/` stands for `src/examples/wechat_voip_esp32c3/`,
`S3/` for `src/examples/wechat_voip_esp32s3/main/`.

## Inventory

### ESP32-C3 example

| component | state | operations | interacts by |
|---|---|---|---|
| call state, `C3/components/wechat_voip/voip_state.c` | stage, generation, direction, transport and answer flags | `call_begin` ... `call_finish` | called by the control task alone |
| control task, `voip.c`, `voip_protocol.c` | the call, its room and id, the connection and the one being closed, pending WHIP and HTTP request, deadlines, four remembered calls, the SDK's lifetime, profile and contacts | `signal`, `http_result`, `dispatch`, `rtc_dispatch`, `task` | two bounded queues and a failure flag in; SDK, platform and audio calls out |
| RTC adapter, `rtc_adapter.c` | the SDK lifecycle, the inputs of the WHIP in flight | callbacks, `rtc_start`, `rtc_connect`, `rtc_disconnect`, `rtc_stop` | turns SDK callbacks into queued events |
| platform, `demo_platform/` | MQTT session, binding, identity in flash, two queued requests, an epoch per time online | `platform_task`, `mqtt_event`, `process_request`, `provision`, `platform_request` | event bits and atomics between one task, the MQTT callbacks and the callers |
| sample audio, `sample_audio.c`, `opus_packet.c` | the connection it sends on, pacing | `sample_audio_begin`, `sample_audio_end`, its task | a mutex and a notification |
| application, `C3/main/` | button debouncing, console | - | `wechat_voip_command` |

Hard: SDK callbacks come before the code that waits for them has stored a handle; a WHIP cannot be
cancelled, so its result comes after the call is over; the disconnect is asynchronous and may fail;
HTTP responses come back a call later; the two queues can be full; MQTT redelivers; the SDK is
stopped in the middle of any of it. The platform task looks at bits that a callback changes while it
acts on them, is restarted between storing an identity and acknowledging it, and answers requests of
before an outage.

Correct when: a late result touches no later call; nothing of a call outlives it; every wait ends;
the microphone is on only in an active call; memory lent to the SDK is not freed under it; what the
service is told the device has accepted survives a restart; what the control task is told of the
connection is so; a request is answered as the device that made it.

### ESP32-S3 example

| component | state | hard about it |
|---|---|---|
| call session, `S3/tirtc/wechat_voip_session.c` | a session under a mutex (idle, ringing, connecting, awaiting, in call, closing), a work queue | callbacks, an answer task and the WebSocket task unlock and relock around SDK calls; what was checked before is stale after; jobs of one call run in the next |
| signalling, `S3/tirtc/wechat_voip_ws.c` | the active call, its sequence number and deadline, a worker that posts it, the resolver's record and cache, the reassembly buffer, the message queue, the authorisation cache | the join message, the HTTP response and a hangup in any order; a resolver's callback after the wait for it; a connection lost in the middle of a message |
| key and main loop, `S3/app_main.c` | the call remembered for when the device is free | two tasks may start a call at once |
| media, `S3/tirtc/wechat_voip_media.c` | running and stopping flags, its task | start while the last task has not ended |
| SDK application, `S3/tirtc/tirtc_app.c` | a queue of 24 callbacks | a full queue drops silently |
| system, `S3/system/` | - | thin wrappers |

Correct when: a call is answered only if its answer was asked for; a session is given only its own
connection and finished only by it; every wait ends, CLOSING too; a connection the session gives up is
disconnected; audio does not outlive its connection; a request that was cancelled is not posted and
never confused with the next; no phone rings more often than the key was pressed; messages and users
are not mixed.

### Desktop device

| component | state | hard about it |
|---|---|---|
| session, `src/src/main.c` | the current session, the count of live ones, a worker that disconnects | accepted, error, disconnected and the worker race; shutdown waits for the count |
| streamer, `src/src/device_demo_streamer.c` | two media loops, enabled flags, a key-frame request, time stamps | scheduling of audio and video, a request while disabled or at the end of the loop, Annex-B parsing across buffers |

Correct when: a session is torn down by one thread, once, and nobody uses it afterwards; the count that
shutdown waits for is right; the SDK is uninitialised when nothing uses it; timestamps go on across a
loop; a requested key frame comes first; what is sent as a frame is an access unit.

The SDK itself is a binary library (`src/3rd/`): it appears as the actions its headers and its
callers imply, marked external.

## Modules

| module | what it is |
|---|---|
| `CallState` | `voip_state.c`: each function that changes a `call_state_t`, as an operator on a record |
| `CallLife` | what a call promises, abstractly: it is invited, joins, talks, ends; an ending call is never revived; audio only while talking |
| `VoipControl` | the C3 control task, with the RTC adapter, its two queues, and the SDK, platform and user around it |
| `VoipInvariant` | the inductive invariant of `VoipControl` |
| `VoipControl_proofs` | the proofs about `VoipControl`: handler by handler, then action by action |
| `VoipLinks_proofs` | the call against the SDK's connection, stop and wake-ups, and the refinement of `CallLife` |
| `VoipHistory`, `VoipHistory_proofs` | `VoipControl` with history variables, for properties about its past |
| `C3Platform`, `C3Platform_proofs` | the platform task of the C3, with the MQTT callbacks, its callers, the service and restarts |
| `S3Session`, `S3Session_proofs` | the call session of the S3 example, its seven tasks, the media task and the callback queue |
| `S3ActiveCall` | the call the S3 makes: the key, the remembered call, the worker, the wait for an answer |
| `S3Lookup` | the address that call is posted to: resolver, time-out, cache |
| `S3Signalling_proofs` | what is proved of `S3ActiveCall`, `S3Lookup` and `S3Socket` |
| `S3Socket` | WebSocket events to messages to the authorisation cache |
| `DesktopSession`, `DesktopSession_proofs` | sessions of the desktop demo, their workers, and shutdown |
| `DesktopStreamer` | the streamer's loop over its two files |
| `AnnexB` | its H.264 reader, against the access units a file holds |
| `DesktopStreamer_proofs` | what is proved of `DesktopStreamer` and `AnnexB` |
| `MCVoipControl`, `MCVoipHistory`, `MCC3Platform`, `MCS3Session`, `MCS3Signalling`, `MCDesktop` | payloads, scenarios, failures and files for TLC |

`MCS3Signalling` and `MCDesktop` each instantiate three modules of one subsystem. Those share no
variable: what they mean to each other is inside each (a lookup that fails is a request that fails in
`S3ActiveCall`; a streamer that must be joined is a `worker` in `DesktopSession`). A variable `part`
picks, for a whole behaviour, the module that runs while the other two rest at a fixed initial state,
so one run checks all three without multiplying them.

`VoipControl` and `C3Platform` meet the same way: what the control task sees of the platform (online,
offline, unbound, a response or a refusal, late or lost) are environment steps of `VoipControl`, in
every order `C3Platform` produces them and more.

### How VoipControl corresponds to the code

The control task is the only writer of the statics of `voip.c`, which the record `m` holds under
their names (`s_connect_pending` is `m.connectPending`, ...). Five fields (`phase`, `whip`, `live`,
`dropping`, `inputs`) are the SDK's half and the adapter's, three (`fetches`, `callRequest`,
`expired`) what the platform still has to answer.

A handler is an operator from a record to a record, and they are composed as the C functions call
each other: `RtcClosed` ends in `Finish`, which ends in `RefreshDeferredMetadata`, as in the code.
The task's loop is three actions. `TakeRtc` handles one event of the RTC queue and stays at the
head of the loop; `TakeEvent` or `NoEvent`, possible only when that queue is empty, is the bounded
wait on the other queue; `RunTail` is everything from the failure flag to the close deadline, in the
code's order. Callbacks, the platform task and the user interleave with these, since they only
append to a queue, or, when it is full, raise `s_event_failure`.

The results of the calls a step makes (`rtc_start`, `rtc_connect`, `platform_request`,
`rtc_disconnect`, `rtc_stop`) are the record `r` that the step chooses. `online` is read in the
middle of a step through a variable the platform changes; no handler reads it twice to different
effect within one step that could observe a change between.

Abstractions. A connection handle is the generation of its WHIP. A deadline is armed or not, and an
armed one may expire at any turn, which includes every order of deadlines. A payload is what
`voip_route_room` and `incoming` look at. The contact list is empty or not. Events that only
produce log output are left out.

`scenario` fixes, for a whole behaviour, the messages, signals, commands and faults its environment
may show. It restricts only the environment, and the proofs hold for every set of scenarios.

### How S3Session corresponds to the code

`s` is `s_session` with `s_answer_pending`; `work`, `inbox`, `media` and `answering` are the work
queue, the callback queue, the media task and the answer task. Every function of the session takes the
mutex, changes the session, releases it, and then posts work, starts or stops the media, calls the SDK
or takes the mutex again. The locked section is an operator from a session to an `Outcome`: the session
it leaves, and the sequence of steps that remain to be done unlocked. `todo[t]` holds what task `t` has
still to do; each of its steps is an action, so the other tasks run in every gap of the code. For
instance `on_command` for CALL_CONNECTED is `OnCommand` (the first section, which may adopt the
connection), then `CallConnected` (the second), then `StartMedia`.

The tasks are the code's: the main loop (maintenance), the BOOT key's, the WebSocket's, the callback
task, the SDK's thread (for `on_whip_connect`, which is not queued), the answer task and the work task.
A short press is maintenance, answer, closing?, idle?, hang up, in as many steps.

Abstractions. A call is the number of its invitation, and stands for its room, peer and token; the
connection its WHIP opens has the same number, so a handle is never used again. A delay or a deadline
may end at any time. The bounded wait for the media task may always time out, so it is left out; so is
the 1.2 s guard after a call, and the wait for the mutex, which is never held for long. A connection
the SDK accepts from elsewhere is disconnected at once and left out. `past` records what the
properties need: that a call met what was another's (`crossed`), that a disconnect was refused
(`unserved`), that a DISCONNECTED was dropped (`unheard`).

### How C3Platform corresponds to the code

`platform_task()` with `login()` and `provision()` is one task whose place is `task.at`; between two
places it touches shared state once. `bits` is the event group (`MQTT_READY`, `BIND_GRANT`,
`MQTT_UNBOUND`, `MQTT_AUTH`), `online` the pair `s_online` and `s_epoch`, `retry` is `s_retry`. The turn
reads the bits once (`ReadBits`) and acts on what it read (`Unbound`, `Refresh`, `Startup`); `Announce`
looks at them again, and `GoOnline` and `TellOnline` are its effects, so a disconnection fits between any
two. `mqtt_event()` runs on the client's task: `Lose` clears the bit, `LostOffline` and `LostTell` follow,
each a step. `mqtt_stop()` waits for that callback, hence its guard `callback = "none"`.
`platform_request()` looks twice at what it depends on (`Ask`, `Enqueue`), and so does the answer
(`Receive`, `AnswerRequest`).

An identity is the number of the grant that brought it. Only `flash`, and the service, survive `Crash`.
`Save` may have written when it fails. `cloud` is the service: the last grant, whether the user has
unbound since, the acknowledgement on its way and the last that arrived; it is modelled from what the
device reads of it. `may` counts what the environment may still do.

Abstractions. Emitting an event succeeds (its queue is in `VoipControl`, where it may be full). Whether
a refresh is "within five seconds of the last" is nondeterministic. Waiting for Wi-Fi only delays a turn;
the heartbeat, signatures, a malformed grant and message reassembly have no effect on this state. An
identity that cannot be loaded ends the task, which is left out with it.

### How the S3 signalling corresponds to the code

`S3ActiveCall`: `call` is the record under `s_active_call_lock` (state, sequence number, deadline), and
each locked section is an operator on it (`Begin`, `Finish`, `Drop`, `ResetIfExpired`, `SetIdle`); an
action is one section with the branch taken on it. `doing[t]` is the place of the two tasks that start
calls, the BOOT key's and the main loop; they go through the same four checks, `TestConditions`, without
a lock from one to the next. The worker's notification is overwritten by the next (`Notify`). A request
is checked before each stage of the POST (`CheckRequest`) and its result counts if it is still current.
Invitations and cancellations come through a mailbox, in order; the session they meet is reduced to idle,
ringing, busy and closing, which change by themselves as `S3Session` shows in detail; an answer may fail (`Answer`),
also because an earlier call's answer task still sleeps. The worker is there from the start, since without it the
WebSocket is never opened; so `active_call_abort()` is not reached, and not modelled.

`S3Lookup`: the worker's way through `resolve_host_ipv4()` to the connection, one step for each locked
section and semaphore operation; only a connection that was tried and failed costs the cache; the callback is `Found`, under the lock, and `Give`, after it. `missed`
remembers what `AddressIsOwn` is about. `S3Socket`: `Data` is the whole DATA branch of
`websocket_event_handler()`, for any number of bytes of a frame; `frag` holds, for each byte, which
message and which place it is from. `Handle` and `Remember` are the message task.

Abstractions. A body, a host name, a nickname are not modelled; a message is its frames' lengths and the
users it names. Allocation failures drop the message. What polls the
socket's connection and the layers below the DNS callback are out.

### How the desktop modules correspond to the code

`DesktopSession` gives each thread the sequence of steps it still has to do (`todo`), in the code's order;
a callback or a worker starts by putting steps there. `session_finalize()` is `MarkFinalized` (the flag,
under the session's lock) and then `Unlist`, `Stop`, `Join`, `Free`. The memory of a session is none, held
or freed; a step that uses freed memory, or the SDK after `TiRtcUninit()`, ends the behaviour with `fate`
naming the place, since what follows is undefined. Threads are the main thread, the SDK's callback thread,
a disconnect worker for each session and one for each connection without a session. `fails` is the kind of
failure a behaviour may have, at any of its occurrences.

`DesktopStreamer` is one connection's streamer: `TakeFlags` is the top of the loop under the mutex, the
other actions the branches of an iteration. Time is not counted; a wait (`Wait`) may always be over or not.
`AnnexB` is the reader an iteration of its loop at a time, with the buffer's ends anywhere in the file; the
reference is `Units`, what the whole file's access units are: an access unit is led by the file's first NAL unit, or by
the first one that opens a unit after a slice, and goes on to the next such, or to a bare code at the end.

Abstractions. Bytes are the few values the reader distinguishes. A frame larger than memory and
the audio container are out; the audio file is a number of packets, and a file that fails to be read, or ends in
part of a packet, ends the streamer's loop wherever it is (`FilesFail`). `TiRtcDisconnect()` is one step, the SDK's
confirmation another.

## Properties

State invariants of `VoipControl`:

- `IdleClean`: between calls nothing of a call is left.
- `AudioOnlyActive`: audio is on only in the active stage and only on the call's connection.
- `InputsHeld`: the WHIP inputs are held while a WHIP is in flight.
- `NoOrphanConnection`: an open connection is held, being closed, or announced in a queue, unless
  the SDK is going to be stopped.
- `WaitsAreServed`: what the task waits for is under way.
- `WaitHasDeadline`: every stage that waits for somebody else has its deadline armed.
- `StopQuiesces`: the SDK is stopped only under no call.
- `HangupTold`: a peer gets HANGUP exactly when the end is a local one.
- `Inductive`: the strengthening, see below.

Over steps and behaviours:

- `LifeSpec`: the control task implements `CallLife` (refinement).
- `RoomNotRetaken` (`VoipHistory`): no room is taken that was one of the last `ClosedSlots` calls'. It counts
  calls and not rooms: a call that was dialled takes a slot for its id alone, so the slots do not hold as many
  rooms as there are slots.
- `NothingRevokedReturns` (`VoipHistory`): contacts or a profile revoked while an answer is under way stay revoked.
- `ClosingEnds`, `StopCompletes`, `NetworkRecovers`: liveness under `FairSpec`.

Of `C3Platform`:

- `AckedIsStored`: no grant is acknowledged that flash does not hold.
- `OnlineIsTold`: online means connected, and the control task has last been told what is so. Excepted are
  the two races the code has: a connection lost between the task's look at the bits and its effect, and one
  lost and back within a turn (`raced`, `blinked`).
- `PausedForCause`: the device has no client and nobody to start one only after a startup that failed or a
  token refreshed too soon.
- `AnsweredAsItself`: no request is answered as another identity's, unless an outage fell between the two
  looks of `platform_request()` (`gap`).

Of `S3Session`:

- `NoConnectionLeft`: a connection handed over is the session's or is being released, except where a
  disconnect was refused, which nothing retries, or calls were crossed.
- `AudioWithItsCall`: the media run on the session's own connection and end with it.
- `PendingIsServed`: `s_answer_pending` is set only while something will clear it.
- `WaitsEnd`, `BecomesReady`: under `FairSpec`, the session does not stay in the states it only passes through, and an idle device becomes
  ready for the next call.
- `AnsweredAsAsked`, `ConnectionIsItsOwn`: what the comments say and the code does not keep.

Of the S3 signalling:

- `RequestsAreOwn`: the device waits only on a request the service accepted; none is posted that was dropped
  before the worker's last look.
- `CallsArePressed`: no more requests begin than the key was pressed.
- `BusyEnds`: a request does not hold the device (liveness).
- `AddressIsOwn`: the worker connects to its own answer or to the cached one, takes a lookup for failed early
  only after one was late, and never tries an address a third time that failed it twice.
- `NothingIsMixed`: a message handed on is whole and of one message, and the cached user is one the server
  named. Excepted are messages the handler truncates by design (`maimed`: binary, too long, a last frame in
  several events).

Of the desktop device:

- `ListIsRight`: the live count is that of the listed sessions, and the active one is listed.
- `OneTearsDown`: one thread at a time joins or frees a session.
- `TouchesAreKnown`: a freed session or an uninitialised SDK is used at the listed places and under the
  listed failures only. Two places need no failure: `main()` locks the session it took after another thread
  may have freed it, and a thread logs the session whose worker it has created.
- `QuietAtUninit`: no streamer runs and no disconnect is due at `TiRtcUninit()`, if no wait timed out.
- `ReplacedIsReleased`: a session that was replaced is released (liveness).
- `TimestampIsPlace`: a frame or packet has the timestamp of its place in the files played so far.
- `RequestComesFirst`: once a request was seen, no other frame is sent before a key frame.
- `RequestAnswered`: a key frame is sent after the request, at the latest after the next rewind, if the files are
  rewound once more and the thread does not end (liveness). That the loop rewinds is not enough: the rewind has to
  leave its first frame to be sent.
- `FramesAreUnits`: what the reader returns are the file's access units, all of them, in order.

## Runs

| run | shows | size |
|---|---|---|
| `VoipCalls` | calls in both directions, any signal at any moment: refinement of `CallLife` and the call's own invariants | 1.1 million states |
| `VoipFaults` | five scenarios of faults: the invariants about what failure leaves behind, and that `Inductive` is one | 1.1 million |
| `VoipEnds` | liveness of ending, stopping and recovering | 15 thousand |
| `VoipHistory` | rooms and contacts against their past | 0.4 million |
| `VoipInputsLeak` | a dropped connection leaves the WHIP inputs held: the release the example's README promises of every path does not happen | counterexample |
| `VoipLostResponse` | a lost call response leaves the call closing for ever | counterexample |
| `S3Calls` | the S3 session in six scenarios: answered and cancelled, everything failing, a broken connection, keys, two calls in a row from either side | 0.17 million |
| `S3Signalling` | an outgoing call between key, main loop, worker, messages and lost connections; the resolver's late callbacks; messages cut by frames and losses | 0.2 million |
| `Desktop` | sessions torn down while the process shuts down, under each failure; the streamer's loop with requests; the reader on files that end its buffer anywhere | 94 thousand |
| `C3Platform` | the platform task with the client's callbacks between its steps, in six surroundings of restarts, losses, refusals, unbindings, requests and failures | 0.58 million |
| `S3StaleAnswer` | the answer asked for one call answers the next | counterexample |
| `S3LateConnection` | the connection of one call becomes the next one's | counterexample |

Bounds. `QueueCap` is 1 (8 in the code): the producers of that queue are refused when it is full,
or lose the event under the fault `lost_event`, so a longer queue only delays, and 1 makes the full
queue a constant occurrence. `RtcCap` is 2 for the calls and 1 for the faults (16 in the code): two
allow a result and a signal in either order, one makes overflow happen. `GenMod` is 3 (2^32): two
calls in a row have different generations and the third meets the wrap. `ClosedSlots` is 1, and 2
where what is remembered is the question (4). Two rooms suffice to tell this call's room from
another; `VoipHistory` has three, for a room that is evicted, and calls dialled in between. One call id is enough, since it is
compared with a dialled one only. The theorems hold for all values of these constants.

The scenarios are split because faults multiply. Each one holds faults that can meet: what the SDK
refuses with what it loses, what the platform refuses with what it answers, outages with unbindings.
`VoipCalls` has none but a foreign connection.

`S3Calls` has two invitations, since one leftover needs one call to come from and one to meet. `WorkCap`
is 1 (8) and `InboxCap` 2 (24): with the item the work task holds, two are under way, and both queues
overflow. Each signal comes once per connection and TiRtcDisconnect() fails once per connection.

`S3Signalling` has four scenarios of at most two short presses and one long, one connection lost and one
call of a WeChat user: two presses make two requests, of which one can be taken for the other, and the third
adds nothing to that. `MaxPosts` 4 lets an answer be three lookups late, `MaxMoves` 1 gives the server two
addresses. The reassembly buffer is 4 bytes (8192) against messages of 2 to 6, so that one fits, one fills
it, one is over in sum and one over in a single frame; `QueueLen` is 1 (8), so that it is full with a message.

`Desktop` has two connections, since one must replace another; each behaviour has one kind of failure, or
the two about time together. The files of the streamer are of up to 4 packets and 4 frames, with either
stream longer and key frames first, also later, or everywhere, looped twice; the files of the reader are all
of up to two pieces, and those of three that begin in two ways, of six pieces (a stray zero, a bare code, a
parameter set, slices that begin a key frame, another frame, or neither), read 1 or 4 bytes at a time, twice.

`C3Platform` has two grants, since an unbinding and a second binding are what can mix identities, and
`QueueSize` 2 as in the code. Its surroundings are split as the scenarios are; each has troubles that meet.

Deadlock is checked in the runs of `VoipControl`, whose task always turns its loop. It is off in the others:
when a scenario is used up and a device is idle every task rightly waits for ever, a platform task that
pauses waits for its user, a process that has exited or is lost takes no step, and a file that was read ends.

## Fairness

`FairSpec` assumes: the task runs, and finds the RTC queue empty again and again (strong fairness of
taking from the other queue, since the drain loop goes back to the RTC queue first); an armed
deadline expires in the end; a start or stop that the SDK accepted completes; an HTTP request comes
to an end, by its timeout; the platform task announces the session when it is up again and again.
Nothing is assumed of a WHIP, a disconnect, the peer or the user: those the code must survive with
its deadlines, and `ClosingEnds` shows that it does. FreeRTOS schedules the task (its waits are
bounded by 5 ms), `esp_timer_get_time` advances, and `esp_http_client` has a timeout: that is what
justifies the list.

`FairSpec` of `S3Session` assumes that each task that can go on does, the main loop's maintenance
included (FreeRTOS tasks whose waits are bounded), and that the SDK reports the end of a connection
`TiRtcDisconnect()` was accepted for, as `tiRTC.h` says of `on_disconnected`. Of WHIPs, the peer and the
user it assumes nothing.

`CallFairness` of `S3ActiveCall` assumes that the main loop runs (it sleeps a second) and that the time of a
deadline passes. Nothing is assumed of the worker, the service or the key: `BusyEnds` holds if they hang.

`SessionFairness` of `DesktopSession` assumes that while some thread can go on, or the SDK has a disconnect
to confirm or a streamer to end, one of these happens. `StreamFairness` assumes that the loop goes on and
that its waits end, and not that the files ever fail: strong fairness of sending audio and of sending video, since each
is due again and again while the loop comes to its top in between. The waits are computed from a monotonic clock and
are finite.

## Proofs

Proved for all rooms, call ids, capacities, generations (more than two) and scenarios, from the
two assumptions `GenModAssumption` and `VoipAssumption`:

- `AlwaysInductive`: `Spec => []Inductive`
- `TypeCorrect`, `CleanBetweenCalls`, `AudioWithTheCall`, `InputsOutliveTheWhip`, `HangupWhereDue`,
  `NoWaitWithoutEnd`: `Spec => []` of `TypeOK`, `IdleClean`, `AudioOnlyActive`, `InputsHeld`,
  `HangupTold`, `WaitHasDeadline`

Why a strengthening: take `InputsHeld`. A WHIP result releases the inputs, so one has to know that
the result in the queue is of the WHIP in flight and not of an earlier one. That holds because a
call cannot finish while its WHIP is pending, so a result always finds its own call. Hence
`Inductive` has two halves. `Settled(m)` says what a call holds in each stage (its connection, its
deadline, its pending WHIP and request, the SDK under it). `RtcInFlight` and `CallInFlight` say that
each result under way is for the present generation, is the only one of its kind, and is waited for.

The argument has three layers. Each handler keeps a settled record settled and keeps the *promises*
the record has made (`KeepsWhip`, `KeepsStop`, `KeepsCall`: what is pending stays pending); these
are the lemmas `...Fine` of `VoipControl_proofs`, composed as the handlers are. Queue lemmas say
that a queue stays consistent while promises are kept, when its head is taken, and when an event
joins it. Then there is one lemma per action.

The invariant was model-checked first, as part of `VoipFaults`.

A second invariant, `LinkInv`, follows what the queues hold; from it and `Inductive` come, in
`VoipLinks_proofs`, `AlwaysLinked`, `StopsBetweenCalls` (`StopQuiesces`), `ConnectionsAreHeld`
(`NoOrphanConnection`), `NoWaitInVain` (`WaitsAreServed`) and `ImplementsLife` (`Spec => LifeSpec`).
`Phased` gives the SDK's phase from what the task knows of it; `Linked` says that a live connection
is the present call's; `LinksInFlight` orders the queue: after a "closed" there is no "connected",
and nothing is live any more; `Served` says that each wait has its end under way. Most handlers leave
the SDK alone and at most end the call: they are *calm*, one lemma carries all four parts over a calm handler, and calm
handlers compose. The few that are not (start, stop, connect, retire) have a lemma
each, which also says which step of `CallLife` it is: `MovesAreLife` turns that into the refinement.

`VoipHistory_proofs` holds the task against its past: `AlwaysHistory` (`HSpec => []HistoryInv`), `NoRoomRetaken`
(`RoomNotRetaken`) and `RevokedStaysRevoked` (`NothingRevokedReturns`). `Remembers` says that the room of the i-th
last call is in one of the i slots filled last: calls without a name take no slot, so a room may be kept longer than its
call asks, never shorter. `Fetching` says that a fetch has one answer, on its way once and waited for, and
that what outdated it has marked it dirty. A handler can do four things to the call (leave it, end it, begin one,
join a dialled one), and unless it handles a fetch's own answer it only adds marks and requests; handlers
that do no more than the first two are *ordinary*, and ordinary handlers compose.

Of `C3Platform`, for any number of grants, length of the queue and surroundings, from `PlatformAssumption`:
`PlatformTypes`, `AcknowledgedIsStored`, `NoPauseWithoutCause` and `RequestsKeepIdentity` (`Spec => []` of
`PlatformTypeOK`, `AckedIsStored`, `PausedForCause`, `AnsweredAsItself`). The invariant `PlatformInv` has four
parts besides the types. `Placed` says at which stages of the task there is a client, and of which kind, and
what it has read. `Stored` orders the numbers: the grant the
cloud has acknowledged, and an acknowledgement on its way, are at most what flash holds, flash is at most
what the cloud has granted, and a grant received is not behind flash and equals it
when it is acknowledged, which is what the order of `Save` and `Update` achieves. `Paused` says
at every stage who will start a client. `Fresh` ties a request's identity to its epoch
unless `gap` was seen: a request of the present epoch was made as the present identity, since identities change only while the device is offline.
A fifth part, `Telling`, gives `OnlineAsTold` (`OnlineIsTold`): it relates the link, the ready bit,
the callback under way, `online`, and what the control task was last told, and says of each pair that differs
which event is on its way to make them agree or which of the two excepted coincidences (`raced`, `blinked`) was seen.

Of `S3Session`, for any number of invitations, length of the two queues and scenarios, from
`SessionAssumption`: `SessionHolds` (`Spec => []SessionInv`), `SessionTypes`, `ConnectionsReleased`
(`NoConnectionLeft`), `AudioFollowsCall` (`AudioWithItsCall`) and `PressesServed` (`PendingIsServed`). The last three
are conjuncts of `SessionInv` themselves, and need the others: `Shaped` places the session among the calls and connections
there are; `Numbered` says that a call to come has no connection and that a WHIP is asked for once; `Planned`
gives the form of each task's plan (a plan is a sequence of steps, so most of the work is what a
plan still promises once its head is taken or steps are put before it); `Told` that the inbox tells of connections the
SDK has opened; `Heard` and `Sounding`, until calls have crossed, that what the callback task does to the media is for
the session's connection. There is one lemma per action, on all nine parts.

Of `S3ActiveCall`, for any number of presses and moves of the clock: `ActiveCallTypes`, `RequestsKeepTheirOwn`
(`RequestsAreOwn`) and `NoCallUnpressed` (`CallsArePressed`). `Owned` follows a request's number from the record to
the worker to the service and back. `Paid` is an account: the calls begun, and one for each press that the key's task
or `main()` still has in its hands (or remembers), are never more than the presses; each step of either task moves a press
from one place to the next or drops it.

Of `S3Lookup`, for any number of requests and moves: `LookupTypes` and `WorkerUsesItsOwn` (`AddressIsOwn`).
`Numbered` says that the shared record is the worker's last lookup and that its number is not among those
still to be answered once it is done; `Awaited` that, until one wait has ended early, a callback that is
between its lock and its semaphore is the one waited for; `Tried` counts the failures of the cached address.

Of `S3Socket`, for any messages cut into frames in any way, any sizes of the buffer and the queue and any losses:
`SocketTypes` and `NothingMixed` (`NothingIsMixed`). `Buffered` says what is in the buffer in the middle of a message:
nothing but its units, all of them from the first to the place that the frames have got to unless it is maimed, and
none while a binary frame is received; between messages, and on a new connection, it is empty. `Queued` carries this over to what is handed
on, `Introduced` says that the users on their way into the cache were named by the server. `SocketAssumption` has each frame say
what of the message is before it (`Cut`), which is what the framing of WebSocket means, so that no sum has to be taken.

Of `DesktopStreamer`, for files of any length with key frames anywhere after the first: `StreamTypes`,
`TimestampsKept` (`TimestampIsPlace`) and `KeyFrameFirst` (`RequestComesFirst`). `Placed` adds to the
timestamps what the streams go on with at the end of a file and that nothing was looped before the start;
`Asked` follows a request through the flag, the loop's copy of it, and the two places that need no flag (the
startup frame, and the end of the file, after which comes a key frame). `FirstKey` uses that a set of numbers
has a least one (`WFMin` of the library).

Of `DesktopSession`, for any number of connections and any set of failures, from `DesktopAssumption`: `DesktopHolds`
(`SessionSpec => []DesktopInv`), `SessionsTyped`, `ListAlwaysRight` (`ListIsRight`), `OneAlwaysTearsDown`
(`OneTearsDown`), `TouchesAlwaysKnown` (`TouchesAreKnown`) and `QuietAlwaysAtUninit` (`QuietAtUninit`). None of the four
is inductive: each depends on what every thread has still to do. `Due(t, k, c)` says that thread `t` has a
step of kind `k` for connection `c` in its plan, and the first part of the module brings every change of a plan
down to the `Due` it adds and takes away; no sequence is looked into after that. Of the invariant, `Planned` is the code's
order of steps, `Assigned` which thread has which, `Whole` and `Onward` that a teardown, and the end of `main()`, once begun
is there to its last step. `Handed` is the heart: the end of a session is in one hand at a time (a thread about to
launch its worker, the worker before `TiRtcDisconnect()`, the SDK while it disconnects, the thread that marks it),
and one thread is to free it once it is finalized. `Referred` holds the steps against the session's memory, `Worked` against
its streamer's thread, `Ending` relates `main()` on its way out to the SDK, `Failing` says what goes wrong only
after which failure, and `Counted` is the list in these terms. There is a lemma for every branch of every action, on all of them.

Of `AnnexB`, for any file and any way its bytes come into the buffer: `FramesAlwaysUnits` (`FramesAreUnits`). The
invariant `ReaderInv` says of the reader at the top of its loop that the buffer begins at a start code, or at an end of
the file (`Positioned`); that a frame in the making is the unit some NAL unit leads, as far as it was read
(`Gathers`: where it begins and ends, whether it is a key frame, and that after its last slice nothing opened a unit); and
that the units before were returned without a gap (`ReturnedTo`), from the first on (`Made`). `CodeFound` is the lemma
about `find_start_code()`: in the part that was read it finds the code that comes next in the file, with the
zero before it, or there is none that ends in that part. No induction over the file is needed, since the reference says
of each NAL unit for itself whether it leads an access unit.

All these invariants were model-checked on the runs' instances before they were proved.

Every invariant and action property of the passing runs is thereby a theorem. Only model-checked is liveness:
`ClosingEnds`, `NetworkRecovers`, `StopCompletes`, `BecomesReady`, `WaitsEnd`, `BusyEnds`, `ReplacedIsReleased` and
`RequestAnswered` rest on fairness, which is outside the prover's reach. What the failing runs show are counterexamples.

## What the checks found

- `voip.c:852`: when the SDK has dropped a connection by the time the loop disconnects it, the call is
  finished without releasing the WHIP inputs, and the queued RTC_CLOSED is ignored. Every later
  `rtc_connect()` is then refused as busy until the SDK is stopped. (`VoipInputsLeak`)
- `voip.c:275`: a lost call response leaves `s_call_request_pending` set for ever; nothing, not even
  the stop of the SDK, resets it, and the call stays in closing. (`VoipLostResponse`)

- `wechat_voip_session.c:710`: the answer task outlives the call it was created for, and answers the next
  one unasked. (`S3StaleAnswer`)
- `wechat_voip_session.c:618`: a WHIP's late connection is taken by the next call instead of being
  released. (`S3LateConnection`)

Three more differences between the documentation and the code: a device unbound in a call stops the SDK in
the same turn as it disconnects; a room comes back after four further calls; an outage that passes while the
platform task is in an HTTP request is not noticed, so the control task is not told of being online again
(`OnlineIsTold` excepts it as `blinked`).

Of the S3 example: a late WHIP *failure* ends whatever session there is; a key pressed while an old answer
task sleeps rejects the call it was to answer; HANGUP ends a call even when its payload does not parse,
where `tirtc_voip_cmdw.h:13` has it ignored; the guard between calls is 1.2 s and not the README's 5 s. An
invitation that overtakes the response to its own request is not answered by itself, and the wait that then
begins is answered by whoever calls next.

Of the desktop demo: the places of `TouchesAreKnown` are real. A session is reached after it was freed by the
log line after its worker's creation and by `main()`'s claim; and, after a disconnect or a thread that failed,
through its connection's user data. None of them contradicts a document.

## Not modelled

- JSON and HTTP encoding, signatures, TLS, NVS storage, console, logging and statistics: input and output
  with no bearing on the order of events. Failure of memory allocation is the refusal of the operation.
- Opus parsing and the pacing of sample audio on the C3, the encoding of audio on the S3: sequential code on
  constant assets, whose only effect on the models is when it begins and ends.
- Heartbeats, acknowledgements and queries the S3 sends, the query for authorisations, the subscription
  callbacks of the desktop demo: they change no state that is modelled.
- The S3's system services, the C3's button debouncing and memory reports, the build tools and the host tests.
- The SDK's inside: a binary library, present as what its headers and callers imply. Its headers are the
  largest files no definition maps to.

## Plan

What is modelled is complete for the components marked so, and every safety property of it is proved. What is left:

1. The C3's Opus parser as a function against a closed reference, as `AnnexB` is, and its proof.
