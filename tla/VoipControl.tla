---------------------------- MODULE VoipControl ----------------------------
(***************************************************************************)
(* The control task of the ESP32-C3 WeChat VoIP example                    *)
(*   components/wechat_voip/voip.c, voip_state.c, voip_protocol.c          *)
(*   components/rtc_adapter/rtc_adapter.c                                  *)
(* with the two bounded queues it is fed from, the TiRTC SDK behind the    *)
(* adapter and the platform task that answers its HTTP requests.           *)
(*                                                                         *)
(* One task owns the whole call: it is the only writer of the record m,    *)
(* except for the fields in which the SDK keeps its half.  SDK callbacks   *)
(* and the platform only append to a queue, or, when the queue cannot take *)
(* the event, raise eventFailure.  So the task's handlers are functions on *)
(* m, composed as the C functions call each other, and its actions drain   *)
(* the RTC queue, take at most one queued event and run the tail of the    *)
(* loop, with everything else free to happen in between.                   *)
(*                                                                         *)
(* The answers the SDK and the platform give to the calls a step makes are *)
(* the record r, chosen by the step.  Deadlines are modelled by whether    *)
(* they are armed: an armed one may expire at any turn of the loop.        *)
(***************************************************************************)
EXTENDS CallState, Sequences

CONSTANTS
    Rooms,          \* wx_room_id values
    CallIds,        \* wx_call_id values
    None,           \* the empty string
    ClosedSlots,    \* rooms and call ids remembered after a call (4)
    QueueCap,       \* capacity of s_queue (8)
    RtcCap,         \* capacity of s_rtc_queue (16)
    Scenarios       \* the environments the device may find itself in

FaultKinds == {"start",       \* rtc_start() fails
               "connect",     \* rtc_connect() is refused, or the WHIP fails
               "request",     \* platform_request() refuses
               "response",    \* a request is answered with an error
               "disconnect",  \* rtc_disconnect() fails with an error
               "stop",        \* rtc_stop() fails
               "drop",        \* the SDK closes a connection on its own
               "foreign",     \* a P2P connection is accepted
               "offline",     \* the MQTT session comes and goes
               "missed",      \* and the platform task, busy with an HTTP request,
                              \* misses that it was away
               "network",     \* the network goes away and the session survives
               "unbound",     \* the device is unbound
               "lost_rtc",    \* an RTC event finds its queue full
               "lost_event"}  \* a platform event finds no slot or queue space

Payloads == [room     : Rooms,
             id       : CallIds \cup {None},
             own      : BOOLEAN,    \* wx_from is this device
             sameUser : BOOLEAN,    \* openid and appid absent or the dialled ones
             voice    : BOOLEAN]    \* the room type is empty, voice or audio

\* The "wx" messages of signal(): call_incoming, call_cancel, callers_update
MessageEvents ==
         [kind : {"incoming"}, invite : Payloads]
    \cup [kind : {"cancel"}, room : Rooms]
    \cup [kind : {"callers_update"}]

SignalKinds == {"answered",     \* command 0x2000
                "hangup",       \* command 0x2001
                "bad_hangup",   \* command 0x2001 with a payload that does not parse
                "error"}        \* on_conn_error

CommandKinds == {"contacts", "call", "answer", "reject", "hangup", "retry",
                 "primary"}

\* What the environment of one behaviour may do.
ScenarioKinds ==
    [messages : SUBSET MessageEvents,   \* the MQTT messages the service sends
     signals  : SUBSET SignalKinds,     \* of the peer and the SDK, on a connection
     commands : SUBSET CommandKinds,    \* the user's commands
     faults   : SUBSET FaultKinds]      \* the faults that show

ASSUME VoipAssumption ==
    /\ ClosedSlots \in Nat \ {0}
    /\ QueueCap \in Nat \ {0}
    /\ RtcCap \in Nat \ {0}
    /\ None \notin Rooms \cup CallIds
    /\ Scenarios \subseteq ScenarioKinds

VARIABLES
    m,              \* the control task's state and the SDK's half of it
    turn,           \* the task is at the head of its loop or at the tail
    queue,          \* s_queue: platform and user events
    rtcQueue,       \* s_rtc_queue: SDK callbacks
    eventFailure,   \* s_event_failure
    online,         \* platform_is_online()
    announced,      \* platform_task's ready_announced
    scenario        \* what the environment may do, throughout

vars == <<m, turn, queue, rtcQueue, eventFailure, online, announced, scenario>>

Faults == scenario.faults

\* A connection handle is the generation its WHIP was submitted with; 0 is NULL.
Handles == Generations

Fetches == {"profile", "contacts"}

\* platform_operation_t
Operations == Fetches \cup {"call"}

SomeFetches    == SUBSET Fetches
SomeOperations == SUBSET Operations

\* s_room and s_call_id: empty, or a value
RoomOrNone == Rooms \cup {None}
IdOrNone   == CallIds \cup {None}

\* s_closed_rooms and s_closed_calls
Slots       == 0 .. ClosedSlots - 1
ClosedCalls == [Slots -> [room : RoomOrNone, id : IdOrNone]]

SdkPhases == {"off", "starting", "started", "stopping"}

Machine == [
    \* call_state_t s_call
    stage            : Stages,
    generation       : Generations,
    outgoing         : BOOLEAN,
    transport_ready  : BOOLEAN,
    peer_answered    : BOOLEAN,
    \* the call
    payload          : BOOLEAN,                  \* s_payload is held
    room             : RoomOrNone,
    callId           : IdOrNone,
    connection       : Handles,
    closing          : Handles,
    connectPending   : BOOLEAN,
    callPending      : BOOLEAN,                  \* s_call_request_pending
    localEnd         : BOOLEAN,
    told             : BOOLEAN,                  \* HANGUP submitted for this call
    mediaStarted     : BOOLEAN,
    deadline         : BOOLEAN,                  \* s_deadline is armed
    closeDeadline    : BOOLEAN,                  \* s_close_deadline is armed
    closed           : ClosedCalls,
    closedIndex      : Slots,
    \* the SDK's lifetime
    sdkInitialized   : BOOLEAN,
    sdkReady         : BOOLEAN,
    sdkStopping      : BOOLEAN,
    needShutdown     : BOOLEAN,
    shutdownFailed   : BOOLEAN,
    resumeAfterStop  : BOOLEAN,
    \* profile and contacts
    profileReady     : BOOLEAN,
    profilePending   : BOOLEAN,
    profileDirty     : BOOLEAN,
    contacts         : BOOLEAN,                  \* s_contact_count > 0
    contactsPending  : BOOLEAN,
    contactsDirty    : BOOLEAN,
    \* sample_audio: the connection it sends on
    audio            : Handles,
    \* rtc_adapter: s_peer and s_token are held
    inputs           : BOOLEAN,
    \* the SDK: its phase, the WHIP in flight, the open connection, the one
    \* TiRtcDisconnect() has been called for
    phase            : SdkPhases,
    whip             : Handles,
    live             : Handles,
    dropping         : Handles,
    \* what the platform has still to answer: fetches, and the generation of
    \* the call request, and those an MQTT session lost since then fails
    fetches          : SomeFetches,
    callRequest      : Generations,
    expired          : SomeOperations ]

Boot == [
    stage            |-> "idle",
    generation       |-> 0,
    outgoing         |-> FALSE,
    transport_ready  |-> FALSE,
    peer_answered    |-> FALSE,
    payload          |-> FALSE,
    room             |-> None,
    callId           |-> None,
    connection       |-> 0,
    closing          |-> 0,
    connectPending   |-> FALSE,
    callPending      |-> FALSE,
    localEnd         |-> FALSE,
    told             |-> FALSE,
    mediaStarted     |-> FALSE,
    deadline         |-> FALSE,
    closeDeadline    |-> FALSE,
    closed           |-> [i \in Slots |-> [room |-> None, id |-> None]],
    closedIndex      |-> 0,
    sdkInitialized   |-> FALSE,
    sdkReady         |-> FALSE,
    sdkStopping      |-> FALSE,
    needShutdown     |-> FALSE,
    shutdownFailed   |-> FALSE,
    resumeAfterStop  |-> FALSE,
    profileReady     |-> FALSE,
    profilePending   |-> FALSE,
    profileDirty     |-> FALSE,
    contacts         |-> FALSE,
    contactsPending  |-> FALSE,
    contactsDirty    |-> FALSE,
    audio            |-> 0,
    inputs           |-> FALSE,
    phase            |-> "off",
    whip             |-> 0,
    live             |-> 0,
    dropping         |-> 0,
    fetches          |-> {},
    callRequest      |-> 0,
    expired          |-> {} ]

PlatformEvents ==
         [kind : {"online", "offline", "unbound"}]
    \cup [kind : {"profile", "contacts"}, ok : BOOLEAN]
    \cup [kind   : {"call_result"},
          gen    : Generations,
          result : {"ok", "error", "oversized"},   \* oversized: a call id that
          id     : CallIds \cup {None}]            \* s_call_id cannot hold
    \cup MessageEvents

UserEvents == [kind : {"user"}, command : CommandKinds]

RtcEvents ==
         [kind : {"started", "stopped", "unexpected"}]
    \cup [kind : {"connected", "closed"} \cup SignalKinds,
          gen  : Generations,
          conn : Handles]

\* The answers of one step: rtc_start, rtc_connect, platform_request, rtc_disconnect
\* (of an open handle) and rtc_stop succeed.
MaySucceedOr(fault) == IF fault \in Faults THEN BOOLEAN ELSE {TRUE}

Answers == [start      : MaySucceedOr("start"),
            connect    : MaySucceedOr("connect"),
            request    : MaySucceedOr("request"),
            disconnect : MaySucceedOr("disconnect"),
            stop       : MaySucceedOr("stop")]

-----------------------------------------------------------------------------
(* SDK lifetime, profile and contacts                                      *)

\* Mutant: calls are taken while the SDK is about to stop.
ReadyWhileStopping(s) == s.sdkReady /\ online /\ s.profileReady

Ready(s) == s.sdkReady /\ online /\ s.profileReady /\ ~s.needShutdown

StartSdk(s, r) ==
    IF s.sdkInitialized \/ s.needShutdown \/ ~online \/ ~r.start
    THEN s
    ELSE [s EXCEPT !.sdkInitialized = TRUE, !.phase = "starting"]

\* platform_request() queues a request, unless it refuses.
Awaiting(fetches, op) == fetches \cup {op}

RequestProfile(s, r) ==
    CASE ~online                                -> s
      [] online /\ (s.stage # "idle" \/ s.profilePending)
                                                -> [s EXCEPT !.profileDirty = TRUE]
      [] online /\ s.stage = "idle" /\ ~s.profilePending
                                                ->
            IF r.request
            THEN [s EXCEPT !.profilePending = TRUE,
                           !.profileDirty   = FALSE,
                           !.fetches        = Awaiting(@, "profile")]
            ELSE s

RequestContacts(s, r) ==
    IF ~online \/ s.stage # "idle" \/ s.contactsPending
    THEN [s EXCEPT !.contactsDirty = TRUE]
    ELSE IF r.request
         THEN [s EXCEPT !.contactsPending = TRUE,
                        !.contactsDirty   = FALSE,
                        !.fetches         = Awaiting(@, "contacts")]
         ELSE s

RefreshDeferredMetadata(s, r) ==
    IF ~online \/ s.stage # "idle" THEN s
    ELSE IF s.profileDirty         THEN RequestProfile(s, r)
    ELSE IF s.contactsDirty        THEN RequestContacts(s, r)
    ELSE s

-----------------------------------------------------------------------------
(* The call                                                                *)

\* Mutants: an outstanding call request, or WHIP, does not count.
UnfinishedForgetsRequest(s) == s.connectPending \/ s.connection # 0 \/ s.closing # 0
UnfinishedForgetsWhip(s) == s.connection # 0 \/ s.closing # 0 \/ s.callPending

\* What keeps a call from being finished.
Unfinished(s) ==
    s.connectPending \/ s.connection # 0 \/ s.closing # 0 \/ s.callPending

NextSlot(i) == (i + 1) % ClosedSlots

\* The rooms and call ids remembered once the call in s is over.
Remembered(s) == [s.closed EXCEPT ![s.closedIndex] = [room |-> s.room, id |-> s.callId]]

\* Mutants: the index is not taken modulo; it does not advance.
RememberUnbounded(s) ==
    IF s.room = None /\ s.callId = None
    THEN s
    ELSE [s EXCEPT !.closed = Remembered(s), !.closedIndex = @ + 1]
RememberOne(s) ==
    IF s.room = None /\ s.callId = None THEN s ELSE [s EXCEPT !.closed = Remembered(s)]

Remember(s) ==
    IF s.room = None /\ s.callId = None
    THEN s
    ELSE [s EXCEPT !.closed = Remembered(s), !.closedIndex = NextSlot(@)]

Cleared(s) ==
    [CallFinish(s) EXCEPT !.audio         = 0,
                          !.mediaStarted  = FALSE,
                          !.payload       = FALSE,
                          !.room          = None,
                          !.callId        = None,
                          !.deadline      = FALSE,
                          !.closeDeadline = FALSE,
                          !.localEnd      = FALSE,
                          !.told          = FALSE]

Finish(s, r) ==
    IF Unfinished(s) THEN s ELSE RefreshDeferredMetadata(Cleared(Remember(s)), r)

\* A call that is closed, on this side's behalf or not; a connected peer is told.
Closed(s, notify) ==
    [CallClose(s) EXCEPT !.localEnd      = notify,
                         !.told          = notify /\ s.connection # 0,
                         !.audio         = 0,
                         !.mediaStarted  = FALSE,
                         !.closeDeadline = TRUE]

\* end_call(notify, reason): with a connection the disconnect is left to the
\* loop; without one, and with no WHIP in flight, a room is rejected and the
\* call is over.
EndCall(s, notify, r) ==
    IF s.stage \in {"idle", "closing"}
    THEN s
    ELSE IF s.connection = 0 /\ ~s.connectPending
    THEN Finish(Closed(s, notify), r)
    ELSE Closed(s, notify)

\* rtc_connect() is busy while it owns the inputs of an earlier WHIP.
ConnectRoom(s, r) ==
    LET c == [s EXCEPT !.connectPending = TRUE, !.deadline = TRUE]
    IN  IF r.connect /\ ~s.inputs
        THEN [c EXCEPT !.inputs = TRUE, !.whip = s.generation]
        ELSE EndCall([c EXCEPT !.connectPending = FALSE], TRUE, r)

VoipRouteRoom(v, dialing, callId) ==
    IF ~dialing
    THEN IF v.own THEN "stale_outbound" ELSE "inbound"
    ELSE IF /\ v.sameUser
            /\ IF callId # None THEN v.id = callId ELSE v.id # None => v.own
         THEN "outbound"
         ELSE "unrelated"

\* incoming() looks at these payloads no further: its own room again, or one
\* of a call that is over.  (A closed call id is answered with a rejection.)
IgnoredInvite(s, v) ==
    \/ v.room = s.room
    \/ \E i \in Slots :
            \/ s.closed[i].room = v.room
            \/ v.id # None /\ s.closed[i].id = v.id

Route(s, v) == VoipRouteRoom(v, s.stage = "dialing", s.callId)

\* What is left is taken for the call being dialled, or rings, or is rejected.
Incoming(s, v, r) ==
    IF IgnoredInvite(s, v) \/ ~Ready(s) \/ ~v.voice
    THEN s
    ELSE IF Route(s, v) = "outbound"
    THEN ConnectRoom(
            [CallJoinOutgoing(s) EXCEPT
                !.payload = TRUE,
                !.room    = v.room,
                !.callId  = IF v.id # None THEN v.id ELSE @],
            r)
    ELSE IF Route(s, v) = "inbound" /\ s.stage = "idle"
    THEN [CallBegin(s, FALSE) EXCEPT !.payload  = TRUE,
                                     !.room     = v.room,
                                     !.deadline = TRUE]
    ELSE s

CallCancel(s, room, r) ==
    IF s.room = room THEN EndCall(s, FALSE, r) ELSE s

CallersUpdate(s, r) == RequestContacts([s EXCEPT !.contacts = FALSE], r)

\* Mutant: no deadline is armed.
DialWithoutDeadline(s, r) ==
    IF ~Ready(s) \/ s.stage # "idle" \/ ~s.contacts
    THEN s
    ELSE LET c == CallBegin(s, TRUE)
         IN  IF r.request
             THEN [c EXCEPT !.callPending = TRUE, !.callRequest = c.generation]
             ELSE EndCall(c, FALSE, r)

\* dial(): the generation is taken before the request is made.
Dial(s, r) ==
    IF ~Ready(s) \/ s.stage # "idle" \/ ~s.contacts
    THEN s
    ELSE LET c == [CallBegin(s, TRUE) EXCEPT !.deadline = TRUE]
         IN  IF r.request
             THEN [c EXCEPT !.callPending = TRUE,
                            !.callRequest = c.generation]
             ELSE EndCall(c, FALSE, r)

AnswerIncoming(s, r) ==
    IF Ready(s) /\ s.stage = "ringing" THEN ConnectRoom(CallAccept(s), r) ELSE s

PrimaryAction(s, r) ==
    LET action == CallPrimaryAction(s.stage)
    IN  CASE action = "dial_first" -> IF ~Ready(s)         THEN s
                                      ELSE IF ~s.contacts  THEN RequestContacts(s, r)
                                      ELSE Dial(s, r)
          [] action = "answer"     -> AnswerIncoming(s, r)
          [] action = "hangup"     -> EndCall(s, TRUE, r)
          [] action = "none"       -> s

-----------------------------------------------------------------------------
(* http_result()                                                           *)

ProfileResult(s, e, r) ==
    LET c == [s EXCEPT !.profilePending = FALSE]
    IN  IF s.profileDirty
        THEN RequestProfile([c EXCEPT !.profileReady = FALSE], r)
        ELSE IF e.ok /\ online
        THEN RequestContacts([c EXCEPT !.profileReady = TRUE], r)
        ELSE [c EXCEPT !.profileReady = FALSE]

\* Mutant: a list is taken whatever has happened since it was asked for.
ContactsResultStale(s, e, some, r) ==
    [s EXCEPT !.contactsPending = FALSE, !.contacts = e.ok /\ online /\ some]

\* A fetched list may be empty.
ContactsResult(s, e, some, r) ==
    LET c == [s EXCEPT !.contactsPending = FALSE, !.contacts = FALSE]
    IN  IF s.contactsDirty
        THEN IF online THEN RequestContacts(c, r) ELSE c
        ELSE [c EXCEPT !.contacts = e.ok /\ online /\ some]

CallResult(s, e, r) ==
    IF e.gen # s.generation
    THEN s
    ELSE LET c == [s EXCEPT !.callPending = FALSE,
                            !.callId      = IF e.result = "ok" THEN e.id ELSE @]
         IN  IF s.stage = "closing"                            THEN Finish(c, r)
             ELSE IF e.result = "error" /\ s.stage = "dialing" THEN EndCall(c, FALSE, r)
             ELSE IF e.result = "oversized"                    THEN EndCall(c, TRUE, r)
             ELSE c

-----------------------------------------------------------------------------
(* dispatch()                                                              *)

UserCommand(s, command, r) ==
    CASE command = "contacts" ->
            LET c == StartSdk(s, r)
            IN  IF c.profileReady THEN RequestContacts(c, r) ELSE RequestProfile(c, r)
      [] command = "call"     -> Dial(s, r)
      [] command = "answer"   -> AnswerIncoming(s, r)
      [] command = "reject"   -> IF s.stage = "ringing" THEN EndCall(s, TRUE, r) ELSE s
      [] command = "hangup"   -> EndCall(s, TRUE, r)
      [] command = "primary"  -> PrimaryAction(s, r)
      [] command = "retry"    ->
            IF s.needShutdown \/ s.sdkStopping
            THEN [s EXCEPT !.shutdownFailed = FALSE, !.resumeAfterStop = TRUE]
            ELSE RequestProfile(StartSdk(s, r), r)

Dispatch(s, e, some, r) ==
    CASE e.kind = "online"         ->
            RequestProfile(IF s.needShutdown \/ s.sdkStopping
                           THEN [s EXCEPT !.resumeAfterStop = TRUE]
                           ELSE StartSdk(s, r), r)
      [] e.kind = "offline"        ->
            [s EXCEPT !.profileReady  = FALSE,
                      !.profileDirty  = TRUE,
                      !.contactsDirty = TRUE]
      [] e.kind = "unbound"        ->
            EndCall([s EXCEPT !.profileReady  = FALSE,
                              !.profileDirty  = TRUE,
                              !.contacts      = FALSE,
                              !.contactsDirty = TRUE,
                              !.needShutdown  = s.sdkInitialized], TRUE, r)
      [] e.kind = "incoming"       -> Incoming(s, e.invite, r)
      [] e.kind = "cancel"         -> CallCancel(s, e.room, r)
      [] e.kind = "callers_update" -> CallersUpdate(s, r)
      [] e.kind = "profile"        -> ProfileResult(s, e, r)
      [] e.kind = "contacts"       -> ContactsResult(s, e, some, r)
      [] e.kind = "call_result"    -> CallResult(s, e, r)
      [] e.kind = "user"           -> UserCommand(s, e.command, r)

-----------------------------------------------------------------------------
(* rtc_dispatch()                                                          *)

\* TiRtcDisconnect() of a handle the SDK no longer knows is refused.
Known(s, h) == s.live = h

RtcDisconnect(s, h, r) ==
    IF Known(s, h) /\ r.disconnect THEN [s EXCEPT !.dropping = h] ELSE s

\* What the stop of the SDK frees.
Stopped(s, r) ==
    Finish([s EXCEPT !.inputs         = FALSE,
                     !.sdkInitialized = FALSE,
                     !.sdkReady       = FALSE,
                     !.sdkStopping    = FALSE,
                     !.connectPending = FALSE,
                     !.connection     = 0,
                     !.closing        = 0], r)

\* Mutants: the stop is not taken as done; the restart asked for is forgotten.
RtcStoppedStaysStopping(s, r) == [Stopped(s, r) EXCEPT !.sdkStopping = s.sdkStopping]
RtcStoppedForgetsResume(s, r) == [Stopped(s, r) EXCEPT !.needShutdown    = FALSE,
                                                       !.shutdownFailed  = FALSE,
                                                       !.closeDeadline   = FALSE,
                                                       !.resumeAfterStop = FALSE]

RtcStopped(s, r) ==
    LET stopped == Stopped(s, r)
        clean   == [stopped EXCEPT !.needShutdown    = FALSE,
                                   !.shutdownFailed  = FALSE,
                                   !.closeDeadline   = FALSE,
                                   !.resumeAfterStop = FALSE]
    IN  IF stopped.resumeAfterStop THEN StartSdk(clean, r) ELSE clean

\* The result of a WHIP that is not the current call's.
StaleConnected(s, e, r) ==
    IF e.conn # 0 THEN RtcDisconnect(s, e.conn, r) ELSE [s EXCEPT !.inputs = FALSE]

WhipFailed(s, r) ==
    LET f == [s EXCEPT !.inputs = FALSE]
    IN  IF s.stage # "closing" THEN EndCall(f, TRUE, r) ELSE Finish(f, r)

\* Mutant: the peer is not told.
LateConnectionSilent(s) == s

\* A connection that comes once the call is closing: a local hangup is told now.
LateConnection(s) == [s EXCEPT !.told = s.localEnd]

RtcConnected(s, e, r) ==
    LET c == [s EXCEPT !.connectPending = FALSE]
        g == [c EXCEPT !.connection = e.conn, !.payload = FALSE]
    IN  CASE e.conn = 0                          -> WhipFailed(c, r)
          [] e.conn # 0 /\ s.stage = "closing"   -> LateConnection(g)
          [] e.conn # 0 /\ s.stage # "closing"   -> CallTransportReady(g, e.gen)

\* Mutant: the handle being closed is not retired.
RtcClosedKeepsClosing(s, e, r) ==
    IF e.conn \notin {s.connection, s.closing}
    THEN s
    ELSE LET c == [s EXCEPT !.inputs     = FALSE,
                            !.connection = IF @ = e.conn THEN 0 ELSE @]
         IN  IF c.connection = 0 THEN Finish(CallClose([c EXCEPT !.audio = 0]), r) ELSE c

RtcClosed(s, e, r) ==
    IF e.conn \notin {s.connection, s.closing}
    THEN s
    ELSE LET c == [s EXCEPT !.inputs     = FALSE,
                            !.connection = IF @ = e.conn THEN 0 ELSE @,
                            !.closing    = IF @ = e.conn THEN 0 ELSE @]
         IN  IF c.connection = 0 /\ c.closing = 0
             THEN Finish(CallClose([c EXCEPT !.audio = 0]), r)
             ELSE c

RtcCommand(s, e, r) ==
    IF s.connection # e.conn /\ ~s.connectPending
    THEN s
    ELSE CASE e.kind = "answered"   -> CallPeerAnswered(s, e.gen)
           [] e.kind = "hangup"     -> EndCall(s, FALSE, r)
           [] e.kind = "bad_hangup" -> s

RtcDispatch(s, e, r) ==
    CASE e.kind = "started"    -> [s EXCEPT !.sdkReady = TRUE]
      [] e.kind = "stopped"    -> RtcStopped(s, r)
      [] e.kind = "unexpected" -> s      \* the foreign handle is disconnected
      [] e.kind \notin {"started", "stopped", "unexpected"} ->
            CASE e.gen # s.generation ->
                    IF e.kind = "connected" THEN StaleConnected(s, e, r) ELSE s
              [] e.gen = s.generation ->
                    CASE e.kind = "connected" -> RtcConnected(s, e, r)
                      [] e.kind = "closed"    -> RtcClosed(s, e, r)
                      [] e.kind = "error"     -> EndCall(s, FALSE, r)
                      [] e.kind \in {"answered", "hangup", "bad_hangup"} ->
                            RtcCommand(s, e, r)

-----------------------------------------------------------------------------
(* The tail of the loop.  x says which of the armed deadlines have expired *)

Expiry == [deadline : BOOLEAN, disconnect : BOOLEAN, close : BOOLEAN]

\* A deadline the tail itself arms has not expired by its end.  (A failure
\* ends the call without a delay before the disconnect.)
MayExpire(x) ==
    /\ x.deadline   => m.deadline
    /\ x.disconnect => m.stage = "closing" \/ eventFailure
    /\ x.close      => m.closeDeadline

\* Mutant: a lost event ends the call and leaves the SDK alone.
FailStepWithoutStop(s, r) == IF eventFailure THEN EndCall(s, FALSE, r) ELSE s

FailStep(s, r) ==
    IF eventFailure THEN EndCall([s EXCEPT !.needShutdown = TRUE], FALSE, r) ELSE s

\* No SDK to stop: no stop callback can arrive.
NoSdkStep(s, r) ==
    IF ~s.needShutdown \/ s.sdkInitialized
    THEN s
    ELSE LET c == [s EXCEPT !.needShutdown = FALSE, !.resumeAfterStop = FALSE]
         IN  IF s.resumeAfterStop THEN StartSdk(c, r) ELSE c

\* Mutant: the audio starts with the connection.
MediaStepEarly(s) ==
    IF s.stage \in {"waiting_peer", "active"} /\ s.connection # 0 /\ ~s.mediaStarted
    THEN [s EXCEPT !.deadline = FALSE, !.audio = s.connection, !.mediaStarted = TRUE]
    ELSE s

MediaStep(s) ==
    IF s.stage = "active" /\ s.connection # 0 /\ ~s.mediaStarted
    THEN [s EXCEPT !.deadline = FALSE, !.audio = s.connection, !.mediaStarted = TRUE]
    ELSE s

DeadlineStep(s, x, r) ==
    IF s.deadline /\ x.deadline /\ s.stage # "idle"
    THEN LET c == EndCall(s, TRUE, r)
         IN  [c EXCEPT !.deadline     = FALSE,
                       !.needShutdown = @ \/ c.connectPending]
    ELSE s

DisconnectStep(s, x, r) ==
    IF s.stage = "closing" /\ s.connection # 0 /\ x.disconnect
    THEN LET h == s.connection
             c == RtcDisconnect([s EXCEPT !.connection = 0, !.closing = h], h, r)
         IN  IF ~Known(s, h)
             THEN Finish([c EXCEPT !.closing = 0], r)
             ELSE [c EXCEPT !.needShutdown = @ \/ ~r.disconnect]
    ELSE s

\* Mutant: the inputs are released with the stop, not once it has completed.
ShutdownStepFrees(s, r) ==
    IF /\ s.needShutdown /\ s.sdkInitialized
       /\ ~s.sdkStopping /\ ~s.shutdownFailed
       /\ s.connection = 0 \/ s.connectPending
    THEN IF r.stop
         THEN [s EXCEPT !.audio = 0, !.sdkStopping = TRUE, !.phase = "stopping",
                        !.inputs = FALSE]
         ELSE [s EXCEPT !.audio = 0, !.shutdownFailed = TRUE]
    ELSE s

ShutdownStep(s, r) ==
    IF /\ s.needShutdown /\ s.sdkInitialized
       /\ ~s.sdkStopping /\ ~s.shutdownFailed
       /\ s.connection = 0 \/ s.connectPending
    THEN IF r.stop
         THEN [s EXCEPT !.audio = 0, !.sdkStopping = TRUE, !.phase = "stopping"]
         ELSE [s EXCEPT !.audio = 0, !.shutdownFailed = TRUE]
    ELSE s

\* Mutant: a close that takes too long is only logged.
CloseStepLogs(s, x) ==
    IF s.closeDeadline /\ x.close THEN [s EXCEPT !.closeDeadline = FALSE] ELSE s

CloseStep(s, x) ==
    IF s.closeDeadline /\ x.close
    THEN [s EXCEPT !.closeDeadline = FALSE,
                   !.needShutdown  = @ \/ (s.sdkInitialized /\ ~s.sdkStopping)]
    ELSE s

LoopTail(s, x, r) ==
    CloseStep(
        ShutdownStep(
            DisconnectStep(
                DeadlineStep(
                    MediaStep(NoSdkStep(FailStep(s, r), r)), x, r), x, r), r), x)

-----------------------------------------------------------------------------
(* The control task: task()                                                *)

Init ==
    /\ m = Boot
    /\ turn = "head"
    /\ queue = <<>>
    /\ rtcQueue = <<>>
    /\ eventFailure = FALSE
    /\ online = FALSE
    /\ announced = FALSE
    /\ scenario \in Scenarios

TakeRtc ==
    /\ turn = "head"
    /\ rtcQueue # <<>>
    /\ \E r \in Answers : m' = RtcDispatch(m, Head(rtcQueue), r)
    /\ rtcQueue' = Tail(rtcQueue)
    /\ UNCHANGED <<turn, queue, eventFailure, online, announced, scenario>>

\* With the RTC queue drained, the other queue is waited on for 5 ms.
TakeEvent ==
    /\ turn = "head"
    /\ rtcQueue = <<>>
    /\ queue # <<>>
    /\ \E r \in Answers, some \in BOOLEAN : m' = Dispatch(m, Head(queue), some, r)
    /\ queue' = Tail(queue)
    /\ turn' = "tail"
    /\ UNCHANGED <<rtcQueue, eventFailure, online, announced, scenario>>

NoEvent ==
    /\ turn = "head"
    /\ rtcQueue = <<>>
    /\ queue = <<>>
    /\ turn' = "tail"
    /\ UNCHANGED <<m, queue, rtcQueue, eventFailure, online, announced, scenario>>

RunTail(x) ==
    /\ turn = "tail"
    /\ MayExpire(x)
    /\ \E r \in Answers : m' = LoopTail(m, x, r)
    /\ eventFailure' = FALSE
    /\ turn' = "head"
    /\ UNCHANGED <<queue, rtcQueue, online, announced, scenario>>

Task == TakeRtc \/ TakeEvent \/ NoEvent \/ \E x \in Expiry : RunTail(x)

-----------------------------------------------------------------------------
(* The SDK, through the callbacks of rtc_adapter.c                         *)

\* rtc_event(): a full queue loses the event and raises the failure flag.
EmitRtc(e) ==
    \/ /\ Len(rtcQueue) < RtcCap
       /\ rtcQueue' = Append(rtcQueue, e)
       /\ UNCHANGED eventFailure
    \/ /\ Len(rtcQueue) = RtcCap
       /\ "lost_rtc" \in Faults
       /\ eventFailure' = TRUE
       /\ UNCHANGED rtcQueue

\* What a callback leaves alone.
SdkFrame == UNCHANGED <<turn, queue, online, announced, scenario>>

SdkStarted ==
    /\ m.phase = "starting"
    /\ m' = [m EXCEPT !.phase = "started"]
    /\ EmitRtc([kind |-> "started"])
    /\ SdkFrame

\* A WHIP completes, with a connection or without.
SdkConnected(ok) ==
    /\ m.whip # 0
    /\ ok \in MaySucceedOr("connect")
    /\ m' = [m EXCEPT !.whip = 0, !.live = IF ok THEN m.whip ELSE @]
    /\ EmitRtc([kind |-> "connected",
                gen  |-> m.whip,
                conn |-> IF ok THEN m.whip ELSE 0])
    /\ SdkFrame

\* The peer may signal as soon as the SDK has the connection, which can be
\* before its connected callback has run: generation() then has the WHIP's.
SdkSignal(kind) ==
    /\ kind \in scenario.signals
    /\ \E h \in {m.live, m.whip} \ {0} :
            EmitRtc([kind |-> kind, gen |-> h, conn |-> h])
    /\ UNCHANGED m
    /\ SdkFrame

SdkClosed ==
    /\ m.live # 0
    /\ m.dropping = m.live \/ "drop" \in Faults
    /\ m' = [m EXCEPT !.live = 0, !.dropping = 0]
    /\ EmitRtc([kind |-> "closed", gen |-> m.live, conn |-> m.live])
    /\ SdkFrame

\* Stopping releases everything the SDK still holds; no callback follows.
SdkStopped ==
    /\ m.phase = "stopping"
    /\ m' = [m EXCEPT !.phase = "off", !.whip = 0, !.live = 0, !.dropping = 0]
    /\ EmitRtc([kind |-> "stopped"])
    /\ SdkFrame

SdkAccepted ==
    /\ "foreign" \in Faults
    /\ m.phase = "started"
    /\ m.live = 0
    /\ EmitRtc([kind |-> "unexpected"])
    /\ UNCHANGED m
    /\ SdkFrame

Sdk ==
    \/ SdkStarted
    \/ \E ok \in BOOLEAN : SdkConnected(ok)
    \/ \E kind \in scenario.signals : SdkSignal(kind)
    \/ SdkClosed
    \/ SdkStopped
    \/ SdkAccepted

-----------------------------------------------------------------------------
(* The platform task, the MQTT session and the user                        *)

Enqueue(e) == Len(queue) < QueueCap /\ queue' = Append(queue, e)

\* wechat_voip_platform_event(): an event that is not a message and finds no
\* slot, memory or queue space is lost and raises the failure flag.
Delivered(e) == Enqueue(e) /\ UNCHANGED eventFailure

Lost == "lost_event" \in Faults /\ eventFailure' = TRUE /\ UNCHANGED queue

PlatformEvent(e) == Delivered(e) \/ Lost

PlatformFrame == UNCHANGED <<turn, rtcQueue, scenario>>

\* The platform task finds the MQTT session ready and the network there.
LinkUp ==
    /\ ~online
    /\ announced => Faults \cap {"missed", "network"} # {}
    /\ online' = TRUE
    /\ UNCHANGED <<m, queue, eventFailure, announced>>
    /\ PlatformFrame

\* Only an accepted ONLINE counts as announced.
AnnounceOnline ==
    /\ online /\ ~announced
    /\ \/ Delivered([kind |-> "online"]) /\ announced' = TRUE
       \/ Lost /\ UNCHANGED announced
    /\ UNCHANGED <<m, online>>
    /\ PlatformFrame

\* offline() starts a new epoch: what was requested in the old one fails.
NewEpoch == m' = [m EXCEPT !.expired =
                      m.fetches \cup (IF m.callRequest # 0 THEN {"call"} ELSE {})]

\* The MQTT callback marks the session down and says so; the platform task
\* notices by itself.
LinkDown ==
    /\ "offline" \in Faults
    /\ online
    /\ online' = FALSE
    /\ NewEpoch
    /\ PlatformEvent([kind |-> "offline"])
    /\ UNCHANGED announced
    /\ PlatformFrame

\* The network can be away while the MQTT session outlives it.
NetworkDown ==
    /\ "network" \in Faults
    /\ online
    /\ online' = FALSE
    /\ UNCHANGED <<m, queue, eventFailure, announced>>
    /\ PlatformFrame

NoticeDown ==
    /\ ~online /\ announced
    /\ announced' = FALSE
    /\ UNCHANGED <<m, queue, eventFailure, online>>
    /\ PlatformFrame

Unbind ==
    /\ "unbound" \in Faults
    /\ online
    /\ online' = FALSE
    /\ announced' = FALSE
    /\ NewEpoch
    /\ PlatformEvent([kind |-> "unbound"])
    /\ PlatformFrame

\* process_request(): each request gets one response, a good one only in the
\* epoch it was made in.
MayAnswer(op, ok) ==
    ok \in IF online /\ op \notin m.expired THEN MaySucceedOr("response") ELSE {FALSE}

RespondFetch(op, ok) ==
    /\ op \in m.fetches
    /\ MayAnswer(op, ok)
    /\ PlatformEvent([kind |-> op, ok |-> ok])
    /\ m' = [m EXCEPT !.fetches = @ \ {op}, !.expired = @ \ {op}]
    /\ UNCHANGED <<online, announced>>
    /\ PlatformFrame

RespondCall(result, id) ==
    /\ m.callRequest # 0
    /\ MayAnswer("call", result # "error")
    /\ result = "oversized" => "response" \in Faults
    /\ PlatformEvent([kind   |-> "call_result", gen |-> m.callRequest,
                      result |-> result,        id  |-> id])
    /\ m' = [m EXCEPT !.callRequest = 0, !.expired = @ \ {"call"}]
    /\ UNCHANGED <<online, announced>>
    /\ PlatformFrame

\* Messages that are not accepted are not acknowledged, and come again.
Message(e) ==
    /\ online
    /\ Delivered(e)
    /\ UNCHANGED <<m, online, announced>>
    /\ PlatformFrame

Platform ==
    \/ LinkUp \/ AnnounceOnline \/ LinkDown \/ NetworkDown \/ NoticeDown \/ Unbind
    \/ \E op \in Fetches, ok \in BOOLEAN : RespondFetch(op, ok)
    \/ \E id \in CallIds : RespondCall("ok", id)
    \/ \E result \in {"error", "oversized"} : RespondCall(result, None)
    \/ \E e \in scenario.messages : Message(e)

\* wechat_voip_command()
User(command) ==
    /\ Delivered([kind |-> "user", command |-> command])
    /\ UNCHANGED <<m, online, announced>>
    /\ PlatformFrame

Next == Task \/ Sdk \/ Platform \/ \E command \in scenario.commands : User(command)

Spec == Init /\ [][Next]_vars

-----------------------------------------------------------------------------
(* Fairness.  The task runs; the RTC queue it drains does not refill as    *)
(* fast as it empties it; an armed deadline expires in the end; a start or *)
(* stop the SDK accepted completes; an HTTP request comes to an end; the   *)
(* platform task announces a session it finds up.  Nothing is assumed of a *)
(* WHIP or of a disconnect.                                                *)

ExpiredTail == RunTail([deadline   |-> m.deadline,
                        disconnect |-> m.stage = "closing" \/ eventFailure,
                        close      |-> m.closeDeadline])

Fairness ==
    /\ WF_vars(TakeRtc)
    /\ SF_vars(TakeEvent \/ NoEvent)
    /\ WF_vars(\E x \in Expiry : RunTail(x))
    /\ SF_vars(ExpiredTail)
    /\ SF_vars(AnnounceOnline)
    /\ SF_vars(SdkStarted)
    /\ SF_vars(SdkStopped)
    /\ SF_vars(\E ok \in BOOLEAN : RespondFetch("profile", ok))
    /\ SF_vars(\E ok \in BOOLEAN : RespondFetch("contacts", ok))
    /\ SF_vars(\E result \in {"ok", "error", "oversized"}, id \in CallIds \cup {None} :
                    RespondCall(result, id))

FairSpec == Spec /\ Fairness

-----------------------------------------------------------------------------
(* Properties                                                              *)

\* Every variable holds what the code's types allow.
TypeOK ==
    /\ m \in Machine
    /\ turn \in {"head", "tail"}
    /\ queue \in Seq(PlatformEvents \cup UserEvents) /\ Len(queue) <= QueueCap
    /\ rtcQueue \in Seq(RtcEvents) /\ Len(rtcQueue) <= RtcCap
    /\ eventFailure \in BOOLEAN
    /\ online \in BOOLEAN
    /\ announced \in BOOLEAN
    /\ scenario \in Scenarios

InRtcQueueOf(kind, g) ==
    \E i \in 1 .. Len(rtcQueue) : rtcQueue[i].kind = kind /\ rtcQueue[i].gen = g

\* An event was lost, or something else went so wrong that the SDK is to stop.
GivingUp == eventFailure \/ m.needShutdown

\* voip.c finish(): between calls nothing of a call is left with the control
\* task, however the last one ended.
IdleClean ==
    m.stage = "idle" =>
        /\ ~Unfinished(m)
        /\ m.room = None /\ m.callId = None /\ ~m.payload
        /\ m.audio = 0 /\ ~m.mediaStarted
        /\ ~m.localEnd /\ ~m.told
        /\ ~m.deadline /\ ~m.closeDeadline

\* The microphone is on the line only while the call is active, and on the
\* connection of this call: never on one of an earlier call, never while it is
\* ringing or closing (sample_audio_begin() and every sample_audio_end()).
AudioOnlyActive ==
    m.audio # 0 => m.stage = "active" /\ m.audio = m.connection

\* rtc_connect() gives the SDK pointers it reads until the WHIP completes
\* (rtc_adapter.c: s_peer, s_token): they are never released under it, neither
\* by a late result of an earlier call nor by its closing.
InputsHeld == m.whip # 0 => m.inputs

\* No connection leaks: one the SDK holds is the call's, or is being
\* disconnected, or its arrival is still queued, or the SDK is to be stopped.
NoOrphanConnection ==
    m.live # 0 =>
        \/ m.live \in {m.connection, m.closing, m.dropping}
        \/ InRtcQueueOf("connected", m.live)
        \/ GivingUp

\* Nothing is waited for in vain: a call that waits for a WHIP, a disconnect
\* or the SDK's stop has something under way that ends the wait.
WaitsAreServed ==
    /\ m.connectPending =>
            m.whip = m.generation \/ InRtcQueueOf("connected", m.generation) \/ GivingUp
    /\ m.closing # 0 =>
            m.dropping = m.closing \/ InRtcQueueOf("closed", m.closing) \/ GivingUp
    /\ m.connection # 0 =>
            m.live = m.connection \/ InRtcQueueOf("closed", m.connection) \/ GivingUp

\* Every stage that waits for somebody else has its deadline armed.
WaitHasDeadline ==
    \/ m.stage \in {"idle", "closing"}
    \/ m.stage = "active" /\ m.mediaStarted
    \/ m.deadline

\* The SDK is stopped only when no call uses it, and a call only runs on a
\* started SDK (the stop of task() against incoming(), dial() and answer).
StopQuiesces ==
    /\ m.stage \notin {"idle", "closing"} => m.sdkReady /\ ~m.sdkStopping
    /\ m.sdkStopping => m.needShutdown /\ m.sdkInitialized
    /\ m.whip # 0 \/ m.live # 0 => m.phase \in {"started", "stopping"}

\* A connection a local hangup takes down has had the HANGUP command first;
\* one the peer or an error takes down has not (end_call, RTC_CONNECTED).
HangupTold ==
    m.stage = "closing" /\ (m.connection # 0 \/ m.closing # 0) => m.told = m.localEnd

\* Where a call is in its life, in each stage.
LifePhase(stage) ==
    CASE stage = "idle"                           -> "none"
      [] stage \in {"dialing", "ringing"}         -> "inviting"
      [] stage \in {"connecting", "waiting_peer"} -> "joining"
      [] stage = "active"                         -> "talking"
      [] stage = "closing"                        -> "ending"

\* The call's life as CallLife states it.
Life == INSTANCE CallLife WITH
    phase   <- LifePhase(m.stage),
    session <- m.generation,
    audio   <- m.audio # 0

\* The control task implements CallLife: a late event, of this call or of an
\* earlier one, never revives a call that is ending.
LifeSpec == Life!Spec

\* A call that is closing is over in the end: whatever the SDK fails to
\* complete, the deadlines lead to a stop of the SDK, which frees everything.
ClosingEnds == (m.stage = "closing") ~> (m.stage = "idle")

\* A stop of the SDK completes, and the task learns it (RTC_STOPPED).
StopCompletes == m.sdkStopping ~> ~m.sdkStopping

\* What the README says of the release of a call's resources: with the call
\* over and no RTC event left to handle, the WHIP inputs are free.
InputsReleased == m.stage = "idle" /\ rtcQueue = <<>> => ~m.inputs

\* When the MQTT session is back for good after outages or an unbinding, a
\* device that has made no call is ready for one again: every stop under way is
\* followed by the restart it owes, and the profile is set once more (the online
\* event, resumeAfterStop, the dirty flags).
NetworkRecovers == [](m.generation = 0) /\ <>[]online => []<>Ready(m)
=============================================================================
