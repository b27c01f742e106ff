----------------------------- MODULE S3Session -----------------------------
(***************************************************************************)
(* The call session of the ESP32-S3 WeChat VoIP example                    *)
(*   main/tirtc/wechat_voip_session.c                                      *)
(* with the callback queue in front of it (tirtc_app.c), the media task it *)
(* starts and stops (wechat_voip_media.c) and the BOOT key that drives it  *)
(* (app_main.c).                                                           *)
(*                                                                         *)
(* Seven tasks share one session under a mutex, and none of them holds the *)
(* mutex across a call into the SDK, a queue or the media task.  So a      *)
(* handler is a locked section followed by what it does once unlocked: the *)
(* section is one step, which also leaves in todo[task] the sequence of    *)
(* things still to do, and each of those is a step of its own, with the    *)
(* other tasks running in between.                                         *)
(*                                                                         *)
(* A call is the number of the invitation that brought it, and so is the   *)
(* connection a WHIP for it opens.  Deadlines and delays are modelled by   *)
(* whether they are running: they may end at any time.                     *)
(***************************************************************************)
EXTENDS Integers, Sequences, FiniteSets

CONSTANTS
    MaxCalls,       \* invitations in a behaviour
    Scenarios,      \* the environments the device may find itself in
    WorkCap,        \* VOIP_WORK_QUEUE_LEN (8)
    InboxCap        \* TIRTC_CALLBACK_QUEUE_LEN (24)

Calls      == 1 .. MaxCalls
CallOrNone == 0 .. MaxCalls

Signals == {"connected",    \* TIRTC_VOIP_CALL_CONNECTED
            "hangup",       \* TIRTC_VOIP_HANGUP
            "error"}        \* on_conn_error()

FaultKinds == {"whip",      \* a WHIP is refused, or fails
               "release",   \* TiRtcDisconnect() fails
               "media"}     \* the media task cannot be created

\* What the environment of one behaviour may do, and how often.
ScenarioKinds ==
    [calls   : CallOrNone,      \* invitations
     auto    : SUBSET BOOLEAN,  \* of a WeChat user, or to a call of the device's
     short   : Nat,             \* presses of the BOOT key
     long    : Nat,
     cancels : Nat,             \* cancellations by the WeChat side
     signals : SUBSET Signals,
     faults  : SUBSET FaultKinds]

ASSUME SessionAssumption ==
    /\ MaxCalls \in Nat \ {0}
    /\ Scenarios \subseteq ScenarioKinds
    /\ WorkCap \in Nat \ {0}
    /\ InboxCap \in Nat \ {0}

VARIABLES
    s,          \* s_session, s_answer_pending
    answering,  \* s_answer_worker_task: the call it was created for, 0 for NULL
    work,       \* s_work_queue
    media,      \* s_media_conn and s_media_task
    inbox,      \* s_callback_queue
    todo,       \* what each task has still to do, its mutex released
    sdk,        \* the SDK's side of each connection
    env,        \* what the environment has done and may still do
    past        \* what the properties remember

vars == <<s, answering, work, media, inbox, todo, sdk, env, past>>

States == {"idle", "ringing", "connecting", "awaiting", "in_call", "closing"}

Session == [ state   : States,
             conn    : CallOrNone,      \* hconn
             call    : CallOrNone,      \* wx_room_id, peer_id, token
             armed   : BOOLEAN,         \* deadline_us > 0
             pending : BOOLEAN ]        \* s_answer_pending

Idle == [state |-> "idle", conn |-> 0, call |-> 0, armed |-> FALSE, pending |-> FALSE]

Items ==
         [type : {"disconnect"}, conn : Calls, only : BOOLEAN]
    \cup [type : {"hangup"}, conn : Calls]
    \cup [type : {"reject"}, call : CallOrNone]

Media == [conn : CallOrNone, task : {"none", "sending", "leaving"}]

Events == [kind : Signals \cup {"disconnected"}, conn : Calls]

Links == {"none", "asked", "opened", "open", "leaving", "closed"}

\* The task that runs main(), the one of the BOOT key, the WebSocket's, the
\* callback task, the SDK's thread, the answer task and the work task.
Tasks == {"main", "boot", "socket", "callback", "sdk", "answer", "work"}

Env == [ calls : CallOrNone,                     \* the last invitation
         sent  : SUBSET (Signals \X Calls),
         left  : ScenarioKinds ]

Past == [ crossed : BOOLEAN,        \* a call has met what was another call's
          unserved : SUBSET Calls,  \* its disconnect was refused, by queue or SDK
          unheard : BOOLEAN ]       \* a DISCONNECTED found the inbox full

------------------------------------------------------------------------------
(* What a task does once it has released the mutex                         *)

Post(item)       == [do |-> "post", item |-> item]          \* enqueue_work()
PostOrStop(item) == [do |-> "post or stop", item |-> item]
Stop(c)          == [do |-> "stop", conn |-> c]             \* wechat_voip_media_stop()
Start(c)         == [do |-> "start", conn |-> c]            \* wechat_voip_media_start()
Connected(c)     == [do |-> "connected", conn |-> c]
HungUp(c)        == [do |-> "hung up", conn |-> c]
Whip(n)          == [do |-> "whip", conn |-> n]             \* TiRtcWhipConnect()
Tell(c)          == [do |-> "tell", conn |-> c]
Quiet(c, only)   == [do |-> "quiet", conn |-> c, only |-> only]
Release(c, only) == [do |-> "release", conn |-> c, only |-> only]
Spawn(n)         == [do |-> "spawn", conn |-> n]            \* start_answer_worker()
Just(what)       == [do |-> what]

Steps ==
         [do : {"post"}, item : Items]
    \cup [do : {"post or stop"}, item : [type : {"hangup"}, conn : Calls]]
    \cup [do : {"stop", "start", "connected", "hung up", "whip", "tell", "spawn"},
          conn : Calls]
    \cup [do : {"quiet", "release"}, conn : Calls, only : BOOLEAN]
    \cup [do : {"ask", "roll back", "closing?", "idle?", "hang up", "reject",
                "answer", "answered"}]

Disconnect(c, only) == [type |-> "disconnect", conn |-> c, only |-> only]
Hangup(c)           == [type |-> "hangup", conn |-> c]
Reject(n)           == [type |-> "reject", call |-> n]

\* disconnect_later() and reject_later()
DisconnectLater(c, only) == <<Post(Disconnect(c, only))>>
RejectLater(n)           == <<Post(Reject(n))>>

------------------------------------------------------------------------------
(* Locked sections: what becomes of the session, and what is then to do     *)

Outcome(session, then) == [session |-> session, then |-> then]

\* finish_session_locked(): the answer asked for is forgotten, its task is not.
Finished(x) == Idle

\* begin_close_locked()
BeginClose(x) ==
    [x EXCEPT !.state = "closing", !.pending = FALSE, !.armed = TRUE]

\* wechat_voip_session_handle_join_room(), for call n
Ringing(n) == [Idle EXCEPT !.state = "ringing", !.call = n, !.armed = TRUE]

JoinRoom(x, n, auto) ==
    IF x.state # "idle"
    THEN Outcome(x, RejectLater(n))
    ELSE Outcome(Ringing(n), IF auto THEN <<Just("ask")>> ELSE <<>>)

\* wechat_voip_session_cancel_by_room()
CancelByRoom(x, n) ==
    IF x.state = "idle" \/ x.call # n THEN Outcome(x, <<>>)
    ELSE IF x.conn # 0
    THEN Outcome(BeginClose(x), <<Stop(x.conn)>> \o DisconnectLater(x.conn, TRUE))
    ELSE Outcome(Finished(x), <<>>)

\* wechat_voip_session_hangup()
HangupSession(x) ==
    CASE x.state \in {"idle", "closing"} -> Outcome(x, <<>>)
      [] x.state \notin {"idle", "closing"} /\ x.conn # 0 ->
            Outcome(BeginClose(x), <<PostOrStop(Hangup(x.conn))>>)
      [] OTHER -> Outcome(Finished(x), RejectLater(x.call))

\* Mutant: a closing session is not retried.
MaintainedOnce(x) ==
    IF x.state = "closing" THEN Outcome([x EXCEPT !.armed = FALSE], <<>>)
    ELSE IF x.conn = 0
    THEN Outcome(Finished(x), RejectLater(x.call))
    ELSE Outcome(BeginClose(x), <<Post(Hangup(x.conn))>>)

\* wechat_voip_session_maintenance(), once the deadline has passed
Maintained(x) ==
    IF x.state = "closing"
    THEN Outcome(x, <<Stop(x.conn)>> \o DisconnectLater(x.conn, TRUE))
    ELSE IF x.conn = 0
    THEN Outcome(Finished(x), RejectLater(x.call))
    ELSE Outcome(BeginClose(x), <<Post(Hangup(x.conn))>>)

\* on_whip_connect(): whatever the session is, it is taken for the WHIP's.
WhipFailed(x) == Outcome(Finished(x), RejectLater(x.call))

\* Mutant: a connection that comes too late is forgotten.
WhipConnectedLeaky(x, c) ==
    IF x.state = "connecting"
    THEN Outcome([x EXCEPT !.conn = c, !.state = "awaiting", !.armed = TRUE], <<>>)
    ELSE Outcome(x, <<>>)

WhipConnected(x, c) ==
    IF x.state = "connecting"
    THEN Outcome([x EXCEPT !.conn = c, !.state = "awaiting", !.armed = TRUE], <<>>)
    ELSE IF x.state \in {"awaiting", "in_call"} /\ x.conn = c
    THEN Outcome(x, <<>>)
    ELSE Outcome(x, DisconnectLater(c, FALSE))

\* answer_current_call(), up to TiRtcWhipConnect()
AnswerCurrent(x) ==
    IF x.state # "ringing" THEN Outcome(x, <<>>)
    ELSE Outcome([x EXCEPT !.state = "connecting", !.armed = TRUE], <<Whip(x.call)>>)

\* The first section of start_answer_task(), and what its caller does when
\* there was nothing to answer.
NotAnswered(t) == IF t = "boot" THEN <<Just("closing?")>> ELSE <<>>

StartAnswer(x, t) ==
    IF x.state # "ringing" THEN Outcome(x, NotAnswered(t))
    ELSE IF x.pending THEN Outcome(x, <<>>)
    ELSE Outcome([x EXCEPT !.pending = TRUE], <<Spawn(x.call)>>)

\* wechat_voip_session_on_command(), its first section
Adopts(x, e) ==
    /\ x.conn = 0
    /\ x.state \in {"connecting", "awaiting"}
    /\ e.kind \in {"connected", "hangup"}

OnCommand(x, e) ==
    LET y == IF Adopts(x, e) THEN [x EXCEPT !.conn = e.conn] ELSE x
    IN  Outcome(y, IF y.conn # e.conn THEN <<>>
                   ELSE IF e.kind = "connected" THEN <<Connected(e.conn)>>
                   ELSE <<HungUp(e.conn)>>)

\* Its second section for CALL_CONNECTED: the media start whatever it found.
CallConnected(x, c) ==
    Outcome(IF x.state \in {"awaiting", "connecting"}
            THEN [x EXCEPT !.state = "in_call", !.armed = FALSE]
            ELSE x,
            <<Start(c)>>)

\* Mutant: the peer's word is taken for the end of the connection.
PeerHungUpAtOnce(x, c) == Outcome(Finished(x), DisconnectLater(c, TRUE))

\* Its second section for HANGUP
PeerHungUp(x, c) ==
    Outcome(IF x.conn = c THEN BeginClose(x) ELSE Finished(x), DisconnectLater(c, TRUE))

\* wechat_voip_session_on_conn_error(); what is not the call's is released at
\* once, by handle_callback_event().
OnConnError(x, c) ==
    IF x.conn = c
    THEN Outcome(Finished(x), <<Stop(c)>> \o DisconnectLater(c, FALSE))
    ELSE Outcome(x, <<Release(c, FALSE)>>)

\* Mutant: the media are left alone.
OnDisconnectedLoud(x, c) ==
    IF x.conn = c THEN Outcome(Finished(x), <<>>) ELSE Outcome(x, <<>>)

\* wechat_voip_session_on_disconnected()
OnDisconnected(x, c) ==
    IF x.conn = c THEN Outcome(Finished(x), <<Stop(c)>>) ELSE Outcome(x, <<>>)

------------------------------------------------------------------------------
(* The steps of the tasks                                                  *)

Idling(t) == todo[t] = <<>>

\* Task t runs a locked section and then has o.then and rest to do.
Section(t, o, rest) ==
    /\ s' = o.session
    /\ todo' = [todo EXCEPT ![t] = o.then \o rest]

AtStep(t, what) == ~Idling(t) /\ Head(todo[t]).do = what

Rest(t)     == Tail(todo[t])
Carry(t)    == todo' = [todo EXCEPT ![t] = Rest(t)]
ConnOf(t)   == Head(todo[t]).conn

\* A call is met by what was another call's.
Crosses(n) == s.state # "idle" /\ s.call # n

Fails(fault) == fault \in env.left.faults

Remembers(crossed) == past' = [past EXCEPT !.crossed = @ \/ crossed]

\* app_main()'s loop
Maintain ==
    /\ Idling("main")
    /\ s.armed
    /\ Section("main", Maintained(s), <<>>)
    /\ UNCHANGED <<answering, work, media, inbox, sdk, env, past>>

\* handle_boot_short_press() and handle_boot_long_press(): maintenance first.
Press(first) ==
    /\ Idling("boot")
    /\ \/ Section("boot", Outcome(s, <<>>), <<Just(first)>>)
       \/ s.armed /\ Section("boot", Maintained(s), <<Just(first)>>)
    /\ UNCHANGED <<answering, work, media, inbox, sdk, past>>

ShortPress ==
    /\ env.left.short > 0
    /\ env' = [env EXCEPT !.left.short = @ - 1]
    /\ Press("ask")

LongPress ==
    /\ env.left.long > 0
    /\ env' = [env EXCEPT !.left.long = @ - 1]
    /\ Press("reject")

\* An invitation over the WebSocket, auto for a call the device has asked for
Invite(auto) ==
    /\ Idling("socket")
    /\ env.left.calls > env.calls
    /\ auto \in env.left.auto
    /\ env' = [env EXCEPT !.calls = @ + 1]
    /\ Section("socket", JoinRoom(s, env.calls + 1, auto), <<>>)
    /\ UNCHANGED <<answering, work, media, inbox, sdk, past>>

Cancel(n) ==
    /\ Idling("socket")
    /\ env.left.cancels > 0
    /\ n <= env.calls
    /\ env' = [env EXCEPT !.left.cancels = @ - 1]
    /\ Section("socket", CancelByRoom(s, n), <<>>)
    /\ UNCHANGED <<answering, work, media, inbox, sdk, past>>

\* callback_task() and handle_callback_event()
Callback ==
    /\ Idling("callback")
    /\ inbox # <<>>
    /\ inbox' = Tail(inbox)
    /\ LET e == Head(inbox) IN
       /\ Section("callback",
                  CASE e.kind \in {"connected", "hangup"} -> OnCommand(s, e)
                    [] e.kind = "error"                   -> OnConnError(s, e.conn)
                    [] e.kind = "disconnected"            -> OnDisconnected(s, e.conn),
                  <<>>)
       /\ Remembers(Adopts(s, e) /\ Crosses(e.conn))
    /\ UNCHANGED <<answering, work, media, sdk, env>>

AfterConnected ==
    /\ AtStep("callback", "connected")
    /\ Section("callback", CallConnected(s, ConnOf("callback")), Rest("callback"))
    /\ UNCHANGED <<answering, work, media, inbox, sdk, env, past>>

AfterHungUp ==
    /\ AtStep("callback", "hung up")
    /\ Section("callback", PeerHungUp(s, ConnOf("callback")), Rest("callback"))
    /\ Remembers(s.conn # ConnOf("callback") /\ s.state # "idle")
    /\ UNCHANGED <<answering, work, media, inbox, sdk, env>>

\* on_whip_connect(), on the SDK's thread
WhipSucceeds(c) ==
    /\ Idling("sdk")
    /\ sdk[c] = "opened"
    /\ sdk' = [sdk EXCEPT ![c] = "open"]
    /\ Section("sdk", WhipConnected(s, c), <<>>)
    /\ Remembers(s.state = "connecting" /\ Crosses(c))
    /\ UNCHANGED <<answering, work, media, inbox, env>>

WhipFails(c) ==
    /\ Idling("sdk")
    /\ sdk[c] = "asked"
    /\ Fails("whip")
    /\ sdk' = [sdk EXCEPT ![c] = "closed"]
    /\ Section("sdk", WhipFailed(s), <<>>)
    /\ Remembers(Crosses(c))
    /\ UNCHANGED <<answering, work, media, inbox, env>>

\* start_answer_task(), for the key and for the invitation of an active call
Ask(t) ==
    /\ AtStep(t, "ask")
    /\ Section(t, StartAnswer(s, t), Rest(t))
    /\ UNCHANGED <<answering, work, media, inbox, sdk, env, past>>

\* start_answer_worker(): refused while an answer task exists, whatever its call.
SpawnAnswer(t) ==
    /\ AtStep(t, "spawn")
    /\ IF answering = 0
       THEN /\ answering' = ConnOf(t)
            /\ todo' = [todo EXCEPT ![t] = Rest(t), !["answer"] = <<Just("answer"), Just("answered")>>]
       ELSE /\ todo' = [todo EXCEPT ![t] = <<Just("roll back")>> \o NotAnswered(t) \o Rest(t)]
            /\ UNCHANGED answering
    /\ UNCHANGED <<s, work, media, inbox, sdk, env, past>>

RollBack(t) ==
    /\ AtStep(t, "roll back")
    /\ Section(t, Outcome([s EXCEPT !.pending = FALSE], <<>>), Rest(t))
    /\ UNCHANGED <<answering, work, media, inbox, sdk, env, past>>

\* answer_task(), its delay over
Answer ==
    /\ AtStep("answer", "answer")
    /\ Section("answer", AnswerCurrent(s), Rest("answer"))
    /\ UNCHANGED <<answering, work, media, inbox, sdk, env, past>>

\* The rest of answer_current_call()
WhipAccepted ==
    /\ AtStep("answer", "whip")
    /\ sdk' = [sdk EXCEPT ![ConnOf("answer")] = "asked"]
    /\ Carry("answer")
    /\ UNCHANGED <<s, answering, work, media, inbox, env, past>>

WhipRefused ==
    /\ AtStep("answer", "whip")
    /\ Fails("whip")
    /\ Section("answer", WhipFailed(s), Rest("answer"))
    /\ Remembers(Crosses(ConnOf("answer")))
    /\ UNCHANGED <<answering, work, media, inbox, sdk, env>>

\* Mutant: the request that was served stays.
AnswerDoneForgetful ==
    /\ AtStep("answer", "answered")
    /\ Carry("answer")
    /\ answering' = 0
    /\ UNCHANGED <<s, work, media, inbox, sdk, env, past>>

AnswerDone ==
    /\ AtStep("answer", "answered")
    /\ Section("answer", Outcome([s EXCEPT !.pending = FALSE], <<>>), Rest("answer"))
    /\ answering' = 0
    /\ UNCHANGED <<work, media, inbox, sdk, env, past>>

\* The rest of handle_boot_short_press() and handle_boot_long_press()
AskClosing ==
    /\ AtStep("boot", "closing?")
    /\ todo' = [todo EXCEPT !["boot"] = IF s.state = "closing" THEN <<>> ELSE <<Just("idle?")>>]
    /\ UNCHANGED <<s, answering, work, media, inbox, sdk, env, past>>

AskIdle ==
    /\ AtStep("boot", "idle?")
    /\ todo' = [todo EXCEPT !["boot"] = IF s.state = "idle" THEN <<>> ELSE <<Just("hang up")>>]
    /\ UNCHANGED <<s, answering, work, media, inbox, sdk, env, past>>

HangUp ==
    /\ AtStep("boot", "hang up")
    /\ Section("boot", HangupSession(s), Rest("boot"))
    /\ UNCHANGED <<answering, work, media, inbox, sdk, env, past>>

\* wechat_voip_session_reject_incoming()
RejectIncoming ==
    /\ AtStep("boot", "reject")
    /\ Section("boot", IF s.state = "ringing"
                       THEN Outcome(Finished(s), RejectLater(s.call))
                       ELSE Outcome(s, <<Just("idle?")>>),
               Rest("boot"))
    /\ UNCHANGED <<answering, work, media, inbox, sdk, env, past>>

\* enqueue_work(): a full queue refuses.
Enqueue(t) ==
    /\ ~Idling(t)
    /\ Head(todo[t]).do \in {"post", "post or stop"}
    /\ LET item == Head(todo[t]).item
           full == Len(work) >= WorkCap
           stop == full /\ AtStep(t, "post or stop")
       IN  /\ work' = IF full THEN work ELSE Append(work, item)
           /\ todo' = [todo EXCEPT ![t] = IF stop THEN <<Stop(item.conn)>> \o Rest(t) ELSE Rest(t)]
           /\ past' = IF full /\ item.type = "disconnect"
                      THEN [past EXCEPT !.unserved = @ \cup {item.conn}] ELSE past
    /\ UNCHANGED <<s, answering, media, inbox, sdk, env>>

------------------------------------------------------------------------------
(* The work task: voip_work_task()                                         *)

\* connection_is_current()
Current(c) == s.conn = c /\ s.state # "idle"

TakeWork ==
    /\ Idling("work")
    /\ work # <<>>
    /\ work' = Tail(work)
    /\ LET item == Head(work) IN
       todo' = [todo EXCEPT !["work"] =
                    CASE item.type = "hangup"     -> <<Tell(item.conn), Release(item.conn, TRUE)>>
                      [] item.type = "disconnect" -> <<Quiet(item.conn, item.only)>>
                      [] item.type = "reject"     -> <<>>]
    /\ UNCHANGED <<s, answering, media, inbox, sdk, env, past>>

\* VOIP_WORK_HANGUP: the media stop and the peer is told, then comes the delay.
TellPeer ==
    /\ AtStep("work", "tell")
    /\ todo' = [todo EXCEPT !["work"] =
                    IF Current(ConnOf("work")) THEN <<Stop(ConnOf("work"))>> \o Rest("work")
                    ELSE Rest("work")]
    /\ UNCHANGED <<s, answering, work, media, inbox, sdk, env, past>>

\* VOIP_WORK_DISCONNECT
QuietFirst ==
    /\ AtStep("work", "quiet")
    /\ LET c    == ConnOf("work")
           only == Head(todo["work"]).only
       IN  todo' = [todo EXCEPT !["work"] =
                        IF only /\ ~Current(c) THEN <<>> ELSE <<Stop(c), Release(c, only)>>]
    /\ UNCHANGED <<s, answering, work, media, inbox, sdk, env, past>>

\* TiRtcDisconnect(), by the work task or by the callback task: it may fail, and
\* its result is not looked at.
ReleaseConn(t) ==
    /\ AtStep(t, "release")
    /\ Carry(t)
    /\ LET c == ConnOf(t) IN
       IF (Head(todo[t]).only /\ ~Current(c)) \/ sdk[c] \notin {"opened", "open"}
       THEN UNCHANGED <<sdk, past>>
       ELSE \/ sdk' = [sdk EXCEPT ![c] = "leaving"] /\ UNCHANGED past
            \/ /\ Fails("release")
               /\ c \notin past.unserved
               /\ past' = [past EXCEPT !.unserved = @ \cup {c}]
               /\ UNCHANGED sdk
    /\ UNCHANGED <<s, answering, work, media, inbox, env>>

------------------------------------------------------------------------------
(* The media: wechat_voip_media.c                                          *)

\* wechat_voip_media_start(): a task that is about to end counts as running.
StartMedia ==
    /\ AtStep("callback", "start")
    /\ Carry("callback")
    /\ LET c == ConnOf("callback") IN
       \/ media' = IF media.task # "none" THEN [media EXCEPT !.conn = c]
                   ELSE [conn |-> c, task |-> "sending"]
       \/ /\ Fails("media")
          /\ media.task = "none"              \* the task cannot be created
          /\ media' = [conn |-> 0, task |-> "none"]
    /\ UNCHANGED <<s, answering, work, inbox, sdk, env, past>>

\* wechat_voip_media_stop()
StopMedia(t) ==
    /\ AtStep(t, "stop")
    /\ Carry(t)
    /\ media' = IF media.conn = ConnOf(t) THEN [media EXCEPT !.conn = 0] ELSE media
    /\ UNCHANGED <<s, answering, work, inbox, sdk, env, past>>

\* pcma_task(): it finds no connection, and then takes its leave.
MediaLeaves ==
    /\ media.task = "sending"
    /\ media.conn = 0
    /\ media' = [media EXCEPT !.task = "leaving"]
    /\ UNCHANGED <<s, answering, work, inbox, todo, sdk, env, past>>

MediaGone ==
    /\ media.task = "leaving"
    /\ media' = [media EXCEPT !.task = "none"]
    /\ UNCHANGED <<s, answering, work, inbox, todo, sdk, env, past>>

------------------------------------------------------------------------------
(* The SDK                                                                 *)

\* Mutant: the queue takes one too many.
PostEventOver(kind, c) ==
    LET full == Len(inbox) > InboxCap
    IN  /\ inbox' = IF full THEN inbox ELSE Append(inbox, [kind |-> kind, conn |-> c])
        /\ past' = [past EXCEPT !.unheard = @ \/ (full /\ kind = "disconnected")]

\* post_callback_event(): what finds the queue full is dropped.
PostEvent(kind, c) ==
    LET full == Len(inbox) >= InboxCap
    IN  /\ inbox' = IF full THEN inbox ELSE Append(inbox, [kind |-> kind, conn |-> c])
        /\ past' = [past EXCEPT !.unheard = @ \/ (full /\ kind = "disconnected")]

\* A WHIP opens its connection; the callback that says so is still to come.
LinkOpens(c) ==
    /\ sdk[c] = "asked"
    /\ sdk' = [sdk EXCEPT ![c] = "opened"]
    /\ UNCHANGED <<s, answering, work, media, inbox, todo, env, past>>

\* A command may precede that callback; after an error nothing comes any more.
Signal(kind, c) ==
    /\ sdk[c] \in (IF kind = "error" THEN {"open"} ELSE {"opened", "open"})
    /\ kind \in env.left.signals
    /\ <<kind, c>> \notin env.sent
    /\ <<"error", c>> \notin env.sent
    /\ kind = "connected" => <<"hangup", c>> \notin env.sent
    /\ env' = [env EXCEPT !.sent = @ \cup {<<kind, c>>}]
    /\ PostEvent(kind, c)
    /\ UNCHANGED <<s, answering, work, media, todo, sdk>>

\* on_disconnected(), some time after TiRtcDisconnect()
LinkCloses(c) ==
    /\ sdk[c] = "leaving"
    /\ sdk' = [sdk EXCEPT ![c] = "closed"]
    /\ PostEvent("disconnected", c)
    /\ UNCHANGED <<s, answering, work, media, todo, env>>

------------------------------------------------------------------------------

Init ==
    /\ s = Idle
    /\ answering = 0
    /\ work = <<>>
    /\ media = [conn |-> 0, task |-> "none"]
    /\ inbox = <<>>
    /\ todo = [t \in Tasks |-> <<>>]
    /\ sdk = [c \in Calls |-> "none"]
    /\ env \in {[calls |-> 0, sent |-> {}, left |-> x] : x \in Scenarios}
    /\ past = [crossed |-> FALSE, unserved |-> {}, unheard |-> FALSE]

\* What task t goes on with
Continue(t) ==
    \/ t = "callback" /\ (AfterConnected \/ AfterHungUp \/ StartMedia)
    \/ t \in {"boot", "socket"} /\ (Ask(t) \/ SpawnAnswer(t) \/ RollBack(t))
    \/ t = "answer" /\ (Answer \/ WhipAccepted \/ WhipRefused \/ AnswerDone)
    \/ t = "boot" /\ (AskClosing \/ AskIdle \/ HangUp \/ RejectIncoming)
    \/ t = "work" /\ (TellPeer \/ QuietFirst)
    \/ t \in {"work", "callback"} /\ ReleaseConn(t)
    \/ Enqueue(t)
    \/ StopMedia(t)

\* What task t does unasked
Run(t) ==
    \/ t = "main" /\ Maintain
    \/ t = "callback" /\ Callback
    \/ t = "work" /\ TakeWork
    \/ Continue(t)

Pcma == MediaLeaves \/ MediaGone

Device == Pcma \/ \E t \in Tasks : Run(t)

Environment ==
    \/ ShortPress
    \/ LongPress
    \/ \E auto \in BOOLEAN : Invite(auto)
    \/ \E n \in Calls : Cancel(n)
    \/ \E c \in Calls : LinkOpens(c) \/ WhipSucceeds(c) \/ WhipFails(c) \/ LinkCloses(c)
    \/ \E kind \in Signals, c \in Calls : Signal(kind, c)

Next == Device \/ Environment

Spec == Init /\ [][Next]_vars

\* The scheduler runs every task that can run, the loop of app_main() comes
\* round each second, and the SDK completes every TiRtcDisconnect().
Fairness ==
    /\ WF_vars(Pcma)
    /\ \A t \in Tasks : WF_vars(Run(t))
    /\ \A c \in Calls : WF_vars(LinkCloses(c))

FairSpec == Spec /\ Fairness

------------------------------------------------------------------------------
(* Properties                                                              *)

TypeOK ==
    /\ s \in Session
    /\ answering \in CallOrNone
    /\ work \in Seq(Items) /\ Len(work) <= WorkCap
    /\ media \in Media
    /\ inbox \in Seq(Events) /\ Len(inbox) <= InboxCap
    /\ todo \in [Tasks -> Seq(Steps)]
    /\ sdk \in [Calls -> Links]
    /\ env \in Env
    /\ past \in Past

\* Something is going to disconnect c, session or no session.
WillRelease(c) ==
    \/ \E i \in 1 .. Len(work) : work[i] = Disconnect(c, FALSE)
    \/ \E t \in Tasks : \E i \in 1 .. Len(todo[t]) :
            todo[t][i] \in {Post(Disconnect(c, FALSE)), Quiet(c, FALSE), Release(c, FALSE)}

\* on_whip_connect(), on_conn_error(), voip_work_task(): a connection the SDK
\* has handed over is the session's, or its release is under way.  It is left
\* open only where a disconnect was refused, which nothing retries, or where a
\* call has met what was another's.
NoConnectionLeft ==
    \A c \in Calls : sdk[c] = "open" =>
        \/ s.conn = c
        \/ WillRelease(c)
        \/ c \in past.unserved
        \/ past.crossed

\* wechat_voip_media_start() and _stop(): the sample audio is on the line of the
\* session's own connection, confirmed or closing, and never outlives it, though
\* it is started and stopped with no lock held.
AudioWithItsCall ==
    media.conn # 0 /\ Idling("callback") =>
        \/ s.conn = media.conn /\ s.state \in {"in_call", "closing"}
        \/ past.crossed

\* s_answer_pending makes every further press a no-op (start_answer_task()), so
\* it is set only while a task is there to serve it, or about to be, or it is
\* being taken back.
PendingIsServed ==
    s.pending =>
        \/ answering # 0
        \/ \E t \in Tasks : AtStep(t, "spawn") \/ AtStep(t, "roll back")

\* wechat_voip_session_maintenance(): the session does not stay in the states it
\* is only passing through, nor go from one to another for ever: every wait ends,
\* and what is closing is disconnected again and again until the SDK has said so,
\* unless that word was lost.
Passing == States \ {"idle", "in_call"}

WaitsEnd == s.state \in Passing ~> s.state \notin Passing \/ past.unheard

\* wechat_voip_session_ready_for_next_call(), its guard interval left out
Ready ==
    /\ s = Idle
    /\ answering = 0
    /\ Idling("work") /\ work = <<>>
    /\ media = [conn |-> 0, task |-> "none"]

\* A device whose call is over becomes ready for the next one.
BecomesReady == s.state = "idle" ~> Ready \/ s.state # "idle" \/ past.crossed

\* answer_task(): "one answer task per invitation, deleted at its end, so that
\* nothing of it is left for another call": only the answer to a call answers it.
AnsweredAsAsked ==
    [][s.state = "ringing" /\ s'.state = "connecting" => answering = s.call]_vars

\* on_whip_connect(): a connection that comes when its session is over is
\* released.
ConnectionIsItsOwn == s.conn \in {0, s.call}
=============================================================================
