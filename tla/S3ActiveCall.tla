---------------------------- MODULE S3ActiveCall ----------------------------
(***************************************************************************)
(* The call that the ESP32-S3 example makes to a WeChat user:              *)
(*   main/tirtc/wechat_voip_ws.c, the request and the wait for its answer; *)
(*   main/app_main.c, the BOOT key and the call remembered for later.      *)
(*                                                                         *)
(* A request is posted by a worker of its own, and is answered by an       *)
(* invitation that arrives on the WebSocket.  Five tasks read and write    *)
(* its record, each under a lock that none of them holds from one test to  *)
(* the next: every locked section is a step here.  A request is known by   *)
(* the sequence number it began with; the call session (S3Session) is      *)
(* reduced to what these tasks ask of it.                                  *)
(***************************************************************************)
EXTENDS Integers, Sequences, FiniteSets

CONSTANTS
    MaxStrangers,   \* calls of WeChat users, which no request brought
    CallScenarios   \* what the environment of one behaviour may do, and how often

\* A call of a WeChat user has a negative number, a request its sequence number.
Strangers == -MaxStrangers .. -1

ScenarioKinds ==
    [short     : Nat,                  \* presses of the BOOT key
     long      : Nat,
     drops     : Nat,                  \* losses of the business connection
     strangers : SUBSET Strangers]     \* calls

ASSUME ActiveCallAssumption ==
    /\ MaxStrangers \in Nat
    /\ CallScenarios \subseteq ScenarioKinds

VARIABLES
    call,       \* s_active_call_state, _seq and _deadline_us
    pending,    \* s_pending_boot_call
    notified,   \* the worker's notification value, 0 when it has taken it
    worker,     \* active_call_task()
    doing,      \* what the tasks of the key and of main() are about to do
    line,       \* s_connected
    mail,       \* s_ws_msg_queue, of the messages that concern a call
    message,    \* the message that ws_msg_task() has not finished with
    session,    \* the call session
    rung,       \* requests for which the WeChat user's phone rings
    left,       \* what the environment may still do
    past        \* what the properties remember

callVars == <<call, pending, notified, worker, doing, line, mail, message,
              session, rung, left, past>>

\* The tasks that start calls: boot_action_task() and app_main()'s loop
Starters == {"boot", "main"}

Stages == {"rest", "answer?", "closing?", "idle?", "busy?", "reject?", "give up?",
           "cancel?", "hang up", "cancel", "free?", "connected?", "ready?",
           "connected again?", "ready again?", "begin", "notify",
           "clear", "clear, hang up", "clear, cancel", "clear, reject"}

NoMessage == [kind |-> "none", of |-> 0]
Messages  == [kind : {"join", "cancel"}, of : Int]
\* take_active_call_join_pending() has told whether to answer it at once
Invited(of, auto) == [kind |-> "invite", of |-> of, auto |-> auto]

Calls == [state : {"idle", "requesting", "waiting"}, seq : Nat,
          deadline : {"none", "running", "passed"}]

\* The worker's stages, up to and with the POST
Checks == {"target", "url", "body", "post"}

NextStage == [target |-> "url", url |-> "body", body |-> "post", post |-> "posting"]

Workers  == [at : Checks \cup {"rest", "posting", "reply"}, seq : Nat]
Errands  == [at : Stages, seq : Nat]
Inbox    == {NoMessage} \cup [kind : {"cancel"}, of : Int]
            \cup [kind : {"invite"}, of : Int, auto : BOOLEAN]
Sessions == [state : {"idle", "ringing", "busy", "closing"}, of : Int]
Pasts    == [pressed : Nat, begun : SUBSET Nat, checked : SUBSET Nat,
             early : SUBSET Nat, posted : SUBSET Nat, accepted : SUBSET Nat]

CallTypeOK ==
    /\ call \in Calls
    /\ pending \in BOOLEAN
    /\ notified \in Nat
    /\ worker \in Workers
    /\ doing \in [Starters -> Errands]
    /\ line \in BOOLEAN
    /\ mail \in Seq(Messages) /\ message \in Inbox
    /\ session \in Sessions
    /\ rung \subseteq Nat
    /\ left \in ScenarioKinds /\ past \in Pasts

------------------------------------------------------------------------------
(* The record of the request                                               *)

\* active_call_set_idle_locked()
SetIdle(c) == [c EXCEPT !.state = "idle", !.deadline = "none"]

\* cancel_active_call_wait(), and active_call_reset_if_expired() past the deadline
Drop(c) ==
    IF c.state = "idle" THEN c ELSE SetIdle([c EXCEPT !.seq = @ + 1])

ResetIfExpired(c) == IF c.deadline = "passed" THEN Drop(c) ELSE c

\* active_call_begin(), of an idle record
Begin(c) == [state |-> "requesting", seq |-> c.seq + 1, deadline |-> "running"]

\* Mutant: a request that was dropped counts as current while another is being made.
AnyRequest(q) == call.state = "requesting"

\* active_call_is_current_request()
IsCurrentRequest(q) == q = call.seq /\ call.state = "requesting"

\* Mutant: nothing ends the wait for an answer.
FinishForGood(c, q, ok) ==
    IF q # c.seq \/ c.state # "requesting" THEN c
    ELSE IF ok THEN [c EXCEPT !.state = "waiting", !.deadline = "none"]
    ELSE SetIdle(c)

\* active_call_finish()
Finish(c, q, ok) ==
    IF q # c.seq \/ c.state # "requesting" THEN c
    ELSE IF ok THEN [c EXCEPT !.state = "waiting", !.deadline = "running"]
    ELSE SetIdle(c)

\* What past becomes with the record c: a request that this drops is early unless
\* the worker had seen it wanted for the last time.
Remembering(c) ==
    IF call.state # "idle" /\ c.seq # call.seq /\ call.seq \notin past.checked
    THEN [past EXCEPT !.early = @ \cup {call.seq}]
    ELSE past

Becomes(c) == call' = c /\ past' = Remembering(c)

------------------------------------------------------------------------------
(* The key and the call remembered for later                               *)

Goes(t, from, to) ==
    /\ doing[t].at = from
    /\ doing' = [doing EXCEPT ![t].at = to]

\* on_boot_button_event() and the maintenance both handlers start with
ShortPress ==
    /\ left.short > 0
    /\ Goes("boot", "rest", "answer?")
    /\ left' = [left EXCEPT !.short = @ - 1]
    /\ call' = ResetIfExpired(call)
    /\ past' = [Remembering(ResetIfExpired(call)) EXCEPT !.pressed = @ + 1]
    /\ UNCHANGED <<pending, notified, worker, line, mail, message, session, rung>>

LongPress ==
    /\ left.long > 0
    /\ Goes("boot", "rest", "clear, reject")
    /\ left' = [left EXCEPT !.long = @ - 1]
    /\ Becomes(ResetIfExpired(call))
    /\ UNCHANGED <<pending, notified, worker, line, mail, message, session, rung>>

\* clear_pending_boot_call(), and what follows on it
ClearPending(t) ==
    /\ \E next \in {<<"clear", "rest">>, <<"clear, hang up", "hang up">>,
                    <<"clear, cancel", "cancel">>, <<"clear, reject", "reject?">>} :
           Goes(t, next[1], next[2])
    /\ pending' = FALSE
    /\ UNCHANGED <<call, notified, worker, line, mail, message, session, rung, left, past>>

SessionIs(state) == session' = [session EXCEPT !.state = state]

\* The key's task asks the session, and goes on to yes or to no by what it hears; what
\* becomes of the session is in the action.
AskSession(from, holds, yes, no) ==
    /\ Goes("boot", from, IF holds THEN yes ELSE no)
    /\ UNCHANGED <<call, pending, notified, worker, line, mail, message, rung, left, past>>

\* handle_boot_short_press(): an invitation that rings is answered; that fails where the
\* session is not free in time or there is no memory, and for an invitation that rings
\* while an earlier call's answer task sleeps it is as if none rang (see S3Session).
Answer ==
    \/ /\ session.state = "ringing"
       /\ AskSession("answer?", TRUE, "clear", "clear")
       /\ SessionIs("busy")
    \/ /\ \E next \in {"closing?", "rest"} : AskSession("answer?", TRUE, next, next)
       /\ UNCHANGED session

\* Then a call that is being closed has the next one remembered ...
AwaitClose ==
    /\ Goes("boot", "closing?", IF session.state = "closing" THEN "rest" ELSE "idle?")
    /\ pending' = (pending \/ session.state = "closing")
    /\ UNCHANGED <<call, notified, worker, line, mail, message, session, rung, left, past>>

\* ... any other call is hung up ...
AskIdle ==
    /\ \/ AskSession("idle?", session.state # "idle", "clear, hang up", "busy?")
       \/ AskSession("give up?", session.state # "idle", "hang up", "cancel?")
    /\ UNCHANGED session

HangUp ==
    /\ AskSession("hang up", TRUE, "rest", "rest")
    /\ SessionIs(IF session.state \in {"ringing", "idle"} THEN "idle" ELSE "closing")

\* ... and so is a request, if wechat_voip_request_call_busy(), ...
AskBusy ==
    LET c == ResetIfExpired(call)
    IN /\ Becomes(c)
       /\ \/ Goes("boot", "busy?", IF c.state # "idle" THEN "clear, cancel" ELSE "connected?")
          \/ Goes("boot", "cancel?", IF c.state # "idle" THEN "cancel" ELSE "rest")
       /\ UNCHANGED <<pending, notified, worker, line, mail, message, session, rung, left>>

\* ... with wechat_voip_cancel_pending_call().
CancelRequest ==
    /\ Becomes(Drop(call))
    /\ Goes("boot", "cancel", "rest")
    /\ UNCHANGED <<pending, notified, worker, line, mail, message, session, rung, left>>

\* handle_boot_long_press()
Reject ==
    /\ AskSession("reject?", session.state = "ringing", "rest", "give up?")
    /\ IF session.state = "ringing" THEN SessionIs("idle") ELSE UNCHANGED session

\* process_pending_boot_call(), each second, after the maintenance
Maintain ==
    /\ Becomes(ResetIfExpired(call))
    /\ Goes("main", "rest", IF pending THEN "free?" ELSE "rest")
    /\ UNCHANGED <<pending, notified, worker, line, mail, message, session, rung, left>>

ProcessPending ==
    LET c == ResetIfExpired(call)
    IN /\ Becomes(c)
       /\ Goes("main", "free?",
               IF c.state = "idle" /\ line /\ session.state = "idle"
               THEN "connected?" ELSE "rest")
       /\ UNCHANGED <<pending, notified, worker, line, mail, message, session, rung, left>>

------------------------------------------------------------------------------
(* start_wechat_call_now() and wechat_voip_request_call()                  *)

\* A test that start_wechat_call_now() or wechat_voip_request_call() makes: should
\* it fail, the call is remembered for later.
Test(t, from, to, holds) ==
    /\ Goes(t, from, IF holds THEN to ELSE "rest")
    /\ pending' = (pending \/ ~holds)
    /\ UNCHANGED <<call, notified, worker, line, mail, message, session, rung, left, past>>

TestConditions(t) ==
    \/ Test(t, "connected?", "ready?", line)
    \/ Test(t, "ready?", "connected again?", session.state = "idle")
    \/ Test(t, "connected again?", "ready again?", line)
    \/ Test(t, "ready again?", "begin", session.state = "idle")

BeginRequest(t) ==
    LET c == ResetIfExpired(call)
    IN /\ doing[t].at = "begin"
       /\ IF c.state # "idle"
          THEN /\ pending' = TRUE
               /\ doing' = [doing EXCEPT ![t].at = "rest"]
               /\ UNCHANGED <<call, past>>
          ELSE /\ call' = Begin(c)
               /\ doing' = [doing EXCEPT ![t] = [at |-> "notify", seq |-> c.seq + 1]]
               /\ past' = [Remembering(c) EXCEPT !.begun = @ \cup {c.seq + 1}]
               /\ UNCHANGED pending
       /\ UNCHANGED <<notified, worker, line, mail, message, session, rung, left>>

Notified(t) ==
    /\ notified' = doing[t].seq
    /\ UNCHANGED <<call, pending, worker, line, mail, message, session, rung, left, past>>

\* Mutant: a call that was started is still remembered.
NotifyOnly(t) == Goes(t, "notify", "rest") /\ Notified(t)

\* xTaskNotify(), which overwrites the number the worker has not taken yet, and so never
\* fails.  The worker is there: nothing is connected before wechat_voip_ws_start() has made it.
Notify(t) == Goes(t, "notify", "clear") /\ Notified(t)

------------------------------------------------------------------------------
(* active_call_task()                                                      *)

WorkerGoes(at, q) == worker' = [at |-> at, seq |-> q]

TakeNotified ==
    /\ worker.at = "rest" /\ notified # 0
    /\ WorkerGoes("target", notified)
    /\ notified' = 0
    /\ UNCHANGED <<call, pending, doing, line, mail, message, session, rung, left, past>>

Finishes(ok) ==
    /\ WorkerGoes("rest", 0)
    /\ call' = Finish(call, worker.seq, ok)

\* do_active_call_http() asks at each stage whether the request is still wanted.
CheckRequest ==
    /\ worker.at \in Checks
    /\ IF IsCurrentRequest(worker.seq)
       THEN /\ WorkerGoes(NextStage[worker.at], worker.seq)
            /\ past' = IF worker.at = "post"
                       THEN [past EXCEPT !.checked = @ \cup {worker.seq}] ELSE past
            /\ UNCHANGED call
       ELSE Finishes(FALSE) /\ UNCHANGED past
    /\ UNCHANGED <<pending, notified, doing, line, mail, message, session, rung, left>>

\* No user to call is known, no URL, or the request cannot be written or delivered.
RequestFails ==
    /\ worker.at \in {"url", "body", "post", "posting", "reply"}
    /\ Finishes(FALSE)
    /\ UNCHANGED <<pending, notified, doing, line, mail, message, session, rung, left, past>>

\* The service has the request: the phone rings.
Deliver ==
    /\ worker.at = "posting"
    /\ WorkerGoes("reply", worker.seq)
    /\ rung' = rung \cup {worker.seq}
    /\ past' = [past EXCEPT !.posted = @ \cup {worker.seq}]
    /\ UNCHANGED <<call, pending, notified, doing, line, mail, message, session, left>>

RequestSucceeds ==
    /\ worker.at = "reply"
    /\ Finishes(TRUE)
    /\ past' = [past EXCEPT !.accepted = @ \cup {worker.seq}]
    /\ UNCHANGED <<pending, notified, doing, line, mail, message, session, rung, left>>

------------------------------------------------------------------------------
(* ws_msg_task(): handle_envelope() for what concerns a call               *)

\* take_active_call_join_pending()
TakeJoin ==
    LET c == ResetIfExpired(call)
    IN /\ message = NoMessage /\ mail # <<>> /\ Head(mail).kind = "join"
       /\ message' = Invited(Head(mail).of, c.state = "waiting")
       /\ mail' = Tail(mail)
       /\ Becomes(IF c.state = "waiting" THEN SetIdle(c) ELSE c)
       /\ UNCHANGED <<pending, notified, worker, doing, line, session, rung, left>>

\* wechat_voip_session_handle_join_room(): the answer at once may fail as any other.
JoinRoom ==
    /\ message.kind = "invite"
    /\ message' = NoMessage
    /\ IF session.state # "idle" THEN UNCHANGED session
       ELSE \E state \in IF message.auto THEN {"busy", "ringing"} ELSE {"ringing"} :
                session' = [state |-> state, of |-> message.of]
    /\ UNCHANGED <<call, pending, notified, worker, doing, line, mail, rung, left, past>>

\* wechat_voip_session_cancel_by_room()
TakeCancel ==
    LET matched == session.state # "idle" /\ session.of = Head(mail).of
    IN /\ message = NoMessage /\ mail # <<>> /\ Head(mail).kind = "cancel"
       /\ message' = IF matched THEN NoMessage ELSE Head(mail)
       /\ mail' = Tail(mail)
       /\ session' = IF matched
                     THEN [session EXCEPT !.state =
                              IF @ = "ringing" THEN "idle" ELSE "closing"]
                     ELSE session
       /\ UNCHANGED <<call, pending, notified, worker, doing, line, rung, left, past>>

\* A cancellation of another room than the session's ends the wait for an answer.
CancelOther ==
    /\ message.kind = "cancel"
    /\ message' = NoMessage
    /\ Becomes(Drop(call))
    /\ UNCHANGED <<pending, notified, worker, doing, line, mail, session, rung, left>>

------------------------------------------------------------------------------
(* The environment                                                         *)

DeadlinePasses ==
    /\ call.deadline = "running"
    /\ call' = [call EXCEPT !.deadline = "passed"]
    /\ UNCHANGED <<pending, notified, worker, doing, line, mail, message, session,
                   rung, left, past>>

\* websocket_event_handler(): DISCONNECTED, CLOSED or ERROR, and CONNECTED again
Disconnected ==
    /\ line /\ left.drops > 0
    /\ line' = FALSE
    /\ left' = [left EXCEPT !.drops = @ - 1]
    /\ Becomes(Drop(call))
    /\ UNCHANGED <<pending, notified, worker, doing, mail, message, session, rung>>

Connected ==
    /\ ~line
    /\ line' = TRUE
    /\ UNCHANGED <<call, pending, notified, worker, doing, mail, message, session,
                   rung, left, past>>

\* Only a connected device hears what happens at the other end.
Heard(kind, of) == mail' = IF line THEN Append(mail, [kind |-> kind, of |-> of]) ELSE mail

UserAnswers ==
    \E q \in rung, kind \in {"join", "cancel"} :
        /\ rung' = rung \ {q}
        /\ Heard(kind, q)
        /\ UNCHANGED <<call, pending, notified, worker, doing, line, message, session,
                       left, past>>

StrangerCalls ==
    \E n \in left.strangers, kind \in {"join", "cancel"} :
        /\ left' = [left EXCEPT !.strangers = @ \ {n}]
        /\ Heard(kind, n)
        /\ UNCHANGED <<call, pending, notified, worker, doing, line, message, session,
                       rung, past>>

\* The session goes on: the call it has is ended by its peer, and its resources go.
SessionMoves ==
    /\ \/ session.state \in {"ringing", "closing"} /\ SessionIs("idle")
       \/ session.state = "busy" /\ SessionIs("closing")
    /\ UNCHANGED <<call, pending, notified, worker, doing, line, mail, message, rung,
                   left, past>>

------------------------------------------------------------------------------

CallInit ==
    /\ call = [state |-> "idle", seq |-> 0, deadline |-> "none"]
    /\ pending = FALSE
    /\ notified = 0
    /\ worker = [at |-> "rest", seq |-> 0]
    /\ doing = [t \in Starters |-> [at |-> "rest", seq |-> 0]]
    /\ line = TRUE
    /\ mail = <<>>
    /\ message = NoMessage
    /\ session = [state |-> "idle", of |-> 0]
    /\ rung = {}
    /\ left \in CallScenarios
    /\ past = [pressed |-> 0, begun |-> {}, checked |-> {}, early |-> {},
               posted |-> {}, accepted |-> {}]

KeyNext ==
    \/ ShortPress \/ LongPress
    \/ Answer \/ AwaitClose \/ AskIdle \/ HangUp \/ AskBusy \/ CancelRequest
    \/ Reject

StarterNext(t) ==
    TestConditions(t) \/ BeginRequest(t) \/ Notify(t) \/ ClearPending(t)

MainNext == Maintain \/ ProcessPending

WorkerNext ==
    TakeNotified \/ CheckRequest \/ RequestFails \/ Deliver \/ RequestSucceeds

MessageNext == TakeJoin \/ JoinRoom \/ TakeCancel \/ CancelOther

EnvironmentNext ==
    DeadlinePasses \/ Disconnected \/ Connected \/ UserAnswers \/ StrangerCalls
    \/ SessionMoves

CallNext ==
    \/ KeyNext
    \/ \E t \in Starters : StarterNext(t)
    \/ MainNext \/ WorkerNext \/ MessageNext \/ EnvironmentNext

\* The loop of main() runs every second, and time passes.
CallFairness ==
    /\ WF_callVars(MainNext \/ StarterNext("main"))
    /\ WF_callVars(DeadlinePasses)

CallSpec == CallInit /\ [][CallNext]_callVars /\ CallFairness

------------------------------------------------------------------------------
(* Properties                                                              *)

\* The device waits for a WeChat user only on a request the service has accepted,
\* and posts none that was dropped before the worker's last look at the record,
\* whatever was begun, cancelled, expired and begun again while the worker ran.
RequestsAreOwn ==
    /\ call.state = "waiting" => call.seq \in past.accepted
    /\ past.posted \cap past.early = {}
    /\ past.posted \subseteq past.begun

\* No user is rung more often than the key was pressed: the key's task and main()'s
\* loop, which may start a remembered call at the same moment, and each of which
\* remembers the call anew when the other was first, start one call for each press.
CallsArePressed == Cardinality(past.begun) <= past.pressed

\* A request never holds the device: whatever is lost on its way, it is idle again.
BusyEnds == (call.state # "idle") ~> (call.state = "idle")
=============================================================================
