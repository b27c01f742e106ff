--------------------------- MODULE DesktopSession ---------------------------
(***************************************************************************)
(* The sessions of the desktop device demo                                 *)
(*   src/main.c, and the part of src/device_demo_streamer.c that starts,   *)
(*   stops and destroys a session's streamer                               *)
(*                                                                         *)
(* A connection the SDK accepts gets a session: an object on the heap with *)
(* a mutex of its own and a streamer thread, found again through the       *)
(* connection's user data.  The application's mutex guards which session   *)
(* is active and how many are live.  A session is torn down by whoever     *)
(* finalizes it: the SDK's thread in on_disconnected(), or a thread that   *)
(* could not get it disconnected.                                          *)
(*                                                                         *)
(* Each section under a mutex is a step, and so is each thing a thread     *)
(* does between two of them; todo[t] is what thread t has still to do.     *)
(* A step that uses a session's memory after it was freed, or the SDK      *)
(* after TiRtcUninit(), has undefined behaviour: the process is lost       *)
(* there, and fate says at which point of the code.                        *)
(***************************************************************************)
EXTENDS Integers, Sequences, FiniteSets

CONSTANTS
    MaxConns,       \* connections accepted in a behaviour
    Environments    \* the failures a behaviour may see, one set for each

Conns      == 1 .. MaxConns
ConnOrNone == 0 .. MaxConns

FailureKinds == {"session",     \* create_session() fails
                 "thread",      \* a thread, or its task, cannot be had
                 "disconnect",  \* TiRtcDisconnect() fails
                 "stop",        \* TiRtcStop() fails, and nothing stops
                 "timeout"}     \* five seconds are not enough for a wait of main()

ASSUME DesktopAssumption ==
    /\ MaxConns \in Nat \ {0}
    /\ Environments \subseteq SUBSET FailureKinds

VARIABLES
    active,     \* g_app.active_session: the connection it is for, 0 for NULL
    live,       \* g_app.live_session_count
    session,    \* the session of each connection
    link,       \* the SDK's side of each connection
    sdk,        \* the SDK: running, stopping, stopped (g_app.sdk_stopped), gone
    todo,       \* what each thread has still to do
    fails,      \* the failures of this behaviour's environment
    fate        \* "on" while the process runs as written

sessionVars == <<active, live, session, link, sdk, todo, fails, fate>>

Main       == <<"main", 0>>
Sdk        == <<"sdk", 0>>              \* every callback runs on it
Cleaner(c) == <<"cleaner", c>>          \* disconnect_worker_main()
Raw(c)     == <<"raw", c>>              \* raw_disconnect_worker_main()

Threads == {Main, Sdk} \cup {Cleaner(c) : c \in Conns} \cup {Raw(c) : c \in Conns}

\* device_demo_session_t with its streamer: memory says whether it is allocated,
\* worker whether the streamer's thread runs.
Session ==
    [ memory    : {"none", "held", "freed"},
      scheduled : BOOLEAN,                      \* disconnect_scheduled
      finalized : BOOLEAN,
      enabled   : BOOLEAN,                      \* streaming_enabled
      stop      : BOOLEAN,                      \* stop_requested
      worker    : {"none", "running", "ended"} ]

NoSession == [memory |-> "none", scheduled |-> FALSE, finalized |-> FALSE,
              enabled |-> FALSE, stop |-> FALSE, worker |-> "none"]

NewSession == [NoSession EXCEPT !.memory = "held", !.worker = "running"]

\* Where a session's memory is used, or the SDK, that may be gone.
Places == {"claim_on_shutdown",     \* main(), schedule_session_disconnect()
           "claim_on_replacement",  \* on_conn_accepted(), the same
           "claim_on_error",        \* on_conn_error(), the same
           "log",                   \* the log line after pthread_create()
           "enable",                \* device_demo_streamer_set_streaming_enabled()
           "key_frame",             \* on_request_key_frame()
           "finalize",              \* session_finalize(), its lock
           "clean_up",              \* disconnect_worker_main()
           "send",                  \* the streamer, after TiRtcUninit()
           "disconnect",            \* a worker, after TiRtcUninit()
           "raw_disconnect"}

ClaimPlaces == {"claim_on_shutdown", "claim_on_replacement", "claim_on_error"}

Fates == {"on", "exited"} \cup Places

------------------------------------------------------------------------------
(* What a thread has to do                                                 *)

Register(c)      == [do |-> "register", conn |-> c]
Enable(c)        == [do |-> "enable", conn |-> c]
Claim(c, where)  == [do |-> "claim", conn |-> c, where |-> where]
Launch(c)        == [do |-> "launch", conn |-> c]
LaunchRaw(c)     == [do |-> "launch_raw", conn |-> c]
Log(c)           == [do |-> "log", conn |-> c]
Mark(c)          == [do |-> "mark", conn |-> c]
Unlist(c)        == [do |-> "unlist", conn |-> c]
Stop(c)          == [do |-> "stop", conn |-> c]
Join(c)          == [do |-> "join", conn |-> c]
Free(c)          == [do |-> "free", conn |-> c]
Disconnect(c)    == [do |-> "disconnect", conn |-> c]
RawDisconnect(c) == [do |-> "raw_disconnect", conn |-> c]
Just(what)       == [do |-> what]

Steps ==
         [do : {"register", "enable", "launch", "launch_raw", "log", "mark", "unlist",
                "stop", "join", "free", "disconnect", "raw_disconnect"}, conn : Conns]
    \cup [do : {"claim"}, conn : Conns, where : ClaimPlaces]
    \cup [do : {"stop_sdk", "await_stop", "await_cleanup", "uninit", "exit"}]

\* session_finalize(), once the session was not finalized yet:
\* device_demo_streamer_destroy() stops and joins the thread before it frees.
Teardown(c) == <<Unlist(c), Stop(c), Join(c), Free(c)>>

\* disconnect_worker_main()
Cleanup(c) == <<Stop(c), Join(c), Disconnect(c)>>

\* main(), from the signal on: the session that is active, then the SDK
ShutDown(c) ==
    (IF c = 0 THEN <<>> ELSE <<Claim(c, "claim_on_shutdown")>>)
    \o <<Just("stop_sdk"), Just("await_stop"), Just("await_cleanup"),
         Just("uninit"), Just("exit")>>

Running   == fate = "on"
Idling(t) == todo[t] = <<>>

AtStep(t, what) == Running /\ ~Idling(t) /\ Head(todo[t]).do = what

ConnOf(t)     == Head(todo[t]).conn
Then(t, next) == todo' = [todo EXCEPT ![t] = next \o Tail(@)]
Carry(t)      == Then(t, <<>>)

\* Session c is used at where: the rest happens if its memory is still held.
Lost(where) ==
    /\ fate' = where
    /\ UNCHANGED <<active, live, session, link, sdk, todo, fails>>

Uses(c, where) == session[c].memory = "freed" /\ Lost(where)

Held(c) == session[c].memory = "held" /\ UNCHANGED fate

Fails(kind) == kind \in fails

------------------------------------------------------------------------------
(* session_finalize()                                                      *)

MarkFinalized(t) ==
    /\ AtStep(t, "mark")
    /\ LET c == ConnOf(t) IN
       \/ Uses(c, "finalize")
       \/ /\ Held(c)
          /\ Then(t, IF session[c].finalized THEN <<>> ELSE Teardown(c))
          /\ session' = [session EXCEPT ![c].finalized = TRUE]
          /\ UNCHANGED <<active, live, link, sdk, fails>>

\* Mutant: only the active session is counted out.
UnlistActiveOnly(t) ==
    /\ AtStep(t, "unlist")
    /\ active' = IF active = ConnOf(t) THEN 0 ELSE active
    /\ live' = IF live > 0 /\ active = ConnOf(t) THEN live - 1 ELSE live
    /\ Carry(t)
    /\ UNCHANGED <<session, link, sdk, fails, fate>>

UnlistSession(t) ==
    /\ AtStep(t, "unlist")
    /\ active' = IF active = ConnOf(t) THEN 0 ELSE active
    /\ live' = IF live > 0 THEN live - 1 ELSE live
    /\ Carry(t)
    /\ UNCHANGED <<session, link, sdk, fails, fate>>

\* device_demo_streamer_stop(): the request, then the join
StopStreamer(t) ==
    /\ AtStep(t, "stop")
    /\ LET c == ConnOf(t) IN
       \/ Uses(c, "clean_up")
       \/ /\ Held(c)
          /\ Carry(t)
          /\ session' = [session EXCEPT ![c].stop = TRUE]
          /\ UNCHANGED <<active, live, link, sdk, fails>>

JoinStreamer(t) ==
    /\ AtStep(t, "join")
    /\ session[ConnOf(t)].worker = "ended"
    /\ Carry(t)
    /\ UNCHANGED <<active, live, session, link, sdk, fails, fate>>

FreeSession(t) ==
    /\ AtStep(t, "free")
    /\ Carry(t)
    /\ session' = [session EXCEPT ![ConnOf(t)].memory = "freed"]
    /\ UNCHANGED <<active, live, link, sdk, fails, fate>>

------------------------------------------------------------------------------
(* schedule_session_disconnect() and its worker                            *)

\* Mutant: the flag is not looked at, and every caller has a worker.
ClaimAlways(t) ==
    /\ AtStep(t, "claim")
    /\ LET c == ConnOf(t) IN
       \/ Uses(c, Head(todo[t]).where)
       \/ /\ Held(c)
          /\ Then(t, IF session[c].finalized THEN <<>> ELSE <<Launch(c)>>)
          /\ session' = [session EXCEPT ![c].scheduled = TRUE]
          /\ UNCHANGED <<active, live, link, sdk, fails>>

ClaimSession(t) ==
    /\ AtStep(t, "claim")
    /\ LET c == ConnOf(t) IN
       \/ Uses(c, Head(todo[t]).where)
       \/ /\ Held(c)
          /\ IF session[c].scheduled \/ session[c].finalized
             THEN Carry(t) /\ UNCHANGED session
             ELSE /\ Then(t, <<Launch(c)>>)
                  /\ session' = [session EXCEPT ![c].scheduled = TRUE]
          /\ UNCHANGED <<active, live, link, sdk, fails>>

\* The worker may run, and end, before its creator's next step.
LaunchCleaner(t) ==
    /\ AtStep(t, "launch")
    /\ LET c == ConnOf(t) IN
       \/ todo' = [todo EXCEPT ![t] = <<Log(c)>> \o Tail(@), ![Cleaner(c)] = Cleanup(c)]
       \/ Fails("thread") /\ Then(t, <<Mark(c)>>)
    /\ UNCHANGED <<active, live, session, link, sdk, fails, fate>>

\* session->hconn is still to be read when the log line is written.
LogScheduled(t) ==
    /\ AtStep(t, "log")
    /\ \/ Uses(ConnOf(t), "log")
       \/ /\ Held(ConnOf(t))
          /\ Carry(t)
          /\ UNCHANGED <<active, live, session, link, sdk, fails>>

\* Mutant: the session is finalized however the disconnect went.
DisconnectAndFinalize(t) ==
    /\ AtStep(t, "disconnect")
    /\ LET c == ConnOf(t) IN
       \/ sdk = "gone" /\ Lost("disconnect")
       \/ /\ sdk # "gone"
          /\ Then(t, <<Mark(c)>>)
          /\ \/ link' = [link EXCEPT ![c] = "closing"]
             \/ Fails("disconnect") /\ UNCHANGED link
          /\ UNCHANGED <<active, live, session, sdk, fails, fate>>

DisconnectConn(t) ==
    /\ AtStep(t, "disconnect")
    /\ LET c == ConnOf(t) IN
       \/ sdk = "gone" /\ Lost("disconnect")
       \/ /\ sdk # "gone"
          /\ \/ link' = [link EXCEPT ![c] = "closing"] /\ Carry(t)
             \/ Fails("disconnect") /\ Then(t, <<Mark(c)>>) /\ UNCHANGED link
          /\ UNCHANGED <<active, live, session, sdk, fails, fate>>

\* schedule_raw_disconnect(), for a connection without a session, and its worker
LaunchRawWorker(t) ==
    /\ AtStep(t, "launch_raw")
    /\ LET c == ConnOf(t) IN
       \/ todo' = [todo EXCEPT ![t] = Tail(@), ![Raw(c)] = <<RawDisconnect(c)>>]
       \/ Fails("thread") /\ Carry(t)
    /\ UNCHANGED <<active, live, session, link, sdk, fails, fate>>

RawDisconnectConn(t) ==
    /\ AtStep(t, "raw_disconnect")
    /\ \/ sdk = "gone" /\ Lost("raw_disconnect")
       \/ /\ sdk # "gone"
          /\ Carry(t)
          /\ \/ link' = [link EXCEPT ![ConnOf(t)] = "closing"]
             \/ Fails("disconnect") /\ UNCHANGED link
          /\ UNCHANGED <<active, live, session, sdk, fails, fate>>

------------------------------------------------------------------------------
(* The SDK's callbacks, and what on_conn_accepted() goes on to do          *)

SdkCalls == Running /\ Idling(Sdk) /\ sdk \in {"running", "stopping"}

\* on_conn_accepted(), up to create_session(): its memory, its streamer and the
\* user data, or nothing of them.
Accept(c) ==
    /\ SdkCalls
    /\ link[c] = "none"
    /\ \A d \in Conns : d < c => link[d] # "none"
    /\ link' = [link EXCEPT ![c] = "open"]
    /\ \/ /\ session' = [session EXCEPT ![c] = NewSession]
          /\ todo' = [todo EXCEPT ![Sdk] = <<Register(c)>>]
       \/ /\ Fails("session")
          /\ todo' = [todo EXCEPT ![Sdk] = <<LaunchRaw(c)>>]
          /\ UNCHANGED session
    /\ UNCHANGED <<active, live, sdk, fails, fate>>

\* Mutant: the session this one replaces is forgotten.
RegisterOverwriting(t) ==
    /\ AtStep(t, "register")
    /\ active' = ConnOf(t)
    /\ live' = live + 1
    /\ Then(t, <<Enable(ConnOf(t))>>)
    /\ UNCHANGED <<session, link, sdk, fails, fate>>

RegisterSession(t) ==
    /\ AtStep(t, "register")
    /\ LET c == ConnOf(t) IN
       /\ active' = c
       /\ live' = live + 1
       /\ Then(t, <<Enable(c)>> \o
                  IF active = 0 THEN <<>> ELSE <<Claim(active, "claim_on_replacement")>>)
    /\ UNCHANGED <<session, link, sdk, fails, fate>>

EnableStreaming(t) ==
    /\ AtStep(t, "enable")
    /\ LET c == ConnOf(t) IN
       \/ Uses(c, "enable")
       \/ /\ Held(c)
          /\ Carry(t)
          /\ session' = [session EXCEPT ![c].enabled = TRUE]
          /\ UNCHANGED <<active, live, link, sdk, fails>>

\* on_conn_error(): only a connection with user data has a session.
ConnError(c) ==
    /\ SdkCalls
    /\ link[c] = "open"
    /\ link' = [link EXCEPT ![c] = "broken"]
    /\ todo' = [todo EXCEPT ![Sdk] = IF session[c].memory = "none" THEN <<>>
                                     ELSE <<Claim(c, "claim_on_error")>>]
    /\ UNCHANGED <<active, live, session, sdk, fails, fate>>

\* on_disconnected(): what a TiRtcDisconnect() that was accepted leads to
Disconnected(c) ==
    /\ Running
    /\ Idling(Sdk)
    /\ sdk # "gone"
    /\ link[c] = "closing"
    /\ link' = [link EXCEPT ![c] = "closed"]
    /\ todo' = [todo EXCEPT ![Sdk] = IF session[c].memory = "none" THEN <<>> ELSE <<Mark(c)>>]
    /\ UNCHANGED <<active, live, session, sdk, fails, fate>>

\* on_request_key_frame(), whose flag is the streamer's: see DesktopStreamer.
RequestKeyFrame(c) ==
    /\ SdkCalls
    /\ link[c] = "open"
    /\ \/ Uses(c, "key_frame")
       \/ session[c].memory # "freed" /\ UNCHANGED sessionVars

\* on_event(), TIRTC_EVENT_SYS_STOPPED
SdkStopped ==
    /\ SdkCalls
    /\ sdk = "stopping"
    /\ sdk' = "stopped"
    /\ UNCHANGED <<active, live, session, link, todo, fails, fate>>

------------------------------------------------------------------------------
(* The streamer's thread, as far as the sessions see it                    *)

\* streamer_worker_main() sends, outside its mutex.
StreamerSends(c) ==
    /\ Running
    /\ session[c].worker = "running"
    /\ session[c].enabled
    /\ \/ sdk = "gone" /\ Lost("send")
       \/ sdk # "gone" /\ UNCHANGED sessionVars

\* It ends: it was asked to, or a read or a send has failed.
StreamerEnds(c) ==
    /\ Running
    /\ session[c].worker = "running"
    /\ session[c].stop \/ session[c].enabled
    /\ session' = [session EXCEPT ![c].worker = "ended"]
    /\ UNCHANGED <<active, live, link, sdk, todo, fails, fate>>

------------------------------------------------------------------------------
(* main()                                                                  *)

\* A signal ends the loop; the active session is taken under the mutex.
Signal ==
    /\ Running
    /\ Idling(Main)
    /\ todo' = [todo EXCEPT ![Main] = ShutDown(active)]
    /\ active' = 0
    /\ UNCHANGED <<live, session, link, sdk, fails, fate>>

StopSdk ==
    /\ AtStep(Main, "stop_sdk")
    /\ \/ sdk' = "stopping"
       \/ Fails("stop") /\ UNCHANGED sdk
    /\ Carry(Main)
    /\ UNCHANGED <<active, live, session, link, fails, fate>>

\* Mutant: main() does not wait for the SDK to have stopped.
AwaitNothing ==
    /\ AtStep(Main, "await_stop")
    /\ Carry(Main)
    /\ UNCHANGED <<active, live, session, link, sdk, fails, fate>>

\* wait_for_sdk_stop()
AwaitStop ==
    /\ AtStep(Main, "await_stop")
    /\ sdk = "stopped" \/ Fails("timeout")
    /\ Carry(Main)
    /\ UNCHANGED <<active, live, session, link, sdk, fails, fate>>

\* wait_for_connection_cleanup()
AwaitCleanup ==
    /\ AtStep(Main, "await_cleanup")
    /\ live = 0 \/ Fails("timeout")
    /\ Carry(Main)
    /\ UNCHANGED <<active, live, session, link, sdk, fails, fate>>

Uninit ==
    /\ AtStep(Main, "uninit")
    /\ sdk' = "gone"
    /\ Carry(Main)
    /\ UNCHANGED <<active, live, session, link, fails, fate>>

Exit ==
    /\ AtStep(Main, "exit")
    /\ fate' = "exited"
    /\ UNCHANGED <<active, live, session, link, sdk, todo, fails>>

------------------------------------------------------------------------------
SessionInit ==
    /\ active = 0
    /\ live = 0
    /\ session = [c \in Conns |-> NoSession]
    /\ link = [c \in Conns |-> "none"]
    /\ sdk = "running"
    /\ todo = [t \in Threads |-> <<>>]
    /\ fails \in Environments
    /\ fate = "on"

\* Thread t goes on with what it has to do.
Continue(t) ==
    \/ MarkFinalized(t) \/ UnlistSession(t) \/ StopStreamer(t) \/ JoinStreamer(t)
    \/ FreeSession(t)
    \/ ClaimSession(t) \/ LaunchCleaner(t) \/ LogScheduled(t) \/ DisconnectConn(t)
    \/ LaunchRawWorker(t) \/ RawDisconnectConn(t)
    \/ RegisterSession(t) \/ EnableStreaming(t)

MainGoesOn == StopSdk \/ AwaitStop \/ AwaitCleanup \/ Uninit \/ Exit

SessionNext ==
    \/ \E t \in Threads : Continue(t)
    \/ MainGoesOn
    \/ Signal
    \/ SdkStopped
    \/ \E c \in Conns :
        \/ Accept(c) \/ ConnError(c) \/ Disconnected(c) \/ RequestKeyFrame(c)
        \/ StreamerSends(c) \/ StreamerEnds(c)

\* While some thread of the program can go on, or the SDK has a disconnect to
\* confirm, one of them does: each has finitely much to do.
SomethingGoesOn ==
    \/ \E t \in Threads : Continue(t)
    \/ MainGoesOn
    \/ \E c \in Conns : StreamerEnds(c) \/ Disconnected(c)

SessionFairness == WF_sessionVars(SomethingGoesOn)

SessionSpec == SessionInit /\ [][SessionNext]_sessionVars /\ SessionFairness

------------------------------------------------------------------------------
(* Properties                                                              *)

SessionTypeOK ==
    /\ active \in ConnOrNone
    /\ live \in Nat
    /\ session \in [Conns -> Session]
    /\ link \in [Conns -> {"none", "open", "broken", "closing", "closed"}]
    /\ sdk \in {"running", "stopping", "stopped", "gone"}
    /\ todo \in [Threads -> Seq(Steps)]
    /\ fails \in SUBSET FailureKinds
    /\ fate \in Fates

\* Thread t has step p among what it has to do.
Has(t, p) == \E i \in 1 .. Len(todo[t]) : todo[t][i] = p

\* A session of the list: registered, and not taken off by its finalizer.
Listed(c) ==
    /\ session[c].memory = "held"
    /\ ~Has(Sdk, Register(c))
    /\ session[c].finalized => \E t \in Threads : Has(t, Unlist(c))

\* main() leaves when live_session_count is zero and on_conn_accepted() takes what
\* active_session points at: the count is that of the sessions on the list, and
\* what is active is on it, however their ends overlap.
ListIsRight ==
    /\ live = Cardinality({c \in Conns : Listed(c)})
    /\ active # 0 => Listed(active)

\* session_finalize() and disconnect_worker_main() join the same thread and use
\* the same memory: never two of them at once.
TearsDown(t, c) == Has(t, Join(c)) \/ Has(t, Free(c))

OneTearsDown ==
    \A c \in Conns : \A t, u \in {v \in Threads : TearsDown(v, c)} : t = u

\* A pointer to a session outlives it in these places and no others: main() locks
\* what it took, and a thread logs what it scheduled, after another may have freed
\* it.  A session that was finalized without being disconnected is reached through
\* its connection, or as the one that was active.
TouchesAreKnown ==
    fate \in Places =>
        \/ fate \in {"claim_on_shutdown", "log"}
        \/ fate \in {"claim_on_error", "key_frame", "enable"} /\ fails \cap {"thread", "disconnect"} # {}
        \/ fate = "claim_on_replacement" /\ "disconnect" \in fails
        \/ fate = "raw_disconnect" /\ "session" \in fails
        \/ fate \in {"send", "disconnect"} /\ "timeout" \in fails

\* TiRtcUninit() is called when nothing uses the SDK any more, if no wait of
\* main()'s has timed out: the streamer of a listed
\* session is joined before the session is counted out, and what is still being
\* accepted when the SDK stops is counted before that.
QuietAtUninit ==
    sdk = "gone" /\ "timeout" \notin fails =>
        \A c \in Conns :
            /\ session[c].worker # "running"
            /\ ~Has(Cleaner(c), Disconnect(c))

\* on_conn_accepted() replaces the active connection: one that is listed and no
\* longer active is released, until main() shuts the process down.
ReplacedIsReleased ==
    \A c \in Conns :
        Listed(c) /\ active \notin {0, c}
            ~> session[c].memory = "freed" \/ ~Idling(Main) \/ fate # "on"
=============================================================================
