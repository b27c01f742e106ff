-------------------------- MODULE VoipLinks_proofs --------------------------
(***************************************************************************)
(* The control task and the SDK's connection, and the life of a call, for  *)
(* all values of the constants, in any scenario.                           *)
(*                                                                         *)
(* LinkInv holds initially and is kept by every action, given Inductive.   *)
(* Most handlers leave alone what the SDK is doing and at most end the     *)
(* call: those are Calm.  The few others, which start or stop the SDK,     *)
(* begin a call, connect it or retire its connection, have a lemma each.   *)
(* The same lemmas show that each step of the task is a step of CallLife,  *)
(* or none.                                                                *)
(***************************************************************************)
EXTENDS VoipControl_proofs

-----------------------------------------------------------------------------
\* What a handler leaves alone.

\* t has the connection and the SDK of s, and a stop s needs it needs too.
Line(s, t) ==
    /\ t.generation = s.generation
    /\ t.connection = s.connection /\ t.closing = s.closing
    /\ (t.connectPending <=> s.connectPending) /\ t.whip = s.whip
    /\ t.live = s.live /\ t.dropping = s.dropping
    /\ (t.sdkInitialized <=> s.sdkInitialized) /\ (t.sdkReady <=> s.sdkReady)
    /\ (t.sdkStopping <=> s.sdkStopping) /\ t.phase = s.phase
    /\ s.needShutdown => t.needShutdown

\* The call of s is over, or closing, in t.
Ends(s, t) ==
    /\ s.stage # "idle" /\ t.stage \in {"idle", "closing"}
    /\ t.audio = 0 /\ t.generation = s.generation

\* t is where s is.
Stays(s, t) == t.stage = s.stage /\ t.audio = s.audio /\ t.generation = s.generation

StaysOrEnds(s, t) == Stays(s, t) \/ Ends(s, t)

Calm(s, t) == Line(s, t) /\ StaysOrEnds(s, t)

\* A record that has not changed is as calm as can be.
LEMMA CalmSelf == ASSUME NEW s PROVE Calm(s, s)
BY DEF Calm, Line, StaysOrEnds, Stays

\* One calm handler after another.
LEMMA CalmTransitive ==
    ASSUME NEW s, NEW t, NEW u, Calm(s, t), Calm(t, u)
    PROVE  Calm(s, u)
BY DEF Calm, Line, StaysOrEnds, Stays, Ends

\* The same for where the call is alone.
LEMMA EndsTransitive ==
    ASSUME NEW s, NEW t, NEW u, StaysOrEnds(s, t), StaysOrEnds(t, u)
    PROVE  StaysOrEnds(s, u)
BY DEF StaysOrEnds, Stays, Ends

\* request_profile(), request_contacts() and refresh_deferred_metadata().
LEMMA RequestsCalm ==
    ASSUME NEW s \in Machine, NEW r
    PROVE  /\ Calm(s, RequestProfile(s, r))
           /\ Calm(s, RequestContacts(s, r))
           /\ Calm(s, RefreshDeferredMetadata(s, r))
<1>1. Calm(s, RequestProfile(s, r))
  BY SMTT(30) DEF RequestProfile, Calm, Line, StaysOrEnds, Stays, Machine
<1>2. Calm(s, RequestContacts(s, r))
  BY SMTT(30) DEF RequestContacts, Calm, Line, StaysOrEnds, Stays, Machine
<1>3. RefreshDeferredMetadata(s, r) \in {s, RequestProfile(s, r), RequestContacts(s, r)}
  BY DEF RefreshDeferredMetadata
<1>4. QED
  BY <1>1, <1>2, <1>3, CalmSelf

\* A settled call that is over, or closing, has no audio.
LEMMA OverIsQuiet ==
    ASSUME NEW s, Settled(s), s.stage \in {"idle", "closing"}
    PROVE  s.audio = 0
BY DEF Settled, Connected

\* finish(), on whatever is left of a call.
LEMMA FinishCalm ==
    ASSUME NEW s \in Machine, s.stage = "idle" => s.audio = 0, NEW r
    PROVE  Calm(s, Finish(s, r))
<1>1. CASE Unfinished(s)
  BY <1>1, CalmSelf DEF Finish
<1>2. CASE ~Unfinished(s)
  <2> DEFINE t == Remember(s)
             c == Cleared(t)
  <2>1. t \in Machine
    BY RememberFine
  <2>2. Calm(s, t)
    BY SMTT(30) DEF Remember, Calm, Line, StaysOrEnds, Stays, Machine
  <2>3. c \in Machine
    BY <2>1, ClearedType
  <2> HIDE DEF t
  <2>4. t.stage = "idle" => t.audio = 0
    BY <2>2 DEF Calm, StaysOrEnds, Stays, Ends
  <2>5. Calm(t, c)
    BY <2>1, <2>4, SMTT(30) DEF Cleared, CallFinish, Calm, Line, StaysOrEnds, Stays, Ends, Machine
  <2> HIDE DEF c
  <2>6. Calm(c, RefreshDeferredMetadata(c, r))
    BY <2>3, RequestsCalm
  <2>7. Finish(s, r) = RefreshDeferredMetadata(c, r)
    BY <1>2 DEF Finish, t, c
  <2>8. QED
    BY <2>2, <2>5, <2>6, <2>7, CalmTransitive
<1>3. QED
  BY <1>1, <1>2

\* end_call(), in any stage.
LEMMA EndCallCalm ==
    ASSUME NEW s \in Machine, NEW notify \in BOOLEAN, NEW r
    PROVE  Calm(s, EndCall(s, notify, r))
<1>1. CASE s.stage \in {"idle", "closing"}
  BY <1>1, CalmSelf DEF EndCall
<1>2. CASE s.stage \notin {"idle", "closing"}
  <2> DEFINE c == Closed(s, notify)
  <2>1. c \in Machine
    BY ClosedType
  <2>2. Calm(s, c) /\ c.stage = "closing"
    BY <1>2, SMTT(30) DEF Closed, CallClose, Calm, Line, StaysOrEnds, Ends, Machine
  <2>3. EndCall(s, notify, r) \in {c, Finish(c, r)}
    BY <1>2 DEF EndCall
  <2> HIDE DEF c
  <2>4. Calm(c, Finish(c, r))
    BY <2>1, <2>2, FinishCalm
  <2>5. QED
    BY <2>2, <2>3, <2>4, CalmTransitive
<1>3. QED
  BY <1>1, <1>2

-----------------------------------------------------------------------------
\* The handlers of dispatch(), which run with the RTC queue drained.

\* A calm handler disturbs no link, whatever is queued.
LEMMA LineLinks ==
    ASSUME NEW s, NEW t, NEW q, NEW f, Line(s, t), Links(s, q, f)
    PROVE  Links(t, q, f)
<1>1. Phased(t, q) /\ Linked(t)
  BY SMTT(30) DEF Links, Line, Phased, Linked
<1>2. LinksInFlight(t, q)
  BY SMTT(30) DEF Links, Line, LinksInFlight
<1>3. Served(t, q, f)
  BY SMTT(30) DEF Links, Line, Served
<1>4. QED
  BY <1>1, <1>2, <1>3 DEF Links

\* The empty queue.
LEMMA NothingQueued ==
    /\ \A kind : ~InQueue(<<>>, kind)
    /\ \A i \in 1 .. Len(<<>>) : FALSE
    /\ \A s : LinksInFlight(s, <<>>)
BY DEF InQueue, LinksInFlight

\* start_sdk(): there is nothing of the SDK before.
LEMMA StartSdkLinks ==
    ASSUME NEW s \in Machine, Powered(s), NEW r, NEW q, NEW f, Links(s, q, f)
    PROVE  Links(StartSdk(s, r), q, f) /\ Stays(s, StartSdk(s, r))
<1> DEFINE t == [s EXCEPT !.sdkInitialized = TRUE, !.phase = "starting"]
<1>1. CASE StartSdk(s, r) = s
  BY <1>1 DEF Stays
<1>2. CASE StartSdk(s, r) # s
  <2>1. StartSdk(s, r) = t /\ ~s.sdkInitialized
    BY <1>2 DEF StartSdk
  <2>2. Stays(s, t)
    BY DEF Stays, Machine
  <2>3. ~s.sdkStopping /\ s.phase = "off" /\ ~s.sdkReady
    BY <2>1 DEF Links, Phased, Powered
  <2>4. ~InQueue(q, "started") /\ s.live = 0 /\ s.whip = 0
    BY <2>3 DEF Links, Phased
  <2>5. /\ t.sdkInitialized /\ t.phase = "starting" /\ ~t.sdkReady /\ ~t.sdkStopping
        /\ t.whip = s.whip /\ t.live = s.live /\ t.dropping = s.dropping
        /\ t.generation = s.generation /\ t.connection = s.connection /\ t.closing = s.closing
        /\ t.connectPending = s.connectPending /\ t.needShutdown = s.needShutdown
    BY <2>3 DEF Machine
  <2> HIDE DEF t
  <2>6. Phased(t, q) /\ Linked(t)
    BY <2>4, <2>5 DEF Links, Phased, Linked
  <2>7. LinksInFlight(t, q) /\ Served(t, q, f)
    BY <2>5, SMTT(30) DEF Links, LinksInFlight, Served
  <2>8. QED
    BY <2>1, <2>2, <2>6, <2>7 DEF Links
<1>3. QED
  BY <1>1, <1>2

\* call_begin(): nothing of the last call is left, so its number may go.
LEMMA CallBeginLinks ==
    ASSUME NEW s \in Machine, Settled(s), s.stage = "idle", NEW out \in BOOLEAN,
           NEW f, Links(s, <<>>, f),
           NEW t \in Machine, t = [CallBegin(s, out) EXCEPT !.deadline = TRUE]
    PROVE  Links(t, <<>>, f)
<1>1. /\ s.connection = 0 /\ s.closing = 0 /\ ~s.connectPending
      /\ s.live = 0 /\ s.dropping = 0
  BY DEF Settled, Staged, Clean, Unfinished, Links, Linked
<1>2. /\ t.connection = 0 /\ t.closing = 0 /\ ~t.connectPending
      /\ t.live = 0 /\ t.dropping = 0 /\ t.whip = s.whip
      /\ t.sdkInitialized = s.sdkInitialized /\ t.sdkReady = s.sdkReady
      /\ t.sdkStopping = s.sdkStopping /\ t.phase = s.phase
  BY <1>1, SMTT(30) DEF CallBegin, Machine
<1>3. Phased(t, <<>>) /\ Linked(t)
  BY <1>2 DEF Links, Phased, Linked
<1>4. Served(t, <<>>, f)
  BY <1>2, NothingQueued DEF Served
<1>5. QED
  BY <1>3, <1>4, NothingQueued DEF Links

\* connect_room(): the WHIP is accepted, or the call ends.
LEMMA ConnectRoomLinks ==
    ASSUME NEW s \in Machine, Settled(s), NEW r, s.stage = "connecting", ~s.connectPending,
           NEW f, Links(s, <<>>, f)
    PROVE  /\ Links(ConnectRoom(s, r), <<>>, f)
           /\ StaysOrEnds(s, ConnectRoom(s, r))
<1> DEFINE c == [s EXCEPT !.connectPending = TRUE, !.deadline = TRUE]
           t == [c EXCEPT !.inputs = TRUE, !.whip = s.generation]
           u == [c EXCEPT !.connectPending = FALSE]
<1>1. c \in Machine
  BY ZenonT(150) DEF Machine
<1> HIDE DEF c
<1>2. u \in Machine
  BY <1>1, ZenonT(150) DEF Machine
<1> USE DEF c
<1>3. Calm(s, u)
  <2>1. s.connectPending \in BOOLEAN
    BY DEF Machine
  <2>2. QED
    BY <2>1, SMTT(30) DEF Calm, Line, StaysOrEnds, Stays, Machine
<1>4. Calm(u, EndCall(u, TRUE, r))
  BY <1>2, EndCallCalm
<1>5. Calm(s, EndCall(u, TRUE, r))
  BY <1>3, <1>4, CalmTransitive
<1>6. Stays(s, t)
  BY DEF Stays, Machine
<1>7. /\ s.connection = 0 /\ s.closing = 0 /\ s.live = 0 /\ s.dropping = 0
      /\ s.sdkReady /\ ~s.sdkStopping /\ s.phase = "started" /\ s.generation # 0
  BY DEF Settled, Staged, Connected, Powered, Links, Phased, Linked
<1>8. /\ t.connection = 0 /\ t.closing = 0 /\ t.live = 0 /\ t.dropping = 0
      /\ t.sdkReady /\ ~t.sdkStopping /\ t.phase = "started"
      /\ t.whip # 0 /\ t.connectPending /\ t.sdkInitialized = s.sdkInitialized
  BY <1>7, SMTT(30) DEF Machine
<1> HIDE DEF c, t
<1>9. Links(t, <<>>, f)
  <2>1. Phased(t, <<>>) /\ Linked(t)
    BY <1>7, <1>8 DEF Links, Phased, Linked
  <2>2. Served(t, <<>>, f)
    BY <1>8, NothingQueued DEF Served
  <2>3. QED
    BY <2>1, <2>2, NothingQueued DEF Links
<1>10. ConnectRoom(s, r) \in {t, EndCall(u, TRUE, r)}
  BY DEF ConnectRoom, t, c
<1>11. QED
  BY <1>5, <1>6, <1>9, <1>10, LineLinks DEF Calm, StaysOrEnds

\* What a handler may do to the call, other than end it.
Begins(s, t) ==
    /\ s.stage = "idle" /\ t.stage \in {"dialing", "ringing", "closing", "idle"}
    /\ t.generation \in Generations \ {0, s.generation}
    /\ t.audio = 0

Joins(s, t) ==
    /\ s.stage \in {"dialing", "ringing"} /\ t.stage = "connecting"
    /\ t.audio = s.audio /\ t.generation = s.generation

Waits(s, t) ==
    /\ s.stage \in {"connecting", "waiting_peer"}
    /\ t.stage \in {"connecting", "waiting_peer"}
    /\ t.audio = s.audio /\ t.generation = s.generation

Talks(s, t) ==
    /\ s.stage \in {"connecting", "waiting_peer"} /\ t.stage = "active"
    /\ t.audio = s.audio /\ t.generation = s.generation

Sounds(s, t) ==
    /\ s.stage = "active" /\ t.stage = "active"
    /\ t.audio # 0 /\ t.generation = s.generation

Moves(s, t) ==
    \/ StaysOrEnds(s, t) \/ Begins(s, t) \/ Joins(s, t)
    \/ Waits(s, t) \/ Talks(s, t) \/ Sounds(s, t)

\* A handler of dispatch() that keeps the links and moves the call.
Linking(s, t, f) == Links(t, <<>>, f) /\ Moves(s, t)

\* A calm handler does.
LEMMA CalmLinking ==
    ASSUME NEW s, NEW t, NEW f, Links(s, <<>>, f), Calm(s, t)
    PROVE  Linking(s, t, f)
BY LineLinks DEF Calm, Linking, Moves

\* A call that begins and ends at once has begun.
LEMMA BeginsThenEnds ==
    ASSUME NEW s, NEW t, NEW u, Begins(s, t), StaysOrEnds(t, u)
    PROVE  Begins(s, u)
BY DEF Begins, StaysOrEnds, Stays, Ends

\* One that joins may end at once.
LEMMA JoinsThenEnds ==
    ASSUME NEW s, NEW t, NEW u, Joins(s, t), StaysOrEnds(t, u)
    PROVE  Joins(s, u) \/ Ends(s, u)
BY DEF Joins, StaysOrEnds, Stays, Ends

\* call_begin() begins a call.
LEMMA CallBeginBegins ==
    ASSUME NEW s \in Machine, Settled(s), s.stage = "idle", NEW out \in BOOLEAN
    PROVE  Begins(s, CallBegin(s, out))
<1>1. NextGeneration(s.generation) \in Generations \ {0, s.generation}
  BY NextGenerationType DEF Machine
<1>2. s.audio = 0
  BY OverIsQuiet
<1>3. QED
  BY <1>1, <1>2 DEF Begins, CallBegin, Machine

\* dial().
LEMMA DialLinks ==
    ASSUME NEW s \in Machine, Settled(s), NEW r, NEW f, Links(s, <<>>, f)
    PROVE  Linking(s, Dial(s, r), f)
<1> DEFINE b == CallBegin(s, TRUE)
           c == [b EXCEPT !.deadline = TRUE]
           d == [c EXCEPT !.callPending = TRUE, !.callRequest = c.generation]
<1>1. CASE ~Ready(s) \/ s.stage # "idle" \/ ~s.contacts
  BY <1>1, CalmSelf, CalmLinking DEF Dial
<1>2. CASE ~(~Ready(s) \/ s.stage # "idle" \/ ~s.contacts)
  <2>1. b \in Machine /\ Begins(s, b)
    BY <1>2, CallBeginType, CallBeginBegins
  <2>2. c \in Machine
    <3> HIDE DEF b
    <3>1. QED
      BY <2>1, ZenonT(150) DEF Machine
  <2>3. Links(c, <<>>, f)
    BY <1>2, <2>2, CallBeginLinks
  <2> HIDE DEF b
  <2>4. Stays(b, c)
    BY <2>1 DEF Stays, Machine
  <2> HIDE DEF c
  <2>5. Begins(s, c)
    BY <2>1, <2>4, BeginsThenEnds DEF StaysOrEnds
  <2>6. Calm(c, EndCall(c, FALSE, r))
    BY <2>2, EndCallCalm
  <2>7. Calm(c, d)
    BY <2>2, SMTT(30) DEF Calm, Line, StaysOrEnds, Stays, Machine
  <2>8. Dial(s, r) \in {d, EndCall(c, FALSE, r)}
    BY <1>2 DEF Dial, b, c
  <2>9. Calm(c, Dial(s, r))
    BY <2>6, <2>7, <2>8
  <2>10. Links(Dial(s, r), <<>>, f) /\ Begins(s, Dial(s, r))
    BY <2>3, <2>5, <2>9, LineLinks, BeginsThenEnds DEF Calm
  <2>11. QED
    BY <2>10 DEF Linking, Moves
<1>3. QED
  BY <1>1, <1>2

\* answer_incoming().
LEMMA AnswerIncomingLinks ==
    ASSUME NEW s \in Machine, Settled(s), NEW r, NEW f, Links(s, <<>>, f)
    PROVE  Linking(s, AnswerIncoming(s, r), f)
<1> DEFINE c == [s EXCEPT !.stage = "connecting"]
<1>1. CASE ~(Ready(s) /\ s.stage = "ringing")
  BY <1>1, CalmSelf, CalmLinking DEF AnswerIncoming
<1>2. CASE Ready(s) /\ s.stage = "ringing"
  <2>1. "connecting" \in Stages
    BY DEF Stages
  <2>2. c \in Machine
    BY <2>1, ZenonT(150) DEF Machine
  <2>3. Settled(c) /\ c.stage = "connecting" /\ ~c.connectPending
    BY <1>2, SMTT(60) DEF Machine, Settled, Staged, Clean, Unfinished,
         Connected, Asked, Powered, Retreats
  <2>4. Line(s, c) /\ Joins(s, c)
    BY <1>2, SMTT(30) DEF Line, Joins, Machine
  <2>5. AnswerIncoming(s, r) = ConnectRoom(c, r)
    BY <1>2 DEF AnswerIncoming, CallAccept
  <2> HIDE DEF c
  <2>6. Links(ConnectRoom(c, r), <<>>, f) /\ StaysOrEnds(c, ConnectRoom(c, r))
    BY <2>2, <2>3, <2>4, LineLinks, ConnectRoomLinks
  <2>7. QED
    BY <2>4, <2>5, <2>6, JoinsThenEnds DEF Linking, Moves, StaysOrEnds
<1>3. QED
  BY <1>1, <1>2

\* incoming().
LEMMA IncomingLinks ==
    ASSUME NEW s \in Machine, Settled(s), NEW v \in Payloads, NEW r,
           NEW f, Links(s, <<>>, f)
    PROVE  Linking(s, Incoming(s, v, r), f)
<1> DEFINE j == CallJoinOutgoing(s)
           id == IF v.id # None THEN v.id ELSE j.callId
           o == [j EXCEPT !.payload = TRUE, !.room = v.room, !.callId = id]
           b == CallBegin(s, FALSE)
           d == [b EXCEPT !.deadline = TRUE]
           n == [b EXCEPT !.payload = TRUE, !.room = v.room, !.deadline = TRUE]
<1>1. v.room \in RoomOrNone /\ v.id \in IdOrNone
  BY DEF Payloads, RoomOrNone, IdOrNone
<1>2. CASE ~(IgnoredInvite(s, v) \/ ~Ready(s) \/ ~v.voice) /\ Route(s, v) = "outbound"
  <2>1. s.stage = "dialing" /\ s.outgoing
    BY <1>2 DEF Route, VoipRouteRoom, Settled, Staged
  <2>2. j \in Machine
    <3>1. "connecting" \in Stages
      BY DEF Stages
    <3>2. [s EXCEPT !.stage = "connecting"] \in Machine
      BY <3>1, ZenonT(150) DEF Machine
    <3>3. QED
      BY <3>2 DEF CallJoinOutgoing
  <2>3. id \in IdOrNone
    BY <1>1, <2>2 DEF Machine
  <2> HIDE DEF j, id
  <2>4. o \in Machine
    BY <1>1, <2>2, <2>3, ZenonT(150) DEF Machine
  <2> USE DEF j
  <2>5. Settled(o) /\ o.stage = "connecting" /\ ~o.connectPending
    BY <2>1, SMTT(60) DEF CallJoinOutgoing, Machine, Settled, Staged, Clean,
         Unfinished, Connected, Asked, Powered, Retreats
  <2>6. Line(s, o) /\ Joins(s, o)
    BY <2>1, SMTT(30) DEF CallJoinOutgoing, Line, Joins, Machine
  <2>7. Incoming(s, v, r) = ConnectRoom(o, r)
    BY <1>2 DEF Incoming, id
  <2> HIDE DEF o
  <2>8. Links(ConnectRoom(o, r), <<>>, f) /\ StaysOrEnds(o, ConnectRoom(o, r))
    BY <2>4, <2>5, <2>6, LineLinks, ConnectRoomLinks
  <2>9. QED
    BY <2>6, <2>7, <2>8, JoinsThenEnds DEF Linking, Moves, StaysOrEnds
<1>3. CASE /\ ~(IgnoredInvite(s, v) \/ ~Ready(s) \/ ~v.voice)
           /\ Route(s, v) # "outbound" /\ Route(s, v) = "inbound" /\ s.stage = "idle"
  <2>1. b \in Machine /\ Begins(s, b)
    BY <1>3, CallBeginType, CallBeginBegins
  <2>2. d \in Machine
    <3> HIDE DEF b
    <3>1. QED
      BY <2>1, ZenonT(150) DEF Machine
  <2>3. Links(d, <<>>, f)
    BY <1>3, <2>2, CallBeginLinks
  <2> HIDE DEF b
  <2>4. Stays(b, n) /\ Line(d, n)
    BY <2>1, SMTT(30) DEF Stays, Line, Machine
  <2>5. Incoming(s, v, r) = n
    BY <1>3 DEF Incoming, b
  <2> HIDE DEF d, n
  <2>6. Links(n, <<>>, f) /\ Begins(s, n)
    BY <2>1, <2>3, <2>4, LineLinks, BeginsThenEnds DEF StaysOrEnds
  <2>7. QED
    BY <2>5, <2>6 DEF Linking, Moves
<1>4. CASE \/ IgnoredInvite(s, v) \/ ~Ready(s) \/ ~v.voice
           \/ Route(s, v) # "outbound" /\ ~(Route(s, v) = "inbound" /\ s.stage = "idle")
  <2>1. Incoming(s, v, r) = s
    BY <1>4 DEF Incoming
  <2>2. QED
    BY <2>1, CalmSelf, CalmLinking
<1>5. QED
  BY <1>2, <1>3, <1>4

\* A handler that first starts the SDK, or may have, and then asks for data.
LEMMA StartThenCalm ==
    ASSUME NEW s \in Machine, Settled(s), NEW r, NEW f, Links(s, <<>>, f),
           NEW t, Calm(StartSdk(s, r), t)
    PROVE  Linking(s, t, f)
<1>1. Links(StartSdk(s, r), <<>>, f) /\ Stays(s, StartSdk(s, r))
  BY StartSdkLinks DEF Settled
<1>2. Links(t, <<>>, f)
  BY <1>1, LineLinks DEF Calm
<1>3. StaysOrEnds(s, t)
  BY <1>1, EndsTransitive DEF Calm, StaysOrEnds
<1>4. QED
  BY <1>2, <1>3 DEF Linking, Moves

\* The BOOT key.
LEMMA PrimaryActionLinks ==
    ASSUME NEW s \in Machine, Settled(s), NEW r, NEW f, Links(s, <<>>, f)
    PROVE  Linking(s, PrimaryAction(s, r), f)
<1>1. CallPrimaryAction(s.stage) \in {"dial_first", "answer", "hangup", "none"}
  BY DEF CallPrimaryAction
<1>2. /\ Linking(s, s, f)
      /\ Linking(s, RequestContacts(s, r), f)
      /\ Linking(s, EndCall(s, TRUE, r), f)
  BY CalmSelf, RequestsCalm, EndCallCalm, CalmLinking
<1>3. Linking(s, Dial(s, r), f) /\ Linking(s, AnswerIncoming(s, r), f)
  BY DialLinks, AnswerIncomingLinks
<1>4. QED
  BY <1>1, <1>2, <1>3 DEF PrimaryAction

\* The user's commands.
LEMMA UserCommandLinks ==
    ASSUME NEW s \in Machine, Settled(s), NEW command \in CommandKinds, NEW r,
           NEW f, Links(s, <<>>, f)
    PROVE  Linking(s, UserCommand(s, command, r), f)
<1> DEFINE c == StartSdk(s, r)
           u == [s EXCEPT !.shutdownFailed = FALSE, !.resumeAfterStop = TRUE]
<1>1. c \in Machine
  BY StartSdkFine DEF Fine
<1>2. /\ Linking(s, s, f) /\ Linking(s, EndCall(s, TRUE, r), f)
      /\ Linking(s, Dial(s, r), f) /\ Linking(s, AnswerIncoming(s, r), f)
      /\ Linking(s, PrimaryAction(s, r), f)
  BY CalmSelf, EndCallCalm, CalmLinking, DialLinks, AnswerIncomingLinks, PrimaryActionLinks
<1>3. Linking(s, RequestContacts(c, r), f) /\ Linking(s, RequestProfile(c, r), f)
  BY <1>1, RequestsCalm, StartThenCalm
<1>4. Linking(s, u, f)
  <2>1. Calm(s, u)
    BY SMTT(30) DEF Calm, Line, StaysOrEnds, Stays, Machine
  <2>2. QED
    BY <2>1, CalmLinking
<1> HIDE DEF c, u
<1>5. CASE command \in {"contacts", "retry"}
  BY <1>3, <1>4, <1>5 DEF UserCommand, c, u
<1>6. CASE command \in {"call", "answer", "reject", "hangup", "primary"}
  BY <1>2, <1>6 DEF UserCommand
<1>7. QED
  BY <1>5, <1>6 DEF CommandKinds

\* Online, offline and unbound.
LEMMA PlatformLinks ==
    ASSUME NEW s \in Machine, Settled(s), NEW e, e.kind \in {"online", "offline", "unbound"},
           NEW some, NEW r, NEW f, Links(s, <<>>, f)
    PROVE  Linking(s, Dispatch(s, e, some, r), f)
<1>1. CASE e.kind = "online"
  <2> DEFINE u == [s EXCEPT !.resumeAfterStop = TRUE]
  <2>1. u \in Machine
    BY ZenonT(150) DEF Machine
  <2>2. Calm(s, u)
    BY SMTT(30) DEF Calm, Line, StaysOrEnds, Stays, Machine
  <2>3. StartSdk(s, r) \in Machine
    BY StartSdkFine DEF Fine
  <2>4. Dispatch(s, e, some, r) \in {RequestProfile(u, r), RequestProfile(StartSdk(s, r), r)}
    BY <1>1 DEF Dispatch
  <2> HIDE DEF u
  <2>5. Linking(s, RequestProfile(u, r), f)
    BY <2>1, <2>2, RequestsCalm, CalmTransitive, CalmLinking
  <2>6. Linking(s, RequestProfile(StartSdk(s, r), r), f)
    BY <2>3, RequestsCalm, StartThenCalm
  <2>7. QED
    BY <2>4, <2>5, <2>6
<1>2. CASE e.kind = "offline"
  <2> DEFINE t == [s EXCEPT !.profileReady = FALSE, !.profileDirty = TRUE,
                            !.contactsDirty = TRUE]
  <2>1. Calm(s, t)
    BY SMTT(30) DEF Calm, Line, StaysOrEnds, Stays, Machine
  <2>2. Dispatch(s, e, some, r) = t
    BY <1>2 DEF Dispatch
  <2>3. QED
    BY <2>1, <2>2, CalmLinking
<1>3. CASE e.kind = "unbound"
  <2> DEFINE t == [s EXCEPT !.profileReady = FALSE, !.profileDirty = TRUE,
                            !.contacts = FALSE, !.contactsDirty = TRUE,
                            !.needShutdown = s.sdkInitialized]
  <2>1. s.sdkInitialized \in BOOLEAN
    BY DEF Machine
  <2>2. t \in Machine
    BY <2>1, ZenonT(150) DEF Machine
  <2>3. Stays(s, t)
    BY DEF Stays, Machine
  <2>4. /\ t.generation = s.generation
        /\ t.connection = s.connection /\ t.closing = s.closing
        /\ (t.connectPending <=> s.connectPending) /\ t.whip = s.whip
        /\ t.live = s.live /\ t.dropping = s.dropping
        /\ (t.sdkInitialized <=> s.sdkInitialized) /\ (t.sdkReady <=> s.sdkReady)
        /\ (t.sdkStopping <=> s.sdkStopping) /\ t.phase = s.phase
        /\ (t.needShutdown <=> s.sdkInitialized)
    BY <2>1, SMTT(30) DEF Machine
  <2>5. Dispatch(s, e, some, r) = EndCall(t, TRUE, r)
    BY <1>3 DEF Dispatch
  <2> HIDE DEF t
  <2>6. Phased(t, <<>>) /\ Linked(t)
    BY <2>4 DEF Links, Phased, Linked
  <2>7. Served(t, <<>>, f)
    BY <2>4, NothingQueued DEF Links, Phased, Served
  <2>8. Links(t, <<>>, f)
    BY <2>6, <2>7, NothingQueued DEF Links
  <2>9. Calm(t, EndCall(t, TRUE, r))
    BY <2>2, EndCallCalm
  <2>10. QED
    BY <2>3, <2>5, <2>8, <2>9, LineLinks, EndsTransitive
       DEF Calm, Linking, Moves, StaysOrEnds
<1>4. QED
  BY <1>1, <1>2, <1>3

\* The three answers of http_result().
LEMMA ResultsCalm ==
    ASSUME NEW s \in Machine, Settled(s), NEW e, NEW some, NEW r
    PROVE  /\ Calm(s, ProfileResult(s, e, r))
           /\ e.ok \in BOOLEAN /\ some \in BOOLEAN /\ online \in BOOLEAN =>
                    Calm(s, ContactsResult(s, e, some, r))
           /\ e.id \in IdOrNone => Calm(s, CallResult(s, e, r))
<1>1. Calm(s, ProfileResult(s, e, r))
  <2> DEFINE c == [s EXCEPT !.profilePending = FALSE]
             d == [c EXCEPT !.profileReady = FALSE]
             g == [c EXCEPT !.profileReady = TRUE]
  <2>1. c \in Machine
    BY ZenonT(150) DEF Machine
  <2> HIDE DEF c
  <2>2. d \in Machine /\ g \in Machine
    BY <2>1, ZenonT(150) DEF Machine
  <2> USE DEF c
  <2>3. Calm(s, d) /\ Calm(s, g)
    BY SMTT(30) DEF Calm, Line, StaysOrEnds, Stays, Machine
  <2>4. ProfileResult(s, e, r) \in {RequestProfile(d, r), RequestContacts(g, r), d}
    BY DEF ProfileResult
  <2> HIDE DEF d, g
  <2>5. QED
    BY <2>2, <2>3, <2>4, RequestsCalm, CalmTransitive
<1>2. ASSUME e.ok \in BOOLEAN, some \in BOOLEAN, online \in BOOLEAN
      PROVE  Calm(s, ContactsResult(s, e, some, r))
  <2> DEFINE c == [s EXCEPT !.contactsPending = FALSE, !.contacts = FALSE]
             got == e.ok /\ online /\ some
             d == [c EXCEPT !.contacts = got]
  <2>1. c \in Machine
    BY ZenonT(150) DEF Machine
  <2> HIDE DEF got
  <2>2. Calm(s, c) /\ Calm(s, d)
    BY SMTT(30) DEF Calm, Line, StaysOrEnds, Stays, Machine
  <2>3. ContactsResult(s, e, some, r) \in {RequestContacts(c, r), c, d}
    BY DEF ContactsResult, got
  <2> HIDE DEF c, d
  <2>4. QED
    BY <2>1, <2>2, <2>3, RequestsCalm, CalmTransitive
<1>3. ASSUME e.id \in IdOrNone
      PROVE  Calm(s, CallResult(s, e, r))
  <2> DEFINE id == IF e.result = "ok" THEN e.id ELSE s.callId
             c == [s EXCEPT !.callPending = FALSE, !.callId = id]
  <2>1. id \in IdOrNone
    BY <1>3 DEF Machine
  <2>2. CallResult(s, e, r) \in {s, c, Finish(c, r), EndCall(c, FALSE, r), EndCall(c, TRUE, r)}
    BY DEF CallResult
  <2> HIDE DEF id
  <2>3. c \in Machine
    BY <2>1, ZenonT(150) DEF Machine
  <2>4. Calm(s, c)
    BY SMTT(30) DEF Calm, Line, StaysOrEnds, Stays, Machine
  <2>5. c.stage = "idle" => c.audio = 0
    BY OverIsQuiet DEF Machine
  <2> HIDE DEF c
  <2>6. Calm(c, Finish(c, r)) /\ Calm(c, EndCall(c, FALSE, r)) /\ Calm(c, EndCall(c, TRUE, r))
    BY <2>3, <2>5, FinishCalm, EndCallCalm
  <2>7. /\ Calm(s, s) /\ Calm(s, Finish(c, r))
        /\ Calm(s, EndCall(c, FALSE, r)) /\ Calm(s, EndCall(c, TRUE, r))
    BY <2>4, <2>6, CalmSelf, CalmTransitive
  <2>8. QED
    BY <2>2, <2>4, <2>7
<1>4. QED
  BY <1>1, <1>2, <1>3

\* The task takes one event of the platform or the user.
LEMMA DispatchLinks ==
    ASSUME NEW s \in Machine, Settled(s), NEW e \in PlatformEvents \cup UserEvents,
           NEW some \in BOOLEAN, online \in BOOLEAN, NEW r, NEW f, Links(s, <<>>, f)
    PROVE  Linking(s, Dispatch(s, e, some, r), f)
<1> DEFINE d == Dispatch(s, e, some, r)
<1> HIDE DEF d
<1> SUFFICES Linking(s, d, f)
  BY DEF d
<1>1. CASE e.kind \in {"online", "offline", "unbound"}
  BY <1>1, PlatformLinks DEF d
<1>2. CASE e.kind = "incoming"
  <2>1. e.invite \in Payloads
    BY <1>2 DEF PlatformEvents, UserEvents, MessageEvents
  <2>2. d = Incoming(s, e.invite, r)
    BY <1>2 DEF Dispatch, d
  <2>3. QED
    BY <2>1, <2>2, IncomingLinks
<1>3. CASE e.kind = "cancel"
  <2>1. d \in {s, EndCall(s, FALSE, r)}
    BY <1>3 DEF Dispatch, d, CallCancel
  <2>2. QED
    BY <2>1, EndCallCalm, CalmSelf, CalmLinking
<1>4. CASE e.kind = "callers_update"
  <2> DEFINE c == [s EXCEPT !.contacts = FALSE]
  <2>1. c \in Machine
    BY ZenonT(150) DEF Machine
  <2>2. Calm(s, c)
    BY SMTT(30) DEF Calm, Line, StaysOrEnds, Stays, Machine
  <2>3. d = RequestContacts(c, r)
    BY <1>4 DEF Dispatch, d, CallersUpdate
  <2> HIDE DEF c
  <2>4. QED
    BY <2>1, <2>2, <2>3, RequestsCalm, CalmTransitive, CalmLinking
<1>5. CASE e.kind \in {"profile", "contacts", "call_result"}
  <2>1. /\ e.kind = "contacts" => e.ok \in BOOLEAN
        /\ e.kind = "call_result" => e.id \in IdOrNone
    BY <1>5 DEF PlatformEvents, UserEvents, MessageEvents, IdOrNone
  <2>2. /\ e.kind = "profile" => d = ProfileResult(s, e, r)
        /\ e.kind = "contacts" => d = ContactsResult(s, e, some, r)
        /\ e.kind = "call_result" => d = CallResult(s, e, r)
    BY DEF Dispatch, d
  <2>3. QED
    BY <1>5, <2>1, <2>2, ResultsCalm, CalmLinking
<1>6. CASE e.kind = "user"
  <2>1. d = UserCommand(s, e.command, r)
    BY <1>6 DEF Dispatch, d
  <2>2. e.command \in CommandKinds
    BY <1>6 DEF PlatformEvents, UserEvents, MessageEvents
  <2>3. QED
    BY <2>1, <2>2, UserCommandLinks
<1>7. e.kind \in {"online", "offline", "unbound", "incoming", "cancel", "callers_update",
                  "profile", "contacts", "call_result", "user"}
  BY DEF PlatformEvents, UserEvents, MessageEvents
<1>8. QED
  BY <1>1, <1>2, <1>3, <1>4, <1>5, <1>6, <1>7

-----------------------------------------------------------------------------
\* The handlers of rtc_dispatch(), each with the queue that is left.

\* The tail of a queue, entry by entry.
LEMMA Tails ==
    ASSUME NEW q \in Seq(RtcEvents), q # <<>>
    PROVE  /\ Len(q) \in Nat \ {0} /\ Len(Tail(q)) = Len(q) - 1 /\ Head(q) = q[1]
           /\ \A i \in 1 .. Len(Tail(q)) : Tail(q)[i] = q[i + 1] /\ i + 1 \in 1 .. Len(q)
           /\ \A i \in 1 .. Len(q) : i = 1 \/ (i - 1 \in 1 .. Len(Tail(q)) /\ q[i] = Tail(q)[i - 1])
           /\ \A i \in 1 .. Len(Tail(q)) : \A j \in i .. Len(Tail(q)) : j + 1 \in i + 1 .. Len(q)
OBVIOUS

\* What is queued behind the head.
LEMMA QueuedBehind ==
    ASSUME NEW q \in Seq(RtcEvents), q # <<>>, NEW kind
    PROVE  /\ InQueue(Tail(q), kind) => InQueue(q, kind)
           /\ InQueue(q, kind) => Head(q).kind = kind \/ InQueue(Tail(q), kind)
<1> DEFINE p == Tail(q)
<1>1. /\ Len(q) \in Nat \ {0} /\ Len(p) = Len(q) - 1 /\ Head(q) = q[1]
      /\ \A i \in 1 .. Len(p) : p[i] = q[i + 1] /\ i + 1 \in 1 .. Len(q)
      /\ \A i \in 1 .. Len(q) : i = 1 \/ (i - 1 \in 1 .. Len(p) /\ q[i] = p[i - 1])
  BY Tails
<1> HIDE DEF p
<1>2. QED
  BY <1>1 DEF InQueue, p

\* The order of what is queued outlasts the head.
LEMMA TailInFlight ==
    ASSUME NEW s, NEW q \in Seq(RtcEvents), q # <<>>, LinksInFlight(s, q)
    PROVE  LinksInFlight(s, Tail(q))
<1> DEFINE p == Tail(q)
<1>1. /\ \A i \in 1 .. Len(p) : p[i] = q[i + 1] /\ i + 1 \in 1 .. Len(q)
      /\ \A i \in 1 .. Len(p) : \A j \in i .. Len(p) :
            j \in 1 .. Len(p) /\ j + 1 \in i + 1 .. Len(q)
  <2>1. Len(p) \in Nat
    BY Tails
  <2>2. QED
    BY <2>1, Tails
<1> HIDE DEF p
<1>2. SUFFICES ASSUME NEW i \in 1 .. Len(p)
               PROVE  /\ p[i].kind = "connected" => s.live \in {0, p[i].conn}
                      /\ p[i].kind = "closed" =>
                            /\ p[i].gen = s.generation /\ p[i].conn = s.generation
                            /\ s.live = 0 /\ s.whip = 0
                            /\ \A j \in i .. Len(p) : p[j].kind # "connected"
                      /\ p[i].kind = "stopped" => \A j \in i .. Len(p) : p[j].kind # "started"
  BY DEF LinksInFlight, p
<1>3. p[i] = q[i + 1] /\ i + 1 \in 1 .. Len(q)
  BY <1>1
<1>4. \A j \in i .. Len(p) : p[j] = q[j + 1] /\ j + 1 \in i + 1 .. Len(q)
  BY <1>1
<1>5. QED
  BY <1>3, <1>4 DEF LinksInFlight

\* A head that is neither a WHIP's result nor a close is not missed.
LEMMA TailLinks ==
    ASSUME NEW s, NEW q \in Seq(RtcEvents), q # <<>>, NEW f, Links(s, q, f),
           Head(q).kind \notin {"connected", "closed"}
    PROVE  Links(s, Tail(q), f)
<1> DEFINE p == Tail(q)
<1>1. /\ InQueue(p, "started") => InQueue(q, "started")
      /\ InQueue(q, "connected") <=> InQueue(p, "connected")
      /\ InQueue(q, "closed") <=> InQueue(p, "closed")
  BY QueuedBehind
<1>2. \A i \in 1 .. Len(p) : p[i] = q[i + 1] /\ i + 1 \in 1 .. Len(q)
  BY Tails
<1>3. LinksInFlight(s, p)
  BY TailInFlight DEF Links
<1> HIDE DEF p
<1>4. Phased(s, p) /\ Linked(s)
  BY <1>1 DEF Links, Phased
<1>5. Served(s, p, f)
  BY <1>1, <1>2 DEF Links, Served
<1>6. QED
  BY <1>3, <1>4, <1>5 DEF Links, p

\* A handler of rtc_dispatch() that keeps the links and moves the call.
Dispatched(s, t, q, f) == Links(t, Tail(q), f) /\ Moves(s, t)

\* A calm handler of such an event does.
LEMMA CalmDispatched ==
    ASSUME NEW s, NEW t, NEW q \in Seq(RtcEvents), q # <<>>, NEW f, Links(s, q, f),
           Head(q).kind \notin {"connected", "closed"}, Calm(s, t)
    PROVE  Dispatched(s, t, q, f)
BY TailLinks, LineLinks DEF Calm, Dispatched, Moves

\* RTC_STARTED: an SDK that is not stopping has.
LEMMA StartedLinks ==
    ASSUME NEW s \in Machine, Settled(s), NEW q \in Seq(RtcEvents), q # <<>>,
           NEW f, Links(s, q, f), Head(q).kind = "started"
    PROVE  Dispatched(s, [s EXCEPT !.sdkReady = TRUE], q, f)
<1> DEFINE t == [s EXCEPT !.sdkReady = TRUE]
           p == Tail(q)
<1>1. InQueue(q, "started")
  <2>1. 1 \in 1 .. Len(q) /\ Head(q) = q[1]
    BY Tails
  <2>2. QED
    BY <2>1 DEF InQueue
<1>2. ~s.sdkStopping => s.phase = "started"
  BY <1>1 DEF Links, Phased
<1>3. s.sdkInitialized
  BY <1>2 DEF Links, Phased, Settled, Powered
<1>4. Links(s, p, f)
  BY TailLinks
<1>5. /\ t.sdkReady /\ Stays(s, t)
      /\ t.generation = s.generation /\ t.connection = s.connection /\ t.closing = s.closing
      /\ t.connectPending = s.connectPending /\ t.whip = s.whip
      /\ t.live = s.live /\ t.dropping = s.dropping
      /\ t.sdkInitialized = s.sdkInitialized /\ t.sdkStopping = s.sdkStopping
      /\ t.phase = s.phase /\ t.needShutdown = s.needShutdown
  BY DEF Machine, Stays
<1> HIDE DEF t, p
<1>6. Phased(t, p) /\ Linked(t)
  BY <1>2, <1>3, <1>4, <1>5 DEF Links, Phased, Linked
<1>7. LinksInFlight(t, p)
  BY <1>4, <1>5, SMTT(30) DEF Links, LinksInFlight
<1>8. Served(t, p, f)
  BY <1>4, <1>5, SMTT(30) DEF Links, Served
<1>9. QED
  BY <1>5, <1>6, <1>7, <1>8 DEF Links, Dispatched, Moves, StaysOrEnds, t, p

\* A machine without an SDK has no links to keep.
LEMMA FreedLinks ==
    ASSUME NEW s, NEW t, NEW p, NEW f, LinksInFlight(s, p),
           t.generation = s.generation, t.live = s.live, t.whip = s.whip,
           ~InQueue(p, "connected"), ~InQueue(p, "started"),
           ~t.sdkInitialized, ~t.sdkReady, ~t.sdkStopping, t.phase = "off",
           ~t.connectPending, t.connection = 0, t.closing = 0,
           t.live = 0, t.dropping = 0, t.whip = 0
    PROVE  Links(t, p, f)
<1>1. Phased(t, p) /\ Linked(t)
  BY DEF Phased, Linked
<1>2. LinksInFlight(t, p)
  BY SMTT(30) DEF LinksInFlight
<1>3. Served(t, p, f)
  BY DEF Served, InQueue
<1>4. QED
  BY <1>1, <1>2, <1>3 DEF Links

\* RTC_STOPPED: everything of the SDK is gone, and it may start again.
LEMMA StoppedLinks ==
    ASSUME NEW s \in Machine, Settled(s), NEW q \in Seq(RtcEvents), q # <<>>,
           RtcInFlight(s, q), NEW f, Links(s, q, f), Head(q).kind = "stopped", NEW r
    PROVE  Dispatched(s, RtcStopped(s, r), q, f)
<1> DEFINE p == Tail(q)
           u == [s EXCEPT !.inputs = FALSE, !.sdkInitialized = FALSE, !.sdkReady = FALSE,
                          !.sdkStopping = FALSE, !.connectPending = FALSE,
                          !.connection = 0, !.closing = 0]
           z == Finish(u, r)
           c == [z EXCEPT !.needShutdown = FALSE, !.shutdownFailed = FALSE,
                          !.closeDeadline = FALSE, !.resumeAfterStop = FALSE]
<1>1. /\ Len(q) \in Nat \ {0} /\ 1 \in 1 .. Len(q) /\ q[1].kind = "stopped"
      /\ \A i \in 1 .. Len(p) : p[i] = q[i + 1] /\ i + 1 \in 1 .. Len(q)
  BY Tails
<1>2. s.sdkStopping /\ s.phase = "off" /\ s.whip = 0 /\ ~InQueue(p, "connected")
  BY <1>1 DEF RtcInFlight, InQueue
<1>3. ~InQueue(p, "started")
  BY <1>1 DEF Links, LinksInFlight, InQueue
<1>4. s.live = 0 /\ s.dropping = 0
  BY <1>2 DEF Links, Phased, Linked
<1>5. LinksInFlight(s, p)
  BY TailInFlight DEF Links
<1>6. s.stage \in {"idle", "closing"} /\ s.audio = 0
  BY <1>2 DEF Settled, Powered, Retreats, Connected
<1>7. u \in Machine
  BY FreedType
<1>8. /\ ~u.sdkInitialized /\ ~u.sdkReady /\ ~u.sdkStopping /\ u.phase = "off"
      /\ ~u.connectPending /\ u.connection = 0 /\ u.closing = 0
      /\ u.live = 0 /\ u.dropping = 0 /\ u.whip = 0 /\ Stays(s, u)
  BY <1>2, <1>4, SMTT(30) DEF Machine, Stays
<1>9. RtcStopped(s, r) \in {c, StartSdk(c, r)}
  BY DEF RtcStopped, Stopped
<1> HIDE DEF u, p
<1>10. u.stage = "idle" => u.audio = 0
  BY <1>6, <1>8 DEF Stays
<1>11. Calm(u, z)
  BY <1>7, <1>10, FinishCalm
<1>12. z \in Machine
  <2>1. Settled(u)
    BY <1>2, <1>6, SMTT(60) DEF u, Machine, Settled, Staged, Clean, Unfinished,
         Connected, Asked, Powered, Retreats
  <2>2. QED
    BY <1>7, <2>1, FinishFine DEF Fine
<1> HIDE DEF z
<1>13. c \in Machine
  BY <1>12, ZenonT(150) DEF Machine
<1>14. /\ ~c.sdkInitialized /\ ~c.sdkReady /\ ~c.sdkStopping /\ c.phase = "off"
       /\ ~c.connectPending /\ c.connection = 0 /\ c.closing = 0
       /\ c.live = 0 /\ c.dropping = 0 /\ c.whip = 0 /\ Stays(z, c)
  BY <1>8, <1>11, <1>12, SMTT(30) DEF Machine, Stays, Calm, Line
<1> HIDE DEF c
<1>15. StaysOrEnds(s, c)
  BY <1>8, <1>11, <1>14, EndsTransitive DEF Calm, StaysOrEnds
<1>16. c.generation = s.generation /\ c.stage \in {"idle", "closing"}
  BY <1>6, <1>15 DEF StaysOrEnds, Stays, Ends
<1>17. Links(c, p, f)
  BY <1>2, <1>3, <1>4, <1>5, <1>14, <1>16, FreedLinks
<1>18. Powered(c)
  BY <1>14, <1>16 DEF Powered
<1>19. Links(StartSdk(c, r), p, f) /\ Stays(c, StartSdk(c, r))
  BY <1>13, <1>17, <1>18, StartSdkLinks
<1>20. StaysOrEnds(s, StartSdk(c, r))
  BY <1>15, <1>19, EndsTransitive DEF StaysOrEnds
<1>21. QED
  BY <1>9, <1>15, <1>17, <1>19, <1>20 DEF Dispatched, Moves, p

\* RTC_CONNECTED: the WHIP has failed, or its connection is the call's now.
LEMMA ConnectedLinks ==
    ASSUME NEW s \in Machine, Settled(s), NEW q \in Seq(RtcEvents), q # <<>>,
           RtcInFlight(s, q), NEW f, Links(s, q, f), Head(q).kind = "connected", NEW r
    PROVE  Dispatched(s, RtcConnected(s, Head(q), r), q, f)
<1> DEFINE p == Tail(q)
           e == Head(q)
           c == [s EXCEPT !.connectPending = FALSE]
           n == [c EXCEPT !.inputs = FALSE]
           g == [c EXCEPT !.connection = e.conn, !.payload = FALSE]
           l == [g EXCEPT !.told = s.localEnd]
           stage == IF s.peer_answered THEN "active" ELSE "waiting_peer"
           a == [g EXCEPT !.transport_ready = TRUE, !.stage = stage]
<1>1. /\ Len(q) \in Nat \ {0} /\ 1 \in 1 .. Len(q) /\ e = q[1]
      /\ \A i \in 1 .. Len(p) : p[i] = q[i + 1] /\ i + 1 \in 1 .. Len(q) /\ i + 1 # 1
  BY Tails
<1>2. /\ s.connectPending /\ s.whip = 0 /\ e.gen = s.generation
      /\ e.conn \in {0, s.generation} /\ ~InQueue(p, "connected")
  BY <1>1 DEF RtcInFlight, InQueue
<1>3. /\ s.connection = 0 /\ s.closing = 0 /\ s.stage \in {"connecting", "closing"}
      /\ s.generation # 0
  BY <1>2 DEF Settled, Asked, Staged
<1>4. s.live \in {0, e.conn} /\ LinksInFlight(s, p)
  BY <1>1, TailInFlight DEF Links, LinksInFlight
<1>5. \/ f \/ s.needShutdown
      \/ e.conn = 0 \/ s.live # 0 \/ InQueue(p, "closed")
  BY <1>1, QueuedBehind DEF Links, Served
<1>6. /\ InQueue(p, "started") => InQueue(q, "started")
      /\ \A i \in 1 .. Len(p) : p[i].kind # "connected"
  BY <1>2, QueuedBehind DEF InQueue
<1>7. e.conn \in Handles /\ s.localEnd \in BOOLEAN /\ stage \in Stages
  BY <1>2, NoHandle DEF Machine, Handles, Stages
<1>8. c \in Machine
  BY ZenonT(150) DEF Machine
<1> HIDE DEF c, p, e, stage
<1>9. n \in Machine /\ g \in Machine
  <2>1. n \in Machine
    BY <1>8, ZenonT(150) DEF Machine
  <2>2. g \in Machine
    BY <1>7, <1>8, ZenonT(150) DEF Machine
  <2>3. QED
    BY <2>1, <2>2
<1>10. CASE e.conn = 0
  <2>1. /\ n.generation = s.generation /\ n.connection = 0 /\ n.closing = 0
        /\ ~n.connectPending /\ n.whip = 0 /\ n.live = s.live /\ n.dropping = s.dropping
        /\ n.sdkInitialized = s.sdkInitialized /\ n.sdkReady = s.sdkReady
        /\ n.sdkStopping = s.sdkStopping /\ n.phase = s.phase
        /\ n.needShutdown = s.needShutdown /\ Stays(s, n)
    BY <1>2, <1>3, SMTT(30) DEF c, Machine, Stays
  <2>2. s.live = 0
    BY <1>4, <1>10
  <2>3. RtcConnected(s, e, r) \in {EndCall(n, TRUE, r), Finish(n, r)}
    BY <1>10 DEF RtcConnected, WhipFailed, c
  <2> HIDE DEF n
  <2>4. Phased(n, p) /\ Linked(n)
    BY <1>6, <2>1, <2>2 DEF Links, Phased, Linked
  <2>5. LinksInFlight(n, p)
    BY <1>2, <1>4, <2>1, SMTT(30) DEF LinksInFlight
  <2>6. Served(n, p, f)
    BY <1>6, <2>1 DEF Served
  <2>7. Links(n, p, f)
    BY <2>4, <2>5, <2>6 DEF Links
  <2>8. Calm(n, EndCall(n, TRUE, r)) /\ Calm(n, Finish(n, r))
    BY <1>3, <1>9, <2>1, EndCallCalm, FinishCalm DEF Stays
  <2>9. Calm(n, RtcConnected(s, e, r))
    BY <2>3, <2>8
  <2>10. QED
    BY <2>1, <2>7, <2>9, LineLinks, EndsTransitive
       DEF Calm, Dispatched, Moves, StaysOrEnds, p, e
<1>11. ASSUME e.conn # 0,
              NEW t, t.generation = s.generation, t.connection = e.conn, t.closing = 0,
              ~t.connectPending, t.whip = 0, t.live = s.live, t.dropping = s.dropping,
              t.sdkInitialized = s.sdkInitialized, t.sdkReady = s.sdkReady,
              t.sdkStopping = s.sdkStopping, t.phase = s.phase,
              t.needShutdown = s.needShutdown
       PROVE  Links(t, p, f)
  <2>1. e.conn = s.generation /\ s.sdkInitialized
    BY <1>2, <1>11 DEF Links, Phased
  <2>2. Phased(t, p) /\ Linked(t)
    BY <1>2, <1>4, <1>6, <1>11, <2>1 DEF Links, Phased, Linked
  <2>3. LinksInFlight(t, p)
    BY <1>2, <1>4, <1>11, SMTT(30) DEF LinksInFlight
  <2>4. Served(t, p, f)
    BY <1>4, <1>5, <1>6, <1>11 DEF Served
  <2>5. QED
    BY <2>2, <2>3, <2>4 DEF Links
<1>12. CASE e.conn # 0 /\ s.stage = "closing"
  <2>1. /\ l.generation = s.generation /\ l.connection = e.conn /\ l.closing = 0
        /\ ~l.connectPending /\ l.whip = 0 /\ l.live = s.live /\ l.dropping = s.dropping
        /\ l.sdkInitialized = s.sdkInitialized /\ l.sdkReady = s.sdkReady
        /\ l.sdkStopping = s.sdkStopping /\ l.phase = s.phase
        /\ l.needShutdown = s.needShutdown /\ Stays(s, l)
    BY <1>2, <1>3, SMTT(30) DEF c, Machine, Stays
  <2>2. RtcConnected(s, e, r) = l
    BY <1>12, SMTT(30) DEF RtcConnected, LateConnection, c, Machine
  <2> HIDE DEF l
  <2>3. Links(l, p, f)
    BY <1>11, <1>12, <2>1
  <2>4. QED
    BY <2>1, <2>2, <2>3 DEF Dispatched, Moves, StaysOrEnds, p, e
<1>13. CASE e.conn # 0 /\ s.stage # "closing"
  <2>1. /\ a.generation = s.generation /\ a.connection = e.conn /\ a.closing = 0
        /\ ~a.connectPending /\ a.whip = 0 /\ a.live = s.live /\ a.dropping = s.dropping
        /\ a.sdkInitialized = s.sdkInitialized /\ a.sdkReady = s.sdkReady
        /\ a.sdkStopping = s.sdkStopping /\ a.phase = s.phase
        /\ a.needShutdown = s.needShutdown /\ a.audio = s.audio /\ a.stage = stage
    BY <1>2, <1>3, SMTT(30) DEF c, Machine
  <2>2. RtcConnected(s, e, r) = a
    BY <1>2, <1>3, <1>13, SMTT(30) DEF RtcConnected, CallTransportReady, c, stage, Machine
  <2> HIDE DEF a
  <2>3. Links(a, p, f)
    BY <1>11, <1>13, <2>1
  <2>4. Waits(s, a) \/ Talks(s, a)
    BY <1>3, <1>13, <2>1 DEF Waits, Talks, stage
  <2>5. QED
    BY <2>2, <2>3, <2>4 DEF Dispatched, Moves, p, e
<1>14. QED
  BY <1>10, <1>12, <1>13

\* RTC_CLOSED: the call's connection is gone, and the call with it.
LEMMA ClosedLinks ==
    ASSUME NEW s \in Machine, Settled(s), NEW q \in Seq(RtcEvents), q # <<>>,
           RtcInFlight(s, q), NEW f, Links(s, q, f), Head(q).kind = "closed", NEW r
    PROVE  Dispatched(s, RtcClosed(s, Head(q), r), q, f)
<1> DEFINE p == Tail(q)
           e == Head(q)
           c == [s EXCEPT !.inputs = FALSE, !.connection = 0, !.closing = 0]
           a == [c EXCEPT !.audio = 0]
           d == CallClose(a)
<1>1. /\ Len(q) \in Nat \ {0} /\ 1 \in 1 .. Len(q) /\ e = q[1]
      /\ \A i \in 1 .. Len(p) : p[i] = q[i + 1] /\ i + 1 \in 1 .. Len(q)
  BY Tails
<1>2. /\ e.conn = s.generation /\ e.conn # 0 /\ s.live = 0 /\ s.whip = 0
      /\ ~InQueue(q, "connected") /\ ~InQueue(p, "connected")
  BY <1>1 DEF Links, LinksInFlight, RtcInFlight, InQueue
<1>3. LinksInFlight(s, p)
  BY TailInFlight DEF Links
<1>4. /\ InQueue(p, "started") => InQueue(q, "started")
      /\ \A i \in 1 .. Len(p) : p[i].kind # "connected"
  BY <1>2, QueuedBehind DEF InQueue
<1>5. f \/ s.needShutdown \/ ~s.connectPending
  BY <1>2 DEF Links, Served
<1> HIDE DEF p, e
<1>6. ASSUME NEW t, t.generation = s.generation, t.connection = 0, t.closing = 0,
             t.connectPending <=> s.connectPending,
             t.whip = 0, t.live = 0, t.dropping = s.dropping,
             t.sdkInitialized = s.sdkInitialized, t.sdkReady = s.sdkReady,
             t.sdkStopping = s.sdkStopping, t.phase = s.phase,
             t.needShutdown = s.needShutdown
      PROVE  Links(t, p, f)
  <2>1. Phased(t, p) /\ Linked(t)
    BY <1>2, <1>4, <1>6 DEF Links, Phased, Linked
  <2>2. LinksInFlight(t, p)
    BY <1>2, <1>3, <1>6, SMTT(30) DEF LinksInFlight
  <2>3. Served(t, p, f)
    BY <1>4, <1>5, <1>6 DEF Served
  <2>4. QED
    BY <2>1, <2>2, <2>3 DEF Links
<1>7. CASE e.conn \notin {s.connection, s.closing}
  <2>1. s.connection = 0 /\ s.closing = 0
    BY <1>2, <1>7 DEF Settled, Connected
  <2>2. Links(s, p, f)
    BY <1>2, <1>6, <2>1
  <2>3. RtcClosed(s, e, r) = s
    BY <1>7 DEF RtcClosed
  <2>4. QED
    BY <2>2, <2>3 DEF Dispatched, Moves, StaysOrEnds, Stays, p, e
<1>8. CASE e.conn \in {s.connection, s.closing}
  <2>1. d \in Machine
    BY RetiredType, SilencedType, CallCloseType
  <2>2. [s EXCEPT !.inputs = FALSE,
                  !.connection = IF @ = e.conn THEN 0 ELSE @,
                  !.closing    = IF @ = e.conn THEN 0 ELSE @] = c
    <3>1. /\ (IF s.connection = e.conn THEN 0 ELSE s.connection) = 0
          /\ (IF s.closing = e.conn THEN 0 ELSE s.closing) = 0
      BY <1>2 DEF Settled, Connected
    <3>2. QED
      BY <3>1
  <2>3. c.connection = 0 /\ c.closing = 0
    BY DEF Machine
  <2>4. RtcClosed(s, e, r) = Finish(d, r)
    BY <1>8, <2>2, <2>3 DEF RtcClosed
  <2>5. s.stage # "idle"
    BY <1>2, <1>8 DEF Settled, Staged, Clean, Unfinished
  <2>6. /\ d.generation = s.generation /\ d.connection = 0 /\ d.closing = 0
        /\ (d.connectPending <=> s.connectPending)
        /\ d.whip = 0 /\ d.live = 0 /\ d.dropping = s.dropping
        /\ d.sdkInitialized = s.sdkInitialized /\ d.sdkReady = s.sdkReady
        /\ d.sdkStopping = s.sdkStopping /\ d.phase = s.phase
        /\ d.needShutdown = s.needShutdown
        /\ d.stage = "closing" /\ d.audio = 0
    BY <1>2, <2>5, SMTT(30) DEF CallClose, Machine
  <2> HIDE DEF d
  <2>7. Links(d, p, f)
    BY <1>6, <2>6
  <2>8. Calm(d, Finish(d, r))
    BY <2>1, <2>6, FinishCalm
  <2>9. Ends(s, d)
    BY <2>5, <2>6 DEF Ends
  <2>10. QED
    BY <2>4, <2>7, <2>8, <2>9, LineLinks, EndsTransitive
       DEF Calm, Dispatched, Moves, StaysOrEnds, p, e
<1>9. QED
  BY <1>7, <1>8

\* The peer's answer moves a call that is being connected.
LEMMA AnsweredLinks ==
    ASSUME NEW s \in Machine, Settled(s), NEW g
    PROVE  LET t == CallPeerAnswered(s, g)
           IN  Line(s, t) /\ (Stays(s, t) \/ Waits(s, t) \/ Talks(s, t))
<1> DEFINE stage == IF s.transport_ready THEN "active" ELSE s.stage
           a == [s EXCEPT !.peer_answered = TRUE, !.stage = stage]
<1>1. CallPeerAnswered(s, g) = s \/ s.stage \in {"connecting", "waiting_peer"}
  BY DEF CallPeerAnswered
<1>2. CallPeerAnswered(s, g) \in {s, a}
  BY DEF CallPeerAnswered
<1>3. Line(s, s) /\ Stays(s, s)
  BY DEF Line, Stays
<1>4. Line(s, a)
  BY SMTT(30) DEF Line, Machine
<1>5. s.stage \in {"connecting", "waiting_peer"} => Waits(s, a) \/ Talks(s, a)
  BY DEF Waits, Talks, Machine
<1> HIDE DEF a
<1>6. QED
  BY <1>1, <1>2, <1>3, <1>4, <1>5

\* The task takes one event of the SDK.
LEMMA RtcDispatchLinks ==
    ASSUME NEW s \in Machine, Settled(s), NEW q \in Seq(RtcEvents), q # <<>>,
           RtcInFlight(s, q), NEW f, Links(s, q, f), NEW r
    PROVE  Dispatched(s, RtcDispatch(s, Head(q), r), q, f)
<1> DEFINE e == Head(q)
           d == RtcDispatch(s, e, r)
<1>1. e \in RtcEvents /\ e = q[1] /\ 1 \in 1 .. Len(q)
  BY Tails
<1> HIDE DEF d, e
<1> SUFFICES Dispatched(s, d, q, f)
  BY DEF d, e
<1>2. CASE e.kind = "started"
  <2>1. d = [s EXCEPT !.sdkReady = TRUE]
    BY <1>2 DEF RtcDispatch, d
  <2>2. QED
    BY <1>2, <2>1, StartedLinks DEF e
<1>3. CASE e.kind = "stopped"
  <2>1. d = RtcStopped(s, r)
    BY <1>3 DEF RtcDispatch, d
  <2>2. QED
    BY <1>3, <2>1, StoppedLinks DEF e
<1>4. CASE e.kind = "connected"
  <2>1. e.gen = s.generation
    BY <1>1, <1>4 DEF RtcInFlight
  <2>2. d = RtcConnected(s, e, r)
    BY <1>4, <2>1 DEF RtcDispatch, d
  <2>3. QED
    BY <1>4, <2>2, ConnectedLinks DEF e
<1>5. CASE e.kind = "closed"
  <2>1. e.gen = s.generation
    BY <1>1, <1>5 DEF Links, LinksInFlight
  <2>2. d = RtcClosed(s, e, r)
    BY <1>5, <2>1 DEF RtcDispatch, d
  <2>3. QED
    BY <1>5, <2>2, ClosedLinks DEF e
<1>6. CASE e.kind \in {"error", "unexpected", "answered", "hangup", "bad_hangup"}
  <2>1. d \in {s, EndCall(s, FALSE, r), CallPeerAnswered(s, e.gen)}
    BY <1>6 DEF RtcDispatch, RtcCommand, d
  <2>2. Head(q).kind \notin {"connected", "closed"}
    BY <1>6 DEF e
  <2>3. Dispatched(s, s, q, f) /\ Dispatched(s, EndCall(s, FALSE, r), q, f)
    BY <2>2, CalmSelf, EndCallCalm, CalmDispatched
  <2>4. Dispatched(s, CallPeerAnswered(s, e.gen), q, f)
    BY <2>2, AnsweredLinks, TailLinks, LineLinks DEF Dispatched, Moves, StaysOrEnds
  <2>5. QED
    BY <2>1, <2>3, <2>4
<1>7. e.kind \in {"started", "stopped", "unexpected", "connected", "closed", "error",
                  "answered", "hangup", "bad_hangup"}
  BY <1>1 DEF RtcEvents, SignalKinds
<1>8. QED
  BY <1>2, <1>3, <1>4, <1>5, <1>6, <1>7

-----------------------------------------------------------------------------
\* The tail of the loop, whatever is queued.

\* What LinksInFlight reads of the record.
LEMMA InFlightKept ==
    ASSUME NEW s, NEW t, NEW q, LinksInFlight(s, q),
           t.live = s.live, t.whip = s.whip, t.generation = s.generation
    PROVE  LinksInFlight(t, q)
BY SMTT(30) DEF LinksInFlight

\* A lost event ends the call and asks for a stop, and nothing is waited for.
LEMMA FailStepLinks ==
    ASSUME NEW s \in Machine, NEW q, Links(s, q, eventFailure),
           eventFailure \in BOOLEAN, NEW r
    PROVE  Links(FailStep(s, r), q, FALSE) /\ StaysOrEnds(s, FailStep(s, r))
<1> DEFINE c == [s EXCEPT !.needShutdown = TRUE]
<1>1. CASE ~eventFailure
  <2>1. FailStep(s, r) = s
    BY <1>1 DEF FailStep
  <2>2. Links(s, q, FALSE)
    BY <1>1 DEF Links, Served
  <2>3. QED
    BY <2>1, <2>2 DEF StaysOrEnds, Stays
<1>2. CASE eventFailure
  <2>1. c \in Machine
    BY FailedType
  <2>2. Calm(s, c) /\ c.needShutdown
    BY SMTT(30) DEF Calm, Line, StaysOrEnds, Stays, Machine
  <2>3. FailStep(s, r) = EndCall(c, FALSE, r)
    BY <1>2 DEF FailStep
  <2> HIDE DEF c
  <2>4. Links(c, q, eventFailure)
    BY <2>2, LineLinks DEF Calm
  <2>5. Links(c, q, FALSE)
    BY <2>2, <2>4 DEF Links, Served
  <2>6. Calm(c, EndCall(c, FALSE, r))
    BY <2>1, EndCallCalm
  <2>7. QED
    BY <2>2, <2>3, <2>5, <2>6, LineLinks, EndsTransitive DEF Calm
<1>3. QED
  BY <1>1, <1>2

\* Without an SDK nothing is waited for, so the stop can be waived.
LEMMA NoSdkStepLinks ==
    ASSUME NEW s \in Machine, Settled(s), NEW q \in Seq(RtcEvents), RtcInFlight(s, q),
           Links(s, q, FALSE), NEW r
    PROVE  Links(NoSdkStep(s, r), q, FALSE) /\ Stays(s, NoSdkStep(s, r))
<1> DEFINE c == [s EXCEPT !.needShutdown = FALSE, !.resumeAfterStop = FALSE]
<1>1. CASE ~s.needShutdown \/ s.sdkInitialized
  BY <1>1 DEF NoSdkStep, Stays
<1>2. CASE ~(~s.needShutdown \/ s.sdkInitialized)
  <2>1. c \in Machine
    BY SparedType
  <2>2. /\ c.generation = s.generation /\ c.connection = s.connection
        /\ c.closing = s.closing /\ c.connectPending = s.connectPending
        /\ c.whip = s.whip /\ c.live = s.live /\ c.dropping = s.dropping
        /\ c.sdkInitialized = s.sdkInitialized /\ c.sdkReady = s.sdkReady
        /\ c.sdkStopping = s.sdkStopping /\ c.phase = s.phase /\ Stays(s, c)
    BY DEF Machine, Stays
  <2>3. NoSdkStep(s, r) \in {c, StartSdk(c, r)}
    BY <1>2 DEF NoSdkStep
  <2> HIDE DEF c
  <2>4. /\ ~s.connectPending /\ s.connection = 0 /\ s.closing = 0
        /\ ~s.sdkStopping /\ s.phase = "off"
    BY <1>2 DEF Links, Phased, Settled, Powered
  <2>5. \A i \in 1 .. Len(q) : q[i].kind # "connected"
    BY <2>4 DEF RtcInFlight
  <2>6. Phased(c, q) /\ Linked(c)
    BY <2>2 DEF Links, Phased, Linked
  <2>7. LinksInFlight(c, q)
    BY <2>2, InFlightKept DEF Links
  <2>8. Served(c, q, FALSE)
    BY <2>2, <2>4, <2>5 DEF Served
  <2>9. Links(c, q, FALSE) /\ Powered(c)
    BY <2>2, <2>4, <2>6, <2>7, <2>8 DEF Links, Powered, Stays, Settled
  <2>10. Links(StartSdk(c, r), q, FALSE) /\ Stays(c, StartSdk(c, r))
    BY <2>1, <2>9, StartSdkLinks
  <2>11. QED
    BY <2>2, <2>3, <2>9, <2>10 DEF Stays
<1>3. QED
  BY <1>1, <1>2

\* The media of an active call start.
LEMMA MediaStepLinks ==
    ASSUME NEW s \in Machine, NEW q, Links(s, q, FALSE)
    PROVE  /\ Links(MediaStep(s), q, FALSE)
           /\ Stays(s, MediaStep(s)) \/ Sounds(s, MediaStep(s))
<1> DEFINE c == [s EXCEPT !.deadline = FALSE, !.audio = s.connection, !.mediaStarted = TRUE]
<1>1. CASE s.stage = "active" /\ s.connection # 0
  <2>1. Line(s, c) /\ Sounds(s, c)
    BY <1>1, SMTT(30) DEF Line, Sounds, Machine
  <2>2. MediaStep(s) \in {s, c}
    BY DEF MediaStep
  <2> HIDE DEF c
  <2>3. QED
    BY <2>1, <2>2, LineLinks DEF Stays
<1>2. CASE ~(s.stage = "active" /\ s.connection # 0)
  BY <1>2 DEF MediaStep, Stays
<1>3. QED
  BY <1>1, <1>2

\* A call that has waited too long ends.
LEMMA DeadlineStepCalm ==
    ASSUME NEW s \in Machine, Settled(s), NEW x, NEW r
    PROVE  Calm(s, DeadlineStep(s, x, r))
<1> DEFINE c == EndCall(s, TRUE, r)
           need == c.needShutdown \/ c.connectPending
           d == [c EXCEPT !.deadline = FALSE, !.needShutdown = need]
<1>1. c \in Machine /\ Calm(s, c)
  BY EndSettled, EndCallCalm DEF Fine
<1>2. DeadlineStep(s, x, r) \in {s, d}
  BY DEF DeadlineStep
<1> HIDE DEF c
<1>3. Calm(c, d)
  BY <1>1, SMTT(30) DEF Calm, Line, StaysOrEnds, Stays, Machine
<1> HIDE DEF d
<1>4. Calm(s, s) /\ Calm(s, d)
  BY <1>1, <1>3, CalmSelf, CalmTransitive
<1>5. QED
  BY <1>2, <1>4

\* The disconnect that a closing call has left to the loop: it is under way, or
\* the connection is gone already, or the SDK is to stop.
LEMMA DisconnectStepLinks ==
    ASSUME NEW s \in Machine, Settled(s), NEW q \in Seq(RtcEvents), RtcInFlight(s, q),
           Links(s, q, FALSE), NEW x, NEW r
    PROVE  /\ Links(DisconnectStep(s, x, r), q, FALSE)
           /\ StaysOrEnds(s, DisconnectStep(s, x, r))
<1> DEFINE h == s.connection
           b == [s EXCEPT !.connection = 0, !.closing = h]
           c == RtcDisconnect(b, h, r)
           n == [c EXCEPT !.closing = 0]
           need == c.needShutdown \/ ~r.disconnect
           d == [c EXCEPT !.needShutdown = need]
<1>1. CASE ~(s.stage = "closing" /\ s.connection # 0 /\ x.disconnect)
  BY <1>1 DEF DisconnectStep, StaysOrEnds, Stays
<1>2. CASE s.stage = "closing" /\ s.connection # 0 /\ x.disconnect
  <2>1. /\ h = s.generation /\ h # 0 /\ ~s.connectPending /\ s.whip = 0
        /\ s.audio = 0 /\ s.live \in {0, h} /\ s.sdkInitialized
        /\ \A i \in 1 .. Len(q) : q[i].kind # "connected"
    BY <1>2, OverIsQuiet DEF Settled, Connected, Asked, Links, Linked, Phased, RtcInFlight
  <2>2. h \in Handles
    BY DEF Machine
  <2>3. b \in Machine
    BY <2>2, DisconnectType
  <2>4. /\ b.live = s.live /\ b.dropping = s.dropping /\ b.needShutdown = s.needShutdown
        /\ b.generation = s.generation /\ b.connection = 0 /\ b.closing = h
        /\ (b.connectPending <=> s.connectPending) /\ b.whip = s.whip
        /\ b.sdkInitialized = s.sdkInitialized /\ b.sdkReady = s.sdkReady
        /\ b.sdkStopping = s.sdkStopping /\ b.phase = s.phase /\ Stays(s, b)
    BY SMTT(30) DEF Machine, Stays
  <2>5. DisconnectStep(s, x, r) = IF ~(s.live = h)
                                  THEN Finish(n, r)
                                  ELSE d
    BY <1>2 DEF DisconnectStep, Known
  <2>6. c = IF s.live = h /\ r.disconnect THEN [b EXCEPT !.dropping = h] ELSE b
    BY <2>4 DEF RtcDisconnect, Known
  <2> HIDE DEF b, h
  <2>7. c \in Machine
    BY <2>2, <2>3, <2>6, DisconnectType
  <2>8. /\ c.live = s.live /\ c.dropping \in {s.dropping, h}
        /\ (s.live = h /\ r.disconnect => c.dropping = h)
        /\ (s.live # h => c.dropping = s.dropping)
        /\ c.needShutdown = s.needShutdown
        /\ c.generation = s.generation /\ c.connection = 0 /\ c.closing = h
        /\ (c.connectPending <=> s.connectPending) /\ c.whip = s.whip
        /\ c.sdkInitialized = s.sdkInitialized /\ c.sdkReady = s.sdkReady
        /\ c.sdkStopping = s.sdkStopping /\ c.phase = s.phase /\ Stays(s, c)
    BY <2>3, <2>4, <2>6, SMTT(30) DEF Machine, Stays
  <2> HIDE DEF c
  <2>9. CASE s.live # h
    <3>1. n \in Machine
      BY <2>2, <2>7, DisconnectType
    <3>2. /\ n.live = 0 /\ n.dropping = s.dropping /\ n.closing = 0
          /\ n.generation = s.generation /\ n.connection = 0
          /\ (n.connectPending <=> s.connectPending) /\ n.whip = s.whip
          /\ n.sdkInitialized = s.sdkInitialized /\ n.sdkReady = s.sdkReady
          /\ n.sdkStopping = s.sdkStopping /\ n.phase = s.phase /\ Stays(s, n)
      <4>1. /\ n.live = c.live /\ n.dropping = c.dropping /\ n.closing = 0
            /\ n.generation = c.generation /\ n.connection = c.connection
            /\ n.connectPending = c.connectPending /\ n.whip = c.whip
            /\ n.sdkInitialized = c.sdkInitialized /\ n.sdkReady = c.sdkReady
            /\ n.sdkStopping = c.sdkStopping /\ n.phase = c.phase /\ Stays(c, n)
        BY <2>7 DEF Machine, Stays
      <4> HIDE DEF n
      <4>2. QED
        BY <2>1, <2>8, <2>9, <4>1 DEF Stays
    <3>3. DisconnectStep(s, x, r) = Finish(n, r)
      BY <2>5, <2>9
    <3> HIDE DEF n
    <3>4. Phased(n, q) /\ Linked(n)
      BY <2>1, <2>9, <3>2 DEF Links, Phased, Linked
    <3>5. LinksInFlight(n, q)
      BY <2>1, <2>9, <3>2, InFlightKept DEF Links
    <3>6. Served(n, q, FALSE)
      BY <2>1, <3>2 DEF Served
    <3>7. Calm(n, Finish(n, r))
      BY <1>2, <3>1, <3>2, FinishCalm DEF Stays
    <3>8. QED
      BY <3>2, <3>3, <3>4, <3>5, <3>6, <3>7, LineLinks, EndsTransitive
         DEF Links, Calm, StaysOrEnds
  <2>10. CASE s.live = h
    <3>1. /\ d.live = h /\ d.dropping = c.dropping /\ d.closing = h
          /\ (d.needShutdown <=> need)
          /\ d.generation = s.generation /\ d.connection = 0
          /\ (d.connectPending <=> s.connectPending) /\ d.whip = s.whip
          /\ d.sdkInitialized = s.sdkInitialized /\ d.sdkReady = s.sdkReady
          /\ d.sdkStopping = s.sdkStopping /\ d.phase = s.phase /\ Stays(s, d)
      <4>1. /\ d.live = c.live /\ d.dropping = c.dropping /\ d.closing = c.closing
            /\ d.needShutdown = need
            /\ d.generation = c.generation /\ d.connection = c.connection
            /\ d.connectPending = c.connectPending /\ d.whip = c.whip
            /\ d.sdkInitialized = c.sdkInitialized /\ d.sdkReady = c.sdkReady
            /\ d.sdkStopping = c.sdkStopping /\ d.phase = c.phase /\ Stays(c, d)
        BY <2>7 DEF Machine, Stays
      <4> HIDE DEF d
      <4>2. QED
        BY <2>8, <2>10, <4>1 DEF Stays
    <3>2. DisconnectStep(s, x, r) = d
      BY <2>5, <2>10
    <3> HIDE DEF d
    <3>3. Phased(d, q) /\ Linked(d)
      BY <2>1, <2>8, <2>10, <3>1 DEF Links, Phased, Linked
    <3>4. LinksInFlight(d, q)
      BY <2>10, <3>1, InFlightKept DEF Links
    <3>5. Served(d, q, FALSE)
      BY <2>1, <2>8, <2>10, <3>1 DEF Served
    <3>6. QED
      BY <3>1, <3>2, <3>3, <3>4, <3>5 DEF Links, StaysOrEnds
  <2>11. QED
    BY <2>9, <2>10
<1>3. QED
  BY <1>1, <1>2

\* The stop of an SDK that carries no call.
LEMMA ShutdownStepLinks ==
    ASSUME NEW s \in Machine, Settled(s), NEW q, Links(s, q, FALSE), NEW r
    PROVE  Links(ShutdownStep(s, r), q, FALSE) /\ Stays(s, ShutdownStep(s, r))
<1> DEFINE a == [s EXCEPT !.audio = 0, !.sdkStopping = TRUE, !.phase = "stopping"]
           b == [s EXCEPT !.audio = 0, !.shutdownFailed = TRUE]
<1>1. CASE s.needShutdown /\ s.sdkInitialized /\ ~s.sdkStopping
  <2>1. s.audio = 0
    BY <1>1, OverIsQuiet DEF Settled, Retreats
  <2>2. Calm(s, b)
    BY <2>1, SMTT(30) DEF Calm, Line, StaysOrEnds, Stays, Machine
  <2>3. Stays(s, b)
    BY <2>1 DEF Stays, Machine
  <2>4. /\ a.sdkStopping /\ a.phase = "stopping" /\ a.needShutdown /\ a.sdkInitialized
        /\ a.generation = s.generation /\ a.connection = s.connection
        /\ a.closing = s.closing /\ a.connectPending = s.connectPending
        /\ a.whip = s.whip /\ a.live = s.live /\ a.dropping = s.dropping /\ Stays(s, a)
    BY <1>1, <2>1, SMTT(30) DEF Machine, Stays
  <2>5. ShutdownStep(s, r) \in {s, a, b}
    BY DEF ShutdownStep
  <2> HIDE DEF a, b
  <2>6. Phased(a, q) /\ Linked(a) /\ Served(a, q, FALSE)
    BY <2>4 DEF Links, Phased, Linked, Served
  <2>7. LinksInFlight(a, q)
    BY <2>4, InFlightKept DEF Links
  <2>8. Links(a, q, FALSE) /\ Links(b, q, FALSE)
    BY <2>2, <2>6, <2>7, LineLinks DEF Calm, Links
  <2>9. QED
    BY <2>3, <2>4, <2>5, <2>8 DEF Stays
<1>2. CASE ~(s.needShutdown /\ s.sdkInitialized /\ ~s.sdkStopping)
  BY <1>2 DEF ShutdownStep, Stays
<1>3. QED
  BY <1>1, <1>2

\* A close that takes too long asks for a stop.
LEMMA CloseStepCalm ==
    ASSUME NEW s \in Machine, NEW x
    PROVE  Calm(s, CloseStep(s, x)) /\ Stays(s, CloseStep(s, x))
<1> DEFINE c == [s EXCEPT !.closeDeadline = FALSE,
                          !.needShutdown = @ \/ (s.sdkInitialized /\ ~s.sdkStopping)]
<1>1. Calm(s, c) /\ Stays(s, c)
  BY SMTT(30) DEF Calm, Line, StaysOrEnds, Stays, Machine
<1>2. CloseStep(s, x) \in {s, c}
  BY DEF CloseStep
<1> HIDE DEF c
<1>3. QED
  BY <1>1, <1>2, CalmSelf DEF Stays

\* One turn through the tail of the loop.
LEMMA LoopTailLinks ==
    ASSUME NEW s \in Machine, Settled(s), NEW q \in Seq(RtcEvents), RtcInFlight(s, q),
           Links(s, q, eventFailure), eventFailure \in BOOLEAN,
           NEW x, NEW r \in Answers
    PROVE  Links(LoopTail(s, x, r), q, FALSE) /\ Moves(s, LoopTail(s, x, r))
<1> DEFINE a == FailStep(s, r)
           b == NoSdkStep(a, r)
           c == MediaStep(b)
           d == DeadlineStep(c, x, r)
           e == DisconnectStep(d, x, r)
           g == ShutdownStep(e, r)
           h == CloseStep(g, x)
<1>1. h = LoopTail(s, x, r) /\ r.disconnect \in BOOLEAN
  BY AnswersType DEF LoopTail
<1>2. Fine(a) /\ RtcInFlight(a, q) /\ Links(a, q, FALSE) /\ StaysOrEnds(s, a)
  BY FailStepFine, FailStepLinks, RtcKept DEF Keeps
<1> HIDE DEF a
<1>3. Fine(b) /\ RtcInFlight(b, q) /\ Links(b, q, FALSE) /\ Stays(a, b)
  BY <1>2, NoSdkStepFine, NoSdkStepLinks, RtcKept DEF Keeps, Fine
<1> HIDE DEF b
<1>4. /\ Fine(c) /\ RtcInFlight(c, q) /\ Links(c, q, FALSE)
      /\ Stays(b, c) \/ Sounds(b, c)
  BY <1>3, MediaStepFine, MediaStepLinks, RtcKept DEF Keeps, Fine
<1> HIDE DEF c
<1>5. Fine(d) /\ RtcInFlight(d, q) /\ Links(d, q, FALSE) /\ StaysOrEnds(c, d)
  BY <1>4, DeadlineStepFine, DeadlineStepCalm, LineLinks, RtcKept DEF Keeps, Fine, Calm
<1> HIDE DEF d
<1>6. Fine(e) /\ Links(e, q, FALSE) /\ StaysOrEnds(d, e)
  <2>1. Fine(e)
    BY <1>1, <1>5, DisconnectStepFine DEF Fine
  <2>2. Links(e, q, FALSE) /\ StaysOrEnds(d, e)
    <3>1. d \in Machine /\ Settled(d) /\ RtcInFlight(d, q) /\ Links(d, q, FALSE)
      BY <1>5 DEF Fine
    <3>2. QED
      BY <3>1, DisconnectStepLinks
  <2>3. QED
    BY <2>1, <2>2
<1> HIDE DEF e
<1>7. Fine(g) /\ Links(g, q, FALSE) /\ Stays(e, g)
  BY <1>6, ShutdownStepFine, ShutdownStepLinks DEF Fine
<1> HIDE DEF g
<1>8. Links(h, q, FALSE) /\ Stays(g, h)
  BY <1>7, CloseStepCalm, LineLinks DEF Fine, Calm
<1> HIDE DEF h
<1>9. StaysOrEnds(s, h) \/ Sounds(s, h)
  <2>1. StaysOrEnds(s, b)
    BY <1>2, <1>3, EndsTransitive DEF StaysOrEnds
  <2>2. StaysOrEnds(c, h)
    <3>1. StaysOrEnds(c, g)
      BY <1>5, <1>6, <1>7, EndsTransitive DEF StaysOrEnds
    <3>2. QED
      BY <1>8, <3>1, EndsTransitive DEF StaysOrEnds
  <2>3. CASE Stays(b, c)
    BY <2>1, <2>2, <2>3, EndsTransitive DEF StaysOrEnds
  <2>4. CASE Sounds(b, c)
    BY <2>1, <2>2, <2>4 DEF StaysOrEnds, Sounds, Stays, Ends
  <2>5. QED
    BY <1>4, <2>3, <2>4
<1>10. QED
  BY <1>1, <1>8, <1>9 DEF Moves

-----------------------------------------------------------------------------
\* What the SDK, the platform and the user do.

\* An appended queue, entry by entry.
LEMMA Appended ==
    ASSUME NEW q \in Seq(RtcEvents), NEW e \in RtcEvents
    PROVE  /\ Len(q) \in Nat /\ Len(Append(q, e)) = Len(q) + 1
           /\ Append(q, e)[Len(q) + 1] = e
           /\ \A i \in 1 .. Len(q) : i \in 1 .. Len(q) + 1 /\ Append(q, e)[i] = q[i]
           /\ \A i \in 1 .. Len(q) + 1 : i = Len(q) + 1 \/ i \in 1 .. Len(q)
OBVIOUS

\* What is queued once an event has joined.
LEMMA QueuedWith ==
    ASSUME NEW q \in Seq(RtcEvents), NEW e \in RtcEvents, NEW kind
    PROVE  InQueue(Append(q, e), kind) <=> InQueue(q, kind) \/ e.kind = kind
<1> DEFINE p == Append(q, e)
<1>1. /\ Len(q) \in Nat /\ Len(p) = Len(q) + 1 /\ p[Len(q) + 1] = e
      /\ \A i \in 1 .. Len(q) : i \in 1 .. Len(q) + 1 /\ p[i] = q[i]
      /\ \A i \in 1 .. Len(q) + 1 : i = Len(q) + 1 \/ i \in 1 .. Len(q)
  BY Appended
<1>2. Len(q) + 1 \in 1 .. Len(q) + 1
  BY <1>1
<1> HIDE DEF p
<1>3. QED
  BY <1>1, <1>2 DEF InQueue, p

\* An event that comes last in order keeps the order.
LEMMA AppendInFlight ==
    ASSUME NEW s, NEW q \in Seq(RtcEvents), NEW e \in RtcEvents, LinksInFlight(s, q),
           e.kind = "connected" => s.live \in {0, e.conn} /\ ~InQueue(q, "closed"),
           e.kind = "closed" => /\ e.gen = s.generation /\ e.conn = s.generation
                                /\ s.live = 0 /\ s.whip = 0,
           e.kind = "started" => ~InQueue(q, "stopped")
    PROVE  LinksInFlight(s, Append(q, e))
<1> DEFINE p == Append(q, e)
           n == Len(q) + 1
<1>1. /\ Len(q) \in Nat /\ Len(p) = n /\ p[n] = e
      /\ \A i \in 1 .. Len(q) : i \in 1 .. n /\ p[i] = q[i]
      /\ \A i \in 1 .. n : i = n \/ i \in 1 .. Len(q)
  BY Appended
<1>2. \A i \in 1 .. n : \A j \in i .. n : j = n \/ (j \in i .. Len(q) /\ p[j] = q[j])
  BY <1>1
<1>3. \A j \in n .. n : j = n
  BY <1>1
<1> HIDE DEF p, n
<1>4. SUFFICES ASSUME NEW i \in 1 .. n
               PROVE  /\ p[i].kind = "connected" => s.live \in {0, p[i].conn}
                      /\ p[i].kind = "closed" =>
                            /\ p[i].gen = s.generation /\ p[i].conn = s.generation
                            /\ s.live = 0 /\ s.whip = 0
                            /\ \A j \in i .. n : p[j].kind # "connected"
                      /\ p[i].kind = "stopped" => \A j \in i .. n : p[j].kind # "started"
  BY <1>1 DEF LinksInFlight, p
<1>5. CASE i = n
  BY <1>1, <1>3, <1>5
<1>6. CASE i \in 1 .. Len(q)
  <2>1. p[i] = q[i]
    BY <1>1, <1>6
  <2>2. p[i].kind = "closed" => e.kind # "connected"
    BY <1>6, <2>1 DEF InQueue
  <2>3. p[i].kind = "stopped" => e.kind # "started"
    BY <1>6, <2>1 DEF InQueue
  <2>4. QED
    BY <1>1, <1>2, <1>6, <2>1, <2>2, <2>3 DEF LinksInFlight
<1>7. QED
  BY <1>1, <1>5, <1>6

\* A signal, a foreign connection: nothing waits for them.
LEMMA OtherLinks ==
    ASSUME NEW s, NEW q \in Seq(RtcEvents), NEW e \in RtcEvents, NEW f, Links(s, q, f),
           e.kind \notin {"started", "connected", "closed"}
    PROVE  Links(s, Append(q, e), f)
<1> DEFINE p == Append(q, e)
<1>1. /\ InQueue(p, "started") <=> InQueue(q, "started")
      /\ InQueue(p, "connected") <=> InQueue(q, "connected")
      /\ InQueue(p, "closed") <=> InQueue(q, "closed")
  BY QueuedWith
<1>2. \A i \in 1 .. Len(p) : p[i].kind = "connected" => i \in 1 .. Len(q) /\ p[i] = q[i]
  BY Appended
<1>3. LinksInFlight(s, p)
  BY AppendInFlight DEF Links
<1> HIDE DEF p
<1>4. Phased(s, p) /\ Linked(s)
  BY <1>1 DEF Links, Phased
<1>5. Served(s, p, f)
  BY <1>1, <1>2 DEF Links, Served
<1>6. QED
  BY <1>3, <1>4, <1>5 DEF Links, p

\* A lost event: the queue is as it was, and the flag is up.
LEMMA LostLinks ==
    ASSUME NEW s, NEW q, NEW f, Phased(s, q), Linked(s), LinksInFlight(s, q), f = TRUE
    PROVE  Links(s, q, f)
BY DEF Links, Served

\* rtc_event(): the event joins the queue, or is lost.
LEMMA EmitCases ==
    ASSUME NEW e, EmitRtc(e)
    PROVE  \/ rtcQueue' = Append(rtcQueue, e) /\ eventFailure' = eventFailure
           \/ rtcQueue' = rtcQueue /\ eventFailure' = TRUE
BY DEF EmitRtc

\* The SDK has started.
LEMMA SdkStartedLinks ==
    ASSUME Inductive, LinkInv, SdkStarted
    PROVE  LinkInv' /\ Stays(m, m')
<1> DEFINE e == [kind |-> "started"]
<1>1. e \in RtcEvents /\ e.kind = "started"
  BY DEF RtcEvents
<1>2. /\ m \in Machine /\ Settled(m) /\ RtcInFlight(m, rtcQueue)
      /\ rtcQueue \in Seq(RtcEvents) /\ Links(m, rtcQueue, eventFailure)
      /\ m.phase = "starting" /\ m' = [m EXCEPT !.phase = "started"] /\ EmitRtc(e)
  BY DEF Inductive, TypeOK, LinkInv, SdkStarted
<1> HIDE DEF e
<1>3. /\ m'.phase = "started" /\ Stays(m, m')
      /\ m'.generation = m.generation /\ m'.connection = m.connection
      /\ m'.closing = m.closing /\ m'.connectPending = m.connectPending
      /\ m'.whip = m.whip /\ m'.live = m.live /\ m'.dropping = m.dropping
      /\ m'.sdkInitialized = m.sdkInitialized /\ m'.sdkReady = m.sdkReady
      /\ m'.sdkStopping = m.sdkStopping /\ m'.needShutdown = m.needShutdown
  BY <1>2 DEF Machine, Stays
<1>4. m.sdkInitialized /\ ~m.sdkStopping /\ ~InQueue(rtcQueue, "stopped")
  BY <1>2 DEF Links, Phased, Settled, Powered, RtcInFlight, InQueue
<1>5. Linked(m') /\ LinksInFlight(m', rtcQueue) /\ Phased(m', rtcQueue)
  BY <1>2, <1>3, <1>4, InFlightKept DEF Links, Linked, Phased
<1>6. CASE rtcQueue' = rtcQueue /\ eventFailure' = TRUE
  BY <1>3, <1>5, <1>6, LostLinks DEF LinkInv
<1>7. CASE rtcQueue' = Append(rtcQueue, e) /\ eventFailure' = eventFailure
  <2> DEFINE q == rtcQueue
             p == Append(q, e)
  <2>1. /\ InQueue(p, "connected") <=> InQueue(q, "connected")
        /\ InQueue(p, "closed") <=> InQueue(q, "closed")
    BY <1>1, <1>2, QueuedWith
  <2>2. \A i \in 1 .. Len(p) : p[i].kind = "connected" => i \in 1 .. Len(q) /\ p[i] = q[i]
    BY <1>1, <1>2, Appended
  <2>3. LinksInFlight(m', p)
    BY <1>1, <1>2, <1>4, <1>5, AppendInFlight
  <2> HIDE DEF p
  <2>4. Phased(m', p)
    BY <1>3, <1>4, <1>5 DEF Phased
  <2>5. Served(m', p, eventFailure)
    BY <1>2, <1>3, <2>1, <2>2 DEF Links, Served
  <2>6. QED
    BY <1>3, <1>5, <1>7, <2>3, <2>4, <2>5 DEF Links, LinkInv, p
<1>8. QED
  BY <1>2, <1>6, <1>7, EmitCases

\* The WHIP in flight completes.
LEMMA SdkConnectedLinks ==
    ASSUME Inductive, LinkInv, NEW ok \in BOOLEAN, SdkConnected(ok)
    PROVE  LinkInv' /\ Stays(m, m')
<1> DEFINE conn == IF ok THEN m.whip ELSE 0
           e == [kind |-> "connected", gen |-> m.whip, conn |-> conn]
           h == IF ok THEN m.whip ELSE m.live
<1>1. /\ m \in Machine /\ Settled(m) /\ RtcInFlight(m, rtcQueue)
      /\ rtcQueue \in Seq(RtcEvents) /\ Links(m, rtcQueue, eventFailure)
      /\ m.whip # 0 /\ m' = [m EXCEPT !.whip = 0, !.live = h] /\ EmitRtc(e)
  BY DEF Inductive, TypeOK, LinkInv, SdkConnected
<1>2. /\ m.whip = m.generation /\ m.connectPending /\ m.live = 0 /\ m.dropping = 0
      /\ m.connection = 0 /\ m.closing = 0 /\ m.phase \in {"started", "stopping"}
      /\ ~InQueue(rtcQueue, "closed")
  BY <1>1 DEF Settled, Asked, Links, Linked, LinksInFlight, Phased, InQueue
<1>3. conn \in {0, m.generation} /\ h = conn
  BY <1>2
<1>4. e \in RtcEvents /\ e.kind = "connected" /\ e.conn = conn
  <2>1. m.generation \in Generations /\ 0 \in Handles
    BY <1>1, NoHandle DEF Machine
  <2>2. QED
    BY <1>2, <1>3, <2>1 DEF RtcEvents, Handles
<1> HIDE DEF e
<1>5. /\ m'.whip = 0 /\ m'.live = h /\ Stays(m, m')
      /\ m'.generation = m.generation /\ m'.connection = m.connection
      /\ m'.closing = m.closing /\ m'.connectPending = m.connectPending
      /\ m'.phase = m.phase /\ m'.dropping = m.dropping
      /\ m'.sdkInitialized = m.sdkInitialized /\ m'.sdkReady = m.sdkReady
      /\ m'.sdkStopping = m.sdkStopping /\ m'.needShutdown = m.needShutdown
  BY <1>1 DEF Machine, Stays
<1> HIDE DEF h, conn
<1>6. Linked(m') /\ Phased(m', rtcQueue)
  BY <1>1, <1>2, <1>3, <1>5 DEF Links, Linked, Phased
<1>7. LinksInFlight(m', rtcQueue)
  <2>1. \A i \in 1 .. Len(rtcQueue) : rtcQueue[i].kind \notin {"connected", "closed"}
    BY <1>1, <1>2 DEF RtcInFlight, InQueue
  <2>2. QED
    BY <1>1, <2>1 DEF Links, LinksInFlight
<1>8. CASE rtcQueue' = rtcQueue /\ eventFailure' = TRUE
  BY <1>5, <1>6, <1>7, <1>8, LostLinks DEF LinkInv
<1>9. CASE rtcQueue' = Append(rtcQueue, e) /\ eventFailure' = eventFailure
  <2> DEFINE q == rtcQueue
             p == Append(q, e)
  <2>1. /\ InQueue(p, "connected")
        /\ InQueue(p, "started") <=> InQueue(q, "started")
    BY <1>1, <1>4, QueuedWith
  <2>2. \A i \in 1 .. Len(p) : p[i] = e \/ (i \in 1 .. Len(q) /\ p[i] = q[i])
    BY <1>1, <1>4, Appended
  <2>3. \A i \in 1 .. Len(p) : p[i].kind = "connected" => p[i].conn = conn
    BY <1>1, <1>4, <2>2 DEF RtcInFlight
  <2>4. LinksInFlight(m', p)
    BY <1>1, <1>2, <1>3, <1>4, <1>5, <1>7, AppendInFlight
  <2> HIDE DEF p
  <2>5. Phased(m', p)
    BY <1>6, <2>1 DEF Phased
  <2>6. Served(m', p, eventFailure)
    BY <1>2, <1>3, <1>5, <2>1, <2>3 DEF Served
  <2>7. QED
    BY <1>5, <1>6, <1>9, <2>4, <2>5, <2>6 DEF Links, LinkInv, p
<1>10. QED
  BY <1>1, <1>8, <1>9, EmitCases

\* The open connection closes: whoever waited for it is told.
LEMMA SdkClosedLinks ==
    ASSUME Inductive, LinkInv, SdkClosed
    PROVE  LinkInv' /\ Stays(m, m')
<1> DEFINE e == [kind |-> "closed", gen |-> m.live, conn |-> m.live]
<1>1. /\ m \in Machine /\ Settled(m) /\ RtcInFlight(m, rtcQueue)
      /\ rtcQueue \in Seq(RtcEvents) /\ Links(m, rtcQueue, eventFailure)
      /\ m.live # 0 /\ m' = [m EXCEPT !.live = 0, !.dropping = 0] /\ EmitRtc(e)
  BY DEF Inductive, TypeOK, LinkInv, SdkClosed
<1>2. m.live = m.generation /\ m.whip = 0 /\ m.dropping \in {0, m.live}
  BY <1>1 DEF Links, Linked
<1>3. /\ e \in RtcEvents /\ e.kind = "closed"
      /\ e.gen = m.generation /\ e.conn = m.generation
  BY <1>1, <1>2 DEF RtcEvents, Machine, Handles
<1> HIDE DEF e
<1>4. /\ m'.live = 0 /\ m'.dropping = 0 /\ Stays(m, m')
      /\ m'.generation = m.generation /\ m'.connection = m.connection
      /\ m'.closing = m.closing /\ m'.connectPending = m.connectPending
      /\ m'.phase = m.phase /\ m'.whip = 0
      /\ m'.sdkInitialized = m.sdkInitialized /\ m'.sdkReady = m.sdkReady
      /\ m'.sdkStopping = m.sdkStopping /\ m'.needShutdown = m.needShutdown
  BY <1>1, <1>2 DEF Machine, Stays
<1>5. Linked(m') /\ Phased(m', rtcQueue)
  BY <1>1, <1>2, <1>4 DEF Links, Linked, Phased
<1>6. LinksInFlight(m', rtcQueue)
  BY <1>1, <1>4 DEF Links, LinksInFlight
<1>7. CASE rtcQueue' = rtcQueue /\ eventFailure' = TRUE
  BY <1>4, <1>5, <1>6, <1>7, LostLinks DEF LinkInv
<1>8. CASE rtcQueue' = Append(rtcQueue, e) /\ eventFailure' = eventFailure
  <2> DEFINE q == rtcQueue
             p == Append(q, e)
  <2>1. /\ InQueue(p, "closed")
        /\ InQueue(p, "connected") <=> InQueue(q, "connected")
        /\ InQueue(p, "started") <=> InQueue(q, "started")
    BY <1>1, <1>3, QueuedWith
  <2>2. LinksInFlight(m', p)
    BY <1>1, <1>3, <1>4, <1>6, AppendInFlight
  <2> HIDE DEF p
  <2>3. Phased(m', p)
    BY <1>5, <2>1 DEF Phased
  <2>4. Served(m', p, eventFailure)
    BY <1>1, <1>2, <1>4, <2>1 DEF Links, Served
  <2>5. QED
    BY <1>4, <1>5, <1>8, <2>2, <2>3, <2>4 DEF Links, LinkInv, p
<1>9. QED
  BY <1>1, <1>7, <1>8, EmitCases

\* The stop completes: the SDK holds nothing any more.
LEMMA SdkStoppedLinks ==
    ASSUME Inductive, LinkInv, SdkStopped
    PROVE  LinkInv' /\ Stays(m, m')
<1> DEFINE e == [kind |-> "stopped"]
<1>1. /\ m \in Machine /\ Settled(m) /\ RtcInFlight(m, rtcQueue)
      /\ rtcQueue \in Seq(RtcEvents) /\ Links(m, rtcQueue, eventFailure)
      /\ m.phase = "stopping" /\ EmitRtc(e)
      /\ m' = [m EXCEPT !.phase = "off", !.whip = 0, !.live = 0, !.dropping = 0]
  BY DEF Inductive, TypeOK, LinkInv, SdkStopped
<1>2. e \in RtcEvents /\ e.kind = "stopped"
  BY DEF RtcEvents
<1> HIDE DEF e
<1>3. m.sdkStopping /\ m.needShutdown /\ m.sdkInitialized
  BY <1>1 DEF Settled, Powered
<1>4. /\ m'.live = 0 /\ m'.dropping = 0 /\ m'.whip = 0 /\ m'.phase = "off" /\ Stays(m, m')
      /\ m'.generation = m.generation /\ m'.connection = m.connection
      /\ m'.closing = m.closing /\ m'.connectPending = m.connectPending
      /\ m'.sdkInitialized = m.sdkInitialized /\ m'.sdkReady = m.sdkReady
      /\ m'.sdkStopping = m.sdkStopping /\ m'.needShutdown = m.needShutdown
  BY <1>1 DEF Machine, Stays
<1>5. Linked(m') /\ Phased(m', rtcQueue)
  BY <1>3, <1>4 DEF Linked, Phased
<1>6. LinksInFlight(m', rtcQueue)
  BY <1>1, <1>4 DEF Links, LinksInFlight
<1>7. \A f : Served(m', rtcQueue, f)
  BY <1>3, <1>4 DEF Served
<1>8. \A f : Links(m', rtcQueue, f)
  BY <1>5, <1>6, <1>7 DEF Links
<1>9. \A f : Links(m', Append(rtcQueue, e), f)
  BY <1>1, <1>2, <1>8, OtherLinks
<1>10. QED
  BY <1>1, <1>4, <1>8, <1>9, EmitCases DEF LinkInv

\* A signal of the peer, or a foreign connection.
LEMMA SdkOtherLinks ==
    ASSUME Inductive, LinkInv, m' = m, NEW e \in RtcEvents, EmitRtc(e),
           e.kind \notin {"started", "connected", "closed"}
    PROVE  LinkInv' /\ Stays(m, m')
<1>1. rtcQueue \in Seq(RtcEvents) /\ Links(m, rtcQueue, eventFailure)
  BY DEF Inductive, TypeOK, LinkInv
<1>2. Links(m, Append(rtcQueue, e), eventFailure)
  BY <1>1, OtherLinks
<1>3. Links(m, rtcQueue, TRUE)
  BY <1>1, LostLinks DEF Links
<1>4. QED
  BY <1>2, <1>3, EmitCases DEF LinkInv, Stays

\* The SDK.
LEMMA SdkLinks ==
    ASSUME Inductive, LinkInv, Sdk
    PROVE  LinkInv' /\ Stays(m, m')
<1>1. CASE SdkStarted
  BY <1>1, SdkStartedLinks
<1>2. CASE \E ok \in BOOLEAN : SdkConnected(ok)
  BY <1>2, SdkConnectedLinks
<1>3. CASE \E kind \in scenario.signals : SdkSignal(kind)
  <2>1. PICK kind \in scenario.signals : SdkSignal(kind)
    BY <1>3
  <2>2. kind \in SignalKinds
    BY VoipAssumption DEF Inductive, TypeOK, ScenarioKinds
  <2>3. PICK h \in {m.live, m.whip} \ {0} : EmitRtc([kind |-> kind, gen |-> h, conn |-> h])
    BY <2>1 DEF SdkSignal
  <2>4. h \in Generations /\ h \in Handles
    BY <2>3 DEF Inductive, TypeOK, Machine, Handles
  <2> DEFINE e == [kind |-> kind, gen |-> h, conn |-> h]
  <2>5. e \in RtcEvents /\ e.kind = kind
    BY <2>2, <2>4 DEF RtcEvents
  <2>6. m' = m /\ EmitRtc(e) /\ e.kind \notin {"started", "connected", "closed"}
    BY <2>1, <2>2, <2>3 DEF SdkSignal, SignalKinds
  <2> HIDE DEF e
  <2>7. QED
    BY <2>5, <2>6, SdkOtherLinks
<1>4. CASE SdkClosed
  BY <1>4, SdkClosedLinks
<1>5. CASE SdkStopped
  BY <1>5, SdkStoppedLinks
<1>6. CASE SdkAccepted
  <2> DEFINE e == [kind |-> "unexpected"]
  <2>1. e \in RtcEvents /\ e.kind \notin {"started", "connected", "closed"}
    BY DEF RtcEvents
  <2>2. m' = m /\ EmitRtc(e)
    BY <1>6 DEF SdkAccepted
  <2> HIDE DEF e
  <2>3. QED
    BY <2>1, <2>2, SdkOtherLinks
<1>7. QED
  BY <1>1, <1>2, <1>3, <1>4, <1>5, <1>6 DEF Sdk

\* The platform and the user leave the SDK and the call alone; they may raise the
\* failure flag.
LEMMA OutsideCalm ==
    ASSUME Inductive, Platform \/ \E command \in scenario.commands : User(command)
    PROVE  /\ Calm(m, m') /\ rtcQueue' = rtcQueue
           /\ eventFailure' = eventFailure \/ eventFailure' = TRUE
<1>1. m \in Machine
  BY DEF Inductive, TypeOK
<1>2. \A g, e, c : /\ Calm(m, [m EXCEPT !.expired = e])
                   /\ Calm(m, [m EXCEPT !.fetches = g, !.expired = e])
                   /\ Calm(m, [m EXCEPT !.callRequest = c, !.expired = e])
  BY <1>1, SMTT(30) DEF Calm, Line, StaysOrEnds, Stays, Machine
<1>3. Calm(m, m)
  BY CalmSelf
<1>4. Calm(m, m')
  <2>1. CASE m' = m
    BY <1>3, <2>1
  <2>2. CASE NewEpoch
    BY <1>2, <2>2 DEF NewEpoch
  <2>3. CASE \E op \in Fetches, ok \in BOOLEAN : RespondFetch(op, ok)
    <3>1. PICK op \in Fetches, ok \in BOOLEAN : RespondFetch(op, ok)
      BY <2>3
    <3>2. m' = [m EXCEPT !.fetches = @ \ {op}, !.expired = @ \ {op}]
      BY <3>1 DEF RespondFetch
    <3>3. Calm(m, [m EXCEPT !.fetches = m.fetches \ {op}, !.expired = m.expired \ {op}])
      BY <1>2
    <3>4. QED
      BY <3>2, <3>3
  <2>4. CASE \E result \in {"ok", "error", "oversized"}, id \in CallIds \cup {None} :
                RespondCall(result, id)
    <3>1. m' = [m EXCEPT !.callRequest = 0, !.expired = @ \ {"call"}]
      BY <2>4 DEF RespondCall
    <3>2. Calm(m, [m EXCEPT !.callRequest = 0, !.expired = m.expired \ {"call"}])
      BY <1>2
    <3>3. QED
      BY <3>1, <3>2
  <2>5. QED
    BY <2>1, <2>2, <2>3, <2>4 DEF Platform, LinkUp, AnnounceOnline, LinkDown,
       NetworkDown, NoticeDown, Unbind, Message, User
<1>5. /\ rtcQueue' = rtcQueue
      /\ eventFailure' = eventFailure \/ eventFailure' = TRUE
  BY DEF Platform, LinkUp, AnnounceOnline, LinkDown, NetworkDown, NoticeDown, Unbind,
     RespondFetch, RespondCall, Message, User, PlatformFrame, PlatformEvent,
     Delivered, Lost
<1>6. QED
  BY <1>4, <1>5

\* The control task.
LEMMA TaskLinks ==
    ASSUME Inductive, LinkInv, Task
    PROVE  LinkInv' /\ Moves(m, m')
<1>1. /\ m \in Machine /\ Settled(m) /\ RtcInFlight(m, rtcQueue)
      /\ rtcQueue \in Seq(RtcEvents) /\ Links(m, rtcQueue, eventFailure)
      /\ eventFailure \in BOOLEAN /\ online \in BOOLEAN
  BY DEF Inductive, TypeOK, LinkInv
<1>2. CASE TakeRtc
  <2>1. PICK r \in Answers : m' = RtcDispatch(m, Head(rtcQueue), r)
    BY <1>2 DEF TakeRtc
  <2>2. rtcQueue # <<>> /\ rtcQueue' = Tail(rtcQueue) /\ eventFailure' = eventFailure
    BY <1>2 DEF TakeRtc
  <2>3. Dispatched(m, m', rtcQueue, eventFailure)
    BY <1>1, <2>1, <2>2, RtcDispatchLinks
  <2>4. QED
    BY <2>2, <2>3 DEF Dispatched, LinkInv
<1>3. CASE TakeEvent
  <2> DEFINE e == Head(queue)
             E == PlatformEvents \cup UserEvents
  <2>1. e \in E
    <3>1. queue \in Seq(E) /\ queue # <<>>
      BY <1>3 DEF Inductive, TypeOK, TakeEvent
    <3> HIDE DEF E
    <3>2. QED
      BY <3>1
  <2>2. PICK r \in Answers, some \in BOOLEAN : m' = Dispatch(m, e, some, r)
    BY <1>3 DEF TakeEvent
  <2>3. rtcQueue = <<>> /\ rtcQueue' = rtcQueue /\ eventFailure' = eventFailure
    BY <1>3 DEF TakeEvent
  <2> HIDE DEF e
  <2>4. Linking(m, m', eventFailure)
    BY <1>1, <2>1, <2>2, <2>3, DispatchLinks
  <2>5. QED
    BY <2>3, <2>4 DEF Linking, LinkInv
<1>4. CASE NoEvent
  BY <1>4 DEF NoEvent, LinkInv, Moves, StaysOrEnds, Stays
<1>5. CASE \E x \in Expiry : RunTail(x)
  <2>1. PICK x \in Expiry : RunTail(x)
    BY <1>5
  <2>2. PICK r \in Answers : m' = LoopTail(m, x, r)
    BY <2>1 DEF RunTail
  <2>3. rtcQueue' = rtcQueue /\ eventFailure' = FALSE
    BY <2>1 DEF RunTail
  <2>4. Links(m', rtcQueue, FALSE) /\ Moves(m, m')
    BY <1>1, <2>2, LoopTailLinks
  <2>5. QED
    BY <2>3, <2>4 DEF LinkInv
<1>6. QED
  BY <1>2, <1>3, <1>4, <1>5 DEF Task

\* Every step keeps the links, and moves the call or leaves it alone.
LEMMA NextLinks ==
    ASSUME Inductive, LinkInv, [Next]_vars
    PROVE  LinkInv' /\ Moves(m, m')
<1>1. CASE Task
  BY <1>1, TaskLinks
<1>2. CASE Sdk
  BY <1>2, SdkLinks DEF Moves, StaysOrEnds
<1>3. CASE Platform \/ \E command \in scenario.commands : User(command)
  <2>1. /\ Calm(m, m') /\ rtcQueue' = rtcQueue
        /\ eventFailure' = eventFailure \/ eventFailure' = TRUE
    BY <1>3, OutsideCalm
  <2>2. Links(m', rtcQueue, eventFailure)
    BY <2>1, LineLinks DEF Calm, LinkInv
  <2>3. LinkInv'
    BY <2>1, <2>2, LostLinks DEF LinkInv, Links
  <2>4. QED
    BY <2>1, <2>3 DEF Calm, Moves
<1>4. CASE UNCHANGED vars
  BY <1>4 DEF vars, LinkInv, Moves, StaysOrEnds, Stays
<1>5. QED
  BY <1>1, <1>2, <1>3, <1>4 DEF Next

\* Nothing is linked to nothing.
LEMMA InitLinks == Init => LinkInv
<1> SUFFICES ASSUME Init PROVE LinkInv
  OBVIOUS
<1>1. m = Boot /\ rtcQueue = <<>> /\ eventFailure = FALSE
  BY DEF Init
<1>2. /\ ~m.sdkInitialized /\ ~m.sdkReady /\ ~m.sdkStopping /\ m.phase = "off"
      /\ ~m.connectPending /\ m.connection = 0 /\ m.closing = 0
      /\ m.live = 0 /\ m.dropping = 0 /\ m.whip = 0
  BY <1>1 DEF Boot
<1>3. QED
  BY <1>1, <1>2, NothingQueued, FreedLinks DEF LinkInv

-----------------------------------------------------------------------------
\* No connection is lost sight of, and no end of one goes unheard, in any
\* reachable state (voip.c task(), rtc_adapter.c).
THEOREM AlwaysLinked == Spec => []LinkInv
<1>1. Inductive /\ LinkInv /\ [Next]_vars => LinkInv'
  BY NextLinks
<1>2. QED
  BY <1>1, InitLinks, AlwaysInductive, PTL DEF Spec

\* A call runs on a started SDK only, and an SDK is stopped when no call uses it;
\* what the SDK has in hand, it has while it runs (task(), dial(), incoming()).
THEOREM StopsBetweenCalls == Spec => []StopQuiesces
<1>1. Inductive /\ LinkInv => StopQuiesces
  BY DEF Inductive, Settled, Powered, LinkInv, Links, Phased, StopQuiesces
<1>2. QED
  BY <1>1, AlwaysInductive, AlwaysLinked, PTL

\* The results queued for the present call are its own.
LEMMA ResultsAreOwn ==
    ASSUME Inductive, LinkInv
    PROVE  /\ InQueue(rtcQueue, "connected") => InRtcQueueOf("connected", m.generation)
           /\ InQueue(rtcQueue, "closed") => InRtcQueueOf("closed", m.generation)
BY DEF Inductive, LinkInv, Links, RtcInFlight, LinksInFlight, InQueue, InRtcQueueOf

\* A connection the SDK holds is the call's, or is being disconnected, or its
\* arrival is queued, or the SDK is to stop (rtc_dispatch(), end_call()).
THEOREM ConnectionsAreHeld == Spec => []NoOrphanConnection
<1>1. Inductive /\ LinkInv => NoOrphanConnection
  <2> SUFFICES ASSUME Inductive, LinkInv, m.live # 0, ~GivingUp
               PROVE  m.live \in {m.connection, m.closing, m.dropping}
                        \/ InRtcQueueOf("connected", m.live)
    BY DEF NoOrphanConnection
  <2>1. /\ m.live = m.generation /\ m.whip = 0
        /\ m.live \in {m.connection, m.closing} \/ m.connectPending
    BY DEF LinkInv, Links, Linked
  <2>2. m.connectPending => InQueue(rtcQueue, "connected")
    BY <2>1 DEF LinkInv, Links, Served, GivingUp
  <2>3. QED
    BY <2>1, <2>2, ResultsAreOwn
<1>2. QED
  BY <1>1, AlwaysInductive, AlwaysLinked, PTL

\* A call that waits for a WHIP, for a disconnect or on a connection has what ends
\* the wait under way, or the SDK is to stop (rtc_dispatch(), task()).
THEOREM NoWaitInVain == Spec => []WaitsAreServed
<1>1. Inductive /\ LinkInv => WaitsAreServed
  <2> SUFFICES ASSUME Inductive, LinkInv, ~GivingUp PROVE WaitsAreServed
    BY DEF WaitsAreServed
  <2>1. /\ m.connectPending => m.whip # 0 \/ InQueue(rtcQueue, "connected")
        /\ m.closing # 0 => m.dropping = m.closing \/ InQueue(rtcQueue, "closed")
        /\ m.connection # 0 => m.live = m.connection \/ InQueue(rtcQueue, "closed")
    BY DEF LinkInv, Links, Served, GivingUp
  <2>2. /\ m.whip # 0 => m.whip = m.generation
        /\ m.closing \in {0, m.generation} /\ m.connection \in {0, m.generation}
    BY DEF Inductive, Settled, Asked, Connected
  <2>3. QED
    BY <2>1, <2>2, ResultsAreOwn DEF WaitsAreServed
<1>2. QED
  BY <1>1, AlwaysInductive, AlwaysLinked, PTL

\* A move of the call is a step of CallLife, or leaves it where it is.
LEMMA MovesAreLife ==
    ASSUME m \in Machine, m' \in Machine, Moves(m, m')
    PROVE  [Life!Next]_Life!vars
<1>1. m.stage \in Stages /\ m'.stage \in Stages
  BY DEF Machine
<1>2. CASE Stays(m, m')
  BY <1>2 DEF Stays, Life!vars
<1>3. CASE Ends(m, m')
  <2>1. Life!End
    BY <1>1, <1>3 DEF Ends, Life!End, LifePhase, Stages
  <2>2. QED
    BY <2>1 DEF Life!Next
<1>4. CASE Begins(m, m')
  <2>1. Life!Begin
    BY <1>4 DEF Begins, Life!Begin, Life!Sessions, Generations, LifePhase
  <2>2. QED
    BY <2>1 DEF Life!Next
<1>5. CASE Joins(m, m')
  <2>1. Life!Join
    BY <1>5 DEF Joins, Life!Join, LifePhase
  <2>2. QED
    BY <2>1 DEF Life!Next
<1>6. CASE Waits(m, m')
  BY <1>6 DEF Waits, Life!vars, LifePhase
<1>7. CASE Talks(m, m')
  <2>1. Life!Talk
    BY <1>7 DEF Talks, Life!Talk, LifePhase
  <2>2. QED
    BY <2>1 DEF Life!Next
<1>8. CASE Sounds(m, m')
  <2>1. Life!StartAudio
    BY <1>8 DEF Sounds, Life!StartAudio, LifePhase
  <2>2. QED
    BY <2>1 DEF Life!Next
<1>9. QED
  BY <1>2, <1>3, <1>4, <1>5, <1>6, <1>7, <1>8 DEF Moves, StaysOrEnds

\* The control task implements the life of a call: whatever the events, and
\* however late, a call moves forward only, and none is revived (voip_state.c).
THEOREM ImplementsLife == Spec => LifeSpec
<1>1. Init => Life!Init
  BY DEF Init, Boot, Life!Init, LifePhase
<1>2. Inductive /\ LinkInv /\ Inductive' /\ [Next]_vars => [Life!Next]_Life!vars
  BY NextLinks, MovesAreLife DEF Inductive, TypeOK
<1>3. QED
  BY <1>1, <1>2, AlwaysInductive, AlwaysLinked, PTL DEF Spec, LifeSpec, Life!Spec
=============================================================================
