------------------------- MODULE VoipControl_proofs -------------------------
(***************************************************************************)
(* Safety of the control task, for any number of rooms, call ids,          *)
(* remembered calls and generations, for queues of any capacity, in any    *)
(* scenario.                                                               *)
(*                                                                         *)
(* First the handlers of voip.c and rtc_adapter.c: applied to a record     *)
(* that is settled, each gives a settled record, and keeps the promises    *)
(* the record has made: a WHIP, a stop and a call request that are waited  *)
(* for are still waited for afterwards.  The lemmas named ...Type are the  *)
(* typing of one update; those named ...Fine the whole handler.            *)
(*                                                                         *)
(* Then Inductive holds initially and is kept by every action: the queue   *)
(* lemmas keep what is in flight consistent with what the record waits     *)
(* for.  The safety properties follow from it.                             *)
(***************************************************************************)
EXTENDS VoipInvariant, TLAPS

-----------------------------------------------------------------------------
\* The handlers.

\* A settled record of the right type.
Fine(s) == s \in Machine /\ Settled(s)

KeepsWhip(s, t) == s.connectPending =>
    t.connectPending /\ t.generation = s.generation /\ t.whip = s.whip

KeepsStop(s, t) == s.sdkStopping =>
    t.sdkStopping /\ t.phase = s.phase /\ t.whip = s.whip

KeepsCall(s, t) == s.callPending =>
    t.callPending /\ t.generation = s.generation /\ t.callRequest = s.callRequest

Keeps(s, t) == KeepsWhip(s, t) /\ KeepsStop(s, t) /\ KeepsCall(s, t)

\* t has the SDK of s.
SameSdk(s, t) ==
    /\ t.sdkInitialized = s.sdkInitialized /\ t.sdkReady = s.sdkReady
    /\ t.sdkStopping = s.sdkStopping /\ t.needShutdown = s.needShutdown
    /\ t.inputs = s.inputs /\ t.phase = s.phase /\ t.whip = s.whip

\* t differs from s in nothing that Settled speaks of.
Same(s, t) ==
    /\ t.stage = s.stage /\ t.generation = s.generation /\ t.outgoing = s.outgoing
    /\ t.transport_ready = s.transport_ready
    /\ t.payload = s.payload /\ t.room = s.room /\ t.callId = s.callId
    /\ t.connection = s.connection /\ t.closing = s.closing
    /\ t.connectPending = s.connectPending /\ t.callPending = s.callPending
    /\ t.localEnd = s.localEnd /\ t.told = s.told
    /\ t.mediaStarted = s.mediaStarted
    /\ t.deadline = s.deadline /\ t.closeDeadline = s.closeDeadline
    /\ t.sdkInitialized = s.sdkInitialized /\ t.sdkReady = s.sdkReady
    /\ t.sdkStopping = s.sdkStopping /\ t.needShutdown = s.needShutdown
    /\ t.audio = s.audio /\ t.inputs = s.inputs
    /\ t.phase = s.phase /\ t.whip = s.whip /\ t.callRequest = s.callRequest

\* A change in fields no invariant reads disturbs nothing.
LEMMA SameFine ==
    ASSUME NEW s, NEW t, Same(s, t)
    PROVE  /\ Settled(s) => Settled(t)
           /\ Keeps(s, t)
           /\ Staged(s) => Staged(t)
           /\ Connected(s) => Connected(t)
           /\ Asked(s) => Asked(t)
           /\ Powered(s) => Powered(t)
           /\ Unfinished(s) <=> Unfinished(t)
BY SMTT(60) DEF Same, Settled, Staged, Clean, Unfinished, Connected, Asked,
     Powered, Retreats, Keeps, KeepsWhip, KeepsStop, KeepsCall

\* A new generation is neither 0 nor the one before (call_begin()).
LEMMA NextGenerationType ==
    ASSUME NEW g \in Generations
    PROVE  NextGeneration(g) \in Generations \ {0, g}
BY GenModAssumption DEF NextGeneration, Generations

\* A fetch handed to the platform is one of the outstanding ones.
LEMMA AwaitingType ==
    ASSUME NEW f \in SomeFetches, NEW op \in Fetches
    PROVE  Awaiting(f, op) \in SomeFetches
BY DEF Awaiting, SomeFetches

\* request_profile() touches nothing a call depends on.
LEMMA RequestProfileFine ==
    ASSUME NEW s \in Machine, NEW r
    PROVE  RequestProfile(s, r) \in Machine /\ Same(s, RequestProfile(s, r))
<1>1. Awaiting(s.fetches, "profile") \in SomeFetches
  BY AwaitingType DEF Machine, Fetches
<1>2. /\ [s EXCEPT !.profileDirty = TRUE] \in Machine
      /\ [s EXCEPT !.profilePending = TRUE, !.profileDirty = FALSE,
                   !.fetches = Awaiting(@, "profile")] \in Machine
  BY <1>1, ZenonT(150) DEF Machine
<1>3. RequestProfile(s, r) \in Machine
  BY <1>2 DEF RequestProfile
<1>4. Same(s, RequestProfile(s, r))
  BY DEF RequestProfile, Same, Machine
<1>5. QED
  BY <1>3, <1>4

\* request_contacts() touches nothing a call depends on.
LEMMA RequestContactsFine ==
    ASSUME NEW s \in Machine, NEW r
    PROVE  RequestContacts(s, r) \in Machine /\ Same(s, RequestContacts(s, r))
<1>1. Awaiting(s.fetches, "contacts") \in SomeFetches
  BY AwaitingType DEF Machine, Fetches
<1>2. /\ [s EXCEPT !.contactsDirty = TRUE] \in Machine
      /\ [s EXCEPT !.contactsPending = TRUE, !.contactsDirty = FALSE,
                   !.fetches = Awaiting(@, "contacts")] \in Machine
  BY <1>1, ZenonT(150) DEF Machine
<1>3. RequestContacts(s, r) \in Machine
  BY <1>2 DEF RequestContacts
<1>4. Same(s, RequestContacts(s, r))
  BY DEF RequestContacts, Same, Machine
<1>5. QED
  BY <1>3, <1>4

\* Nor does refresh_deferred_metadata(), which calls either.
LEMMA RefreshFine ==
    ASSUME NEW s \in Machine, NEW r
    PROVE  /\ RefreshDeferredMetadata(s, r) \in Machine
           /\ Same(s, RefreshDeferredMetadata(s, r))
<1>1. Same(s, s)
  BY DEF Same
<1>2. QED
  BY <1>1, RequestProfileFine, RequestContactsFine DEF RefreshDeferredMetadata

\* start_sdk() keeps a settled record settled, and every promise.
LEMMA StartSdkFine ==
    ASSUME NEW s \in Machine, NEW r, Settled(s)
    PROVE  Fine(StartSdk(s, r)) /\ Keeps(s, StartSdk(s, r))
<1>1. [s EXCEPT !.sdkInitialized = TRUE, !.phase = "starting"] \in Machine
  BY ZenonT(150) DEF Machine, SdkPhases
<1>2. StartSdk(s, r) \in Machine
  BY <1>1 DEF StartSdk
<1>3. Settled(StartSdk(s, r)) /\ Keeps(s, StartSdk(s, r))
  BY SMTT(60) DEF StartSdk, Machine, Settled, Staged, Clean, Unfinished,
       Connected, Asked, Powered, Retreats, Keeps, KeepsWhip, KeepsStop,
       KeepsCall
<1>4. QED
  BY <1>2, <1>3 DEF Fine

\* finish(): the index into the remembered rooms stays in range.
LEMMA RememberFine ==
    ASSUME NEW s \in Machine
    PROVE  Remember(s) \in Machine /\ Same(s, Remember(s))
<1>1. NextSlot(s.closedIndex) \in Slots
  BY VoipAssumption DEF Machine, Slots, NextSlot
<1>2. Remembered(s) \in ClosedCalls
  BY DEF Machine, Remembered, ClosedCalls
<1>3. [s EXCEPT !.closed = Remembered(s), !.closedIndex = NextSlot(@)] \in Machine
  BY <1>1, <1>2, ZenonT(150) DEF Machine
<1>4. Remember(s) \in Machine
  BY <1>3 DEF Remember
<1>5. Same(s, Remember(s))
  BY DEF Remember, Same, Machine
<1>6. QED
  BY <1>4, <1>5

\* Promises kept by one handler and then by another are kept.
LEMMA KeepsTransitive ==
    ASSUME NEW s, NEW t, NEW u, Keeps(s, t), Keeps(t, u)
    PROVE  Keeps(s, u)
BY DEF Keeps, KeepsWhip, KeepsStop, KeepsCall

\* The NULL handle and the generation no call has had.
LEMMA NoHandle == 0 \in Generations /\ 0 \in Handles
BY GenModAssumption DEF Generations, Handles

\* finish(): the fields of the call are reset within their types.
LEMMA ClearedType ==
    ASSUME NEW s \in Machine
    PROVE  Cleared(s) \in Machine
<1>1. "idle" \in Stages /\ None \in RoomOrNone /\ None \in IdOrNone
  BY DEF Stages, RoomOrNone, IdOrNone
<1>2. CallFinish(s) \in Machine
  BY <1>1, ZenonT(150) DEF CallFinish, Machine
<1> DEFINE f == CallFinish(s)
           g == [f EXCEPT !.audio = 0, !.mediaStarted = FALSE, !.payload = FALSE,
                          !.room = None, !.callId = None]
<1> HIDE DEF f
<1>3. g \in Machine
  BY <1>1, <1>2, NoHandle, ZenonT(150) DEF Machine, f
<1>4. Cleared(s) = [g EXCEPT !.deadline = FALSE, !.closeDeadline = FALSE,
                             !.localEnd = FALSE, !.told = FALSE]
  <2>1. f = [x \in DOMAIN f |-> f[x]]
    BY <1>2 DEF Machine, f
  <2>2. QED
    BY <2>1, SMTT(30) DEF Cleared, f
<1> HIDE DEF g
<1>5. [g EXCEPT !.deadline = FALSE, !.closeDeadline = FALSE,
                !.localEnd = FALSE, !.told = FALSE] \in Machine
  BY <1>3, ZenonT(150) DEF Machine
<1>6. QED
  BY <1>4, <1>5

\* end_call(): the closing call's fields stay within their types.
LEMMA ClosedType ==
    ASSUME NEW s \in Machine, NEW notify \in BOOLEAN
    PROVE  Closed(s, notify) \in Machine
<1>1. CallClose(s) \in Machine
  <2>1. "closing" \in Stages
    BY DEF Stages
  <2>2. [s EXCEPT !.stage = "closing"] \in Machine
    BY <2>1, ZenonT(150) DEF Machine
  <2>3. QED
    BY <2>2 DEF CallClose
<1> DEFINE told == notify /\ s.connection # 0
<1>2. told \in BOOLEAN
  OBVIOUS
<1> HIDE DEF told
<1>3. [CallClose(s) EXCEPT !.localEnd = notify, !.told = told, !.audio = 0,
                           !.mediaStarted = FALSE, !.closeDeadline = TRUE] \in Machine
  BY <1>1, <1>2, NoHandle, ZenonT(150) DEF Machine
<1>4. QED
  BY <1>3 DEF Closed, told

\* finish() leaves a settled record, whether it ends the call or not.
LEMMA FinishFine ==
    ASSUME NEW s \in Machine, Settled(s), NEW r
    PROVE  Fine(Finish(s, r)) /\ Keeps(s, Finish(s, r))
<1>1. CASE Unfinished(s)
  BY <1>1 DEF Finish, Fine, Keeps, KeepsWhip, KeepsStop, KeepsCall
<1>2. CASE ~Unfinished(s)
  <2> DEFINE t == Remember(s)
             c == Cleared(t)
  <2>1. t \in Machine /\ Same(s, t)
    BY RememberFine
  <2>2. c \in Machine
    BY <2>1, ClearedType
  <2>3. Settled(t) /\ ~Unfinished(t) /\ Keeps(s, t)
    BY <1>2, <2>1, SameFine
  <2>4. Settled(c) /\ Keeps(t, c)
    BY <2>1, <2>3, SMTT(60) DEF Cleared, CallFinish, Machine, Settled, Staged,
         Clean, Unfinished, Connected, Asked, Powered, Retreats, Keeps,
         KeepsWhip, KeepsStop, KeepsCall
  <2>5. /\ RefreshDeferredMetadata(c, r) \in Machine
        /\ Same(c, RefreshDeferredMetadata(c, r))
    BY <2>2, RefreshFine
  <2>6. Settled(RefreshDeferredMetadata(c, r)) /\ Keeps(c, RefreshDeferredMetadata(c, r))
    BY <2>4, <2>5, SameFine
  <2>7. Finish(s, r) = RefreshDeferredMetadata(c, r)
    BY <1>2 DEF Finish
  <2>8. Keeps(s, RefreshDeferredMetadata(c, r))
    BY <2>3, <2>4, <2>6, KeepsTransitive
  <2>9. QED
    BY <2>5, <2>6, <2>7, <2>8 DEF Fine
<1>3. QED
  BY <1>1, <1>2

\* end_call() settles even a record that is still owed a retreat.
LEMMA EndCallFine ==
    ASSUME NEW s \in Machine, Staged(s), Connected(s), Asked(s), Powered(s),
           NEW notify \in BOOLEAN, NEW r
    PROVE  Fine(EndCall(s, notify, r)) /\ Keeps(s, EndCall(s, notify, r))
<1>1. CASE s.stage \in {"idle", "closing"}
  BY <1>1, SMTT(60) DEF EndCall, Fine, Settled, Retreats, Keeps, KeepsWhip,
       KeepsStop, KeepsCall
<1>2. CASE s.stage \notin {"idle", "closing"}
  <2> DEFINE c == Closed(s, notify)
  <2>1. c \in Machine
    BY ClosedType
  <2>2. Settled(c) /\ Keeps(s, c)
    BY <1>2, SMTT(60) DEF Closed, CallClose, Machine, Settled, Staged, Clean,
         Unfinished, Connected, Asked, Powered, Retreats, Keeps, KeepsWhip,
         KeepsStop, KeepsCall
  <2>3. Fine(Finish(c, r)) /\ Keeps(c, Finish(c, r))
    BY <2>1, <2>2, FinishFine
  <2>4. Keeps(s, Finish(c, r))
    BY <2>2, <2>3, KeepsTransitive
  <2>5. EndCall(s, notify, r) = IF s.connection = 0 /\ ~s.connectPending THEN Finish(c, r) ELSE c
    BY <1>2 DEF EndCall
  <2>6. QED
    BY <2>1, <2>2, <2>3, <2>4, <2>5 DEF Fine
<1>3. QED
  BY <1>1, <1>2

\* finish() goes to idle or stays, and leaves the SDK's fields alone.
LEMMA FinishStage ==
    ASSUME NEW s \in Machine, NEW r
    PROVE  /\ Finish(s, r).stage \in {"idle", s.stage}
           /\ SameSdk(s, Finish(s, r))
<1>1. CASE Unfinished(s)
  BY <1>1 DEF Finish, SameSdk
<1>2. CASE ~Unfinished(s)
  <2> DEFINE t == Remember(s)
             c == Cleared(t)
  <2>1. t \in Machine /\ Same(s, t)
    BY RememberFine
  <2>2. c \in Machine
    BY <2>1, ClearedType
  <2>3. Same(c, RefreshDeferredMetadata(c, r))
    BY <2>2, RefreshFine
  <2>4. c.stage = "idle" /\ SameSdk(s, c)
    BY <2>1 DEF Cleared, CallFinish, Machine, Same, SameSdk
  <2>5. Finish(s, r) = RefreshDeferredMetadata(c, r)
    BY <1>2 DEF Finish
  <2> HIDE DEF c
  <2>6. QED
    BY <2>3, <2>4, <2>5 DEF Same, SameSdk
<1>3. QED
  BY <1>1, <1>2

\* After end_call() no call is running.
LEMMA EndCallStage ==
    ASSUME NEW s \in Machine, NEW notify \in BOOLEAN, NEW r
    PROVE  EndCall(s, notify, r).stage \in {"idle", "closing"}
<1> DEFINE c == Closed(s, notify)
<1>1. c \in Machine
  BY ClosedType
<1>2. Finish(c, r).stage \in {"idle", c.stage}
  BY <1>1, FinishStage
<1>3. s.stage \notin {"idle", "closing"} => c.stage = "closing"
  BY DEF Closed, CallClose, Machine
<1> HIDE DEF c
<1>4. QED
  BY <1>2, <1>3 DEF EndCall, c

\* connect_room(), accepted or refused, on a call that is connecting.
LEMMA ConnectRoomFine ==
    ASSUME NEW s \in Machine, Settled(s), NEW r, s.stage = "connecting", ~s.connectPending
    PROVE  Fine(ConnectRoom(s, r)) /\ Keeps(s, ConnectRoom(s, r))
<1> DEFINE c == [s EXCEPT !.connectPending = TRUE, !.deadline = TRUE]
           t == [c EXCEPT !.inputs = TRUE, !.whip = s.generation]
           u == [c EXCEPT !.connectPending = FALSE]
<1>1. c \in Machine
  BY ZenonT(150) DEF Machine
<1>2. s.generation \in Handles
  BY DEF Machine, Handles
<1> HIDE DEF c
<1>3. t \in Machine /\ u \in Machine
  BY <1>1, <1>2, ZenonT(150) DEF Machine
<1> USE DEF c
<1>4. Settled(t) /\ Keeps(s, t)
  BY SMTT(60) DEF Machine, Settled, Staged, Clean, Unfinished, Connected,
       Asked, Powered, Retreats, Keeps, KeepsWhip, KeepsStop, KeepsCall
<1>5. Settled(u) /\ Keeps(s, u)
  BY SMTT(60) DEF Machine, Settled, Staged, Clean, Unfinished, Connected,
       Asked, Powered, Retreats, Keeps, KeepsWhip, KeepsStop, KeepsCall
<1>6. Fine(EndCall(u, TRUE, r)) /\ Keeps(u, EndCall(u, TRUE, r))
  BY <1>3, <1>5, EndCallFine DEF Settled
<1>7. Keeps(s, EndCall(u, TRUE, r))
  BY <1>5, <1>6, KeepsTransitive
<1>8. ConnectRoom(s, r) = IF r.connect /\ ~s.inputs THEN t ELSE EndCall(u, TRUE, r)
  BY DEF ConnectRoom
<1>9. QED
  BY <1>3, <1>4, <1>6, <1>7, <1>8 DEF Fine

\* A new call: nothing of an earlier one is there to be kept.
Begun(s, t) ==
    /\ t.stage \in {"dialing", "ringing"}
    /\ t.stage = "dialing" => t.outgoing
    /\ t.generation # 0 /\ ~t.transport_ready /\ t.deadline /\ ~t.closeDeadline
    /\ t.connection = 0 /\ t.closing = 0 /\ t.audio = 0
    /\ ~t.connectPending /\ t.whip = 0 /\ t.callRequest = 0
    /\ t.sdkReady = s.sdkReady /\ t.sdkStopping = s.sdkStopping
    /\ t.needShutdown = s.needShutdown /\ t.phase = s.phase

\* A record that differs by a new call from a settled idle one is settled.
LEMMA BegunFine ==
    ASSUME NEW s, Settled(s), Ready(s), s.stage = "idle", NEW t, Begun(s, t)
    PROVE  Settled(t) /\ Keeps(s, t)
BY SMTT(60) DEF Ready, Begun, Machine, Settled, Staged, Clean, Unfinished,
     Connected, Asked, Powered, Retreats, Keeps, KeepsWhip, KeepsStop,
     KeepsCall

\* call_begin() makes such a record.
LEMMA CallBeginFine ==
    ASSUME NEW s \in Machine, Settled(s), s.stage = "idle", NEW out \in BOOLEAN,
           NEW t, t = [CallBegin(s, out) EXCEPT !.deadline = TRUE]
    PROVE  Begun(s, t)
<1>1. NextGeneration(s.generation) # 0
  BY NextGenerationType DEF Machine
<1>2. QED
  BY <1>1 DEF CallBegin, Begun, Machine, Settled, Staged, Clean, Unfinished, Asked

\* call_begin() keeps the types.
LEMMA CallBeginType ==
    ASSUME NEW s \in Machine, NEW out \in BOOLEAN
    PROVE  CallBegin(s, out) \in Machine
<1> DEFINE stage == IF out THEN "dialing" ELSE "ringing"
           g == NextGeneration(s.generation)
<1>1. stage \in Stages
  BY DEF Stages
<1>2. g \in Generations
  BY NextGenerationType DEF Machine
<1> HIDE DEF stage, g
<1>3. [s EXCEPT !.stage = stage, !.generation = g, !.outgoing = out,
                !.transport_ready = FALSE, !.peer_answered = FALSE] \in Machine
  BY <1>1, <1>2, ZenonT(150) DEF Machine
<1>4. QED
  BY <1>3 DEF CallBegin, stage, g

\* incoming(): a room that is ignored, joined or begins to ring.
LEMMA IncomingFine ==
    ASSUME NEW s \in Machine, Settled(s), NEW v \in Payloads, NEW r
    PROVE  Fine(Incoming(s, v, r)) /\ Keeps(s, Incoming(s, v, r))
<1> DEFINE j == CallJoinOutgoing(s)
           id == IF v.id # None THEN v.id ELSE j.callId
           o == [j EXCEPT !.payload = TRUE, !.room = v.room, !.callId = id]
           b == CallBegin(s, FALSE)
           n == [b EXCEPT !.payload = TRUE, !.room = v.room, !.deadline = TRUE]
<1>1. v.room \in RoomOrNone /\ v.id \in IdOrNone
  BY DEF Payloads, RoomOrNone, IdOrNone
<1>2. CASE ~(IgnoredInvite(s, v) \/ ~Ready(s) \/ ~v.voice) /\ Route(s, v) = "outbound"
  <2>1. s.stage = "dialing" /\ s.outgoing
    BY <1>2 DEF Route, VoipRouteRoom, Settled, Staged
  <2>2. j \in Machine
    <3>1. "connecting" \in Stages
      BY DEF Stages
    <3>2. [s EXCEPT !.stage = "connecting"] \in Machine
      BY <3>1, ZenonT(150) DEF Machine
    <3>3. QED
      BY <3>2 DEF CallJoinOutgoing
  <2>3. id \in IdOrNone
    BY <1>1, <2>2 DEF Machine
  <2> HIDE DEF j, id
  <2>4. o \in Machine
    BY <1>1, <2>2, <2>3, ZenonT(150) DEF Machine
  <2> USE DEF j
  <2>5. Settled(o) /\ Keeps(s, o) /\ o.stage = "connecting" /\ ~o.connectPending
    BY <2>1, SMTT(60) DEF CallJoinOutgoing, Machine, Settled, Staged, Clean,
         Unfinished, Connected, Asked, Powered, Retreats, Keeps, KeepsWhip,
         KeepsStop, KeepsCall
  <2>6. Fine(ConnectRoom(o, r)) /\ Keeps(o, ConnectRoom(o, r))
    BY <2>4, <2>5, ConnectRoomFine
  <2>7. Incoming(s, v, r) = ConnectRoom(o, r)
    BY <1>2 DEF Incoming, id
  <2>8. QED
    BY <2>5, <2>6, <2>7, KeepsTransitive
<1>3. CASE /\ ~(IgnoredInvite(s, v) \/ ~Ready(s) \/ ~v.voice)
           /\ Route(s, v) # "outbound" /\ Route(s, v) = "inbound" /\ s.stage = "idle"
  <2>1. b \in Machine
    BY CallBeginType
  <2> HIDE DEF b
  <2>2. n \in Machine
    BY <1>1, <2>1, ZenonT(150) DEF Machine
  <2> USE DEF b
  <2>3. NextGeneration(s.generation) # 0
    BY NextGenerationType DEF Machine
  <2>4. Begun(s, n)
    BY <1>3, <2>3 DEF CallBegin, Begun, Machine, Settled, Staged, Clean, Unfinished, Asked
  <2>5. Settled(n) /\ Keeps(s, n)
    BY <1>3, <2>4, BegunFine
  <2>6. Incoming(s, v, r) = n
    BY <1>3 DEF Incoming
  <2>7. QED
    BY <2>2, <2>5, <2>6 DEF Fine
<1>4. CASE \/ IgnoredInvite(s, v) \/ ~Ready(s) \/ ~v.voice
           \/ Route(s, v) # "outbound" /\ ~(Route(s, v) = "inbound" /\ s.stage = "idle")
  <2>1. Incoming(s, v, r) = s
    BY <1>4 DEF Incoming
  <2>2. QED
    BY <2>1 DEF Fine, Keeps, KeepsWhip, KeepsStop, KeepsCall
<1>5. QED
  BY <1>2, <1>3, <1>4

\* A record that has not changed keeps every promise.
LEMMA KeepsSelf == ASSUME NEW s PROVE Keeps(s, s)
BY DEF Keeps, KeepsWhip, KeepsStop, KeepsCall

\* Ending a settled call.
LEMMA EndSettled ==
    ASSUME NEW s \in Machine, Settled(s), NEW notify \in BOOLEAN, NEW r
    PROVE  Fine(EndCall(s, notify, r)) /\ Keeps(s, EndCall(s, notify, r))
BY EndCallFine DEF Settled

\* callers_update() touches nothing a call depends on.
LEMMA CallersUpdateFine ==
    ASSUME NEW s \in Machine, Settled(s), NEW r
    PROVE  Fine(CallersUpdate(s, r)) /\ Keeps(s, CallersUpdate(s, r))
<1> DEFINE c == [s EXCEPT !.contacts = FALSE]
<1>1. c \in Machine
  BY ZenonT(150) DEF Machine
<1>2. Same(s, c)
  BY DEF Same, Machine
<1>3. RequestContacts(c, r) \in Machine /\ Same(c, RequestContacts(c, r))
  BY <1>1, RequestContactsFine
<1>4. Same(s, RequestContacts(c, r))
  BY <1>2, <1>3 DEF Same
<1>5. QED
  BY <1>3, <1>4, SameFine DEF CallersUpdate, Fine

\* dial(): the request goes out with the generation of the new call.
LEMMA DialFine ==
    ASSUME NEW s \in Machine, Settled(s), NEW r
    PROVE  Fine(Dial(s, r)) /\ Keeps(s, Dial(s, r))
<1> DEFINE b == CallBegin(s, TRUE)
           c == [b EXCEPT !.deadline = TRUE]
           d == [c EXCEPT !.callPending = TRUE, !.callRequest = c.generation]
<1>1. CASE ~Ready(s) \/ s.stage # "idle" \/ ~s.contacts
  BY <1>1, KeepsSelf DEF Dial, Fine
<1>2. CASE ~(~Ready(s) \/ s.stage # "idle" \/ ~s.contacts)
  <2>1. b \in Machine
    BY CallBeginType
  <2> HIDE DEF b
  <2>2. c \in Machine
    BY <2>1, ZenonT(150) DEF Machine
  <2>3. c.generation \in Generations
    BY <2>2 DEF Machine
  <2> HIDE DEF c
  <2>4. d \in Machine
    BY <2>2, <2>3, ZenonT(150) DEF Machine
  <2> USE DEF b, c
  <2>5. Begun(s, c)
    BY <1>2, CallBeginFine
  <2>6. Settled(c) /\ Keeps(s, c)
    BY <1>2, <2>5, BegunFine
  <2> HIDE DEF b, c
  <2>7. Settled(d) /\ Keeps(s, d)
    BY <1>2, <2>2, <2>5, <2>6, SMTT(60) DEF Begun, Machine, Settled, Staged,
         Clean, Unfinished, Connected, Asked, Powered, Retreats, Keeps,
         KeepsWhip, KeepsStop, KeepsCall
  <2>8. Fine(EndCall(c, FALSE, r)) /\ Keeps(c, EndCall(c, FALSE, r))
    BY <2>2, <2>6, EndSettled
  <2>9. Keeps(s, EndCall(c, FALSE, r))
    BY <2>6, <2>8, KeepsTransitive
  <2>10. Dial(s, r) = IF r.request THEN d ELSE EndCall(c, FALSE, r)
    BY <1>2 DEF Dial, b, c
  <2>11. QED
    BY <2>4, <2>7, <2>8, <2>9, <2>10 DEF Fine
<1>3. QED
  BY <1>1, <1>2

\* answer_incoming() connects a ringing call.
LEMMA AnswerIncomingFine ==
    ASSUME NEW s \in Machine, Settled(s), NEW r
    PROVE  Fine(AnswerIncoming(s, r)) /\ Keeps(s, AnswerIncoming(s, r))
<1> DEFINE c == [s EXCEPT !.stage = "connecting"]
<1>1. CASE ~(Ready(s) /\ s.stage = "ringing")
  BY <1>1, KeepsSelf DEF AnswerIncoming, Fine
<1>2. CASE Ready(s) /\ s.stage = "ringing"
  <2>1. "connecting" \in Stages
    BY DEF Stages
  <2>2. c \in Machine
    BY <2>1, ZenonT(150) DEF Machine
  <2>3. Settled(c) /\ Keeps(s, c) /\ c.stage = "connecting" /\ ~c.connectPending
    BY <1>2, SMTT(60) DEF Machine, Settled, Staged, Clean, Unfinished,
         Connected, Asked, Powered, Retreats, Keeps, KeepsWhip, KeepsStop,
         KeepsCall
  <2>4. Fine(ConnectRoom(c, r)) /\ Keeps(c, ConnectRoom(c, r))
    BY <2>2, <2>3, ConnectRoomFine
  <2>5. AnswerIncoming(s, r) = ConnectRoom(c, r)
    BY <1>2 DEF AnswerIncoming, CallAccept
  <2>6. QED
    BY <2>3, <2>4, <2>5, KeepsTransitive
<1>3. QED
  BY <1>1, <1>2

\* The two requests, as steps on a settled record.
LEMMA RequestsFine ==
    ASSUME NEW s \in Machine, Settled(s), NEW r
    PROVE  /\ Fine(RequestProfile(s, r)) /\ Keeps(s, RequestProfile(s, r))
           /\ Fine(RequestContacts(s, r)) /\ Keeps(s, RequestContacts(s, r))
BY RequestProfileFine, RequestContactsFine, SameFine DEF Fine

\* The BOOT key, in each stage.
LEMMA PrimaryActionFine ==
    ASSUME NEW s \in Machine, Settled(s), NEW r
    PROVE  Fine(PrimaryAction(s, r)) /\ Keeps(s, PrimaryAction(s, r))
<1>1. CallPrimaryAction(s.stage) \in {"dial_first", "answer", "hangup", "none"}
  BY DEF CallPrimaryAction
<1>2. Fine(s) /\ Keeps(s, s)
  BY KeepsSelf DEF Fine
<1>3. /\ Fine(RequestContacts(s, r)) /\ Keeps(s, RequestContacts(s, r))
      /\ Fine(Dial(s, r)) /\ Keeps(s, Dial(s, r))
      /\ Fine(AnswerIncoming(s, r)) /\ Keeps(s, AnswerIncoming(s, r))
      /\ Fine(EndCall(s, TRUE, r)) /\ Keeps(s, EndCall(s, TRUE, r))
  BY RequestsFine, DialFine, AnswerIncomingFine, EndSettled
<1>4. QED
  BY <1>1, <1>2, <1>3 DEF PrimaryAction

\* http_result() of a profile.
LEMMA ProfileResultFine ==
    ASSUME NEW s \in Machine, Settled(s), NEW e, NEW r
    PROVE  Fine(ProfileResult(s, e, r)) /\ Keeps(s, ProfileResult(s, e, r))
<1> DEFINE c == [s EXCEPT !.profilePending = FALSE]
           d == [c EXCEPT !.profileReady = FALSE]
           f == [c EXCEPT !.profileReady = TRUE]
<1>1. c \in Machine
  BY ZenonT(150) DEF Machine
<1> HIDE DEF c
<1>2. d \in Machine /\ f \in Machine
  BY <1>1, ZenonT(150) DEF Machine
<1> USE DEF c
<1>3. Same(s, d) /\ Same(s, f)
  BY DEF Same, Machine
<1> HIDE DEF d, f
<1>4. Settled(d) /\ Settled(f) /\ Keeps(s, d) /\ Keeps(s, f)
  BY <1>3, SameFine
<1>5. /\ Fine(RequestProfile(d, r)) /\ Keeps(d, RequestProfile(d, r))
      /\ Fine(RequestContacts(f, r)) /\ Keeps(f, RequestContacts(f, r))
  BY <1>2, <1>4, RequestsFine
<1>6. Keeps(s, RequestProfile(d, r)) /\ Keeps(s, RequestContacts(f, r))
  BY <1>4, <1>5, KeepsTransitive
<1>7. ProfileResult(s, e, r) \in {RequestProfile(d, r), RequestContacts(f, r), d}
  BY DEF ProfileResult, d, f
<1>8. QED
  BY <1>2, <1>4, <1>5, <1>6, <1>7 DEF Fine

\* http_result() of a contact list.
LEMMA ContactsResultFine ==
    ASSUME NEW s \in Machine, Settled(s), NEW e, NEW some \in BOOLEAN, e.ok \in BOOLEAN,
           online \in BOOLEAN, NEW r
    PROVE  Fine(ContactsResult(s, e, some, r)) /\ Keeps(s, ContactsResult(s, e, some, r))
<1> DEFINE c == [s EXCEPT !.contactsPending = FALSE, !.contacts = FALSE]
           got == e.ok /\ online /\ some
           d == [c EXCEPT !.contacts = got]
<1>1. c \in Machine
  BY ZenonT(150) DEF Machine
<1>2. got \in BOOLEAN
  OBVIOUS
<1> HIDE DEF c, got
<1>3. d \in Machine
  BY <1>1, <1>2, ZenonT(150) DEF Machine
<1> USE DEF c
<1>4. Same(s, c) /\ Same(s, d)
  BY DEF Same, Machine
<1> HIDE DEF c, d
<1>5. Settled(c) /\ Settled(d) /\ Keeps(s, c) /\ Keeps(s, d)
  BY <1>4, SameFine
<1>6. Fine(RequestContacts(c, r)) /\ Keeps(c, RequestContacts(c, r))
  BY <1>1, <1>5, RequestsFine
<1>7. Keeps(s, RequestContacts(c, r))
  BY <1>5, <1>6, KeepsTransitive
<1>8. ContactsResult(s, e, some, r) \in {RequestContacts(c, r), c, d}
  BY DEF ContactsResult, c, d, got
<1>9. QED
  BY <1>1, <1>3, <1>5, <1>6, <1>7, <1>8 DEF Fine

\* What http_result() keeps: the request it answers is no longer pending.
KeepsSdk(s, t) == KeepsWhip(s, t) /\ KeepsStop(s, t)

\* http_result() of a call request: it is the current call's.
LEMMA CallResultFine ==
    ASSUME NEW s \in Machine, Settled(s), s.callPending, s.callRequest = 0,
           NEW e, e.id \in IdOrNone, NEW r
    PROVE  Fine(CallResult(s, e, r)) /\ KeepsSdk(s, CallResult(s, e, r))
<1> DEFINE id == IF e.result = "ok" THEN e.id ELSE s.callId
           c == [s EXCEPT !.callPending = FALSE, !.callId = id]
<1>1. id \in IdOrNone
  BY DEF Machine
<1> HIDE DEF id
<1>2. c \in Machine
  BY <1>1, ZenonT(150) DEF Machine
<1>3. Settled(c) /\ KeepsSdk(s, c)
  BY SMTT(60) DEF Machine, Settled, Staged, Clean, Unfinished, Connected,
       Asked, Powered, Retreats, Keeps, KeepsWhip, KeepsStop, KeepsCall,
       KeepsSdk
<1> HIDE DEF c
<1>4. /\ Fine(Finish(c, r)) /\ Keeps(c, Finish(c, r))
      /\ Fine(EndCall(c, FALSE, r)) /\ Keeps(c, EndCall(c, FALSE, r))
      /\ Fine(EndCall(c, TRUE, r)) /\ Keeps(c, EndCall(c, TRUE, r))
  BY <1>2, <1>3, FinishFine, EndSettled
<1>5. CallResult(s, e, r) \in {s, c, Finish(c, r), EndCall(c, FALSE, r), EndCall(c, TRUE, r)}
  BY DEF CallResult, c, id
<1>6. QED
  BY <1>2, <1>3, <1>4, <1>5 DEF Fine, Keeps, KeepsSdk, KeepsWhip, KeepsStop

\* dispatch() of each of the user's commands.
LEMMA UserCommandFine ==
    ASSUME NEW s \in Machine, Settled(s), NEW command \in CommandKinds, NEW r
    PROVE  Fine(UserCommand(s, command, r)) /\ Keeps(s, UserCommand(s, command, r))
<1> DEFINE c == StartSdk(s, r)
           u == [s EXCEPT !.shutdownFailed = FALSE, !.resumeAfterStop = TRUE]
<1>1. Fine(c) /\ Keeps(s, c)
  BY StartSdkFine
<1> HIDE DEF c
<1>2. /\ Fine(RequestContacts(c, r)) /\ Keeps(c, RequestContacts(c, r))
      /\ Fine(RequestProfile(c, r)) /\ Keeps(c, RequestProfile(c, r))
  BY <1>1, RequestsFine DEF Fine
<1>3. Keeps(s, RequestContacts(c, r)) /\ Keeps(s, RequestProfile(c, r))
  BY <1>1, <1>2, KeepsTransitive
<1>4. u \in Machine
  BY ZenonT(150) DEF Machine
<1>5. Same(s, u)
  BY DEF Same, Machine
<1> HIDE DEF u
<1>6. Fine(u) /\ Keeps(s, u)
  BY <1>4, <1>5, SameFine DEF Fine
<1>7. Fine(s) /\ Keeps(s, s)
  BY KeepsSelf DEF Fine
<1>8. CASE command = "contacts"
  BY <1>2, <1>3, <1>8 DEF UserCommand, c
<1>9. CASE command = "retry"
  BY <1>2, <1>3, <1>6, <1>9 DEF UserCommand, c, u
<1>10. CASE command \in {"call", "answer", "reject", "hangup", "primary"}
  <2>1. /\ Fine(Dial(s, r)) /\ Keeps(s, Dial(s, r))
        /\ Fine(AnswerIncoming(s, r)) /\ Keeps(s, AnswerIncoming(s, r))
        /\ Fine(EndCall(s, TRUE, r)) /\ Keeps(s, EndCall(s, TRUE, r))
        /\ Fine(PrimaryAction(s, r)) /\ Keeps(s, PrimaryAction(s, r))
    BY DialFine, AnswerIncomingFine, EndSettled, PrimaryActionFine
  <2>2. QED
    BY <2>1, <1>7, <1>10 DEF UserCommand
<1>11. QED
  BY <1>8, <1>9, <1>10 DEF CommandKinds

\* dispatch() of ONLINE.
LEMMA OnlineFine ==
    ASSUME NEW s \in Machine, Settled(s), NEW r,
           NEW t, t = IF s.needShutdown \/ s.sdkStopping
                      THEN [s EXCEPT !.resumeAfterStop = TRUE]
                      ELSE StartSdk(s, r)
    PROVE  Fine(RequestProfile(t, r)) /\ Keeps(s, RequestProfile(t, r))
<1> DEFINE u == [s EXCEPT !.resumeAfterStop = TRUE]
<1>1. Fine(StartSdk(s, r)) /\ Keeps(s, StartSdk(s, r))
  BY StartSdkFine
<1>2. u \in Machine
  BY ZenonT(150) DEF Machine
<1>3. Same(s, u)
  BY DEF Same, Machine
<1>4. Fine(t) /\ Keeps(s, t)
  BY <1>1, <1>2, <1>3, SameFine DEF Fine
<1>5. Fine(RequestProfile(t, r)) /\ Keeps(t, RequestProfile(t, r))
  BY <1>4, RequestsFine DEF Fine
<1>6. QED
  BY <1>4, <1>5, KeepsTransitive

\* dispatch() of OFFLINE.
LEMMA OfflineFine ==
    ASSUME NEW s \in Machine, Settled(s),
           NEW t, t = [s EXCEPT !.profileReady  = FALSE,
                                !.profileDirty  = TRUE,
                                !.contactsDirty = TRUE]
    PROVE  Fine(t) /\ Keeps(s, t)
<1>1. [s EXCEPT !.profileReady = FALSE, !.profileDirty  = TRUE,
                !.contactsDirty = TRUE] \in Machine
  BY ZenonT(150) DEF Machine
<1>2. Same(s, t)
  BY DEF Same, Machine
<1>3. QED
  BY <1>1, <1>2, SameFine DEF Fine

\* dispatch() of UNBOUND: whatever the call was, it ends.
LEMMA UnboundFine ==
    ASSUME NEW s \in Machine, Settled(s), NEW r,
           NEW t, t = [s EXCEPT !.profileReady  = FALSE,
                                !.profileDirty  = TRUE,
                                !.contacts      = FALSE,
                                !.contactsDirty = TRUE,
                                !.needShutdown  = s.sdkInitialized]
    PROVE  Fine(EndCall(t, TRUE, r)) /\ Keeps(s, EndCall(t, TRUE, r))
<1>1. s.sdkInitialized \in BOOLEAN
  BY DEF Machine
<1>2. [s EXCEPT !.profileReady = FALSE, !.profileDirty = TRUE, !.contacts = FALSE,
                !.contactsDirty = TRUE, !.needShutdown = s.sdkInitialized] \in Machine
  BY <1>1, ZenonT(150) DEF Machine
<1>3. /\ Staged(t) /\ Connected(t) /\ Asked(t) /\ Powered(t)
      /\ Keeps(s, t)
  BY SMTT(60) DEF Machine, Settled, Staged, Clean, Unfinished, Connected,
       Asked, Powered, Retreats, Keeps, KeepsWhip, KeepsStop, KeepsCall
<1>4. Fine(EndCall(t, TRUE, r)) /\ Keeps(t, EndCall(t, TRUE, r))
  BY <1>2, <1>3, EndCallFine
<1>5. QED
  BY <1>3, <1>4, KeepsTransitive

\* The task takes one event of the platform or the user.
LEMMA DispatchFine ==
    ASSUME NEW s \in Machine, Settled(s), NEW e \in PlatformEvents \cup UserEvents,
           e.kind = "call_result" => s.callPending /\ s.callRequest = 0,
           NEW some \in BOOLEAN, online \in BOOLEAN, NEW r
    PROVE  /\ Fine(Dispatch(s, e, some, r)) /\ KeepsSdk(s, Dispatch(s, e, some, r))
           /\ e.kind # "call_result" => KeepsCall(s, Dispatch(s, e, some, r))
<1> DEFINE d == Dispatch(s, e, some, r)
<1> HIDE DEF d
<1> SUFFICES /\ Fine(d) /\ KeepsSdk(s, d)
             /\ e.kind # "call_result" => KeepsCall(s, d)
  BY DEF d
<1>1. CASE e.kind = "online"
  BY <1>1, OnlineFine DEF Dispatch, d, Keeps, KeepsSdk
<1>2. CASE e.kind = "offline"
  BY <1>2, OfflineFine DEF Dispatch, d, Keeps, KeepsSdk
<1>3. CASE e.kind = "unbound"
  BY <1>3, UnboundFine DEF Dispatch, d, Keeps, KeepsSdk
<1>4. CASE e.kind = "incoming"
  <2>1. e.invite \in Payloads
    BY <1>4 DEF PlatformEvents, UserEvents, MessageEvents
  <2>2. d = Incoming(s, e.invite, r)
    BY <1>4 DEF Dispatch, d
  <2>3. QED
    BY <2>1, <2>2, IncomingFine DEF Keeps, KeepsSdk
<1>5. CASE e.kind = "cancel"
  <2>1. d = IF s.room = e.room THEN EndCall(s, FALSE, r) ELSE s
    BY <1>5 DEF Dispatch, d, CallCancel
  <2>2. QED
    BY <2>1, EndSettled, KeepsSelf DEF Fine, Keeps, KeepsSdk
<1>6. CASE e.kind = "callers_update"
  <2>1. d = CallersUpdate(s, r)
    BY <1>6 DEF Dispatch, d
  <2>2. QED
    BY <2>1, CallersUpdateFine DEF Keeps, KeepsSdk
<1>7. CASE e.kind = "profile"
  <2>1. d = ProfileResult(s, e, r)
    BY <1>7 DEF Dispatch, d
  <2>2. QED
    BY <2>1, ProfileResultFine DEF Keeps, KeepsSdk
<1>8. CASE e.kind = "contacts"
  <2>1. d = ContactsResult(s, e, some, r)
    BY <1>8 DEF Dispatch, d
  <2>2. e.ok \in BOOLEAN
    BY <1>8 DEF PlatformEvents, UserEvents, MessageEvents
  <2>3. QED
    BY <2>1, <2>2, ContactsResultFine DEF Keeps, KeepsSdk
<1>9. CASE e.kind = "call_result"
  <2>1. d = CallResult(s, e, r)
    BY <1>9 DEF Dispatch, d
  <2>2. e.id \in IdOrNone
    BY <1>9 DEF PlatformEvents, UserEvents, MessageEvents, IdOrNone
  <2>3. QED
    BY <1>9, <2>1, <2>2, CallResultFine
<1>10. CASE e.kind = "user"
  <2>1. d = UserCommand(s, e.command, r)
    BY <1>10 DEF Dispatch, d
  <2>2. e.command \in CommandKinds
    BY <1>10 DEF PlatformEvents, UserEvents, MessageEvents
  <2>3. QED
    BY <2>1, <2>2, UserCommandFine DEF Keeps, KeepsSdk
<1>11. e.kind \in {"online", "offline", "unbound", "incoming", "cancel", "callers_update",
                   "profile", "contacts", "call_result", "user"}
  BY DEF PlatformEvents, UserEvents, MessageEvents
<1>12. QED
  BY <1>1, <1>2, <1>3, <1>4, <1>5, <1>6, <1>7, <1>8, <1>9, <1>10, <1>11

\* RTC_STOPPED: what the stop frees stays within its types.
LEMMA FreedType ==
    ASSUME NEW s \in Machine
    PROVE  [s EXCEPT !.inputs = FALSE, !.sdkInitialized = FALSE, !.sdkReady = FALSE,
                     !.sdkStopping = FALSE, !.connectPending = FALSE,
                     !.connection = 0, !.closing = 0] \in Machine
<1>1. 0 \in Handles
  BY NoHandle
<1>2. QED
  BY <1>1, ZenonT(150) DEF Machine

\* rtc_dispatch() of RTC_STOPPED: no call and no connection survives it.
LEMMA RtcStoppedFine ==
    ASSUME NEW s \in Machine, Settled(s), s.sdkStopping, s.phase = "off", s.whip = 0, NEW r
    PROVE  Fine(RtcStopped(s, r)) /\ KeepsCall(s, RtcStopped(s, r))
<1> DEFINE u == [s EXCEPT !.inputs = FALSE, !.sdkInitialized = FALSE, !.sdkReady = FALSE,
                          !.sdkStopping = FALSE, !.connectPending = FALSE,
                          !.connection = 0, !.closing = 0]
           f == Finish(u, r)
           c == [f EXCEPT !.needShutdown = FALSE, !.shutdownFailed = FALSE,
                          !.closeDeadline = FALSE, !.resumeAfterStop = FALSE]
<1>1. u \in Machine
  BY FreedType
<1>2. Settled(u) /\ KeepsCall(s, u)
  BY SMTT(60) DEF Machine, Settled, Staged, Clean, Unfinished, Connected,
       Asked, Powered, Retreats, Keeps, KeepsWhip, KeepsStop, KeepsCall
<1>3. u.sdkStopping = FALSE /\ u.phase = "off"
  BY DEF Machine
<1>4. f = Stopped(s, r)
  BY DEF Stopped
<1> HIDE DEF u
<1>5. Fine(f) /\ Keeps(u, f) /\ SameSdk(u, f)
  BY <1>1, <1>2, FinishFine, FinishStage
<1> HIDE DEF f
<1>6. c \in Machine
  BY <1>5, ZenonT(150) DEF Machine, Fine
<1>7. Settled(c) /\ KeepsCall(f, c)
  BY <1>3, <1>5, SMTT(60) DEF Machine, Settled, Staged, Clean, Unfinished,
       Connected, Asked, Powered, Retreats, Keeps, KeepsWhip, KeepsStop,
       KeepsCall, Fine, SameSdk
<1>8. RtcStopped(s, r) \in {StartSdk(c, r), c}
  BY <1>4 DEF RtcStopped
<1> HIDE DEF c
<1>9. Fine(StartSdk(c, r)) /\ KeepsCall(c, StartSdk(c, r))
  BY <1>6, <1>7, StartSdkFine DEF Keeps
<1>10. QED
  BY <1>2, <1>5, <1>6, <1>7, <1>8, <1>9 DEF Fine, Keeps, KeepsCall

\* rtc_dispatch() of RTC_CONNECTED, failed, late or in time.
LEMMA RtcConnectedFine ==
    ASSUME NEW s \in Machine, Settled(s), s.connectPending, s.whip = 0,
           NEW e, e.gen = s.generation, e.conn \in {0, s.generation}, NEW r
    PROVE  /\ Fine(RtcConnected(s, e, r))
           /\ KeepsStop(s, RtcConnected(s, e, r)) /\ KeepsCall(s, RtcConnected(s, e, r))
<1> DEFINE c == [s EXCEPT !.connectPending = FALSE]
           f == [c EXCEPT !.inputs = FALSE]
           g == [c EXCEPT !.connection = e.conn, !.payload = FALSE]
           l == [g EXCEPT !.told = s.localEnd]
           stage == IF s.peer_answered THEN "active" ELSE "waiting_peer"
           a == [g EXCEPT !.transport_ready = TRUE, !.stage = stage]
<1>1. /\ e.conn \in Handles /\ s.localEnd \in BOOLEAN /\ stage \in Stages
      /\ s.stage \in {"connecting", "closing"}
  BY NoHandle DEF Machine, Handles, Stages, Settled, Asked
<1>2. c \in Machine
  BY ZenonT(150) DEF Machine
<1> HIDE DEF c, stage
<1>3. f \in Machine /\ g \in Machine
  <2>1. f \in Machine
    BY <1>2, ZenonT(150) DEF Machine
  <2>2. e.conn \in Handles
    BY <1>1
  <2>3. g \in Machine
    BY <1>2, <2>2, ZenonT(150) DEF Machine
  <2>4. QED
    BY <2>1, <2>3
<1> HIDE DEF g
<1>4. l \in Machine /\ a \in Machine
  BY <1>1, <1>3, ZenonT(150) DEF Machine
<1> USE DEF c, g
<1>5. CASE e.conn = 0
  <2>1. Settled(f) /\ KeepsStop(s, f) /\ KeepsCall(s, f)
    BY SMTT(60) DEF Machine, Settled, Staged, Clean, Unfinished, Connected,
         Asked, Powered, Retreats, Keeps, KeepsWhip, KeepsStop, KeepsCall
  <2>2. RtcConnected(s, e, r) \in {EndCall(f, TRUE, r), Finish(f, r)}
    BY <1>5 DEF RtcConnected, WhipFailed
  <2> HIDE DEF f
  <2>3. /\ Fine(EndCall(f, TRUE, r)) /\ Keeps(f, EndCall(f, TRUE, r))
        /\ Fine(Finish(f, r)) /\ Keeps(f, Finish(f, r))
    BY <1>3, <2>1, EndSettled, FinishFine
  <2>4. QED
    BY <2>1, <2>2, <2>3 DEF Keeps, KeepsStop, KeepsCall
<1>6. CASE e.conn # 0 /\ s.stage = "closing"
  <2>1. Settled(l) /\ KeepsStop(s, l) /\ KeepsCall(s, l)
    BY <1>6, SMTT(60) DEF Machine, Settled, Staged, Clean, Unfinished,
         Connected, Asked, Powered, Retreats, Keeps, KeepsWhip, KeepsStop,
         KeepsCall
  <2>2. RtcConnected(s, e, r) = l
    BY <1>2, <1>6 DEF RtcConnected, LateConnection, Machine
  <2>3. QED
    BY <1>4, <2>1, <2>2 DEF Fine
<1>7. CASE e.conn # 0 /\ s.stage # "closing"
  <2>1. Settled(a) /\ KeepsStop(s, a) /\ KeepsCall(s, a)
    BY <1>1, <1>7, SMTT(60) DEF stage, Machine, Settled, Staged, Clean,
         Unfinished, Connected, Asked, Powered, Retreats, Keeps, KeepsWhip,
         KeepsStop, KeepsCall
  <2>2. RtcConnected(s, e, r) = a
    BY <1>1, <1>7 DEF RtcConnected, CallTransportReady, Machine, stage
  <2>3. QED
    BY <1>4, <2>1, <2>2 DEF Fine
<1>8. QED
  BY <1>5, <1>6, <1>7

\* sample_audio_end() keeps the types.
LEMMA SilencedType ==
    ASSUME NEW s \in Machine
    PROVE  [s EXCEPT !.audio = 0] \in Machine
<1>1. 0 \in Handles
  BY NoHandle
<1>2. QED
  BY <1>1, ZenonT(150) DEF Machine

\* call_close() keeps the types.
LEMMA CallCloseType ==
    ASSUME NEW s \in Machine
    PROVE  CallClose(s) \in Machine
<1>1. "closing" \in Stages
  BY DEF Stages
<1>2. [s EXCEPT !.stage = "closing"] \in Machine
  BY <1>1, ZenonT(150) DEF Machine
<1>3. QED
  BY <1>2 DEF CallClose

\* RTC_CLOSED: the retired handles stay within their types.
LEMMA RetiredType ==
    ASSUME NEW s \in Machine
    PROVE  [s EXCEPT !.inputs = FALSE, !.connection = 0, !.closing = 0] \in Machine
<1>1. 0 \in Handles
  BY NoHandle
<1>2. QED
  BY <1>1, ZenonT(150) DEF Machine

\* rtc_dispatch() of RTC_CLOSED: it is for the call's own handle, however held.
LEMMA RtcClosedFine ==
    ASSUME NEW s \in Machine, Settled(s), NEW e, e.conn # 0, NEW r
    PROVE  Fine(RtcClosed(s, e, r)) /\ Keeps(s, RtcClosed(s, e, r))
<1> DEFINE c == [s EXCEPT !.inputs = FALSE, !.connection = 0, !.closing = 0]
           a == [c EXCEPT !.audio = 0]
           d == CallClose(a)
<1>1. CASE e.conn \notin {s.connection, s.closing}
  BY <1>1, KeepsSelf DEF RtcClosed, Fine
<1>2. CASE e.conn \in {s.connection, s.closing}
  <2>1. c \in Machine
    BY RetiredType
  <2>2. a \in Machine /\ d \in Machine
    BY <2>1, SilencedType, CallCloseType
  <2>3. [s EXCEPT !.inputs = FALSE,
                  !.connection = IF @ = e.conn THEN 0 ELSE @,
                  !.closing    = IF @ = e.conn THEN 0 ELSE @] = c
    <3>1. /\ (IF s.connection = e.conn THEN 0 ELSE s.connection) = 0
          /\ (IF s.closing = e.conn THEN 0 ELSE s.closing) = 0
      BY <1>2 DEF Settled, Connected
    <3>2. QED
      BY <3>1
  <2>4. c.connection = 0 /\ c.closing = 0
    BY DEF Machine
  <2>5. RtcClosed(s, e, r) = Finish(d, r)
    BY <1>2, <2>3, <2>4 DEF RtcClosed
  <2>6. Settled(d) /\ Keeps(s, d)
    BY <1>2, SMTT(60) DEF CallClose, Machine, Settled, Staged, Clean,
         Unfinished, Connected, Asked, Powered, Retreats, Keeps, KeepsWhip,
         KeepsStop, KeepsCall
  <2>7. Fine(Finish(d, r)) /\ Keeps(d, Finish(d, r))
    BY <2>2, <2>6, FinishFine
  <2>8. QED
    BY <2>5, <2>6, <2>7, KeepsTransitive
<1>3. QED
  BY <1>1, <1>2

\* call_peer_answered() goes no further than the transport allows.
LEMMA PeerAnsweredFine ==
    ASSUME NEW s \in Machine, Settled(s), NEW g
    PROVE  Fine(CallPeerAnswered(s, g)) /\ Keeps(s, CallPeerAnswered(s, g))
<1> DEFINE stage == IF s.transport_ready THEN "active" ELSE s.stage
           a == [s EXCEPT !.peer_answered = TRUE, !.stage = stage]
<1>1. stage \in Stages
  BY DEF Machine, Stages
<1> HIDE DEF stage
<1>2. a \in Machine
  BY <1>1, ZenonT(150) DEF Machine
<1>3. CallPeerAnswered(s, g) \in {s, a}
  BY DEF CallPeerAnswered, stage
<1>4. CASE CallPeerAnswered(s, g) = s
  BY <1>4, KeepsSelf DEF Fine
<1>5. CASE CallPeerAnswered(s, g) # s
  <2>1. s.stage \in {"connecting", "waiting_peer"}
    BY <1>5 DEF CallPeerAnswered
  <2>2. Settled(a) /\ Keeps(s, a)
    BY <2>1, SMTT(60) DEF stage, Machine, Settled, Staged, Clean, Unfinished,
         Connected, Asked, Powered, Retreats, Keeps, KeepsWhip, KeepsStop,
         KeepsCall
  <2>3. QED
    BY <1>2, <1>3, <1>5, <2>2 DEF Fine
<1>6. QED
  BY <1>4, <1>5

\* rtc_dispatch() of a command of the peer.
LEMMA RtcCommandFine ==
    ASSUME NEW s \in Machine, Settled(s), NEW e,
           e.kind \in {"answered", "hangup", "bad_hangup"}, NEW r
    PROVE  Fine(RtcCommand(s, e, r)) /\ Keeps(s, RtcCommand(s, e, r))
<1>1. RtcCommand(s, e, r) \in {s, CallPeerAnswered(s, e.gen), EndCall(s, FALSE, r)}
  BY DEF RtcCommand
<1>2. QED
  BY <1>1, PeerAnsweredFine, EndSettled, KeepsSelf DEF Fine

\* rtc_dispatch() of RTC_STARTED.
LEMMA StartedFine ==
    ASSUME NEW s \in Machine, Settled(s)
    PROVE  /\ Fine([s EXCEPT !.sdkReady = TRUE])
           /\ Keeps(s, [s EXCEPT !.sdkReady = TRUE])
<1>1. [s EXCEPT !.sdkReady = TRUE] \in Machine
  BY ZenonT(150) DEF Machine
<1>2. QED
  BY <1>1, SMTT(60) DEF Fine, Machine, Settled, Staged, Clean, Unfinished,
       Connected, Asked, Powered, Retreats, Keeps, KeepsWhip, KeepsStop,
       KeepsCall

\* The task takes one event of the SDK: its result, if it is one, is expected.
LEMMA RtcDispatchFine ==
    ASSUME NEW s \in Machine, Settled(s), NEW e \in RtcEvents,
           e.kind = "connected" =>
                s.connectPending /\ s.whip = 0 /\ e.gen = s.generation
                /\ e.conn \in {0, s.generation},
           e.kind = "stopped" => s.sdkStopping /\ s.phase = "off" /\ s.whip = 0,
           e.kind = "closed" => e.conn # 0,
           NEW r
    PROVE  /\ Fine(RtcDispatch(s, e, r)) /\ KeepsCall(s, RtcDispatch(s, e, r))
           /\ e.kind # "stopped" => KeepsStop(s, RtcDispatch(s, e, r))
           /\ e.kind \notin {"stopped", "connected"} => KeepsWhip(s, RtcDispatch(s, e, r))
<1> DEFINE d == RtcDispatch(s, e, r)
<1> HIDE DEF d
<1> SUFFICES /\ Fine(d) /\ KeepsCall(s, d)
             /\ e.kind # "stopped" => KeepsStop(s, d)
             /\ e.kind \notin {"stopped", "connected"} => KeepsWhip(s, d)
  BY DEF d
<1>1. CASE e.kind = "started"
  <2>1. d = [s EXCEPT !.sdkReady = TRUE]
    BY <1>1 DEF RtcDispatch, d
  <2>2. QED
    BY <2>1, StartedFine DEF Keeps
<1>2. CASE e.kind = "stopped"
  <2>1. d = RtcStopped(s, r)
    BY <1>2 DEF RtcDispatch, d
  <2>2. QED
    BY <1>2, <2>1, RtcStoppedFine
<1>3. CASE e.kind = "connected"
  <2>1. d = RtcConnected(s, e, r)
    BY <1>3 DEF RtcDispatch, d
  <2>2. QED
    BY <1>3, <2>1, RtcConnectedFine
<1>4. CASE e.kind = "closed"
  <2>1. d \in {s, RtcClosed(s, e, r)}
    BY <1>4 DEF RtcDispatch, d
  <2>2. QED
    BY <1>4, <2>1, RtcClosedFine, KeepsSelf DEF Fine, Keeps
<1>5. CASE e.kind = "error"
  <2>1. d \in {s, EndCall(s, FALSE, r)}
    BY <1>5 DEF RtcDispatch, d
  <2>2. QED
    BY <1>5, <2>1, EndSettled, KeepsSelf DEF Fine, Keeps
<1>6. CASE e.kind \in {"answered", "hangup", "bad_hangup"}
  <2>1. d \in {s, RtcCommand(s, e, r)}
    BY <1>6 DEF RtcDispatch, d
  <2>2. QED
    BY <1>6, <2>1, RtcCommandFine, KeepsSelf DEF Fine, Keeps
<1>7. CASE e.kind = "unexpected"
  <2>1. d = s
    BY <1>7 DEF RtcDispatch, d
  <2>2. QED
    BY <2>1, KeepsSelf DEF Fine, Keeps
<1>8. e.kind \in {"started", "stopped", "unexpected", "connected", "closed", "error",
                  "answered", "hangup", "bad_hangup"}
  BY DEF RtcEvents, SignalKinds
<1>9. QED
  BY <1>1, <1>2, <1>3, <1>4, <1>5, <1>6, <1>7, <1>8

\* task(): asking for a stop keeps the types.
LEMMA FailedType ==
    ASSUME NEW s \in Machine
    PROVE  [s EXCEPT !.needShutdown = TRUE] \in Machine
BY ZenonT(150) DEF Machine

\* task(): a lost event ends the call and asks for a stop.
LEMMA FailStepFine ==
    ASSUME NEW s \in Machine, Settled(s), NEW r
    PROVE  Fine(FailStep(s, r)) /\ Keeps(s, FailStep(s, r))
<1> DEFINE c == [s EXCEPT !.needShutdown = TRUE]
<1>1. c \in Machine
  BY FailedType
<1>2. Staged(c) /\ Connected(c) /\ Asked(c) /\ Powered(c) /\ Keeps(s, c)
  BY SMTT(60) DEF Machine, Settled, Staged, Clean, Unfinished, Connected,
       Asked, Powered, Retreats, Keeps, KeepsWhip, KeepsStop, KeepsCall
<1>3. Fine(EndCall(c, FALSE, r)) /\ Keeps(c, EndCall(c, FALSE, r))
  BY <1>1, <1>2, EndCallFine
<1>4. FailStep(s, r) \in {s, EndCall(c, FALSE, r)}
  BY DEF FailStep
<1> HIDE DEF c
<1>5. Keeps(s, EndCall(c, FALSE, r))
  BY <1>2, <1>3, KeepsTransitive
<1>6. QED
  BY <1>3, <1>4, <1>5, KeepsSelf DEF Fine

\* task(): a stop that is not needed keeps the types.
LEMMA SparedType ==
    ASSUME NEW s \in Machine
    PROVE  [s EXCEPT !.needShutdown = FALSE, !.resumeAfterStop = FALSE] \in Machine
BY ZenonT(150) DEF Machine

\* task(): with no SDK there is nothing to stop.
LEMMA NoSdkStepFine ==
    ASSUME NEW s \in Machine, Settled(s), NEW r
    PROVE  Fine(NoSdkStep(s, r)) /\ Keeps(s, NoSdkStep(s, r))
<1> DEFINE c == [s EXCEPT !.needShutdown = FALSE, !.resumeAfterStop = FALSE]
<1>1. CASE ~s.needShutdown \/ s.sdkInitialized
  BY <1>1, KeepsSelf DEF NoSdkStep, Fine
<1>2. CASE ~(~s.needShutdown \/ s.sdkInitialized)
  <2>1. c \in Machine
    BY SparedType
  <2>2. Settled(c) /\ Keeps(s, c)
    BY <1>2, SMTT(60) DEF Machine, Settled, Staged, Clean, Unfinished,
         Connected, Asked, Powered, Retreats, Keeps, KeepsWhip, KeepsStop,
         KeepsCall
  <2>3. Fine(StartSdk(c, r)) /\ Keeps(c, StartSdk(c, r))
    BY <2>1, <2>2, StartSdkFine
  <2>4. NoSdkStep(s, r) \in {c, StartSdk(c, r)}
    BY <1>2 DEF NoSdkStep
  <2>5. QED
    BY <2>1, <2>2, <2>3, <2>4, KeepsTransitive DEF Fine
<1>3. QED
  BY <1>1, <1>2

\* task(): the started media keep the types.
LEMMA MediaType ==
    ASSUME NEW s \in Machine, NEW h \in Handles
    PROVE  [s EXCEPT !.deadline = FALSE, !.audio = h, !.mediaStarted = TRUE] \in Machine
BY ZenonT(150) DEF Machine

\* task(): media start on an active call that has a connection.
LEMMA MediaStepFine ==
    ASSUME NEW s \in Machine, Settled(s)
    PROVE  Fine(MediaStep(s)) /\ Keeps(s, MediaStep(s))
<1> DEFINE c == [s EXCEPT !.deadline = FALSE, !.audio = s.connection, !.mediaStarted = TRUE]
<1>1. CASE ~(s.stage = "active" /\ s.connection # 0 /\ ~s.mediaStarted)
  BY <1>1, KeepsSelf DEF MediaStep, Fine
<1>2. CASE s.stage = "active" /\ s.connection # 0 /\ ~s.mediaStarted
  <2>1. s.connection \in Handles
    BY DEF Machine
  <2>2. c \in Machine
    BY <2>1, MediaType
  <2>3. Settled(c) /\ Keeps(s, c)
    BY <1>2, SMTT(60) DEF Machine, Settled, Staged, Clean, Unfinished,
         Connected, Asked, Powered, Retreats, Keeps, KeepsWhip, KeepsStop,
         KeepsCall
  <2>4. MediaStep(s) = c
    BY <1>2 DEF MediaStep
  <2>5. QED
    BY <2>2, <2>3, <2>4 DEF Fine
<1>3. QED
  BY <1>1, <1>2

\* task(): a deadline that has expired keeps the types.
LEMMA TimedOutType ==
    ASSUME NEW s \in Machine, NEW need \in BOOLEAN
    PROVE  [s EXCEPT !.deadline = FALSE, !.needShutdown = need] \in Machine
BY ZenonT(150) DEF Machine

\* task(): a call that has waited too long ends.
LEMMA DeadlineStepFine ==
    ASSUME NEW s \in Machine, Settled(s), NEW x, NEW r
    PROVE  Fine(DeadlineStep(s, x, r)) /\ Keeps(s, DeadlineStep(s, x, r))
<1> DEFINE c == EndCall(s, TRUE, r)
           need == c.needShutdown \/ c.connectPending
           d == [c EXCEPT !.deadline = FALSE, !.needShutdown = need]
<1>1. Fine(c) /\ Keeps(s, c)
  BY EndSettled
<1>2. c.stage \in {"idle", "closing"}
  BY EndCallStage
<1> HIDE DEF c
<1>3. need \in BOOLEAN
  OBVIOUS
<1> HIDE DEF need
<1>4. d \in Machine
  BY <1>1, <1>3, TimedOutType DEF Fine
<1>5. Settled(d) /\ Keeps(c, d)
  BY <1>1, <1>2, SMTT(60) DEF need, Fine, Machine, Settled, Staged, Clean,
       Unfinished, Connected, Asked, Powered, Retreats, Keeps, KeepsWhip,
       KeepsStop, KeepsCall
<1>6. DeadlineStep(s, x, r) \in {s, d}
  BY DEF DeadlineStep, c, need
<1>7. QED
  BY <1>1, <1>4, <1>5, <1>6, KeepsTransitive, KeepsSelf DEF Fine

\* task(): the handles of a disconnect stay within their types.
LEMMA DisconnectType ==
    ASSUME NEW s \in Machine, NEW h \in Handles
    PROVE  /\ [s EXCEPT !.connection = 0, !.closing = h] \in Machine
           /\ [s EXCEPT !.dropping = h] \in Machine
           /\ [s EXCEPT !.closing = 0] \in Machine
<1>1. 0 \in Handles
  BY NoHandle
<1>2. [s EXCEPT !.connection = 0, !.closing = h] \in Machine
  BY <1>1, ZenonT(150) DEF Machine
<1>3. [s EXCEPT !.dropping = h] \in Machine
  BY ZenonT(150) DEF Machine
<1>4. [s EXCEPT !.closing = 0] \in Machine
  BY <1>1, ZenonT(150) DEF Machine
<1>5. QED
  BY <1>2, <1>3, <1>4

\* task(): the need of a stop keeps the types.
LEMMA NeedType ==
    ASSUME NEW s \in Machine, NEW need \in BOOLEAN
    PROVE  [s EXCEPT !.needShutdown = need] \in Machine
BY ZenonT(150) DEF Machine

\* rtc_disconnect() changes only the SDK's half.
LEMMA RtcDisconnectFine ==
    ASSUME NEW s \in Machine, Settled(s), NEW h \in Handles, NEW r
    PROVE  Fine(RtcDisconnect(s, h, r)) /\ Keeps(s, RtcDisconnect(s, h, r))
<1>1. [s EXCEPT !.dropping = h] \in Machine
  BY DisconnectType
<1>2. Same(s, [s EXCEPT !.dropping = h])
  BY DEF Same, Machine
<1>3. RtcDisconnect(s, h, r) \in {s, [s EXCEPT !.dropping = h]}
  BY DEF RtcDisconnect
<1>4. QED
  BY <1>1, <1>2, <1>3, SameFine, KeepsSelf DEF Fine

\* task(): the disconnect that a closing call has left to the loop.
LEMMA DisconnectStepFine ==
    ASSUME NEW s \in Machine, Settled(s), NEW x, NEW r, r.disconnect \in BOOLEAN
    PROVE  Fine(DisconnectStep(s, x, r)) /\ Keeps(s, DisconnectStep(s, x, r))
<1> DEFINE h == s.connection
           b == [s EXCEPT !.connection = 0, !.closing = h]
           c == RtcDisconnect(b, h, r)
           n == [c EXCEPT !.closing = 0]
           need == c.needShutdown \/ ~r.disconnect
           d == [c EXCEPT !.needShutdown = need]
<1>1. CASE ~(s.stage = "closing" /\ s.connection # 0 /\ x.disconnect)
  BY <1>1, KeepsSelf DEF DisconnectStep, Fine
<1>2. CASE s.stage = "closing" /\ s.connection # 0 /\ x.disconnect
  <2>1. h \in Handles
    BY DEF Machine
  <2>2. b \in Machine
    BY <2>1, DisconnectType
  <2>3. Settled(b) /\ Keeps(s, b) /\ b.stage = "closing" /\ ~b.connectPending
    BY <1>2, SMTT(60) DEF Machine, Settled, Staged, Clean, Unfinished,
         Connected, Asked, Powered, Retreats, Keeps, KeepsWhip, KeepsStop,
         KeepsCall
  <2> HIDE DEF b
  <2>4. Fine(c) /\ Keeps(b, c)
    BY <2>1, <2>2, <2>3, RtcDisconnectFine
  <2>5. c.stage = "closing" /\ ~c.connectPending
    BY <2>2, <2>3 DEF RtcDisconnect, Machine
  <2>6. Keeps(s, c)
    BY <2>3, <2>4, KeepsTransitive
  <2>7. DisconnectStep(s, x, r) \in {Finish(n, r), d}
    BY <1>2 DEF DisconnectStep, b
  <2> HIDE DEF c, h
  <2>8. n \in Machine
    BY <2>1, <2>4, DisconnectType DEF Fine
  <2>9. Settled(n) /\ Keeps(c, n)
    BY <2>4, <2>5, SMTT(60) DEF Fine, Machine, Settled, Staged, Clean,
         Unfinished, Connected, Asked, Powered, Retreats, Keeps, KeepsWhip,
         KeepsStop, KeepsCall
  <2> HIDE DEF n
  <2>10. Fine(Finish(n, r)) /\ Keeps(n, Finish(n, r))
    BY <2>8, <2>9, FinishFine
  <2>11. need \in BOOLEAN
    OBVIOUS
  <2> HIDE DEF need
  <2>12. d \in Machine
    BY <2>4, <2>11, NeedType DEF Fine
  <2>13. Settled(d) /\ Keeps(c, d)
    BY <2>4, <2>5, SMTT(60) DEF need, Fine, Machine, Settled, Staged, Clean,
         Unfinished, Connected, Asked, Powered, Retreats, Keeps, KeepsWhip,
         KeepsStop, KeepsCall
  <2> HIDE DEF d
  <2>14. Keeps(s, d) /\ Keeps(s, Finish(n, r))
    BY <2>6, <2>9, <2>10, <2>13, KeepsTransitive
  <2>15. QED
    BY <2>7, <2>10, <2>12, <2>13, <2>14 DEF Fine
<1>3. QED
  BY <1>1, <1>2

\* task(): a stop that has begun, or failed, keeps the types.
LEMMA StoppingType ==
    ASSUME NEW s \in Machine
    PROVE  /\ [s EXCEPT !.audio = 0, !.sdkStopping = TRUE, !.phase = "stopping"] \in Machine
           /\ [s EXCEPT !.audio = 0, !.shutdownFailed = TRUE] \in Machine
<1>1. 0 \in Handles /\ "stopping" \in SdkPhases
  BY NoHandle DEF SdkPhases
<1>2. [s EXCEPT !.audio = 0, !.sdkStopping = TRUE, !.phase = "stopping"] \in Machine
  BY <1>1, ZenonT(150) DEF Machine
<1>3. [s EXCEPT !.audio = 0, !.shutdownFailed = TRUE] \in Machine
  BY <1>1, ZenonT(150) DEF Machine
<1>4. QED
  BY <1>2, <1>3

\* task(): the stop of an SDK that carries no call.
LEMMA ShutdownStepFine ==
    ASSUME NEW s \in Machine, Settled(s), NEW r
    PROVE  Fine(ShutdownStep(s, r)) /\ Keeps(s, ShutdownStep(s, r))
<1> DEFINE a == [s EXCEPT !.audio = 0, !.sdkStopping = TRUE, !.phase = "stopping"]
           b == [s EXCEPT !.audio = 0, !.shutdownFailed = TRUE]
<1>1. a \in Machine /\ b \in Machine
  BY StoppingType
<1>2. Settled(b) /\ Keeps(s, b)
  BY SMTT(60) DEF Machine, Settled, Staged, Clean, Unfinished, Connected,
       Asked, Powered, Retreats, Keeps, KeepsWhip, KeepsStop, KeepsCall
<1>3. CASE s.needShutdown /\ s.sdkInitialized /\ ~s.sdkStopping
  <2>1. Settled(a) /\ Keeps(s, a)
    BY <1>3, SMTT(60) DEF Machine, Settled, Staged, Clean, Unfinished,
         Connected, Asked, Powered, Retreats, Keeps, KeepsWhip, KeepsStop,
         KeepsCall
  <2>2. ShutdownStep(s, r) \in {s, a, b}
    BY DEF ShutdownStep
  <2>3. QED
    BY <1>1, <1>2, <2>1, <2>2, KeepsSelf DEF Fine
<1>4. CASE ~(s.needShutdown /\ s.sdkInitialized /\ ~s.sdkStopping)
  BY <1>4, KeepsSelf DEF ShutdownStep, Fine
<1>5. QED
  BY <1>3, <1>4

\* task(): an overdue close keeps the types.
LEMMA OverdueType ==
    ASSUME NEW s \in Machine, NEW need \in BOOLEAN
    PROVE  [s EXCEPT !.closeDeadline = FALSE, !.needShutdown = need] \in Machine
BY ZenonT(150) DEF Machine

\* task(): a close that takes too long asks for a stop.
LEMMA CloseStepFine ==
    ASSUME NEW s \in Machine, Settled(s), NEW x
    PROVE  Fine(CloseStep(s, x)) /\ Keeps(s, CloseStep(s, x))
<1> DEFINE need == s.needShutdown \/ (s.sdkInitialized /\ ~s.sdkStopping)
           c == [s EXCEPT !.closeDeadline = FALSE, !.needShutdown = need]
<1>1. CASE ~(s.closeDeadline /\ x.close)
  BY <1>1, KeepsSelf DEF CloseStep, Fine
<1>2. CASE s.closeDeadline /\ x.close
  <2>1. need \in BOOLEAN
    OBVIOUS
  <2> HIDE DEF need
  <2>2. c \in Machine
    BY <2>1, OverdueType
  <2>3. Settled(c) /\ Keeps(s, c)
    BY <1>2, SMTT(60) DEF need, Machine, Settled, Staged, Clean, Unfinished,
         Connected, Asked, Powered, Retreats, Keeps, KeepsWhip, KeepsStop,
         KeepsCall
  <2>4. CloseStep(s, x) = c
    BY <1>2 DEF CloseStep, need
  <2>5. QED
    BY <2>2, <2>3, <2>4 DEF Fine
<1>3. QED
  BY <1>1, <1>2

\* One turn through the tail of the loop.
LEMMA LoopTailFine ==
    ASSUME NEW s \in Machine, Settled(s), NEW x, NEW r, r.disconnect \in BOOLEAN
    PROVE  Fine(LoopTail(s, x, r)) /\ Keeps(s, LoopTail(s, x, r))
<1> DEFINE a == FailStep(s, r)
           b == NoSdkStep(a, r)
           c == MediaStep(b)
           d == DeadlineStep(c, x, r)
           f == DisconnectStep(d, x, r)
           g == ShutdownStep(f, r)
           h == CloseStep(g, x)
<1>1. h = LoopTail(s, x, r)
  BY DEF LoopTail
<1>2. Fine(a) /\ Keeps(s, a)
  BY FailStepFine
<1> HIDE DEF a
<1>3. Fine(b) /\ Keeps(a, b)
  BY <1>2, NoSdkStepFine DEF Fine
<1> HIDE DEF b
<1>4. Fine(c) /\ Keeps(b, c)
  BY <1>3, MediaStepFine DEF Fine
<1> HIDE DEF c
<1>5. Fine(d) /\ Keeps(c, d)
  BY <1>4, DeadlineStepFine DEF Fine
<1> HIDE DEF d
<1>6. Fine(f) /\ Keeps(d, f)
  BY <1>5, DisconnectStepFine DEF Fine
<1> HIDE DEF f
<1>7. Fine(g) /\ Keeps(f, g)
  BY <1>6, ShutdownStepFine DEF Fine
<1> HIDE DEF g
<1>8. Fine(h) /\ Keeps(g, h)
  BY <1>7, CloseStepFine DEF Fine
<1> HIDE DEF h
<1>9. Keeps(s, h)
  BY <1>2, <1>3, <1>4, <1>5, <1>6, <1>7, <1>8, KeepsTransitive
<1>10. QED
  BY <1>1, <1>8, <1>9

-----------------------------------------------------------------------------
\* The queues.

\* The results in the RTC queue stay expected while the promises are kept.
LEMMA RtcKept ==
    ASSUME NEW s, NEW t, NEW q \in Seq(RtcEvents), RtcInFlight(s, q),
           KeepsWhip(s, t), KeepsStop(s, t)
    PROVE  RtcInFlight(t, q)
BY DEF RtcInFlight, KeepsWhip, KeepsStop

\* What is left of the RTC queue once its head is taken.
LEMMA RtcTail ==
    ASSUME NEW s, NEW t, NEW q \in Seq(RtcEvents), q # <<>>, RtcInFlight(s, q),
           Head(q).kind # "stopped" => KeepsStop(s, t),
           Head(q).kind \notin {"stopped", "connected"} => KeepsWhip(s, t)
    PROVE  RtcInFlight(t, Tail(q))
<1> DEFINE p == Tail(q)
<1>1. /\ Len(q) \in Nat \ {0} /\ Len(p) = Len(q) - 1 /\ Head(q) = q[1]
      /\ \A i \in 1 .. Len(p) : p[i] = q[i + 1] /\ i + 1 \in 1 .. Len(q)
  OBVIOUS
<1> HIDE DEF p
<1>2. SUFFICES ASSUME NEW i \in 1 .. Len(p)
               PROVE  /\ p[i].kind = "connected" =>
                            /\ t.connectPending /\ t.whip = 0
                            /\ p[i].gen = t.generation /\ p[i].conn \in {0, t.generation}
                            /\ \A j \in 1 .. Len(p) : p[j].kind = "connected" => j = i
                      /\ p[i].kind = "stopped" =>
                            /\ t.sdkStopping /\ t.phase = "off" /\ t.whip = 0
                            /\ \A j \in 1 .. Len(p) : p[j].kind = "stopped" => j = i
                            /\ \A j \in i .. Len(p) : p[j].kind # "connected"
                      /\ p[i].kind = "closed" => p[i].conn # 0
  BY DEF RtcInFlight, p
<1>3. CASE p[i].kind = "connected"
  <2>1. q[i + 1].kind = "connected" /\ 1 \in 1 .. Len(q) /\ i + 1 # 1
    BY <1>1, <1>3
  <2>2. Head(q).kind \notin {"stopped", "connected"}
    <3>1. Head(q).kind # "connected"
      BY <1>1, <2>1 DEF RtcInFlight
    <3>2. Head(q).kind # "stopped"
      BY <1>1, <2>1 DEF RtcInFlight
    <3>3. QED
      BY <3>1, <3>2
  <2>3. QED
    BY <1>1, <1>3, <2>1, <2>2 DEF RtcInFlight, KeepsWhip
<1>4. CASE p[i].kind = "stopped"
  <2>1. q[i + 1].kind = "stopped" /\ 1 \in 1 .. Len(q) /\ i + 1 # 1
    BY <1>1, <1>4
  <2>2. Head(q).kind # "stopped"
    BY <1>1, <2>1 DEF RtcInFlight
  <2>3. s.sdkStopping /\ s.phase = "off" /\ s.whip = 0
    BY <1>1, <2>1 DEF RtcInFlight
  <2>4. t.sdkStopping /\ t.phase = "off" /\ t.whip = 0
    BY <2>2, <2>3 DEF KeepsStop
  <2>5. \A j \in 1 .. Len(p) : p[j].kind = "stopped" => j = i
    BY <1>1, <2>1 DEF RtcInFlight
  <2>6. \A j \in i .. Len(p) : p[j].kind # "connected"
    BY <1>1, <2>1 DEF RtcInFlight
  <2>7. QED
    BY <1>4, <2>4, <2>5, <2>6
<1>5. CASE p[i].kind = "closed"
  BY <1>1, <1>5 DEF RtcInFlight
<1>6. QED
  BY <1>3, <1>4, <1>5

\* An event that is no result joins the RTC queue.
LEMMA RtcOther ==
    ASSUME NEW s, NEW q \in Seq(RtcEvents), NEW e \in RtcEvents, RtcInFlight(s, q),
           e.kind \notin {"connected", "stopped"}, e.kind = "closed" => e.conn # 0
    PROVE  RtcInFlight(s, Append(q, e))
<1> DEFINE p == Append(q, e)
<1>1. /\ Len(q) \in Nat /\ Len(p) = Len(q) + 1 /\ p[Len(p)] = e
      /\ \A i \in 1 .. Len(q) : p[i] = q[i]
  OBVIOUS
<1> HIDE DEF p
<1>2. \A i \in 1 .. Len(p) : i = Len(p) \/ i \in 1 .. Len(q)
  BY <1>1
<1>3. QED
  BY <1>1, <1>2 DEF RtcInFlight, p

\* The result of the WHIP in flight joins it: the only one.
LEMMA RtcResult ==
    ASSUME NEW s, NEW q \in Seq(RtcEvents), NEW e \in RtcEvents,
           \A i \in 1 .. Len(q) :
                q[i].kind \notin {"connected", "stopped"} /\ (q[i].kind = "closed" => q[i].conn # 0),
           e.kind = "connected", s.connectPending, s.whip = 0,
           e.gen = s.generation, e.conn \in {0, s.generation}
    PROVE  RtcInFlight(s, Append(q, e))
<1> DEFINE p == Append(q, e)
<1>1. /\ Len(q) \in Nat /\ Len(p) = Len(q) + 1 /\ p[Len(p)] = e
      /\ \A i \in 1 .. Len(q) : p[i] = q[i]
  OBVIOUS
<1> HIDE DEF p
<1>2. \A i \in 1 .. Len(p) : i = Len(p) \/ i \in 1 .. Len(q)
  BY <1>1
<1>3. QED
  BY <1>1, <1>2 DEF RtcInFlight, p

\* The end of a stop joins it, after any result.
LEMMA RtcEnd ==
    ASSUME NEW s, NEW t, NEW q \in Seq(RtcEvents), NEW e \in RtcEvents, RtcInFlight(s, q),
           \A i \in 1 .. Len(q) : q[i].kind # "stopped",
           e.kind = "stopped", t.sdkStopping, t.phase = "off", t.whip = 0,
           t.connectPending = s.connectPending, t.generation = s.generation
    PROVE  RtcInFlight(t, Append(q, e))
<1> DEFINE p == Append(q, e)
<1>1. /\ Len(q) \in Nat /\ Len(p) = Len(q) + 1 /\ p[Len(p)] = e
      /\ \A i \in 1 .. Len(q) : p[i] = q[i]
  OBVIOUS
<1> HIDE DEF p
<1>2. \A i \in 1 .. Len(p) : i = Len(p) \/ i \in 1 .. Len(q)
  BY <1>1
<1>3. QED
  BY <1>1, <1>2 DEF RtcInFlight, p

\* A queued response stays expected while its promise is kept.
LEMMA CallKept ==
    ASSUME NEW s, NEW t, NEW q, CallInFlight(s, q), KeepsCall(s, t)
    PROVE  CallInFlight(t, q)
BY DEF CallInFlight, KeepsCall

\* What is left of the event queue once its head is taken.
LEMMA CallTail ==
    ASSUME NEW s, NEW t, NEW S, NEW q \in Seq(S), q # <<>>, CallInFlight(s, q),
           Head(q).kind # "call_result" => KeepsCall(s, t)
    PROVE  CallInFlight(t, Tail(q))
<1> DEFINE p == Tail(q)
<1>1. /\ Len(q) \in Nat \ {0} /\ Len(p) = Len(q) - 1 /\ Head(q) = q[1]
      /\ \A i \in 1 .. Len(p) : p[i] = q[i + 1] /\ i + 1 \in 1 .. Len(q)
  OBVIOUS
<1> HIDE DEF p
<1>2. CASE Head(q).kind = "call_result"
  <2>1. \A i \in 1 .. Len(p) : p[i].kind # "call_result"
    BY <1>1, <1>2 DEF CallInFlight
  <2>2. QED
    BY <2>1 DEF CallInFlight, p
<1>3. CASE Head(q).kind # "call_result"
  <2>1. CallInFlight(t, q)
    BY <1>3, CallKept
  <2>2. QED
    BY <1>1, <2>1 DEF CallInFlight, p
<1>4. QED
  BY <1>2, <1>3

\* An event that is no response to a call joins the queue.
LEMMA CallOther ==
    ASSUME NEW s, NEW S, NEW q \in Seq(S), NEW e \in S, CallInFlight(s, q),
           e.kind # "call_result"
    PROVE  CallInFlight(s, Append(q, e))
<1> DEFINE p == Append(q, e)
<1>1. /\ Len(q) \in Nat /\ Len(p) = Len(q) + 1 /\ p[Len(p)] = e
      /\ \A i \in 1 .. Len(q) : p[i] = q[i]
  OBVIOUS
<1> HIDE DEF p
<1>2. \A i \in 1 .. Len(p) : i = Len(p) \/ i \in 1 .. Len(q)
  BY <1>1
<1>3. QED
  BY <1>1, <1>2 DEF CallInFlight, p

\* The response to the call request joins it: the only one.
LEMMA CallAnswered ==
    ASSUME NEW s, NEW S, NEW q \in Seq(S), NEW e \in S,
           \A i \in 1 .. Len(q) : q[i].kind # "call_result",
           e.gen = s.generation, s.callPending, s.callRequest = 0
    PROVE  CallInFlight(s, Append(q, e))
<1> DEFINE p == Append(q, e)
<1>1. /\ Len(q) \in Nat /\ Len(p) = Len(q) + 1 /\ p[Len(p)] = e
      /\ \A i \in 1 .. Len(q) : p[i] = q[i]
  OBVIOUS
<1> HIDE DEF p
<1>2. \A i \in 1 .. Len(p) : i = Len(p) \/ i \in 1 .. Len(q)
  BY <1>1
<1>3. QED
  BY <1>1, <1>2 DEF CallInFlight, p

\* What the steps preserve.

\* The answers of a step are Booleans.
LEMMA AnswersType ==
    ASSUME NEW r \in Answers
    PROVE  r.disconnect \in BOOLEAN
BY DEF Answers, MaySucceedOr

\* The state the task starts in.
LEMMA InitInductive == Init => Inductive
<1> SUFFICES ASSUME Init PROVE Inductive
  OBVIOUS
<1>1. m \in Machine
  <2>1. /\ 0 \in Generations /\ 0 \in Handles /\ 0 \in Slots
        /\ "idle" \in Stages /\ "off" \in SdkPhases
        /\ None \in RoomOrNone /\ None \in IdOrNone
        /\ {} \in SomeFetches /\ {} \in SomeOperations
    BY NoHandle, VoipAssumption DEF Slots, Stages, SdkPhases, RoomOrNone, IdOrNone,
       SomeFetches, SomeOperations
  <2>2. [i \in Slots |-> [room |-> None, id |-> None]] \in ClosedCalls
    BY <2>1 DEF ClosedCalls
  <2> DEFINE none == [i \in Slots |-> [room |-> None, id |-> None]]
  <2> HIDE DEF none
  <2>3. Boot \in Machine
    BY <2>1, <2>2, SMTT(60) DEF Boot, Machine, none
  <2>4. QED
    BY <2>3 DEF Init
<1>2. Settled(m)
  BY NoHandle, SMTT(60) DEF Init, Boot, Settled, Staged, Clean, Unfinished,
       Connected, Asked, Powered, Retreats
<1>3. queue = <<>> /\ rtcQueue = <<>>
  BY DEF Init
<1>4. RtcInFlight(m, rtcQueue) /\ CallInFlight(m, queue)
  BY <1>3 DEF RtcInFlight, CallInFlight
<1>5. TypeOK
  <2>1. /\ queue \in Seq(PlatformEvents \cup UserEvents) /\ Len(queue) <= QueueCap
        /\ rtcQueue \in Seq(RtcEvents) /\ Len(rtcQueue) <= RtcCap
    BY <1>3, VoipAssumption
  <2>2. QED
    BY <1>1, <2>1 DEF Init, TypeOK
<1>6. QED
  BY <1>1, <1>2, <1>4, <1>5 DEF Inductive

\* task(): the RTC queue is drained, one event at a time.
LEMMA TakeRtcInductive ==
    ASSUME Inductive, TakeRtc
    PROVE  Inductive'
<1> DEFINE e == Head(rtcQueue)
<1>1. rtcQueue \in Seq(RtcEvents) /\ rtcQueue # <<>> /\ Len(rtcQueue) <= RtcCap
  BY DEF Inductive, TypeOK, TakeRtc
<1>2. e \in RtcEvents /\ e = rtcQueue[1] /\ 1 \in 1 .. Len(rtcQueue)
  BY <1>1
<1>3. m \in Machine /\ Settled(m) /\ RtcInFlight(m, rtcQueue) /\ CallInFlight(m, queue)
  BY DEF Inductive, TypeOK
<1> HIDE DEF e
<1>4. /\ e.kind = "connected" => m.connectPending /\ m.whip = 0 /\ e.gen = m.generation
                                 /\ e.conn \in {0, m.generation}
      /\ e.kind = "stopped" => m.sdkStopping /\ m.phase = "off" /\ m.whip = 0
      /\ e.kind = "closed" => e.conn # 0
  BY <1>2, <1>3 DEF RtcInFlight
<1>5. PICK r \in Answers : m' = RtcDispatch(m, e, r)
  BY DEF TakeRtc, e
<1>6. /\ Fine(m') /\ KeepsCall(m, m')
      /\ e.kind # "stopped" => KeepsStop(m, m')
      /\ e.kind \notin {"stopped", "connected"} => KeepsWhip(m, m')
  BY <1>2, <1>3, <1>4, <1>5, RtcDispatchFine
<1>7. RtcInFlight(m', rtcQueue')
  <2>1. rtcQueue' = Tail(rtcQueue)
    BY DEF TakeRtc
  <2>2. QED
    BY <1>1, <1>3, <1>6, <2>1, RtcTail DEF e
<1>8. CallInFlight(m', queue')
  <2>1. queue' = queue
    BY DEF TakeRtc
  <2>2. QED
    BY <1>3, <1>6, <2>1, CallKept
<1>9. TypeOK'
  <2>1. rtcQueue' \in Seq(RtcEvents) /\ Len(rtcQueue') <= RtcCap
    BY <1>1, VoipAssumption DEF TakeRtc
  <2>2. m' \in Machine
    BY <1>6 DEF Fine
  <2>3. QED
    BY <2>1, <2>2 DEF Inductive, TypeOK, TakeRtc
<1>10. QED
  BY <1>6, <1>7, <1>8, <1>9 DEF Inductive, Fine

\* task(): one platform or user event is taken.
LEMMA TakeEventInductive ==
    ASSUME Inductive, TakeEvent
    PROVE  Inductive'
<1> DEFINE e == Head(queue)
           E == PlatformEvents \cup UserEvents
<1> HIDE DEF E
<1>1. queue \in Seq(E) /\ queue # <<>> /\ Len(queue) <= QueueCap
  BY DEF Inductive, TypeOK, TakeEvent, E
<1>2. e \in E /\ e = queue[1] /\ 1 \in 1 .. Len(queue)
  BY <1>1
<1>3. /\ m \in Machine /\ Settled(m) /\ RtcInFlight(m, rtcQueue) /\ CallInFlight(m, queue)
      /\ rtcQueue \in Seq(RtcEvents) /\ online \in BOOLEAN
  BY DEF Inductive, TypeOK
<1> HIDE DEF e
<1>4. e.kind = "call_result" => m.callPending /\ m.callRequest = 0
  BY <1>2, <1>3 DEF CallInFlight
<1>5. PICK r \in Answers, some \in BOOLEAN : m' = Dispatch(m, e, some, r)
  BY DEF TakeEvent, e
<1>6. /\ Fine(m') /\ KeepsSdk(m, m')
      /\ e.kind # "call_result" => KeepsCall(m, m')
  BY <1>2, <1>3, <1>4, <1>5, DispatchFine DEF E
<1>7. RtcInFlight(m', rtcQueue')
  <2>1. rtcQueue' = rtcQueue
    BY DEF TakeEvent
  <2>2. QED
    BY <1>3, <1>6, <2>1, RtcKept DEF KeepsSdk
<1>8. CallInFlight(m', queue')
  <2>1. queue' = Tail(queue)
    BY DEF TakeEvent
  <2>2. QED
    BY <1>1, <1>3, <1>6, <2>1, CallTail DEF e
<1>9. TypeOK'
  <2>1. queue' \in Seq(E) /\ Len(queue') <= QueueCap
    BY <1>1, VoipAssumption DEF TakeEvent
  <2>2. m' \in Machine
    BY <1>6 DEF Fine
  <2>3. QED
    BY <2>1, <2>2 DEF Inductive, TypeOK, TakeEvent, E
<1>10. QED
  BY <1>6, <1>7, <1>8, <1>9 DEF Inductive, Fine

\* task(): the wait for an event runs out.
LEMMA NoEventInductive ==
    ASSUME Inductive, NoEvent
    PROVE  Inductive'
BY DEF Inductive, TypeOK, NoEvent

\* task(): the tail of the loop.
LEMMA RunTailInductive ==
    ASSUME Inductive, NEW x \in Expiry, RunTail(x)
    PROVE  Inductive'
<1>1. /\ m \in Machine /\ Settled(m) /\ RtcInFlight(m, rtcQueue) /\ CallInFlight(m, queue)
      /\ rtcQueue \in Seq(RtcEvents)
  BY DEF Inductive, TypeOK
<1>2. PICK r \in Answers : m' = LoopTail(m, x, r)
  BY DEF RunTail
<1>3. Fine(m') /\ Keeps(m, m')
  BY <1>1, <1>2, LoopTailFine, AnswersType
<1>4. rtcQueue' = rtcQueue /\ queue' = queue
  BY DEF RunTail
<1>5. RtcInFlight(m', rtcQueue') /\ CallInFlight(m', queue')
  BY <1>1, <1>3, <1>4, RtcKept, CallKept DEF Keeps
<1>6. TypeOK'
  <2>1. m' \in Machine
    BY <1>3 DEF Fine
  <2>2. QED
    BY <2>1 DEF Inductive, TypeOK, RunTail
<1>7. QED
  BY <1>3, <1>5, <1>6 DEF Inductive, Fine

\* rtc_event() appends one event or loses it.
LEMMA EmitType ==
    ASSUME rtcQueue \in Seq(RtcEvents), Len(rtcQueue) <= RtcCap, eventFailure \in BOOLEAN,
           NEW e \in RtcEvents, EmitRtc(e)
    PROVE  /\ rtcQueue' \in Seq(RtcEvents) /\ Len(rtcQueue') <= RtcCap
           /\ eventFailure' \in BOOLEAN
           /\ rtcQueue' \in {rtcQueue, Append(rtcQueue, e)}
<1>1. RtcCap \in Nat
  BY VoipAssumption
<1>2. CASE Len(rtcQueue) < RtcCap /\ rtcQueue' = Append(rtcQueue, e) /\ UNCHANGED eventFailure
  BY <1>1, <1>2
<1>3. CASE eventFailure' = TRUE /\ UNCHANGED rtcQueue
  BY <1>3
<1>4. QED
  BY <1>2, <1>3 DEF EmitRtc

\* What is left to show of a callback.
LEMMA SdkInductive ==
    ASSUME Inductive, SdkFrame, m' \in Machine, Settled(m'), KeepsCall(m, m'),
           NEW e \in RtcEvents, EmitRtc(e), RtcInFlight(m', rtcQueue')
    PROVE  Inductive'
<1>1. /\ rtcQueue' \in Seq(RtcEvents) /\ Len(rtcQueue') <= RtcCap
      /\ eventFailure' \in BOOLEAN
  BY EmitType DEF Inductive, TypeOK
<1>2. CallInFlight(m', queue')
  <2>1. queue' = queue /\ CallInFlight(m, queue)
    BY DEF SdkFrame, Inductive
  <2>2. QED
    BY <2>1, CallKept
<1>3. TypeOK'
  BY <1>1 DEF Inductive, TypeOK, SdkFrame
<1>4. QED
  BY <1>2, <1>3 DEF Inductive

\* A callback that is no result, appended or lost.
LEMMA EmitOther ==
    ASSUME Inductive, NEW t, RtcInFlight(t, rtcQueue),
           NEW e \in RtcEvents, e.kind \notin {"connected", "stopped"},
           e.kind = "closed" => e.conn # 0, EmitRtc(e)
    PROVE  RtcInFlight(t, rtcQueue')
<1>1. rtcQueue \in Seq(RtcEvents) /\ Len(rtcQueue) <= RtcCap /\ eventFailure \in BOOLEAN
  BY DEF Inductive, TypeOK
<1>2. rtcQueue' \in {rtcQueue, Append(rtcQueue, e)}
  BY <1>1, EmitType
<1>3. QED
  BY <1>1, <1>2, RtcOther

\* A phase of the SDK keeps the types.
LEMMA PhaseType ==
    ASSUME NEW s \in Machine, NEW phase \in SdkPhases
    PROVE  [s EXCEPT !.phase = phase] \in Machine
BY ZenonT(150) DEF Machine

\* The SDK has started.
LEMMA SdkStartedInductive ==
    ASSUME Inductive, SdkStarted
    PROVE  Inductive'
<1> DEFINE e == [kind |-> "started"]
<1>1. e \in RtcEvents /\ e.kind = "started"
  BY DEF RtcEvents
<1>2. /\ m \in Machine /\ Settled(m) /\ RtcInFlight(m, rtcQueue)
      /\ m.phase = "starting" /\ m' = [m EXCEPT !.phase = "started"]
      /\ EmitRtc(e) /\ SdkFrame
  BY DEF Inductive, TypeOK, SdkStarted
<1> HIDE DEF e
<1>3. m' \in Machine
  BY <1>2, PhaseType DEF SdkPhases
<1>4. Settled(m') /\ KeepsCall(m, m')
  BY <1>2, SMTT(60) DEF Machine, Settled, Staged, Clean, Unfinished,
       Connected, Asked, Powered, Retreats, Keeps, KeepsWhip, KeepsStop,
       KeepsCall
<1>5. RtcInFlight(m', rtcQueue)
  BY <1>2 DEF RtcInFlight, Machine
<1>6. RtcInFlight(m', rtcQueue')
  BY <1>1, <1>2, <1>5, EmitOther
<1>7. QED
  BY <1>1, <1>2, <1>3, <1>4, <1>6, SdkInductive

\* A completed WHIP keeps the types.
LEMMA ConnectedType ==
    ASSUME NEW s \in Machine, NEW h \in Handles
    PROVE  [s EXCEPT !.whip = 0, !.live = h] \in Machine
<1>1. 0 \in Handles
  BY NoHandle
<1>2. QED
  BY <1>1, ZenonT(150) DEF Machine

\* The SDK completes the WHIP in flight: nothing else is under way.
LEMMA SdkConnectedInductive ==
    ASSUME Inductive, NEW ok \in BOOLEAN, SdkConnected(ok)
    PROVE  Inductive'
<1> DEFINE e == [kind |-> "connected", gen |-> m.whip, conn |-> IF ok THEN m.whip ELSE 0]
           h == IF ok THEN m.whip ELSE m.live
<1>1. /\ m \in Machine /\ Settled(m) /\ RtcInFlight(m, rtcQueue)
      /\ rtcQueue \in Seq(RtcEvents) /\ Len(rtcQueue) <= RtcCap /\ eventFailure \in BOOLEAN
  BY DEF Inductive, TypeOK
<1>2. /\ m.whip # 0 /\ m' = [m EXCEPT !.whip = 0, !.live = h]
      /\ EmitRtc(e) /\ SdkFrame
  BY DEF SdkConnected
<1>3. h \in Handles /\ m.whip \in Handles /\ 0 \in Handles
  BY <1>1, NoHandle DEF Machine
<1>4. e \in RtcEvents
  <2>1. (IF ok THEN m.whip ELSE 0) \in Handles /\ m.whip \in Generations
    BY <1>3 DEF Handles
  <2>2. QED
    BY <2>1 DEF RtcEvents
<1>5. /\ e.kind = "connected" /\ e.gen = m.generation /\ e.conn \in {0, m.generation}
      /\ m.connectPending
  BY <1>1, <1>2 DEF Settled, Asked
<1> HIDE DEF e, h
<1>6. m' \in Machine
  BY <1>1, <1>2, <1>3, ConnectedType
<1>7. /\ Settled(m') /\ KeepsCall(m, m')
      /\ m'.connectPending /\ m'.whip = 0 /\ m'.generation = m.generation
  BY <1>1, <1>2, <1>5, SMTT(60) DEF Machine, Settled, Staged, Clean,
       Unfinished, Connected, Asked, Powered, Retreats, Keeps, KeepsWhip,
       KeepsStop, KeepsCall
<1>8. \A i \in 1 .. Len(rtcQueue) :
            /\ rtcQueue[i].kind \notin {"connected", "stopped"}
            /\ rtcQueue[i].kind = "closed" => rtcQueue[i].conn # 0
  BY <1>1, <1>2 DEF RtcInFlight
<1>9. RtcInFlight(m', rtcQueue')
  <2>1. RtcInFlight(m', rtcQueue)
    BY <1>8 DEF RtcInFlight
  <2>2. RtcInFlight(m', Append(rtcQueue, e))
    BY <1>1, <1>4, <1>5, <1>7, <1>8, RtcResult
  <2>3. rtcQueue' \in {rtcQueue, Append(rtcQueue, e)}
    BY <1>1, <1>2, <1>4, EmitType
  <2>4. QED
    BY <2>1, <2>2, <2>3
<1>10. QED
  BY <1>2, <1>4, <1>6, <1>7, <1>9, SdkInductive

\* The peer, or an error, signals on a connection.
LEMMA SdkSignalInductive ==
    ASSUME Inductive, NEW kind \in scenario.signals, SdkSignal(kind)
    PROVE  Inductive'
<1>1. kind \in SignalKinds
  BY VoipAssumption DEF Inductive, TypeOK, ScenarioKinds
<1>2. PICK h \in {m.live, m.whip} \ {0} : EmitRtc([kind |-> kind, gen |-> h, conn |-> h])
  BY DEF SdkSignal
<1> DEFINE e == [kind |-> kind, gen |-> h, conn |-> h]
<1>3. /\ m \in Machine /\ Settled(m) /\ RtcInFlight(m, rtcQueue)
      /\ m' = m /\ SdkFrame
  BY DEF Inductive, TypeOK, SdkSignal
<1>4. h \in Generations /\ h \in Handles
  BY <1>2, <1>3 DEF Machine, Handles
<1>5. e \in RtcEvents /\ e.kind \notin {"connected", "stopped", "closed"}
  BY <1>1, <1>4 DEF RtcEvents, SignalKinds
<1>6. EmitRtc(e)
  BY <1>2
<1> HIDE DEF e
<1>7. RtcInFlight(m', rtcQueue')
  BY <1>3, <1>5, <1>6, EmitOther
<1>8. QED
  BY <1>3, <1>5, <1>6, <1>7, KeepsSelf, SdkInductive DEF Keeps

\* What the SDK releases stays within its types.
LEMMA ReleasedType ==
    ASSUME NEW s \in Machine
    PROVE  /\ [s EXCEPT !.live = 0, !.dropping = 0] \in Machine
           /\ [s EXCEPT !.phase = "off", !.whip = 0, !.live = 0, !.dropping = 0] \in Machine
<1>1. 0 \in Handles /\ "off" \in SdkPhases
  BY NoHandle DEF SdkPhases
<1>2. [s EXCEPT !.live = 0, !.dropping = 0] \in Machine
  BY <1>1, ZenonT(150) DEF Machine
<1>3. [s EXCEPT !.phase = "off", !.whip = 0, !.live = 0, !.dropping = 0] \in Machine
  BY <1>1, ZenonT(150) DEF Machine
<1>4. QED
  BY <1>2, <1>3

\* The SDK closes the open connection.
LEMMA SdkClosedInductive ==
    ASSUME Inductive, SdkClosed
    PROVE  Inductive'
<1> DEFINE e == [kind |-> "closed", gen |-> m.live, conn |-> m.live]
<1>1. /\ m \in Machine /\ Settled(m) /\ RtcInFlight(m, rtcQueue)
      /\ m.live # 0 /\ m' = [m EXCEPT !.live = 0, !.dropping = 0]
      /\ EmitRtc(e) /\ SdkFrame
  BY DEF Inductive, TypeOK, SdkClosed
<1>2. m.live \in Handles /\ m.live \in Generations
  BY <1>1 DEF Machine, Handles
<1>3. e \in RtcEvents /\ e.kind = "closed" /\ e.conn # 0
  BY <1>1, <1>2 DEF RtcEvents
<1> HIDE DEF e
<1>4. m' \in Machine
  BY <1>1, ReleasedType
<1>5. Same(m, m')
  BY <1>1 DEF Same, Machine
<1>6. Settled(m') /\ Keeps(m, m')
  BY <1>1, <1>5, SameFine
<1>7. RtcInFlight(m', rtcQueue)
  BY <1>1, <1>6, RtcKept DEF Keeps, Inductive, TypeOK
<1>8. RtcInFlight(m', rtcQueue')
  BY <1>1, <1>3, <1>7, EmitOther
<1>9. QED
  BY <1>1, <1>3, <1>4, <1>6, <1>8, SdkInductive DEF Keeps

\* The SDK has stopped, and no WHIP survives it.
LEMMA SdkStoppedInductive ==
    ASSUME Inductive, SdkStopped
    PROVE  Inductive'
<1> DEFINE e == [kind |-> "stopped"]
<1>1. /\ m \in Machine /\ Settled(m) /\ RtcInFlight(m, rtcQueue)
      /\ rtcQueue \in Seq(RtcEvents) /\ Len(rtcQueue) <= RtcCap /\ eventFailure \in BOOLEAN
      /\ m.phase = "stopping"
      /\ m' = [m EXCEPT !.phase = "off", !.whip = 0, !.live = 0, !.dropping = 0]
      /\ EmitRtc(e) /\ SdkFrame
  BY DEF Inductive, TypeOK, SdkStopped
<1>2. e \in RtcEvents /\ e.kind = "stopped"
  BY DEF RtcEvents
<1> HIDE DEF e
<1>3. m' \in Machine
  BY <1>1, ReleasedType
<1>4. /\ Settled(m') /\ KeepsCall(m, m')
      /\ m'.sdkStopping /\ m'.phase = "off" /\ m'.whip = 0
      /\ m'.connectPending = m.connectPending /\ m'.generation = m.generation
  BY <1>1, SMTT(60) DEF Machine, Settled, Staged, Clean, Unfinished,
       Connected, Asked, Powered, Retreats, Keeps, KeepsWhip, KeepsStop,
       KeepsCall
<1>5. \A i \in 1 .. Len(rtcQueue) : rtcQueue[i].kind # "stopped"
  BY <1>1 DEF RtcInFlight
<1>6. RtcInFlight(m', rtcQueue')
  <2>1. RtcInFlight(m', rtcQueue)
    BY <1>1, <1>4, <1>5 DEF RtcInFlight
  <2>2. RtcInFlight(m', Append(rtcQueue, e))
    BY <1>1, <1>2, <1>4, <1>5, RtcEnd
  <2>3. rtcQueue' \in {rtcQueue, Append(rtcQueue, e)}
    BY <1>1, <1>2, EmitType
  <2>4. QED
    BY <2>1, <2>2, <2>3
<1>7. QED
  BY <1>1, <1>2, <1>3, <1>4, <1>6, SdkInductive

\* The SDK accepts a foreign connection.
LEMMA SdkAcceptedInductive ==
    ASSUME Inductive, SdkAccepted
    PROVE  Inductive'
<1> DEFINE e == [kind |-> "unexpected"]
<1>1. /\ m \in Machine /\ Settled(m) /\ RtcInFlight(m, rtcQueue)
      /\ m' = m /\ EmitRtc(e) /\ SdkFrame
  BY DEF Inductive, TypeOK, SdkAccepted
<1>2. e \in RtcEvents /\ e.kind = "unexpected"
  BY DEF RtcEvents
<1> HIDE DEF e
<1>3. RtcInFlight(m', rtcQueue')
  BY <1>1, <1>2, EmitOther
<1>4. QED
  BY <1>1, <1>2, <1>3, KeepsSelf, SdkInductive DEF Keeps

\* The platform and the user append to the other queue.

Events == PlatformEvents \cup UserEvents

\* An event for the task is appended, or lost.
LEMMA DeliverType ==
    ASSUME queue \in Seq(Events), Len(queue) <= QueueCap, eventFailure \in BOOLEAN,
           NEW e \in Events, PlatformEvent(e)
    PROVE  /\ queue' \in Seq(Events) /\ Len(queue') <= QueueCap
           /\ eventFailure' \in BOOLEAN
           /\ queue' \in {queue, Append(queue, e)}
<1>1. QueueCap \in Nat
  BY VoipAssumption
<1>2. CASE Enqueue(e) /\ UNCHANGED eventFailure
  BY <1>1, <1>2 DEF Enqueue
<1>3. CASE eventFailure' = TRUE /\ UNCHANGED queue
  BY <1>3
<1>4. QED
  BY <1>2, <1>3 DEF PlatformEvent, Delivered, Lost

\* What is left to show of a step of the platform.
LEMMA PlatformInductive ==
    ASSUME Inductive, PlatformFrame, m' \in Machine, Settled(m'),
           KeepsWhip(m, m'), KeepsStop(m, m'),
           queue' \in Seq(Events), Len(queue') <= QueueCap, eventFailure' \in BOOLEAN,
           online' \in BOOLEAN, announced' \in BOOLEAN,
           CallInFlight(m', queue')
    PROVE  Inductive'
<1>1. RtcInFlight(m', rtcQueue')
  <2>1. rtcQueue' = rtcQueue /\ RtcInFlight(m, rtcQueue) /\ rtcQueue \in Seq(RtcEvents)
    BY DEF PlatformFrame, Inductive, TypeOK
  <2>2. QED
    BY <2>1, RtcKept
<1>2. TypeOK'
  BY DEF Inductive, TypeOK, PlatformFrame, Events
<1>3. QED
  BY <1>1, <1>2 DEF Inductive

\* Steps that leave the task's record and its queue alone.
LEMMA LinkInductive ==
    ASSUME Inductive, LinkUp \/ NetworkDown \/ NoticeDown
    PROVE  Inductive'
<1>1. /\ UNCHANGED <<m, queue, eventFailure>> /\ PlatformFrame
      /\ online' \in BOOLEAN /\ announced' \in BOOLEAN
  BY DEF Inductive, TypeOK, LinkUp, NetworkDown, NoticeDown
<1>2. QED
  BY <1>1 DEF Inductive, TypeOK, PlatformFrame

\* Steps that deliver an event, or lose it, and leave the task's record alone.
LEMMA DeliverInductive ==
    ASSUME Inductive, PlatformFrame, m' = m, NEW e \in Events, e.kind # "call_result",
           PlatformEvent(e), online' \in BOOLEAN, announced' \in BOOLEAN
    PROVE  Inductive'
<1>1. /\ queue \in Seq(Events) /\ Len(queue) <= QueueCap /\ eventFailure \in BOOLEAN
      /\ m \in Machine /\ Settled(m) /\ CallInFlight(m, queue)
  BY DEF Inductive, TypeOK, Events
<1>2. /\ queue' \in Seq(Events) /\ Len(queue') <= QueueCap /\ eventFailure' \in BOOLEAN
      /\ queue' \in {queue, Append(queue, e)}
  BY <1>1, DeliverType
<1>3. CallInFlight(m', queue')
  BY <1>1, <1>2, CallOther
<1>4. QED
  BY <1>1, <1>2, <1>3, KeepsSelf, PlatformInductive DEF Keeps

\* The platform task announces that it is online.
LEMMA AnnounceInductive ==
    ASSUME Inductive, AnnounceOnline
    PROVE  Inductive'
<1> DEFINE e == [kind |-> "online"]
<1>1. e \in Events /\ e.kind # "call_result"
  BY DEF Events, PlatformEvents
<1>2. /\ PlatformFrame /\ m' = m /\ PlatformEvent(e)
      /\ online' \in BOOLEAN /\ announced' \in BOOLEAN
  BY DEF AnnounceOnline, PlatformEvent, Inductive, TypeOK
<1> HIDE DEF e
<1>3. QED
  BY <1>1, <1>2, DeliverInductive

\* An MQTT message is accepted.
LEMMA MessageInductive ==
    ASSUME Inductive, NEW e \in scenario.messages, Message(e)
    PROVE  Inductive'
<1>1. e \in MessageEvents
  BY VoipAssumption DEF Inductive, TypeOK, ScenarioKinds
<1>2. e \in Events /\ e.kind # "call_result"
  BY <1>1 DEF Events, PlatformEvents, MessageEvents
<1>3. /\ PlatformFrame /\ m' = m /\ PlatformEvent(e)
      /\ online' \in BOOLEAN /\ announced' \in BOOLEAN
  BY DEF Message, PlatformEvent, Inductive, TypeOK
<1>4. QED
  BY <1>2, <1>3, DeliverInductive

\* A command of the user.
LEMMA UserInductive ==
    ASSUME Inductive, NEW command \in scenario.commands, User(command)
    PROVE  Inductive'
<1> DEFINE e == [kind |-> "user", command |-> command]
<1>1. command \in CommandKinds
  BY VoipAssumption DEF Inductive, TypeOK, ScenarioKinds
<1>2. e \in Events /\ e.kind # "call_result"
  BY <1>1 DEF Events, UserEvents
<1>3. /\ PlatformFrame /\ m' = m /\ PlatformEvent(e)
      /\ online' \in BOOLEAN /\ announced' \in BOOLEAN
  BY DEF User, PlatformEvent, Inductive, TypeOK
<1> HIDE DEF e
<1>4. QED
  BY <1>2, <1>3, DeliverInductive

\* The platform's half keeps its types.
LEMMA RequestsType ==
    ASSUME NEW s \in Machine, NEW e \in SomeOperations, NEW f \in SomeFetches
    PROVE  /\ [s EXCEPT !.expired = e] \in Machine
           /\ [s EXCEPT !.fetches = f, !.expired = e] \in Machine
           /\ [s EXCEPT !.callRequest = 0, !.expired = e] \in Machine
<1>1. 0 \in Generations
  BY NoHandle
<1>2. [s EXCEPT !.expired = e] \in Machine
  BY ZenonT(150) DEF Machine
<1>3. [s EXCEPT !.fetches = f, !.expired = e] \in Machine
  BY ZenonT(150) DEF Machine
<1>4. [s EXCEPT !.callRequest = 0, !.expired = e] \in Machine
  BY <1>1, ZenonT(150) DEF Machine
<1>5. QED
  BY <1>2, <1>3, <1>4

\* Steps that change what the platform has to answer, the call request aside.
LEMMA AnswerInductive ==
    ASSUME Inductive, PlatformFrame, m' \in Machine, Same(m, m'),
           NEW e \in Events, e.kind # "call_result",
           PlatformEvent(e), online' \in BOOLEAN, announced' \in BOOLEAN
    PROVE  Inductive'
<1>1. /\ queue \in Seq(Events) /\ Len(queue) <= QueueCap /\ eventFailure \in BOOLEAN
      /\ m \in Machine /\ Settled(m) /\ CallInFlight(m, queue)
  BY DEF Inductive, TypeOK, Events
<1>2. /\ queue' \in Seq(Events) /\ Len(queue') <= QueueCap /\ eventFailure' \in BOOLEAN
      /\ queue' \in {queue, Append(queue, e)}
  BY <1>1, DeliverType
<1>3. Settled(m') /\ Keeps(m, m')
  BY <1>1, SameFine
<1>4. CallInFlight(m', queue')
  <2>1. CallInFlight(m', queue)
    BY <1>1, <1>3, CallKept DEF Keeps
  <2>2. CallInFlight(m', Append(queue, e))
    BY <1>1, <2>1, CallOther
  <2>3. QED
    BY <1>2, <2>1, <2>2
<1>5. QED
  BY <1>2, <1>3, <1>4, PlatformInductive DEF Keeps

\* offline(): a new epoch outdates requests and disturbs no call.
LEMMA NewEpochFine ==
    ASSUME m \in Machine, NewEpoch
    PROVE  m' \in Machine /\ Same(m, m')
<1> DEFINE e == m.fetches \cup (IF m.callRequest # 0 THEN {"call"} ELSE {})
<1>1. e \in SomeOperations
  BY DEF Machine, SomeOperations, SomeFetches, Operations
<1> HIDE DEF e
<1>2. m' = [m EXCEPT !.expired = e]
  BY DEF NewEpoch, e
<1>3. m' \in Machine
  <2>1. m.fetches \in SomeFetches
    BY DEF Machine
  <2>2. QED
    BY <1>1, <1>2, <2>1, RequestsType
<1>4. Same(m, m')
  BY <1>2 DEF Same, Machine
<1>5. QED
  BY <1>3, <1>4

\* The MQTT session goes down.
LEMMA LinkDownInductive ==
    ASSUME Inductive, LinkDown
    PROVE  Inductive'
<1> DEFINE e == [kind |-> "offline"]
<1>1. e \in Events /\ e.kind # "call_result"
  BY DEF Events, PlatformEvents
<1>2. /\ PlatformFrame /\ NewEpoch /\ PlatformEvent(e)
      /\ online' \in BOOLEAN /\ announced' \in BOOLEAN /\ m \in Machine
  BY DEF LinkDown, Inductive, TypeOK
<1> HIDE DEF e
<1>3. QED
  BY <1>1, <1>2, NewEpochFine, AnswerInductive

\* The device is unbound.
LEMMA UnbindInductive ==
    ASSUME Inductive, Unbind
    PROVE  Inductive'
<1> DEFINE e == [kind |-> "unbound"]
<1>1. e \in Events /\ e.kind # "call_result"
  BY DEF Events, PlatformEvents
<1>2. /\ PlatformFrame /\ NewEpoch /\ PlatformEvent(e)
      /\ online' \in BOOLEAN /\ announced' \in BOOLEAN /\ m \in Machine
  BY DEF Unbind, Inductive, TypeOK
<1> HIDE DEF e
<1>3. QED
  BY <1>1, <1>2, NewEpochFine, AnswerInductive

\* process_request() of a profile or a contact list.
LEMMA RespondFetchInductive ==
    ASSUME Inductive, NEW op \in Fetches, NEW ok \in BOOLEAN, RespondFetch(op, ok)
    PROVE  Inductive'
<1> DEFINE e == [kind |-> op, ok |-> ok]
           f == m.fetches \ {op}
           x == m.expired \ {op}
<1>1. e \in Events /\ e.kind # "call_result"
  BY DEF Events, PlatformEvents, Fetches
<1>2. /\ PlatformFrame /\ PlatformEvent(e) /\ m' = [m EXCEPT !.fetches = f, !.expired = x]
      /\ online' \in BOOLEAN /\ announced' \in BOOLEAN /\ m \in Machine
  BY DEF RespondFetch, Inductive, TypeOK
<1>3. f \in SomeFetches /\ x \in SomeOperations
  BY <1>2 DEF Machine, SomeFetches, SomeOperations
<1> HIDE DEF e, f, x
<1>4. m' \in Machine
  BY <1>2, <1>3, RequestsType
<1>5. Same(m, m')
  BY <1>2 DEF Same, Machine
<1>6. QED
  BY <1>1, <1>2, <1>4, <1>5, AnswerInductive

\* process_request() of a call: its response is the only one.
LEMMA RespondCallInductive ==
    ASSUME Inductive, NEW result \in {"ok", "error", "oversized"}, NEW id \in IdOrNone,
           RespondCall(result, id)
    PROVE  Inductive'
<1> DEFINE e == [kind |-> "call_result", gen |-> m.callRequest, result |-> result, id |-> id]
           x == m.expired \ {"call"}
<1>1. /\ queue \in Seq(Events) /\ Len(queue) <= QueueCap /\ eventFailure \in BOOLEAN
      /\ m \in Machine /\ Settled(m) /\ CallInFlight(m, queue)
      /\ online' \in BOOLEAN /\ announced' \in BOOLEAN
  BY DEF Inductive, TypeOK, Events, RespondCall
<1>2. /\ m.callRequest # 0 /\ PlatformEvent(e) /\ PlatformFrame
      /\ m' = [m EXCEPT !.callRequest = 0, !.expired = x]
  BY DEF RespondCall
<1>3. e \in Events /\ e.gen = m.callRequest
  BY <1>1 DEF Events, PlatformEvents, Machine, IdOrNone
<1>4. m.callPending /\ m.callRequest = m.generation
  BY <1>1, <1>2 DEF Settled, Asked
<1> HIDE DEF e
<1>5. m' \in Machine
  <2>1. x \in SomeOperations
    BY <1>1 DEF Machine, SomeOperations
  <2> HIDE DEF x
  <2>2. QED
    <3>1. m \in Machine /\ m' = [m EXCEPT !.callRequest = 0, !.expired = x]
      BY <1>1, <1>2
    <3>2. m.fetches \in SomeFetches
      BY <1>1 DEF Machine
    <3>3. QED
      BY <2>1, <3>1, <3>2, RequestsType
<1> HIDE DEF x
<1>6. /\ Settled(m') /\ KeepsWhip(m, m') /\ KeepsStop(m, m')
      /\ m'.callPending /\ m'.callRequest = 0 /\ m'.generation = m.generation
  BY <1>1, <1>2, <1>4, SMTT(60) DEF Machine, Settled, Staged, Clean,
       Unfinished, Connected, Asked, Powered, Retreats, Keeps, KeepsWhip,
       KeepsStop, KeepsCall
<1>7. \A i \in 1 .. Len(queue) : queue[i].kind # "call_result"
  BY <1>1, <1>2 DEF CallInFlight
<1>8. /\ queue' \in Seq(Events) /\ Len(queue') <= QueueCap /\ eventFailure' \in BOOLEAN
      /\ queue' \in {queue, Append(queue, e)}
  BY <1>1, <1>2, <1>3, DeliverType
<1>9. CallInFlight(m', queue')
  <2>1. CallInFlight(m', queue)
    BY <1>7 DEF CallInFlight
  <2>2. CallInFlight(m', Append(queue, e))
    BY <1>1, <1>3, <1>4, <1>6, <1>7, CallAnswered
  <2>3. QED
    BY <1>8, <2>1, <2>2
<1>10. QED
  BY <1>1, <1>2, <1>5, <1>6, <1>8, <1>9, PlatformInductive

-----------------------------------------------------------------------------

\* Nothing happens.
LEMMA StutterInductive ==
    ASSUME Inductive, UNCHANGED vars
    PROVE  Inductive'
BY DEF Inductive, TypeOK, vars

\* Every step keeps the invariant: one step per action.
LEMMA NextInductive ==
    ASSUME Inductive, [Next]_vars
    PROVE  Inductive'
<1>1. CASE Task
  BY <1>1, TakeRtcInductive, TakeEventInductive, NoEventInductive, RunTailInductive DEF Task
<1>2. CASE Sdk
  BY <1>2, SdkStartedInductive, SdkConnectedInductive, SdkSignalInductive,
     SdkClosedInductive, SdkStoppedInductive, SdkAcceptedInductive DEF Sdk
<1>3. CASE Platform
  <2>1. None \in IdOrNone /\ \A id \in CallIds : id \in IdOrNone
    BY DEF IdOrNone
  <2>2. CASE LinkUp \/ NetworkDown \/ NoticeDown
    BY <2>2, LinkInductive
  <2>3. CASE AnnounceOnline \/ LinkDown \/ Unbind
    BY <2>3, AnnounceInductive, LinkDownInductive, UnbindInductive
  <2>4. CASE \E op \in Fetches, ok \in BOOLEAN : RespondFetch(op, ok)
    BY <2>4, RespondFetchInductive
  <2>5. CASE \E id \in CallIds : RespondCall("ok", id)
    BY <2>1, <2>5, RespondCallInductive
  <2>6. CASE \E result \in {"error", "oversized"} : RespondCall(result, None)
    BY <2>1, <2>6, RespondCallInductive
  <2>7. CASE \E e \in scenario.messages : Message(e)
    BY <2>7, MessageInductive
  <2>8. QED
    BY <1>3, <2>2, <2>3, <2>4, <2>5, <2>6, <2>7 DEF Platform
<1>4. CASE \E command \in scenario.commands : User(command)
  BY <1>4, UserInductive
<1>5. CASE UNCHANGED vars
  BY <1>5, StutterInductive
<1>6. QED
  BY <1>1, <1>2, <1>3, <1>4, <1>5 DEF Next

\* Every reachable state is settled, and every result on its way is expected:
\* no event of an earlier call can reach a later one (rtc_dispatch(), http_result()).
THEOREM AlwaysInductive == Spec => []Inductive
<1>1. Inductive /\ [Next]_vars => Inductive'
  BY NextInductive
<1>2. QED
  BY <1>1, InitInductive, PTL DEF Spec

\* Every variable holds what the code's types allow, in every reachable state.
THEOREM TypeCorrect == Spec => []TypeOK
<1>1. Inductive => TypeOK
  BY DEF Inductive
<1>2. QED
  BY <1>1, AlwaysInductive, PTL

\* Between calls nothing of a call is left, whichever way it ended (finish()).
THEOREM CleanBetweenCalls == Spec => []IdleClean
<1>1. Inductive => IdleClean
  BY DEF Inductive, Settled, Staged, Clean, IdleClean
<1>2. QED
  BY <1>1, AlwaysInductive, PTL

\* The microphone is on the line only while the call is active, on its own
\* connection (sample_audio_begin(), sample_audio_end()).
THEOREM AudioWithTheCall == Spec => []AudioOnlyActive
<1>1. Inductive => AudioOnlyActive
  BY DEF Inductive, Settled, Connected, AudioOnlyActive
<1>2. QED
  BY <1>1, AlwaysInductive, PTL

\* The memory rtc_connect() hands to the SDK is held while the WHIP is in
\* flight (rtc_adapter.c: s_peer, s_token).
THEOREM InputsOutliveTheWhip == Spec => []InputsHeld
<1>1. Inductive => InputsHeld
  BY DEF Inductive, Settled, Asked, InputsHeld
<1>2. QED
  BY <1>1, AlwaysInductive, PTL

\* A connection is taken down with a HANGUP exactly when the end was local
\* (end_call(), RTC_CONNECTED).
THEOREM HangupWhereDue == Spec => []HangupTold
<1>1. Inductive => HangupTold
  BY DEF Inductive, Settled, Connected, HangupTold
<1>2. QED
  BY <1>1, AlwaysInductive, PTL

\* No stage that waits for somebody else is without a deadline (s_deadline).
THEOREM NoWaitWithoutEnd == Spec => []WaitHasDeadline
<1>1. Inductive => WaitHasDeadline
  BY DEF Inductive, Settled, Staged, WaitHasDeadline
<1>2. QED
  BY <1>1, AlwaysInductive, PTL
=============================================================================
