------------------------- MODULE VoipHistory_proofs -------------------------
(***************************************************************************)
(* The control task against its past, for all values of the constants, in  *)
(* any scenario: no room of one of the last ClosedSlots calls is taken     *)
(* again, and nothing that was revoked comes back.                         *)
(*                                                                         *)
(* HistoryInv holds initially and is kept by every step, given Inductive   *)
(* (VoipControl_proofs).  A handler does one of four things to the call    *)
(* (CallStep), and one that takes no answer to a fetch waits on for what   *)
(* is on its way and forgets no mark (Asks).  The sections: the handlers   *)
(* of dispatch(), those of rtc_dispatch() and of the loop's tail, the      *)
(* queue of answers, the slots of finish(), one lemma per action, and the  *)
(* theorems.                                                               *)
(***************************************************************************)
EXTENDS VoipHistory, VoipControl_proofs

-----------------------------------------------------------------------------
\* What a handler does to the call and to the fetches.

\* t waits for op as s does, and remembers its mark, or has newly asked for it.
Asks(s, t, op) ==
    \/ /\ Pending(t, op) <=> Pending(s, op)
       /\ op \in t.fetches <=> op \in s.fetches
       /\ Dirty(s, op) => Dirty(t, op)
    \/ ~Pending(s, op) /\ Pending(t, op) /\ op \in t.fetches

\* t relies on no data that s does not.
Trusts(s, t) == (t.contacts => s.contacts) /\ (t.profileReady => s.profileReady)

Discreet(s, t) == Trusts(s, t) /\ \A op \in Fetches : Asks(s, t, op)

\* The same slots, the same room, and no call begun or over.
SameCall(s, t) ==
    /\ t.room = s.room
    /\ t.closed = s.closed /\ t.closedIndex = s.closedIndex
    /\ t.stage = "idle" <=> s.stage = "idle"
    /\ t.stage = "dialing" => s.stage = "dialing"

\* The call of s is over in t, its room in a slot if it had one.
Over(s, t) ==
    /\ s.stage # "idle" /\ t.stage = "idle" /\ t.room = None
    /\ \/ s.room = None /\ t.closed = s.closed /\ t.closedIndex = s.closedIndex
       \/ /\ t.closedIndex = NextSlot(s.closedIndex)
          /\ \A i \in Slots \ {s.closedIndex} : t.closed[i] = s.closed[i]
          /\ s.room # None => t.closed[s.closedIndex].room = s.room

Ordinary(s, t) == Discreet(s, t) /\ (SameCall(s, t) \/ Over(s, t))

\* An idle record has no name that finish() would remember.
Tidy(s) == s.stage = "idle" => s.room = None /\ s.callId = None

\* A settled record is tidy.
LEMMA SettledTidy == ASSUME NEW s, Settled(s) PROVE Tidy(s)
BY DEF Settled, Staged, Clean, Tidy

\* A record that has not changed is as ordinary as can be.
LEMMA OrdinarySelf == ASSUME NEW s PROVE Ordinary(s, s)
BY DEF Ordinary, Discreet, Trusts, Asks, SameCall

\* One handler after another: the flags and the fetches,
LEMMA DiscreetTransitive ==
    ASSUME NEW s, NEW t, NEW u, Discreet(s, t), Discreet(t, u)
    PROVE  Discreet(s, u)
<1>1. Trusts(s, u)
  BY DEF Discreet, Trusts
<1>2. ASSUME NEW op \in Fetches PROVE Asks(s, u, op)
  <2>1. Asks(s, t, op) /\ Asks(t, u, op)
    BY DEF Discreet
  <2>2. QED
    BY <2>1 DEF Asks
<1>3. QED
  BY <1>1, <1>2 DEF Discreet

\* and the call as well.
LEMMA OrdinaryTransitive ==
    ASSUME NEW s, NEW t, NEW u, Ordinary(s, t), Ordinary(t, u)
    PROVE  Ordinary(s, u)
<1>1. Discreet(s, u)
  BY DiscreetTransitive DEF Ordinary
<1>2. SameCall(s, u) \/ Over(s, u)
  BY DEF Ordinary, SameCall, Over
<1>3. QED
  BY <1>1, <1>2 DEF Ordinary

\* t differs from s in nothing that is spoken of here.
Untouched(s, t) ==
    /\ t.stage = s.stage /\ t.room = s.room
    /\ t.closed = s.closed /\ t.closedIndex = s.closedIndex
    /\ t.contacts = s.contacts /\ t.profileReady = s.profileReady
    /\ t.contactsPending = s.contactsPending /\ t.profilePending = s.profilePending
    /\ t.contactsDirty = s.contactsDirty /\ t.profileDirty = s.profileDirty
    /\ t.fetches = s.fetches

LEMMA UntouchedOrdinary == ASSUME NEW s, NEW t, Untouched(s, t) PROVE Ordinary(s, t)
BY DEF Untouched, Ordinary, Discreet, Trusts, Asks, Pending, Dirty, SameCall

\* request_profile(), request_contacts() and refresh_deferred_metadata().
LEMMA RequestsOrdinary ==
    ASSUME NEW s \in Machine, NEW r
    PROVE  /\ Ordinary(s, RequestProfile(s, r))
           /\ Ordinary(s, RequestContacts(s, r))
           /\ Ordinary(s, RefreshDeferredMetadata(s, r))
<1>1. Ordinary(s, RequestProfile(s, r))
  BY SMTT(30) DEF RequestProfile, Awaiting, Ordinary, Discreet, Trusts, Asks,
     Pending, Dirty, Fetches, SameCall, Machine
<1>2. Ordinary(s, RequestContacts(s, r))
  BY SMTT(30) DEF RequestContacts, Awaiting, Ordinary, Discreet, Trusts, Asks,
     Pending, Dirty, Fetches, SameCall, Machine
<1>3. RefreshDeferredMetadata(s, r) \in {s, RequestProfile(s, r), RequestContacts(s, r)}
  BY DEF RefreshDeferredMetadata
<1>4. QED
  BY <1>1, <1>2, <1>3, OrdinarySelf

\* start_sdk().
LEMMA StartSdkOrdinary ==
    ASSUME NEW s \in Machine, NEW r
    PROVE  Ordinary(s, StartSdk(s, r))
<1>1. Untouched(s, StartSdk(s, r))
  BY SMTT(30) DEF StartSdk, Untouched, Machine
<1>2. QED
  BY <1>1, UntouchedOrdinary

\* finish() files the name of the call, or leaves everything where it is.
LEMMA FinishOrdinary ==
    ASSUME NEW s \in Machine, Tidy(s), NEW r
    PROVE  Ordinary(s, Finish(s, r))
<1>1. CASE Unfinished(s)
  BY <1>1, OrdinarySelf DEF Finish
<1>2. CASE ~Unfinished(s)
  <2> DEFINE t == Remember(s)
             c == Cleared(t)
  <2>1. t \in Machine
    BY RememberFine
  <2>2. c \in Machine
    BY <2>1, ClearedType
  <2>3. Finish(s, r) = RefreshDeferredMetadata(c, r)
    BY <1>2 DEF Finish
  <2>4. /\ t.contacts = s.contacts /\ t.profileReady = s.profileReady
        /\ t.contactsPending = s.contactsPending /\ t.profilePending = s.profilePending
        /\ t.contactsDirty = s.contactsDirty /\ t.profileDirty = s.profileDirty
        /\ t.fetches = s.fetches
    BY SMTT(30) DEF Remember, Machine
  <2>5. \/ s.room = None /\ t.closed = s.closed /\ t.closedIndex = s.closedIndex
        \/ /\ s.stage # "idle"
           /\ t.closedIndex = NextSlot(s.closedIndex)
           /\ \A i \in Slots \ {s.closedIndex} : t.closed[i] = s.closed[i]
           /\ t.closed[s.closedIndex].room = s.room
    BY SMTT(30) DEF Remember, Remembered, Tidy, Machine, ClosedCalls
  <2> HIDE DEF t
  <2>6. /\ c.stage = "idle" /\ c.room = None
        /\ c.closed = t.closed /\ c.closedIndex = t.closedIndex
        /\ c.contacts = t.contacts /\ c.profileReady = t.profileReady
        /\ c.contactsPending = t.contactsPending /\ c.profilePending = t.profilePending
        /\ c.contactsDirty = t.contactsDirty /\ c.profileDirty = t.profileDirty
        /\ c.fetches = t.fetches
    BY <2>1, SMTT(30) DEF Cleared, CallFinish, Machine
  <2> HIDE DEF c
  <2>7. Discreet(s, c)
    BY <2>4, <2>6 DEF Discreet, Trusts, Asks, Pending, Dirty
  <2>8. SameCall(s, c) \/ Over(s, c)
    BY <2>5, <2>6 DEF SameCall, Over
  <2>9. Ordinary(c, Finish(s, r))
    BY <2>2, <2>3, RequestsOrdinary
  <2>10. QED
    BY <2>7, <2>8, <2>9, OrdinaryTransitive DEF Ordinary
<1>3. QED
  BY <1>1, <1>2

\* end_call(), in any stage.
LEMMA EndCallOrdinary ==
    ASSUME NEW s \in Machine, NEW notify \in BOOLEAN, NEW r
    PROVE  Ordinary(s, EndCall(s, notify, r))
<1>1. CASE s.stage \in {"idle", "closing"}
  BY <1>1, OrdinarySelf DEF EndCall
<1>2. CASE s.stage \notin {"idle", "closing"}
  <2> DEFINE c == Closed(s, notify)
  <2>1. c \in Machine
    BY ClosedType
  <2>2. Ordinary(s, c) /\ Tidy(c)
    BY <1>2, SMTT(30) DEF Closed, CallClose, Ordinary, Discreet, Trusts, Asks,
       Pending, Dirty, SameCall, Tidy, Machine
  <2>3. EndCall(s, notify, r) \in {c, Finish(c, r)}
    BY <1>2 DEF EndCall
  <2> HIDE DEF c
  <2>4. Ordinary(c, Finish(c, r))
    BY <2>1, <2>2, FinishOrdinary
  <2>5. QED
    BY <2>2, <2>3, <2>4, OrdinaryTransitive
<1>3. QED
  BY <1>1, <1>2

\* A call without a name leaves no trace in the slots.
LEMMA NamelessEnds ==
    ASSUME NEW s \in Machine, s.stage # "idle", s.room = None, s.callId = None,
           NEW notify \in BOOLEAN, NEW r
    PROVE  /\ EndCall(s, notify, r).closed = s.closed
           /\ EndCall(s, notify, r).closedIndex = s.closedIndex
           /\ EndCall(s, notify, r).room = None
<1> DEFINE c == Closed(s, notify)
           k == Cleared(c)
<1>1. c \in Machine
  BY ClosedType
<1>2. /\ c.room = None /\ c.callId = None
      /\ c.closed = s.closed /\ c.closedIndex = s.closedIndex
  BY SMTT(30) DEF Closed, CallClose, Machine
<1>3. EndCall(s, notify, r) \in {s, c, Finish(c, r)}
  BY DEF EndCall
<1> HIDE DEF c
<1>4. k \in Machine
  BY <1>1, ClearedType
<1>5. k.room = None /\ k.closed = c.closed /\ k.closedIndex = c.closedIndex
  BY <1>1, SMTT(30) DEF Cleared, CallFinish, Machine
<1>6. k.stage = "idle"
  BY <1>1, SMTT(30) DEF Cleared, CallFinish, Machine
<1>7. Finish(c, r) \in {c, RefreshDeferredMetadata(k, r)}
  BY <1>2 DEF Finish, Remember
<1> HIDE DEF k
<1>8. SameCall(k, RefreshDeferredMetadata(k, r))
  BY <1>4, <1>6, RequestsOrdinary DEF Ordinary, Over
<1>9. QED
  BY <1>2, <1>3, <1>5, <1>7, <1>8 DEF SameCall

\* connect_room(), accepted or refused, on a call.
LEMMA ConnectRoomOrdinary ==
    ASSUME NEW s \in Machine, NEW r
    PROVE  Ordinary(s, ConnectRoom(s, r))
<1> DEFINE c == [s EXCEPT !.connectPending = TRUE, !.deadline = TRUE]
           t == [c EXCEPT !.inputs = TRUE, !.whip = s.generation]
           u == [c EXCEPT !.connectPending = FALSE]
<1>1. c \in Machine
  BY ZenonT(150) DEF Machine
<1> HIDE DEF c
<1>2. u \in Machine
  BY <1>1, ZenonT(150) DEF Machine
<1> USE DEF c
<1>3. Untouched(s, t) /\ Untouched(s, u)
  BY SMTT(30) DEF Untouched, Machine
<1>4. ConnectRoom(s, r) \in {t, EndCall(u, TRUE, r)}
  BY DEF ConnectRoom
<1> HIDE DEF t, u
<1>5. Ordinary(s, t) /\ Ordinary(s, u) /\ Ordinary(u, EndCall(u, TRUE, r))
  BY <1>2, <1>3, UntouchedOrdinary, EndCallOrdinary
<1>6. QED
  BY <1>4, <1>5, OrdinaryTransitive

-----------------------------------------------------------------------------
\* The handlers of dispatch().

\* A room that none of the slots has.
Unknown(s, room) == \A i \in Slots : s.closed[i].room # room

SameSlots(s, t) == t.closed = s.closed /\ t.closedIndex = s.closedIndex

\* A call begins: it rings in an unknown room, or is dialled and has none yet.
Starts(s, t) ==
    /\ s.stage = "idle" /\ t.stage # "idle" /\ SameSlots(s, t)
    /\ t.stage = "dialing" => t.room = None
    /\ t.room # None => Unknown(s, t.room)

\* The room of a call that has been dialled is there.
Joins(s, t) ==
    /\ s.stage # "idle" /\ t.stage \notin {"idle", "dialing"} /\ SameSlots(s, t)
    /\ t.room \notin {None, s.room} /\ Unknown(s, t.room)

CallStep(s, t) == SameCall(s, t) \/ Over(s, t) \/ Starts(s, t) \/ Joins(s, t)

\* dial().
LEMMA DialPast ==
    ASSUME NEW s \in Machine, Settled(s), NEW r
    PROVE  Discreet(s, Dial(s, r)) /\ CallStep(s, Dial(s, r))
<1> DEFINE b == CallBegin(s, TRUE)
           c == [b EXCEPT !.deadline = TRUE]
           d == [c EXCEPT !.callPending = TRUE, !.callRequest = c.generation]
           f == EndCall(c, FALSE, r)
<1>1. CASE ~Ready(s) \/ s.stage # "idle" \/ ~s.contacts
  BY <1>1, OrdinarySelf DEF Dial, Ordinary, CallStep
<1>2. CASE ~(~Ready(s) \/ s.stage # "idle" \/ ~s.contacts)
  <2>1. b \in Machine
    BY CallBeginType
  <2>2. /\ b.stage = "dialing" /\ b.room = s.room /\ b.callId = s.callId
        /\ SameSlots(s, b) /\ Discreet(s, b)
    BY <1>2, SMTT(30) DEF CallBegin, SameSlots, Discreet, Trusts, Asks, Pending, Dirty, Machine
  <2> HIDE DEF b
  <2>3. c \in Machine
    BY <2>1, ZenonT(150) DEF Machine
  <2>4. c.stage = b.stage /\ c.room = b.room /\ c.callId = b.callId /\ Untouched(b, c)
    BY <2>1, SMTT(30) DEF Untouched, Machine
  <2>5. Dial(s, r) \in {d, f}
    BY <1>2 DEF Dial, b, c
  <2> HIDE DEF c
  <2>6. Untouched(c, d)
    BY <2>3, SMTT(30) DEF Untouched, Machine
  <2>7. s.room = None /\ s.callId = None
    BY <1>2, SettledTidy DEF Tidy
  <2> HIDE DEF d
  <2>8. Starts(s, d)
    BY <1>2, <2>2, <2>4, <2>6, <2>7 DEF Untouched, Starts, SameSlots
  <2>9. f.closed = c.closed /\ f.closedIndex = c.closedIndex /\ f.room = None
    BY <2>2, <2>3, <2>4, <2>7, NamelessEnds
  <2>10. f.stage \in {"idle", "closing"}
    BY <2>3, EndCallStage
  <2>11. Ordinary(c, f)
    BY <2>3, EndCallOrdinary
  <2> HIDE DEF f
  <2>12. SameCall(s, f) \/ Starts(s, f)
    BY <1>2, <2>2, <2>4, <2>7, <2>9, <2>10 DEF Untouched, SameCall, Starts, SameSlots
  <2>13. Discreet(s, d) /\ Discreet(s, f)
    <3>1. Discreet(s, c)
      BY <2>2, <2>4, UntouchedOrdinary, DiscreetTransitive DEF Ordinary
    <3>2. Discreet(c, d) /\ Discreet(c, f)
      BY <2>6, <2>11, UntouchedOrdinary DEF Ordinary
    <3>3. QED
      BY <3>1, <3>2, DiscreetTransitive
  <2>14. QED
    BY <2>5, <2>8, <2>12, <2>13 DEF CallStep
<1>3. QED
  BY <1>1, <1>2

\* answer_incoming().
LEMMA AnswerIncomingOrdinary ==
    ASSUME NEW s \in Machine, NEW r
    PROVE  Ordinary(s, AnswerIncoming(s, r))
<1> DEFINE c == [s EXCEPT !.stage = "connecting"]
<1>1. CASE ~(Ready(s) /\ s.stage = "ringing")
  BY <1>1, OrdinarySelf DEF AnswerIncoming
<1>2. CASE Ready(s) /\ s.stage = "ringing"
  <2>1. "connecting" \in Stages
    BY DEF Stages
  <2>2. c \in Machine
    BY <2>1, ZenonT(150) DEF Machine
  <2>3. Ordinary(s, c)
    BY <1>2, SMTT(30) DEF Ordinary, Discreet, Trusts, Asks, Pending, Dirty, SameCall, Machine
  <2>4. AnswerIncoming(s, r) = ConnectRoom(c, r)
    BY <1>2 DEF AnswerIncoming, CallAccept
  <2> HIDE DEF c
  <2>5. QED
    BY <2>2, <2>3, <2>4, ConnectRoomOrdinary, OrdinaryTransitive
<1>3. QED
  BY <1>1, <1>2

\* incoming(): whatever room it takes, no slot has it.
LEMMA IncomingPast ==
    ASSUME NEW s \in Machine, Settled(s), s.stage = "dialing" => s.room = None,
           NEW v \in Payloads, NEW r
    PROVE  Discreet(s, Incoming(s, v, r)) /\ CallStep(s, Incoming(s, v, r))
<1> DEFINE j == CallJoinOutgoing(s)
           id == IF v.id # None THEN v.id ELSE j.callId
           o == [j EXCEPT !.payload = TRUE, !.room = v.room, !.callId = id]
           b == CallBegin(s, FALSE)
           n == [b EXCEPT !.payload = TRUE, !.room = v.room, !.deadline = TRUE]
           t == ConnectRoom(o, r)
<1>1. v.room \in RoomOrNone /\ v.id \in IdOrNone /\ v.room # None
  BY VoipAssumption DEF Payloads, RoomOrNone, IdOrNone
<1>2. ~IgnoredInvite(s, v) => Unknown(s, v.room) /\ v.room # s.room
  BY DEF IgnoredInvite, Unknown
<1>3. CASE ~(IgnoredInvite(s, v) \/ ~Ready(s) \/ ~v.voice) /\ Route(s, v) = "outbound"
  <2>1. s.stage = "dialing" /\ s.outgoing
    BY <1>3 DEF Route, VoipRouteRoom, Settled, Staged
  <2>2. j \in Machine
    <3>1. "connecting" \in Stages
      BY DEF Stages
    <3>2. [s EXCEPT !.stage = "connecting"] \in Machine
      BY <3>1, ZenonT(150) DEF Machine
    <3>3. QED
      BY <3>2 DEF CallJoinOutgoing
  <2>3. id \in IdOrNone
    BY <1>1, <2>2 DEF Machine
  <2>4. Incoming(s, v, r) = t
    BY <1>3 DEF Incoming
  <2> HIDE DEF j, id
  <2>5. o \in Machine
    BY <1>1, <2>2, <2>3, ZenonT(150) DEF Machine
  <2> USE DEF j
  <2>6. o.stage = "connecting" /\ o.room = v.room /\ SameSlots(s, o) /\ Discreet(s, o)
    BY <2>1, SMTT(30) DEF CallJoinOutgoing, SameSlots, Discreet, Trusts, Asks,
       Pending, Dirty, Machine
  <2> HIDE DEF o
  <2>7. Ordinary(o, t)
    BY <2>5, ConnectRoomOrdinary
  <2> HIDE DEF t
  <2>8. SameCall(o, t) => Joins(s, t)
    BY <1>1, <1>2, <1>3, <2>1, <2>6 DEF SameCall, Joins, SameSlots
  <2>9. Over(o, t) => Over(s, t)
    BY <2>1, <2>6 DEF Over, SameSlots
  <2>10. Discreet(s, t)
    BY <2>6, <2>7, DiscreetTransitive DEF Ordinary
  <2>11. QED
    BY <2>4, <2>7, <2>8, <2>9, <2>10 DEF Ordinary, CallStep
<1>4. CASE /\ ~(IgnoredInvite(s, v) \/ ~Ready(s) \/ ~v.voice)
           /\ Route(s, v) # "outbound" /\ Route(s, v) = "inbound" /\ s.stage = "idle"
  <2>1. Incoming(s, v, r) = n
    BY <1>4 DEF Incoming
  <2>2. n.stage = "ringing" /\ n.room = v.room /\ SameSlots(s, n) /\ Discreet(s, n)
    BY <1>4, SMTT(30) DEF CallBegin, SameSlots, Discreet, Trusts, Asks,
       Pending, Dirty, Machine
  <2> HIDE DEF n
  <2>3. Starts(s, n)
    BY <1>2, <1>4, <2>2 DEF Starts
  <2>4. QED
    BY <2>1, <2>2, <2>3 DEF CallStep
<1>5. CASE \/ IgnoredInvite(s, v) \/ ~Ready(s) \/ ~v.voice
           \/ Route(s, v) # "outbound" /\ ~(Route(s, v) = "inbound" /\ s.stage = "idle")
  <2>1. Incoming(s, v, r) = s
    BY <1>5 DEF Incoming
  <2>2. QED
    BY <2>1, OrdinarySelf DEF Ordinary, CallStep
<1>6. QED
  BY <1>3, <1>4, <1>5

\* The BOOT key.
LEMMA PrimaryActionPast ==
    ASSUME NEW s \in Machine, Settled(s), NEW r
    PROVE  Discreet(s, PrimaryAction(s, r)) /\ CallStep(s, PrimaryAction(s, r))
<1>1. CallPrimaryAction(s.stage) \in {"dial_first", "answer", "hangup", "none"}
  BY DEF CallPrimaryAction
<1>2. /\ Ordinary(s, s) /\ Ordinary(s, RequestContacts(s, r))
      /\ Ordinary(s, EndCall(s, TRUE, r)) /\ Ordinary(s, AnswerIncoming(s, r))
  BY OrdinarySelf, RequestsOrdinary, EndCallOrdinary, AnswerIncomingOrdinary
<1>3. PrimaryAction(s, r) \in {s, RequestContacts(s, r), EndCall(s, TRUE, r),
                               AnswerIncoming(s, r), Dial(s, r)}
  BY <1>1 DEF PrimaryAction
<1>4. QED
  BY <1>2, <1>3, DialPast DEF Ordinary, CallStep

\* The user's commands.
LEMMA UserCommandPast ==
    ASSUME NEW s \in Machine, Settled(s), NEW command \in CommandKinds, NEW r
    PROVE  Discreet(s, UserCommand(s, command, r)) /\ CallStep(s, UserCommand(s, command, r))
<1> DEFINE c == StartSdk(s, r)
           u == [s EXCEPT !.shutdownFailed = FALSE, !.resumeAfterStop = TRUE]
<1>1. c \in Machine
  BY StartSdkFine DEF Fine
<1>2. /\ Ordinary(s, s) /\ Ordinary(s, EndCall(s, TRUE, r))
      /\ Ordinary(s, AnswerIncoming(s, r))
  BY OrdinarySelf, EndCallOrdinary, AnswerIncomingOrdinary
<1>3. Ordinary(s, RequestContacts(c, r)) /\ Ordinary(s, RequestProfile(c, r))
  BY <1>1, StartSdkOrdinary, RequestsOrdinary, OrdinaryTransitive
<1>4. Ordinary(s, u)
  <2>1. Untouched(s, u)
    BY SMTT(30) DEF Untouched, Machine
  <2>2. QED
    BY <2>1, UntouchedOrdinary
<1> HIDE DEF c, u
<1>5. UserCommand(s, command, r) \in
            {s, u, RequestContacts(c, r), RequestProfile(c, r), EndCall(s, TRUE, r),
             AnswerIncoming(s, r), Dial(s, r), PrimaryAction(s, r)}
  BY DEF UserCommand, CommandKinds, c, u
<1>6. QED
  BY <1>2, <1>3, <1>4, <1>5, DialPast, PrimaryActionPast DEF Ordinary, CallStep

\* The answer to op has been dealt with: t has asked again, or waits no more.
Answered(s, t, op) ==
    \/ ~Pending(t, op) /\ (op \in t.fetches => op \in s.fetches)
    \/ Pending(t, op) /\ op \in t.fetches

\* A handler of an event that outdates op: an answer on its way is marked.
Marks(s, t, op) ==
    Pending(t, op) => Dirty(t, op) \/ (~Pending(s, op) /\ op \in t.fetches)

\* An ordinary handler keeps an answer dealt with, and a mark.
LEMMA AnsweredThenOrdinary ==
    ASSUME NEW s, NEW t, NEW u, NEW op \in Fetches, Discreet(t, u)
    PROVE  /\ Answered(s, t, op) /\ (op \in t.fetches => op \in s.fetches)
                => Answered(s, u, op)
           /\ Dirty(t, op) /\ (Pending(t, op) <=> Pending(s, op)) => Marks(s, u, op)
<1>1. Asks(t, u, op)
  BY DEF Discreet
<1>2. QED
  BY <1>1 DEF Asks, Answered, Marks

\* http_result() of a profile.
LEMMA ProfileResultPast ==
    ASSUME NEW s \in Machine, NEW e, NEW r
    PROVE  LET t == ProfileResult(s, e, r) IN
           /\ Answered(s, t, "profile") /\ Asks(s, t, "contacts")
           /\ t.contacts => s.contacts
           /\ t.profileReady /\ ~s.profileReady => ~s.profileDirty
           /\ SameCall(s, t) \/ Over(s, t)
<1> DEFINE c == [s EXCEPT !.profilePending = FALSE]
           d == [c EXCEPT !.profileReady = FALSE]
           g == [c EXCEPT !.profileReady = TRUE]
           p == RequestProfile(d, r)
           q == RequestContacts(g, r)
           t == ProfileResult(s, e, r)
<1>1. c \in Machine
  BY ZenonT(150) DEF Machine
<1> HIDE DEF c
<1>2. d \in Machine /\ g \in Machine
  BY <1>1, ZenonT(150) DEF Machine
<1> USE DEF c
<1>3. /\ SameCall(s, d) /\ SameCall(s, g)
      /\ Asks(s, d, "contacts") /\ Asks(s, g, "contacts")
      /\ ~Pending(d, "profile") /\ ~Pending(g, "profile")
      /\ d.fetches = s.fetches /\ g.fetches = s.fetches
      /\ d.contacts = s.contacts /\ g.contacts = s.contacts /\ ~d.profileReady
  BY SMTT(30) DEF SameCall, Asks, Pending, Dirty, Machine
<1>4. t \in {p, d} \/ (t = q /\ ~s.profileDirty)
  BY DEF ProfileResult
<1> HIDE DEF d, g
<1>5. Ordinary(d, p) /\ Ordinary(g, q)
  BY <1>2, RequestsOrdinary
<1> HIDE DEF p, q, t
<1>6. PICK u \in {d, g} : /\ Discreet(u, t) /\ (SameCall(u, t) \/ Over(u, t))
                          /\ u.profileReady => ~s.profileDirty
  BY <1>3, <1>4, <1>5, OrdinarySelf DEF Ordinary
<1>7. Answered(s, t, "profile")
  BY <1>3, <1>6, AnsweredThenOrdinary DEF Answered, Fetches
<1>8. Asks(s, t, "contacts")
  <2>1. Asks(u, t, "contacts") /\ Asks(s, u, "contacts")
    BY <1>3, <1>6 DEF Discreet, Fetches
  <2>2. QED
    BY <2>1 DEF Asks
<1>9. /\ t.contacts => s.contacts
      /\ t.profileReady /\ ~s.profileReady => ~s.profileDirty
  BY <1>3, <1>6 DEF Discreet, Trusts
<1>10. SameCall(s, t) \/ Over(s, t)
  BY <1>3, <1>6 DEF SameCall, Over
<1>11. QED
  BY <1>7, <1>8, <1>9, <1>10 DEF t

\* http_result() of a list of contacts.
LEMMA ContactsResultPast ==
    ASSUME NEW s \in Machine, NEW e, e.ok \in BOOLEAN, NEW some \in BOOLEAN,
           online \in BOOLEAN, NEW r
    PROVE  LET t == ContactsResult(s, e, some, r) IN
           /\ Answered(s, t, "contacts") /\ Asks(s, t, "profile")
           /\ t.profileReady => s.profileReady
           /\ t.contacts /\ ~s.contacts => ~s.contactsDirty
           /\ SameCall(s, t) \/ Over(s, t)
<1> DEFINE c == [s EXCEPT !.contactsPending = FALSE, !.contacts = FALSE]
           got == e.ok /\ online /\ some
           d == [c EXCEPT !.contacts = got]
           q == RequestContacts(c, r)
           t == ContactsResult(s, e, some, r)
<1>1. c \in Machine
  BY ZenonT(150) DEF Machine
<1>2. t \in {q, c} \/ (t = d /\ ~s.contactsDirty)
  BY DEF ContactsResult
<1> HIDE DEF got
<1>3. /\ SameCall(s, c) /\ SameCall(s, d)
      /\ Asks(s, c, "profile") /\ Asks(s, d, "profile")
      /\ ~Pending(c, "contacts") /\ ~Pending(d, "contacts")
      /\ c.fetches = s.fetches /\ d.fetches = s.fetches
      /\ c.profileReady = s.profileReady /\ d.profileReady = s.profileReady /\ ~c.contacts
  BY SMTT(30) DEF SameCall, Asks, Pending, Dirty, Machine
<1> HIDE DEF c, d
<1>4. Ordinary(c, q)
  BY <1>1, RequestsOrdinary
<1> HIDE DEF q, t
<1>5. PICK u \in {c, d} : /\ Discreet(u, t) /\ (SameCall(u, t) \/ Over(u, t))
                          /\ u.contacts => ~s.contactsDirty
  BY <1>2, <1>3, <1>4, OrdinarySelf DEF Ordinary
<1>6. Answered(s, t, "contacts")
  BY <1>3, <1>5, AnsweredThenOrdinary DEF Answered, Fetches
<1>7. Asks(s, t, "profile")
  <2>1. Asks(u, t, "profile") /\ Asks(s, u, "profile")
    BY <1>3, <1>5 DEF Discreet, Fetches
  <2>2. QED
    BY <2>1 DEF Asks
<1>8. /\ t.profileReady => s.profileReady
      /\ t.contacts /\ ~s.contacts => ~s.contactsDirty
  BY <1>3, <1>5 DEF Discreet, Trusts
<1>9. SameCall(s, t) \/ Over(s, t)
  BY <1>3, <1>5 DEF SameCall, Over
<1>10. QED
  BY <1>6, <1>7, <1>8, <1>9 DEF t

\* http_result() of a call request.
LEMMA CallResultOrdinary ==
    ASSUME NEW s \in Machine, Settled(s), NEW e, e.id \in IdOrNone,
           s.callPending \/ e.gen # s.generation, NEW r
    PROVE  Ordinary(s, CallResult(s, e, r))
<1> DEFINE id == IF e.result = "ok" THEN e.id ELSE s.callId
           c == [s EXCEPT !.callPending = FALSE, !.callId = id]
<1>1. CASE e.gen # s.generation
  BY <1>1, OrdinarySelf DEF CallResult
<1>2. CASE e.gen = s.generation
  <2>1. id \in IdOrNone
    BY DEF Machine
  <2>2. CallResult(s, e, r) \in {c, Finish(c, r), EndCall(c, FALSE, r), EndCall(c, TRUE, r)}
    BY <1>2 DEF CallResult
  <2> HIDE DEF id
  <2>3. c \in Machine
    BY <2>1, ZenonT(150) DEF Machine
  <2>4. Untouched(s, c)
    BY SMTT(30) DEF Untouched, Machine
  <2>5. s.stage # "idle"
    BY <1>2 DEF Settled, Staged, Clean, Unfinished
  <2> HIDE DEF c
  <2>6. Tidy(c)
    BY <2>4, <2>5 DEF Untouched, Tidy
  <2>7. /\ Ordinary(c, Finish(c, r))
        /\ Ordinary(c, EndCall(c, FALSE, r)) /\ Ordinary(c, EndCall(c, TRUE, r))
    BY <2>3, <2>6, FinishOrdinary, EndCallOrdinary
  <2>8. Ordinary(s, c)
    BY <2>4, UntouchedOrdinary
  <2>9. /\ Ordinary(s, Finish(c, r))
        /\ Ordinary(s, EndCall(c, FALSE, r)) /\ Ordinary(s, EndCall(c, TRUE, r))
    BY <2>7, <2>8, OrdinaryTransitive
  <2>10. QED
    BY <2>2, <2>8, <2>9
<1>3. QED
  BY <1>1, <1>2

\* Offline, unbound and callers_update outdate what is on its way, and mark it.
LEMMA RevocationPast ==
    ASSUME NEW s \in Machine, NEW e, e.kind \in {"offline", "unbound", "callers_update"},
           NEW some, NEW r
    PROVE  LET t == Dispatch(s, e, some, r) IN
           /\ Ordinary(s, t) /\ Marks(s, t, "contacts")
           /\ e.kind # "callers_update" => Marks(s, t, "profile")
<1>1. CASE e.kind = "offline"
  <2> DEFINE t == [s EXCEPT !.profileReady = FALSE, !.profileDirty = TRUE,
                            !.contactsDirty = TRUE]
  <2>1. Ordinary(s, t) /\ Marks(s, t, "contacts") /\ Marks(s, t, "profile")
    BY SMTT(30) DEF Ordinary, Discreet, Trusts, Asks, Marks, Pending, Dirty,
       SameCall, Machine
  <2>2. Dispatch(s, e, some, r) = t
    BY <1>1 DEF Dispatch
  <2> HIDE DEF t
  <2>3. QED
    BY <2>1, <2>2
<1>2. CASE e.kind = "unbound"
  <2> DEFINE u == [s EXCEPT !.profileReady = FALSE, !.profileDirty = TRUE,
                            !.contacts = FALSE, !.contactsDirty = TRUE,
                            !.needShutdown = s.sdkInitialized]
             t == EndCall(u, TRUE, r)
  <2>1. s.sdkInitialized \in BOOLEAN
    BY DEF Machine
  <2>2. u \in Machine
    BY <2>1, ZenonT(150) DEF Machine
  <2>3. /\ Ordinary(s, u)
        /\ \A op \in Fetches : Dirty(u, op) /\ (Pending(u, op) <=> Pending(s, op))
    BY SMTT(30) DEF Ordinary, Discreet, Trusts, Asks, Pending, Dirty, SameCall, Machine
  <2>4. Dispatch(s, e, some, r) = t
    BY <1>2 DEF Dispatch
  <2> HIDE DEF u
  <2>5. Ordinary(u, t)
    BY <2>2, EndCallOrdinary
  <2> HIDE DEF t
  <2>6. Marks(s, t, "contacts") /\ Marks(s, t, "profile")
    BY <2>3, <2>5, AnsweredThenOrdinary DEF Ordinary, Fetches
  <2>7. QED
    BY <2>3, <2>4, <2>5, <2>6, OrdinaryTransitive
<1>3. CASE e.kind = "callers_update"
  <2> DEFINE c == [s EXCEPT !.contacts = FALSE]
             t == RequestContacts(c, r)
  <2>1. c \in Machine
    BY ZenonT(150) DEF Machine
  <2>2. Ordinary(s, c)
    BY SMTT(30) DEF Ordinary, Discreet, Trusts, Asks, Pending, Dirty, SameCall, Machine
  <2>3. Dispatch(s, e, some, r) = t
    BY <1>3 DEF Dispatch, CallersUpdate
  <2>4. Marks(s, t, "contacts")
    BY SMTT(30) DEF RequestContacts, Awaiting, Marks, Pending, Dirty, Machine
  <2> HIDE DEF c
  <2>5. Ordinary(c, t)
    BY <2>1, RequestsOrdinary
  <2>6. QED
    BY <1>3, <2>2, <2>3, <2>4, <2>5, OrdinaryTransitive
<1>4. QED
  BY <1>1, <1>2, <1>3

\* The events that outdate what has been asked of the platform.
Revokes(kind, op) ==
    kind \in {"offline", "unbound"} \/ (kind = "callers_update" /\ op = "contacts")

\* The task takes one event of the platform or the user.
LEMMA DispatchPast ==
    ASSUME NEW s \in Machine, Settled(s), s.stage = "dialing" => s.room = None,
           NEW e \in PlatformEvents \cup UserEvents,
           e.kind = "call_result" => s.callPending,
           NEW some \in BOOLEAN, online \in BOOLEAN, NEW r,
           NEW t, t = Dispatch(s, e, some, r)
    PROVE  /\ CallStep(s, t)
           /\ \A op \in Fetches :
                /\ e.kind = op => Answered(s, t, op)
                /\ e.kind # op => Asks(s, t, op)
                /\ Revokes(e.kind, op) => Marks(s, t, op)
           /\ t.contacts /\ ~s.contacts => e.kind = "contacts" /\ ~s.contactsDirty
           /\ t.profileReady /\ ~s.profileReady => e.kind = "profile" /\ ~s.profileDirty
<1> USE DEF Fetches
<1>1. CASE e.kind \in {"offline", "unbound", "callers_update"}
  <2>1. /\ Ordinary(s, t) /\ Marks(s, t, "contacts")
        /\ e.kind # "callers_update" => Marks(s, t, "profile")
    BY <1>1, RevocationPast
  <2>2. QED
    BY <1>1, <2>1 DEF Ordinary, Discreet, Trusts, Revokes, CallStep
<1>2. CASE e.kind = "profile"
  <2>1. t = ProfileResult(s, e, r)
    BY <1>2 DEF Dispatch
  <2>2. /\ Answered(s, t, "profile") /\ Asks(s, t, "contacts")
        /\ t.contacts => s.contacts
        /\ t.profileReady /\ ~s.profileReady => ~s.profileDirty
        /\ SameCall(s, t) \/ Over(s, t)
    BY <2>1, ProfileResultPast
  <2>3. QED
    BY <1>2, <2>2 DEF Revokes, CallStep
<1>3. CASE e.kind = "contacts"
  <2>1. t = ContactsResult(s, e, some, r)
    BY <1>3 DEF Dispatch
  <2>2. e.ok \in BOOLEAN
    BY <1>3 DEF PlatformEvents, UserEvents, MessageEvents
  <2>3. /\ Answered(s, t, "contacts") /\ Asks(s, t, "profile")
        /\ t.profileReady => s.profileReady
        /\ t.contacts /\ ~s.contacts => ~s.contactsDirty
        /\ SameCall(s, t) \/ Over(s, t)
    BY <2>1, <2>2, ContactsResultPast
  <2>4. QED
    BY <1>3, <2>3 DEF Revokes, CallStep
<1>4. CASE e.kind \in {"online", "incoming", "cancel", "call_result", "user"}
  <2>1. Discreet(s, t) /\ CallStep(s, t)
    <3>1. CASE e.kind = "online"
      <4> DEFINE u == [s EXCEPT !.resumeAfterStop = TRUE]
                 c == StartSdk(s, r)
      <4>1. u \in Machine
        BY ZenonT(150) DEF Machine
      <4>2. Untouched(s, u)
        BY SMTT(30) DEF Untouched, Machine
      <4>3. c \in Machine
        BY StartSdkFine DEF Fine
      <4>4. t \in {RequestProfile(u, r), RequestProfile(c, r)}
        BY <3>1 DEF Dispatch
      <4>5. Ordinary(s, u) /\ Ordinary(s, c)
        BY <4>2, UntouchedOrdinary, StartSdkOrdinary
      <4> HIDE DEF u, c
      <4>6. QED
        BY <4>1, <4>3, <4>4, <4>5, RequestsOrdinary, OrdinaryTransitive DEF Ordinary, CallStep
    <3>2. CASE e.kind = "incoming"
      <4>1. e.invite \in Payloads
        BY <3>2 DEF PlatformEvents, UserEvents, MessageEvents
      <4>2. t = Incoming(s, e.invite, r)
        BY <3>2 DEF Dispatch
      <4>3. QED
        BY <4>1, <4>2, IncomingPast
    <3>3. CASE e.kind = "cancel"
      <4>1. t \in {s, EndCall(s, FALSE, r)}
        BY <3>3 DEF Dispatch, CallCancel
      <4>2. QED
        BY <4>1, EndCallOrdinary, OrdinarySelf DEF Ordinary, CallStep
    <3>4. CASE e.kind = "call_result"
      <4>1. e.id \in IdOrNone
        BY <3>4 DEF PlatformEvents, UserEvents, MessageEvents, IdOrNone
      <4>2. t = CallResult(s, e, r)
        BY <3>4 DEF Dispatch
      <4>3. QED
        BY <3>4, <4>1, <4>2, CallResultOrdinary DEF Ordinary, CallStep
    <3>5. CASE e.kind = "user"
      <4>1. e.command \in CommandKinds
        BY <3>5 DEF PlatformEvents, UserEvents, MessageEvents
      <4>2. t = UserCommand(s, e.command, r)
        BY <3>5 DEF Dispatch
      <4>3. QED
        BY <4>1, <4>2, UserCommandPast
    <3>6. QED
      BY <1>4, <3>1, <3>2, <3>3, <3>4, <3>5
  <2>2. QED
    BY <1>4, <2>1 DEF Discreet, Trusts, Revokes
<1>5. e.kind \in {"online", "offline", "unbound", "incoming", "cancel", "callers_update",
                  "profile", "contacts", "call_result", "user"}
  BY DEF PlatformEvents, UserEvents, MessageEvents
<1>6. QED
  BY <1>1, <1>2, <1>3, <1>4, <1>5

-----------------------------------------------------------------------------
\* rtc_dispatch() and the tail of the loop: no call begins and none is joined.

\* finish() keeps the types.
LEMMA FinishType ==
    ASSUME NEW s \in Machine, NEW r
    PROVE  Finish(s, r) \in Machine
<1> DEFINE c == Cleared(Remember(s))
<1>1. c \in Machine
  BY RememberFine, ClearedType
<1> HIDE DEF c
<1>2. RefreshDeferredMetadata(c, r) \in Machine
  BY <1>1, RefreshFine
<1>3. Finish(s, r) \in {s, RefreshDeferredMetadata(c, r)}
  BY DEF Finish, c
<1>4. QED
  BY <1>2, <1>3

\* RTC_STOPPED.
LEMMA RtcStoppedOrdinary ==
    ASSUME NEW s \in Machine, Settled(s), NEW r
    PROVE  Ordinary(s, RtcStopped(s, r))
<1> DEFINE u == [s EXCEPT !.inputs = FALSE, !.sdkInitialized = FALSE, !.sdkReady = FALSE,
                          !.sdkStopping = FALSE, !.connectPending = FALSE,
                          !.connection = 0, !.closing = 0]
           f == Finish(u, r)
           c == [f EXCEPT !.needShutdown = FALSE, !.shutdownFailed = FALSE,
                          !.closeDeadline = FALSE, !.resumeAfterStop = FALSE]
<1>1. u \in Machine
  BY FreedType
<1>2. Untouched(s, u) /\ Tidy(u)
  <2>1. Tidy(s)
    BY SettledTidy
  <2>2. QED
    BY <2>1, SMTT(30) DEF Untouched, Tidy, Machine
<1>3. RtcStopped(s, r) \in {StartSdk(c, r), c}
  BY DEF RtcStopped, Stopped
<1> HIDE DEF u
<1>4. f \in Machine /\ Ordinary(u, f)
  BY <1>1, <1>2, FinishOrdinary, FinishType
<1> HIDE DEF f
<1>5. c \in Machine
  BY <1>4, ZenonT(150) DEF Machine
<1>6. Untouched(f, c)
  BY <1>4, SMTT(30) DEF Untouched, Machine
<1> HIDE DEF c
<1>7. Ordinary(s, u) /\ Ordinary(f, c) /\ Ordinary(c, StartSdk(c, r))
  BY <1>2, <1>5, <1>6, UntouchedOrdinary, StartSdkOrdinary
<1>8. Ordinary(s, c)
  BY <1>4, <1>7, OrdinaryTransitive
<1>9. QED
  BY <1>3, <1>7, <1>8, OrdinaryTransitive

\* RTC_CONNECTED.
LEMMA RtcConnectedOrdinary ==
    ASSUME NEW s \in Machine, Settled(s), s.connectPending,
           NEW e, e.conn \in Handles, NEW r
    PROVE  Ordinary(s, RtcConnected(s, e, r))
<1> DEFINE c == [s EXCEPT !.connectPending = FALSE]
           f == [c EXCEPT !.inputs = FALSE]
           g == [c EXCEPT !.connection = e.conn, !.payload = FALSE]
           l == [g EXCEPT !.told = g.localEnd]
           a == CallTransportReady(g, e.gen)
<1>1. s.stage \in {"connecting", "closing"}
  BY DEF Settled, Asked
<1>2. c \in Machine
  BY ZenonT(150) DEF Machine
<1> HIDE DEF c
<1>3. f \in Machine /\ g \in Machine
  BY <1>2, ZenonT(150) DEF Machine
<1> USE DEF c
<1>4. Untouched(s, f) /\ Tidy(f) /\ Untouched(s, g)
  BY <1>1, SMTT(30) DEF Untouched, Tidy, Machine
<1>5. RtcConnected(s, e, r) \in {EndCall(f, TRUE, r), Finish(f, r), l, a}
  BY DEF RtcConnected, WhipFailed, LateConnection
<1> HIDE DEF c, f, g
<1>6. Untouched(g, l)
  BY <1>3, SMTT(30) DEF Untouched, Machine
<1>7. Ordinary(g, a)
  BY <1>1, <1>3, <1>4, SMTT(30) DEF CallTransportReady, Untouched, Ordinary, Discreet,
     Trusts, Asks, Pending, Dirty, SameCall, Machine
<1> HIDE DEF l, a
<1>8. /\ Ordinary(s, f) /\ Ordinary(s, g) /\ Ordinary(g, l)
      /\ Ordinary(f, EndCall(f, TRUE, r)) /\ Ordinary(f, Finish(f, r))
  BY <1>3, <1>4, <1>6, UntouchedOrdinary, EndCallOrdinary, FinishOrdinary
<1>9. Ordinary(s, EndCall(f, TRUE, r)) /\ Ordinary(s, Finish(f, r))
  BY <1>8, OrdinaryTransitive
<1>10. Ordinary(s, l) /\ Ordinary(s, a)
  BY <1>7, <1>8, OrdinaryTransitive
<1>11. QED
  BY <1>5, <1>9, <1>10

\* RTC_CLOSED.
LEMMA RtcClosedOrdinary ==
    ASSUME NEW s \in Machine, Settled(s), NEW e, e.conn # 0, NEW r
    PROVE  Ordinary(s, RtcClosed(s, e, r))
<1> DEFINE c == [s EXCEPT !.inputs = FALSE, !.connection = 0, !.closing = 0]
           a == [c EXCEPT !.audio = 0]
           d == CallClose(a)
<1>1. CASE e.conn \notin {s.connection, s.closing}
  BY <1>1, OrdinarySelf DEF RtcClosed
<1>2. CASE e.conn \in {s.connection, s.closing}
  <2>1. c \in Machine
    BY RetiredType
  <2>2. a \in Machine /\ d \in Machine
    BY <2>1, SilencedType, CallCloseType
  <2>3. [s EXCEPT !.inputs = FALSE,
                  !.connection = IF @ = e.conn THEN 0 ELSE @,
                  !.closing    = IF @ = e.conn THEN 0 ELSE @] = c
    <3>1. /\ (IF s.connection = e.conn THEN 0 ELSE s.connection) = 0
          /\ (IF s.closing = e.conn THEN 0 ELSE s.closing) = 0
      BY <1>2 DEF Settled, Connected
    <3>2. QED
      BY <3>1
  <2>4. c.connection = 0 /\ c.closing = 0
    BY DEF Machine
  <2>5. RtcClosed(s, e, r) = Finish(d, r)
    BY <1>2, <2>3, <2>4 DEF RtcClosed
  <2>6. s.stage # "idle"
    BY <1>2 DEF Settled, Staged, Clean, Unfinished
  <2>7. Ordinary(s, d) /\ Tidy(d)
    BY <2>6, SMTT(30) DEF CallClose, Ordinary, Discreet, Trusts, Asks, Pending, Dirty,
       SameCall, Tidy, Machine
  <2>8. Ordinary(d, Finish(d, r))
    BY <2>2, <2>7, FinishOrdinary
  <2>9. QED
    BY <2>5, <2>7, <2>8, OrdinaryTransitive
<1>3. QED
  BY <1>1, <1>2

\* The commands of the peer.
LEMMA RtcCommandOrdinary ==
    ASSUME NEW s \in Machine, NEW e, e.kind \in {"answered", "hangup", "bad_hangup"}, NEW r
    PROVE  Ordinary(s, RtcCommand(s, e, r))
<1>1. RtcCommand(s, e, r) \in {s, CallPeerAnswered(s, e.gen), EndCall(s, FALSE, r)}
  BY DEF RtcCommand
<1>2. Ordinary(s, CallPeerAnswered(s, e.gen))
  BY SMTT(30) DEF CallPeerAnswered, Ordinary, Discreet, Trusts, Asks, Pending, Dirty,
     SameCall, Machine
<1>3. QED
  BY <1>1, <1>2, OrdinarySelf, EndCallOrdinary

\* The task takes one event of the SDK.
LEMMA RtcDispatchOrdinary ==
    ASSUME NEW s \in Machine, Settled(s), NEW e \in RtcEvents,
           e.kind = "connected" => s.connectPending /\ e.gen = s.generation,
           e.kind = "closed" => e.conn # 0,
           NEW r
    PROVE  Ordinary(s, RtcDispatch(s, e, r))
<1> DEFINE d == RtcDispatch(s, e, r)
<1>1. CASE e.kind = "started"
  <2>1. Untouched(s, [s EXCEPT !.sdkReady = TRUE])
    BY SMTT(30) DEF Untouched, Machine
  <2>2. QED
    BY <1>1, <2>1, UntouchedOrdinary DEF RtcDispatch
<1>2. CASE e.kind = "stopped"
  BY <1>2, RtcStoppedOrdinary DEF RtcDispatch
<1>3. CASE e.kind = "connected"
  <2>1. e.conn \in Handles
    BY <1>3 DEF RtcEvents
  <2>2. d = RtcConnected(s, e, r)
    BY <1>3 DEF RtcDispatch
  <2>3. QED
    BY <1>3, <2>1, <2>2, RtcConnectedOrdinary
<1>4. CASE e.kind = "closed"
  <2>1. d \in {s, RtcClosed(s, e, r)}
    BY <1>4 DEF RtcDispatch
  <2>2. QED
    BY <1>4, <2>1, RtcClosedOrdinary, OrdinarySelf
<1>5. CASE e.kind = "error"
  <2>1. d \in {s, EndCall(s, FALSE, r)}
    BY <1>5 DEF RtcDispatch
  <2>2. QED
    BY <2>1, EndCallOrdinary, OrdinarySelf
<1>6. CASE e.kind \in {"answered", "hangup", "bad_hangup"}
  <2>1. d \in {s, RtcCommand(s, e, r)}
    BY <1>6 DEF RtcDispatch
  <2>2. QED
    BY <1>6, <2>1, RtcCommandOrdinary, OrdinarySelf
<1>7. CASE e.kind = "unexpected"
  BY <1>7, OrdinarySelf DEF RtcDispatch
<1>8. e.kind \in {"started", "stopped", "unexpected", "connected", "closed", "error",
                  "answered", "hangup", "bad_hangup"}
  BY DEF RtcEvents, SignalKinds
<1>9. QED
  BY <1>1, <1>2, <1>3, <1>4, <1>5, <1>6, <1>7, <1>8

\* task(): a lost event, an SDK that is not there, the media.
LEMMA EarlyStepsOrdinary ==
    ASSUME NEW s \in Machine, NEW r
    PROVE  /\ Ordinary(s, FailStep(s, r))
           /\ Ordinary(s, NoSdkStep(s, r))
           /\ Ordinary(s, MediaStep(s))
<1> DEFINE c == [s EXCEPT !.needShutdown = TRUE]
           n == [s EXCEPT !.needShutdown = FALSE, !.resumeAfterStop = FALSE]
<1>1. c \in Machine /\ n \in Machine
  BY FailedType, SparedType
<1>2. Untouched(s, c) /\ Untouched(s, n) /\ Untouched(s, MediaStep(s))
  BY SMTT(30) DEF Untouched, MediaStep, Machine
<1>3. FailStep(s, r) \in {s, EndCall(c, FALSE, r)} /\ NoSdkStep(s, r) \in {s, n, StartSdk(n, r)}
  BY DEF FailStep, NoSdkStep
<1> HIDE DEF c, n
<1>4. /\ Ordinary(s, c) /\ Ordinary(s, n) /\ Ordinary(s, MediaStep(s))
      /\ Ordinary(c, EndCall(c, FALSE, r)) /\ Ordinary(n, StartSdk(n, r))
  BY <1>1, <1>2, UntouchedOrdinary, EndCallOrdinary, StartSdkOrdinary
<1>5. Ordinary(s, EndCall(c, FALSE, r)) /\ Ordinary(s, StartSdk(n, r))
  BY <1>4, OrdinaryTransitive
<1>6. QED
  BY <1>3, <1>4, <1>5, OrdinarySelf

\* task(): a call that has waited too long.
LEMMA DeadlineStepOrdinary ==
    ASSUME NEW s \in Machine, Settled(s), NEW x, NEW r
    PROVE  Ordinary(s, DeadlineStep(s, x, r))
<1> DEFINE c == EndCall(s, TRUE, r)
           d == [c EXCEPT !.deadline = FALSE, !.needShutdown = @ \/ c.connectPending]
<1>1. c \in Machine /\ Ordinary(s, c)
  BY EndSettled, EndCallOrdinary DEF Fine
<1>2. DeadlineStep(s, x, r) \in {s, d}
  BY DEF DeadlineStep
<1> HIDE DEF c
<1>3. Untouched(c, d)
  BY <1>1, SMTT(30) DEF Untouched, Machine
<1> HIDE DEF d
<1>4. QED
  BY <1>1, <1>2, <1>3, UntouchedOrdinary, OrdinaryTransitive, OrdinarySelf

\* task(): the disconnect that a closing call has left to the loop.
LEMMA DisconnectStepOrdinary ==
    ASSUME NEW s \in Machine, NEW x, NEW r
    PROVE  Ordinary(s, DisconnectStep(s, x, r))
<1> DEFINE h == s.connection
           b == [s EXCEPT !.connection = 0, !.closing = h]
           c == RtcDisconnect(b, h, r)
           n == [c EXCEPT !.closing = 0]
           d == [c EXCEPT !.needShutdown = @ \/ ~r.disconnect]
<1>1. CASE ~(s.stage = "closing" /\ s.connection # 0 /\ x.disconnect)
  BY <1>1, OrdinarySelf DEF DisconnectStep
<1>2. CASE s.stage = "closing" /\ s.connection # 0 /\ x.disconnect
  <2>1. h \in Handles
    BY DEF Machine
  <2>2. b \in Machine
    BY <2>1, DisconnectType
  <2>3. Untouched(s, b)
    BY SMTT(30) DEF Untouched, Machine
  <2>4. DisconnectStep(s, x, r) \in {Finish(n, r), d}
    BY <1>2 DEF DisconnectStep
  <2> HIDE DEF b, h
  <2>5. c \in Machine /\ Untouched(b, c)
    <3>1. [b EXCEPT !.dropping = h] \in Machine
      BY <2>1, <2>2, DisconnectType
    <3>2. c \in {b, [b EXCEPT !.dropping = h]}
      BY DEF RtcDisconnect
    <3>3. QED
      BY <2>2, <3>1, <3>2, SMTT(30) DEF Untouched, Machine
  <2> HIDE DEF c
  <2>6. n \in Machine
    BY <2>1, <2>5, DisconnectType
  <2>7. Untouched(c, n) /\ Untouched(c, d)
    BY <2>5, SMTT(30) DEF Untouched, Machine
  <2>8. Tidy(n)
    BY <1>2, <2>3, <2>5, <2>7 DEF Untouched, Tidy
  <2> HIDE DEF n, d
  <2>9. /\ Ordinary(s, b) /\ Ordinary(b, c) /\ Ordinary(c, n) /\ Ordinary(c, d)
        /\ Ordinary(n, Finish(n, r))
    BY <2>3, <2>5, <2>6, <2>7, <2>8, UntouchedOrdinary, FinishOrdinary
  <2>10. Ordinary(s, c)
    BY <2>9, OrdinaryTransitive
  <2>11. QED
    BY <2>4, <2>9, <2>10, OrdinaryTransitive
<1>3. QED
  BY <1>1, <1>2

\* task(): the stop of the SDK, and a close that takes too long.
LEMMA LateStepsOrdinary ==
    ASSUME NEW s \in Machine, NEW x, NEW r
    PROVE  Ordinary(s, ShutdownStep(s, r)) /\ Ordinary(s, CloseStep(s, x))
<1>1. Untouched(s, ShutdownStep(s, r)) /\ Untouched(s, CloseStep(s, x))
  BY SMTT(30) DEF ShutdownStep, CloseStep, Untouched, Machine
<1>2. QED
  BY <1>1, UntouchedOrdinary

\* One turn through the tail of the loop.
LEMMA LoopTailOrdinary ==
    ASSUME NEW s \in Machine, Settled(s), NEW x, NEW r, r.disconnect \in BOOLEAN
    PROVE  Ordinary(s, LoopTail(s, x, r))
<1> DEFINE a == FailStep(s, r)
           b == NoSdkStep(a, r)
           c == MediaStep(b)
           d == DeadlineStep(c, x, r)
           f == DisconnectStep(d, x, r)
           g == ShutdownStep(f, r)
           h == CloseStep(g, x)
<1>1. h = LoopTail(s, x, r)
  BY DEF LoopTail
<1>2. Fine(a) /\ Ordinary(s, a)
  BY FailStepFine, EarlyStepsOrdinary
<1> HIDE DEF a
<1>3. Fine(b) /\ Ordinary(a, b)
  BY <1>2, NoSdkStepFine, EarlyStepsOrdinary DEF Fine
<1> HIDE DEF b
<1>4. Fine(c) /\ Ordinary(b, c)
  BY <1>3, MediaStepFine, EarlyStepsOrdinary DEF Fine
<1> HIDE DEF c
<1>5. Fine(d) /\ Ordinary(c, d)
  BY <1>4, DeadlineStepFine, DeadlineStepOrdinary DEF Fine
<1> HIDE DEF d
<1>6. Fine(f) /\ Ordinary(d, f)
  BY <1>5, DisconnectStepFine, DisconnectStepOrdinary DEF Fine
<1> HIDE DEF f
<1>7. Fine(g) /\ Ordinary(f, g)
  BY <1>6, ShutdownStepFine, LateStepsOrdinary DEF Fine
<1> HIDE DEF g
<1>8. Ordinary(g, h)
  BY <1>7, LateStepsOrdinary DEF Fine
<1> HIDE DEF h
<1>9. Ordinary(s, b) /\ Ordinary(b, d) /\ Ordinary(d, g)
  BY <1>2, <1>3, <1>4, <1>5, <1>6, <1>7, OrdinaryTransitive
<1>10. Ordinary(s, d) /\ Ordinary(d, h)
  BY <1>8, <1>9, OrdinaryTransitive
<1>11. QED
  BY <1>1, <1>10, OrdinaryTransitive

-----------------------------------------------------------------------------
\* The queue of answers and the marks.

\* What is left of old once a handler has been from s to t.
Still(s, t, old) == {op \in old : ~(op \notin s.fetches /\ op \in t.fetches)}

\* A handler of none of the answers in the queue.
LEMMA FetchingKept ==
    ASSUME NEW s, NEW t, NEW q, NEW old, NEW new, new \subseteq Still(s, t, old),
           Fetching(s, q, old), \A op \in Fetches : Asks(s, t, op)
    PROVE  Fetching(t, q, new)
<1> SUFFICES ASSUME NEW op \in Fetches
             PROVE  /\ op \in t.fetches => Pending(t, op)
                    /\ \A i \in 1 .. Len(q) : q[i].kind = op =>
                            /\ Pending(t, op) /\ op \notin t.fetches
                            /\ \A j \in 1 .. Len(q) : q[j].kind = op => j = i
                    /\ op \in new /\ Pending(t, op) => Dirty(t, op)
  BY DEF Fetching
<1>1. /\ op \in s.fetches => Pending(s, op)
      /\ \A i \in 1 .. Len(q) : q[i].kind = op =>
              /\ Pending(s, op) /\ op \notin s.fetches
              /\ \A j \in 1 .. Len(q) : q[j].kind = op => j = i
      /\ op \in old /\ Pending(s, op) => Dirty(s, op)
  BY DEF Fetching
<1>2. Asks(s, t, op)
  OBVIOUS
<1>3. op \in new => op \in old /\ ~(op \notin s.fetches /\ op \in t.fetches)
  BY DEF Still
<1>4. QED
  BY <1>1, <1>2, <1>3 DEF Asks

\* An event that answers no fetch joins the queue.
LEMMA FetchingOther ==
    ASSUME NEW s, NEW S, NEW q \in Seq(S), NEW e \in S, NEW old, Fetching(s, q, old),
           e.kind \notin Fetches
    PROVE  Fetching(s, Append(q, e), old)
<1> DEFINE p == Append(q, e)
<1>1. /\ Len(q) \in Nat /\ Len(p) = Len(q) + 1 /\ p[Len(p)] = e
      /\ \A i \in 1 .. Len(q) : p[i] = q[i]
  OBVIOUS
<1> HIDE DEF p
<1>2. \A i \in 1 .. Len(p) : i = Len(p) \/ i \in 1 .. Len(q)
  BY <1>1
<1>3. \A op \in Fetches, i \in 1 .. Len(p) :
            p[i].kind = op => i \in 1 .. Len(q) /\ q[i].kind = op
  BY <1>1, <1>2
<1>4. QED
  BY <1>3 DEF Fetching, p

\* The answer to a fetch leaves the platform: it joins the queue, or is lost.
LEMMA FetchingAnswered ==
    ASSUME NEW s, NEW t, NEW S, NEW q \in Seq(S), NEW e \in S, NEW old, Fetching(s, q, old),
           e.kind \in s.fetches, e.kind \in Fetches, t.fetches = s.fetches \ {e.kind},
           \A op \in Fetches : (Pending(t, op) <=> Pending(s, op)) /\ (Dirty(t, op) <=> Dirty(s, op))
    PROVE  Fetching(t, q, old) /\ Fetching(t, Append(q, e), old)
<1> DEFINE p == Append(q, e)
<1>1. /\ Len(q) \in Nat /\ Len(p) = Len(q) + 1 /\ p[Len(p)] = e
      /\ \A i \in 1 .. Len(q) : p[i] = q[i]
  OBVIOUS
<1> HIDE DEF p
<1>2. \A i \in 1 .. Len(p) : i = Len(p) \/ i \in 1 .. Len(q)
  BY <1>1
<1>3. Fetching(t, q, old)
  BY DEF Fetching
<1>4. \A i \in 1 .. Len(q) : q[i].kind # e.kind
  BY DEF Fetching
<1>5. Pending(t, e.kind) /\ e.kind \notin t.fetches
  BY DEF Fetching
<1>6. ASSUME NEW op \in Fetches, NEW i \in 1 .. Len(p), p[i].kind = op
      PROVE  /\ Pending(t, op) /\ op \notin t.fetches
             /\ \A j \in 1 .. Len(p) : p[j].kind = op => j = i
  <2>1. CASE op = e.kind
    <3>1. \A j \in 1 .. Len(p) : p[j].kind = op => j = Len(p)
      BY <1>1, <1>2, <1>4, <2>1
    <3>2. QED
      BY <1>5, <1>6, <2>1, <3>1
  <2>2. CASE op # e.kind
    <3>1. \A j \in 1 .. Len(p) : p[j].kind = op => j \in 1 .. Len(q) /\ q[j].kind = op
      BY <1>1, <1>2, <2>2
    <3>2. QED
      BY <1>3, <1>6, <3>1 DEF Fetching
  <2>3. QED
    BY <2>1, <2>2
<1>7. Fetching(t, p, old)
  BY <1>3, <1>6 DEF Fetching
<1>8. QED
  BY <1>3, <1>7 DEF p

\* The head of the queue has been taken.
LEMMA FetchingTail ==
    ASSUME NEW s, NEW t, NEW S, NEW q \in Seq(S), q # <<>>, NEW old, NEW new,
           Fetching(s, q, old),
           \A op \in Fetches :
                /\ Head(q).kind = op => Answered(s, t, op)
                /\ Head(q).kind # op => Asks(s, t, op)
                /\ op \in new => /\ ~(op \notin s.fetches /\ op \in t.fetches)
                                 /\ op \in old \/ Marks(s, t, op)
    PROVE  Fetching(t, Tail(q), new)
<1> DEFINE p == Tail(q)
<1>1. /\ Len(q) \in Nat \ {0} /\ Len(p) = Len(q) - 1 /\ Head(q) = q[1]
      /\ \A i \in 1 .. Len(p) : p[i] = q[i + 1] /\ i + 1 \in 1 .. Len(q)
  OBVIOUS
<1> HIDE DEF p
<1> SUFFICES ASSUME NEW op \in Fetches
             PROVE  /\ op \in t.fetches => Pending(t, op)
                    /\ \A i \in 1 .. Len(p) : p[i].kind = op =>
                            /\ Pending(t, op) /\ op \notin t.fetches
                            /\ \A j \in 1 .. Len(p) : p[j].kind = op => j = i
                    /\ op \in new /\ Pending(t, op) => Dirty(t, op)
  BY DEF Fetching, p
<1>2. /\ op \in s.fetches => Pending(s, op)
      /\ \A i \in 1 .. Len(q) : q[i].kind = op =>
              /\ Pending(s, op) /\ op \notin s.fetches
              /\ \A j \in 1 .. Len(q) : q[j].kind = op => j = i
      /\ op \in old /\ Pending(s, op) => Dirty(s, op)
  BY DEF Fetching
<1>3. CASE Head(q).kind = op
  <2>1. \A i \in 1 .. Len(p) : p[i].kind # op
    BY <1>1, <1>2, <1>3
  <2>2. op \notin s.fetches
    BY <1>1, <1>2, <1>3
  <2>3. Answered(s, t, op)
    BY <1>3
  <2>4. QED
    BY <2>1, <2>2, <2>3 DEF Answered
<1>4. CASE Head(q).kind # op
  <2>1. Asks(s, t, op)
    BY <1>4
  <2>2. op \in t.fetches => Pending(t, op)
    BY <1>2, <2>1 DEF Asks
  <2>3. op \in new /\ Pending(t, op) => Dirty(t, op)
    BY <1>2, <2>1 DEF Asks, Marks
  <2>4. ASSUME NEW i \in 1 .. Len(p), p[i].kind = op
        PROVE  /\ Pending(t, op) /\ op \notin t.fetches
               /\ \A j \in 1 .. Len(p) : p[j].kind = op => j = i
    <3>1. i + 1 \in 1 .. Len(q) /\ q[i + 1].kind = op
      BY <1>1, <2>4
    <3>2. Pending(s, op) /\ op \notin s.fetches
      BY <1>2, <3>1
    <3>3. ASSUME NEW j \in 1 .. Len(p), p[j].kind = op PROVE j = i
      <4>1. j + 1 = i + 1
        BY <1>1, <1>2, <3>1, <3>3
      <4>2. QED
        BY <4>1
    <3>4. QED
      BY <2>1, <3>2, <3>3 DEF Asks
  <2>5. QED
    BY <2>2, <2>3, <2>4
<1>5. QED
  BY <1>3, <1>4

-----------------------------------------------------------------------------
\* The slots and the rooms.

\* The next slot, without the modulo.
LEMMA NextSlotIs ==
    ASSUME NEW i \in Slots
    PROVE  /\ NextSlot(i) = IF i + 1 = ClosedSlots THEN 0 ELSE i + 1
           /\ NextSlot(i) \in Slots
<1>1. ClosedSlots \in Nat \ {0} /\ i \in Nat /\ i < ClosedSlots
  BY VoipAssumption DEF Slots
<1>2. CASE i + 1 = ClosedSlots
  BY <1>1, <1>2 DEF NextSlot, Slots
<1>3. CASE i + 1 < ClosedSlots
  BY <1>1, <1>3 DEF NextSlot, Slots
<1>4. QED
  BY <1>1, <1>2, <1>3

\* Once a name is in a slot, the ones before are a call older.
LEMMA SlotsAge ==
    ASSUME NEW s \in Machine, NEW t, t.closedIndex = NextSlot(s.closedIndex)
    PROVE  /\ Slot(t, 1) = s.closedIndex
           /\ \A p \in 1 .. ClosedSlots - 1 :
                /\ Slot(t, p + 1) = Slot(s, p)
                /\ Slot(s, p) \in Slots \ {s.closedIndex}
<1> DEFINE i == s.closedIndex
<1>1. i \in Slots
  BY DEF Machine
<1>2. ClosedSlots \in Nat \ {0} /\ i \in Nat /\ i < ClosedSlots
  BY <1>1, VoipAssumption DEF Slots
<1>3. t.closedIndex = IF i + 1 = ClosedSlots THEN 0 ELSE i + 1
  BY <1>1, NextSlotIs
<1> HIDE DEF i
<1>4. Slot(t, 1) = i
  BY <1>2, <1>3 DEF Slot
<1>5. ASSUME NEW p \in 1 .. ClosedSlots - 1
      PROVE  Slot(t, p + 1) = Slot(s, p) /\ Slot(s, p) \in Slots \ {i}
  BY <1>2, <1>3 DEF Slot, Slots, i
<1>6. QED
  BY <1>4, <1>5 DEF i

\* A slot is one of the slots.
LEMMA SlotType ==
    ASSUME NEW s \in Machine, NEW p \in Calls
    PROVE  Slot(s, p) \in Slots
<1>1. s.closedIndex \in Slots
  BY DEF Machine
<1>2. QED
  BY <1>1, VoipAssumption DEF Slot, Slots, Calls

\* The rooms of the last calls after a handler has been from s to t.
After(s, t, rooms) ==
    IF s.stage = "idle" /\ t.stage # "idle"
    THEN [i \in Calls |-> IF i = 1 THEN t.room ELSE rooms[i - 1]]
    ELSE IF t.room # None /\ t.room # s.room
    THEN [rooms EXCEPT ![1] = t.room]
    ELSE rooms

\* They stay a list of rooms,
LEMMA AfterType ==
    ASSUME NEW s, NEW t \in Machine, NEW rooms \in [Calls -> RoomOrNone]
    PROVE  After(s, t, rooms) \in [Calls -> RoomOrNone]
<1>1. t.room \in RoomOrNone
  BY DEF Machine
<1>2. \A i \in Calls : i = 1 \/ i - 1 \in Calls
  BY VoipAssumption DEF Calls
<1>3. QED
  BY <1>1, <1>2 DEF After

\* and the slots still hold those of the calls that are over.
LEMMA RemembersKept ==
    ASSUME NEW s \in Machine, NEW t, NEW rooms \in [Calls -> RoomOrNone],
           Remembers(s, rooms), CallStep(s, t)
    PROVE  Remembers(t, After(s, t, rooms))
<1> DEFINE new == After(s, t, rooms)
<1>1. ClosedSlots \in Nat \ {0} /\ 1 \in Calls /\ \A i \in Calls : i \in Nat \ {0}
  BY VoipAssumption DEF Calls
<1>2. /\ s.stage # "idle" => rooms[1] = s.room
      /\ s.stage = "dialing" => s.room = None
      /\ \A i \in Calls : i > Present(s) /\ rooms[i] # None =>
              \E p \in 1 .. i - Present(s) : s.closed[Slot(s, p)].room = rooms[i]
  BY DEF Remembers
<1>3. CASE SameCall(s, t)
  <2>1. new = rooms
    BY <1>3 DEF After, SameCall
  <2>2. \A p : Slot(t, p) = Slot(s, p)
    BY <1>3 DEF SameCall, Slot
  <2>3. Present(t) = Present(s)
    BY <1>3 DEF SameCall, Present
  <2>4. Remembers(t, rooms)
    BY <1>2, <1>3, <2>2, <2>3 DEF SameCall, Remembers
  <2>5. QED
    BY <2>1, <2>4
<1>4. CASE Over(s, t)
  <2>1. new = rooms /\ Present(s) = 1 /\ Present(t) = 0 /\ rooms[1] = s.room
    BY <1>2, <1>4 DEF After, Over, Present
  <2>2. ASSUME NEW i \in Calls, rooms[i] # None
        PROVE  \E p \in 1 .. i : t.closed[Slot(t, p)].room = rooms[i]
    <3>1. CASE s.room = None /\ t.closed = s.closed /\ t.closedIndex = s.closedIndex
      <4>1. i # 1
        BY <2>1, <2>2, <3>1
      <4>2. i > Present(s)
        BY <1>1, <2>1, <4>1
      <4>3. PICK p \in 1 .. i - 1 : s.closed[Slot(s, p)].room = rooms[i]
        BY <1>2, <2>1, <2>2, <4>2
      <4>4. p \in 1 .. i /\ Slot(t, p) = Slot(s, p)
        BY <1>1, <3>1 DEF Slot
      <4>5. QED
        BY <3>1, <4>3, <4>4
    <3>2. CASE /\ t.closedIndex = NextSlot(s.closedIndex)
               /\ \A j \in Slots \ {s.closedIndex} : t.closed[j] = s.closed[j]
               /\ s.room # None => t.closed[s.closedIndex].room = s.room
      <4>1. /\ Slot(t, 1) = s.closedIndex
            /\ \A p \in 1 .. ClosedSlots - 1 :
                  /\ Slot(t, p + 1) = Slot(s, p)
                  /\ Slot(s, p) \in Slots \ {s.closedIndex}
        BY <3>2, SlotsAge
      <4>2. CASE i = 1
        <5>1. t.closed[Slot(t, 1)].room = rooms[i]
          BY <2>1, <2>2, <3>2, <4>1, <4>2
        <5>2. QED
          BY <4>2, <5>1
      <4>3. CASE i # 1
        <5>1. i > Present(s)
          BY <1>1, <2>1, <4>3
        <5>2. PICK p \in 1 .. i - 1 : s.closed[Slot(s, p)].room = rooms[i]
          BY <1>2, <2>1, <2>2, <5>1
        <5>3. p \in 1 .. ClosedSlots - 1 /\ p + 1 \in 1 .. i
          BY <1>1 DEF Calls
        <5>4. t.closed[Slot(t, p + 1)].room = rooms[i]
          BY <3>2, <4>1, <5>2, <5>3
        <5>5. QED
          BY <5>3, <5>4
      <4>4. QED
        BY <4>2, <4>3
    <3>3. QED
      BY <1>4, <3>1, <3>2 DEF Over
  <2>3. t.stage = "idle"
    BY <1>4 DEF Over
  <2>4. QED
    BY <1>1, <2>1, <2>2, <2>3 DEF Remembers
<1>5. CASE Starts(s, t)
  <2>1. /\ Present(s) = 0 /\ Present(t) = 1
        /\ new = [i \in Calls |-> IF i = 1 THEN t.room ELSE rooms[i - 1]]
    BY <1>5 DEF After, Starts, Present
  <2>2. \A p : Slot(t, p) = Slot(s, p)
    BY <1>5 DEF Starts, SameSlots, Slot
  <2> HIDE DEF new
  <2>3. ASSUME NEW i \in Calls, i > 1, new[i] # None
        PROVE  \E p \in 1 .. i - 1 : t.closed[Slot(t, p)].room = new[i]
    <3>1. i - 1 \in Calls /\ i - 1 > 0 /\ new[i] = rooms[i - 1]
      BY <1>1, <2>1, <2>3 DEF Calls
    <3>2. i - 1 - 0 = i - 1
      BY <1>1
    <3>3. PICK p \in 1 .. i - 1 : s.closed[Slot(s, p)].room = rooms[i - 1]
      BY <1>2, <2>1, <2>3, <3>1, <3>2
    <3>4. QED
      BY <1>5, <2>2, <3>1, <3>3 DEF Starts, SameSlots
  <2>4. new[1] = t.room /\ (t.stage = "dialing" => t.room = None)
    BY <1>1, <1>5, <2>1 DEF Starts
  <2>5. Remembers(t, new)
    BY <2>1, <2>3, <2>4 DEF Remembers
  <2>6. QED
    BY <2>5 DEF new
<1>6. CASE Joins(s, t)
  <2>1. /\ Present(s) = 1 /\ Present(t) = 1
        /\ new = [rooms EXCEPT ![1] = t.room]
    BY <1>6 DEF After, Joins, Present
  <2>2. \A p : Slot(t, p) = Slot(s, p)
    BY <1>6 DEF Joins, SameSlots, Slot
  <2>3. new[1] = t.room /\ \A i \in Calls : i > 1 => new[i] = rooms[i]
    BY <1>1, <2>1
  <2> HIDE DEF new
  <2>4. ASSUME NEW i \in Calls, i > 1, new[i] # None
        PROVE  \E p \in 1 .. i - 1 : t.closed[Slot(t, p)].room = new[i]
    <3>1. new[i] = rooms[i]
      BY <2>3, <2>4
    <3>2. PICK p \in 1 .. i - 1 : s.closed[Slot(s, p)].room = rooms[i]
      BY <1>2, <2>1, <2>4, <3>1
    <3>3. QED
      BY <1>6, <2>2, <3>1, <3>2 DEF Joins, SameSlots
  <2>5. t.stage # "dialing"
    BY <1>6 DEF Joins
  <2>6. Remembers(t, new)
    BY <2>1, <2>3, <2>4, <2>5 DEF Remembers
  <2>7. QED
    BY <2>6 DEF new
<1>7. QED
  BY <1>3, <1>4, <1>5, <1>6 DEF CallStep

\* The room that is taken, if one is, is that of none of the last calls.
LEMMA TakenIsNew ==
    ASSUME NEW s \in Machine, NEW t, NEW rooms \in [Calls -> RoomOrNone],
           Remembers(s, rooms), CallStep(s, t), t.room # None, t.room # s.room,
           NEW i \in Calls
    PROVE  rooms[i] # t.room
<1>1. Unknown(s, t.room)
  BY DEF CallStep, SameCall, Over, Starts, Joins
<1>2. i \in Nat \ {0} /\ i <= ClosedSlots /\ ClosedSlots \in Nat
  BY VoipAssumption DEF Calls
<1>3. CASE i > Present(s)
  <2> SUFFICES ASSUME rooms[i] = t.room PROVE FALSE
    OBVIOUS
  <2>1. PICK p \in 1 .. i - Present(s) : s.closed[Slot(s, p)].room = rooms[i]
    BY <1>3 DEF Remembers
  <2>2. p \in Calls
    BY <1>2 DEF Present, Calls
  <2>3. Slot(s, p) \in Slots
    BY <2>2, SlotType
  <2>4. QED
    BY <1>1, <2>1, <2>3 DEF Unknown
<1>4. CASE ~(i > Present(s))
  <2>1. s.stage # "idle" /\ i = 1
    BY <1>2, <1>4 DEF Present
  <2>2. QED
    BY <2>1 DEF Remembers
<1>5. QED
  BY <1>3, <1>4

-----------------------------------------------------------------------------
\* The steps.

\* What RoomNotRetaken and NothingRevokedReturns say of one step.
NewRoom == TakesRoom => \A i \in Calls : past[i] # m'.room

NothingOld ==
    /\ ~m.contacts /\ m'.contacts => "contacts" \notin outdated
    /\ ~m.profileReady /\ m'.profileReady => "profile" \notin outdated

\* What HNext adds to a step.
Recorded ==
    /\ past' = After(m, m', past)
    /\ outdated' = {op \in Fetches : ~Requested(op) /\ (op \in outdated \/ Outdates(op))}

Kept == HistoryInv' /\ NewRoom /\ NothingOld

\* Every step records what HNext says.
LEMMA AllRecorded == ASSUME HNext PROVE Recorded
BY DEF HNext, Recorded, After, BeginsCall, TakesRoom, Shifted

\* What is left to show of a step, once it is known what it does to the call.
LEMMA CallKeeps ==
    ASSUME Inductive, HistoryInv, Recorded, m' \in Machine, CallStep(m, m'), NothingOld,
           Fetching(m', queue', outdated')
    PROVE  Kept
<1>1. /\ m \in Machine /\ past \in [Calls -> RoomOrNone] /\ Remembers(m, past)
      /\ past' = After(m, m', past)
  BY DEF Inductive, TypeOK, HistoryInv, Recorded
<1>2. past' \in [Calls -> RoomOrNone] /\ Remembers(m', past')
  BY <1>1, AfterType, RemembersKept
<1>3. outdated' \subseteq Fetches
  BY DEF Recorded
<1>4. NewRoom
  BY <1>1, TakenIsNew DEF NewRoom, TakesRoom
<1>5. QED
  BY <1>2, <1>3, <1>4 DEF Kept, HistoryInv

\* A step that takes no event from the queue, and adds no answer to it.
LEMMA QuietKeeps ==
    ASSUME Inductive, HistoryInv, Recorded, m' \in Machine, Ordinary(m, m'),
           turn' = turn \/ turn = "tail" \/ queue = <<>>,
           NEW e \in Events, e.kind \notin Fetches, queue' \in {queue, Append(queue, e)}
    PROVE  Kept
<1>1. queue \in Seq(Events) /\ Fetching(m, queue, outdated)
  BY DEF Inductive, TypeOK, Events, HistoryInv
<1>2. \A op \in Fetches : ~Outdates(op)
  BY DEF Outdates, Taking, Fetches
<1>3. outdated' \subseteq Still(m, m', outdated)
  BY <1>2 DEF Recorded, Requested, Still
<1>4. Fetching(m', queue, outdated')
  BY <1>1, <1>3, FetchingKept DEF Ordinary, Discreet
<1>5. Fetching(m', Append(queue, e), outdated')
  BY <1>1, <1>4, FetchingOther
<1>6. NothingOld
  BY DEF Ordinary, Discreet, Trusts, NothingOld
<1>7. QED
  BY <1>4, <1>5, <1>6, CallKeeps DEF Ordinary, CallStep

\* The same, with nothing to add.
LEMMA SilentKeeps ==
    ASSUME Inductive, HistoryInv, Recorded, m' \in Machine, Ordinary(m, m'),
           turn' = turn \/ turn = "tail" \/ queue = <<>>, queue' = queue
    PROVE  Kept
<1> DEFINE e == [kind |-> "online"]
<1>1. e \in Events /\ e.kind \notin Fetches
  BY DEF Events, PlatformEvents, Fetches
<1> HIDE DEF e
<1>2. QED
  BY <1>1, QuietKeeps

\* task(): the RTC queue is drained.
LEMMA TakeRtcKeeps ==
    ASSUME Inductive, Inductive', HistoryInv, Recorded, TakeRtc
    PROVE  Kept
<1> DEFINE e == Head(rtcQueue)
<1>1. rtcQueue \in Seq(RtcEvents) /\ rtcQueue # <<>>
  BY DEF Inductive, TypeOK, TakeRtc
<1>2. e \in RtcEvents /\ e = rtcQueue[1] /\ 1 \in 1 .. Len(rtcQueue)
  BY <1>1
<1>3. m \in Machine /\ m' \in Machine /\ Settled(m) /\ RtcInFlight(m, rtcQueue)
  BY DEF Inductive, TypeOK
<1>4. PICK r \in Answers : m' = RtcDispatch(m, e, r)
  BY DEF TakeRtc
<1> HIDE DEF e
<1>5. /\ e.kind = "connected" => m.connectPending /\ e.gen = m.generation
      /\ e.kind = "closed" => e.conn # 0
  BY <1>2, <1>3 DEF RtcInFlight
<1>6. Ordinary(m, m')
  BY <1>2, <1>3, <1>4, <1>5, RtcDispatchOrdinary
<1>7. turn' = turn /\ queue' = queue
  BY DEF TakeRtc
<1>8. QED
  BY <1>3, <1>6, <1>7, SilentKeeps

\* task(): one platform or user event is taken.
LEMMA TakeEventKeeps ==
    ASSUME Inductive, Inductive', HistoryInv, Recorded, TakeEvent
    PROVE  Kept
<1> DEFINE e == Head(queue)
<1>1. queue \in Seq(Events) /\ queue # <<>> /\ online \in BOOLEAN
  BY DEF Inductive, TypeOK, TakeEvent, Events
<1>2. e \in PlatformEvents \cup UserEvents /\ e = queue[1] /\ 1 \in 1 .. Len(queue)
  BY <1>1 DEF Events
<1>3. /\ m \in Machine /\ m' \in Machine /\ Settled(m) /\ CallInFlight(m, queue)
      /\ m.stage = "dialing" => m.room = None
      /\ Fetching(m, queue, outdated)
  BY DEF Inductive, TypeOK, HistoryInv, Remembers
<1>4. PICK r \in Answers, some \in BOOLEAN : m' = Dispatch(m, e, some, r)
  BY DEF TakeEvent
<1>5. queue' = Tail(queue)
  BY DEF TakeEvent
<1>6. \A op \in Fetches : Outdates(op) => Revokes(e.kind, op)
  BY DEF Outdates, Taking, Fetches, Revokes
<1> HIDE DEF e
<1>7. e.kind = "call_result" => m.callPending
  BY <1>2, <1>3 DEF CallInFlight
<1>8. /\ CallStep(m, m')
      /\ \A op \in Fetches :
            /\ e.kind = op => Answered(m, m', op)
            /\ e.kind # op => Asks(m, m', op)
            /\ Revokes(e.kind, op) => Marks(m, m', op)
      /\ m'.contacts /\ ~m.contacts => e.kind = "contacts" /\ ~m.contactsDirty
      /\ m'.profileReady /\ ~m.profileReady => e.kind = "profile" /\ ~m.profileDirty
  BY <1>1, <1>2, <1>3, <1>4, <1>7, DispatchPast
<1>9. Fetching(m', queue', outdated')
  <2>1. ASSUME NEW op \in Fetches
        PROVE  op \in outdated' => /\ ~(op \notin m.fetches /\ op \in m'.fetches)
                                   /\ op \in outdated \/ Marks(m, m', op)
    BY <1>6, <1>8 DEF Recorded, Requested
  <2>2. QED
    BY <1>1, <1>3, <1>5, <1>8, <2>1, FetchingTail DEF e
<1>10. NothingOld
  <2>1. ASSUME NEW op \in Fetches, e.kind = op, op \in outdated
        PROVE  Dirty(m, op)
    BY <1>2, <1>3, <2>1 DEF Fetching
  <2>2. "contacts" \in Fetches /\ "profile" \in Fetches
    BY DEF Fetches
  <2>3. e.kind = "contacts" /\ "contacts" \in outdated => m.contactsDirty
    BY <2>1, <2>2 DEF Dirty
  <2>4. e.kind = "profile" /\ "profile" \in outdated => m.profileDirty
    BY <2>1, <2>2 DEF Dirty
  <2>5. QED
    BY <1>8, <2>3, <2>4 DEF NothingOld
<1>11. QED
  BY <1>3, <1>8, <1>9, <1>10, CallKeeps

\* task(): the wait for an event runs out, or the tail of the loop.
LEMMA TailKeeps ==
    ASSUME Inductive, Inductive', HistoryInv, Recorded,
           NoEvent \/ \E x \in Expiry : RunTail(x)
    PROVE  Kept
<1>1. m \in Machine /\ m' \in Machine /\ Settled(m)
  BY DEF Inductive, TypeOK
<1>2. CASE NoEvent
  <2>1. m' = m /\ queue = <<>> /\ queue' = queue
    BY <1>2 DEF NoEvent
  <2>2. QED
    BY <1>1, <2>1, OrdinarySelf, SilentKeeps
<1>3. ASSUME NEW x \in Expiry, RunTail(x) PROVE Kept
  <2>1. PICK r \in Answers : m' = LoopTail(m, x, r)
    BY <1>3 DEF RunTail
  <2>2. Ordinary(m, m')
    BY <1>1, <2>1, LoopTailOrdinary, AnswersType
  <2>3. turn = "tail" /\ queue' = queue
    BY <1>3 DEF RunTail
  <2>4. QED
    BY <1>1, <2>2, <2>3, SilentKeeps
<1>4. QED
  BY <1>2, <1>3

\* The SDK moves nothing but its own half.
LEMMA SdkKeeps ==
    ASSUME Inductive, Inductive', HistoryInv, Recorded, Sdk
    PROVE  Kept
<1>1. m \in Machine /\ m' \in Machine
  BY DEF Inductive, TypeOK
<1>2. Untouched(m, m')
  <2>1. CASE SdkStarted
    BY <1>1, <2>1, SMTT(30) DEF SdkStarted, Untouched, Machine
  <2>2. CASE \E ok \in BOOLEAN : SdkConnected(ok)
    BY <1>1, <2>2, SMTT(30) DEF SdkConnected, Untouched, Machine
  <2>3. CASE \E kind \in scenario.signals : SdkSignal(kind)
    BY <2>3 DEF SdkSignal, Untouched
  <2>4. CASE SdkClosed
    BY <1>1, <2>4, SMTT(30) DEF SdkClosed, Untouched, Machine
  <2>5. CASE SdkStopped
    BY <1>1, <2>5, SMTT(30) DEF SdkStopped, Untouched, Machine
  <2>6. CASE SdkAccepted
    BY <2>6 DEF SdkAccepted, Untouched
  <2>7. QED
    BY <2>1, <2>2, <2>3, <2>4, <2>5, <2>6 DEF Sdk
<1>3. turn' = turn /\ queue' = queue
  BY DEF Sdk, SdkStarted, SdkConnected, SdkSignal, SdkClosed, SdkStopped, SdkAccepted, SdkFrame
<1>4. QED
  BY <1>1, <1>2, <1>3, UntouchedOrdinary, SilentKeeps

\* The link comes and goes, unnoticed by the task.
LEMMA LinkKeeps ==
    ASSUME Inductive, Inductive', HistoryInv, Recorded, LinkUp \/ NetworkDown \/ NoticeDown
    PROVE  Kept
<1>1. m' = m /\ queue' = queue /\ turn' = turn
  BY DEF LinkUp, NetworkDown, NoticeDown, PlatformFrame
<1>2. m' \in Machine
  BY DEF Inductive, TypeOK
<1>3. QED
  BY <1>1, <1>2, OrdinarySelf, SilentKeeps

\* An event is delivered or lost that answers no fetch.
LEMMA EventKeeps ==
    ASSUME Inductive, Inductive', HistoryInv, Recorded, PlatformFrame, Untouched(m, m'),
           NEW e \in Events, e.kind \notin Fetches, PlatformEvent(e)
    PROVE  Kept
<1>1. m' \in Machine
  BY DEF Inductive, TypeOK
<1>2. queue' \in {queue, Append(queue, e)} /\ turn' = turn
  BY DEF PlatformEvent, Delivered, Enqueue, Lost, PlatformFrame
<1>3. Ordinary(m, m')
  BY UntouchedOrdinary
<1>4. QED
  BY <1>1, <1>2, <1>3, QuietKeeps

\* The session is announced, or goes down, or the device is unbound.
LEMMA SessionKeeps ==
    ASSUME Inductive, Inductive', HistoryInv, Recorded, AnnounceOnline \/ LinkDown \/ Unbind
    PROVE  Kept
<1>1. m \in Machine /\ Untouched(m, m)
  BY DEF Inductive, TypeOK, Untouched
<1>2. NewEpoch => Untouched(m, m')
  BY <1>1, SMTT(30) DEF NewEpoch, Untouched, Machine
<1>3. ASSUME NEW kind \in {"online", "offline", "unbound"}
      PROVE  [kind |-> kind] \in Events /\ [kind |-> kind].kind \notin Fetches
  BY DEF Events, PlatformEvents, Fetches
<1>4. CASE AnnounceOnline
  <2>1. m' = m /\ PlatformFrame /\ PlatformEvent([kind |-> "online"])
    BY <1>4 DEF AnnounceOnline, PlatformEvent
  <2>2. QED
    BY <1>1, <1>3, <2>1, EventKeeps
<1>5. CASE LinkDown
  <2>1. NewEpoch /\ PlatformFrame /\ PlatformEvent([kind |-> "offline"])
    BY <1>5 DEF LinkDown
  <2>2. QED
    BY <1>2, <1>3, <2>1, EventKeeps
<1>6. CASE Unbind
  <2>1. NewEpoch /\ PlatformFrame /\ PlatformEvent([kind |-> "unbound"])
    BY <1>6 DEF Unbind
  <2>2. QED
    BY <1>2, <1>3, <2>1, EventKeeps
<1>7. QED
  BY <1>4, <1>5, <1>6

\* A message of the service, or a command of the user.
LEMMA MessageKeeps ==
    ASSUME Inductive, Inductive', HistoryInv, Recorded,
           \/ \E e \in scenario.messages : Message(e)
           \/ \E command \in scenario.commands : User(command)
    PROVE  Kept
<1>1. Untouched(m, m)
  BY DEF Untouched
<1>2. scenario \in ScenarioKinds
  BY VoipAssumption DEF Inductive, TypeOK
<1>3. ASSUME NEW e \in scenario.messages, Message(e) PROVE Kept
  <2>1. e \in MessageEvents
    BY <1>2 DEF ScenarioKinds
  <2>2. e \in Events /\ e.kind \notin Fetches
    BY <2>1 DEF Events, PlatformEvents, MessageEvents, Fetches
  <2>3. m' = m /\ PlatformFrame /\ PlatformEvent(e)
    BY <1>3 DEF Message, PlatformEvent
  <2>4. QED
    BY <1>1, <2>2, <2>3, EventKeeps
<1>4. ASSUME NEW command \in scenario.commands, User(command) PROVE Kept
  <2> DEFINE e == [kind |-> "user", command |-> command]
  <2>1. command \in CommandKinds
    BY <1>2 DEF ScenarioKinds
  <2>2. e \in Events /\ e.kind \notin Fetches
    BY <2>1 DEF Events, UserEvents, Fetches
  <2>3. m' = m /\ PlatformFrame /\ PlatformEvent(e)
    BY <1>4 DEF User, PlatformEvent
  <2> HIDE DEF e
  <2>4. QED
    BY <1>1, <2>2, <2>3, EventKeeps
<1>5. QED
  BY <1>3, <1>4

\* process_request() of a call.
LEMMA RespondCallKeeps ==
    ASSUME Inductive, Inductive', HistoryInv, Recorded,
           NEW result \in {"ok", "error", "oversized"}, NEW id \in IdOrNone,
           RespondCall(result, id)
    PROVE  Kept
<1> DEFINE e == [kind |-> "call_result", gen |-> m.callRequest, result |-> result, id |-> id]
<1>1. m \in Machine
  BY DEF Inductive, TypeOK
<1>2. PlatformFrame /\ PlatformEvent(e)
  BY DEF RespondCall
<1>3. e \in Events /\ e.kind \notin Fetches
  BY <1>1 DEF Events, PlatformEvents, Machine, IdOrNone, Fetches
<1>4. Untouched(m, m')
  BY <1>1, SMTT(30) DEF RespondCall, Untouched, Machine
<1> HIDE DEF e
<1>5. QED
  BY <1>2, <1>3, <1>4, EventKeeps

\* process_request() of a profile or a contact list.
LEMMA RespondFetchKeeps ==
    ASSUME Inductive, Inductive', HistoryInv, Recorded,
           NEW op \in Fetches, NEW ok \in BOOLEAN, RespondFetch(op, ok)
    PROVE  Kept
<1> DEFINE e == [kind |-> op, ok |-> ok]
<1>1. /\ m \in Machine /\ m' \in Machine /\ queue \in Seq(Events)
      /\ Fetching(m, queue, outdated)
  BY DEF Inductive, TypeOK, Events, HistoryInv
<1>2. PlatformFrame /\ PlatformEvent(e) /\ op \in m.fetches
  BY DEF RespondFetch
<1>3. e \in Events /\ e.kind = op
  BY DEF Events, PlatformEvents, Fetches
<1>4. /\ m'.fetches = m.fetches \ {op}
      /\ SameCall(m, m') /\ Trusts(m, m')
      /\ \A f \in Fetches : (Pending(m', f) <=> Pending(m, f)) /\ (Dirty(m', f) <=> Dirty(m, f))
  BY <1>1, SMTT(30) DEF RespondFetch, SameCall, Trusts, Pending, Dirty, Machine
<1> HIDE DEF e
<1>5. queue' \in {queue, Append(queue, e)} /\ turn' = turn
  BY <1>2 DEF PlatformEvent, Delivered, Enqueue, Lost, PlatformFrame
<1>6. outdated' \subseteq outdated
  BY <1>5 DEF Recorded, Outdates, Taking, Fetches
<1>7. Fetching(m, queue, outdated')
  BY <1>1, <1>6 DEF Fetching
<1>8. Fetching(m', queue', outdated')
  <2>1. /\ e.kind \in m.fetches /\ e.kind \in Fetches
        /\ m'.fetches = m.fetches \ {e.kind}
    BY <1>2, <1>3, <1>4
  <2>2. Fetching(m', queue, outdated') /\ Fetching(m', Append(queue, e), outdated')
    BY <1>1, <1>3, <1>4, <1>7, <2>1, FetchingAnswered
  <2>3. QED
    BY <1>5, <2>2
<1>9. NothingOld
  BY <1>4 DEF Trusts, NothingOld
<1>10. QED
  BY <1>1, <1>4, <1>8, <1>9, CallKeeps DEF CallStep

-----------------------------------------------------------------------------

\* Nothing has happened yet.
LEMMA InitHistory == ASSUME HInit PROVE HistoryInv
<1>1. 1 \in Calls /\ None \in RoomOrNone
  BY VoipAssumption DEF Calls, RoomOrNone
<1>2. Remembers(m, past)
  BY <1>1 DEF HInit, Init, Boot, Remembers
<1>3. Fetching(m, queue, outdated)
  BY DEF HInit, Init, Boot, Fetching
<1>4. QED
  BY <1>1, <1>2, <1>3 DEF HInit, HistoryInv

\* Every step keeps the history: one step per action.
LEMMA NextHistory ==
    ASSUME Inductive, HistoryInv, HNext
    PROVE  Kept
<1>1. Recorded /\ Next
  BY AllRecorded DEF HNext
<1>2. Inductive'
  BY <1>1, NextInductive
<1>3. CASE Task
  BY <1>1, <1>2, <1>3, TakeRtcKeeps, TakeEventKeeps, TailKeeps DEF Task
<1>4. CASE Sdk
  BY <1>1, <1>2, <1>4, SdkKeeps
<1>5. CASE Platform
  <2>1. None \in IdOrNone /\ \A id \in CallIds : id \in IdOrNone
    BY DEF IdOrNone
  <2>2. CASE LinkUp \/ NetworkDown \/ NoticeDown
    BY <1>1, <1>2, <2>2, LinkKeeps
  <2>3. CASE AnnounceOnline \/ LinkDown \/ Unbind
    BY <1>1, <1>2, <2>3, SessionKeeps
  <2>4. CASE \E op \in Fetches, ok \in BOOLEAN : RespondFetch(op, ok)
    BY <1>1, <1>2, <2>4, RespondFetchKeeps
  <2>5. CASE \/ \E id \in CallIds : RespondCall("ok", id)
             \/ \E result \in {"error", "oversized"} : RespondCall(result, None)
    BY <1>1, <1>2, <2>1, <2>5, RespondCallKeeps
  <2>6. CASE \E e \in scenario.messages : Message(e)
    BY <1>1, <1>2, <2>6, MessageKeeps
  <2>7. QED
    BY <1>5, <2>2, <2>3, <2>4, <2>5, <2>6 DEF Platform
<1>6. CASE \E command \in scenario.commands : User(command)
  BY <1>1, <1>2, <1>6, MessageKeeps
<1>7. QED
  BY <1>1, <1>3, <1>4, <1>5, <1>6 DEF Next

\* Whatever it remembers, the task goes through the states of VoipControl.
LEMMA HistoryInductive == HSpec => []Inductive
<1>1. HInit => Inductive
  BY InitInductive DEF HInit
<1>2. Inductive /\ [HNext]_hvars => Inductive'
  BY NextInductive DEF HNext, hvars
<1>3. QED
  BY <1>1, <1>2, PTL DEF HSpec

\* The slots of finish() hold the rooms of the last calls, and the dirty flags
\* mark the fetches that were outdated, in every reachable state.
THEOREM AlwaysHistory == HSpec => []HistoryInv
<1>1. HInit => HistoryInv
  BY InitHistory
<1>2. Inductive /\ HistoryInv /\ [HNext]_hvars => HistoryInv'
  <2>1. ASSUME Inductive, HistoryInv, HNext PROVE HistoryInv'
    BY <2>1, NextHistory DEF Kept
  <2>2. ASSUME HistoryInv, UNCHANGED hvars PROVE HistoryInv'
    BY <2>2 DEF HistoryInv, hvars, vars
  <2>3. QED
    BY <2>1, <2>2
<1>3. QED
  BY <1>1, <1>2, HistoryInductive, PTL DEF HSpec

\* A room of one of the last ClosedSlots calls is not taken again, however
\* those calls ended (finish(), incoming()).
THEOREM NoRoomRetaken == HSpec => RoomNotRetaken
<1>1. /\ Inductive /\ HistoryInv /\ [HNext]_hvars
      => [TakesRoom => \A i \in Calls : past[i] # m'.room]_hvars
  BY NextHistory DEF Kept, NewRoom
<1>2. QED
  BY <1>1, HistoryInductive, AlwaysHistory, PTL DEF HSpec, RoomNotRetaken

\* An answer that was under way when its data were revoked does not bring them
\* back (callers_update, offline, unbound; http_result()).
THEOREM RevokedStaysRevoked == HSpec => NothingRevokedReturns
<1>1. /\ Inductive /\ HistoryInv /\ [HNext]_hvars
      => [/\ ~m.contacts /\ m'.contacts => "contacts" \notin outdated
          /\ ~m.profileReady /\ m'.profileReady => "profile" \notin outdated]_hvars
  BY NextHistory DEF Kept, NothingOld
<1>2. QED
  BY <1>1, HistoryInductive, AlwaysHistory, PTL DEF HSpec, NothingRevokedReturns
===============================================================================
