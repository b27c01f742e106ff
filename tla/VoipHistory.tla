---------------------------- MODULE VoipHistory ----------------------------
(***************************************************************************)
(* VoipControl with a memory of its past that the program does not have:   *)
(* whose the last calls were, and whether what it has asked the platform   *)
(* for was outdated by a later event.  History variables only: no step of  *)
(* VoipControl is restricted.                                              *)
(***************************************************************************)
EXTENDS VoipControl

VARIABLES
    past,           \* the rooms of the last ClosedSlots calls, newest first
    outdated        \* the outstanding fetches an event has outdated since

hvars == <<vars, past, outdated>>

Calls == 1 .. ClosedSlots

BeginsCall == m.stage = "idle" /\ m'.stage # "idle"

TakesRoom == m'.room # None /\ m'.room # m.room

\* A call comes first, before those there were.  One that is dialled has its
\* room later, or never.
Shifted == [i \in Calls |-> IF i = 1 THEN m'.room ELSE past[i - 1]]

\* The event the control task takes in this step.
Taking(kinds) == turn = "head" /\ turn' = "tail" /\ queue # <<>> /\ Head(queue).kind \in kinds

\* A profile or a list asked for before these is not what they leave behind.
Outdates(op) ==
    CASE op = "profile"  -> Taking({"offline", "unbound"})
      [] op = "contacts" -> Taking({"offline", "unbound", "callers_update"})

Requested(op) == op \notin m.fetches /\ op \in m'.fetches

HInit == Init /\ past = [i \in Calls |-> None] /\ outdated = {}

HNext ==
    /\ Next
    /\ past' = IF BeginsCall     THEN Shifted
               ELSE IF TakesRoom THEN [past EXCEPT ![1] = m'.room]
               ELSE past
    /\ outdated' = {op \in Fetches : ~Requested(op) /\ (op \in outdated \/ Outdates(op))}

HSpec == HInit /\ [][HNext]_hvars

-----------------------------------------------------------------------------

\* A room does not ring or connect again while it was that of one of the last
\* ClosedSlots calls, however that call ended (finish() and incoming()).
RoomNotRetaken ==
    [][TakesRoom => \A i \in Calls : past[i] # m'.room]_hvars

\* The contacts shown, and the profile relied on, are never older than the
\* event that revoked the ones before (callers_update, offline, unbound): an
\* answer that was under way does not bring them back (the dirty flags).
NothingRevokedReturns ==
    [][/\ ~m.contacts /\ m'.contacts => "contacts" \notin outdated
       /\ ~m.profileReady /\ m'.profileReady => "profile" \notin outdated]_hvars

-----------------------------------------------------------------------------
(* Why they hold: the task's tables and flags agree with its past.         *)

\* The slot of the p-th last call that finish() remembered in s.
Slot(s, p) ==
    IF p <= s.closedIndex THEN s.closedIndex - p ELSE s.closedIndex + ClosedSlots - p

Present(s) == IF s.stage = "idle" THEN 0 ELSE 1

\* The room of an earlier call is still in a slot, no older than the call: a
\* call that never had a room or an id takes none.
Remembers(s, rooms) ==
    /\ s.stage # "idle" => rooms[1] = s.room
    /\ s.stage = "dialing" => s.room = None
    /\ \A i \in Calls : i > Present(s) /\ rooms[i] # None =>
            \E p \in 1 .. i - Present(s) : s.closed[Slot(s, p)].room = rooms[i]

Pending(s, op) == IF op = "profile" THEN s.profilePending ELSE s.contactsPending
Dirty(s, op)   == IF op = "profile" THEN s.profileDirty ELSE s.contactsDirty

\* A fetch has one answer, on its way once; what has outdated it marked it dirty.
Fetching(s, q, old) ==
    \A op \in Fetches :
        /\ op \in s.fetches => Pending(s, op)
        /\ \A i \in 1 .. Len(q) : q[i].kind = op =>
                /\ Pending(s, op) /\ op \notin s.fetches
                /\ \A j \in 1 .. Len(q) : q[j].kind = op => j = i
        /\ op \in old /\ Pending(s, op) => Dirty(s, op)

HistoryInv ==
    /\ past \in [Calls -> RoomOrNone]
    /\ outdated \subseteq Fetches
    /\ Remembers(m, past)
    /\ Fetching(m, queue, outdated)
=============================================================================
