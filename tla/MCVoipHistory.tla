--------------------------- MODULE MCVoipHistory ---------------------------
(* VoipHistory for TLC: many rooms, all of them calls from WeChat.         *)
EXTENDS VoipHistory, TLC

CONSTANTS k1

MCCallIds == {k1}

Invite(room, id, own) ==
    [kind |-> "incoming",
     invite |-> [room |-> room, id |-> id, own |-> own, sameUser |-> TRUE, voice |-> TRUE]]

Invites == {Invite(room, None, FALSE) : room \in Rooms}

\* The rooms of calls the device has made.
Joins == {Invite(room, None, TRUE) : room \in Rooms}

\* Rooms that come one after the other, calls that are dialled between them,
\* and revocations of the contacts.
HistoryScenarios ==
    {[messages |-> Invites, signals |-> {"hangup"},
      commands |-> {"answer", "reject"}, faults |-> {"connect"}],
     [messages |-> Invites \cup Joins, signals |-> {},
      commands |-> {"call", "hangup"}, faults |-> {"connect"}],
     [messages |-> {[kind |-> "callers_update"]}, signals |-> {},
      commands |-> {"call", "contacts"}, faults |-> {"offline", "unbound"}]}

RoomSymmetry == Permutations(Rooms)
=============================================================================
