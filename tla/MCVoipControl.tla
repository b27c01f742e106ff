--------------------------- MODULE MCVoipControl ---------------------------
(* VoipControl for TLC: the payloads the service sends, and the scenarios. *)
EXTENDS VoipInvariant

CONSTANTS r1, r2, k1

MCRooms == {r1, r2}
MCCallIds == {k1}

\* A call from WeChat, and the room of a call the device has made: its id may
\* be missing, and the room may be told before the HTTP response.
Inbound(room)      == [room |-> room, id |-> None, own |-> FALSE,
                       sameUser |-> TRUE, voice |-> TRUE]
Outbound(room, id) == [room |-> room, id |-> id, own |-> TRUE,
                       sameUser |-> TRUE, voice |-> TRUE]

Ring   == [kind |-> "incoming", invite |-> Inbound(r1)]
Joined == [kind |-> "incoming", invite |-> Outbound(r2, k1)]
Cancel == [kind |-> "cancel", room |-> r1]

Scenario(messages, signals, commands, faults) ==
    [messages |-> messages, signals |-> signals, commands |-> commands, faults |-> faults]

\* Calls in both directions, answered and hung up by either side.
Calls == Scenario({Ring, Joined, Cancel}, SignalKinds, {"primary", "reject"}, {"foreign"})

\* What the SDK is asked to do fails, or its events are lost.
Failing == Scenario({Ring}, {"answered", "hangup"}, {"answer", "hangup"},
                    {"connect", "drop", "disconnect", "stop", "lost_rtc"})

\* What is asked of the SDK and of the platform is refused.
Refused == Scenario({Joined}, {"answered"}, {"call", "hangup"},
                    {"start", "connect", "request", "response"})

\* The network and the device's binding come and go.
Outage == Scenario({Joined}, {}, {"call", "retry"},
                   {"offline", "missed", "unbound"})

\* Events of both queues are lost.
Loss      == Scenario({Ring}, {}, {"answer", "hangup"}, {"lost_event", "lost_rtc"})
LossyLink == Scenario({}, {}, {"contacts"},
                      {"offline", "network", "unbound", "lost_event"})

CallScenarios  == {Calls}
FaultScenarios == {Failing, Refused, Outage, Loss, LossyLink}

\* For liveness: calls that end badly, and links that come and go.
EndScenarios == {Scenario({Joined}, {"answered"}, {"call", "hangup"},
                          {"connect", "disconnect", "drop"}),
                 Scenario({}, {}, {}, {"unbound", "offline"})}

\* For what the documentation says.
DropScenarios == {Scenario({Ring}, {}, {"answer", "hangup"}, {"drop"})}
LossScenarios == {Scenario({Joined}, {}, {"call", "hangup"}, {"lost_event"})}
=============================================================================
