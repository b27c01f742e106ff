---------------------------- MODULE MCS3Session ----------------------------
(* S3Session for TLC: the scenarios.                                       *)
EXTENDS S3Session

Scenario(calls, auto, short, long, cancels, signals, faults) ==
    [calls |-> calls, auto |-> auto, short |-> short, long |-> long,
     cancels |-> cancels, signals |-> signals, faults |-> faults]

\* A call from WeChat, answered, and ended by either side.
Answered == Scenario(1, {FALSE}, 1, 0, 1, {"connected"}, {})

\* A call the device has asked for, and all that may go wrong with it.
Trouble == Scenario(1, {TRUE}, 0, 0, 0, {"connected", "hangup"}, FaultKinds)

\* A connection that breaks, confirmed or not.
Broken == Scenario(1, {TRUE}, 0, 0, 0, {"connected", "error"}, {})

\* A key pressed, and held down.
Pressed == Scenario(1, {FALSE}, 1, 1, 0, {}, {})

\* An invitation is withdrawn and another follows.
TwoRings == Scenario(2, {FALSE}, 1, 0, 1, {}, {})

\* Two calls of the device's, neither of them confirmed.
TwoCalls == Scenario(2, {TRUE}, 0, 0, 0, {}, {"whip"})

CallScenarios == {Answered, Trouble, Broken, Pressed, TwoRings, TwoCalls}

\* For what the comments say.
StaleScenarios == {Scenario(2, {FALSE}, 1, 0, 1, {}, {})}
LateScenarios  == {Scenario(2, {TRUE}, 0, 0, 1, {}, {})}
=============================================================================
