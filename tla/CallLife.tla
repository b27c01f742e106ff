------------------------------ MODULE CallLife ------------------------------
(***************************************************************************)
(* What a device's call control promises, whatever the events it is fed:   *)
(* one call at a time, under a number of its own; a call only moves        *)
(* forward, and once it is ending nothing revives it; audio flows only     *)
(* while the two sides are talking.  An abstract specification: it has no  *)
(* code of its own, and VoipControl is shown to implement it.              *)
(***************************************************************************)
EXTENDS Integers

CONSTANT GenMod     \* how many numbers there are, as in CallState

VARIABLES
    phase,      \* where the call is
    session,    \* its number, or that of the last call
    audio       \* the microphone is on the line

vars == <<phase, session, audio>>

Phases == {"none", "inviting", "joining", "talking", "ending"}

Sessions == 0 .. GenMod - 1

Init == phase = "none" /\ session = 0 /\ audio = FALSE

\* A number is used up even by a call that fails at once.
Begin ==
    /\ phase = "none"
    /\ phase' \in {"inviting", "ending", "none"}
    /\ session' \in Sessions \ {0, session}
    /\ audio' = FALSE

Join ==
    /\ phase = "inviting"
    /\ phase' = "joining"
    /\ UNCHANGED <<session, audio>>

Talk ==
    /\ phase = "joining"
    /\ phase' = "talking"
    /\ UNCHANGED <<session, audio>>

StartAudio ==
    /\ phase = "talking"
    /\ audio' = TRUE
    /\ UNCHANGED <<phase, session>>

\* An end may take time, or none.
End ==
    /\ phase # "none"
    /\ phase' \in {"ending", "none"}
    /\ audio' = FALSE
    /\ UNCHANGED session

Next == Begin \/ Join \/ Talk \/ StartAudio \/ End

Spec == Init /\ [][Next]_vars

\* A call that is ending does end.
EndsLife == phase = "ending" ~> phase = "none"
=============================================================================
