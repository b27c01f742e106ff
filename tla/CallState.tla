----------------------------- MODULE CallState -----------------------------
(***************************************************************************)
(* The call state machine of the ESP32-C3 example:                         *)
(*   examples/wechat_voip_esp32c3/components/wechat_voip/voip_state.c      *)
(*                                                                         *)
(* Each function of the source that changes a call_state_t is an operator  *)
(* on a record with the fields of call_state_t (a record with more fields  *)
(* keeps them), so the control task's module can apply them to its own     *)
(* state.  A function that returns false leaves its argument alone; the    *)
(* operator then returns the record it was given.                          *)
(***************************************************************************)
EXTENDS Integers

CONSTANT
    GenMod      \* generations are unsigned, modulo GenMod (2^32 in the source)

ASSUME GenModAssumption == GenMod \in Nat /\ GenMod > 2

\* call_stage_t
Stages == {"idle", "dialing", "ringing", "connecting", "waiting_peer",
           "active", "closing"}

\* Generation 0 is the one no call has had; a wrap skips it.
Generations == 0 .. GenMod - 1

CallState == [ stage           : Stages,
               generation      : Generations,
               outgoing        : BOOLEAN,
               transport_ready : BOOLEAN,
               peer_answered   : BOOLEAN ]

NoCall == [ stage           |-> "idle",
            generation      |-> 0,
            outgoing        |-> FALSE,
            transport_ready |-> FALSE,
            peer_answered   |-> FALSE ]

NextGeneration(g) ==
    LET next == (g + 1) % GenMod
    IN  IF next = 0 THEN 1 ELSE next

CallBegin(s, out) ==
    IF s.stage # "idle"
    THEN s
    ELSE [s EXCEPT !.stage           = IF out THEN "dialing" ELSE "ringing",
                   !.generation      = NextGeneration(@),
                   !.outgoing        = out,
                   !.transport_ready = FALSE,
                   !.peer_answered   = FALSE]

CallAccept(s) ==
    IF s.stage = "ringing" THEN [s EXCEPT !.stage = "connecting"] ELSE s

CallJoinOutgoing(s) ==
    IF s.stage = "dialing" /\ s.outgoing
    THEN [s EXCEPT !.stage = "connecting"]
    ELSE s

CallTransportReady(s, g) ==
    IF g = s.generation /\ s.stage = "connecting"
    THEN [s EXCEPT !.transport_ready = TRUE,
                   !.stage = IF s.peer_answered THEN "active" ELSE "waiting_peer"]
    ELSE s

\* Mutant: the stage is not looked at.
CallPeerAnsweredAnyStage(s, g) ==
    IF g = s.generation
    THEN [s EXCEPT !.peer_answered = TRUE,
                   !.stage = IF s.transport_ready THEN "active" ELSE @]
    ELSE s

CallPeerAnswered(s, g) ==
    IF g = s.generation /\ s.stage \in {"connecting", "waiting_peer"}
    THEN [s EXCEPT !.peer_answered = TRUE,
                   !.stage = IF s.transport_ready THEN "active" ELSE @]
    ELSE s

CallClose(s) ==
    IF s.stage # "idle" THEN [s EXCEPT !.stage = "closing"] ELSE s

CallFinish(s) ==
    [s EXCEPT !.stage           = "idle",
              !.outgoing        = FALSE,
              !.transport_ready = FALSE,
              !.peer_answered   = FALSE]

\* What the BOOT key does in a stage.
CallPrimaryAction(stage) ==
    CASE stage = "idle"    -> "dial_first"
      [] stage = "ringing" -> "answer"
      [] stage = "closing" -> "none"
      [] OTHER             -> "hangup"
=============================================================================
