--------------------------- MODULE VoipInvariant ---------------------------
(***************************************************************************)
(* The inductive invariant behind the safety properties of VoipControl.    *)
(*                                                                         *)
(* Settled(s) speaks of the control task's record alone; every handler     *)
(* keeps it.  InFlight ties the record to the two queues: a WHIP result, a *)
(* stop and the response to a call request are each under way at most      *)
(* once, and only while the task waits for them.  That is why a late event *)
(* finds no later call to disturb.                                         *)
(***************************************************************************)
EXTENDS VoipControl

Clean(s) ==
    /\ ~Unfinished(s)
    /\ s.room = None /\ s.callId = None /\ ~s.payload
    /\ s.audio = 0 /\ ~s.mediaStarted
    /\ ~s.localEnd /\ ~s.told
    /\ ~s.deadline /\ ~s.closeDeadline

\* What a call has in each stage.
Staged(s) ==
    /\ s.stage = "idle" => Clean(s)
    /\ s.stage # "idle" => s.generation # 0
    /\ s.stage = "dialing" => s.outgoing
    /\ s.stage \in {"dialing", "ringing", "connecting"} =>
            s.connection = 0 /\ ~s.transport_ready
    /\ \/ s.stage \in {"idle", "closing"}
       \/ s.stage = "active" /\ s.mediaStarted
       \/ s.deadline
    /\ s.closeDeadline => s.stage = "closing"

\* The connection of a call, and what depends on it.
Connected(s) ==
    /\ s.connection \in {0, s.generation} /\ s.closing \in {0, s.generation}
    /\ s.closing # 0 => s.stage = "closing"
    /\ s.audio # 0 => s.stage = "active" /\ s.audio = s.connection
    /\ s.stage = "closing" /\ (s.connection # 0 \/ s.closing # 0) =>
            s.told = s.localEnd

\* What the task has asked for and waits for.
Asked(s) ==
    /\ s.connectPending =>
            s.stage \in {"connecting", "closing"} /\ s.connection = 0 /\ s.closing = 0
    /\ s.whip # 0 => s.connectPending /\ s.whip = s.generation /\ s.inputs
    /\ s.callRequest # 0 => s.callPending /\ s.callRequest = s.generation

\* The SDK under the call.
Powered(s) ==
    /\ s.sdkStopping => s.needShutdown /\ s.sdkInitialized
    /\ s.phase = "stopping" => s.sdkStopping
    /\ s.stage \notin {"idle", "closing"} => s.sdkReady /\ ~s.sdkStopping

\* An SDK that is to be stopped carries no call.
Retreats(s) == s.needShutdown => s.stage \in {"idle", "closing"}

Settled(s) == Staged(s) /\ Connected(s) /\ Asked(s) /\ Powered(s) /\ Retreats(s)

\* The results the RTC queue may hold.
RtcInFlight(s, q) ==
    \A i \in 1 .. Len(q) :
        /\ q[i].kind = "connected" =>
                /\ s.connectPending /\ s.whip = 0
                /\ q[i].gen = s.generation /\ q[i].conn \in {0, s.generation}
                /\ \A j \in 1 .. Len(q) : q[j].kind = "connected" => j = i
        /\ q[i].kind = "stopped" =>
                /\ s.sdkStopping /\ s.phase = "off" /\ s.whip = 0
                /\ \A j \in 1 .. Len(q) : q[j].kind = "stopped" => j = i
                /\ \A j \in i .. Len(q) : q[j].kind # "connected"
        /\ q[i].kind = "closed" => q[i].conn # 0

\* The response the other queue may hold.
CallInFlight(s, q) ==
    \A i \in 1 .. Len(q) : q[i].kind = "call_result" =>
        /\ s.callPending /\ s.callRequest = 0
        /\ q[i].gen = s.generation
        /\ \A j \in 1 .. Len(q) : q[j].kind = "call_result" => j = i

\* Every reachable state is settled: what each call holds fits its stage, and
\* no result of an earlier call is anywhere on its way (voip.c, rtc_adapter.c).
Inductive ==
    /\ TypeOK
    /\ Settled(m)
    /\ RtcInFlight(m, rtcQueue)
    /\ CallInFlight(m, queue)

-----------------------------------------------------------------------------
(* The connection under the call.  Phased, Linked, LinksInFlight and Served *)
(* add what the SDK is doing, with the RTC queue q and the failure flag f.  *)

InQueue(q, kind) == \E i \in 1 .. Len(q) : q[i].kind = kind

\* The phase of the SDK follows from what the task knows of it.
Phased(s, q) ==
    /\ ~s.sdkInitialized =>
            /\ s.phase = "off" /\ ~s.sdkReady
            /\ ~s.connectPending /\ s.connection = 0 /\ s.closing = 0
    /\ ~s.sdkStopping /\ (s.sdkReady \/ InQueue(q, "started")) => s.phase = "started"
    /\ s.sdkStopping => s.phase \in {"stopping", "off"}
    /\ s.whip # 0 \/ s.live # 0 => s.phase \in {"started", "stopping"}

\* The SDK's open connection is the present call's.
Linked(s) ==
    /\ s.live # 0 =>
            /\ s.live = s.generation /\ s.whip = 0
            /\ s.live \in {s.connection, s.closing} \/ s.connectPending
    /\ s.dropping \in {0, s.live}

\* The RTC queue tells of the present call's connection, in order.
LinksInFlight(s, q) ==
    \A i \in 1 .. Len(q) :
        /\ q[i].kind = "connected" => s.live \in {0, q[i].conn}
        /\ q[i].kind = "closed" =>
                /\ q[i].gen = s.generation /\ q[i].conn = s.generation
                /\ s.live = 0 /\ s.whip = 0
                /\ \A j \in i .. Len(q) : q[j].kind # "connected"
        /\ q[i].kind = "stopped" => \A j \in i .. Len(q) : q[j].kind # "started"

\* Whatever is waited for is under way, unless the task is giving up.
Served(s, q, f) ==
    \/ f \/ s.needShutdown
    \/ /\ s.connectPending => s.whip # 0 \/ InQueue(q, "connected")
       /\ s.closing # 0 => s.dropping = s.closing \/ InQueue(q, "closed")
       /\ s.connection # 0 => s.live = s.connection \/ InQueue(q, "closed")
       /\ \A i \in 1 .. Len(q) : q[i].kind = "connected" /\ q[i].conn # 0 =>
                s.live # 0 \/ InQueue(q, "closed")

Links(s, q, f) ==
    Phased(s, q) /\ Linked(s) /\ LinksInFlight(s, q) /\ Served(s, q, f)

\* No connection is lost sight of, and no end of one goes unheard (voip.c
\* task(), rtc_adapter.c).
LinkInv == Links(m, rtcQueue, eventFailure)
=============================================================================
